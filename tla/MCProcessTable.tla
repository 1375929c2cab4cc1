--------------------------- MODULE MCProcessTable ---------------------------
(* ProcessTable on small instances: one or two PID numbers, each had by up  *)
(* to MaxGen processes, the first of them listed at Configure().            *)
EXTENDS ProcessTable

CONSTANTS p1, p2

RootP1 == <<p1>>
=============================================================================
