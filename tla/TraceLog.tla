------------------------------ MODULE TraceLog ------------------------------
(***************************************************************************)
(* What a probe's buffers and its flush thread promise together: whatever  *)
(* was recorded reaches the trace file at most once, and whatever was      *)
(* recorded before Stop() was called is in it when Stop() returns.         *)
(*                                                                         *)
(* The records are numbered in the order they were accepted. size is the   *)
(* number of records in the file; a duplicate would make it exceed the     *)
(* number of different ones.                                               *)
(***************************************************************************)
EXTENDS Integers, FiniteSets

VARIABLES accepted, delivered, size, due, closing

logVars == <<accepted, delivered, size, due, closing>>

Init == accepted = 0 /\ delivered = {} /\ size = 0 /\ due = 0 /\ closing = "no"

Accept ==
  /\ accepted' = accepted + 1
  /\ UNCHANGED <<delivered, size, due, closing>>

Deliver(S) ==
  /\ closing # "done"
  /\ S \subseteq 1..accepted \ delivered
  /\ delivered' = delivered \union S
  /\ size' = size + Cardinality(S)

Stop ==
  /\ closing = "no"
  /\ closing' = "begun"
  /\ due' = accepted
  /\ UNCHANGED <<accepted, delivered, size>>

Close ==
  /\ closing = "begun"
  /\ closing' = "done"
  /\ \E S \in SUBSET (1..accepted \ delivered) : Deliver(S) /\ 1..due \subseteq delivered'
  /\ UNCHANGED <<accepted, due>>

Next ==
  \/ Accept
  \/ \E S \in SUBSET (1..accepted \ delivered) : Deliver(S) /\ UNCHANGED <<accepted, due, closing>>
  \/ Stop
  \/ Close

Spec == Init /\ [][Next]_logVars
=============================================================================
