---------------------------- MODULE EventTracker ----------------------------
(***************************************************************************)
(* One EventTracker of the EventProfiler (domain "GPU" or "GENERIC"), the  *)
(* threads that annotate with it, the events flush thread and Stop().      *)
(*                                                                         *)
(* A call records a cudaEvent on the stream (GPU) or reads the clock       *)
(* (GENERIC) before it takes the tracker's mutex: two steps. The flush     *)
(* thread swaps the lists out under the mutex, resolves the finished       *)
(* events without it, and puts the rest back in front.                     *)
(*                                                                         *)
(* A cudaEvent is its position on the stream; the GPU completes them in    *)
(* order. An item is an ended region or a mark, numbered when it entered   *)
(* the tracker's lists. Names and timestamps are left out.                 *)
(***************************************************************************)
EXTENDS Integers, FiniteSets, SequencesExt

CONSTANTS Clients,   \* threads annotating
          Domains,   \* the domains a tracker may be made for
          MaxCalls,  \* bound: Begin, End and Mark calls
          GpuMayFail \* may the GPU's work fail?

ASSUME DomainAssumption == Domains \subseteq {"GPU", "GENERIC"}
ASSUME CallsAssumption  == MaxCalls \in Nat
ASSUME FlagAssumption   == GpuMayFail \in BOOLEAN

VARIABLES
  domain,                            \* fixed when the tracker is made
  recorded, completed, live,         \* the stream: events recorded, finished, not yet destroyed
  failed,                            \* the stream's work failed
  pendingRegions, nextRegionId,      \* begun regions: id -> start event
  waiting, resolved, ended,          \* awaitingRegions, pendingGpuEvents; ready items; items so far
  call, calls,                       \* the client calls in progress; how many were made
  fpc, local, left, out, stats,      \* Drain and the flush around it
  written,                           \* items in the file
  phase, due                         \* Stop()'s progress; the items ended before it

streamVars  == <<recorded, completed, live, failed>>
regionVars  == <<pendingRegions, nextRegionId>>
bufferVars  == <<waiting, resolved, ended>>
clientVars  == <<call, calls>>
drainVars   == <<local, left, out>>
vars == <<domain, streamVars, regionVars, bufferVars, clientVars, drainVars, fpc, stats, written, phase, due>>

Kinds    == {"region", "mark"}   \* awaitingRegions, pendingGpuEvents
NoneLeft == [k \in Kinds |-> <<>>]
Idle     == [op |-> "idle", id |-> 0, ev |-> 0]

Entry == [item : Nat, evs : SUBSET Nat]
ItemsOf(s) == {s[i].item : i \in DOMAIN s}
EventsOf(s) == UNION {s[i].evs : i \in DOMAIN s}
CallEvents(c) == {call[c].ev} \ {0}

Init ==
  /\ domain \in Domains
  /\ recorded = 0 /\ completed = 0 /\ live = {} /\ failed = FALSE
  /\ pendingRegions = [i \in {} |-> 0] /\ nextRegionId = 0
  /\ waiting = NoneLeft /\ resolved = <<>> /\ ended = 0
  /\ call = [c \in Clients |-> Idle] /\ calls = 0
  /\ fpc = "wait" /\ local = NoneLeft /\ left = NoneLeft /\ out = <<>> /\ stats = FALSE
  /\ written = <<>>
  /\ phase = "run" /\ due = 0

---------------------------------------------------------------------------
(* The GPU finishes the recorded events in stream order, unless its work   *)
(* fails: then nothing more completes, and CUDA answers with errors.       *)

GpuCompletes ==
  /\ completed < recorded /\ ~failed
  /\ completed' = completed + 1
  /\ UNCHANGED <<domain, recorded, live, failed, regionVars, bufferVars, clientVars, drainVars, fpc, stats,
                 written, phase, due>>

GpuFails ==
  /\ completed < recorded /\ ~failed /\ GpuMayFail
  /\ failed' = TRUE
  /\ UNCHANGED <<domain, recorded, completed, live, regionVars, bufferVars, clientVars, drainVars, fpc,
                 stats, written, phase, due>>

---------------------------------------------------------------------------
(* The annotating threads.                                                 *)

\* Before the mutex: cudaEventCreate and cudaEventRecord, or the clock. A caller
\* whose CUDA call fails exits the process; its exit hook is a Stop() like any.
Capture(c, op, id) ==
  /\ call[c].op = "idle" /\ (domain = "GPU" => ~failed)
  /\ calls < MaxCalls
  /\ calls' = calls + 1
  /\ LET ev == IF domain = "GPU" THEN recorded + 1 ELSE 0 IN
       /\ call' = [call EXCEPT ![c] = [op |-> op, id |-> id, ev |-> ev]]
       /\ IF domain = "GPU" THEN recorded' = ev /\ live' = live \union {ev}
                            ELSE UNCHANGED <<recorded, live>>
  /\ UNCHANGED <<completed, failed, regionVars, bufferVars, drainVars, fpc, stats, written, phase, due>>

\* The id may come from another thread, and may have been ended before.
CaptureEnd(c) == \E id \in 0..(nextRegionId - 1) : Capture(c, "end", id)

Returns(c) ==
  /\ call' = [call EXCEPT ![c] = Idle]
  /\ UNCHANGED <<recorded, completed, failed, calls, drainVars, fpc, stats, written, phase, due>>

NextId == nextRegionId

BeginRegion(c) ==
  /\ call[c].op = "begin"
  /\ pendingRegions' = [i \in DOMAIN pendingRegions \union {NextId} |->
                          IF i = NextId THEN call[c].ev ELSE pendingRegions[i]]
  /\ nextRegionId' = nextRegionId + 1
  /\ Returns(c)
  /\ UNCHANGED <<live, bufferVars>>

\* An item enters the list of its kind, or, its time known, the ready ones.
Enter(kind, evs) ==
  /\ ended' = ended + 1
  /\ IF domain = "GPU"
       THEN /\ waiting' = [waiting EXCEPT ![kind] = Append(@, [item |-> ended + 1, evs |-> evs])]
            /\ UNCHANGED resolved
       ELSE /\ resolved' = Append(resolved, ended + 1)
            /\ UNCHANGED waiting

EndRegion(c) ==
  /\ call[c].op = "end"
  /\ LET id == call[c].id IN
       /\ id \in DOMAIN pendingRegions
       /\ Enter("region", ({pendingRegions[id]} \ {0}) \union CallEvents(c))
       /\ pendingRegions' = [i \in DOMAIN pendingRegions \ {id} |-> pendingRegions[i]]
  /\ Returns(c)
  /\ UNCHANGED <<live, nextRegionId>>

EndUnknownLeaks(c) ==   \* mutant: the end event of an unknown id is kept
  /\ call[c].op = "end" /\ call[c].id \notin DOMAIN pendingRegions
  /\ Returns(c)
  /\ UNCHANGED <<live, regionVars, bufferVars>>

EndUnknown(c) ==
  /\ call[c].op = "end"
  /\ call[c].id \notin DOMAIN pendingRegions
  /\ live' = live \ CallEvents(c)
  /\ Returns(c)
  /\ UNCHANGED <<regionVars, bufferVars>>

MarkEvent(c) ==
  /\ call[c].op = "mark"
  /\ Enter("mark", CallEvents(c))
  /\ Returns(c)
  /\ UNCHANGED <<live, regionVars>>

---------------------------------------------------------------------------
(* Drain, by the flush thread (phase "run": what is not finished waits) or *)
(* by Stop() (phase "final": forceResolve synchronizes with it).           *)

Kept == <<>>

FlushSwap ==
  /\ fpc = "wait" /\ phase \in {"run", "final"}
  /\ fpc' = IF domain = "GPU" THEN "resolve" ELSE "write"
  /\ out' = resolved
  /\ resolved' = Kept
  /\ local' = waiting
  /\ waiting' = NoneLeft
  /\ UNCHANGED <<streamVars, regionVars, ended, clientVars, left, stats, written, phase, due>>

Walked == IF local["region"] # <<>> THEN "region" ELSE "mark"
Finished(e) == e.evs \subseteq 1..completed

ForcedNever == FALSE   \* mutant: the last drain does not wait for the GPU
Forced == phase = "final"

\* cudaEventQuery answers that it has finished; or cudaEventSynchronize returns,
\* whose result nobody looks at.
ResolveReady ==
  /\ fpc = "resolve" /\ local[Walked] # <<>>
  /\ LET e == Head(local[Walked]) IN
       /\ Finished(e) \/ (failed /\ Forced)
       /\ out' = Append(out, e.item)
       /\ live' = live \ e.evs
  /\ local' = [local EXCEPT ![Walked] = Tail(@)]
  /\ UNCHANGED <<recorded, completed, failed, regionVars, bufferVars, clientVars, left, fpc, stats, written,
                 phase, due>>

\* The query answers that it has not, or with an error.
ResolveLater ==
  /\ fpc = "resolve" /\ local[Walked] # <<>>
  /\ ~Finished(Head(local[Walked])) \/ failed
  /\ ~Forced
  /\ left' = [left EXCEPT ![Walked] = Append(@, Head(local[Walked]))]
  /\ local' = [local EXCEPT ![Walked] = Tail(@)]
  /\ UNCHANGED <<streamVars, regionVars, bufferVars, clientVars, out, fpc, stats, written, phase, due>>

LeftoverNone(k)   == waiting[k]   \* mutant: what the GPU had not finished is forgotten
LeftoverFirst(k)  == left[k] \o waiting[k]

Splice ==
  /\ fpc = "resolve" /\ local = NoneLeft
  /\ fpc' = "write"
  /\ waiting' = [k \in Kinds |-> LeftoverFirst(k)]
  /\ left' = NoneLeft
  /\ UNCHANGED <<streamVars, regionVars, resolved, ended, clientVars, local, out, stats, written,
                 phase, due>>

AfterFlushWaits == fpc' = "wait" /\ UNCHANGED phase   \* mutant: the last flush waits for another
AfterFlush == IF phase = "final" THEN fpc' = "exited" /\ phase' = "stopped"
                                 ELSE fpc' = "wait" /\ UNCHANGED phase

\* A frame carries what was drained and the previous frame's flush stats.
FlushWrite ==
  /\ fpc = "write"
  /\ out # <<>> \/ stats
  /\ written' = written \o out
  /\ out' = <<>>
  /\ stats' = (phase # "final")
  /\ AfterFlush
  /\ UNCHANGED <<streamVars, regionVars, bufferVars, clientVars, local, left, due>>

FlushSkip ==
  /\ fpc = "write"
  /\ out = <<>> /\ ~stats
  /\ AfterFlush
  /\ UNCHANGED <<streamVars, regionVars, bufferVars, clientVars, drainVars, stats, written, due>>

FlushExit ==
  /\ fpc = "wait" /\ phase = "stopping"
  /\ fpc' = "exited"
  /\ UNCHANGED <<streamVars, regionVars, bufferVars, clientVars, drainVars, stats, written, phase, due>>

---------------------------------------------------------------------------
(* Stop().                                                                 *)

StopSignalled ==
  /\ phase = "run"
  /\ phase' = "stopping"
  /\ due' = ended
  /\ UNCHANGED <<domain, streamVars, regionVars, bufferVars, clientVars, drainVars, fpc, stats, written>>

StopJoined ==
  /\ phase = "stopping" /\ fpc = "exited"
  /\ phase' = "final"
  /\ fpc' = "wait"
  /\ UNCHANGED <<domain, streamVars, regionVars, bufferVars, clientVars, drainVars, stats, written, due>>

---------------------------------------------------------------------------
Calling(c) == Capture(c, "begin", 0) \/ Capture(c, "mark", 0) \/ CaptureEnd(c)
Entering(c) == BeginRegion(c) \/ EndRegion(c) \/ EndUnknown(c) \/ MarkEvent(c)
Resolving == ResolveReady \/ ResolveLater
Flushing ==
  /\ FlushSwap \/ Resolving \/ Splice \/ FlushWrite \/ FlushSkip \/ FlushExit
  /\ UNCHANGED domain

Next ==
  \/ GpuCompletes
  \/ GpuFails
  \/ \E c \in Clients : (Calling(c) \/ Entering(c)) /\ UNCHANGED domain
  \/ Flushing
  \/ StopSignalled
  \/ StopJoined

\* The flush thread and Stop() keep running and the GPU works off its stream,
\* or fails: work that never ends, a hung kernel, is left out.
\* No client need ever call, end a region or stop the profiler.
Fairness == WF_vars(GpuCompletes) /\ WF_vars(Flushing) /\ WF_vars(StopJoined)

Spec == Init /\ [][Next]_vars /\ Fairness

---------------------------------------------------------------------------
\* The type of every variable; an id in pendingRegions was handed out by
\* BeginRegion, and an item in a list was numbered when it entered.
TypeOK ==
  /\ domain \in Domains
  /\ recorded \in Nat /\ completed \in 0..recorded /\ live \subseteq 1..recorded /\ failed \in BOOLEAN
  /\ DOMAIN pendingRegions \subseteq 0..(nextRegionId - 1)
  /\ \A i \in DOMAIN pendingRegions : pendingRegions[i] \in 0..recorded
  /\ nextRegionId \in Nat /\ ended \in Nat /\ calls \in 0..MaxCalls
  /\ \A f \in {waiting, local, left} : f \in [Kinds -> Seq(Entry)]
  /\ \A s \in {resolved, out, written} : s \in Seq(1..ended)
  /\ call \in [Clients -> [op : {"idle", "begin", "end", "mark"}, id : Nat, ev : Nat]]
  /\ fpc \in {"wait", "resolve", "write", "exited"} /\ stats \in BOOLEAN
  /\ phase \in {"run", "stopping", "final", "stopped"} /\ due \in 0..ended

Waiting(k) == local[k] \o left[k] \o waiting[k]

\* Every cudaEvent has exactly one owner until it is destroyed (a call in
\* progress, a begun region, a list entry), and none is destroyed while owned:
\* no leak, no double destroy, no use after it.
HandlesOwned ==
  LET starts == {pendingRegions[i] : i \in DOMAIN pendingRegions} \ {0}
      calling == UNION {CallEvents(c) : c \in Clients}
      listed == Waiting("region") \o Waiting("mark")
  IN  /\ live = starts \union calling \union EventsOf(listed)
      /\ Cardinality(live) = Cardinality(DOMAIN pendingRegions \ {i \in DOMAIN pendingRegions : pendingRegions[i] = 0})
           + Cardinality({c \in Clients : call[c].ev # 0})
           + Cardinality(UNION {{i} \X listed[i].evs : i \in DOMAIN listed})

\* A profiler that keeps running writes every item that ended, unless the GPU's
\* work fails.
EventuallyWritten ==
  \A t \in 1..MaxCalls : (t <= ended) ~> (t \in ToSet(written) \/ phase # "run" \/ failed)

\* Stop() returns, whatever the GPU still had to finish when it was called, and
\* when its work fails before, during or after a drain.
StopReturns == (phase = "stopping") ~> (phase = "stopped")

\* The tracker with its flush thread is a TraceLog: at most once, and all that
\* ended before Stop() when it returns.
Log == INSTANCE TraceLog WITH
         accepted <- ended, delivered <- ToSet(written), size <- Len(written), due <- due,
         closing <- CASE phase = "run" -> "no" [] phase = "stopped" -> "done" [] OTHER -> "begun"

WritesLikeALog == Log!Spec
=============================================================================
