------------------------------ MODULE DiskReap ------------------------------
(***************************************************************************)
(* The disk probe's sample thread (disk_profiler.cpp): per-process I/O     *)
(* deltas, and the reap watches that take a reaped child's I/O out of its  *)
(* parent's.                                                               *)
(*                                                                         *)
(* A tick looks at what it watches, reads every process in some order,     *)
(* polls, and looks again; the kernel, discovery and the flush run between *)
(* any two of these; what the processes do after Stop is not followed.     *)
(* One counter stands for the five; device statistics and rates are left   *)
(* out.                                                                    *)
(***************************************************************************)
EXTENDS ReapTree

VARIABLES
  prevPIDIO,  \* process -> its baseline: the counters and its RootParentOf
  reapWatch,  \* ReapWatch
  reapNoted,  \* handed to reapWatch, or in need of no watch
  unread,     \* never read before they went -> parent
  tick,       \* the sample thread: where it is, and its locals
  reported,   \* history: what the samples carry, by origin
  doubtful,   \* history: origins in a record that says ambiguous, or of a chain break
  negative    \* history: a remainder had a negative part

disk == <<prevPIDIO, reapWatch, reapNoted, unread, tick, reported, doubtful, negative>>

Between == [pc |-> "between", todo |-> {}, snap |-> {}, live |-> {}, read |-> <<>>, after |-> {}]

DiskInit ==
  /\ TreeInit
  /\ prevPIDIO = <<>> /\ reapWatch = <<>> /\ unread = <<>> /\ reapNoted = {}
  /\ tick = Between
  /\ reported = Nothing /\ doubtful = {} /\ negative = FALSE

Watched == DOMAIN reapWatch

Reaped == {p \in Watched : reapWatch[p].reaped}

\* The tick begins with a look at what is watched and was not reaped.
BeginTick ==
  /\ tick.pc = "between" /\ Watched # Reaped
  /\ tick' = [tick EXCEPT !.pc = "before", !.todo = Watched \ Reaped]
  /\ UNCHANGED <<prevPIDIO, reapWatch, reapNoted, unread, reported, doubtful, negative>>

\* Reaped, then MarkReaped; else the parent it has now will reap it.
Looked(p) ==
  IF st[p] = "gone"
  THEN [reapWatch EXCEPT ![p].reaped = TRUE, ![p].autoreaped = reapWatch[p].parent \in Procs /\ IgnoresSigchld(reapWatch[p].parent)]
  ELSE [reapWatch EXCEPT ![p].parent = par[p]]

Look(p) ==
  /\ tick.pc \in {"before", "after"} /\ p \in tick.todo
  /\ reapWatch' = Looked(p)
  /\ tick' = [tick EXCEPT !.todo = @ \ {p},
                !.after = IF tick.pc = "after" /\ st[p] = "gone" THEN @ \cup {p} ELSE @]
  /\ UNCHANGED <<prevPIDIO, reapNoted, unread, reported, doubtful, negative>>

\* What was found reaped by now is in the readings to come (reapedBefore).
TakeSnapshot ==
  /\ tick.pc = "before" \/ (tick.pc = "between" /\ Watched = Reaped)
  /\ tick.todo = {}
  /\ LET live == {p \in Entries : tracked[p] = "live"}
     IN tick' = [tick EXCEPT !.pc = "read", !.snap = Entries, !.live = live, !.todo = live]
  /\ UNCHANGED <<prevPIDIO, reapWatch, reapNoted, unread, reported, doubtful, negative>>

\* ReadPIDIO: of a living process, if its I/O can be read at all; in the table's
\* order, where a discovered process comes after its parent.
ReadPIDIO(p) ==
  /\ tick.pc = "read" /\ p \in tick.todo /\ under[p] \notin tick.todo
  /\ tick' = [tick EXCEPT !.todo = @ \ {p},
                !.read = IF st[p] = "alive" /\ p \notin setup.unreadable THEN Over([x \in {p} |-> Total(x)], @) ELSE @]
  /\ UNCHANGED <<prevPIDIO, reapWatch, reapNoted, unread, reported, doubtful, negative>>

\* NoteGone for what exited or left the tracked set: a watch if it was read, with the
\* parent given.
Watches(S, parent) ==
  [p \in S \cap DOMAIN prevPIDIO |->
     [parent |-> parent[p], last |-> prevPIDIO[p].s, reaped |-> FALSE, autoreaped |-> FALSE, root |-> prevPIDIO[p].root]]

\* PollTracked, and the exits.
Poll ==
  LET found == {p \in tick.live : st[p] # "alive"}
      out   == ((tick.snap \ tick.live) \cup found) \ reapNoted
      lost  == (DOMAIN prevPIDIO \ tick.snap) \ (reapNoted \cup out)
      news  == Over(Watches(out, under), Watches(lost, [p \in Procs |-> Nobody]))
  IN /\ tick.pc = "read" /\ tick.todo = {}
     /\ tracked' = Ended(found)
     /\ reapNoted' = reapNoted \cup out \cup lost
     /\ reapWatch' = Over(news, reapWatch)
     /\ unread' = Over([p \in out \ DOMAIN prevPIDIO |-> under[p]], unread)
     /\ prevPIDIO' = Kept(prevPIDIO, tick.snap)
     /\ tick' = [tick EXCEPT !.pc = "after", !.live = @ \ found, !.read = Kept(@, tick.live \ found),
                   !.todo = (Watched \cup DOMAIN news) \ Reaped]
     /\ UNCHANGED <<under, noted, reported, doubtful, negative>>

\* Resolve: up the watched parents to the first live tracked one.  Wait: the I/O is
\* not there yet; Drop: in nobody's reading; At: in the anchor's next one.
Reaches == LET R[p \in Watched] == \/ reapWatch[p].parent \in tick.live
                                   \/ reapWatch[p].parent \in Watched /\ R[reapWatch[p].parent]
           IN R

Drop(missing) == [kind |-> "Drop", anchor |-> Nobody, unsure |-> FALSE, ambiguous |-> FALSE, autoreaped |-> FALSE, missing |-> missing]
Waiting       == [Drop(Nobody) EXCEPT !.kind = "Wait"]
At(p)         == [Drop(Nobody) EXCEPT !.kind = "At", !.anchor = p]

Resolution ==
  LET R[p \in Watched] ==
        LET w  == reapWatch[p]
            by == WhoReaped(p, w.root, noted)
            to == CASE ~w.reaped -> IF Reaches[p] THEN Waiting ELSE Drop(Nobody)
                    [] w.reaped /\ w.parent \in tick.live -> At(w.parent)
                    [] w.reaped /\ w.parent \notin tick.live \cup Watched ->
                         Drop(IF w.parent \in DOMAIN unread THEN w.parent ELSE Nobody)
                    [] OTHER -> IF by = "Host" THEN Drop(Nobody)
                                ELSE LET above == R[w.parent]
                                     IN [above EXCEPT !.ambiguous = @ \/ by = "Unknown"]
        IN [to EXCEPT !.unsure = @ \/ p \in tick.after, !.autoreaped = @ \/ (w.reaped /\ w.autoreaped)]
  IN R

\* The chain breaks recorded: the parent that was never read has a tracked parent.
Breaks(res) == {p \in Watched : res[p].missing # Nobody /\ unread[res[p].missing] \in tick.snap}

\* What a sample carries: the delta less the last readings of the children whose reap
\* it includes.
Remainder(p, kids) ==
  Minus(Minus(tick.read[p], prevPIDIO[p].s), Sum([k \in kids |-> reapWatch[k].last], kids))

\* mutant: every reading is used.
Unsure_Never(res, at) ==
  {}

\* The readings that may or may not include a reap are not used; the baseline stays.
Unsure(res, at) ==
  {res[p].anchor : p \in {k \in at : res[k].unsure}}

EndTick ==
  LET res      == Resolution
      dropped  == {p \in Watched : res[p].kind = "Drop"}
      at       == {p \in Watched : res[p].kind = "At"}
      taken    == DOMAIN tick.read \ Unsure(res, at)
      sampled  == taken \cap DOMAIN prevPIDIO
      Kids(p)  == {k \in at : res[k].anchor = p}
      Takes(p) == {k \in Kids(p) : ~res[k].ambiguous /\ ~res[k].autoreaped}
      samples  == [p \in sampled |-> Remainder(p, Takes(p))]
      doubts   == Breaks(res) \cup {k \in at : res[k].ambiguous /\ res[k].anchor \in sampled}
      watches  == Kept(reapWatch, Watched \ (dropped \cup UNION {Kids(p) : p \in taken}))
      Root0(p) == IF p \in sampled THEN prevPIDIO[p].root ELSE RootParentOf(p, tick.snap)
  IN /\ tick.pc = "after" /\ tick.todo = {}
     /\ reapWatch' = watches
     /\ noted' = noted \cap (tick.snap \cup DOMAIN watches)
     /\ unread' = Kept(unread, {reapWatch[p].parent : p \in Watched \ dropped})
     /\ prevPIDIO' = Over([p \in taken |-> [s |-> tick.read[p], root |-> Root0(p)]], prevPIDIO)
     /\ reapNoted' = reapNoted \cap tick.snap
     /\ tick' = Between
     /\ reported' = Plus(reported, Sum(samples, sampled))
     /\ doubtful' = doubtful \cup UNION {Carries(reapWatch[k].last) : k \in doubts}
     /\ negative' = (negative \/ \E p \in sampled, q \in Procs : samples[p][q] < 0)

SampleThread ==
  \/ BeginTick \/ TakeSnapshot
  \/ \E p \in Procs : Look(p) \/ ReadPIDIO(p)

\* Stop: the sample thread ends between two ticks, the flush thread with the flush it
\* is in, and the final flush announces and commits every removal left.
Stop ==
  /\ tick.pc = "between"
  /\ tracked' = [p \in Procs |-> IF tracked[p] \in {"ended", "announced"} THEN "dropped" ELSE tracked[p]]
  /\ tick' = [Between EXCEPT !.pc = "stopped"]
  /\ UNCHANGED <<under, noted, prevPIDIO, reapWatch, reapNoted, unread, reported, doubtful, negative>>

DiskNext ==
  \/ SampleThread /\ UNCHANGED <<tree, table>>
  \/ (Poll \/ Stop) /\ UNCHANGED tree
  \/ EndTick /\ UNCHANGED <<tree, tracked, under>>
  \/ tick.pc # "stopped" /\ TreeNext /\ UNCHANGED disk

DiskSpec == DiskInit /\ [][DiskNext]_<<tree, table, disk>>

----------------------------------------------------------------------------
\* disk_metrics.proto: no unit of I/O is in two samples, that of the process and that
\* of whoever reaped it, unless a record says that it may be.
NoDoubleCount == \A q \in Procs \ doubtful : reported[q] <= used[q]

\* "A negative remainder is not expected."
RemainderNotNegative == setup.ignores = {} => ~negative
=============================================================================
