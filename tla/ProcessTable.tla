---------------------------- MODULE ProcessTable ----------------------------
(***************************************************************************)
(* The process table of one per-PID probe (System or Disk): class          *)
(* ProcessTrackingProbe, with every thread that works on it.               *)
(*                                                                         *)
(*   - API threads (Callers) run AddTrackedProcess / RemoveTrackedProcess; *)
(*   - the discovery thread runs AddDiscoveredProcess;                     *)
(*   - the sample thread snapshots the table, reads every live entry's     *)
(*     values BY PID NUMBER, polls the pidfds, drops what exited, and      *)
(*     pushes the rest into the sample batch;                              *)
(*   - the flush thread drains the batch, snapshots the table, writes one  *)
(*     frame, and commits the removals the frame announced;                *)
(*   - Stop() joins both and writes the last frame;                        *)
(*   - the kernel ends processes and hands their numbers to new ones.      *)
(*                                                                         *)
(* A process is named by its PID and its generation: gen[p] counts the     *)
(* processes that have had the number p. What a reading contains is the    *)
(* generation it was taken from. A zombie and a freed number are one state *)
(* (alive = FALSE): every handler treats them alike.                       *)
(***************************************************************************)
EXTENDS Integers, FiniteSets, Sequences

CONSTANTS Pids,          \* PID numbers
          Callers,       \* threads calling the public API
          FlushThread,   \* the flush thread, when it registers deferred roots
          Roots,         \* config.processes: the roots listed at Configure()
          MaxGen,        \* bound: processes per PID number
          MaxCalls,      \* bound: registrations requested after Configure()
          MaxTicks,      \* bound: sample ticks
          PidfdMayFail,  \* pidfd_open may fail although the process exists (EMFILE, ENOSYS)
          WriteMayFail   \* the output stream may lose a frame (disk full)

ASSUME RootsAssumption    == Roots \in Seq(Pids)
ASSUME ThreadAssumption   == FlushThread \notin Callers
ASSUME BoundAssumption    == MaxGen \in Nat /\ MaxCalls \in Nat /\ MaxTicks \in Nat
ASSUME FailureAssumption  == PidfdMayFail \in BOOLEAN /\ WriteMayFail \in BOOLEAN

VARIABLES
  gen, alive,                          \* kernel: who has each number, and is it running
  table, pidfds, deferred, nextSerial, \* ProcessTrackingProbe: processes_, pidfds_, deferred_
  add,                                 \* AddTrackedProcess in progress, per thread
  calls, found,                        \* bounds: calls made; last generation discovery reported
  spc, tick, todo, seen, readings, items, exited, base,    \* sample thread
  batch,                               \* the sample batch (batchMutex)
  fpc, drained, fsnap, froots,         \* flush thread, and the final flush of Stop()
  phase,                               \* Stop()'s progress
  frame, marked, dropped,              \* what reached the file, what left the table
  pushed, written,                     \* samples pushed, samples written
  unlisted                             \* PIDs whose last API call was a Remove

kernelVars == <<gen, alive>>
tableVars  == <<table, pidfds, deferred, nextSerial>>
callVars   == <<add, calls, found, unlisted>>
sampleVars == <<spc, tick, todo, seen, readings, items, exited, base>>
batchVars  == <<batch, pushed>>
flushVars  == <<fpc, drained, fsnap, froots>>
traceVars  == <<frame, marked, dropped, written>>
vars == <<kernelVars, tableVars, callVars, sampleVars, batchVars, flushVars, traceVars, phase>>

Adders == Callers \union {FlushThread}

\* ProcessEntry. start: the process its start time describes (0 = unknown);
\* head: the process whose CPU is recorded as cpu_before_tracking (0 = unset).
Entry == [serial : Nat, pid : Pids, start : Nat, discovered : BOOLEAN,
          pending : BOOLEAN, ended : BOOLEAN, head : Nat]

\* A registration waiting for an old entry of its number to go; fd = 0: none.
\* ord is the call that made it: the order of the deferred_ vector.
Deferred == [ord : Nat, pid : Pids, discovered : BOOLEAN, fd : Nat, start : Nat]

NoAdd == [pc |-> "idle", fd |-> 0, start |-> 0, ended |-> FALSE]
Adding(pc, p, fd, start, ended) ==
  [pc |-> pc, pid |-> p, fd |-> fd, start |-> start, ended |-> ended]
NoBase == [serial |-> 0, proc |-> 0]

PidsOf(T)    == {e.pid : e \in T}
SerialsOf(T) == {e.serial : e \in T}
Announced(T) == SerialsOf({e \in T : e.pending})   \* rows written with removed=true

\* poll() on a pidfd of generation g of number p: readable once it has exited.
Exited(p, g) == ~alive[p] \/ gen[p] # g

---------------------------------------------------------------------------
(* ProcessTrackingProbe's helpers, all called with mutex_ held.            *)

NewEntry(p, serial, start, isDiscovered, isEnded) ==
  [serial |-> serial, pid |-> p, start |-> start, discovered |-> isDiscovered,
   pending |-> isEnded, ended |-> isEnded, head |-> 0]

WithFd(fds, serial, fd) ==
  IF fd = 0 THEN fds
  ELSE [s \in DOMAIN fds \union {serial} |-> IF s = serial THEN fd ELSE fds[s]]

WithoutFds(fds, S) == [s \in DOMAIN fds \ S |-> fds[s]]

MarkGone(e) == [e EXCEPT !.pending = TRUE, !.ended = TRUE]

Replace(T, e, new) == (T \ {e}) \union {new}

IsGoneByPidfd(e) == e.serial \in DOMAIN pidfds /\ Exited(e.pid, pidfds[e.serial])   \* mutant

\* GoneLocked: already marked, or its pidfd says so now.
IsGone(e) == \/ e.ended
             \/ e.serial \in DOMAIN pidfds /\ Exited(e.pid, pidfds[e.serial])

\* GoneLocked's effect on an entry found gone: marked, its descriptor closed.
MarkGoneLocked(e) ==
  /\ table'  = Replace(table, e, IF e.ended THEN e ELSE MarkGone(e))
  /\ pidfds' = IF e.ended THEN pidfds ELSE WithoutFds(pidfds, {e.serial})

Defer(ord, p, isDiscovered, fd, start) ==
  deferred' = deferred \union {[ord |-> ord, pid |-> p, discovered |-> isDiscovered,
                                fd |-> fd, start |-> start]}

InsertLocked(p, start, fd, isDiscovered, isEnded) ==
  /\ table' = table \union {NewEntry(p, nextSerial, start, isDiscovered, isEnded)}
  /\ pidfds' = WithFd(pidfds, nextSerial, fd)
  /\ nextSerial' = nextSerial + 1

---------------------------------------------------------------------------
(* Configure(): SetInitialProcesses registers the listed roots, each PID   *)
(* once. A root may have exited before; its row is then already ended.     *)

FirstListed == {i \in 1..Len(Roots) : \A j \in 1..(i - 1) : Roots[j] # Roots[i]}
RootSerial(i) == Cardinality({j \in FirstListed : j <= i})

InitialEntry(i) ==
  NewEntry(Roots[i], RootSerial(i), IF alive[Roots[i]] THEN 1 ELSE 0, FALSE, ~alive[Roots[i]])

InitialTable == {InitialEntry(i) : i \in FirstListed}

Init ==
  /\ gen = [p \in Pids |-> 1]
  /\ alive \in [Pids -> BOOLEAN]
  /\ table = InitialTable
  /\ pidfds = [s \in {e.serial : e \in {x \in InitialTable : ~x.ended}} |-> 1]
  /\ deferred = {}
  /\ nextSerial = Cardinality(FirstListed) + 1
  /\ add = [c \in Adders |-> NoAdd]
  /\ calls = 0
  /\ found = [p \in Pids |-> 0]
  /\ spc = "wait" /\ tick = 0 /\ todo = {} /\ seen = {} /\ readings = {}
  /\ items = {} /\ exited = {}
  /\ base = [p \in Pids |-> NoBase]
  /\ batch = {} /\ pushed = 0
  /\ fpc = "wait" /\ drained = {} /\ fsnap = {} /\ froots = {}
  /\ phase = "run"
  /\ frame = [rows |-> {}, samples |-> {}]
  /\ marked = {} /\ dropped = {} /\ written = 0
  /\ unlisted = {}

---------------------------------------------------------------------------
(* The kernel.                                                             *)

Exit(p) ==
  /\ alive[p]
  /\ alive' = [alive EXCEPT ![p] = FALSE]
  /\ UNCHANGED <<gen, tableVars, callVars, sampleVars, batchVars, flushVars, traceVars, phase>>

Spawn(p) ==
  /\ ~alive[p]
  /\ gen[p] < MaxGen
  /\ gen' = [gen EXCEPT ![p] = @ + 1]
  /\ alive' = [alive EXCEPT ![p] = TRUE]
  /\ UNCHANGED <<tableVars, callVars, sampleVars, batchVars, flushVars, traceVars, phase>>

---------------------------------------------------------------------------
(* AddTrackedProcess(pid): look the number up under the lock; if it is     *)
(* free, MakeRoot without the lock (pidfd_open, read stat, check that the  *)
(* pidfd is still alive); then insert under the lock unless somebody else  *)
(* registered the number meanwhile. Run by the API threads, and by the     *)
(* flush thread for the deferred roots.                                    *)

AddLookup(c, p, ord) ==
  /\ add[c].pc = "idle"
  /\ \/ \E e \in table :
          /\ e.pid = p
          /\ IF IsGone(e)
               THEN /\ MarkGoneLocked(e)
                    /\ Defer(ord, p, FALSE, 0, 0)
               ELSE /\ table' = Replace(table, e, [e EXCEPT !.pending = FALSE, !.discovered = FALSE])
                    /\ UNCHANGED <<pidfds, deferred>>
          /\ UNCHANGED add
     \/ /\ p \notin PidsOf(table)
        /\ add' = [add EXCEPT ![c] = Adding("open", p, 0, 0, FALSE)]
        /\ UNCHANGED <<table, pidfds, deferred>>
  /\ UNCHANGED nextSerial

AddTrackedProcess(c, p) ==
  /\ calls < MaxCalls
  /\ calls' = calls + 1
  /\ AddLookup(c, p, calls + 1)
  /\ unlisted' = unlisted \ {p}
  /\ UNCHANGED <<kernelVars, found, sampleVars, batchVars, flushVars, traceVars, phase>>

MakeRootUnchanged ==
  UNCHANGED <<kernelVars, tableVars, calls, found, unlisted, sampleVars, batchVars, flushVars,
              traceVars, phase>>

\* pidfd_open: no such process ends it at once; another failure leaves it
\* without exit detection.
Opened(p) == IF alive[p] THEN Adding("stat", p, gen[p], 0, FALSE) ELSE Adding("insert", p, 0, 0, TRUE)

MakeRootOpen(c) ==
  /\ add[c].pc = "open"
  /\ add' = [add EXCEPT ![c] = Opened(add[c].pid)]
  /\ MakeRootUnchanged

MakeRootOpenFails(c) ==
  /\ PidfdMayFail
  /\ add[c].pc = "open"
  /\ LET p == add[c].pid IN
       /\ alive[p]
       /\ add' = [add EXCEPT ![c] = Adding("stat", p, 0, 0, FALSE)]
  /\ MakeRootUnchanged

\* /proc/<pid>/stat, by number: start time of whoever has it now.
MakeRootStat(c) ==
  /\ add[c].pc = "stat"
  /\ LET p == add[c].pid IN
       add' = [add EXCEPT ![c] = IF alive[p] THEN Adding("check", p, add[c].fd, gen[p], FALSE)
                                             ELSE Adding("insert", p, 0, 0, TRUE)]
  /\ MakeRootUnchanged

\* The pidfd is checked after the read.
UncheckedRoot(a) == Adding("insert", a.pid, a.fd, a.start, FALSE)   \* mutant
CheckedRoot(a) == IF a.fd # 0 /\ Exited(a.pid, a.fd)
                    THEN Adding("insert", a.pid, 0, 0, TRUE)
                    ELSE Adding("insert", a.pid, a.fd, a.start, FALSE)

MakeRootCheck(c) ==
  /\ add[c].pc = "check"
  /\ add' = [add EXCEPT ![c] = CheckedRoot(add[c])]
  /\ MakeRootUnchanged

NeverTaken(p) == FALSE   \* mutant: trusts the lookup made before MakeRoot
TakenMeanwhile(p) == p \in PidsOf(table)

AddInsert(c) ==
  /\ add[c].pc = "insert"
  /\ add' = [add EXCEPT ![c] = NoAdd]
  /\ LET a == add[c] IN
       IF TakenMeanwhile(a.pid)
         THEN UNCHANGED <<table, pidfds, nextSerial>>
         ELSE InsertLocked(a.pid, a.start, a.fd, FALSE, a.ended)
  /\ UNCHANGED <<kernelVars, deferred, calls, found, unlisted, sampleVars, batchVars, flushVars,
                 traceVars, phase>>

\* RemoveTrackedProcess: forgets the deferred registrations of the number
\* and flags its entry; the next flush announces and drops it.
RemoveTrackedProcess(c, p) ==
  /\ add[c].pc = "idle"
  /\ deferred' = {d \in deferred : d.pid # p}
  /\ \/ \E e \in table : e.pid = p /\ table' = Replace(table, e, [e EXCEPT !.pending = TRUE])
     \/ p \notin PidsOf(table) /\ UNCHANGED table
  /\ unlisted' = unlisted \union {p}
  /\ UNCHANGED <<kernelVars, pidfds, nextSerial, add, calls, found, sampleVars, batchVars,
                 flushVars, traceVars, phase>>

\* AddDiscoveredProcess(pid, pidfd, startTime): descendant tracking found
\* generation g of p, and may be late: g may have exited since. Its pidfd is
\* duplicated, so fd and start name one process.
AddDiscoveredProcess(p, g, fd) ==
  /\ calls < MaxCalls
  /\ g \in (found[p] + 1)..gen[p]
  /\ fd = g \/ (PidfdMayFail /\ fd = 0)
  /\ calls' = calls + 1
  /\ found' = [found EXCEPT ![p] = g]
  /\ \/ \E e \in table :
          /\ e.pid = p
          /\ IF IsGone(e)
               THEN MarkGoneLocked(e) /\ Defer(calls + 1, p, TRUE, fd, g)
               ELSE UNCHANGED <<table, pidfds, deferred>>
          /\ UNCHANGED nextSerial
     \/ /\ p \notin PidsOf(table)
        /\ InsertLocked(p, g, fd, TRUE, FALSE)
        /\ UNCHANGED deferred
  /\ UNCHANGED <<kernelVars, add, unlisted, sampleVars, batchVars, flushVars, traceVars, phase>>

---------------------------------------------------------------------------
(* The sample thread. One tick: snapshot, read by number, PollTracked,     *)
(* keep or drop the readings, clean the baselines.                         *)

SampleSnapshot ==
  /\ spc = "wait" /\ phase = "run" /\ tick < MaxTicks
  /\ spc' = "read"
  /\ tick' = tick + 1
  /\ todo' = {e \in table : ~e.pending}
  /\ seen' = PidsOf(table)
  /\ UNCHANGED <<kernelVars, tableVars, callVars, readings, items, exited, base, batchVars,
                 flushVars, traceVars, phase>>

\* Whoever has the number now is read; nothing there, no reading.
SampleRead(e) ==
  /\ spc = "read" /\ e \in todo
  /\ todo' = todo \ {e}
  /\ readings' = readings \union
       {r \in {[serial |-> e.serial, pid |-> e.pid, own |-> e.start, proc |-> gen[e.pid]]} :
          alive[e.pid]}
  /\ UNCHANGED <<kernelVars, tableVars, callVars, spc, tick, seen, items, exited, base, batchVars,
                 flushVars, traceVars, phase>>

\* PollTracked, first lock: the entries not yet ended and their descriptors.
PollCollect ==
  /\ spc = "read" /\ todo = {}
  /\ spc' = "poll"
  /\ items' = {[serial |-> e.serial, fd |-> e.serial \in DOMAIN pidfds] : e \in {x \in table : ~x.ended}}
  /\ UNCHANGED <<kernelVars, tableVars, callVars, tick, todo, seen, readings, exited, base,
                 batchVars, flushVars, traceVars, phase>>

\* poll() without the lock. A descriptor another thread closed meanwhile is
\* invalid or already somebody else's: either answer.
PollFds ==
  /\ spc = "poll"
  /\ spc' = "apply"
  /\ LET polled == {i.serial : i \in {x \in items : x.fd}}
         open   == polled \intersect DOMAIN pidfds
         dead   == {s \in open : \E e \in table : e.serial = s /\ Exited(e.pid, pidfds[s])}
     IN  \E closed \in SUBSET (polled \ open) : exited' = dead \union closed
  /\ UNCHANGED <<kernelVars, tableVars, callVars, tick, todo, seen, readings, items, base,
                 batchVars, flushVars, traceVars, phase>>

\* PollTracked, second lock: entries found again by serial; those that exited
\* are marked, those are returned, and the caller drops their readings. An
\* entry committed away meanwhile is skipped.
Polled == {e \in table : \E i \in items : i.serial = e.serial}

GoneKnown == SerialsOf({e \in Polled : e.ended})   \* mutant: forgets what it just polled
GoneSerials == SerialsOf({e \in Polled : e.ended \/ e.serial \in exited})

PollApply ==
  /\ spc = "apply"
  /\ spc' = "keep"
  /\ LET dead == {e \in Polled : ~e.ended /\ e.serial \in exited}
     IN  /\ table' = (table \ dead) \union {MarkGone(e) : e \in dead}
         /\ pidfds' = WithoutFds(pidfds, SerialsOf(dead))
  /\ readings' = {r \in readings : r.serial \notin GoneSerials}
  /\ items' = {} /\ exited' = {}
  /\ UNCHANGED <<kernelVars, deferred, nextSerial, callVars, tick, todo, seen, base, batchVars,
                 flushVars, traceVars, phase>>

HasAnyBaseline(r) == base[r.pid].serial # 0   \* mutant: baselines by PID number only
HasBaseline(r) == base[r.pid].serial = r.serial

\* First reading of a registration: it seeds the baseline, and is recorded
\* as the head of the entry that has the number (SetCpuBeforeTracking).
SeedBaseline(r) ==
  /\ spc = "keep" /\ r \in readings
  /\ ~HasBaseline(r)
  /\ readings' = readings \ {r}
  /\ base' = [base EXCEPT ![r.pid] = [serial |-> r.serial, proc |-> r.proc]]
  /\ table' = {IF e.pid = r.pid /\ ~e.ended THEN [e EXCEPT !.head = r.proc] ELSE e : e \in table}
  /\ UNCHANGED <<kernelVars, pidfds, deferred, nextSerial, callVars, spc, tick, todo, seen, items,
                 exited, batchVars, flushVars, traceVars, phase>>

\* Later readings: the delta to the baseline is pushed into the batch.
PushSample(r) ==
  /\ spc = "keep" /\ r \in readings
  /\ HasBaseline(r)
  /\ readings' = readings \ {r}
  /\ batch' = batch \union {[serial |-> r.serial, pid |-> r.pid, own |-> r.own,
                             from |-> base[r.pid].proc, proc |-> r.proc, tick |-> tick]}
  /\ pushed' = pushed + 1
  /\ base' = [base EXCEPT ![r.pid] = [serial |-> r.serial, proc |-> r.proc]]
  /\ UNCHANGED <<kernelVars, tableVars, callVars, spc, tick, todo, seen, items, exited,
                 flushVars, traceVars, phase>>

\* Its statm was already gone: its last interval is left to its exit tail.
SkipSample(r) ==
  /\ spc = "keep" /\ r \in readings
  /\ HasBaseline(r)
  /\ readings' = readings \ {r}
  /\ UNCHANGED <<kernelVars, tableVars, callVars, spc, tick, todo, seen, items, exited, base,
                 batchVars, flushVars, traceVars, phase>>

SampleEnd ==
  /\ spc = "keep" /\ readings = {}
  /\ spc' = "wait"
  /\ base' = [p \in Pids |-> IF p \in seen THEN base[p] ELSE NoBase]
  /\ seen' = {}
  /\ UNCHANGED <<kernelVars, tableVars, callVars, tick, todo, readings, items, exited, batchVars,
                 flushVars, traceVars, phase>>

SampleExit ==
  /\ spc = "wait" /\ phase = "stopping"
  /\ spc' = "exited"
  /\ UNCHANGED <<kernelVars, tableVars, callVars, tick, todo, seen, readings, items, exited, base,
                 batchVars, flushVars, traceVars, phase>>

---------------------------------------------------------------------------
(* The flush thread (phase "run") and the last flush of Stop() (phase      *)
(* "final"): the same sequence.                                            *)

FlushDrain ==
  /\ fpc = "wait" /\ phase \in {"run", "final"}
  /\ fpc' = "drained"
  /\ drained' = batch
  /\ batch' = {}
  /\ UNCHANGED <<kernelVars, tableVars, callVars, sampleVars, pushed, fsnap, froots, traceVars, phase>>

FlushSnapshot ==
  /\ fpc = "drained"
  /\ fpc' = "snapped"
  /\ fsnap' = table
  /\ UNCHANGED <<kernelVars, tableVars, callVars, sampleVars, batchVars, drained, froots, traceVars, phase>>

AfterFlush == IF phase = "final" THEN fpc' = "exited" /\ phase' = "stopped"
                                 ELSE fpc' = "wait" /\ UNCHANGED phase

NoMarker == Announced(fsnap) = {}   \* mutant: skips a batch without removals
NoSamples == drained = {}           \* mutant: skips a removal without samples

\* No sample and no removal marker (a system tick or a file that could not be
\* read still makes it write).
NothingToWrite == drained = {} /\ Announced(fsnap) = {}

FlushSkip ==
  /\ fpc = "snapped"
  /\ NothingToWrite
  /\ AfterFlush
  /\ fsnap' = {}
  /\ UNCHANGED <<kernelVars, tableVars, callVars, sampleVars, batchVars, drained, froots, traceVars>>

FlushWriteLateBatch ==   \* mutant: also takes the samples pushed since the snapshot
  /\ fpc = "snapped"
  /\ fpc' = "written"
  /\ frame' = [rows |-> fsnap, samples |-> drained \union batch]
  /\ marked' = marked \union Announced(fsnap)
  /\ written' = written + Cardinality(drained \union batch)
  /\ drained' = {} /\ batch' = {}
  /\ UNCHANGED <<kernelVars, tableVars, callVars, sampleVars, pushed, fsnap, froots, dropped, phase>>

FlushWrite ==
  /\ fpc = "snapped"
  /\ fpc' = "written"
  /\ frame' = [rows |-> fsnap, samples |-> drained]
  /\ marked' = marked \union Announced(fsnap)
  /\ written' = written + Cardinality(drained)
  /\ drained' = {}
  /\ UNCHANGED <<kernelVars, tableVars, callVars, sampleVars, batchVars, fsnap, froots, dropped, phase>>

\* The stream's state is never looked at: a frame it lost goes unnoticed.
FlushWriteLost ==
  /\ WriteMayFail
  /\ fpc = "snapped"
  /\ fpc' = "written"
  /\ drained' = {}
  /\ UNCHANGED <<kernelVars, tableVars, callVars, sampleVars, batchVars, fsnap, froots, traceVars, phase>>

\* CommitPendingRemovals(fsnap): drop what the frame announced and is still
\* pending; then register the deferred processes whose number is free now, the
\* discovered ones here, the roots (froots) by AddTrackedProcess, unlocked. A
\* discovered one takes its number: those behind it keep waiting.
DropsPending(e) == e.pending   \* mutant: also what was removed after the frame
Drops(e) == e.pending /\ e.serial \in Announced(fsnap)

FreedDiscovered(kept) == {d \in deferred : d.discovered /\ d.pid \notin PidsOf(kept)}   \* mutant
Freed(kept) == {d \in deferred : d.pid \notin PidsOf(kept)}

FirstInLine(free) == {d \in free : \A x \in free : x.pid = d.pid /\ x.discovered => d.ord <= x.ord}

DeferredSerial(d, new) == nextSerial + Cardinality({x \in new : x.ord < d.ord})

FlushCommit ==
  /\ fpc = "written"
  /\ fpc' = "roots"
  /\ LET out   == {e \in table : Drops(e)}
         kept  == table \ out
         first == FirstInLine(Freed(kept))
         new   == {d \in first : d.discovered}
         newFd == {[serial |-> DeferredSerial(d, new), fd |-> d.fd] : d \in {x \in new : x.fd # 0}}
     IN  /\ table' = kept \union {NewEntry(d.pid, DeferredSerial(d, new), d.start, TRUE, FALSE) : d \in new}
         /\ pidfds' = [s \in (DOMAIN pidfds \ SerialsOf(out)) \union {f.serial : f \in newFd} |->
                         IF s \in DOMAIN pidfds THEN pidfds[s]
                         ELSE (CHOOSE f \in newFd : f.serial = s).fd]
         /\ nextSerial' = nextSerial + Cardinality(new)
         /\ deferred' = deferred \ first
         /\ froots' = first \ new
         /\ dropped' = dropped \union SerialsOf(out)
  /\ fsnap' = {}
  /\ UNCHANGED <<kernelVars, callVars, sampleVars, batchVars, drained, frame, marked, written, phase>>

FlushAddRoot ==
  /\ fpc = "roots"
  /\ \E d \in froots :
       /\ \A x \in froots : d.ord <= x.ord
       /\ AddLookup(FlushThread, d.pid, d.ord)
       /\ froots' = froots \ {d}
  /\ UNCHANGED <<kernelVars, calls, found, unlisted, sampleVars, batchVars, fpc, drained, fsnap,
                 traceVars, phase>>

FlushEnd ==
  /\ fpc = "roots" /\ froots = {} /\ add[FlushThread].pc = "idle"
  /\ AfterFlush
  /\ UNCHANGED <<kernelVars, tableVars, callVars, sampleVars, batchVars, drained, fsnap, froots, traceVars>>

FlushExit ==
  /\ fpc = "wait" /\ phase = "stopping"
  /\ fpc' = "exited"
  /\ UNCHANGED <<kernelVars, tableVars, callVars, sampleVars, batchVars, drained, fsnap, froots,
                 traceVars, phase>>

---------------------------------------------------------------------------
(* Stop(): signal both threads, join them, flush what is left.             *)

StopSignalled ==
  /\ phase = "run"
  /\ phase' = "stopping"
  /\ UNCHANGED <<kernelVars, tableVars, callVars, sampleVars, batchVars, flushVars, traceVars>>

StopJoined ==
  /\ phase = "stopping" /\ spc = "exited" /\ fpc = "exited"
  /\ phase' = "final"
  /\ fpc' = "wait"
  /\ UNCHANGED <<kernelVars, tableVars, callVars, sampleVars, batchVars, drained, fsnap, froots, traceVars>>

---------------------------------------------------------------------------
MakeRoot(c) == MakeRootOpen(c) \/ MakeRootOpenFails(c) \/ MakeRootStat(c) \/ MakeRootCheck(c)
Keep(r)     == SeedBaseline(r) \/ PushSample(r) \/ SkipSample(r)
Sampling    == \/ SampleSnapshot \/ (\E e \in todo : SampleRead(e)) \/ PollCollect \/ PollFds
               \/ PollApply \/ (\E r \in readings : Keep(r)) \/ SampleEnd \/ SampleExit
Flushing    == \/ FlushDrain \/ FlushSnapshot \/ FlushSkip \/ FlushWrite \/ FlushWriteLost
               \/ FlushCommit \/ FlushAddRoot \/ FlushEnd \/ FlushExit

Next ==
  \/ \E p \in Pids : Exit(p) \/ Spawn(p)
  \/ \E c \in Callers, p \in Pids : AddTrackedProcess(c, p) \/ RemoveTrackedProcess(c, p)
  \/ \E c \in Adders : MakeRoot(c) \/ AddInsert(c)
  \/ \E p \in Pids : \E g \in 1..gen[p], fd \in 0..gen[p] : AddDiscoveredProcess(p, g, fd)
  \/ Sampling
  \/ Flushing
  \/ StopSignalled
  \/ StopJoined

\* Every thread of the probe keeps running: the loops wait with a timeout and
\* take no lock for long. The host need never stop, call or exit anything.
Fairness == /\ WF_vars(Sampling) /\ WF_vars(Flushing) /\ WF_vars(StopJoined)
            /\ \A c \in Adders : WF_vars(MakeRoot(c) \/ AddInsert(c))

Spec == Init /\ [][Next]_vars
FairSpec == Spec /\ Fairness

---------------------------------------------------------------------------
(* Type invariant and safety.                                              *)

AddRecord(a) ==
  /\ a.pc \in {"idle", "open", "stat", "check", "insert"}
  /\ a.fd \in Nat /\ a.start \in Nat /\ a.ended \in BOOLEAN
  /\ a.pc # "idle" => a.pid \in Pids

PidfdMap(f) ==
  /\ f = [s \in DOMAIN f |-> f[s]]
  /\ DOMAIN f \subseteq Nat /\ \A s \in DOMAIN f : f[s] \in Nat

Reading == [serial : Nat, pid : Pids, own : Nat, proc : Nat]
Sample  == [serial : Nat, pid : Pids, own : Nat, from : Nat, proc : Nat, tick : Nat]

KernelType == gen \in [Pids -> Nat] /\ alive \in [Pids -> BOOLEAN]
TableType  == /\ table \subseteq Entry /\ PidfdMap(pidfds) /\ nextSerial \in Nat
              /\ deferred \subseteq Deferred /\ IsFiniteSet(deferred)
CallType   == /\ DOMAIN add = Adders /\ \A c \in Adders : AddRecord(add[c])
              /\ calls \in Nat /\ found \in [Pids -> Nat] /\ unlisted \subseteq Pids
SampleType == /\ spc \in {"wait", "read", "poll", "apply", "keep", "exited"} /\ tick \in Nat
              /\ todo \subseteq Entry /\ seen \subseteq Pids /\ readings \subseteq Reading
              /\ items \subseteq [serial : Nat, fd : BOOLEAN] /\ exited \subseteq Nat
              /\ base \in [Pids -> [serial : Nat, proc : Nat]]
BatchType  == batch \subseteq Sample /\ IsFiniteSet(batch) /\ pushed \in Nat
FlushType  == /\ fpc \in {"wait", "drained", "snapped", "written", "roots", "exited"}
              /\ drained \subseteq Sample /\ IsFiniteSet(drained)
              /\ fsnap \subseteq Entry /\ froots \subseteq Deferred
TraceType  == /\ frame \in [rows : SUBSET Entry, samples : SUBSET Sample]
              /\ marked \subseteq Nat /\ dropped \subseteq Nat /\ written \in Nat
PhaseType  == phase \in {"run", "stopping", "final", "stopped"}

\* Every variable has the type its C++ counterpart has.
TypeOK == /\ KernelType /\ TableType /\ CallType /\ SampleType
          /\ BatchType /\ FlushType /\ TraceType /\ PhaseType

\* No flush carries one PID number twice: not the table, not the snapshot a
\* flush works on, not the frame in the file.
OnePerPid(T) == \A e1, e2 \in T : e1.pid = e2.pid => e1 = e2

OneRowPerPid == OnePerPid(table) /\ OnePerPid(fsnap) /\ OnePerPid(frame.rows)

\* A registration's serial is never used again: not by two entries, and not
\* by an entry made after the serial's entry was dropped.
SerialNeverReused ==
  /\ \A e1, e2 \in table : e1.serial = e2.serial => e1 = e2
  /\ \A e \in table : e.serial \notin dropped
  /\ \A s \in SerialsOf(table) \union dropped : s < nextSerial

\* The descriptor of a registration is open exactly while its entry is in the
\* table and not ended, and it pins the process whose start time the entry
\* records (entries that never got a descriptor aside).
PidfdPinsEntry ==
  /\ \A s \in DOMAIN pidfds : \E e \in table : e.serial = s /\ ~e.ended /\ e.start = pidfds[s]
  /\ ~PidfdMayFail => \A e \in table : ~e.ended => e.serial \in DOMAIN pidfds

\* A deferred registration always has an entry of its number to wait for:
\* with none it would be registered by no commit.
DeferredHasBlocker == \A d \in deferred : d.pid \in PidsOf(table)

\* An entry leaves the table only after a frame with its removed=true row.
DroppedWasAnnounced == dropped \subseteq marked

\* Read-then-verify: a reading that PollTracked let through, of a registration
\* it polled and found again in the table, came from the registered process.
KeptReadingIsOwn ==
  [][spc = "apply" /\ spc' = "keep" =>
       \A r \in readings' :
         r.serial \in SerialsOf(table) /\ (\E i \in items : i.serial = r.serial /\ i.fd)
           => r.proc = r.own]_vars

\* A live registration's baseline, which its next delta is taken from, and
\* its recorded head once it has been sampled, are the registered process's.
BaselineIsOwn ==
  \A e \in table :
    e.serial \in DOMAIN pidfds /\ e.serial = base[e.pid].serial
      => base[e.pid].proc = e.start /\ e.head = e.start

\* A frame with a sample has, or an earlier frame had with removed=true, the
\* row of the registration the sample belongs to.
SampleHasRow == \A s \in frame.samples : s.serial \in SerialsOf(frame.rows) \union marked

\* No sample is lost or written twice, and Stop() leaves none behind.
SamplesConserved == ~WriteMayFail =>
  /\ pushed = Cardinality(batch) + Cardinality(drained) + written
  /\ phase = "stopped" => pushed = written

\* An exited process's entry never comes back to life: no re-Add, by whatever
\* thread, un-removes it, so the next owner of its number is never sampled as it.
EndedStaysEnded ==
  [][\A e \in table : e.ended =>
        \A x \in table' : x.serial = e.serial => x.ended /\ x.pending]_vars

\* Every entry flagged for removal is dropped, or un-removed by a new Add,
\* as long as the probe has not stopped.
RemovalCompletes ==
  \A s \in 1..(Len(Roots) + MaxCalls) :
    (\E e \in table : e.serial = s /\ e.pending) ~>
      (phase = "stopped" \/ ~\E e \in table : e.serial = s /\ e.pending)

---------------------------------------------------------------------------
(* The inductive invariant behind the safety invariants of the table.      *)

\* A registration in progress: its descriptor was opened no later than the
\* start time was read, so a descriptor still alive after pins that start.
AddPins ==
  \A c \in Adders : LET a == add[c] IN
    /\ a.pc \in {"stat", "check"} => ~a.ended
    /\ a.pc = "stat"  => a.fd <= gen[a.pid]
    /\ a.pc = "check" => a.fd <= a.start /\ a.start <= gen[a.pid]
    /\ a.pc = "insert" /\ ~a.ended => a.fd \in {0, a.start}
    /\ a.ended => a.fd = 0
    /\ ~PidfdMayFail /\ a.pc \in {"stat", "check", "insert"} /\ ~a.ended => a.fd # 0

\* Waiting registrations: each from a call of its own, a discovered one with a
\* descriptor that pins the start it carries.
WaitingPins ==
  /\ \A d1, d2 \in deferred \union froots : d1.ord = d2.ord => d1 = d2
  /\ \A d \in deferred \union froots : d.ord <= calls
  /\ deferred \intersect froots = {}
  /\ \A d \in deferred : d.discovered => d.fd \in {0, d.start} /\ (d.fd = 0 => PidfdMayFail)
  /\ \A d \in froots : ~d.discovered

\* Between the write and the commit the frame's removals are in the file.
CommitFollowsWrite == fpc = "written" /\ ~WriteMayFail => Announced(fsnap) \subseteq marked

IndInv ==
  /\ OneRowPerPid /\ SerialNeverReused /\ PidfdPinsEntry /\ DeferredHasBlocker
  /\ AddPins /\ WaitingPins
  /\ \A p \in Pids : gen[p] > 0
  /\ ~WriteMayFail => DroppedWasAnnounced
  /\ CommitFollowsWrite

---------------------------------------------------------------------------
(* What the comments and documents promise and the code does not keep.     *)

\* process_tracking_probe.h: "A reading of an entry not returned here was
\* taken while the process it pins was alive ..., so it is that process's."
EveryKeptReadingIsOwn == spc = "keep" => \A r \in readings : r.proc = r.own

\* process_tracking_probe.h: "Mark a tracked PID for removal ... dropped":
\* after a Remove no listed registration of the PID stays in the table.
RemovedStaysRemoved ==
  \A e \in table : e.pid \in unlisted /\ ~e.discovered => e.pending

\* system-guide.md, "removed": "this is the entry's last flush".
RemovedRowIsLast == \A e \in frame.rows : e.serial \in marked => e.pending

\* process_tracking_probe.h: a deferred process "is registered once the old
\* entry's removal has been flushed": it waits only for an exited one.
DeferredWaitsForExited ==
  \A d \in deferred : \E e \in table : e.pid = d.pid /\ Exited(e.pid, e.start)

\* system_metrics.proto: the flush with removed=true is "the last flush in
\* which the PID still gets a final sample".
NoSampleAfterRemoval == \A s \in frame.samples : s.serial \in SerialsOf(frame.rows)

\* metric_sample.proto: cpu_before_tracking_ns is "CPU time the process had
\* used before its first sample".
HeadIsOwn == \A e \in table : e.head # 0 => e.head = e.start
=============================================================================
