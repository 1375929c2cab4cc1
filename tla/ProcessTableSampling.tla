------------------------ MODULE ProcessTableSampling ------------------------
(* What the process table promises about samples: whose they are, whose row *)
(* they have in the file, and that none is lost or written twice.           *)
EXTENDS ProcessTableProofs

---------------------------------------------------------------------------
(* The invariant.                                                          *)

\* A registration was made no earlier than the process it names was born.
StartsBorn ==
  /\ \A e \in table : e.start <= gen[e.pid]
  /\ \A c \in Adders : add[c].pc # "idle" => add[c].start <= gen[add[c].pid]
  /\ \A d \in deferred : d.start <= gen[d.pid]

\* Serials count from 1 (0 is a baseline not set); what ended is announced.
RegInv ==
  /\ StartsBorn
  /\ nextSerial > 0 /\ \A e \in table : e.serial > 0 /\ (e.ended => e.pending)

\* A registration that ever had the serial: in the table, or dropped from it.
Registered == SerialsOf(table) \union dropped

\* Every reading, sample and baseline belongs to a registration.
SamplesRegistered ==
  /\ \A e \in todo : e.serial \in Registered
  /\ \A r \in readings : r.serial \in Registered
  /\ \A i \in items : i.serial \in Registered
  /\ \A s \in batch : s.serial \in Registered
  /\ \A p \in Pids : base[p].serial = 0 \/ base[p].serial \in Registered

\* What a flush drained, too: once it has its snapshot, to one that is in it or
\* was dropped before.
DrainRegistered ==
  /\ fpc = "drained" => \A s \in drained : s.serial \in Registered
  /\ fpc = "snapped" => \A s \in drained : s.serial \in SerialsOf(fsnap) \union dropped

\* A registration is read once a tick ...
ReadOnce ==
  /\ \A e1, e2 \in todo : e1.serial = e2.serial => e1 = e2
  /\ \A r1, r2 \in readings : r1.serial = r2.serial => r1 = r2
  /\ \A e \in todo, r \in readings : e.serial # r.serial
  /\ spc # "read" => todo = {}
  /\ spc \in {"wait", "exited"} => readings = {}

\* ... and pushed once a tick.
PushedOnce ==
  \A s \in batch :
    /\ s.tick <= tick
    /\ spc \in {"read", "poll", "apply"} => s.tick < tick
    /\ s.tick = tick => \A r \in readings : r.serial # s.serial

\* A reading is of the number its registration has, and of the registered
\* process or a later one.
ReadLate ==
  /\ \A e \in todo, x \in table : x.serial = e.serial => x.pid = e.pid /\ x.start = e.start
  /\ \A r \in readings :
       /\ r.proc <= gen[r.pid]
       /\ \A x \in table : x.serial = r.serial => x.pid = r.pid /\ x.start = r.own /\ r.own <= r.proc

\* What the poll asks: every open descriptor of a registration that was read,
\* and a descriptor it asks is closed only with its entry.
PollAsks ==
  spc \in {"poll", "apply"} =>
    /\ \A x \in table, r \in readings :
         x.serial = r.serial /\ x.serial \in DOMAIN pidfds => \E i \in items : i.serial = x.serial /\ i.fd
    /\ \A i \in items, x \in table : i.serial = x.serial /\ i.fd /\ ~x.ended => x.serial \in DOMAIN pidfds

\* What the poll answers: a reading of an open registration is the registered
\* process's unless the answer, or once it is applied the entry, says it ended.
PollAnswers ==
  spc \in {"apply", "keep"} =>
    \A x \in table, r \in readings :
      /\ x.serial = r.serial /\ x.serial \in DOMAIN pidfds
      /\ spc = "apply" => x.serial \notin exited
      => r.proc = r.own

ReadingInv ==
  /\ SamplesRegistered /\ ReadOnce /\ PushedOnce /\ ReadLate /\ PollAsks /\ PollAnswers /\ BaselineIsOwn

\* Nothing is drained twice, and Stop() drains last.
DrainInv ==
  /\ fpc \in {"wait", "written", "roots", "exited"} => drained = {}
  /\ phase \in {"final", "stopped"} => spc = "exited"
  /\ phase = "final" /\ fpc # "wait" => batch = {}
  /\ phase = "stopped" => batch = {} /\ fpc = "exited"
  /\ phase = "final" => fpc # "exited"

FlushInv == DrainRegistered /\ DrainInv /\ SamplesConserved /\ (~WriteMayFail => SampleHasRow)

---------------------------------------------------------------------------
(* What a step may do to the registrations.                                *)

SameRegistration(x, e) == x.serial = e.serial /\ x.pid = e.pid /\ x.start = e.start /\ (e.ended => x.ended)
HeadKept(x, e) == x.head = e.head \/ \E r \in readings : SeedBaseline(r)

\* An entry stays the same registration or is a new one, under a serial nobody
\* had; one that leaves is remembered as dropped; a descriptor is closed only
\* with its entry, and opened only for a new one.
Moves ==
  /\ \A x \in table' :
       /\ x.start <= gen[x.pid] /\ (x.ended => x.pending)
       /\ (\E e \in table : SameRegistration(x, e) /\ HeadKept(x, e)) \/ x.serial >= nextSerial
  /\ dropped \subseteq dropped' /\ SerialsOf(table) \subseteq SerialsOf(table') \union dropped'
  /\ \A s \in DOMAIN pidfds' : s \in DOMAIN pidfds \/ s >= nextSerial
  /\ \A x \in table' : ~x.ended /\ x.serial \in DOMAIN pidfds => x.serial \in DOMAIN pidfds'
  /\ nextSerial <= nextSerial'

\* Steps that leave the registrations alone.
LEMMA MovesInert ==
  ASSUME TypeOK, RegInv, UNCHANGED <<table, pidfds, nextSerial, dropped>>
  PROVE  Moves
<1>1. nextSerial \in Nat
  BY DEF TypeOK, TableType
<1> QED BY <1>1 DEF Moves, RegInv, StartsBorn, SameRegistration, HeadKept, SerialsOf

\* Entries changed in place, the descriptors of those that end closed.
LEMMA MovesInPlace ==
  ASSUME TypeOK, TableInv, RegInv, NEW U \in [table -> Entry],
         \A e \in table : /\ SameRegistration(U[e], e) /\ HeadKept(U[e], e)
                          /\ U[e].ended => U[e].pending,
         table' = {U[e] : e \in table},
         pidfds' = [s \in DOMAIN pidfds \ {e.serial : e \in {x \in table : U[x].ended /\ ~x.ended}} |-> pidfds[s]],
         UNCHANGED <<nextSerial, dropped>>
  PROVE  Moves
<1> DEFINE ending == {e.serial : e \in {x \in table : U[x].ended /\ ~x.ended}}
<1>1. \A y \in table' : \E e \in table : y = U[e]
  OBVIOUS
<1>2. DOMAIN pidfds' = DOMAIN pidfds \ ending
  OBVIOUS
<1>3. ASSUME NEW x \in table'
      PROVE  /\ x.start <= gen[x.pid] /\ (x.ended => x.pending)
             /\ \E e \in table : SameRegistration(x, e) /\ HeadKept(x, e)
  BY <1>1 DEF RegInv, StartsBorn, SameRegistration
<1>4. SerialsOf(table) \subseteq SerialsOf(table')
  BY DEF SerialsOf, SameRegistration
<1>5. ASSUME NEW x \in table', ~x.ended, x.serial \in DOMAIN pidfds PROVE x.serial \in DOMAIN pidfds'
  <2>1. PICK e \in table : x = U[e] /\ SameRegistration(x, e)
    BY <1>1
  <2>2. x.serial \notin ending
    BY <1>5, <2>1 DEF TableInv, SerialNeverReused, SameRegistration
  <2> QED BY <1>2, <1>5, <2>2
<1>6. nextSerial \in Nat
  BY DEF TypeOK, TableType
<1> QED BY <1>2, <1>3, <1>4, <1>5, <1>6 DEF Moves

\* Remove and the re-Add of a number still held.
LEMMA MovesReplace ==
  ASSUME TypeOK, TableInv, RegInv, NEW e \in table, NEW new \in Entry,
         SameRegistration(new, e), new.ended = e.ended, new.head = e.head, new.ended => new.pending,
         table' = Replace(table, e, new), UNCHANGED <<pidfds, nextSerial, dropped>>
  PROVE  Moves
<1> DEFINE U == [x \in table |-> IF x = e THEN new ELSE x]
<1>1. U \in [table -> Entry] /\ table' = {U[x] : x \in table}
  BY DEF TypeOK, TableType, Replace
<1>2. {x.serial : x \in {y \in table : U[y].ended /\ ~y.ended}} = {}
  OBVIOUS
<1>3. pidfds' = [s \in DOMAIN pidfds \ {x.serial : x \in {y \in table : U[y].ended /\ ~y.ended}} |-> pidfds[s]]
  BY <1>2 DEF TypeOK, TableType, PidfdMap
<1>4. \A x \in table : /\ SameRegistration(U[x], x) /\ HeadKept(U[x], x)
                       /\ U[x].ended => U[x].pending
  BY DEF SameRegistration, HeadKept, RegInv
<1> HIDE DEF U
<1> QED BY <1>1, <1>3, <1>4, MovesInPlace

\* GoneLocked.
LEMMA MovesMarkGone ==
  ASSUME TypeOK, TableInv, RegInv, NEW e \in table, MarkGoneLocked(e), UNCHANGED <<nextSerial, dropped>>
  PROVE  Moves
<1>1. CASE e.ended
  <2>1. table' = table /\ pidfds' = pidfds
    BY <1>1 DEF MarkGoneLocked, Replace
  <2>2. nextSerial \in Nat
    BY DEF TypeOK, TableType
  <2> QED BY <2>1, <2>2 DEF Moves, RegInv, StartsBorn, SameRegistration, HeadKept, SerialsOf
<1>2. CASE ~e.ended
  <2> DEFINE U == [x \in table |-> IF x = e THEN MarkGone(e) ELSE x]
  <2>0. /\ MarkGone(e) \in Entry /\ MarkGone(e).serial = e.serial /\ MarkGone(e).pid = e.pid
        /\ MarkGone(e).start = e.start /\ MarkGone(e).head = e.head
        /\ MarkGone(e).ended /\ MarkGone(e).pending
    BY EntryUpdates DEF TypeOK, TableType, MarkGone, Entry
  <2>1. U \in [table -> Entry] /\ table' = {U[x] : x \in table}
    BY <1>2, <2>0 DEF TypeOK, TableType, Replace, MarkGoneLocked
  <2>2. {x.serial : x \in {y \in table : U[y].ended /\ ~y.ended}} = {e.serial}
    BY <1>2, <2>0
  <2>3. pidfds' = [s \in DOMAIN pidfds \ {x.serial : x \in {y \in table : U[y].ended /\ ~y.ended}} |-> pidfds[s]]
    BY <1>2, <2>2 DEF MarkGoneLocked, WithoutFds
  <2>4. \A x \in table : /\ SameRegistration(U[x], x) /\ HeadKept(U[x], x)
                         /\ U[x].ended => U[x].pending
    BY <2>0 DEF SameRegistration, HeadKept, RegInv
  <2> HIDE DEF U
  <2> QED BY <2>1, <2>3, <2>4, MovesInPlace
<1> QED BY <1>1, <1>2

\* InsertLocked.
LEMMA MovesInsert ==
  ASSUME TypeOK, TableInv, RegInv, NEW p \in Pids, NEW start \in Nat, NEW fd \in Nat, NEW d \in BOOLEAN,
         NEW x \in BOOLEAN, InsertLocked(p, start, fd, d, x), start <= gen[p], UNCHANGED dropped
  PROVE  Moves
<1> DEFINE new == NewEntry(p, nextSerial, start, d, x)
<1>1. /\ new.serial = nextSerial /\ new.pid = p /\ new.start = start /\ new.ended = x /\ new.pending = x
      /\ table' = table \union {new} /\ nextSerial' = nextSerial + 1 /\ nextSerial \in Nat
      /\ pidfds' = WithFd(pidfds, nextSerial, fd)
  BY DEF NewEntry, InsertLocked, TypeOK, TableType
<1> HIDE DEF new
<1>2. DOMAIN pidfds \subseteq DOMAIN pidfds' /\ DOMAIN pidfds' \subseteq DOMAIN pidfds \union {nextSerial}
  BY <1>1 DEF WithFd
<1> QED BY <1>1, <1>2 DEF Moves, RegInv, StartsBorn, SameRegistration, HeadKept, SerialsOf

\* CommitPendingRemovals.
LEMMA MovesCommit ==
  ASSUME TypeOK, TableInv, RegInv,
         NEW out, NEW kept, NEW first, NEW new, NEW newFd,
         CommitLocals(out, kept, first, new, newFd), CommitEffect(out, kept, first, new, newFd)
  PROVE  Moves
<1> DEFINE row(d) == NewEntry(d.pid, DeferredSerial(d, new), d.start, TRUE, FALSE)
<1>1. /\ out \subseteq table /\ kept = table \ out /\ new \subseteq deferred
      /\ table' = kept \union {row(d) : d \in new}
      /\ nextSerial' = nextSerial + Cardinality(new) /\ dropped' = dropped \union SerialsOf(out)
      /\ DOMAIN pidfds' = (DOMAIN pidfds \ SerialsOf(out)) \union {f.serial : f \in newFd}
  BY DEF CommitLocals, CommitEffect, FirstInLine, Freed
<1>2. /\ nextSerial \in Nat /\ Cardinality(new) \in Nat
      /\ \A d \in new : DeferredSerial(d, new) \in Nat /\ nextSerial <= DeferredSerial(d, new)
  BY <1>1, CommitSerials DEF TypeOK, TableType
<1>3. \A d \in new : /\ row(d).serial = DeferredSerial(d, new) /\ row(d).pid = d.pid
                     /\ row(d).start = d.start /\ ~row(d).ended
  BY DEF NewEntry
<1> HIDE DEF row
<1>4. ASSUME NEW x \in table'
      PROVE  /\ x.start <= gen[x.pid] /\ (x.ended => x.pending)
             /\ (\E e \in table : SameRegistration(x, e) /\ HeadKept(x, e)) \/ x.serial >= nextSerial
  BY <1>1, <1>2, <1>3 DEF RegInv, StartsBorn, SameRegistration, HeadKept
<1>5. SerialsOf(table) \subseteq SerialsOf(table') \union dropped'
  BY <1>1 DEF SerialsOf
<1>6. \A s \in DOMAIN pidfds' : s \in DOMAIN pidfds \/ s >= nextSerial
  <2>1. \A f \in newFd : \E d \in new : f.serial = DeferredSerial(d, new)
    <3>1. newFd = {[serial |-> DeferredSerial(d, new), fd |-> d.fd] : d \in {x \in new : x.fd # 0}}
      BY DEF CommitLocals
    <3> QED BY <3>1
  <2> QED BY <1>1, <1>2, <2>1
<1>7. ASSUME NEW x \in table', x.serial \in DOMAIN pidfds PROVE x.serial \in DOMAIN pidfds'
  <2>1. \A e \in table : e.serial \in Nat /\ e.serial < nextSerial
    BY DEF TypeOK, TableType, Entry, TableInv, SerialNeverReused, SerialsOf
  <2>2. \A s \in DOMAIN pidfds : s \in Nat /\ s < nextSerial
    BY <2>1 DEF TableInv, PidfdPinsEntry
  <2>3. x \in kept
    BY <1>1, <1>2, <1>3, <1>7, <2>2
  <2>4. x.serial \notin SerialsOf(out)
    BY <1>1, <2>3 DEF TableInv, SerialNeverReused, SerialsOf
  <2> QED BY <1>1, <1>7, <2>4
<1> QED BY <1>1, <1>2, <1>4, <1>5, <1>6, <1>7 DEF Moves

\* AddLookup, by whatever thread.
LEMMA MovesAddLookup ==
  ASSUME TypeOK, TableInv, RegInv, NEW c \in Adders, NEW p \in Pids, NEW ord \in Nat,
         AddLookup(c, p, ord), UNCHANGED dropped
  PROVE  Moves
<1>1. CASE UNCHANGED <<table, pidfds, deferred>>
  BY <1>1, MovesInert DEF AddLookup
<1>2. ASSUME NEW e \in table, MarkGoneLocked(e) PROVE Moves
  BY <1>2, MovesMarkGone DEF AddLookup
<1>3. ASSUME NEW e \in table, ~IsGone(e), UNCHANGED pidfds,
             table' = Replace(table, e, [e EXCEPT !.pending = FALSE, !.discovered = FALSE])
      PROVE  Moves
  <2> DEFINE new == [e EXCEPT !.pending = FALSE, !.discovered = FALSE]
  <2>1. /\ new \in Entry /\ new.serial = e.serial /\ new.pid = e.pid /\ new.start = e.start
        /\ new.ended = e.ended /\ new.head = e.head /\ ~e.ended
    BY <1>3, EntryUpdates DEF TypeOK, TableType, Entry, IsGone
  <2>2. table' = Replace(table, e, new) /\ nextSerial' = nextSerial
    BY <1>3 DEF AddLookup
  <2> HIDE DEF new
  <2> QED BY <1>3, <2>1, <2>2, MovesReplace DEF SameRegistration
<1> QED BY <1>1, <1>2, <1>3 DEF AddLookup

\* Every step of every thread moves the registrations this way.
LEMMA MovesStep ==
  ASSUME TypeOK, IndInv, RegInv, [Next]_vars
  PROVE  Moves /\ \A p \in Pids : gen[p] <= gen'[p]
<1>0. TableInv /\ WaitingPins
  BY DEF IndInv, TableInv, OneRowPerPid
<1>a. \A p \in Pids : gen[p] \in Nat
  BY DEF TypeOK, KernelType
<1> DEFINE Goal == Moves /\ \A p \in Pids : gen[p] <= gen'[p]
<1>1. ASSUME NEW p \in Pids, Exit(p) \/ Spawn(p) PROVE Goal
  <2>1. UNCHANGED <<tableVars, dropped>>
    BY <1>1 DEF Exit, Spawn, traceVars
  <2>2. \A q \in Pids : gen[q] <= gen'[q]
    BY <1>1, <1>a DEF Exit, Spawn, TypeOK, KernelType
  <2> QED BY <2>1, <2>2, MovesInert DEF tableVars
<1>b. UNCHANGED gen => \A p \in Pids : gen[p] <= gen'[p]
  BY <1>a
<1>2. ASSUME NEW c \in Callers, NEW p \in Pids, AddTrackedProcess(c, p) PROVE Goal
  <2>1. c \in Adders /\ calls + 1 \in Nat /\ AddLookup(c, p, calls + 1) /\ UNCHANGED <<gen, dropped>>
    BY <1>2 DEF AddTrackedProcess, Adders, TypeOK, CallType, kernelVars, traceVars
  <2> QED BY <1>0, <1>b, <2>1, MovesAddLookup
<1>3. ASSUME NEW c \in Callers, NEW p \in Pids, RemoveTrackedProcess(c, p) PROVE Goal
  <2>1. UNCHANGED <<gen, pidfds, nextSerial, dropped>>
    BY <1>3 DEF RemoveTrackedProcess, kernelVars, traceVars
  <2>2. CASE UNCHANGED table
    BY <1>b, <2>1, <2>2, MovesInert
  <2>3. ASSUME NEW e \in table, table' = Replace(table, e, [e EXCEPT !.pending = TRUE]) PROVE Goal
    <3> DEFINE new == [e EXCEPT !.pending = TRUE]
    <3>1. /\ new \in Entry /\ new.serial = e.serial /\ new.pid = e.pid /\ new.start = e.start
          /\ new.ended = e.ended /\ new.head = e.head /\ new.pending
      BY EntryUpdates DEF TypeOK, TableType, Entry
    <3>2. table' = Replace(table, e, new)
      BY <2>3
    <3> HIDE DEF new
    <3> QED BY <1>0, <1>b, <2>1, <3>1, <3>2, MovesReplace DEF SameRegistration
  <2> QED BY <1>3, <2>2, <2>3 DEF RemoveTrackedProcess
<1>4. ASSUME NEW c \in Adders, AddInsert(c) PROVE Goal
  <2>1. UNCHANGED <<gen, dropped>> /\ AddRecord(add[c]) /\ add[c].pid \in Pids /\ add[c].pc = "insert"
    BY <1>4 DEF AddInsert, kernelVars, traceVars, TypeOK, CallType, AddRecord
  <2>2. CASE UNCHANGED <<table, pidfds, nextSerial>>
    BY <1>b, <2>1, <2>2, MovesInert
  <2>3. CASE InsertLocked(add[c].pid, add[c].start, add[c].fd, FALSE, add[c].ended)
    <3>1. add[c].start <= gen[add[c].pid]
      BY <2>1 DEF RegInv, StartsBorn
    <3> QED BY <1>0, <1>b, <2>1, <2>3, <3>1, MovesInsert DEF AddRecord
  <2> QED BY <1>4, <2>2, <2>3 DEF AddInsert
<1>5. ASSUME NEW p \in Pids, NEW g \in 1..gen[p], NEW fd \in 0..gen[p], AddDiscoveredProcess(p, g, fd) PROVE Goal
  <2>1. UNCHANGED <<gen, dropped>> /\ g \in Nat /\ fd \in Nat /\ g <= gen[p]
    BY <1>5, <1>a DEF AddDiscoveredProcess, kernelVars, traceVars
  <2>2. CASE UNCHANGED <<table, pidfds, nextSerial>>
    BY <1>b, <2>1, <2>2, MovesInert
  <2>3. ASSUME NEW e \in table, MarkGoneLocked(e), UNCHANGED nextSerial PROVE Goal
    BY <1>0, <1>b, <2>1, <2>3, MovesMarkGone
  <2>4. CASE InsertLocked(p, g, fd, TRUE, FALSE)
    BY <1>0, <1>b, <2>1, <2>4, MovesInsert
  <2> QED BY <1>5, <2>2, <2>3, <2>4 DEF AddDiscoveredProcess
<1>6. CASE PollApply
  <2> DEFINE dead == {e \in Polled : ~e.ended /\ e.serial \in exited}
             U == [e \in table |-> IF e \in dead THEN MarkGone(e) ELSE e]
  <2>1. /\ dead \subseteq table /\ table' = (table \ dead) \union {MarkGone(e) : e \in dead}
        /\ pidfds' = WithoutFds(pidfds, SerialsOf(dead)) /\ \A e \in dead : ~e.ended
        /\ UNCHANGED <<gen, nextSerial, dropped>>
    BY <1>6 DEF PollApply, Polled, kernelVars, traceVars
  <2> HIDE DEF dead
  <2>2. \A e \in table : /\ e \in Entry /\ MarkGone(e) \in Entry /\ MarkGone(e).serial = e.serial
                         /\ MarkGone(e).pid = e.pid /\ MarkGone(e).start = e.start
                         /\ MarkGone(e).head = e.head /\ MarkGone(e).ended /\ MarkGone(e).pending
    BY EntryUpdates DEF TypeOK, TableType, MarkGone, Entry
  <2>3. U \in [table -> Entry] /\ table' = {U[e] : e \in table}
    BY <2>1, <2>2
  <2>4. {e.serial : e \in {x \in table : U[x].ended /\ ~x.ended}} = SerialsOf(dead)
    BY <2>1, <2>2 DEF SerialsOf
  <2>5. \A e \in table : /\ SameRegistration(U[e], e) /\ HeadKept(U[e], e)
                         /\ U[e].ended => U[e].pending
    BY <2>2 DEF SameRegistration, HeadKept, RegInv
  <2> HIDE DEF U
  <2> QED BY <1>0, <1>b, <2>1, <2>3, <2>4, <2>5, MovesInPlace DEF WithoutFds
<1>7. ASSUME NEW r \in readings, SeedBaseline(r) PROVE Goal
  <2>0. UNCHANGED <<gen, pidfds, nextSerial, dropped>>
    BY <1>7 DEF SeedBaseline, kernelVars, traceVars
  <2> DEFINE U == [e \in table |-> IF e.pid = r.pid /\ ~e.ended THEN [e EXCEPT !.head = r.proc] ELSE e]
  <2>1. table' = {U[e] : e \in table}
    BY <1>7 DEF SeedBaseline
  <2>2. \A e \in table : /\ U[e] \in Entry /\ U[e].serial = e.serial /\ U[e].pid = e.pid
                         /\ U[e].start = e.start /\ U[e].ended = e.ended /\ U[e].pending = e.pending
    BY EntryUpdates DEF TypeOK, TableType, SampleType, Reading, Entry
  <2>3. U \in [table -> Entry]
    BY <2>2
  <2> HIDE DEF U
  <2>4. {e.serial : e \in {x \in table : U[x].ended /\ ~x.ended}} = {}
    BY <2>2
  <2>5. pidfds' = [s \in DOMAIN pidfds \ {e.serial : e \in {x \in table : U[x].ended /\ ~x.ended}} |-> pidfds[s]]
    BY <2>0, <2>4 DEF TypeOK, TableType, PidfdMap
  <2>6. \A e \in table : /\ SameRegistration(U[e], e) /\ HeadKept(U[e], e)
                         /\ U[e].ended => U[e].pending
    BY <1>7, <2>2 DEF SameRegistration, HeadKept, RegInv
  <2> QED BY <1>0, <1>b, <2>0, <2>1, <2>3, <2>5, <2>6, MovesInPlace
<1>8. CASE FlushCommit
  <2>1. PICK out, kept, first, new, newFd :
          CommitLocals(out, kept, first, new, newFd) /\ CommitEffect(out, kept, first, new, newFd)
    BY <1>8, CommitIs
  <2>2. Moves
    BY <1>0, <2>1, MovesCommit
  <2> QED BY <1>8, <1>b, <2>2 DEF FlushCommit, kernelVars
<1>9. CASE FlushAddRoot
  <2>1. PICK d \in froots : AddLookup(FlushThread, d.pid, d.ord)
    BY <1>9 DEF FlushAddRoot
  <2>2. UNCHANGED <<gen, dropped>> /\ FlushThread \in Adders /\ d.pid \in Pids /\ d.ord \in Nat
    BY <1>9 DEF FlushAddRoot, Adders, TypeOK, FlushType, Deferred, kernelVars, traceVars
  <2> QED BY <1>0, <1>b, <2>1, <2>2, MovesAddLookup
<1>10. CASE UNCHANGED <<tableVars, gen, dropped>>
  BY <1>10, <1>b, MovesInert DEF tableVars
<1>11. ASSUME NEW c \in Adders, MakeRoot(c) PROVE UNCHANGED <<tableVars, gen, dropped>>
  BY <1>11 DEF MakeRoot, MakeRootOpen, MakeRootOpenFails, MakeRootStat, MakeRootCheck, MakeRootUnchanged,
               kernelVars, traceVars
<1>12. ASSUME Sampling, ~PollApply, \A r \in readings : ~SeedBaseline(r)
       PROVE  UNCHANGED <<tableVars, gen, dropped>>
  BY <1>12 DEF Sampling, Keep, SampleSnapshot, SampleRead, PollCollect, PollFds, PushSample, SkipSample,
               SampleEnd, SampleExit, kernelVars, traceVars
<1>13. ASSUME Flushing, ~FlushCommit, ~FlushAddRoot
       PROVE  UNCHANGED <<tableVars, gen, dropped>>
  BY <1>13 DEF Flushing, FlushDrain, FlushSnapshot, FlushSkip, FlushWrite, FlushWriteLost, FlushEnd, FlushExit,
               kernelVars, traceVars
<1>14. CASE StopSignalled \/ StopJoined \/ UNCHANGED vars
  BY <1>10, <1>14 DEF StopSignalled, StopJoined, kernelVars, traceVars, vars
<1> QED
  BY <1>1, <1>2, <1>3, <1>4, <1>5, <1>6, <1>7, <1>8, <1>9, <1>10, <1>11, <1>12, <1>13, <1>14 DEF Next

---------------------------------------------------------------------------
(* RegInv, and what ended stays ended.                                     *)

LEMMA RegInit == Init => RegInv
<1> SUFFICES ASSUME Init PROVE RegInv
  OBVIOUS
<1> USE DEF Init
<1>1. IsFiniteSet(FirstListed) /\ \A i \in FirstListed : Roots[i] \in Pids /\ RootSerial(i) \in Nat
  BY FirstListedFinite
<1>2. Cardinality(FirstListed) \in Nat
  BY <1>1, FS_CardinalityType
<1>3. ASSUME NEW i \in FirstListed PROVE RootSerial(i) > 0
  <2> DEFINE upto == {j \in FirstListed : j <= i}
  <2>1. i \in upto /\ upto \subseteq FirstListed
    BY FirstListedFinite
  <2> HIDE DEF upto
  <2>2. IsFiniteSet(upto) /\ Cardinality(upto) \in Nat
    BY <1>1, <2>1, FS_Subset, FS_CardinalityType
  <2>3. Cardinality(upto) # 0
    BY <2>1, <2>2, FS_EmptySet
  <2> QED BY <2>2, <2>3 DEF RootSerial, upto
<1>4. \A e \in table : /\ e.serial > 0 /\ (e.ended => e.pending)
                       /\ e.pid \in Pids /\ e.start \in 0..1
  <2> SUFFICES ASSUME NEW i \in FirstListed
               PROVE  /\ InitialEntry(i).serial > 0 /\ (InitialEntry(i).ended => InitialEntry(i).pending)
                      /\ InitialEntry(i).pid \in Pids /\ InitialEntry(i).start \in 0..1
    BY DEF InitialTable
  <2> QED BY <1>1, <1>3 DEF InitialEntry, NewEntry
<1>5. StartsBorn
  BY <1>4 DEF StartsBorn, NoAdd
<1> QED BY <1>2, <1>4, <1>5 DEF RegInv

LEMMA RegStep == TypeOK /\ IndInv /\ RegInv /\ [Next]_vars => RegInv'
<1> SUFFICES ASSUME TypeOK, IndInv, RegInv, [Next]_vars PROVE RegInv'
  OBVIOUS
<1>1. Moves /\ \A p \in Pids : gen[p] <= gen'[p]
  BY MovesStep
<1>2. TypeOK'
  BY TypeStep
<1>3. \A p \in Pids : gen[p] \in Nat /\ gen'[p] \in Nat
  BY <1>2 DEF TypeOK, KernelType
<1>4. nextSerial \in Nat /\ nextSerial' \in Nat /\ table \subseteq Entry /\ table' \subseteq Entry
  BY <1>2 DEF TypeOK, TableType
<1>5. nextSerial' > 0 /\ \A x \in table' : x.serial > 0 /\ (x.ended => x.pending) /\ x.start <= gen'[x.pid]
  <2>1. nextSerial' > 0
    BY <1>1, <1>4 DEF RegInv, Moves
  <2> SUFFICES ASSUME NEW x \in table' PROVE x.serial > 0 /\ (x.ended => x.pending) /\ x.start <= gen'[x.pid]
    BY <2>1
  <2>2. x.serial \in Nat /\ x.start \in Nat /\ x.pid \in Pids
    BY <1>4 DEF Entry
  <2>3. x.start <= gen[x.pid] /\ gen[x.pid] <= gen'[x.pid] /\ (x.ended => x.pending)
    BY <1>1, <2>2 DEF Moves
  <2>4. x.serial >= nextSerial \/ \E e \in table : x.serial = e.serial
    BY <1>1 DEF Moves, SameRegistration
  <2> QED BY <1>3, <1>4, <2>2, <2>3, <2>4 DEF RegInv
<1>6. /\ \A c \in Adders : AddRecord(add[c]) /\ AddRecord(add'[c])
      /\ deferred \subseteq Deferred /\ deferred' \subseteq Deferred /\ DOMAIN add = Adders
  BY <1>2 DEF TypeOK, CallType, TableType
<1>7. ASSUME NEW c \in Adders, add'[c].pc # "idle", add'[c] = add[c] PROVE add'[c].start <= gen'[add'[c].pid]
  <2>1. add[c].pid \in Pids /\ add[c].start \in Nat /\ add[c].start <= gen[add[c].pid]
    BY <1>6, <1>7 DEF RegInv, StartsBorn, AddRecord
  <2> QED BY <1>1, <1>3, <1>7, <2>1
<1>8. ASSUME NEW c \in Adders, add'[c].pc # "idle" PROVE add'[c].start <= gen'[add'[c].pid]
  <2>1. CASE add'[c] = add[c]
    BY <1>7, <1>8, <2>1
  <2>2. CASE add'[c].start = 0
    BY <1>3, <1>6, <1>8, <2>2 DEF AddRecord
  <2>3. CASE add[c].pid \in Pids /\ gen' = gen /\ add'[c].pid = add[c].pid /\ add'[c].start = gen[add[c].pid]
    BY <1>3, <2>3
  <2>4. CASE /\ add[c].pc # "idle" /\ gen' = gen /\ add'[c].pid = add[c].pid
             /\ add'[c].start = add[c].start
    BY <2>4 DEF RegInv, StartsBorn
  <2>5. ASSUME NEW x \in Adders, NEW p \in Pids, NEW ord \in Nat, AddLookup(x, p, ord)
        PROVE  add'[c] = add[c] \/ add'[c].start = 0
    <3>1. UNCHANGED add \/ add' = [add EXCEPT ![x] = Adding("open", p, 0, 0, FALSE)]
      BY <2>5 DEF AddLookup
    <3> QED BY <1>6, <3>1 DEF Adding
  <2>6. ASSUME NEW x \in Adders, MakeRoot(x)
        PROVE  \/ add'[c] = add[c] \/ add'[c].start = 0
               \/ add[c].pid \in Pids /\ gen' = gen /\ add'[c].pid = add[c].pid /\ add'[c].start = gen[add[c].pid]
               \/ /\ add[c].pc # "idle" /\ gen' = gen /\ add'[c].pid = add[c].pid
                  /\ add'[c].start = add[c].start
    <3>1. gen' = gen
      BY <2>6 DEF MakeRoot, MakeRootOpen, MakeRootOpenFails, MakeRootStat, MakeRootCheck, MakeRootUnchanged, kernelVars
    <3>2. CASE x # c
      BY <1>6, <2>6, <3>2 DEF MakeRoot, MakeRootOpen, MakeRootOpenFails, MakeRootStat, MakeRootCheck
    <3>3. CASE MakeRootOpen(c) \/ MakeRootOpenFails(c)
      BY <1>6, <3>3 DEF MakeRootOpen, MakeRootOpenFails, Opened, Adding
    <3>4. CASE MakeRootStat(c)
      BY <1>6, <3>1, <3>4 DEF MakeRootStat, Adding, AddRecord
    <3>5. CASE MakeRootCheck(c)
      BY <1>6, <3>1, <3>5 DEF MakeRootCheck, CheckedRoot, Adding, AddRecord
    <3> QED BY <2>6, <3>2, <3>3, <3>4, <3>5 DEF MakeRoot
  <2>7. ASSUME NEW x \in Adders, AddInsert(x) PROVE add'[c] = add[c] \/ add'[c].start = 0
    BY <1>6, <2>7 DEF AddInsert, NoAdd
  <2>8. ASSUME NEW x \in Callers, NEW p \in Pids, AddTrackedProcess(x, p)
        PROVE  add'[c] = add[c] \/ add'[c].start = 0
    <3>1. x \in Adders /\ calls + 1 \in Nat /\ AddLookup(x, p, calls + 1)
      BY <2>8 DEF AddTrackedProcess, Adders, TypeOK, CallType
    <3> QED BY <2>5, <3>1
  <2>9. ASSUME FlushAddRoot PROVE add'[c] = add[c] \/ add'[c].start = 0
    BY <2>5, <2>9 DEF FlushAddRoot, Adders, TypeOK, FlushType, Deferred
  <2>10. ASSUME NEW p \in Pids, Exit(p) \/ Spawn(p) PROVE add' = add
    BY <2>10 DEF Exit, Spawn, callVars
  <2>11. ASSUME NEW p \in Pids, NEW x \in Callers, RemoveTrackedProcess(x, p) PROVE add' = add
    BY <2>11 DEF RemoveTrackedProcess
  <2>12. ASSUME NEW p \in Pids, NEW g \in 1..gen[p], NEW fd \in 0..gen[p], AddDiscoveredProcess(p, g, fd) PROVE add' = add
    BY <2>12 DEF AddDiscoveredProcess
  <2>13. Sampling => add' = add
    BY DEF Sampling, Keep, SampleSnapshot, SampleRead, PollCollect, PollFds, PollApply, SeedBaseline, PushSample,
           SkipSample, SampleEnd, SampleExit, callVars
  <2>14. Flushing /\ ~FlushAddRoot => add' = add
    BY DEF Flushing, FlushDrain, FlushSnapshot, FlushSkip, FlushWrite, FlushWriteLost, FlushCommit, FlushEnd,
           FlushExit, callVars
  <2>15. StopSignalled \/ StopJoined \/ UNCHANGED vars => add' = add
    BY DEF StopSignalled, StopJoined, callVars, vars
  <2> QED
    BY <2>1, <2>2, <2>3, <2>4, <2>6, <2>7, <2>8, <2>9, <2>10, <2>11, <2>12, <2>13, <2>14, <2>15 DEF Next
<1>9. ASSUME NEW d \in deferred' PROVE d.start <= gen'[d.pid]
  <2>0. d \in Deferred /\ d.pid \in Pids /\ d.start \in Nat /\ gen[d.pid] <= gen'[d.pid]
    BY <1>1, <1>6 DEF Deferred
  <2>1. CASE d \in deferred
    BY <1>3, <2>0, <2>1 DEF RegInv, StartsBorn
  <2>2. CASE d.start = 0
    BY <1>3, <2>0, <2>2
  <2>3. CASE d.start <= gen[d.pid]
    BY <1>3, <2>0, <2>3
  <2>4. ASSUME NEW x \in Adders, NEW p \in Pids, NEW ord \in Nat, AddLookup(x, p, ord)
        PROVE  d \in deferred \/ d.start = 0
    <3>1. UNCHANGED deferred \/ deferred' = deferred \union {[ord |-> ord, pid |-> p, discovered |-> FALSE, fd |-> 0, start |-> 0]}
      BY <2>4 DEF AddLookup, Defer
    <3> QED BY <3>1
  <2>5. ASSUME NEW x \in Callers, NEW p \in Pids, AddTrackedProcess(x, p) PROVE d \in deferred \/ d.start = 0
    <3>1. x \in Adders /\ calls + 1 \in Nat /\ AddLookup(x, p, calls + 1)
      BY <2>5 DEF AddTrackedProcess, Adders, TypeOK, CallType
    <3> QED BY <2>4, <3>1
  <2>6. ASSUME FlushAddRoot PROVE d \in deferred \/ d.start = 0
    BY <2>4, <2>6 DEF FlushAddRoot, Adders, TypeOK, FlushType, Deferred
  <2>7. ASSUME NEW p \in Pids, NEW g \in 1..gen[p], NEW fd \in 0..gen[p], AddDiscoveredProcess(p, g, fd)
        PROVE  d \in deferred \/ d.start <= gen[d.pid]
    <3>1. \/ UNCHANGED deferred
          \/ deferred' = deferred \union {[ord |-> calls + 1, pid |-> p, discovered |-> TRUE, fd |-> fd, start |-> g]}
      BY <2>7 DEF AddDiscoveredProcess, Defer
    <3> QED BY <1>3, <3>1
  <2>8. ASSUME NEW p \in Pids, Exit(p) \/ Spawn(p) PROVE deferred' = deferred
    BY <2>8 DEF Exit, Spawn, tableVars
  <2>9. ASSUME NEW p \in Pids, NEW x \in Callers, RemoveTrackedProcess(x, p) PROVE deferred' \subseteq deferred
    BY <2>9 DEF RemoveTrackedProcess
  <2>10. ASSUME NEW x \in Adders, MakeRoot(x) \/ AddInsert(x) PROVE deferred' = deferred
    BY <2>10 DEF MakeRoot, MakeRootOpen, MakeRootOpenFails, MakeRootStat, MakeRootCheck, MakeRootUnchanged,
                 AddInsert, tableVars
  <2>11. Sampling => deferred' = deferred
    BY DEF Sampling, Keep, SampleSnapshot, SampleRead, PollCollect, PollFds, PollApply, SeedBaseline, PushSample,
           SkipSample, SampleEnd, SampleExit, tableVars
  <2>12. Flushing /\ ~FlushAddRoot => deferred' \subseteq deferred
    BY DEF Flushing, FlushDrain, FlushSnapshot, FlushSkip, FlushWrite, FlushWriteLost, FlushCommit, FlushEnd,
           FlushExit, tableVars
  <2>13. StopSignalled \/ StopJoined \/ UNCHANGED vars => deferred' = deferred
    BY DEF StopSignalled, StopJoined, tableVars, vars
  <2> QED
    BY <2>1, <2>2, <2>3, <2>5, <2>6, <2>7, <2>8, <2>9, <2>10, <2>11, <2>12, <2>13 DEF Next
<1> QED BY <1>5, <1>8, <1>9 DEF RegInv, StartsBorn

LEMMA RegCorrect == Spec => [](TypeOK /\ IndInv /\ RegInv)
<1>1. Init => TypeOK /\ IndInv /\ RegInv
  BY TypeInit, SafetyInit, RegInit
<1>2. TypeOK /\ IndInv /\ RegInv /\ [Next]_vars => (TypeOK /\ IndInv /\ RegInv)'
  BY TypeStep, SafetyStep, RegStep
<1> QED BY <1>1, <1>2, PTL DEF Spec

\* No registration of an exited process comes back to life: no step of any
\* thread un-removes it, whoever has its PID number meanwhile.
THEOREM EndedStaysEndedCorrect == Spec => EndedStaysEnded
<1>1. TypeOK /\ IndInv /\ RegInv /\ [Next]_vars =>
        [\A e \in table : e.ended => \A x \in table' : x.serial = e.serial => x.ended /\ x.pending]_vars
  <2> SUFFICES ASSUME TypeOK, IndInv, RegInv, [Next]_vars,
                      NEW e \in table, e.ended, NEW x \in table', x.serial = e.serial
               PROVE  x.ended /\ x.pending
    OBVIOUS
  <2>1. Moves
    BY MovesStep
  <2>2. e.serial < nextSerial /\ e.serial \in Nat /\ nextSerial \in Nat
    BY DEF IndInv, SerialNeverReused, SerialsOf, TypeOK, TableType, Entry
  <2>3. PICK y \in table : SameRegistration(x, y)
    BY <2>1, <2>2 DEF Moves
  <2>4. y = e
    BY <2>3 DEF IndInv, SerialNeverReused, SameRegistration
  <2> QED BY <2>1, <2>3, <2>4 DEF Moves, SameRegistration
<1> QED BY <1>1, RegCorrect, PTL DEF Spec, EndedStaysEnded

---------------------------------------------------------------------------
(* The readings, from the table's snapshot to the batch.                   *)

\* What Moves means for a registration already known.
LEMMA MovesKnown ==
  ASSUME TypeOK, IndInv, Moves
  PROVE  /\ Registered \subseteq Registered'
         /\ \A s \in Registered : s \in Nat /\ s < nextSerial
         /\ \A x \in table' : x.serial \in Registered =>
              /\ \E e \in table : SameRegistration(x, e) /\ HeadKept(x, e)
              /\ x.serial \in DOMAIN pidfds' => x.serial \in DOMAIN pidfds
              /\ ~x.ended /\ x.serial \in DOMAIN pidfds => x.serial \in DOMAIN pidfds'
<1>1. \A s \in Registered : s \in Nat /\ s < nextSerial
  BY DEF Registered, IndInv, SerialNeverReused, TypeOK, TableType, TraceType, SerialsOf, Entry
<1>2. nextSerial \in Nat
  BY DEF TypeOK, TableType
<1>3. Registered \subseteq Registered'
  BY DEF Moves, Registered
<1> QED BY <1>1, <1>2, <1>3 DEF Moves

\* A descriptor belongs to an entry that runs, and names it by its start.
LEMMA OpenEntry ==
  ASSUME IndInv, NEW x \in table, x.serial \in DOMAIN pidfds
  PROVE  ~x.ended /\ x.start = pidfds[x.serial]
BY DEF IndInv, PidfdPinsEntry, SerialNeverReused

LEMMA ReadingInit == Init => ReadingInv
<1> SUFFICES ASSUME Init PROVE ReadingInv
  OBVIOUS
<1> USE DEF Init
<1>1. \A e \in table : e.serial # 0
  BY RegInit, TypeInit DEF RegInv, TypeOK, TableType, Entry
<1>2. \A e \in table : e.pid \in Pids
  BY TypeInit DEF TypeOK, TableType, Entry
<1>3. BaselineIsOwn
  BY <1>1, <1>2 DEF BaselineIsOwn, NoBase
<1> QED BY <1>3 DEF ReadingInv, SamplesRegistered, ReadOnce, PushedOnce, ReadLate, PollAsks, PollAnswers, NoBase

\* The parts of ReadingInv that survive any Moves.
LEMMA RegisteredKept ==
  ASSUME TypeOK, IndInv, Moves, SamplesRegistered, UNCHANGED base,
         todo' \subseteq todo, readings' \subseteq readings, items' \subseteq items, batch' \subseteq batch
  PROVE  SamplesRegistered'
BY MovesKnown DEF SamplesRegistered

LEMMA ReadLateKept ==
  ASSUME TypeOK, IndInv, Moves, SamplesRegistered, ReadLate, TypeOK', \A p \in Pids : gen[p] <= gen'[p],
         todo' \subseteq todo, readings' \subseteq readings
  PROVE  ReadLate'
<1>1. \A x \in table' : x.serial \in Registered => \E e \in table : SameRegistration(x, e)
  BY MovesKnown
<1>2. \A r \in readings : r.pid \in Pids /\ r.proc \in Nat /\ gen[r.pid] \in Nat /\ gen'[r.pid] \in Nat
  BY DEF TypeOK, SampleType, Reading, KernelType
<1>3. \A r \in readings : r.proc <= gen'[r.pid]
  BY <1>2 DEF ReadLate
<1>4. \A e \in todo, x \in table' : x.serial = e.serial => x.pid = e.pid /\ x.start = e.start
  BY <1>1 DEF ReadLate, SamplesRegistered, SameRegistration
<1>5. \A r \in readings, x \in table' : x.serial = r.serial => x.pid = r.pid /\ x.start = r.own /\ r.own <= r.proc
  BY <1>1 DEF ReadLate, SamplesRegistered, SameRegistration
<1> QED BY <1>3, <1>4, <1>5 DEF ReadLate

LEMMA BaselineKept ==
  ASSUME TypeOK, IndInv, Moves, SamplesRegistered, BaselineIsOwn, TypeOK', RegInv',
         UNCHANGED base, \A r \in readings : ~SeedBaseline(r)
  PROVE  BaselineIsOwn'
<1> SUFFICES ASSUME NEW x \in table', x.serial \in DOMAIN pidfds', x.serial = base[x.pid].serial
             PROVE  base[x.pid].proc = x.start /\ x.head = x.start
  BY DEF BaselineIsOwn
<1>1. x.serial > 0 /\ x.pid \in Pids
  BY DEF RegInv, TypeOK, TableType, Entry
<1>2. x.serial \in Registered
  BY <1>1 DEF SamplesRegistered
<1>3. PICK e \in table : SameRegistration(x, e) /\ HeadKept(x, e)
  BY <1>2, MovesKnown
<1>4. e.serial \in DOMAIN pidfds /\ e.serial = base[e.pid].serial
  BY <1>2, <1>3, MovesKnown DEF SameRegistration
<1>5. x.head = e.head
  BY <1>3 DEF HeadKept
<1> QED BY <1>3, <1>4, <1>5 DEF BaselineIsOwn, SameRegistration

\* The steps of every thread but the sample thread.
LEMMA ReadingQuiet ==
  ASSUME TypeOK, IndInv, RegInv, ReadingInv, Moves, \A p \in Pids : gen[p] <= gen'[p], TypeOK', RegInv',
         UNCHANGED sampleVars, batch' \subseteq batch
  PROVE  ReadingInv'
<1>0. /\ SamplesRegistered /\ ReadOnce /\ PushedOnce /\ ReadLate /\ PollAsks /\ PollAnswers /\ BaselineIsOwn
      /\ UNCHANGED <<spc, tick, todo, seen, readings, items, exited, base>>
  BY DEF ReadingInv, sampleVars
<1>1. \A x \in table' : x.serial \in Registered =>
        /\ \E e \in table : SameRegistration(x, e)
        /\ x.serial \in DOMAIN pidfds' => x.serial \in DOMAIN pidfds
        /\ ~x.ended /\ x.serial \in DOMAIN pidfds => x.serial \in DOMAIN pidfds'
  BY MovesKnown
<1>2. SamplesRegistered' /\ ReadLate'
  BY <1>0, RegisteredKept, ReadLateKept
<1>3. ReadOnce' /\ PushedOnce'
  BY <1>0 DEF ReadOnce, PushedOnce
<1>4. BaselineIsOwn'
  <2>1. \A r \in readings : ~SeedBaseline(r)
    BY <1>0 DEF SeedBaseline
  <2> QED BY <1>0, <2>1, BaselineKept
<1>5. PollAsks'
  <2> SUFFICES ASSUME spc \in {"poll", "apply"}
               PROVE  /\ \A x \in table', r \in readings :
                           x.serial = r.serial /\ x.serial \in DOMAIN pidfds' => \E i \in items : i.serial = x.serial /\ i.fd
                      /\ \A i \in items, x \in table' :
                           i.serial = x.serial /\ i.fd /\ ~x.ended => x.serial \in DOMAIN pidfds'
    BY <1>0 DEF PollAsks
  <2>1. ASSUME NEW x \in table', NEW r \in readings, x.serial = r.serial, x.serial \in DOMAIN pidfds'
        PROVE  \E i \in items : i.serial = x.serial /\ i.fd
    <3>1. x.serial \in Registered
      BY <1>0, <2>1 DEF SamplesRegistered
    <3>2. PICK e \in table : SameRegistration(x, e)
      BY <1>1, <3>1
    <3>3. e.serial = x.serial /\ e.serial \in DOMAIN pidfds
      BY <1>1, <2>1, <3>1, <3>2 DEF SameRegistration
    <3> QED BY <1>0, <2>1, <3>3 DEF PollAsks
  <2>2. ASSUME NEW i \in items, NEW x \in table', i.serial = x.serial, i.fd, ~x.ended
        PROVE  x.serial \in DOMAIN pidfds'
    <3>1. x.serial \in Registered
      BY <1>0, <2>2 DEF SamplesRegistered
    <3>2. PICK e \in table : SameRegistration(x, e)
      BY <1>1, <3>1
    <3>3. e.serial = x.serial /\ ~e.ended
      BY <2>2, <3>2 DEF SameRegistration
    <3> QED BY <1>0, <1>1, <2>2, <3>1, <3>3 DEF PollAsks
  <2> QED BY <2>1, <2>2
<1>6. PollAnswers'
  <2> SUFFICES ASSUME spc \in {"apply", "keep"}, NEW x \in table', NEW r \in readings,
                      x.serial = r.serial, x.serial \in DOMAIN pidfds', spc = "apply" => x.serial \notin exited
               PROVE  r.proc = r.own
    BY <1>0 DEF PollAnswers
  <2>1. x.serial \in Registered
    BY <1>0 DEF SamplesRegistered
  <2>2. PICK e \in table : SameRegistration(x, e)
    BY <1>1, <2>1
  <2>3. e.serial = x.serial /\ e.serial \in DOMAIN pidfds
    BY <1>1, <2>1, <2>2 DEF SameRegistration
  <2> QED BY <1>0, <2>3 DEF PollAnswers
<1> QED BY <1>2, <1>3, <1>4, <1>5, <1>6 DEF ReadingInv

\* The sample thread: its own state, while the table stays as it is.
LEMMA ReadingTick ==
  ASSUME TypeOK, IndInv, RegInv, ReadingInv, Moves, TypeOK', RegInv', UNCHANGED <<table, pidfds, gen, dropped>>,
         SampleSnapshot \/ PollCollect \/ SampleEnd \/ SampleExit \/ \E e \in todo : SampleRead(e)
  PROVE  ReadingInv'
<1>0. SamplesRegistered /\ ReadOnce /\ PushedOnce /\ ReadLate /\ PollAsks /\ PollAnswers /\ BaselineIsOwn
  BY DEF ReadingInv
<1>1. Registered' = Registered /\ \A x \in table : x.serial \in Registered /\ x.serial > 0 /\ x.pid \in Pids
  BY DEF Registered, SerialsOf, RegInv, TypeOK, TableType, Entry
<1>2. CASE SampleSnapshot
  <2>0. /\ spc = "wait" /\ spc' = "read" /\ tick' = tick + 1 /\ todo' = {e \in table : ~e.pending} /\ readings' = {}
        /\ UNCHANGED <<items, exited, base, batch>> /\ readings = {}
    BY <1>0, <1>2 DEF SampleSnapshot, batchVars, ReadOnce
  <2>1. SamplesRegistered' /\ BaselineIsOwn'
    BY <1>0, <1>1, <2>0 DEF SamplesRegistered, BaselineIsOwn
  <2>2. ReadOnce'
    BY <2>0 DEF ReadOnce, IndInv, SerialNeverReused
  <2>3. PushedOnce'
    <3>1. tick \in Nat /\ \A s \in batch : s.tick \in Nat
      BY DEF TypeOK, SampleType, BatchType, Sample
    <3> QED BY <1>0, <2>0, <3>1 DEF PushedOnce
  <2>4. ReadLate'
    BY <2>0 DEF ReadLate, IndInv, SerialNeverReused
  <2>5. PollAsks' /\ PollAnswers'
    BY <2>0 DEF PollAsks, PollAnswers
  <2> QED BY <2>1, <2>2, <2>3, <2>4, <2>5 DEF ReadingInv
<1>3. ASSUME NEW e \in todo, SampleRead(e) PROVE ReadingInv'
  <2> DEFINE r == [serial |-> e.serial, pid |-> e.pid, own |-> e.start, proc |-> gen[e.pid]]
  <2>0. /\ spc = "read" /\ spc' = "read" /\ todo' = todo \ {e} /\ (readings' = readings \/ readings' = readings \union {r})
        /\ UNCHANGED <<items, exited, base, batch, tick>>
    BY <1>3 DEF SampleRead, batchVars
  <2>a. r.serial = e.serial /\ r.pid = e.pid /\ r.own = e.start /\ r.proc = gen[e.pid]
    OBVIOUS
  <2> HIDE DEF r
  <2>1. SamplesRegistered' /\ BaselineIsOwn'
    BY <1>0, <1>1, <2>0, <2>a DEF SamplesRegistered, BaselineIsOwn
  <2>2. ReadOnce'
    BY <1>0, <2>0, <2>a DEF ReadOnce
  <2>3. PushedOnce'
    <3>1. tick \in Nat /\ \A s \in batch : s.tick \in Nat /\ s.tick < tick
      BY <1>0, <2>0 DEF TypeOK, SampleType, BatchType, Sample, PushedOnce
    <3> QED BY <2>0, <3>1 DEF PushedOnce
  <2>4. ReadLate'
    <3>1. e.pid \in Pids /\ gen[e.pid] \in Nat
      BY DEF TypeOK, SampleType, Entry, KernelType
    <3>2. \A x \in table : x.serial = e.serial => x.pid = e.pid /\ x.start = e.start /\ e.start <= gen[e.pid]
      BY <1>0 DEF ReadLate, RegInv, StartsBorn
    <3> QED BY <1>0, <2>0, <2>a, <3>1, <3>2 DEF ReadLate
  <2>5. PollAsks' /\ PollAnswers'
    BY <2>0 DEF PollAsks, PollAnswers
  <2> QED BY <2>1, <2>2, <2>3, <2>4, <2>5 DEF ReadingInv
<1>4. CASE PollCollect
  <2>0. /\ spc = "read" /\ todo = {} /\ spc' = "poll"
        /\ items' = {[serial |-> e.serial, fd |-> e.serial \in DOMAIN pidfds] : e \in {x \in table : ~x.ended}}
        /\ UNCHANGED <<todo, readings, exited, base, batch, tick>>
    BY <1>4 DEF PollCollect, batchVars
  <2>a. /\ \A i \in items' : \E e \in table : i.serial = e.serial /\ i.fd = (e.serial \in DOMAIN pidfds)
        /\ \A e \in table : ~e.ended => \E i \in items' : i.serial = e.serial /\ i.fd = (e.serial \in DOMAIN pidfds)
    <3> DEFINE item(e) == [serial |-> e.serial, fd |-> e.serial \in DOMAIN pidfds]
    <3>1. \A e \in table : item(e).serial = e.serial /\ item(e).fd = (e.serial \in DOMAIN pidfds)
      OBVIOUS
    <3>2. items' = {item(e) : e \in {x \in table : ~x.ended}}
      BY <2>0
    <3> HIDE DEF item
    <3> QED BY <3>1, <3>2
  <2>1. SamplesRegistered' /\ BaselineIsOwn'
    BY <1>0, <1>1, <2>0, <2>a DEF SamplesRegistered, BaselineIsOwn
  <2>2. ReadOnce' /\ PushedOnce' /\ ReadLate'
    BY <1>0, <2>0 DEF ReadOnce, PushedOnce, ReadLate
  <2>3. PollAsks'
    BY <2>0, <2>a, OpenEntry DEF PollAsks
  <2>4. PollAnswers'
    BY <2>0 DEF PollAnswers
  <2> QED BY <2>1, <2>2, <2>3, <2>4 DEF ReadingInv
<1>5. CASE SampleEnd
  <2>0. /\ spc = "keep" /\ readings = {} /\ spc' = "wait" /\ base' = [p \in Pids |-> IF p \in seen THEN base[p] ELSE NoBase]
        /\ UNCHANGED <<todo, readings, items, exited, batch, tick>>
    BY <1>5 DEF SampleEnd, batchVars
  <2>1. \A p \in Pids : base'[p] = base[p] \/ base'[p].serial = 0
    BY <2>0 DEF NoBase
  <2>2. SamplesRegistered' /\ BaselineIsOwn'
    BY <1>0, <1>1, <2>0, <2>1 DEF SamplesRegistered, BaselineIsOwn
  <2>3. ReadOnce' /\ PushedOnce' /\ ReadLate' /\ PollAsks' /\ PollAnswers'
    BY <1>0, <2>0 DEF ReadOnce, PushedOnce, ReadLate, PollAsks, PollAnswers
  <2> QED BY <2>2, <2>3 DEF ReadingInv
<1>6. CASE SampleExit
  <2>0. spc = "wait" /\ spc' = "exited" /\ UNCHANGED <<todo, readings, items, exited, base, batch, tick>>
    BY <1>6 DEF SampleExit, batchVars
  <2>1. SamplesRegistered' /\ BaselineIsOwn'
    BY <1>0, <1>1, <2>0 DEF SamplesRegistered, BaselineIsOwn
  <2>2. ReadOnce' /\ PushedOnce' /\ ReadLate' /\ PollAsks' /\ PollAnswers'
    BY <1>0, <2>0 DEF ReadOnce, PushedOnce, ReadLate, PollAsks, PollAnswers
  <2> QED BY <2>1, <2>2 DEF ReadingInv
<1> QED BY <1>2, <1>3, <1>4, <1>5, <1>6

\* The poll's answer.
LEMMA ReadingPolled ==
  ASSUME TypeOK, IndInv, RegInv, ReadingInv, PollFds
  PROVE  ReadingInv'
<1>0. SamplesRegistered /\ ReadOnce /\ PushedOnce /\ ReadLate /\ PollAsks /\ BaselineIsOwn
  BY DEF ReadingInv
<1> DEFINE polled == {i.serial : i \in {x \in items : x.fd}}
           open == polled \intersect DOMAIN pidfds
           dead == {s \in open : \E e \in table : e.serial = s /\ Exited(e.pid, pidfds[s])}
<1>1. /\ spc = "poll" /\ spc' = "apply" /\ dead \subseteq exited'
      /\ UNCHANGED <<gen, alive, table, pidfds, dropped, todo, readings, items, base, batch, tick>>
  BY DEF PollFds, batchVars, kernelVars, tableVars, traceVars
<1>2. SamplesRegistered' /\ BaselineIsOwn'
  BY <1>0, <1>1 DEF SamplesRegistered, BaselineIsOwn, Registered
<1>3. ReadOnce' /\ PushedOnce' /\ ReadLate' /\ PollAsks'
  BY <1>0, <1>1 DEF ReadOnce, PushedOnce, ReadLate, PollAsks
<1>4. PollAnswers'
  <2> SUFFICES ASSUME NEW x \in table, NEW r \in readings, x.serial = r.serial, x.serial \in DOMAIN pidfds,
                      x.serial \notin exited'
               PROVE  r.proc = r.own
    BY <1>1 DEF PollAnswers
  <2>1. x.serial \in open
    BY <1>0, <1>1 DEF PollAsks
  <2>2. ~Exited(x.pid, pidfds[x.serial])
    BY <1>1, <2>1
  <2>3. gen[x.pid] = x.start
    BY <2>2, OpenEntry DEF Exited
  <2>4. x.pid = r.pid /\ x.start = r.own /\ r.own <= r.proc /\ r.proc <= gen[r.pid]
    BY <1>0 DEF ReadLate
  <2>5. r.own \in Nat /\ r.proc \in Nat
    BY DEF TypeOK, SampleType, Reading
  <2> QED BY <2>3, <2>4, <2>5
<1> QED BY <1>2, <1>3, <1>4 DEF ReadingInv

\* The poll's answer applied: what exited is marked, and its readings dropped.
LEMMA ReadingApplied ==
  ASSUME TypeOK, IndInv, RegInv, ReadingInv, Moves, TypeOK', RegInv', PollApply
  PROVE  /\ ReadingInv'
         /\ \A r \in readings', e \in table, i \in items :
              e.serial = r.serial /\ i.serial = r.serial /\ i.fd => r.proc = r.own
<1>0. SamplesRegistered /\ ReadOnce /\ PushedOnce /\ ReadLate /\ PollAsks /\ PollAnswers /\ BaselineIsOwn
  BY DEF ReadingInv
<1> DEFINE dead == {e \in Polled : ~e.ended /\ e.serial \in exited}
<1>1. /\ spc = "apply" /\ spc' = "keep" /\ pidfds' = WithoutFds(pidfds, SerialsOf(dead))
      /\ readings' = {r \in readings : r.serial \notin GoneSerials} /\ items' = {}
      /\ UNCHANGED <<gen, todo, base, batch, tick>>
  BY DEF PollApply, kernelVars, batchVars
<1>2. \A p \in Pids : gen[p] <= gen'[p]
  BY <1>1 DEF TypeOK, KernelType
<1>3. SamplesRegistered' /\ ReadLate'
  BY <1>0, <1>1, <1>2, RegisteredKept, ReadLateKept
<1>4. ReadOnce' /\ PushedOnce' /\ PollAsks'
  BY <1>0, <1>1 DEF ReadOnce, PushedOnce, PollAsks
<1>5. BaselineIsOwn'
  <2>1. \A r \in readings : ~SeedBaseline(r)
    BY <1>1 DEF SeedBaseline
  <2> QED BY <1>0, <1>1, <2>1, BaselineKept
<1>6. DOMAIN pidfds' = DOMAIN pidfds \ SerialsOf(dead)
  BY <1>1 DEF WithoutFds
<1>7. PollAnswers'
  <2> SUFFICES ASSUME NEW x \in table', NEW r \in readings', x.serial = r.serial, x.serial \in DOMAIN pidfds'
               PROVE  r.proc = r.own
    BY DEF PollAnswers
  <2>1. x.serial \in Registered /\ r \in readings
    BY <1>0, <1>1 DEF SamplesRegistered
  <2>2. PICK e \in table : SameRegistration(x, e)
    BY <2>1, MovesKnown
  <2>3. e.serial = r.serial /\ e.serial \in DOMAIN pidfds /\ e \notin dead
    BY <1>6, <2>2 DEF SameRegistration, SerialsOf
  <2>4. e \in Polled
    BY <1>0, <1>1, <2>1, <2>3 DEF PollAsks, Polled
  <2>5. e.serial \notin exited
    BY <2>3, <2>4, OpenEntry
  <2> QED BY <1>0, <1>1, <2>1, <2>3, <2>5 DEF PollAnswers
<1>8. ASSUME NEW r \in readings', NEW e \in table, NEW i \in items, e.serial = r.serial, i.serial = r.serial, i.fd
      PROVE  r.proc = r.own
  <2>1. e \in Polled /\ r \in readings /\ e.serial \notin GoneSerials
    BY <1>1, <1>8 DEF Polled
  <2>2. ~e.ended /\ e.serial \notin exited
    BY <2>1 DEF GoneSerials, SerialsOf
  <2>3. e.serial \in DOMAIN pidfds
    BY <1>0, <1>1, <1>8, <2>2 DEF PollAsks
  <2> QED BY <1>0, <1>1, <1>8, <2>1, <2>2, <2>3 DEF PollAnswers
<1> QED BY <1>3, <1>4, <1>5, <1>7, <1>8 DEF ReadingInv

\* A reading kept: it seeds the baseline and the head, or is pushed, or skipped.
LEMMA ReadingSeeded ==
  ASSUME TypeOK, IndInv, RegInv, ReadingInv, Moves, TypeOK', RegInv', NEW r \in readings, SeedBaseline(r)
  PROVE  ReadingInv'
<1>0. SamplesRegistered /\ ReadOnce /\ PushedOnce /\ ReadLate /\ PollAnswers /\ BaselineIsOwn
  BY DEF ReadingInv
<1> DEFINE U == [e \in table |-> IF e.pid = r.pid /\ ~e.ended THEN [e EXCEPT !.head = r.proc] ELSE e]
<1>1. /\ spc = "keep" /\ readings' = readings \ {r} /\ table' = {U[e] : e \in table}
      /\ base' = [base EXCEPT ![r.pid] = [serial |-> r.serial, proc |-> r.proc]]
      /\ UNCHANGED <<gen, pidfds, spc, todo, items, batch, tick>>
  BY DEF SeedBaseline, kernelVars, batchVars
<1>2. \A e \in table : /\ U[e].serial = e.serial /\ U[e].pid = e.pid /\ U[e].start = e.start /\ U[e].ended = e.ended
                       /\ e.pid = r.pid /\ ~e.ended => U[e].head = r.proc
                       /\ e.pid # r.pid => U[e].head = e.head
  BY DEF TypeOK, TableType, Entry
<1> HIDE DEF U
<1>3. r.pid \in Pids /\ DOMAIN base = Pids
  BY DEF TypeOK, SampleType, Reading
<1>4. /\ base'[r.pid].serial = r.serial /\ base'[r.pid].proc = r.proc
      /\ \A p \in Pids : p # r.pid => base'[p] = base[p]
  BY <1>1, <1>3
<1>5. \A p \in Pids : gen[p] <= gen'[p]
  BY <1>1 DEF TypeOK, KernelType
<1>6. ReadLate'
  BY <1>0, <1>1, <1>5, ReadLateKept
<1>7. SamplesRegistered'
  <2>1. Registered \subseteq Registered'
    BY MovesKnown
  <2> QED BY <1>0, <1>1, <1>4, <2>1 DEF SamplesRegistered
<1>8. ReadOnce' /\ PushedOnce' /\ PollAsks'
  BY <1>0, <1>1 DEF ReadOnce, PushedOnce, PollAsks
<1>9. PollAnswers'
  BY <1>0, <1>1, <1>2 DEF PollAnswers
<1>10. BaselineIsOwn'
  <2> SUFFICES ASSUME NEW x \in table', x.serial \in DOMAIN pidfds, x.serial = base'[x.pid].serial
               PROVE  base'[x.pid].proc = x.start /\ x.head = x.start
    BY <1>1 DEF BaselineIsOwn
  <2>1. PICK e \in table : x = U[e]
    BY <1>1
  <2>2. ~e.ended /\ e.serial = x.serial /\ e.pid = x.pid /\ e.start = x.start /\ e.pid \in Pids
    BY <1>2, <2>1, OpenEntry DEF TypeOK, TableType, Entry
  <2>3. CASE x.pid = r.pid
    <3>1. x.serial = r.serial /\ base'[x.pid].proc = r.proc /\ x.head = r.proc
      BY <1>2, <1>4, <2>1, <2>2, <2>3
    <3>2. r.proc = r.own /\ x.start = r.own
      BY <1>0, <1>1, <2>2, <3>1 DEF PollAnswers, ReadLate
    <3> QED BY <3>1, <3>2
  <2>4. CASE x.pid # r.pid
    BY <1>0, <1>2, <1>4, <2>1, <2>2, <2>4 DEF BaselineIsOwn
  <2> QED BY <2>3, <2>4
<1> QED BY <1>6, <1>7, <1>8, <1>9, <1>10 DEF ReadingInv

\* The sample pushed is one the batch does not hold yet.
LEMMA ReadingPushed ==
  ASSUME TypeOK, IndInv, RegInv, ReadingInv, NEW r \in readings, PushSample(r)
  PROVE  /\ ReadingInv'
         /\ \E s : s \notin batch /\ batch' = batch \union {s}
<1>0. SamplesRegistered /\ ReadOnce /\ PushedOnce /\ ReadLate /\ PollAnswers /\ BaselineIsOwn
  BY DEF ReadingInv
<1> DEFINE s == [serial |-> r.serial, pid |-> r.pid, own |-> r.own,
                 from |-> base[r.pid].proc, proc |-> r.proc, tick |-> tick]
<1>1. /\ spc = "keep" /\ readings' = readings \ {r} /\ batch' = batch \union {s} /\ HasBaseline(r)
      /\ base' = [base EXCEPT ![r.pid] = [serial |-> r.serial, proc |-> r.proc]]
      /\ UNCHANGED <<gen, table, pidfds, dropped, spc, todo, items, tick>>
  BY DEF PushSample, kernelVars, tableVars, traceVars
<1>2. s.serial = r.serial /\ s.tick = tick
  OBVIOUS
<1> HIDE DEF s
<1>3. r.pid \in Pids /\ DOMAIN base = Pids /\ tick \in Nat
  BY DEF TypeOK, SampleType, Reading
<1>4. /\ base'[r.pid].serial = r.serial /\ base'[r.pid].proc = r.proc
      /\ \A p \in Pids : p # r.pid => base'[p] = base[p]
  BY <1>1, <1>3
<1>5. SamplesRegistered'
  BY <1>0, <1>1, <1>2, <1>4 DEF SamplesRegistered, Registered
<1>6. ReadOnce' /\ PushedOnce' /\ ReadLate' /\ PollAsks' /\ PollAnswers'
  BY <1>0, <1>1, <1>2, <1>3 DEF ReadOnce, PushedOnce, ReadLate, PollAsks, PollAnswers
<1>7. BaselineIsOwn'
  <2> SUFFICES ASSUME NEW x \in table, x.serial \in DOMAIN pidfds, x.serial = base'[x.pid].serial
               PROVE  base'[x.pid].proc = x.start /\ x.head = x.start
    BY <1>1 DEF BaselineIsOwn
  <2>1. x.pid \in Pids
    BY DEF TypeOK, TableType, Entry
  <2>2. CASE x.pid = r.pid
    <3>1. x.serial = r.serial /\ base'[x.pid].proc = r.proc /\ x.serial = base[x.pid].serial
      BY <1>1, <1>4, <2>2 DEF HasBaseline
    <3>2. r.proc = r.own /\ x.start = r.own
      BY <1>0, <1>1, <3>1 DEF PollAnswers, ReadLate
    <3> QED BY <1>0, <3>1, <3>2 DEF BaselineIsOwn
  <2>3. CASE x.pid # r.pid
    BY <1>0, <1>4, <2>1, <2>3 DEF BaselineIsOwn
  <2> QED BY <2>2, <2>3
<1>8. s \notin batch
  BY <1>0, <1>2 DEF PushedOnce
<1> QED BY <1>1, <1>5, <1>6, <1>7, <1>8 DEF ReadingInv

LEMMA ReadingStep ==
  ASSUME TypeOK, IndInv, RegInv, ReadingInv, [Next]_vars
  PROVE  ReadingInv'
<1>1. Moves /\ \A p \in Pids : gen[p] <= gen'[p]
  BY MovesStep
<1>2. TypeOK' /\ RegInv'
  BY TypeStep, RegStep
<1>3. CASE UNCHANGED sampleVars /\ batch' \subseteq batch
  BY <1>1, <1>2, <1>3, ReadingQuiet
<1>4. CASE Sampling
  <2>1. CASE SampleSnapshot \/ PollCollect \/ SampleEnd \/ SampleExit \/ \E e \in todo : SampleRead(e)
    <3>1. UNCHANGED <<table, pidfds, gen, dropped>>
      BY <2>1 DEF SampleSnapshot, PollCollect, SampleEnd, SampleExit, SampleRead, tableVars, kernelVars, traceVars
    <3> QED BY <1>1, <1>2, <2>1, <3>1, ReadingTick
  <2>2. CASE PollFds
    BY <2>2, ReadingPolled
  <2>3. CASE PollApply
    BY <1>1, <1>2, <2>3, ReadingApplied
  <2>4. ASSUME NEW r \in readings, SeedBaseline(r) PROVE ReadingInv'
    BY <1>1, <1>2, <2>4, ReadingSeeded
  <2>5. ASSUME NEW r \in readings, PushSample(r) PROVE ReadingInv'
    BY <2>5, ReadingPushed
  <2>6. ASSUME NEW r \in readings, SkipSample(r) PROVE ReadingInv'
    BY <2>6 DEF SkipSample, ReadingInv, SamplesRegistered, ReadOnce, PushedOnce, ReadLate, PollAsks, PollAnswers,
                BaselineIsOwn, Registered, kernelVars, tableVars, batchVars, traceVars
  <2> QED BY <1>4, <2>1, <2>2, <2>3, <2>4, <2>5, <2>6 DEF Sampling, Keep
<1>5. ASSUME Flushing PROVE UNCHANGED sampleVars /\ batch' \subseteq batch
  BY <1>5 DEF Flushing, FlushDrain, FlushSnapshot, FlushSkip, FlushWrite, FlushWriteLost, FlushCommit, FlushAddRoot,
              FlushEnd, FlushExit, batchVars
<1>6. ASSUME NEW p \in Pids,
             \/ Exit(p) \/ Spawn(p)
             \/ \E c \in Callers : AddTrackedProcess(c, p) \/ RemoveTrackedProcess(c, p)
             \/ \E g \in 1..gen[p], fd \in 0..gen[p] : AddDiscoveredProcess(p, g, fd)
      PROVE  UNCHANGED sampleVars /\ batch' \subseteq batch
  BY <1>6 DEF Exit, Spawn, AddTrackedProcess, RemoveTrackedProcess, AddDiscoveredProcess, batchVars
<1>7. ASSUME NEW c \in Adders, MakeRoot(c) \/ AddInsert(c)
      PROVE  UNCHANGED sampleVars /\ batch' \subseteq batch
  BY <1>7 DEF MakeRoot, MakeRootOpen, MakeRootOpenFails, MakeRootStat, MakeRootCheck, MakeRootUnchanged, AddInsert,
              batchVars
<1>8. StopSignalled \/ StopJoined \/ UNCHANGED vars => UNCHANGED sampleVars /\ batch' \subseteq batch
  BY DEF StopSignalled, StopJoined, batchVars, vars
<1> QED BY <1>3, <1>4, <1>5, <1>6, <1>7, <1>8 DEF Next

---------------------------------------------------------------------------
(* From the batch to the file.                                             *)

LEMMA FlushInit == Init => FlushInv
BY FS_EmptySet DEF Init, FlushInv, DrainRegistered, DrainInv, SamplesConserved, SampleHasRow

\* The steps of every thread but the sample and the flush thread.
LEMMA FlushQuiet ==
  ASSUME TypeOK, IndInv, FlushInv, Moves,
         UNCHANGED <<fpc, drained, fsnap, frame, marked, written, batch, pushed, phase>>,
         phase \in {"final", "stopped"} => spc' = spc
  PROVE  FlushInv'
<1>1. Registered \subseteq Registered' /\ dropped \subseteq dropped'
  BY MovesKnown DEF Moves
<1>2. DrainRegistered'
  BY <1>1 DEF FlushInv, DrainRegistered
<1> QED BY <1>2 DEF FlushInv, DrainInv, SamplesConserved, SampleHasRow

LEMMA FlushSampling ==
  ASSUME TypeOK, IndInv, RegInv, ReadingInv, FlushInv, Moves, Sampling
  PROVE  FlushInv'
<1>0. phase \notin {"final", "stopped"} /\ UNCHANGED <<fpc, drained, fsnap, frame, marked, written, phase>>
  BY DEF FlushInv, DrainInv, Sampling, Keep, SampleSnapshot, SampleRead, PollCollect, PollFds, PollApply,
         SeedBaseline, PushSample, SkipSample, SampleEnd, SampleExit, flushVars, traceVars
<1>1. CASE UNCHANGED <<batch, pushed>>
  BY <1>0, <1>1, FlushQuiet
<1>2. ASSUME NEW r \in readings, PushSample(r) PROVE FlushInv'
  <2>1. PICK s : s \notin batch /\ batch' = batch \union {s}
    BY <1>2, ReadingPushed
  <2>2. Cardinality(batch') = Cardinality(batch) + 1 /\ Cardinality(batch) \in Nat
    BY <2>1, FS_AddElement, FS_CardinalityType DEF TypeOK, BatchType
  <2>3. pushed' = pushed + 1 /\ pushed \in Nat /\ Cardinality(drained) \in Nat /\ written \in Nat
    BY <1>2, FS_CardinalityType DEF PushSample, TypeOK, BatchType, FlushType, TraceType
  <2>4. SamplesConserved'
    BY <1>0, <2>2, <2>3 DEF FlushInv, SamplesConserved
  <2>5. UNCHANGED <<table, dropped>>
    BY <1>2 DEF PushSample, tableVars, traceVars
  <2>6. DrainRegistered' /\ DrainInv' /\ (~WriteMayFail => SampleHasRow)'
    BY <1>0, <2>5 DEF FlushInv, DrainRegistered, DrainInv, SampleHasRow, Registered
  <2> QED BY <2>4, <2>6 DEF FlushInv
<1>3. ASSUME \A r \in readings : ~PushSample(r) PROVE UNCHANGED <<batch, pushed>>
  BY <1>3 DEF Sampling, Keep, SampleSnapshot, SampleRead, PollCollect, PollFds, PollApply, SeedBaseline, SkipSample,
              SampleEnd, SampleExit, batchVars
<1> QED BY <1>1, <1>2, <1>3

LEMMA FlushFlushing ==
  ASSUME TypeOK, IndInv, ReadingInv, FlushInv, Moves, Flushing
  PROVE  FlushInv'
<1>0. DrainRegistered /\ DrainInv /\ SamplesConserved /\ (~WriteMayFail => SampleHasRow)
  BY DEF FlushInv
<1>1. /\ Cardinality(batch) \in Nat /\ Cardinality(drained) \in Nat /\ pushed \in Nat /\ written \in Nat
      /\ Cardinality({}) = 0
  BY FS_CardinalityType, FS_EmptySet DEF TypeOK, BatchType, FlushType, TraceType
<1>2. CASE FlushDrain
  <2>0. /\ fpc = "wait" /\ fpc' = "drained" /\ drained' = batch /\ batch' = {}
        /\ phase \in {"run", "final"} /\ drained = {}
        /\ UNCHANGED <<table, dropped, pushed, written, frame, marked, fsnap, spc, phase>>
    BY <1>0, <1>2 DEF FlushDrain, DrainInv, tableVars, traceVars, sampleVars
  <2>1. DrainRegistered'
    BY <2>0 DEF DrainRegistered, ReadingInv, SamplesRegistered, Registered
  <2>2. DrainInv'
    BY <1>0, <2>0 DEF DrainInv
  <2>3. SamplesConserved'
    BY <1>0, <1>1, <2>0 DEF SamplesConserved
  <2> QED BY <1>0, <2>0, <2>1, <2>2, <2>3 DEF FlushInv, SampleHasRow
<1>3. CASE FlushSnapshot
  <2>0. /\ fpc = "drained" /\ fpc' = "snapped" /\ fsnap' = table
        /\ UNCHANGED <<table, dropped, batch, drained, pushed, written, frame, marked, spc, phase>>
    BY <1>3 DEF FlushSnapshot, tableVars, traceVars, sampleVars, batchVars
  <2>1. DrainRegistered'
    BY <1>0, <2>0 DEF DrainRegistered, Registered
  <2> QED BY <1>0, <2>0, <2>1 DEF FlushInv, SampleHasRow, SamplesConserved, DrainInv
<1>4. CASE FlushSkip
  <2>0. /\ fpc = "snapped" /\ drained = {} /\ fpc' \in {"wait", "exited"}
        /\ (phase = "final" /\ fpc' = "exited" /\ phase' = "stopped") \/ (phase # "final" /\ fpc' = "wait" /\ phase' = phase)
        /\ UNCHANGED <<batch, drained, pushed, written, frame, marked, spc>>
    BY <1>4 DEF FlushSkip, NothingToWrite, AfterFlush, traceVars, sampleVars, batchVars
  <2>1. DrainRegistered' /\ DrainInv'
    BY <1>0, <2>0 DEF DrainRegistered, DrainInv
  <2>2. SamplesConserved'
    BY <1>0, <1>1, <2>0 DEF SamplesConserved, DrainInv
  <2> QED BY <1>0, <2>0, <2>1, <2>2 DEF FlushInv, SampleHasRow
<1>5. CASE FlushWrite
  <2>0. /\ fpc = "snapped" /\ fpc' = "written" /\ frame' = [rows |-> fsnap, samples |-> drained]
        /\ marked' = marked \union Announced(fsnap) /\ written' = written + Cardinality(drained) /\ drained' = {}
        /\ UNCHANGED <<table, dropped, batch, pushed, spc, phase>>
    BY <1>5 DEF FlushWrite, tableVars, sampleVars, batchVars
  <2>1. DrainRegistered' /\ DrainInv'
    BY <1>0, <2>0 DEF DrainRegistered, DrainInv
  <2>2. SamplesConserved'
    BY <1>0, <1>1, <2>0 DEF SamplesConserved, DrainInv
  <2>3. (~WriteMayFail => SampleHasRow)'
    BY <1>0, <2>0 DEF SampleHasRow, DrainRegistered, IndInv, DroppedWasAnnounced
  <2> QED BY <2>1, <2>2, <2>3 DEF FlushInv
<1>6. CASE FlushWriteLost
  <2>0. /\ WriteMayFail /\ fpc = "snapped" /\ fpc' = "written" /\ drained' = {}
        /\ UNCHANGED <<batch, spc, phase>>
    BY <1>6 DEF FlushWriteLost, sampleVars, batchVars
  <2> QED BY <1>0, <2>0 DEF FlushInv, DrainRegistered, DrainInv, SamplesConserved
<1>7. CASE FlushCommit
  <2>0. /\ fpc = "written" /\ fpc' = "roots"
        /\ UNCHANGED <<batch, drained, pushed, written, frame, marked, spc, phase>>
    BY <1>7 DEF FlushCommit, sampleVars, batchVars
  <2> QED BY <1>0, <2>0 DEF FlushInv, DrainRegistered, DrainInv, SamplesConserved, SampleHasRow
<1>8. CASE FlushAddRoot
  <2>0. UNCHANGED <<fpc, drained, fsnap, frame, marked, written, batch, pushed, phase, spc>>
    BY <1>8 DEF FlushAddRoot, traceVars, batchVars, sampleVars
  <2> QED BY <2>0, FlushQuiet
<1>9. CASE FlushEnd
  <2>0. /\ fpc = "roots" /\ fpc' \in {"wait", "exited"}
        /\ (phase = "final" /\ fpc' = "exited" /\ phase' = "stopped") \/ (phase # "final" /\ fpc' = "wait" /\ phase' = phase)
        /\ UNCHANGED <<batch, drained, pushed, written, frame, marked, spc>>
    BY <1>9 DEF FlushEnd, AfterFlush, traceVars, sampleVars, batchVars
  <2>1. DrainRegistered' /\ DrainInv'
    BY <1>0, <2>0 DEF DrainRegistered, DrainInv
  <2>2. SamplesConserved'
    BY <1>0, <1>1, <2>0 DEF SamplesConserved, DrainInv
  <2> QED BY <1>0, <2>0, <2>1, <2>2 DEF FlushInv, SampleHasRow
<1>10. CASE FlushExit
  <2>0. /\ fpc = "wait" /\ phase = "stopping" /\ fpc' = "exited"
        /\ UNCHANGED <<batch, drained, pushed, written, frame, marked, spc, phase>>
    BY <1>10 DEF FlushExit, traceVars, sampleVars, batchVars
  <2> QED BY <1>0, <2>0 DEF FlushInv, DrainRegistered, DrainInv, SamplesConserved, SampleHasRow
<1> QED BY <1>2, <1>3, <1>4, <1>5, <1>6, <1>7, <1>8, <1>9, <1>10 DEF Flushing

LEMMA FlushStep ==
  ASSUME TypeOK, IndInv, RegInv, ReadingInv, FlushInv, [Next]_vars
  PROVE  FlushInv'
<1>1. Moves
  BY MovesStep
<1>2. CASE Sampling
  BY <1>1, <1>2, FlushSampling
<1>3. CASE Flushing
  BY <1>1, <1>3, FlushFlushing
<1>4. CASE UNCHANGED <<fpc, drained, fsnap, frame, marked, written, batch, pushed, phase, spc>>
  BY <1>1, <1>4, FlushQuiet
<1>5. ASSUME NEW p \in Pids,
             \/ Exit(p) \/ Spawn(p)
             \/ \E c \in Callers : AddTrackedProcess(c, p) \/ RemoveTrackedProcess(c, p)
             \/ \E g \in 1..gen[p], fd \in 0..gen[p] : AddDiscoveredProcess(p, g, fd)
      PROVE  UNCHANGED <<fpc, drained, fsnap, frame, marked, written, batch, pushed, phase, spc>>
  BY <1>5 DEF Exit, Spawn, AddTrackedProcess, RemoveTrackedProcess, AddDiscoveredProcess, batchVars, flushVars,
              traceVars, sampleVars
<1>6. ASSUME NEW c \in Adders, MakeRoot(c) \/ AddInsert(c)
      PROVE  UNCHANGED <<fpc, drained, fsnap, frame, marked, written, batch, pushed, phase, spc>>
  BY <1>6 DEF MakeRoot, MakeRootOpen, MakeRootOpenFails, MakeRootStat, MakeRootCheck, MakeRootUnchanged, AddInsert,
              batchVars, flushVars, traceVars, sampleVars
<1>7. CASE StopSignalled
  BY <1>7 DEF StopSignalled, FlushInv, DrainRegistered, DrainInv, SamplesConserved, SampleHasRow, Registered,
              tableVars, batchVars, flushVars, traceVars, sampleVars
<1>8. CASE StopJoined
  BY <1>8 DEF StopJoined, FlushInv, DrainRegistered, DrainInv, SamplesConserved, SampleHasRow, Registered,
              tableVars, batchVars, traceVars, sampleVars
<1>9. UNCHANGED vars => UNCHANGED <<fpc, drained, fsnap, frame, marked, written, batch, pushed, phase, spc>>
  BY DEF vars, batchVars, flushVars, traceVars, sampleVars
<1> QED BY <1>2, <1>3, <1>4, <1>5, <1>6, <1>7, <1>8, <1>9 DEF Next

LEMMA SamplingCorrect == Spec => [](TypeOK /\ IndInv /\ RegInv /\ ReadingInv /\ FlushInv)
<1> DEFINE Inv == TypeOK /\ IndInv /\ RegInv /\ ReadingInv /\ FlushInv
<1>1. Init => Inv
  BY TypeInit, SafetyInit, RegInit, ReadingInit, FlushInit
<1>2. Inv /\ [Next]_vars => Inv'
  BY TypeStep, SafetyStep, RegStep, ReadingStep, FlushStep
<1> QED BY <1>1, <1>2, PTL DEF Spec

---------------------------------------------------------------------------
(* The results.                                                            *)

\* The baseline a delta is taken from, and the recorded head, of a registration
\* with an open descriptor are the registered process's, although every value
\* is read by PID number.
THEOREM BaselineIsOwnCorrect == Spec => []BaselineIsOwn
<1>1. ReadingInv => BaselineIsOwn
  BY DEF ReadingInv
<1> QED BY <1>1, SamplingCorrect, PTL

\* Read-then-verify: what PollTracked lets through of a registration it polled
\* by descriptor is the registered process's reading, however the number was
\* handed on between the read, the poll and its answer.
THEOREM KeptReadingIsOwnCorrect == Spec => KeptReadingIsOwn
<1> DEFINE Inv == TypeOK /\ IndInv /\ RegInv /\ ReadingInv /\ FlushInv
           Kept == spc = "apply" /\ spc' = "keep" =>
                     \A r \in readings' :
                       r.serial \in SerialsOf(table) /\ (\E i \in items : i.serial = r.serial /\ i.fd)
                         => r.proc = r.own
<1>1. Inv /\ [Next]_vars => [Kept]_vars
  <2> SUFFICES ASSUME Inv, [Next]_vars, spc = "apply", spc' = "keep" PROVE Kept
    OBVIOUS
  <2>1. PollApply
    <3>1. UNCHANGED spc \/ Sampling
      BY DEF Next, Exit, Spawn, AddTrackedProcess, RemoveTrackedProcess, AddDiscoveredProcess, MakeRoot, MakeRootOpen,
             MakeRootOpenFails, MakeRootStat, MakeRootCheck, MakeRootUnchanged, AddInsert, Flushing, FlushDrain,
             FlushSnapshot, FlushSkip, FlushWrite, FlushWriteLost, FlushCommit, FlushAddRoot, FlushEnd, FlushExit,
             StopSignalled, StopJoined, sampleVars, vars
    <3> QED
      BY <3>1 DEF Sampling, Keep, SampleSnapshot, SampleRead, PollCollect, PollFds, SeedBaseline, PushSample,
                  SkipSample, SampleEnd, SampleExit
  <2>2. Moves /\ TypeOK' /\ RegInv'
    BY MovesStep, TypeStep, RegStep
  <2>3. \A r \in readings', e \in table, i \in items :
          e.serial = r.serial /\ i.serial = r.serial /\ i.fd => r.proc = r.own
    BY <2>1, <2>2, ReadingApplied
  <2> QED BY <2>3 DEF SerialsOf
<1> QED BY <1>1, SamplingCorrect, PTL DEF Spec, KeptReadingIsOwn

\* As long as frames reach the file, every sample in it has the row of its
\* registration in its own frame or, removed, in an earlier one.
THEOREM SampleHasRowCorrect == Spec => [](~WriteMayFail => SampleHasRow)
<1>1. FlushInv => (~WriteMayFail => SampleHasRow)
  BY DEF FlushInv
<1> QED BY <1>1, SamplingCorrect, PTL

\* No sample is lost or written twice between the two threads, and none is left
\* when Stop() has returned.
THEOREM SamplesConservedCorrect == Spec => []SamplesConserved
<1>1. FlushInv => SamplesConserved
  BY DEF FlushInv
<1> QED BY <1>1, SamplingCorrect, PTL
=============================================================================
