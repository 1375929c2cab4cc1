------------------------- MODULE ProcessTableProofs -------------------------
(* Theorems about ProcessTable, for every set of PIDs and callers and every *)
(* bound.                                                                   *)
EXTENDS ProcessTable, FiniteSetTheorems, WellFoundedInduction, TLAPS

---------------------------------------------------------------------------
(* Types.                                                                  *)

\* The roots listed first under their number: finitely many.
LEMMA FirstListedFinite ==
  /\ IsFiniteSet(FirstListed) /\ FirstListed \subseteq Nat
  /\ \A i \in FirstListed : Roots[i] \in Pids /\ RootSerial(i) \in Nat
<1>1. Len(Roots) \in Nat
  BY RootsAssumption
<1>2. IsFiniteSet(1..Len(Roots))
  BY <1>1, FS_Interval
<1>3. FirstListed \subseteq 1..Len(Roots)
  BY DEF FirstListed
<1>4. IsFiniteSet(FirstListed)
  BY <1>2, <1>3, FS_Subset
<1>5. ASSUME NEW i \in FirstListed PROVE Roots[i] \in Pids /\ RootSerial(i) \in Nat
  <2>1. Roots[i] \in Pids
    BY <1>3, <1>5, RootsAssumption
  <2>2. {j \in FirstListed : j <= i} \subseteq FirstListed
    OBVIOUS
  <2>3. IsFiniteSet({j \in FirstListed : j <= i})
    BY <1>4, <2>2, FS_Subset
  <2> QED BY <2>1, <2>3, FS_CardinalityType DEF RootSerial
<1> QED BY <1>3, <1>4, <1>5

LEMMA NewEntryType ==
  ASSUME NEW p \in Pids, NEW serial \in Nat, NEW start \in Nat, NEW d \in BOOLEAN, NEW x \in BOOLEAN
  PROVE  NewEntry(p, serial, start, d, x) \in Entry
BY DEF NewEntry, Entry

\* Marking, removing, reviving an entry and setting its head keep it an entry.
LEMMA EntryUpdates ==
  ASSUME NEW e \in Entry
  PROVE  /\ MarkGone(e) \in Entry
         /\ [e EXCEPT !.pending = TRUE] \in Entry
         /\ [e EXCEPT !.pending = FALSE, !.discovered = FALSE] \in Entry
         /\ \A h \in Nat : [e EXCEPT !.head = h] \in Entry
BY DEF MarkGone, Entry

LEMMA PidfdUpdates ==
  ASSUME NEW f, PidfdMap(f), NEW s \in Nat, NEW fd \in Nat, NEW S
  PROVE  PidfdMap(WithFd(f, s, fd)) /\ PidfdMap(WithoutFds(f, S))
BY DEF PidfdMap, WithFd, WithoutFds

LEMMA TypeInit == Init => TypeOK
<1> SUFFICES ASSUME Init PROVE TypeOK
  OBVIOUS
<1> USE DEF Init
<1>1. InitialTable \subseteq Entry
  <2> SUFFICES ASSUME NEW i \in FirstListed PROVE InitialEntry(i) \in Entry
    BY DEF InitialTable
  <2>1. /\ Roots[i] \in Pids /\ RootSerial(i) \in Nat /\ alive[Roots[i]] \in BOOLEAN
        /\ (IF alive[Roots[i]] THEN 1 ELSE 0) \in Nat
    BY FirstListedFinite
  <2> QED BY <2>1, NewEntryType DEF InitialEntry
<1>2. nextSerial \in Nat
  BY FirstListedFinite, FS_CardinalityType
<1>3. {e.serial : e \in {x \in InitialTable : ~x.ended}} \subseteq Nat
  BY <1>1 DEF Entry
<1>4. TableType
  BY <1>1, <1>2, <1>3, FS_EmptySet DEF TableType, PidfdMap
<1>5. CallType
  BY DEF CallType, AddRecord, NoAdd
<1>6. SampleType /\ BatchType /\ FlushType /\ TraceType /\ PhaseType /\ KernelType
  BY FS_EmptySet DEF SampleType, BatchType, FlushType, TraceType, PhaseType, KernelType, NoBase
<1> QED BY <1>4, <1>5, <1>6 DEF TypeOK

\* A group of variables left alone keeps its type.
LEMMA TypeFrame ==
  /\ KernelType /\ UNCHANGED kernelVars => KernelType'
  /\ TableType /\ UNCHANGED tableVars => TableType'
  /\ CallType /\ UNCHANGED callVars => CallType'
  /\ SampleType /\ UNCHANGED sampleVars => SampleType'
  /\ BatchType /\ UNCHANGED batchVars => BatchType'
  /\ FlushType /\ UNCHANGED flushVars => FlushType'
  /\ TraceType /\ UNCHANGED traceVars => TraceType'
  /\ PhaseType /\ UNCHANGED phase => PhaseType'
<1>1. KernelType /\ UNCHANGED kernelVars => KernelType'
  BY DEF KernelType, kernelVars
<1>2. TableType /\ UNCHANGED tableVars => TableType'
  BY DEF TableType, tableVars
<1>3. CallType /\ UNCHANGED callVars => CallType'
  BY DEF CallType, callVars
<1>4. SampleType /\ UNCHANGED sampleVars => SampleType'
  BY DEF SampleType, sampleVars
<1>5. BatchType /\ UNCHANGED batchVars => BatchType'
  BY DEF BatchType, batchVars
<1>6. FlushType /\ UNCHANGED flushVars => FlushType'
  BY DEF FlushType, flushVars
<1>7. TraceType /\ UNCHANGED traceVars => TraceType'
  BY DEF TraceType, traceVars
<1>8. PhaseType /\ UNCHANGED phase => PhaseType'
  BY DEF PhaseType
<1> QED BY <1>1, <1>2, <1>3, <1>4, <1>5, <1>6, <1>7, <1>8

\* GoneLocked, InsertLocked and the deferred list, as their callers use them.
LEMMA MarkGoneType ==
  ASSUME TableType, NEW e \in table, MarkGoneLocked(e)
  PROVE  table' \subseteq Entry /\ PidfdMap(pidfds')
<1>1. e \in Entry /\ MarkGone(e) \in Entry /\ e.serial \in Nat
  BY EntryUpdates DEF TableType, Entry
<1>2. PidfdMap(WithoutFds(pidfds, {e.serial}))
  BY <1>1, PidfdUpdates DEF TableType
<1> QED BY <1>1, <1>2 DEF MarkGoneLocked, Replace, TableType

LEMMA DeferType ==
  ASSUME TableType, NEW ord \in Nat, NEW p \in Pids, NEW d \in BOOLEAN, NEW fd \in Nat,
         NEW start \in Nat, Defer(ord, p, d, fd, start)
  PROVE  deferred' \subseteq Deferred /\ IsFiniteSet(deferred')
<1> DEFINE new == [ord |-> ord, pid |-> p, discovered |-> d, fd |-> fd, start |-> start]
<1>1. new \in Deferred
  BY DEF Deferred
<1>2. deferred' = deferred \union {new}
  BY DEF Defer
<1> HIDE DEF new
<1> QED BY <1>1, <1>2, FS_AddElement DEF TableType

LEMMA InsertType ==
  ASSUME TableType, NEW p \in Pids, NEW start \in Nat, NEW fd \in Nat, NEW d \in BOOLEAN,
         NEW x \in BOOLEAN, InsertLocked(p, start, fd, d, x)
  PROVE  table' \subseteq Entry /\ PidfdMap(pidfds') /\ nextSerial' \in Nat
BY NewEntryType, PidfdUpdates DEF TableType, InsertLocked

LEMMA AddLookupType ==
  ASSUME TableType, CallType, NEW c \in Adders, NEW p \in Pids, NEW ord \in Nat,
         AddLookup(c, p, ord)
  PROVE  TableType' /\ DOMAIN add' = Adders /\ (\A x \in Adders : AddRecord(add'[x]))
<1>1. CASE add' = [add EXCEPT ![c] = Adding("open", p, 0, 0, FALSE)]
           /\ UNCHANGED <<table, pidfds, deferred>>
  BY <1>1 DEF AddLookup, TableType, CallType, AddRecord, Adding
<1>2. ASSUME NEW e \in table, MarkGoneLocked(e), Defer(ord, p, FALSE, 0, 0), UNCHANGED add
      PROVE  TableType' /\ DOMAIN add' = Adders /\ (\A x \in Adders : AddRecord(add'[x]))
  BY <1>2, MarkGoneType, DeferType DEF AddLookup, TableType, CallType
<1>3. ASSUME NEW e \in table, UNCHANGED <<pidfds, deferred, add>>,
             table' = Replace(table, e, [e EXCEPT !.pending = FALSE, !.discovered = FALSE])
      PROVE  TableType' /\ DOMAIN add' = Adders /\ (\A x \in Adders : AddRecord(add'[x]))
  BY <1>3, EntryUpdates DEF AddLookup, TableType, CallType, Replace
<1> QED BY <1>1, <1>2, <1>3 DEF AddLookup

\* CommitPendingRemovals: the discovered processes it registers get the next
\* serials, in the order they were deferred.
LEMMA CommitSerials ==
  ASSUME TableType, NEW new \in SUBSET deferred
  PROVE  /\ IsFiniteSet(new) /\ Cardinality(new) \in Nat
         /\ \A d \in new : /\ DeferredSerial(d, new) \in Nat
                           /\ nextSerial <= DeferredSerial(d, new)
                           /\ DeferredSerial(d, new) < nextSerial + Cardinality(new)
         /\ \A d1, d2 \in new : d1.ord < d2.ord => DeferredSerial(d1, new) < DeferredSerial(d2, new)
<1>1. IsFiniteSet(new) /\ Cardinality(new) \in Nat
  BY FS_Subset, FS_CardinalityType DEF TableType
<1> DEFINE before(d) == {x \in new : x.ord < d.ord}
<1>2. ASSUME NEW d \in new
      PROVE  /\ IsFiniteSet(before(d)) /\ Cardinality(before(d)) \in Nat
             /\ Cardinality(before(d)) < Cardinality(new)
  <2>1. before(d) \subseteq new /\ d \notin before(d) /\ d.ord \in Nat
    BY DEF TableType, Deferred
  <2> HIDE DEF before
  <2>2. IsFiniteSet(before(d)) /\ Cardinality(before(d)) \in Nat
    BY <1>1, <2>1, FS_Subset, FS_CardinalityType
  <2>3. Cardinality(before(d)) <= Cardinality(new) /\ Cardinality(before(d)) # Cardinality(new)
    BY <1>1, <1>2, <2>1, FS_Subset
  <2> QED BY <1>1, <2>2, <2>3
<1>3. ASSUME NEW d1 \in new, NEW d2 \in new, d1.ord < d2.ord
      PROVE  Cardinality(before(d1)) < Cardinality(before(d2))
  <2>1. before(d1) \subseteq before(d2) /\ d1 \in before(d2) /\ d1 \notin before(d1)
    BY <1>3 DEF TableType, Deferred
  <2> HIDE DEF before
  <2>2. /\ Cardinality(before(d1)) <= Cardinality(before(d2))
        /\ Cardinality(before(d1)) # Cardinality(before(d2))
    BY <1>2, <2>1, FS_Subset
  <2> QED BY <1>2, <2>2
<1>4. nextSerial \in Nat /\ \A d \in new : DeferredSerial(d, new) = nextSerial + Cardinality(before(d))
  BY DEF DeferredSerial, TableType
<1> HIDE DEF before
<1>5. \A d \in new : Cardinality(before(d)) \in Nat
  BY <1>2
<1> QED BY <1>1, <1>2, <1>3, <1>4, <1>5

LEMMA CommitType ==
  ASSUME TableType, FlushCommit
  PROVE  TableType'
<1> DEFINE out == {e \in table : Drops(e)}
           kept == table \ out
           first == FirstInLine(Freed(kept))
           new == {d \in first : d.discovered}
           newFd == {[serial |-> DeferredSerial(d, new), fd |-> d.fd] : d \in {x \in new : x.fd # 0}}
<1>1. first \subseteq deferred /\ new \subseteq first
  BY DEF FirstInLine, Freed
<1>2. /\ table' = kept \union {NewEntry(d.pid, DeferredSerial(d, new), d.start, TRUE, FALSE) : d \in new}
      /\ pidfds' = [s \in (DOMAIN pidfds \ SerialsOf(out)) \union {f.serial : f \in newFd} |->
                      IF s \in DOMAIN pidfds THEN pidfds[s]
                      ELSE (CHOOSE f \in newFd : f.serial = s).fd]
      /\ nextSerial' = nextSerial + Cardinality(new)
      /\ deferred' = deferred \ first
  BY DEF FlushCommit
<1> HIDE DEF new, first, out
<1>3. \A d \in new : d \in Deferred /\ DeferredSerial(d, new) \in Nat
  BY <1>1, CommitSerials DEF TableType
<1>4. table' \subseteq Entry
  <2>1. \A d \in new : NewEntry(d.pid, DeferredSerial(d, new), d.start, TRUE, FALSE) \in Entry
    BY <1>3, NewEntryType DEF Deferred
  <2> QED BY <1>2, <2>1 DEF TableType
<1>5. \A f \in newFd : f.serial \in Nat /\ f.fd \in Nat
  BY <1>3 DEF Deferred
<1>6. PidfdMap(pidfds')
  <2>1. DOMAIN pidfds' = (DOMAIN pidfds \ SerialsOf(out)) \union {f.serial : f \in newFd}
    BY <1>2
  <2>2. ASSUME NEW s \in DOMAIN pidfds' PROVE s \in Nat /\ pidfds'[s] \in Nat
    <3> HIDE DEF newFd
    <3>1. CASE s \in DOMAIN pidfds
      BY <1>2, <2>1, <2>2, <3>1 DEF TableType, PidfdMap
    <3>2. CASE s \notin DOMAIN pidfds
      <4>1. \E f \in newFd : f.serial = s
        BY <2>1, <2>2, <3>2
      <4>2. (CHOOSE f \in newFd : f.serial = s) \in newFd
        BY <4>1
      <4> QED BY <1>2, <1>5, <2>1, <2>2, <3>2, <4>1, <4>2
    <3> QED BY <3>1, <3>2
  <2>3. pidfds' = [s \in DOMAIN pidfds' |-> pidfds'[s]]
    BY <1>2, <2>1
  <2> QED BY <2>2, <2>3 DEF PidfdMap
<1>7. nextSerial' \in Nat
  BY <1>1, <1>2, CommitSerials DEF TableType
<1>8. deferred' \subseteq Deferred /\ IsFiniteSet(deferred')
  BY <1>2, FS_Subset DEF TableType
<1> QED BY <1>4, <1>6, <1>7, <1>8 DEF TableType

\* Every step keeps the types.
LEMMA TypeStep == TypeOK /\ [Next]_vars => TypeOK'
<1> SUFFICES ASSUME TypeOK, [Next]_vars PROVE TypeOK'
  OBVIOUS
<1> USE DEF TypeOK
<1>1. ASSUME NEW p \in Pids, Exit(p) PROVE TypeOK'
  <2>1. KernelType'
    BY <1>1 DEF Exit, KernelType, kernelVars
  <2> QED BY <1>1, <2>1, TypeFrame DEF Exit
<1>2. ASSUME NEW p \in Pids, Spawn(p) PROVE TypeOK'
  <2>1. KernelType'
    BY <1>2 DEF Spawn, KernelType, kernelVars
  <2> QED BY <1>2, <2>1, TypeFrame DEF Spawn
<1>3. ASSUME NEW c \in Callers, NEW p \in Pids, AddTrackedProcess(c, p) PROVE TypeOK'
  <2>1. TableType'
    BY <1>3, AddLookupType DEF AddTrackedProcess, CallType, Adders
  <2>2. CallType'
    <3>1. calls + 1 \in Nat
      BY DEF CallType
    <3> QED BY <1>3, <3>1, AddLookupType DEF AddTrackedProcess, CallType, Adders
  <2> QED BY <1>3, <2>1, <2>2, TypeFrame DEF AddTrackedProcess
<1>4. ASSUME NEW c \in Adders, MakeRootOpen(c) PROVE TypeOK'
  <2>1. TableType'
    BY <1>4 DEF MakeRootOpen, MakeRootUnchanged, TableType, tableVars
  <2>2. CallType'
    BY <1>4 DEF MakeRootOpen, Opened, MakeRootUnchanged, CallType, callVars, KernelType, AddRecord, Adding
  <2> QED BY <1>4, <2>1, <2>2, TypeFrame DEF MakeRootOpen, MakeRootUnchanged
<1>5. ASSUME NEW c \in Adders, MakeRootOpenFails(c) PROVE TypeOK'
  <2>1. TableType'
    BY <1>5 DEF MakeRootOpenFails, MakeRootUnchanged, TableType, tableVars
  <2>2. CallType'
    BY <1>5 DEF MakeRootOpenFails, MakeRootUnchanged, CallType, callVars, KernelType, AddRecord, Adding
  <2> QED BY <1>5, <2>1, <2>2, TypeFrame DEF MakeRootOpenFails, MakeRootUnchanged
<1>6. ASSUME NEW c \in Adders, MakeRootStat(c) PROVE TypeOK'
  <2>1. TableType'
    BY <1>6 DEF MakeRootStat, MakeRootUnchanged, TableType, tableVars
  <2>2. CallType'
    BY <1>6 DEF MakeRootStat, MakeRootUnchanged, CallType, callVars, KernelType, AddRecord, Adding
  <2> QED BY <1>6, <2>1, <2>2, TypeFrame DEF MakeRootStat, MakeRootUnchanged
<1>7. ASSUME NEW c \in Adders, MakeRootCheck(c) PROVE TypeOK'
  <2>1. TableType'
    BY <1>7 DEF MakeRootCheck, MakeRootUnchanged, TableType, tableVars
  <2>2. CallType'
    BY <1>7 DEF MakeRootCheck, CheckedRoot, MakeRootUnchanged, CallType, callVars, KernelType, AddRecord, Adding
  <2> QED BY <1>7, <2>1, <2>2, TypeFrame DEF MakeRootCheck, MakeRootUnchanged
<1>8. ASSUME NEW c \in Adders, AddInsert(c) PROVE TypeOK'
  <2>1. TableType'
    <3>1. AddRecord(add[c]) /\ add[c].pid \in Pids
      BY <1>8 DEF AddInsert, CallType, AddRecord
    <3>2. CASE UNCHANGED <<table, pidfds, nextSerial>>
      BY <1>8, <3>2 DEF AddInsert, TableType
    <3>3. CASE InsertLocked(add[c].pid, add[c].start, add[c].fd, FALSE, add[c].ended)
      BY <1>8, <3>1, <3>3, InsertType DEF AddInsert, TableType, AddRecord
    <3> QED BY <1>8, <3>2, <3>3 DEF AddInsert
  <2>2. CallType'
    BY <1>8 DEF AddInsert, CallType, callVars, AddRecord, NoAdd
  <2> QED BY <1>8, <2>1, <2>2, TypeFrame DEF AddInsert
<1>9. ASSUME NEW c \in Callers, NEW p \in Pids, RemoveTrackedProcess(c, p) PROVE TypeOK'
  <2>1. TableType'
    <3>1. deferred' \subseteq Deferred /\ IsFiniteSet(deferred')
      BY <1>9, FS_Subset DEF RemoveTrackedProcess, TableType
    <3>2. table' \subseteq Entry
      BY <1>9, EntryUpdates DEF RemoveTrackedProcess, TableType, Replace
    <3> QED BY <1>9, <3>1, <3>2 DEF RemoveTrackedProcess, TableType
  <2>2. CallType'
    BY <1>9 DEF RemoveTrackedProcess, CallType, callVars
  <2> QED BY <1>9, <2>1, <2>2, TypeFrame DEF RemoveTrackedProcess
<1>10. ASSUME NEW p \in Pids, NEW g \in 1..gen[p], NEW fd \in 0..gen[p], AddDiscoveredProcess(p, g, fd) PROVE TypeOK'
  <2>1. TableType'
    <3>1. g \in Nat /\ fd \in Nat /\ calls + 1 \in Nat
      BY DEF KernelType, CallType
    <3>2. CASE \E e \in table : MarkGoneLocked(e) /\ Defer(calls + 1, p, TRUE, fd, g) /\ UNCHANGED nextSerial
      BY <3>1, <3>2, MarkGoneType, DeferType DEF TableType
    <3>3. CASE UNCHANGED <<table, pidfds, deferred, nextSerial>>
      BY <3>3 DEF TableType
    <3>4. CASE InsertLocked(p, g, fd, TRUE, FALSE) /\ UNCHANGED deferred
      BY <3>1, <3>4, InsertType DEF TableType
    <3> QED BY <1>10, <3>2, <3>3, <3>4 DEF AddDiscoveredProcess
  <2>2. CallType'
    BY <1>10 DEF AddDiscoveredProcess, CallType, callVars
  <2> QED BY <1>10, <2>1, <2>2, TypeFrame DEF AddDiscoveredProcess
<1>11. CASE SampleSnapshot
  <2>1. SampleType'
    BY <1>11 DEF SampleSnapshot, SampleType, sampleVars, TableType, PidsOf, Entry
  <2> QED BY <1>11, <2>1, TypeFrame DEF SampleSnapshot
<1>12. ASSUME NEW e \in todo, SampleRead(e) PROVE TypeOK'
  <2>1. SampleType'
    BY <1>12 DEF SampleRead, SampleType, sampleVars, KernelType, Reading, Entry
  <2> QED BY <1>12, <2>1, TypeFrame DEF SampleRead
<1>13. CASE PollCollect
  <2>1. SampleType'
    <3>1. \A e \in table : e.serial \in Nat
      BY DEF TableType, Entry
    <3>2. items' \subseteq [serial : Nat, fd : BOOLEAN]
      <4>1. \A e \in table : [serial |-> e.serial, fd |-> e.serial \in DOMAIN pidfds] \in [serial : Nat, fd : BOOLEAN]
        BY <3>1
      <4> QED BY <1>13, <4>1 DEF PollCollect
    <3> QED BY <1>13, <3>2 DEF PollCollect, SampleType
  <2> QED BY <1>13, <2>1, TypeFrame DEF PollCollect
<1>14. CASE PollFds
  <2>1. SampleType'
    BY <1>14 DEF PollFds, SampleType, sampleVars, TableType, Entry
  <2> QED BY <1>14, <2>1, TypeFrame DEF PollFds
<1>15. CASE PollApply
  <2>1. TableType'
    <3> DEFINE dead == {e \in Polled : ~e.ended /\ e.serial \in exited}
    <3>1. dead \subseteq table
      BY DEF Polled
    <3>2. table' = (table \ dead) \union {MarkGone(e) : e \in dead}
      BY <1>15 DEF PollApply
    <3>3. table' \subseteq Entry
      BY <3>1, <3>2, EntryUpdates DEF TableType
    <3>4. pidfds' = WithoutFds(pidfds, SerialsOf(dead))
      BY <1>15 DEF PollApply
    <3>5. PidfdMap(pidfds')
      BY <3>4, PidfdUpdates DEF TableType
    <3> QED BY <1>15, <3>3, <3>5 DEF PollApply, TableType
  <2>2. SampleType'
    BY <1>15 DEF PollApply, SampleType, sampleVars
  <2> QED BY <1>15, <2>1, <2>2, TypeFrame DEF PollApply
<1>16. ASSUME NEW r \in readings, SeedBaseline(r) PROVE TypeOK'
  <2>1. TableType'
    <3>1. r.proc \in Nat
      BY DEF SampleType, Reading
    <3>2. \A e \in table : e \in Entry /\ [e EXCEPT !.head = r.proc] \in Entry
      BY <3>1, EntryUpdates DEF TableType
    <3>3. table' \subseteq Entry
      BY <1>16, <3>2 DEF SeedBaseline
    <3> QED BY <1>16, <3>3 DEF SeedBaseline, TableType
  <2>2. SampleType'
    BY <1>16 DEF SeedBaseline, SampleType, sampleVars, Reading
  <2> QED BY <1>16, <2>1, <2>2, TypeFrame DEF SeedBaseline
<1>17. ASSUME NEW r \in readings, PushSample(r) PROVE TypeOK'
  <2>1. SampleType'
    BY <1>17 DEF PushSample, SampleType, sampleVars, Reading
  <2>2. BatchType'
    <3> DEFINE s == [serial |-> r.serial, pid |-> r.pid, own |-> r.own,
                     from |-> base[r.pid].proc, proc |-> r.proc, tick |-> tick]
    <3>1. r \in Reading /\ tick \in Nat
      BY DEF SampleType
    <3>2. r.pid \in Pids
      BY <3>1 DEF Reading
    <3>3. base[r.pid].proc \in Nat
      BY <3>2 DEF SampleType
    <3>4. s \in Sample
      BY <3>1, <3>3 DEF Reading, Sample
    <3>5. batch' = batch \union {s}
      BY <1>17 DEF PushSample
    <3>6. batch' \subseteq Sample /\ IsFiniteSet(batch')
      BY <3>4, <3>5, FS_AddElement DEF BatchType
    <3> QED BY <1>17, <3>6 DEF PushSample, BatchType
  <2> QED BY <1>17, <2>1, <2>2, TypeFrame DEF PushSample
<1>18. ASSUME NEW r \in readings, SkipSample(r) PROVE TypeOK'
  <2>1. SampleType'
    BY <1>18 DEF SkipSample, SampleType, sampleVars
  <2> QED BY <1>18, <2>1, TypeFrame DEF SkipSample
<1>19. CASE SampleEnd
  <2>1. SampleType'
    <3>1. base' \in [Pids -> [serial : Nat, proc : Nat]]
      BY <1>19 DEF SampleEnd, SampleType, NoBase
    <3> QED BY <1>19, <3>1 DEF SampleEnd, SampleType
  <2> QED BY <1>19, <2>1, TypeFrame DEF SampleEnd
<1>20. CASE SampleExit
  <2>1. SampleType'
    BY <1>20 DEF SampleExit, SampleType, sampleVars
  <2> QED BY <1>20, <2>1, TypeFrame DEF SampleExit
<1>21. CASE FlushDrain
  <2>1. BatchType'
    BY <1>21, FS_EmptySet DEF FlushDrain, BatchType, batchVars
  <2>2. FlushType'
    BY <1>21 DEF FlushDrain, FlushType, flushVars, BatchType
  <2> QED BY <1>21, <2>1, <2>2, TypeFrame DEF FlushDrain
<1>22. CASE FlushSnapshot
  <2>1. FlushType'
    BY <1>22 DEF FlushSnapshot, FlushType, flushVars, TableType
  <2> QED BY <1>22, <2>1, TypeFrame DEF FlushSnapshot
<1>23. CASE FlushSkip
  <2>1. FlushType'
    BY <1>23 DEF FlushSkip, AfterFlush, FlushType, flushVars
  <2>2. PhaseType'
    BY <1>23 DEF FlushSkip, AfterFlush, PhaseType
  <2> QED BY <1>23, <2>1, <2>2, TypeFrame DEF FlushSkip, AfterFlush
<1>24. CASE FlushWrite
  <2>1. FlushType'
    BY <1>24, FS_EmptySet DEF FlushWrite, FlushType, flushVars
  <2>2. TraceType'
    <3>1. Announced(fsnap) \subseteq Nat
      BY DEF FlushType, Announced, SerialsOf, Entry
    <3>2. Cardinality(drained) \in Nat
      BY FS_CardinalityType DEF FlushType
    <3>3. frame' \in [rows : SUBSET Entry, samples : SUBSET Sample]
      BY <1>24 DEF FlushWrite, FlushType
    <3>4. marked' \subseteq Nat /\ dropped' \subseteq Nat
      BY <1>24, <3>1 DEF FlushWrite, TraceType
    <3>5. written' \in Nat
      BY <1>24, <3>2 DEF FlushWrite, TraceType
    <3> QED BY <3>3, <3>4, <3>5 DEF TraceType
  <2> QED BY <1>24, <2>1, <2>2, TypeFrame DEF FlushWrite
<1>25. CASE FlushWriteLost
  <2>1. FlushType'
    BY <1>25, FS_EmptySet DEF FlushWriteLost, FlushType, flushVars
  <2> QED BY <1>25, <2>1, TypeFrame DEF FlushWriteLost
<1>26. CASE FlushCommit
  <2>1. TableType'
    <3> QED BY <1>26, CommitType
  <2>2. FlushType'
    BY <1>26 DEF FlushCommit, FlushType, flushVars, TableType, FirstInLine, Freed
  <2>3. TraceType'
    BY <1>26 DEF FlushCommit, TraceType, traceVars, TableType, SerialsOf, Entry
  <2> QED BY <1>26, <2>1, <2>2, <2>3, TypeFrame DEF FlushCommit
<1>27. CASE FlushAddRoot
  <2>1. TableType'
    <3>1. PICK d \in froots : AddLookup(FlushThread, d.pid, d.ord)
      BY <1>27 DEF FlushAddRoot
    <3>2. d.pid \in Pids /\ d.ord \in Nat /\ FlushThread \in Adders
      BY DEF FlushType, Deferred, Adders
    <3> QED BY <3>1, <3>2, AddLookupType
  <2>2. CallType'
    <3>1. PICK d \in froots : AddLookup(FlushThread, d.pid, d.ord)
      BY <1>27 DEF FlushAddRoot
    <3>2. d.pid \in Pids /\ d.ord \in Nat /\ FlushThread \in Adders
      BY DEF FlushType, Deferred, Adders
    <3> QED BY <1>27, <3>1, <3>2, AddLookupType DEF FlushAddRoot, CallType
  <2>3. FlushType'
    BY <1>27 DEF FlushAddRoot, FlushType, flushVars
  <2> QED BY <1>27, <2>1, <2>2, <2>3, TypeFrame DEF FlushAddRoot
<1>28. CASE FlushEnd
  <2>1. FlushType'
    BY <1>28 DEF FlushEnd, AfterFlush, FlushType, flushVars
  <2>2. PhaseType'
    BY <1>28 DEF FlushEnd, AfterFlush, PhaseType
  <2> QED BY <1>28, <2>1, <2>2, TypeFrame DEF FlushEnd, AfterFlush
<1>29. CASE FlushExit
  <2>1. FlushType'
    BY <1>29 DEF FlushExit, FlushType, flushVars
  <2> QED BY <1>29, <2>1, TypeFrame DEF FlushExit
<1>30. CASE StopSignalled
  <2>1. PhaseType'
    BY <1>30 DEF StopSignalled, PhaseType
  <2> QED BY <1>30, <2>1, TypeFrame DEF StopSignalled
<1>31. CASE StopJoined
  <2>1. FlushType'
    BY <1>31 DEF StopJoined, FlushType, flushVars
  <2>2. PhaseType'
    BY <1>31 DEF StopJoined, PhaseType
  <2> QED BY <1>31, <2>1, <2>2, TypeFrame DEF StopJoined
<1>32. CASE UNCHANGED vars
  BY <1>32, TypeFrame DEF vars
<1> QED
  BY <1>1, <1>2, <1>3, <1>4, <1>5, <1>6, <1>7, <1>8, <1>9, <1>10, <1>11, <1>12, <1>13, <1>14, <1>15, <1>16, <1>17, <1>18, <1>19, <1>20, <1>21, <1>22, <1>23, <1>24, <1>25, <1>26, <1>27, <1>28, <1>29, <1>30, <1>31, <1>32 DEF Next, Sampling, Flushing, MakeRoot, Keep, Adders

\* Every variable keeps its type, whatever the PIDs, the callers and the bounds.
THEOREM TypeCorrect == Spec => []TypeOK
<1>1. Init => TypeOK
  BY TypeInit
<1>2. TypeOK /\ [Next]_vars => TypeOK'
  BY TypeStep
<1> QED BY <1>1, <1>2, PTL DEF Spec

---------------------------------------------------------------------------
(* The safety invariants, proved from IndInv, which every step of the       *)
(* probe's threads keeps.                                                   *)

TableInv == OnePerPid(table) /\ SerialNeverReused /\ PidfdPinsEntry

---------------------------------------------------------------------------
(* What the table's updates keep.                                          *)

\* Entries changed in place (marked, removed, revived, given a head), the
\* descriptors of those that end closed.
LEMMA InPlace ==
  ASSUME TypeOK, TableInv, NEW U \in [table -> Entry],
         \A e \in table : /\ U[e].serial = e.serial /\ U[e].pid = e.pid /\ U[e].start = e.start
                          /\ e.ended => U[e].ended,
         table' = {U[e] : e \in table},
         pidfds' = [s \in DOMAIN pidfds \ {e.serial : e \in {x \in table : U[x].ended /\ ~x.ended}} |-> pidfds[s]],
         UNCHANGED <<nextSerial, dropped>>
  PROVE  TableInv' /\ PidsOf(table') = PidsOf(table)
<1> DEFINE ending == {e.serial : e \in {x \in table : U[x].ended /\ ~x.ended}}
<1>1. \A y \in table' : \E e \in table : y = U[e]
  OBVIOUS
<1>2. OnePerPid(table)'
  BY <1>1 DEF TableInv, OnePerPid
<1>3. SerialNeverReused'
  BY <1>1 DEF TableInv, SerialNeverReused, SerialsOf
<1>4. DOMAIN pidfds' = DOMAIN pidfds \ ending /\ \A s \in DOMAIN pidfds' : pidfds'[s] = pidfds[s]
  OBVIOUS
<1>5. PidfdPinsEntry'
  <2>1. ASSUME NEW s \in DOMAIN pidfds'
        PROVE  \E y \in table' : y.serial = s /\ ~y.ended /\ y.start = pidfds'[s]
    <3>1. PICK e \in table : e.serial = s /\ ~e.ended /\ e.start = pidfds[s]
      BY <1>4, <2>1 DEF TableInv, PidfdPinsEntry
    <3>2. ~U[e].ended
      BY <1>4, <2>1, <3>1 DEF Entry
    <3> QED BY <1>4, <3>1, <3>2
  <2>2. ASSUME ~PidfdMayFail, NEW y \in table', ~y.ended PROVE y.serial \in DOMAIN pidfds'
    <3>1. PICK e \in table : y = U[e]
      BY <1>1
    <3>2. ~e.ended /\ e.serial \in DOMAIN pidfds /\ y.serial = e.serial
      BY <2>2, <3>1 DEF TableInv, PidfdPinsEntry
    <3>3. e.serial \notin ending
      BY <2>2, <3>1 DEF TableInv, SerialNeverReused
    <3> QED BY <1>4, <3>2, <3>3
  <2> QED BY <2>1, <2>2 DEF PidfdPinsEntry
<1>6. PidsOf(table') = PidsOf(table)
  BY <1>1 DEF PidsOf
<1> QED BY <1>2, <1>3, <1>5, <1>6 DEF TableInv

\* One entry replaced, no descriptor closed: Remove and the re-Add.
LEMMA ReplaceKeeps ==
  ASSUME TypeOK, TableInv, NEW e \in table, NEW new \in Entry,
         new.serial = e.serial, new.pid = e.pid, new.start = e.start, new.ended = e.ended,
         table' = Replace(table, e, new), UNCHANGED <<pidfds, nextSerial, dropped>>
  PROVE  TableInv' /\ PidsOf(table') = PidsOf(table)
<1> DEFINE U == [x \in table |-> IF x = e THEN new ELSE x]
<1>1. U \in [table -> Entry] /\ table' = {U[x] : x \in table}
  BY DEF TypeOK, TableType, Replace
<1>2. {x.serial : x \in {y \in table : U[y].ended /\ ~y.ended}} = {}
  OBVIOUS
<1>3. pidfds' = [s \in DOMAIN pidfds \ {x.serial : x \in {y \in table : U[y].ended /\ ~y.ended}} |-> pidfds[s]]
  BY <1>2 DEF TypeOK, TableType, PidfdMap
<1>4. \A x \in table : /\ U[x].serial = x.serial /\ U[x].pid = x.pid /\ U[x].start = x.start
                       /\ x.ended => U[x].ended
  OBVIOUS
<1> HIDE DEF U
<1> QED BY <1>1, <1>3, <1>4, InPlace

LEMMA MarkGoneKeeps ==
  ASSUME TypeOK, TableInv, NEW e \in table, MarkGoneLocked(e), UNCHANGED <<nextSerial, dropped>>
  PROVE  TableInv' /\ PidsOf(table') = PidsOf(table)
<1>0. e \in Entry
  BY DEF TypeOK, TableType
<1>1. CASE e.ended
  <2>1. table' = table /\ pidfds' = pidfds
    BY <1>1 DEF MarkGoneLocked, Replace
  <2> QED BY <2>1 DEF TableInv, OnePerPid, SerialNeverReused, PidfdPinsEntry
<1>2. CASE ~e.ended
  <2> DEFINE U == [x \in table |-> IF x = e THEN MarkGone(e) ELSE x]
  <2>0. /\ MarkGone(e) \in Entry /\ MarkGone(e).serial = e.serial /\ MarkGone(e).pid = e.pid
        /\ MarkGone(e).start = e.start /\ MarkGone(e).ended
    BY <1>0, EntryUpdates DEF MarkGone, Entry
  <2>1. U \in [table -> Entry] /\ table' = {U[x] : x \in table}
    BY <1>2, <2>0 DEF TypeOK, TableType, Replace, MarkGoneLocked
  <2>2. {x.serial : x \in {y \in table : U[y].ended /\ ~y.ended}} = {e.serial}
    BY <1>2, <2>0
  <2>3. pidfds' = [s \in DOMAIN pidfds \ {x.serial : x \in {y \in table : U[y].ended /\ ~y.ended}} |-> pidfds[s]]
    BY <1>2, <2>2 DEF MarkGoneLocked, WithoutFds
  <2>4. \A x \in table : /\ U[x].serial = x.serial /\ U[x].pid = x.pid /\ U[x].start = x.start
                         /\ x.ended => U[x].ended
    BY <2>0
  <2> HIDE DEF U
  <2> QED BY <2>1, <2>3, <2>4, InPlace
<1> QED BY <1>1, <1>2

\* A registration under a number nobody has.
LEMMA InsertKeeps ==
  ASSUME TypeOK, TableInv, NEW p \in Pids, p \notin PidsOf(table), NEW start \in Nat, NEW fd \in Nat,
         NEW d \in BOOLEAN, NEW x \in BOOLEAN, InsertLocked(p, start, fd, d, x), UNCHANGED dropped,
         fd # 0 => ~x /\ fd = start, fd = 0 /\ ~x => PidfdMayFail
  PROVE  TableInv' /\ PidsOf(table') = PidsOf(table) \union {p}
<1> DEFINE new == NewEntry(p, nextSerial, start, d, x)
<1>1. /\ new.serial = nextSerial /\ new.pid = p /\ new.start = start /\ new.ended = x
      /\ table' = table \union {new} /\ nextSerial' = nextSerial + 1 /\ nextSerial \in Nat
      /\ pidfds' = WithFd(pidfds, nextSerial, fd)
  BY DEF NewEntry, InsertLocked, TypeOK, TableType
<1> HIDE DEF new
<1>2. \A e \in table : e.serial \in Nat /\ e.serial < nextSerial /\ e.pid # p
  BY DEF TypeOK, TableType, Entry, TableInv, SerialNeverReused, SerialsOf, PidsOf
<1>3. OnePerPid(table)'
  BY <1>1, <1>2 DEF TableInv, OnePerPid
<1>4. SerialNeverReused'
  <2>1. \A s \in dropped : s \in Nat /\ s < nextSerial
    BY DEF TypeOK, TraceType, TableInv, SerialNeverReused
  <2>2. \A e \in table' : e.serial \in Nat /\ e.serial < nextSerial'
    BY <1>1, <1>2
  <2>3. \A e \in table' : e.serial \notin dropped'
    BY <1>1, <2>1 DEF TableInv, SerialNeverReused
  <2>4. \A e1, e2 \in table' : e1.serial = e2.serial => e1 = e2
    BY <1>1, <1>2 DEF TableInv, SerialNeverReused
  <2> QED BY <1>1, <2>1, <2>2, <2>3, <2>4 DEF SerialNeverReused, SerialsOf
<1>5. PidfdPinsEntry'
  <2>1. CASE fd = 0
    BY <1>1, <2>1 DEF TableInv, PidfdPinsEntry, WithFd
  <2>2. CASE fd # 0
    <3>1. /\ DOMAIN pidfds' = DOMAIN pidfds \union {nextSerial} /\ pidfds'[nextSerial] = fd
          /\ \A s \in DOMAIN pidfds : s # nextSerial => pidfds'[s] = pidfds[s]
      BY <1>1, <2>2 DEF WithFd
    <3>2. \A s \in DOMAIN pidfds : s # nextSerial
      BY <1>1, <1>2 DEF TableInv, PidfdPinsEntry
    <3> QED BY <1>1, <2>2, <3>1, <3>2 DEF TableInv, PidfdPinsEntry
  <2> QED BY <2>1, <2>2
<1>6. PidsOf(table') = PidsOf(table) \union {p}
  BY <1>1 DEF PidsOf
<1> QED BY <1>3, <1>4, <1>5, <1>6 DEF TableInv

\* In a set of waiting registrations, one was made first.
LEMMA EarliestOrd ==
  ASSUME NEW D \in SUBSET Deferred, D # {}
  PROVE  \E d \in D : \A x \in D : d.ord <= x.ord
<1> DEFINE T == {d.ord : d \in D}
<1>1. T \subseteq Nat /\ T # {}
  BY DEF Deferred
<1> DEFINE R == {ss \in Nat \X Nat : ss[1] < ss[2]}
<1>2. IsWellFoundedOn(R, Nat)
  BY NatLessThanWellFounded DEF OpToRel
<1> HIDE DEF T
<1>3. \E m \in T : \A n \in T : ~(<<n, m>> \in R)
  <2> HIDE DEF R
  <2> QED BY <1>1, <1>2, WFMin
<1>4. \E m \in T : \A n \in T : m <= n
  <2>1. PICK m \in T : \A n \in T : ~(<<n, m>> \in R)
    BY <1>3
  <2>2. ASSUME NEW n \in T PROVE m <= n
    <3>1. m \in Nat /\ n \in Nat /\ ~(<<n, m>> \in R)
      BY <1>1, <2>1
    <3>2. <<n, m>> \in Nat \X Nat /\ <<n, m>>[1] = n /\ <<n, m>>[2] = m
      BY <3>1
    <3> QED BY <3>1, <3>2
  <2> QED BY <2>2
<1> QED BY <1>4 DEF T

\* CommitPendingRemovals. out, kept, first, new and newFd are its locals.
CommitLocals(out, kept, first, new, newFd) ==
  /\ out = {e \in table : Drops(e)}
  /\ kept = table \ out
  /\ first = FirstInLine(Freed(kept))
  /\ new = {d \in first : d.discovered}
  /\ newFd = {[serial |-> DeferredSerial(d, new), fd |-> d.fd] : d \in {x \in new : x.fd # 0}}

CommitEffect(out, kept, first, new, newFd) ==
  /\ table' = kept \union {NewEntry(d.pid, DeferredSerial(d, new), d.start, TRUE, FALSE) : d \in new}
  /\ pidfds' = [s \in (DOMAIN pidfds \ SerialsOf(out)) \union {f.serial : f \in newFd} |->
                  IF s \in DOMAIN pidfds THEN pidfds[s]
                  ELSE (CHOOSE f \in newFd : f.serial = s).fd]
  /\ nextSerial' = nextSerial + Cardinality(new)
  /\ deferred' = deferred \ first
  /\ froots' = first \ new
  /\ dropped' = dropped \union SerialsOf(out)

LEMMA CommitIs ==
  FlushCommit => \E out, kept, first, new, newFd :
    CommitLocals(out, kept, first, new, newFd) /\ CommitEffect(out, kept, first, new, newFd)
<1> SUFFICES ASSUME FlushCommit
             PROVE  \E out, kept, first, new, newFd :
                      CommitLocals(out, kept, first, new, newFd) /\ CommitEffect(out, kept, first, new, newFd)
  OBVIOUS
<1> DEFINE out == {e \in table : Drops(e)}
           kept == table \ out
           first == FirstInLine(Freed(kept))
           new == {d \in first : d.discovered}
           newFd == {[serial |-> DeferredSerial(d, new), fd |-> d.fd] : d \in {x \in new : x.fd # 0}}
<1>1. CommitEffect(out, kept, first, new, newFd)
  BY DEF FlushCommit, CommitEffect
<1>2. CommitLocals(out, kept, first, new, newFd)
  BY DEF CommitLocals
<1> HIDE DEF out, kept, first, new, newFd
<1> QED BY <1>1, <1>2

LEMMA CommitKeeps ==
  ASSUME TypeOK, TableInv, WaitingPins,
         NEW out, NEW kept, NEW first, NEW new, NEW newFd,
         CommitLocals(out, kept, first, new, newFd), CommitEffect(out, kept, first, new, newFd)
  PROVE  TableInv' /\ (\A d \in deferred' : d.pid \in PidsOf(table'))
<1> DEFINE row(d) == NewEntry(d.pid, DeferredSerial(d, new), d.start, TRUE, FALSE)
<1>1. /\ out \subseteq table /\ kept \subseteq table /\ first \subseteq deferred /\ new \subseteq first
      /\ deferred \subseteq Deferred /\ new \subseteq deferred
  BY DEF CommitLocals, FirstInLine, Freed, TypeOK, TableType
<1>2. /\ nextSerial \in Nat /\ Cardinality(new) \in Nat
      /\ \A d \in new : /\ DeferredSerial(d, new) \in Nat
                        /\ nextSerial <= DeferredSerial(d, new)
                        /\ DeferredSerial(d, new) < nextSerial + Cardinality(new)
      /\ \A d1, d2 \in new : d1.ord < d2.ord => DeferredSerial(d1, new) < DeferredSerial(d2, new)
  BY <1>1, CommitSerials DEF TypeOK, TableType
<1>3. \A d1, d2 \in new : DeferredSerial(d1, new) = DeferredSerial(d2, new) => d1 = d2
  <2> SUFFICES ASSUME NEW d1 \in new, NEW d2 \in new, DeferredSerial(d1, new) = DeferredSerial(d2, new)
               PROVE  d1 = d2
    OBVIOUS
  <2>1. ~(d1.ord < d2.ord) /\ ~(d2.ord < d1.ord) /\ d1.ord \in Nat /\ d2.ord \in Nat
    BY <1>1, <1>2 DEF Deferred
  <2> QED BY <1>1, <2>1 DEF WaitingPins
<1>4. \A d \in new : /\ row(d).serial = DeferredSerial(d, new) /\ row(d).pid = d.pid
                     /\ row(d).start = d.start /\ ~row(d).ended
  BY DEF NewEntry
<1>5. table' = kept \union {row(d) : d \in new}
  BY DEF CommitEffect
<1>6. \A d1, d2 \in new : d1.pid = d2.pid => d1 = d2
  <2> SUFFICES ASSUME NEW d1 \in new, NEW d2 \in new, d1.pid = d2.pid PROVE d1 = d2
    OBVIOUS
  <2>1. d1.ord <= d2.ord /\ d2.ord <= d1.ord /\ d1.ord \in Nat /\ d2.ord \in Nat
    BY <1>1 DEF CommitLocals, FirstInLine, Deferred
  <2> QED BY <1>1, <2>1 DEF WaitingPins
<1>7. \A d \in first : d.pid \notin PidsOf(kept)
  BY DEF CommitLocals, FirstInLine, Freed
<1> HIDE DEF row
<1>8. OnePerPid(table)'
  BY <1>1, <1>4, <1>5, <1>6, <1>7 DEF OnePerPid, TableInv, PidsOf
<1>9. \A e \in table : e.serial \in Nat /\ e.serial < nextSerial /\ e.serial \notin dropped
  BY DEF TypeOK, TableType, Entry, TableInv, SerialNeverReused, SerialsOf
<1>10. \A s \in dropped : s \in Nat /\ s < nextSerial
  BY DEF TypeOK, TraceType, TableInv, SerialNeverReused
<1>11. SerialNeverReused'
  <2>1. dropped' = dropped \union SerialsOf(out) /\ nextSerial' = nextSerial + Cardinality(new)
    BY DEF CommitEffect
  <2>2. \A s \in dropped' : s \in Nat /\ s < nextSerial
    BY <1>1, <1>9, <1>10, <2>1 DEF SerialsOf
  <2>3. \A e \in table' : e.serial \in Nat /\ e.serial < nextSerial'
    BY <1>1, <1>2, <1>4, <1>5, <1>9, <2>1
  <2>4. \A e \in kept : e.serial \notin dropped'
    BY <1>1, <1>9, <2>1 DEF SerialsOf, CommitLocals, TableInv, SerialNeverReused
  <2>5. \A e \in table' : e.serial \notin dropped'
    BY <1>2, <1>4, <1>5, <2>2, <2>4
  <2>6. \A e1, e2 \in table' : e1.serial = e2.serial => e1 = e2
    BY <1>1, <1>2, <1>3, <1>4, <1>5, <1>9 DEF TableInv, SerialNeverReused
  <2>7. \A s \in dropped' : s < nextSerial'
    BY <1>2, <2>1, <2>2
  <2> QED BY <2>3, <2>5, <2>6, <2>7 DEF SerialNeverReused, SerialsOf
<1>12. PidfdPinsEntry'
  <2>1. /\ DOMAIN pidfds' = (DOMAIN pidfds \ SerialsOf(out)) \union {f.serial : f \in newFd}
        /\ \A s \in DOMAIN pidfds' : s \in DOMAIN pidfds => pidfds'[s] = pidfds[s]
        /\ \A s \in DOMAIN pidfds' : s \notin DOMAIN pidfds =>
             pidfds'[s] = (CHOOSE f \in newFd : f.serial = s).fd
    BY DEF CommitEffect
  <2>2. \A f \in newFd : \E d \in new : f.serial = DeferredSerial(d, new) /\ f.fd = d.fd /\ d.fd # 0
    <3>1. newFd = {[serial |-> DeferredSerial(d, new), fd |-> d.fd] : d \in {x \in new : x.fd # 0}}
      BY DEF CommitLocals
    <3> QED BY <3>1
  <2>3. \A s \in DOMAIN pidfds : s < nextSerial /\ s \in Nat
    BY <1>9 DEF TableInv, PidfdPinsEntry
  <2>4. \A d \in new : d.fd \in {0, d.start} /\ (d.fd = 0 => PidfdMayFail)
    BY <1>1 DEF CommitLocals, WaitingPins
  <2>5. ASSUME NEW s \in DOMAIN pidfds'
        PROVE  \E y \in table' : y.serial = s /\ ~y.ended /\ y.start = pidfds'[s]
    <3>1. CASE s \in DOMAIN pidfds
      <4>1. PICK e \in table : e.serial = s /\ ~e.ended /\ e.start = pidfds[s]
        BY <3>1 DEF TableInv, PidfdPinsEntry
      <4>2. s \notin {f.serial : f \in newFd}
        BY <1>2, <2>2, <2>3, <3>1
      <4>3. e \in kept
        BY <2>1, <2>5, <4>1, <4>2 DEF CommitLocals, SerialsOf
      <4> QED BY <1>5, <2>1, <2>5, <3>1, <4>1, <4>3
    <3>2. CASE s \notin DOMAIN pidfds
      <4>1. \E f \in newFd : f.serial = s
        BY <2>1, <2>5, <3>2
      <4>2. PICK f \in newFd : f.serial = s /\ pidfds'[s] = f.fd
        BY <2>1, <2>5, <3>2, <4>1
      <4>3. PICK d \in new : f.serial = DeferredSerial(d, new) /\ f.fd = d.fd /\ d.fd # 0
        BY <2>2
      <4> QED BY <1>4, <1>5, <2>4, <4>2, <4>3
    <3> QED BY <3>1, <3>2
  <2>6. ASSUME ~PidfdMayFail, NEW y \in table', ~y.ended PROVE y.serial \in DOMAIN pidfds'
    <3>1. CASE y \in kept
      <4>1. y.serial \in DOMAIN pidfds
        BY <1>1, <2>6, <3>1 DEF TableInv, PidfdPinsEntry
      <4>2. y.serial \notin SerialsOf(out)
        BY <1>1, <3>1 DEF SerialsOf, CommitLocals, TableInv, SerialNeverReused
      <4> QED BY <2>1, <4>1, <4>2
    <3>2. ASSUME NEW d \in new, y = row(d) PROVE y.serial \in DOMAIN pidfds'
      <4>1. d.fd # 0
        BY <2>4, <2>6
      <4>2. [serial |-> DeferredSerial(d, new), fd |-> d.fd] \in newFd
        BY <4>1 DEF CommitLocals
      <4> QED BY <1>4, <2>1, <3>2, <4>2
    <3> QED BY <1>5, <3>1, <3>2
  <2> QED BY <2>5, <2>6 DEF PidfdPinsEntry
<1>13. ASSUME NEW d \in deferred' PROVE d.pid \in PidsOf(table')
  <2>1. d \in deferred /\ d \notin first
    BY <1>13 DEF CommitEffect
  <2>2. CASE d.pid \in PidsOf(kept)
    BY <1>5, <2>2 DEF PidsOf
  <2>3. CASE d.pid \notin PidsOf(kept)
    <3> DEFINE rivals == {x \in Freed(kept) : x.pid = d.pid /\ x.discovered}
    <3>1. rivals # {} /\ rivals \subseteq Deferred
      BY <1>1, <2>1, <2>3 DEF CommitLocals, FirstInLine, Freed
    <3>2. PICK w \in rivals : \A x \in rivals : w.ord <= x.ord
      BY <3>1, EarliestOrd
    <3>3. w \in new
      BY <3>2 DEF CommitLocals, FirstInLine
    <3> QED BY <1>4, <1>5, <3>2, <3>3 DEF PidsOf
  <2> QED BY <2>2, <2>3
<1> QED BY <1>8, <1>11, <1>12, <1>13 DEF TableInv

---------------------------------------------------------------------------
(* The invariant.                                                          *)

LEMMA SafetyInit == Init => IndInv
<1> SUFFICES ASSUME Init PROVE IndInv
  OBVIOUS
<1> USE DEF Init
<1>1. /\ IsFiniteSet(FirstListed) /\ FirstListed \subseteq 1..Len(Roots) /\ Len(Roots) \in Nat
      /\ \A i \in FirstListed : Roots[i] \in Pids
  BY FirstListedFinite, RootsAssumption DEF FirstListed
<1> DEFINE upto(i) == {j \in FirstListed : j <= i}
<1>2. ASSUME NEW i \in FirstListed
      PROVE  /\ RootSerial(i) \in Nat /\ RootSerial(i) < nextSerial
             /\ \A j \in FirstListed : i < j => RootSerial(i) < RootSerial(j)
  <2>1. IsFiniteSet(upto(i)) /\ Cardinality(upto(i)) <= Cardinality(FirstListed)
    BY <1>1, FS_Subset
  <2>2. Cardinality(upto(i)) \in Nat /\ Cardinality(FirstListed) \in Nat
    BY <1>1, <2>1, FS_CardinalityType
  <2>3. ASSUME NEW j \in FirstListed, i < j PROVE Cardinality(upto(i)) < Cardinality(upto(j))
    <3>1. upto(i) \subseteq upto(j) /\ j \in upto(j) /\ j \notin upto(i)
      BY <1>1, <2>3
    <3>2. IsFiniteSet(upto(j))
      BY <1>1, FS_Subset
    <3> HIDE DEF upto
    <3>3. Cardinality(upto(i)) <= Cardinality(upto(j)) /\ Cardinality(upto(i)) # Cardinality(upto(j))
      BY <3>1, <3>2, FS_Subset
    <3> QED BY <2>2, <3>2, <3>3, FS_CardinalityType
  <2> QED BY <2>1, <2>2, <2>3 DEF RootSerial
<1>3. \A i, j \in FirstListed : RootSerial(i) = RootSerial(j) => i = j
  <2> SUFFICES ASSUME NEW i \in FirstListed, NEW j \in FirstListed, RootSerial(i) = RootSerial(j) PROVE i = j
    OBVIOUS
  <2>1. i \in Nat /\ j \in Nat
    BY <1>1
  <2> QED BY <1>2, <2>1
<1>4. \A i, j \in FirstListed : Roots[i] = Roots[j] => i = j
  BY <1>1 DEF FirstListed
<1>5. \A e \in table : \E i \in FirstListed :
        /\ e = InitialEntry(i) /\ e.serial = RootSerial(i) /\ e.pid = Roots[i]
        /\ e.ended = ~alive[Roots[i]] /\ (~e.ended => e.start = 1)
  <2> SUFFICES ASSUME NEW e \in table
               PROVE  \E i \in FirstListed :
                        /\ e = InitialEntry(i) /\ e.serial = RootSerial(i) /\ e.pid = Roots[i]
                        /\ e.ended = ~alive[Roots[i]] /\ (~e.ended => e.start = 1)
    OBVIOUS
  <2>1. PICK i \in FirstListed : e = InitialEntry(i)
    BY DEF InitialTable
  <2>2. alive[Roots[i]] \in BOOLEAN
    BY <1>1
  <2>3. /\ InitialEntry(i).serial = RootSerial(i) /\ InitialEntry(i).pid = Roots[i]
        /\ InitialEntry(i).ended = ~alive[Roots[i]]
        /\ InitialEntry(i).start = IF alive[Roots[i]] THEN 1 ELSE 0
    BY DEF InitialEntry, NewEntry
  <2> QED BY <2>1, <2>2, <2>3
<1>6. OnePerPid(table)
  BY <1>4, <1>5 DEF OnePerPid
<1>7. SerialNeverReused
  BY <1>2, <1>3, <1>5 DEF SerialNeverReused, SerialsOf
<1>8. PidfdPinsEntry
  BY <1>5 DEF PidfdPinsEntry
<1>9. OneRowPerPid /\ DeferredHasBlocker
  BY <1>6 DEF OneRowPerPid, OnePerPid, DeferredHasBlocker
<1>10. AddPins /\ WaitingPins /\ DroppedWasAnnounced /\ CommitFollowsWrite /\ \A p \in Pids : gen[p] > 0
  BY DEF AddPins, NoAdd, WaitingPins, DroppedWasAnnounced, CommitFollowsWrite
<1> QED BY <1>7, <1>8, <1>9, <1>10 DEF IndInv

\* What each part of IndInv looks at.
LEMMA SafetyFrame ==
  /\ TableInv /\ UNCHANGED <<tableVars, dropped>> => TableInv'
  /\ OnePerPid(fsnap) /\ UNCHANGED fsnap => OnePerPid(fsnap)'
  /\ OnePerPid(frame.rows) /\ UNCHANGED frame => OnePerPid(frame.rows)'
  /\ DeferredHasBlocker /\ deferred' \subseteq deferred /\ PidsOf(table) \subseteq PidsOf(table')
       => DeferredHasBlocker'
  /\ AddPins /\ UNCHANGED <<gen, add>> => AddPins'
  /\ WaitingPins /\ UNCHANGED <<deferred, froots, calls>> => WaitingPins'
  /\ (\A p \in Pids : gen[p] > 0) /\ UNCHANGED gen => (\A p \in Pids : gen[p] > 0)'
  /\ DroppedWasAnnounced /\ UNCHANGED <<dropped, marked>> => DroppedWasAnnounced'
  /\ CommitFollowsWrite /\ UNCHANGED <<fpc, fsnap, marked>> => CommitFollowsWrite'
<1>1. TableInv /\ UNCHANGED <<tableVars, dropped>> => TableInv'
  BY DEF TableInv, OnePerPid, SerialNeverReused, PidfdPinsEntry, tableVars
<1>2. OnePerPid(fsnap) /\ UNCHANGED fsnap => OnePerPid(fsnap)'
  BY DEF OnePerPid
<1>3. OnePerPid(frame.rows) /\ UNCHANGED frame => OnePerPid(frame.rows)'
  BY DEF OnePerPid
<1>4. DeferredHasBlocker /\ deferred' \subseteq deferred /\ PidsOf(table) \subseteq PidsOf(table')
        => DeferredHasBlocker'
  BY DEF DeferredHasBlocker
<1>5. AddPins /\ UNCHANGED <<gen, add>> => AddPins'
  BY DEF AddPins
<1>6. WaitingPins /\ UNCHANGED <<deferred, froots, calls>> => WaitingPins'
  BY DEF WaitingPins
<1>7. CommitFollowsWrite /\ UNCHANGED <<fpc, fsnap, marked>> => CommitFollowsWrite'
  BY DEF CommitFollowsWrite
<1> QED BY <1>1, <1>2, <1>3, <1>4, <1>5, <1>6, <1>7 DEF DroppedWasAnnounced

\* Steps that touch none of it.
LEMMA Quiet ==
  ASSUME IndInv, UNCHANGED <<gen, tableVars, add, calls, froots, fsnap, frame, marked, dropped>>,
         fpc' = "written" => fpc = "written" \/ WriteMayFail
  PROVE  IndInv'
<1>1. TableInv
  BY DEF IndInv, TableInv, OneRowPerPid
<1>2. TableInv' /\ OnePerPid(fsnap)' /\ OnePerPid(frame.rows)'
  BY <1>1, SafetyFrame DEF IndInv, OneRowPerPid
<1>3. DeferredHasBlocker' /\ AddPins' /\ WaitingPins' /\ (\A p \in Pids : gen[p] > 0)'
  BY SafetyFrame DEF IndInv, tableVars
<1>4. (~WriteMayFail => DroppedWasAnnounced)' /\ CommitFollowsWrite'
  BY DEF IndInv, DroppedWasAnnounced, CommitFollowsWrite
<1> QED BY <1>2, <1>3, <1>4 DEF IndInv, TableInv, OneRowPerPid

\* AddLookup, for any thread: it marks, revives or defers, or starts a MakeRoot.
LEMMA AddLookupKeeps ==
  ASSUME TypeOK, IndInv, NEW c \in Adders, NEW p \in Pids, NEW ord \in Nat,
         AddLookup(c, p, ord), UNCHANGED <<gen, dropped>>
  PROVE  /\ TableInv' /\ PidsOf(table') = PidsOf(table) /\ AddPins'
         /\ \/ UNCHANGED deferred
            \/ /\ p \in PidsOf(table)
               /\ deferred' = deferred \union
                    {[ord |-> ord, pid |-> p, discovered |-> FALSE, fd |-> 0, start |-> 0]}
<1>0. TableInv /\ nextSerial' = nextSerial
  BY DEF IndInv, TableInv, OneRowPerPid, AddLookup
<1>1. CASE add' = [add EXCEPT ![c] = Adding("open", p, 0, 0, FALSE)]
           /\ UNCHANGED <<table, pidfds, deferred>>
  <2>1. AddPins'
    BY <1>1 DEF IndInv, AddPins, Adding, TypeOK, CallType
  <2> QED BY <1>0, <1>1, <2>1, SafetyFrame DEF tableVars
<1>2. ASSUME NEW e \in table, e.pid = p, MarkGoneLocked(e), Defer(ord, p, FALSE, 0, 0), UNCHANGED add
      PROVE  /\ TableInv' /\ PidsOf(table') = PidsOf(table) /\ AddPins'
             /\ p \in PidsOf(table)
             /\ deferred' = deferred \union
                  {[ord |-> ord, pid |-> p, discovered |-> FALSE, fd |-> 0, start |-> 0]}
  BY <1>0, <1>2, MarkGoneKeeps, SafetyFrame DEF Defer, IndInv, PidsOf
<1>3. ASSUME NEW e \in table, e.pid = p, UNCHANGED <<pidfds, deferred, add>>,
             table' = Replace(table, e, [e EXCEPT !.pending = FALSE, !.discovered = FALSE])
      PROVE  TableInv' /\ PidsOf(table') = PidsOf(table) /\ AddPins' /\ UNCHANGED deferred
  <2> DEFINE new == [e EXCEPT !.pending = FALSE, !.discovered = FALSE]
  <2>1. /\ new \in Entry /\ new.serial = e.serial /\ new.pid = e.pid /\ new.start = e.start
        /\ new.ended = e.ended
    BY EntryUpdates DEF TypeOK, TableType, Entry
  <2> HIDE DEF new
  <2>2. TableInv' /\ PidsOf(table') = PidsOf(table)
    BY <1>0, <1>3, <2>1, ReplaceKeeps DEF new
  <2> QED BY <1>3, <2>2, SafetyFrame DEF IndInv
<1> QED BY <1>1, <1>2, <1>3 DEF AddLookup

\* Steps that leave the flush's own state alone.
LEMMA TableOnly ==
  ASSUME IndInv, TableInv', DeferredHasBlocker', AddPins', WaitingPins', (\A p \in Pids : gen[p] > 0)',
         UNCHANGED <<fsnap, frame, marked, dropped, fpc>>
  PROVE  IndInv'
<1>1. OnePerPid(fsnap)' /\ OnePerPid(frame.rows)'
  BY SafetyFrame DEF IndInv, OneRowPerPid
<1>2. (~WriteMayFail => DroppedWasAnnounced)' /\ CommitFollowsWrite'
  BY SafetyFrame DEF IndInv
<1> QED BY <1>1, <1>2 DEF IndInv, TableInv, OneRowPerPid

\* A registration deferred by a new call, or by the flush that took it out.
LEMMA DeferKeepsWaiting ==
  ASSUME TypeOK, WaitingPins, DeferredHasBlocker, NEW d \in Deferred, d.pid \in PidsOf(table),
         deferred' = deferred \union {d}, PidsOf(table) \subseteq PidsOf(table'),
         d.discovered => d.fd \in {0, d.start} /\ (d.fd = 0 => PidfdMayFail),
         froots' \subseteq froots, calls' \in Nat, calls <= calls', d.ord <= calls',
         \A x \in deferred \union froots' : x.ord # d.ord
  PROVE  WaitingPins' /\ DeferredHasBlocker'
<1>1. deferred \subseteq Deferred /\ froots \subseteq Deferred /\ calls \in Nat
  BY DEF TypeOK, TableType, FlushType, CallType
<1>2. \A x \in deferred' \union froots' : x.ord <= calls'
  BY <1>1 DEF WaitingPins, Deferred
<1>3. \A d1, d2 \in deferred' \union froots' : d1.ord = d2.ord => d1 = d2
  BY DEF WaitingPins
<1>4. deferred' \intersect froots' = {}
  BY DEF WaitingPins
<1>5. \A x \in deferred' : x.discovered => x.fd \in {0, x.start} /\ (x.fd = 0 => PidfdMayFail)
  BY DEF WaitingPins
<1>6. \A x \in froots' : ~x.discovered
  BY DEF WaitingPins
<1>7. DeferredHasBlocker'
  BY DEF DeferredHasBlocker
<1> QED BY <1>2, <1>3, <1>4, <1>5, <1>6, <1>7 DEF WaitingPins

LEMMA FewerWaiting ==
  ASSUME TypeOK, WaitingPins, DeferredHasBlocker, deferred' \subseteq deferred, froots' \subseteq froots,
         PidsOf(table) \subseteq PidsOf(table'), calls' \in Nat, calls <= calls'
  PROVE  WaitingPins' /\ DeferredHasBlocker'
<1>1. \A x \in deferred' \union froots' : x.ord <= calls'
  BY DEF WaitingPins, TypeOK, TableType, FlushType, CallType, Deferred
<1> QED BY <1>1 DEF WaitingPins, DeferredHasBlocker

LEMMA SafetyStep == TypeOK /\ IndInv /\ [Next]_vars => IndInv'
<1> SUFFICES ASSUME TypeOK, IndInv, [Next]_vars PROVE IndInv'
  OBVIOUS
<1>0. /\ TableInv /\ OnePerPid(fsnap) /\ OnePerPid(frame.rows) /\ DeferredHasBlocker /\ AddPins
      /\ WaitingPins /\ \A p \in Pids : gen[p] > 0
  BY DEF IndInv, TableInv, OneRowPerPid
<1>a. calls \in Nat
  BY DEF TypeOK, CallType
<1>1. ASSUME NEW p \in Pids, Exit(p) PROVE IndInv'
  BY <1>1, Quiet DEF Exit, tableVars, kernelVars, callVars, sampleVars, batchVars, flushVars, traceVars, AfterFlush
<1>2. ASSUME NEW p \in Pids, Spawn(p) PROVE IndInv'
  <2>1. gen' \in [Pids -> Nat] /\ \A q \in Pids : gen[q] \in Nat /\ gen[q] <= gen'[q]
    BY <1>2 DEF Spawn, TypeOK, KernelType
  <2>2. (\A q \in Pids : gen[q] > 0)'
    BY <1>0, <2>1
  <2>3. AddPins'
    <3>1. add' = add
      BY <1>2 DEF Spawn, callVars
    <3>2. \A c \in Adders : AddRecord(add[c])
      BY DEF TypeOK, CallType
    <3> QED BY <1>0, <2>1, <3>1, <3>2 DEF AddPins, AddRecord
  <2>4. TableInv' /\ DeferredHasBlocker' /\ WaitingPins'
    BY <1>0, <1>2, SafetyFrame DEF Spawn, tableVars, kernelVars, callVars, sampleVars, batchVars, flushVars, traceVars, AfterFlush
  <2> QED BY <1>2, <2>2, <2>3, <2>4, TableOnly DEF Spawn, tableVars, kernelVars, callVars, sampleVars, batchVars, flushVars, traceVars, AfterFlush
<1>3. ASSUME NEW c \in Callers, NEW p \in Pids, AddTrackedProcess(c, p) PROVE IndInv'
  <2>0. c \in Adders /\ calls + 1 \in Nat /\ AddLookup(c, p, calls + 1) /\ calls' = calls + 1
        /\ froots' = froots /\ UNCHANGED <<gen, fsnap, frame, marked, dropped, fpc>>
    BY <1>3, <1>a DEF AddTrackedProcess, Adders, tableVars, kernelVars, callVars, sampleVars, batchVars, flushVars, traceVars, AfterFlush
  <2>1. /\ TableInv' /\ PidsOf(table') = PidsOf(table) /\ AddPins'
        /\ \/ UNCHANGED deferred
           \/ /\ p \in PidsOf(table)
              /\ deferred' = deferred \union
                   {[ord |-> calls + 1, pid |-> p, discovered |-> FALSE, fd |-> 0, start |-> 0]}
    BY <2>0, AddLookupKeeps
  <2>2. WaitingPins' /\ DeferredHasBlocker'
    <3>1. CASE UNCHANGED deferred
      BY <1>0, <1>a, <2>0, <2>1, <3>1, FewerWaiting
    <3>2. CASE /\ p \in PidsOf(table)
               /\ deferred' = deferred \union
                    {[ord |-> calls + 1, pid |-> p, discovered |-> FALSE, fd |-> 0, start |-> 0]}
      <4> DEFINE d == [ord |-> calls + 1, pid |-> p, discovered |-> FALSE, fd |-> 0, start |-> 0]
      <4>1. d \in Deferred /\ d.ord = calls + 1 /\ d.pid = p /\ ~d.discovered /\ deferred' = deferred \union {d}
        BY <1>a, <3>2 DEF Deferred
      <4>2. \A x \in deferred \union froots' : x.ord # calls + 1
        BY <1>0, <1>a, <2>0 DEF WaitingPins, TypeOK, TableType, FlushType, Deferred
      <4> HIDE DEF d
      <4> QED BY <1>0, <1>a, <2>0, <2>1, <3>2, <4>1, <4>2, DeferKeepsWaiting
    <3> QED BY <2>1, <3>1, <3>2
  <2> QED BY <1>0, <2>0, <2>1, <2>2, TableOnly
<1>4. ASSUME NEW c \in Adders, MakeRoot(c) PROVE IndInv'
  <2>0. UNCHANGED <<gen, alive, tableVars, calls, froots, fsnap, frame, marked, dropped, fpc>>
    BY <1>4 DEF MakeRoot, MakeRootOpen, MakeRootOpenFails, MakeRootStat, MakeRootCheck, MakeRootUnchanged, tableVars, kernelVars, callVars, sampleVars, batchVars, flushVars, traceVars, AfterFlush
  <2>1. TableInv' /\ DeferredHasBlocker' /\ WaitingPins' /\ (\A q \in Pids : gen[q] > 0)'
    BY <1>0, <2>0, SafetyFrame DEF tableVars
  <2>2. AddPins'
    <3>1. \A x \in Adders : AddRecord(add[x])
      BY DEF TypeOK, CallType
    <3>2. gen \in [Pids -> Nat] /\ DOMAIN add = Adders /\ alive \in [Pids -> BOOLEAN] /\ PidfdMayFail \in BOOLEAN
      BY FailureAssumption DEF TypeOK, KernelType, CallType
    <3> DEFINE Pins(r) ==
                 /\ r.pc \in {"stat", "check"} => ~r.ended
                 /\ r.pc = "stat"  => r.fd <= gen[r.pid]
                 /\ r.pc = "check" => r.fd <= r.start /\ r.start <= gen[r.pid]
                 /\ r.pc = "insert" /\ ~r.ended => r.fd \in {0, r.start}
                 /\ r.ended => r.fd = 0
                 /\ ~PidfdMayFail /\ r.pc \in {"stat", "check", "insert"} /\ ~r.ended => r.fd # 0
               a == add[c]
               b == add'[c]
    <3>3. AddRecord(a) /\ Pins(a) /\ gen[a.pid] = gen'[a.pid]
      BY <1>0, <2>0, <3>1 DEF AddPins
    <3>4. a.pc # "idle" /\ a.pid \in Pids /\ gen[a.pid] \in Nat /\ gen[a.pid] > 0 /\ alive[a.pid] \in BOOLEAN
      BY <1>0, <1>4, <3>2, <3>3 DEF AddRecord, MakeRoot, MakeRootOpen, MakeRootOpenFails, MakeRootStat, MakeRootCheck
    <3>5. b.pid = a.pid /\ Pins(b)
      <4>1. CASE MakeRootOpen(c)
        BY <3>2, <3>4, <4>1 DEF MakeRootOpen, Opened, Adding
      <4>2. CASE MakeRootOpenFails(c)
        BY <3>2, <3>4, <4>2 DEF MakeRootOpenFails, Adding
      <4>3. CASE MakeRootStat(c)
        <5>2. CASE alive[a.pid]
          <6>1. b = Adding("check", a.pid, a.fd, gen[a.pid], FALSE)
            BY <3>2, <4>3, <5>2 DEF MakeRootStat
          <6> QED BY <3>3, <3>4, <4>3, <6>1 DEF MakeRootStat, Adding, AddRecord
        <5>3. CASE ~alive[a.pid]
          <6>1. b = Adding("insert", a.pid, 0, 0, TRUE)
            BY <3>2, <4>3, <5>3 DEF MakeRootStat
          <6> QED BY <6>1 DEF Adding
        <5> QED BY <3>4, <5>2, <5>3
      <4>4. CASE MakeRootCheck(c)
        <5>1. b = CheckedRoot(a) /\ a.pc = "check"
          BY <3>2, <4>4 DEF MakeRootCheck
        <5>2. CASE a.fd # 0 /\ Exited(a.pid, a.fd)
          BY <5>1, <5>2 DEF CheckedRoot, Adding
        <5>3. CASE ~(a.fd # 0 /\ Exited(a.pid, a.fd))
          <6>1. b = Adding("insert", a.pid, a.fd, a.start, FALSE)
            BY <5>1, <5>3 DEF CheckedRoot
          <6>2. a.fd # 0 => a.fd = gen[a.pid]
            BY <5>3 DEF Exited
          <6> QED BY <3>3, <3>4, <5>1, <6>1, <6>2 DEF Adding, AddRecord
        <5> QED BY <5>2, <5>3
      <4> QED BY <1>4, <4>1, <4>2, <4>3, <4>4 DEF MakeRoot
    <3>6. \A x \in Adders : x # c => add'[x] = add[x]
      BY <1>4, <3>2 DEF MakeRoot, MakeRootOpen, MakeRootOpenFails, MakeRootStat, MakeRootCheck
    <3>7. \A x \in Adders : Pins(add[x])
      BY <1>0 DEF AddPins
    <3>8. \A x \in Adders : Pins(add'[x])
      BY <3>5, <3>6, <3>7
    <3> QED BY <2>0, <3>8 DEF AddPins
  <2> QED BY <2>0, <2>1, <2>2, TableOnly
<1>5. ASSUME NEW c \in Adders, AddInsert(c) PROVE IndInv'
  <2>0. UNCHANGED <<gen, deferred, calls, froots, fsnap, frame, marked, dropped, fpc>>
    BY <1>5 DEF AddInsert, tableVars, kernelVars, callVars, sampleVars, batchVars, flushVars, traceVars, AfterFlush
  <2>1. AddRecord(add[c]) /\ add[c].pid \in Pids /\ add[c].pc = "insert"
    BY <1>5 DEF AddInsert, TypeOK, CallType, AddRecord
  <2>2. AddPins'
    BY <1>0, <1>5, <2>0 DEF AddPins, AddInsert, NoAdd, TypeOK, CallType
  <2>3. TableInv' /\ PidsOf(table) \subseteq PidsOf(table')
    <3>1. CASE UNCHANGED <<table, pidfds, nextSerial>>
      BY <1>0, <2>0, <3>1, SafetyFrame DEF tableVars
    <3>2. CASE /\ ~TakenMeanwhile(add[c].pid)
               /\ InsertLocked(add[c].pid, add[c].start, add[c].fd, FALSE, add[c].ended)
      <4>1. /\ add[c].fd # 0 => ~add[c].ended /\ add[c].fd = add[c].start
            /\ add[c].fd = 0 /\ ~add[c].ended => PidfdMayFail
        BY <1>0, <2>1 DEF AddPins, AddRecord
      <4> QED BY <1>0, <2>0, <2>1, <3>2, <4>1, InsertKeeps DEF AddRecord, TakenMeanwhile
    <3> QED BY <1>5, <3>1, <3>2 DEF AddInsert
  <2>4. WaitingPins' /\ DeferredHasBlocker'
    BY <1>0, <1>a, <2>0, <2>3, FewerWaiting
  <2> QED BY <1>0, <2>0, <2>2, <2>3, <2>4, TableOnly
<1>6. ASSUME NEW c \in Callers, NEW p \in Pids, RemoveTrackedProcess(c, p) PROVE IndInv'
  <2>0. /\ UNCHANGED <<gen, add, calls, froots, pidfds, nextSerial, fsnap, frame, marked, dropped, fpc>>
        /\ deferred' \subseteq deferred
    BY <1>6 DEF RemoveTrackedProcess, tableVars, kernelVars, callVars, sampleVars, batchVars, flushVars, traceVars, AfterFlush
  <2>1. TableInv' /\ PidsOf(table') = PidsOf(table)
    <3>1. ASSUME NEW e \in table, table' = Replace(table, e, [e EXCEPT !.pending = TRUE])
          PROVE  TableInv' /\ PidsOf(table') = PidsOf(table)
      <4> DEFINE new == [e EXCEPT !.pending = TRUE]
      <4>1. new \in Entry /\ new.serial = e.serial /\ new.pid = e.pid /\ new.start = e.start /\ new.ended = e.ended
        BY EntryUpdates DEF TypeOK, TableType, Entry
      <4> HIDE DEF new
      <4> QED BY <1>0, <2>0, <3>1, <4>1, ReplaceKeeps DEF new
    <3>2. CASE UNCHANGED table
      BY <1>0, <2>0, <3>2 DEF TableInv, OnePerPid, SerialNeverReused, PidfdPinsEntry
    <3> QED BY <1>6, <3>1, <3>2 DEF RemoveTrackedProcess
  <2>2. WaitingPins' /\ DeferredHasBlocker' /\ AddPins'
    BY <1>0, <1>a, <2>0, <2>1, FewerWaiting, SafetyFrame
  <2> QED BY <1>0, <2>0, <2>1, <2>2, TableOnly
<1>7. ASSUME NEW p \in Pids, NEW g \in 1..gen[p], NEW fd \in 0..gen[p], AddDiscoveredProcess(p, g, fd) PROVE IndInv'
  <2>0. /\ UNCHANGED <<gen, add, froots, fsnap, frame, marked, dropped, fpc>> /\ calls' = calls + 1
        /\ g \in Nat /\ fd \in Nat /\ fd \in {0, g} /\ (fd = 0 => PidfdMayFail) /\ g > 0
    <3>1. gen[p] \in Nat
      BY DEF TypeOK, KernelType
    <3> QED BY <1>7, <3>1 DEF AddDiscoveredProcess, tableVars, kernelVars, callVars, sampleVars, batchVars, flushVars, traceVars, AfterFlush
  <2>1. CASE UNCHANGED <<table, pidfds, deferred, nextSerial>>
    BY <1>0, <1>a, <2>0, <2>1, SafetyFrame, FewerWaiting, TableOnly DEF tableVars
  <2>2. ASSUME NEW e \in table, e.pid = p, MarkGoneLocked(e), Defer(calls + 1, p, TRUE, fd, g), UNCHANGED nextSerial
        PROVE  IndInv'
    <3>1. TableInv' /\ PidsOf(table') = PidsOf(table)
      BY <1>0, <2>0, <2>2, MarkGoneKeeps
    <3> DEFINE d == [ord |-> calls + 1, pid |-> p, discovered |-> TRUE, fd |-> fd, start |-> g]
    <3>2. /\ d \in Deferred /\ d.ord = calls + 1 /\ d.pid = p /\ d.fd = fd /\ d.start = g
          /\ deferred' = deferred \union {d}
      BY <1>a, <2>0, <2>2 DEF Deferred, Defer
    <3>3. \A x \in deferred \union froots' : x.ord # calls + 1
      BY <1>0, <1>a, <2>0 DEF WaitingPins, TypeOK, TableType, FlushType, Deferred
    <3>4. p \in PidsOf(table)
      BY <2>2 DEF PidsOf
    <3> HIDE DEF d
    <3>5. WaitingPins' /\ DeferredHasBlocker'
      BY <1>0, <1>a, <2>0, <3>1, <3>2, <3>3, <3>4, DeferKeepsWaiting
    <3> QED BY <1>0, <2>0, <3>1, <3>5, SafetyFrame, TableOnly
  <2>3. CASE p \notin PidsOf(table) /\ InsertLocked(p, g, fd, TRUE, FALSE) /\ UNCHANGED deferred
    <3>1. TableInv' /\ PidsOf(table) \subseteq PidsOf(table')
      BY <1>0, <2>0, <2>3, InsertKeeps
    <3> QED BY <1>0, <1>a, <2>0, <2>3, <3>1, SafetyFrame, FewerWaiting, TableOnly
  <2> QED BY <1>7, <2>1, <2>2, <2>3 DEF AddDiscoveredProcess
<1>8. ASSUME NEW e \in todo, SampleRead(e) PROVE IndInv'
  BY <1>8, Quiet DEF SampleRead, tableVars, kernelVars, callVars, sampleVars, batchVars, flushVars, traceVars, AfterFlush
<1>9. CASE PollApply
  <2>0. /\ UNCHANGED <<gen, add, calls, froots, deferred, nextSerial, fsnap, frame, marked, dropped, fpc>>
    BY <1>9 DEF PollApply, tableVars, kernelVars, callVars, sampleVars, batchVars, flushVars, traceVars, AfterFlush
  <2> DEFINE dead == {e \in Polled : ~e.ended /\ e.serial \in exited}
             U == [e \in table |-> IF e \in dead THEN MarkGone(e) ELSE e]
  <2>1. dead \subseteq table /\ table' = (table \ dead) \union {MarkGone(e) : e \in dead}
        /\ pidfds' = WithoutFds(pidfds, SerialsOf(dead)) /\ \A e \in dead : ~e.ended
    BY <1>9 DEF PollApply, Polled
  <2> HIDE DEF dead
  <2>2. \A e \in table : /\ e \in Entry /\ MarkGone(e) \in Entry /\ MarkGone(e).serial = e.serial
                         /\ MarkGone(e).pid = e.pid /\ MarkGone(e).start = e.start /\ MarkGone(e).ended
    BY EntryUpdates DEF TypeOK, TableType, MarkGone, Entry
  <2>3. U \in [table -> Entry] /\ table' = {U[e] : e \in table}
    BY <2>1, <2>2
  <2>4. {e.serial : e \in {x \in table : U[x].ended /\ ~x.ended}} = SerialsOf(dead)
    BY <2>1, <2>2 DEF SerialsOf
  <2>5. \A e \in table : /\ U[e].serial = e.serial /\ U[e].pid = e.pid /\ U[e].start = e.start
                         /\ e.ended => U[e].ended
    BY <2>2
  <2> HIDE DEF U
  <2>6. TableInv' /\ PidsOf(table') = PidsOf(table)
    BY <1>0, <2>0, <2>1, <2>3, <2>4, <2>5, InPlace DEF WithoutFds
  <2> QED BY <1>0, <1>a, <2>0, <2>6, SafetyFrame, FewerWaiting, TableOnly
<1>10. ASSUME NEW r \in readings, SeedBaseline(r) PROVE IndInv'
  <2>0. /\ UNCHANGED <<gen, add, calls, froots, deferred, nextSerial, pidfds, fsnap, frame, marked, dropped, fpc>>
    BY <1>10 DEF SeedBaseline, tableVars, kernelVars, callVars, sampleVars, batchVars, flushVars, traceVars, AfterFlush
  <2> DEFINE U == [e \in table |-> IF e.pid = r.pid /\ ~e.ended THEN [e EXCEPT !.head = r.proc] ELSE e]
  <2>1. table' = {U[e] : e \in table}
    BY <1>10 DEF SeedBaseline
  <2>2. \A e \in table : /\ U[e] \in Entry /\ U[e].serial = e.serial /\ U[e].pid = e.pid
                         /\ U[e].start = e.start /\ U[e].ended = e.ended
    BY EntryUpdates DEF TypeOK, TableType, SampleType, Reading, Entry
  <2>3. U \in [table -> Entry]
    BY <2>2
  <2> HIDE DEF U
  <2>4. {e.serial : e \in {x \in table : U[x].ended /\ ~x.ended}} = {}
    BY <2>2
  <2>5. pidfds' = [s \in DOMAIN pidfds \ {e.serial : e \in {x \in table : U[x].ended /\ ~x.ended}} |-> pidfds[s]]
    BY <2>0, <2>4 DEF TypeOK, TableType, PidfdMap
  <2>6. TableInv' /\ PidsOf(table') = PidsOf(table)
    BY <1>0, <2>0, <2>1, <2>2, <2>3, <2>5, InPlace
  <2> QED BY <1>0, <1>a, <2>0, <2>6, SafetyFrame, FewerWaiting, TableOnly
<1>11. ASSUME NEW r \in readings, PushSample(r) \/ SkipSample(r) PROVE IndInv'
  BY <1>11, Quiet DEF PushSample, SkipSample, tableVars, kernelVars, callVars, sampleVars, batchVars, flushVars, traceVars, AfterFlush
<1>12. CASE FlushSnapshot
  <2>0. UNCHANGED <<gen, add, calls, froots, tableVars, frame, marked, dropped>> /\ fsnap' = table /\ fpc' = "snapped"
    BY <1>12 DEF FlushSnapshot, tableVars, kernelVars, callVars, sampleVars, batchVars, flushVars, traceVars, AfterFlush
  <2>1. TableInv' /\ OnePerPid(fsnap)' /\ OnePerPid(frame.rows)'
    BY <1>0, <2>0, SafetyFrame DEF TableInv, OnePerPid
  <2>2. /\ DeferredHasBlocker' /\ AddPins' /\ WaitingPins' /\ (\A p \in Pids : gen[p] > 0)'
    BY <1>0, <2>0, SafetyFrame DEF tableVars
  <2>3. (~WriteMayFail => DroppedWasAnnounced)' /\ CommitFollowsWrite'
    BY <2>0, SafetyFrame DEF IndInv, CommitFollowsWrite
  <2> QED BY <2>1, <2>2, <2>3 DEF IndInv, TableInv, OneRowPerPid
<1>13. CASE FlushSkip
  <2>0. UNCHANGED <<gen, add, calls, froots, tableVars, frame, marked, dropped>> /\ fsnap' = {} /\ fpc' # "written"
    BY <1>13 DEF FlushSkip, tableVars, kernelVars, callVars, sampleVars, batchVars, flushVars, traceVars, AfterFlush
  <2>1. TableInv' /\ OnePerPid(fsnap)' /\ OnePerPid(frame.rows)'
    BY <1>0, <2>0, SafetyFrame DEF OnePerPid
  <2>2. /\ DeferredHasBlocker' /\ AddPins' /\ WaitingPins' /\ (\A p \in Pids : gen[p] > 0)'
    BY <1>0, <2>0, SafetyFrame DEF tableVars
  <2>3. (~WriteMayFail => DroppedWasAnnounced)' /\ CommitFollowsWrite'
    BY <2>0, SafetyFrame DEF IndInv, CommitFollowsWrite
  <2> QED BY <2>1, <2>2, <2>3 DEF IndInv, TableInv, OneRowPerPid
<1>14. CASE FlushWrite
  <2>0. /\ UNCHANGED <<gen, add, calls, froots, tableVars, fsnap, dropped>>
        /\ marked' = marked \union Announced(fsnap) /\ frame' = [rows |-> fsnap, samples |-> drained]
    BY <1>14 DEF FlushWrite, tableVars, kernelVars, callVars, sampleVars, batchVars, flushVars, traceVars, AfterFlush
  <2>1. TableInv' /\ OnePerPid(fsnap)' /\ OnePerPid(frame.rows)'
    BY <1>0, <2>0, SafetyFrame DEF OnePerPid
  <2>2. /\ DeferredHasBlocker' /\ AddPins' /\ WaitingPins' /\ (\A p \in Pids : gen[p] > 0)'
    BY <1>0, <2>0, SafetyFrame DEF tableVars
  <2>3. (~WriteMayFail => DroppedWasAnnounced)'
    BY <2>0 DEF IndInv, DroppedWasAnnounced
  <2>4. CommitFollowsWrite'
    BY <2>0 DEF CommitFollowsWrite, Announced
  <2> QED BY <2>1, <2>2, <2>3, <2>4 DEF IndInv, TableInv, OneRowPerPid
<1>15. CASE FlushCommit
  <2>0. UNCHANGED <<gen, add, calls, frame, marked>> /\ fsnap' = {} /\ fpc' # "written" /\ fpc = "written"
    BY <1>15 DEF FlushCommit, tableVars, kernelVars, callVars, sampleVars, batchVars, flushVars, traceVars, AfterFlush
  <2>1. PICK out, kept, first, new, newFd :
          CommitLocals(out, kept, first, new, newFd) /\ CommitEffect(out, kept, first, new, newFd)
    BY <1>15, CommitIs
  <2>2. TableInv' /\ DeferredHasBlocker'
    BY <1>0, <2>1, CommitKeeps DEF DeferredHasBlocker
  <2>3. OnePerPid(fsnap)' /\ OnePerPid(frame.rows)' /\ AddPins' /\ (\A p \in Pids : gen[p] > 0)'
    BY <1>0, <2>0, SafetyFrame DEF OnePerPid
  <2>4. WaitingPins'
    <3>1. first \subseteq deferred /\ deferred' = deferred \ first /\ froots' = {d \in first : ~d.discovered}
      BY <2>1 DEF CommitLocals, CommitEffect, FirstInLine, Freed
    <3> QED BY <1>0, <2>0, <3>1 DEF WaitingPins
  <2>5. (~WriteMayFail => DroppedWasAnnounced)'
    <3>1. dropped' = dropped \union SerialsOf(out) /\ \A e \in out : e.serial \in Announced(fsnap)
      BY <2>1 DEF CommitLocals, CommitEffect, Drops
    <3>2. ~WriteMayFail => DroppedWasAnnounced /\ Announced(fsnap) \subseteq marked
      BY <2>0 DEF IndInv, CommitFollowsWrite
    <3> QED BY <2>0, <3>1, <3>2 DEF DroppedWasAnnounced, SerialsOf
  <2>6. CommitFollowsWrite'
    BY <2>0 DEF CommitFollowsWrite
  <2> QED BY <2>2, <2>3, <2>4, <2>5, <2>6 DEF IndInv, TableInv, OneRowPerPid
<1>16. CASE FlushAddRoot
  <2>1. PICK d \in froots : AddLookup(FlushThread, d.pid, d.ord) /\ froots' = froots \ {d}
    BY <1>16 DEF FlushAddRoot
  <2>2. /\ UNCHANGED <<gen, calls, fsnap, frame, marked, dropped, fpc>> /\ FlushThread \in Adders
        /\ d.pid \in Pids /\ d.ord \in Nat
    BY <1>16 DEF FlushAddRoot, Adders, TypeOK, FlushType, Deferred, tableVars, kernelVars, callVars, sampleVars, batchVars, flushVars, traceVars, AfterFlush
  <2>3. /\ TableInv' /\ PidsOf(table') = PidsOf(table) /\ AddPins'
        /\ \/ UNCHANGED deferred
           \/ /\ d.pid \in PidsOf(table)
              /\ deferred' = deferred \union
                   {[ord |-> d.ord, pid |-> d.pid, discovered |-> FALSE, fd |-> 0, start |-> 0]}
    BY <2>1, <2>2, AddLookupKeeps
  <2>4. WaitingPins' /\ DeferredHasBlocker'
    <3>1. CASE UNCHANGED deferred
      BY <1>0, <1>a, <2>1, <2>2, <2>3, <3>1, FewerWaiting
    <3>2. CASE /\ d.pid \in PidsOf(table)
               /\ deferred' = deferred \union
                    {[ord |-> d.ord, pid |-> d.pid, discovered |-> FALSE, fd |-> 0, start |-> 0]}
      <4> DEFINE again == [ord |-> d.ord, pid |-> d.pid, discovered |-> FALSE, fd |-> 0, start |-> 0]
      <4>1. /\ again \in Deferred /\ again.ord = d.ord /\ again.pid = d.pid /\ ~again.discovered
            /\ deferred' = deferred \union {again}
        BY <2>2, <3>2 DEF Deferred
      <4>2. \A x \in deferred \union froots' : x.ord # d.ord
        BY <1>0, <2>1 DEF WaitingPins
      <4>3. d.ord <= calls
        BY <1>0 DEF WaitingPins
      <4> HIDE DEF again
      <4> QED BY <1>0, <1>a, <2>1, <2>2, <2>3, <3>2, <4>1, <4>2, <4>3, DeferKeepsWaiting
    <3> QED BY <2>3, <3>1, <3>2
  <2> QED BY <1>0, <2>2, <2>3, <2>4, TableOnly
<1>17. CASE SampleSnapshot
  BY <1>17, Quiet DEF SampleSnapshot, tableVars, kernelVars, callVars, sampleVars, batchVars, flushVars, traceVars, AfterFlush
<1>18. CASE PollCollect
  BY <1>18, Quiet DEF PollCollect, tableVars, kernelVars, callVars, sampleVars, batchVars, flushVars, traceVars, AfterFlush
<1>19. CASE PollFds
  BY <1>19, Quiet DEF PollFds, tableVars, kernelVars, callVars, sampleVars, batchVars, flushVars, traceVars, AfterFlush
<1>20. CASE SampleEnd
  BY <1>20, Quiet DEF SampleEnd, tableVars, kernelVars, callVars, sampleVars, batchVars, flushVars, traceVars, AfterFlush
<1>21. CASE SampleExit
  BY <1>21, Quiet DEF SampleExit, tableVars, kernelVars, callVars, sampleVars, batchVars, flushVars, traceVars, AfterFlush
<1>22. CASE FlushDrain
  BY <1>22, Quiet DEF FlushDrain, tableVars, kernelVars, callVars, sampleVars, batchVars, flushVars, traceVars, AfterFlush
<1>23. CASE FlushEnd
  BY <1>23, Quiet DEF FlushEnd, tableVars, kernelVars, callVars, sampleVars, batchVars, flushVars, traceVars, AfterFlush
<1>24. CASE FlushExit
  BY <1>24, Quiet DEF FlushExit, tableVars, kernelVars, callVars, sampleVars, batchVars, flushVars, traceVars, AfterFlush
<1>25. CASE StopSignalled
  BY <1>25, Quiet DEF StopSignalled, tableVars, kernelVars, callVars, sampleVars, batchVars, flushVars, traceVars, AfterFlush
<1>26. CASE StopJoined
  BY <1>26, Quiet DEF StopJoined, tableVars, kernelVars, callVars, sampleVars, batchVars, flushVars, traceVars, AfterFlush
<1>27. CASE FlushWriteLost
  BY <1>27, Quiet DEF FlushWriteLost, tableVars, kernelVars, callVars, sampleVars, batchVars, flushVars, traceVars, AfterFlush
<1>28. CASE UNCHANGED vars
  BY <1>28, Quiet DEF vars, tableVars, kernelVars, callVars, sampleVars, batchVars, flushVars, traceVars, AfterFlush
<1> QED
  BY <1>1, <1>2, <1>3, <1>4, <1>5, <1>6, <1>7, <1>8, <1>9, <1>10, <1>11, <1>12, <1>13, <1>14, <1>15, <1>16, <1>17, <1>18, <1>19, <1>20, <1>21, <1>22, <1>23, <1>24, <1>25, <1>26, <1>27, <1>28 DEF Next, Sampling, Flushing, Keep

LEMMA SafetyCorrect == Spec => []IndInv
<1>1. Init => TypeOK /\ IndInv
  BY TypeInit, SafetyInit
<1>2. TypeOK /\ IndInv /\ [Next]_vars => TypeOK' /\ IndInv'
  BY TypeStep, SafetyStep
<1> QED BY <1>1, <1>2, PTL DEF Spec

---------------------------------------------------------------------------
(* The results.                                                            *)

\* No flush carries a PID number twice, however the registrations race.
THEOREM OneRowPerPidCorrect == Spec => []OneRowPerPid
<1>1. IndInv => OneRowPerPid
  BY DEF IndInv
<1> QED BY <1>1, SafetyCorrect, PTL

\* No serial is given to two registrations, dropped ones included.
THEOREM SerialNeverReusedCorrect == Spec => []SerialNeverReused
<1>1. IndInv => SerialNeverReused
  BY DEF IndInv
<1> QED BY <1>1, SafetyCorrect, PTL

\* Every open descriptor belongs to a running entry and pins the process whose
\* start time the entry records, however PID numbers are handed on.
THEOREM PidfdPinsEntryCorrect == Spec => []PidfdPinsEntry
<1>1. IndInv => PidfdPinsEntry
  BY DEF IndInv
<1> QED BY <1>1, SafetyCorrect, PTL

\* No deferred registration is stranded.
THEOREM DeferredHasBlockerCorrect == Spec => []DeferredHasBlocker
<1>1. IndInv => DeferredHasBlocker
  BY DEF IndInv
<1> QED BY <1>1, SafetyCorrect, PTL

\* As long as frames reach the file, no entry leaves the table before its
\* removed=true row is in it.
THEOREM DroppedWasAnnouncedCorrect == Spec => [](~WriteMayFail => DroppedWasAnnounced)
<1>1. IndInv => (~WriteMayFail => DroppedWasAnnounced)
  BY DEF IndInv
<1> QED BY <1>1, SafetyCorrect, PTL
=============================================================================
