------------------------- MODULE EventTrackerProofs -------------------------
(***************************************************************************)
(* Proofs about EventTracker, for any threads and any number of calls:     *)
(* every item is at one place from the call that made it to the file,      *)
(* every cudaEvent has one owner until it is destroyed, and the tracker    *)
(* with its flush thread and Stop() is a TraceLog.                         *)
(***************************************************************************)
EXTENDS EventTracker, SequenceTheorems, FiniteSetTheorems, TLAPS

---------------------------------------------------------------------------
(* Sequences of entries, and of items.                                     *)

\* No two entries share an item or an event.
Once(s) == \A i, j \in DOMAIN s : i # j => s[i].item # s[j].item /\ s[i].evs \cap s[j].evs = {}

LEMMA NoEntries == <<>> \in Seq(Entry) /\ ItemsOf(<<>>) = {} /\ EventsOf(<<>>) = {} /\ Once(<<>>)
<1>1. DOMAIN <<>> = {} /\ <<>> \in Seq(Entry)
  OBVIOUS
<1>. QED  BY <1>1 DEF ItemsOf, EventsOf, Once

LEMMA EntryAppended ==
  ASSUME NEW s \in Seq(Entry), NEW e \in Entry
  PROVE  /\ Append(s, e) \in Seq(Entry)
         /\ ItemsOf(Append(s, e)) = ItemsOf(s) \cup {e.item}
         /\ EventsOf(Append(s, e)) = EventsOf(s) \cup e.evs
         /\ Once(s) /\ e.item \notin ItemsOf(s) /\ e.evs \cap EventsOf(s) = {} => Once(Append(s, e))
<1> DEFINE t == Append(s, e)
<1>1. /\ t \in Seq(Entry) /\ Len(t) = Len(s) + 1 /\ Len(s) \in Nat
      /\ t[Len(s) + 1] = e /\ \A i \in 1..Len(s) : t[i] = s[i]
  BY AppendProperties, LenProperties
<1>2. DOMAIN t = 1..Len(s) + 1 /\ DOMAIN s = 1..Len(s)
  BY <1>1, LenProperties
<1> HIDE DEF t
<1>3. \A i \in DOMAIN t : (i \in DOMAIN s /\ t[i] = s[i]) \/ (i = Len(s) + 1 /\ t[i] = e)
  BY <1>1, <1>2
<1>4. \A i \in DOMAIN s : i \in DOMAIN t /\ t[i] = s[i] /\ i # Len(s) + 1
  BY <1>1, <1>2
<1>5. Len(s) + 1 \in DOMAIN t /\ t[Len(s) + 1] = e
  BY <1>1, <1>2
<1>6. ItemsOf(t) = ItemsOf(s) \cup {e.item}
  BY <1>3, <1>4, <1>5 DEF ItemsOf
<1>7. EventsOf(t) = EventsOf(s) \cup e.evs
  BY <1>3, <1>4, <1>5 DEF EventsOf
<1>8. ASSUME Once(s), e.item \notin ItemsOf(s), e.evs \cap EventsOf(s) = {}
      PROVE  Once(t)
  <2>1. \A i \in DOMAIN s : s[i].item # e.item /\ s[i].evs \cap e.evs = {}
    BY <1>8 DEF ItemsOf, EventsOf
  <2>. QED  BY <1>3, <1>8, <2>1 DEF Once
<1>. QED  BY <1>1, <1>6, <1>7, <1>8 DEF t

LEMMA EntryTaken ==
  ASSUME NEW s \in Seq(Entry), s # <<>>
  PROVE  /\ Head(s) \in Entry /\ Tail(s) \in Seq(Entry)
         /\ ItemsOf(s) = {Head(s).item} \cup ItemsOf(Tail(s))
         /\ EventsOf(s) = Head(s).evs \cup EventsOf(Tail(s))
         /\ Once(s) => /\ Once(Tail(s)) /\ Head(s).item \notin ItemsOf(Tail(s))
                       /\ Head(s).evs \cap EventsOf(Tail(s)) = {}
<1> DEFINE t == Tail(s)
<1>1. /\ Head(s) = s[1] /\ Head(s) \in Entry /\ t \in Seq(Entry) /\ Len(s) \in Nat /\ Len(s) # 0
      /\ Len(t) = Len(s) - 1 /\ \A i \in 1..Len(t) : t[i] = s[i + 1]
  BY HeadTailProperties, LenProperties, EmptySeq
<1>2. DOMAIN t = 1..Len(s) - 1 /\ DOMAIN s = 1..Len(s)
  BY <1>1, LenProperties
<1> HIDE DEF t
<1>3. 1 \in DOMAIN s /\ \A i \in DOMAIN t : i + 1 \in DOMAIN s /\ i + 1 # 1 /\ t[i] = s[i + 1]
  BY <1>1, <1>2
<1>4. \A i \in DOMAIN s : i = 1 \/ (i - 1 \in DOMAIN t /\ t[i - 1] = s[i])
  BY <1>1, <1>2
<1>5. \A i \in DOMAIN s : s[i] = Head(s) \/ \E j \in DOMAIN t : s[i] = t[j]
  BY <1>1, <1>4
<1>6. (\E i \in DOMAIN s : s[i] = Head(s)) /\ \A j \in DOMAIN t : \E i \in DOMAIN s : s[i] = t[j]
  BY <1>1, <1>3
<1> DEFINE h == Head(s)
<1> HIDE DEF h
<1>7. ItemsOf(s) = {h.item} \cup ItemsOf(t)
  BY <1>5, <1>6 DEF ItemsOf, h
<1>8. EventsOf(s) = h.evs \cup EventsOf(t)
  BY <1>5, <1>6 DEF EventsOf, h
<1>9. ASSUME Once(s)
      PROVE  Once(t) /\ Head(s).item \notin ItemsOf(t) /\ Head(s).evs \cap EventsOf(t) = {}
  <2>1. \A i, j \in DOMAIN t : i # j => i + 1 # j + 1
    BY <1>2
  <2>2. Once(t)
    BY <1>3, <1>9, <2>1 DEF Once
  <2>3. \A i \in DOMAIN t : t[i].item # s[1].item /\ t[i].evs \cap s[1].evs = {}
    BY <1>3, <1>9 DEF Once
  <2>. QED  BY <1>1, <2>2, <2>3 DEF ItemsOf, EventsOf
<1>. QED  BY <1>1, <1>7, <1>8, <1>9 DEF t, h

LEMMA EntriesJoined ==
  ASSUME NEW s \in Seq(Entry), NEW t \in Seq(Entry)
  PROVE  /\ s \o t \in Seq(Entry)
         /\ ItemsOf(s \o t) = ItemsOf(s) \cup ItemsOf(t)
         /\ EventsOf(s \o t) = EventsOf(s) \cup EventsOf(t)
         /\ /\ Once(s) /\ Once(t) /\ ItemsOf(s) \cap ItemsOf(t) = {} /\ EventsOf(s) \cap EventsOf(t) = {}
            => Once(s \o t)
<1> DEFINE u == s \o t
<1>1. /\ u \in Seq(Entry) /\ Len(u) = Len(s) + Len(t) /\ Len(s) \in Nat /\ Len(t) \in Nat
      /\ \A i \in 1..Len(s) + Len(t) : u[i] = IF i <= Len(s) THEN s[i] ELSE t[i - Len(s)]
  BY ConcatProperties, LenProperties
<1>2. DOMAIN u = 1..Len(s) + Len(t) /\ DOMAIN s = 1..Len(s) /\ DOMAIN t = 1..Len(t)
  BY <1>1, LenProperties
<1> HIDE DEF u
<1>3. \A i \in DOMAIN u : (i \in DOMAIN s /\ u[i] = s[i]) \/ (i - Len(s) \in DOMAIN t /\ u[i] = t[i - Len(s)])
  BY <1>1, <1>2
<1>4. \A i \in DOMAIN s : i \in DOMAIN u /\ u[i] = s[i]
  BY <1>1, <1>2
<1>5. \A i \in DOMAIN t : i + Len(s) \in DOMAIN u /\ u[i + Len(s)] = t[i]
  BY <1>1, <1>2
<1>6. ItemsOf(u) = ItemsOf(s) \cup ItemsOf(t)
  BY <1>3, <1>4, <1>5 DEF ItemsOf
<1>7. EventsOf(u) = EventsOf(s) \cup EventsOf(t)
  BY <1>3, <1>4, <1>5 DEF EventsOf
<1>8. ASSUME Once(s), Once(t), ItemsOf(s) \cap ItemsOf(t) = {}, EventsOf(s) \cap EventsOf(t) = {}
      PROVE  Once(u)
  <2>1. \A i \in DOMAIN s, j \in DOMAIN t : s[i].item # t[j].item /\ s[i].evs \cap t[j].evs = {}
    BY <1>8 DEF ItemsOf, EventsOf
  <2>2. \A i, j \in DOMAIN u : i # j => i - Len(s) # j - Len(s)
    BY <1>1, <1>2
  <2>. QED  BY <1>3, <1>8, <2>1, <2>2 DEF Once
<1>. QED  BY <1>1, <1>6, <1>7, <1>8 DEF u

LEMMA NoNumbers == \A S : <<>> \in Seq(S) /\ ToSet(<<>>) = {} /\ IsInjective(<<>>) /\ Len(<<>>) = 0
<1>1. DOMAIN <<>> = {} /\ Len(<<>>) = 0 /\ \A S : <<>> \in Seq(S)
  OBVIOUS
<1>. QED  BY <1>1 DEF ToSet, IsInjective

LEMMA NumberAppended ==
  ASSUME NEW S, NEW s \in Seq(S), NEW n \in S
  PROVE  /\ Append(s, n) \in Seq(S)
         /\ ToSet(Append(s, n)) = ToSet(s) \cup {n}
         /\ IsInjective(s) /\ n \notin ToSet(s) => IsInjective(Append(s, n))
<1> DEFINE t == Append(s, n)
<1>1. /\ t \in Seq(S) /\ Len(t) = Len(s) + 1 /\ Len(s) \in Nat
      /\ t[Len(s) + 1] = n /\ \A i \in 1..Len(s) : t[i] = s[i]
  BY AppendProperties, LenProperties
<1>2. DOMAIN t = 1..Len(s) + 1 /\ DOMAIN s = 1..Len(s)
  BY <1>1, LenProperties
<1> HIDE DEF t
<1>3. \A i \in DOMAIN t : (i \in DOMAIN s /\ t[i] = s[i]) \/ (i = Len(s) + 1 /\ t[i] = n)
  BY <1>1, <1>2
<1>4. \A i \in DOMAIN s : i \in DOMAIN t /\ t[i] = s[i]
  BY <1>1, <1>2
<1>5. Len(s) + 1 \in DOMAIN t
  BY <1>1, <1>2
<1>6. ToSet(t) = ToSet(s) \cup {n}
  BY <1>1, <1>3, <1>4, <1>5 DEF ToSet
<1>7. IsInjective(s) /\ n \notin ToSet(s) => IsInjective(t)
  BY <1>3 DEF IsInjective, ToSet
<1>. QED  BY <1>1, <1>6, <1>7 DEF t

LEMMA NumbersJoined ==
  ASSUME NEW S, NEW s \in Seq(S), NEW t \in Seq(S)
  PROVE  /\ s \o t \in Seq(S) /\ Len(s \o t) = Len(s) + Len(t)
         /\ ToSet(s \o t) = ToSet(s) \cup ToSet(t)
         /\ IsInjective(s) /\ IsInjective(t) /\ ToSet(s) \cap ToSet(t) = {} => IsInjective(s \o t)
<1> DEFINE u == s \o t
<1>1. /\ u \in Seq(S) /\ Len(u) = Len(s) + Len(t) /\ Len(s) \in Nat /\ Len(t) \in Nat
      /\ \A i \in 1..Len(s) + Len(t) : u[i] = IF i <= Len(s) THEN s[i] ELSE t[i - Len(s)]
  BY ConcatProperties, LenProperties
<1>2. DOMAIN u = 1..Len(s) + Len(t) /\ DOMAIN s = 1..Len(s) /\ DOMAIN t = 1..Len(t)
  BY <1>1, LenProperties
<1> HIDE DEF u
<1>3. \A i \in DOMAIN u : (i \in DOMAIN s /\ u[i] = s[i]) \/ (i - Len(s) \in DOMAIN t /\ u[i] = t[i - Len(s)])
  BY <1>1, <1>2
<1>4. \A i \in DOMAIN s : i \in DOMAIN u /\ u[i] = s[i]
  BY <1>1, <1>2
<1>5. \A i \in DOMAIN t : i + Len(s) \in DOMAIN u /\ u[i + Len(s)] = t[i]
  BY <1>1, <1>2
<1>6. ToSet(u) = ToSet(s) \cup ToSet(t)
  BY <1>3, <1>4, <1>5 DEF ToSet
<1>7. ASSUME IsInjective(s), IsInjective(t), ToSet(s) \cap ToSet(t) = {}
      PROVE  IsInjective(u)
  <2>1. \A i \in DOMAIN s, j \in DOMAIN t : s[i] # t[j]
    BY <1>7 DEF ToSet
  <2>2. \A i, j \in DOMAIN u : i # j => i - Len(s) # j - Len(s)
    BY <1>1, <1>2
  <2>. QED  BY <1>3, <1>7, <2>1, <2>2 DEF IsInjective
<1>. QED  BY <1>1, <1>6, <1>7 DEF u

LEMMA NumbersKept ==
  ASSUME NEW m \in Nat, NEW n \in Nat, m <= n, NEW s \in Seq(1..m)
  PROVE  s \in Seq(1..n)
<1>1. 1..m \subseteq 1..n
  OBVIOUS
<1>2. Len(s) \in Nat /\ s \in [1..Len(s) -> 1..m]
  BY LenProperties
<1>3. s \in [1..Len(s) -> 1..n]
  BY <1>1, <1>2
<1>. QED  BY <1>2, <1>3, SeqDef

\* As many numbers as the sequence is long.
LEMMA CountNumbers ==
  ASSUME NEW S, NEW s \in Seq(S), IsInjective(s)
  PROVE  Cardinality(ToSet(s)) = Len(s) /\ IsFiniteSet(ToSet(s))
<1>1. Len(s) \in Nat /\ DOMAIN s = 1..Len(s) /\ s \in [1..Len(s) -> S]
  BY LenProperties
<1>2. s \in Bijection(1..Len(s), ToSet(s))
  BY <1>1 DEF Bijection, Injection, Surjection, IsInjective, ToSet
<1>3. ExistsBijection(1..Len(s), ToSet(s))
  BY <1>2 DEF ExistsBijection
<1>. QED  BY <1>1, <1>3, FS_CountingElements, FS_NatBijection

---------------------------------------------------------------------------
(* Types.                                                                  *)

ListType == [Kinds -> Seq(Entry)]
Calls    == [op : {"idle", "begin", "end", "mark"}, id : Nat, ev : Nat]

StreamOK ==
  /\ domain \in Domains /\ failed \in BOOLEAN
  /\ recorded \in Nat /\ completed \in 0..recorded /\ live \subseteq 1..recorded
RegionsOK ==
  /\ DOMAIN pendingRegions \subseteq 0..(nextRegionId - 1)
  /\ \A i \in DOMAIN pendingRegions : pendingRegions[i] \in 0..recorded
  /\ nextRegionId \in Nat
CallsOK == calls \in 0..MaxCalls /\ call \in [Clients -> Calls]
ListsOK == waiting \in ListType /\ local \in ListType /\ left \in ListType
NumbersOK ==
  /\ ended \in Nat /\ due \in 0..ended
  /\ resolved \in Seq(1..ended) /\ out \in Seq(1..ended) /\ written \in Seq(1..ended)
PlacesOK ==
  /\ fpc \in {"wait", "resolve", "write", "exited"} /\ stats \in BOOLEAN
  /\ phase \in {"run", "stopping", "final", "stopped"}

LEMMA TypeParts == TypeOK <=> StreamOK /\ RegionsOK /\ CallsOK /\ ListsOK /\ NumbersOK /\ PlacesOK
BY DEF TypeOK, StreamOK, RegionsOK, CallsOK, ListsOK, NumbersOK, PlacesOK, ListType, Calls

LEMMA TypePartsNext == TypeOK' <=> StreamOK' /\ RegionsOK' /\ CallsOK' /\ ListsOK' /\ NumbersOK' /\ PlacesOK'
BY TypeParts, PTL

LEMMA KindsAre == "region" \in Kinds /\ "mark" \in Kinds /\ \A k \in Kinds : k = "region" \/ k = "mark"
BY DEF Kinds

LEMMA EmptyLists == NoneLeft \in ListType /\ \A k \in Kinds : NoneLeft[k] = <<>>
BY NoEntries DEF NoneLeft, ListType

\* The list that is walked, and its head.
LEMMA WalkedList ==
  ASSUME ListsOK, local[Walked] # <<>>
  PROVE  /\ Walked \in Kinds /\ local[Walked] \in Seq(Entry)
         /\ Head(local[Walked]) \in Entry /\ Tail(local[Walked]) \in Seq(Entry)
<1>1. Walked \in Kinds
  BY KindsAre DEF Walked
<1>2. local[Walked] \in Seq(Entry)
  BY <1>1 DEF ListsOK, ListType
<1>. QED  BY <1>1, <1>2, EntryTaken

\* What Enter puts in a list.
LEMMA NewEntry ==
  ASSUME ListsOK, NumbersOK, NEW kind \in Kinds, NEW evs \in SUBSET Nat, Enter(kind, evs)
  PROVE  /\ ended' = ended + 1 /\ ended + 1 \in Nat /\ ended + 1 \in 1..ended'
         /\ resolved \in Seq(1..ended') /\ out \in Seq(1..ended') /\ written \in Seq(1..ended')
         /\ [item |-> ended + 1, evs |-> evs] \in Entry
         /\ waiting' \in ListType /\ resolved' \in Seq(1..ended')
         /\ \A k \in Kinds : ItemsOf(waiting'[k]) \subseteq ItemsOf(waiting[k]) \cup {ended + 1}
<1>1. ended' = ended + 1 /\ ended \in Nat /\ ended' \in Nat /\ ended <= ended' /\ ended + 1 \in 1..ended'
  BY DEF Enter, NumbersOK
<1>2. resolved \in Seq(1..ended') /\ out \in Seq(1..ended') /\ written \in Seq(1..ended')
  BY <1>1, NumbersKept DEF NumbersOK
<1>3. [item |-> ended + 1, evs |-> evs] \in Entry
  BY <1>1 DEF Entry
<1> DEFINE e == [item |-> ended + 1, evs |-> evs]
<1>4. /\ waiting[kind] \in Seq(Entry) /\ Append(waiting[kind], e) \in Seq(Entry)
      /\ ItemsOf(Append(waiting[kind], e)) = ItemsOf(waiting[kind]) \cup {ended + 1}
  BY <1>3, EntryAppended DEF ListsOK, ListType
<1>5. /\ waiting' \in ListType
      /\ \A k \in Kinds : ItemsOf(waiting'[k]) \subseteq ItemsOf(waiting[k]) \cup {ended + 1}
  <2>1. waiting' = waiting \/ waiting' = [waiting EXCEPT ![kind] = Append(@, e)]
    BY DEF Enter
  <2> HIDE DEF e
  <2>2. waiting' \in ListType /\ \A k \in Kinds : waiting'[k] = waiting[k] \/ (k = kind /\ waiting'[k] = Append(waiting[k], e))
    BY <1>4, <2>1 DEF ListsOK, ListType
  <2>. QED  BY <1>4, <2>2
<1>6. Append(resolved, ended + 1) \in Seq(1..ended')
  BY <1>1, <1>2, NumberAppended
<1>7. resolved' \in Seq(1..ended')
  BY <1>2, <1>6 DEF Enter
<1>. QED  BY <1>1, <1>2, <1>3, <1>5, <1>7

\* An event that is in a call was recorded.
Recorded == \A c \in Clients : call[c].ev \in 0..recorded

\* An item in a list was numbered.
Numbered ==
  \A k \in Kinds : ItemsOf(waiting[k]) \cup ItemsOf(local[k]) \cup ItemsOf(left[k]) \subseteq 1..ended

Typed == StreamOK /\ RegionsOK /\ CallsOK /\ Recorded /\ ListsOK /\ Numbered /\ NumbersOK /\ PlacesOK

LEMMA TypedInit == Init => Typed
<1>. SUFFICES ASSUME Init PROVE Typed
  OBVIOUS
<1>1. DOMAIN pendingRegions = {} /\ 0 \in Nat /\ MaxCalls \in Nat
  BY CallsAssumption DEF Init
<1>2. Idle \in Calls /\ Idle.ev = 0
  BY DEF Idle, Calls
<1>3. CallsOK /\ Recorded
  <2>1. call = [c \in Clients |-> Idle] /\ calls = 0 /\ recorded = 0
    BY DEF Init
  <2>. QED  BY <1>1, <1>2, <2>1 DEF CallsOK, Recorded
<1>4. StreamOK /\ RegionsOK /\ PlacesOK
  <2>1. domain \in Domains /\ recorded = 0 /\ completed = 0 /\ live = {} /\ nextRegionId = 0
    BY DEF Init
  <2>2. PlacesOK
    BY DEF Init, PlacesOK
  <2>3. StreamOK
    <3>1. failed \in BOOLEAN
      BY DEF Init
    <3>2. completed \in 0..recorded /\ live \subseteq 1..recorded /\ recorded \in Nat
      BY <2>1
    <3>. QED  BY <2>1, <3>1, <3>2 DEF StreamOK
  <2>4. RegionsOK
    BY <1>1, <2>1 DEF RegionsOK
  <2>. QED  BY <2>2, <2>3, <2>4
<1>5. ListsOK /\ NumbersOK
  BY EmptyLists, NoNumbers DEF Init, ListsOK, NumbersOK
<1>6. Numbered
  BY EmptyLists, NoEntries DEF Init, Numbered
<1>. QED  BY <1>3, <1>4, <1>5, <1>6 DEF Typed

\* A call that begins.
LEMMA CaptureTypes ==
  ASSUME Typed, NEW c \in Clients, NEW op \in {"begin", "end", "mark"}, NEW id \in Nat, Capture(c, op, id),
         UNCHANGED domain
  PROVE  Typed'
<1> DEFINE ev == IF domain = "GPU" THEN recorded + 1 ELSE 0
<1>1. /\ call' = [call EXCEPT ![c] = [op |-> op, id |-> id, ev |-> ev]]
      /\ calls < MaxCalls /\ calls' = calls + 1
      /\ \/ ev = recorded + 1 /\ recorded' = recorded + 1 /\ live' = live \cup {recorded + 1}
         \/ ev = 0 /\ UNCHANGED <<recorded, live>>
      /\ UNCHANGED <<domain, completed, failed, regionVars, bufferVars, drainVars, fpc, stats, written, phase, due>>
  BY DEF Capture
<1>2. recorded \in Nat /\ recorded' \in Nat /\ ev \in 0..recorded' /\ ev \in Nat /\ 0..recorded \subseteq 0..recorded'
  BY <1>1 DEF Typed, StreamOK
<1> HIDE DEF ev
<1>3. StreamOK'
  <2>1. completed \in 0..recorded' /\ live' \subseteq 1..recorded'
    <3>1. CASE UNCHANGED <<recorded, live>>
      BY <1>1, <3>1 DEF Typed, StreamOK
    <3>2. CASE recorded' = recorded + 1 /\ live' = live \cup {recorded + 1}
      <4>1. recorded + 1 \in 1..recorded' /\ 1..recorded \subseteq 1..recorded' /\ completed \in 0..recorded'
        BY <1>2, <3>2 DEF Typed, StreamOK
      <4>. QED  BY <3>2, <4>1 DEF Typed, StreamOK
    <3>. QED  BY <1>1, <3>1, <3>2
  <2>. QED  BY <1>1, <1>2, <2>1 DEF Typed, StreamOK
<1>4. RegionsOK'
  BY <1>1, <1>2 DEF Typed, RegionsOK, regionVars
<1>5. CallsOK' /\ Recorded'
  <2>1. [op |-> op, id |-> id, ev |-> ev] \in Calls
    BY <1>2 DEF Calls
  <2>2. CallsOK'
    BY <1>1, <2>1, CallsAssumption DEF Typed, CallsOK
  <2>3. Recorded'
    BY <1>1, <1>2 DEF Typed, Recorded, CallsOK
  <2>. QED  BY <2>2, <2>3
<1>6. ListsOK' /\ Numbered' /\ NumbersOK' /\ PlacesOK'
  BY <1>1 DEF Typed, ListsOK, Numbered, NumbersOK, PlacesOK, bufferVars, drainVars
<1>. QED  BY <1>3, <1>4, <1>5, <1>6 DEF Typed

\* A call that takes the mutex and returns.
LEMMA EnteringTypes ==
  ASSUME Typed, NEW c \in Clients, Entering(c), UNCHANGED domain
  PROVE  Typed'
<1>1. Returns(c)
  BY DEF Entering, BeginRegion, EndRegion, EndUnknown, MarkEvent
<1>2. call[c].ev \in 0..recorded /\ recorded \in Nat /\ CallEvents(c) \subseteq Nat /\ Idle \in Calls /\ Idle.ev = 0
  BY DEF Typed, StreamOK, Recorded, CallEvents, Calls, Idle
<1>3. CallsOK' /\ PlacesOK' /\ Recorded' /\ UNCHANGED <<recorded, completed, failed, drainVars, written, due>>
  BY <1>1, <1>2 DEF Typed, CallsOK, PlacesOK, Recorded, Returns
<1>4. StreamOK'
  <2>1. live' \subseteq live
    BY DEF Entering, BeginRegion, EndRegion, EndUnknown, MarkEvent
  <2>. QED  BY <1>3, <2>1 DEF Typed, StreamOK
<1>5. CASE BeginRegion(c)
  <2>1. RegionsOK'
    BY <1>2, <1>3, <1>5 DEF Typed, RegionsOK, BeginRegion, NextId
  <2>2. ListsOK' /\ Numbered' /\ NumbersOK'
    BY <1>3, <1>5 DEF Typed, ListsOK, Numbered, NumbersOK, BeginRegion, bufferVars, drainVars
  <2>. QED  BY <1>3, <1>4, <2>1, <2>2 DEF Typed
<1>6. CASE EndUnknown(c)
  BY <1>3, <1>4, <1>6 DEF Typed, RegionsOK, ListsOK, Numbered, NumbersOK, EndUnknown, regionVars, bufferVars, drainVars
<1>7. ASSUME NEW kind \in Kinds, NEW evs \in SUBSET Nat, Enter(kind, evs), RegionsOK'
      PROVE  Typed'
  <2>1. /\ waiting' \in ListType /\ resolved' \in Seq(1..ended') /\ ended' = ended + 1
        /\ out \in Seq(1..ended') /\ written \in Seq(1..ended') /\ ended + 1 \in 1..ended'
        /\ \A k \in Kinds : ItemsOf(waiting'[k]) \subseteq ItemsOf(waiting[k]) \cup {ended + 1}
    BY <1>7, NewEntry DEF Typed
  <2>2. due \in 0..ended /\ ended \in Nat
    BY DEF Typed, NumbersOK
  <2>3. ListsOK' /\ NumbersOK'
    BY <1>3, <2>1, <2>2 DEF Typed, ListsOK, NumbersOK, drainVars
  <2>4. 1..ended \subseteq 1..ended'
    BY <2>1, <2>2
  <2>5. Numbered'
    BY <1>3, <2>1, <2>4 DEF Typed, Numbered, drainVars
  <2>. QED  BY <1>3, <1>4, <1>7, <2>3, <2>5 DEF Typed
<1>8. CASE EndRegion(c)
  <2> DEFINE id == call[c].id
             evs == ({pendingRegions[id]} \ {0}) \cup CallEvents(c)
  <2>1. /\ id \in DOMAIN pendingRegions /\ Enter("region", evs)
        /\ pendingRegions' = [i \in DOMAIN pendingRegions \ {id} |-> pendingRegions[i]]
        /\ UNCHANGED nextRegionId
    BY <1>8 DEF EndRegion
  <2>2. pendingRegions[id] \in Nat
    BY <2>1 DEF Typed, RegionsOK
  <2>3. evs \in SUBSET Nat
    BY <1>2, <2>2
  <2>4. RegionsOK'
    BY <1>3, <2>1 DEF Typed, RegionsOK
  <2> HIDE DEF evs
  <2>. QED  BY <1>7, <2>1, <2>3, <2>4, KindsAre
<1>9. CASE MarkEvent(c)
  <2>1. Enter("mark", CallEvents(c)) /\ RegionsOK'
    BY <1>3, <1>9 DEF MarkEvent, Typed, RegionsOK, regionVars
  <2>. QED  BY <1>2, <1>7, <2>1, KindsAre
<1>. QED  BY <1>5, <1>6, <1>8, <1>9 DEF Entering

LEMMA FlushingTypes ==
  ASSUME Typed, Flushing
  PROVE  Typed'
<1>1. /\ UNCHANGED <<domain, recorded, completed, failed, regionVars, clientVars, ended, due>> /\ live' \subseteq live
  BY DEF Flushing, FlushSwap, Resolving, ResolveReady, ResolveLater, Splice, FlushWrite, FlushSkip, FlushExit,
         streamVars, bufferVars
<1>2. StreamOK' /\ RegionsOK' /\ CallsOK' /\ Recorded'
  BY <1>1 DEF Typed, StreamOK, RegionsOK, CallsOK, Recorded, regionVars, clientVars
<1>3. PlacesOK'
  BY DEF Typed, PlacesOK, Flushing, FlushSwap, Resolving, ResolveReady, ResolveLater, Splice, FlushWrite, FlushSkip,
         FlushExit, AfterFlush
<1>4. ListsOK' /\ Numbered' /\ NumbersOK'
  <2>0. ListsOK /\ Numbered /\ NumbersOK
    BY DEF Typed
  <2>1. CASE FlushSwap
    BY <1>1, <2>0, <2>1, EmptyLists, NoEntries, NoNumbers DEF ListsOK, Numbered, NumbersOK, FlushSwap, Kept
  <2>2. CASE Resolving
    <3> DEFINE k == Walked
               s == local[k]
               e == Head(s)
    <3>1. /\ s # <<>> /\ local' = [local EXCEPT ![k] = Tail(@)] /\ UNCHANGED <<bufferVars, written, due>>
          /\ \/ out' = Append(out, e.item) /\ left' = left
             \/ out' = out /\ left' = [left EXCEPT ![k] = Append(@, e)]
      BY <2>2 DEF Resolving, ResolveReady, ResolveLater
    <3>2. k \in Kinds /\ s \in Seq(Entry) /\ e \in Entry /\ Tail(s) \in Seq(Entry)
      BY <2>0, <3>1, WalkedList
    <3>3. e.item \in ItemsOf(s) /\ ItemsOf(Tail(s)) \subseteq ItemsOf(s)
      BY <3>1, <3>2, EntryTaken
    <3>4. e.item \in 1..ended
      BY <2>0, <3>2, <3>3 DEF Numbered
    <3>5. left[k] \in Seq(Entry)
      BY <2>0, <3>2 DEF ListsOK, ListType
    <3>6. Append(left[k], e) \in Seq(Entry) /\ ItemsOf(Append(left[k], e)) = ItemsOf(left[k]) \cup {e.item}
      BY <3>2, <3>5, EntryAppended
    <3>7. Append(out, e.item) \in Seq(1..ended)
      BY <2>0, <3>4, NumberAppended DEF NumbersOK
    <3>8. NumbersOK'
      BY <1>1, <2>0, <3>1, <3>7 DEF NumbersOK, bufferVars
    <3> HIDE DEF e, k
    <3>9. local' \in ListType /\ \A j \in Kinds : local'[j] = local[j] \/ (j = k /\ local'[j] = Tail(s))
      BY <2>0, <3>1, <3>2 DEF ListsOK, ListType
    <3>10. left' \in ListType /\ \A j \in Kinds : left'[j] = left[j] \/ (j = k /\ left'[j] = Append(left[k], e))
      BY <2>0, <3>1, <3>2, <3>6 DEF ListsOK, ListType
    <3>11. ListsOK' /\ Numbered'
      BY <1>1, <2>0, <3>1, <3>2, <3>3, <3>4, <3>6, <3>9, <3>10 DEF ListsOK, Numbered, bufferVars
    <3>. QED  BY <3>8, <3>11
  <2>3. CASE Splice
    <3>1. \A k \in Kinds : /\ left[k] \o waiting[k] \in Seq(Entry)
                           /\ ItemsOf(left[k] \o waiting[k]) = ItemsOf(left[k]) \cup ItemsOf(waiting[k])
      BY <2>0, EntriesJoined DEF ListsOK, ListType
    <3>2. waiting' = [k \in Kinds |-> left[k] \o waiting[k]] /\ left' = NoneLeft /\ UNCHANGED <<resolved, local, out, written>>
      BY <2>3 DEF Splice, LeftoverFirst
    <3>3. waiting' \in ListType /\ \A k \in Kinds : ItemsOf(waiting'[k]) = ItemsOf(left[k]) \cup ItemsOf(waiting[k])
      BY <3>1, <3>2 DEF ListType
    <3>. QED  BY <1>1, <2>0, <3>2, <3>3, EmptyLists, NoEntries DEF ListsOK, Numbered, NumbersOK
  <2>4. CASE FlushWrite
    <3>1. written \o out \in Seq(1..ended)
      BY <2>0, NumbersJoined DEF NumbersOK
    <3>. QED  BY <1>1, <2>0, <2>4, <3>1, NoNumbers DEF ListsOK, Numbered, NumbersOK, FlushWrite, bufferVars
  <2>5. CASE FlushSkip \/ FlushExit
    BY <1>1, <2>0, <2>5 DEF ListsOK, Numbered, NumbersOK, FlushSkip, FlushExit, bufferVars, drainVars
  <2>. QED  BY <2>1, <2>2, <2>3, <2>4, <2>5 DEF Flushing
<1>. QED  BY <1>2, <1>3, <1>4 DEF Typed

LEMMA TypedStep == Typed /\ [Next]_vars => Typed'
<1>. SUFFICES ASSUME Typed, [Next]_vars PROVE Typed'
  OBVIOUS
<1>1. CASE GpuCompletes \/ GpuFails
  <2>1. completed < recorded /\ recorded \in Nat /\ completed \in 0..recorded
    BY <1>1 DEF GpuCompletes, GpuFails, Typed, StreamOK
  <2>2. StreamOK'
    <3>1. failed' \in BOOLEAN
      BY <1>1 DEF GpuCompletes, GpuFails, Typed, StreamOK
    <3>2. completed' \in 0..recorded' /\ recorded' \in Nat
      BY <1>1, <2>1 DEF GpuCompletes, GpuFails
    <3>3. domain' \in Domains /\ live' \subseteq 1..recorded'
      BY <1>1 DEF GpuCompletes, GpuFails, Typed, StreamOK
    <3>. QED  BY <3>1, <3>2, <3>3 DEF StreamOK
  <2>. QED  BY <1>1, <2>2 DEF GpuCompletes, GpuFails, Typed, RegionsOK, CallsOK, Recorded, ListsOK, Numbered,
                              NumbersOK, PlacesOK, regionVars, bufferVars, clientVars, drainVars
<1>2. ASSUME NEW c \in Clients, Calling(c), UNCHANGED domain
      PROVE  Typed'
  <2>1. PICK op \in {"begin", "end", "mark"}, id \in Nat : Capture(c, op, id)
    <3>1. nextRegionId \in Nat
      BY DEF Typed, RegionsOK
    <3>2. 0..(nextRegionId - 1) \subseteq Nat
      BY <3>1
    <3>. QED  BY <1>2, <3>2 DEF Calling, CaptureEnd
  <2>. QED  BY <1>2, <2>1, CaptureTypes
<1>3. ASSUME NEW c \in Clients, Entering(c), UNCHANGED domain
      PROVE  Typed'
  BY <1>3, EnteringTypes
<1>4. CASE Flushing
  BY <1>4, FlushingTypes
<1>5. CASE StopSignalled \/ StopJoined \/ UNCHANGED vars
  <2>1. UNCHANGED <<domain, streamVars, regionVars, bufferVars, clientVars, drainVars, stats, written>>
    BY <1>5 DEF StopSignalled, StopJoined, vars
  <2>2. NumbersOK'
    BY <1>5, <2>1 DEF Typed, NumbersOK, bufferVars, drainVars, StopSignalled, StopJoined, vars
  <2>3. PlacesOK'
    BY <1>5, <2>1 DEF Typed, PlacesOK, StopSignalled, StopJoined, vars
  <2>. QED  BY <2>1, <2>2, <2>3 DEF Typed, StreamOK, RegionsOK, CallsOK, Recorded, ListsOK, Numbered,
                                    streamVars, regionVars, bufferVars, clientVars, drainVars
<1>. QED  BY <1>1, <1>2, <1>3, <1>4, <1>5 DEF Next

\* The tracker's lists, its regions, the calls in progress and the stream keep
\* their types, for any number of threads and calls.
THEOREM TypeCorrect == Spec => []TypeOK
<1>1. Typed => TypeOK
  BY TypeParts DEF Typed
<1>. QED  BY <1>1, TypedInit, TypedStep, PTL DEF Spec

---------------------------------------------------------------------------
(* Where the drain is.                                                     *)

\* What is empty when; a GENERIC tracker has no events.
Drained ==
  /\ fpc \in {"wait", "write", "exited"} => local = NoneLeft /\ left = NoneLeft
  /\ fpc \in {"wait", "exited"} => out = <<>>
  /\ fpc = "resolve" => domain = "GPU"
  /\ domain # "GPU" => /\ waiting = NoneLeft
                       /\ \A i \in DOMAIN pendingRegions : pendingRegions[i] = 0
                       /\ \A c \in Clients : call[c].ev = 0

\* The last drain leaves nothing that ended before Stop().
LastDrain ==
  /\ phase \in {"final", "stopped"} => left = NoneLeft
  /\ phase \in {"run", "final"} => fpc # "exited"
  /\ phase = "stopped" => fpc = "exited"
  /\ phase = "stopped" \/ (phase = "final" /\ fpc # "wait") =>
       /\ \A k \in Kinds : \A t \in ItemsOf(waiting[k]) : t > due
       /\ \A t \in ToSet(resolved) : t > due

LEMMA DrainInit == Init => Drained /\ LastDrain
<1>. SUFFICES ASSUME Init PROVE Drained /\ LastDrain
  OBVIOUS
<1>1. DOMAIN pendingRegions = {} /\ waiting = NoneLeft /\ local = NoneLeft /\ left = NoneLeft /\ out = <<>>
      /\ fpc = "wait" /\ phase = "run" /\ call = [c \in Clients |-> Idle]
  BY DEF Init
<1>2. Drained
  BY <1>1 DEF Drained, Idle
<1>. QED  BY <1>1, <1>2 DEF LastDrain

LEMMA DrainCapture ==
  ASSUME Typed, Drained, LastDrain, NEW c \in Clients, NEW op, NEW id, Capture(c, op, id), UNCHANGED domain
  PROVE  Drained' /\ LastDrain'
<1>1. /\ call' = [call EXCEPT ![c] = [op |-> op, id |-> id, ev |-> IF domain = "GPU" THEN recorded + 1 ELSE 0]]
      /\ UNCHANGED <<domain, regionVars, bufferVars, drainVars, fpc, phase, due>>
  BY DEF Capture
<1>2. domain # "GPU" => \A d \in Clients : call'[d].ev = 0
  <2>. SUFFICES ASSUME domain # "GPU", NEW d \in Clients PROVE call'[d].ev = 0
    OBVIOUS
  <2>1. call' = [call EXCEPT ![c] = [op |-> op, id |-> id, ev |-> 0]]
    BY <1>1
  <2>. QED  BY <2>1 DEF Typed, CallsOK, Drained
<1>3. Drained'
  BY <1>1, <1>2 DEF Drained, regionVars, bufferVars, drainVars
<1>. QED  BY <1>1, <1>3 DEF LastDrain, bufferVars, drainVars

LEMMA DrainEntering ==
  ASSUME Typed, Drained, LastDrain, NEW c \in Clients, Entering(c), UNCHANGED domain
  PROVE  Drained' /\ LastDrain'
<1>1. call' = [call EXCEPT ![c] = Idle] /\ UNCHANGED <<domain, drainVars, fpc, phase, due>>
  BY DEF Entering, BeginRegion, EndRegion, EndUnknown, MarkEvent, Returns
<1>2. domain # "GPU" => \A d \in Clients : call'[d].ev = 0
  BY <1>1 DEF Typed, CallsOK, Drained, Idle
<1>3. domain # "GPU" => waiting' = NoneLeft
  BY DEF Entering, BeginRegion, EndRegion, EndUnknown, MarkEvent, Enter, Drained, bufferVars
<1>4. domain # "GPU" => \A i \in DOMAIN pendingRegions' : pendingRegions'[i] = 0
  BY DEF Entering, BeginRegion, EndRegion, EndUnknown, MarkEvent, Drained, regionVars
<1>5. Drained'
  BY <1>1, <1>2, <1>3, <1>4 DEF Drained, drainVars
<1>6. /\ \A k \in Kinds : \A t \in ItemsOf(waiting'[k]) : t \in ItemsOf(waiting[k]) \/ t > due
      /\ \A t \in ToSet(resolved') : t \in ToSet(resolved) \/ t > due
  <2>1. CASE UNCHANGED <<waiting, resolved>>
    BY <2>1
  <2>2. ASSUME NEW kind \in Kinds, NEW evs \in SUBSET Nat, Enter(kind, evs)
        PROVE  /\ \A k \in Kinds : \A t \in ItemsOf(waiting'[k]) : t \in ItemsOf(waiting[k]) \/ t > due
               /\ \A t \in ToSet(resolved') : t \in ToSet(resolved) \/ t > due
    <3>1. \A k \in Kinds : ItemsOf(waiting'[k]) \subseteq ItemsOf(waiting[k]) \cup {ended + 1}
      BY <2>2, NewEntry DEF Typed
    <3>2. ended + 1 > due /\ ended \in Nat /\ ended + 1 \in Nat /\ resolved \in Seq(1..ended)
      BY DEF Typed, NumbersOK
    <3>3. resolved \in Seq(1..ended + 1) /\ ended + 1 \in 1..ended + 1
      BY <3>2, NumbersKept
    <3>4. ToSet(Append(resolved, ended + 1)) = ToSet(resolved) \cup {ended + 1}
      BY <3>3, NumberAppended
    <3>. QED  BY <2>2, <3>1, <3>2, <3>4 DEF Enter
  <2>3. CASE EndRegion(c)
    <3> DEFINE evs == ({pendingRegions[call[c].id]} \ {0}) \cup CallEvents(c)
    <3>1. Enter("region", evs) /\ call[c].id \in DOMAIN pendingRegions
      BY <2>3 DEF EndRegion
    <3>2. evs \in SUBSET Nat
      BY <3>1 DEF Typed, RegionsOK, Recorded, CallEvents
    <3> HIDE DEF evs
    <3>. QED  BY <2>2, <3>1, <3>2, KindsAre
  <2>4. CASE MarkEvent(c)
    <3>1. Enter("mark", CallEvents(c)) /\ CallEvents(c) \in SUBSET Nat
      BY <2>4 DEF MarkEvent, Typed, Recorded, CallEvents
    <3>. QED  BY <2>2, <3>1, KindsAre
  <2>. QED  BY <2>1, <2>3, <2>4 DEF Entering, BeginRegion, EndUnknown, bufferVars
<1>7. LastDrain'
  BY <1>1, <1>6 DEF LastDrain, drainVars
<1>. QED  BY <1>5, <1>7

LEMMA DrainFlushing ==
  ASSUME Typed, Drained, LastDrain, Flushing
  PROVE  Drained' /\ LastDrain'
<1>1. UNCHANGED <<domain, regionVars, clientVars, due>>
  BY DEF Flushing, FlushSwap, Resolving, ResolveReady, ResolveLater, Splice, FlushWrite, FlushSkip, FlushExit
<1>2. CASE FlushSwap
  <2>1. /\ waiting' = NoneLeft /\ resolved' = <<>> /\ local' = waiting /\ left' = left /\ out' = resolved
        /\ fpc' = IF domain = "GPU" THEN "resolve" ELSE "write"
        /\ fpc = "wait" /\ phase' = phase
    BY <1>2 DEF FlushSwap, Kept
  <2>2. Drained'
    BY <1>1, <2>1 DEF Drained, regionVars, clientVars
  <2>3. LastDrain'
    BY <1>1, <2>1, EmptyLists, NoEntries, NoNumbers DEF LastDrain
  <2>. QED  BY <2>2, <2>3
<1>3. CASE Resolving
  <2>1. /\ fpc = "resolve" /\ UNCHANGED <<fpc, phase, bufferVars>>
        /\ left' = left \/ phase # "final"
    BY <1>3 DEF Resolving, ResolveReady, ResolveLater, Forced
  <2>. QED  BY <1>1, <2>1 DEF Drained, LastDrain, regionVars, bufferVars, clientVars
<1>4. CASE Splice
  <2>1. /\ fpc = "resolve" /\ local = NoneLeft /\ fpc' = "write" /\ left' = NoneLeft
        /\ waiting' = [k \in Kinds |-> left[k] \o waiting[k]]
        /\ UNCHANGED <<resolved, local, out, phase>>
    BY <1>4 DEF Splice, LeftoverFirst
  <2>2. Drained'
    BY <1>1, <2>1 DEF Drained, regionVars, clientVars
  <2>3. \A k \in Kinds : ItemsOf(waiting'[k]) = ItemsOf(left[k]) \cup ItemsOf(waiting[k])
    BY <2>1, EntriesJoined DEF Typed, ListsOK, ListType
  <2>4. left = NoneLeft => \A k \in Kinds : ItemsOf(waiting'[k]) = ItemsOf(waiting[k])
    BY <2>3, EmptyLists, NoEntries
  <2>5. LastDrain'
    BY <1>1, <2>1, <2>4 DEF LastDrain
  <2>. QED  BY <2>2, <2>5
<1>5. CASE FlushWrite \/ FlushSkip
  <2>1. /\ fpc = "write" /\ out' = <<>> /\ UNCHANGED <<bufferVars, local, left>>
        /\ IF phase = "final" THEN fpc' = "exited" /\ phase' = "stopped" ELSE fpc' = "wait" /\ UNCHANGED phase
    BY <1>5 DEF FlushWrite, FlushSkip, AfterFlush, drainVars
  <2>. QED  BY <1>1, <2>1 DEF Drained, LastDrain, regionVars, bufferVars, clientVars
<1>6. CASE FlushExit
  <2>1. fpc = "wait" /\ phase = "stopping" /\ fpc' = "exited" /\ UNCHANGED <<bufferVars, drainVars, phase>>
    BY <1>6 DEF FlushExit
  <2>. QED  BY <1>1, <2>1 DEF Drained, LastDrain, regionVars, bufferVars, clientVars, drainVars
<1>. QED  BY <1>2, <1>3, <1>4, <1>5, <1>6 DEF Flushing

LEMMA DrainStep == Typed /\ Drained /\ LastDrain /\ [Next]_vars => Drained' /\ LastDrain'
<1>. SUFFICES ASSUME Typed, Drained, LastDrain, [Next]_vars PROVE Drained' /\ LastDrain'
  OBVIOUS
<1>1. CASE GpuCompletes \/ GpuFails \/ UNCHANGED vars
  <2>1. UNCHANGED <<domain, regionVars, bufferVars, clientVars, drainVars, fpc, phase, due>>
    BY <1>1 DEF GpuCompletes, GpuFails, vars
  <2>. QED  BY <2>1 DEF Drained, LastDrain, regionVars, bufferVars, clientVars, drainVars
<1>2. ASSUME NEW c \in Clients, Calling(c), UNCHANGED domain
      PROVE  Drained' /\ LastDrain'
  BY <1>2, DrainCapture DEF Calling, CaptureEnd
<1>3. ASSUME NEW c \in Clients, Entering(c), UNCHANGED domain
      PROVE  Drained' /\ LastDrain'
  BY <1>3, DrainEntering
<1>4. CASE Flushing
  BY <1>4, DrainFlushing
<1>5. CASE StopSignalled
  <2>1. phase = "run" /\ phase' = "stopping" /\ UNCHANGED <<domain, regionVars, bufferVars, clientVars, drainVars, fpc>>
    BY <1>5 DEF StopSignalled
  <2>. QED  BY <2>1 DEF Drained, LastDrain, regionVars, bufferVars, clientVars, drainVars
<1>6. CASE StopJoined
  <2>1. /\ fpc = "exited" /\ fpc' = "wait" /\ phase' = "final"
        /\ UNCHANGED <<domain, regionVars, bufferVars, clientVars, drainVars, due>>
    BY <1>6 DEF StopJoined
  <2>. QED  BY <2>1 DEF Drained, LastDrain, regionVars, bufferVars, clientVars, drainVars
<1>. QED  BY <1>1, <1>2, <1>3, <1>4, <1>5, <1>6 DEF Next

---------------------------------------------------------------------------
(* Places: families of sets that share nothing.                            *)

Apart(F, P) == \A p, q \in P : p # q => F[p] \cap F[q] = {}
Cover(F, P, All) == \A x : x \in All <=> \E p \in P : x \in F[p]

\* Something new comes to one place.
LEMMA Arrives ==
  ASSUME NEW P, NEW F, NEW G, NEW All, NEW x, NEW p \in P, Apart(F, P), Cover(F, P, All), x \notin All,
         G[p] = F[p] \cup {x}, \A r \in P : r # p => G[r] = F[r]
  PROVE  Apart(G, P) /\ Cover(G, P, All \cup {x})
BY DEF Apart, Cover

\* Some of one place go to another.
Moved(F, G, P, p, q, X) ==
  /\ p \in P /\ q \in P /\ p # q /\ X \subseteq F[p]
  /\ G[p] = F[p] \ X /\ G[q] = F[q] \cup X
  /\ \A r \in P : r # p /\ r # q => G[r] = F[r]

LEMMA Moves ==
  ASSUME NEW P, NEW F, NEW G, NEW All, NEW X, NEW p, NEW q, Apart(F, P), Cover(F, P, All),
         Moved(F, G, P, p, q, X)
  PROVE  Apart(G, P) /\ Cover(G, P, All)
BY DEF Apart, Cover, Moved

\* Some leave.
LEMMA Leaves ==
  ASSUME NEW P, NEW F, NEW G, NEW All, NEW X, NEW p \in P, Apart(F, P), Cover(F, P, All),
         X \subseteq F[p], G[p] = F[p] \ X, \A r \in P : r # p => G[r] = F[r]
  PROVE  Apart(G, P) /\ Cover(G, P, All \ X)
BY DEF Apart, Cover

\* Whole places are poured into others.
LEMMA Pours ==
  ASSUME NEW P, NEW F, NEW G, NEW All, NEW to \in [P -> P], Apart(F, P), Cover(F, P, All),
         \A q \in P : \A x : x \in G[q] <=> \E p \in P : to[p] = q /\ x \in F[p]
  PROVE  Apart(G, P) /\ Cover(G, P, All)
BY DEF Apart, Cover

---------------------------------------------------------------------------
(* An item is at one place, from the call that ended it to the file.       *)

Places == {"waiting regions", "waiting marks", "local regions", "local marks", "left regions", "left marks",
           "resolved", "out", "written"}
ItemsAt == [p \in Places |->
  CASE p = "waiting regions" -> ItemsOf(waiting["region"])
    [] p = "waiting marks"   -> ItemsOf(waiting["mark"])
    [] p = "local regions"   -> ItemsOf(local["region"])
    [] p = "local marks"     -> ItemsOf(local["mark"])
    [] p = "left regions"    -> ItemsOf(left["region"])
    [] p = "left marks"      -> ItemsOf(left["mark"])
    [] p = "resolved"        -> ToSet(resolved)
    [] p = "out"             -> ToSet(out)
    [] p = "written"         -> ToSet(written)]

Listed ==
  /\ Apart(ItemsAt, Places) /\ Cover(ItemsAt, Places, 1..ended)
  /\ IsInjective(resolved) /\ IsInjective(out) /\ IsInjective(written)

\* The entries of a list differ.
Different == \A k \in Kinds : Once(waiting[k]) /\ Once(local[k]) /\ Once(left[k])

LEMMA ItemsAre ==
  /\ ItemsAt["waiting regions"] = ItemsOf(waiting["region"]) /\ ItemsAt["waiting marks"] = ItemsOf(waiting["mark"])
  /\ ItemsAt["local regions"] = ItemsOf(local["region"]) /\ ItemsAt["local marks"] = ItemsOf(local["mark"])
  /\ ItemsAt["left regions"] = ItemsOf(left["region"]) /\ ItemsAt["left marks"] = ItemsOf(left["mark"])
  /\ ItemsAt["resolved"] = ToSet(resolved) /\ ItemsAt["out"] = ToSet(out) /\ ItemsAt["written"] = ToSet(written)
BY DEF ItemsAt, Places

LEMMA ItemsAreNext ==
  /\ ItemsAt'["waiting regions"] = ItemsOf(waiting'["region"]) /\ ItemsAt'["waiting marks"] = ItemsOf(waiting'["mark"])
  /\ ItemsAt'["local regions"] = ItemsOf(local'["region"]) /\ ItemsAt'["local marks"] = ItemsOf(local'["mark"])
  /\ ItemsAt'["left regions"] = ItemsOf(left'["region"]) /\ ItemsAt'["left marks"] = ItemsOf(left'["mark"])
  /\ ItemsAt'["resolved"] = ToSet(resolved') /\ ItemsAt'["out"] = ToSet(out') /\ ItemsAt'["written"] = ToSet(written')
BY DEF ItemsAt, Places

LEMMA ItemsStay ==
  ASSUME Listed, UNCHANGED <<bufferVars, drainVars, written>>
  PROVE  Listed'
<1>1. \A p \in Places : ItemsAt'[p] = ItemsAt[p]
  BY ItemsAre, ItemsAreNext DEF Places, bufferVars, drainVars
<1>. QED  BY <1>1 DEF Listed, Apart, Cover, bufferVars, drainVars

\* A new item, the next number, in a list of its kind or with the ready ones.
LEMMA ItemEnters ==
  ASSUME Typed, Listed, NEW kind \in Kinds, NEW evs \in SUBSET Nat, Enter(kind, evs), UNCHANGED <<drainVars, written>>
  PROVE  Listed'
<1> DEFINE e == [item |-> ended + 1, evs |-> evs]
           n == ended + 1
           w == IF kind = "region" THEN "waiting regions" ELSE "waiting marks"
<1>1. /\ ended' = n /\ ended \in Nat /\ e \in Entry /\ n \notin 1..ended /\ 1..ended' = 1..ended \cup {n}
      /\ resolved \in Seq(1..ended') /\ n \in 1..ended' /\ waiting \in ListType
  <2>1. NumbersOK /\ ListsOK
    BY DEF Typed
  <2>2. /\ ended' = ended + 1 /\ ended \in Nat /\ [item |-> ended + 1, evs |-> evs] \in Entry
        /\ resolved \in Seq(1..ended')
    BY <2>1, NewEntry DEF NumbersOK
  <2>3. n \notin 1..ended /\ 1..(ended + 1) = 1..ended \cup {n} /\ n \in 1..(ended + 1)
    BY <2>2
  <2>4. waiting \in ListType
    BY <2>1 DEF ListsOK
  <2>. QED  BY <2>2, <2>3, <2>4
<1>2. CASE domain = "GPU"
  <2>1. waiting' = [waiting EXCEPT ![kind] = Append(@, e)] /\ resolved' = resolved
    BY <1>2 DEF Enter
  <2>2. waiting[kind] \in Seq(Entry)
    BY DEF Typed, ListsOK, ListType
  <2>3. ItemsOf(Append(waiting[kind], e)) = ItemsOf(waiting[kind]) \cup {n}
    BY <1>1, <2>2, EntryAppended
  <2> HIDE DEF e, n
  <2>4. waiting'[kind] = Append(waiting[kind], e) /\ \A k \in Kinds : k # kind => waiting'[k] = waiting[k]
    BY <1>1, <2>1 DEF ListType
  <2>5. ItemsAt'[w] = ItemsAt[w] \cup {n} /\ \A r \in Places : r # w => ItemsAt'[r] = ItemsAt[r]
    BY <2>1, <2>3, <2>4, ItemsAre, ItemsAreNext, KindsAre DEF Places, drainVars
  <2>6. w \in Places
    BY DEF Places
  <2> HIDE DEF w
  <2>7. Apart(ItemsAt', Places) /\ Cover(ItemsAt', Places, 1..ended \cup {n})
    BY <1>1, <2>5, <2>6, Arrives DEF Listed
  <2>. QED  BY <1>1, <2>1, <2>7 DEF Listed, Apart, Cover, drainVars
<1>3. CASE domain # "GPU"
  <2>1. resolved' = Append(resolved, n) /\ waiting' = waiting
    BY <1>3 DEF Enter
  <2>2. n \notin ToSet(resolved)
    BY <1>1 DEF Listed, Cover, ItemsAt, Places
  <2>3. /\ ToSet(resolved') = ToSet(resolved) \cup {n} /\ IsInjective(resolved')
    BY <1>1, <2>1, <2>2, NumberAppended DEF Listed
  <2> HIDE DEF n
  <2>4. ItemsAt'["resolved"] = ItemsAt["resolved"] \cup {n} /\ \A r \in Places : r # "resolved" => ItemsAt'[r] = ItemsAt[r]
    BY <2>1, <2>3, ItemsAre, ItemsAreNext DEF Places, drainVars
  <2>5. Apart(ItemsAt', Places) /\ Cover(ItemsAt', Places, 1..ended \cup {n})
    <3>1. "resolved" \in Places
      BY DEF Places
    <3>. QED  BY <1>1, <2>4, <3>1, Arrives DEF Listed
  <2>. QED  BY <1>1, <2>3, <2>5 DEF Listed, Apart, Cover, drainVars
<1>. QED  BY <1>2, <1>3

\* The drain: nothing new, nothing lost.
LEMMA ItemsDrain ==
  ASSUME Typed, Different, Drained, Listed, Flushing
  PROVE  Listed'
<1>0. ended' = ended /\ "resolved" \in Places /\ "out" \in Places /\ "written" \in Places
  BY DEF Flushing, FlushSwap, Resolving, ResolveReady, ResolveLater, Splice, FlushWrite, FlushSkip, FlushExit,
         bufferVars, Places
<1>1. CASE FlushSwap
  <2>1. /\ waiting' = NoneLeft /\ resolved' = <<>> /\ local' = waiting /\ left' = left /\ out' = resolved
        /\ written' = written /\ local = NoneLeft /\ out = <<>>
    BY <1>1 DEF FlushSwap, Kept, Drained
  <2> DEFINE to == [p \in Places |-> CASE p = "waiting regions" -> "local regions"
                                       [] p = "waiting marks"   -> "local marks"
                                       [] p = "resolved"        -> "out"
                                       [] OTHER                 -> p]
  <2>2. to \in [Places -> Places]
    BY DEF Places
  <2>3. /\ ItemsAt'["waiting regions"] = {} /\ ItemsAt'["waiting marks"] = {} /\ ItemsAt'["resolved"] = {}
        /\ ItemsAt["local regions"] = {} /\ ItemsAt["local marks"] = {} /\ ItemsAt["out"] = {}
        /\ ItemsAt'["local regions"] = ItemsAt["waiting regions"] /\ ItemsAt'["local marks"] = ItemsAt["waiting marks"]
        /\ ItemsAt'["out"] = ItemsAt["resolved"] /\ ItemsAt'["written"] = ItemsAt["written"]
        /\ ItemsAt'["left regions"] = ItemsAt["left regions"] /\ ItemsAt'["left marks"] = ItemsAt["left marks"]
    BY <2>1, ItemsAre, ItemsAreNext, EmptyLists, NoEntries, NoNumbers, KindsAre
  <2>4. \A q \in Places : \A x : x \in ItemsAt'[q] <=> \E p \in Places : to[p] = q /\ x \in ItemsAt[p]
    BY <2>3 DEF Places
  <2> HIDE DEF to
  <2>5. Apart(ItemsAt', Places) /\ Cover(ItemsAt', Places, 1..ended)
    BY <2>2, <2>4, Pours DEF Listed
  <2>. QED  BY <1>0, <2>1, <2>5, NoNumbers DEF Listed, Apart, Cover
<1>2. CASE Resolving
  <2> DEFINE k == Walked
             s == local[k]
             e == Head(s)
             p == IF k = "region" THEN "local regions" ELSE "local marks"
             f == IF k = "region" THEN "left regions" ELSE "left marks"
  <2>1. /\ s # <<>> /\ local' = [local EXCEPT ![k] = Tail(@)] /\ UNCHANGED <<bufferVars, written>>
        /\ \/ out' = Append(out, e.item) /\ left' = left
           \/ out' = out /\ left' = [left EXCEPT ![k] = Append(@, e)]
    BY <1>2 DEF Resolving, ResolveReady, ResolveLater
  <2>2. /\ k \in Kinds /\ s \in Seq(Entry) /\ e \in Entry /\ Tail(s) \in Seq(Entry)
        /\ local \in ListType /\ left \in ListType /\ left[k] \in Seq(Entry) /\ out \in Seq(1..ended)
    BY <2>1, WalkedList DEF Typed, ListsOK, ListType, NumbersOK
  <2>3. ItemsOf(s) = {e.item} \cup ItemsOf(Tail(s)) /\ e.item \notin ItemsOf(Tail(s))
    BY <2>1, <2>2, EntryTaken DEF Different
  <2>4. /\ p \in Places /\ f \in Places /\ p # f /\ p # "out" /\ f # "out"
        /\ ItemsAt[p] = ItemsOf(s) /\ ItemsAt[f] = ItemsOf(left[k])
        /\ ItemsAt'[p] = ItemsOf(local'[k]) /\ ItemsAt'[f] = ItemsOf(left'[k])
    BY <2>2, KindsAre, ItemsAre, ItemsAreNext DEF Places
  <2>5. e.item \in 1..ended /\ e.item \notin ToSet(out)
    <3>1. e.item \in ItemsAt[p]
      BY <2>3, <2>4
    <3>2. p \in Places /\ p # "out"
      BY <2>4
    <3>3. e.item \notin ItemsAt["out"]
      <4> HIDE DEF p, e
      <4>. QED  BY <1>0, <3>1, <3>2 DEF Listed, Apart
    <3>4. e.item \in 1..ended
      <4> HIDE DEF p, e
      <4>. QED  BY <3>1, <3>2 DEF Listed, Cover
    <3>. QED  BY <3>3, <3>4, ItemsAre
  <2> HIDE DEF e, k
  <2>6. local'[k] = Tail(s) /\ \A j \in Kinds : j # k => local'[j] = local[j]
    BY <2>1, <2>2 DEF ListType
  <2>7. ItemsAt'[p] = ItemsAt[p] \ {e.item} /\ {e.item} \subseteq ItemsAt[p]
    BY <2>3, <2>4, <2>6
  <2>8. CASE out' = Append(out, e.item) /\ left' = left
    <3>0. IsInjective(out)
      BY DEF Listed
    <3>1. ToSet(out') = ToSet(out) \cup {e.item} /\ IsInjective(out')
      <4> DEFINE S == 1..ended
                 n == e.item
      <4>1. out \in Seq(S) /\ n \in S /\ n \notin ToSet(out)
        BY <2>2, <2>5
      <4> HIDE DEF S, n
      <4>2. ToSet(Append(out, n)) = ToSet(out) \cup {n} /\ IsInjective(Append(out, n))
        BY <3>0, <4>1, NumberAppended
      <4>. QED  BY <2>8, <4>2 DEF n
    <3>2. ItemsAt'["out"] = ItemsAt["out"] \cup {e.item}
      BY <3>1, ItemsAre, ItemsAreNext
    <3>3. \A r \in Places : r # p /\ r # "out" => ItemsAt'[r] = ItemsAt[r]
      BY <2>1, <2>2, <2>6, <2>8, KindsAre, ItemsAre, ItemsAreNext DEF Places, bufferVars
    <3> HIDE DEF p
    <3>4. Moved(ItemsAt, ItemsAt', Places, p, "out", {e.item})
      BY <1>0, <2>4, <2>7, <3>2, <3>3 DEF Moved
    <3>5. Apart(ItemsAt', Places) /\ Cover(ItemsAt', Places, 1..ended)
      BY <3>4, Moves DEF Listed
    <3>. QED  BY <1>0, <2>1, <3>1, <3>5 DEF Listed, Apart, Cover, bufferVars
  <2>9. CASE out' = out /\ left' = [left EXCEPT ![k] = Append(@, e)]
    <3>1. left'[k] = Append(left[k], e) /\ \A j \in Kinds : j # k => left'[j] = left[j]
      BY <2>2, <2>9 DEF ListType
    <3>2. ItemsOf(left'[k]) = ItemsOf(left[k]) \cup {e.item}
      BY <2>2, <3>1, EntryAppended
    <3>3. ItemsAt'[f] = ItemsAt[f] \cup {e.item}
      BY <2>4, <3>2
    <3>4. \A r \in Places : r # p /\ r # f => ItemsAt'[r] = ItemsAt[r]
      BY <2>1, <2>2, <2>6, <2>9, <3>1, KindsAre, ItemsAre, ItemsAreNext DEF Places, bufferVars
    <3> HIDE DEF p, f
    <3>5. Moved(ItemsAt, ItemsAt', Places, p, f, {e.item})
      BY <2>4, <2>7, <3>3, <3>4 DEF Moved
    <3>6. Apart(ItemsAt', Places) /\ Cover(ItemsAt', Places, 1..ended)
      BY <3>5, Moves DEF Listed
    <3>. QED  BY <1>0, <2>1, <2>9, <3>6 DEF Listed, Apart, Cover, bufferVars
  <2>. QED  BY <2>1, <2>8, <2>9
<1>3. CASE Splice
  <2>1. /\ waiting' = [k \in Kinds |-> left[k] \o waiting[k]] /\ left' = NoneLeft
        /\ UNCHANGED <<resolved, local, out, written>>
    BY <1>3 DEF Splice, LeftoverFirst
  <2>2. \A k \in Kinds : ItemsOf(waiting'[k]) = ItemsOf(left[k]) \cup ItemsOf(waiting[k])
    BY <2>1, EntriesJoined DEF Typed, ListsOK, ListType
  <2> DEFINE to == [p \in Places |-> CASE p = "left regions" -> "waiting regions"
                                       [] p = "left marks"   -> "waiting marks"
                                       [] OTHER              -> p]
  <2>3. to \in [Places -> Places]
    BY DEF Places
  <2>4. /\ ItemsAt'["left regions"] = {} /\ ItemsAt'["left marks"] = {}
        /\ ItemsAt'["waiting regions"] = ItemsAt["left regions"] \cup ItemsAt["waiting regions"]
        /\ ItemsAt'["waiting marks"] = ItemsAt["left marks"] \cup ItemsAt["waiting marks"]
        /\ ItemsAt'["local regions"] = ItemsAt["local regions"] /\ ItemsAt'["local marks"] = ItemsAt["local marks"]
        /\ ItemsAt'["resolved"] = ItemsAt["resolved"] /\ ItemsAt'["out"] = ItemsAt["out"]
        /\ ItemsAt'["written"] = ItemsAt["written"]
    BY <2>1, <2>2, ItemsAre, ItemsAreNext, EmptyLists, NoEntries, KindsAre
  <2>5. \A q \in Places : \A x : x \in ItemsAt'[q] <=> \E p \in Places : to[p] = q /\ x \in ItemsAt[p]
    BY <2>4 DEF Places
  <2> HIDE DEF to
  <2>6. Apart(ItemsAt', Places) /\ Cover(ItemsAt', Places, 1..ended)
    BY <2>3, <2>5, Pours DEF Listed
  <2>. QED  BY <1>0, <2>1, <2>6 DEF Listed, Apart, Cover
<1>4. CASE FlushWrite
  <2>1. written' = written \o out /\ out' = <<>> /\ UNCHANGED <<bufferVars, local, left>>
    BY <1>4 DEF FlushWrite
  <2>2. ToSet(written) \cap ToSet(out) = {}
    BY <1>0, ItemsAre DEF Listed, Apart
  <2>3. ToSet(written') = ToSet(written) \cup ToSet(out) /\ IsInjective(written')
    BY <2>1, <2>2, NumbersJoined DEF Typed, NumbersOK, Listed
  <2>4. /\ ItemsAt'["out"] = ItemsAt["out"] \ ToSet(out) /\ ToSet(out) \subseteq ItemsAt["out"]
        /\ ItemsAt'["written"] = ItemsAt["written"] \cup ToSet(out)
    BY <2>1, <2>3, ItemsAre, ItemsAreNext, NoNumbers
  <2>5. \A r \in Places : r # "out" /\ r # "written" => ItemsAt'[r] = ItemsAt[r]
    BY <2>1, ItemsAre, ItemsAreNext DEF Places, bufferVars
  <2>6. Moved(ItemsAt, ItemsAt', Places, "out", "written", ToSet(out))
    BY <1>0, <2>4, <2>5 DEF Moved
  <2>7. Apart(ItemsAt', Places) /\ Cover(ItemsAt', Places, 1..ended)
    BY <2>6, Moves DEF Listed
  <2>. QED  BY <1>0, <2>1, <2>3, <2>7, NoNumbers DEF Listed, Apart, Cover, bufferVars
<1>5. CASE FlushSkip \/ FlushExit
  BY <1>5, ItemsStay DEF FlushSkip, FlushExit
<1>. QED  BY <1>1, <1>2, <1>3, <1>4, <1>5 DEF Flushing

---------------------------------------------------------------------------
(* An event has one owner until it is destroyed.                           *)

\* Two places give some of theirs to a third.
Gathered(F, G, P, p, q, r, X, Y) ==
  /\ p \in P /\ q \in P /\ r \in P /\ p # q /\ p # r /\ q # r
  /\ X \subseteq F[p] /\ Y \subseteq F[q]
  /\ G[p] = F[p] \ X /\ G[q] = F[q] \ Y /\ G[r] = F[r] \cup X \cup Y
  /\ \A s \in P : s # p /\ s # q /\ s # r => G[s] = F[s]

LEMMA Gathers ==
  ASSUME NEW P, NEW F, NEW G, NEW All, NEW X, NEW Y, NEW p, NEW q, NEW r, Apart(F, P), Cover(F, P, All),
         Gathered(F, G, P, p, q, r, X, Y)
  PROVE  Apart(G, P) /\ Cover(G, P, All)
BY DEF Apart, Cover, Gathered

Begun  == {pendingRegions[i] : i \in DOMAIN pendingRegions} \ {0}
Called == UNION {CallEvents(c) : c \in Clients}

Owners == {"waiting regions", "waiting marks", "local regions", "local marks", "left regions", "left marks",
           "begun", "calls"}
EventsAt == [p \in Owners |->
  CASE p = "waiting regions" -> EventsOf(waiting["region"])
    [] p = "waiting marks"   -> EventsOf(waiting["mark"])
    [] p = "local regions"   -> EventsOf(local["region"])
    [] p = "local marks"     -> EventsOf(local["mark"])
    [] p = "left regions"    -> EventsOf(left["region"])
    [] p = "left marks"      -> EventsOf(left["mark"])
    [] p = "begun"           -> Begun
    [] p = "calls"           -> Called]

\* No two begun regions and no two calls share an event; an idle thread has none.
RegionsDiffer ==
  \A i, j \in DOMAIN pendingRegions : i # j /\ pendingRegions[i] # 0 => pendingRegions[i] # pendingRegions[j]
CallsDiffer ==
  /\ \A c, d \in Clients : c # d /\ call[c].ev # 0 => call[c].ev # call[d].ev
  /\ \A c \in Clients : call[c].op = "idle" => call[c].ev = 0

Owned == Apart(EventsAt, Owners) /\ Cover(EventsAt, Owners, live) /\ RegionsDiffer /\ CallsDiffer

LEMMA EventsAre ==
  /\ EventsAt["waiting regions"] = EventsOf(waiting["region"]) /\ EventsAt["waiting marks"] = EventsOf(waiting["mark"])
  /\ EventsAt["local regions"] = EventsOf(local["region"]) /\ EventsAt["local marks"] = EventsOf(local["mark"])
  /\ EventsAt["left regions"] = EventsOf(left["region"]) /\ EventsAt["left marks"] = EventsOf(left["mark"])
  /\ EventsAt["begun"] = Begun /\ EventsAt["calls"] = Called
BY DEF EventsAt, Owners

LEMMA EventsAreNext ==
  /\ EventsAt'["waiting regions"] = EventsOf(waiting'["region"]) /\ EventsAt'["waiting marks"] = EventsOf(waiting'["mark"])
  /\ EventsAt'["local regions"] = EventsOf(local'["region"]) /\ EventsAt'["local marks"] = EventsOf(local'["mark"])
  /\ EventsAt'["left regions"] = EventsOf(left'["region"]) /\ EventsAt'["left marks"] = EventsOf(left'["mark"])
  /\ EventsAt'["begun"] = Begun' /\ EventsAt'["calls"] = Called'
BY DEF EventsAt, Owners

LEMMA CalledAre == \A x : x \in Called <=> x # 0 /\ \E c \in Clients : x = call[c].ev
<1>1. \A x, c : x \in CallEvents(c) <=> x # 0 /\ x = call[c].ev
  BY DEF CallEvents
<1>. QED  BY <1>1 DEF Called

LEMMA CalledNext == \A x : x \in Called' <=> x # 0 /\ \E c \in Clients : x = call'[c].ev
<1>1. \A x, c : x \in CallEvents(c)' <=> x # 0 /\ x = call'[c].ev
  BY DEF CallEvents
<1>. QED  BY <1>1 DEF Called

LEMMA OwnersStay ==
  ASSUME UNCHANGED <<waiting, local, left>>
  PROVE  \A p \in Owners : p # "begun" /\ p # "calls" => EventsAt'[p] = EventsAt[p]
BY EventsAre, EventsAreNext DEF Owners

LEMMA OwnedInit == Init => Listed /\ Different /\ Owned
<1>. SUFFICES ASSUME Init PROVE Listed /\ Different /\ Owned
  OBVIOUS
<1>1. /\ waiting = NoneLeft /\ local = NoneLeft /\ left = NoneLeft
      /\ resolved = <<>> /\ out = <<>> /\ written = <<>> /\ ended = 0
      /\ live = {} /\ DOMAIN pendingRegions = {} /\ call = [c \in Clients |-> Idle]
  BY DEF Init
<1>2. Different
  BY <1>1, EmptyLists, NoEntries DEF Different
<1>3. \A p \in Places : ItemsAt[p] = {}
  BY <1>1, EmptyLists, NoEntries, NoNumbers, ItemsAre, KindsAre DEF Places
<1>4. 1..ended = {}
  BY <1>1
<1>5. Listed
  BY <1>1, <1>3, <1>4, NoNumbers DEF Listed, Apart, Cover
<1>6. Begun = {} /\ Called = {} /\ RegionsDiffer /\ CallsDiffer
  BY <1>1 DEF Begun, Called, CallEvents, RegionsDiffer, CallsDiffer, Idle
<1>7. \A p \in Owners : EventsAt[p] = {}
  BY <1>1, <1>6, EmptyLists, NoEntries, EventsAre, KindsAre DEF Owners
<1>8. Owned
  BY <1>1, <1>6, <1>7 DEF Owned, Apart, Cover
<1>. QED  BY <1>2, <1>5, <1>8

\* A new event is the calling thread's.
LEMMA OwnedCapture ==
  ASSUME Typed, Different, Owned, NEW c \in Clients, NEW op \in {"begin", "end", "mark"}, NEW id \in Nat,
         Capture(c, op, id)
  PROVE  Different' /\ Owned'
<1> DEFINE ev == IF domain = "GPU" THEN recorded + 1 ELSE 0
<1>1. /\ call' = [call EXCEPT ![c] = [op |-> op, id |-> id, ev |-> ev]] /\ call[c].op = "idle"
      /\ UNCHANGED <<regionVars, bufferVars, drainVars>>
      /\ \/ ev = recorded + 1 /\ live' = live \cup {ev}
         \/ ev = 0 /\ UNCHANGED live
  BY DEF Capture
<1>2. ev \in Nat /\ call[c].ev = 0 /\ (ev # 0 => ev \notin live) /\ call \in [Clients -> Calls]
  <2>1. ev \in Nat /\ (ev # 0 => ev \notin live)
    BY DEF Typed, StreamOK
  <2>. QED  BY <1>1, <2>1 DEF Typed, CallsOK, Owned, CallsDiffer
<1>3. \/ ev # 0 /\ live' = live \cup {ev}
      \/ ev = 0 /\ UNCHANGED live
  BY <1>1, <1>2 DEF Typed, StreamOK
<1> HIDE DEF ev
<1>4. call'[c].op = op /\ call'[c].ev = ev /\ \A d \in Clients : d # c => call'[d] = call[d]
  BY <1>1, <1>2
<1>5. Different' /\ RegionsDiffer' /\ Begun' = Begun
  <2>1. UNCHANGED <<pendingRegions, waiting, local, left>>
    BY <1>1 DEF regionVars, bufferVars, drainVars
  <2>2. Different' /\ RegionsDiffer'
    BY <2>1 DEF Different, Owned, RegionsDiffer
  <2>. QED  BY <2>1, <2>2 DEF Begun
<1>6. Called' = Called \cup ({ev} \ {0})
  BY <1>2, <1>4, CalledAre, CalledNext
<1>7. \A d \in Clients : call[d].ev # 0 => call[d].ev \in live
  <2>. SUFFICES ASSUME NEW d \in Clients, call[d].ev # 0 PROVE call[d].ev \in live
    OBVIOUS
  <2>1. call[d].ev \in EventsAt["calls"]
    BY EventsAre, CalledAre
  <2>2. "calls" \in Owners
    BY DEF Owners
  <2>. QED  BY <2>1, <2>2 DEF Owned, Cover
<1>8. CallsDiffer'
  BY <1>2, <1>4, <1>7 DEF Owned, CallsDiffer
<1>9. \A p \in Owners : p # "calls" => EventsAt'[p] = EventsAt[p]
  BY <1>1, <1>5, OwnersStay, EventsAre, EventsAreNext DEF bufferVars, drainVars
<1>10. EventsAt'["calls"] = EventsAt["calls"] \cup ({ev} \ {0})
  BY <1>6, EventsAre, EventsAreNext
<1>11. Apart(EventsAt', Owners) /\ Cover(EventsAt', Owners, live')
  <2>1. CASE ev = 0
    BY <1>3, <1>9, <1>10, <2>1 DEF Owned, Apart, Cover
  <2>2. CASE ev # 0
    <3>1. "calls" \in Owners /\ EventsAt'["calls"] = EventsAt["calls"] \cup {ev} /\ ev \notin live
      BY <1>2, <1>10, <2>2 DEF Owners
    <3>2. live' = live \cup {ev}
      BY <1>3, <2>2
    <3>. QED  BY <1>9, <3>1, <3>2, Arrives DEF Owned
  <2>. QED  BY <2>1, <2>2
<1>. QED  BY <1>5, <1>8, <1>11 DEF Owned, Apart, Cover

\* A call that returns gives its event away.
LEMMA CallReturns ==
  ASSUME Typed, Owned, NEW c \in Clients, Returns(c)
  PROVE  /\ CallEvents(c) \subseteq Called /\ CallEvents(c) \subseteq Nat
         /\ Called' = Called \ CallEvents(c) /\ CallsDiffer'
<1>1. call' = [call EXCEPT ![c] = Idle] /\ call \in [Clients -> Calls] /\ Idle.ev = 0 /\ Idle.op = "idle"
  BY DEF Returns, Typed, CallsOK, Idle
<1>2. call'[c] = Idle /\ \A d \in Clients : d # c => call'[d] = call[d]
  BY <1>1
<1>3. \A x : x \in CallEvents(c) <=> x # 0 /\ x = call[c].ev
  BY DEF CallEvents
<1>4. CallEvents(c) \subseteq Called /\ CallEvents(c) \subseteq Nat
  BY <1>1, <1>3, CalledAre DEF Calls
<1>5. Called' = Called \ CallEvents(c)
  BY <1>1, <1>2, <1>3, CalledAre, CalledNext DEF Owned, CallsDiffer
<1>6. CallsDiffer'
  BY <1>1, <1>2 DEF Owned, CallsDiffer
<1>. QED  BY <1>4, <1>5, <1>6

\* An entry brings its events to the list of its kind.
LEMMA EventsEnter ==
  ASSUME Typed, Different, Listed, NEW kind \in Kinds, NEW evs \in SUBSET Nat, Enter(kind, evs),
         domain = "GPU" \/ evs = {}, evs \cap EventsOf(waiting[kind]) = {}, UNCHANGED drainVars
  PROVE  /\ Different'
         /\ EventsOf(waiting'[kind]) = EventsOf(waiting[kind]) \cup evs
         /\ \A k \in Kinds : k # kind => EventsOf(waiting'[k]) = EventsOf(waiting[k])
<1> DEFINE e == [item |-> ended + 1, evs |-> evs]
<1>1. e \in Entry /\ waiting \in ListType /\ waiting[kind] \in Seq(Entry) /\ UNCHANGED <<local, left>>
  BY NewEntry DEF Typed, ListsOK, ListType, drainVars
<1>2. CASE domain = "GPU"
  <2>1. waiting' = [waiting EXCEPT ![kind] = Append(@, e)]
    BY <1>2 DEF Enter
  <2>2. ended + 1 \notin ItemsOf(waiting[kind]) /\ e.item = ended + 1 /\ e.evs = evs
    <3>1. ItemsOf(waiting[kind]) \subseteq 1..ended /\ ended \in Nat
      BY DEF Typed, Numbered, NumbersOK
    <3>. QED  BY <3>1
  <2> HIDE DEF e
  <2>3. waiting'[kind] = Append(waiting[kind], e) /\ \A k \in Kinds : k # kind => waiting'[k] = waiting[k]
    BY <1>1, <2>1 DEF ListType
  <2>4. /\ EventsOf(Append(waiting[kind], e)) = EventsOf(waiting[kind]) \cup evs
        /\ Once(Append(waiting[kind], e))
    BY <1>1, <2>2, EntryAppended DEF Different
  <2>5. \A k \in Kinds : Once(waiting'[k])
    BY <2>3, <2>4 DEF Different
  <2>. QED  BY <1>1, <2>3, <2>4, <2>5 DEF Different
<1>3. CASE domain # "GPU"
  <2>1. waiting' = waiting /\ evs = {}
    BY <1>3 DEF Enter
  <2>. QED  BY <1>1, <2>1 DEF Different
<1>. QED  BY <1>2, <1>3

LEMMA OwnedEntering ==
  ASSUME Typed, Drained, Listed, Different, Owned, NEW c \in Clients, Entering(c)
  PROVE  Listed' /\ Different' /\ Owned'
<1>0. /\ "calls" \in Owners /\ "begun" \in Owners /\ "waiting regions" \in Owners /\ "waiting marks" \in Owners
      /\ EventsAt["calls"] = Called /\ EventsAt'["calls"] = Called'
      /\ EventsAt["begun"] = Begun /\ EventsAt'["begun"] = Begun'
  BY EventsAre, EventsAreNext DEF Owners
<1>1. Returns(c) /\ UNCHANGED <<drainVars, written, local, left>>
  BY DEF Entering, BeginRegion, EndRegion, EndUnknown, MarkEvent, Returns, drainVars
<1>2. /\ CallEvents(c) \subseteq Called /\ CallEvents(c) \subseteq Nat
      /\ Called' = Called \ CallEvents(c) /\ CallsDiffer'
  BY <1>1, CallReturns
<1>3. domain # "GPU" => CallEvents(c) = {} /\ \A i \in DOMAIN pendingRegions : pendingRegions[i] = 0
  BY DEF Drained, CallEvents
<1>4. CASE BeginRegion(c)
  <2> DEFINE n == nextRegionId
  <2>1. /\ pendingRegions' = [i \in DOMAIN pendingRegions \cup {n} |-> IF i = n THEN call[c].ev ELSE pendingRegions[i]]
        /\ UNCHANGED <<live, bufferVars, waiting>>
    BY <1>4 DEF BeginRegion, NextId, bufferVars
  <2>2. n \notin DOMAIN pendingRegions
    BY DEF Typed, RegionsOK
  <2> HIDE DEF n
  <2>3. /\ DOMAIN pendingRegions' = DOMAIN pendingRegions \cup {n} /\ pendingRegions'[n] = call[c].ev
        /\ \A i \in DOMAIN pendingRegions : pendingRegions'[i] = pendingRegions[i] /\ i # n
    BY <2>1, <2>2
  <2>4. \A x : x \in CallEvents(c) <=> x # 0 /\ x = call[c].ev
    BY DEF CallEvents
  <2>5. Begun' = Begun \cup CallEvents(c)
    BY <2>3, <2>4 DEF Begun
  <2>6. Begun \cap Called = {}
    BY <1>0 DEF Owned, Apart
  <2>7. RegionsDiffer'
    <3>1. \A i \in DOMAIN pendingRegions : pendingRegions[i] # 0 => pendingRegions[i] \in Begun
      BY DEF Begun
    <3>2. \A i \in DOMAIN pendingRegions : call[c].ev # 0 => pendingRegions[i] # call[c].ev
      BY <1>2, <2>4, <2>6, <3>1
    <3>. QED  BY <2>3, <3>2 DEF Owned, RegionsDiffer
  <2>8. Different' /\ Listed'
    BY <1>1, <2>1, ItemsStay DEF Different
  <2>9. \A p \in Owners : p # "begun" /\ p # "calls" => EventsAt'[p] = EventsAt[p]
    BY <1>1, <2>1, OwnersStay
  <2>10. Moved(EventsAt, EventsAt', Owners, "calls", "begun", CallEvents(c))
    BY <1>0, <1>2, <2>5, <2>9 DEF Moved
  <2>11. Apart(EventsAt', Owners) /\ Cover(EventsAt', Owners, live)
    BY <2>10, Moves DEF Owned
  <2>. QED  BY <1>2, <2>1, <2>7, <2>8, <2>11 DEF Owned, Apart, Cover
<1>5. CASE EndRegion(c)
  <2> DEFINE id == call[c].id
             begun == {pendingRegions[id]} \ {0}
             evs == begun \cup CallEvents(c)
  <2>1. /\ id \in DOMAIN pendingRegions /\ Enter("region", evs) /\ UNCHANGED live
        /\ pendingRegions' = [i \in DOMAIN pendingRegions \ {id} |-> pendingRegions[i]]
    BY <1>5 DEF EndRegion
  <2>2. /\ begun \subseteq Begun /\ begun \subseteq Nat
        /\ Begun' = Begun \ begun /\ RegionsDiffer'
    <3> HIDE DEF id
    <3>1. pendingRegions[id] \in Nat /\ pendingRegions[id] \in {pendingRegions[i] : i \in DOMAIN pendingRegions}
      BY <2>1 DEF Typed, RegionsOK
    <3>2. begun \subseteq Begun /\ begun \subseteq Nat
      BY <3>1 DEF Begun
    <3>3. DOMAIN pendingRegions' = DOMAIN pendingRegions \ {id}
          /\ \A i \in DOMAIN pendingRegions \ {id} : pendingRegions'[i] = pendingRegions[i]
      BY <2>1
    <3>4. RegionsDiffer'
      BY <3>3 DEF Owned, RegionsDiffer
    <3>5. \A i \in DOMAIN pendingRegions : i # id /\ pendingRegions[i] # 0 => pendingRegions[i] # pendingRegions[id]
      BY <2>1 DEF Owned, RegionsDiffer
    <3>6. \A x : x \in Begun <=> x # 0 /\ \E i \in DOMAIN pendingRegions : x = pendingRegions[i]
      BY DEF Begun
    <3>7. \A x : x \in Begun' <=> x # 0 /\ \E i \in DOMAIN pendingRegions' : x = pendingRegions'[i]
      BY DEF Begun
    <3>8. Begun' = Begun \ begun
      BY <2>1, <3>3, <3>5, <3>6, <3>7
    <3>. QED  BY <3>2, <3>4, <3>8
  <2>3. domain # "GPU" => evs = {}
    BY <1>3, <2>1
  <2>4. evs \in SUBSET Nat /\ evs = begun \cup CallEvents(c)
    BY <1>2, <2>2
  <2>5. evs \cap EventsOf(waiting["region"]) = {}
    <3>1. Begun \cap EventsOf(waiting["region"]) = {} /\ Called \cap EventsOf(waiting["region"]) = {}
      BY <1>0, EventsAre DEF Owned, Apart
    <3>. QED  BY <1>2, <2>2, <3>1
  <2> HIDE DEF begun, evs
  <2>6. /\ Different'
        /\ EventsOf(waiting'["region"]) = EventsOf(waiting["region"]) \cup evs
        /\ \A k \in Kinds : k # "region" => EventsOf(waiting'[k]) = EventsOf(waiting[k])
    BY <1>1, <2>1, <2>3, <2>4, <2>5, KindsAre, EventsEnter
  <2>7. Listed'
    BY <1>1, <2>1, <2>4, KindsAre, ItemEnters
  <2>8. EventsAt'["waiting regions"] = EventsAt["waiting regions"] \cup begun \cup CallEvents(c)
    BY <2>4, <2>6, EventsAre, EventsAreNext
  <2>9. \A p \in Owners : p # "begun" /\ p # "calls" /\ p # "waiting regions" => EventsAt'[p] = EventsAt[p]
    BY <1>1, <2>6, KindsAre, EventsAre, EventsAreNext DEF Owners
  <2>10. Apart(EventsAt', Owners) /\ Cover(EventsAt', Owners, live)
    <3>1. Gathered(EventsAt, EventsAt', Owners, "begun", "calls", "waiting regions", begun, CallEvents(c))
      BY <1>0, <1>2, <2>2, <2>8, <2>9 DEF Gathered
    <3>. QED  BY <3>1, Gathers DEF Owned
  <2>. QED  BY <1>2, <2>1, <2>2, <2>6, <2>7, <2>10 DEF Owned, Apart, Cover
<1>6. CASE EndUnknown(c)
  <2>1. live' = live \ CallEvents(c) /\ UNCHANGED <<regionVars, bufferVars, pendingRegions, waiting>>
    BY <1>6 DEF EndUnknown, regionVars, bufferVars
  <2>2. Different' /\ Listed' /\ RegionsDiffer'
    BY <1>1, <2>1, ItemsStay DEF Different, Owned, RegionsDiffer
  <2>3. Begun' = Begun
    BY <2>1 DEF Begun
  <2>4. \A p \in Owners : p # "calls" => EventsAt'[p] = EventsAt[p]
    BY <1>0, <1>1, <2>1, <2>3, OwnersStay
  <2>5. Apart(EventsAt', Owners) /\ Cover(EventsAt', Owners, live \ CallEvents(c))
    BY <1>0, <1>2, <2>4, Leaves DEF Owned
  <2>. QED  BY <1>2, <2>1, <2>2, <2>5 DEF Owned, Apart, Cover
<1>7. CASE MarkEvent(c)
  <2>1. Enter("mark", CallEvents(c)) /\ UNCHANGED <<live, pendingRegions>>
    BY <1>7 DEF MarkEvent, regionVars
  <2>2. CallEvents(c) \cap EventsOf(waiting["mark"]) = {}
    <3>1. Called \cap EventsOf(waiting["mark"]) = {}
      BY <1>0, EventsAre DEF Owned, Apart
    <3>. QED  BY <1>2, <3>1
  <2>3. /\ Different'
        /\ EventsOf(waiting'["mark"]) = EventsOf(waiting["mark"]) \cup CallEvents(c)
        /\ \A k \in Kinds : k # "mark" => EventsOf(waiting'[k]) = EventsOf(waiting[k])
    BY <1>1, <1>2, <1>3, <2>1, <2>2, KindsAre, EventsEnter
  <2>4. Listed'
    BY <1>1, <1>2, <2>1, KindsAre, ItemEnters
  <2>5. Begun' = Begun /\ RegionsDiffer'
    BY <2>1 DEF Begun, Owned, RegionsDiffer
  <2>6. EventsAt'["waiting marks"] = EventsAt["waiting marks"] \cup CallEvents(c)
    BY <2>3, EventsAre, EventsAreNext
  <2>7. \A p \in Owners : p # "calls" /\ p # "waiting marks" => EventsAt'[p] = EventsAt[p]
    BY <1>1, <2>3, <2>5, KindsAre, EventsAre, EventsAreNext DEF Owners
  <2>8. Moved(EventsAt, EventsAt', Owners, "calls", "waiting marks", CallEvents(c))
    BY <1>0, <1>2, <2>6, <2>7 DEF Moved
  <2>9. Apart(EventsAt', Owners) /\ Cover(EventsAt', Owners, live)
    BY <2>8, Moves DEF Owned
  <2>. QED  BY <1>2, <2>1, <2>3, <2>4, <2>5, <2>9 DEF Owned, Apart, Cover
<1>. QED  BY <1>4, <1>5, <1>6, <1>7 DEF Entering

LEMMA OwnedDraining ==
  ASSUME Typed, Drained, Listed, Different, Owned, Flushing
  PROVE  Different' /\ Owned'
<1>0. /\ UNCHANGED <<pendingRegions, call>> /\ Begun' = Begun /\ Called' = Called
      /\ RegionsDiffer' /\ CallsDiffer'
  <2>1. UNCHANGED <<pendingRegions, call>>
    BY DEF Flushing, FlushSwap, Resolving, ResolveReady, ResolveLater, Splice, FlushWrite, FlushSkip, FlushExit,
           regionVars, clientVars
  <2>. QED  BY <2>1 DEF Begun, Called, CallEvents, Owned, RegionsDiffer, CallsDiffer
<1>1. EventsAt'["begun"] = EventsAt["begun"] /\ EventsAt'["calls"] = EventsAt["calls"]
  BY <1>0, EventsAre, EventsAreNext
<1>2. CASE FlushSwap
  <2>1. waiting' = NoneLeft /\ local' = waiting /\ left' = left /\ live' = live /\ local = NoneLeft
    BY <1>2 DEF FlushSwap, Drained, streamVars
  <2>2. Different'
    BY <2>1, EmptyLists, NoEntries DEF Different
  <2> DEFINE to == [p \in Owners |-> CASE p = "waiting regions" -> "local regions"
                                       [] p = "waiting marks"   -> "local marks"
                                       [] OTHER                 -> p]
  <2>3. to \in [Owners -> Owners]
    BY DEF Owners
  <2>4. /\ EventsAt'["waiting regions"] = {} /\ EventsAt'["waiting marks"] = {}
        /\ EventsAt["local regions"] = {} /\ EventsAt["local marks"] = {}
        /\ EventsAt'["local regions"] = EventsAt["waiting regions"]
        /\ EventsAt'["local marks"] = EventsAt["waiting marks"]
        /\ EventsAt'["left regions"] = EventsAt["left regions"] /\ EventsAt'["left marks"] = EventsAt["left marks"]
    BY <2>1, EventsAre, EventsAreNext, EmptyLists, NoEntries, KindsAre
  <2>5. \A q \in Owners : \A x : x \in EventsAt'[q] <=> \E p \in Owners : to[p] = q /\ x \in EventsAt[p]
    BY <1>1, <2>4 DEF Owners
  <2> HIDE DEF to
  <2>6. Apart(EventsAt', Owners) /\ Cover(EventsAt', Owners, live)
    BY <2>3, <2>5, Pours DEF Owned
  <2>. QED  BY <1>0, <2>1, <2>2, <2>6 DEF Owned, Apart, Cover
<1>3. CASE Resolving
  <2> DEFINE k == Walked
             s == local[k]
             e == Head(s)
             p == IF k = "region" THEN "local regions" ELSE "local marks"
             f == IF k = "region" THEN "left regions" ELSE "left marks"
  <2>1. /\ s # <<>> /\ local' = [local EXCEPT ![k] = Tail(@)] /\ waiting' = waiting
        /\ \/ live' = live \ e.evs /\ left' = left
           \/ live' = live /\ left' = [left EXCEPT ![k] = Append(@, e)]
    BY <1>3 DEF Resolving, ResolveReady, ResolveLater, bufferVars, streamVars
  <2>2. /\ k \in Kinds /\ s \in Seq(Entry) /\ e \in Entry /\ Tail(s) \in Seq(Entry)
        /\ local \in ListType /\ left \in ListType /\ left[k] \in Seq(Entry)
    BY <2>1, WalkedList DEF Typed, ListsOK, ListType
  <2>3. /\ EventsOf(s) = e.evs \cup EventsOf(Tail(s)) /\ e.evs \cap EventsOf(Tail(s)) = {}
        /\ e.item \in ItemsOf(s) /\ Once(Tail(s))
    BY <2>1, <2>2, EntryTaken DEF Different
  <2>4. /\ p \in Owners /\ f \in Owners /\ p # f
        /\ EventsAt[p] = EventsOf(s) /\ EventsAt[f] = EventsOf(left[k])
        /\ EventsAt'[p] = EventsOf(local'[k]) /\ EventsAt'[f] = EventsOf(left'[k])
        /\ p \in Places /\ f \in Places /\ ItemsAt[p] = ItemsOf(s) /\ ItemsAt[f] = ItemsOf(left[k])
    BY <2>2, KindsAre, EventsAre, EventsAreNext, ItemsAre DEF Owners, Places
  <2> HIDE DEF e, k
  <2>5. local'[k] = Tail(s) /\ \A j \in Kinds : j # k => local'[j] = local[j]
    BY <2>1, <2>2 DEF ListType
  <2>6. EventsAt'[p] = EventsAt[p] \ e.evs /\ e.evs \subseteq EventsAt[p]
    BY <2>3, <2>4, <2>5
  <2>7. \A j \in Kinds : Once(waiting'[j]) /\ Once(local'[j])
    BY <2>1, <2>3, <2>5 DEF Different
  <2>8. CASE live' = live \ e.evs /\ left' = left
    <3>1. \A r \in Owners : r # p => EventsAt'[r] = EventsAt[r]
      BY <1>1, <2>1, <2>2, <2>5, <2>8, KindsAre, EventsAre, EventsAreNext DEF Owners
    <3>2. p \in Owners
      BY <2>4
    <3> HIDE DEF p
    <3>3. Apart(EventsAt', Owners) /\ Cover(EventsAt', Owners, live \ e.evs)
      BY <2>6, <3>1, <3>2, Leaves DEF Owned
    <3>4. Different'
      BY <2>7, <2>8 DEF Different
    <3>. QED  BY <1>0, <2>8, <3>3, <3>4 DEF Owned, Apart, Cover
  <2>9. CASE live' = live /\ left' = [left EXCEPT ![k] = Append(@, e)]
    <3>1. left'[k] = Append(left[k], e) /\ \A j \in Kinds : j # k => left'[j] = left[j]
      BY <2>2, <2>9 DEF ListType
    <3>2. EventsOf(left'[k]) = EventsOf(left[k]) \cup e.evs
      BY <2>2, <3>1, EntryAppended
    <3>3. EventsAt'[f] = EventsAt[f] \cup e.evs
      BY <2>4, <3>2
    <3>4. \A r \in Owners : r # p /\ r # f => EventsAt'[r] = EventsAt[r]
      BY <1>1, <2>1, <2>2, <2>5, <3>1, KindsAre, EventsAre, EventsAreNext DEF Owners
    <3>5. e.item \notin ItemsOf(left[k]) /\ e.evs \cap EventsOf(left[k]) = {}
      <4>1. ItemsAt[p] \cap ItemsAt[f] = {} /\ EventsAt[p] \cap EventsAt[f] = {}
        <5>1. p \in Owners /\ f \in Owners /\ p # f /\ p \in Places /\ f \in Places
          BY <2>4
        <5> HIDE DEF p, f
        <5>. QED  BY <5>1 DEF Listed, Owned, Apart
      <4>2. e.item \in ItemsAt[p] /\ e.evs \subseteq EventsAt[p]
        BY <2>3, <2>4
      <4>. QED  BY <2>4, <4>1, <4>2
    <3>6. Once(Append(left[k], e))
      BY <2>2, <3>5, EntryAppended DEF Different
    <3>7. Different'
      BY <2>7, <3>1, <3>6 DEF Different
    <3> HIDE DEF p, f
    <3>8. Moved(EventsAt, EventsAt', Owners, p, f, e.evs)
      BY <2>4, <2>6, <3>3, <3>4 DEF Moved
    <3>9. Apart(EventsAt', Owners) /\ Cover(EventsAt', Owners, live)
      BY <3>8, Moves DEF Owned
    <3>. QED  BY <1>0, <2>9, <3>7, <3>9 DEF Owned, Apart, Cover
  <2>. QED  BY <2>1, <2>8, <2>9
<1>4. CASE Splice
  <2>1. /\ waiting' = [k \in Kinds |-> left[k] \o waiting[k]] /\ left' = NoneLeft
        /\ UNCHANGED <<live, local>>
    BY <1>4 DEF Splice, LeftoverFirst, streamVars
  <2>2. \A k \in Kinds : left[k] \in Seq(Entry) /\ waiting[k] \in Seq(Entry)
    BY DEF Typed, ListsOK, ListType
  <2>3. \A k \in Kinds : EventsOf(waiting'[k]) = EventsOf(left[k]) \cup EventsOf(waiting[k])
    BY <2>1, <2>2, EntriesJoined
  <2>4. \A k \in Kinds : /\ ItemsOf(left[k]) \cap ItemsOf(waiting[k]) = {}
                         /\ EventsOf(left[k]) \cap EventsOf(waiting[k]) = {}
    <3>1. /\ "left regions" \in Places /\ "waiting regions" \in Places
          /\ "left marks" \in Places /\ "waiting marks" \in Places
          /\ "left regions" \in Owners /\ "waiting regions" \in Owners
          /\ "left marks" \in Owners /\ "waiting marks" \in Owners
      BY DEF Places, Owners
    <3>2. /\ ItemsAt["left regions"] \cap ItemsAt["waiting regions"] = {}
          /\ ItemsAt["left marks"] \cap ItemsAt["waiting marks"] = {}
          /\ EventsAt["left regions"] \cap EventsAt["waiting regions"] = {}
          /\ EventsAt["left marks"] \cap EventsAt["waiting marks"] = {}
      BY <3>1 DEF Listed, Owned, Apart
    <3>. QED  BY <3>2, ItemsAre, EventsAre, KindsAre
  <2>5. Different'
    <3>1. \A k \in Kinds : Once(left[k] \o waiting[k])
      BY <2>2, <2>4, EntriesJoined DEF Different
    <3>. QED  BY <2>1, <3>1, EmptyLists, NoEntries DEF Different
  <2> DEFINE to == [p \in Owners |-> CASE p = "left regions" -> "waiting regions"
                                       [] p = "left marks"   -> "waiting marks"
                                       [] OTHER              -> p]
  <2>6. to \in [Owners -> Owners]
    BY DEF Owners
  <2>7. /\ EventsAt'["left regions"] = {} /\ EventsAt'["left marks"] = {}
        /\ EventsAt'["waiting regions"] = EventsAt["left regions"] \cup EventsAt["waiting regions"]
        /\ EventsAt'["waiting marks"] = EventsAt["left marks"] \cup EventsAt["waiting marks"]
        /\ EventsAt'["local regions"] = EventsAt["local regions"] /\ EventsAt'["local marks"] = EventsAt["local marks"]
    BY <2>1, <2>3, EventsAre, EventsAreNext, EmptyLists, NoEntries, KindsAre
  <2>8. \A q \in Owners : \A x : x \in EventsAt'[q] <=> \E p \in Owners : to[p] = q /\ x \in EventsAt[p]
    BY <1>1, <2>7 DEF Owners
  <2> HIDE DEF to
  <2>9. Apart(EventsAt', Owners) /\ Cover(EventsAt', Owners, live)
    BY <2>6, <2>8, Pours DEF Owned
  <2>. QED  BY <1>0, <2>1, <2>5, <2>9 DEF Owned, Apart, Cover
<1>5. CASE FlushWrite \/ FlushSkip \/ FlushExit
  <2>1. UNCHANGED <<waiting, local, left, live>>
    BY <1>5 DEF FlushWrite, FlushSkip, FlushExit, bufferVars, drainVars, streamVars
  <2>2. \A p \in Owners : EventsAt'[p] = EventsAt[p]
    BY <1>1, <2>1, OwnersStay
  <2>. QED  BY <1>0, <2>1, <2>2 DEF Different, Owned, Apart, Cover
<1>. QED  BY <1>2, <1>3, <1>4, <1>5 DEF Flushing

\* Where every item and every event is.
InPlace == Listed /\ Different /\ Owned

LEMMA InPlaceStep == Typed /\ Drained /\ InPlace /\ [Next]_vars => InPlace'
<1>. SUFFICES ASSUME Typed, Drained, InPlace, [Next]_vars PROVE InPlace'
  OBVIOUS
<1>1. CASE GpuCompletes \/ GpuFails \/ StopSignalled \/ StopJoined \/ UNCHANGED vars
  <2>1. UNCHANGED <<live, regionVars, pendingRegions, bufferVars, call, drainVars, written>>
    BY <1>1 DEF GpuCompletes, GpuFails, StopSignalled, StopJoined, vars, streamVars, regionVars, clientVars
  <2>2. UNCHANGED <<waiting, local, left>>
    BY <2>1 DEF bufferVars, drainVars
  <2>3. Begun' = Begun /\ Called' = Called /\ RegionsDiffer' /\ CallsDiffer' /\ Different' /\ Listed'
    BY <2>1, <2>2, ItemsStay DEF Begun, Called, CallEvents, InPlace, Owned, RegionsDiffer, CallsDiffer, Different
  <2>4. \A p \in Owners : EventsAt'[p] = EventsAt[p]
    BY <2>2, <2>3, OwnersStay, EventsAre, EventsAreNext
  <2>. QED  BY <2>1, <2>3, <2>4 DEF InPlace, Owned, Apart, Cover
<1>2. ASSUME NEW c \in Clients, Calling(c)
      PROVE  InPlace'
  <2>1. PICK op \in {"begin", "end", "mark"}, id \in Nat : Capture(c, op, id)
    <3>1. nextRegionId \in Nat
      BY DEF Typed, RegionsOK
    <3>2. 0..(nextRegionId - 1) \subseteq Nat
      BY <3>1
    <3>. QED  BY <1>2, <3>2 DEF Calling, CaptureEnd
  <2>2. UNCHANGED <<bufferVars, drainVars, written>>
    BY <2>1 DEF Capture
  <2>. QED  BY <2>1, <2>2, OwnedCapture, ItemsStay DEF InPlace
<1>3. ASSUME NEW c \in Clients, Entering(c)
      PROVE  InPlace'
  BY <1>3, OwnedEntering DEF InPlace
<1>4. CASE Flushing
  BY <1>4, ItemsDrain, OwnedDraining DEF InPlace
<1>. QED  BY <1>1, <1>2, <1>3, <1>4 DEF Next

---------------------------------------------------------------------------
(* The tracker is a TraceLog.                                              *)

\* What Stop() is doing, in TraceLog's words.
Closing == CASE phase = "run" -> "no" [] phase = "stopped" -> "done" [] OTHER -> "begun"

LEMMA ClosingCases ==
  /\ phase = "run" => Closing = "no"
  /\ phase = "stopped" => Closing = "done"
  /\ phase \notin {"run", "stopped"} => Closing = "begun"
  /\ phase' = "run" => Closing' = "no"
  /\ phase' = "stopped" => Closing' = "done"
  /\ phase' \notin {"run", "stopped"} => Closing' = "begun"
BY DEF Closing

\* TraceLog counts with the same Cardinality.
LEMMA LogCardinality == \A S : Log!Cardinality(S) = Cardinality(S)
BY Zenon DEF Log!Cardinality, Cardinality

TrackerInv == Typed /\ Drained /\ LastDrain /\ InPlace

LEMMA TrackerInit == Init => TrackerInv
BY TypedInit, DrainInit, OwnedInit DEF TrackerInv, InPlace

LEMMA TrackerStep == TrackerInv /\ [Next]_vars => TrackerInv'
BY TypedStep, DrainStep, InPlaceStep DEF TrackerInv

LEMMA LogInit == Init => Log!Init
<1>. SUFFICES ASSUME Init PROVE Log!Init
  OBVIOUS
<1>1. ended = 0 /\ written = <<>> /\ due = 0 /\ phase = "run"
  BY DEF Init
<1>2. ToSet(written) = {} /\ Len(written) = 0 /\ Closing = "no"
  BY <1>1, NoNumbers, ClosingCases
<1>. QED  BY <1>1, <1>2 DEF Log!Init, Closing

\* What the last flush finds drained, with what is in the file, is all that
\* ended before Stop().
LEMMA LastFlush ==
  ASSUME TrackerInv, phase = "final", fpc = "write"
  PROVE  1..due \subseteq ToSet(written) \cup ToSet(out)
<1>. SUFFICES ASSUME NEW t \in 1..due PROVE t \in ToSet(written) \cup ToSet(out)
  OBVIOUS
<1>1. t \in 1..ended /\ ~(t > due)
  BY DEF TrackerInv, Typed, NumbersOK
<1>2. PICK p \in Places : t \in ItemsAt[p]
  BY <1>1 DEF TrackerInv, InPlace, Listed, Cover
<1>3. local = NoneLeft /\ left = NoneLeft
  BY DEF TrackerInv, Drained
<1>4. \A k \in Kinds : ItemsOf(local[k]) = {} /\ ItemsOf(left[k]) = {} /\ t \notin ItemsOf(waiting[k])
  BY <1>1, <1>3, EmptyLists, NoEntries DEF TrackerInv, LastDrain
<1>5. t \notin ToSet(resolved)
  BY <1>1 DEF TrackerInv, LastDrain
<1>6. p = "out" \/ p = "written"
  BY <1>2, <1>4, <1>5, ItemsAre, KindsAre DEF Places
<1>. QED  BY <1>2, <1>6, ItemsAre

\* What a step does to the log, in the tracker's own variables.
LEMMA LogSteps ==
  ASSUME TrackerInv, [Next]_vars
  PROVE  \/ UNCHANGED <<ended, written, due, Closing>>
         \/ ended' = ended + 1 /\ UNCHANGED <<written, due, Closing>>
         \/ /\ written' = written \o out /\ Closing # "done"
            /\ UNCHANGED <<ended, due, Closing>>
         \/ /\ Closing = "no" /\ Closing' = "begun" /\ due' = ended
            /\ UNCHANGED <<ended, written>>
         \/ /\ Closing = "begun" /\ Closing' = "done"
            /\ written' = written \o out /\ 1..due \subseteq ToSet(written) \cup ToSet(out)
            /\ UNCHANGED <<ended, due>>
<1>0. phase' = phase => Closing' = Closing
  BY DEF Closing
<1>1. ASSUME NEW c \in Clients, Entering(c)
      PROVE  (ended' = ended \/ ended' = ended + 1) /\ UNCHANGED <<written, due, Closing>>
  <2>1. UNCHANGED <<written, due, phase>>
    BY <1>1 DEF Entering, BeginRegion, EndRegion, EndUnknown, MarkEvent, Returns
  <2>2. ended' = ended \/ ended' = ended + 1
    BY <1>1 DEF Entering, BeginRegion, EndRegion, EndUnknown, MarkEvent, Enter, bufferVars
  <2>. QED  BY <1>0, <2>1, <2>2
<1>2. CASE FlushWrite \/ FlushSkip
  <2>1. fpc = "write" /\ UNCHANGED <<ended, due>> /\ AfterFlush
    BY <1>2 DEF FlushWrite, FlushSkip, bufferVars
  <2>2. written' = written \o out
    <3>1. CASE FlushWrite
      BY <3>1 DEF FlushWrite
    <3>2. CASE FlushSkip
      <4>1. out = <<>> /\ written' = written /\ written \in Seq(1..ended)
        BY <3>2 DEF FlushSkip, TrackerInv, Typed, NumbersOK
      <4>. QED  BY <4>1, ConcatEmptySeq
    <3>. QED  BY <1>2, <3>1, <3>2
  <2>3. phase # "stopped" /\ Closing # "done"
    BY <2>1, ClosingCases DEF TrackerInv, LastDrain
  <2>4. CASE phase = "final"
    <3>1. phase' = "stopped"
      BY <2>1, <2>4 DEF AfterFlush
    <3>. QED  BY <2>1, <2>2, <2>4, <3>1, ClosingCases, LastFlush
  <2>5. CASE phase # "final"
    <3>1. phase' = phase
      BY <2>1, <2>5 DEF AfterFlush
    <3>. QED  BY <1>0, <2>1, <2>2, <2>3, <3>1
  <2>. QED  BY <2>4, <2>5
<1>3. CASE StopSignalled
  <2>1. phase = "run" /\ phase' = "stopping" /\ due' = ended /\ UNCHANGED <<ended, written>>
    BY <1>3 DEF StopSignalled, bufferVars
  <2>. QED  BY <2>1, ClosingCases
<1>4. CASE StopJoined
  <2>1. phase = "stopping" /\ phase' = "final" /\ UNCHANGED <<ended, written, due>>
    BY <1>4 DEF StopJoined, bufferVars
  <2>. QED  BY <2>1, ClosingCases
<1>5. CASE \/ GpuCompletes \/ GpuFails \/ (\E c \in Clients : Calling(c))
           \/ FlushSwap \/ Resolving \/ Splice \/ FlushExit \/ UNCHANGED vars
  <2>1. UNCHANGED <<ended, written, due, phase>>
    BY <1>5 DEF GpuCompletes, GpuFails, Calling, CaptureEnd, Capture, FlushSwap, Resolving, ResolveReady, ResolveLater, Splice,
                FlushExit, vars, bufferVars
  <2>. QED  BY <1>0, <2>1
<1>. QED  BY <1>1, <1>2, <1>3, <1>4, <1>5 DEF Next, Flushing

\* What is drained is new in the file.
LEMMA FlushDelivers ==
  ASSUME TrackerInv, written' = written \o out
  PROVE  /\ ToSet(out) \in SUBSET (1..ended \ ToSet(written))
         /\ ToSet(written') = ToSet(written) \cup ToSet(out)
         /\ Len(written') = Len(written) + Cardinality(ToSet(out))
<1>1. /\ out \in Seq(1..ended) /\ written \in Seq(1..ended) /\ IsInjective(out)
      /\ "out" \in Places /\ "written" \in Places /\ Apart(ItemsAt, Places) /\ Cover(ItemsAt, Places, 1..ended)
  BY DEF TrackerInv, Typed, NumbersOK, InPlace, Listed, Places
<1>2. ToSet(out) \cap ToSet(written) = {} /\ ToSet(out) \subseteq 1..ended
  BY <1>1, ItemsAre DEF Apart, Cover
<1> DEFINE S == 1..ended
<1> HIDE DEF S
<1>3. out \in Seq(S) /\ written \in Seq(S)
  BY <1>1 DEF S
<1>4. ToSet(written') = ToSet(written) \cup ToSet(out) /\ Len(written') = Len(written) + Len(out)
  BY <1>3, NumbersJoined
<1>5. Cardinality(ToSet(out)) = Len(out)
  BY <1>1, <1>3, CountNumbers
<1>. QED  BY <1>2, <1>4, <1>5

\* Every step is one of the log's, or leaves the log alone.
LEMMA LogStep == TrackerInv /\ [Next]_vars => [Log!Next]_(Log!logVars)
<1>. SUFFICES ASSUME TrackerInv, [Next]_vars PROVE [Log!Next]_(Log!logVars)
  OBVIOUS
<1>1. CASE UNCHANGED <<ended, written, due, Closing>>
  BY <1>1 DEF Log!logVars, Closing
<1>2. CASE ended' = ended + 1 /\ UNCHANGED <<written, due, Closing>>
  BY <1>2 DEF Log!Next, Log!Accept, Closing
<1>3. CASE /\ written' = written \o out /\ Closing # "done"
           /\ UNCHANGED <<ended, due, Closing>>
  <2>1. Log!Deliver(ToSet(out)) /\ ToSet(out) \in SUBSET (1..ended \ ToSet(written))
    BY <1>3, FlushDelivers, LogCardinality DEF Log!Deliver, Closing
  <2>. QED  BY <1>3, <2>1 DEF Log!Next, Closing
<1>4. CASE /\ Closing = "no" /\ Closing' = "begun" /\ due' = ended
           /\ UNCHANGED <<ended, written>>
  BY <1>4 DEF Log!Next, Log!Stop, Closing
<1>5. CASE /\ Closing = "begun" /\ Closing' = "done"
           /\ written' = written \o out /\ 1..due \subseteq ToSet(written) \cup ToSet(out)
           /\ UNCHANGED <<ended, due>>
  <2>1. Log!Deliver(ToSet(out)) /\ ToSet(out) \in SUBSET (1..ended \ ToSet(written))
    BY <1>5, FlushDelivers, LogCardinality DEF Log!Deliver, Closing
  <2>2. 1..due \subseteq ToSet(written')
    BY <1>5, FlushDelivers
  <2>. QED  BY <1>5, <2>1, <2>2 DEF Log!Next, Log!Close, Closing
<1>. QED  BY <1>1, <1>2, <1>3, <1>4, <1>5, LogSteps

\* The tracker, its flush thread and Stop() implement TraceLog: an item is in the
\* file at most once, and in it when Stop() returns if it had ended before Stop()
\* was called.
THEOREM WritesLikeALogCorrect == Spec => WritesLikeALog
<1>1. Spec => Log!Init /\ [][Log!Next]_(Log!logVars)
  BY LogInit, LogStep, TrackerInit, TrackerStep, PTL DEF Spec
<1>. QED  BY <1>1 DEF WritesLikeALog, Log!Spec

---------------------------------------------------------------------------
(* Counting the owners of the events.                                      *)

LEMMA CountMatched ==
  ASSUME NEW D, NEW T, NEW f \in [D -> T], IsFiniteSet(T),
         \A x, y \in D : f[x] = f[y] => x = y, \A t \in T : \E x \in D : f[x] = t
  PROVE  Cardinality(D) = Cardinality(T)
<1>1. f \in Injection(D, T) /\ f \in Surjection(D, T)
  BY DEF Injection, Surjection, IsInjective
<1>. QED  BY <1>1, FS_Injection

LEMMA CountThree ==
  ASSUME NEW A, NEW B, NEW C, IsFiniteSet(A), IsFiniteSet(B), IsFiniteSet(C),
         A \cap B = {}, A \cap C = {}, B \cap C = {}
  PROVE  Cardinality(A \cup B \cup C) = Cardinality(A) + Cardinality(B) + Cardinality(C)
<1>1. (A \cup B) \cap C = {}
  OBVIOUS
<1>2. Cardinality(A \cap B) = 0 /\ Cardinality((A \cup B) \cap C) = 0
  <2>1. Cardinality({}) = 0
    BY FS_EmptySet
  <2>. QED  BY <1>1, <2>1, Zenon
<1>3. /\ IsFiniteSet(A \cup B) /\ Cardinality(A \cup B) = Cardinality(A) + Cardinality(B) - Cardinality(A \cap B)
  BY FS_Union
<1>4. Cardinality((A \cup B) \cup C) = Cardinality(A \cup B) + Cardinality(C) - Cardinality((A \cup B) \cap C)
  BY <1>3, FS_Union
<1>5. Cardinality(A) \in Nat /\ Cardinality(B) \in Nat /\ Cardinality(C) \in Nat
  BY FS_CardinalityType
<1> DEFINE a == Cardinality(A)
           b == Cardinality(B)
           c == Cardinality(C)
           d == Cardinality(A \cup B)
           u == Cardinality((A \cup B) \cup C)
<1>6. a \in Nat /\ b \in Nat /\ c \in Nat /\ d = a + b - 0 /\ u = d + c - 0
  BY <1>2, <1>3, <1>4, <1>5
<1> HIDE DEF a, b, c, d, u
<1>7. u = a + b + c
  BY <1>6
<1>. QED  BY <1>7 DEF a, b, c, u

\* The events of a list whose entries differ, each with the entry it is in.
LEMMA CountEvents ==
  ASSUME NEW s \in Seq(Entry), Once(s), IsFiniteSet(EventsOf(s))
  PROVE  Cardinality(UNION {{i} \X s[i].evs : i \in DOMAIN s}) = Cardinality(EventsOf(s))
<1> DEFINE Pairs == UNION {{i} \X s[i].evs : i \in DOMAIN s}
           f == [p \in Pairs |-> p[2]]
<1>1. \A p : p \in Pairs <=> \E i \in DOMAIN s : \E v \in s[i].evs : p = <<i, v>>
  OBVIOUS
<1>2. \A p \in Pairs : p[1] \in DOMAIN s /\ p[2] \in s[p[1]].evs /\ p = <<p[1], p[2]>>
  BY <1>1
<1>3. \A i \in DOMAIN s : \A v \in s[i].evs : <<i, v>> \in Pairs /\ <<i, v>>[2] = v
  BY <1>1
<1> HIDE DEF Pairs
<1>4. f \in [Pairs -> EventsOf(s)]
  BY <1>2 DEF EventsOf
<1>5. ASSUME NEW p \in Pairs, NEW q \in Pairs, f[p] = f[q]
      PROVE  p = q
  <2>1. p[2] = q[2] /\ p[2] \in s[p[1]].evs /\ p[2] \in s[q[1]].evs /\ p[1] \in DOMAIN s /\ q[1] \in DOMAIN s
    BY <1>2, <1>5
  <2>2. p[1] = q[1]
    BY <2>1 DEF Once
  <2>3. p = <<p[1], p[2]>> /\ q = <<q[1], q[2]>>
    BY <1>2
  <2>. QED  BY <2>1, <2>2, <2>3
<1>6. ASSUME NEW v \in EventsOf(s)
      PROVE  \E p \in Pairs : f[p] = v
  <2>1. PICK i \in DOMAIN s : v \in s[i].evs
    BY DEF EventsOf
  <2>2. <<i, v>> \in Pairs /\ <<i, v>>[2] = v
    BY <1>3, <2>1
  <2>. QED  BY <2>2
<1> HIDE DEF f
<1>7. Cardinality(Pairs) = Cardinality(EventsOf(s))
  BY <1>4, <1>5, <1>6, CountMatched
<1>. QED  BY <1>7 DEF Pairs

\* The six lists in a row.
AllWaiting == Waiting("region") \o Waiting("mark")

LEMMA ListsInARow ==
  ASSUME ListsOK, InPlace
  PROVE  /\ AllWaiting \in Seq(Entry) /\ Once(AllWaiting)
         /\ \A x : x \in EventsOf(AllWaiting)
                     <=> \E p \in Owners : p # "begun" /\ p # "calls" /\ x \in EventsAt[p]
<1>0. \A k \in Kinds : /\ local[k] \in Seq(Entry) /\ left[k] \in Seq(Entry) /\ waiting[k] \in Seq(Entry)
                       /\ Once(local[k]) /\ Once(left[k]) /\ Once(waiting[k])
  BY DEF ListsOK, ListType, InPlace, Different
<1>1. /\ \A p, q \in Places : p # q => ItemsAt[p] \cap ItemsAt[q] = {}
      /\ \A p, q \in Owners : p # q => EventsAt[p] \cap EventsAt[q] = {}
  BY DEF InPlace, Listed, Owned, Apart
<1>2. ASSUME NEW k \in Kinds
      PROVE  /\ Waiting(k) \in Seq(Entry) /\ Once(Waiting(k))
             /\ ItemsOf(Waiting(k)) = ItemsOf(local[k]) \cup ItemsOf(left[k]) \cup ItemsOf(waiting[k])
             /\ EventsOf(Waiting(k)) = EventsOf(local[k]) \cup EventsOf(left[k]) \cup EventsOf(waiting[k])
  <2>1. /\ ItemsOf(local[k]) \cap ItemsOf(left[k]) = {} /\ ItemsOf(local[k]) \cap ItemsOf(waiting[k]) = {}
        /\ ItemsOf(left[k]) \cap ItemsOf(waiting[k]) = {}
    <3>1. CASE k = "region"
      <4>1. "local regions" \in Places /\ "left regions" \in Places /\ "waiting regions" \in Places
        BY DEF Places
      <4>. QED  BY <1>1, <3>1, <4>1, ItemsAre
    <3>2. CASE k = "mark"
      <4>1. "local marks" \in Places /\ "left marks" \in Places /\ "waiting marks" \in Places
        BY DEF Places
      <4>. QED  BY <1>1, <3>2, <4>1, ItemsAre
    <3>. QED  BY <3>1, <3>2, KindsAre
  <2>2. /\ EventsOf(local[k]) \cap EventsOf(left[k]) = {} /\ EventsOf(local[k]) \cap EventsOf(waiting[k]) = {}
        /\ EventsOf(left[k]) \cap EventsOf(waiting[k]) = {}
    <3>1. CASE k = "region"
      <4>1. "local regions" \in Owners /\ "left regions" \in Owners /\ "waiting regions" \in Owners
        BY DEF Owners
      <4>. QED  BY <1>1, <3>1, <4>1, EventsAre
    <3>2. CASE k = "mark"
      <4>1. "local marks" \in Owners /\ "left marks" \in Owners /\ "waiting marks" \in Owners
        BY DEF Owners
      <4>. QED  BY <1>1, <3>2, <4>1, EventsAre
    <3>. QED  BY <3>1, <3>2, KindsAre
  <2> DEFINE s == local[k] \o left[k]
  <2>3. s \in Seq(Entry) /\ Once(s) /\ ItemsOf(s) = ItemsOf(local[k]) \cup ItemsOf(left[k])
        /\ EventsOf(s) = EventsOf(local[k]) \cup EventsOf(left[k])
    BY <1>0, <2>1, <2>2, EntriesJoined
  <2>4. Waiting(k) = s \o waiting[k]
    BY DEF Waiting
  <2> HIDE DEF s
  <2>5. ItemsOf(s) \cap ItemsOf(waiting[k]) = {} /\ EventsOf(s) \cap EventsOf(waiting[k]) = {}
    BY <2>1, <2>2, <2>3
  <2>6. /\ s \o waiting[k] \in Seq(Entry) /\ Once(s \o waiting[k])
        /\ ItemsOf(s \o waiting[k]) = ItemsOf(s) \cup ItemsOf(waiting[k])
        /\ EventsOf(s \o waiting[k]) = EventsOf(s) \cup EventsOf(waiting[k])
    BY <1>0, <2>3, <2>5, EntriesJoined
  <2>. QED  BY <2>3, <2>4, <2>6
<1>3. /\ ItemsOf(Waiting("region")) \cap ItemsOf(Waiting("mark")) = {}
      /\ EventsOf(Waiting("region")) \cap EventsOf(Waiting("mark")) = {}
  <2>1. \A p \in {"local regions", "left regions", "waiting regions"}, q \in {"local marks", "left marks", "waiting marks"} :
          p \in Places /\ q \in Places /\ p \in Owners /\ q \in Owners /\ p # q
    BY DEF Places, Owners
  <2>2. \A p \in {"local regions", "left regions", "waiting regions"}, q \in {"local marks", "left marks", "waiting marks"} :
          ItemsAt[p] \cap ItemsAt[q] = {} /\ EventsAt[p] \cap EventsAt[q] = {}
    BY <1>1, <2>1
  <2>3. /\ ItemsOf(Waiting("region")) = ItemsAt["local regions"] \cup ItemsAt["left regions"] \cup ItemsAt["waiting regions"]
        /\ ItemsOf(Waiting("mark")) = ItemsAt["local marks"] \cup ItemsAt["left marks"] \cup ItemsAt["waiting marks"]
        /\ EventsOf(Waiting("region")) = EventsAt["local regions"] \cup EventsAt["left regions"] \cup EventsAt["waiting regions"]
        /\ EventsOf(Waiting("mark")) = EventsAt["local marks"] \cup EventsAt["left marks"] \cup EventsAt["waiting marks"]
    BY <1>2, KindsAre, ItemsAre, EventsAre
  <2>. QED  BY <2>2, <2>3
<1>4. /\ AllWaiting \in Seq(Entry) /\ Once(AllWaiting)
      /\ EventsOf(AllWaiting) = EventsOf(Waiting("region")) \cup EventsOf(Waiting("mark"))
  <2> DEFINE s == Waiting("region")
             t == Waiting("mark")
  <2>1. s \in Seq(Entry) /\ t \in Seq(Entry) /\ Once(s) /\ Once(t)
    BY <1>2, KindsAre
  <2>2. ItemsOf(s) \cap ItemsOf(t) = {} /\ EventsOf(s) \cap EventsOf(t) = {}
    BY <1>3
  <2>3. AllWaiting = s \o t
    BY DEF AllWaiting
  <2> HIDE DEF s, t
  <2>4. s \o t \in Seq(Entry) /\ Once(s \o t) /\ EventsOf(s \o t) = EventsOf(s) \cup EventsOf(t)
    BY <2>1, <2>2, EntriesJoined
  <2>. QED  BY <2>3, <2>4 DEF s, t
<1>5. \A x : x \in EventsOf(AllWaiting) <=> \E p \in Owners : p # "begun" /\ p # "calls" /\ x \in EventsAt[p]
  <2>1. \A x : x \in EventsOf(AllWaiting)
          <=> \/ x \in EventsAt["local regions"] \/ x \in EventsAt["left regions"] \/ x \in EventsAt["waiting regions"]
              \/ x \in EventsAt["local marks"] \/ x \in EventsAt["left marks"] \/ x \in EventsAt["waiting marks"]
    <3>1. /\ EventsOf(Waiting("region")) = EventsAt["local regions"] \cup EventsAt["left regions"] \cup EventsAt["waiting regions"]
          /\ EventsOf(Waiting("mark")) = EventsAt["local marks"] \cup EventsAt["left marks"] \cup EventsAt["waiting marks"]
      BY <1>2, KindsAre, EventsAre
    <3>. QED  BY <1>4, <3>1
  <2>. QED  BY <2>1 DEF Owners
<1>. QED  BY <1>4, <1>5

LEMMA HandlesCounted == TrackerInv => HandlesOwned
<1>. SUFFICES ASSUME TrackerInv PROVE HandlesOwned
  OBVIOUS
<1>0. /\ Apart(EventsAt, Owners) /\ Cover(EventsAt, Owners, live) /\ RegionsDiffer /\ CallsDiffer
      /\ ListsOK /\ InPlace
  BY DEF TrackerInv, Typed, InPlace, Owned
<1> DEFINE Events == EventsOf(AllWaiting)
           Regions == DOMAIN pendingRegions \ {i \in DOMAIN pendingRegions : pendingRegions[i] = 0}
           Callers == {c \in Clients : call[c].ev # 0}
<1>1. \A x : x \in Events <=> \E p \in Owners : p # "begun" /\ p # "calls" /\ x \in EventsAt[p]
  BY <1>0, ListsInARow
<1>2. /\ EventsAt["begun"] = Begun /\ EventsAt["calls"] = Called
      /\ "begun" \in Owners /\ "calls" \in Owners
  BY EventsAre DEF Owners
<1> HIDE DEF Events
<1>3. \A x : x \in live <=> x \in Begun \/ x \in Called \/ x \in Events
  BY <1>0, <1>1, <1>2 DEF Cover
<1>4. live = Begun \cup Called \cup Events
  BY <1>3
<1>5. Begun \cap Called = {} /\ Begun \cap Events = {} /\ Called \cap Events = {}
  BY <1>0, <1>1, <1>2 DEF Apart
<1>6. IsFiniteSet(live)
  <2>1. recorded \in Nat /\ live \subseteq 1..recorded
    BY DEF TrackerInv, Typed, StreamOK
  <2>2. IsFiniteSet(1..recorded)
    BY <2>1, FS_Interval
  <2>. QED  BY <2>1, <2>2, FS_Subset
<1>7. IsFiniteSet(Begun) /\ IsFiniteSet(Called) /\ IsFiniteSet(Events)
  BY <1>4, <1>6, FS_Subset
<1>8. Cardinality(live) = Cardinality(Begun) + Cardinality(Called) + Cardinality(Events)
  BY <1>4, <1>5, <1>7, CountThree
<1>9. Cardinality(Regions) = Cardinality(Begun)
  <2> DEFINE f == [i \in Regions |-> pendingRegions[i]]
  <2>1. \A i \in Regions : i \in DOMAIN pendingRegions /\ pendingRegions[i] # 0
    OBVIOUS
  <2>2. \A x \in Begun : \E i \in Regions : pendingRegions[i] = x
    BY DEF Begun
  <2>3. \A i \in Regions : pendingRegions[i] \in Begun
    BY DEF Begun
  <2>4. \A i, j \in Regions : pendingRegions[i] = pendingRegions[j] => i = j
    BY <1>0, <2>1 DEF RegionsDiffer
  <2> HIDE DEF Regions
  <2>5. f \in [Regions -> Begun]
    BY <2>3
  <2>6. (\A i, j \in Regions : f[i] = f[j] => i = j) /\ \A x \in Begun : \E i \in Regions : f[i] = x
    BY <2>2, <2>4
  <2> HIDE DEF f
  <2>. QED  BY <1>7, <2>5, <2>6, CountMatched
<1>10. Cardinality(Callers) = Cardinality(Called)
  <2> DEFINE f == [c \in Callers |-> call[c].ev]
  <2>1. \A c \in Callers : c \in Clients /\ call[c].ev # 0
    OBVIOUS
  <2>2. \A x \in Called : \E c \in Callers : call[c].ev = x
    BY CalledAre
  <2>3. \A c \in Callers : call[c].ev \in Called
    BY CalledAre
  <2>4. \A c, d \in Callers : call[c].ev = call[d].ev => c = d
    BY <1>0, <2>1 DEF CallsDiffer
  <2> HIDE DEF Callers
  <2>5. f \in [Callers -> Called]
    BY <2>3
  <2>6. (\A c, d \in Callers : f[c] = f[d] => c = d) /\ \A x \in Called : \E c \in Callers : f[c] = x
    BY <2>2, <2>4
  <2> HIDE DEF f
  <2>. QED  BY <1>7, <2>5, <2>6, CountMatched
<1>11. Cardinality(UNION {{i} \X AllWaiting[i].evs : i \in DOMAIN AllWaiting}) = Cardinality(Events)
  BY <1>0, <1>7, ListsInARow, CountEvents DEF Events
<1>12. /\ live = Begun \cup Called \cup Events
       /\ Cardinality(live) = Cardinality(Regions) + Cardinality(Callers)
            + Cardinality(UNION {{i} \X AllWaiting[i].evs : i \in DOMAIN AllWaiting})
  BY <1>4, <1>8, <1>9, <1>10, <1>11
<1>. QED  BY <1>12 DEF HandlesOwned, Begun, Called, Events, AllWaiting

\* Every cudaEvent has exactly one owner until it is destroyed, and none is
\* destroyed while it has one: no leak, no double destroy, no use after it.
THEOREM HandlesOwnedCorrect == Spec => []HandlesOwned
BY HandlesCounted, TrackerInit, TrackerStep, PTL DEF Spec
=============================================================================
