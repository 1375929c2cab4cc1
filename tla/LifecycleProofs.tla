--------------------------- MODULE LifecycleProofs ---------------------------
(***************************************************************************)
(* Proofs about Lifecycle, for any set of suites, probes, threads and      *)
(* signals: an object is torn down once, a forked child leaves its         *)
(* parent's flusher and objects alone, and exit() ends the process only    *)
(* when everything is stopped; with one suite, a deferred signal is taken  *)
(* and a signal takes its course only when everything is flushed.          *)
(*                                                                         *)
(* The state is a stack of frames per thread, so the invariants speak of   *)
(* frames at a position: who is past the lock of an object's stopMutex,    *)
(* and what a frame below the top still waits for.                         *)
(***************************************************************************)
EXTENDS Lifecycle, SequenceTheorems, FiniteSetTheorems, TLAPS

---------------------------------------------------------------------------
(* Frames and stacks.                                                      *)

Calls == {"stop", "all", "exit", "destroy", "handler", "flusher"}

AllPlaces ==
  {"lock", "scope", "mark", "check", "teardown", "remove", "unregister", "leave",
   "clear", "take", "unlock", "pick", "copy", "call", "erase", "read",
   "write", "hook", "end", "enter", "running", "stopping", "whose", "waitstop",
   "finish", "defer", "drain", "wake", "waitdone", "chain"}

AnyFrame == [proc : Calls, at : AllPlaces, on : Objects \union Signals \union {None}]

\* What a frame works on.
Shaped(f) ==
  /\ f.proc = "stop" => f.on \in Objects
  /\ f.proc = "all" /\ f.at \in {"call", "erase"} => f.on \in Objects
  /\ f.proc = "destroy" => f.on \in Suites

FrameT == {f \in AnyFrame : Shaped(f)}

Places(t) == 1..Len(stack[t])

\* How a step may change the stack of t: its top frame becomes f, g is pushed,
\* both, or the top frame goes.
OthersStay(t) == \A u \in Threads \ {t} : stack'[u] = stack[u]

Replaces(t, f) ==
  /\ OthersStay(t) /\ Len(stack'[t]) = Len(stack[t])
  /\ \A i \in 1..(Len(stack[t]) - 1) : stack'[t][i] = stack[t][i]
  /\ stack'[t][Len(stack[t])] = f

Pushes(t, g) ==
  /\ OthersStay(t) /\ Len(stack'[t]) = Len(stack[t]) + 1
  /\ \A i \in Places(t) : stack'[t][i] = stack[t][i]
  /\ stack'[t][Len(stack[t]) + 1] = g

Calls2(t, f, g) ==
  /\ OthersStay(t) /\ Len(stack'[t]) = Len(stack[t]) + 1
  /\ \A i \in 1..(Len(stack[t]) - 1) : stack'[t][i] = stack[t][i]
  /\ stack'[t][Len(stack[t])] = f
  /\ stack'[t][Len(stack[t]) + 1] = g

Drops(t) ==
  /\ OthersStay(t) /\ Len(stack'[t]) = Len(stack[t]) - 1
  /\ \A i \in 1..(Len(stack[t]) - 1) : stack'[t][i] = stack[t][i]

Stacks == stack \in [Threads -> Seq(FrameT)]

LEMMA TopFrame ==
  ASSUME Stacks, NEW t \in Threads, NEW p, NEW a, At(t, p, a)
  PROVE  /\ Len(stack[t]) \in Nat \ {0} /\ Active(t)
         /\ stack[t][Len(stack[t])] = Frame(p, a, On(t))
         /\ stack[t][Len(stack[t])] \in FrameT
         /\ stack[t] \in Seq(FrameT)
<1>1. stack[t] \in Seq(FrameT) /\ stack[t] # <<>>
  BY DEF Stacks, At
<1>2. Len(stack[t]) \in Nat \ {0} /\ stack[t][Len(stack[t])] \in FrameT
  BY <1>1
<1>3. stack[t][Len(stack[t])].proc = p /\ stack[t][Len(stack[t])].at = a
      /\ stack[t][Len(stack[t])].on = On(t)
  BY DEF At, On, Last
<1>4. stack[t][Len(stack[t])] \in AnyFrame
  BY <1>2 DEF FrameT
<1>. QED  BY <1>1, <1>2, <1>3, <1>4 DEF AnyFrame, Frame, At

LEMMA TopReplaced ==
  ASSUME NEW S, NEW s \in Seq(S), NEW f \in S, s # <<>>
  PROVE  LET r == [s EXCEPT ![Len(s)] = f] IN
         /\ r \in Seq(S) /\ Len(r) = Len(s) /\ r[Len(s)] = f
         /\ \A i \in 1..(Len(s) - 1) : r[i] = s[i]
<1>1. Len(s) \in 1..Len(s) /\ \A i \in 1..(Len(s) - 1) : i \in 1..Len(s) /\ i # Len(s)
  OBVIOUS
<1>. QED  BY <1>1, ExceptSeq

LEMMA GotoReplaces ==
  ASSUME Stacks, NEW t \in Threads, NEW p, NEW a, At(t, p, a), NEW b \in AllPlaces, Goto(t, b),
         Shaped(Frame(p, b, On(t)))
  PROVE  Stacks' /\ Replaces(t, Frame(p, b, On(t)))
<1> DEFINE n == Len(stack[t])
           f == Frame(p, b, On(t))
<1>1. n \in Nat \ {0} /\ stack[t][n] = Frame(p, a, On(t)) /\ stack[t] \in Seq(FrameT) /\ stack[t][n] \in FrameT
  BY TopFrame
<1>2. f \in FrameT
  BY <1>1 DEF FrameT, AnyFrame, Frame
<1>3. stack'[t] = [stack[t] EXCEPT ![n].at = b] /\ OthersStay(t)
  BY DEF Stacks, Goto, To, OthersStay
<1>4. [stack[t][n] EXCEPT !.at = b] = f
  BY <1>1 DEF Frame
<1>5. stack'[t] = [stack[t] EXCEPT ![n] = f]
  BY <1>3, <1>4
<1>6. stack'[t] \in Seq(FrameT) /\ Len(stack'[t]) = n /\ stack'[t][n] = f
      /\ \A i \in 1..(n - 1) : stack'[t][i] = stack[t][i]
  <2>1. stack[t] # <<>>
    BY DEF At
  <2>. HIDE DEF n, f
  <2>2. stack'[t] = [stack[t] EXCEPT ![Len(stack[t])] = f] /\ n = Len(stack[t])
    BY <1>5 DEF n
  <2>. QED  BY <1>1, <1>2, <2>1, <2>2, TopReplaced
<1>7. Stacks'
  BY <1>6 DEF Stacks, Goto
<1>. QED  BY <1>3, <1>6, <1>7 DEF Replaces

LEMMA CallCalls ==
  ASSUME Stacks, NEW t \in Threads, NEW p, NEW a, At(t, p, a), NEW b \in AllPlaces, NEW g \in FrameT,
         Call(t, b, g), Shaped(Frame(p, b, On(t)))
  PROVE  Stacks' /\ Calls2(t, Frame(p, b, On(t)), g)
<1> DEFINE n == Len(stack[t])
           f == Frame(p, b, On(t))
           s == [stack[t] EXCEPT ![n] = f]
<1>1. n \in Nat \ {0} /\ stack[t][n] = Frame(p, a, On(t)) /\ stack[t] \in Seq(FrameT) /\ stack[t][n] \in FrameT
  BY TopFrame
<1>2. f \in FrameT
  BY <1>1 DEF FrameT, AnyFrame, Frame
<1>3. stack'[t] = Append([stack[t] EXCEPT ![n].at = b], g) /\ OthersStay(t)
  BY DEF Stacks, Call, To, OthersStay
<1>4. [stack[t][n] EXCEPT !.at = b] = f
  BY <1>1 DEF Frame
<1>5. stack'[t] = Append(s, g)
  BY <1>3, <1>4
<1>6. s \in Seq(FrameT) /\ Len(s) = n /\ s[n] = f /\ \A i \in 1..(n - 1) : s[i] = stack[t][i]
  BY <1>1, <1>2, TopReplaced
<1> HIDE DEF s
<1>7. stack'[t] \in Seq(FrameT) /\ Len(stack'[t]) = n + 1 /\ stack'[t][n + 1] = g
      /\ \A i \in 1..n : stack'[t][i] = s[i]
  BY <1>5, <1>6
<1>8. Stacks'
  BY <1>7 DEF Stacks, Call
<1>. QED  BY <1>1, <1>3, <1>6, <1>7, <1>8 DEF Calls2

LEMMA PushPushes ==
  ASSUME Stacks, NEW t \in Threads, NEW g \in FrameT, Push(t, g)
  PROVE  Stacks' /\ Pushes(t, g)
<1>1. stack[t] \in Seq(FrameT) /\ stack'[t] = Append(stack[t], g) /\ OthersStay(t)
  BY DEF Stacks, Push, OthersStay
<1>2. stack'[t] \in Seq(FrameT) /\ Len(stack'[t]) = Len(stack[t]) + 1 /\ stack'[t][Len(stack[t]) + 1] = g
      /\ \A i \in Places(t) : stack'[t][i] = stack[t][i]
  BY <1>1 DEF Places
<1>3. Stacks'
  BY <1>2 DEF Stacks, Push
<1>. QED  BY <1>1, <1>2, <1>3 DEF Pushes

LEMMA ReturnDrops ==
  ASSUME Stacks, NEW t \in Threads, stack[t] # <<>>, Return(t)
  PROVE  Stacks' /\ Drops(t)
<1> DEFINE n == Len(stack[t])
<1>1. stack[t] \in Seq(FrameT) /\ n \in Nat \ {0}
  BY DEF Stacks
<1>2. stack'[t] = [i \in 1..(n - 1) |-> stack[t][i]] /\ OthersStay(t)
  BY <1>1 DEF Stacks, Return, Front, OthersStay
<1>3. stack'[t] \in Seq(FrameT) /\ Len(stack'[t]) = n - 1 /\ \A i \in 1..(n - 1) : stack'[t][i] = stack[t][i]
  BY <1>1, <1>2
<1>4. Stacks'
  BY <1>3 DEF Stacks, Return
<1>. QED  BY <1>2, <1>3, <1>4 DEF Drops

LEMMA CopyReplaces ==
  ASSUME Stacks, NEW t \in Threads, NEW p, NEW a, At(t, p, a), NEW f \in FrameT,
         stack' = [stack EXCEPT ![t] = Append(Front(@), f)]
  PROVE  Stacks' /\ Replaces(t, f)
<1> DEFINE n == Len(stack[t])
           s == [i \in 1..(n - 1) |-> stack[t][i]]
<1>1. n \in Nat \ {0} /\ stack[t] \in Seq(FrameT)
  BY TopFrame
<1>2. s \in Seq(FrameT) /\ Len(s) = n - 1 /\ \A i \in 1..(n - 1) : s[i] = stack[t][i]
  BY <1>1
<1>3. stack'[t] = Append(s, f) /\ OthersStay(t)
  BY <1>1 DEF Stacks, Front, OthersStay
<1> HIDE DEF s
<1>a. Len(s) + 1 = n /\ \A i \in 1..(n - 1) : i \in 1..Len(s)
  BY <1>1, <1>2
<1>4. stack'[t] \in Seq(FrameT) /\ Len(stack'[t]) = n /\ stack'[t][n] = f
      /\ \A i \in 1..(n - 1) : stack'[t][i] = s[i]
  <2>1. Append(s, f) \in Seq(FrameT) /\ Len(Append(s, f)) = n /\ Append(s, f)[n] = f
        /\ \A i \in 1..Len(s) : Append(s, f)[i] = s[i]
    BY <1>2, <1>a, AppendProperties
  <2>. QED  BY <2>1, <1>3, <1>a
<1>5. Stacks'
  BY <1>4 DEF Stacks
<1>. QED  BY <1>1, <1>2, <1>3, <1>4, <1>5 DEF Replaces

\* What a frame of a Stop() works on.
LEMMA StopOn ==
  ASSUME Stacks, NEW t \in Threads, NEW a, At(t, "stop", a)
  PROVE  On(t) \in Objects /\ stack[t][Len(stack[t])] = Frame("stop", a, On(t))
<1>1. stack[t][Len(stack[t])] = Frame("stop", a, On(t)) /\ stack[t][Len(stack[t])] \in FrameT
  BY TopFrame
<1>2. Shaped(Frame("stop", a, On(t)))
  BY <1>1 DEF FrameT
<1>. QED  BY <1>1, <1>2 DEF Shaped, Frame

LEMMA StopShape ==
  ASSUME NEW a, NEW o \in Objects
  PROVE  Shaped(Frame("stop", a, o)) /\ (a \in AllPlaces => Frame("stop", a, o) \in FrameT)
BY DEF Shaped, Frame, FrameT, AnyFrame, Calls

\* A Stop() in progress moves to its next place.
LEMMA StopGoesOn ==
  ASSUME Stacks, NEW t \in Threads, NEW a, At(t, "stop", a), NEW b \in AllPlaces, Goto(t, b)
  PROVE  Stacks' /\ Replaces(t, Frame("stop", b, On(t)))
BY StopOn, StopShape, GotoReplaces

\* Frames of other kinds.
OtherKinds == Calls \ {"stop"}

LEMMA OtherShape ==
  ASSUME NEW p \in {"exit", "handler", "flusher"}, NEW a \in AllPlaces,
         NEW o \in Objects \union Signals \union {None}
  PROVE  Shaped(Frame(p, a, o)) /\ Frame(p, a, o) \in FrameT
BY DEF Shaped, Frame, FrameT, AnyFrame, Calls

LEMMA OnSomething ==
  ASSUME Stacks, NEW t \in Threads, NEW p, NEW a, At(t, p, a)
  PROVE  /\ On(t) \in Objects \union Signals \union {None}
         /\ p = "all" /\ a \in {"call", "erase"} => On(t) \in Objects
         /\ p = "destroy" => On(t) \in Suites
<1>1. stack[t][Len(stack[t])] = Frame(p, a, On(t)) /\ stack[t][Len(stack[t])] \in FrameT
  BY TopFrame
<1>2. Frame(p, a, On(t)) \in AnyFrame /\ Shaped(Frame(p, a, On(t)))
  BY <1>1 DEF FrameT
<1>3. On(t) \in Objects \union Signals \union {None}
  BY <1>2 DEF AnyFrame, Frame
<1>. QED  BY <1>2, <1>3 DEF Shaped, Frame

LEMMA OtherGoesOn ==
  ASSUME Stacks, NEW t \in Threads, NEW p \in {"exit", "handler", "flusher"}, NEW a, At(t, p, a),
         NEW b \in AllPlaces, Goto(t, b)
  PROVE  Stacks' /\ Replaces(t, Frame(p, b, On(t)))
BY OnSomething, OtherShape, GotoReplaces

---------------------------------------------------------------------------
(* What the steps of each kind of call do to the stacks.                   *)

\* A step of a Stop() that only moves it on: where from, and where to.
Between(t, a, b) == At(t, "stop", a) /\ Replaces(t, Frame("stop", b, On(t)))

LEMMA StopMoves ==
  ASSUME Stacks, NEW t \in Threads
  PROVE  /\ StopLock(t) => Stacks' /\ Between(t, "lock", "scope")
         /\ ScopeCount(t) => Stacks' /\ Between(t, "scope", "mark")
         /\ ScopeMark(t) => Stacks' /\ Between(t, "mark", "check")
         /\ StopCheck(t) => Stacks' /\ Between(t, "check", IF Ended(On(t)) THEN "leave" ELSE "teardown")
         /\ Teardown(t) => Stacks' /\ Between(t, "teardown", IF On(t) \in Suites THEN "remove" ELSE "unregister")
         /\ RemoveSignalHandlers(t) => Stacks' /\ Between(t, "remove", "unregister")
         /\ Unregister(t) => Stacks' /\ Between(t, "unregister", "leave")
         /\ ScopeLeave(t) => Stacks' /\ Between(t, "leave", IF IsLast THEN "clear" ELSE "unlock")
         /\ ScopeClear(t) => Stacks' /\ Between(t, "clear", "take")
         /\ TakeDeferred(t) => Stacks' /\ Between(t, "take", "unlock")
<1>1. StopLock(t) => Stacks' /\ Between(t, "lock", "scope")
  BY StopGoesOn DEF AllPlaces, StopLock, Between
<1>2. ScopeCount(t) => Stacks' /\ Between(t, "scope", "mark")
  BY StopGoesOn DEF AllPlaces, ScopeCount, Between
<1>3. ScopeMark(t) => Stacks' /\ Between(t, "mark", "check")
  BY StopGoesOn DEF AllPlaces, ScopeMark, Between
<1>4. StopCheck(t) => Stacks' /\ Between(t, "check", IF Ended(On(t)) THEN "leave" ELSE "teardown")
  BY StopGoesOn DEF AllPlaces, StopCheck, Between
<1>5. Teardown(t) => Stacks' /\ Between(t, "teardown", IF On(t) \in Suites THEN "remove" ELSE "unregister")
  BY StopGoesOn DEF AllPlaces, Teardown, Between
<1>6. RemoveSignalHandlers(t) => Stacks' /\ Between(t, "remove", "unregister")
  BY StopGoesOn DEF AllPlaces, RemoveSignalHandlers, Between
<1>7. Unregister(t) => Stacks' /\ Between(t, "unregister", "leave")
  BY StopGoesOn DEF AllPlaces, Unregister, Between
<1>8. ScopeLeave(t) => Stacks' /\ Between(t, "leave", IF IsLast THEN "clear" ELSE "unlock")
  BY StopGoesOn DEF AllPlaces, ScopeLeave, Between
<1>9. ScopeClear(t) => Stacks' /\ Between(t, "clear", "take")
  BY StopGoesOn DEF AllPlaces, ScopeClear, Between
<1>10. TakeDeferred(t) => Stacks' /\ Between(t, "take", "unlock")
  BY StopGoesOn DEF AllPlaces, TakeDeferred, Between
<1>. QED  BY <1>1, <1>2, <1>3, <1>4, <1>5, <1>6, <1>7, <1>8, <1>9, <1>10

LEMMA StopCallsAndReturns ==
  ASSUME Stacks, NEW t \in Threads
  PROVE  /\ StopMember(t) => /\ Stacks' /\ At(t, "stop", "teardown")
                             /\ \E p \in Probes : Calls2(t, Frame("stop", "teardown", On(t)), Frame("stop", "lock", p))
         /\ StopUnlock(t) => Stacks' /\ At(t, "stop", "unlock") /\ Drops(t)
<1>1. ASSUME StopMember(t)
      PROVE  /\ Stacks' /\ At(t, "stop", "teardown")
             /\ \E p \in Probes : Calls2(t, Frame("stop", "teardown", On(t)), Frame("stop", "lock", p))
  <2>1. At(t, "stop", "teardown")
    BY <1>1 DEF StopMember
  <2>2. PICK p \in Probes : Call(t, "teardown", Frame("stop", "lock", p))
    BY <1>1 DEF StopMember
  <2>3. p \in Objects
    BY DEF Objects
  <2>4. On(t) \in Objects /\ Frame("stop", "lock", p) \in FrameT
    BY <2>1, <2>3, StopOn, StopShape DEF AllPlaces
  <2>5. Shaped(Frame("stop", "teardown", On(t))) /\ "teardown" \in AllPlaces
    BY <2>4, StopShape DEF AllPlaces
  <2>6. Stacks' /\ Calls2(t, Frame("stop", "teardown", On(t)), Frame("stop", "lock", p))
    BY <2>1, <2>2, <2>4, <2>5, CallCalls
  <2>. QED  BY <2>1, <2>6
<1>2. StopUnlock(t) => Stacks' /\ At(t, "stop", "unlock") /\ Drops(t)
  BY ReturnDrops DEF StopUnlock, At
<1>. QED  BY <1>1, <1>2

\* StopAll(), the flusher, the exit hook and the destructor.
Moves(t, p, a, b) == At(t, p, a) /\ Replaces(t, Frame(p, b, On(t)))

LEMMA AllShape ==
  ASSUME NEW a \in AllPlaces, NEW o \in Objects \union {None}, a \in {"call", "erase"} => o \in Objects
  PROVE  Shaped(Frame("all", a, o)) /\ Frame("all", a, o) \in FrameT
BY DEF Shaped, Frame, FrameT, AnyFrame, Calls

LEMMA AllGoesOn ==
  ASSUME Stacks, NEW t \in Threads, NEW a, At(t, "all", a), NEW b \in {"pick", "copy"}, Goto(t, b)
  PROVE  Stacks' /\ Replaces(t, Frame("all", b, On(t)))
<1>1. Shaped(Frame("all", b, On(t))) /\ b \in AllPlaces
  BY DEF Shaped, Frame, AllPlaces
<1>. QED  BY <1>1, GotoReplaces

LEMMA DestroyGoesOn ==
  ASSUME Stacks, NEW t \in Threads, NEW a, At(t, "destroy", a), NEW b \in AllPlaces, Goto(t, b)
  PROVE  Stacks' /\ Replaces(t, Frame("destroy", b, On(t)))
<1>1. On(t) \in Suites
  BY OnSomething
<1>2. Shaped(Frame("destroy", b, On(t)))
  BY <1>1 DEF Shaped, Frame
<1>. QED  BY <1>2, GotoReplaces

LEMMA StopAllMoves ==
  ASSUME Stacks, registry \subseteq Objects, NEW t \in Threads
  PROVE  /\ StopAllLock(t) => /\ Stacks' /\ At(t, "all", "pick")
                              /\ \/ registry = {} /\ Drops(t)
                                 \/ registry # {} /\ Replaces(t, Frame("all", "copy", On(t)))
         /\ StopAllCopy(t) => /\ Stacks' /\ At(t, "all", "copy")
                              /\ \E o \in registry : Replaces(t, Frame("all", "call", o))
         /\ StopAllCall(t) => /\ Stacks' /\ At(t, "all", "call") /\ On(t) \in Objects
                              /\ Calls2(t, Frame("all", "erase", On(t)), Frame("stop", "lock", On(t)))
         /\ StopAllErase(t) => Stacks' /\ Moves(t, "all", "erase", "pick")
<1>1. ASSUME StopAllLock(t)
      PROVE  /\ Stacks' /\ At(t, "all", "pick")
             /\ \/ registry = {} /\ Drops(t)
                \/ registry # {} /\ Replaces(t, Frame("all", "copy", On(t)))
  <2>1. At(t, "all", "pick") /\ stack[t] # <<>>
    BY <1>1 DEF StopAllLock, At
  <2>2. CASE registry = {}
    BY <1>1, <2>1, <2>2, ReturnDrops DEF StopAllLock, NothingLeft
  <2>3. CASE registry # {}
    BY <1>1, <2>1, <2>3, AllGoesOn DEF StopAllLock, NothingLeft
  <2>. QED  BY <2>2, <2>3
<1>2. ASSUME StopAllCopy(t)
      PROVE  Stacks' /\ At(t, "all", "copy") /\ \E o \in registry : Replaces(t, Frame("all", "call", o))
  <2>1. At(t, "all", "copy")
    BY <1>2 DEF StopAllCopy
  <2>2. PICK o \in FirstEntries : stack' = [stack EXCEPT ![t] = Append(Front(@), Frame("all", "call", o))]
    BY <1>2 DEF StopAllCopy
  <2>3. o \in registry /\ o \in Objects
    BY DEF FirstEntries
  <2>4. Frame("all", "call", o) \in FrameT
    BY <2>3, AllShape DEF AllPlaces
  <2>5. Stacks' /\ Replaces(t, Frame("all", "call", o))
    BY <2>1, <2>2, <2>4, CopyReplaces
  <2>. QED  BY <2>1, <2>3, <2>5
<1>3. ASSUME StopAllCall(t)
      PROVE  /\ Stacks' /\ At(t, "all", "call") /\ On(t) \in Objects
             /\ Calls2(t, Frame("all", "erase", On(t)), Frame("stop", "lock", On(t)))
  <2>1. At(t, "all", "call") /\ Call(t, "erase", Frame("stop", "lock", On(t)))
    BY <1>3 DEF StopAllCall
  <2>2. On(t) \in Objects
    BY <2>1, OnSomething
  <2>3. Frame("stop", "lock", On(t)) \in FrameT /\ Shaped(Frame("all", "erase", On(t))) /\ "erase" \in AllPlaces
    BY <2>2, StopShape, AllShape DEF AllPlaces
  <2>. QED  BY <2>1, <2>2, <2>3, CallCalls
<1>4. StopAllErase(t) => Stacks' /\ Moves(t, "all", "erase", "pick")
  BY AllGoesOn DEF StopAllErase, Moves
<1>. QED  BY <1>1, <1>2, <1>3, <1>4

LEMMA PickShape ==
  Frame("all", "pick", None) \in FrameT
BY AllShape DEF AllPlaces

LEMMA EndMoves ==
  ASSUME Stacks, NEW t \in Threads
  PROVE  /\ ExitHook(t) => /\ Stacks' /\ At(t, "exit", "hook")
                           /\ \/ child = None /\ Calls2(t, Frame("exit", "end", On(t)), Frame("all", "pick", None))
                              \/ child # None /\ Replaces(t, Frame("exit", "end", On(t)))
         /\ DestroyCheck(t) => /\ Stacks' /\ At(t, "destroy", "check") /\ On(t) \in Suites
                               /\ \/ Calls2(t, Frame("destroy", "erase", On(t)), Frame("stop", "lock", On(t)))
                                  \/ Replaces(t, Frame("destroy", "erase", On(t)))
         /\ DestroyErase(t) => Stacks' /\ At(t, "destroy", "erase") /\ Drops(t)
<1>1. ASSUME ExitHook(t)
      PROVE  /\ Stacks' /\ At(t, "exit", "hook")
             /\ \/ child = None /\ Calls2(t, Frame("exit", "end", On(t)), Frame("all", "pick", None))
                \/ child # None /\ Replaces(t, Frame("exit", "end", On(t)))
  <2>1. At(t, "exit", "hook")
    BY <1>1 DEF ExitHook
  <2>2. CASE child = None
    <3>1. Call(t, "end", Frame("all", "pick", None))
      BY <1>1, <2>2 DEF ExitHook
    <3>2. Shaped(Frame("exit", "end", On(t))) /\ "end" \in AllPlaces
      BY DEF Shaped, Frame, AllPlaces
    <3>. QED  BY <2>1, <2>2, <3>1, <3>2, PickShape, CallCalls
  <2>3. CASE child # None
    BY <1>1, <2>1, <2>3, OtherGoesOn DEF ExitHook, AllPlaces
  <2>. QED  BY <2>2, <2>3
<1>2. ASSUME DestroyCheck(t)
      PROVE  /\ Stacks' /\ At(t, "destroy", "check") /\ On(t) \in Suites
             /\ \/ Calls2(t, Frame("destroy", "erase", On(t)), Frame("stop", "lock", On(t)))
                \/ Replaces(t, Frame("destroy", "erase", On(t)))
  <2>1. At(t, "destroy", "check") /\ On(t) \in Suites /\ On(t) \in Objects
    BY <1>2, OnSomething DEF DestroyCheck, Objects
  <2>2. Frame("stop", "lock", On(t)) \in FrameT /\ Shaped(Frame("destroy", "erase", On(t))) /\ "erase" \in AllPlaces
    BY <2>1, StopShape DEF Shaped, Frame, AllPlaces
  <2>3. CASE Call(t, "erase", Frame("stop", "lock", On(t)))
    BY <2>1, <2>2, <2>3, CallCalls
  <2>4. CASE Goto(t, "erase")
    BY <2>1, <2>2, <2>4, DestroyGoesOn
  <2>. QED  BY <1>2, <2>3, <2>4 DEF DestroyCheck
<1>3. DestroyErase(t) => Stacks' /\ At(t, "destroy", "erase") /\ Drops(t)
  BY ReturnDrops DEF DestroyErase, At
<1>. QED  BY <1>1, <1>2, <1>3

LEMMA FlusherMoves ==
  ASSUME Stacks
  PROVE  /\ FlusherRead => /\ Stacks' /\ At(Flusher, "flusher", "read")
                           /\ Calls2(Flusher, Frame("flusher", "write", On(Flusher)), Frame("all", "pick", None))
         /\ FlusherWrite => Stacks' /\ Moves(Flusher, "flusher", "write", "read")
<1>. Flusher \in Threads
  BY DEF Threads
<1>1. ASSUME FlusherRead
      PROVE  /\ Stacks' /\ At(Flusher, "flusher", "read")
             /\ Calls2(Flusher, Frame("flusher", "write", On(Flusher)), Frame("all", "pick", None))
  <2>1. Shaped(Frame("flusher", "write", On(Flusher))) /\ "write" \in AllPlaces
    BY DEF Shaped, Frame, AllPlaces
  <2>. QED  BY <1>1, <2>1, PickShape, CallCalls DEF FlusherRead
<1>2. FlusherWrite => Stacks' /\ Moves(Flusher, "flusher", "write", "read")
  BY OtherGoesOn DEF FlusherWrite, Moves, AllPlaces
<1>. QED  BY <1>1, <1>2

\* The handler. All its steps but the first and the last two only move it on.
HandlerMoves(t) ==
  \E a, b \in AllPlaces : a # "enter" /\ b # "enter" /\ Moves(t, "handler", a, b)

LEMMA HandlerGoesOn ==
  ASSUME Stacks, NEW t \in Threads,
         \/ HandlerRunning(t) \/ HandlerStopping(t) \/ HandlerWhose(t) \/ HandlerDrain(t) \/ HandlerWake(t)
         \/ HandlerWaited(t) \/ HandlerExpires(t) \/ HandlerFinish(t)
  PROVE  Stacks' /\ HandlerMoves(t)
<1>1. \E a, b \in AllPlaces : a # "enter" /\ b # "enter" /\ At(t, "handler", a) /\ Goto(t, b)
  <2>1. CASE HandlerRunning(t)
    BY <2>1 DEF HandlerRunning, AllPlaces
  <2>2. CASE HandlerStopping(t)
    BY <2>2 DEF HandlerStopping, AllPlaces
  <2>3. CASE HandlerWhose(t)
    BY <2>3 DEF HandlerWhose, AllPlaces
  <2>4. CASE HandlerDrain(t)
    BY <2>4 DEF HandlerDrain, AllPlaces
  <2>5. CASE HandlerWake(t)
    BY <2>5 DEF HandlerWake, AllPlaces
  <2>6. CASE HandlerFinish(t)
    BY <2>6 DEF HandlerFinish, AllPlaces
  <2>7. CASE HandlerWaited(t)
    BY <2>7 DEF HandlerWaited, Awaited, AllPlaces
  <2>8. CASE HandlerExpires(t)
    BY <2>8 DEF HandlerExpires, InWait, AllPlaces
  <2>. QED  BY <2>1, <2>2, <2>3, <2>4, <2>5, <2>6, <2>7, <2>8
<1>. QED  BY <1>1, OtherGoesOn DEF HandlerMoves, Moves

LEMMA HandlerEndMoves ==
  ASSUME Stacks, NEW t \in Threads
  PROVE  /\ HandlerEnter(t) => /\ Stacks' /\ At(t, "handler", "enter")
                               /\ \/ child # None /\ Drops(t)
                                  \/ child = None /\ Replaces(t, Frame("handler", "running", On(t)))
                                  \/ child = None /\ UNCHANGED stack
         /\ HandlerDefer(t) => Stacks' /\ At(t, "handler", "defer") /\ Drops(t)
         /\ HandlerChain(t) => Stacks' /\ At(t, "handler", "chain") /\ Drops(t)
<1>1. ASSUME HandlerEnter(t)
      PROVE  /\ Stacks' /\ At(t, "handler", "enter")
             /\ \/ child # None /\ Drops(t)
                \/ child = None /\ Replaces(t, Frame("handler", "running", On(t)))
                \/ child = None /\ UNCHANGED stack
  <2>1. At(t, "handler", "enter") /\ stack[t] # <<>>
    BY <1>1 DEF HandlerEnter, At
  <2>2. \/ child # None /\ Return(t)
        \/ child = None /\ Goto(t, "running")
        \/ child = None /\ UNCHANGED stack
    BY <1>1 DEF HandlerEnter, OwnsFlusher
  <2>3. "running" \in AllPlaces
    BY DEF AllPlaces
  <2>4. CASE child # None /\ Return(t)
    BY <2>1, <2>4, ReturnDrops
  <2>5. CASE child = None /\ Goto(t, "running")
    BY <2>1, <2>3, <2>5, OtherGoesOn
  <2>6. CASE child = None /\ UNCHANGED stack
    BY <2>1, <2>6 DEF Stacks
  <2>. QED  BY <2>2, <2>4, <2>5, <2>6
<1>2. HandlerDefer(t) => Stacks' /\ At(t, "handler", "defer") /\ Drops(t)
  BY ReturnDrops DEF HandlerDefer, At
<1>3. HandlerChain(t) => Stacks' /\ At(t, "handler", "chain") /\ Drops(t)
  BY ReturnDrops DEF HandlerChain, At
<1>. QED  BY <1>1, <1>2, <1>3

\* The host: a call is the first frame of a thread, a signal one on top.
LEMMA HostMoves ==
  ASSUME Stacks, NEW t \in Threads
  PROVE  /\ HostStop(t) => /\ Stacks' /\ Idle(t) /\ child = None
                           /\ \E o \in Objects : Pushes(t, Frame("stop", "lock", o))
         /\ HostDestroy(t) => /\ Stacks' /\ Idle(t) /\ child = None
                              /\ \E o \in Suites : Pushes(t, Frame("destroy", "check", o))
         /\ HostExit(t) => Stacks' /\ Idle(t) /\ Pushes(t, Frame("exit", "hook", None))
         /\ Fork(t) => Idle(t) /\ child = None /\ child' = t /\ UNCHANGED stack
<1>1. ASSUME HostStop(t)
      PROVE  Stacks' /\ Idle(t) /\ child = None /\ \E o \in Objects : Pushes(t, Frame("stop", "lock", o))
  <2>1. Idle(t) /\ child = None
    BY <1>1 DEF HostStop, HostCall
  <2>2. PICK o \in Suites : Push(t, Frame("stop", "lock", o))
    BY <1>1 DEF HostStop
  <2>3. o \in Objects /\ Frame("stop", "lock", o) \in FrameT
    BY StopShape DEF Objects, AllPlaces
  <2>. QED  BY <2>1, <2>2, <2>3, PushPushes
<1>2. ASSUME HostDestroy(t)
      PROVE  Stacks' /\ Idle(t) /\ child = None /\ \E o \in Suites : Pushes(t, Frame("destroy", "check", o))
  <2>1. Idle(t) /\ child = None
    BY <1>2 DEF HostDestroy, HostCall
  <2>2. PICK o \in Suites : Push(t, Frame("destroy", "check", o))
    BY <1>2 DEF HostDestroy
  <2>3. Frame("destroy", "check", o) \in FrameT
    BY DEF Shaped, Frame, FrameT, AnyFrame, Calls, AllPlaces, Objects
  <2>. QED  BY <2>1, <2>2, <2>3, PushPushes
<1>3. HostExit(t) => Stacks' /\ Idle(t) /\ Pushes(t, Frame("exit", "hook", None))
  BY PushPushes, OtherShape DEF HostExit, HostCall, AllPlaces
<1>4. Fork(t) => Idle(t) /\ child = None /\ child' = t /\ UNCHANGED stack
  BY DEF Fork, HostCall
<1>. QED  BY <1>1, <1>2, <1>3, <1>4

LEMMA WorldMoves ==
  ASSUME Stacks
  PROVE  /\ \A t \in Threads, s \in Signals :
              Signal(t, s) => Stacks' /\ Active(t) /\ (Pushes(t, Frame("handler", "enter", s)) \/ UNCHANGED stack)
         /\ WorkerFatal => Stacks' /\ Idle(Worker) /\ Pushes(Worker, Frame("exit", "hook", None))
<1>1. ASSUME NEW t \in Threads, NEW s \in Signals, Signal(t, s)
      PROVE  Stacks' /\ Active(t) /\ (Pushes(t, Frame("handler", "enter", s)) \/ UNCHANGED stack)
  <2>1. Active(t) /\ (Push(t, Frame("handler", "enter", s)) \/ UNCHANGED stack)
    BY <1>1 DEF Signal
  <2>2. Frame("handler", "enter", s) \in FrameT
    BY OtherShape DEF AllPlaces
  <2>3. CASE Push(t, Frame("handler", "enter", s))
    BY <2>1, <2>2, <2>3, PushPushes
  <2>4. CASE UNCHANGED stack
    BY <2>1, <2>4 DEF Stacks
  <2>. QED  BY <2>1, <2>3, <2>4
<1>2. WorkerFatal => Stacks' /\ Idle(Worker) /\ Pushes(Worker, Frame("exit", "hook", None))
  <2>1. Worker \in Threads /\ Frame("exit", "hook", None) \in FrameT
    BY OtherShape DEF Threads, AllPlaces
  <2>. QED  BY <2>1, PushPushes DEF WorkerFatal, HostCall
<1>. QED  BY <1>1, <1>2

---------------------------------------------------------------------------
(* The invariants.                                                         *)

IsPast(t, i) == stack[t][i].proc = "stop" /\ stack[t][i].at # "lock"
TearsDown(t, i) == stack[t][i].proc = "stop" /\ stack[t][i].at = "teardown"

TypedObjects ==
  /\ lock \in [Objects -> Threads \union {None}]
  /\ running \in [Objects -> BOOLEAN] /\ stopped \in [Suites -> BOOLEAN]
  /\ ends \in [Objects -> Nat] /\ registry \subseteq Objects

\* A Stop() past the lock holds its object's stopMutex, and there is only one
\* of them for an object.
Holding ==
  /\ \A t \in Threads : \A i \in Places(t) : IsPast(t, i) => lock[stack[t][i].on] = t
  /\ \A t \in Threads : \A i, j \in Places(t) :
       IsPast(t, i) /\ IsPast(t, j) /\ stack[t][i].on = stack[t][j].on => i = j

\* An object is torn down by the Stop() that found it running, and never again.
EndsOnce ==
  /\ \A o \in Objects : ends[o] = 0 \/ (ends[o] = 1 /\ ~running[o])
  /\ \A s \in Suites : ends[s] = 1 => stopped[s]
  /\ \A t \in Threads : \A i \in Places(t) :
       TearsDown(t, i) => ends[stack[t][i].on] = 0 /\ (stack[t][i].on \in Suites => stopped[stack[t][i].on])

\* A forked child has been interrupted or exits; nothing else is on its stack.
ChildAlone ==
  /\ child \in Threads \union {None}
  /\ child # None =>
       \A i \in Places(child) :
         \/ stack[child][i].proc = "exit"
         \/ stack[child][i].proc = "handler" /\ stack[child][i].at = "enter"

\* Past its teardown a Stop() leaves its object stopped, and so does one that
\* found it stopped; a suite that is stopped but runs is being torn down.
Late == {"remove", "unregister", "leave", "clear", "take", "unlock"}

StopsIt ==
  /\ \A t \in Threads : \A i \in Places(t) :
       stack[t][i].proc = "stop" /\ stack[t][i].at \in Late => ~running[stack[t][i].on]
  /\ \A s \in Suites : stopped[s] /\ running[s] =>
       \E t \in Threads : \E i \in Places(t) : TearsDown(t, i) /\ stack[t][i].on = s

\* What left the registry is stopped; StopAll() erases what it has stopped.
Erased ==
  /\ \A t \in Threads : \A i \in Places(t) : stack[t][i].proc # "destroy"
  /\ \A o \in Objects \ registry : ~running[o]
  /\ \A t \in Threads : \A i \in Places(t) :
       stack[t][i].proc = "all" /\ stack[t][i].at = "erase" =>
         \/ ~running[stack[t][i].on]
         \/ /\ i + 1 \in Places(t) /\ stack[t][i + 1].proc = "stop"
            /\ stack[t][i + 1].on = stack[t][i].on

\* The exit hook goes on when StopAll() found nothing registered.
ExitsLast ==
  /\ child = None =>
       \A t \in Threads : \A i \in Places(t) :
         stack[t][i].proc = "exit" /\ stack[t][i].at = "end" =>
           registry = {} \/ (i + 1 \in Places(t) /\ stack[t][i + 1].proc = "all")
  /\ dead = "exit" /\ child = None => registry = {}

---------------------------------------------------------------------------
(* Most steps leave the Stop()s in progress where they are, or move one on *)
(* between two places that are alike.                                      *)

StopsKept ==
  \A u \in Threads : \A i \in 1..Len(stack'[u]) :
    stack'[u][i].proc = "stop" /\ stack'[u][i].at # "lock" =>
      /\ i \in Places(u) /\ IsPast(u, i) /\ stack'[u][i].on = stack[u][i].on
      /\ stack'[u][i].at = "teardown" => stack[u][i].at = "teardown"
      /\ stack'[u][i].at \in Late => stack[u][i].at \in Late

TearsForth ==
  \A u \in Threads : \A i \in Places(u) :
    TearsDown(u, i) =>
      /\ i \in 1..Len(stack'[u]) /\ stack'[u][i].proc = "stop" /\ stack'[u][i].at = "teardown"
      /\ stack'[u][i].on = stack[u][i].on

\* Frames that are alike for the Stop()s.
Alike(e, f) ==
  \/ e.proc # "stop" /\ f.proc # "stop"
  \/ /\ e.proc = "stop" /\ f.proc = "stop" /\ e.on = f.on /\ e.at # "lock"
     /\ e.at = "teardown" <=> f.at = "teardown"
     /\ f.at \in Late => e.at \in Late

NotPast(f) == f.proc # "stop" \/ f.at = "lock"

Tops(t) == stack[t][Len(stack[t])]

LEMMA QuietReplaces ==
  ASSUME Stacks, Stacks', NEW t \in Threads, stack[t] # <<>>, NEW f, Replaces(t, f), Alike(Tops(t), f)
  PROVE  StopsKept /\ TearsForth
<1>1. Len(stack[t]) \in Nat \ {0} /\ Len(stack'[t]) = Len(stack[t])
  BY DEF Stacks, Replaces
<1>2. \A u \in Threads : \A i \in Places(u) :
        \/ stack'[u][i] = stack[u][i]
        \/ u = t /\ i = Len(stack[t]) /\ stack'[u][i] = f
  BY <1>1 DEF Replaces, OthersStay, Places
<1>3. \A u \in Threads : Len(stack'[u]) = Len(stack[u])
  BY <1>1 DEF OthersStay, Replaces
<1>4. StopsKept
  BY <1>2, <1>3 DEF StopsKept, Places, IsPast, Alike, Tops
<1>5. TearsForth
  BY <1>2, <1>3 DEF TearsForth, Places, TearsDown, Alike, Tops
<1>. QED  BY <1>4, <1>5

LEMMA QuietCalls ==
  ASSUME Stacks, Stacks', NEW t \in Threads, stack[t] # <<>>, NEW f, NEW g, Calls2(t, f, g),
         Alike(Tops(t), f), NotPast(g)
  PROVE  StopsKept /\ TearsForth
<1>1. Len(stack[t]) \in Nat \ {0} /\ Len(stack'[t]) = Len(stack[t]) + 1
  BY DEF Stacks, Calls2
<1>2. \A u \in Threads : \A i \in Places(u) :
        \/ stack'[u][i] = stack[u][i]
        \/ u = t /\ i = Len(stack[t]) /\ stack'[u][i] = f
  BY <1>1 DEF Calls2, OthersStay, Places
<1>3. \A u \in Threads : \A i \in 1..Len(stack'[u]) :
        i \in Places(u) \/ stack'[u][i] = g
  BY <1>1 DEF Calls2, OthersStay, Places
<1>4. \A u \in Threads : \A i \in Places(u) : i \in 1..Len(stack'[u])
  BY <1>1 DEF Calls2, OthersStay, Places
<1>5. StopsKept
  BY <1>2, <1>3 DEF StopsKept, IsPast, Alike, NotPast, Tops
<1>6. TearsForth
  BY <1>2, <1>4 DEF TearsForth, TearsDown, Alike, Tops
<1>. QED  BY <1>5, <1>6

LEMMA QuietPushes ==
  ASSUME Stacks, Stacks', NEW t \in Threads, NEW g, Pushes(t, g), NotPast(g)
  PROVE  StopsKept /\ TearsForth
<1>1. Len(stack[t]) \in Nat /\ Len(stack'[t]) = Len(stack[t]) + 1
  BY DEF Stacks, Pushes
<1>2. \A u \in Threads : \A i \in Places(u) : stack'[u][i] = stack[u][i]
  BY <1>1 DEF Pushes, OthersStay, Places
<1>3. \A u \in Threads : \A i \in 1..Len(stack'[u]) :
        i \in Places(u) \/ stack'[u][i] = g
  BY <1>1 DEF Pushes, OthersStay, Places
<1>4. \A u \in Threads : \A i \in Places(u) : i \in 1..Len(stack'[u])
  BY <1>1 DEF Pushes, OthersStay, Places
<1>5. StopsKept
  BY <1>2, <1>3 DEF StopsKept, IsPast, NotPast
<1>6. TearsForth
  BY <1>2, <1>4 DEF TearsForth, TearsDown
<1>. QED  BY <1>5, <1>6

LEMMA QuietDrops ==
  ASSUME Stacks, Stacks', NEW t \in Threads, stack[t] # <<>>, Drops(t),
         Tops(t).proc # "stop" \/ Tops(t).at # "teardown"
  PROVE  StopsKept /\ TearsForth
<1>1. Len(stack[t]) \in Nat \ {0} /\ Len(stack'[t]) = Len(stack[t]) - 1
  BY DEF Stacks, Drops
<1>2. \A u \in Threads : \A i \in 1..Len(stack'[u]) : i \in Places(u) /\ stack'[u][i] = stack[u][i]
  BY <1>1 DEF Drops, OthersStay, Places
<1>3. \A u \in Threads : \A i \in Places(u) :
        i \in 1..Len(stack'[u]) \/ (u = t /\ i = Len(stack[t]))
  BY <1>1 DEF Drops, OthersStay, Places
<1>4. StopsKept
  BY <1>2 DEF StopsKept, IsPast
<1>5. TearsForth
  BY <1>2, <1>3 DEF TearsForth, TearsDown, Tops
<1>. QED  BY <1>4, <1>5

LEMMA QuietStutters ==
  ASSUME UNCHANGED stack
  PROVE  StopsKept /\ TearsForth
BY DEF StopsKept, TearsForth, Places, IsPast, TearsDown

LEMMA TopAt ==
  ASSUME Stacks, NEW t \in Threads, NEW p, NEW a, At(t, p, a)
  PROVE  stack[t] # <<>> /\ Tops(t) = Frame(p, a, On(t)) /\ Active(t)
BY TopFrame DEF Tops, At

\* The steps that are not: three of Stop()'s.
LEMMA QuietBetween ==
  ASSUME Stacks, Stacks', NEW t \in Threads, NEW a, NEW b, Between(t, a, b), a # "lock",
         a = "teardown" <=> b = "teardown", b \in Late => a \in Late
  PROVE  StopsKept /\ TearsForth
<1>1. At(t, "stop", a) /\ Replaces(t, Frame("stop", b, On(t)))
  BY DEF Between
<1>2. stack[t] # <<>> /\ Tops(t) = Frame("stop", a, On(t))
  BY <1>1, TopAt
<1>3. Alike(Tops(t), Frame("stop", b, On(t)))
  BY <1>2 DEF Alike, Frame
<1>. QED  BY <1>1, <1>2, <1>3, QuietReplaces

LEMMA QuietMoves ==
  ASSUME Stacks, Stacks', NEW t \in Threads, NEW p \in OtherKinds, NEW a, NEW b, Moves(t, p, a, b)
  PROVE  StopsKept /\ TearsForth
<1>1. At(t, p, a) /\ Replaces(t, Frame(p, b, On(t)))
  BY DEF Moves
<1>2. stack[t] # <<>> /\ Tops(t) = Frame(p, a, On(t))
  BY <1>1, TopAt
<1>3. Alike(Tops(t), Frame(p, b, On(t)))
  BY <1>2 DEF Alike, Frame, OtherKinds
<1>. QED  BY <1>1, <1>2, <1>3, QuietReplaces

Quiet == StopsKept /\ TearsForth /\ UNCHANGED <<lock, running, stopped, ends>>

Loud(t) == StopLock(t) \/ StopCheck(t) \/ Teardown(t) \/ StopUnlock(t)

LEMMA QuietStop ==
  ASSUME Stacks, NEW t \in Threads, StopSteps(t), ~Loud(t)
  PROVE  Stacks' /\ Quiet
<1>1. CASE ScopeCount(t)
  BY <1>1, StopMoves, QuietBetween DEF ScopeCount, lockVars, objVars, Late, Quiet
<1>2. CASE ScopeMark(t)
  BY <1>2, StopMoves, QuietBetween DEF ScopeMark, lockVars, objVars, Late, Quiet
<1>3. CASE StopMember(t)
  <2>1. Stacks' /\ At(t, "stop", "teardown") /\ UNCHANGED <<lock, running, stopped, ends>>
    BY <1>3, StopCallsAndReturns DEF StopMember, lockVars, objVars
  <2>2. PICK p \in Probes : Calls2(t, Frame("stop", "teardown", On(t)), Frame("stop", "lock", p))
    BY <1>3, StopCallsAndReturns
  <2>3. stack[t] # <<>> /\ Tops(t) = Frame("stop", "teardown", On(t))
    BY <2>1, TopAt
  <2>4. Alike(Tops(t), Frame("stop", "teardown", On(t))) /\ NotPast(Frame("stop", "lock", p))
    BY <2>3 DEF Alike, NotPast, Frame
  <2>. QED  BY <2>1, <2>2, <2>3, <2>4, QuietCalls DEF Quiet
<1>4. CASE JoinsItself(t)
  BY <1>4, QuietStutters DEF JoinsItself, lockVars, objVars, Quiet, Stacks
<1>5. CASE RemoveSignalHandlers(t)
  BY <1>5, StopMoves, QuietBetween DEF RemoveSignalHandlers, lockVars, objVars, Late, Quiet
<1>6. CASE Unregister(t)
  BY <1>6, StopMoves, QuietBetween DEF Unregister, lockVars, objVars, Late, Quiet
<1>7. CASE ScopeLeave(t)
  BY <1>7, StopMoves, QuietBetween DEF ScopeLeave, lockVars, objVars, Late, Quiet
<1>8. CASE ScopeClear(t)
  BY <1>8, StopMoves, QuietBetween DEF ScopeClear, lockVars, objVars, Late, Quiet
<1>9. CASE TakeDeferred(t)
  BY <1>9, StopMoves, QuietBetween DEF TakeDeferred, lockVars, objVars, Late, Quiet
<1>. QED  BY <1>1, <1>2, <1>3, <1>4, <1>5, <1>6, <1>7, <1>8, <1>9 DEF StopSteps, Loud

LEMMA QuietStopAll ==
  ASSUME Stacks, registry \subseteq Objects, NEW t \in Threads, StopAllSteps(t)
  PROVE  Stacks' /\ Quiet
<1>0. UNCHANGED <<lock, running, stopped, ends>>
  BY DEF StopAllSteps, StopAllLock, StopAllCopy, StopAllCall, StopAllErase, lockVars, objVars
<1>1. CASE StopAllLock(t)
  <2>1. Stacks' /\ At(t, "all", "pick") /\ (Drops(t) \/ Replaces(t, Frame("all", "copy", On(t))))
    BY <1>1, StopAllMoves
  <2>2. stack[t] # <<>> /\ Tops(t) = Frame("all", "pick", On(t))
    BY <2>1, TopAt
  <2>3. Tops(t).proc # "stop" /\ Alike(Tops(t), Frame("all", "copy", On(t)))
    BY <2>2 DEF Alike, Frame
  <2>. QED  BY <1>0, <2>1, <2>2, <2>3, QuietDrops, QuietReplaces DEF Quiet
<1>2. CASE StopAllCopy(t)
  <2>1. Stacks' /\ At(t, "all", "copy")
    BY <1>2, StopAllMoves
  <2>2. PICK o \in registry : Replaces(t, Frame("all", "call", o))
    BY <1>2, StopAllMoves
  <2>3. stack[t] # <<>> /\ Tops(t) = Frame("all", "copy", On(t))
    BY <2>1, TopAt
  <2>4. Alike(Tops(t), Frame("all", "call", o))
    BY <2>3 DEF Alike, Frame
  <2>. QED  BY <1>0, <2>1, <2>2, <2>3, <2>4, QuietReplaces DEF Quiet
<1>3. CASE StopAllCall(t)
  <2>1. Stacks' /\ At(t, "all", "call")
        /\ Calls2(t, Frame("all", "erase", On(t)), Frame("stop", "lock", On(t)))
    BY <1>3, StopAllMoves
  <2>2. stack[t] # <<>> /\ Tops(t) = Frame("all", "call", On(t))
    BY <2>1, TopAt
  <2>3. Alike(Tops(t), Frame("all", "erase", On(t))) /\ NotPast(Frame("stop", "lock", On(t)))
    BY <2>2 DEF Alike, NotPast, Frame
  <2>. QED  BY <1>0, <2>1, <2>2, <2>3, QuietCalls DEF Quiet
<1>4. CASE StopAllErase(t)
  BY <1>0, <1>4, StopAllMoves, QuietMoves DEF OtherKinds, Calls, Quiet
<1>. QED  BY <1>1, <1>2, <1>3, <1>4 DEF StopAllSteps

LEMMA QuietEnd ==
  ASSUME Stacks, NEW t \in Threads, EndSteps(t)
  PROVE  Stacks' /\ Quiet
<1>0. UNCHANGED <<lock, running, stopped, ends>>
  BY DEF EndSteps, ExitHook, ExitEnd, DestroyCheck, DestroyErase, lockVars, objVars
<1>1. CASE ExitHook(t)
  <2>1. /\ Stacks' /\ At(t, "exit", "hook")
        /\ \/ Calls2(t, Frame("exit", "end", On(t)), Frame("all", "pick", None))
           \/ Replaces(t, Frame("exit", "end", On(t)))
    BY <1>1, EndMoves
  <2>2. stack[t] # <<>> /\ Tops(t) = Frame("exit", "hook", On(t))
    BY <2>1, TopAt
  <2>3. Alike(Tops(t), Frame("exit", "end", On(t))) /\ NotPast(Frame("all", "pick", None))
    BY <2>2 DEF Alike, NotPast, Frame
  <2>. QED  BY <1>0, <2>1, <2>2, <2>3, QuietCalls, QuietReplaces DEF Quiet
<1>2. CASE ExitEnd(t)
  BY <1>0, <1>2, QuietStutters DEF ExitEnd, Quiet, Stacks
<1>3. CASE DestroyCheck(t)
  <2>1. /\ Stacks' /\ At(t, "destroy", "check")
        /\ \/ Calls2(t, Frame("destroy", "erase", On(t)), Frame("stop", "lock", On(t)))
           \/ Replaces(t, Frame("destroy", "erase", On(t)))
    BY <1>3, EndMoves
  <2>2. stack[t] # <<>> /\ Tops(t) = Frame("destroy", "check", On(t))
    BY <2>1, TopAt
  <2>3. Alike(Tops(t), Frame("destroy", "erase", On(t))) /\ NotPast(Frame("stop", "lock", On(t)))
    BY <2>2 DEF Alike, NotPast, Frame
  <2>. QED  BY <1>0, <2>1, <2>2, <2>3, QuietCalls, QuietReplaces DEF Quiet
<1>4. CASE DestroyErase(t)
  <2>1. Stacks' /\ At(t, "destroy", "erase") /\ Drops(t)
    BY <1>4, EndMoves
  <2>2. stack[t] # <<>> /\ Tops(t).proc # "stop"
    BY <2>1, TopAt DEF Frame
  <2>. QED  BY <1>0, <2>1, <2>2, QuietDrops DEF Quiet
<1>. QED  BY <1>1, <1>2, <1>3, <1>4 DEF EndSteps

LEMMA QuietFlusher ==
  ASSUME Stacks, FlusherSteps
  PROVE  Stacks' /\ Quiet
<1>. Flusher \in Threads
  BY DEF Threads
<1>0. UNCHANGED <<lock, running, stopped, ends>>
  BY DEF FlusherSteps, FlusherRead, FlusherWrite, lockVars, objVars
<1>1. CASE FlusherRead
  <2>1. /\ Stacks' /\ At(Flusher, "flusher", "read")
        /\ Calls2(Flusher, Frame("flusher", "write", On(Flusher)), Frame("all", "pick", None))
    BY <1>1, FlusherMoves
  <2>2. stack[Flusher] # <<>> /\ Tops(Flusher) = Frame("flusher", "read", On(Flusher))
    BY <2>1, TopAt
  <2>3. Alike(Tops(Flusher), Frame("flusher", "write", On(Flusher))) /\ NotPast(Frame("all", "pick", None))
    BY <2>2 DEF Alike, NotPast, Frame
  <2>. QED  BY <1>0, <2>1, <2>2, <2>3, QuietCalls DEF Quiet
<1>2. CASE FlusherWrite
  BY <1>0, <1>2, FlusherMoves, QuietMoves DEF OtherKinds, Calls, Quiet
<1>. QED  BY <1>1, <1>2 DEF FlusherSteps

LEMMA QuietHandler ==
  ASSUME Stacks, NEW t \in Threads, HandlerSteps(t)
  PROVE  Stacks' /\ Quiet
<1>0. UNCHANGED <<lock, running, stopped, ends>>
  BY DEF HandlerSteps, HandlerEnter, HandlerRunning, HandlerStopping, HandlerWhose, HandlerDefer,
         HandlerDrain, HandlerWake, HandlerWaited, HandlerExpires, HandlerFinish, HandlerChain, lockVars, objVars
<1>1. CASE HandlerEnter(t)
  <2>1. /\ Stacks' /\ At(t, "handler", "enter")
        /\ Drops(t) \/ Replaces(t, Frame("handler", "running", On(t))) \/ UNCHANGED stack
    BY <1>1, HandlerEndMoves
  <2>2. stack[t] # <<>> /\ Tops(t) = Frame("handler", "enter", On(t))
    BY <2>1, TopAt
  <2>3. Tops(t).proc # "stop" /\ Alike(Tops(t), Frame("handler", "running", On(t)))
    BY <2>2 DEF Alike, Frame
  <2>. QED  BY <1>0, <2>1, <2>2, <2>3, QuietDrops, QuietReplaces, QuietStutters DEF Quiet
<1>2. CASE HandlerDefer(t) \/ HandlerChain(t)
  <2>1. Stacks' /\ Drops(t) /\ \E a \in AllPlaces : At(t, "handler", a)
    BY <1>2, HandlerEndMoves DEF AllPlaces
  <2>2. stack[t] # <<>> /\ Tops(t).proc # "stop"
    BY <2>1, TopAt DEF Frame
  <2>. QED  BY <1>0, <2>1, <2>2, QuietDrops DEF Quiet
<1>3. CASE \/ HandlerRunning(t) \/ HandlerStopping(t) \/ HandlerWhose(t) \/ HandlerDrain(t) \/ HandlerWake(t)
           \/ HandlerWaited(t) \/ HandlerExpires(t) \/ HandlerFinish(t)
  <2>1. Stacks' /\ HandlerMoves(t)
    BY <1>3, HandlerGoesOn
  <2>2. "handler" \in OtherKinds
    BY DEF OtherKinds, Calls
  <2>. QED  BY <1>0, <2>1, <2>2, QuietMoves DEF HandlerMoves, Quiet
<1>. QED  BY <1>1, <1>2, <1>3 DEF HandlerSteps

LEMMA QuietHost ==
  ASSUME Stacks, NEW t \in Hosts, HostSteps(t)
  PROVE  Stacks' /\ Quiet
<1>. t \in Threads
  BY DEF Threads
<1>0. UNCHANGED <<lock, running, stopped, ends>>
  BY DEF HostSteps, HostStop, HostDestroy, HostExit, Fork, HostCall, Signal, lockVars, objVars
<1>1. CASE HostStop(t)
  <2>1. Stacks'
    BY <1>1, HostMoves
  <2>2. PICK o \in Objects : Pushes(t, Frame("stop", "lock", o))
    BY <1>1, HostMoves
  <2>3. NotPast(Frame("stop", "lock", o))
    BY DEF NotPast, Frame
  <2>. QED  BY <1>0, <2>1, <2>2, <2>3, QuietPushes DEF Quiet
<1>2. CASE HostDestroy(t)
  <2>1. Stacks'
    BY <1>2, HostMoves
  <2>2. PICK o \in Suites : Pushes(t, Frame("destroy", "check", o))
    BY <1>2, HostMoves
  <2>3. NotPast(Frame("destroy", "check", o))
    BY DEF NotPast, Frame
  <2>. QED  BY <1>0, <2>1, <2>2, <2>3, QuietPushes DEF Quiet
<1>3. CASE HostExit(t)
  <2>1. Stacks' /\ Pushes(t, Frame("exit", "hook", None))
    BY <1>3, HostMoves
  <2>2. NotPast(Frame("exit", "hook", None))
    BY DEF NotPast, Frame
  <2>. QED  BY <1>0, <2>1, <2>2, QuietPushes DEF Quiet
<1>4. CASE Fork(t)
  BY <1>0, <1>4, HostMoves, QuietStutters DEF Quiet, Stacks
<1>5. CASE \E s \in Signals : Signal(t, s)
  <2>1. PICK s \in Signals : Signal(t, s)
    BY <1>5
  <2>2. Stacks' /\ (Pushes(t, Frame("handler", "enter", s)) \/ UNCHANGED stack)
    BY <2>1, WorldMoves
  <2>3. NotPast(Frame("handler", "enter", s))
    BY DEF NotPast, Frame
  <2>. QED  BY <1>0, <2>2, <2>3, QuietPushes, QuietStutters DEF Quiet
<1>. QED  BY <1>1, <1>2, <1>3, <1>4, <1>5 DEF HostSteps

LEMMA QuietFatal ==
  ASSUME Stacks, WorkerFatal
  PROVE  Stacks' /\ Quiet
<1>1. Worker \in Threads /\ UNCHANGED <<lock, running, stopped, ends>>
  BY DEF Threads, WorkerFatal, HostCall, lockVars, objVars
<1>2. Stacks' /\ Pushes(Worker, Frame("exit", "hook", None))
  BY WorldMoves
<1>3. NotPast(Frame("exit", "hook", None))
  BY DEF NotPast, Frame
<1>. QED  BY <1>1, <1>2, <1>3, QuietPushes DEF Quiet

\* Every step but the loud ones is quiet.
LEMMA QuietSteps ==
  ASSUME Stacks, registry \subseteq Objects, Next
  PROVE  (\E t \in Threads : Loud(t)) \/ (Stacks' /\ Quiet)
<1>1. CASE \E t \in Threads : Run(t)
  <2>1. PICK t \in Threads : Run(t)
    BY <1>1
  <2>2. CASE StopSteps(t)
    BY <2>2, QuietStop
  <2>3. CASE StopAllSteps(t)
    BY <2>3, QuietStopAll
  <2>4. CASE EndSteps(t)
    BY <2>4, QuietEnd
  <2>5. CASE HandlerSteps(t)
    BY <2>5, QuietHandler
  <2>6. CASE FlusherSteps
    BY <2>6, QuietFlusher
  <2>. QED  BY <2>1, <2>2, <2>3, <2>4, <2>5, <2>6 DEF Run
<1>2. CASE \E t \in Hosts : HostSteps(t)
  BY <1>2, QuietHost
<1>3. CASE WorkerFatal
  BY <1>3, QuietFatal
<1>. QED  BY <1>1, <1>2, <1>3 DEF Next

---------------------------------------------------------------------------
(* The types, the mutexes and the teardowns.                               *)

Typed == Stacks /\ TypedObjects

LEMMA LoudStacks ==
  ASSUME Stacks, NEW t \in Threads, Loud(t)
  PROVE  Stacks'
BY StopMoves, StopCallsAndReturns DEF Loud

LEMMA TypedInit ==
  ASSUME Init
  PROVE  Typed
<1>1. Frame("flusher", "read", None) \in FrameT
  BY OtherShape DEF AllPlaces
<1>2. Stacks
  BY <1>1 DEF Init, Stacks
<1>. QED  BY <1>2 DEF Init, Typed, TypedObjects

LEMMA RegistryShrinks ==
  ASSUME Next
  PROVE  registry' \subseteq registry
<1>1. ASSUME NEW t \in Threads, Run(t)
      PROVE  registry' \subseteq registry
  <2>1. CASE StopSteps(t)
    BY <2>1 DEF StopSteps, StopLock, ScopeCount, ScopeMark, StopCheck, StopMember, Teardown, JoinsItself,
         RemoveSignalHandlers, Unregister, ScopeLeave, ScopeClear, TakeDeferred, StopUnlock, objVars
  <2>2. CASE StopAllSteps(t)
    BY <2>2 DEF StopAllSteps, StopAllLock, StopAllCopy, StopAllCall, StopAllErase, objVars
  <2>3. CASE EndSteps(t)
    BY <2>3 DEF EndSteps, ExitHook, ExitEnd, DestroyCheck, DestroyErase, objVars
  <2>4. CASE HandlerSteps(t)
    BY <2>4 DEF HandlerSteps, HandlerEnter, HandlerRunning, HandlerStopping, HandlerWhose, HandlerDefer,
         HandlerDrain, HandlerWake, HandlerWaited, HandlerExpires, HandlerFinish, HandlerChain, objVars
  <2>5. CASE FlusherSteps
    BY <2>5 DEF FlusherSteps, FlusherRead, FlusherWrite, objVars
  <2>. QED  BY <1>1, <2>1, <2>2, <2>3, <2>4, <2>5 DEF Run
<1>2. ASSUME NEW t \in Hosts, HostSteps(t)
      PROVE  registry' \subseteq registry
  BY <1>2 DEF HostSteps, HostStop, HostDestroy, HostExit, Fork, HostCall, Signal, objVars
<1>3. ASSUME WorkerFatal
      PROVE  registry' \subseteq registry
  BY <1>3 DEF WorkerFatal, HostCall, objVars
<1>. QED  BY <1>1, <1>2, <1>3 DEF Next

\* What the loud steps do to the objects.
LEMMA LoudObjects ==
  ASSUME Typed, NEW t \in Threads, Loud(t)
  PROVE  /\ On(t) \in Objects
         /\ \/ StopLock(t) /\ lock[On(t)] = None /\ lock' = [lock EXCEPT ![On(t)] = t]
               /\ UNCHANGED <<running, stopped, ends>>
            \/ StopCheck(t) /\ stopped' = [o \in Suites |-> stopped[o] \/ o = On(t)]
               /\ UNCHANGED <<lock, running, ends>>
            \/ Teardown(t) /\ running' = [running EXCEPT ![On(t)] = FALSE]
               /\ ends' = [ends EXCEPT ![On(t)] = @ + 1] /\ UNCHANGED <<lock, stopped>>
            \/ StopUnlock(t) /\ lock' = [lock EXCEPT ![On(t)] = None] /\ UNCHANGED <<running, stopped, ends>>
<1>1. \E a \in AllPlaces : At(t, "stop", a)
  BY DEF Loud, StopLock, StopCheck, Teardown, StopUnlock, AllPlaces
<1>2. On(t) \in Objects
  BY <1>1, StopOn DEF Typed
<1>3. CASE StopLock(t)
  BY <1>2, <1>3 DEF StopLock, LockFree, objVars
<1>4. CASE StopCheck(t)
  BY <1>2, <1>4 DEF StopCheck, lockVars
<1>5. CASE Teardown(t)
  BY <1>2, <1>5 DEF Teardown, lockVars
<1>6. CASE StopUnlock(t)
  BY <1>2, <1>6 DEF StopUnlock, objVars
<1>. QED  BY <1>3, <1>4, <1>5, <1>6 DEF Loud

LEMMA TypedStep ==
  ASSUME Typed, [Next]_vars
  PROVE  Typed'
<1>1. CASE UNCHANGED vars
  BY <1>1 DEF Typed, Stacks, TypedObjects, vars, lockVars, objVars
<1>2. CASE Next
  <2>1. registry' \subseteq Objects
    BY <1>2, RegistryShrinks DEF Typed, TypedObjects
  <2>2. CASE Stacks' /\ Quiet
    BY <2>1, <2>2 DEF Typed, TypedObjects, Quiet
  <2>3. ASSUME NEW t \in Threads, Loud(t)
        PROVE  Typed'
    <3>1. Stacks'
      BY <2>3, LoudStacks DEF Typed
    <3>2. lock' \in [Objects -> Threads \union {None}]
      BY <2>3, LoudObjects DEF Typed, TypedObjects
    <3>3. running' \in [Objects -> BOOLEAN]
      BY <2>3, LoudObjects DEF Typed, TypedObjects
    <3>5. ends' \in [Objects -> Nat]
      <4>1. On(t) \in Objects /\ (UNCHANGED ends \/ ends' = [ends EXCEPT ![On(t)] = @ + 1])
        BY <2>3, LoudObjects
      <4>. QED  BY <4>1 DEF Typed, TypedObjects
    <3>4. stopped' \in [Suites -> BOOLEAN]
      BY <2>3, LoudObjects DEF Typed, TypedObjects
    <3>. QED  BY <2>1, <3>1, <3>2, <3>3, <3>4, <3>5 DEF Typed, TypedObjects
  <2>. QED  BY <1>2, <2>2, <2>3, QuietSteps DEF Typed, TypedObjects
<1>. QED  BY <1>1, <1>2

LEMMA AlwaysTyped == Spec => []Typed
BY TypedInit, TypedStep, PTL DEF Spec

\* No Stop() gets past the lock but in StopLock.
PastKept ==
  \A u \in Threads : \A i \in 1..Len(stack'[u]) :
    stack'[u][i].proc = "stop" /\ stack'[u][i].at # "lock" =>
      i \in Places(u) /\ IsPast(u, i) /\ stack'[u][i].on = stack[u][i].on

LEMMA BetweenKeepsPast ==
  ASSUME Stacks, Stacks', NEW t \in Threads, NEW a, NEW b, Between(t, a, b), a # "lock"
  PROVE  PastKept
<1>1. At(t, "stop", a) /\ Replaces(t, Frame("stop", b, On(t)))
  BY DEF Between
<1>2. Len(stack[t]) \in Nat \ {0} /\ stack[t][Len(stack[t])] = Frame("stop", a, On(t))
  BY <1>1, TopFrame
<1>3. \A u \in Threads : \A i \in Places(u) :
        \/ stack'[u][i] = stack[u][i]
        \/ u = t /\ i = Len(stack[t]) /\ stack'[u][i] = Frame("stop", b, On(t))
  BY <1>1, <1>2 DEF Replaces, OthersStay, Places
<1>4. \A u \in Threads : Len(stack'[u]) = Len(stack[u])
  BY <1>1 DEF Replaces, OthersStay
<1>. QED  BY <1>2, <1>3, <1>4 DEF PastKept, IsPast, Places, Frame

LEMMA KeptHolding ==
  ASSUME Holding, PastKept, UNCHANGED lock
  PROVE  Holding'
BY DEF Holding, PastKept, Places, IsPast

LEMMA LockHolding ==
  ASSUME Typed, Stacks', Holding, NEW t \in Threads, StopLock(t)
  PROVE  Holding'
<1>1. Between(t, "lock", "scope") /\ On(t) \in Objects /\ lock[On(t)] = None
      /\ lock' = [lock EXCEPT ![On(t)] = t]
  BY StopMoves, LoudObjects DEF Loud, Typed, StopLock, LockFree
<1>2. Len(stack[t]) \in Nat \ {0} /\ Replaces(t, Frame("stop", "scope", On(t)))
  BY <1>1, TopFrame DEF Between, Typed
<1>3. \A u \in Threads : \A i \in Places(u) :
        \/ stack'[u][i] = stack[u][i] /\ ~(u = t /\ i = Len(stack[t]))
        \/ u = t /\ i = Len(stack[t]) /\ stack'[u][i].on = On(t)
  BY <1>2 DEF Replaces, OthersStay, Places, Frame
<1>4. \A u \in Threads : Len(stack'[u]) = Len(stack[u])
  BY <1>2 DEF Replaces, OthersStay
<1>5. \A u \in Threads : u # None
  BY SetAssumption
<1>6. \A u \in Threads : \A i \in Places(u) : IsPast(u, i) => stack[u][i].on # On(t)
  BY <1>1, <1>5 DEF Holding
<1>7. \A u \in Threads : \A i \in Places(u) : IsPast(u, i) => stack[u][i].on \in Objects
  <2>. SUFFICES ASSUME NEW u \in Threads, NEW i \in Places(u), IsPast(u, i)
                PROVE  stack[u][i].on \in Objects
    OBVIOUS
  <2>1. stack[u][i] \in FrameT
    BY DEF Typed, Stacks, Places
  <2>. QED  BY <2>1 DEF FrameT, Shaped, IsPast
<1>8. lock'[On(t)] = t /\ \A o \in Objects : o # On(t) => lock'[o] = lock[o]
  BY <1>1 DEF Typed, TypedObjects
<1>9. \A u \in Threads : \A i \in Places(u)' : IsPast(u, i)' => lock'[stack'[u][i].on] = u
  BY <1>3, <1>4, <1>6, <1>7, <1>8 DEF Holding, Places, IsPast
<1>10. \A u \in Threads : \A i, j \in Places(u)' :
         IsPast(u, i)' /\ IsPast(u, j)' /\ stack'[u][i].on = stack'[u][j].on => i = j
  BY <1>3, <1>4, <1>6 DEF Holding, Places, IsPast
<1>. QED  BY <1>9, <1>10 DEF Holding

LEMMA UnlockHolding ==
  ASSUME Typed, Stacks', Holding, NEW t \in Threads, StopUnlock(t)
  PROVE  Holding'
<1>1. At(t, "stop", "unlock") /\ Drops(t) /\ On(t) \in Objects /\ lock' = [lock EXCEPT ![On(t)] = None]
  BY StopCallsAndReturns, LoudObjects DEF Loud, Typed, StopUnlock
<1>2. Len(stack[t]) \in Nat \ {0} /\ stack[t][Len(stack[t])] = Frame("stop", "unlock", On(t))
  BY <1>1, TopFrame DEF Typed
<1>3. \A u \in Threads : \A i \in 1..Len(stack'[u]) :
        i \in Places(u) /\ stack'[u][i] = stack[u][i] /\ ~(u = t /\ i = Len(stack[t]))
  BY <1>1, <1>2 DEF Drops, OthersStay, Places
<1>4. Len(stack[t]) \in Places(t) /\ IsPast(t, Len(stack[t])) /\ stack[t][Len(stack[t])].on = On(t)
  BY <1>2 DEF IsPast, Places, Frame
<1>5. lock[On(t)] = t
  BY <1>4 DEF Holding
<1>6. \A u \in Threads : \A i \in Places(u) :
        IsPast(u, i) /\ stack[u][i].on = On(t) => u = t /\ i = Len(stack[t])
  BY <1>4, <1>5 DEF Holding
<1>7. \A u \in Threads : \A i \in Places(u) : IsPast(u, i) => stack[u][i].on \in Objects
  <2>. SUFFICES ASSUME NEW u \in Threads, NEW i \in Places(u), IsPast(u, i)
                PROVE  stack[u][i].on \in Objects
    OBVIOUS
  <2>1. stack[u][i] \in FrameT
    BY DEF Typed, Stacks, Places
  <2>. QED  BY <2>1 DEF FrameT, Shaped, IsPast
<1>8. \A o \in Objects : o # On(t) => lock'[o] = lock[o]
  BY <1>1 DEF Typed, TypedObjects
<1>9. \A u \in Threads : \A i \in Places(u)' : IsPast(u, i)' => lock'[stack'[u][i].on] = u
  BY <1>3, <1>6, <1>7, <1>8 DEF Holding, Places, IsPast
<1>10. \A u \in Threads : \A i, j \in Places(u)' :
         IsPast(u, i)' /\ IsPast(u, j)' /\ stack'[u][i].on = stack'[u][j].on => i = j
  BY <1>3 DEF Holding, Places, IsPast
<1>. QED  BY <1>9, <1>10 DEF Holding

LEMMA HoldingStep ==
  ASSUME Typed, Typed', Holding, [Next]_vars
  PROVE  Holding'
<1>1. CASE UNCHANGED vars
  BY <1>1 DEF Holding, Places, IsPast, vars, lockVars
<1>2. CASE Next
  <2>1. CASE Quiet
    <3>1. PastKept
      BY <2>1 DEF Quiet, StopsKept, PastKept
    <3>. QED  BY <2>1, <3>1, KeptHolding DEF Quiet
  <2>2. ASSUME NEW t \in Threads, Loud(t)
        PROVE  Holding'
    <3>1. CASE StopLock(t)
      BY <3>1, LockHolding DEF Typed
    <3>2. CASE StopUnlock(t)
      BY <3>2, UnlockHolding DEF Typed
    <3>3. CASE StopCheck(t)
      <4>1. PastKept
        BY <3>3, StopMoves, BetweenKeepsPast DEF Typed
      <4>. QED  BY <3>3, <4>1, KeptHolding DEF StopCheck, lockVars
    <3>4. CASE Teardown(t)
      <4>1. PastKept
        BY <3>4, StopMoves, BetweenKeepsPast DEF Typed
      <4>. QED  BY <3>4, <4>1, KeptHolding DEF Teardown, lockVars
    <3>. QED  BY <2>2, <3>1, <3>2, <3>3, <3>4 DEF Loud
  <2>. QED  BY <1>2, <2>1, <2>2, QuietSteps DEF Typed, TypedObjects
<1>. QED  BY <1>1, <1>2

LEMMA HoldingInit ==
  ASSUME Init
  PROVE  Holding
<1>1. \A t \in Threads : stack[t] = IF t = Flusher THEN <<Frame("flusher", "read", None)>> ELSE <<>>
  BY DEF Init
<1>2. \A t \in Threads : \A i \in Places(t) : stack[t][i].proc # "stop"
  BY <1>1 DEF Places, Frame
<1>. QED  BY <1>2 DEF Holding, IsPast

LEMMA BetweenFrames ==
  ASSUME Stacks, NEW t \in Threads, NEW a, NEW b, Between(t, a, b)
  PROVE  /\ Len(stack[t]) \in Places(t) /\ stack[t][Len(stack[t])] = Frame("stop", a, On(t))
         /\ \A u \in Threads : Len(stack'[u]) = Len(stack[u])
         /\ \A u \in Threads : \A i \in Places(u) :
              \/ stack'[u][i] = stack[u][i] /\ ~(u = t /\ i = Len(stack[t]))
              \/ u = t /\ i = Len(stack[t]) /\ stack'[u][i] = Frame("stop", b, On(t))
<1>1. At(t, "stop", a) /\ Replaces(t, Frame("stop", b, On(t)))
  BY DEF Between
<1>2. Len(stack[t]) \in Nat \ {0} /\ stack[t][Len(stack[t])] = Frame("stop", a, On(t))
  BY <1>1, TopFrame
<1>. QED  BY <1>1, <1>2 DEF Replaces, OthersStay, Places

\* The part of EndsOnce that speaks of the objects alone.
TornDownOnce ==
  /\ \A o \in Objects : ends[o] = 0 \/ (ends[o] = 1 /\ ~running[o])
  /\ \A s \in Suites : ends[s] = 1 => stopped[s]

TornDownBy ==
  \A t \in Threads : \A i \in Places(t) :
    TearsDown(t, i) => ends[stack[t][i].on] = 0 /\ (stack[t][i].on \in Suites => stopped[stack[t][i].on])

LEMMA EndsOnceParts == EndsOnce <=> TornDownOnce /\ TornDownBy
BY DEF EndsOnce, TornDownOnce, TornDownBy

LEMMA FramesOnObjects ==
  ASSUME Stacks
  PROVE  \A u \in Threads : \A i \in Places(u) : stack[u][i].proc = "stop" => stack[u][i].on \in Objects
<1>. SUFFICES ASSUME NEW u \in Threads, NEW i \in Places(u), stack[u][i].proc = "stop"
              PROVE  stack[u][i].on \in Objects
  OBVIOUS
<1>1. stack[u][i] \in FrameT
  BY DEF Stacks, Places
<1>. QED  BY <1>1 DEF FrameT, Shaped

LEMMA CheckEndsOnce ==
  ASSUME Typed, Typed', EndsOnce, NEW t \in Threads, StopCheck(t)
  PROVE  EndsOnce'
<1> DEFINE b == IF Ended(On(t)) THEN "leave" ELSE "teardown"
<1>1. Between(t, "check", b) /\ On(t) \in Objects /\ UNCHANGED <<running, ends>>
      /\ stopped' = [o \in Suites |-> stopped[o] \/ o = On(t)]
  BY StopMoves, LoudObjects DEF Loud, Typed, StopCheck, lockVars
<1>2. \A s \in Suites : stopped[s] => stopped'[s]
  BY <1>1
<1>3. TornDownOnce'
  BY <1>1, <1>2, EndsOnceParts DEF TornDownOnce
<1>4. On(t) \in Suites => stopped'[On(t)]
  BY <1>1
<1>5. b = "teardown" => ends[On(t)] = 0
  <2>1. b = "teardown" => ~Ended(On(t))
    OBVIOUS
  <2>2. ~Ended(On(t)) => ends[On(t)] = 0
    BY <1>1, EndsOnceParts DEF Ended, TornDownOnce
  <2>. QED  BY <2>1, <2>2
<1> HIDE DEF b
<1>6. \A u \in Threads : \A i \in Places(u) :
        \/ stack'[u][i] = stack[u][i]
        \/ u = t /\ i = Len(stack[t]) /\ stack'[u][i] = Frame("stop", b, On(t))
  BY <1>1, BetweenFrames DEF Typed
<1>7. \A u \in Threads : Len(stack'[u]) = Len(stack[u])
  BY <1>1, BetweenFrames DEF Typed
<1>8. TornDownBy'
  <2>. SUFFICES ASSUME NEW u \in Threads, NEW i \in Places(u), TearsDown(u, i)'
                PROVE  ends[stack'[u][i].on] = 0
                       /\ (stack'[u][i].on \in Suites => stopped'[stack'[u][i].on])
    BY <1>1, <1>7 DEF TornDownBy, Places
  <2>1. CASE stack'[u][i] = stack[u][i]
    BY <2>1, <1>2, EndsOnceParts DEF TornDownBy, TearsDown
  <2>2. CASE stack'[u][i] = Frame("stop", b, On(t))
    BY <2>2, <1>4, <1>5 DEF TearsDown, Frame
  <2>. QED  BY <1>6, <2>1, <2>2
<1>. QED  BY <1>3, <1>8, EndsOnceParts, PTL

LEMMA TeardownEndsOnce ==
  ASSUME Typed, Typed', Holding, EndsOnce, NEW t \in Threads, Teardown(t)
  PROVE  EndsOnce'
<1> DEFINE b == IF On(t) \in Suites THEN "remove" ELSE "unregister"
<1>1. Between(t, "teardown", b) /\ On(t) \in Objects /\ UNCHANGED stopped
      /\ running' = [running EXCEPT ![On(t)] = FALSE] /\ ends' = [ends EXCEPT ![On(t)] = @ + 1]
  BY StopMoves, LoudObjects DEF Loud, Typed, Teardown, lockVars
<1>2. b # "teardown"
  OBVIOUS
<1> HIDE DEF b
<1>3. /\ Len(stack[t]) \in Places(t) /\ stack[t][Len(stack[t])] = Frame("stop", "teardown", On(t))
      /\ \A u \in Threads : Len(stack'[u]) = Len(stack[u])
      /\ \A u \in Threads : \A i \in Places(u) :
           \/ stack'[u][i] = stack[u][i] /\ ~(u = t /\ i = Len(stack[t]))
           \/ u = t /\ i = Len(stack[t]) /\ stack'[u][i] = Frame("stop", b, On(t))
  BY <1>1, BetweenFrames DEF Typed
<1>4. TearsDown(t, Len(stack[t])) /\ stack[t][Len(stack[t])].on = On(t)
      /\ IsPast(t, Len(stack[t]))
  BY <1>3 DEF TearsDown, IsPast, Frame
<1>5. ends[On(t)] = 0 /\ (On(t) \in Suites => stopped[On(t)])
  BY <1>3, <1>4, EndsOnceParts DEF TornDownBy
<1>6. ends'[On(t)] = 1 /\ running'[On(t)] = FALSE
      /\ \A o \in Objects : o # On(t) => ends'[o] = ends[o] /\ running'[o] = running[o]
  BY <1>1, <1>5 DEF Typed, TypedObjects
<1>7. TornDownOnce'
  <2>1. \A o \in Objects : ends'[o] = 0 \/ (ends'[o] = 1 /\ ~running'[o])
    BY <1>6, EndsOnceParts DEF TornDownOnce
  <2>2. \A s \in Suites : s \in Objects
    BY DEF Objects
  <2>3. \A s \in Suites : ends'[s] = 1 => stopped'[s]
    BY <1>1, <1>5, <1>6, <2>2, EndsOnceParts DEF TornDownOnce
  <2>. QED  BY <2>1, <2>3 DEF TornDownOnce
<1>8. TornDownBy'
  <2>. SUFFICES ASSUME NEW u \in Threads, NEW i \in Places(u), TearsDown(u, i)'
                PROVE  ends'[stack'[u][i].on] = 0
                       /\ (stack'[u][i].on \in Suites => stopped'[stack'[u][i].on])
    BY <1>3 DEF TornDownBy, Places
  <2>1. CASE stack'[u][i] = Frame("stop", b, On(t))
    BY <2>1, <1>2 DEF TearsDown, Frame
  <2>2. CASE stack'[u][i] = stack[u][i] /\ ~(u = t /\ i = Len(stack[t]))
    <3>1. TearsDown(u, i) /\ IsPast(u, i)
      BY <2>2 DEF TearsDown, IsPast
    <3>2. stack[u][i].on # On(t)
      <4>1. stack[u][i].on = On(t) => u = t
        BY <3>1, <1>3, <1>4 DEF Holding
      <4>. QED  BY <3>1, <1>3, <1>4, <2>2, <4>1 DEF Holding
    <3>3. stack[u][i].on \in Objects
      BY <3>1, FramesOnObjects DEF Typed, TearsDown
    <3>. QED  BY <1>1, <1>6, <2>2, <3>1, <3>2, <3>3, EndsOnceParts DEF TornDownBy
  <2>. QED  BY <1>3, <2>1, <2>2
<1>. QED  BY <1>7, <1>8, EndsOnceParts, PTL

LEMMA EndsOnceStep ==
  ASSUME Typed, Typed', Holding, EndsOnce, [Next]_vars
  PROVE  EndsOnce'
<1>1. CASE UNCHANGED vars
  BY <1>1 DEF EndsOnce, Places, TearsDown, vars, objVars
<1>2. CASE Next
  <2>1. ASSUME
               \A u \in Threads : \A i \in 1..Len(stack'[u]) :
                 stack'[u][i].proc = "stop" /\ stack'[u][i].at = "teardown" =>
                   i \in Places(u) /\ TearsDown(u, i) /\ stack'[u][i].on = stack[u][i].on,
               UNCHANGED <<running, stopped, ends>>
        PROVE  EndsOnce'
    <3>1. TornDownOnce'
      BY <2>1, EndsOnceParts DEF TornDownOnce
    <3>2. TornDownBy'
      BY <2>1, EndsOnceParts DEF TornDownBy, TearsDown, Places
    <3>. QED  BY <3>1, <3>2, EndsOnceParts, PTL
  <2>2. CASE Quiet
    <3>1. \A u \in Threads : \A i \in 1..Len(stack'[u]) :
            stack'[u][i].proc = "stop" /\ stack'[u][i].at = "teardown" =>
              i \in Places(u) /\ TearsDown(u, i) /\ stack'[u][i].on = stack[u][i].on
      BY <2>2 DEF Quiet, StopsKept, TearsDown, IsPast
    <3>. QED  BY <2>1, <2>2, <3>1 DEF Quiet
  <2>3. ASSUME NEW t \in Threads, StopLock(t)
        PROVE  EndsOnce'
    <3>1. Between(t, "lock", "scope") /\ UNCHANGED <<running, stopped, ends>>
      BY <2>3, StopMoves DEF Typed, StopLock, objVars
    <3>2. \A u \in Threads : \A i \in 1..Len(stack'[u]) :
            stack'[u][i].proc = "stop" /\ stack'[u][i].at = "teardown" =>
              i \in Places(u) /\ TearsDown(u, i) /\ stack'[u][i].on = stack[u][i].on
      <4>1. /\ \A u \in Threads : Len(stack'[u]) = Len(stack[u])
            /\ \A u \in Threads : \A i \in Places(u) :
                 stack'[u][i] = stack[u][i] \/ stack'[u][i] = Frame("stop", "scope", On(t))
        BY <3>1, BetweenFrames DEF Typed
      <4>. QED  BY <4>1 DEF TearsDown, Places, Frame
    <3>. QED  BY <2>1, <3>1, <3>2
  <2>4. ASSUME NEW t \in Threads, StopUnlock(t)
        PROVE  EndsOnce'
    <3>1. Drops(t) /\ At(t, "stop", "unlock") /\ UNCHANGED <<running, stopped, ends>>
      BY <2>4, StopCallsAndReturns DEF Typed, StopUnlock, objVars
    <3>2. Len(stack[t]) \in Nat \ {0}
      BY <3>1, TopFrame DEF Typed
    <3>3. \A u \in Threads : \A i \in 1..Len(stack'[u]) : i \in Places(u) /\ stack'[u][i] = stack[u][i]
      BY <3>1, <3>2 DEF Drops, OthersStay, Places
    <3>. QED  BY <2>1, <3>1, <3>3 DEF TearsDown
  <2>. QED  BY <1>2, <2>2, <2>3, <2>4, QuietSteps, CheckEndsOnce, TeardownEndsOnce DEF Typed, TypedObjects, Loud
<1>. QED  BY <1>1, <1>2

LEMMA EndsOnceInit ==
  ASSUME Init
  PROVE  EndsOnce
<1>1. \A t \in Threads : stack[t] = IF t = Flusher THEN <<Frame("flusher", "read", None)>> ELSE <<>>
  BY DEF Init
<1>2. \A t \in Threads : \A i \in Places(t) : stack[t][i].proc # "stop"
  BY <1>1 DEF Places, Frame
<1>3. \A o \in Objects : ends[o] = 0
  BY DEF Init
<1>4. \A s \in Suites : s \in Objects
  BY DEF Objects
<1>. QED  BY <1>2, <1>3, <1>4 DEF EndsOnce, TearsDown

StopInv == Typed /\ Holding /\ EndsOnce

LEMMA StopInvariant == Spec => []StopInv
<1>1. Init => StopInv
  BY TypedInit, HoldingInit, EndsOnceInit DEF StopInv
<1>2. StopInv /\ [Next]_vars => StopInv'
  BY TypedStep, HoldingStep, EndsOnceStep DEF StopInv
<1>. QED  BY <1>1, <1>2, PTL DEF Spec

\* Whoever stops an object, and however many at once, it is torn down once: the
\* stopMutex of profiler_suite.cpp:652 and gpu_profiler.cpp:474 and the flag read
\* under it, for any number of threads, objects and signals.
THEOREM RunsOnceCorrect == Spec => []RunsOnce
<1>1. StopInv => RunsOnce
  BY DEF StopInv, EndsOnce, RunsOnce
<1>. QED  BY <1>1, StopInvariant, PTL

---------------------------------------------------------------------------
(* A forked child.                                                         *)

LEMMA ChildTop ==
  ASSUME Stacks, ChildAlone, child # None, NEW t \in Threads, NEW p, NEW a, At(t, p, a)
  PROVE  t = child /\ (p = "exit" \/ (p = "handler" /\ a = "enter"))
<1>1. t = child
  BY DEF At, Active
<1>2. Len(stack[t]) \in Places(t) /\ stack[t][Len(stack[t])] = Frame(p, a, On(t))
  BY TopFrame DEF Places
<1>. QED  BY <1>1, <1>2 DEF ChildAlone, Frame

\* What may happen in the process the model is of once there is a child.
ChildMayStep(t) ==
  \/ ExitHook(t) \/ ExitEnd(t) \/ HandlerEnter(t) \/ HostExit(t) \/ WorkerFatal
  \/ \E s \in Signals : Signal(t, s)

LEMMA ChildSteps ==
  ASSUME Stacks, ChildAlone, child # None, Next
  PROVE  \E t \in Threads : ChildMayStep(t)
<1>1. ASSUME NEW t \in Threads, Run(t)
      PROVE  ChildMayStep(t)
  <2>1. \A a : ~At(t, "stop", a) /\ ~At(t, "all", a) /\ ~At(t, "destroy", a)
    BY ChildTop
  <2>2. \A a : ~At(Flusher, "flusher", a)
    <3>1. Flusher \in Threads
      BY DEF Threads
    <3>. QED  BY <3>1, ChildTop
  <2>3. \A a : At(t, "handler", a) => a = "enter"
    BY ChildTop
  <2>4. ~StopSteps(t)
    BY <2>1 DEF StopSteps, StopLock, ScopeCount, ScopeMark, StopCheck, StopMember, Teardown, JoinsItself,
         RemoveSignalHandlers, Unregister, ScopeLeave, ScopeClear, TakeDeferred, StopUnlock
  <2>5. ~StopAllSteps(t)
    BY <2>1 DEF StopAllSteps, StopAllLock, StopAllCopy, StopAllCall, StopAllErase
  <2>6. ~FlusherSteps
    BY <2>2 DEF FlusherSteps, FlusherRead, FlusherWrite
  <2>7. EndSteps(t) => ExitHook(t) \/ ExitEnd(t)
    BY <2>1 DEF EndSteps, DestroyCheck, DestroyErase
  <2>8. HandlerSteps(t) => HandlerEnter(t)
    BY <2>3 DEF HandlerSteps, HandlerRunning, HandlerStopping, HandlerWhose, HandlerDefer, HandlerDrain,
         HandlerWake, HandlerWaited, HandlerExpires, HandlerFinish, HandlerChain, Awaited, InWait
  <2>. QED  BY <1>1, <2>4, <2>5, <2>6, <2>7, <2>8 DEF Run, ChildMayStep
<1>2. ASSUME NEW t \in Hosts, HostSteps(t)
      PROVE  t \in Threads /\ ChildMayStep(t)
  BY <1>2 DEF HostSteps, HostStop, HostDestroy, Fork, ChildMayStep, Threads
<1>3. ASSUME WorkerFatal
      PROVE  Worker \in Threads /\ ChildMayStep(Worker)
  BY <1>3 DEF ChildMayStep, Threads
<1>. QED  BY <1>1, <1>2, <1>3 DEF Next

\* Only fork() makes a child, and only where there is none.
LEMMA ChildStays ==
  ASSUME Next
  PROVE  child' = child \/ \E t \in Hosts : Fork(t)
<1>1. ASSUME NEW t \in Threads, Run(t)
      PROVE  child' = child
  <2>1. CASE StopSteps(t)
    BY <2>1 DEF StopSteps, StopLock, ScopeCount, ScopeMark, StopCheck, StopMember, Teardown, JoinsItself,
         RemoveSignalHandlers, Unregister, ScopeLeave, ScopeClear, TakeDeferred, StopUnlock, lifeVars, Die, Chain
  <2>2. CASE StopAllSteps(t)
    BY <2>2 DEF StopAllSteps, StopAllLock, StopAllCopy, StopAllCall, StopAllErase, lifeVars
  <2>3. CASE EndSteps(t)
    BY <2>3 DEF EndSteps, ExitHook, ExitEnd, DestroyCheck, DestroyErase, lifeVars, Die
  <2>4. CASE HandlerSteps(t)
    BY <2>4 DEF HandlerSteps, HandlerEnter, HandlerRunning, HandlerStopping, HandlerWhose, HandlerDefer,
         HandlerDrain, HandlerWake, HandlerWaited, HandlerExpires, HandlerFinish, HandlerChain, lifeVars, Die, Chain
  <2>5. CASE FlusherSteps
    BY <2>5 DEF FlusherSteps, FlusherRead, FlusherWrite, lifeVars
  <2>. QED  BY <1>1, <2>1, <2>2, <2>3, <2>4, <2>5 DEF Run
<1>2. ASSUME NEW t \in Hosts, HostSteps(t)
      PROVE  child' = child \/ Fork(t)
  BY <1>2 DEF HostSteps, HostStop, HostDestroy, HostExit, Signal, lifeVars, Die, Chain
<1>3. ASSUME WorkerFatal
      PROVE  child' = child
  BY <1>3 DEF WorkerFatal, lifeVars
<1>. QED  BY <1>1, <1>2, <1>3 DEF Next

LEMMA ChildAloneStep ==
  ASSUME Typed, Typed', ChildAlone, [Next]_vars
  PROVE  ChildAlone'
<1>1. CASE UNCHANGED vars
  BY <1>1 DEF ChildAlone, Places, vars, lifeVars
<1>2. CASE Next /\ child = None
  <2>1. CASE child' = child
    BY <1>2, <2>1 DEF ChildAlone
  <2>2. ASSUME NEW t \in Hosts, Fork(t)
        PROVE  ChildAlone'
    <3>1. t \in Threads /\ child' = t /\ stack'[t] = <<>>
      BY <2>2, HostMoves DEF Typed, Threads, Idle
    <3>. QED  BY <3>1 DEF ChildAlone, Places
  <2>. QED  BY <1>2, <2>1, <2>2, ChildStays
<1>3. CASE Next /\ child # None
  <2>1. child' = child /\ child \in Threads
    BY <1>3, ChildStays DEF Fork, ChildAlone
  <2>2. PICK t \in Threads : ChildMayStep(t)
    BY <1>3, ChildSteps DEF Typed
  <2>3. \A i \in Places(child) :
          \/ stack[child][i].proc = "exit"
          \/ stack[child][i].proc = "handler" /\ stack[child][i].at = "enter"
    BY <1>3 DEF ChildAlone
  <2>4. \A i \in 1..Len(stack'[child]) :
          \/ i \in Places(child) /\ stack'[child][i] = stack[child][i]
          \/ stack'[child][i].proc = "exit"
          \/ stack'[child][i].proc = "handler" /\ stack'[child][i].at = "enter"
    <3>1. CASE ExitHook(t)
      <4>1. At(t, "exit", "hook") /\ Replaces(t, Frame("exit", "end", On(t)))
        BY <1>3, <3>1, EndMoves DEF Typed
      <4>2. Len(stack[t]) \in Nat \ {0}
        BY <4>1, TopFrame DEF Typed
      <4>. QED  BY <2>1, <4>1, <4>2 DEF Replaces, OthersStay, Places, Frame
    <3>2. CASE ExitEnd(t)
      BY <2>1, <3>2 DEF ExitEnd, Places
    <3>3. CASE HandlerEnter(t)
      <4>1. At(t, "handler", "enter") /\ Drops(t)
        BY <1>3, <3>3, HandlerEndMoves DEF Typed
      <4>2. Len(stack[t]) \in Nat \ {0}
        BY <4>1, TopFrame DEF Typed
      <4>. QED  BY <2>1, <4>1, <4>2 DEF Drops, OthersStay, Places
    <3>4. CASE HostExit(t)
      <4>1. Pushes(t, Frame("exit", "hook", None))
        BY <3>4, HostMoves DEF Typed
      <4>2. Len(stack[t]) \in Nat
        BY DEF Typed, Stacks
      <4>. QED  BY <2>1, <4>1, <4>2 DEF Pushes, OthersStay, Places, Frame
    <3>5. CASE WorkerFatal
      <4>1. Worker \in Threads /\ Pushes(Worker, Frame("exit", "hook", None))
        BY <3>5, WorldMoves DEF Typed, Threads
      <4>2. Len(stack[Worker]) \in Nat
        BY <4>1 DEF Typed, Stacks
      <4>. QED  BY <2>1, <4>1, <4>2 DEF Pushes, OthersStay, Places, Frame
    <3>6. CASE \E s \in Signals : Signal(t, s)
      <4>1. PICK s \in Signals : Pushes(t, Frame("handler", "enter", s)) \/ UNCHANGED stack
        BY <3>6, WorldMoves DEF Typed
      <4>2. Len(stack[t]) \in Nat
        BY DEF Typed, Stacks
      <4>3. CASE UNCHANGED stack
        BY <4>3 DEF Places
      <4>4. CASE Pushes(t, Frame("handler", "enter", s))
        BY <2>1, <4>2, <4>4 DEF Pushes, OthersStay, Places, Frame
      <4>. QED  BY <4>1, <4>3, <4>4
    <3>. QED  BY <2>2, <3>1, <3>2, <3>3, <3>4, <3>5, <3>6 DEF ChildMayStep
  <2>. QED  BY <2>1, <2>3, <2>4 DEF ChildAlone, Places
<1>. QED  BY <1>1, <1>2, <1>3

ChildInv == Typed /\ ChildAlone

LEMMA ChildInvariant == Spec => []ChildInv
<1>1. Init => ChildInv
  BY TypedInit DEF ChildInv, ChildAlone, Init
<1>2. ChildInv /\ [Next]_vars => ChildInv'
  BY TypedStep, ChildAloneStep DEF ChildInv
<1>. QED  BY <1>1, <1>2, PTL DEF Spec

\* A forked child that is signalled or exits never writes to the pipe its
\* parent's flusher reads, and stops none of the suites and probes it inherited
\* (lifecycle.cpp:155-161, 284-286), for any number of threads and signals.
THEOREM ChildLeavesParentAloneCorrect == Spec => ChildLeavesParentAlone
<1>1. ASSUME ChildInv, [Next]_vars, child # None
      PROVE  UNCHANGED <<wake, running>>
  <2>1. CASE UNCHANGED vars
    BY <2>1 DEF vars, ioVars, objVars
  <2>2. ASSUME NEW t \in Threads, ChildMayStep(t)
        PROVE  UNCHANGED <<wake, running>>
    BY <2>2 DEF ChildMayStep, ExitHook, ExitEnd, HandlerEnter, HostExit, HostCall, WorkerFatal, Signal, ioVars, objVars
  <2>. QED  BY <1>1, <2>1, <2>2, ChildSteps DEF ChildInv, Typed
<1>2. ChildInv /\ [Next]_vars => [child # None => UNCHANGED <<wake, running>>]_vars
  BY <1>1
<1>. QED  BY <1>2, ChildInvariant, PTL DEF Spec, ChildLeavesParentAlone

---------------------------------------------------------------------------
(* The exit: what every step does to the frames below the top.             *)

Erasing(f) == f.proc = "all" /\ f.at = "erase"
Ending(f) == f.proc = "exit" /\ f.at = "end"

\* A frame stays the call it is; what returns is done; who erases or ends has
\* just called what it waits for.
FramesStay ==
  \A u \in Threads : \A i \in Places(u) :
    i \in 1..Len(stack'[u]) =>
      /\ stack'[u][i].proc = stack[u][i].proc
      /\ stack[u][i].proc = "stop" => stack'[u][i].on = stack[u][i].on

ReturnsDone ==
  \A u \in Threads : \A i \in Places(u) :
    i \notin 1..Len(stack'[u]) =>
      /\ stack[u][i].proc = "stop" => stack[u][i].at = "unlock"
      /\ stack[u][i].proc = "all" => registry = {}

ErasesCalled ==
  \A u \in Threads : \A i \in 1..Len(stack'[u]) :
    Erasing(stack'[u][i]) =>
      \/ i \in Places(u) /\ Erasing(stack[u][i]) /\ stack'[u][i].on = stack[u][i].on
      \/ /\ i + 1 \in 1..Len(stack'[u]) /\ stack'[u][i + 1].proc = "stop"
         /\ stack'[u][i + 1].on = stack'[u][i].on

EndsCalled ==
  \A u \in Threads : \A i \in 1..Len(stack'[u]) :
    Ending(stack'[u][i]) =>
      \/ i \in Places(u) /\ Ending(stack[u][i])
      \/ child # None
      \/ i + 1 \in 1..Len(stack'[u]) /\ stack'[u][i + 1].proc = "all"

NoneDestroys ==
  \A u \in Threads : \A i \in 1..Len(stack'[u]) : stack'[u][i].proc = "destroy" => i \in Places(u)

Framing == FramesStay /\ ReturnsDone /\ ErasesCalled /\ EndsCalled /\ NoneDestroys

\* A top frame f may take the place of e.
Succeeds(e, f) == f.proc = e.proc /\ (e.proc = "stop" => f.on = e.on)

\* A frame that neither erases, ends nor destroys.
Plain(g) == ~Erasing(g) /\ ~Ending(g) /\ g.proc # "destroy"

LEMMA FramingReplaces ==
  ASSUME Stacks, Stacks', NEW t \in Threads, stack[t] # <<>>, NEW f, Replaces(t, f), Succeeds(Tops(t), f),
         ~Erasing(f), Ending(f) => child # None
  PROVE  Framing
<1>a. Len(stack[t]) \in Nat \ {0}
  BY DEF Stacks
<1>b. \A u \in Threads : Len(stack'[u]) = Len(stack[u])
  BY DEF Replaces, OthersStay
<1>1. Len(stack[t]) \in Nat \ {0} /\ \A u \in Threads : Len(stack'[u]) = Len(stack[u])
  BY <1>a, <1>b
<1>2. \A u \in Threads : \A i \in Places(u) :
        \/ stack'[u][i] = stack[u][i]
        \/ u = t /\ i = Len(stack[t]) /\ stack'[u][i] = f
  BY <1>1 DEF Replaces, OthersStay, Places
<1>3. FramesStay
  BY <1>2 DEF FramesStay, Succeeds, Tops
<1>4. ReturnsDone
  BY <1>1 DEF ReturnsDone, Places
<1>5. ErasesCalled
  BY <1>1, <1>2 DEF ErasesCalled, Places
<1>6. EndsCalled
  BY <1>1, <1>2 DEF EndsCalled, Places
<1>7. NoneDestroys
  BY <1>1 DEF NoneDestroys, Places
<1>. QED  BY <1>3, <1>4, <1>5, <1>6, <1>7 DEF Framing

LEMMA FramingPushes ==
  ASSUME Stacks, Stacks', NEW t \in Threads, NEW g, Pushes(t, g), Plain(g)
  PROVE  Framing
<1>1. Len(stack[t]) \in Nat /\ Len(stack'[t]) = Len(stack[t]) + 1
  BY DEF Stacks, Pushes
<1>2. \A u \in Threads : \A i \in Places(u) : stack'[u][i] = stack[u][i] /\ i \in 1..Len(stack'[u])
  BY <1>1 DEF Pushes, OthersStay, Places
<1>3. \A u \in Threads : \A i \in 1..Len(stack'[u]) : i \in Places(u) \/ stack'[u][i] = g
  BY <1>1 DEF Pushes, OthersStay, Places
<1>4. FramesStay /\ ReturnsDone
  BY <1>2 DEF FramesStay, ReturnsDone
<1>5. ErasesCalled /\ EndsCalled /\ NoneDestroys
  BY <1>2, <1>3 DEF ErasesCalled, EndsCalled, NoneDestroys, Plain
<1>. QED  BY <1>4, <1>5 DEF Framing

LEMMA FramingCalls ==
  ASSUME Stacks, Stacks', NEW t \in Threads, stack[t] # <<>>, NEW f, NEW g, Calls2(t, f, g),
         Succeeds(Tops(t), f), Plain(g),
         Erasing(f) => g.proc = "stop" /\ g.on = f.on,
         Ending(f) => g.proc = "all"
  PROVE  Framing
<1>1. Len(stack[t]) \in Nat \ {0} /\ Len(stack'[t]) = Len(stack[t]) + 1
  BY DEF Stacks, Calls2
<1>2. \A u \in Threads : \A i \in Places(u) :
        /\ i \in 1..Len(stack'[u])
        /\ \/ stack'[u][i] = stack[u][i]
           \/ u = t /\ i = Len(stack[t]) /\ stack'[u][i] = f
  BY <1>1 DEF Calls2, OthersStay, Places
<1>3. \A u \in Threads : \A i \in 1..Len(stack'[u]) : i \in Places(u) \/ stack'[u][i] = g
  BY <1>1 DEF Calls2, OthersStay, Places
<1>4. Len(stack[t]) + 1 \in 1..Len(stack'[t]) /\ stack'[t][Len(stack[t]) + 1] = g
  BY <1>1 DEF Calls2
<1>5. FramesStay
  BY <1>2 DEF FramesStay, Succeeds, Tops
<1>6. ReturnsDone
  BY <1>2 DEF ReturnsDone
<1>7. ErasesCalled
  BY <1>2, <1>3, <1>4 DEF ErasesCalled, Plain
<1>8. EndsCalled
  BY <1>2, <1>3, <1>4 DEF EndsCalled, Plain
<1>9. NoneDestroys
  BY <1>3 DEF NoneDestroys, Plain
<1>. QED  BY <1>5, <1>6, <1>7, <1>8, <1>9 DEF Framing

LEMMA FramingDrops ==
  ASSUME Stacks, Stacks', NEW t \in Threads, stack[t] # <<>>, Drops(t),
         Tops(t).proc = "stop" => Tops(t).at = "unlock",
         Tops(t).proc = "all" => registry = {}
  PROVE  Framing
<1>1. Len(stack[t]) \in Nat \ {0} /\ Len(stack'[t]) = Len(stack[t]) - 1
  BY DEF Stacks, Drops
<1>2. \A u \in Threads : \A i \in 1..Len(stack'[u]) : i \in Places(u) /\ stack'[u][i] = stack[u][i]
  BY <1>1 DEF Drops, OthersStay, Places
<1>3. \A u \in Threads : \A i \in Places(u) :
        i \in 1..Len(stack'[u]) \/ (u = t /\ i = Len(stack[t]))
  BY <1>1 DEF Drops, OthersStay, Places
<1>4. FramesStay
  BY <1>2 DEF FramesStay
<1>5. ReturnsDone
  BY <1>3 DEF ReturnsDone, Tops
<1>6. ErasesCalled /\ EndsCalled /\ NoneDestroys
  BY <1>2 DEF ErasesCalled, EndsCalled, NoneDestroys
<1>. QED  BY <1>4, <1>5, <1>6 DEF Framing

LEMMA FramingStutters ==
  ASSUME UNCHANGED stack
  PROVE  Framing
BY DEF Framing, FramesStay, ReturnsDone, ErasesCalled, EndsCalled, NoneDestroys, Places

LEMMA FramingBetween ==
  ASSUME Stacks, Stacks', NEW t \in Threads, NEW a, NEW b, Between(t, a, b)
  PROVE  Framing
<1>1. At(t, "stop", a) /\ Replaces(t, Frame("stop", b, On(t)))
  BY DEF Between
<1>2. stack[t] # <<>> /\ Tops(t) = Frame("stop", a, On(t))
  BY <1>1, TopAt
<1>3. Succeeds(Tops(t), Frame("stop", b, On(t))) /\ Plain(Frame("stop", b, On(t)))
  BY <1>2 DEF Succeeds, Plain, Erasing, Ending, Frame
<1>. QED  BY <1>1, <1>2, <1>3, FramingReplaces DEF Plain

LEMMA FramingMoves ==
  ASSUME Stacks, Stacks', NEW t \in Threads, NEW p \in {"all", "handler", "flusher"}, NEW a, NEW b,
         Moves(t, p, a, b), p = "all" => b # "erase"
  PROVE  Framing
<1>1. At(t, p, a) /\ Replaces(t, Frame(p, b, On(t)))
  BY DEF Moves
<1>2. stack[t] # <<>> /\ Tops(t) = Frame(p, a, On(t))
  BY <1>1, TopAt
<1>3. Succeeds(Tops(t), Frame(p, b, On(t))) /\ ~Erasing(Frame(p, b, On(t))) /\ ~Ending(Frame(p, b, On(t)))
  BY <1>2 DEF Succeeds, Erasing, Ending, Frame
<1>. QED  BY <1>1, <1>2, <1>3, FramingReplaces

LEMMA FramingStop ==
  ASSUME Stacks, NEW t \in Threads, StopSteps(t)
  PROVE  Framing
<1>1. CASE StopLock(t)
  BY <1>1, StopMoves, FramingBetween
<1>2. CASE ScopeCount(t)
  BY <1>2, StopMoves, FramingBetween
<1>3. CASE ScopeMark(t)
  BY <1>3, StopMoves, FramingBetween
<1>4. CASE StopCheck(t)
  BY <1>4, StopMoves, FramingBetween
<1>5. CASE Teardown(t)
  BY <1>5, StopMoves, FramingBetween
<1>6. CASE RemoveSignalHandlers(t)
  BY <1>6, StopMoves, FramingBetween
<1>7. CASE Unregister(t)
  BY <1>7, StopMoves, FramingBetween
<1>8. CASE ScopeLeave(t)
  BY <1>8, StopMoves, FramingBetween
<1>9. CASE ScopeClear(t)
  BY <1>9, StopMoves, FramingBetween
<1>10. CASE TakeDeferred(t)
  BY <1>10, StopMoves, FramingBetween
<1>11. CASE StopMember(t)
  <2>1. Stacks' /\ At(t, "stop", "teardown")
    BY <1>11, StopCallsAndReturns
  <2>2. PICK p \in Probes : Calls2(t, Frame("stop", "teardown", On(t)), Frame("stop", "lock", p))
    BY <1>11, StopCallsAndReturns
  <2>3. stack[t] # <<>> /\ Tops(t) = Frame("stop", "teardown", On(t))
    BY <2>1, TopAt
  <2>4. /\ Succeeds(Tops(t), Frame("stop", "teardown", On(t))) /\ Plain(Frame("stop", "teardown", On(t)))
        /\ Plain(Frame("stop", "lock", p))
    BY <2>3 DEF Succeeds, Plain, Erasing, Ending, Frame
  <2>. QED  BY <2>1, <2>2, <2>3, <2>4, FramingCalls DEF Plain
<1>12. CASE JoinsItself(t)
  BY <1>12, FramingStutters DEF JoinsItself
<1>13. CASE StopUnlock(t)
  <2>1. Stacks' /\ At(t, "stop", "unlock") /\ Drops(t)
    BY <1>13, StopCallsAndReturns
  <2>2. stack[t] # <<>> /\ Tops(t).proc = "stop" /\ Tops(t).at = "unlock"
    BY <2>1, TopAt DEF Frame
  <2>. QED  BY <2>1, <2>2, FramingDrops
<1>. QED  BY <1>1, <1>2, <1>3, <1>4, <1>5, <1>6, <1>7, <1>8, <1>9, <1>10, <1>11, <1>12, <1>13 DEF StopSteps

LEMMA FramingStopAll ==
  ASSUME Stacks, registry \subseteq Objects, NEW t \in Threads, StopAllSteps(t)
  PROVE  Framing
<1>1. CASE StopAllLock(t)
  <2>1. /\ Stacks' /\ At(t, "all", "pick")
        /\ (registry = {} /\ Drops(t)) \/ Replaces(t, Frame("all", "copy", On(t)))
    BY <1>1, StopAllMoves
  <2>2. stack[t] # <<>> /\ Tops(t) = Frame("all", "pick", On(t))
    BY <2>1, TopAt
  <2>3. /\ Tops(t).proc = "all" /\ Succeeds(Tops(t), Frame("all", "copy", On(t)))
        /\ Plain(Frame("all", "copy", On(t)))
    BY <2>2 DEF Succeeds, Plain, Erasing, Ending, Frame
  <2>. QED  BY <2>1, <2>2, <2>3, FramingDrops, FramingReplaces DEF Plain
<1>2. CASE StopAllCopy(t)
  <2>1. Stacks' /\ At(t, "all", "copy")
    BY <1>2, StopAllMoves
  <2>2. PICK o \in registry : Replaces(t, Frame("all", "call", o))
    BY <1>2, StopAllMoves
  <2>3. stack[t] # <<>> /\ Tops(t) = Frame("all", "copy", On(t))
    BY <2>1, TopAt
  <2>4. Succeeds(Tops(t), Frame("all", "call", o)) /\ Plain(Frame("all", "call", o))
    BY <2>3 DEF Succeeds, Plain, Erasing, Ending, Frame
  <2>. QED  BY <2>1, <2>2, <2>3, <2>4, FramingReplaces DEF Plain
<1>3. CASE StopAllCall(t)
  <2>1. /\ Stacks' /\ At(t, "all", "call")
        /\ Calls2(t, Frame("all", "erase", On(t)), Frame("stop", "lock", On(t)))
    BY <1>3, StopAllMoves
  <2>2. stack[t] # <<>> /\ Tops(t) = Frame("all", "call", On(t))
    BY <2>1, TopAt
  <2>3. /\ Succeeds(Tops(t), Frame("all", "erase", On(t))) /\ Plain(Frame("stop", "lock", On(t)))
        /\ ~Ending(Frame("all", "erase", On(t)))
        /\ Frame("stop", "lock", On(t)).proc = "stop"
        /\ Frame("stop", "lock", On(t)).on = Frame("all", "erase", On(t)).on
    BY <2>2 DEF Succeeds, Plain, Erasing, Ending, Frame
  <2>. QED  BY <2>1, <2>2, <2>3, FramingCalls
<1>4. CASE StopAllErase(t)
  BY <1>4, StopAllMoves, FramingMoves
<1>. QED  BY <1>1, <1>2, <1>3, <1>4 DEF StopAllSteps

LEMMA FramingEnd ==
  ASSUME Stacks, NEW t \in Threads, ExitHook(t) \/ ExitEnd(t)
  PROVE  Framing
<1>1. CASE ExitHook(t)
  <2>1. /\ Stacks' /\ At(t, "exit", "hook")
        /\ \/ Calls2(t, Frame("exit", "end", On(t)), Frame("all", "pick", None))
           \/ child # None /\ Replaces(t, Frame("exit", "end", On(t)))
    BY <1>1, EndMoves
  <2>2. stack[t] # <<>> /\ Tops(t) = Frame("exit", "hook", On(t))
    BY <2>1, TopAt
  <2>3. /\ Succeeds(Tops(t), Frame("exit", "end", On(t))) /\ ~Erasing(Frame("exit", "end", On(t)))
        /\ Plain(Frame("all", "pick", None)) /\ Frame("all", "pick", None).proc = "all"
    BY <2>2 DEF Succeeds, Plain, Erasing, Ending, Frame
  <2>. QED  BY <2>1, <2>2, <2>3, FramingCalls, FramingReplaces
<1>2. CASE ExitEnd(t)
  BY <1>2, FramingStutters DEF ExitEnd
<1>. QED  BY <1>1, <1>2

LEMMA FramingFlusher ==
  ASSUME Stacks, FlusherSteps
  PROVE  Framing
<1>. Flusher \in Threads
  BY DEF Threads
<1>1. CASE FlusherRead
  <2>1. /\ Stacks' /\ At(Flusher, "flusher", "read")
        /\ Calls2(Flusher, Frame("flusher", "write", On(Flusher)), Frame("all", "pick", None))
    BY <1>1, FlusherMoves
  <2>2. stack[Flusher] # <<>> /\ Tops(Flusher) = Frame("flusher", "read", On(Flusher))
    BY <2>1, TopAt
  <2>3. /\ Succeeds(Tops(Flusher), Frame("flusher", "write", On(Flusher)))
        /\ Plain(Frame("flusher", "write", On(Flusher))) /\ Plain(Frame("all", "pick", None))
    BY <2>2 DEF Succeeds, Plain, Erasing, Ending, Frame
  <2>. QED  BY <2>1, <2>2, <2>3, FramingCalls DEF Plain
<1>2. CASE FlusherWrite
  BY <1>2, FlusherMoves, FramingMoves
<1>. QED  BY <1>1, <1>2 DEF FlusherSteps

LEMMA FramingHandler ==
  ASSUME Stacks, NEW t \in Threads, HandlerSteps(t)
  PROVE  Framing
<1>1. CASE HandlerEnter(t)
  <2>1. /\ Stacks' /\ At(t, "handler", "enter")
        /\ Drops(t) \/ Replaces(t, Frame("handler", "running", On(t))) \/ UNCHANGED stack
    BY <1>1, HandlerEndMoves
  <2>2. stack[t] # <<>> /\ Tops(t) = Frame("handler", "enter", On(t))
    BY <2>1, TopAt
  <2>3. /\ Tops(t).proc = "handler" /\ Succeeds(Tops(t), Frame("handler", "running", On(t)))
        /\ Plain(Frame("handler", "running", On(t)))
    BY <2>2 DEF Succeeds, Plain, Erasing, Ending, Frame
  <2>. QED  BY <2>1, <2>2, <2>3, FramingDrops, FramingReplaces, FramingStutters DEF Plain
<1>2. CASE HandlerDefer(t) \/ HandlerChain(t)
  <2>1. Stacks' /\ Drops(t) /\ \E a \in AllPlaces : At(t, "handler", a)
    BY <1>2, HandlerEndMoves DEF AllPlaces
  <2>2. stack[t] # <<>> /\ Tops(t).proc = "handler"
    BY <2>1, TopAt DEF Frame
  <2>. QED  BY <2>1, <2>2, FramingDrops
<1>3. CASE \/ HandlerRunning(t) \/ HandlerStopping(t) \/ HandlerWhose(t) \/ HandlerDrain(t) \/ HandlerWake(t)
           \/ HandlerWaited(t) \/ HandlerExpires(t) \/ HandlerFinish(t)
  <2>1. Stacks' /\ HandlerMoves(t)
    BY <1>3, HandlerGoesOn
  <2>. QED  BY <2>1, FramingMoves DEF HandlerMoves
<1>. QED  BY <1>1, <1>2, <1>3 DEF HandlerSteps

LEMMA FramingHost ==
  ASSUME Stacks, NEW t \in Hosts, HostSteps(t), ~HostDestroy(t)
  PROVE  Framing
<1>. t \in Threads
  BY DEF Threads
<1>1. CASE HostStop(t)
  <2>1. Stacks'
    BY <1>1, HostMoves
  <2>2. PICK o \in Objects : Pushes(t, Frame("stop", "lock", o))
    BY <1>1, HostMoves
  <2>3. Plain(Frame("stop", "lock", o))
    BY DEF Plain, Erasing, Ending, Frame
  <2>. QED  BY <2>1, <2>2, <2>3, FramingPushes
<1>2. CASE HostExit(t)
  <2>1. Stacks' /\ Pushes(t, Frame("exit", "hook", None))
    BY <1>2, HostMoves
  <2>2. Plain(Frame("exit", "hook", None))
    BY DEF Plain, Erasing, Ending, Frame
  <2>. QED  BY <2>1, <2>2, FramingPushes
<1>3. CASE Fork(t)
  BY <1>3, HostMoves, FramingStutters
<1>4. CASE \E s \in Signals : Signal(t, s)
  <2>1. PICK s \in Signals : Signal(t, s)
    BY <1>4
  <2>2. Stacks' /\ (Pushes(t, Frame("handler", "enter", s)) \/ UNCHANGED stack)
    BY <2>1, WorldMoves
  <2>3. Plain(Frame("handler", "enter", s))
    BY DEF Plain, Erasing, Ending, Frame
  <2>. QED  BY <2>2, <2>3, FramingPushes, FramingStutters
<1>. QED  BY <1>1, <1>2, <1>3, <1>4 DEF HostSteps

LEMMA FramingFatal ==
  ASSUME Stacks, WorkerFatal
  PROVE  Framing
<1>1. Worker \in Threads /\ Stacks' /\ Pushes(Worker, Frame("exit", "hook", None))
  BY WorldMoves DEF Threads
<1>2. Plain(Frame("exit", "hook", None))
  BY DEF Plain, Erasing, Ending, Frame
<1>. QED  BY <1>1, <1>2, FramingPushes

\* No thread destroys a suite: the hypothesis of what follows.
NoDestroyer == \A t \in Threads : \A i \in Places(t) : stack[t][i].proc # "destroy"

LEMMA NoDestroyStep ==
  ASSUME Stacks, NoDestroyer, NEW t \in Threads
  PROVE  ~DestroyCheck(t) /\ ~DestroyErase(t)
<1>. SUFFICES ASSUME NEW a, At(t, "destroy", a)
              PROVE  FALSE
  BY DEF DestroyCheck, DestroyErase
<1>1. Len(stack[t]) \in Nat \ {0} /\ stack[t][Len(stack[t])] = Frame("destroy", a, On(t))
  BY TopFrame
<1>2. Len(stack[t]) \in Places(t) /\ stack[t][Len(stack[t])].proc = "destroy"
  BY <1>1 DEF Places, Frame
<1>. QED  BY <1>2 DEF NoDestroyer

LEMMA FramingSteps ==
  ASSUME Stacks, registry \subseteq Objects, NoDestroyer, "destroy" \notin HostCalls, Next
  PROVE  Framing
<1>1. ASSUME NEW t \in Threads, Run(t)
      PROVE  Framing
  <2>1. EndSteps(t) => ExitHook(t) \/ ExitEnd(t)
    BY NoDestroyStep DEF EndSteps
  <2>. QED  BY <1>1, <2>1, FramingStop, FramingStopAll, FramingEnd, FramingHandler, FramingFlusher DEF Run
<1>2. ASSUME NEW t \in Hosts, HostSteps(t)
      PROVE  Framing
  <2>1. ~HostDestroy(t)
    BY DEF HostDestroy, HostCall
  <2>. QED  BY <1>2, <2>1, FramingHost
<1>3. ASSUME WorkerFatal
      PROVE  Framing
  BY <1>3, FramingFatal
<1>. QED  BY <1>1, <1>2, <1>3 DEF Next

---------------------------------------------------------------------------
(* The exit: the invariants.                                               *)

\* An object that stopped stays so.
LEMMA RunningFalls ==
  ASSUME Typed, [Next]_vars
  PROVE  \A o \in Objects : running'[o] => running[o]
<1>1. CASE UNCHANGED vars
  BY <1>1 DEF vars, objVars
<1>2. CASE Quiet
  BY <1>2 DEF Quiet
<1>3. ASSUME NEW t \in Threads, Loud(t)
      PROVE  \A o \in Objects : running'[o] => running[o]
  <2>1. UNCHANGED running \/ running' = [running EXCEPT ![On(t)] = FALSE]
    BY <1>3, LoudObjects
  <2>. QED  BY <2>1 DEF Typed, TypedObjects
<1>. QED  BY <1>1, <1>2, <1>3, QuietSteps DEF Typed, TypedObjects

\* The two parts of StopsIt.
LateStops ==
  \A t \in Threads : \A i \in Places(t) :
    stack[t][i].proc = "stop" /\ stack[t][i].at \in Late => ~running[stack[t][i].on]

TornNow ==
  \A s \in Suites : stopped[s] /\ running[s] =>
    \E t \in Threads : \E i \in Places(t) : TearsDown(t, i) /\ stack[t][i].on = s

LEMMA StopsItParts == StopsIt <=> LateStops /\ TornNow
BY DEF StopsIt, LateStops, TornNow

\* A Stop() that finds its object ended holds the lock: nobody is tearing it down.
LEMMA CheckFindsIt ==
  ASSUME Typed, Holding, TornNow, NEW t \in Threads, At(t, "stop", "check"), Ended(On(t))
  PROVE  ~running[On(t)]
<1>1. On(t) \in Objects /\ Len(stack[t]) \in Places(t) /\ stack[t][Len(stack[t])] = Frame("stop", "check", On(t))
  BY StopOn, TopFrame DEF Typed, Places
<1>2. CASE On(t) \notin Suites
  BY <1>2 DEF Ended
<1>3. CASE On(t) \in Suites /\ running[On(t)]
  <2>1. stopped[On(t)]
    BY <1>3 DEF Ended
  <2>2a. PICK u \in Threads : \E j \in Places(u) : TearsDown(u, j) /\ stack[u][j].on = On(t)
    BY <1>3, <2>1 DEF TornNow
  <2>2. PICK i \in Places(u) : TearsDown(u, i) /\ stack[u][i].on = On(t)
    BY <2>2a
  <2>3. IsPast(u, i) /\ IsPast(t, Len(stack[t])) /\ stack[t][Len(stack[t])].on = On(t)
    BY <1>1, <2>2 DEF TearsDown, IsPast, Frame
  <2>4. u = t
    BY <1>1, <2>2, <2>3 DEF Holding
  <2>5. i = Len(stack[t])
    BY <1>1, <2>2, <2>3, <2>4 DEF Holding
  <2>. QED  BY <1>1, <2>2, <2>4, <2>5 DEF TearsDown, Frame
<1>. QED  BY <1>2, <1>3

LEMMA LateStopsStep ==
  ASSUME Typed, Typed', Holding, LateStops, TornNow, [Next]_vars
  PROVE  LateStops'
<1>0. \A o \in Objects : running'[o] => running[o]
  BY RunningFalls
<1>1. CASE UNCHANGED vars
  BY <1>1 DEF LateStops, Places, vars, objVars
<1>2. ASSUME \A u \in Threads : \A i \in 1..Len(stack'[u]) :
               stack'[u][i].proc = "stop" /\ stack'[u][i].at \in Late =>
                 \/ /\ i \in Places(u) /\ stack[u][i].proc = "stop" /\ stack[u][i].at \in Late
                    /\ stack'[u][i].on = stack[u][i].on
                 \/ ~running'[stack'[u][i].on]
      PROVE  LateStops'
  <2>. SUFFICES ASSUME NEW u \in Threads, NEW i \in 1..Len(stack'[u]),
                       stack'[u][i].proc = "stop", stack'[u][i].at \in Late
                PROVE  ~running'[stack'[u][i].on]
    BY DEF LateStops, Places
  <2>1. CASE i \in Places(u) /\ stack[u][i].proc = "stop" /\ stack[u][i].at \in Late
             /\ stack'[u][i].on = stack[u][i].on
    <3>1. stack[u][i].on \in Objects /\ ~running[stack[u][i].on]
      BY <2>1, FramesOnObjects DEF Typed, LateStops
    <3>. QED  BY <1>0, <2>1, <3>1
  <2>. QED  BY <1>2, <2>1
<1>3. CASE Quiet
  <2>1. "lock" \notin Late
    BY DEF Late
  <2>2. \A u \in Threads : \A i \in 1..Len(stack'[u]) :
          stack'[u][i].proc = "stop" /\ stack'[u][i].at \in Late =>
            /\ i \in Places(u) /\ stack[u][i].proc = "stop" /\ stack[u][i].at \in Late
            /\ stack'[u][i].on = stack[u][i].on
    BY <1>3, <2>1 DEF Quiet, StopsKept, IsPast
  <2>. QED  BY <1>2, <2>2
<1>4. ASSUME NEW t \in Threads, Loud(t)
      PROVE  LateStops'
  <2>1. CASE StopLock(t)
    <3>1. Between(t, "lock", "scope")
      BY <2>1, StopMoves DEF Typed
    <3>2. /\ \A u \in Threads : Len(stack'[u]) = Len(stack[u])
          /\ \A u \in Threads : \A i \in Places(u) :
               stack'[u][i] = stack[u][i] \/ stack'[u][i] = Frame("stop", "scope", On(t))
      BY <3>1, BetweenFrames DEF Typed
    <3>. QED  BY <1>2, <3>2 DEF Places, Frame, Late
  <2>2. CASE StopUnlock(t)
    <3>1. Drops(t) /\ At(t, "stop", "unlock")
      BY <2>2, StopCallsAndReturns DEF Typed
    <3>2. Len(stack[t]) \in Nat \ {0}
      BY <3>1, TopFrame DEF Typed
    <3>3. \A u \in Threads : \A i \in 1..Len(stack'[u]) : i \in Places(u) /\ stack'[u][i] = stack[u][i]
      BY <3>1, <3>2 DEF Drops, OthersStay, Places
    <3>. QED  BY <1>2, <3>3
  <2>3. CASE StopCheck(t)
    <3> DEFINE b == IF Ended(On(t)) THEN "leave" ELSE "teardown"
    <3>1. Between(t, "check", b) /\ UNCHANGED running
      BY <2>3, StopMoves DEF Typed, StopCheck
    <3>2. b \in Late => ~running'[On(t)]
      BY <3>1, CheckFindsIt DEF Between, Late
    <3> HIDE DEF b
    <3>3. /\ \A u \in Threads : Len(stack'[u]) = Len(stack[u])
          /\ \A u \in Threads : \A i \in Places(u) :
               stack'[u][i] = stack[u][i] \/ stack'[u][i] = Frame("stop", b, On(t))
      BY <3>1, BetweenFrames DEF Typed
    <3>. QED  BY <1>2, <3>2, <3>3 DEF Places, Frame
  <2>4. CASE Teardown(t)
    <3> DEFINE b == IF On(t) \in Suites THEN "remove" ELSE "unregister"
    <3>1. Between(t, "teardown", b)
      BY <2>4, StopMoves DEF Typed
    <3>2. ~running'[On(t)]
      <4>1. On(t) \in Objects /\ running' = [running EXCEPT ![On(t)] = FALSE]
        BY <2>4, LoudObjects DEF Loud, Teardown
      <4>. QED  BY <4>1 DEF Typed, TypedObjects
    <3> HIDE DEF b
    <3>3. /\ \A u \in Threads : Len(stack'[u]) = Len(stack[u])
          /\ \A u \in Threads : \A i \in Places(u) :
               stack'[u][i] = stack[u][i] \/ stack'[u][i] = Frame("stop", b, On(t))
      BY <3>1, BetweenFrames DEF Typed
    <3>. QED  BY <1>2, <3>2, <3>3 DEF Places, Frame
  <2>. QED  BY <1>4, <2>1, <2>2, <2>3, <2>4 DEF Loud
<1>. QED  BY <1>1, <1>3, <1>4, QuietSteps DEF Typed, TypedObjects

LEMMA BetweenForth ==
  ASSUME Stacks, NEW t \in Threads, NEW a, NEW b, Between(t, a, b), a # "teardown"
  PROVE  TearsForth
<1>1. /\ stack[t][Len(stack[t])] = Frame("stop", a, On(t))
      /\ \A u \in Threads : Len(stack'[u]) = Len(stack[u])
      /\ \A u \in Threads : \A i \in Places(u) :
           stack'[u][i] = stack[u][i] \/ (u = t /\ i = Len(stack[t]))
  BY BetweenFrames
<1>. QED  BY <1>1 DEF TearsForth, TearsDown, Places, Frame

LEMMA TornNowStep ==
  ASSUME Typed, Typed', TornNow, [Next]_vars
  PROVE  TornNow'
<1>0. /\ \A o \in Objects : running'[o] => running[o]
      /\ \A s \in Suites : s \in Objects
  BY RunningFalls DEF Objects
<1>1. CASE UNCHANGED vars
  BY <1>1 DEF TornNow, TearsDown, Places, vars, objVars
<1>2. ASSUME TearsForth, UNCHANGED stopped
      PROVE  TornNow'
  <2>. SUFFICES ASSUME NEW s \in Suites, stopped'[s], running'[s]
                PROVE  \E t \in Threads : \E i \in 1..Len(stack'[t]) :
                         stack'[t][i].proc = "stop" /\ stack'[t][i].at = "teardown" /\ stack'[t][i].on = s
    BY DEF TornNow, TearsDown, Places
  <2>1a. PICK t \in Threads : \E j \in Places(t) : TearsDown(t, j) /\ stack[t][j].on = s
    BY <1>0, <1>2 DEF TornNow
  <2>1. PICK i \in Places(t) : TearsDown(t, i) /\ stack[t][i].on = s
    BY <2>1a
  <2>. QED  BY <1>2, <2>1 DEF TearsForth
<1>3. CASE Quiet
  BY <1>2, <1>3 DEF Quiet
<1>4. ASSUME NEW t \in Threads, StopLock(t)
      PROVE  TornNow'
  <2>1. Between(t, "lock", "scope") /\ UNCHANGED stopped
    BY <1>4, StopMoves DEF Typed, StopLock, objVars
  <2>2. TearsForth
    BY <2>1, BetweenForth DEF Typed
  <2>. QED  BY <1>2, <2>1, <2>2
<1>5. ASSUME NEW t \in Threads, StopUnlock(t)
      PROVE  TornNow'
  <2>1. Drops(t) /\ At(t, "stop", "unlock") /\ UNCHANGED stopped
    BY <1>5, StopCallsAndReturns DEF Typed, StopUnlock, objVars
  <2>2. stack[t] # <<>> /\ Tops(t).at # "teardown"
    BY <2>1, TopAt DEF Typed, Frame
  <2>3. TearsForth
    BY <2>1, <2>2, QuietDrops DEF Typed
  <2>. QED  BY <1>2, <2>1, <2>3
<1>6. ASSUME NEW t \in Threads, StopCheck(t)
      PROVE  TornNow'
  <2> DEFINE b == IF Ended(On(t)) THEN "leave" ELSE "teardown"
  <2>1. Between(t, "check", b) /\ UNCHANGED running /\ stopped' = [o \in Suites |-> stopped[o] \/ o = On(t)]
    BY <1>6, StopMoves DEF Typed, StopCheck
  <2>2. On(t) \in Suites /\ ~stopped[On(t)] => b = "teardown"
    BY DEF Ended
  <2> HIDE DEF b
  <2>3. TearsForth
    BY <2>1, BetweenForth DEF Typed
  <2>4. Len(stack[t]) \in 1..Len(stack'[t]) /\ stack'[t][Len(stack[t])] = Frame("stop", b, On(t))
    BY <2>1, BetweenFrames DEF Typed, Places
  <2>. SUFFICES ASSUME NEW s \in Suites, stopped'[s], running'[s]
                PROVE  \E u \in Threads : \E i \in 1..Len(stack'[u]) :
                         stack'[u][i].proc = "stop" /\ stack'[u][i].at = "teardown" /\ stack'[u][i].on = s
    BY DEF TornNow, TearsDown, Places
  <2>5. CASE stopped[s]
    <3>1a. PICK u \in Threads : \E j \in Places(u) : TearsDown(u, j) /\ stack[u][j].on = s
      BY <1>0, <2>5 DEF TornNow
    <3>1. PICK i \in Places(u) : TearsDown(u, i) /\ stack[u][i].on = s
      BY <3>1a
    <3>. QED  BY <2>3, <3>1 DEF TearsForth
  <2>6. CASE ~stopped[s]
    <3>1. s = On(t)
      BY <2>1, <2>6
    <3>2. stack'[t][Len(stack[t])] = Frame("stop", "teardown", s)
      BY <2>2, <2>4, <2>6, <3>1
    <3>. QED  BY <2>4, <3>2 DEF Frame
  <2>. QED  BY <2>5, <2>6
<1>7. ASSUME NEW t \in Threads, Teardown(t)
      PROVE  TornNow'
  <2> DEFINE b == IF On(t) \in Suites THEN "remove" ELSE "unregister"
  <2>1. Between(t, "teardown", b) /\ UNCHANGED stopped /\ On(t) \in Objects
        /\ running' = [running EXCEPT ![On(t)] = FALSE]
    BY <1>7, StopMoves, LoudObjects DEF Typed, Teardown, Loud
  <2> HIDE DEF b
  <2>2. ~running'[On(t)]
    BY <2>1 DEF Typed, TypedObjects
  <2>3. /\ \A u \in Threads : Len(stack'[u]) = Len(stack[u])
        /\ stack[t][Len(stack[t])] = Frame("stop", "teardown", On(t))
        /\ \A u \in Threads : \A i \in Places(u) :
             stack'[u][i] = stack[u][i] \/ (u = t /\ i = Len(stack[t]))
    BY <2>1, BetweenFrames DEF Typed
  <2>. SUFFICES ASSUME NEW s \in Suites, stopped'[s], running'[s]
                PROVE  \E u \in Threads : \E i \in 1..Len(stack'[u]) :
                         stack'[u][i].proc = "stop" /\ stack'[u][i].at = "teardown" /\ stack'[u][i].on = s
    BY DEF TornNow, TearsDown, Places
  <2>4a. PICK u \in Threads : \E j \in Places(u) : TearsDown(u, j) /\ stack[u][j].on = s
    BY <1>0, <2>1 DEF TornNow
  <2>4. PICK i \in Places(u) : TearsDown(u, i) /\ stack[u][i].on = s
    BY <2>4a
  <2>5. s # On(t)
    BY <2>2
  <2>6. ~(u = t /\ i = Len(stack[t]))
    BY <2>3, <2>4, <2>5 DEF Frame
  <2>. QED  BY <2>3, <2>4, <2>6 DEF TearsDown, Places
<1>. QED  BY <1>1, <1>3, <1>4, <1>5, <1>6, <1>7, QuietSteps DEF Typed, TypedObjects, Loud

\* What removes an object from the registry.
LEMMA RegistryMoves ==
  ASSUME NoDestroyer, Stacks, [Next]_vars
  PROVE  \/ registry' = registry
         \/ \E t \in Threads : (Unregister(t) \/ StopAllErase(t)) /\ registry' = registry \ {On(t)}
<1>1. ASSUME NEW t \in Threads, Run(t)
      PROVE  \/ registry' = registry
             \/ (Unregister(t) \/ StopAllErase(t)) /\ registry' = registry \ {On(t)}
  <2>1. CASE StopSteps(t)
    BY <2>1 DEF StopSteps, StopLock, ScopeCount, ScopeMark, StopCheck, StopMember, Teardown, JoinsItself,
         RemoveSignalHandlers, Unregister, ScopeLeave, ScopeClear, TakeDeferred, StopUnlock, objVars
  <2>2. CASE StopAllSteps(t)
    BY <2>2 DEF StopAllSteps, StopAllLock, StopAllCopy, StopAllCall, StopAllErase, objVars
  <2>3. CASE EndSteps(t)
    BY <2>3, NoDestroyStep DEF EndSteps, ExitHook, ExitEnd, objVars
  <2>4. CASE HandlerSteps(t)
    BY <2>4 DEF HandlerSteps, HandlerEnter, HandlerRunning, HandlerStopping, HandlerWhose, HandlerDefer,
         HandlerDrain, HandlerWake, HandlerWaited, HandlerExpires, HandlerFinish, HandlerChain, objVars
  <2>5. CASE FlusherSteps
    BY <2>5 DEF FlusherSteps, FlusherRead, FlusherWrite, objVars
  <2>. QED  BY <1>1, <2>1, <2>2, <2>3, <2>4, <2>5 DEF Run
<1>2. ASSUME NEW t \in Hosts, HostSteps(t)
      PROVE  registry' = registry
  BY <1>2 DEF HostSteps, HostStop, HostDestroy, HostExit, Fork, HostCall, Signal, objVars
<1>3. ASSUME WorkerFatal
      PROVE  registry' = registry
  BY <1>3 DEF WorkerFatal, HostCall, objVars
<1>4. UNCHANGED vars => registry' = registry
  BY DEF vars, objVars
<1>. QED  BY <1>1, <1>2, <1>3, <1>4 DEF Next

\* The parts of Erased.
GoneStopped == \A o \in Objects \ registry : ~running[o]

EraseWaits ==
  \A t \in Threads : \A i \in Places(t) :
    Erasing(stack[t][i]) =>
      \/ ~running[stack[t][i].on]
      \/ i + 1 \in Places(t) /\ stack[t][i + 1].proc = "stop" /\ stack[t][i + 1].on = stack[t][i].on

LEMMA ErasedParts == Erased <=> NoDestroyer /\ GoneStopped /\ EraseWaits
BY DEF Erased, NoDestroyer, GoneStopped, EraseWaits, Erasing

LEMMA GoneStoppedStep ==
  ASSUME Typed, NoDestroyer, GoneStopped, EraseWaits, LateStops, [Next]_vars
  PROVE  GoneStopped'
<1>0. \A o \in Objects : running'[o] => running[o]
  BY RunningFalls
<1>1. CASE registry' = registry
  BY <1>0, <1>1 DEF GoneStopped
<1>2. ASSUME NEW t \in Threads, Unregister(t) \/ StopAllErase(t), registry' = registry \ {On(t)}
      PROVE  GoneStopped'
  <2>1. ~running[On(t)]
    <3>1. CASE Unregister(t)
      <4>1. At(t, "stop", "unregister")
        BY <3>1 DEF Unregister
      <4>2. Len(stack[t]) \in Nat \ {0} /\ stack[t][Len(stack[t])] = Frame("stop", "unregister", On(t))
        BY <4>1, TopFrame DEF Typed
      <4>. QED  BY <4>2 DEF LateStops, Places, Frame, Late
    <3>2. CASE StopAllErase(t)
      <4>1. At(t, "all", "erase")
        BY <3>2 DEF StopAllErase
      <4>2. Len(stack[t]) \in Nat \ {0} /\ stack[t][Len(stack[t])] = Frame("all", "erase", On(t))
        BY <4>1, TopFrame DEF Typed
      <4>3. Len(stack[t]) \in Places(t) /\ Len(stack[t]) + 1 \notin Places(t)
            /\ Erasing(stack[t][Len(stack[t])]) /\ stack[t][Len(stack[t])].on = On(t)
        BY <4>2 DEF Places, Erasing, Frame
      <4>. QED  BY <4>3 DEF EraseWaits
    <3>. QED  BY <1>2, <3>1, <3>2
  <2>. QED  BY <1>0, <1>2, <2>1 DEF GoneStopped
<1>. QED  BY <1>1, <1>2, RegistryMoves DEF Typed

LEMMA EraseWaitsStep ==
  ASSUME Typed, Typed', EraseWaits, LateStops, Framing, [Next]_vars
  PROVE  EraseWaits'
<1>0. \A o \in Objects : running'[o] => running[o]
  BY RunningFalls
<1>. SUFFICES ASSUME NEW u \in Threads, NEW i \in 1..Len(stack'[u]), Erasing(stack'[u][i])
              PROVE  \/ ~running'[stack'[u][i].on]
                     \/ /\ i + 1 \in 1..Len(stack'[u]) /\ stack'[u][i + 1].proc = "stop"
                        /\ stack'[u][i + 1].on = stack'[u][i].on
  BY DEF EraseWaits, Places
<1>1. CASE i \in Places(u) /\ Erasing(stack[u][i]) /\ stack'[u][i].on = stack[u][i].on
  <2>0. stack[u][i].on \in Objects
    <3>1. stack[u][i] \in FrameT
      BY <1>1 DEF Typed, Stacks, Places
    <3>. QED  BY <1>1, <3>1 DEF FrameT, Shaped, Erasing
  <2>1. CASE ~running[stack[u][i].on]
    BY <1>0, <1>1, <2>0, <2>1
  <2>2. CASE i + 1 \in Places(u) /\ stack[u][i + 1].proc = "stop" /\ stack[u][i + 1].on = stack[u][i].on
    <3>1. CASE i + 1 \in 1..Len(stack'[u])
      BY <1>1, <2>2, <3>1 DEF Framing, FramesStay
    <3>2. CASE i + 1 \notin 1..Len(stack'[u])
      <4>1. stack[u][i + 1].at = "unlock"
        BY <2>2, <3>2 DEF Framing, ReturnsDone
      <4>2. ~running[stack[u][i].on]
        BY <2>2, <4>1 DEF LateStops, Late
      <4>. QED  BY <1>0, <1>1, <2>0, <4>2
    <3>. QED  BY <3>1, <3>2
  <2>. QED  BY <1>1, <2>1, <2>2 DEF EraseWaits
<1>. QED  BY <1>1 DEF Framing, ErasesCalled

LEMMA NoDestroyerStep ==
  ASSUME NoDestroyer, Framing
  PROVE  NoDestroyer'
BY DEF NoDestroyer, Framing, NoneDestroys, FramesStay, Places

\* Only an exit that ends makes the process one that ended by exit().
LEMMA DeadMoves ==
  ASSUME [Next]_vars
  PROVE  dead' = dead \/ dead' # "exit" \/ \E t \in Threads : ExitEnd(t)
<1>1. ASSUME NEW t \in Threads, Run(t), ~ExitEnd(t)
      PROVE  dead' = dead \/ dead' # "exit"
  <2>1. CASE StopSteps(t)
    BY <2>1 DEF StopSteps, StopLock, ScopeCount, ScopeMark, StopCheck, StopMember, Teardown, JoinsItself,
         RemoveSignalHandlers, Unregister, ScopeLeave, ScopeClear, TakeDeferred, StopUnlock, lifeVars, Die, Chain
  <2>2. CASE StopAllSteps(t)
    BY <2>2 DEF StopAllSteps, StopAllLock, StopAllCopy, StopAllCall, StopAllErase, lifeVars
  <2>3. CASE EndSteps(t)
    BY <1>1, <2>3 DEF EndSteps, ExitHook, DestroyCheck, DestroyErase, lifeVars
  <2>4. CASE HandlerSteps(t)
    BY <2>4 DEF HandlerSteps, HandlerEnter, HandlerRunning, HandlerStopping, HandlerWhose, HandlerDefer,
         HandlerDrain, HandlerWake, HandlerWaited, HandlerExpires, HandlerFinish, HandlerChain, lifeVars, Die, Chain
  <2>5. CASE FlusherSteps
    BY <2>5 DEF FlusherSteps, FlusherRead, FlusherWrite, lifeVars
  <2>. QED  BY <1>1, <2>1, <2>2, <2>3, <2>4, <2>5 DEF Run
<1>2. ASSUME NEW t \in Hosts, HostSteps(t)
      PROVE  dead' = dead \/ dead' # "exit"
  BY <1>2 DEF HostSteps, HostStop, HostDestroy, HostExit, Fork, Signal, lifeVars, Die, Chain
<1>3. ASSUME WorkerFatal
      PROVE  dead' = dead
  BY <1>3 DEF WorkerFatal, lifeVars
<1>4. UNCHANGED vars => dead' = dead
  BY DEF vars, lifeVars
<1>. QED  BY <1>1, <1>2, <1>3, <1>4 DEF Next

LEMMA ChildIsForGood ==
  ASSUME [Next]_vars, child' = None
  PROVE  child = None
<1>1. CASE UNCHANGED vars
  BY <1>1 DEF vars, lifeVars
<1>2. CASE Next /\ child' = child
  BY <1>2
<1>3. ASSUME NEW t \in Hosts, Fork(t)
      PROVE  child = None
  BY <1>3 DEF Fork
<1>. QED  BY <1>1, <1>2, <1>3, ChildStays

EndWaits ==
  child = None =>
    \A t \in Threads : \A i \in Places(t) :
      Ending(stack[t][i]) => registry = {} \/ (i + 1 \in Places(t) /\ stack[t][i + 1].proc = "all")

DeadLast == dead = "exit" /\ child = None => registry = {}

LEMMA ExitsLastParts == ExitsLast <=> EndWaits /\ DeadLast
BY DEF ExitsLast, EndWaits, DeadLast, Ending

LEMMA ExitsLastStep ==
  ASSUME Typed, NoDestroyer, ExitsLast, Framing, [Next]_vars
  PROVE  ExitsLast'
<1>0. registry = {} => registry' = {}
  BY RegistryMoves DEF Typed
<1>1. EndWaits'
  <2>. SUFFICES ASSUME child' = None, NEW u \in Threads, NEW i \in 1..Len(stack'[u]), Ending(stack'[u][i])
                PROVE  \/ registry' = {}
                       \/ i + 1 \in 1..Len(stack'[u]) /\ stack'[u][i + 1].proc = "all"
    BY DEF EndWaits, Places
  <2>1. child = None
    BY ChildIsForGood
  <2>2. CASE i \in Places(u) /\ Ending(stack[u][i])
    <3>1. CASE registry = {}
      BY <1>0, <3>1
    <3>2. CASE i + 1 \in Places(u) /\ stack[u][i + 1].proc = "all"
      <4>1. CASE i + 1 \in 1..Len(stack'[u])
        BY <3>2, <4>1 DEF Framing, FramesStay
      <4>2. CASE i + 1 \notin 1..Len(stack'[u])
        BY <1>0, <3>2, <4>2 DEF Framing, ReturnsDone
      <4>. QED  BY <4>1, <4>2
    <3>. QED  BY <2>1, <2>2, <3>1, <3>2, ExitsLastParts DEF EndWaits
  <2>. QED  BY <2>1, <2>2 DEF Framing, EndsCalled
<1>2. DeadLast'
  <2>. SUFFICES ASSUME dead' = "exit", child' = None
                PROVE  registry' = {}
    BY DEF DeadLast
  <2>1. child = None
    BY ChildIsForGood
  <2>2. CASE dead' = dead
    BY <1>0, <2>1, <2>2, ExitsLastParts DEF DeadLast
  <2>3. ASSUME NEW t \in Threads, ExitEnd(t)
        PROVE  registry' = {}
    <3>1. At(t, "exit", "end")
      BY <2>3 DEF ExitEnd
    <3>2. Len(stack[t]) \in Nat \ {0} /\ stack[t][Len(stack[t])] = Frame("exit", "end", On(t))
      BY <3>1, TopFrame DEF Typed
    <3>3. Len(stack[t]) \in Places(t) /\ Len(stack[t]) + 1 \notin Places(t) /\ Ending(stack[t][Len(stack[t])])
      BY <3>2 DEF Places, Ending, Frame
    <3>. QED  BY <1>0, <2>1, <3>3, ExitsLastParts DEF EndWaits
  <2>. QED  BY <2>2, <2>3, DeadMoves
<1>. QED  BY <1>1, <1>2, ExitsLastParts, PTL

ExitInv == Typed /\ Holding /\ StopsIt /\ Erased /\ ExitsLast

LEMMA ExitInit ==
  ASSUME Init
  PROVE  ExitInv
<1>1. \A t \in Threads : stack[t] = IF t = Flusher THEN <<Frame("flusher", "read", None)>> ELSE <<>>
  BY DEF Init
<1>2. \A t \in Threads : \A i \in Places(t) : stack[t][i].proc = "flusher"
  BY <1>1 DEF Places, Frame
<1>3. \A s \in Suites : ~stopped[s]
  BY DEF Init
<1>4. StopsIt
  BY <1>2, <1>3 DEF StopsIt
<1>5. Erased
  BY <1>2 DEF Erased, Init
<1>6. ExitsLast
  BY <1>2 DEF ExitsLast, Init
<1>. QED  BY <1>4, <1>5, <1>6, TypedInit, HoldingInit DEF ExitInv

LEMMA ExitStep ==
  ASSUME "destroy" \notin HostCalls, ExitInv, [Next]_vars
  PROVE  ExitInv'
<1>1. Typed' /\ Holding'
  BY TypedStep, HoldingStep DEF ExitInv
<1>2. NoDestroyer /\ GoneStopped /\ EraseWaits /\ LateStops /\ TornNow
  BY ErasedParts, StopsItParts DEF ExitInv
<1>3. Framing
  <2>1. CASE Next
    BY <1>2, <2>1, FramingSteps DEF ExitInv, Typed, TypedObjects
  <2>2. CASE UNCHANGED vars
    BY <2>2, FramingStutters DEF vars
  <2>. QED  BY <2>1, <2>2
<1>4. LateStops' /\ TornNow'
  BY <1>1, <1>2, LateStopsStep, TornNowStep DEF ExitInv
<1>5. NoDestroyer' /\ GoneStopped' /\ EraseWaits'
  BY <1>1, <1>2, <1>3, NoDestroyerStep, GoneStoppedStep, EraseWaitsStep DEF ExitInv
<1>6. ExitsLast'
  BY <1>2, <1>3, ExitsLastStep DEF ExitInv
<1>7. StopsIt' /\ Erased'
  BY <1>4, <1>5, StopsItParts, ErasedParts, PTL
<1>. QED  BY <1>1, <1>6, <1>7 DEF ExitInv

\* The process ends by exit() only with everything stopped and flushed, whatever
\* other threads and the flusher are stopping at the time and whichever library
\* thread called it (lifecycle.cpp:258-288). Destroying a suite is excluded: the
\* destructor takes one that another thread is stopping out of the registry.
THEOREM ExitFlushesCorrect ==
  ASSUME "destroy" \notin HostCalls
  PROVE  Spec => []ExitFlushes
<1>1. Init => ExitInv
  BY ExitInit
<1>2. ExitInv /\ [Next]_vars => ExitInv'
  BY ExitStep
<1>3. ExitInv => ExitFlushes
  BY ErasedParts, ExitsLastParts DEF ExitInv, ExitFlushes, AllFlushed, GoneStopped, DeadLast
<1>. QED  BY <1>1, <1>2, <1>3, PTL DEF Spec

---------------------------------------------------------------------------
(* The signal, in a process with one suite: the invariants.                *)

Stops(f, A, X) == f.proc = "stop" /\ f.at \in A /\ f.on \in X
Stopping(A, X) == \E t \in Threads : \E i \in Places(t) : Stops(stack[t][i], A, X)
SuiteEnded == \A s \in Suites : ~running[s]

\* Between the two halves of ~StopScope and of StopScope; where a suite's Stop()
\* that stoppingTid names can be.
Scope    == {"mark", "check", "teardown", "remove", "unregister", "leave"}
MarkedAt == {"check", "teardown", "remove", "unregister", "leave", "clear"}

\* A probe is stopped by its suite's teardown, on the same stack; StopAll() and
\* what follows a scope are about the suite.
ProbeStops ==
  \A t \in Threads : \A i \in Places(t) :
    stack[t][i].proc = "stop" /\ stack[t][i].on \in Probes =>
      i - 1 \in Places(t) /\ Stops(stack[t][i - 1], {"teardown"}, Suites)
AllOnSuites ==
  \A t \in Threads : \A i \in Places(t) :
    stack[t][i].proc = "all" /\ stack[t][i].at \in {"call", "erase"} => stack[t][i].on \in Suites
LateOnSuites ==
  \A t \in Threads : \A i \in Places(t) :
    stack[t][i].proc = "stop" /\ stack[t][i].at \in {"remove", "clear", "take"} => stack[t][i].on \in Suites

\* A stopped probe leaves the registry before its suite's teardown is over, and
\* the suite ends after its probes.
Unregisters == \A p \in Probes : p \in registry /\ ~running[p] => Stopping({"unregister"}, {p})
MembersGone == SuiteEnded => registry \intersect Probes = {} /\ AllFlushed

\* The atomics count the scopes of one thread, and name it until it clears them.
Counted == stopping = IF Stopping(Scope, Probes) THEN 2 ELSE IF Stopping(Scope, Suites) THEN 1 ELSE 0
Marks   == \A t \in Threads : stoppingTid = t => \E i \in Places(t) : Stops(stack[t][i], MarkedAt, Suites)

\* A handler that defers has interrupted a Stop() that has not taken what is deferred.
Defers ==
  \A t \in Threads : \A i \in Places(t) :
    stack[t][i].proc = "handler" /\ stack[t][i].at = "defer" =>
      \E j \in 1..(i - 1) : Stops(stack[t][j], MarkedAt, Suites)
Taken == deferred # None => stopping > 0 \/ Stopping({"clear", "take"}, Suites)

\* What a handler waited for is there when its wait ends.
WaitsStop ==
  \A t \in Threads : \A i \in Places(t) :
    stack[t][i].proc = "handler" /\ stack[t][i].at \in {"whose", "waitstop"} => stopping > 0 \/ SuiteEnded
Writes ==
  \A t \in Threads : \A i \in Places(t) :
    stack[t][i].proc = "flusher" /\ stack[t][i].at = "write" =>
      registry = {} \/ (i + 1 \in Places(t) /\ stack[t][i + 1].proc = "all")
DoneFlushed == done => registry = {}
Finishes ==
  lapses = {} /\ child = None =>
    \A t \in Threads : \A i \in Places(t) :
      stack[t][i].proc = "handler" /\ stack[t][i].at \in {"finish", "chain"} => SuiteEnded
HandlersLeft == refs > 0 \/ SuiteEnded

\* The places of a handler that the invariants speak of.
Watched(f) == f.proc = "handler" /\ f.at \in {"defer", "whose", "waitstop", "finish", "chain"}

---------------------------------------------------------------------------
(* Steps that are not a Stop()'s own, nor a handler's from one watched     *)
(* place to the next.                                                      *)

StopsStay ==
  \A u \in Threads : \A i \in Places(u) :
    stack[u][i].proc = "stop" => i \in 1..Len(stack'[u]) /\ stack'[u][i] = stack[u][i]

StopsBegin ==
  \A u \in Threads : \A i \in 1..Len(stack'[u]) :
    stack'[u][i].proc = "stop" =>
      \/ i \in Places(u) /\ stack'[u][i] = stack[u][i]
      \/ /\ stack'[u][i].at = "lock"
         /\ \/ stack'[u][i].on \in Suites
            \/ i - 1 \in Places(u) /\ Stops(stack[u][i - 1], {"teardown"}, Suites)

LowerStay ==
  \A u \in Threads : \A j \in 1..(Len(stack[u]) - 1) :
    j \in 1..Len(stack'[u]) => stack'[u][j] = stack[u][j]

WatchedStay ==
  \A u \in Threads : \A i \in 1..Len(stack'[u]) :
    Watched(stack'[u][i]) => i \in Places(u) /\ stack'[u][i] = stack[u][i]

WritesCalled ==
  \A u \in Threads : \A i \in 1..Len(stack'[u]) :
    stack'[u][i].proc = "flusher" /\ stack'[u][i].at = "write" =>
      \/ i \in Places(u) /\ stack'[u][i] = stack[u][i]
      \/ i + 1 \in 1..Len(stack'[u]) /\ stack'[u][i + 1].proc = "all"

Still == StopsStay /\ StopsBegin /\ LowerStay /\ WritesCalled /\ AllOnSuites'

\* A frame that such a step may make.
Fine(f) ==
  /\ f.proc = "stop" => f.at = "lock" /\ f.on \in Suites
  /\ f.proc = "all" /\ f.at \in {"call", "erase"} => f.on \in Suites
  /\ f.proc = "flusher" => f.at # "write"

LEMMA StillReplaces ==
  ASSUME Stacks, Stacks', AllOnSuites, NEW t \in Threads, stack[t] # <<>>, NEW f, Replaces(t, f),
         Tops(t).proc # "stop", f.proc # "stop", Fine(f)
  PROVE  Still /\ (~Watched(f) => WatchedStay)
<1>1. Len(stack[t]) \in Nat \ {0}
  BY DEF Stacks
<1>2. \A u \in Threads : Len(stack'[u]) = Len(stack[u])
  BY DEF Replaces, OthersStay
<1>3. \A u \in Threads : \A i \in Places(u) :
        \/ stack'[u][i] = stack[u][i]
        \/ u = t /\ i = Len(stack[t]) /\ stack'[u][i] = f
  BY <1>1 DEF Replaces, OthersStay, Places
<1>4. \A u \in Threads : Len(stack[u]) \in Nat
  BY DEF Stacks
<1>5. StopsStay
  BY <1>2, <1>3 DEF StopsStay, Places, Tops
<1>6. StopsBegin
  BY <1>2, <1>3 DEF StopsBegin, Places
<1>7. LowerStay
  BY <1>2, <1>3, <1>4 DEF LowerStay, Places
<1>8. WritesCalled
  BY <1>2, <1>3 DEF WritesCalled, Places, Fine
<1>9. AllOnSuites'
  BY <1>2, <1>3 DEF AllOnSuites, Places, Fine
<1>10. ~Watched(f) => WatchedStay
  BY <1>2, <1>3 DEF WatchedStay, Places
<1>. QED  BY <1>5, <1>6, <1>7, <1>8, <1>9, <1>10 DEF Still

LEMMA StillCalls ==
  ASSUME Stacks, Stacks', AllOnSuites, NEW t \in Threads, stack[t] # <<>>, NEW f, NEW g, Calls2(t, f, g),
         Tops(t).proc # "stop", f.proc # "stop", Fine(f) \/ g.proc = "all", ~Watched(f), Fine(g), ~Watched(g),
         f.proc = "all" /\ f.at \in {"call", "erase"} => f.on \in Suites
  PROVE  Still /\ WatchedStay
<1>1. Len(stack[t]) \in Nat \ {0} /\ Len(stack'[t]) = Len(stack[t]) + 1
  BY DEF Stacks, Calls2
<1>2. \A u \in Threads : \A i \in Places(u) :
        /\ i \in 1..Len(stack'[u])
        /\ \/ stack'[u][i] = stack[u][i]
           \/ u = t /\ i = Len(stack[t]) /\ stack'[u][i] = f
  BY <1>1 DEF Calls2, OthersStay, Places
<1>3. \A u \in Threads : \A i \in 1..Len(stack'[u]) : i \in Places(u) \/ stack'[u][i] = g
  BY <1>1 DEF Calls2, OthersStay, Places
<1>4. Len(stack[t]) + 1 \in 1..Len(stack'[t]) /\ stack'[t][Len(stack[t]) + 1] = g
  BY <1>1 DEF Calls2
<1>5. StopsStay
  BY <1>2 DEF StopsStay, Tops
<1>6. StopsBegin
  BY <1>2, <1>3 DEF StopsBegin, Fine
<1>7. LowerStay
  <2>. SUFFICES ASSUME NEW u \in Threads, NEW j \in 1..(Len(stack[u]) - 1)
                PROVE  stack'[u][j] = stack[u][j]
    BY DEF LowerStay
  <2>1. Len(stack[u]) \in Nat
    BY DEF Stacks
  <2>2. j \in Places(u) /\ j # Len(stack[u])
    BY <2>1 DEF Places
  <2>. QED  BY <1>2, <2>2
<1>8. WritesCalled
  BY <1>2, <1>3, <1>4 DEF WritesCalled, Fine
<1>9. AllOnSuites'
  BY <1>2, <1>3 DEF AllOnSuites, Places, Fine
<1>10. WatchedStay
  BY <1>2, <1>3 DEF WatchedStay
<1>. QED  BY <1>5, <1>6, <1>7, <1>8, <1>9, <1>10 DEF Still

LEMMA StillPushes ==
  ASSUME Stacks, Stacks', AllOnSuites, NEW t \in Threads, NEW g, Pushes(t, g), Fine(g), ~Watched(g)
  PROVE  Still /\ WatchedStay
<1>1. Len(stack[t]) \in Nat /\ Len(stack'[t]) = Len(stack[t]) + 1
  BY DEF Stacks, Pushes
<1>2. \A u \in Threads : \A i \in Places(u) : stack'[u][i] = stack[u][i] /\ i \in 1..Len(stack'[u])
  BY <1>1 DEF Pushes, OthersStay, Places
<1>3. \A u \in Threads : \A i \in 1..Len(stack'[u]) : i \in Places(u) \/ stack'[u][i] = g
  BY <1>1 DEF Pushes, OthersStay, Places
<1>4. \A u \in Threads : Len(stack[u]) \in Nat
  BY DEF Stacks
<1>5. StopsStay /\ LowerStay
  BY <1>2, <1>4 DEF StopsStay, LowerStay, Places
<1>6. StopsBegin /\ WritesCalled /\ AllOnSuites' /\ WatchedStay
  BY <1>2, <1>3 DEF StopsBegin, WritesCalled, AllOnSuites, WatchedStay, Places, Fine
<1>. QED  BY <1>5, <1>6 DEF Still

LEMMA StillDrops ==
  ASSUME Stacks, Stacks', AllOnSuites, NEW t \in Threads, stack[t] # <<>>, Drops(t), Tops(t).proc # "stop"
  PROVE  Still /\ WatchedStay
<1>1. Len(stack[t]) \in Nat \ {0} /\ Len(stack'[t]) = Len(stack[t]) - 1
  BY DEF Stacks, Drops
<1>2. \A u \in Threads : \A i \in 1..Len(stack'[u]) : i \in Places(u) /\ stack'[u][i] = stack[u][i]
  BY <1>1 DEF Drops, OthersStay, Places
<1>3. \A u \in Threads : \A i \in Places(u) :
        i \in 1..Len(stack'[u]) \/ (u = t /\ i = Len(stack[t]))
  BY <1>1 DEF Drops, OthersStay, Places
<1>4. StopsStay
  BY <1>2, <1>3 DEF StopsStay, Tops
<1>5. StopsBegin /\ LowerStay /\ WritesCalled /\ WatchedStay
  BY <1>2 DEF StopsBegin, LowerStay, WritesCalled, WatchedStay
<1>6. AllOnSuites'
  BY <1>2 DEF AllOnSuites, Places
<1>. QED  BY <1>4, <1>5, <1>6 DEF Still

LEMMA StillStutters ==
  ASSUME AllOnSuites, UNCHANGED stack, Stacks
  PROVE  Still /\ WatchedStay
<1>1. \A u \in Threads : \A j \in 1..(Len(stack[u]) - 1) : stack'[u][j] = stack[u][j]
  OBVIOUS
<1>. QED  BY <1>1 DEF Still, StopsStay, StopsBegin, LowerStay, WritesCalled, WatchedStay, AllOnSuites, Places

LEMMA StillMember ==
  ASSUME Stacks, Stacks', AllOnSuites, NEW t \in Threads, stack[t] # <<>>, NEW p \in Probes,
         Tops(t) = Frame("stop", "teardown", On(t)), On(t) \in Suites,
         Calls2(t, Frame("stop", "teardown", On(t)), Frame("stop", "lock", p))
  PROVE  Still /\ WatchedStay
<1> DEFINE g == Frame("stop", "lock", p)
<1>0. g.proc = "stop" /\ g.at = "lock"
  BY DEF Frame
<1>1. Len(stack[t]) \in Nat \ {0} /\ Len(stack'[t]) = Len(stack[t]) + 1
  BY DEF Stacks, Calls2
<1>2. \A u \in Threads : \A i \in Places(u) : i \in 1..Len(stack'[u]) /\ stack'[u][i] = stack[u][i]
  BY <1>1 DEF Calls2, OthersStay, Places, Tops
<1>3. \A u \in Threads : \A i \in 1..Len(stack'[u]) :
        i \in Places(u) \/ (u = t /\ i = Len(stack[t]) + 1 /\ stack'[u][i] = g)
  BY <1>1 DEF Calls2, OthersStay, Places
<1>4. Len(stack[t]) \in Places(t) /\ (Len(stack[t]) + 1) - 1 = Len(stack[t])
      /\ Stops(stack[t][Len(stack[t])], {"teardown"}, Suites)
  BY <1>1 DEF Places, Stops, Tops, Frame
<1> HIDE DEF g
<1>5. StopsStay
  BY <1>2 DEF StopsStay
<1>6. StopsBegin
  BY <1>0, <1>2, <1>3, <1>4 DEF StopsBegin
<1>7. LowerStay
  <2>1. \A u \in Threads : Len(stack[u]) \in Nat
    BY DEF Stacks
  <2>. QED  BY <1>2, <2>1 DEF LowerStay, Places
<1>8. WritesCalled /\ AllOnSuites' /\ WatchedStay
  BY <1>0, <1>2, <1>3 DEF WritesCalled, AllOnSuites, WatchedStay, Watched, Places
<1>. QED  BY <1>5, <1>6, <1>7, <1>8 DEF Still

Kept == Still /\ UNCHANGED <<running, stopping, stoppingTid>>

LEMMA KeptStop ==
  ASSUME Stacks, AllOnSuites, NEW t \in Threads, StopMember(t) \/ JoinsItself(t)
  PROVE  Kept /\ WatchedStay /\ UNCHANGED <<deferred, done, refs>>
<1>1. CASE StopMember(t)
  <2>1. Stacks' /\ At(t, "stop", "teardown") /\ On(t) \in Suites
    BY <1>1, StopCallsAndReturns DEF StopMember
  <2>2. PICK p \in Probes : Calls2(t, Frame("stop", "teardown", On(t)), Frame("stop", "lock", p))
    BY <1>1, StopCallsAndReturns
  <2>3. stack[t] # <<>> /\ Tops(t) = Frame("stop", "teardown", On(t))
    BY <2>1, TopAt
  <2>4. Still /\ WatchedStay
    BY <2>1, <2>2, <2>3, StillMember
  <2>. QED  BY <1>1, <2>4 DEF Kept, StopMember, objVars, sigVars, ioVars
<1>2. CASE JoinsItself(t)
  BY <1>2, StillStutters DEF Kept, JoinsItself, objVars, sigVars, ioVars
<1>. QED  BY <1>1, <1>2

LEMMA KeptStopAll ==
  ASSUME Stacks, registry \subseteq Objects, FirstEntries \subseteq Suites, AllOnSuites,
         NEW t \in Threads, StopAllSteps(t)
  PROVE  Kept /\ WatchedStay /\ UNCHANGED <<deferred, done, refs>>
<1>0. UNCHANGED <<running, stopping, stoppingTid, deferred, done, refs>>
  BY DEF StopAllSteps, StopAllLock, StopAllCopy, StopAllCall, StopAllErase, objVars, sigVars, ioVars
<1>1. CASE StopAllLock(t)
  <2>1. Stacks' /\ At(t, "all", "pick") /\ (Drops(t) \/ Replaces(t, Frame("all", "copy", On(t))))
    BY <1>1, StopAllMoves
  <2>2. stack[t] # <<>> /\ Tops(t) = Frame("all", "pick", On(t))
    BY <2>1, TopAt
  <2>3. /\ Tops(t).proc # "stop" /\ Frame("all", "copy", On(t)).proc # "stop"
        /\ Fine(Frame("all", "copy", On(t))) /\ ~Watched(Frame("all", "copy", On(t)))
    BY <2>2 DEF Fine, Watched, Frame
  <2>. QED  BY <1>0, <2>1, <2>2, <2>3, StillDrops, StillReplaces DEF Kept
<1>2. CASE StopAllCopy(t)
  <2>1. Stacks' /\ At(t, "all", "copy")
    BY <1>2, StopAllMoves
  <2>2. PICK o \in FirstEntries : stack' = [stack EXCEPT ![t] = Append(Front(@), Frame("all", "call", o))]
    BY <1>2 DEF StopAllCopy
  <2>3. o \in Suites /\ Frame("all", "call", o) \in FrameT
    <3>1. o \in Suites /\ o \in Objects \union {None} /\ o \in Objects /\ "call" \in AllPlaces
      BY DEF Objects, AllPlaces
    <3>. QED  BY <3>1, AllShape
  <2>4. Replaces(t, Frame("all", "call", o))
    BY <2>1, <2>2, <2>3, CopyReplaces
  <2>5. stack[t] # <<>> /\ Tops(t) = Frame("all", "copy", On(t))
    BY <2>1, TopAt
  <2>6. /\ Tops(t).proc # "stop" /\ Frame("all", "call", o).proc # "stop"
        /\ Fine(Frame("all", "call", o)) /\ ~Watched(Frame("all", "call", o))
    BY <2>3, <2>5 DEF Fine, Watched, Frame
  <2>. QED  BY <1>0, <2>1, <2>4, <2>5, <2>6, StillReplaces DEF Kept
<1>3. CASE StopAllCall(t)
  <2>1. Stacks' /\ At(t, "all", "call")
        /\ Calls2(t, Frame("all", "erase", On(t)), Frame("stop", "lock", On(t)))
    BY <1>3, StopAllMoves
  <2>2. stack[t] # <<>> /\ Tops(t) = Frame("all", "call", On(t)) /\ Len(stack[t]) \in Places(t)
    BY <2>1, TopAt, TopFrame DEF Places
  <2>3. On(t) \in Suites
    BY <2>2 DEF AllOnSuites, Tops, Frame
  <2>4. /\ Tops(t).proc # "stop" /\ Frame("all", "erase", On(t)).proc # "stop"
        /\ Fine(Frame("all", "erase", On(t))) /\ ~Watched(Frame("all", "erase", On(t)))
        /\ Fine(Frame("stop", "lock", On(t))) /\ ~Watched(Frame("stop", "lock", On(t)))
        /\ Frame("all", "erase", On(t)).on \in Suites
    BY <2>2, <2>3 DEF Fine, Watched, Frame
  <2>. QED  BY <1>0, <2>1, <2>2, <2>4, StillCalls DEF Kept
<1>4. CASE StopAllErase(t)
  <2>1. Stacks' /\ At(t, "all", "erase") /\ Replaces(t, Frame("all", "pick", On(t)))
    BY <1>4, StopAllMoves DEF Moves
  <2>2. stack[t] # <<>> /\ Tops(t) = Frame("all", "erase", On(t))
    BY <2>1, TopAt
  <2>3. /\ Tops(t).proc # "stop" /\ Frame("all", "pick", On(t)).proc # "stop"
        /\ Fine(Frame("all", "pick", On(t))) /\ ~Watched(Frame("all", "pick", On(t)))
    BY <2>2 DEF Fine, Watched, Frame
  <2>. QED  BY <1>0, <2>1, <2>2, <2>3, StillReplaces DEF Kept
<1>. QED  BY <1>1, <1>2, <1>3, <1>4 DEF StopAllSteps

LEMMA KeptEnd ==
  ASSUME Stacks, AllOnSuites, NEW t \in Threads, ExitHook(t) \/ ExitEnd(t)
  PROVE  Kept /\ WatchedStay /\ UNCHANGED <<deferred, done, refs>>
<1>0. UNCHANGED <<running, stopping, stoppingTid, deferred, done, refs>>
  BY DEF ExitHook, ExitEnd, objVars, sigVars, ioVars
<1>1. CASE ExitHook(t)
  <2>1. /\ Stacks' /\ At(t, "exit", "hook")
        /\ \/ Calls2(t, Frame("exit", "end", On(t)), Frame("all", "pick", None))
           \/ Replaces(t, Frame("exit", "end", On(t)))
    BY <1>1, EndMoves
  <2>2. stack[t] # <<>> /\ Tops(t) = Frame("exit", "hook", On(t))
    BY <2>1, TopAt
  <2>3. /\ Tops(t).proc # "stop" /\ Frame("exit", "end", On(t)).proc = "exit"
        /\ Fine(Frame("exit", "end", On(t))) /\ ~Watched(Frame("exit", "end", On(t)))
        /\ Fine(Frame("all", "pick", None)) /\ ~Watched(Frame("all", "pick", None))
    BY <2>2 DEF Fine, Watched, Frame
  <2>. QED  BY <1>0, <2>1, <2>2, <2>3, StillCalls, StillReplaces DEF Kept
<1>2. CASE ExitEnd(t)
  BY <1>0, <1>2, StillStutters DEF ExitEnd, Kept
<1>. QED  BY <1>1, <1>2

LEMMA KeptFlusher ==
  ASSUME Stacks, AllOnSuites, FlusherSteps
  PROVE  Kept /\ WatchedStay /\ UNCHANGED <<deferred, refs>> /\ (FlusherWrite \/ done' = done)
<1>. Flusher \in Threads
  BY DEF Threads
<1>0. UNCHANGED <<running, stopping, stoppingTid, deferred, refs>> /\ (FlusherWrite \/ done' = done)
  BY DEF FlusherSteps, FlusherRead, FlusherWrite, objVars, sigVars
<1>1. CASE FlusherRead
  <2>1. /\ Stacks' /\ At(Flusher, "flusher", "read")
        /\ Calls2(Flusher, Frame("flusher", "write", On(Flusher)), Frame("all", "pick", None))
    BY <1>1, FlusherMoves
  <2>2. stack[Flusher] # <<>> /\ Tops(Flusher) = Frame("flusher", "read", On(Flusher))
    BY <2>1, TopAt
  <2>3. /\ Tops(Flusher).proc # "stop" /\ Frame("flusher", "write", On(Flusher)).proc = "flusher"
        /\ ~Watched(Frame("flusher", "write", On(Flusher))) /\ Frame("all", "pick", None).proc = "all"
        /\ Fine(Frame("all", "pick", None)) /\ ~Watched(Frame("all", "pick", None))
    BY <2>2 DEF Fine, Watched, Frame
  <2>. QED  BY <1>0, <2>1, <2>2, <2>3, StillCalls DEF Kept
<1>2. CASE FlusherWrite
  <2>1. /\ Stacks' /\ At(Flusher, "flusher", "write")
        /\ Replaces(Flusher, Frame("flusher", "read", On(Flusher)))
    BY <1>2, FlusherMoves DEF Moves
  <2>2. stack[Flusher] # <<>> /\ Tops(Flusher) = Frame("flusher", "write", On(Flusher))
    BY <2>1, TopAt
  <2>3. /\ Tops(Flusher).proc # "stop" /\ Frame("flusher", "read", On(Flusher)).proc # "stop"
        /\ ~Watched(Frame("flusher", "read", On(Flusher))) /\ Fine(Frame("flusher", "read", On(Flusher)))
    BY <2>2 DEF Fine, Watched, Frame
  <2>. QED  BY <1>0, <2>1, <2>2, <2>3, StillReplaces DEF Kept
<1>. QED  BY <1>1, <1>2 DEF FlusherSteps

\* A handler moves from a to b, and nothing else does.
Passes(t, a, b) ==
  /\ Len(stack[t]) \in Places(t) /\ stack[t][Len(stack[t])] = Frame("handler", a, On(t))
  /\ \A u \in Threads : \A i \in 1..Len(stack'[u]) :
       /\ i \in Places(u)
       /\ stack'[u][i] = stack[u][i] \/ (u = t /\ i = Len(stack[t]) /\ stack'[u][i] = Frame("handler", b, On(t)))

LEMMA HandlerPass ==
  ASSUME Stacks, AllOnSuites, NEW t \in Threads, NEW a, At(t, "handler", a), NEW b \in AllPlaces, Goto(t, b)
  PROVE  Still /\ Passes(t, a, b)
         /\ (b \notin {"defer", "whose", "waitstop", "finish", "chain"} => WatchedStay)
<1>1. Stacks' /\ Replaces(t, Frame("handler", b, On(t)))
  BY OtherGoesOn
<1>2. stack[t] # <<>> /\ Tops(t) = Frame("handler", a, On(t)) /\ Len(stack[t]) \in Nat \ {0}
  BY TopAt, TopFrame
<1>3. /\ Tops(t).proc # "stop" /\ Frame("handler", b, On(t)).proc # "stop"
      /\ Fine(Frame("handler", b, On(t)))
      /\ b \notin {"defer", "whose", "waitstop", "finish", "chain"} => ~Watched(Frame("handler", b, On(t)))
  BY <1>2 DEF Fine, Watched, Frame
<1>4. Still /\ (~Watched(Frame("handler", b, On(t))) => WatchedStay)
  BY <1>1, <1>2, <1>3, StillReplaces
<1>5. Passes(t, a, b)
  BY <1>1, <1>2 DEF Passes, Replaces, OthersStay, Places, Tops
<1>. QED  BY <1>3, <1>4, <1>5

HandlerPasses(t) ==
  \/ HandlerRunning(t) \/ HandlerStopping(t) \/ HandlerWhose(t) \/ HandlerWaited(t) \/ HandlerExpires(t)
  \/ HandlerFinish(t)

\* Where each of these goes on.
LEMMA HandlerPlaces ==
  ASSUME Stacks, AllOnSuites, NEW t \in Threads
  PROVE  /\ HandlerRunning(t) => Still /\ Passes(t, "running", IF registry = {} THEN "finish" ELSE "stopping")
         /\ HandlerStopping(t) => Still /\ Passes(t, "stopping", IF stopping > 0 THEN "whose" ELSE "drain")
         /\ HandlerWhose(t) =>
              Still /\ Passes(t, "whose", IF ~IsStopping(t) THEN "waitstop"
                                          ELSE IF On(t) \in Crash THEN "finish" ELSE "defer")
         /\ HandlerWaited(t) =>
              Still /\ ((Passes(t, "waitdone", "finish") /\ done) \/ (Passes(t, "waitstop", "finish") /\ stopping = 0))
         /\ HandlerExpires(t) => Still /\ (Passes(t, "waitdone", "finish") \/ Passes(t, "waitstop", "finish"))
         /\ HandlerFinish(t) => Still /\ Passes(t, "finish", "chain")
<1>1. ASSUME HandlerRunning(t)
      PROVE  Still /\ Passes(t, "running", IF registry = {} THEN "finish" ELSE "stopping")
  BY <1>1, HandlerPass DEF HandlerRunning, AllPlaces
<1>2. ASSUME HandlerStopping(t)
      PROVE  Still /\ Passes(t, "stopping", IF stopping > 0 THEN "whose" ELSE "drain")
  BY <1>2, HandlerPass DEF HandlerStopping, AllPlaces
<1>3. ASSUME HandlerWhose(t)
      PROVE  Still /\ Passes(t, "whose", IF ~IsStopping(t) THEN "waitstop"
                                         ELSE IF On(t) \in Crash THEN "finish" ELSE "defer")
  BY <1>3, HandlerPass DEF HandlerWhose, AllPlaces
<1>4. ASSUME HandlerWaited(t)
      PROVE  Still /\ ((Passes(t, "waitdone", "finish") /\ done) \/ (Passes(t, "waitstop", "finish") /\ stopping = 0))
  BY <1>4, HandlerPass DEF HandlerWaited, Awaited, AllPlaces
<1>5. ASSUME HandlerExpires(t)
      PROVE  Still /\ (Passes(t, "waitdone", "finish") \/ Passes(t, "waitstop", "finish"))
  BY <1>5, HandlerPass DEF HandlerExpires, InWait, AllPlaces
<1>6. ASSUME HandlerFinish(t)
      PROVE  Still /\ Passes(t, "finish", "chain")
  BY <1>6, HandlerPass DEF HandlerFinish, AllPlaces
<1>. QED  BY <1>1, <1>2, <1>3, <1>4, <1>5, <1>6

LEMMA KeptHandler ==
  ASSUME Stacks, AllOnSuites, NEW t \in Threads, HandlerSteps(t)
  PROVE  /\ Kept /\ refs' = refs /\ (HandlerDefer(t) \/ deferred' = deferred) /\ (done' => done)
         /\ HandlerPasses(t) \/ WatchedStay
<1>0. /\ UNCHANGED <<running, stopping, stoppingTid, refs>> /\ (HandlerDefer(t) \/ deferred' = deferred)
      /\ done' => done
  BY DEF HandlerSteps, HandlerEnter, HandlerRunning, HandlerStopping, HandlerWhose, HandlerDefer,
         HandlerDrain, HandlerWake, HandlerWaited, HandlerExpires, HandlerFinish, HandlerChain,
         objVars, sigVars, ioVars
<1>1. CASE HandlerEnter(t)
  <2>1. /\ Stacks' /\ At(t, "handler", "enter")
        /\ Drops(t) \/ Replaces(t, Frame("handler", "running", On(t))) \/ UNCHANGED stack
    BY <1>1, HandlerEndMoves
  <2>2. stack[t] # <<>> /\ Tops(t) = Frame("handler", "enter", On(t))
    BY <2>1, TopAt
  <2>3. /\ Tops(t).proc # "stop" /\ Frame("handler", "running", On(t)).proc # "stop"
        /\ Fine(Frame("handler", "running", On(t))) /\ ~Watched(Frame("handler", "running", On(t)))
    BY <2>2 DEF Fine, Watched, Frame
  <2>. QED  BY <1>0, <2>1, <2>2, <2>3, StillDrops, StillReplaces, StillStutters DEF Kept
<1>2. CASE HandlerDefer(t) \/ HandlerChain(t)
  <2>1. Stacks' /\ Drops(t) /\ \E a \in AllPlaces : At(t, "handler", a)
    BY <1>2, HandlerEndMoves DEF AllPlaces
  <2>2. stack[t] # <<>> /\ Tops(t).proc = "handler"
    BY <2>1, TopAt DEF Frame
  <2>. QED  BY <1>0, <2>1, <2>2, StillDrops DEF Kept
<1>3. CASE HandlerDrain(t)
  <2>1. At(t, "handler", "drain") /\ Goto(t, "wake")
    BY <1>3 DEF HandlerDrain
  <2>2. Still /\ WatchedStay
    BY <2>1, HandlerPass DEF AllPlaces
  <2>. QED  BY <1>0, <2>2 DEF Kept
<1>4. CASE HandlerWake(t)
  <2>1. At(t, "handler", "wake") /\ Goto(t, "waitdone")
    BY <1>4 DEF HandlerWake
  <2>2. Still /\ WatchedStay
    BY <2>1, HandlerPass DEF AllPlaces
  <2>. QED  BY <1>0, <2>2 DEF Kept
<1>5. CASE HandlerPasses(t)
  BY <1>0, <1>5, HandlerPlaces DEF HandlerPasses, Kept
<1>. QED  BY <1>1, <1>2, <1>3, <1>4, <1>5 DEF HandlerSteps, HandlerPasses

LEMMA KeptHost ==
  ASSUME Stacks, AllOnSuites, NEW t \in Hosts, HostSteps(t), ~HostDestroy(t)
  PROVE  Kept /\ WatchedStay /\ UNCHANGED <<deferred, done, refs>>
<1>. t \in Threads
  BY DEF Threads
<1>0. UNCHANGED <<running, stopping, stoppingTid, deferred, done, refs>>
  BY DEF HostSteps, HostStop, HostExit, Fork, HostCall, Signal, objVars, sigVars, ioVars
<1>1. CASE HostStop(t)
  <2>1. PICK o \in Suites : Push(t, Frame("stop", "lock", o))
    BY <1>1 DEF HostStop
  <2>2. o \in Objects /\ Frame("stop", "lock", o) \in FrameT
    BY StopShape DEF Objects, AllPlaces
  <2>3. Stacks' /\ Pushes(t, Frame("stop", "lock", o))
    BY <2>1, <2>2, PushPushes
  <2>4. Fine(Frame("stop", "lock", o)) /\ ~Watched(Frame("stop", "lock", o))
    BY DEF Fine, Watched, Frame
  <2>. QED  BY <1>0, <2>3, <2>4, StillPushes DEF Kept
<1>2. CASE HostExit(t)
  <2>1. Stacks' /\ Pushes(t, Frame("exit", "hook", None))
    BY <1>2, HostMoves
  <2>2. Fine(Frame("exit", "hook", None)) /\ ~Watched(Frame("exit", "hook", None))
    BY DEF Fine, Watched, Frame
  <2>. QED  BY <1>0, <2>1, <2>2, StillPushes DEF Kept
<1>3. CASE Fork(t)
  BY <1>0, <1>3, HostMoves, StillStutters DEF Kept
<1>4. CASE \E s \in Signals : Signal(t, s)
  <2>1. PICK s \in Signals : Signal(t, s)
    BY <1>4
  <2>2. Stacks' /\ (Pushes(t, Frame("handler", "enter", s)) \/ UNCHANGED stack)
    BY <2>1, WorldMoves
  <2>3. Fine(Frame("handler", "enter", s)) /\ ~Watched(Frame("handler", "enter", s))
    BY DEF Fine, Watched, Frame
  <2>. QED  BY <1>0, <2>2, <2>3, StillPushes, StillStutters DEF Kept
<1>. QED  BY <1>1, <1>2, <1>3, <1>4 DEF HostSteps

LEMMA KeptFatal ==
  ASSUME Stacks, AllOnSuites, WorkerFatal
  PROVE  Kept /\ WatchedStay /\ UNCHANGED <<deferred, done, refs>>
<1>1. Worker \in Threads /\ Stacks' /\ Pushes(Worker, Frame("exit", "hook", None))
  BY WorldMoves DEF Threads
<1>2. Fine(Frame("exit", "hook", None)) /\ ~Watched(Frame("exit", "hook", None))
  BY DEF Fine, Watched, Frame
<1>. QED  BY <1>1, <1>2, StillPushes DEF Kept, WorkerFatal, HostCall, objVars, sigVars, ioVars

---------------------------------------------------------------------------
(* A Stop()'s own steps.                                                   *)

OwnStep(t) ==
  \/ StopLock(t) \/ ScopeCount(t) \/ ScopeMark(t) \/ StopCheck(t) \/ Teardown(t) \/ RemoveSignalHandlers(t)
  \/ Unregister(t) \/ ScopeLeave(t) \/ ScopeClear(t) \/ TakeDeferred(t) \/ StopUnlock(t)

\* All other steps leave every Stop() where it is.
LEMMA KeptSteps ==
  ASSUME Stacks, registry \subseteq Objects, FirstEntries \subseteq Suites, AllOnSuites, NoDestroyer,
         "destroy" \notin HostCalls, Next
  PROVE  \/ \E t \in Threads : OwnStep(t)
         \/ /\ Kept /\ refs' = refs
            /\ deferred' = deferred \/ \E t \in Threads : HandlerDefer(t)
            /\ (done' => done) \/ FlusherWrite
            /\ WatchedStay \/ \E t \in Threads : HandlerPasses(t)
<1>1. ASSUME NEW t \in Threads, Run(t)
      PROVE  \/ OwnStep(t)
             \/ /\ Kept /\ refs' = refs
                /\ deferred' = deferred \/ HandlerDefer(t)
                /\ (done' => done) \/ FlusherWrite
                /\ WatchedStay \/ HandlerPasses(t)
  <2>1. CASE StopSteps(t)
    BY <2>1, KeptStop DEF StopSteps, OwnStep
  <2>2. CASE StopAllSteps(t)
    BY <2>2, KeptStopAll
  <2>3. CASE EndSteps(t)
    BY <2>3, NoDestroyStep, KeptEnd DEF EndSteps
  <2>4. CASE HandlerSteps(t)
    BY <2>4, KeptHandler
  <2>5. CASE FlusherSteps
    BY <2>5, KeptFlusher
  <2>. QED  BY <1>1, <2>1, <2>2, <2>3, <2>4, <2>5 DEF Run
<1>2. ASSUME NEW t \in Hosts, HostSteps(t)
      PROVE  Kept /\ WatchedStay /\ UNCHANGED <<deferred, done, refs>>
  <2>1. ~HostDestroy(t)
    BY DEF HostDestroy, HostCall
  <2>. QED  BY <1>2, <2>1, KeptHost
<1>. QED  BY <1>1, <1>2, KeptFatal DEF Next

\* With one suite, at most one Stop() of it and one of a probe are past their locks.
OneSuite == \E s : Suites = {s}

LEMMA OnePast ==
  ASSUME OneSuite, Typed, Holding, ProbeStops,
         NEW u \in Threads, NEW i \in Places(u), IsPast(u, i),
         NEW v \in Threads, NEW j \in Places(v), IsPast(v, j),
         (stack[u][i].on \in Suites /\ stack[v][j].on \in Suites) \/ (stack[u][i].on \in Probes /\ stack[v][j].on \in Probes)
  PROVE  u = v /\ i = j
<1>1. ASSUME NEW u1 \in Threads, NEW i1 \in Places(u1), IsPast(u1, i1), stack[u1][i1].on \in Suites,
             NEW v1 \in Threads, NEW j1 \in Places(v1), IsPast(v1, j1), stack[v1][j1].on \in Suites
      PROVE  u1 = v1 /\ i1 = j1
  <2>1. stack[u1][i1].on = stack[v1][j1].on
    BY <1>1 DEF OneSuite
  <2>2. u1 = v1
    BY <1>1, <2>1 DEF Holding
  <2>. QED  BY <1>1, <2>1, <2>2 DEF Holding
<1>2. CASE stack[u][i].on \in Suites /\ stack[v][j].on \in Suites
  BY <1>1, <1>2
<1>3. CASE stack[u][i].on \in Probes /\ stack[v][j].on \in Probes
  <2>1. /\ i - 1 \in Places(u) /\ IsPast(u, i - 1) /\ stack[u][i - 1].on \in Suites
        /\ j - 1 \in Places(v) /\ IsPast(v, j - 1) /\ stack[v][j - 1].on \in Suites
    BY <1>3 DEF ProbeStops, Stops, IsPast
  <2>2. u = v /\ i - 1 = j - 1
    BY <1>1, <2>1
  <2>. QED  BY <2>2 DEF Places
<1>. QED  BY <1>2, <1>3

LEMMA OnlySuite ==
  ASSUME OneSuite, Typed, Holding, ProbeStops, NEW t \in Threads, NEW a, At(t, "stop", a), a # "lock", On(t) \in Suites
  PROVE  \A u \in Threads : \A i \in Places(u) : IsPast(u, i) => u = t /\ i = Len(stack[t])
<1>0. Len(stack[t]) \in Nat \ {0} /\ stack[t][Len(stack[t])] = Frame("stop", a, On(t))
  BY TopFrame DEF Typed
<1>1. Len(stack[t]) \in Places(t) /\ IsPast(t, Len(stack[t])) /\ stack[t][Len(stack[t])].on \in Suites
  BY <1>0 DEF Places, IsPast, Frame
<1>. SUFFICES ASSUME NEW u \in Threads, NEW i \in Places(u), IsPast(u, i)
              PROVE  u = t /\ i = Len(stack[t])
  OBVIOUS
<1>2. CASE stack[u][i].on \in Suites
  BY <1>1, <1>2, OnePast
<1>3. CASE stack[u][i].on \in Probes
  <2>1. i - 1 \in Places(u) /\ IsPast(u, i - 1) /\ stack[u][i - 1].on \in Suites
    BY <1>3 DEF ProbeStops, Stops, IsPast
  <2>2. u = t /\ i - 1 = Len(stack[t])
    BY <1>1, <2>1, OnePast
  <2>3. i \in 1..Len(stack[t]) /\ Len(stack[t]) \in 1..Len(stack[t])
    BY <1>1, <2>2 DEF Places
  <2>. QED  BY <2>2, <2>3
<1>4. stack[u][i].on \in Suites \union Probes
  BY FramesOnObjects DEF Typed, IsPast, Objects
<1>. QED  BY <1>2, <1>3, <1>4

LEMMA OnlyProbe ==
  ASSUME OneSuite, Typed, Holding, ProbeStops, NEW t \in Threads, NEW a, At(t, "stop", a), a # "lock", On(t) \in Probes
  PROVE  /\ Len(stack[t]) - 1 \in Places(t) /\ Stops(stack[t][Len(stack[t]) - 1], {"teardown"}, Suites)
         /\ \A u \in Threads : \A i \in Places(u) :
              IsPast(u, i) /\ stack[u][i].on \in Probes => u = t /\ i = Len(stack[t])
<1>0. Len(stack[t]) \in Nat \ {0} /\ stack[t][Len(stack[t])] = Frame("stop", a, On(t))
  BY TopFrame DEF Typed
<1>1. Len(stack[t]) \in Places(t) /\ IsPast(t, Len(stack[t])) /\ stack[t][Len(stack[t])].on \in Probes
  BY <1>0 DEF Places, IsPast, Frame
<1>2. Len(stack[t]) - 1 \in Places(t) /\ Stops(stack[t][Len(stack[t]) - 1], {"teardown"}, Suites)
  BY <1>1 DEF ProbeStops, IsPast
<1>. QED  BY <1>1, <1>2, OnePast

\* How a Stop()'s move changes where Stop()s are.
LEMMA StoppingMoves ==
  ASSUME Stacks, NEW t \in Threads, NEW a, NEW b, Between(t, a, b), NEW A, NEW X
  PROVE  /\ (a \in A => b \in A) /\ Stopping(A, X) => Stopping(A, X)'
         /\ (b \in A => a \in A) /\ Stopping(A, X)' => Stopping(A, X)
         /\ On(t) \notin X => (Stopping(A, X)' <=> Stopping(A, X))
         /\ a \in A /\ On(t) \in X => Stopping(A, X)
         /\ b \in A /\ On(t) \in X => Stopping(A, X)'
<1>0. /\ Len(stack[t]) \in Places(t) /\ stack[t][Len(stack[t])] = Frame("stop", a, On(t))
      /\ \A u \in Threads : Len(stack'[u]) = Len(stack[u])
      /\ \A u \in Threads : \A i \in Places(u) :
           \/ stack'[u][i] = stack[u][i] /\ ~(u = t /\ i = Len(stack[t]))
           \/ u = t /\ i = Len(stack[t]) /\ stack'[u][i] = Frame("stop", b, On(t))
  BY BetweenFrames
<1>1. ASSUME (a \in A => b \in A) \/ On(t) \notin X, Stopping(A, X)
      PROVE  Stopping(A, X)'
  <2>1. PICK u \in Threads : \E i \in Places(u) : Stops(stack[u][i], A, X)
    BY <1>1 DEF Stopping
  <2>2. PICK i \in Places(u) : Stops(stack[u][i], A, X)
    BY <2>1
  <2>3. i \in 1..Len(stack'[u]) /\ Stops(stack'[u][i], A, X)
    BY <1>0, <1>1, <2>2 DEF Places, Stops, Frame
  <2>. QED  BY <2>3 DEF Stopping, Stops, Places
<1>2. ASSUME (b \in A => a \in A) \/ On(t) \notin X, Stopping(A, X)'
      PROVE  Stopping(A, X)
  <2>1. PICK u \in Threads : \E i \in 1..Len(stack'[u]) : Stops(stack'[u][i], A, X)
    BY <1>2 DEF Stopping, Stops, Places
  <2>2. PICK i \in 1..Len(stack'[u]) : Stops(stack'[u][i], A, X)
    BY <2>1
  <2>3. i \in Places(u) /\ Stops(stack[u][i], A, X)
    BY <1>0, <1>2, <2>2 DEF Places, Stops, Frame
  <2>. QED  BY <2>3 DEF Stopping
<1>3. ASSUME a \in A, On(t) \in X
      PROVE  Stopping(A, X)
  BY <1>0, <1>3 DEF Stopping, Stops, Frame
<1>4. ASSUME b \in A, On(t) \in X
      PROVE  Stopping(A, X)'
  <2>1. Len(stack[t]) \in 1..Len(stack'[t]) /\ Stops(stack'[t][Len(stack[t])], A, X)
    BY <1>0, <1>4 DEF Places, Stops, Frame
  <2>. QED  BY <2>1 DEF Stopping, Stops, Places
<1>. QED  BY <1>1, <1>2, <1>3, <1>4

LEMMA StoppingKept ==
  ASSUME Still, NEW A, "lock" \notin A, NEW X
  PROVE  Stopping(A, X)' <=> Stopping(A, X)
<1>1. ASSUME Stopping(A, X)
      PROVE  Stopping(A, X)'
  <2>1. PICK u \in Threads : \E i \in Places(u) : Stops(stack[u][i], A, X)
    BY <1>1 DEF Stopping
  <2>2. PICK i \in Places(u) : Stops(stack[u][i], A, X)
    BY <2>1
  <2>3. i \in 1..Len(stack'[u]) /\ Stops(stack'[u][i], A, X)
    BY <2>2 DEF Still, StopsStay, Stops
  <2>. QED  BY <2>3 DEF Stopping, Stops, Places
<1>2. ASSUME Stopping(A, X)'
      PROVE  Stopping(A, X)
  <2>1. PICK u \in Threads : \E i \in 1..Len(stack'[u]) : Stops(stack'[u][i], A, X)
    BY <1>2 DEF Stopping, Stops, Places
  <2>2. PICK i \in 1..Len(stack'[u]) : Stops(stack'[u][i], A, X)
    BY <2>1
  <2>3. i \in Places(u) /\ Stops(stack[u][i], A, X)
    BY <2>2 DEF Still, StopsBegin, Stops
  <2>. QED  BY <2>3 DEF Stopping
<1>. QED  BY <1>1, <1>2

\* A Stop() that returns was at its end.
LEMMA StoppingDrops ==
  ASSUME Stacks, NEW t \in Threads, At(t, "stop", "unlock"), Drops(t), NEW A, "unlock" \notin A, NEW X
  PROVE  Stopping(A, X)' <=> Stopping(A, X)
<1>0. Len(stack[t]) \in Nat \ {0} /\ stack[t][Len(stack[t])] = Frame("stop", "unlock", On(t))
      /\ Len(stack'[t]) = Len(stack[t]) - 1
  BY TopFrame DEF Drops
<1>1. \A u \in Threads : \A i \in Places(u) :
        (u = t /\ i = Len(stack[t])) \/ (i \in 1..Len(stack'[u]) /\ stack'[u][i] = stack[u][i])
  BY <1>0 DEF Drops, OthersStay, Places
<1>2. \A u \in Threads : \A i \in 1..Len(stack'[u]) : i \in Places(u) /\ stack'[u][i] = stack[u][i]
  BY <1>0 DEF Drops, OthersStay, Places
<1>3. ASSUME Stopping(A, X)
      PROVE  Stopping(A, X)'
  <2>1. PICK u \in Threads : \E i \in Places(u) : Stops(stack[u][i], A, X)
    BY <1>3 DEF Stopping
  <2>2. PICK i \in Places(u) : Stops(stack[u][i], A, X)
    BY <2>1
  <2>3. i \in 1..Len(stack'[u]) /\ Stops(stack'[u][i], A, X)
    BY <1>0, <1>1, <2>2 DEF Stops, Frame
  <2>. QED  BY <2>3 DEF Stopping, Stops, Places
<1>4. ASSUME Stopping(A, X)'
      PROVE  Stopping(A, X)
  <2>1. PICK u \in Threads : \E i \in 1..Len(stack'[u]) : Stops(stack'[u][i], A, X)
    BY <1>4 DEF Stopping, Stops, Places
  <2>2. PICK i \in 1..Len(stack'[u]) : Stops(stack'[u][i], A, X)
    BY <2>1
  <2>. QED  BY <1>2, <2>2 DEF Stopping
<1>. QED  BY <1>3, <1>4

\* A suite that left the registry has taken its probes with it.
LEMMA FirstAreSuites ==
  ASSUME OneSuite, registry \subseteq Objects, GoneStopped, MembersGone
  PROVE  FirstEntries \subseteq Suites /\ (registry = {} => SuiteEnded)
<1>1. CASE registry \intersect Suites # {}
  BY <1>1 DEF FirstEntries
<1>2. CASE registry \intersect Suites = {}
  <2>1. SuiteEnded
    BY <1>2 DEF GoneStopped, Objects, SuiteEnded
  <2>. QED  BY <1>2, <2>1 DEF MembersGone, FirstEntries, Objects
<1>. QED  BY <1>1, <1>2

\* A Stop() in a stack is one that was there.
StopsFrom ==
  \A u \in Threads : \A i \in 1..Len(stack'[u]) :
    stack'[u][i].proc = "stop" =>
      i \in Places(u) /\ stack[u][i].proc = "stop" /\ stack'[u][i].on = stack[u][i].on

Below == LowerStay /\ WatchedStay /\ WritesCalled /\ AllOnSuites' /\ StopsFrom

LEMMA BetweenBelow ==
  ASSUME Stacks, AllOnSuites, NEW t \in Threads, NEW a, NEW b, Between(t, a, b)
  PROVE  Below
<1>1. /\ Len(stack[t]) \in Places(t) /\ stack[t][Len(stack[t])] = Frame("stop", a, On(t))
      /\ \A u \in Threads : Len(stack'[u]) = Len(stack[u])
      /\ \A u \in Threads : \A i \in Places(u) :
           \/ stack'[u][i] = stack[u][i] /\ ~(u = t /\ i = Len(stack[t]))
           \/ u = t /\ i = Len(stack[t]) /\ stack'[u][i] = Frame("stop", b, On(t))
  BY BetweenFrames
<1>2. \A u \in Threads : Len(stack[u]) \in Nat
  BY DEF Stacks
<1>3. LowerStay
  BY <1>1, <1>2 DEF LowerStay, Places
<1>4. WatchedStay /\ WritesCalled /\ AllOnSuites'
  BY <1>1 DEF WatchedStay, Watched, WritesCalled, AllOnSuites, Places, Frame
<1>5. StopsFrom
  BY <1>1 DEF StopsFrom, Places, Frame
<1>. QED  BY <1>3, <1>4, <1>5 DEF Below

LEMMA DropsBelow ==
  ASSUME Stacks, AllOnSuites, NEW t \in Threads, stack[t] # <<>>, Drops(t)
  PROVE  Below
<1>1. Len(stack[t]) \in Nat \ {0} /\ Len(stack'[t]) = Len(stack[t]) - 1
  BY DEF Stacks, Drops
<1>2. \A u \in Threads : \A i \in 1..Len(stack'[u]) : i \in Places(u) /\ stack'[u][i] = stack[u][i]
  BY <1>1 DEF Drops, OthersStay, Places
<1>. QED  BY <1>2 DEF Below, LowerStay, WatchedStay, WritesCalled, AllOnSuites, StopsFrom, Places

LEMMA OwnBelow ==
  ASSUME Stacks, AllOnSuites, NEW t \in Threads, OwnStep(t)
  PROVE  Below /\ Stacks' /\ UNCHANGED done
<1>0. UNCHANGED done
  BY DEF OwnStep, StopLock, ScopeCount, ScopeMark, StopCheck, Teardown, RemoveSignalHandlers, Unregister,
         ScopeLeave, ScopeClear, TakeDeferred, StopUnlock, ioVars
<1>1. CASE StopUnlock(t)
  <2>1. Stacks' /\ At(t, "stop", "unlock") /\ Drops(t)
    BY <1>1, StopCallsAndReturns
  <2>. QED  BY <1>0, <2>1, DropsBelow DEF At
<1>2. CASE ~StopUnlock(t)
  <2>1. Stacks' /\ \E a : \E b : Between(t, a, b)
    BY <1>2, StopMoves DEF OwnStep
  <2>. QED  BY <1>0, <2>1, BetweenBelow
<1>. QED  BY <1>1, <1>2

LEMMA ProbeStopsOwn ==
  ASSUME Stacks, ProbeStops, Below
  PROVE  ProbeStops'
<1>. SUFFICES ASSUME NEW u \in Threads, NEW i \in 1..Len(stack'[u]),
                     stack'[u][i].proc = "stop", stack'[u][i].on \in Probes
              PROVE  i - 1 \in 1..Len(stack'[u]) /\ Stops(stack'[u][i - 1], {"teardown"}, Suites)
  BY DEF ProbeStops, Places, Stops
<1>1. i \in Places(u) /\ stack[u][i].proc = "stop" /\ stack[u][i].on \in Probes
  BY DEF Below, StopsFrom
<1>2. i - 1 \in Places(u) /\ Stops(stack[u][i - 1], {"teardown"}, Suites)
  BY <1>1 DEF ProbeStops
<1>3. Len(stack[u]) \in Nat
  BY DEF Stacks
<1>4. i - 1 \in 1..(Len(stack[u]) - 1) /\ i - 1 \in 1..Len(stack'[u])
  BY <1>1, <1>2, <1>3 DEF Places
<1>5. stack'[u][i - 1] = stack[u][i - 1]
  BY <1>4 DEF Below, LowerStay
<1>. QED  BY <1>2, <1>4, <1>5

LEMMA ProbeStopsKept ==
  ASSUME ProbeStops, Still
  PROVE  ProbeStops'
<1>. SUFFICES ASSUME NEW u \in Threads, NEW i \in 1..Len(stack'[u]),
                     stack'[u][i].proc = "stop", stack'[u][i].on \in Probes
              PROVE  i - 1 \in 1..Len(stack'[u]) /\ Stops(stack'[u][i - 1], {"teardown"}, Suites)
  BY DEF ProbeStops, Places, Stops
<1>1. stack'[u][i].on \notin Suites
  BY SetAssumption
<1>2. i - 1 \in Places(u) /\ Stops(stack[u][i - 1], {"teardown"}, Suites)
  BY <1>1 DEF Still, StopsBegin, ProbeStops
<1>. QED  BY <1>2 DEF Still, StopsStay, Stops

\* How a Stop()'s move changes the frames that stop.
LEMMA StopsMoves ==
  ASSUME Stacks, NEW t \in Threads, NEW a, NEW b, Between(t, a, b), NEW A, NEW X,
         (a \in A => b \in A) \/ On(t) \notin X,
         NEW u \in Threads, NEW i \in Places(u), Stops(stack[u][i], A, X)
  PROVE  i \in 1..Len(stack'[u]) /\ Stops(stack'[u][i], A, X)
<1>1. /\ stack[t][Len(stack[t])] = Frame("stop", a, On(t))
      /\ Len(stack'[u]) = Len(stack[u])
      /\ \/ stack'[u][i] = stack[u][i]
         \/ u = t /\ i = Len(stack[t]) /\ stack'[u][i] = Frame("stop", b, On(t))
  BY BetweenFrames
<1>. QED  BY <1>1 DEF Stops, Places, Frame

LEMMA StopsDrops ==
  ASSUME Stacks, NEW t \in Threads, At(t, "stop", "unlock"), Drops(t), NEW A, "unlock" \notin A, NEW X,
         NEW u \in Threads, NEW i \in Places(u), Stops(stack[u][i], A, X)
  PROVE  i \in 1..Len(stack'[u]) /\ Stops(stack'[u][i], A, X)
<1>1. Len(stack[t]) \in Nat \ {0} /\ stack[t][Len(stack[t])] = Frame("stop", "unlock", On(t))
      /\ Len(stack'[t]) = Len(stack[t]) - 1
  BY TopFrame DEF Drops
<1>2. ~(u = t /\ i = Len(stack[t]))
  BY <1>1 DEF Stops, Frame
<1>. QED  BY <1>1, <1>2 DEF Drops, OthersStay, Places

\* The top of t is the only Stop() of an object of X past its lock.
OnlyOne(t, X) ==
  \A u \in Threads : \A i \in Places(u) : IsPast(u, i) /\ stack[u][i].on \in X => u = t /\ i = Len(stack[t])

LEMMA OnlyAt ==
  ASSUME OneSuite, Typed, Holding, ProbeStops, NEW t \in Threads, NEW a, At(t, "stop", a), a # "lock"
  PROVE  /\ On(t) \in Suites \/ On(t) \in Probes
         /\ On(t) \in Suites => On(t) \notin Probes /\ OnlyOne(t, Suites)
                                /\ \A A : "lock" \notin A => ~Stopping(A, Probes)
         /\ On(t) \in Probes => On(t) \notin Suites /\ OnlyOne(t, Probes)
                                /\ \A A : "teardown" \in A => Stopping(A, Suites)
<1>1. On(t) \in Objects /\ stack[t][Len(stack[t])] = Frame("stop", a, On(t))
  BY StopOn, TopFrame DEF Typed
<1>2. ASSUME On(t) \in Suites
      PROVE  OnlyOne(t, Suites) /\ \A A : "lock" \notin A => ~Stopping(A, Probes)
  <2>1. \A u \in Threads : \A i \in Places(u) : IsPast(u, i) => u = t /\ i = Len(stack[t])
    BY <1>2, OnlySuite
  <2>2. On(t) \notin Probes
    BY <1>2, SetAssumption
  <2>3. ASSUME NEW A, "lock" \notin A, Stopping(A, Probes)
        PROVE  FALSE
    <3>1. PICK u \in Threads : \E i \in Places(u) : Stops(stack[u][i], A, Probes)
      BY <2>3 DEF Stopping
    <3>2. PICK i \in Places(u) : Stops(stack[u][i], A, Probes)
      BY <3>1
    <3>3. IsPast(u, i)
      BY <2>3, <3>2 DEF Stops, IsPast
    <3>4. u = t /\ i = Len(stack[t])
      BY <2>1, <3>3
    <3>. QED  BY <1>1, <2>2, <3>2, <3>4 DEF Stops, Frame
  <2>. QED  BY <2>1, <2>3 DEF OnlyOne
<1>3. ASSUME On(t) \in Probes
      PROVE  OnlyOne(t, Probes) /\ \A A : "teardown" \in A => Stopping(A, Suites)
  <2>1. /\ Len(stack[t]) - 1 \in Places(t) /\ Stops(stack[t][Len(stack[t]) - 1], {"teardown"}, Suites)
        /\ OnlyOne(t, Probes)
    BY <1>3, OnlyProbe DEF OnlyOne
  <2>. QED  BY <2>1 DEF Stopping, Stops
<1>. QED  BY <1>1, <1>2, <1>3, SetAssumption DEF Objects

LEMMA OnlyGoes ==
  ASSUME Stacks, NEW t \in Threads, NEW a, NEW b, Between(t, a, b), NEW A, "lock" \notin A, NEW X, OnlyOne(t, X)
  PROVE  (a \notin A => ~Stopping(A, X)) /\ (b \notin A => ~Stopping(A, X)')
<1>0. /\ stack[t][Len(stack[t])] = Frame("stop", a, On(t))
      /\ \A u \in Threads : Len(stack'[u]) = Len(stack[u])
      /\ \A u \in Threads : \A i \in Places(u) :
           \/ stack'[u][i] = stack[u][i] /\ ~(u = t /\ i = Len(stack[t]))
           \/ u = t /\ i = Len(stack[t]) /\ stack'[u][i] = Frame("stop", b, On(t))
  BY BetweenFrames
<1>1. ASSUME a \notin A, Stopping(A, X)
      PROVE  FALSE
  <2>1. PICK u \in Threads : \E i \in Places(u) : Stops(stack[u][i], A, X)
    BY <1>1 DEF Stopping
  <2>2. PICK i \in Places(u) : Stops(stack[u][i], A, X)
    BY <2>1
  <2>3. u = t /\ i = Len(stack[t])
    BY <2>2 DEF Stops, IsPast, OnlyOne
  <2>. QED  BY <1>0, <1>1, <2>2, <2>3 DEF Stops, Frame
<1>2. ASSUME b \notin A, Stopping(A, X)'
      PROVE  FALSE
  <2>1. PICK u \in Threads : \E i \in 1..Len(stack'[u]) : Stops(stack'[u][i], A, X)
    BY <1>2 DEF Stopping, Stops, Places
  <2>2. PICK i \in 1..Len(stack'[u]) : Stops(stack'[u][i], A, X)
    BY <2>1
  <2>3. i \in Places(u) /\ stack'[u][i] = stack[u][i] /\ ~(u = t /\ i = Len(stack[t]))
    BY <1>0, <1>2, <2>2 DEF Stops, Places, Frame
  <2>. QED  BY <2>2, <2>3 DEF Stops, IsPast, OnlyOne
<1>. QED  BY <1>1, <1>2

---------------------------------------------------------------------------
(* The signal: the invariants' steps.                                      *)

\* A Stop() that has the count alone is the suite's.
LEMMA AloneIsSuite ==
  ASSUME OneSuite, Typed, Holding, ProbeStops, Counted, NEW t \in Threads, At(t, "stop", "leave")
  PROVE  /\ On(t) \in Suites => stopping = 1
         /\ On(t) \in Probes => stopping = 2
<1>1. Len(stack[t]) \in Places(t) /\ stack[t][Len(stack[t])] = Frame("stop", "leave", On(t))
  BY TopFrame DEF Typed, Places
<1>2. ASSUME On(t) \in Suites
      PROVE  stopping = 1
  <2>1. ~Stopping(Scope, Probes)
    BY <1>2, OnlyAt DEF Scope
  <2>2. Stopping(Scope, Suites)
    BY <1>1, <1>2 DEF Stopping, Stops, Frame, Scope
  <2>. QED  BY <2>1, <2>2 DEF Counted
<1>3. ASSUME On(t) \in Probes
      PROVE  stopping = 2
  <2>1. Stopping(Scope, Probes)
    BY <1>1, <1>3 DEF Stopping, Stops, Frame, Scope
  <2>. QED  BY <2>1 DEF Counted
<1>. QED  BY <1>2, <1>3

LEMMA LateOnSuitesOwn ==
  ASSUME OneSuite, Typed, Holding, ProbeStops, Counted, LateOnSuites, NEW t \in Threads, OwnStep(t)
  PROVE  LateOnSuites'
<1>1. ASSUME NEW a, NEW b, Between(t, a, b),
             b \in {"remove", "clear", "take"} => a \in {"remove", "clear", "take"} \/ On(t) \in Suites
      PROVE  LateOnSuites'
  <2>1. /\ stack[t][Len(stack[t])] = Frame("stop", a, On(t)) /\ Len(stack[t]) \in Places(t)
        /\ \A u \in Threads : Len(stack'[u]) = Len(stack[u])
        /\ \A u \in Threads : \A i \in Places(u) :
             \/ stack'[u][i] = stack[u][i]
             \/ u = t /\ i = Len(stack[t]) /\ stack'[u][i] = Frame("stop", b, On(t))
    BY <1>1, BetweenFrames DEF Typed
  <2>2. b \in {"remove", "clear", "take"} => On(t) \in Suites
    BY <1>1, <2>1 DEF LateOnSuites, Frame
  <2>. QED  BY <2>1, <2>2 DEF LateOnSuites, Places, Frame
<1>2. CASE StopUnlock(t)
  <2>1. Drops(t) /\ At(t, "stop", "unlock")
    BY <1>2, StopCallsAndReturns DEF Typed
  <2>2. Len(stack[t]) \in Nat \ {0}
    BY <2>1, TopFrame DEF Typed
  <2>3. \A u \in Threads : \A i \in 1..Len(stack'[u]) : i \in Places(u) /\ stack'[u][i] = stack[u][i]
    BY <2>1, <2>2 DEF Drops, OthersStay, Places
  <2>. QED  BY <2>3 DEF LateOnSuites, Places
<1>3. CASE Teardown(t)
  <2> DEFINE b == IF On(t) \in Suites THEN "remove" ELSE "unregister"
  <2>1. Between(t, "teardown", b) /\ (b = "remove" => On(t) \in Suites) /\ b \notin {"clear", "take"}
    BY <1>3, StopMoves DEF Typed
  <2> HIDE DEF b
  <2>. QED  BY <1>1, <2>1
<1>4. CASE ScopeLeave(t)
  <2> DEFINE b == IF IsLast THEN "clear" ELSE "unlock"
  <2>1. Between(t, "leave", b)
    BY <1>4, StopMoves DEF Typed
  <2>2. IsLast => On(t) \in Suites
    BY <2>1, AloneIsSuite, OnlyAt DEF Between, IsLast
  <2>. QED  BY <1>1, <2>1, <2>2
<1>5. CASE ~StopUnlock(t) /\ ~Teardown(t) /\ ~ScopeLeave(t)
  <2>1. CASE StopCheck(t)
    <3>1. Between(t, "check", IF Ended(On(t)) THEN "leave" ELSE "teardown")
      BY <2>1, StopMoves DEF Typed
    <3>. QED  BY <1>1, <3>1
  <2>2. CASE ~StopCheck(t)
    <3>1. \E a : \E b : Between(t, a, b) /\ (b \in {"remove", "clear", "take"} => a \in {"remove", "clear", "take"})
      BY <1>5, <2>2, StopMoves DEF OwnStep, Typed
    <3>. QED  BY <1>1, <3>1
  <2>. QED  BY <2>1, <2>2
<1>. QED  BY <1>2, <1>3, <1>4, <1>5

LEMMA LateOnSuitesKept ==
  ASSUME LateOnSuites, Still
  PROVE  LateOnSuites'
<1>1. \A u \in Threads : \A i \in 1..Len(stack'[u]) :
        stack'[u][i].proc = "stop" /\ stack'[u][i].at \in {"remove", "clear", "take"} =>
          i \in Places(u) /\ stack'[u][i] = stack[u][i]
  BY DEF Still, StopsBegin
<1>. QED  BY <1>1 DEF LateOnSuites, Places

LEMMA OwnObjects ==
  ASSUME Typed, NEW t \in Threads, OwnStep(t)
  PROVE  /\ Teardown(t) => On(t) \in Objects /\ running' = [running EXCEPT ![On(t)] = FALSE]
         /\ ~Teardown(t) => running' = running
         /\ ~Unregister(t) => registry' = registry
         /\ Unregister(t) => registry' = registry \ {On(t)}
<1>1. Teardown(t) => On(t) \in Objects /\ running' = [running EXCEPT ![On(t)] = FALSE]
  BY LoudObjects DEF Loud, Teardown, Typed
<1>. QED  BY <1>1 DEF OwnStep, StopLock, ScopeCount, ScopeMark, StopCheck, Teardown, RemoveSignalHandlers,
                     Unregister, ScopeLeave, ScopeClear, TakeDeferred, StopUnlock, objVars

LEMMA UnregistersOwn ==
  ASSUME Typed, Unregisters, NEW t \in Threads, OwnStep(t)
  PROVE  Unregisters'
<1>. SUFFICES ASSUME NEW p \in Probes, p \in registry', ~running'[p]
              PROVE  Stopping({"unregister"}, {p})'
  BY DEF Unregisters, Stopping, Stops, Places
<1>0. p \in Objects /\ p \notin Suites
  BY SetAssumption DEF Objects
<1>1. p \in registry /\ (~running[p] \/ (Teardown(t) /\ p = On(t)))
  BY <1>0, OwnObjects DEF Typed, TypedObjects
<1>2. ~running[p] => Stopping({"unregister"}, {p})
  BY <1>1 DEF Unregisters
<1>3. CASE StopUnlock(t)
  <2>1. Drops(t) /\ At(t, "stop", "unlock") /\ ~Teardown(t)
    BY <1>3, StopCallsAndReturns, TopAt DEF Typed, Teardown, Frame, At
  <2>. QED  BY <1>1, <1>2, <2>1, StoppingDrops DEF Typed
<1>4. CASE Teardown(t)
  <2>1. Between(t, "teardown", IF On(t) \in Suites THEN "remove" ELSE "unregister")
    BY <1>4, StopMoves DEF Typed
  <2>2. CASE p = On(t)
    <3>1. Between(t, "teardown", "unregister")
      BY <1>0, <2>1, <2>2
    <3>. QED  BY <2>2, <3>1, StoppingMoves DEF Typed
  <2>3. CASE p # On(t)
    BY <1>1, <1>2, <2>1, <2>3, StoppingMoves DEF Typed
  <2>. QED  BY <2>2, <2>3
<1>5. CASE Unregister(t)
  <2>1. Between(t, "unregister", "leave") /\ p # On(t) /\ ~Teardown(t)
    BY <1>5, StopMoves, OwnObjects DEF Typed, Teardown, Unregister, At
  <2>. QED  BY <1>1, <1>2, <2>1, StoppingMoves DEF Typed
<1>6. CASE ~StopUnlock(t) /\ ~Teardown(t) /\ ~Unregister(t)
  <2>1. \E a : \E b : Between(t, a, b) /\ a # "unregister"
    BY <1>6, StopMoves DEF OwnStep, Typed
  <2>. QED  BY <1>1, <1>2, <1>6, <2>1, StoppingMoves DEF Typed
<1>. QED  BY <1>3, <1>4, <1>5, <1>6

LEMMA UnregistersKept ==
  ASSUME Typed, NoDestroyer, Unregisters, Kept, [Next]_vars
  PROVE  Unregisters'
<1>. SUFFICES ASSUME NEW p \in Probes, p \in registry', ~running'[p]
              PROVE  Stopping({"unregister"}, {p})'
  BY DEF Unregisters, Stopping, Stops, Places
<1>1. p \in registry /\ ~running[p]
  BY RegistryMoves DEF Kept, Typed
<1>2. Stopping({"unregister"}, {p})
  BY <1>1 DEF Unregisters
<1>. QED  BY <1>2, StoppingKept DEF Kept

\* When the suite is torn down its probes have stopped and left the registry.
LEMMA MembersGoneOwn ==
  ASSUME OneSuite, Typed, Holding, ProbeStops, Unregisters, MembersGone, NoDestroyer,
         NEW t \in Threads, OwnStep(t)
  PROVE  MembersGone'
<1>. SUFFICES ASSUME SuiteEnded'
              PROVE  registry' \intersect Probes = {} /\ AllFlushed'
  BY DEF MembersGone
<1>0. registry' \subseteq registry /\ \A o \in Objects : running'[o] => running[o]
  BY OwnObjects DEF Typed, TypedObjects
<1>1. CASE SuiteEnded
  BY <1>0, <1>1 DEF MembersGone, AllFlushed
<1>2. CASE ~SuiteEnded
  <2>1. Teardown(t) /\ On(t) \in Objects /\ running' = [running EXCEPT ![On(t)] = FALSE]
    BY <1>2, OwnObjects DEF SuiteEnded
  <2>2. On(t) \in Suites
    BY <1>2, <2>1 DEF SuiteEnded, Typed, TypedObjects, Objects
  <2>3. On(t) \notin Probes /\ At(t, "stop", "teardown") /\ \A p \in Probes : ~running[p]
    BY <2>1, <2>2, SetAssumption DEF Teardown, MembersEnded
  <2>4. ~Stopping({"unregister"}, Probes)
    BY <2>2, <2>3, OnlyAt
  <2>5. \A p \in Probes : ~Stopping({"unregister"}, {p})
    BY <2>4 DEF Stopping, Stops
  <2>6. registry \intersect Probes = {}
    BY <2>3, <2>5 DEF Unregisters
  <2>7. Suites = {On(t)}
    BY <2>2 DEF OneSuite
  <2>. QED  BY <1>0, <2>1, <2>3, <2>6, <2>7 DEF AllFlushed, Objects, Typed, TypedObjects
<1>. QED  BY <1>1, <1>2

LEMMA MembersGoneKept ==
  ASSUME Typed, NoDestroyer, MembersGone, Kept, [Next]_vars
  PROVE  MembersGone'
<1>1. registry' \subseteq registry /\ running' = running
  BY RegistryMoves DEF Typed, Kept
<1>. QED  BY <1>1 DEF MembersGone, SuiteEnded, AllFlushed

LEMMA CountedOwn ==
  ASSUME OneSuite, Typed, Holding, ProbeStops, Counted, NEW t \in Threads, OwnStep(t)
  PROVE  Counted'
<1>0. "lock" \notin Scope /\ "scope" \notin Scope /\ "unlock" \notin Scope /\ "clear" \notin Scope
      /\ "take" \notin Scope
      /\ {"mark", "check", "teardown", "remove", "unregister", "leave"} \subseteq Scope
  BY DEF Scope
<1>1. ASSUME stopping' = stopping, Stopping(Scope, Probes)' <=> Stopping(Scope, Probes),
             Stopping(Scope, Suites)' <=> Stopping(Scope, Suites)
      PROVE  Counted'
  BY <1>1 DEF Counted
<1>2. ASSUME NEW a, NEW b, Between(t, a, b), a \in Scope <=> b \in Scope, stopping' = stopping
      PROVE  Counted'
  BY <1>1, <1>2, StoppingMoves DEF Typed
<1>3. CASE StopUnlock(t)
  <2>1. Drops(t) /\ At(t, "stop", "unlock") /\ stopping' = stopping
    BY <1>3, StopCallsAndReturns DEF Typed, StopUnlock, sigVars
  <2>. QED  BY <1>0, <1>1, <2>1, StoppingDrops DEF Typed
<1>4. CASE ScopeCount(t)
  <2>1. Between(t, "scope", "mark") /\ stopping' = stopping + 1 /\ At(t, "stop", "scope")
    BY <1>4, StopMoves DEF Typed, ScopeCount
  <2>2. CASE On(t) \in Suites
    <3>1. On(t) \notin Probes /\ OnlyOne(t, Suites) /\ ~Stopping(Scope, Probes)
      BY <1>0, <2>1, <2>2, OnlyAt
    <3>2. ~Stopping(Scope, Suites)
      BY <1>0, <2>1, <3>1, OnlyGoes DEF Typed
    <3>3. Stopping(Scope, Suites)' /\ ~Stopping(Scope, Probes)'
      BY <1>0, <2>1, <2>2, <3>1, StoppingMoves DEF Typed
    <3>. QED  BY <2>1, <3>1, <3>2, <3>3 DEF Counted
  <2>3. CASE On(t) \in Probes
    <3>1. On(t) \notin Suites /\ OnlyOne(t, Probes) /\ Stopping(Scope, Suites)
      BY <1>0, <2>1, <2>3, OnlyAt
    <3>2. ~Stopping(Scope, Probes)
      BY <1>0, <2>1, <3>1, OnlyGoes DEF Typed
    <3>3. Stopping(Scope, Probes)' /\ Stopping(Scope, Suites)'
      BY <1>0, <2>1, <2>3, <3>1, StoppingMoves DEF Typed
    <3>. QED  BY <2>1, <3>1, <3>2, <3>3 DEF Counted
  <2>. QED  BY <2>1, <2>2, <2>3, OnlyAt
<1>5. CASE ScopeLeave(t)
  <2> DEFINE b == IF IsLast THEN "clear" ELSE "unlock"
  <2>1. Between(t, "leave", b) /\ stopping' = stopping - 1 /\ At(t, "stop", "leave") /\ b \notin Scope
    BY <1>0, <1>5, StopMoves DEF Typed, ScopeLeave
  <2> HIDE DEF b
  <2>2. CASE On(t) \in Suites
    <3>1. On(t) \notin Probes /\ OnlyOne(t, Suites) /\ ~Stopping(Scope, Probes) /\ stopping = 1
      BY <1>0, <2>1, <2>2, OnlyAt, AloneIsSuite
    <3>2. ~Stopping(Scope, Suites)'
      BY <1>0, <2>1, <3>1, OnlyGoes DEF Typed
    <3>3. ~Stopping(Scope, Probes)'
      BY <2>1, <3>1, StoppingMoves DEF Typed
    <3>. QED  BY <2>1, <3>1, <3>2, <3>3 DEF Counted
  <2>3. CASE On(t) \in Probes
    <3>1. On(t) \notin Suites /\ OnlyOne(t, Probes) /\ Stopping(Scope, Suites) /\ stopping = 2
      BY <1>0, <2>1, <2>3, OnlyAt, AloneIsSuite
    <3>2. ~Stopping(Scope, Probes)'
      BY <1>0, <2>1, <3>1, OnlyGoes DEF Typed
    <3>3. Stopping(Scope, Suites)'
      BY <2>1, <3>1, StoppingMoves DEF Typed
    <3>. QED  BY <2>1, <3>1, <3>2, <3>3 DEF Counted
  <2>. QED  BY <2>1, <2>2, <2>3, OnlyAt
<1>6. CASE StopCheck(t)
  <2>1. Between(t, "check", IF Ended(On(t)) THEN "leave" ELSE "teardown") /\ stopping' = stopping
    BY <1>6, StopMoves DEF Typed, StopCheck, sigVars
  <2>. QED  BY <1>0, <1>2, <2>1
<1>7. CASE Teardown(t)
  <2>1. Between(t, "teardown", IF On(t) \in Suites THEN "remove" ELSE "unregister") /\ stopping' = stopping
    BY <1>7, StopMoves DEF Typed, Teardown, sigVars
  <2>. QED  BY <1>0, <1>2, <2>1
<1>8. CASE StopLock(t) \/ ScopeMark(t) \/ RemoveSignalHandlers(t) \/ Unregister(t) \/ ScopeClear(t) \/ TakeDeferred(t)
  <2>1. stopping' = stopping
    BY <1>8 DEF StopLock, ScopeMark, RemoveSignalHandlers, Unregister, ScopeClear, TakeDeferred, sigVars
  <2>2. \E a : \E b : Between(t, a, b) /\ (a \in Scope <=> b \in Scope)
    BY <1>0, <1>8, StopMoves DEF Typed
  <2>. QED  BY <1>2, <2>1, <2>2
<1>. QED  BY <1>3, <1>4, <1>5, <1>6, <1>7, <1>8 DEF OwnStep

LEMMA CountedKept ==
  ASSUME Counted, Kept
  PROVE  Counted'
<1>1. /\ Stopping(Scope, Probes)' <=> Stopping(Scope, Probes)
      /\ Stopping(Scope, Suites)' <=> Stopping(Scope, Suites)
  BY StoppingKept DEF Kept, Scope
<1>. QED  BY <1>1 DEF Counted, Kept

LEMMA MarksOwn ==
  ASSUME OneSuite, Typed, Holding, ProbeStops, Counted, Marks, NEW t \in Threads, OwnStep(t)
  PROVE  Marks'
<1>0. "lock" \notin MarkedAt /\ "scope" \notin MarkedAt /\ "mark" \notin MarkedAt /\ "unlock" \notin MarkedAt
      /\ "take" \notin MarkedAt
      /\ {"check", "teardown", "remove", "unregister", "leave", "clear"} \subseteq MarkedAt
  BY DEF MarkedAt
<1>1. ASSUME stoppingTid' = stoppingTid,
             \A u \in Threads : \A i \in Places(u) :
               Stops(stack[u][i], MarkedAt, Suites) => i \in 1..Len(stack'[u]) /\ Stops(stack'[u][i], MarkedAt, Suites)
      PROVE  Marks'
  <2>. SUFFICES ASSUME NEW u \in Threads, stoppingTid' = u
                PROVE  \E i \in 1..Len(stack'[u]) : Stops(stack'[u][i], MarkedAt, Suites)
    BY DEF Marks, Stops, Places
  <2>. QED  BY <1>1 DEF Marks
<1>2. ASSUME NEW a, NEW b, Between(t, a, b), (a \in MarkedAt => b \in MarkedAt) \/ On(t) \notin Suites,
             stoppingTid' = stoppingTid
      PROVE  Marks'
  BY <1>1, <1>2, StopsMoves DEF Typed
<1>3. CASE StopUnlock(t)
  <2>1. Drops(t) /\ At(t, "stop", "unlock") /\ stoppingTid' = stoppingTid
    BY <1>3, StopCallsAndReturns DEF Typed, StopUnlock, sigVars
  <2>. QED  BY <1>0, <1>1, <2>1, StopsDrops DEF Typed
<1>4. CASE ScopeMark(t)
  <2>1. Between(t, "mark", "check") /\ stoppingTid' = t /\ At(t, "stop", "mark")
    BY <1>4, StopMoves DEF Typed, ScopeMark
  <2>2. ASSUME NEW i \in 1..Len(stack'[t]), Stops(stack'[t][i], MarkedAt, Suites)
        PROVE  Marks'
    BY <2>1, <2>2 DEF Marks, Stops, Places
  <2>3. CASE On(t) \in Suites
    <3>1. Len(stack[t]) \in 1..Len(stack'[t]) /\ stack'[t][Len(stack[t])] = Frame("stop", "check", On(t))
      BY <2>1, BetweenFrames DEF Typed, Places
    <3>. QED  BY <1>0, <2>2, <2>3, <3>1 DEF Stops, Frame
  <2>4. CASE On(t) \in Probes
    <3>1. Len(stack[t]) - 1 \in Places(t) /\ Stops(stack[t][Len(stack[t]) - 1], MarkedAt, Suites)
      BY <1>0, <2>1, <2>4, OnlyProbe DEF Stops
    <3>2. Len(stack[t]) - 1 \in 1..Len(stack'[t]) /\ Stops(stack'[t][Len(stack[t]) - 1], MarkedAt, Suites)
      BY <1>0, <2>1, <3>1, StopsMoves DEF Typed
    <3>. QED  BY <2>2, <3>2
  <2>. QED  BY <2>1, <2>3, <2>4, OnlyAt
<1>5. CASE ScopeClear(t)
  <2>1. stoppingTid' = None
    BY <1>5 DEF ScopeClear
  <2>. QED  BY <2>1, SetAssumption DEF Marks
<1>6. CASE ScopeLeave(t)
  <2>1. /\ Between(t, "leave", IF IsLast THEN "clear" ELSE "unlock") /\ stoppingTid' = stoppingTid
        /\ At(t, "stop", "leave")
    BY <1>6, StopMoves DEF Typed, ScopeLeave
  <2>2. IsLast \/ On(t) \notin Suites
    BY <2>1, AloneIsSuite DEF IsLast
  <2>. QED  BY <1>0, <1>2, <2>1, <2>2
<1>7. CASE StopCheck(t)
  <2>1. Between(t, "check", IF Ended(On(t)) THEN "leave" ELSE "teardown") /\ stoppingTid' = stoppingTid
    BY <1>7, StopMoves DEF Typed, StopCheck, sigVars
  <2>. QED  BY <1>0, <1>2, <2>1
<1>8. CASE Teardown(t)
  <2>1. Between(t, "teardown", IF On(t) \in Suites THEN "remove" ELSE "unregister") /\ stoppingTid' = stoppingTid
    BY <1>8, StopMoves DEF Typed, Teardown, sigVars
  <2>. QED  BY <1>0, <1>2, <2>1
<1>9. CASE StopLock(t) \/ ScopeCount(t) \/ RemoveSignalHandlers(t) \/ Unregister(t) \/ TakeDeferred(t)
  <2>1. stoppingTid' = stoppingTid
    BY <1>9 DEF StopLock, ScopeCount, RemoveSignalHandlers, Unregister, TakeDeferred, sigVars
  <2>2. \E a : \E b : Between(t, a, b) /\ (a \in MarkedAt => b \in MarkedAt)
    BY <1>0, <1>9, StopMoves DEF Typed
  <2>. QED  BY <1>2, <2>1, <2>2
<1>. QED  BY <1>3, <1>4, <1>5, <1>6, <1>7, <1>8, <1>9 DEF OwnStep

LEMMA MarksKept ==
  ASSUME Marks, Kept
  PROVE  Marks'
<1>. SUFFICES ASSUME NEW u \in Threads, stoppingTid' = u
              PROVE  \E i \in 1..Len(stack'[u]) : Stops(stack'[u][i], MarkedAt, Suites)
  BY DEF Marks, Stops, Places
<1>1. PICK i \in Places(u) : Stops(stack[u][i], MarkedAt, Suites)
  BY DEF Kept, Marks
<1>2. i \in 1..Len(stack'[u]) /\ stack'[u][i] = stack[u][i]
  BY <1>1 DEF Kept, Still, StopsStay, Stops
<1>. QED  BY <1>1, <1>2

LEMMA DefersStep ==
  ASSUME Stacks, Marks, Defers, LowerStay, AllOnSuites,
         WatchedStay \/ \E t \in Threads : HandlerPasses(t)
  PROVE  Defers'
<1>. SUFFICES ASSUME NEW u \in Threads, NEW i \in 1..Len(stack'[u]),
                     stack'[u][i].proc = "handler", stack'[u][i].at = "defer"
              PROVE  \E j \in 1..(i - 1) : Stops(stack'[u][j], MarkedAt, Suites)
  BY DEF Defers, Stops, Places
<1>1. ASSUME i \in Places(u), \E j \in 1..(i - 1) : Stops(stack[u][j], MarkedAt, Suites)
      PROVE  \E j \in 1..(i - 1) : Stops(stack'[u][j], MarkedAt, Suites)
  <2>1. PICK j \in 1..(i - 1) : Stops(stack[u][j], MarkedAt, Suites)
    BY <1>1
  <2>2. Len(stack[u]) \in Nat
    BY DEF Stacks
  <2>3. j \in 1..(Len(stack[u]) - 1) /\ j \in 1..Len(stack'[u])
    BY <1>1, <2>1, <2>2 DEF Places
  <2>4. stack'[u][j] = stack[u][j]
    BY <2>3 DEF LowerStay
  <2>. QED  BY <2>1, <2>4
<1>2. CASE i \in Places(u) /\ stack'[u][i] = stack[u][i]
  BY <1>1, <1>2 DEF Defers
<1>3. CASE ~(i \in Places(u) /\ stack'[u][i] = stack[u][i])
  <2>1. PICK t \in Threads : HandlerPasses(t)
    BY <1>3 DEF WatchedStay, Watched
  <2>2. ASSUME NEW a, NEW b, Passes(t, a, b), b # "defer"
        PROVE  FALSE
    BY <1>3, <2>2 DEF Passes, Frame
  <2>3. HandlerWhose(t) /\ IsStopping(t) /\ Passes(t, "whose", "defer")
    BY <2>1, <2>2, HandlerPlaces DEF HandlerPasses
  <2>4. u = t /\ i = Len(stack[t]) /\ i \in Places(u) /\ stack[t][i] = Frame("handler", "whose", On(t))
    BY <1>3, <2>3 DEF Passes
  <2>5. PICK j \in Places(t) : Stops(stack[t][j], MarkedAt, Suites)
    BY <2>3 DEF Marks, IsStopping
  <2>6. j # i
    BY <2>4, <2>5 DEF Stops, Frame
  <2>7. j \in 1..(i - 1)
    BY <2>4, <2>5, <2>6 DEF Places
  <2>. QED  BY <1>1, <2>4, <2>5, <2>7
<1>. QED  BY <1>2, <1>3

LEMMA TakenOwn ==
  ASSUME OneSuite, Typed, Holding, ProbeStops, Counted, Taken, NEW t \in Threads, OwnStep(t)
  PROVE  Taken'
<1> DEFINE A == {"clear", "take"}
<1>0. "lock" \notin A /\ "unlock" \notin A
  OBVIOUS
<1>1. ASSUME deferred' = deferred, stopping > 0 => stopping' > 0, Stopping(A, Suites) => Stopping(A, Suites)'
      PROVE  Taken'
  <2>1. CASE deferred = None
    BY <1>1, <2>1 DEF Taken
  <2>2. CASE deferred # None
    BY <1>1, <2>2 DEF Taken
  <2>. QED  BY <2>1, <2>2
<1>2. ASSUME NEW a, NEW b, Between(t, a, b), a \in A => b \in A
      PROVE  Stopping(A, Suites) => Stopping(A, Suites)'
  <2> HIDE DEF A
  <2>. QED  BY <1>2, StoppingMoves DEF Typed
<1>3. CASE StopUnlock(t)
  <2>1. Drops(t) /\ At(t, "stop", "unlock") /\ stopping' = stopping /\ deferred' = deferred
    BY <1>3, StopCallsAndReturns DEF Typed, StopUnlock, sigVars
  <2> HIDE DEF A
  <2>. QED  BY <1>0, <1>1, <2>1, StoppingDrops DEF Typed
<1>4. CASE TakeDeferred(t)
  BY <1>4 DEF TakeDeferred, Taken
<1>5. CASE ScopeLeave(t)
  <2>1. /\ Between(t, "leave", IF IsLast THEN "clear" ELSE "unlock") /\ At(t, "stop", "leave")
        /\ stopping' = stopping - 1 /\ deferred' = deferred
    BY <1>5, StopMoves DEF Typed, ScopeLeave
  <2>2. CASE On(t) \in Suites
    <3>1. Between(t, "leave", "clear") /\ "clear" \in A
      BY <2>1, <2>2, AloneIsSuite DEF IsLast
    <3> HIDE DEF A
    <3>2. Stopping(A, Suites)'
      BY <2>2, <3>1, StoppingMoves DEF Typed
    <3> USE DEF A
    <3>. QED  BY <3>2 DEF Taken
  <2>3. CASE On(t) \in Probes
    <3>1. stopping' > 0
      BY <2>1, <2>3, AloneIsSuite
    <3>. QED  BY <3>1 DEF Taken
  <2>. QED  BY <2>1, <2>2, <2>3, OnlyAt
<1>6. CASE StopCheck(t)
  <2>1. /\ Between(t, "check", IF Ended(On(t)) THEN "leave" ELSE "teardown")
        /\ stopping' = stopping /\ deferred' = deferred
    BY <1>6, StopMoves DEF Typed, StopCheck, sigVars
  <2>. QED  BY <1>1, <1>2, <2>1
<1>7. CASE Teardown(t)
  <2>1. /\ Between(t, "teardown", IF On(t) \in Suites THEN "remove" ELSE "unregister")
        /\ stopping' = stopping /\ deferred' = deferred
    BY <1>7, StopMoves DEF Typed, Teardown, sigVars
  <2>. QED  BY <1>1, <1>2, <2>1
<1>8. CASE StopLock(t) \/ ScopeCount(t) \/ ScopeMark(t) \/ RemoveSignalHandlers(t) \/ Unregister(t) \/ ScopeClear(t)
  <2>1. deferred' = deferred /\ (stopping' = stopping \/ stopping' = stopping + 1)
    BY <1>8 DEF StopLock, ScopeCount, ScopeMark, RemoveSignalHandlers, Unregister, ScopeClear, sigVars
  <2>2. stopping \in {0, 1, 2}
    BY DEF Counted
  <2>3. \E a : \E b : Between(t, a, b) /\ (a \in A => b \in A)
    BY <1>8, StopMoves DEF Typed
  <2> HIDE DEF A
  <2>. QED  BY <1>1, <1>2, <2>1, <2>2, <2>3
<1>. QED  BY <1>3, <1>4, <1>5, <1>6, <1>7, <1>8 DEF OwnStep

LEMMA TakenKept ==
  ASSUME Stacks, Counted, Defers, Taken, Kept, deferred' = deferred \/ \E t \in Threads : HandlerDefer(t)
  PROVE  Taken'
<1>1. stopping' = stopping /\ (Stopping({"clear", "take"}, Suites)' <=> Stopping({"clear", "take"}, Suites))
  BY StoppingKept DEF Kept
<1>2. CASE deferred' = deferred
  BY <1>1, <1>2 DEF Taken
<1>3. ASSUME NEW t \in Threads, HandlerDefer(t)
      PROVE  stopping > 0 \/ Stopping({"clear", "take"}, Suites)
  <2>1. At(t, "handler", "defer")
    BY <1>3 DEF HandlerDefer
  <2>2. Len(stack[t]) \in Nat \ {0} /\ stack[t][Len(stack[t])] = Frame("handler", "defer", On(t))
    BY <2>1, TopFrame
  <2>3. PICK j \in 1..(Len(stack[t]) - 1) : Stops(stack[t][j], MarkedAt, Suites)
    BY <2>2 DEF Defers, Places, Frame
  <2>4. j \in Places(t)
    BY <2>2 DEF Places
  <2>5. CASE stack[t][j].at = "clear"
    BY <2>3, <2>4, <2>5 DEF Stopping, Stops
  <2>6. CASE stack[t][j].at # "clear"
    <3>1. Stopping(Scope, Suites)
      BY <2>3, <2>4, <2>6 DEF Stopping, Stops, MarkedAt, Scope
    <3>. QED  BY <3>1 DEF Counted
  <2>. QED  BY <2>5, <2>6
<1>. QED  BY <1>1, <1>2, <1>3 DEF Taken

---------------------------------------------------------------------------
(* A deferred signal is taken.                                             *)

SignalInv ==
  /\ ExitInv
  /\ ProbeStops /\ AllOnSuites /\ LateOnSuites /\ Unregisters /\ MembersGone
  /\ Counted /\ Marks /\ Defers /\ Taken

LEMMA SignalInit ==
  ASSUME OneSuite, Init
  PROVE  SignalInv
<1>1. \A t \in Threads : stack[t] = IF t = Flusher THEN <<Frame("flusher", "read", None)>> ELSE <<>>
  BY DEF Init
<1>2. \A t \in Threads : \A i \in Places(t) : stack[t][i].proc = "flusher"
  BY <1>1 DEF Places, Frame
<1>3. \A A, X : ~Stopping(A, X)
  BY <1>2 DEF Stopping, Stops
<1>4. ProbeStops /\ AllOnSuites /\ LateOnSuites /\ Defers
  BY <1>2 DEF ProbeStops, AllOnSuites, LateOnSuites, Defers
<1>5. Unregisters /\ MembersGone
  BY DEF Unregisters, MembersGone, SuiteEnded, OneSuite, Objects, Init
<1>6. Counted /\ Taken
  BY <1>3 DEF Counted, Taken, Init
<1>7. Marks
  BY SetAssumption DEF Marks, Init
<1>. QED  BY <1>4, <1>5, <1>6, <1>7, ExitInit DEF SignalInv

\* Every step is a Stop()'s own, or leaves every Stop() where it is.
Apart ==
  /\ Kept /\ refs' = refs
  /\ deferred' = deferred \/ \E t \in Threads : HandlerDefer(t)
  /\ (done' => done) \/ FlusherWrite
  /\ WatchedStay \/ \E t \in Threads : HandlerPasses(t)

LEMMA SignalMoves ==
  ASSUME OneSuite, "destroy" \notin HostCalls, SignalInv, [Next]_vars
  PROVE  Apart \/ \E t \in Threads : OwnStep(t)
<1>1. Stacks /\ registry \subseteq Objects /\ AllOnSuites /\ NoDestroyer /\ GoneStopped /\ MembersGone
  BY ErasedParts DEF SignalInv, ExitInv, Typed, TypedObjects
<1>2. FirstEntries \subseteq Suites
  BY <1>1, FirstAreSuites
<1>3. CASE Next
  BY <1>1, <1>2, <1>3, KeptSteps DEF Apart
<1>4. CASE UNCHANGED vars
  BY <1>1, <1>4, StillStutters DEF Apart, Kept, vars, objVars, sigVars, ioVars
<1>. QED  BY <1>3, <1>4

LEMMA SignalStep ==
  ASSUME OneSuite, "destroy" \notin HostCalls, SignalInv, [Next]_vars
  PROVE  SignalInv'
<1>1. ExitInv'
  BY ExitStep DEF SignalInv
<1>2. /\ Typed /\ Stacks /\ Holding /\ NoDestroyer
      /\ ProbeStops /\ AllOnSuites /\ LateOnSuites /\ Unregisters /\ MembersGone
      /\ Counted /\ Marks /\ Defers /\ Taken
  BY ErasedParts DEF SignalInv, ExitInv, Typed
<1>3. ASSUME NEW t \in Threads, OwnStep(t)
      PROVE  /\ ProbeStops' /\ AllOnSuites' /\ LateOnSuites' /\ Unregisters' /\ MembersGone'
             /\ Counted' /\ Marks' /\ Defers' /\ Taken'
  <2>1. Below
    BY <1>2, <1>3, OwnBelow
  <2>2. ProbeStops' /\ AllOnSuites' /\ Defers'
    BY <1>2, <2>1, ProbeStopsOwn, DefersStep DEF Below
  <2>3. LateOnSuites' /\ Unregisters' /\ MembersGone'
    BY <1>2, <1>3, LateOnSuitesOwn, UnregistersOwn, MembersGoneOwn
  <2>4. Counted' /\ Marks' /\ Taken'
    BY <1>2, <1>3, CountedOwn, MarksOwn, TakenOwn
  <2>. QED  BY <2>2, <2>3, <2>4
<1>4. ASSUME Apart
      PROVE  /\ ProbeStops' /\ AllOnSuites' /\ LateOnSuites' /\ Unregisters' /\ MembersGone'
             /\ Counted' /\ Marks' /\ Defers' /\ Taken'
  <2>1. Kept /\ Still /\ LowerStay /\ AllOnSuites'
    BY <1>4 DEF Apart, Kept, Still
  <2>2. ProbeStops' /\ LateOnSuites' /\ Unregisters' /\ MembersGone'
    BY <1>2, <2>1, ProbeStopsKept, LateOnSuitesKept, UnregistersKept, MembersGoneKept
  <2>3. Counted' /\ Marks'
    BY <1>2, <2>1, CountedKept, MarksKept
  <2>4. Defers' /\ Taken'
    BY <1>2, <1>4, <2>1, DefersStep, TakenKept DEF Apart
  <2>. QED  BY <2>1, <2>2, <2>3, <2>4
<1>. QED  BY <1>1, <1>3, <1>4, SignalMoves DEF SignalInv

\* A termination signal that a Stop() on the same thread made the handler put
\* off always has a Stop() ahead of it that will take it: the atomics of
\* lifecycle.cpp:171-180 and 295-306 name a Stop() that has not taken yet,
\* however the threads, the flusher and the signals interleave. For a process
\* with one suite: with two, TLC finds a counterexample.
THEOREM DeferralHasTakerCorrect ==
  ASSUME OneSuite, "destroy" \notin HostCalls
  PROVE  Spec => []DeferralHasTaker
<1>1. Init => SignalInv
  BY SignalInit
<1>2. SignalInv /\ [Next]_vars => SignalInv'
  BY SignalStep
<1>3. SignalInv => DeferralHasTaker
  <2>. SUFFICES ASSUME SignalInv, deferred # None, ~(stopping > 0)
                PROVE  \E t \in Threads : \E f \in Frames(t) : f.proc = "stop" /\ f.at \in {"clear", "take"}
    BY DEF DeferralHasTaker
  <2>1. Stopping({"clear", "take"}, Suites)
    BY DEF SignalInv, Taken
  <2>2. PICK t \in Threads : \E i \in Places(t) : Stops(stack[t][i], {"clear", "take"}, Suites)
    BY <2>1 DEF Stopping
  <2>3. PICK i \in Places(t) : Stops(stack[t][i], {"clear", "take"}, Suites)
    BY <2>2
  <2>4. stack[t][i] \in Frames(t)
    <3>1. stack[t] \in Seq(FrameT)
      BY DEF SignalInv, ExitInv, Typed, Stacks
    <3>. QED  BY <3>1 DEF Frames, ToSet, Places
  <2>. QED  BY <2>3, <2>4 DEF Stops
<1>. QED  BY <1>1, <1>2, <1>3, PTL DEF Spec

---------------------------------------------------------------------------
(* A signal takes its course when everything is flushed.                   *)

\* A suite that stops late has ended, and its probes with it.
LEMMA LateSuite ==
  ASSUME OneSuite, Typed, LateStops, LateOnSuites, NEW t \in Threads, NEW a, At(t, "stop", a),
         a \in {"remove", "clear", "take"} \/ (a = "leave" /\ On(t) \in Suites)
  PROVE  SuiteEnded
<1>1. Len(stack[t]) \in Nat \ {0} /\ stack[t][Len(stack[t])] = Frame("stop", a, On(t))
  BY TopFrame DEF Typed
<1>2. Len(stack[t]) \in Places(t) /\ stack[t][Len(stack[t])].proc = "stop"
      /\ stack[t][Len(stack[t])].at = a /\ stack[t][Len(stack[t])].on = On(t)
  BY <1>1 DEF Places, Frame
<1>3. On(t) \in Suites
  BY <1>2 DEF LateOnSuites
<1>4. ~running[On(t)]
  BY <1>2 DEF LateStops, Late
<1>. QED  BY <1>3, <1>4 DEF SuiteEnded, OneSuite

LEMMA EndedStays ==
  ASSUME Typed, SuiteEnded, [Next]_vars
  PROVE  SuiteEnded'
BY RunningFalls DEF SuiteEnded, Objects

\* The count goes down when a Stop() leaves.
LEMMA StoppingFalls ==
  ASSUME Counted, stopping > 0, ~(stopping' > 0), Apart \/ \E t \in Threads : OwnStep(t)
  PROVE  \E t \in Threads : ScopeLeave(t) /\ stopping = 1
<1>1. stopping \in {1, 2}
  BY DEF Counted
<1>2. stopping' # stopping
  OBVIOUS
<1>3. ~Apart
  BY <1>2 DEF Apart, Kept
<1>4. PICK t \in Threads : OwnStep(t)
  BY <1>3
<1>5. ASSUME ~ScopeLeave(t), ~ScopeCount(t)
      PROVE  stopping' = stopping
  BY <1>4, <1>5 DEF OwnStep, StopLock, ScopeMark, StopCheck, Teardown, RemoveSignalHandlers, Unregister,
         ScopeClear, TakeDeferred, StopUnlock, sigVars
<1>6. ~ScopeCount(t)
  BY <1>1 DEF ScopeCount
<1>7. ScopeLeave(t)
  BY <1>2, <1>5, <1>6
<1>. QED  BY <1>1, <1>7 DEF ScopeLeave

LEMMA WaitsStopStep ==
  ASSUME OneSuite, Typed, Holding, ProbeStops, LateStops, LateOnSuites, Counted, AllOnSuites, WaitsStop,
         Apart \/ (WatchedStay /\ \E t \in Threads : OwnStep(t)), [Next]_vars
  PROVE  WaitsStop'
<1>1. ASSUME stopping > 0 \/ SuiteEnded
      PROVE  stopping' > 0 \/ SuiteEnded'
  <2>1. CASE SuiteEnded
    BY <2>1, EndedStays
  <2>2. CASE stopping > 0 /\ ~(stopping' > 0)
    <3>1. PICK t \in Threads : ScopeLeave(t) /\ stopping = 1
      BY <2>2, StoppingFalls
    <3>2. At(t, "stop", "leave") /\ On(t) \in Suites
      BY <3>1, OnlyAt, AloneIsSuite DEF ScopeLeave
    <3>3. SuiteEnded
      BY <3>2, LateSuite
    <3>. QED  BY <3>3, EndedStays
  <2>. QED  BY <1>1, <2>1, <2>2
<1>. SUFFICES ASSUME NEW u \in Threads, NEW i \in 1..Len(stack'[u]),
                     stack'[u][i].proc = "handler", stack'[u][i].at \in {"whose", "waitstop"}
              PROVE  stopping > 0 \/ SuiteEnded
  BY <1>1 DEF WaitsStop, Places
<1>2. CASE i \in Places(u) /\ stack[u][i].proc = "handler" /\ stack[u][i].at \in {"whose", "waitstop"}
  BY <1>2 DEF WaitsStop
<1>3. CASE ~(i \in Places(u) /\ stack[u][i].proc = "handler" /\ stack[u][i].at \in {"whose", "waitstop"})
  <2>1. PICK t \in Threads : HandlerPasses(t)
    BY <1>3 DEF WatchedStay, Watched, Apart
  <2>2. ASSUME NEW a, NEW b, Passes(t, a, b), a = "whose" \/ b \notin {"whose", "waitstop"}
        PROVE  FALSE
    BY <1>3, <2>2 DEF Passes, Frame
  <2>3. HandlerStopping(t) /\ stopping > 0
    <3>0. Stacks
      BY DEF Typed
    <3>1. ~HandlerRunning(t)
      <4>1. HandlerRunning(t) => Passes(t, "running", IF registry = {} THEN "finish" ELSE "stopping")
        BY <3>0, HandlerPlaces
      <4>. QED  BY <2>2, <4>1
    <3>2. ~HandlerWhose(t) /\ ~HandlerWaited(t) /\ ~HandlerExpires(t) /\ ~HandlerFinish(t)
      BY <2>2, <3>0, HandlerPlaces
    <3>3. HandlerStopping(t)
      BY <2>1, <3>1, <3>2 DEF HandlerPasses
    <3>4. Passes(t, "stopping", IF stopping > 0 THEN "whose" ELSE "drain")
      BY <3>0, <3>3, HandlerPlaces
    <3>. QED  BY <2>2, <3>3, <3>4
  <2>. QED  BY <2>3
<1>. QED  BY <1>2, <1>3

\* The flusher answers with nothing left in the registry.
LEMMA WritesStep ==
  ASSUME Typed, NoDestroyer, Framing, WritesCalled, Writes, [Next]_vars
  PROVE  Writes'
<1>0. registry = {} => registry' = {}
  BY RegistryMoves DEF Typed
<1>. SUFFICES ASSUME NEW u \in Threads, NEW i \in 1..Len(stack'[u]),
                     stack'[u][i].proc = "flusher", stack'[u][i].at = "write"
              PROVE  registry' = {} \/ (i + 1 \in 1..Len(stack'[u]) /\ stack'[u][i + 1].proc = "all")
  BY DEF Writes, Places
<1>1. CASE i \in Places(u) /\ stack'[u][i] = stack[u][i]
  <2>1. registry = {} \/ (i + 1 \in Places(u) /\ stack[u][i + 1].proc = "all")
    BY <1>1 DEF Writes
  <2>2. CASE i + 1 \in Places(u) /\ stack[u][i + 1].proc = "all"
    <3>1. CASE i + 1 \in 1..Len(stack'[u])
      BY <2>2, <3>1 DEF Framing, FramesStay
    <3>2. CASE i + 1 \notin 1..Len(stack'[u])
      BY <1>0, <2>2, <3>2 DEF Framing, ReturnsDone
    <3>. QED  BY <3>1, <3>2
  <2>. QED  BY <1>0, <2>1, <2>2
<1>. QED  BY <1>1 DEF WritesCalled

LEMMA DoneFlushedStep ==
  ASSUME Typed, NoDestroyer, Writes, DoneFlushed, (done' => done) \/ FlusherWrite, [Next]_vars
  PROVE  DoneFlushed'
<1>0. registry = {} => registry' = {}
  BY RegistryMoves DEF Typed
<1>1. CASE done' => done
  BY <1>0, <1>1 DEF DoneFlushed
<1>2. CASE FlusherWrite
  <2>1. At(Flusher, "flusher", "write") /\ Flusher \in Threads
    BY <1>2 DEF FlusherWrite, Threads
  <2>2. Len(stack[Flusher]) \in Nat \ {0} /\ stack[Flusher][Len(stack[Flusher])] = Frame("flusher", "write", On(Flusher))
    BY <2>1, TopFrame DEF Typed
  <2>3. Len(stack[Flusher]) \in Places(Flusher) /\ Len(stack[Flusher]) + 1 \notin Places(Flusher)
        /\ stack[Flusher][Len(stack[Flusher])].proc = "flusher" /\ stack[Flusher][Len(stack[Flusher])].at = "write"
    BY <2>2 DEF Places, Frame
  <2>4. registry = {}
    BY <2>1, <2>3 DEF Writes
  <2>. QED  BY <1>0, <2>4 DEF DoneFlushed
<1>. QED  BY <1>1, <1>2

\* A reason not to wait is for good.
LEMMA LapsesStay ==
  ASSUME [Next]_vars
  PROVE  lapses \subseteq lapses'
<1>1. ASSUME NEW t \in Threads, Run(t)
      PROVE  lapses \subseteq lapses'
  <2>1. CASE StopSteps(t)
    BY <2>1 DEF StopSteps, StopLock, ScopeCount, ScopeMark, StopCheck, StopMember, Teardown, JoinsItself,
         RemoveSignalHandlers, Unregister, ScopeLeave, ScopeClear, TakeDeferred, StopUnlock, histVars
  <2>2. CASE StopAllSteps(t)
    BY <2>2 DEF StopAllSteps, StopAllLock, StopAllCopy, StopAllCall, StopAllErase, histVars
  <2>3. CASE EndSteps(t)
    BY <2>3 DEF EndSteps, ExitHook, ExitEnd, DestroyCheck, DestroyErase, histVars
  <2>4. CASE HandlerSteps(t)
    BY <2>4 DEF HandlerSteps, HandlerEnter, HandlerRunning, HandlerStopping, HandlerWhose, HandlerDefer,
         HandlerDrain, HandlerWake, HandlerWaited, HandlerExpires, HandlerFinish, HandlerChain, histVars
  <2>5. CASE FlusherSteps
    BY <2>5 DEF FlusherSteps, FlusherRead, FlusherWrite, histVars
  <2>. QED  BY <1>1, <2>1, <2>2, <2>3, <2>4, <2>5 DEF Run
<1>2. ASSUME NEW t \in Hosts, HostSteps(t)
      PROVE  lapses \subseteq lapses'
  BY <1>2 DEF HostSteps, HostStop, HostDestroy, HostExit, Fork, HostCall, Signal
<1>3. ASSUME WorkerFatal
      PROVE  lapses \subseteq lapses'
  BY <1>3 DEF WorkerFatal, HostCall
<1>4. UNCHANGED vars => lapses \subseteq lapses'
  BY DEF vars, histVars
<1>. QED  BY <1>1, <1>2, <1>3, <1>4 DEF Next

LEMMA FinishesStep ==
  ASSUME OneSuite, Typed, GoneStopped, AllOnSuites, MembersGone, WaitsStop, DoneFlushed, Finishes,
         WatchedStay \/ \E t \in Threads : HandlerPasses(t), [Next]_vars
  PROVE  Finishes'
<1>. SUFFICES ASSUME lapses' = {}, child' = None, NEW u \in Threads, NEW i \in 1..Len(stack'[u]),
                     stack'[u][i].proc = "handler", stack'[u][i].at \in {"finish", "chain"}
              PROVE  SuiteEnded
  BY EndedStays DEF Finishes, Places
<1>1. lapses = {} /\ child = None /\ Stacks
  BY LapsesStay, ChildIsForGood DEF Typed
<1>2. registry = {} => SuiteEnded
  BY FirstAreSuites DEF Typed, TypedObjects
<1>3. CASE i \in Places(u) /\ stack[u][i].proc = "handler" /\ stack[u][i].at \in {"finish", "chain"}
  BY <1>1, <1>3 DEF Finishes
<1>4. CASE ~(i \in Places(u) /\ stack[u][i].proc = "handler" /\ stack[u][i].at \in {"finish", "chain"})
  <2>1. PICK t \in Threads : HandlerPasses(t)
    BY <1>4 DEF WatchedStay, Watched
  <2>2. ASSUME NEW a, NEW b, Passes(t, a, b)
        PROVE  /\ a \notin {"finish", "chain"} /\ b \in {"finish", "chain"}
               /\ Len(stack[t]) \in Places(t) /\ stack[t][Len(stack[t])].proc = "handler"
               /\ stack[t][Len(stack[t])].at = a
    BY <1>4, <2>2 DEF Passes, Frame
  <2>3. CASE HandlerRunning(t)
    <3>1. Passes(t, "running", IF registry = {} THEN "finish" ELSE "stopping")
      BY <1>1, <2>3, HandlerPlaces
    <3>. QED  BY <1>2, <2>2, <3>1
  <2>4. CASE HandlerStopping(t)
    <3>1. Passes(t, "stopping", IF stopping > 0 THEN "whose" ELSE "drain")
      BY <1>1, <2>4, HandlerPlaces
    <3>. QED  BY <2>2, <3>1
  <2>5. CASE HandlerWhose(t)
    <3>1. Passes(t, "whose", IF ~IsStopping(t) THEN "waitstop" ELSE IF On(t) \in Crash THEN "finish" ELSE "defer")
      BY <1>1, <2>5, HandlerPlaces
    <3>2. IsStopping(t) /\ On(t) \in Crash
      BY <2>2, <3>1
    <3>. QED  BY <2>5, <3>2 DEF HandlerWhose
  <2>6. CASE HandlerWaited(t)
    <3>1. (Passes(t, "waitdone", "finish") /\ done) \/ (Passes(t, "waitstop", "finish") /\ stopping = 0)
      BY <1>1, <2>6, HandlerPlaces
    <3>2. CASE done
      BY <1>2, <3>2 DEF DoneFlushed
    <3>3. CASE Passes(t, "waitstop", "finish") /\ stopping = 0
      BY <2>2, <3>3 DEF WaitsStop
    <3>. QED  BY <3>1, <3>2, <3>3
  <2>7. CASE HandlerExpires(t)
    BY <2>7 DEF HandlerExpires
  <2>8. CASE HandlerFinish(t)
    <3>1. Passes(t, "finish", "chain")
      BY <1>1, <2>8, HandlerPlaces
    <3>. QED  BY <2>2, <3>1
  <2>. QED  BY <2>1, <2>3, <2>4, <2>5, <2>6, <2>7, <2>8 DEF HandlerPasses
<1>. QED  BY <1>3, <1>4

LEMMA HandlersLeftStep ==
  ASSUME OneSuite, Typed, LateStops, LateOnSuites, HandlersLeft,
         Apart \/ \E t \in Threads : OwnStep(t), [Next]_vars
  PROVE  HandlersLeft'
<1>1. CASE refs' = refs
  BY <1>1, EndedStays DEF HandlersLeft
<1>2. ASSUME NEW t \in Threads, RemoveSignalHandlers(t)
      PROVE  HandlersLeft'
  <2>1. At(t, "stop", "remove")
    BY <1>2 DEF RemoveSignalHandlers
  <2>2. SuiteEnded
    BY <2>1, LateSuite
  <2>. QED  BY <2>2, EndedStays DEF HandlersLeft
<1>3. ASSUME NEW t \in Threads, OwnStep(t), ~RemoveSignalHandlers(t)
      PROVE  refs' = refs
  BY <1>3 DEF OwnStep, StopLock, ScopeCount, ScopeMark, StopCheck, Teardown, Unregister, ScopeLeave,
         ScopeClear, TakeDeferred, StopUnlock, ioVars
<1>. QED  BY <1>1, <1>2, <1>3 DEF Apart

\* What makes a signal take its course.
LEMMA CourseMoves ==
  ASSUME [Next]_vars
  PROVE  \/ course' = course
         \/ \E t \in Threads : HandlerChain(t) \/ TakeDeferred(t)
         \/ child' # None \/ lapses' # {}
         \/ ~(refs > 0)
<1>1. ASSUME NEW t \in Threads, Run(t), ~HandlerChain(t), ~TakeDeferred(t)
      PROVE  course' = course \/ child' # None \/ lapses' # {}
  <2>1. CASE StopSteps(t)
    BY <1>1, <2>1 DEF StopSteps, StopLock, ScopeCount, ScopeMark, StopCheck, StopMember, Teardown, JoinsItself,
         RemoveSignalHandlers, Unregister, ScopeLeave, ScopeClear, StopUnlock, histVars
  <2>2. CASE StopAllSteps(t)
    BY <2>2 DEF StopAllSteps, StopAllLock, StopAllCopy, StopAllCall, StopAllErase, histVars
  <2>3. CASE EndSteps(t)
    BY <2>3 DEF EndSteps, ExitHook, ExitEnd, DestroyCheck, DestroyErase, histVars
  <2>4. CASE HandlerEnter(t)
    BY <2>4 DEF HandlerEnter, OwnsFlusher, Chain, Die, lifeVars
  <2>5. CASE HandlerSteps(t) /\ ~HandlerEnter(t)
    BY <1>1, <2>5 DEF HandlerSteps, HandlerRunning, HandlerStopping, HandlerWhose, HandlerDefer,
         HandlerDrain, HandlerWake, HandlerWaited, HandlerExpires, HandlerFinish, histVars
  <2>6. CASE FlusherSteps
    BY <2>6 DEF FlusherSteps, FlusherRead, FlusherWrite, histVars
  <2>. QED  BY <1>1, <2>1, <2>2, <2>3, <2>4, <2>5, <2>6 DEF Run
<1>2. ASSUME NEW t \in Hosts, HostSteps(t)
      PROVE  course' = course \/ ~(refs > 0)
  BY <1>2 DEF HostSteps, HostStop, HostDestroy, HostExit, Fork, HostCall, Signal
<1>3. ASSUME WorkerFatal
      PROVE  course' = course
  BY <1>3 DEF WorkerFatal, HostCall
<1>4. UNCHANGED vars => course' = course
  BY DEF vars, histVars
<1>. QED  BY <1>1, <1>2, <1>3, <1>4 DEF Next

LEMMA FlushedStep ==
  ASSUME OneSuite, Typed, LateStops, LateOnSuites, MembersGone, Finishes, HandlersLeft,
         FlushedBeforeCourse, [Next]_vars
  PROVE  FlushedBeforeCourse'
<1>. SUFFICES ASSUME course' # {}, lapses' = {}, child' = None
              PROVE  AllFlushed'
  BY DEF FlushedBeforeCourse
<1>0. lapses = {} /\ child = None /\ (AllFlushed => AllFlushed')
  BY LapsesStay, ChildIsForGood, RunningFalls DEF AllFlushed
<1>1. SuiteEnded => AllFlushed'
  BY <1>0 DEF MembersGone
<1>2. CASE course' = course
  BY <1>0, <1>2 DEF FlushedBeforeCourse
<1>3. ASSUME NEW t \in Threads, HandlerChain(t)
      PROVE  SuiteEnded
  <2>1. At(t, "handler", "chain")
    BY <1>3 DEF HandlerChain
  <2>2. Len(stack[t]) \in Nat \ {0} /\ stack[t][Len(stack[t])] = Frame("handler", "chain", On(t))
    BY <2>1, TopFrame DEF Typed
  <2>. QED  BY <1>0, <2>2 DEF Finishes, Places, Frame
<1>4. ASSUME NEW t \in Threads, TakeDeferred(t)
      PROVE  SuiteEnded
  <2>1. At(t, "stop", "take")
    BY <1>4 DEF TakeDeferred
  <2>. QED  BY <2>1, LateSuite
<1>5. CASE ~(refs > 0)
  BY <1>1, <1>5 DEF HandlersLeft
<1>. QED  BY <1>1, <1>2, <1>3, <1>4, <1>5, CourseMoves

CourseInv == SignalInv /\ WaitsStop /\ Writes /\ DoneFlushed /\ Finishes /\ HandlersLeft /\ FlushedBeforeCourse

LEMMA CourseInit ==
  ASSUME OneSuite, Init
  PROVE  CourseInv
<1>1. \A t \in Threads : stack[t] = IF t = Flusher THEN <<Frame("flusher", "read", None)>> ELSE <<>>
  BY DEF Init
<1>2. \A t \in Threads : \A i \in Places(t) : stack[t][i] = Frame("flusher", "read", None)
  BY <1>1 DEF Places
<1>3. WaitsStop /\ Writes /\ Finishes
  BY <1>2 DEF WaitsStop, Writes, Finishes, Frame
<1>4. refs > 0
  <2>1. Cardinality(Suites) = 1
    BY FS_Singleton DEF OneSuite
  <2>. QED  BY <2>1 DEF Init
<1>5. DoneFlushed /\ HandlersLeft /\ FlushedBeforeCourse
  BY <1>4 DEF DoneFlushed, HandlersLeft, FlushedBeforeCourse, Init
<1>. QED  BY <1>3, <1>5, SignalInit DEF CourseInv

LEMMA CourseStep ==
  ASSUME OneSuite, "destroy" \notin HostCalls, CourseInv, [Next]_vars
  PROVE  CourseInv'
<1>1. SignalInv'
  BY SignalStep DEF CourseInv
<1>2. /\ Typed /\ Stacks /\ Holding /\ NoDestroyer /\ GoneStopped /\ LateStops
      /\ ProbeStops /\ AllOnSuites /\ LateOnSuites /\ MembersGone /\ Counted
      /\ WaitsStop /\ Writes /\ DoneFlushed /\ Finishes /\ HandlersLeft /\ FlushedBeforeCourse
      /\ registry \subseteq Objects
  BY ErasedParts, StopsItParts DEF CourseInv, SignalInv, ExitInv, Typed, TypedObjects
<1>3. Framing
  <2>1. CASE Next
    BY <1>2, <2>1, FramingSteps
  <2>2. CASE UNCHANGED vars
    BY <2>2, FramingStutters DEF vars
  <2>. QED  BY <2>1, <2>2
<1>4. /\ Apart \/ (WatchedStay /\ \E t \in Threads : OwnStep(t))
      /\ WritesCalled /\ ((done' => done) \/ FlusherWrite)
      /\ WatchedStay \/ \E t \in Threads : HandlerPasses(t)
  <2>1. CASE Apart
    BY <2>1 DEF Apart, Kept, Still
  <2>2. ASSUME NEW t \in Threads, OwnStep(t)
        PROVE  WatchedStay /\ WritesCalled /\ UNCHANGED done
    BY <1>2, <2>2, OwnBelow DEF Below
  <2>. QED  BY <2>1, <2>2, SignalMoves DEF CourseInv
<1>5. WaitsStop'
  BY <1>2, <1>4, WaitsStopStep
<1>6. Writes' /\ DoneFlushed'
  BY <1>2, <1>3, <1>4, WritesStep, DoneFlushedStep
<1>7. Finishes'
  BY <1>2, <1>4, FinishesStep
<1>8. HandlersLeft'
  BY <1>2, <1>4, HandlersLeftStep
<1>9. FlushedBeforeCourse'
  BY <1>2, FlushedStep
<1>. QED  BY <1>1, <1>5, <1>6, <1>7, <1>8, <1>9 DEF CourseInv

\* A signal takes its course only when everything that ran has been stopped and
\* flushed, unless a second signal, a crash inside Stop() or a wait that expired
\* cut the flush short (lifecycle.cpp:153-191, 295-306): what the handler waits
\* for is there when its wait ends, whichever of Stop(), the flusher and the exit
\* hook got there. For a process with one suite that nobody destroys: with two,
\* or with the destructor, TLC finds a counterexample.
THEOREM FlushedBeforeCourseCorrect ==
  ASSUME OneSuite, "destroy" \notin HostCalls
  PROVE  Spec => []FlushedBeforeCourse
<1>1. Init => CourseInv
  BY CourseInit
<1>2. CourseInv /\ [Next]_vars => CourseInv'
  BY CourseStep
<1>3. CourseInv => FlushedBeforeCourse
  BY DEF CourseInv
<1>. QED  BY <1>1, <1>2, <1>3, PTL DEF Spec
=============================================================================
