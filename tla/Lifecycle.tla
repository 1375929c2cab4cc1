------------------------------ MODULE Lifecycle ------------------------------
(***************************************************************************)
(* What ends the profiler in a process: Stop() called by the host, the     *)
(* signal handler with its flusher thread, the exit hook, the destructor,  *)
(* and a fork. Objects are suites and the probes they own; one step is one *)
(* atomic operation or one critical section. A thread is a stack of the    *)
(* calls it is in; a signal pushes the handler on the thread it interrupts.*)
(*                                                                         *)
(* The model starts after every Start() has returned. The teardown of an   *)
(* object (joins, final flush, files closed) is one step.                  *)
(***************************************************************************)
EXTENDS Integers, SequencesExt

CONSTANTS Suites, Probes,  \* the registered objects
          Hosts,           \* the host's threads
          Flusher, Worker, \* the signal flusher; a library thread its probe joins
          Signals,         \* signals sent: each at most once
          Crash,           \* those that are crash signals
          Handled,         \* those the host had a handler for
          HostCalls,       \* what the host does: "stop", "exit", "destroy", "fork", "fatal"
          MaxCalls,        \* bound: calls of the host
          SlowFlush,       \* may a wait of the handler expire although the flush proceeds?
          None

Objects == Suites \union Probes
Threads == Hosts \union {Flusher, Worker}

ASSUME SetAssumption   == None \notin Threads \union Signals /\ Suites \intersect Probes = {}
ASSUME OwnerAssumption == Probes # {} => \E s \in Suites : Suites = {s}   \* the suite that owns them
ASSUME FlagAssumption  == SlowFlush \in BOOLEAN /\ MaxCalls \in Nat

VARIABLES
  stack,                       \* per thread, the calls it is in
  lock, regLock,               \* each object's stopMutex; RegistryMutex
  registry, running, stopped,  \* registered objects; the objects' flags
  freed, ends,                 \* objects destroyed; history: how often each was torn down
  stopping, stoppingTid, flushing, deferred,  \* the handler's atomics
  refs, wake, done,            \* handler installs; the pipe; the eventfd
  child, dead,                 \* the thread a fork left; how the process ended
  arrived, course, lapses, calls  \* history: signals sent; signals that took their course; why one was not waited for

lockVars == <<lock, regLock>>
objVars  == <<registry, running, stopped, freed, ends>>
sigVars  == <<stopping, stoppingTid, flushing, deferred>>
ioVars   == <<refs, wake, done>>
lifeVars == <<child, dead>>
histVars == <<arrived, course, lapses, calls>>
vars == <<stack, lockVars, objVars, sigVars, ioVars, lifeVars, histVars>>

Frame(p, a, x) == [proc |-> p, at |-> a, on |-> x]

Init ==
  /\ stack = [t \in Threads |-> IF t = Flusher THEN <<Frame("flusher", "read", None)>> ELSE <<>>]
  /\ lock = [o \in Objects |-> None] /\ regLock = None
  /\ registry = Objects /\ running = [o \in Objects |-> TRUE] /\ stopped = [o \in Suites |-> FALSE]
  /\ freed = {} /\ ends = [o \in Objects |-> 0]
  /\ stopping = 0 /\ stoppingTid = None /\ flushing = FALSE /\ deferred = None
  /\ refs = Cardinality(Suites) /\ wake = 0 /\ done = FALSE
  /\ child = None /\ dead = "no"
  /\ arrived = {} /\ course = {} /\ lapses = {} /\ calls = 0

---------------------------------------------------------------------------
(* Stacks.                                                                 *)

Active(t) == dead = "no" /\ child \in {None, t}
Idle(t)   == Active(t) /\ stack[t] = <<>>
At(t, p, a) == Active(t) /\ stack[t] # <<>> /\ Last(stack[t]).proc = p /\ Last(stack[t]).at = a
On(t) == Last(stack[t]).on

To(s, a)       == [s EXCEPT ![Len(s)].at = a]
Goto(t, a)     == stack' = [stack EXCEPT ![t] = To(@, a)]
Call(t, a, f)  == stack' = [stack EXCEPT ![t] = Append(To(@, a), f)]
Push(t, f)     == stack' = [stack EXCEPT ![t] = Append(@, f)]
Return(t)      == stack' = [stack EXCEPT ![t] = Front(@)]

Die(how) == dead' = how /\ UNCHANGED child

\* The signal's previous handler returns; the default action ends the process.
Chain(s) ==
  /\ course' = course \union {s}
  /\ IF s \in Handled THEN UNCHANGED lifeVars ELSE Die("signal")

---------------------------------------------------------------------------
(* Stop() of a suite or a probe.                                           *)

NoLock(o) == TRUE   \* mutant: Stop() without stopMutex
LockFree(o) == lock[o] = None

StopLock(t) ==
  /\ At(t, "stop", "lock") /\ LockFree(On(t))
  /\ lock' = [lock EXCEPT ![On(t)] = t]
  /\ Goto(t, "scope")
  /\ UNCHANGED <<regLock, objVars, sigVars, ioVars, lifeVars, histVars>>

\* StopScope: two atomics, one after the other.
ScopeCount(t) ==
  /\ At(t, "stop", "scope")
  /\ stopping' = stopping + 1
  /\ Goto(t, "mark")
  /\ UNCHANGED <<lockVars, objVars, stoppingTid, flushing, deferred, ioVars, lifeVars, histVars>>

ScopeMark(t) ==
  /\ At(t, "stop", "mark")
  /\ stoppingTid' = t
  /\ Goto(t, "check")
  /\ UNCHANGED <<lockVars, objVars, stopping, flushing, deferred, ioVars, lifeVars, histVars>>

Ended(o) == IF o \in Suites THEN stopped[o] ELSE ~running[o]

StopCheck(t) ==
  /\ At(t, "stop", "check")
  /\ stopped' = [o \in Suites |-> stopped[o] \/ o = On(t)]
  /\ Goto(t, IF Ended(On(t)) THEN "leave" ELSE "teardown")
  /\ UNCHANGED <<lockVars, registry, running, freed, ends, sigVars, ioVars, lifeVars, histVars>>

\* A suite stops the probes it owns.
StopMember(t) ==
  /\ At(t, "stop", "teardown") /\ On(t) \in Suites
  /\ \E p \in Probes : running[p] /\ Call(t, "teardown", Frame("stop", "lock", p))
  /\ UNCHANGED <<lockVars, objVars, sigVars, ioVars, lifeVars, histVars>>

MembersEnded(o) == o \in Probes \/ \A p \in Probes : ~running[p]

\* The threads are joined and the last frames written. A probe joins its worker.
Teardown(t) ==
  /\ At(t, "stop", "teardown") /\ MembersEnded(On(t))
  /\ On(t) \in Probes => stack[Worker] = <<>>
  /\ running' = [running EXCEPT ![On(t)] = FALSE]
  /\ ends' = [ends EXCEPT ![On(t)] = @ + 1]
  /\ Goto(t, IF On(t) \in Suites THEN "remove" ELSE "unregister")
  /\ UNCHANGED <<lockVars, registry, stopped, freed, sigVars, ioVars, lifeVars, histVars>>

\* A thread that joins itself: an exception nobody catches.
JoinsItself(t) ==
  /\ At(t, "stop", "teardown") /\ On(t) \in Probes /\ t = Worker
  /\ Die("abort")
  /\ UNCHANGED <<stack, lockVars, objVars, sigVars, ioVars, histVars>>

RemoveSignalHandlers(t) ==
  /\ At(t, "stop", "remove")
  /\ refs' = refs - 1
  /\ Goto(t, "unregister")
  /\ UNCHANGED <<lockVars, objVars, sigVars, wake, done, lifeVars, histVars>>

Unregister(t) ==
  /\ At(t, "stop", "unregister") /\ regLock = None
  /\ registry' = registry \ {On(t)}
  /\ Goto(t, "leave")
  /\ UNCHANGED <<lockVars, running, stopped, freed, ends, sigVars, ioVars, lifeVars, histVars>>

\* ~StopScope: only the last one out clears the thread and takes the signal.
EveryoneIsLast == TRUE   \* mutant: an inner Stop() takes the deferred signal
IsLast == stopping = 1

ScopeLeave(t) ==
  /\ At(t, "stop", "leave")
  /\ stopping' = stopping - 1
  /\ Goto(t, IF IsLast THEN "clear" ELSE "unlock")
  /\ UNCHANGED <<lockVars, objVars, stoppingTid, flushing, deferred, ioVars, lifeVars, histVars>>

ScopeClear(t) ==
  /\ At(t, "stop", "clear")
  /\ stoppingTid' = None
  /\ Goto(t, "take")
  /\ UNCHANGED <<lockVars, objVars, stopping, flushing, deferred, ioVars, lifeVars, histVars>>

TakeDeferred(t) ==
  /\ At(t, "stop", "take")
  /\ deferred' = None
  /\ IF deferred # None THEN Chain(deferred) ELSE UNCHANGED <<course, lifeVars>>
  /\ Goto(t, "unlock")
  /\ UNCHANGED <<lockVars, objVars, stopping, stoppingTid, flushing, ioVars, arrived, lapses, calls>>

StopUnlock(t) ==
  /\ At(t, "stop", "unlock")
  /\ lock' = [lock EXCEPT ![On(t)] = None]
  /\ Return(t)
  /\ UNCHANGED <<regLock, objVars, sigVars, ioVars, lifeVars, histVars>>

StopSteps(t) ==
  \/ StopLock(t) \/ ScopeCount(t) \/ ScopeMark(t) \/ StopCheck(t) \/ StopMember(t) \/ Teardown(t)
  \/ JoinsItself(t) \/ RemoveSignalHandlers(t) \/ Unregister(t) \/ ScopeLeave(t) \/ ScopeClear(t)
  \/ TakeDeferred(t) \/ StopUnlock(t)

---------------------------------------------------------------------------
(* StopAll(): suites first. Each entry is copied under the mutex and       *)
(* stopped without it.                                                     *)

NothingToStart == registry = {} \/ stopping > 0   \* mutant: leaves a Stop() in progress alone
NothingLeft == registry = {}

StopAllLock(t) ==
  /\ At(t, "all", "pick") /\ regLock = None
  /\ IF NothingLeft THEN Return(t) /\ UNCHANGED regLock
                   ELSE Goto(t, "copy") /\ regLock' = t
  /\ UNCHANGED <<lock, objVars, sigVars, ioVars, lifeVars, histVars>>

FirstEntries == IF registry \intersect Suites # {} THEN registry \intersect Suites ELSE registry

StopAllCopy(t) ==
  /\ At(t, "all", "copy")
  /\ \E o \in FirstEntries :
       stack' = [stack EXCEPT ![t] = Append(Front(@), Frame("all", "call", o))]
  /\ regLock' = None
  /\ UNCHANGED <<lock, objVars, sigVars, ioVars, lifeVars, histVars>>

StopAllCall(t) ==
  /\ At(t, "all", "call")
  /\ Call(t, "erase", Frame("stop", "lock", On(t)))
  /\ UNCHANGED <<lockVars, objVars, sigVars, ioVars, lifeVars, histVars>>

StopAllErase(t) ==
  /\ At(t, "all", "erase") /\ regLock = None
  /\ registry' = registry \ {On(t)}
  /\ Goto(t, "pick")
  /\ UNCHANGED <<lockVars, running, stopped, freed, ends, sigVars, ioVars, lifeVars, histVars>>

\* The flusher: a byte, StopAll(), the eventfd.
FlusherRead ==
  /\ At(Flusher, "flusher", "read") /\ wake > 0
  /\ wake' = wake - 1
  /\ Call(Flusher, "write", Frame("all", "pick", None))
  /\ UNCHANGED <<lockVars, objVars, sigVars, refs, done, lifeVars, histVars>>

FlusherWrite ==
  /\ At(Flusher, "flusher", "write")
  /\ done' = TRUE
  /\ Goto(Flusher, "read")
  /\ UNCHANGED <<lockVars, objVars, sigVars, refs, wake, lifeVars, histVars>>

\* exit(): the hook does nothing in a forked child.
ExitHook(t) ==
  /\ At(t, "exit", "hook")
  /\ IF child = None THEN Call(t, "end", Frame("all", "pick", None)) ELSE Goto(t, "end")
  /\ UNCHANGED <<lockVars, objVars, sigVars, ioVars, lifeVars, histVars>>

ExitEnd(t) ==
  /\ At(t, "exit", "end")
  /\ Die("exit")
  /\ UNCHANGED <<stack, lockVars, objVars, sigVars, ioVars, histVars>>

\* The destructor of a suite. A stopped one is not stopped again.
DestroyCheck(t) ==
  /\ At(t, "destroy", "check")
  /\ IF running[On(t)] /\ ~stopped[On(t)] THEN Call(t, "erase", Frame("stop", "lock", On(t)))
                                         ELSE Goto(t, "erase")
  /\ UNCHANGED <<lockVars, objVars, sigVars, ioVars, lifeVars, histVars>>

DestroyErase(t) ==
  /\ At(t, "destroy", "erase") /\ regLock = None
  /\ registry' = registry \ {On(t)}
  /\ freed' = freed \union {On(t)}
  /\ Return(t)
  /\ UNCHANGED <<lockVars, running, stopped, ends, sigVars, ioVars, lifeVars, histVars>>

StopAllSteps(t) == StopAllLock(t) \/ StopAllCopy(t) \/ StopAllCall(t) \/ StopAllErase(t)
EndSteps(t) == ExitHook(t) \/ ExitEnd(t) \/ DestroyCheck(t) \/ DestroyErase(t)
FlusherSteps == FlusherRead \/ FlusherWrite

---------------------------------------------------------------------------
(* The handler, on the thread the signal interrupted.                      *)

AnyProcess == TRUE   \* mutant: a forked child handles the signal like its parent
OwnsFlusher == child = None

\* A second signal during a flush ends the process whatever handler it had.
HandlerEnter(t) ==
  /\ At(t, "handler", "enter")
  /\ \/ /\ ~OwnsFlusher
        /\ Chain(On(t)) /\ Return(t)
        /\ UNCHANGED <<flushing, lapses>>
     \/ /\ OwnsFlusher /\ ~flushing
        /\ flushing' = TRUE /\ Goto(t, "running")
        /\ UNCHANGED <<lifeVars, course, lapses>>
     \/ /\ OwnsFlusher /\ flushing
        /\ course' = course \union {On(t)} /\ lapses' = lapses \union {"second"}
        /\ Die("signal")
        /\ UNCHANGED <<stack, flushing>>
  /\ UNCHANGED <<lockVars, objVars, stopping, stoppingTid, deferred, ioVars, arrived, calls>>

HandlerRunning(t) ==
  /\ At(t, "handler", "running")
  /\ Goto(t, IF registry = {} THEN "finish" ELSE "stopping")
  /\ UNCHANGED <<lockVars, objVars, sigVars, ioVars, lifeVars, histVars>>

HandlerStopping(t) ==
  /\ At(t, "handler", "stopping")
  /\ Goto(t, IF stopping > 0 THEN "whose" ELSE "drain")
  /\ UNCHANGED <<lockVars, objVars, sigVars, ioVars, lifeVars, histVars>>

IsAnyones(t) == TRUE   \* mutant: defers on any thread
IsStopping(t) == stoppingTid = t

\* A crash signal on the thread that is stopping is not waited for.
HandlerWhose(t) ==
  /\ At(t, "handler", "whose")
  /\ Goto(t, IF ~IsStopping(t) THEN "waitstop" ELSE IF On(t) \in Crash THEN "finish" ELSE "defer")
  /\ lapses' = IF IsStopping(t) /\ On(t) \in Crash THEN lapses \union {"crash"} ELSE lapses
  /\ UNCHANGED <<lockVars, objVars, sigVars, ioVars, lifeVars, arrived, course, calls>>

\* mutant: returns without a note of the signal
HandlerIgnores(t) ==
  /\ At(t, "handler", "defer")
  /\ flushing' = FALSE
  /\ Return(t)
  /\ UNCHANGED <<lockVars, objVars, stopping, stoppingTid, deferred, ioVars, lifeVars, histVars>>

HandlerDefer(t) ==
  /\ At(t, "handler", "defer")
  /\ deferred' = IF deferred = None THEN On(t) ELSE deferred
  /\ flushing' = FALSE
  /\ Return(t)
  /\ UNCHANGED <<lockVars, objVars, stopping, stoppingTid, ioVars, lifeVars, histVars>>

HandlerDrain(t) ==
  /\ At(t, "handler", "drain")
  /\ done' = FALSE
  /\ Goto(t, "wake")
  /\ UNCHANGED <<lockVars, objVars, sigVars, refs, wake, lifeVars, histVars>>

HandlerWake(t) ==
  /\ At(t, "handler", "wake")
  /\ wake' = wake + 1
  /\ Goto(t, "waitdone")
  /\ UNCHANGED <<lockVars, objVars, sigVars, refs, done, lifeVars, histVars>>

Awaited(t) == \/ At(t, "handler", "waitdone") /\ done
              \/ At(t, "handler", "waitstop") /\ stopping = 0

HandlerWaited(t) ==
  /\ Awaited(t)
  /\ Goto(t, "finish")
  /\ UNCHANGED <<lockVars, objVars, sigVars, ioVars, lifeVars, histVars>>

InWait(t) == At(t, "handler", "waitdone") \/ At(t, "handler", "waitstop")

\* A thread that cannot take a step: idle, or waiting for another's.
Blocked(t) ==
  \/ ~Active(t) \/ stack[t] = <<>>
  \/ At(t, "flusher", "read") /\ wake = 0
  \/ InWait(t) /\ ~Awaited(t)
  \/ At(t, "stop", "lock") /\ lock[On(t)] # None
  \/ At(t, "stop", "teardown") /\ On(t) \in Probes /\ t # Worker /\ stack[Worker] # <<>>
  \/ \E w \in {<<"stop", "unregister">>, <<"all", "pick">>, <<"all", "erase">>, <<"destroy", "erase">>} :
       At(t, w[1], w[2]) /\ regLock # None

WaitsForever(t) == FALSE   \* mutant: the waits have no bound

\* The bounds are seconds: unless the flush is slow, only a wait that nothing
\* can end runs into one.
HandlerExpires(t) ==
  /\ InWait(t) /\ ~Awaited(t)
  /\ SlowFlush \/ \A u \in Threads : Blocked(u)
  /\ lapses' = lapses \union {"timeout"}
  /\ Goto(t, "finish")
  /\ UNCHANGED <<lockVars, objVars, sigVars, ioVars, lifeVars, arrived, course, calls>>

HandlerFinish(t) ==
  /\ At(t, "handler", "finish")
  /\ flushing' = FALSE
  /\ Goto(t, "chain")
  /\ UNCHANGED <<lockVars, objVars, stopping, stoppingTid, deferred, ioVars, lifeVars, histVars>>

HandlerChain(t) ==
  /\ At(t, "handler", "chain")
  /\ Chain(On(t))
  /\ Return(t)
  /\ UNCHANGED <<lockVars, objVars, sigVars, ioVars, arrived, lapses, calls>>

HandlerSteps(t) ==
  \/ HandlerEnter(t) \/ HandlerRunning(t) \/ HandlerStopping(t) \/ HandlerWhose(t) \/ HandlerDefer(t)
  \/ HandlerDrain(t) \/ HandlerWake(t) \/ HandlerWaited(t) \/ HandlerExpires(t) \/ HandlerFinish(t)
  \/ HandlerChain(t)

---------------------------------------------------------------------------
(* The host and the world.                                                 *)

\* Without our handlers the signal does what it did before Start().
Signal(t, s) ==
  /\ Active(t) /\ s \notin arrived
  /\ arrived' = arrived \union {s}
  /\ IF refs > 0 THEN Push(t, Frame("handler", "enter", s)) /\ UNCHANGED <<course, lifeVars>>
                  ELSE Chain(s) /\ UNCHANGED stack
  /\ UNCHANGED <<lockVars, objVars, sigVars, ioVars, lapses, calls>>

HostCall(t, what) ==
  /\ Idle(t) /\ what \in HostCalls /\ calls < MaxCalls
  /\ calls' = calls + 1
  /\ UNCHANGED <<lockVars, objVars, sigVars, ioVars, arrived, course, lapses>>

Exiting == \E t \in Threads : \E i \in DOMAIN stack[t] : stack[t][i].proc = "exit"

\* A forked child does not stop what its parent runs.
HostStop(t) == HostCall(t, "stop") /\ child = None
               /\ \E o \in Suites \ freed : Push(t, Frame("stop", "lock", o)) /\ UNCHANGED lifeVars
HostDestroy(t) == HostCall(t, "destroy") /\ child = None
                  /\ \E o \in Suites \ freed : Push(t, Frame("destroy", "check", o)) /\ UNCHANGED lifeVars
HostExit(t) == HostCall(t, "exit") /\ ~Exiting /\ Push(t, Frame("exit", "hook", None)) /\ UNCHANGED lifeVars

\* From here on the model is of the child: its one thread is the caller.
Fork(t) == HostCall(t, "fork") /\ child = None /\ child' = t /\ UNCHANGED <<stack, dead>>

\* A CUPTI call fails on a library thread: exit() there.
WorkerFatal ==
  /\ HostCall(Worker, "fatal") /\ ~Exiting
  /\ \E p \in Probes : running[p]
  /\ Push(Worker, Frame("exit", "hook", None))
  /\ UNCHANGED lifeVars

HostSteps(t) == HostStop(t) \/ HostDestroy(t) \/ HostExit(t) \/ Fork(t) \/ \E s \in Signals : Signal(t, s)

Run(t) == StopSteps(t) \/ StopAllSteps(t) \/ EndSteps(t) \/ HandlerSteps(t) \/ (t = Flusher /\ FlusherSteps)

Next == \/ \E t \in Threads : Run(t)
        \/ \E t \in Hosts : HostSteps(t)
        \/ WorkerFatal

\* Every thread that can take a step is scheduled some time; the host and the
\* world need not do anything.
Fairness == \A t \in Threads : WF_vars(Run(t))
Spec == Init /\ [][Next]_vars /\ Fairness

---------------------------------------------------------------------------
(* Properties.                                                             *)

Frames(t) == ToSet(stack[t])

\* The type of every variable (lifecycle.cpp:66-82).
TypeOK ==
  /\ stack \in [Threads -> Seq([proc : {"stop", "all", "exit", "destroy", "handler", "flusher"}, at : STRING,
                                on : Objects \union Signals \union {None}])]
  /\ lock \in [Objects -> Threads \union {None}] /\ regLock \in Threads \union {None}
  /\ registry \subseteq Objects /\ running \in [Objects -> BOOLEAN] /\ stopped \in [Suites -> BOOLEAN]
  /\ freed \subseteq Suites /\ ends \in [Objects -> Nat]
  /\ stopping \in Nat /\ stoppingTid \in Threads \union {None} /\ flushing \in BOOLEAN
  /\ deferred \in Signals \union {None}
  /\ refs \in 0..Cardinality(Suites) /\ wake \in Nat /\ done \in BOOLEAN
  /\ child \in Hosts \union {None} /\ dead \in {"no", "signal", "exit", "abort"}
  /\ arrived \subseteq Signals /\ course \subseteq arrived
  /\ lapses \subseteq {"second", "timeout", "crash"} /\ calls \in 0..MaxCalls

\* Whoever stops an object - the host, the flusher, the exit hook, the
\* destructor, several of them at once - it is torn down once
\* (profiler_suite.cpp:652-655, gpu_profiler.cpp:474-476).
RunsOnce == \A o \in Objects : ends[o] <= 1

AllFlushed == \A o \in Objects : ~running[o]

\* A signal takes its course (the previous handler or the default action) only
\* when everything that ran has been stopped and flushed, unless a second
\* signal, a crash inside Stop() or a wait that expired cut the flush short
\* (lifecycle.cpp:153-191, 295-306).
FlushedBeforeCourse == course # {} /\ lapses = {} /\ child = None => AllFlushed

\* exit() ends the process with everything stopped and flushed, whatever other
\* threads and the flusher are stopping at the time (lifecycle.cpp:258-288).
ExitFlushes == dead = "exit" /\ child = None => AllFlushed

\* A deferred signal always has a Stop() ahead of it that will take it
\* (lifecycle.cpp:171-180, 295-306).
DeferralHasTaker ==
  deferred # None =>
    \/ stopping > 0
    \/ \E t \in Threads : \E f \in Frames(t) : f.proc = "stop" /\ f.at \in {"clear", "take"}

\* A forked child that gets a signal or exits leaves its parent's flusher and
\* files alone (lifecycle.cpp:155-161, 284-286).
ChildLeavesParentAlone == [][child # None => UNCHANGED <<wake, running>>]_vars

\* A termination signal that interrupts a Stop() never waits, on that thread,
\* for what cannot go on until the handler returns (lifecycle.cpp:168-180).
SelfInterruptIsDeferred ==
  \A t \in Threads :
    InWait(t) /\ On(t) \notin Crash => \A o \in Objects : lock[o] # t

\* A destroyed object is not being stopped (profiler_suite.cpp:133-141,
\* lifecycle.cpp:258-276).
NoStopOfDestroyed == \A t \in Threads : \A f \in Frames(t) : f.proc = "stop" => f.on \notin freed

\* The process ends by exit() only with everything stopped, also when a library
\* thread calls exit() (helper_cupti.h:45-55, lifecycle.cpp:283-288).
OrderlyEnd == dead \in {"exit", "abort"} /\ child = None => AllFlushed

\* Every call of the host returns, every handler it is interrupted by too, or
\* the process ends (lifecycle.cpp:131-151, 258-276).
CallsReturn ==
  \A t \in Hosts : stack[t] # <<>> ~> stack[t] = <<>> \/ dead # "no" \/ child \notin {None, t}

\* Every signal takes its course or the process ends (lifecycle.cpp:39-41).
SignalTaken == \A s \in Signals : s \in arrived ~> s \in course \/ dead # "no" \/ child # None
==============================================================================
