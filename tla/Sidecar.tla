------------------------------ MODULE Sidecar ------------------------------
(***************************************************************************)
(* The suite, its SidecarProcess handle and the sidecar's control loop     *)
(* (profiler_suite.cpp, sidecar_process.cpp, cupti_profiler_sidecar.cpp).  *)
(*                                                                         *)
(* The host writes messages on one pipe and reads one status per message   *)
(* from another; MSG_STOP alone is answered long after it was written,     *)
(* with the lock released in between.  Around that exchange anything may   *)
(* end: the host, the sidecar, either in the middle of a message.          *)
(*                                                                         *)
(* A message is a header and, for the types with one, a payload: two       *)
(* write() calls, so two items of the pipe.  A status is one item: a       *)
(* sidecar that dies between its two writes leaves the host the same       *)
(* short read as one that dies before them.  The probes are the set of     *)
(* PIDs they track; their own behaviour is ProcessTable's.                 *)
(***************************************************************************)
EXTENDS Naturals, Sequences, FiniteSets

CONSTANTS
  Pids,       \* PIDs the host may list
  Callers,    \* host threads that add and remove PIDs mid-run
  MaxCalls,   \* bound on their calls
  MaxFaults,  \* bound on deaths and signals from outside
  MayFail     \* spawn, configuration, pidfd or probe start may fail

ASSUME ThreadsAssumption == Callers \cap {"owner", "free"} = {}
ASSUME BoundsAssumption  == MaxCalls \in Nat /\ MaxFaults \in Nat
ASSUME FailAssumption    == MayFail \in BOOLEAN

VARIABLES
  host,       \* "up" or "dead"
  pc,         \* pc[t]: where host thread t is
  call,       \* call[t]: the message t sends or last sent
  answer,     \* answer[t]: how its last exchange ended
  mutex,      \* send_mutex_: its holder, or Free
  handle,     \* the suite's SidecarProcess: "none", "live", or "reaped" (child_pid_ = -1)
  local,      \* PIDs listed with the probe that runs in the host
  subreaper,  \* EnableChildSubreaper() was called
  reaperSent, \* hostReaperSent
  stopSent,   \* sidecarStopSent
  calls,      \* calls made so far (bound)
  faults,     \* deaths and signals so far (bound)
  down, up,   \* the two pipes
  shut,       \* the host closed its ends
  held,       \* the host has died, but a process it forked holds the control pipe
  sc,         \* the sidecar
  child,      \* the sidecar as the kernel sees it: none, running, zombie, reaped
  sig,        \* a stop signal is pending for the sidecar
  stopWritten, crossed, raced   \* history: see the properties

hostVars == <<pc, call, answer, mutex, handle, local, subreaper, reaperSent, stopSent, calls>>
pipes    == <<down, up, shut>>
history  == <<stopWritten, crossed, raced>>
vars     == <<host, faults, hostVars, pipes, held, sc, child, sig, history>>

Owner   == "owner"    \* the thread that configures, starts and stops the suite
Free    == "free"
Threads == {Owner} \cup Callers

HasPayload == {"CONFIG", "ADD", "REMOVE"}
Types      == HasPayload \cup {"START", "STOP", "JOIN", "REAPER"}
NoPid      == "nopid"
Msg(type, pid)       == [type |-> type, pid |-> pid]
Item(part, t)        == [part |-> part, msg |-> call[t], from |-> t]
Status(code, m)      == [code |-> code, msg |-> m.msg, to |-> m.from]
NoItem               == [part |-> "none", msg |-> Msg("CONFIG", NoPid), from |-> Owner]

TypeOK ==
  /\ host \in {"up", "dead"}
  /\ pc \in [Threads -> {"new", "send", "body", "answer", "back", "configured", "sync", "running",
                         "teardown", "join", "reset", "wait", "off", "stopped", "idle", "fan",
                         "undefined", "dead"}]
  /\ call \in [Threads -> [type : Types, pid : Pids \cup {NoPid}]]
  /\ answer \in [Threads -> {"Ok", "BadHandshake", "Refused", "Exited"}]
  /\ mutex \in Threads \cup {Free}
  /\ handle \in {"none", "live", "reaped"}
  /\ local \subseteq Pids /\ raced \subseteq Pids
  /\ {subreaper, reaperSent, stopSent, shut, held, sig, stopWritten, crossed} \subseteq BOOLEAN
  /\ calls \in 0..MaxCalls /\ faults \in 0..MaxFaults
  /\ sc.pc \in {"none", "boot", "poll", "body", "stop", "bye", "closed", "gone"}
  /\ child \in {"none", "running", "zombie", "reaped"}

Init ==
  /\ host = "up"
  /\ pc = [t \in Threads |-> IF t = Owner THEN "new" ELSE "idle"]
  /\ call = [t \in Threads |-> Msg("CONFIG", NoPid)]
  /\ answer = [t \in Threads |-> "Ok"]
  /\ mutex = Free /\ handle = "none" /\ local = {} /\ calls = 0 /\ faults = 0
  /\ subreaper = FALSE /\ reaperSent = FALSE /\ stopSent = FALSE
  /\ down = <<>> /\ up = <<>> /\ shut = FALSE /\ held = FALSE
  /\ sc = [pc |-> "none", phase |-> "config", hdr |-> NoItem, ack |-> FALSE, tracked |-> {},
           told |-> FALSE, probes |-> FALSE, flushed |-> FALSE, hostFd |-> TRUE, killed |-> FALSE]
  /\ child = "none" /\ sig = FALSE
  /\ stopWritten = FALSE /\ crossed = FALSE /\ raced = {}

----------------------------------------------------------------------------
(* The host's side of an exchange.  SidecarClosed: the sidecar's ends are  *)
(* closed, so a write gets EPIPE and a read of an empty pipe EOF.          *)

SidecarClosed == sc.pc \in {"closed", "gone"}

\* WriteAllNoSigpipe: EPIPE is an error code, never a signal.
Broken(t) ==
  /\ answer' = [answer EXCEPT ![t] = "Exited"]
  /\ pc' = [pc EXCEPT ![t] = "back"]
  /\ mutex' = Free
  /\ UNCHANGED down

Put(t, part, next) ==
  /\ down' = Append(down, Item(part, t))
  /\ pc' = [pc EXCEPT ![t] = next]

\* mutant: WriteHeader does not take the lock for the rest of the exchange.
WriteHeader_NoLock(t) ==
  /\ host = "up" /\ pc[t] = "send"
  /\ ~SidecarClosed
  /\ Put(t, "header", IF call[t].type \in HasPayload THEN "body"
                      ELSE IF call[t].type = "STOP" THEN "back" ELSE "answer")
  /\ stopWritten' = (stopWritten \/ call[t].type = "STOP")
  /\ answer' = [answer EXCEPT ![t] = "Ok"]
  /\ UNCHANGED <<host, faults, call, mutex, handle, local, subreaper, reaperSent, stopSent, calls, up, shut,
                 held, sc, child, sig, crossed, raced>>

\* WriteMsg, first write: takes send_mutex_ (a thread that finds the handle
\* destroyed under it has left defined behaviour).
WriteHeader(t) ==
  /\ host = "up" /\ pc[t] = "send"
  /\ mutex = Free
  /\ \/ /\ SidecarClosed
        /\ Broken(t)
        /\ UNCHANGED stopWritten
     \/ /\ ~SidecarClosed
        /\ \/ /\ call[t].type \in HasPayload
              /\ Put(t, "header", "body")
              /\ mutex' = t
              /\ UNCHANGED <<answer, stopWritten>>
           \/ /\ call[t].type = "STOP"              \* SignalStop: no answer awaited here
              /\ Put(t, "header", "back")
              /\ answer' = [answer EXCEPT ![t] = "Ok"]
              /\ stopWritten' = TRUE
              /\ UNCHANGED mutex
           \/ /\ call[t].type \in {"START", "REAPER"}
              /\ Put(t, "header", "answer")
              /\ mutex' = t
              /\ UNCHANGED <<answer, stopWritten>>
  /\ UNCHANGED <<host, faults, call, handle, local, subreaper, reaperSent, stopSent, calls, up, shut, held,
                 sc, child, sig, crossed, raced>>

\* WriteMsg, second write.
WriteBody(t) ==
  /\ host = "up" /\ pc[t] = "body"
  /\ \/ SidecarClosed /\ Broken(t)
     \/ /\ ~SidecarClosed
        /\ Put(t, "payload", "answer")
        /\ UNCHANGED <<answer, mutex>>
  /\ UNCHANGED <<host, faults, call, handle, local, subreaper, reaperSent, stopSent, calls, up, shut, held,
                 sc, child, sig, history>>

\* ReadStatus: whatever status is next, whoever it was written for.
ReadStatus(t) ==
  /\ host = "up" /\ pc[t] = "answer"
  /\ \/ /\ up # <<>>
        /\ answer' = [answer EXCEPT ![t] = Head(up).code]
        /\ up' = Tail(up)
        /\ crossed' = (crossed \/ Head(up).to # t \/ Head(up).msg # call[t])
     \/ /\ up = <<>> /\ SidecarClosed
        /\ answer' = [answer EXCEPT ![t] = "Exited"]
        /\ UNCHANGED <<up, crossed>>
  /\ pc' = [pc EXCEPT ![t] = "back"]
  /\ mutex' = Free
  /\ UNCHANGED <<host, faults, call, handle, local, subreaper, reaperSent, stopSent, calls, down, shut, held,
                 sc, child, sig, stopWritten, raced>>

\* mutant: the handle keeps the PID of the child it has reaped.
DescribeExit_KeepsPid ==
  /\ child' = IF child = "zombie" THEN "reaped" ELSE child
  /\ UNCHANGED handle

\* DescribeExit: waitpid(WNOHANG); a sidecar reaped here is not waited for again.
DescribeExit ==
  IF child = "zombie"
  THEN child' = "reaped" /\ handle' = "reaped"
  ELSE UNCHANGED <<child, handle>>

----------------------------------------------------------------------------
(* The suite's owner: Configure, Start, Stop.                              *)

Go(t, where)       == pc' = [pc EXCEPT ![t] = where]
SendNext(t, type, pid) ==
  /\ Go(t, "send")
  /\ call' = [call EXCEPT ![t] = Msg(type, pid)]
Back(t, type) == host = "up" /\ pc[t] = "back" /\ call[t].type = type

\* SidecarProcess::Spawn: three pipes, fork and exec.
Launched ==
  /\ handle' = "live"
  /\ child' = "running"
  /\ sc' = [sc EXCEPT !.pc = "boot"]

\* Configure up to the first exchange.  A configuration that is refused and a
\* sidecar that cannot be launched leave nothing behind.
Configure ==
  /\ host = "up" /\ pc[Owner] = "new"
  /\ \/ Launched /\ SendNext(Owner, "CONFIG", NoPid)
     \/ MayFail /\ Go(Owner, "off") /\ UNCHANGED <<call, handle, child, sc>>
  /\ UNCHANGED <<host, faults, answer, mutex, local, subreaper, reaperSent, stopSent, calls, pipes,
                 held, sig, history>>

\* ... and from its answer on.
Configured ==
  /\ Back(Owner, "CONFIG")
  /\ Go(Owner, IF answer[Owner] = "Ok" THEN "configured" ELSE "reset")
  /\ UNCHANGED <<host, faults, call, answer, mutex, handle, local, subreaper, reaperSent, stopSent,
                 calls, pipes, held, sc, child, sig, history>>

\* Start: the in-process probes, then MSG_START.
Start ==
  /\ host = "up" /\ pc[Owner] = "configured"
  /\ SendNext(Owner, "START", NoPid)
  /\ UNCHANGED <<host, faults, answer, mutex, handle, local, subreaper, reaperSent, stopSent, calls,
                 pipes, held, sc, child, sig, history>>

\* Start, the answer: on an error the handle is reset and the suite runs on without it.
StartAnswered ==
  /\ Back(Owner, "START")
  /\ Go(Owner, IF answer[Owner] = "Ok" THEN "sync" ELSE "reset")
  /\ UNCHANGED <<host, faults, call, answer, mutex, handle, local, subreaper, reaperSent, stopSent, calls,
                 pipes, held, sc, child, sig, history>>

\* Stop: MSG_STOP goes out before the local teardown ...
Stop ==
  /\ host = "up" /\ pc[Owner] = "running"
  /\ IF handle = "none" THEN Go(Owner, "stopped") /\ UNCHANGED call
     ELSE SendNext(Owner, "STOP", NoPid)
  /\ UNCHANGED <<host, faults, answer, mutex, handle, local, subreaper, reaperSent, stopSent, calls,
                 pipes, held, sc, child, sig, history>>

StopSignalled ==
  /\ Back(Owner, "STOP")
  /\ IF answer[Owner] = "Ok"
     THEN stopSent' = TRUE /\ UNCHANGED <<child, handle>>
     ELSE DescribeExit /\ UNCHANGED stopSent
  /\ Go(Owner, "teardown")
  /\ UNCHANGED <<host, faults, call, answer, mutex, local, subreaper, reaperSent, calls, pipes, held, sc, sig, history>>

\* ... which ends with the wait for its answer: JoinStopAck takes the lock again.
Teardown ==
  /\ host = "up" /\ pc[Owner] = "teardown"
  /\ \/ stopSent /\ mutex = Free /\ mutex' = Owner /\ Go(Owner, "answer")
     \/ ~stopSent /\ UNCHANGED mutex /\ Go(Owner, "reset")
  /\ call' = [call EXCEPT ![Owner] = Msg("JOIN", NoPid)]
  /\ UNCHANGED <<host, faults, answer, handle, local, subreaper, reaperSent, stopSent, calls,
                 pipes, held, sc, child, sig, history>>

StopAcked ==
  /\ Back(Owner, "JOIN")
  /\ IF answer[Owner] = "Ok" THEN UNCHANGED <<child, handle>> ELSE DescribeExit
  /\ Go(Owner, "reset")
  /\ UNCHANGED <<host, faults, call, answer, mutex, local, subreaper, reaperSent, stopSent, calls,
                 pipes, held, sc, sig, history>>

\* sidecar.reset(): the pointer is cleared, the pipes are closed, and a sidecar
\* not reaped yet gets SIGTERM.  A thread still inside an exchange then uses a
\* destroyed object: nothing more is said of it.
InExchange(t) == pc[t] \in {"send", "body", "answer"}
Reset ==
  /\ host = "up" /\ pc[Owner] = "reset"
  /\ handle' = "none"
  /\ shut' = TRUE
  /\ sig' = (sig \/ (handle = "live" /\ ~SidecarClosed))
  /\ pc' = [t \in Threads |-> IF t = Owner THEN "wait"
                               ELSE IF InExchange(t) THEN "undefined" ELSE pc[t]]
  /\ UNCHANGED <<host, faults, call, answer, mutex, local, subreaper, reaperSent, stopSent, calls,
                 down, up, held, sc, child, history>>

\* Where the owner goes on: Configure has failed, Start runs on without a
\* sidecar, Stop is over.
AfterReset == CASE call[Owner].type = "CONFIG" -> "off"
                [] call[Owner].type = "START"  -> "sync"
                [] OTHER                       -> "stopped"

\* mutant: the destructor does not wait.
WaitChild_NoHang ==
  /\ host = "up" /\ pc[Owner] = "wait"
  /\ child' = IF child = "zombie" THEN "reaped" ELSE child
  /\ Go(Owner, AfterReset)
  /\ UNCHANGED <<host, faults, call, answer, mutex, handle, local, subreaper, reaperSent, stopSent, calls,
                 pipes, held, sc, sig, history>>

\* ~SidecarProcess: waitpid() without WNOHANG, then the notice reader's EOF.
WaitChild ==
  /\ host = "up" /\ pc[Owner] = "wait"
  /\ child \in {"zombie", "reaped"}
  /\ child' = "reaped"
  /\ Go(Owner, AfterReset)
  /\ UNCHANGED <<host, faults, call, answer, mutex, handle, local, subreaper, reaperSent, stopSent, calls,
                 pipes, held, sc, sig, history>>

----------------------------------------------------------------------------
(* SyncHostReaper, AddTrackedProcess and RemoveTrackedProcess.  The probes *)
(* that run in the host are updated first, then the sidecar is told.       *)

SyncHostReaper(t, next) ==
  /\ host = "up" /\ pc[t] = "sync"
  /\ IF reaperSent \/ ~subreaper
     THEN Go(t, next) /\ UNCHANGED <<call, reaperSent>>
     ELSE IF handle = "none"
     THEN Go(t, next) /\ reaperSent' = TRUE /\ UNCHANGED call
     ELSE SendNext(t, "REAPER", call[t].pid) /\ UNCHANGED reaperSent
  /\ UNCHANGED <<host, faults, answer, mutex, handle, local, subreaper, stopSent, calls,
                 pipes, held, sc, child, sig, history>>

ReaperTold(t, next) ==
  /\ Back(t, "REAPER")
  /\ reaperSent' = (reaperSent \/ answer[t] = "Ok")
  /\ Go(t, next)
  /\ UNCHANGED <<host, faults, call, answer, mutex, handle, local, subreaper, stopSent, calls,
                 pipes, held, sc, child, sig, history>>

\* The suite takes calls once it has started.
Started(t) == pc[t] = "running" \/ call[t].type \in {"STOP", "JOIN"}

\* Another thread's call about p is in flight: which of the two the host's own
\* probes see first says nothing of the order the sidecar sees.
Racing(t, p) == \E u \in Callers \ {t} : pc[u] # "idle" /\ call[u].pid = p

BeginCall(t, type, p) ==
  /\ host = "up" /\ pc[t] = "idle" /\ Started(Owner)
  /\ calls < MaxCalls
  /\ calls' = calls + 1
  /\ call' = [call EXCEPT ![t] = Msg(type, p)]
  /\ raced' = IF Racing(t, p) THEN raced \cup {p} ELSE raced
  /\ UNCHANGED <<host, faults, answer, mutex, handle, subreaper, reaperSent, stopSent,
                 pipes, held, sc, child, sig, stopWritten, crossed>>

Forward(t) == Go(t, IF handle = "none" THEN "idle" ELSE "send")

AddTrackedProcess(t, p) ==
  /\ BeginCall(t, "ADD", p)
  /\ Go(t, "sync")
  /\ UNCHANGED local

\* ... after SyncHostReaper: the probes here, then the sidecar.
FanOutAdd(t) ==
  /\ host = "up" /\ pc[t] = "fan"
  /\ local' = local \cup {call[t].pid}
  /\ call' = [call EXCEPT ![t].type = "ADD"]
  /\ Forward(t)
  /\ UNCHANGED <<host, faults, answer, mutex, handle, subreaper, reaperSent, stopSent, calls,
                 pipes, held, sc, child, sig, history>>

RemoveTrackedProcess(t, p) ==
  /\ BeginCall(t, "REMOVE", p)
  /\ local' = local \ {p}
  /\ Forward(t)

\* An error is logged, and the call returns.
EndCall(t) ==
  /\ \E type \in {"ADD", "REMOVE"} : Back(t, type)
  /\ Go(t, "idle")
  /\ call' = [call EXCEPT ![t] = Msg("CONFIG", NoPid)]     \* its locals are gone
  /\ answer' = [answer EXCEPT ![t] = "Ok"]
  /\ UNCHANGED <<host, faults, mutex, handle, local, subreaper, reaperSent, stopSent, calls,
                 pipes, held, sc, child, sig, history>>

----------------------------------------------------------------------------
(* The sidecar.                                                            *)

hostSide == <<host, faults, hostVars, shut, held, history>>

\* Every write end of the control pipe is closed.
PipeClosed == ~held /\ (shut \/ host = "dead")
\* mutant: the sidecar does not watch the host's pidfd.
HostGone_Unwatched ==
  FALSE

HostGone   == host = "dead" /\ sc.hostFd

\* Masks the stop signals (one that came earlier kills it), watches the host,
\* and leaves when its parent is no longer the host.
ScBoot ==
  /\ sc.pc = "boot"
  /\ \/ sig /\ sc' = [sc EXCEPT !.pc = "closed", !.killed = TRUE]
     \/ /\ ~sig
        /\ \E fd \in IF MayFail THEN BOOLEAN ELSE {TRUE} :
             sc' = [sc EXCEPT !.pc = IF host = "dead" THEN "closed" ELSE "poll", !.hostFd = fd]
  /\ UNCHANGED <<hostSide, down, up, child, sig>>

\* Woken by anything but a message: the handshake is abandoned, the loop stops.
Leave == [sc EXCEPT !.pc = IF sc.phase = "loop" THEN "stop" ELSE "closed", !.hdr = NoItem]

NextMsgSignal ==
  /\ sc.pc = "poll" /\ sig
  /\ sc' = Leave
  /\ sig' = FALSE
  /\ UNCHANGED <<hostSide, down, up, child>>

NextMsgHostExited ==
  /\ sc.pc = "poll" /\ ~sig /\ HostGone
  /\ sc' = Leave
  /\ UNCHANGED <<hostSide, down, up, child, sig>>

NextMsgEof ==
  /\ down = <<>> /\ PipeClosed
  /\ \/ sc.pc = "poll" /\ ~sig /\ ~HostGone
     \/ sc.pc = "body"
  /\ sc' = Leave
  /\ UNCHANGED <<hostSide, down, up, child, sig>>

\* mutant: only one of the two kinds of call reaches the probes.
Tracked_NoRemove(m) ==
  IF m.type = "ADD" THEN sc.tracked \cup {m.pid} ELSE sc.tracked

\* The probes' tracked set after a message, and whether it is answered here.
Tracked(m) == CASE m.type = "ADD"    -> sc.tracked \cup {m.pid}
                [] m.type = "REMOVE" -> sc.tracked \ {m.pid}
                [] OTHER             -> sc.tracked

\* mutant: MSG_HOST_REAPER is taken and not answered.
Answered_NotReaper ==
  {"ADD", "REMOVE"}

Answered == {"ADD", "REMOVE", "REAPER"}

SendStatus(code, item) == up' = Append(up, Status(code, item))

\* Control: what the sidecar does with a whole message, by phase.  A refusal is
\* a status and exit(1).
Refuse(code, item) ==
  /\ SendStatus(code, item)
  /\ sc' = [sc EXCEPT !.pc = "closed"]

Config(item) ==
  /\ sc.phase = "config"
  /\ \/ /\ item.msg.type = "CONFIG"
        /\ \/ /\ SendStatus("Ok", item)
              /\ sc' = [sc EXCEPT !.pc = "poll", !.hdr = NoItem, !.phase = "start"]
           \/ MayFail /\ Refuse("Refused", item)
     \/ item.msg.type # "CONFIG" /\ Refuse("BadHandshake", item)

Begin(item) ==
  /\ sc.phase = "start"
  /\ \/ /\ item.msg.type = "START"
        /\ \/ /\ SendStatus("Ok", item)
              /\ sc' = [sc EXCEPT !.pc = "poll", !.hdr = NoItem, !.phase = "loop", !.probes = TRUE]
           \/ MayFail /\ Refuse("Refused", item)
     \/ item.msg.type # "START" /\ Refuse("BadHandshake", item)

Loop(item) ==
  /\ sc.phase = "loop"
  /\ IF item.msg.type = "STOP"
     THEN /\ sc' = [sc EXCEPT !.pc = "stop", !.ack = TRUE, !.hdr = item]
          /\ UNCHANGED up
     ELSE /\ sc' = [sc EXCEPT !.pc = "poll", !.hdr = NoItem, !.tracked = Tracked(item.msg),
                              !.told = IF item.msg.type = "REAPER" THEN TRUE ELSE @]
          /\ IF item.msg.type \in Answered THEN SendStatus("Ok", item) ELSE UNCHANGED up

Handle(item) == Config(item) \/ Begin(item) \/ Loop(item)

\* A message without a payload, or the header of one with.
NextMsg ==
  /\ sc.pc = "poll" /\ ~sig /\ ~HostGone /\ down # <<>>
  /\ down' = Tail(down)
  /\ IF Head(down).msg.type \in HasPayload
     THEN sc' = [sc EXCEPT !.pc = "body", !.hdr = Head(down)] /\ UNCHANGED up
     ELSE Handle(Head(down))
  /\ UNCHANGED <<hostSide, child, sig>>

\* The payload is read without watching for anything else.
ReadBody ==
  /\ sc.pc = "body" /\ down # <<>>
  /\ down' = Tail(down)
  /\ Handle(sc.hdr)
  /\ UNCHANGED <<hostSide, child, sig>>

\* Teardown: the probes stop (last flush), then MSG_STOP is answered.
StopProbes ==
  /\ sc.pc = "stop"
  /\ sc' = [sc EXCEPT !.pc = "bye", !.flushed = TRUE]
  /\ UNCHANGED <<hostSide, down, up, child, sig>>

Bye ==
  /\ sc.pc = "bye"
  /\ sc' = [sc EXCEPT !.pc = "closed"]
  /\ IF sc.ack THEN SendStatus("Ok", sc.hdr) ELSE UNCHANGED up
  /\ UNCHANGED <<hostSide, down, child, sig>>

\* The kernel closes the descriptors, then leaves a zombie to its parent.
Exit ==
  /\ sc.pc = "closed"
  /\ sc' = [sc EXCEPT !.pc = "gone", !.tracked = {}, !.hdr = NoItem]
  /\ child' = IF host = "up" THEN "zombie" ELSE "reaped"
  /\ down' = <<>> /\ sig' = FALSE
  /\ UNCHANGED <<hostSide, up>>

----------------------------------------------------------------------------
(* What may happen around them.                                            *)

ScAlive == sc.pc \in {"boot", "poll", "body", "stop", "bye"}

Fault == faults < MaxFaults /\ faults' = faults + 1
Unhurt == <<host, hostVars, shut, held, history>>

HostDies ==
  /\ Fault
  /\ host = "up" /\ pc[Owner] # "new"
  /\ host' = "dead"
  /\ child' = IF child = "zombie" THEN "reaped" ELSE child
  /\ pc' = [t \in Threads |-> "dead"]               \* and its memory with it
  /\ call' = [t \in Threads |-> Msg("CONFIG", NoPid)]
  /\ answer' = [t \in Threads |-> "Ok"]
  /\ mutex' = Free /\ local' = {} /\ handle' = "none" /\ up' = <<>>
  /\ raced' = {} /\ calls' = 0
  /\ subreaper' = FALSE /\ reaperSent' = FALSE /\ stopSent' = FALSE /\ shut' = FALSE
  /\ crossed' = FALSE /\ stopWritten' = FALSE
  /\ held' \in BOOLEAN
  /\ UNCHANGED <<down, sc, sig>>

\* A stop signal from outside: a terminal's Ctrl-C, an operator, a batch system.
Terminate ==
  /\ ScAlive /\ ~sig /\ Fault
  /\ sig' = TRUE
  /\ UNCHANGED <<Unhurt, down, up, sc, child>>

\* SIGKILL, or a crash whose handler does not get to flush.
Kill ==
  /\ ScAlive /\ Fault
  /\ sc' = [sc EXCEPT !.pc = "closed", !.killed = TRUE]
  /\ UNCHANGED <<Unhurt, down, up, child, sig>>

EnableChildSubreaper ==
  /\ host = "up" /\ ~subreaper /\ pc[Owner] \in {"configured", "running"}
  /\ subreaper' = TRUE
  /\ UNCHANGED <<host, faults, pc, call, answer, mutex, handle, local, reaperSent, stopSent, calls,
                 pipes, held, sc, child, sig, history>>

----------------------------------------------------------------------------
OwnerStep ==
  \/ Configure \/ Configured \/ Start \/ StartAnswered \/ StopSignalled \/ Teardown \/ StopAcked
  \/ Reset \/ WaitChild
  \/ SyncHostReaper(Owner, "running") \/ ReaperTold(Owner, "running")

CallStep(t) ==
  \/ FanOutAdd(t) \/ EndCall(t)
  \/ SyncHostReaper(t, "fan") \/ ReaperTold(t, "fan")

Exchange(t) == WriteHeader(t) \/ WriteBody(t) \/ ReadStatus(t)

SidecarStep ==
  \/ ScBoot \/ NextMsgSignal \/ NextMsgHostExited \/ NextMsgEof \/ NextMsg \/ ReadBody
  \/ StopProbes \/ Bye \/ Exit

\* Whoever can go on eventually does: the threads of both processes.  Nobody has
\* to stop the suite, call into it, die or send a signal.  One weak fairness for
\* all of them is enough, and less than each thread's own: what they do between
\* two of those events is finite.
Progress ==
  \/ OwnerStep \/ SidecarStep
  \/ \E t \in Threads : Exchange(t)
  \/ \E t \in Callers : CallStep(t)

Next ==
  \/ Progress
  \/ Stop
  \/ \E t \in Callers, p \in Pids : AddTrackedProcess(t, p) \/ RemoveTrackedProcess(t, p)
  \/ HostDies \/ Terminate \/ Kill \/ EnableChildSubreaper

Spec == Init /\ [][Next]_vars /\ WF_vars(Progress)

----------------------------------------------------------------------------
(* Safety.                                                                 *)

\* Until MSG_STOP is written every thread is answered about its own message
\* (send_mutex_ spans write and read).  Afterwards it is not so: see NoUseAfterReset.
AnswersMatchBeforeStop == crossed => stopWritten

\* When nobody is in a call and nothing is in the pipe, the sidecar's probes track
\* what the host's do, whatever the order of calls, unless two calls about the
\* same PID ran at once; and they know of a reaper the suite notes as told to them.
ProbesAgree ==
  (handle = "live" /\ sc.pc = "poll" /\ sc.phase = "loop" /\ down = <<>>
     /\ host = "up" /\ \A t \in Callers : pc[t] = "idle")
  => /\ sc.tracked \ raced = local \ raced
     /\ reaperSent => sc.told

\* The PID the handle keeps is the sidecar's: it is never signalled or waited
\* for once reaped, when the number may be another process's.
KeepsItsChild == host = "up" /\ handle = "live" => child # "reaped"

\* Once Stop() is over the sidecar is reaped, and what it recorded is in its
\* files unless it was killed: a signal, a failed write or a stolen answer on
\* the way does not cut its last flush short.
StopIsComplete ==
  (host = "up" /\ pc[Owner] = "stopped" /\ child # "none")
  => child = "reaped" /\ (sc.probes /\ ~sc.killed => sc.flushed)

\* profiler_suite.h says of AddTrackedProcess, RemoveTrackedProcess and Stop
\* "Thread-safe".
NoUseAfterReset == \A t \in Threads : pc[t] # "undefined"

----------------------------------------------------------------------------
(* Liveness.                                                               *)

\* Exchanges return, whatever becomes of the sidecar during them: with no more calls
\* to come there is a moment when none is left in flight.
EveryCallReturns == (\E t \in Threads : InExchange(t)) ~> (\A t \in Threads : ~InExchange(t))

\* The sidecar does not outlive its host: it sees the control pipe close, or,
\* when a process the host forked holds that pipe open too, the host's pidfd,
\* which it watches except between a header and its payload.
SidecarEnds ==
  (host = "dead" /\ (~held \/ (sc.hostFd /\ sc.pc # "body")))
  ~> sc.pc \in {"none", "gone"}
=============================================================================
