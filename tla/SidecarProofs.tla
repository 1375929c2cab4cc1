--------------------------- MODULE SidecarProofs ---------------------------
(* What the suite and its sidecar keep to, for any number of calling        *)
(* threads, PIDs, calls and faults: who is answered about what, which child *)
(* the handle names, what is flushed when Stop() is over, and that the two  *)
(* processes track the same PIDs.                                           *)
EXTENDS Sidecar, SequenceTheorems, TLAPS

---------------------------------------------------------------------------
(* Types.                                                                  *)

Msgs     == [type : Types, pid : Pids \cup {NoPid}]
Items    == [part : {"none", "header", "payload"}, msg : Msgs, from : Threads]
Statuses == [code : {"Ok", "BadHandshake", "Refused"}, msg : Msgs, to : Threads]
ScStates == [pc : {"none", "boot", "poll", "body", "stop", "bye", "closed", "gone"},
             phase : {"config", "start", "loop"}, hdr : Items, ack : BOOLEAN,
             tracked : SUBSET (Pids \cup {NoPid}), told : BOOLEAN, probes : BOOLEAN, flushed : BOOLEAN, hostFd : BOOLEAN, killed : BOOLEAN]

Where == {"new", "send", "body", "answer", "back", "configured", "sync", "running", "teardown", "join",
          "reset", "wait", "off", "stopped", "idle", "fan", "undefined", "dead"}

ThreadsOK ==
  /\ pc \in [Threads -> Where]
  /\ call \in [Threads -> Msgs]
  /\ answer \in [Threads -> {"Ok", "BadHandshake", "Refused", "Exited"}]
  /\ mutex \in Threads \cup {Free}
  /\ \A t \in Callers :
       /\ pc[t] \in {"idle", "sync", "fan", "send", "body", "answer", "back", "undefined", "dead"}
       /\ pc[t] \in {"sync", "fan", "send", "body", "answer", "back"} => call[t].pid \in Pids
SuiteOK ==
  /\ host \in {"up", "dead"}
  /\ handle \in {"none", "live", "reaped"}
  /\ local \subseteq Pids /\ raced \subseteq Pids
  /\ subreaper \in BOOLEAN /\ reaperSent \in BOOLEAN /\ stopSent \in BOOLEAN /\ shut \in BOOLEAN
  /\ held \in BOOLEAN /\ stopWritten \in BOOLEAN /\ crossed \in BOOLEAN
  /\ calls \in 0..MaxCalls
PipesOK   == down \in Seq(Items) /\ up \in Seq(Statuses)
SidecarOK == sc \in ScStates
KernelOK  == sig \in BOOLEAN /\ child \in {"none", "running", "zombie", "reaped"} /\ faults \in 0..MaxFaults

Typed == ThreadsOK /\ SuiteOK /\ PipesOK /\ SidecarOK /\ KernelOK

LEMMA TypedTypeOK == Typed => TypeOK
<1> SUFFICES ASSUME Typed PROVE TypeOK
  OBVIOUS
<1>1. {subreaper, reaperSent, stopSent, shut, held, sig, stopWritten, crossed} \subseteq BOOLEAN
  BY DEF Typed, SuiteOK, KernelOK
<1>2. sc.pc \in {"none", "boot", "poll", "body", "stop", "bye", "closed", "gone"}
  BY DEF Typed, SidecarOK, ScStates
<1> QED  BY <1>1, <1>2, Zenon DEF Typed, ThreadsOK, SuiteOK, KernelOK, TypeOK, Msgs, Where

\* What a step leaves alone keeps its types.
LEMMA TypedUnchanged ==
  /\ UNCHANGED <<pc, call, answer, mutex>> => (ThreadsOK => ThreadsOK')
  /\ UNCHANGED <<host, handle, local, subreaper, reaperSent, stopSent, shut, held, calls, history>>
       => (SuiteOK => SuiteOK')
  /\ UNCHANGED <<down, up>> => (PipesOK => PipesOK')
  /\ UNCHANGED sc => (SidecarOK => SidecarOK')
  /\ UNCHANGED <<sig, child, faults>> => (KernelOK => KernelOK')
BY DEF ThreadsOK, SuiteOK, PipesOK, SidecarOK, KernelOK, history

LEMMA TypedInit == Init => Typed
<1> SUFFICES ASSUME Init PROVE Typed
  OBVIOUS
<1>1. Msg("CONFIG", NoPid) \in Msgs /\ NoItem \in Items
  BY DEF Msg, Msgs, NoItem, Items, Types, HasPayload, Threads
<1>2. ThreadsOK
  BY <1>1, ThreadsAssumption DEF Init, ThreadsOK, Where, Threads, Owner, Free
<1>0. 0 \in 0..MaxCalls /\ 0 \in 0..MaxFaults
  BY BoundsAssumption
<1>3. SuiteOK
  BY <1>0, Zenon DEF Init, SuiteOK
<1>4. PipesOK
  BY EmptySeq DEF Init, PipesOK
<1>5. SidecarOK
  BY <1>1 DEF Init, SidecarOK, ScStates
<1>6. KernelOK
  BY <1>0, Zenon DEF Init, KernelOK
<1> QED  BY <1>2, <1>3, <1>4, <1>5, <1>6 DEF Typed

\* A message, its parts and its status.
LEMMA MessageTypes ==
  ASSUME Typed
  PROVE  /\ \A type \in Types, p \in Pids \cup {NoPid} : Msg(type, p) \in Msgs
         /\ \A t \in Threads : Item("header", t) \in Items /\ Item("payload", t) \in Items
         /\ \A i \in Items, code \in {"Ok", "BadHandshake", "Refused"} : Status(code, i) \in Statuses
         /\ NoItem \in Items
<1>1. \A t \in Threads : call[t] \in Msgs
  BY DEF Typed, ThreadsOK
<1>2. \A type \in Types, p \in Pids \cup {NoPid} : Msg(type, p) \in Msgs
  BY DEF Msg, Msgs
<1>3. \A t \in Threads : Item("header", t) \in Items /\ Item("payload", t) \in Items
  BY <1>1 DEF Item, Items
<1>4. \A i \in Items, code \in {"Ok", "BadHandshake", "Refused"} : Status(code, i) \in Statuses
  BY DEF Status, Statuses, Items
<1>5. NoItem \in Items
  BY <1>2 DEF NoItem, Items, Types, HasPayload, Threads
<1> QED  BY <1>2, <1>3, <1>4, <1>5

\* A write appends to a pipe, a read takes the first item.
LEMMA PipeTypes ==
  ASSUME Typed
  PROVE  /\ \A i \in Items : Append(down, i) \in Seq(Items)
         /\ \A s \in Statuses : Append(up, s) \in Seq(Statuses)
         /\ down # <<>> => Head(down) \in Items /\ Tail(down) \in Seq(Items)
         /\ up # <<>> => Head(up) \in Statuses /\ Tail(up) \in Seq(Statuses)
         /\ <<>> \in Seq(Items) /\ <<>> \in Seq(Statuses)
BY AppendProperties, HeadTailProperties, EmptySeq DEF Typed, PipesOK

LEMMA ExchangeTypes ==
  ASSUME Typed, NEW t \in Threads, Exchange(t)
  PROVE  Typed'
<1>0. ThreadsOK /\ SuiteOK /\ PipesOK /\ SidecarOK /\ KernelOK
  BY DEF Typed
<1>1. PipesOK'
  BY <1>0, MessageTypes, PipeTypes
     DEF Exchange, WriteHeader, WriteBody, ReadStatus, Put, Broken, PipesOK, pipes
<1>2. ThreadsOK'
  <2>1. up # <<>> => Head(up).code \in {"Ok", "BadHandshake", "Refused", "Exited"}
    BY <1>0, PipeTypes DEF Statuses
  <2> QED
    BY <1>0, <2>1
       DEF Exchange, WriteHeader, WriteBody, ReadStatus, Put, Broken, ThreadsOK, Where, Threads
<1>3. /\ UNCHANGED <<sc, sig, child, faults, host, handle, local, subreaper, reaperSent, stopSent, shut,
                     held, calls, raced>>
      /\ stopWritten' \in BOOLEAN /\ crossed' \in BOOLEAN
  BY <1>0 DEF Exchange, WriteHeader, WriteBody, ReadStatus, SuiteOK, history
<1>4. SuiteOK'
  BY <1>0, <1>3, Zenon DEF SuiteOK
<1> QED  BY <1>0, <1>1, <1>2, <1>3, <1>4, TypedUnchanged DEF Typed

LEMMA HostTypes ==
  ASSUME Typed,
         \/ OwnerStep \/ Stop \/ EnableChildSubreaper
         \/ \E t \in Callers : CallStep(t)
         \/ \E t \in Callers, p \in Pids : AddTrackedProcess(t, p) \/ RemoveTrackedProcess(t, p)
  PROVE  Typed'
<1>0. ThreadsOK /\ SuiteOK /\ PipesOK /\ SidecarOK /\ KernelOK /\ Owner \in Threads /\ Callers \subseteq Threads
  BY DEF Typed, Threads
<1>1. CASE OwnerStep \/ Stop \/ EnableChildSubreaper
  <2>1. UNCHANGED <<down, up, host, local, held, calls, history, sig, faults>> \/ Reset
    BY <1>1 DEF OwnerStep, Stop, EnableChildSubreaper, Configure, Configured, Start, StartAnswered,
         StopSignalled, Teardown, StopAcked, WaitChild, SyncHostReaper, ReaperTold, pipes
  <2>2. SidecarOK'
    <3>1. CASE Configure
      <4>1. sc' = [sc EXCEPT !.pc = "boot"] \/ UNCHANGED sc
        BY <3>1 DEF Configure, Launched
      <4> QED  BY <1>0, <4>1 DEF SidecarOK, ScStates
    <3>2. CASE ~Configure
      <4>1. UNCHANGED sc
        BY <1>1, <3>2
           DEF OwnerStep, Stop, EnableChildSubreaper, Configured, Start, StartAnswered, StopSignalled,
               Teardown, StopAcked, Reset, WaitChild, SyncHostReaper, ReaperTold
      <4> QED  BY <1>0, <4>1 DEF SidecarOK
    <3> QED  BY <3>1, <3>2
  <2>3. ThreadsOK'
    <3>1. \A type \in Types, p \in Pids \cup {NoPid} : Msg(type, p) \in Msgs
      BY MessageTypes
    <3>2. call[Owner].pid \in Pids \cup {NoPid}
      BY <1>0 DEF ThreadsOK, Msgs
    <3>3. Msg("CONFIG", NoPid) \in Msgs /\ Msg("START", NoPid) \in Msgs /\ Msg("STOP", NoPid) \in Msgs
            /\ Msg("JOIN", NoPid) \in Msgs /\ Msg("REAPER", call[Owner].pid) \in Msgs
      BY <3>1, <3>2 DEF Types, HasPayload
    <3>4. CASE Reset
      BY <1>0, <3>4, ThreadsAssumption DEF Reset, ThreadsOK, Where, Threads, InExchange, Owner, Free
    <3>5. CASE ~Reset
      <4>1. /\ UNCHANGED answer
            /\ \E w \in Where : pc' = [pc EXCEPT ![Owner] = w] \/ UNCHANGED pc
            /\ \/ UNCHANGED call
               \/ \E type \in {"CONFIG", "START", "STOP", "JOIN"} :
                    call' = [call EXCEPT ![Owner] = Msg(type, NoPid)]
               \/ call' = [call EXCEPT ![Owner] = Msg("REAPER", call[Owner].pid)]
            /\ mutex' \in {mutex, Owner}
        BY <1>1, <3>5
           DEF OwnerStep, Stop, EnableChildSubreaper, Configure, Configured, Start, StartAnswered,
               StopSignalled, Teardown, StopAcked, WaitChild, SyncHostReaper, ReaperTold, SendNext, Go,
               Launched, Where, AfterReset
      <4>2. Owner \notin Callers
        BY ThreadsAssumption DEF Owner
      <4> QED  BY <1>0, <3>3, <4>1, <4>2 DEF ThreadsOK
    <3> QED  BY <3>4, <3>5
  <2>4. KernelOK'
    <3>1. child' \in {child, "running", "reaped"} /\ sig' \in BOOLEAN /\ UNCHANGED faults
      BY <1>0, <1>1
         DEF OwnerStep, Stop, EnableChildSubreaper, Configure, Configured, Start, StartAnswered,
             StopSignalled, Teardown, StopAcked, Reset, WaitChild, SyncHostReaper, ReaperTold, Launched,
             DescribeExit, KernelOK
    <3> QED  BY <1>0, <3>1 DEF KernelOK
  <2>5. SuiteOK' /\ PipesOK'
    <3>1. UNCHANGED <<down, up, host, local, held, calls, history>>
      BY <2>1 DEF Reset
    <3>2. handle' \in {handle, "none", "live", "reaped"}
      BY <1>1
         DEF OwnerStep, Stop, EnableChildSubreaper, Configure, Configured, Start, StartAnswered,
             StopSignalled, Teardown, StopAcked, Reset, WaitChild, SyncHostReaper, ReaperTold, Launched,
             DescribeExit
    <3>3. subreaper' \in BOOLEAN /\ reaperSent' \in BOOLEAN /\ stopSent' \in BOOLEAN /\ shut' \in BOOLEAN
      BY <1>0, <1>1
         DEF OwnerStep, Stop, EnableChildSubreaper, Configure, Configured, Start, StartAnswered,
             StopSignalled, Teardown, StopAcked, Reset, WaitChild, SyncHostReaper, ReaperTold, pipes,
             SuiteOK
    <3>4. SuiteOK'
      BY <1>0, <3>1, <3>2, <3>3, Zenon DEF SuiteOK, history
    <3> QED  BY <1>0, <3>1, <3>4, TypedUnchanged
  <2> QED  BY <2>2, <2>3, <2>4, <2>5 DEF Typed
<1>2. CASE \E t \in Callers : CallStep(t)
  <2>1. PICK t \in Callers : CallStep(t)
    BY <1>2
  <2>2. UNCHANGED <<down, up, host, handle, subreaper, stopSent, shut, held, calls, history, sc, sig, child,
                    faults, mutex>>
    BY <2>1 DEF CallStep, FanOutAdd, EndCall, SyncHostReaper, ReaperTold, pipes
  <2>3. local' \subseteq Pids
    <3>1. CASE FanOutAdd(t)
      <4>1. call[t].pid \in Pids
        BY <1>0, <3>1 DEF FanOutAdd, ThreadsOK
      <4> QED  BY <1>0, <3>1, <4>1 DEF FanOutAdd, SuiteOK
    <3>2. CASE ~FanOutAdd(t)
      BY <1>0, <2>1, <3>2 DEF CallStep, EndCall, SyncHostReaper, ReaperTold, SuiteOK
    <3> QED  BY <3>1, <3>2
  <2>4. SuiteOK'
    <3>1. reaperSent' \in BOOLEAN
      BY <1>0, <2>1 DEF CallStep, FanOutAdd, EndCall, SyncHostReaper, ReaperTold, SuiteOK
    <3> QED  BY <1>0, <2>2, <2>3, <3>1, Zenon DEF SuiteOK, history
  <2>5. ThreadsOK'
    <3>1. call[t] \in Msgs /\ call[t].pid \in Pids \cup {NoPid}
      BY <1>0 DEF ThreadsOK, Msgs
    <3>2. Msg("CONFIG", NoPid) \in Msgs /\ Msg("REAPER", call[t].pid) \in Msgs
            /\ Msg("REAPER", call[t].pid).pid = call[t].pid
      BY <3>1, MessageTypes DEF Types, HasPayload, Msg
    <3>3. [call[t] EXCEPT !.type = "ADD"] \in Msgs /\ [call[t] EXCEPT !.type = "ADD"].pid = call[t].pid
      BY <3>1 DEF Msgs, Types, HasPayload
    <3>4. CASE EndCall(t)
      BY <1>0, <2>2, <3>2, <3>4 DEF EndCall, Go, ThreadsOK, Where
    <3>5. CASE FanOutAdd(t)
      <4>1. call' = [call EXCEPT ![t] = [call[t] EXCEPT !.type = "ADD"]]
        BY <3>5 DEF FanOutAdd
      <4>2. pc[t] = "fan" /\ UNCHANGED answer /\ \E w \in {"idle", "send"} : pc' = [pc EXCEPT ![t] = w]
        BY <3>5 DEF FanOutAdd, Forward, Go
      <4> QED  BY <1>0, <2>2, <3>3, <4>1, <4>2 DEF ThreadsOK, Where
    <3>6. CASE SyncHostReaper(t, "fan") \/ ReaperTold(t, "fan")
      <4>1. /\ pc[t] \in {"sync", "back"} /\ UNCHANGED answer
            /\ \E w \in {"fan", "send"} : pc' = [pc EXCEPT ![t] = w]
            /\ UNCHANGED call \/ call' = [call EXCEPT ![t] = Msg("REAPER", call[t].pid)]
        BY <3>6 DEF SyncHostReaper, ReaperTold, SendNext, Go, Back
      <4> QED  BY <1>0, <2>2, <3>2, <4>1 DEF ThreadsOK, Where
    <3> QED  BY <2>1, <3>4, <3>5, <3>6 DEF CallStep
  <2> QED  BY <1>0, <2>2, <2>4, <2>5, TypedUnchanged DEF Typed
<1>3. CASE \E t \in Callers, p \in Pids : AddTrackedProcess(t, p) \/ RemoveTrackedProcess(t, p)
  <2>1. PICK t \in Callers, p \in Pids : AddTrackedProcess(t, p) \/ RemoveTrackedProcess(t, p)
    BY <1>3
  <2>2. /\ UNCHANGED <<down, up, host, handle, subreaper, reaperSent, stopSent, shut, held, stopWritten, crossed,
                       sc, sig, child, faults, answer, mutex>>
        /\ local' \subseteq Pids /\ raced' \subseteq Pids /\ calls < MaxCalls /\ calls' = calls + 1
    BY <1>0, <2>1 DEF AddTrackedProcess, RemoveTrackedProcess, BeginCall, pipes, SuiteOK
  <2>3. calls' \in 0..MaxCalls
    BY <1>0, <2>2, BoundsAssumption DEF SuiteOK
  <2>4. SuiteOK'
    BY <1>0, <2>2, <2>3, Zenon DEF SuiteOK
  <2>5. ThreadsOK'
    <3>1. Msg("ADD", p) \in Msgs /\ Msg("REMOVE", p) \in Msgs /\ Msg("ADD", p).pid = p /\ Msg("REMOVE", p).pid = p
      BY MessageTypes DEF Types, HasPayload, Msg
    <3>2. /\ \E w \in {"sync", "idle", "send"} : pc' = [pc EXCEPT ![t] = w]
          /\ \E type \in {"ADD", "REMOVE"} : call' = [call EXCEPT ![t] = Msg(type, p)]
      BY <2>1 DEF AddTrackedProcess, RemoveTrackedProcess, BeginCall, Forward, Go
    <3> QED  BY <1>0, <2>2, <3>1, <3>2 DEF ThreadsOK, Where
  <2> QED  BY <1>0, <2>2, <2>4, <2>5, TypedUnchanged DEF Typed
<1> QED  BY <1>1, <1>2, <1>3

\* What the sidecar does with a message is one of these; item is the message or
\* its header.
LEMMA HandleCases ==
  ASSUME Typed, NEW item \in Items, Handle(item)
  PROVE  /\ sc' \in ScStates /\ up' \in Seq(Statuses)
         /\ UNCHANGED <<sc.killed, sc.flushed>>
         /\ \/ /\ sc.phase = "config" /\ item.msg.type = "CONFIG" /\ up' = Append(up, Status("Ok", item))
               /\ sc'.pc = "poll" /\ sc'.phase = "start"
               /\ UNCHANGED <<sc.tracked, sc.told, sc.probes, sc.ack>>
            \/ /\ sc.phase = "start" /\ item.msg.type = "START" /\ up' = Append(up, Status("Ok", item))
               /\ sc'.pc = "poll" /\ sc'.phase = "loop" /\ sc'.probes = TRUE
               /\ UNCHANGED <<sc.tracked, sc.told, sc.ack>>
            \/ /\ sc.phase \in {"config", "start"} /\ sc'.pc = "closed"
               /\ \E code \in {"Refused", "BadHandshake"} : up' = Append(up, Status(code, item))
               /\ UNCHANGED <<sc.phase, sc.tracked, sc.told, sc.probes, sc.ack>>
            \/ /\ sc.phase = "loop" /\ item.msg.type = "STOP" /\ UNCHANGED up
               /\ sc'.pc = "stop" /\ sc'.ack = TRUE
               /\ UNCHANGED <<sc.phase, sc.tracked, sc.told, sc.probes>>
            \/ /\ sc.phase = "loop" /\ item.msg.type # "STOP"
               /\ sc'.pc = "poll" /\ sc'.tracked = Tracked(item.msg)
               /\ (item.msg.type = "REAPER" \/ sc.told) => sc'.told
               /\ UNCHANGED <<sc.phase, sc.probes, sc.ack>>
               /\ IF item.msg.type \in Answered THEN up' = Append(up, Status("Ok", item)) ELSE UNCHANGED up
<1>1. NoItem \in Items /\ sc \in ScStates /\ up \in Seq(Statuses)
  BY MessageTypes DEF Typed, SidecarOK, PipesOK
<1>2. \A code \in {"Ok", "Refused", "BadHandshake"} : Append(up, Status(code, item)) \in Seq(Statuses)
  BY MessageTypes, PipeTypes
<1>3. Tracked(item.msg) \in SUBSET (Pids \cup {NoPid})
  BY <1>1 DEF Tracked, ScStates, Items, Msgs
<1>4. CASE Config(item)
  <2>1. \/ /\ item.msg.type = "CONFIG" /\ up' = Append(up, Status("Ok", item))
           /\ sc' = [sc EXCEPT !.pc = "poll", !.hdr = NoItem, !.phase = "start"]
        \/ /\ \E code \in {"Refused", "BadHandshake"} : up' = Append(up, Status(code, item))
           /\ sc' = [sc EXCEPT !.pc = "closed"]
    BY <1>4 DEF Config, Refuse, SendStatus
  <2>2. sc.phase = "config"
    BY <1>4 DEF Config
  <2>3. /\ sc' \in ScStates /\ UNCHANGED <<sc.killed, sc.flushed, sc.tracked, sc.told, sc.probes, sc.ack>>
        /\ sc' = [sc EXCEPT !.pc = "closed"] => sc'.pc = "closed" /\ UNCHANGED sc.phase
        /\ sc' = [sc EXCEPT !.pc = "poll", !.hdr = NoItem, !.phase = "start"]
             => sc'.pc = "poll" /\ sc'.phase = "start"
    BY <1>1, <2>1 DEF ScStates
  <2>4. up' \in Seq(Statuses)
    BY <1>2, <2>1
  <2> QED  BY <2>1, <2>2, <2>3, <2>4, Zenon
<1>5. CASE Begin(item)
  <2>1. \/ /\ item.msg.type = "START" /\ up' = Append(up, Status("Ok", item))
           /\ sc' = [sc EXCEPT !.pc = "poll", !.hdr = NoItem, !.phase = "loop", !.probes = TRUE]
        \/ /\ \E code \in {"Refused", "BadHandshake"} : up' = Append(up, Status(code, item))
           /\ sc' = [sc EXCEPT !.pc = "closed"]
    BY <1>5 DEF Begin, Refuse, SendStatus
  <2>2. sc.phase = "start"
    BY <1>5 DEF Begin
  <2>3. /\ sc' \in ScStates /\ UNCHANGED <<sc.killed, sc.flushed, sc.tracked, sc.told, sc.ack>>
        /\ sc' = [sc EXCEPT !.pc = "closed"] => sc'.pc = "closed" /\ UNCHANGED <<sc.phase, sc.probes>>
        /\ sc' = [sc EXCEPT !.pc = "poll", !.hdr = NoItem, !.phase = "loop", !.probes = TRUE]
             => sc'.pc = "poll" /\ sc'.phase = "loop" /\ sc'.probes = TRUE
    BY <1>1, <2>1 DEF ScStates
  <2>4. up' \in Seq(Statuses)
    BY <1>2, <2>1
  <2> QED  BY <2>1, <2>2, <2>3, <2>4, Zenon
<1>6. CASE Loop(item) /\ item.msg.type = "STOP"
  <2>1. sc' = [sc EXCEPT !.pc = "stop", !.ack = TRUE, !.hdr = item] /\ UNCHANGED up
    BY <1>6 DEF Loop
  <2> QED  BY <1>1, <1>6, <2>1 DEF Loop, ScStates
<1>7. CASE Loop(item) /\ item.msg.type # "STOP"
  <2>1. \E B \in BOOLEAN :
          /\ (item.msg.type = "REAPER" \/ sc.told) => B
          /\ sc' = [sc EXCEPT !.pc = "poll", !.hdr = NoItem, !.tracked = Tracked(item.msg), !.told = B]
    BY <1>1, <1>7 DEF Loop, ScStates
  <2>2. IF item.msg.type \in Answered THEN up' = Append(up, Status("Ok", item)) ELSE UNCHANGED up
    BY <1>7 DEF Loop, SendStatus
  <2>3. up' \in Seq(Statuses)
    BY <1>1, <1>2, <2>2
  <2>4. /\ sc' \in ScStates /\ UNCHANGED <<sc.killed, sc.flushed, sc.phase, sc.probes, sc.ack>>
        /\ sc'.pc = "poll" /\ sc'.tracked = Tracked(item.msg)
        /\ (item.msg.type = "REAPER" \/ sc.told) => sc'.told
    BY <1>1, <1>3, <2>1 DEF ScStates
  <2>5. sc.phase = "loop"
    BY <1>7 DEF Loop
  <2> QED  BY <1>7, <2>2, <2>3, <2>4, <2>5, Zenon
<1> QED  BY <1>4, <1>5, <1>6, <1>7 DEF Handle

LEMMA SidecarTypes ==
  ASSUME Typed, SidecarStep
  PROVE  Typed'
<1>0. ThreadsOK /\ SuiteOK /\ PipesOK /\ SidecarOK /\ KernelOK /\ sc \in ScStates /\ NoItem \in Items
  BY MessageTypes DEF Typed, SidecarOK
<1>1. UNCHANGED hostSide
  BY DEF SidecarStep, ScBoot, NextMsgSignal, NextMsgHostExited, NextMsgEof, NextMsg, ReadBody, StopProbes,
         Bye, Exit
<1>2. ThreadsOK' /\ SuiteOK'
  BY <1>0, <1>1, TypedUnchanged DEF hostSide, hostVars, history
<1>3. KernelOK'
  <2>1. sig' \in BOOLEAN /\ child' \in {"none", "running", "zombie", "reaped"} /\ UNCHANGED faults
    BY <1>0, <1>1
       DEF SidecarStep, ScBoot, NextMsgSignal, NextMsgHostExited, NextMsgEof, NextMsg, ReadBody, StopProbes,
           Bye, Exit, hostSide, KernelOK
  <2> QED  BY <1>0, <2>1 DEF KernelOK
<1>4. CASE NextMsg \/ ReadBody
  <2>1. down # <<>> /\ down' = Tail(down) /\ Head(down) \in Items /\ Tail(down) \in Seq(Items)
    BY <1>4, PipeTypes DEF NextMsg, ReadBody
  <2>2. CASE Handle(Head(down)) \/ Handle(sc.hdr)
    <3>1. sc.hdr \in Items
      BY <1>0 DEF ScStates
    <3>2. sc' \in ScStates /\ up' \in Seq(Statuses)
      BY <2>1, <2>2, <3>1, HandleCases
    <3> QED  BY <1>2, <1>3, <2>1, <3>2 DEF Typed, PipesOK, SidecarOK
  <2>3. CASE sc' = [sc EXCEPT !.pc = "body", !.hdr = Head(down)] /\ UNCHANGED up
    <3>1. sc' \in ScStates
      BY <1>0, <2>1, <2>3 DEF ScStates
    <3> QED  BY <1>0, <1>2, <1>3, <2>1, <2>3, <3>1 DEF Typed, PipesOK, SidecarOK
  <2> QED  BY <1>4, <2>2, <2>3 DEF NextMsg, ReadBody
<1>5. CASE ~(NextMsg \/ ReadBody)
  <2>1. down' \in {down, <<>>}
    BY <1>5 DEF SidecarStep, ScBoot, NextMsgSignal, NextMsgHostExited, NextMsgEof, StopProbes, Bye, Exit
  <2>2. up' \in {up, Append(up, Status("Ok", sc.hdr))}
    BY <1>5 DEF SidecarStep, ScBoot, NextMsgSignal, NextMsgHostExited, NextMsgEof, StopProbes, Bye, Exit,
                SendStatus
  <2>3. PipesOK'
    <3>1. sc.hdr \in Items
      BY <1>0 DEF ScStates
    <3> QED  BY <1>0, <2>1, <2>2, <3>1, MessageTypes, PipeTypes DEF PipesOK
  <2>4. SidecarOK'
    <3>1. CASE ScBoot
      <4>1. \/ sc' = [sc EXCEPT !.pc = "closed", !.killed = TRUE]
            \/ \E fd \in BOOLEAN, w \in {"closed", "poll"} : sc' = [sc EXCEPT !.pc = w, !.hostFd = fd]
        BY <3>1 DEF ScBoot
      <4> QED  BY <1>0, <4>1 DEF SidecarOK, ScStates
    <3>2. CASE NextMsgSignal \/ NextMsgHostExited \/ NextMsgEof
      <4>1. \E w \in {"stop", "closed"} : sc' = [sc EXCEPT !.pc = w, !.hdr = NoItem]
        BY <3>2 DEF NextMsgSignal, NextMsgHostExited, NextMsgEof, Leave
      <4> QED  BY <1>0, <4>1 DEF SidecarOK, ScStates
    <3>3. CASE StopProbes
      <4>1. sc' = [sc EXCEPT !.pc = "bye", !.flushed = TRUE]
        BY <3>3 DEF StopProbes
      <4> QED  BY <1>0, <4>1 DEF SidecarOK, ScStates
    <3>4. CASE Bye
      <4>1. sc' = [sc EXCEPT !.pc = "closed"]
        BY <3>4 DEF Bye
      <4> QED  BY <1>0, <4>1 DEF SidecarOK, ScStates
    <3>5. CASE Exit
      <4>1. sc' = [sc EXCEPT !.pc = "gone", !.tracked = {}, !.hdr = NoItem]
        BY <3>5 DEF Exit
      <4> QED  BY <1>0, <4>1 DEF SidecarOK, ScStates
    <3> QED  BY <1>5, <3>1, <3>2, <3>3, <3>4, <3>5 DEF SidecarStep
  <2> QED  BY <1>2, <1>3, <2>3, <2>4 DEF Typed
<1> QED  BY <1>4, <1>5

LEMMA FaultTypes ==
  ASSUME Typed, HostDies \/ Terminate \/ Kill
  PROVE  Typed'
<1>0. ThreadsOK /\ SuiteOK /\ PipesOK /\ SidecarOK /\ KernelOK /\ Callers \subseteq Threads
  BY DEF Typed, Threads
<1>1. faults' \in 0..MaxFaults
  <2>1. faults < MaxFaults /\ faults' = faults + 1 /\ faults \in 0..MaxFaults
    BY <1>0 DEF HostDies, Terminate, Kill, Fault, KernelOK
  <2> QED  BY <2>1, BoundsAssumption
<1>2. sig' \in BOOLEAN /\ child' \in {"none", "running", "zombie", "reaped"}
  BY <1>0 DEF HostDies, Terminate, Kill, KernelOK
<1>3. KernelOK'
  BY <1>1, <1>2 DEF KernelOK
<1>4. CASE HostDies
  <2>1. UNCHANGED <<down, sc>> /\ up' = <<>>
    BY <1>4 DEF HostDies
  <2>2. PipesOK' /\ SidecarOK'
    BY <1>0, <2>1, PipeTypes DEF PipesOK, SidecarOK
  <2>3. ThreadsOK'
    <3>1. Msg("CONFIG", NoPid) \in Msgs
      BY MessageTypes DEF Types, HasPayload
    <3>2. /\ pc' = [t \in Threads |-> "dead"] /\ call' = [t \in Threads |-> Msg("CONFIG", NoPid)]
          /\ answer' = [t \in Threads |-> "Ok"] /\ mutex' = Free
      BY <1>4 DEF HostDies
    <3> QED  BY <1>0, <3>1, <3>2 DEF ThreadsOK, Where
  <2>4. SuiteOK'
    <3>1. 0 \in 0..MaxCalls
      BY BoundsAssumption
    <3> QED  BY <1>4, <3>1, Zenon DEF HostDies, SuiteOK
  <2> QED  BY <1>3, <2>2, <2>3, <2>4 DEF Typed
<1>5. CASE Terminate \/ Kill
  <2>1. UNCHANGED Unhurt /\ UNCHANGED <<down, up>>
    BY <1>5 DEF Terminate, Kill
  <2>2. UNCHANGED sc \/ sc' = [sc EXCEPT !.pc = "closed", !.killed = TRUE]
    BY <1>5 DEF Terminate, Kill
  <2>3. SidecarOK'
    BY <1>0, <2>2 DEF SidecarOK, ScStates
  <2>4. ThreadsOK' /\ SuiteOK' /\ PipesOK'
    BY <1>0, <2>1, TypedUnchanged DEF Unhurt, hostVars, history
  <2> QED  BY <1>3, <2>3, <2>4 DEF Typed
<1> QED  BY <1>4, <1>5

\* The steps of Next, by who takes them.
LEMMA Steps ==
  ASSUME [Next]_vars
  PROVE  \/ OwnerStep \/ Stop \/ EnableChildSubreaper
         \/ \E t \in Callers : CallStep(t)
         \/ \E t \in Callers, p \in Pids : AddTrackedProcess(t, p) \/ RemoveTrackedProcess(t, p)
         \/ \E t \in Threads : Exchange(t)
         \/ SidecarStep
         \/ HostDies \/ Terminate \/ Kill
         \/ UNCHANGED vars
BY DEF Next, Progress

LEMMA TypedStep == Typed /\ [Next]_vars => Typed'
<1> SUFFICES ASSUME Typed, [Next]_vars PROVE Typed'
  OBVIOUS
<1>1. CASE UNCHANGED vars
  BY <1>1, TypedUnchanged DEF Typed, vars, hostVars, pipes, history
<1> QED  BY <1>1, Steps, HostTypes, ExchangeTypes, SidecarTypes, FaultTypes

LEMMA AlwaysTyped == Spec => []Typed
BY TypedInit, TypedStep, PTL DEF Spec

\* The variables keep their types.
THEOREM TypeCorrect == Spec => []TypeOK
BY AlwaysTyped, TypedTypeOK, PTL

---------------------------------------------------------------------------
(* How the sidecar's state may move.                                       *)

SidecarKeeps == UNCHANGED <<sc.phase, sc.ack, sc.tracked, sc.told, sc.probes>>

Boots   == /\ sc.pc = "boot" /\ sc'.pc \in {"closed", "poll"} /\ SidecarKeeps
           /\ sc'.flushed = sc.flushed /\ (sc.killed => sc'.killed)
           /\ UNCHANGED <<down, up, child>>
Leaves  == /\ sc.pc \in {"poll", "body"} /\ sc'.pc = (IF sc.phase = "loop" THEN "stop" ELSE "closed")
           /\ SidecarKeeps /\ UNCHANGED <<sc.flushed, sc.killed, down, up, child>>
           /\ sc.pc = "body" => down = <<>> /\ PipeClosed
Header  == /\ sc.pc = "poll" /\ down # <<>> /\ down' = Tail(down) /\ Head(down).msg.type \in HasPayload
           /\ sc'.pc = "body" /\ sc'.hdr = Head(down) /\ SidecarKeeps
           /\ UNCHANGED <<sc.flushed, sc.killed, up, child>>
Message(item) ==
           /\ down # <<>> /\ down' = Tail(down) /\ Handle(item) /\ UNCHANGED child
           /\ \/ sc.pc = "poll" /\ item = Head(down) /\ item.msg.type \notin HasPayload
              \/ sc.pc = "body" /\ item = sc.hdr
Flushes == /\ sc.pc = "stop" /\ sc'.pc = "bye" /\ sc'.flushed = TRUE
           /\ SidecarKeeps /\ UNCHANGED <<sc.killed, down, up, child>>
Answers == /\ sc.pc = "bye" /\ sc'.pc = "closed" /\ SidecarKeeps /\ UNCHANGED <<sc.killed, sc.flushed, down, child>>
           /\ up' = IF sc.ack THEN Append(up, Status("Ok", sc.hdr)) ELSE up
Exits   == /\ sc.pc = "closed" /\ sc'.pc = "gone" /\ down' = <<>> /\ UNCHANGED up
           /\ child' = (IF host = "up" THEN "zombie" ELSE "reaped") /\ sc'.tracked = {}
           /\ UNCHANGED <<sc.phase, sc.ack, sc.told, sc.probes, sc.killed, sc.flushed>>
Killed  == /\ ScAlive /\ sc'.pc = "closed" /\ sc'.killed = TRUE /\ SidecarKeeps
           /\ UNCHANGED <<sc.flushed, down, up, child>>

LEMMA SidecarMoves ==
  ASSUME Typed, SidecarStep
  PROVE  /\ UNCHANGED hostSide
         /\ \/ Boots \/ Leaves \/ Header \/ Flushes \/ Answers \/ Exits
            \/ \E item \in Items : Message(item)

<1>0. sc \in ScStates /\ NoItem \in Items
  BY MessageTypes DEF Typed, SidecarOK
<1>1. UNCHANGED hostSide
  BY DEF SidecarStep, ScBoot, NextMsgSignal, NextMsgHostExited, NextMsgEof, NextMsg, ReadBody, StopProbes,
         Bye, Exit
<1>2. CASE ScBoot
  <2>1. \/ sc' = [sc EXCEPT !.pc = "closed", !.killed = TRUE]
        \/ \E fd \in BOOLEAN, w \in {"closed", "poll"} : sc' = [sc EXCEPT !.pc = w, !.hostFd = fd]
    BY <1>2 DEF ScBoot
  <2> QED  BY <1>0, <1>1, <1>2, <2>1 DEF ScBoot, ScStates, Boots, SidecarKeeps
<1>3. CASE NextMsgSignal \/ NextMsgHostExited \/ NextMsgEof
  <2>1. sc' = [sc EXCEPT !.pc = IF sc.phase = "loop" THEN "stop" ELSE "closed", !.hdr = NoItem]
    BY <1>3 DEF NextMsgSignal, NextMsgHostExited, NextMsgEof, Leave
  <2>2. UNCHANGED <<down, up, child>> /\ sc.pc \in {"poll", "body"} /\ (sc.pc = "body" => down = <<>> /\ PipeClosed)
    BY <1>3 DEF NextMsgSignal, NextMsgHostExited, NextMsgEof
  <2> QED  BY <1>0, <1>1, <2>1, <2>2 DEF ScStates, Leaves, SidecarKeeps
<1>4. CASE NextMsg /\ Head(down).msg.type \in HasPayload
  <2>1. sc' = [sc EXCEPT !.pc = "body", !.hdr = Head(down)] /\ UNCHANGED <<up, child>>
    BY <1>4 DEF NextMsg
  <2>2. sc.pc = "poll" /\ down # <<>> /\ down' = Tail(down)
    BY <1>4 DEF NextMsg
  <2> QED  BY <1>0, <1>1, <1>4, <2>1, <2>2 DEF ScStates, Header, SidecarKeeps
<1>5. CASE NextMsg /\ Head(down).msg.type \notin HasPayload
  <2>1. sc.pc = "poll" /\ down # <<>> /\ down' = Tail(down) /\ UNCHANGED child /\ Handle(Head(down))
    BY <1>5 DEF NextMsg
  <2>2. Head(down) \in Items
    BY <2>1, PipeTypes
  <2> QED  BY <1>1, <1>5, <2>1, <2>2 DEF Message
<1>6. CASE ReadBody
  <2>1. sc.pc = "body" /\ down # <<>> /\ down' = Tail(down) /\ UNCHANGED child /\ Handle(sc.hdr)
    BY <1>6 DEF ReadBody
  <2> QED  BY <1>0, <1>1, <2>1 DEF Message, ScStates
<1>7. CASE StopProbes
  <2>1. sc' = [sc EXCEPT !.pc = "bye", !.flushed = TRUE] /\ UNCHANGED <<down, up, child>> /\ sc.pc = "stop"
    BY <1>7 DEF StopProbes
  <2> QED  BY <1>0, <1>1, <2>1 DEF ScStates, Flushes, SidecarKeeps
<1>8. CASE Bye
  <2>1. sc' = [sc EXCEPT !.pc = "closed"] /\ UNCHANGED <<down, child>> /\ sc.pc = "bye"
        /\ up' = IF sc.ack THEN Append(up, Status("Ok", sc.hdr)) ELSE up
    BY <1>8 DEF Bye, SendStatus
  <2> QED  BY <1>0, <1>1, <2>1 DEF ScStates, Answers, SidecarKeeps
<1>9. CASE Exit
  <2>1. /\ sc' = [sc EXCEPT !.pc = "gone", !.tracked = {}, !.hdr = NoItem] /\ UNCHANGED up /\ sc.pc = "closed"
        /\ child' = IF host = "up" THEN "zombie" ELSE "reaped"
        /\ down' = <<>>
    BY <1>9 DEF Exit
  <2> QED  BY <1>0, <1>1, <2>1 DEF ScStates, Exits
<1> QED  BY <1>1, <1>2, <1>3, <1>4, <1>5, <1>6, <1>7, <1>8, <1>9 DEF SidecarStep

LEMMA KillMoves == ASSUME Typed, Kill PROVE Killed /\ UNCHANGED <<host, hostVars, shut, held, history>>
<1>1. sc \in ScStates /\ sc' = [sc EXCEPT !.pc = "closed", !.killed = TRUE]
  BY DEF Typed, SidecarOK, Kill
<1> QED  BY <1>1 DEF Kill, Killed, SidecarKeeps, ScStates, Unhurt

---------------------------------------------------------------------------
(* The child the handle names.                                             *)

\* The kernel's view of the sidecar and the sidecar's own, what the handle says
\* of it, and where the owner has no handle, or must have one.
ChildKnown ==
  host = "up" =>
    /\ child = "none" <=> sc.pc = "none"
    /\ child \in {"zombie", "reaped"} <=> sc.pc = "gone"
    /\ handle = "live" => child \in {"running", "zombie"}
    /\ handle = "reaped" => child = "reaped"
    /\ handle = "none" /\ pc[Owner] # "wait" => child \in {"none", "reaped"}
    /\ pc[Owner] = "new" => child = "none"
    /\ pc[Owner] = "wait" => child # "none"
    /\ pc[Owner] \in {"new", "wait", "off", "stopped"} => handle = "none"
    /\ pc[Owner] \in {"send", "body", "answer", "back", "configured", "teardown", "reset"} => handle # "none"

\* What the sidecar has recorded is flushed before it leaves of its own accord.
FlushedFirst ==
  /\ sc.probes <=> sc.phase = "loop"
  /\ sc.pc \in {"none", "boot"} => sc.phase = "config"
  /\ sc.pc = "stop" => sc.phase = "loop"
  /\ sc.pc = "bye" => sc.flushed
  /\ sc.pc \in {"closed", "gone"} /\ sc.probes /\ ~sc.killed => sc.flushed

LEMMA ChildKnownStep ==
  ASSUME Typed, ChildKnown, [Next]_vars
  PROVE  ChildKnown'
<1>0. /\ Owner \in Threads /\ Owner \notin Callers /\ Callers \subseteq Threads
      /\ pc \in [Threads -> Where] /\ sc \in ScStates
      /\ child \in {"none", "running", "zombie", "reaped"} /\ handle \in {"none", "live", "reaped"}
      /\ host \in {"up", "dead"}
  BY ThreadsAssumption DEF Typed, ThreadsOK, SuiteOK, KernelOK, SidecarOK, Threads, Owner
<1>1. CASE OwnerStep
  <2>1. CASE Configure
    <3>1. sc' = [sc EXCEPT !.pc = "boot"] => sc'.pc = "boot"
      BY <1>0 DEF ScStates
    <3> QED  BY <1>0, <2>1, <3>1 DEF ChildKnown, Configure, Launched, SendNext, Go
  <2>2. CASE Configured
    BY <1>0, <2>2 DEF ChildKnown, Configured, Back, Go
  <2>3. CASE Start \/ StartAnswered
    BY <1>0, <2>3 DEF ChildKnown, Start, StartAnswered, Back, Go, SendNext
  <2>4. CASE StopSignalled
    BY <1>0, <2>4 DEF ChildKnown, StopSignalled, Back, Go, DescribeExit
  <2>5. CASE Teardown
    BY <1>0, <2>5 DEF ChildKnown, Teardown, Go
  <2>6. CASE StopAcked
    BY <1>0, <2>6 DEF ChildKnown, StopAcked, Back, Go, DescribeExit
  <2>7. CASE Reset
    <3>1. pc'[Owner] = "wait"
      BY <1>0, <2>7 DEF Reset
    <3> QED  BY <1>0, <2>7, <3>1 DEF ChildKnown, Reset
  <2>8. CASE WaitChild
    <3>1. AfterReset \in {"off", "sync", "stopped"}
      BY DEF AfterReset
    <3> QED  BY <1>0, <2>8, <3>1 DEF ChildKnown, WaitChild, Go
  <2>9. CASE SyncHostReaper(Owner, "running") \/ ReaperTold(Owner, "running")
    BY <1>0, <2>9 DEF ChildKnown, SyncHostReaper, ReaperTold, SendNext, Go, Back
  <2> QED  BY <1>1, <2>1, <2>2, <2>3, <2>4, <2>5, <2>6, <2>7, <2>8, <2>9 DEF OwnerStep
<1>2. CASE Stop
  BY <1>0, <1>2 DEF ChildKnown, Stop, SendNext, Go
<1>3. CASE EnableChildSubreaper
  BY <1>3 DEF ChildKnown, EnableChildSubreaper
<1>4. CASE \E t \in Callers : CallStep(t)
  <2>1. UNCHANGED <<host, handle, sc, child>> /\ pc'[Owner] = pc[Owner]
    BY <1>0, <1>4 DEF CallStep, FanOutAdd, EndCall, SyncHostReaper, ReaperTold, SendNext, Go, Forward
  <2> QED  BY <2>1 DEF ChildKnown
<1>5. CASE \E t \in Callers, p \in Pids : AddTrackedProcess(t, p) \/ RemoveTrackedProcess(t, p)
  <2>1. UNCHANGED <<host, handle, sc, child>> /\ pc'[Owner] = pc[Owner]
    BY <1>0, <1>5 DEF AddTrackedProcess, RemoveTrackedProcess, BeginCall, Go, Forward
  <2> QED  BY <2>1 DEF ChildKnown
<1>6. CASE \E t \in Threads : Exchange(t)
  <2>1. /\ UNCHANGED <<host, handle, sc, child>>
        /\ \/ pc'[Owner] = pc[Owner]
           \/ pc[Owner] \in {"send", "body", "answer"} /\ pc'[Owner] \in {"body", "answer", "back"}
    BY <1>0, <1>6 DEF Exchange, WriteHeader, WriteBody, ReadStatus, Put, Broken
  <2> QED  BY <2>1 DEF ChildKnown
<1>7. CASE SidecarStep
  <2>1. UNCHANGED <<host, handle, pc>>
    BY <1>7, SidecarMoves DEF hostSide, hostVars
  <2>2. \/ sc.pc = "closed" /\ sc'.pc = "gone" /\ child' = (IF host = "up" THEN "zombie" ELSE "reaped")
        \/ sc.pc \notin {"none", "gone"} /\ sc'.pc \notin {"none", "gone"} /\ UNCHANGED child
    <3>1. ASSUME NEW item \in Items, Message(item)
          PROVE  sc.pc \notin {"none", "gone"} /\ sc'.pc \notin {"none", "gone"} /\ UNCHANGED child
      <4>1. sc'.pc \in {"poll", "closed", "stop"}
        BY <3>1, HandleCases DEF Message
      <4> QED  BY <3>1, <4>1 DEF Message
    <3>2. CASE Boots \/ Leaves \/ Header \/ Flushes \/ Answers \/ Exits
      BY <3>2 DEF Boots, Leaves, Header, Flushes, Answers, Exits
    <3> QED  BY <1>7, <3>1, <3>2, SidecarMoves
  <2> QED  BY <1>0, <2>1, <2>2 DEF ChildKnown
<1>8. CASE HostDies
  BY <1>8 DEF HostDies, ChildKnown
<1>9. CASE Terminate \/ Kill
  <2>1. UNCHANGED <<host, handle, pc, child>>
    BY <1>9 DEF Terminate, Kill, Unhurt, hostVars
  <2>2. sc'.pc = sc.pc \/ (sc.pc \notin {"none", "gone"} /\ sc'.pc = "closed")
    <3>1. CASE Terminate
      BY <3>1 DEF Terminate
    <3>2. CASE Kill
      BY <3>2, KillMoves DEF Killed, ScAlive
    <3> QED  BY <1>9, <3>1, <3>2
  <2> QED  BY <1>0, <2>1, <2>2 DEF ChildKnown
<1>10. CASE UNCHANGED vars
  BY <1>10 DEF vars, hostVars, ChildKnown
<1> QED  BY <1>1, <1>2, <1>3, <1>4, <1>5, <1>6, <1>7, <1>8, <1>9, <1>10, Steps

LEMMA FlushedFirstStep ==
  ASSUME Typed, ChildKnown, FlushedFirst, [Next]_vars
  PROVE  FlushedFirst'
<1>0. sc \in ScStates
  BY DEF Typed, SidecarOK
<1>1. CASE Configure
  <2>1. sc' = [sc EXCEPT !.pc = "boot"] \/ UNCHANGED sc
    BY <1>1 DEF Configure, Launched
  <2>2. UNCHANGED <<sc.probes, sc.phase, sc.flushed, sc.killed>>
    BY <1>0, <2>1 DEF ScStates
  <2>3. CASE sc' = [sc EXCEPT !.pc = "boot"]
    <3>1. sc'.pc = "boot"
      BY <1>0, <2>3 DEF ScStates
    <3>2. sc.phase = "config"
      BY <1>1 DEF Configure, ChildKnown, FlushedFirst
    <3> QED  BY <2>2, <3>1, <3>2 DEF FlushedFirst
  <2> QED  BY <2>1, <2>3 DEF FlushedFirst
<1>2. CASE SidecarStep
  <2>1. ASSUME NEW item \in Items, Message(item)
        PROVE  FlushedFirst'
    BY <2>1, HandleCases, Zenon DEF Message, FlushedFirst
  <2>2. CASE Boots \/ Leaves \/ Header \/ Flushes \/ Answers \/ Exits
    BY <2>2 DEF Boots, Leaves, Header, Flushes, Answers, Exits, SidecarKeeps, FlushedFirst
  <2> QED  BY <1>2, <2>1, <2>2, SidecarMoves
<1>3. CASE Kill
  BY <1>3, KillMoves DEF Killed, ScAlive, SidecarKeeps, FlushedFirst
<1>4. CASE ~(Configure \/ SidecarStep \/ Kill)
  <2>1. UNCHANGED sc
    BY <1>4
       DEF Next, Progress, OwnerStep, Configured, Start, StartAnswered, StopSignalled, Teardown, StopAcked,
           Reset, WaitChild, SyncHostReaper, ReaperTold, Stop, EnableChildSubreaper, CallStep, FanOutAdd,
           EndCall, AddTrackedProcess, RemoveTrackedProcess, BeginCall, Exchange, WriteHeader, WriteBody,
           ReadStatus, HostDies, Terminate, vars
  <2> QED  BY <2>1 DEF FlushedFirst
<1> QED  BY <1>1, <1>2, <1>3, <1>4

LEMMA ChildInit == Init => ChildKnown /\ FlushedFirst
<1> SUFFICES ASSUME Init PROVE ChildKnown /\ FlushedFirst
  OBVIOUS
<1>1. /\ sc.pc = "none" /\ sc.phase = "config" /\ sc.probes = FALSE
      /\ child = "none" /\ handle = "none" /\ pc[Owner] = "new"
  BY DEF Init, Threads
<1> QED  BY <1>1 DEF ChildKnown, FlushedFirst

ChildInv == Typed /\ ChildKnown /\ FlushedFirst

LEMMA AlwaysChildInv == Spec => []ChildInv
<1>1. Init => ChildInv
  BY TypedInit, ChildInit DEF ChildInv
<1>2. ChildInv /\ [Next]_vars => ChildInv'
  BY TypedStep, ChildKnownStep, FlushedFirstStep DEF ChildInv
<1> QED  BY <1>1, <1>2, PTL DEF Spec

\* The PID the handle keeps is that of a child not yet reaped, whichever of
\* DescribeExit and the destructor gets to wait for it.
THEOREM KeepsItsChildCorrect == Spec => []KeepsItsChild
<1>1. ChildInv => KeepsItsChild
  BY DEF ChildInv, ChildKnown, KeepsItsChild
<1> QED  BY <1>1, AlwaysChildInv, PTL

\* Once Stop() is over the sidecar is reaped, and unless it was killed what its
\* probes recorded is in its files.
THEOREM StopIsCompleteCorrect == Spec => []StopIsComplete
<1>1. ChildInv => StopIsComplete
  <2> SUFFICES ASSUME ChildInv, host = "up", pc[Owner] = "stopped", child # "none"
               PROVE  child = "reaped" /\ (sc.probes /\ ~sc.killed => sc.flushed)
    BY DEF StopIsComplete
  <2>1. child = "reaped"
    BY DEF ChildInv, ChildKnown
  <2>2. sc.pc = "gone"
    BY <2>1 DEF ChildInv, ChildKnown
  <2> QED  BY <2>1, <2>2 DEF ChildInv, FlushedFirst
<1> QED  BY <1>1, AlwaysChildInv, PTL

---------------------------------------------------------------------------
(* One exchange at a time.                                                 *)

InMsg(t)   == pc[t] \in {"body", "answer"}
Reading    == sc.pc \in {"none", "boot", "poll", "body"}
Payload(t) == call[t].type \in HasPayload

\* A thread between the writes and the read of its exchange holds the lock.
Locked == \A t \in Threads : InMsg(t) => mutex = t /\ call[t].type # "STOP"

\* Once the pipes are closed nobody enters an exchange.
ShutDown ==
  host = "up" /\ shut =>
    /\ handle = "none" /\ pc[Owner] \in {"wait", "off", "sync", "running", "stopped"}
    /\ \A t \in Threads : ~InExchange(t)

StopWritten ==
  host = "up" =>
    /\ stopSent => stopWritten
    /\ sc.ack /\ ~shut => stopWritten
    /\ (pc[Owner] = "back" /\ call[Owner].type = "STOP" /\ answer[Owner] = "Ok") => stopWritten

\* The pipes while t is in an exchange: its message, of which the sidecar may have
\* taken the header, or the one status it is answered with; and otherwise nothing.
\* What a sidecar that has stopped reading leaves unread does not matter.
Unread(t) ==
  IF sc.pc = "body"
  THEN Payload(t) /\ sc.hdr = Item("header", t) /\ down = IF pc[t] = "body" THEN <<>> ELSE <<Item("payload", t)>>
  ELSE down = IF Payload(t) /\ pc[t] = "answer" THEN <<Item("header", t), Item("payload", t)>>
              ELSE <<Item("header", t)>>
OneInFlight(t) ==
  /\ pc[t] = "body" => Payload(t)
  /\ up # <<>> => up = <<Head(up)>> /\ Head(up).to = t /\ Head(up).msg = call[t] /\ pc[t] = "answer"
  /\ Reading => \/ up = <<>> /\ Unread(t)
                \/ pc[t] = "answer" /\ down = <<>> /\ sc.pc # "body"
NoneInFlight == up = <<>> /\ (Reading => down = <<>> /\ sc.pc # "body")
Exchanges ==
  host = "up" /\ ~stopWritten /\ ~shut =>
    /\ \A t \in Threads : InMsg(t) => OneInFlight(t)
    /\ (\A t \in Threads : ~InMsg(t)) => NoneInFlight

\* A step that moves no message and no thread into or out of an exchange.
Quiet ==
  /\ UNCHANGED <<mutex, shut, stopWritten, up>>
  /\ \A t \in Threads : /\ InMsg(t)' <=> InMsg(t)
                        /\ InMsg(t) => pc'[t] = pc[t] /\ call'[t] = call[t]

LEMMA HostMoves ==
  ASSUME Typed,
         \/ OwnerStep \/ Stop \/ EnableChildSubreaper
         \/ \E t \in Callers : CallStep(t)
         \/ \E t \in Callers, p \in Pids : AddTrackedProcess(t, p) \/ RemoveTrackedProcess(t, p)
  PROVE  /\ UNCHANGED <<down, up, host, stopWritten, crossed>>
         /\ \/ Reset
            \/ UNCHANGED sc /\ Teardown /\ stopSent
            \/ UNCHANGED sc /\ Quiet
            \/ Configure /\ Quiet
<1>0. Owner \in Threads /\ Owner \notin Callers /\ Callers \subseteq Threads /\ pc \in [Threads -> Where]
      /\ call \in [Threads -> Msgs]
  BY ThreadsAssumption DEF Typed, ThreadsOK, Threads, Owner
<1>1. UNCHANGED <<down, up, host, stopWritten, crossed>>
  BY DEF OwnerStep, Configure, Configured, Start, StartAnswered, StopSignalled, Teardown, StopAcked, Reset,
         WaitChild, SyncHostReaper, ReaperTold, Stop, EnableChildSubreaper, CallStep, FanOutAdd, EndCall,
         AddTrackedProcess, RemoveTrackedProcess, BeginCall, pipes, history
<1>2. CASE OwnerStep \/ Stop
  <2>1. CASE Configure
    BY <1>0, <2>1 DEF Configure, SendNext, Go, Quiet, InMsg, pipes, history
  <2>2. CASE Configured \/ Start \/ StartAnswered \/ StopSignalled \/ StopAcked \/ Stop
    BY <1>0, <2>2
       DEF Configured, Start, StartAnswered, StopSignalled, StopAcked, Stop, Back, SendNext, Go, Quiet, InMsg, pipes, history
  <2>3. CASE Reset
    BY <1>1, <2>3
  <2>4. CASE Teardown
    BY <1>0, <2>4 DEF Teardown, Go, Quiet, InMsg, pipes, history
  <2>5. CASE WaitChild
    <3>1. AfterReset \in {"off", "sync", "stopped"}
      BY DEF AfterReset
    <3> QED  BY <1>0, <2>5, <3>1 DEF WaitChild, Go, Quiet, InMsg, pipes, history
  <2>6. CASE SyncHostReaper(Owner, "running") \/ ReaperTold(Owner, "running")
    BY <1>0, <2>6 DEF SyncHostReaper, ReaperTold, Back, SendNext, Go, Quiet, InMsg, pipes, history
  <2> QED  BY <1>1, <1>2, <2>1, <2>2, <2>3, <2>4, <2>5, <2>6, Zenon DEF OwnerStep
<1>3. CASE EnableChildSubreaper
  BY <1>1, <1>3 DEF EnableChildSubreaper, Quiet, InMsg, pipes, history
<1>4. CASE \E t \in Callers : CallStep(t)
  BY <1>0, <1>1, <1>4
     DEF CallStep, FanOutAdd, EndCall, SyncHostReaper, ReaperTold, Back, SendNext, Go, Forward, Quiet, InMsg,
         pipes, history
<1>5. CASE \E t \in Callers, p \in Pids : AddTrackedProcess(t, p) \/ RemoveTrackedProcess(t, p)
  BY <1>0, <1>1, <1>5
     DEF AddTrackedProcess, RemoveTrackedProcess, BeginCall, Go, Forward, Quiet, InMsg, pipes
<1> QED  BY <1>2, <1>3, <1>4, <1>5

\* A step of the sidecar is quiet for the host.
LEMMA SidecarQuiet == ASSUME UNCHANGED hostSide, UNCHANGED up PROVE Quiet
BY DEF hostSide, hostVars, history, Quiet, InMsg

LEMMA ExchangesKept ==
  ASSUME Exchanges, Quiet, UNCHANGED host,
         Reading' => /\ Reading /\ UNCHANGED down
                     /\ (sc'.pc = "body") <=> (sc.pc = "body")
                     /\ sc.pc = "body" => sc'.hdr = sc.hdr
  PROVE  Exchanges'
<1> SUFFICES ASSUME host = "up", ~stopWritten, ~shut
             PROVE  /\ \A t \in Threads : InMsg(t)' => OneInFlight(t)'
                    /\ (\A t \in Threads : ~InMsg(t)') => NoneInFlight'
  BY DEF Exchanges, Quiet
<1>1. ASSUME NEW t \in Threads, InMsg(t)'
      PROVE  OneInFlight(t)'
  <2>1. InMsg(t) /\ pc'[t] = pc[t] /\ call'[t] = call[t] /\ UNCHANGED up /\ OneInFlight(t)
    BY <1>1 DEF Quiet, Exchanges
  <2>2. /\ Item("header", t)' = Item("header", t) /\ Item("payload", t)' = Item("payload", t)
        /\ Payload(t)' <=> Payload(t)
    BY <2>1 DEF Item, Payload
  <2>3. Reading' => Reading /\ (Unread(t) => Unread(t)')
    BY <2>1, <2>2 DEF Unread
  <2> QED  BY <2>1, <2>2, <2>3 DEF OneInFlight
<1>2. (\A t \in Threads : ~InMsg(t)') => NoneInFlight'
  BY DEF Quiet, Exchanges, NoneInFlight
<1> QED  BY <1>1, <1>2

LEMMA LockedStep ==
  ASSUME Typed, Locked, [Next]_vars
  PROVE  Locked'
<1>0. /\ Owner \in Threads /\ Owner \notin Callers /\ Free \notin Threads /\ pc \in [Threads -> Where]
      /\ call \in [Threads -> Msgs]
  BY ThreadsAssumption DEF Typed, ThreadsOK, Threads, Owner, Free
<1>1. ASSUME Quiet PROVE Locked'
  <2>1. ASSUME NEW t \in Threads, InMsg(t)' PROVE mutex' = t /\ call'[t].type # "STOP"
    BY <1>1, <2>1 DEF Quiet, Locked
  <2> QED  BY <2>1 DEF Locked
<1>2. CASE Teardown /\ stopSent
  <2>1. /\ mutex = Free /\ mutex' = Owner /\ pc' = [pc EXCEPT ![Owner] = "answer"]
        /\ call' = [call EXCEPT ![Owner] = Msg("JOIN", NoPid)]
    BY <1>2 DEF Teardown, Go
  <2> QED  BY <1>0, <2>1 DEF Locked, InMsg, Msg
<1>3. CASE Reset
  BY <1>0, <1>3 DEF Reset, Locked, InMsg, InExchange
<1>4. CASE \E t \in Threads : Exchange(t)
  <2>1. PICK t \in Threads : Exchange(t)
    BY <1>4
  <2>2. UNCHANGED call
    BY <2>1 DEF Exchange, WriteHeader, WriteBody, ReadStatus
  <2>3. CASE WriteHeader(t)
    <3>1. mutex = Free /\ \A u \in Threads : ~InMsg(u)
      BY <1>0, <2>3 DEF WriteHeader, Locked
    <3>2. \/ pc' = [pc EXCEPT ![t] = "back"]
          \/ mutex' = t /\ call[t].type # "STOP" /\ \E w \in {"body", "answer"} : pc' = [pc EXCEPT ![t] = w]
      BY <2>3 DEF WriteHeader, Broken, Put, HasPayload
    <3> QED  BY <1>0, <2>2, <3>1, <3>2 DEF Locked, InMsg
  <2>4. CASE WriteBody(t) \/ ReadStatus(t)
    <3>1. /\ InMsg(t)
          /\ \/ mutex' = Free /\ pc' = [pc EXCEPT ![t] = "back"]
             \/ UNCHANGED mutex /\ pc' = [pc EXCEPT ![t] = "answer"]
      BY <2>4 DEF WriteBody, ReadStatus, Broken, Put, InMsg
    <3>2. mutex = t /\ call[t].type # "STOP"
      BY <3>1 DEF Locked
    <3> QED  BY <1>0, <2>2, <3>1, <3>2 DEF Locked, InMsg
  <2> QED  BY <2>1, <2>3, <2>4 DEF Exchange
<1>5. CASE SidecarStep \/ Terminate \/ Kill
  <2>1. UNCHANGED <<pc, call, mutex>>
    BY <1>5, SidecarMoves DEF Terminate, Kill, Unhurt, hostSide, hostVars
  <2> QED  BY <2>1 DEF Locked, InMsg
<1>6. CASE HostDies
  BY <1>6 DEF HostDies, Locked, InMsg
<1>7. CASE UNCHANGED vars
  BY <1>7 DEF vars, hostVars, Locked, InMsg
<1> QED  BY <1>1, <1>2, <1>3, <1>4, <1>5, <1>6, <1>7, Steps, HostMoves

LEMMA ShutDownStep ==
  ASSUME Typed, ChildKnown, ShutDown, [Next]_vars
  PROVE  ShutDown'
<1>0. /\ Owner \in Threads /\ Owner \notin Callers /\ Callers \subseteq Threads /\ pc \in [Threads -> Where]
      /\ host \in {"up", "dead"}
  BY ThreadsAssumption DEF Typed, ThreadsOK, SuiteOK, Threads, Owner
<1>1. CASE host = "dead"
  <2>1. host' = "dead"
    BY <1>1
       DEF Next, Progress, OwnerStep, Configure, Configured, Start, StartAnswered, StopSignalled, Teardown, StopAcked,
           Reset, WaitChild, SyncHostReaper, ReaperTold, Back, Stop, EnableChildSubreaper, CallStep, FanOutAdd,
           EndCall, AddTrackedProcess, RemoveTrackedProcess, BeginCall, Exchange, WriteHeader, WriteBody,
           ReadStatus, SidecarStep, ScBoot, NextMsgSignal, NextMsgHostExited, NextMsgEof, NextMsg, ReadBody,
           StopProbes, Bye, Exit, hostSide, HostDies, Terminate, Kill, Unhurt, vars
  <2> QED  BY <2>1 DEF ShutDown
<1>2. CASE Reset
  BY <1>0, <1>2 DEF Reset, ShutDown, InExchange
<1>3. CASE HostDies
  BY <1>3 DEF HostDies, ShutDown
<1>4. CASE host = "up" /\ shut /\ ~Reset /\ ~HostDies
  <2>0. /\ handle = "none" /\ pc[Owner] \in {"wait", "off", "sync", "running", "stopped"}
        /\ \A t \in Threads : ~InExchange(t)
    BY <1>4 DEF ShutDown
  <2>1. CASE OwnerStep
    <3>1. AfterReset \in {"off", "sync", "stopped"}
      BY DEF AfterReset
    <3>2. WaitChild \/ SyncHostReaper(Owner, "running")
      BY <1>4, <2>0, <2>1
         DEF OwnerStep, Configure, Configured, Start, StartAnswered, StopSignalled, Teardown, StopAcked,
             ReaperTold, Back
    <3>3. UNCHANGED handle /\ \E w \in {"off", "sync", "stopped", "running"} : pc' = [pc EXCEPT ![Owner] = w]
      BY <2>0, <3>1, <3>2 DEF WaitChild, SyncHostReaper, Go
    <3> QED  BY <1>0, <2>0, <3>3 DEF ShutDown, InExchange
  <2>2. CASE Stop
    BY <1>0, <2>0, <2>2 DEF Stop, Go, ShutDown, InExchange
  <2>3. CASE \E t \in Callers : CallStep(t)
    <3>1. UNCHANGED handle /\ \E t \in Callers, w \in {"idle", "fan"} : pc' = [pc EXCEPT ![t] = w]
      BY <2>0, <2>3 DEF CallStep, FanOutAdd, EndCall, SyncHostReaper, ReaperTold, Go, Forward
    <3> QED  BY <1>0, <2>0, <3>1 DEF ShutDown, InExchange
  <2>4. CASE \E t \in Callers, p \in Pids : AddTrackedProcess(t, p) \/ RemoveTrackedProcess(t, p)
    <3>1. UNCHANGED handle /\ \E t \in Callers, w \in {"idle", "sync"} : pc' = [pc EXCEPT ![t] = w]
      BY <2>0, <2>4 DEF AddTrackedProcess, RemoveTrackedProcess, BeginCall, Go, Forward
    <3> QED  BY <1>0, <2>0, <3>1 DEF ShutDown, InExchange
  <2>5. CASE \E t \in Threads : Exchange(t)
    BY <2>0, <2>5 DEF Exchange, WriteHeader, WriteBody, ReadStatus, InExchange
  <2>6. CASE SidecarStep \/ EnableChildSubreaper \/ Terminate \/ Kill \/ UNCHANGED vars
    <3>1. UNCHANGED <<pc, handle>>
      BY <2>6, SidecarMoves DEF EnableChildSubreaper, Terminate, Kill, Unhurt, hostSide, hostVars, vars
    <3> QED  BY <2>0, <3>1 DEF ShutDown, InExchange
  <2> QED  BY <1>4, <2>1, <2>2, <2>3, <2>4, <2>5, <2>6, Steps
<1>5. CASE host = "up" /\ ~shut /\ ~Reset
  <2>1. ~shut' \/ HostDies
    <3>1. CASE \E t \in Threads : Exchange(t)
      BY <1>5, <3>1 DEF Exchange, WriteHeader, WriteBody, ReadStatus
    <3>2. CASE SidecarStep \/ Terminate \/ Kill \/ UNCHANGED vars
      BY <1>5, <3>2, SidecarMoves DEF Terminate, Kill, Unhurt, hostSide, vars, pipes
    <3>3. Quiet \/ (Teardown /\ stopSent) => UNCHANGED shut
      BY DEF Quiet, Teardown, pipes
    <3> QED  BY <1>5, <3>1, <3>2, <3>3, Steps, HostMoves
  <2> QED  BY <1>3, <2>1 DEF ShutDown
<1> QED  BY <1>0, <1>1, <1>2, <1>3, <1>4, <1>5

\* The message the sidecar takes is that of the thread whose exchange it is.
LEMMA MessageInFlight ==
  ASSUME Typed, Exchanges, host = "up", ~stopWritten, ~shut, NEW item \in Items, Message(item)
  PROVE  \E t \in Threads : /\ pc[t] = "answer" /\ item.msg = call[t] /\ item.from = t
                            /\ down' = <<>> /\ up = <<>> /\ OneInFlight(t)
<1>1. Reading /\ down # <<>> /\ down' = Tail(down)
  BY DEF Message, Reading
<1>2. PICK t \in Threads : InMsg(t) /\ OneInFlight(t)
  BY <1>1 DEF Exchanges, NoneInFlight
<1>3. up = <<>> /\ Unread(t)
  BY <1>1, <1>2 DEF OneInFlight
<1>4. CASE sc.pc = "body"
  <2>1. item = Item("header", t) /\ pc[t] = "answer" /\ down = <<Item("payload", t)>>
    BY <1>1, <1>2, <1>3, <1>4 DEF Unread, Message, InMsg
  <2> QED  BY <1>1, <1>2, <1>3, <2>1 DEF Item
<1>5. CASE sc.pc # "body"
  <2>1. item = Head(down) /\ item.msg.type \notin HasPayload
    BY <1>5 DEF Message
  <2>2. item = Item("header", t)
    BY <1>3, <1>5, <2>1 DEF Unread
  <2>3. ~Payload(t) /\ pc[t] = "answer"
    BY <1>2, <2>1, <2>2 DEF Item, Payload, OneInFlight, InMsg
  <2>4. down = <<Item("header", t)>>
    BY <1>3, <1>5, <2>3 DEF Unread
  <2> QED  BY <1>1, <1>2, <1>3, <2>2, <2>3, <2>4 DEF Item
<1> QED  BY <1>4, <1>5

LEMMA StopWrittenStep ==
  ASSUME Typed, Locked, Exchanges, StopWritten, [Next]_vars
  PROVE  StopWritten'
<1>0. /\ Owner \in Threads /\ Owner \notin Callers /\ pc \in [Threads -> Where] /\ call \in [Threads -> Msgs]
      /\ answer \in [Threads -> {"Ok", "BadHandshake", "Refused", "Exited"}]
  BY ThreadsAssumption DEF Typed, ThreadsOK, Threads, Owner
<1> SUFFICES ASSUME host' = "up" PROVE StopWritten'
  BY DEF StopWritten
<1> DEFINE Signalled == pc[Owner] = "back" /\ call[Owner].type = "STOP" /\ answer[Owner] = "Ok"
           StopEnds  == pc'[Owner] = "back" /\ call'[Owner].type = "STOP" /\ answer'[Owner] = "Ok"
<1>1. CASE OwnerStep \/ Stop \/ EnableChildSubreaper
  <2>1. host = "up" /\ UNCHANGED stopWritten
    BY <1>1, HostMoves
  <2>2. stopSent' => stopSent \/ (StopSignalled /\ answer[Owner] = "Ok")
    BY <1>1
       DEF OwnerStep, Configure, Configured, Start, StartAnswered, StopSignalled, Teardown, StopAcked, Reset,
           WaitChild, SyncHostReaper, ReaperTold, Stop, EnableChildSubreaper
  <2>3. stopSent' => stopWritten'
    BY <2>1, <2>2 DEF StopWritten, StopSignalled, Back
  <2>4. sc'.ack = sc.ack
    <3>1. CASE Configure
      <4>1. UNCHANGED sc \/ sc' = [sc EXCEPT !.pc = "boot"]
        BY <3>1 DEF Configure, Launched
      <4> QED  BY <4>1 DEF Typed, SidecarOK, ScStates
    <3>2. CASE Reset
      BY <3>2 DEF Reset
    <3> QED  BY <1>1, <3>1, <3>2, HostMoves
  <2>5. shut => shut'
    BY <1>1
       DEF OwnerStep, Configure, Configured, Start, StartAnswered, StopSignalled, Teardown, StopAcked, Reset,
           WaitChild, SyncHostReaper, ReaperTold, Stop, EnableChildSubreaper, pipes
  <2>6. pc'[Owner] = "back" => EnableChildSubreaper
    <3>1. AfterReset \in {"off", "sync", "stopped"}
      BY DEF AfterReset
    <3> QED
      BY <1>0, <1>1, <3>1
         DEF OwnerStep, Configure, Configured, Start, StartAnswered, StopSignalled, Teardown, StopAcked, Reset,
             WaitChild, SyncHostReaper, ReaperTold, Stop, Go, SendNext
  <2>7. EnableChildSubreaper => UNCHANGED <<pc, call, answer>>
    BY DEF EnableChildSubreaper
  <2> QED  BY <2>1, <2>3, <2>4, <2>5, <2>6, <2>7 DEF StopWritten
<1>2. CASE (\E t \in Callers : CallStep(t))
           \/ \E t \in Callers, p \in Pids : AddTrackedProcess(t, p) \/ RemoveTrackedProcess(t, p)
  <2>1. UNCHANGED <<host, stopWritten, stopSent, sc, shut>>
    BY <1>2 DEF CallStep, FanOutAdd, EndCall, SyncHostReaper, ReaperTold, AddTrackedProcess, RemoveTrackedProcess,
                BeginCall, pipes, history
  <2>2. pc'[Owner] = pc[Owner] /\ call'[Owner] = call[Owner] /\ answer'[Owner] = answer[Owner]
    BY <1>0, <1>2
       DEF CallStep, FanOutAdd, EndCall, SyncHostReaper, ReaperTold, AddTrackedProcess, RemoveTrackedProcess,
           BeginCall, Go, SendNext, Forward
  <2> QED  BY <2>1, <2>2 DEF StopWritten
<1>3. CASE \E t \in Threads : Exchange(t)
  <2>1. PICK t \in Threads : Exchange(t)
    BY <1>3
  <2>2. UNCHANGED <<host, stopSent, sc, shut, call>> /\ (stopWritten => stopWritten')
    BY <2>1 DEF Exchange, WriteHeader, WriteBody, ReadStatus, history
  <2>3. StopEnds => stopWritten'
    <3>1. CASE t # Owner
      <4>1. pc'[Owner] = pc[Owner] /\ answer'[Owner] = answer[Owner]
        BY <1>0, <2>1, <3>1 DEF Exchange, WriteHeader, WriteBody, ReadStatus, Put, Broken
      <4> QED  BY <2>2, <4>1 DEF StopWritten
    <3>2. CASE t = Owner /\ WriteHeader(t)
      BY <1>0, <2>2, <3>2 DEF WriteHeader, Put, Broken
    <3>3. CASE t = Owner /\ (WriteBody(t) \/ ReadStatus(t))
      <4>1. call[Owner].type # "STOP"
        BY <1>0, <3>3 DEF Locked, InMsg, WriteBody, ReadStatus
      <4> QED  BY <2>2, <4>1
    <3> QED  BY <2>1, <3>1, <3>2, <3>3 DEF Exchange
  <2> QED  BY <2>2, <2>3 DEF StopWritten
<1>4. CASE SidecarStep
  <2>1. UNCHANGED <<host, pc, call, answer, stopSent, stopWritten, shut>>
    BY <1>4, SidecarMoves DEF hostSide, hostVars, history
  <2>2. ASSUME NEW item \in Items, Message(item), sc'.ack, ~shut
        PROVE  stopWritten
    <3>1. sc.ack \/ item.msg.type = "STOP"
      BY <2>2, HandleCases DEF Message
    <3>2. ASSUME ~stopWritten PROVE item.msg.type # "STOP"
      BY <2>1, <2>2, <3>2, MessageInFlight DEF Locked, InMsg
    <3> QED  BY <2>1, <2>2, <3>1, <3>2 DEF StopWritten
  <2>3. CASE Boots \/ Leaves \/ Header \/ Flushes \/ Answers \/ Exits
    <3>1. sc'.ack = sc.ack
      BY <2>3 DEF Boots, Leaves, Header, Flushes, Answers, Exits, SidecarKeeps
    <3> QED  BY <2>1, <3>1 DEF StopWritten
  <2>4. ASSUME NEW item \in Items, Message(item) PROVE StopWritten'
    BY <2>1, <2>2, <2>4 DEF StopWritten
  <2> QED  BY <1>4, <2>3, <2>4, SidecarMoves
<1>5. CASE Terminate \/ Kill
  <2>1. UNCHANGED <<host, pc, call, answer, stopSent, stopWritten, shut>>
    BY <1>5 DEF Terminate, Kill, Unhurt, hostVars, history
  <2>2. sc'.ack = sc.ack
    <3>1. CASE Terminate
      BY <3>1 DEF Terminate
    <3>2. CASE Kill
      BY <3>2, KillMoves DEF Killed, SidecarKeeps
    <3> QED  BY <1>5, <3>1, <3>2
  <2> QED  BY <2>1, <2>2 DEF StopWritten
<1>6. CASE HostDies
  BY <1>6 DEF HostDies
<1>7. CASE UNCHANGED vars
  BY <1>7 DEF vars, hostVars, pipes, history, StopWritten
<1> QED  BY <1>1, <1>2, <1>3, <1>4, <1>5, <1>6, <1>7, Steps

LEMMA AppendToOne ==
  ASSUME NEW T, NEW o \in Seq(T), NEW b \in T, Len(o) = 1
  PROVE  Append(o, b) \in Seq(T) /\ Len(Append(o, b)) = 2 /\ Append(o, b)[1] = o[1] /\ Append(o, b)[2] = b
<1>1. Append(o, b) \in Seq(T) /\ Len(Append(o, b)) = Len(o) + 1
  BY AppendProperties
<1>2. 1 \in 1..Len(o) /\ Len(o) + 1 = 2
  OBVIOUS
<1>3. Append(o, b)[1] = o[1]
  BY <1>2, AppendProperties
<1>4. Append(o, b)[Len(o) + 1] = b
  BY AppendProperties
<1> QED  BY <1>1, <1>2, <1>3, <1>4

LEMMA ShortSeqs ==
  \A a, b : /\ Append(<<>>, a) = <<a>> /\ Append(<<a>>, b) = <<a, b>>
            /\ Tail(<<a>>) = <<>> /\ Tail(<<a, b>>) = <<b>> /\ Head(<<a>>) = a /\ Head(<<a, b>>) = a
<1> SUFFICES ASSUME NEW a, NEW b
             PROVE  /\ Append(<<>>, a) = <<a>> /\ Append(<<a>>, b) = <<a, b>>
                    /\ Tail(<<a>>) = <<>> /\ Tail(<<a, b>>) = <<b>> /\ Head(<<a>>) = a /\ Head(<<a, b>>) = a
  OBVIOUS
<1>1. Append(<<>>, a) = <<a>>
  OBVIOUS
<1> DEFINE T == {a, b}
           o == <<a>>
           q == <<a, b>>
           r == <<b>>
<1>a. o \in Seq(T) /\ Len(o) = 1 /\ o[1] = a
  OBVIOUS
<1>b. q \in Seq(T) /\ Len(q) = 2 /\ q[1] = a /\ q[2] = b /\ q # <<>>
  OBVIOUS
<1>c. r \in Seq(T) /\ Len(r) = 1 /\ r[1] = b
  OBVIOUS
<1>d. b \in T
  OBVIOUS
<1> HIDE DEF T, o, q, r
<1>2. Append(o, b) = q
  <2>1. Append(o, b) \in Seq(T) /\ Len(Append(o, b)) = 2 /\ Append(o, b)[1] = a /\ Append(o, b)[2] = b
    BY <1>a, <1>d, AppendToOne
  <2>2. \A i \in 1..Len(q) : Append(o, b)[i] = q[i]
    BY <1>b, <2>1
  <2> QED  BY <1>b, <2>1, <2>2, SeqEqual
<1>3. Tail(<<a>>) = <<>>
  OBVIOUS
<1>4. Tail(q) = r
  <2>1. Tail(q) \in Seq(T) /\ Len(Tail(q)) = Len(q) - 1 /\ \A i \in 1..Len(Tail(q)) : Tail(q)[i] = q[i + 1]
    BY <1>b, HeadTailProperties
  <2>2. Len(Tail(q)) = 1 /\ Tail(q)[1] = b
    BY <1>b, <2>1
  <2>3. \A i \in 1..Len(r) : Tail(q)[i] = r[i]
    BY <1>c, <2>2
  <2> QED  BY <1>c, <2>1, <2>2, <2>3, SeqEqual
<1>5. Head(<<a>>) = a /\ Head(<<a, b>>) = a
  OBVIOUS
<1> QED  BY <1>1, <1>2, <1>3, <1>4, <1>5 DEF o, q, r

LEMMA ExchangesStep ==
  ASSUME Typed, ChildKnown, Locked, ShutDown, StopWritten, Exchanges, [Next]_vars
  PROVE  Exchanges'
<1>0. /\ Owner \in Threads /\ Free \notin Threads /\ pc \in [Threads -> Where] /\ call \in [Threads -> Msgs]
      /\ down \in Seq(Items) /\ up \in Seq(Statuses)
  BY ThreadsAssumption DEF Typed, ThreadsOK, PipesOK, Threads, Owner, Free
<1> SUFFICES ASSUME host' = "up", ~stopWritten', ~shut' PROVE Exchanges'
  BY DEF Exchanges
<1>1. CASE Quiet /\ UNCHANGED <<down, host, sc>>
  BY <1>1, ExchangesKept DEF Reading
<1>2. CASE Quiet /\ Configure
  <2>1. UNCHANGED <<down, host>> /\ (UNCHANGED sc \/ sc' = [sc EXCEPT !.pc = "boot"])
    BY <1>2 DEF Configure, Launched, pipes
  <2>2. sc.pc = "none"
    BY <1>2 DEF Configure, ChildKnown
  <2>3. sc'.pc # "body" /\ Reading
    BY <2>1, <2>2 DEF Typed, SidecarOK, ScStates, Reading
  <2> QED  BY <1>2, <2>1, <2>2, <2>3, ExchangesKept
<1>3. CASE Teardown /\ stopSent
  BY <1>3 DEF Teardown, StopWritten, history
<1>4. CASE Reset
  BY <1>4 DEF Reset
<1>5. CASE \E t \in Threads : Exchange(t)
  <2>1. PICK t \in Threads : Exchange(t)
    BY <1>5
  <2>2. host = "up" /\ ~stopWritten /\ ~shut /\ UNCHANGED <<sc, call>>
    BY <2>1 DEF Exchange, WriteHeader, WriteBody, ReadStatus, history
  <2>3. /\ Item("header", t)' = Item("header", t) /\ Item("payload", t)' = Item("payload", t)
        /\ Payload(t)' <=> Payload(t)
        /\ Reading' <=> Reading
    BY <2>2 DEF Item, Payload, Reading
  <2>4. CASE WriteHeader(t)
    <3>1. (\A u \in Threads : ~InMsg(u)) /\ NoneInFlight
      BY <1>0, <2>2, <2>4 DEF WriteHeader, Locked, Exchanges
    <3>2. CASE SidecarClosed /\ Broken(t)
      <4>1. pc' = [pc EXCEPT ![t] = "back"] /\ UNCHANGED <<down, up>>
        BY <2>4, <3>2 DEF WriteHeader, Broken
      <4> QED  BY <1>0, <2>2, <3>1, <4>1 DEF Exchanges, NoneInFlight, InMsg, Reading
    <3>3. CASE ~SidecarClosed
      <4>1. PICK w \in {"body", "answer"} :
              /\ down' = Append(down, Item("header", t)) /\ pc' = [pc EXCEPT ![t] = w] /\ UNCHANGED up
              /\ w = "body" <=> Payload(t)
        BY <2>4, <3>3 DEF WriteHeader, Put, Payload, HasPayload
      <4>2. pc'[t] = w /\ \A u \in Threads : InMsg(u)' => u = t
        BY <1>0, <3>1, <4>1 DEF InMsg
      <4>3. Reading => down' = <<Item("header", t)>>
        BY <3>1, <4>1 DEF NoneInFlight
      <4>4. OneInFlight(t)'
        BY <2>2, <2>3, <3>1, <4>1, <4>2, <4>3 DEF OneInFlight, Unread, NoneInFlight
      <4>5. InMsg(t)'
        BY <4>2 DEF InMsg
      <4> QED  BY <4>2, <4>4, <4>5 DEF Exchanges
    <3> QED  BY <2>4, <3>2, <3>3 DEF WriteHeader
  <2>5. CASE WriteBody(t)
    <3>1. pc[t] = "body" /\ InMsg(t) /\ OneInFlight(t) /\ up = <<>> /\ Payload(t)
      BY <2>2, <2>5 DEF WriteBody, InMsg, Exchanges, OneInFlight
    <3>2. \A u \in Threads : InMsg(u) => u = t
      BY <3>1 DEF Locked
    <3>3. CASE SidecarClosed /\ Broken(t)
      <4>1. pc' = [pc EXCEPT ![t] = "back"] /\ UNCHANGED <<down, up>> /\ ~Reading
        BY <2>5, <3>3 DEF WriteBody, Broken, SidecarClosed, Reading
      <4> QED  BY <1>0, <2>3, <3>1, <3>2, <4>1 DEF Exchanges, NoneInFlight, InMsg
    <3>4. CASE ~SidecarClosed
      <4>1. down' = Append(down, Item("payload", t)) /\ pc' = [pc EXCEPT ![t] = "answer"] /\ UNCHANGED up
        BY <2>5, <3>4 DEF WriteBody, Put
      <4>2. pc'[t] = "answer" /\ \A u \in Threads : InMsg(u)' => u = t
        BY <1>0, <3>2, <4>1 DEF InMsg
      <4>3. Reading => Unread(t)
        BY <3>1 DEF OneInFlight
      <4>4. Reading => Unread(t)'
        BY <2>2, <2>3, <3>1, <4>1, <4>2, <4>3, ShortSeqs DEF Unread
      <4>5. OneInFlight(t)' /\ InMsg(t)'
        BY <2>2, <2>3, <3>1, <4>1, <4>2, <4>4 DEF OneInFlight, InMsg
      <4> QED  BY <4>2, <4>5 DEF Exchanges
    <3> QED  BY <2>5, <3>3, <3>4 DEF WriteBody
  <2>6. CASE ReadStatus(t)
    <3>1. InMsg(t) /\ OneInFlight(t)
      BY <2>2, <2>6 DEF ReadStatus, InMsg, Exchanges
    <3>2. \A u \in Threads : InMsg(u) => u = t
      BY <3>1 DEF Locked
    <3>3. pc' = [pc EXCEPT ![t] = "back"] /\ UNCHANGED down
      BY <2>6 DEF ReadStatus
    <3>4. \A u \in Threads : ~InMsg(u)'
      BY <1>0, <3>2, <3>3 DEF InMsg
    <3>5. CASE up # <<>> /\ up' = Tail(up)
      <4>1. up' = <<>>
        <5>1. up = <<Head(up)>>
          BY <3>1, <3>5 DEF OneInFlight
        <5>2. \A s : Tail(<<s>>) = <<>>
          OBVIOUS
        <5> QED  BY <3>5, <5>1, <5>2
      <4>2. Reading => down = <<>> /\ sc.pc # "body"
        BY <3>1, <3>5 DEF OneInFlight
      <4> QED  BY <2>2, <2>3, <3>3, <3>4, <4>1, <4>2 DEF Exchanges, NoneInFlight
    <3>6. CASE up = <<>> /\ SidecarClosed /\ UNCHANGED up
      <4>1. ~Reading
        BY <3>6 DEF SidecarClosed, Reading
      <4> QED  BY <2>3, <3>4, <3>6, <4>1 DEF Exchanges, NoneInFlight
    <3> QED  BY <2>6, <3>5, <3>6 DEF ReadStatus
  <2> QED  BY <2>1, <2>4, <2>5, <2>6 DEF Exchange
<1>6. CASE SidecarStep
  <2>1. UNCHANGED hostSide /\ host = "up" /\ ~stopWritten /\ ~shut
    BY <1>6, SidecarMoves DEF hostSide, history
  <2>2. UNCHANGED <<pc, call>>
    BY <2>1 DEF hostSide, hostVars
  <2>3. ASSUME NEW item \in Items, Message(item)
        PROVE  Exchanges'
    <3>1. PICK t \in Threads : /\ pc[t] = "answer" /\ item.msg = call[t] /\ item.from = t
                               /\ down' = <<>> /\ up = <<>> /\ OneInFlight(t)
      BY <2>1, <2>3, MessageInFlight
    <3>2. InMsg(t) /\ \A u \in Threads : InMsg(u) => u = t
      BY <3>1 DEF Locked, InMsg
    <3>3. sc'.pc # "body"
      BY <2>3, HandleCases DEF Message
    <3>4. up' = up \/ \E code \in {"Ok", "Refused", "BadHandshake"} : up' = Append(up, Status(code, item))
      BY <2>3, HandleCases DEF Message
    <3>5. up' # <<>> => up' = <<Head(up')>> /\ Head(up').to = t /\ Head(up').msg = call[t]
      <4>1. \A s : Append(<<>>, s) = <<s>> /\ Head(<<s>>) = s
        OBVIOUS
      <4>2. \A code : Status(code, item).to = t /\ Status(code, item).msg = call[t]
        BY <3>1 DEF Status
      <4> QED  BY <3>1, <3>4, <4>1, <4>2
    <3>6. OneInFlight(t)'
      BY <2>2, <3>1, <3>3, <3>5 DEF OneInFlight
    <3> QED  BY <2>2, <3>2, <3>6 DEF Exchanges, InMsg
  <2>4. CASE Header
    <3>1. Reading /\ down # <<>> /\ sc.pc # "body" /\ UNCHANGED up
      BY <2>4 DEF Header, Reading
    <3>2. PICK t \in Threads : InMsg(t) /\ OneInFlight(t)
      BY <2>1, <3>1 DEF Exchanges, NoneInFlight
    <3>3. up = <<>> /\ Unread(t)
      BY <3>1, <3>2 DEF OneInFlight
    <3>4. Head(down) = Item("header", t) /\ Payload(t)
      <4>1. Head(down) = Item("header", t)
        BY <3>1, <3>3 DEF Unread
      <4> QED  BY <2>4, <4>1 DEF Header, Item, Payload
    <3>5. down' = IF pc[t] = "body" THEN <<>> ELSE <<Item("payload", t)>>
      <4>1. down = IF pc[t] = "body" THEN <<Item("header", t)>> ELSE <<Item("header", t), Item("payload", t)>>
        BY <3>1, <3>2, <3>3, <3>4 DEF Unread, InMsg
      <4>2. down' = Tail(down)
        BY <2>4 DEF Header
      <4> QED  BY <4>1, <4>2, ShortSeqs
    <3>6. Item("header", t)' = Item("header", t) /\ Item("payload", t)' = Item("payload", t)
      BY <2>2 DEF Item
    <3>7. Unread(t)'
      BY <2>2, <2>4, <3>4, <3>5, <3>6 DEF Unread, Header, Payload
    <3>8. OneInFlight(t)'
      BY <2>2, <3>1, <3>2, <3>3, <3>7 DEF OneInFlight, Payload
    <3>9. \A u \in Threads : InMsg(u) => u = t
      BY <3>2 DEF Locked
    <3> QED  BY <2>2, <3>2, <3>8, <3>9 DEF Exchanges, InMsg
  <2>5. CASE Boots \/ Leaves \/ Flushes \/ Answers \/ Exits
    <3>1. UNCHANGED up
      BY <2>1, <2>5 DEF Boots, Leaves, Flushes, Answers, Exits, StopWritten
    <3>2. Quiet /\ UNCHANGED host
      BY <2>1, <3>1, SidecarQuiet DEF hostSide
    <3>3. Reading' => Reading /\ UNCHANGED down /\ sc.pc # "body" /\ sc'.pc # "body"
      BY <2>5 DEF Boots, Leaves, Flushes, Answers, Exits, Reading
    <3> QED  BY <3>2, <3>3, ExchangesKept
  <2> QED  BY <1>6, <2>3, <2>4, <2>5, SidecarMoves
<1>7. CASE Terminate
  <2>1. Quiet /\ UNCHANGED <<host, down, sc>>
    BY <1>7 DEF Terminate, Unhurt, hostVars, history, Quiet, InMsg
  <2> QED  BY <2>1, <1>1
<1>8. CASE Kill
  <2>1. Quiet /\ UNCHANGED host
    BY <1>8 DEF Kill, Unhurt, hostVars, history, Quiet, InMsg
  <2>2. ~Reading'
    BY <1>8, KillMoves DEF Killed, Reading
  <2> QED  BY <2>1, <2>2, ExchangesKept
<1>9. CASE HostDies
  BY <1>9 DEF HostDies
<1>10. CASE UNCHANGED vars
  <2>1. Quiet /\ UNCHANGED <<host, down, sc>>
    BY <1>10 DEF vars, hostVars, pipes, history, Quiet, InMsg
  <2> QED  BY <2>1, <1>1
<1> QED  BY <1>1, <1>2, <1>3, <1>4, <1>5, <1>6, <1>7, <1>8, <1>9, <1>10, Steps, HostMoves

LEMMA AnswersStep ==
  ASSUME Typed, Locked, ShutDown, Exchanges, AnswersMatchBeforeStop, [Next]_vars
  PROVE  AnswersMatchBeforeStop'
<1>1. ASSUME UNCHANGED <<crossed, stopWritten>> PROVE AnswersMatchBeforeStop'
  BY <1>1 DEF AnswersMatchBeforeStop
<1>2. CASE \E t \in Threads : Exchange(t)
  <2>1. PICK t \in Threads : Exchange(t)
    BY <1>2
  <2>2. CASE WriteHeader(t) \/ WriteBody(t)
    BY <2>2 DEF WriteHeader, WriteBody, history, AnswersMatchBeforeStop
  <2>3. CASE ReadStatus(t)
    <3>1. ASSUME ~stopWritten, up # <<>> PROVE Head(up).to = t /\ Head(up).msg = call[t]
      <4>1. host = "up" /\ InMsg(t) /\ ~shut
        BY <2>3 DEF ReadStatus, InMsg, ShutDown, InExchange
      <4> QED  BY <3>1, <4>1 DEF Exchanges, OneInFlight
    <3> QED  BY <2>3, <3>1 DEF ReadStatus, AnswersMatchBeforeStop
  <2> QED  BY <2>1, <2>2, <2>3 DEF Exchange
<1>3. CASE SidecarStep \/ Terminate \/ Kill \/ UNCHANGED vars
  <2>1. UNCHANGED history
    BY <1>3, SidecarMoves DEF Terminate, Kill, Unhurt, hostSide, vars
  <2> QED  BY <1>1, <2>1 DEF history
<1>4. CASE HostDies
  BY <1>4 DEF HostDies, AnswersMatchBeforeStop
<1> QED  BY <1>1, <1>2, <1>3, <1>4, Steps, HostMoves

ExchangeInv == ChildInv /\ Locked /\ ShutDown /\ StopWritten /\ Exchanges /\ AnswersMatchBeforeStop

LEMMA AlwaysExchangeInv == Spec => []ExchangeInv
<1>1. Init => ExchangeInv
  <2> SUFFICES ASSUME Init PROVE ExchangeInv
    OBVIOUS
  <2>1. ChildInv
    BY TypedInit, ChildInit DEF ChildInv
  <2>2. /\ \A t \in Threads : pc[t] \in {"new", "idle"}
        /\ sc.pc = "none" /\ sc.ack = FALSE /\ ~shut /\ ~stopSent /\ ~crossed /\ up = <<>> /\ down = <<>>
        /\ Owner \in Threads
    BY DEF Init, Threads
  <2> QED
    BY <2>1, <2>2 DEF ExchangeInv, Locked, InMsg, ShutDown, StopWritten, Exchanges, NoneInFlight,
                      AnswersMatchBeforeStop
<1>2. ExchangeInv /\ [Next]_vars => ExchangeInv'
  BY TypedStep, ChildKnownStep, FlushedFirstStep, LockedStep, ShutDownStep, StopWrittenStep, ExchangesStep,
     AnswersStep
     DEF ExchangeInv, ChildInv
<1> QED  BY <1>1, <1>2, PTL DEF Spec

\* Until MSG_STOP is written every thread is answered about its own message: the
\* lock spans an exchange, and at most one is in the pipes.
THEOREM AnswersMatchBeforeStopCorrect == Spec => []AnswersMatchBeforeStop
BY AlwaysExchangeInv, PTL DEF ExchangeInv

---------------------------------------------------------------------------
(* The same PIDs on both sides.                                            *)

\* The handle names a sidecar that has not been told to stop.
Live == host = "up" /\ handle = "live" /\ ~stopWritten

OwnersCall ==
  /\ call[Owner].type \in {"CONFIG", "START", "STOP", "JOIN", "REAPER"}
  /\ pc[Owner] = "teardown" => call[Owner].type = "STOP"

\* Before Configure() there is nothing.
Fresh ==
  host = "up" /\ pc[Owner] = "new" =>
    /\ sc.tracked = {} /\ local = {} /\ sc.phase = "config" /\ up = <<>>
    /\ \A t \in Callers : pc[t] = "idle"
    /\ ~reaperSent /\ call[Owner].type = "CONFIG"

\* The suite goes past Start() only when MSG_START was answered with Ok, and then
\* the sidecar is in its loop.
LoopKnown ==
  Live =>
    /\ pc[Owner] \in {"sync", "running"} \/ call[Owner].type \in {"REAPER", "STOP", "JOIN"} => sc.phase = "loop"
    /\ pc[Owner] = "back" /\ call[Owner].type = "START" /\ answer[Owner] = "Ok" => sc.phase = "loop"
    /\ up # <<>> /\ Head(up).code = "Ok" /\ Head(up).msg.type = "START" => sc.phase = "loop"

NotYet ==
  Live /\ sc.phase # "loop" =>
    /\ sc.tracked = {} /\ local = {}
    /\ \A t \in Callers : pc[t] = "idle"

\* t's message about a PID is on its way to the sidecar's probes.
Pending(t) ==
  /\ call[t].type \in {"ADD", "REMOVE"}
  /\ \/ pc[t] \in {"send", "body"}
     \/ pc[t] = "answer" /\ (sc.pc = "body" \/ down # <<>>)

\* Two calls about one PID at once are noted.
Alone ==
  host = "up" =>
    \A t, u \in Callers : t # u /\ pc[t] # "idle" /\ pc[u] # "idle" /\ call[t].pid = call[u].pid
                            => call[t].pid \in raced

\* The host's own probes have already done what the message on its way asks for.
Listed ==
  Live => \A t \in Callers : Pending(t) /\ call[t].pid \notin raced
                               => (call[t].type = "ADD" <=> call[t].pid \in local)

\* Both sides track the same PIDs, but for those a message is on its way about.
Agree ==
  Live /\ sc.pc \in {"poll", "body"} =>
    /\ sc.tracked \subseteq Pids
    /\ \A p \in Pids \ raced : \/ p \in sc.tracked <=> p \in local
                               \/ \E t \in Callers : call[t].pid = p /\ Pending(t)

\* The suite notes the reaper as told only once the sidecar has been.
Told ==
  Live =>
    /\ reaperSent => sc.told
    /\ \A t \in Threads : pc[t] = "back" /\ call[t].type = "REAPER" /\ answer[t] = "Ok" => sc.told
    /\ up # <<>> /\ Head(up).code = "Ok" /\ Head(up).msg.type = "REAPER" => sc.told

\* After MSG_STOP the sidecar reads nothing else.
AfterStop ==
  host = "up" /\ stopWritten /\ Reading => sc.pc # "body" /\ down # <<>> /\ Head(down).msg.type = "STOP"

LEMMA OwnersCallStep == ASSUME Typed, OwnersCall, [Next]_vars PROVE OwnersCall'
<1>0. Owner \in Threads /\ Owner \notin Callers /\ call \in [Threads -> Msgs] /\ pc \in [Threads -> Where]
  BY ThreadsAssumption DEF Typed, ThreadsOK, Threads, Owner
<1>1. CASE OwnerStep \/ Stop \/ EnableChildSubreaper
  <2>1. call'[Owner].type \in {"CONFIG", "START", "STOP", "JOIN", "REAPER"}
    BY <1>0, <1>1
       DEF OwnerStep, Configure, Configured, Start, StartAnswered, StopSignalled, Teardown, StopAcked, Reset,
           WaitChild, SyncHostReaper, ReaperTold, Stop, EnableChildSubreaper, SendNext, Msg, OwnersCall
  <2>2. AfterReset # "teardown"
    BY DEF AfterReset
  <2>3. pc'[Owner] = "teardown" => StopSignalled \/ EnableChildSubreaper
    BY <1>0, <1>1, <2>2
       DEF OwnerStep, Configure, Configured, Start, StartAnswered, Teardown, StopAcked, Reset,
           WaitChild, SyncHostReaper, ReaperTold, Stop, SendNext, Go
  <2> QED  BY <2>1, <2>3 DEF StopSignalled, EnableChildSubreaper, Back, OwnersCall
<1>2. CASE (\E t \in Callers : CallStep(t))
           \/ \E t \in Callers, p \in Pids : AddTrackedProcess(t, p) \/ RemoveTrackedProcess(t, p)
  <2>1. call'[Owner] = call[Owner] /\ pc'[Owner] = pc[Owner]
    BY <1>0, <1>2
       DEF CallStep, FanOutAdd, EndCall, SyncHostReaper, ReaperTold, SendNext, Go, Forward, AddTrackedProcess,
           RemoveTrackedProcess, BeginCall
  <2> QED  BY <2>1 DEF OwnersCall
<1>3. CASE \E t \in Threads : Exchange(t)
  <2>1. UNCHANGED call /\ (pc'[Owner] = "teardown" => pc[Owner] = "teardown")
    BY <1>0, <1>3 DEF Exchange, WriteHeader, WriteBody, ReadStatus, Put, Broken
  <2> QED  BY <2>1 DEF OwnersCall
<1>4. CASE SidecarStep \/ Terminate \/ Kill \/ UNCHANGED vars
  <2>1. UNCHANGED <<call, pc>>
    BY <1>4, SidecarMoves DEF Terminate, Kill, Unhurt, hostSide, hostVars, vars
  <2> QED  BY <2>1 DEF OwnersCall
<1>5. CASE HostDies
  BY <1>0, <1>5 DEF HostDies, OwnersCall, Msg
<1> QED  BY <1>1, <1>2, <1>3, <1>4, <1>5, Steps

LEMMA FreshStep == ASSUME Typed, ChildKnown, Fresh, [Next]_vars PROVE Fresh'
<1>0. Owner \in Threads /\ Owner \notin Callers /\ Callers \subseteq Threads /\ pc \in [Threads -> Where]
  BY ThreadsAssumption DEF Typed, ThreadsOK, Threads, Owner
<1> SUFFICES ASSUME host' = "up", pc'[Owner] = "new" PROVE Fresh'
  BY DEF Fresh
<1>1. CASE OwnerStep \/ Stop
  <2>1. AfterReset # "new"
    BY DEF AfterReset
  <2>2. FALSE
    BY <1>0, <1>1, <2>1
       DEF OwnerStep, Configure, Configured, Start, StartAnswered, StopSignalled, Teardown, StopAcked, Reset,
           WaitChild, SyncHostReaper, ReaperTold, Stop, SendNext, Go
  <2> QED  BY <2>2
<1>2. CASE (\E t \in Callers : CallStep(t))
           \/ (\E t \in Callers, p \in Pids : AddTrackedProcess(t, p) \/ RemoveTrackedProcess(t, p))
           \/ \E t \in Threads : Exchange(t)
  <2>1. host = "up"
    BY <1>2 DEF CallStep, FanOutAdd, EndCall, SyncHostReaper, ReaperTold, Back, AddTrackedProcess,
                RemoveTrackedProcess, BeginCall, Exchange, WriteHeader, WriteBody, ReadStatus
  <2>2. pc[Owner] = "new"
    BY <1>0, <1>2 DEF CallStep, FanOutAdd, EndCall, SyncHostReaper, ReaperTold, SendNext, Go, Forward,
                      AddTrackedProcess, RemoveTrackedProcess, BeginCall, Exchange, WriteHeader, WriteBody,
                      ReadStatus, Put, Broken
  <2>3. (\A t \in Threads : pc[t] \in {"new", "idle"}) /\ call[Owner].type = "CONFIG"
    BY <2>1, <2>2 DEF Fresh, Threads
  <2>4. FALSE
    BY <1>0, <1>2, <2>2, <2>3
       DEF CallStep, FanOutAdd, EndCall, SyncHostReaper, ReaperTold, Back, Started, AddTrackedProcess,
           RemoveTrackedProcess, BeginCall, Exchange, WriteHeader, WriteBody, ReadStatus
  <2> QED  BY <2>4
<1>3. CASE EnableChildSubreaper
  BY <1>3 DEF EnableChildSubreaper
<1>4. CASE SidecarStep \/ Kill
  <2>1. host = "up" /\ pc[Owner] = "new"
    BY <1>4, SidecarMoves DEF Kill, Unhurt, hostSide, hostVars
  <2>2. sc.pc = "none"
    BY <2>1 DEF ChildKnown
  <2>3. CASE SidecarStep
    BY <2>2, <2>3, SidecarMoves DEF Boots, Leaves, Header, Flushes, Answers, Exits, Message
  <2>4. CASE Kill
    BY <2>2, <2>4 DEF Kill, ScAlive
  <2> QED  BY <1>4, <2>3, <2>4
<1>5. CASE HostDies
  BY <1>5 DEF HostDies
<1>6. CASE Terminate \/ UNCHANGED vars
  BY <1>6 DEF Terminate, Unhurt, hostVars, pipes, vars, Fresh
<1> QED  BY <1>1, <1>2, <1>3, <1>4, <1>5, <1>6, Steps

LEMMA AloneStep == ASSUME Typed, Alone, [Next]_vars PROVE Alone'
<1>0. /\ Owner \in Threads /\ Owner \notin Callers /\ Callers \subseteq Threads /\ pc \in [Threads -> Where]
      /\ call \in [Threads -> Msgs]
  BY ThreadsAssumption DEF Typed, ThreadsOK, Threads, Owner
<1>1. ASSUME UNCHANGED raced, UNCHANGED host,
             \A t \in Callers : pc'[t] # "idle" => pc[t] # "idle" /\ call'[t].pid = call[t].pid
      PROVE  Alone'
  BY <1>1 DEF Alone
<1>2. CASE OwnerStep \/ Stop \/ EnableChildSubreaper
  <2>1. UNCHANGED raced /\ UNCHANGED host
    BY <1>2 DEF OwnerStep, Configure, Configured, Start, StartAnswered, StopSignalled, Teardown, StopAcked, Reset,
                WaitChild, SyncHostReaper, ReaperTold, Stop, EnableChildSubreaper, history
  <2>2. \A t \in Callers : call'[t] = call[t] /\ (pc'[t] # "idle" => pc[t] # "idle")
    BY <1>0, <1>2
       DEF OwnerStep, Configure, Configured, Start, StartAnswered, StopSignalled, Teardown, StopAcked, Reset,
           WaitChild, SyncHostReaper, ReaperTold, Stop, EnableChildSubreaper, SendNext, Go, InExchange
  <2> QED  BY <1>1, <2>1, <2>2
<1>3. CASE \E t \in Callers : CallStep(t)
  <2>1. PICK t \in Callers : CallStep(t)
    BY <1>3
  <2>2. UNCHANGED raced /\ UNCHANGED host /\ pc[t] # "idle"
    BY <2>1 DEF CallStep, FanOutAdd, EndCall, SyncHostReaper, ReaperTold, Back, history
  <2>3. /\ \A u \in Callers : u # t => pc'[u] = pc[u] /\ call'[u] = call[u]
        /\ pc'[t] = "idle" \/ call'[t].pid = call[t].pid
    <3>1. CASE EndCall(t)
      BY <1>0, <3>1 DEF EndCall, Go
    <3>2. CASE FanOutAdd(t)
      BY <1>0, <3>2 DEF FanOutAdd, Forward, Go, Msgs
    <3>3. CASE SyncHostReaper(t, "fan") \/ ReaperTold(t, "fan")
      BY <1>0, <3>3 DEF SyncHostReaper, ReaperTold, SendNext, Go, Msg
    <3> QED  BY <2>1, <3>1, <3>2, <3>3 DEF CallStep
  <2> QED  BY <1>1, <2>2, <2>3
<1>4. CASE \E t \in Callers, p \in Pids : AddTrackedProcess(t, p) \/ RemoveTrackedProcess(t, p)
  <2>1. PICK t \in Callers, p \in Pids : AddTrackedProcess(t, p) \/ RemoveTrackedProcess(t, p)
    BY <1>4
  <2>2. /\ host = "up" /\ pc[t] = "idle"
        /\ \E type \in {"ADD", "REMOVE"} : call' = [call EXCEPT ![t] = Msg(type, p)]
        /\ raced' = IF Racing(t, p) THEN raced \cup {p} ELSE raced
        /\ \E w \in {"sync", "idle", "send"} : pc' = [pc EXCEPT ![t] = w]
    BY <2>1 DEF AddTrackedProcess, RemoveTrackedProcess, BeginCall, Forward, Go
  <2>3. call'[t].pid = p /\ raced \subseteq raced' /\ \A u \in Callers : u # t => pc'[u] = pc[u] /\ call'[u] = call[u]
    BY <1>0, <2>2 DEF Msg
  <2>4. \A u \in Callers : u # t /\ pc[u] # "idle" /\ call[u].pid = p => p \in raced'
    BY <2>2 DEF Racing
  <2> QED  BY <2>2, <2>3, <2>4 DEF Alone
<1>5. CASE \E t \in Threads : Exchange(t)
  <2>1. UNCHANGED <<raced, host, call>> /\ \A t \in Threads : pc'[t] # "idle" => pc[t] # "idle"
    BY <1>0, <1>5 DEF Exchange, WriteHeader, WriteBody, ReadStatus, Put, Broken, history
  <2> QED  BY <1>0, <1>1, <2>1
<1>6. CASE SidecarStep \/ Terminate \/ Kill \/ UNCHANGED vars
  <2>1. UNCHANGED <<raced, host, call, pc>>
    BY <1>6, SidecarMoves DEF Terminate, Kill, Unhurt, hostSide, hostVars, vars, history
  <2> QED  BY <1>1, <2>1
<1>7. CASE HostDies
  BY <1>7 DEF HostDies, Alone
<1> QED  BY <1>2, <1>3, <1>4, <1>5, <1>6, <1>7, Steps

\* A message appended behind another leaves it first.
LEMMA FirstStays ==
  ASSUME NEW T, NEW s \in Seq(T), NEW e \in T
  PROVE  s # <<>> => Append(s, e) # <<>> /\ Head(Append(s, e)) = Head(s)
<1> SUFFICES ASSUME s # <<>> PROVE Append(s, e) # <<>> /\ Head(Append(s, e)) = Head(s)
  OBVIOUS
<1>1. 1 \in 1..Len(s) /\ Head(s) = s[1]
  OBVIOUS
<1>2. Append(s, e)[1] = s[1] /\ Append(s, e) \in Seq(T) /\ Append(s, e) # <<>>
  BY <1>1, AppendProperties
<1> QED  BY <1>1, <1>2

LEMMA AfterStopStep ==
  ASSUME ExchangeInv, AfterStop, [Next]_vars
  PROVE  AfterStop'
<1>0. /\ Typed /\ Exchanges /\ Locked /\ ShutDown /\ ChildKnown /\ Owner \in Threads /\ Free \notin Threads
      /\ down \in Seq(Items) /\ sc \in ScStates
  BY ThreadsAssumption DEF ExchangeInv, ChildInv, Typed, PipesOK, SidecarOK, Threads, Owner, Free
<1>1. ASSUME UNCHANGED <<host, stopWritten, down>>, Reading' => Reading /\ sc'.pc # "body"
      PROVE  AfterStop'
  BY <1>1 DEF AfterStop
<1>2. CASE OwnerStep \/ Stop \/ EnableChildSubreaper \/ (\E t \in Callers : CallStep(t))
           \/ \E t \in Callers, p \in Pids : AddTrackedProcess(t, p) \/ RemoveTrackedProcess(t, p)
  <2>1. UNCHANGED <<host, stopWritten, down>>
    BY <1>0, <1>2, HostMoves
  <2>2. UNCHANGED sc \/ (Configure /\ sc' = [sc EXCEPT !.pc = "boot"])
    BY <1>0, <1>2, HostMoves DEF Configure, Launched, Reset
  <2>3. CASE UNCHANGED sc
    BY <2>1, <2>3 DEF AfterStop, Reading
  <2>4. CASE Configure /\ sc' = [sc EXCEPT !.pc = "boot"]
    <3>1. sc.pc = "none"
      BY <1>0, <2>4 DEF Configure, ChildKnown
    <3>2. sc'.pc = "boot"
      BY <1>0, <2>4 DEF ScStates
    <3> QED  BY <1>1, <2>1, <3>1, <3>2 DEF Reading
  <2> QED  BY <2>2, <2>3, <2>4
<1>3. CASE \E t \in Threads : Exchange(t)
  <2>1. PICK t \in Threads : Exchange(t)
    BY <1>3
  <2>2. /\ host = "up" /\ UNCHANGED <<host, sc>> /\ (stopWritten => stopWritten')
        /\ UNCHANGED down \/ \E i \in Items : down' = Append(down, i)
    BY <1>0, <2>1, MessageTypes DEF Exchange, WriteHeader, WriteBody, ReadStatus, Put, Broken, history, pipes
  <2>3. CASE stopWritten
    BY <1>0, <2>2, <2>3, FirstStays DEF AfterStop, Reading
  <2>4. CASE ~stopWritten /\ stopWritten'
    <3>1. WriteHeader(t) /\ call[t].type = "STOP" /\ down' = Append(down, Item("header", t)) /\ mutex = Free
      BY <2>1, <2>4 DEF Exchange, WriteHeader, WriteBody, ReadStatus, Put, history
    <3>2. (\A u \in Threads : ~InMsg(u)) /\ ~shut
      BY <1>0, <2>2, <3>1 DEF Locked, WriteHeader, ShutDown, InExchange
    <3>3. Reading => down = <<>> /\ sc.pc # "body"
      BY <1>0, <2>2, <2>4, <3>2 DEF Exchanges, NoneInFlight
    <3>4. Reading => down' = <<Item("header", t)>>
      BY <3>1, <3>3, ShortSeqs
    <3>5. Item("header", t).msg.type = "STOP"
      BY <3>1 DEF Item
    <3> QED  BY <2>2, <3>3, <3>4, <3>5 DEF AfterStop, Reading
  <2> QED  BY <2>3, <2>4 DEF AfterStop
<1>4. CASE SidecarStep
  <2>1. UNCHANGED <<host, stopWritten>>
    BY <1>0, <1>4, SidecarMoves DEF hostSide, history
  <2>2. CASE Header
    BY <2>1, <2>2 DEF Header, AfterStop, Reading, HasPayload
  <2>3. ASSUME NEW item \in Items, Message(item) PROVE AfterStop'
    <3>1. ASSUME host = "up", stopWritten PROVE ~Reading'
      <4>1. item.msg.type = "STOP"
        BY <2>3, <3>1 DEF Message, AfterStop, Reading
      <4> QED  BY <1>0, <2>3, <4>1, HandleCases DEF Message, Reading
    <3> QED  BY <2>1, <3>1 DEF AfterStop
  <2>4. CASE Boots \/ Leaves \/ Flushes \/ Answers \/ Exits
    <3>1. ~Reading' \/ (Boots /\ UNCHANGED down /\ Reading /\ sc'.pc # "body")
      BY <2>4 DEF Boots, Leaves, Flushes, Answers, Exits, Reading
    <3> QED  BY <1>1, <2>1, <3>1 DEF AfterStop
  <2> QED  BY <1>0, <1>4, <2>2, <2>3, <2>4, SidecarMoves
<1>5. CASE Terminate \/ UNCHANGED vars
  BY <1>5 DEF Terminate, Unhurt, history, vars, pipes, AfterStop, Reading
<1>6. CASE Kill
  <2>1. ~Reading'
    BY <1>0, <1>6, KillMoves DEF Killed, Reading
  <2> QED  BY <2>1 DEF AfterStop
<1>7. CASE HostDies
  BY <1>7 DEF HostDies, AfterStop
<1> QED  BY <1>2, <1>3, <1>4, <1>5, <1>6, <1>7, Steps

\* A handle that is live was, but for Configure().
LEMMA LiveBefore ==
  ASSUME ExchangeInv, [Next]_vars, Live'
  PROVE  (Live \/ Configure) /\ (Live => ~shut) /\ host = "up" /\ ~stopWritten
<1>1. CASE Stop \/ EnableChildSubreaper \/ (\E t \in Callers : CallStep(t))
           \/ \E t \in Callers, p \in Pids : AddTrackedProcess(t, p) \/ RemoveTrackedProcess(t, p)
  <2>1. UNCHANGED <<host, handle, stopWritten>>
    BY <1>1 DEF Stop, EnableChildSubreaper, CallStep, FanOutAdd, EndCall, SyncHostReaper, ReaperTold,
                AddTrackedProcess, RemoveTrackedProcess, BeginCall, history
  <2> QED  BY <2>1 DEF Live, ExchangeInv, ShutDown
<1>2. CASE OwnerStep
  <2>1. UNCHANGED <<host, stopWritten>> /\ (handle' = "live" => handle = "live" \/ Configure)
    BY <1>2 DEF OwnerStep, Configured, Start, StartAnswered, StopSignalled, Teardown, StopAcked, Reset,
                WaitChild, SyncHostReaper, ReaperTold, DescribeExit, history, Configure
  <2> QED  BY <2>1 DEF Live, ExchangeInv, ShutDown
<1>3. CASE \E t \in Threads : Exchange(t)
  <2>1. UNCHANGED <<host, handle>> /\ (stopWritten => stopWritten')
    BY <1>3 DEF Exchange, WriteHeader, WriteBody, ReadStatus, history
  <2> QED  BY <2>1 DEF Live, ExchangeInv, ShutDown
<1>4. CASE SidecarStep \/ Terminate \/ Kill \/ UNCHANGED vars
  <2>1. UNCHANGED <<host, handle, stopWritten>>
    BY <1>4, SidecarMoves DEF ExchangeInv, ChildInv, Terminate, Kill, Unhurt, hostSide, hostVars, vars, history
  <2> QED  BY <2>1 DEF Live, ExchangeInv, ShutDown
<1>5. CASE HostDies
  BY <1>5 DEF HostDies, Live
<1> QED  BY <1>1, <1>2, <1>3, <1>4, <1>5, Steps

\* What the sidecar knows it keeps while it runs, and who changes what it tracks.
LEMMA ScKeeps ==
  ASSUME Typed, [Next]_vars
  PROVE  /\ sc.phase = "loop" => sc'.phase = "loop"
         /\ sc.told => sc'.told
         /\ \/ UNCHANGED hostSide /\ \E item \in Items : Message(item)
            \/ sc'.phase = sc.phase /\ (sc'.tracked = sc.tracked \/ (sc'.tracked = {} /\ sc'.pc = "gone"))
<1>0. sc \in ScStates
  BY DEF Typed, SidecarOK
<1>1. CASE SidecarStep
  <2>1. CASE Boots \/ Leaves \/ Header \/ Flushes \/ Answers \/ Exits
    BY <2>1 DEF Boots, Leaves, Header, Flushes, Answers, Exits, SidecarKeeps
  <2>2. ASSUME NEW item \in Items, Message(item)
        PROVE  (sc.phase = "loop" => sc'.phase = "loop") /\ (sc.told => sc'.told)
    <3>1. Handle(item)
      BY <2>2 DEF Message
    <3> QED  BY <3>1, HandleCases, Zenon
  <2> QED  BY <1>1, <2>1, <2>2, SidecarMoves
<1>2. CASE Kill
  BY <1>2, KillMoves DEF Killed, SidecarKeeps
<1>3. CASE HostDies \/ Terminate \/ UNCHANGED vars
  BY <1>3 DEF HostDies, Terminate, vars
<1>4. CASE \E t \in Threads : Exchange(t)
  BY <1>4 DEF Exchange, WriteHeader, WriteBody, ReadStatus
<1>5. CASE OwnerStep \/ Stop \/ EnableChildSubreaper \/ (\E t \in Callers : CallStep(t))
           \/ \E t \in Callers, p \in Pids : AddTrackedProcess(t, p) \/ RemoveTrackedProcess(t, p)
  <2>1. UNCHANGED sc \/ sc' = [sc EXCEPT !.pc = "boot"]
    BY <1>5, HostMoves DEF Configure, Launched, Reset
  <2>2. sc' = [sc EXCEPT !.pc = "boot"] => UNCHANGED <<sc.phase, sc.told, sc.tracked>>
    BY <1>0 DEF ScStates
  <2> QED  BY <2>1, <2>2
<1> QED  BY <1>1, <1>2, <1>3, <1>4, <1>5, Steps

\* Reading its status empties the pipe and tells t of its own message.
LEMMA ReadOwn ==
  ASSUME ExchangeInv, ~stopWritten, NEW t \in Threads, ReadStatus(t)
  PROVE  /\ up' = <<>> /\ InMsg(t) /\ OneInFlight(t) /\ host = "up" /\ ~shut
         /\ answer'[t] = "Ok" => up # <<>> /\ Head(up).code = "Ok" /\ Head(up).msg = call[t]
<1>0. answer \in [Threads -> {"Ok", "BadHandshake", "Refused", "Exited"}]
  BY DEF ExchangeInv, ChildInv, Typed, ThreadsOK
<1>1. InMsg(t) /\ host = "up" /\ ~shut
  BY DEF ReadStatus, InMsg, ExchangeInv, ShutDown, InExchange
<1>2. OneInFlight(t)
  BY <1>1 DEF ExchangeInv, Exchanges
<1>3. CASE up # <<>>
  <2>1. up = <<Head(up)>> /\ Head(up).msg = call[t]
    BY <1>2, <1>3 DEF OneInFlight
  <2>2. up' = Tail(up) /\ answer' = [answer EXCEPT ![t] = Head(up).code]
    BY <1>3 DEF ReadStatus
  <2>3. up' = <<>>
    BY <2>1, <2>2, ShortSeqs
  <2> QED  BY <1>0, <1>1, <1>2, <1>3, <2>1, <2>2, <2>3
<1>4. CASE up = <<>>
  BY <1>0, <1>1, <1>2, <1>4 DEF ReadStatus
<1> QED  BY <1>3, <1>4

\* Whoever has been answered Ok has it from the status of its own message.
LEMMA BackWithOk ==
  ASSUME ExchangeInv, [Next]_vars, Live', NEW t \in Threads, pc'[t] = "back", answer'[t] = "Ok"
  PROVE  /\ call'[t] = call[t]
         /\ \/ pc[t] = "back" /\ answer[t] = "Ok"
            \/ up # <<>> /\ Head(up).code = "Ok" /\ Head(up).msg = call[t]
<1>0. /\ Typed /\ pc \in [Threads -> Where] /\ call \in [Threads -> Msgs] /\ ~stopWritten /\ ~stopWritten'
      /\ answer \in [Threads -> {"Ok", "BadHandshake", "Refused", "Exited"}]
      /\ Owner \in Threads /\ Callers \subseteq Threads /\ Owner \notin Callers
  BY LiveBefore, ThreadsAssumption DEF ExchangeInv, ChildInv, Typed, ThreadsOK, Live, Threads, Owner
<1>1. CASE OwnerStep \/ Stop \/ EnableChildSubreaper
  <2>1. AfterReset # "back"
    BY DEF AfterReset
  <2> QED
    BY <1>0, <1>1, <2>1
       DEF OwnerStep, Configure, Configured, Start, StartAnswered, StopSignalled, Teardown, StopAcked, Reset,
           WaitChild, SyncHostReaper, ReaperTold, Stop, EnableChildSubreaper, SendNext, Go, Back
<1>2. CASE (\E u \in Callers : CallStep(u))
           \/ \E u \in Callers, p \in Pids : AddTrackedProcess(u, p) \/ RemoveTrackedProcess(u, p)
  BY <1>0, <1>2
     DEF CallStep, FanOutAdd, EndCall, SyncHostReaper, ReaperTold, SendNext, Go, Forward, Back,
         AddTrackedProcess, RemoveTrackedProcess, BeginCall
<1>3. CASE \E u \in Threads : Exchange(u)
  <2>1. PICK u \in Threads : Exchange(u)
    BY <1>3
  <2>2. UNCHANGED call
    BY <2>1 DEF Exchange, WriteHeader, WriteBody, ReadStatus
  <2>3. CASE u # t
    BY <1>0, <2>1, <2>2, <2>3 DEF Exchange, WriteHeader, WriteBody, ReadStatus, Put, Broken
  <2>4. CASE u = t /\ WriteHeader(t)
    BY <1>0, <2>4 DEF WriteHeader, Put, Broken
  <2>5. CASE u = t /\ WriteBody(t)
    BY <1>0, <2>5 DEF WriteBody, Put, Broken
  <2>6. CASE u = t /\ ReadStatus(t)
    BY <1>0, <2>2, <2>6, ReadOwn
  <2> QED  BY <2>1, <2>3, <2>4, <2>5, <2>6 DEF Exchange
<1>4. CASE SidecarStep \/ Terminate \/ Kill \/ UNCHANGED vars
  <2>1. UNCHANGED <<pc, call, answer>>
    BY <1>0, <1>4, SidecarMoves DEF Terminate, Kill, Unhurt, hostSide, hostVars, vars
  <2> QED  BY <2>1
<1>5. CASE HostDies
  BY <1>5 DEF HostDies, Live
<1> QED  BY <1>1, <1>2, <1>3, <1>4, <1>5, Steps

\* The pipe of statuses is as it was, empty, or holds the answer to the message
\* the sidecar has just taken.
LEMMA UpMoves ==
  ASSUME ExchangeInv, [Next]_vars, Live, Live'
  PROVE  \/ up' = up
         \/ up' = <<>>
         \/ \E item \in Items : /\ Message(item)
                                /\ \E code \in {"Ok", "Refused", "BadHandshake"} :
                                     /\ up' = <<Status(code, item)>> /\ Head(up') = Status(code, item)
                                     /\ up' = Append(up, Status(code, item)) /\ up = <<>>
<1>0. Typed /\ ~stopWritten /\ host = "up" /\ ~shut
  BY LiveBefore DEF ExchangeInv, ChildInv, Live
<1>1. CASE OwnerStep \/ Stop \/ EnableChildSubreaper \/ (\E u \in Callers : CallStep(u))
           \/ \E u \in Callers, p \in Pids : AddTrackedProcess(u, p) \/ RemoveTrackedProcess(u, p)
  BY <1>0, <1>1, HostMoves
<1>2. CASE \E t \in Threads : Exchange(t)
  <2>1. PICK t \in Threads : Exchange(t)
    BY <1>2
  <2>2. CASE WriteHeader(t) \/ WriteBody(t)
    BY <2>2 DEF WriteHeader, WriteBody
  <2>3. CASE ReadStatus(t)
    BY <1>0, <2>3, ReadOwn
  <2> QED  BY <2>1, <2>2, <2>3 DEF Exchange
<1>3. CASE SidecarStep
  <2>1. CASE Boots \/ Leaves \/ Header \/ Flushes \/ Exits
    BY <2>1 DEF Boots, Leaves, Header, Flushes, Exits
  <2>2. CASE Answers
    BY <1>0, <2>2 DEF Answers, ExchangeInv, StopWritten
  <2>3. ASSUME NEW item \in Items, Message(item), up' # up
        PROVE  \E code \in {"Ok", "Refused", "BadHandshake"} :
                 /\ up' = <<Status(code, item)>> /\ Head(up') = Status(code, item)
                 /\ up' = Append(up, Status(code, item)) /\ up = <<>>
    <3>1. up = <<>>
      BY <1>0, <2>3, MessageInFlight DEF ExchangeInv
    <3>2. PICK code \in {"Ok", "Refused", "BadHandshake"} : up' = Append(up, Status(code, item))
      BY <1>0, <2>3, HandleCases DEF Message
    <3> QED  BY <3>1, <3>2, ShortSeqs
  <2> QED  BY <1>0, <1>3, <2>1, <2>2, <2>3, SidecarMoves
<1>4. CASE Terminate \/ Kill \/ UNCHANGED vars
  BY <1>4 DEF Terminate, Kill, vars, pipes
<1>5. CASE HostDies
  BY <1>5 DEF HostDies
<1> QED  BY <1>1, <1>2, <1>3, <1>4, <1>5, Steps

LEMMA ConfigureLive ==
  ASSUME ExchangeInv, Fresh, Configure, Live'
  PROVE  /\ sc.tracked = {} /\ sc'.tracked = {} /\ local' = {} /\ sc'.phase = "config" /\ up' = <<>> /\ ~reaperSent'
         /\ \A t \in Callers : pc'[t] = "idle"
         /\ pc'[Owner] = "send" /\ call'[Owner].type = "CONFIG" /\ sc'.pc = "boot"
<1>0. /\ pc \in [Threads -> Where] /\ call \in [Threads -> Msgs] /\ sc \in ScStates
      /\ Owner \in Threads /\ Callers \subseteq Threads /\ Owner \notin Callers
  BY ThreadsAssumption DEF ExchangeInv, ChildInv, Typed, ThreadsOK, SidecarOK, Threads, Owner
<1>1. host = "up" /\ pc[Owner] = "new" /\ UNCHANGED <<local, up, reaperSent>>
  BY DEF Configure, pipes
<1>2. Launched /\ SendNext(Owner, "CONFIG", NoPid)
  <2>1. handle # "live"
    BY <1>1 DEF ExchangeInv, ChildInv, ChildKnown
  <2> QED  BY <2>1 DEF Configure, Live
<1>3. sc'.tracked = sc.tracked /\ sc'.phase = sc.phase /\ sc'.pc = "boot"
  BY <1>0, <1>2 DEF Launched, ScStates
<1>4. pc'[Owner] = "send" /\ call'[Owner].type = "CONFIG" /\ \A t \in Callers : pc'[t] = pc[t]
  BY <1>0, <1>2 DEF SendNext, Go, Msg
<1> QED  BY <1>1, <1>3, <1>4 DEF Fresh

LEMMA LoopKnownStep ==
  ASSUME ExchangeInv, OwnersCall, Fresh, LoopKnown, [Next]_vars
  PROVE  LoopKnown'
<1>0. /\ Typed /\ pc \in [Threads -> Where] /\ call \in [Threads -> Msgs] /\ sc \in ScStates
      /\ Owner \in Threads /\ Callers \subseteq Threads /\ Owner \notin Callers
  BY ThreadsAssumption DEF ExchangeInv, ChildInv, Typed, ThreadsOK, SidecarOK, Threads, Owner
<1> SUFFICES ASSUME Live' PROVE LoopKnown'
  BY DEF LoopKnown
<1>1. CASE Configure
  BY <1>1, ConfigureLive DEF LoopKnown
<1>2. CASE ~Configure
  <2>0. Live /\ host = "up"
    BY <1>2, LiveBefore
  <2> DEFINE Past == pc[Owner] \in {"sync", "running"} \/ call[Owner].type \in {"REAPER", "STOP", "JOIN"}
             Begun == pc[Owner] = "back" /\ call[Owner].type = "START" /\ answer[Owner] = "Ok"
  <2>1. Past \/ Begun => sc'.phase = "loop"
    BY <1>0, <2>0, ScKeeps DEF LoopKnown
  <2>2. pc'[Owner] \in {"sync", "running"} \/ call'[Owner].type \in {"REAPER", "STOP", "JOIN"} => Past \/ Begun
    <3>1. CASE OwnerStep \/ Stop \/ EnableChildSubreaper
      <4>1. ~WaitChild /\ ~Reset
        BY <1>0, <2>0 DEF WaitChild, Reset, Live, ExchangeInv, ChildInv, ChildKnown
      <4>2. CASE Configured \/ StopSignalled \/ StopAcked
        BY <1>0, <4>2 DEF Configured, StopSignalled, StopAcked, Go, Back
      <4>3. CASE Start
        BY <1>0, <4>3 DEF Start, SendNext, Go, Msg
      <4>4. CASE StartAnswered
        BY <1>0, <4>4 DEF StartAnswered, Go, Back
      <4>5. CASE Teardown
        BY <1>0, <4>5 DEF Teardown, OwnersCall
      <4>6. CASE SyncHostReaper(Owner, "running") \/ ReaperTold(Owner, "running")
        BY <1>0, <4>6 DEF SyncHostReaper, ReaperTold, SendNext, Go, Back, Msg
      <4>7. CASE Stop
        BY <1>0, <4>7 DEF Stop, SendNext, Go, Msg
      <4>8. CASE EnableChildSubreaper
        BY <4>8 DEF EnableChildSubreaper
      <4> QED  BY <1>2, <3>1, <4>1, <4>2, <4>3, <4>4, <4>5, <4>6, <4>7, <4>8 DEF OwnerStep
    <3>2. CASE (\E t \in Callers : CallStep(t))
               \/ \E t \in Callers, p \in Pids : AddTrackedProcess(t, p) \/ RemoveTrackedProcess(t, p)
      <4>1. pc'[Owner] = pc[Owner] /\ call'[Owner] = call[Owner]
        BY <1>0, <3>2
           DEF CallStep, FanOutAdd, EndCall, SyncHostReaper, ReaperTold, SendNext, Go, Forward,
               AddTrackedProcess, RemoveTrackedProcess, BeginCall
      <4> QED  BY <4>1
    <3>3. CASE \E t \in Threads : Exchange(t)
      <4>1. UNCHANGED call /\ (pc'[Owner] = pc[Owner] \/ pc'[Owner] \in {"body", "answer", "back"})
        BY <1>0, <3>3 DEF Exchange, WriteHeader, WriteBody, ReadStatus, Put, Broken
      <4> QED  BY <4>1
    <3>4. CASE SidecarStep \/ Terminate \/ Kill \/ UNCHANGED vars
      <4>1. UNCHANGED <<pc, call>>
        BY <1>0, <3>4, SidecarMoves DEF Terminate, Kill, Unhurt, hostSide, hostVars, vars
      <4> QED  BY <4>1
    <3>5. CASE HostDies
      BY <3>5 DEF HostDies, Live
    <3> QED  BY <3>1, <3>2, <3>3, <3>4, <3>5, Steps
  <2>3. pc'[Owner] = "back" /\ call'[Owner].type = "START" /\ answer'[Owner] = "Ok" => sc'.phase = "loop"
    <3>1. SUFFICES ASSUME pc'[Owner] = "back", call'[Owner].type = "START", answer'[Owner] = "Ok"
                   PROVE  sc'.phase = "loop"
      OBVIOUS
    <3>2. Begun \/ (up # <<>> /\ Head(up).code = "Ok" /\ Head(up).msg.type = "START")
      BY <1>0, <3>1, BackWithOk
    <3> QED  BY <1>0, <2>0, <3>2, ScKeeps DEF LoopKnown
  <2>4. up' # <<>> /\ Head(up').code = "Ok" /\ Head(up').msg.type = "START" => sc'.phase = "loop"
    <3>1. CASE up' = up
      BY <1>0, <2>0, <3>1, ScKeeps DEF LoopKnown
    <3>2. ASSUME NEW item \in Items, Message(item), NEW code \in {"Ok", "Refused", "BadHandshake"},
                 Head(up') = Status(code, item), up' = Append(up, Status(code, item)), up = <<>>,
                 code = "Ok", item.msg.type = "START"
          PROVE  sc'.phase = "loop"
      <4>1. Handle(item)
        BY <3>2 DEF Message
      <4>2. \A c \in {"Ok", "Refused", "BadHandshake"} : up' = Append(up, Status(c, item)) => c = "Ok"
        BY <3>2, ShortSeqs DEF Status
      <4> QED  BY <1>0, <3>2, <4>1, <4>2, HandleCases
    <3>3. \A code, item : Status(code, item).code = code /\ Status(code, item).msg = item.msg
      BY DEF Status
    <3> QED  BY <2>0, <3>1, <3>2, <3>3, UpMoves
  <2> QED  BY <2>1, <2>2, <2>3, <2>4 DEF LoopKnown
<1> QED  BY <1>1, <1>2

LEMMA NotYetStep ==
  ASSUME ExchangeInv, Fresh, LoopKnown, NotYet, [Next]_vars
  PROVE  NotYet'
<1>0. /\ Typed /\ pc \in [Threads -> Where] /\ sc \in ScStates
      /\ Owner \in Threads /\ Callers \subseteq Threads /\ Owner \notin Callers
  BY ThreadsAssumption DEF ExchangeInv, ChildInv, Typed, ThreadsOK, SidecarOK, Threads, Owner
<1> SUFFICES ASSUME Live', sc'.phase # "loop"
             PROVE  sc'.tracked = {} /\ local' = {} /\ \A t \in Callers : pc'[t] = "idle"
  BY DEF NotYet
<1>1. CASE Configure
  BY <1>1, ConfigureLive
<1>2. CASE ~Configure
  <2>1. Live /\ sc.phase # "loop"
    BY <1>0, <1>2, LiveBefore, ScKeeps
  <2>2. sc.tracked = {} /\ local = {} /\ (\A t \in Callers : pc[t] = "idle") /\ ~Started(Owner)
    BY <2>1 DEF NotYet, LoopKnown, Started
  <2>3. sc'.tracked = {}
    <3>1. ASSUME NEW item \in Items, Message(item) PROVE sc'.tracked = sc.tracked
      <4>1. Handle(item)
        BY <3>1 DEF Message
      <4> QED  BY <1>0, <2>1, <4>1, HandleCases
    <3> QED  BY <1>0, <2>2, <3>1, ScKeeps
  <2>4. local' = local /\ \A t \in Callers : pc'[t] = pc[t]
    <3>1. CASE OwnerStep \/ Stop \/ EnableChildSubreaper
      BY <1>0, <2>2, <3>1
         DEF OwnerStep, Configure, Configured, Start, StartAnswered, StopSignalled, Teardown, StopAcked, Reset,
             WaitChild, SyncHostReaper, ReaperTold, Stop, EnableChildSubreaper, SendNext, Go, InExchange
    <3>2. CASE (\E t \in Callers : CallStep(t))
               \/ \E t \in Callers, p \in Pids : AddTrackedProcess(t, p) \/ RemoveTrackedProcess(t, p)
      BY <2>2, <3>2 DEF CallStep, FanOutAdd, EndCall, SyncHostReaper, ReaperTold, Back, AddTrackedProcess,
                        RemoveTrackedProcess, BeginCall
    <3>3. CASE \E t \in Threads : Exchange(t)
      BY <1>0, <2>2, <3>3 DEF Exchange, WriteHeader, WriteBody, ReadStatus, Put, Broken
    <3>4. CASE SidecarStep \/ Terminate \/ Kill \/ UNCHANGED vars
      <4>1. UNCHANGED <<pc, local>>
        BY <1>0, <3>4, SidecarMoves DEF Terminate, Kill, Unhurt, hostSide, hostVars, vars
      <4> QED  BY <4>1
    <3>5. CASE HostDies
      BY <3>5 DEF HostDies, Live
    <3> QED  BY <3>1, <3>2, <3>3, <3>4, <3>5, Steps
  <2> QED  BY <2>2, <2>3, <2>4
<1> QED  BY <1>1, <1>2

LEMMA ToldStep ==
  ASSUME ExchangeInv, Fresh, Told, [Next]_vars
  PROVE  Told'
<1>0. /\ Typed /\ pc \in [Threads -> Where] /\ sc \in ScStates
      /\ Owner \in Threads /\ Callers \subseteq Threads /\ Owner \notin Callers /\ Threads = {Owner} \cup Callers
  BY ThreadsAssumption DEF ExchangeInv, ChildInv, Typed, ThreadsOK, SidecarOK, Threads, Owner
<1> SUFFICES ASSUME Live' PROVE Told'
  BY DEF Told
<1>1. CASE Configure
  BY <1>0, <1>1, ConfigureLive DEF Told
<1>2. CASE ~Configure
  <2>0. Live /\ host = "up" /\ handle = "live"
    BY <1>2, LiveBefore DEF Live
  <2>1. reaperSent' => sc'.told
    <3>1. ASSUME reaperSent' # reaperSent, reaperSent'
          PROVE  \E t \in Threads : pc[t] = "back" /\ call[t].type = "REAPER" /\ answer[t] = "Ok"
      <4>1. CASE OwnerStep \/ Stop \/ EnableChildSubreaper
        BY <1>0, <2>0, <3>1, <4>1
           DEF OwnerStep, Configure, Configured, Start, StartAnswered, StopSignalled, Teardown, StopAcked, Reset,
               WaitChild, SyncHostReaper, ReaperTold, Stop, EnableChildSubreaper, Back
      <4>2. CASE (\E t \in Callers : CallStep(t))
                 \/ \E t \in Callers, p \in Pids : AddTrackedProcess(t, p) \/ RemoveTrackedProcess(t, p)
        BY <1>0, <2>0, <3>1, <4>2
           DEF CallStep, FanOutAdd, EndCall, SyncHostReaper, ReaperTold, AddTrackedProcess, RemoveTrackedProcess,
               BeginCall, Back
      <4>3. CASE \E t \in Threads : Exchange(t)
        BY <3>1, <4>3 DEF Exchange, WriteHeader, WriteBody, ReadStatus
      <4>4. CASE SidecarStep \/ Terminate \/ Kill \/ UNCHANGED vars
        <5>1. UNCHANGED reaperSent
          BY <1>0, <4>4, SidecarMoves DEF Terminate, Kill, Unhurt, hostSide, hostVars, vars
        <5> QED  BY <3>1, <5>1
      <4>5. CASE HostDies
        BY <4>5 DEF HostDies, Live
      <4> QED  BY <4>1, <4>2, <4>3, <4>4, <4>5, Steps
    <3> QED  BY <1>0, <2>0, <3>1, ScKeeps DEF Told
  <2>2. ASSUME NEW t \in Threads, pc'[t] = "back", call'[t].type = "REAPER", answer'[t] = "Ok"
        PROVE  sc'.told
    <3>1. \/ pc[t] = "back" /\ answer[t] = "Ok" /\ call[t].type = "REAPER"
          \/ up # <<>> /\ Head(up).code = "Ok" /\ Head(up).msg.type = "REAPER"
      BY <2>2, BackWithOk
    <3> QED  BY <1>0, <2>0, <3>1, ScKeeps DEF Told
  <2>3. up' # <<>> /\ Head(up').code = "Ok" /\ Head(up').msg.type = "REAPER" => sc'.told
    <3>1. CASE up' = up
      BY <1>0, <2>0, <3>1, ScKeeps DEF Told
    <3>2. ASSUME NEW item \in Items, Message(item), NEW code \in {"Ok", "Refused", "BadHandshake"},
                 Head(up') = Status(code, item), up' = Append(up, Status(code, item)), up = <<>>,
                 code = "Ok", item.msg.type = "REAPER"
          PROVE  sc'.told
      <4>1. Handle(item)
        BY <3>2 DEF Message
      <4>2. \A c \in {"Ok", "Refused", "BadHandshake"} : up' = Append(up, Status(c, item)) => c = "Ok"
        BY <3>2, ShortSeqs DEF Status
      <4> QED  BY <1>0, <3>2, <4>1, <4>2, HandleCases
    <3>3. \A code, item : Status(code, item).code = code /\ Status(code, item).msg = item.msg
      BY DEF Status
    <3> QED  BY <2>0, <3>1, <3>2, <3>3, UpMoves
  <2> QED  BY <2>1, <2>2, <2>3 DEF Told
<1> QED  BY <1>1, <1>2

\* What becomes of a message on its way.
LEMMA PendingMoves ==
  ASSUME ExchangeInv, [Next]_vars, Live, Live', NEW t \in Callers
  PROVE  /\ \/ FanOutAdd(t) \/ \E p \in Pids : RemoveTrackedProcess(t, p)
            \/ Pending(t)' => Pending(t) /\ call'[t] = call[t]
         /\ Pending(t) /\ sc'.pc \in {"poll", "body"}
              => \/ Pending(t)' /\ call'[t] = call[t]
                 \/ UNCHANGED hostSide /\ \E item \in Items : Message(item)
<1>0. /\ Typed /\ pc \in [Threads -> Where] /\ call \in [Threads -> Msgs] /\ sc \in ScStates /\ down \in Seq(Items)
      /\ Owner \in Threads /\ Callers \subseteq Threads /\ Owner \notin Callers /\ Free \notin Threads
      /\ Locked /\ Exchanges /\ host = "up" /\ ~shut /\ ~stopWritten /\ ~stopWritten' /\ t \in Threads
  BY LiveBefore, ThreadsAssumption
     DEF ExchangeInv, ChildInv, Typed, ThreadsOK, SidecarOK, PipesOK, Threads, Owner, Free, Live
<1>1. ASSUME pc'[t] = pc[t], call'[t] = call[t], UNCHANGED down, (sc'.pc = "body") <=> (sc.pc = "body")
      PROVE  (Pending(t)' <=> Pending(t)) /\ call'[t] = call[t]
  BY <1>1 DEF Pending
<1>2. CASE OwnerStep \/ Stop \/ EnableChildSubreaper
  <2>1. ~Reset
    BY DEF Reset, Live
  <2>2. pc'[t] = pc[t] /\ call'[t] = call[t] /\ UNCHANGED down
    BY <1>0, <1>2, <2>1, HostMoves
       DEF OwnerStep, Configure, Configured, Start, StartAnswered, StopSignalled, Teardown, StopAcked,
           WaitChild, SyncHostReaper, ReaperTold, Stop, EnableChildSubreaper, SendNext, Go
  <2>3. (sc'.pc = "body") <=> (sc.pc = "body")
    <3>1. CASE Configure
      BY <1>0, <3>1 DEF Configure, ExchangeInv, ChildInv, ChildKnown, Live
    <3>2. CASE ~Configure
      <4>1. UNCHANGED sc
        BY <1>0, <1>2, <2>1, <3>2, HostMoves
      <4> QED  BY <4>1
    <3> QED  BY <3>1, <3>2
  <2> QED  BY <1>1, <2>2, <2>3
<1>3. CASE \E u \in Callers : CallStep(u)
  <2>1. PICK u \in Callers : CallStep(u)
    BY <1>3
  <2>2. UNCHANGED down /\ UNCHANGED sc
    BY <2>1 DEF CallStep, FanOutAdd, EndCall, SyncHostReaper, ReaperTold, pipes
  <2>3. CASE u # t
    <3>1. pc'[t] = pc[t] /\ call'[t] = call[t]
      BY <1>0, <2>1, <2>3 DEF CallStep, FanOutAdd, EndCall, SyncHostReaper, ReaperTold, SendNext, Go, Forward
    <3> QED  BY <1>1, <2>2, <3>1
  <2>4. CASE u = t
    <3>1. ~Pending(t)
      BY <2>1, <2>4 DEF CallStep, FanOutAdd, EndCall, SyncHostReaper, ReaperTold, Back, Pending
    <3>2. FanOutAdd(t) \/ ~Pending(t)'
      <4>1. CASE EndCall(t)
        BY <1>0, <4>1 DEF EndCall, Go, Pending
      <4>2. CASE SyncHostReaper(t, "fan") \/ ReaperTold(t, "fan")
        BY <1>0, <4>2 DEF SyncHostReaper, ReaperTold, SendNext, Go, Msg, Pending
      <4> QED  BY <2>1, <2>4, <4>1, <4>2 DEF CallStep
    <3> QED  BY <3>1, <3>2
  <2> QED  BY <2>3, <2>4
<1>4. CASE \E u \in Callers, p \in Pids : AddTrackedProcess(u, p) \/ RemoveTrackedProcess(u, p)
  <2>1. PICK u \in Callers, p \in Pids : AddTrackedProcess(u, p) \/ RemoveTrackedProcess(u, p)
    BY <1>4
  <2>2. UNCHANGED down /\ UNCHANGED sc /\ pc[u] = "idle"
    BY <2>1 DEF AddTrackedProcess, RemoveTrackedProcess, BeginCall, pipes
  <2>3. CASE u # t
    <3>1. pc'[t] = pc[t] /\ call'[t] = call[t]
      BY <1>0, <2>1, <2>3 DEF AddTrackedProcess, RemoveTrackedProcess, BeginCall, Go, Forward
    <3> QED  BY <1>1, <2>2, <3>1
  <2>4. CASE u = t
    <3>1. ~Pending(t)
      BY <2>2, <2>4 DEF Pending
    <3>2. RemoveTrackedProcess(t, p) \/ ~Pending(t)'
      BY <1>0, <2>1, <2>4 DEF AddTrackedProcess, Go, Pending
    <3> QED  BY <3>1, <3>2
  <2> QED  BY <2>3, <2>4
<1>5. CASE \E u \in Threads : Exchange(u)
  <2>1. PICK u \in Threads : Exchange(u)
    BY <1>5
  <2>2. UNCHANGED sc /\ UNCHANGED call
    BY <2>1 DEF Exchange, WriteHeader, WriteBody, ReadStatus
  <2>3. CASE u # t
    <3>1. pc[t] # "answer"
      BY <1>0, <2>1, <2>3 DEF Locked, InMsg, Exchange, WriteHeader, WriteBody, ReadStatus
    <3>2. pc'[t] = pc[t]
      BY <1>0, <2>1, <2>3 DEF Exchange, WriteHeader, WriteBody, ReadStatus, Put, Broken
    <3> QED  BY <2>2, <3>1, <3>2 DEF Pending
  <2>4. CASE u = t /\ WriteHeader(t)
    <3>1. CASE SidecarClosed /\ Broken(t)
      BY <1>0, <2>2, <3>1 DEF Broken, SidecarClosed, Pending
    <3>2. CASE ~SidecarClosed
      BY <1>0, <2>2, <2>4, <3>2 DEF WriteHeader, Put, HasPayload, Pending
    <3> QED  BY <2>4, <3>1, <3>2 DEF WriteHeader
  <2>5. CASE u = t /\ WriteBody(t)
    <3>1. CASE SidecarClosed /\ Broken(t)
      BY <1>0, <2>2, <3>1 DEF Broken, SidecarClosed, Pending
    <3>2. CASE ~SidecarClosed
      <4>1. pc[t] = "body" /\ pc'[t] = "answer" /\ down' = Append(down, Item("payload", t))
        BY <1>0, <2>5, <3>2 DEF WriteBody, Put
      <4>2. down' # <<>>
        BY <1>0, <4>1, MessageTypes, AppendProperties
      <4> QED  BY <2>2, <4>1, <4>2 DEF Pending
    <3> QED  BY <2>5, <3>1, <3>2 DEF WriteBody
  <2>6. CASE u = t /\ ReadStatus(t)
    <3>1. pc'[t] = "back"
      BY <1>0, <2>6 DEF ReadStatus
    <3>2. OneInFlight(t)
      BY <1>0, <2>6, ReadOwn
    <3>3. Pending(t) => ~(sc.pc \in {"poll", "body"})
      BY <2>6, <3>2 DEF ReadStatus, OneInFlight, SidecarClosed, Reading, Pending
    <3> QED  BY <2>2, <3>1, <3>3 DEF Pending
  <2> QED  BY <2>1, <2>3, <2>4, <2>5, <2>6 DEF Exchange
<1>6. CASE SidecarStep
  <2>1. UNCHANGED hostSide /\ pc'[t] = pc[t] /\ call'[t] = call[t]
    BY <1>0, <1>6, SidecarMoves DEF hostSide, hostVars
  <2>2. CASE Boots \/ Leaves \/ Flushes \/ Answers \/ Exits
    <3>1. /\ down' \in {down, <<>>} /\ sc'.pc # "body"
          /\ sc'.pc = "poll" => UNCHANGED down /\ sc.pc # "body"
      BY <2>2 DEF Boots, Leaves, Flushes, Answers, Exits
    <3> QED  BY <2>1, <3>1 DEF Pending
  <2>3. CASE Header
    BY <2>1, <2>3 DEF Header, Pending
  <2>4. ASSUME NEW item \in Items, Message(item)
        PROVE  Pending(t)' => Pending(t) /\ call'[t] = call[t]
    <3>1. down' = <<>>
      BY <1>0, <2>4, MessageInFlight
    <3>2. sc'.pc # "body"
      <4>1. Handle(item)
        BY <2>4 DEF Message
      <4> QED  BY <1>0, <4>1, HandleCases
    <3> QED  BY <2>1, <3>1, <3>2 DEF Pending
  <2> QED  BY <1>0, <1>6, <2>1, <2>2, <2>3, <2>4, SidecarMoves
<1>7. CASE Terminate \/ UNCHANGED vars
  <2>1. UNCHANGED <<pc, call, down, sc>>
    BY <1>7 DEF Terminate, Unhurt, hostVars, vars, pipes
  <2> QED  BY <1>1, <2>1
<1>8. CASE Kill
  <2>1. UNCHANGED <<pc, call, down>> /\ sc'.pc = "closed"
    BY <1>0, <1>8, KillMoves DEF Killed, hostVars
  <2> QED  BY <2>1 DEF Pending
<1>9. CASE HostDies
  BY <1>9 DEF HostDies, Live
<1> QED  BY <1>2, <1>3, <1>4, <1>5, <1>6, <1>7, <1>8, <1>9, Steps

\* What changes the host's own list.
LEMMA LocalMoves ==
  ASSUME ExchangeInv, [Next]_vars, Live, Live'
  PROVE  /\ raced \subseteq raced'
         /\ \/ UNCHANGED local
            \/ \E u \in Callers : FanOutAdd(u)
            \/ \E u \in Callers, p \in Pids : RemoveTrackedProcess(u, p)
<1>1. CASE OwnerStep \/ Stop \/ EnableChildSubreaper
  BY <1>1 DEF OwnerStep, Configure, Configured, Start, StartAnswered, StopSignalled, Teardown, StopAcked, Reset,
              WaitChild, SyncHostReaper, ReaperTold, Stop, EnableChildSubreaper, history
<1>2. CASE (\E t \in Callers : CallStep(t))
           \/ \E t \in Callers, p \in Pids : AddTrackedProcess(t, p) \/ RemoveTrackedProcess(t, p)
  BY <1>2 DEF CallStep, FanOutAdd, EndCall, SyncHostReaper, ReaperTold, AddTrackedProcess, RemoveTrackedProcess,
              BeginCall, history
<1>3. CASE \E t \in Threads : Exchange(t)
  BY <1>3 DEF Exchange, WriteHeader, WriteBody, ReadStatus, history
<1>4. CASE SidecarStep \/ Terminate \/ Kill \/ UNCHANGED vars
  <2>1. UNCHANGED <<local, raced>>
    BY <1>4, SidecarMoves
       DEF ExchangeInv, ChildInv, Terminate, Kill, Unhurt, hostSide, hostVars, vars, history
  <2> QED  BY <2>1
<1>5. CASE HostDies
  BY <1>5 DEF HostDies, Live
<1> QED  BY <1>1, <1>2, <1>3, <1>4, <1>5, Steps

\* Each of the two calls as it goes on to the sidecar.
LEMMA FanOutEffect ==
  ASSUME Typed, handle = "live", NEW t \in Callers, FanOutAdd(t)
  PROVE  /\ pc[t] = "fan" /\ call'[t].type = "ADD" /\ call'[t].pid = call[t].pid /\ call[t].pid \in Pids
         /\ local' = local \cup {call[t].pid} /\ Pending(t)'
<1>0. /\ pc \in [Threads -> Where] /\ call \in [Threads -> Msgs] /\ t \in Threads /\ pc[t] = "fan"
      /\ pc[t] = "fan" => call[t].pid \in Pids
  BY DEF Typed, ThreadsOK, Threads, FanOutAdd
<1>1. call' = [call EXCEPT ![t] = [call[t] EXCEPT !.type = "ADD"]] /\ local' = local \cup {call[t].pid}
  BY DEF FanOutAdd
<1>2. call'[t].type = "ADD" /\ call'[t].pid = call[t].pid
  BY <1>0, <1>1 DEF Msgs
<1>3. pc'[t] = "send"
  BY <1>0 DEF FanOutAdd, Forward, Go
<1> QED  BY <1>0, <1>1, <1>2, <1>3 DEF Pending

LEMMA RemoveEffect ==
  ASSUME Typed, handle = "live", NEW t \in Callers, NEW p \in Pids, RemoveTrackedProcess(t, p)
  PROVE  /\ call'[t].type = "REMOVE" /\ call'[t].pid = p /\ local' = local \ {p} /\ Pending(t)'
         /\ Racing(t, p) => p \in raced'
<1>0. pc \in [Threads -> Where] /\ call \in [Threads -> Msgs] /\ t \in Threads
  BY DEF Typed, ThreadsOK, Threads
<1>1. call'[t].type = "REMOVE" /\ call'[t].pid = p /\ pc'[t] = "send"
  BY <1>0 DEF RemoveTrackedProcess, BeginCall, Forward, Go, Msg
<1>2. local' = local \ {p} /\ (Racing(t, p) => p \in raced')
  BY DEF RemoveTrackedProcess, BeginCall
<1> QED  BY <1>1, <1>2 DEF Pending

LEMMA ListedStep ==
  ASSUME ExchangeInv, Fresh, Alone, Listed, [Next]_vars
  PROVE  Listed'
<1>0. Typed
  BY DEF ExchangeInv, ChildInv
<1> SUFFICES ASSUME Live', NEW t \in Callers, Pending(t)', call'[t].pid \notin raced'
             PROVE  call'[t].type = "ADD" <=> call'[t].pid \in local'
  BY DEF Listed
<1>1. CASE Configure
  BY <1>1, ConfigureLive DEF Pending
<1>2. CASE ~Configure
  <2>0. Live /\ host = "up" /\ handle = "live"
    BY <1>2, LiveBefore DEF Live
  <2>1. CASE FanOutAdd(t)
    BY <1>0, <2>0, <2>1, FanOutEffect
  <2>2. CASE \E p \in Pids : RemoveTrackedProcess(t, p)
    BY <1>0, <2>0, <2>2, RemoveEffect
  <2>3. CASE ~FanOutAdd(t) /\ ~\E p \in Pids : RemoveTrackedProcess(t, p)
    <3>1. Pending(t) /\ call'[t] = call[t] /\ pc[t] # "idle"
      BY <2>0, <2>3, PendingMoves DEF Pending
    <3>2. call[t].pid \notin raced /\ (call[t].type = "ADD" <=> call[t].pid \in local)
      BY <2>0, <3>1, LocalMoves DEF Listed
    <3>3. call[t].pid \in local' <=> call[t].pid \in local
      <4>1. CASE UNCHANGED local
        BY <4>1
      <4>2. CASE \E u \in Callers : FanOutAdd(u)
        <5>1. PICK u \in Callers : FanOutAdd(u)
          BY <4>2
        <5>2. u # t /\ pc[u] = "fan" /\ local' = local \cup {call[u].pid}
          BY <1>0, <2>0, <2>3, <5>1, FanOutEffect
        <5>3. call[u].pid # call[t].pid
          BY <2>0, <3>1, <3>2, <5>2 DEF Alone
        <5> QED  BY <5>2, <5>3
      <4>3. CASE \E u \in Callers, p \in Pids : RemoveTrackedProcess(u, p)
        <5>1. PICK u \in Callers, p \in Pids : RemoveTrackedProcess(u, p)
          BY <4>3
        <5>2. u # t /\ local' = local \ {p} /\ (Racing(u, p) => p \in raced')
          BY <1>0, <2>0, <2>3, <5>1, RemoveEffect
        <5>3. p # call[t].pid
          BY <3>1, <5>2 DEF Racing
        <5> QED  BY <5>2, <5>3
      <4> QED  BY <2>0, <4>1, <4>2, <4>3, LocalMoves
    <3> QED  BY <3>1, <3>2, <3>3
  <2> QED  BY <2>1, <2>2, <2>3
<1> QED  BY <1>1, <1>2

LEMMA AgreeStep ==
  ASSUME ExchangeInv, OwnersCall, Fresh, Listed, Agree, NotYet', [Next]_vars
  PROVE  Agree'
<1>0. /\ Typed /\ ChildKnown /\ FlushedFirst /\ Locked /\ Exchanges /\ Threads = {Owner} \cup Callers
      /\ sc \in ScStates
  BY DEF ExchangeInv, ChildInv, Typed, SidecarOK, Threads
<1> SUFFICES ASSUME Live', sc'.pc \in {"poll", "body"}
             PROVE  /\ sc'.tracked \subseteq Pids
                    /\ \A p \in Pids \ raced' : \/ p \in sc'.tracked <=> p \in local'
                                                \/ \E t \in Callers : call'[t].pid = p /\ Pending(t)'
  BY DEF Agree
<1>1. CASE Configure
  BY <1>1, ConfigureLive
<1>2. CASE sc'.phase # "loop"
  BY <1>2 DEF NotYet
<1>3. CASE ~Configure /\ sc'.phase = "loop"
  <2>0. Live /\ host = "up" /\ handle = "live" /\ ~stopWritten /\ ~shut /\ raced \subseteq raced'
    BY <1>3, LiveBefore, LocalMoves DEF Live
  <2>1. CASE UNCHANGED hostSide /\ \E item \in Items : Message(item)
    <3>1. PICK item \in Items : Message(item)
      BY <2>1
    <3>2. UNCHANGED <<pc, call, local, raced>>
      BY <2>1 DEF hostSide, hostVars, history
    <3>3. sc.pc \in {"poll", "body"} /\ Handle(item) /\ (sc.pc = "body" \/ down # <<>>)
      BY <3>1 DEF Message
    <3>4. PICK t \in Threads : pc[t] = "answer" /\ item.msg = call[t]
      BY <1>0, <2>0, <3>1, MessageInFlight
    <3>5. \A u \in Callers : Pending(u) /\ u # t => Pending(u)'
      <4>1. \A u \in Callers : pc[u] = "answer" => u = t
        BY <1>0, <3>4 DEF Locked, InMsg
      <4> QED  BY <3>2, <4>1 DEF Pending
    <3>6. /\ sc.tracked \subseteq Pids
          /\ \A p \in Pids \ raced : \/ p \in sc.tracked <=> p \in local
                                     \/ \E u \in Callers : call[u].pid = p /\ Pending(u)
      BY <2>0, <3>3 DEF Agree
    <3>7. CASE item.msg.type \in {"ADD", "REMOVE"}
      <4>1. t \in Callers /\ call[t].pid \in Pids /\ Pending(t)
        <5>1. t \in Callers
          BY <1>0, <3>4, <3>7 DEF OwnersCall
        <5> QED  BY <1>0, <3>3, <3>4, <3>7, <5>1 DEF Typed, ThreadsOK, Pending
      <4> DEFINE q == call[t].pid
      <4>2. sc'.tracked = IF item.msg.type = "ADD" THEN sc.tracked \cup {q} ELSE sc.tracked \ {q}
        <5>1. sc'.tracked = Tracked(item.msg)
          BY <1>0, <3>3, <3>7, HandleCases
        <5> QED  BY <3>4, <3>7, <5>1 DEF Tracked
      <4>3. q \notin raced => (item.msg.type = "ADD" <=> q \in local)
        BY <2>0, <3>4, <4>1 DEF Listed
      <4>4. ASSUME NEW p \in Pids \ raced
            PROVE  \/ p \in sc'.tracked <=> p \in local
                   \/ \E u \in Callers : call[u].pid = p /\ Pending(u)'
        <5>1. CASE p = q
          BY <4>2, <4>3, <4>4, <5>1
        <5>2. CASE p # q
          <6>1. p \in sc'.tracked <=> p \in sc.tracked
            BY <4>2, <5>2
          <6> QED  BY <3>5, <3>6, <4>4, <5>2, <6>1
        <5> QED  BY <5>1, <5>2
      <4>5. sc'.tracked \subseteq Pids
        BY <3>6, <4>1, <4>2
      <4> QED  BY <2>0, <3>2, <4>4, <4>5
    <3>8. CASE item.msg.type \notin {"ADD", "REMOVE"}
      <4>1. sc'.tracked = sc.tracked
        <5>1. sc'.tracked = sc.tracked \/ sc'.tracked = Tracked(item.msg)
          BY <1>0, <3>3, HandleCases
        <5> QED  BY <3>8, <5>1 DEF Tracked
      <4>2. \A u \in Callers : Pending(u) => Pending(u)'
        BY <3>4, <3>5, <3>8 DEF Pending
      <4> QED  BY <2>0, <3>2, <3>6, <4>1, <4>2
    <3> QED  BY <3>7, <3>8
  <2>2. CASE ~(UNCHANGED hostSide /\ \E item \in Items : Message(item))
    <3>1. sc'.tracked = sc.tracked /\ sc'.phase = sc.phase
      BY <1>0, <2>2, ScKeeps
    <3>2. sc.pc \in {"poll", "body"}
      <4>1. CASE SidecarStep
        <5>1. sc.pc # "boot"
          BY <1>0, <1>3, <3>1 DEF FlushedFirst
        <5>2. Boots \/ Leaves \/ Header \/ Flushes \/ Answers \/ Exits
          BY <1>0, <2>2, <4>1, SidecarMoves
        <5> QED  BY <5>1, <5>2 DEF Boots, Leaves, Header, Flushes, Answers, Exits
      <4>2. CASE Kill
        BY <1>0, <4>2, KillMoves DEF Killed
      <4>3. CASE OwnerStep \/ Stop \/ EnableChildSubreaper \/ (\E t \in Callers : CallStep(t))
                 \/ \E t \in Callers, p \in Pids : AddTrackedProcess(t, p) \/ RemoveTrackedProcess(t, p)
        <5>1. UNCHANGED sc
          BY <1>0, <1>3, <4>3, HostMoves DEF Reset
        <5> QED  BY <5>1
      <4>4. CASE (\E t \in Threads : Exchange(t)) \/ HostDies \/ Terminate \/ UNCHANGED vars
        <5>1. UNCHANGED sc
          BY <4>4 DEF Exchange, WriteHeader, WriteBody, ReadStatus, HostDies, Terminate, vars
        <5> QED  BY <5>1
      <4> QED  BY <4>1, <4>2, <4>3, <4>4, Steps
    <3>3. /\ sc.tracked \subseteq Pids
          /\ \A p \in Pids \ raced : \/ p \in sc.tracked <=> p \in local
                                     \/ \E u \in Callers : call[u].pid = p /\ Pending(u)
      BY <2>0, <3>2 DEF Agree
    <3>4. \A u \in Callers : Pending(u) => Pending(u)' /\ call'[u] = call[u]
      BY <2>0, <2>2, PendingMoves
    <3>5. ASSUME NEW p \in Pids \ raced', ~(p \in local' <=> p \in local)
          PROVE  \E t \in Callers : call'[t].pid = p /\ Pending(t)'
      <4>1. CASE \E u \in Callers : FanOutAdd(u)
        <5>1. PICK u \in Callers : FanOutAdd(u)
          BY <4>1
        <5>2. call'[u].pid = call[u].pid /\ local' = local \cup {call[u].pid} /\ Pending(u)'
          BY <1>0, <2>0, <5>1, FanOutEffect
        <5> QED  BY <3>5, <5>2
      <4>2. CASE \E u \in Callers, q \in Pids : RemoveTrackedProcess(u, q)
        <5>1. PICK u \in Callers, q \in Pids : RemoveTrackedProcess(u, q)
          BY <4>2
        <5>2. call'[u].pid = q /\ local' = local \ {q} /\ Pending(u)'
          BY <1>0, <2>0, <5>1, RemoveEffect
        <5> QED  BY <3>5, <5>2
      <4> QED  BY <2>0, <3>5, <4>1, <4>2, LocalMoves
    <3> QED  BY <2>0, <3>1, <3>3, <3>4, <3>5
  <2> QED  BY <2>1, <2>2
<1> QED  BY <1>1, <1>2, <1>3

ProbesInv ==
  ExchangeInv /\ OwnersCall /\ Fresh /\ LoopKnown /\ NotYet /\ Told /\ Alone /\ Listed /\ Agree /\ AfterStop

LEMMA AlwaysProbesInv == Spec => []ProbesInv
<1>1. Init /\ ExchangeInv => OwnersCall /\ Fresh /\ LoopKnown /\ NotYet /\ Told /\ Alone /\ Listed /\ Agree /\ AfterStop
  <2> SUFFICES ASSUME Init, ExchangeInv
               PROVE  OwnersCall /\ Fresh /\ LoopKnown /\ NotYet /\ Told /\ Alone /\ Listed /\ Agree /\ AfterStop
    OBVIOUS
  <2>1. /\ pc[Owner] = "new" /\ call[Owner] = Msg("CONFIG", NoPid) /\ \A t \in Callers : pc[t] = "idle"
        /\ sc.tracked = {} /\ sc.phase = "config" /\ local = {} /\ up = <<>> /\ reaperSent = FALSE
        /\ handle = "none" /\ stopWritten = FALSE
    BY ThreadsAssumption DEF Init, Threads, Owner
  <2> QED
    BY <2>1 DEF OwnersCall, Fresh, Live, LoopKnown, NotYet, Told, Alone, Listed, Agree, AfterStop, Msg
<1>2. ProbesInv /\ [Next]_vars /\ ExchangeInv' => ProbesInv'
  <2> SUFFICES ASSUME ProbesInv, [Next]_vars, ExchangeInv' PROVE ProbesInv'
    OBVIOUS
  <2>0. /\ ExchangeInv /\ OwnersCall /\ Fresh /\ LoopKnown /\ NotYet /\ Told /\ Alone /\ Listed /\ Agree
        /\ AfterStop /\ Typed /\ ChildKnown
    BY DEF ProbesInv, ExchangeInv, ChildInv
  <2>1. OwnersCall' /\ Fresh' /\ LoopKnown' /\ Told' /\ Alone' /\ Listed' /\ AfterStop'
    BY <2>0, OwnersCallStep, FreshStep, LoopKnownStep, ToldStep, AloneStep, ListedStep, AfterStopStep
  <2>2. NotYet'
    BY <2>0, NotYetStep
  <2>3. Agree'
    BY <2>0, <2>2, AgreeStep
  <2> QED  BY <2>1, <2>2, <2>3 DEF ProbesInv
<1>3. Spec => []ExchangeInv
  BY AlwaysExchangeInv
<1>4. Init /\ ExchangeInv => ProbesInv
  BY <1>1 DEF ProbesInv
<1> QED  BY <1>2, <1>3, <1>4, PTL DEF Spec

\* When nobody is in a call and nothing is in the pipe, both processes track the
\* same PIDs, but those two calls were about at once, and the sidecar knows of a
\* reaper the suite notes as told to it.
THEOREM ProbesAgreeCorrect == Spec => []ProbesAgree
<1>1. ProbesInv => ProbesAgree
  <2> SUFFICES ASSUME ProbesInv, handle = "live", sc.pc = "poll", sc.phase = "loop", down = <<>>, host = "up",
                      \A t \in Callers : pc[t] = "idle"
               PROVE  sc.tracked \ raced = local \ raced /\ (reaperSent => sc.told)
    BY DEF ProbesAgree
  <2>1. Live
    BY DEF ProbesInv, AfterStop, Reading, Live
  <2>2. local \subseteq Pids
    BY DEF ProbesInv, ExchangeInv, ChildInv, Typed, SuiteOK
  <2>3. \A t \in Callers : ~Pending(t)
    BY DEF Pending
  <2>4. sc.tracked \subseteq Pids /\ \A p \in Pids \ raced : p \in sc.tracked <=> p \in local
    BY <2>1, <2>3 DEF ProbesInv, Agree
  <2> QED  BY <2>1, <2>2, <2>4 DEF ProbesInv, Told
<1> QED  BY <1>1, AlwaysProbesInv, PTL
=============================================================================
