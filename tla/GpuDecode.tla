----------------------------- MODULE GpuDecode -----------------------------
(***************************************************************************)
(* One device of the GPU probe: the PM sampler, the decode thread with its *)
(* two counter-data images, the worker that evaluates them, the flush      *)
(* thread and GpuProfiler::Stop().                                         *)
(*                                                                         *)
(* A sample is the time it covers; its metric values are left out. The     *)
(* sampler (a part of CUPTI) is modelled by what the decode thread relies  *)
(* on: contiguous samples, records left behind by a full image, nothing    *)
(* after a hardware-buffer overflow until it is enabled again, a first     *)
(* sample that spans back. CUPTI calls are serialized by a mutex: each is  *)
(* one step.                                                               *)
(*                                                                         *)
(* A failing call of decoding or of the image's sample count returns an    *)
(* error. Any other failing CUPTI call ends in CuptiProfilerFatal: exit()  *)
(* on the thread that made it, which keeps the mutex and runs Stop().      *)
(***************************************************************************)
EXTENDS Integers, SequencesExt

CONSTANTS Period,          \* sampling interval
          ImageCap,        \* max_samples: slots of a counter-data image
          HwCap,           \* samples the hardware buffer holds
          MaxTime,         \* bound: the time at which samples stop coming
          CuptiMayFail,    \* may a decode or a sample count return an error?
          CuptiMayExit     \* may any other CUPTI call fail, and exit the process?

ASSUME PeriodAssumption == Period \in Nat \ {0, 1}
ASSUME SizeAssumption   == ImageCap \in Nat \ {0} /\ HwCap \in Nat \ {0}
ASSUME TimeAssumption   == MaxTime \in Nat
ASSUME FlagAssumption   == CuptiMayFail \in BOOLEAN /\ CuptiMayExit \in BOOLEAN

VARIABLES
  clock, edge, fresh, hw, over, sampling, epoch,  \* the sampler
  image, busy, queue, active,                     \* the two images and their hand-off
  dpc, final, ans, result,                        \* the decode thread
  wpc, widx, rest, quit, workerResult,            \* the worker
  stats, lastEnd,                                 \* DecodeStats; the worker's last timestamp
  base, gone,  \* history: where counting began; samples the sampler dropped
  host, fpc, out, written,                        \* CuptiProfilerHost's buffer, the flush thread, the file
  phase, due,                                     \* Stop()'s progress; the samples kept before it
  aborted                                         \* the process ended without a clean-up

samplerVars == <<clock, edge, fresh, hw, over, sampling, epoch>>
imageVars   == <<image, busy, queue, active>>
decodeVars  == <<dpc, final, ans, result>>
workVars    == <<wpc, widx, rest, quit, workerResult>>
countVars   == <<stats, lastEnd, base, gone>>
flushVars   == <<fpc, out, written>>
stopVars    == <<phase, due, aborted>>
vars == <<samplerVars, imageVars, decodeVars, workVars, countVars, host, flushVars, stopVars>>

Images == {0, 1}
Sample == [start : Nat, end : Nat]
NoTime == [start |-> 0, end |-> 0]
NoAns  == [overflow |-> FALSE, full |-> FALSE]
NoStats == [samples |-> 0, empty |-> 0, invalid |-> 0, stretched |-> 0, lost |-> 0]

\* Start: the device's sampler first ...
SamplerStarted ==
  /\ clock = Period /\ edge = Period /\ fresh = TRUE
  /\ hw = <<>> /\ over = FALSE /\ sampling = TRUE /\ epoch = 1

\* ... then its decode thread and the flush thread, on empty statistics and buffers.
ThreadsLaunched ==
  /\ dpc = "wait" /\ final = FALSE /\ ans = NoAns /\ result = "ok"
  /\ stats = NoStats
  /\ host = <<>> /\ fpc = "wait" /\ out = <<>> /\ written = <<>>
  /\ phase = "run" /\ due = 0 /\ aborted = FALSE

Init ==
  /\ SamplerStarted /\ ThreadsLaunched
  /\ image = [i \in Images |-> <<>>] /\ busy = [i \in Images |-> FALSE] /\ queue = <<>> /\ active = 0
  /\ wpc = "wait" /\ widx = 0 /\ rest = <<>> /\ quit = FALSE /\ workerResult = "ok"
  /\ lastEnd = 0 /\ base = 0 /\ gone = FALSE

---------------------------------------------------------------------------
(* The sampler.                                                            *)

\* A thread that exits in a CUPTI call never gives the device's mutex back.
CuptiFree == dpc # "exit" /\ wpc # "exit"

\* A period passes (nothing reads the clock once the last decode pass began, or
\* once CUPTI can no longer be called). A running sampler records a sample; the
\* first one after a start may take longer and spans back. A full buffer loses
\* what it holds.
Tick ==
  /\ clock + Period <= MaxTime /\ ~final /\ CuptiFree
  /\ clock' = clock + Period
  /\ \/ /\ ~sampling \/ over \/ fresh
        /\ UNCHANGED <<edge, fresh, hw, over, gone>>
     \/ /\ sampling /\ ~over /\ Len(hw) < HwCap
        /\ hw' = Append(hw, [start |-> edge, end |-> clock'])
        /\ edge' = clock' /\ fresh' = FALSE
        /\ UNCHANGED <<over, gone>>
     \/ /\ sampling /\ ~over /\ Len(hw) = HwCap
        /\ over' = TRUE /\ hw' = <<>> /\ edge' = hw[1].start
        /\ gone' = TRUE
        /\ UNCHANGED fresh
  /\ UNCHANGED <<sampling, epoch, imageVars, decodeVars, workVars, stats, lastEnd, base, host,
                 flushVars, stopVars>>

\* What decoding the records returns: themselves; while catching up after a
\* full image, some of them in any order and samples without timestamps; after
\* the end of sampling, possibly one more of no length.
Garbage(records) == UNION {[1..n -> ToSet(records) \union {NoTime}] : n \in 0..Len(records)}
Returned(records) ==
  (IF ans.full THEN Garbage(records) ELSE {records})
    \union IF final /\ ~ans.full /\ Len(records) < ImageCap
             THEN {Append(records, [start |-> Period, end |-> Period])} ELSE {}

---------------------------------------------------------------------------
(* The decode thread.                                                      *)

PassStart ==
  /\ dpc = "wait" /\ phase = "run"
  /\ dpc' = "acquire" /\ ans' = NoAns
  /\ UNCHANGED <<samplerVars, imageVars, final, result, workVars, countVars, host, flushVars, stopVars>>

StopRequested ==
  /\ dpc = "wait" /\ phase # "run"
  /\ dpc' = "stop"
  /\ UNCHANGED <<samplerVars, imageVars, final, ans, result, workVars, countVars, host, flushVars, stopVars>>

\* Where a pass that returned r goes on.
AfterAnyPass(r) == IF r = "ok" THEN "wait" ELSE "stop"   \* mutant: the last pass is one of the loop's
AfterPass(r) == IF final THEN "finish" ELSE IF r = "ok" THEN "wait" ELSE "stop"

PassEnd(r) == result' = r /\ dpc' = AfterPass(r)

IsFreeQueued == active \notin ToSet(queue)   \* mutant: an image being evaluated counts as free
IsFree == ~busy[active]

Acquire ==
  /\ dpc = "acquire"
  /\ IsFree /\ workerResult = "ok"
  /\ dpc' = "decode"
  /\ UNCHANGED <<samplerVars, imageVars, final, ans, result, workVars, countVars, host, flushVars, stopVars>>

AcquireFails ==
  /\ dpc = "acquire" /\ workerResult # "ok"
  /\ PassEnd(workerResult)
  /\ UNCHANGED <<samplerVars, imageVars, final, ans, workVars, countVars, host, flushVars, stopVars>>

DecodeData ==
  /\ dpc = "decode" /\ CuptiFree /\ ~over
  /\ LET n == IF Len(hw) < ImageCap THEN Len(hw) ELSE ImageCap IN
       /\ \E s \in Returned(SubSeq(hw, 1, n)) :
            /\ image' = [image EXCEPT ![active] = s]
            /\ gone' = (gone \/ (ans.full /\ s # SubSeq(hw, 1, n)))
       /\ hw' = SubSeq(hw, n + 1, Len(hw))
       /\ ans' = [overflow |-> FALSE, full |-> Len(hw) > n]
  /\ dpc' = "handoff"
  /\ UNCHANGED <<clock, edge, fresh, over, sampling, epoch, busy, queue, active, final, result, workVars,
                 stats, lastEnd, base, host, flushVars, stopVars>>

\* An overflow reported with an image (of nothing) rather than as an error.
DecodeFlagged ==
  /\ dpc = "decode" /\ CuptiFree /\ over
  /\ ans' = [overflow |-> TRUE, full |-> FALSE]
  /\ dpc' = "handoff"
  /\ UNCHANGED <<samplerVars, imageVars, final, result, workVars, countVars, host, flushVars, stopVars>>

DecodeOutOfMemory ==
  /\ dpc = "decode" /\ CuptiFree /\ over
  /\ IF final THEN PassEnd("ok") ELSE dpc' = "restart" /\ UNCHANGED result
  /\ UNCHANGED <<samplerVars, imageVars, final, ans, workVars, countVars, host, flushVars, stopVars>>

DecodeFails ==
  /\ dpc = "decode" /\ CuptiFree /\ ~over /\ CuptiMayFail
  /\ PassEnd("failed")
  /\ UNCHANGED <<samplerVars, imageVars, final, ans, workVars, countVars, host, flushVars, stopVars>>

NextImage == 1 - active

FlaggedIgnored == FALSE   \* mutant: an overflow that came with an image is only counted
FlaggedRestarts == ans.overflow /\ ~final

HandOff ==
  /\ dpc = "handoff"
  /\ busy' = [busy EXCEPT ![active] = TRUE]
  /\ queue' = Append(queue, active)
  /\ active' = NextImage
  /\ IF FlaggedRestarts THEN dpc' = "restart" /\ UNCHANGED result
     ELSE IF ~ans.full THEN PassEnd("ok") ELSE dpc' = "acquire" /\ UNCHANGED result
  /\ UNCHANGED <<samplerVars, image, final, ans, workVars, countVars, host, flushVars, stopVars>>

WorkerIdleQueue == queue = <<>>   \* mutant: an evaluation may still be running
WorkerIdle == queue = <<>> /\ busy = [i \in Images |-> FALSE]

\* Re-enabling makes a new sampler with fresh images.
Restart ==
  /\ dpc = "restart" /\ CuptiFree
  /\ WorkerIdle /\ workerResult = "ok"
  /\ epoch' = epoch + 1 /\ over' = FALSE /\ fresh' = TRUE /\ hw' = <<>>
  /\ image' = [i \in Images |-> <<>>] /\ active' = 0
  /\ PassEnd("ok")
  /\ UNCHANGED <<clock, edge, sampling, busy, queue, final, ans, workVars, countVars, host, flushVars,
                 stopVars>>

RestartFails ==
  /\ dpc = "restart" /\ workerResult # "ok"
  /\ PassEnd(workerResult)
  /\ UNCHANGED <<samplerVars, imageVars, final, ans, workVars, countVars, host, flushVars, stopVars>>

\* A call of the restart, or the one that stops the sampler, fails: exit() on
\* the decode thread. No state of the sampler is read again.
DecodeExits ==
  /\ dpc \in {"restart", "stop"} /\ CuptiFree /\ CuptiMayExit
  /\ dpc = "restart" => WorkerIdle /\ workerResult = "ok"
  /\ dpc' = "exit"
  /\ UNCHANGED <<samplerVars, imageVars, final, ans, result, workVars, countVars, host, flushVars, stopVars>>

StopSampling ==
  /\ dpc = "stop" /\ CuptiFree
  /\ sampling' = FALSE
  /\ final' = (result = "ok") /\ ans' = NoAns
  /\ dpc' = IF result = "ok" THEN "acquire" ELSE "finish"
  /\ UNCHANGED <<clock, edge, fresh, hw, over, epoch, imageVars, result, workVars, countVars, host,
                 flushVars, stopVars>>

Finish ==
  /\ dpc = "finish"
  /\ quit' = TRUE
  /\ dpc' = "join"
  /\ UNCHANGED <<samplerVars, imageVars, final, ans, result, wpc, widx, rest, workerResult, countVars, host,
                 flushVars, stopVars>>

Joined ==
  /\ dpc = "join" /\ wpc = "done"
  /\ dpc' = "done"
  /\ result' = IF result = "ok" THEN workerResult ELSE result
  /\ UNCHANGED <<samplerVars, imageVars, final, ans, workVars, countVars, host, flushVars, stopVars>>

Decoding ==
  \/ PassStart \/ StopRequested \/ Acquire \/ AcquireFails
  \/ DecodeData \/ DecodeFlagged \/ DecodeOutOfMemory \/ DecodeFails \/ HandOff
  \/ Restart \/ RestartFails \/ DecodeExits \/ StopSampling \/ Finish \/ Joined

---------------------------------------------------------------------------
(* The worker: evaluate every sample of an image, re-initialize it, give   *)
(* it back.                                                                *)

WorkerTake ==
  /\ wpc = "wait" /\ queue # <<>>
  /\ widx' = Head(queue) /\ queue' = Tail(queue)
  /\ wpc' = "info"
  /\ UNCHANGED <<samplerVars, image, busy, active, decodeVars, rest, quit, workerResult, countVars, host,
                 flushVars, stopVars>>

WorkerInfo ==
  /\ wpc = "info" /\ CuptiFree
  /\ rest' = image[widx]
  /\ wpc' = "eval"
  /\ UNCHANGED <<samplerVars, imageVars, decodeVars, widx, quit, workerResult, countVars, host, flushVars,
                 stopVars>>

WorkerFails ==
  /\ wpc = "info" /\ CuptiFree /\ CuptiMayFail
  /\ wpc' = "failed"
  /\ UNCHANGED <<samplerVars, imageVars, decodeVars, widx, rest, quit, workerResult, countVars, host,
                 flushVars, stopVars>>

Empty(s)     == s.start = s.end /\ s.start # 0
Invalid(s)   == s = NoTime \/ (lastEnd # 0 /\ s.end <= lastEnd)
Stretched(s) == s.end - s.start > (Period * 3) \div 2

\* Sampling intervals between two times, rounded.
Intervals(from, to) == (to - from + Period \div 2) \div Period

Evaluated ==
  /\ rest' = Tail(rest)
  /\ UNCHANGED <<samplerVars, imageVars, decodeVars, wpc, widx, quit, workerResult, gone, flushVars,
                 stopVars>>

DropEmpty ==
  /\ wpc = "eval" /\ CuptiFree /\ rest # <<>> /\ Empty(Head(rest))
  /\ stats' = [stats EXCEPT !.empty = @ + 1]
  /\ UNCHANGED <<lastEnd, base, host>>
  /\ Evaluated

DropInvalid ==
  /\ wpc = "eval" /\ CuptiFree /\ rest # <<>>
  /\ ~Empty(Head(rest)) /\ Invalid(Head(rest))
  /\ stats' = [stats EXCEPT !.invalid = @ + 1]
  /\ UNCHANGED <<lastEnd, base, host>>
  /\ Evaluated

\* Its whole window is lost, except before the first sample.
LostByStretchNone(s) == 0   \* mutant: a dropped sample costs nothing
LostByStretch(s) == IF lastEnd = 0 THEN 0 ELSE Intervals(lastEnd, s.end)

DropStretched ==
  /\ wpc = "eval" /\ CuptiFree /\ rest # <<>>
  /\ LET s == Head(rest) IN
       /\ ~Empty(s) /\ ~Invalid(s) /\ Stretched(s)
       /\ stats' = [stats EXCEPT !.stretched = @ + 1, !.lost = @ + LostByStretch(s)]
       /\ lastEnd' = s.end
       /\ base' = IF lastEnd = 0 THEN s.end ELSE base
  /\ UNCHANGED host
  /\ Evaluated

LostByGap(s) == IF lastEnd # 0 /\ s.start > lastEnd THEN Intervals(lastEnd, s.start) ELSE 0

KeepSample ==
  /\ wpc = "eval" /\ CuptiFree /\ rest # <<>>
  /\ LET s == Head(rest) IN
       /\ ~Empty(s) /\ ~Invalid(s) /\ ~Stretched(s)
       /\ stats' = [stats EXCEPT !.samples = @ + 1, !.lost = @ + LostByGap(s)]
       /\ lastEnd' = s.end
       /\ base' = IF lastEnd = 0 THEN s.start ELSE base
       /\ host' = Append(host, s.end)
  /\ Evaluated

WorkerReset ==
  /\ wpc = "eval" /\ CuptiFree /\ rest = <<>>
  /\ image' = [image EXCEPT ![widx] = <<>>]
  /\ wpc' = "release"
  /\ UNCHANGED <<samplerVars, busy, queue, active, decodeVars, widx, rest, quit, workerResult, countVars,
                 host, flushVars, stopVars>>

\* The evaluation of a sample fails, or the re-initialization of the image:
\* exit() on the worker.
WorkerExits ==
  /\ wpc = "eval" /\ CuptiFree /\ CuptiMayExit
  /\ wpc' = "exit"
  /\ UNCHANGED <<samplerVars, imageVars, decodeVars, widx, rest, quit, workerResult, countVars, host,
                 flushVars, stopVars>>

ResultOfWork == IF wpc = "failed" THEN "failed" ELSE workerResult

WorkerRelease ==
  /\ wpc \in {"release", "failed"}
  /\ busy' = [busy EXCEPT ![widx] = FALSE]
  /\ workerResult' = ResultOfWork
  /\ wpc' = "wait"
  /\ UNCHANGED <<samplerVars, image, queue, active, decodeVars, widx, rest, quit, countVars, host, flushVars,
                 stopVars>>

WorkerEnd ==
  /\ wpc = "wait" /\ queue = <<>> /\ quit
  /\ wpc' = "done"
  /\ UNCHANGED <<samplerVars, imageVars, decodeVars, widx, rest, quit, workerResult, countVars, host,
                 flushVars, stopVars>>

Working ==
  \/ WorkerTake \/ WorkerInfo \/ WorkerFails
  \/ DropEmpty \/ DropInvalid \/ DropStretched \/ KeepSample
  \/ WorkerReset \/ WorkerExits \/ WorkerRelease \/ WorkerEnd

---------------------------------------------------------------------------
(* The flush thread and Stop().                                            *)

FlushDrain ==
  /\ fpc = "wait" /\ phase # "joined"
  /\ host # <<>>
  /\ out' = host /\ host' = <<>>
  /\ fpc' = "write"
  /\ UNCHANGED <<samplerVars, imageVars, decodeVars, workVars, countVars, written, stopVars>>

FlushWrite ==
  /\ fpc = "write"
  /\ written' = written \o out /\ out' = <<>>
  /\ fpc' = "wait"
  /\ UNCHANGED <<samplerVars, imageVars, decodeVars, workVars, countVars, host, stopVars>>

FlushExit ==
  /\ fpc = "wait" /\ phase = "joined"
  /\ fpc' = "exited"
  /\ UNCHANGED <<samplerVars, imageVars, decodeVars, workVars, countVars, host, out, written, stopVars>>

StopSignalled ==
  /\ phase = "run"
  /\ phase' = "stopping"
  /\ due' = stats.samples
  /\ UNCHANGED <<samplerVars, imageVars, decodeVars, workVars, countVars, host, flushVars, aborted>>

DecodeTold == TRUE   \* mutant: the flush thread is told before the decode thread has ended
DecodeJoined == dpc = "done"

StopJoined ==
  /\ phase = "stopping" /\ DecodeJoined
  /\ phase' = "joined"
  /\ UNCHANGED <<samplerVars, imageVars, decodeVars, workVars, countVars, host, flushVars, due, aborted>>

NoRemaining == <<>>   \* mutant: the samples left after the flush thread are forgotten
Remaining == host

\* The last frame; the file is closed.
FinalFlush ==
  /\ phase = "joined" /\ fpc = "exited"
  /\ written' = written \o Remaining /\ host' = <<>>
  /\ phase' = "closed"
  /\ UNCHANGED <<samplerVars, imageVars, decodeVars, workVars, countVars, fpc, out, due, aborted>>

\* The sampler is disabled and CUPTI released; Stop() returns ...
CleanUp ==
  /\ phase = "closed"
  /\ phase' = "stopped"
  /\ UNCHANGED <<samplerVars, imageVars, decodeVars, workVars, countVars, host, flushVars, due, aborted>>

\* ... or one of these calls fails: exit() inside Stop(), whose exit hook waits
\* for the mutex this Stop() holds.
CleanUpExits ==
  /\ phase = "closed" /\ CuptiMayExit
  /\ phase' = "exit"
  /\ UNCHANGED <<samplerVars, imageVars, decodeVars, workVars, countVars, host, flushVars, due, aborted>>

\* The exit hook's Stop(), on the thread that exits. The decode thread's aborts
\* the process when it comes to join itself; the worker's waits for the decode
\* thread like any other. It waits for a Stop() that is under way.
ExitHook ==
  /\ ~CuptiFree /\ phase = "run"
  /\ phase' = "stopping" /\ due' = stats.samples
  /\ aborted' = (dpc = "exit")
  /\ UNCHANGED <<samplerVars, imageVars, decodeVars, workVars, countVars, host, flushVars>>

Flushing == FlushDrain \/ FlushWrite \/ FlushExit
Stopping == StopJoined \/ FinalFlush \/ CleanUp \/ CleanUpExits

---------------------------------------------------------------------------
\* Nothing happens after the process was aborted.
Next ==
  \/ ~aborted /\ Tick
  \/ ~aborted /\ Decoding
  \/ ~aborted /\ Working
  \/ ~aborted /\ Flushing
  \/ ~aborted /\ StopSignalled
  \/ ~aborted /\ ExitHook
  \/ ~aborted /\ Stopping

\* Every thread of the probe keeps running, and so does the GPU. Nobody need
\* ever call Stop(), and no call need fail.
Fairness == WF_vars(~aborted /\ Decoding) /\ WF_vars(~aborted /\ Working)
              /\ WF_vars(~aborted /\ Flushing) /\ WF_vars(~aborted /\ ExitHook)
              /\ WF_vars(~aborted /\ Stopping)

Spec == Init /\ [][Next]_vars
FairSpec == Spec /\ Fairness

---------------------------------------------------------------------------
\* The type of every variable.
TypeOK ==
  /\ clock \in Nat /\ edge \in Nat /\ epoch \in Nat /\ {fresh, over, sampling} \subseteq BOOLEAN
  /\ hw \in Seq(Sample)
  /\ image \in [Images -> Seq(Sample)] /\ busy \in [Images -> BOOLEAN]
  /\ queue \in Seq(Images) /\ active \in Images
  /\ dpc \in {"wait", "acquire", "decode", "handoff", "restart", "stop", "finish", "join", "done", "exit"}
  /\ final \in BOOLEAN /\ ans \in [overflow : BOOLEAN, full : BOOLEAN]
  /\ {result, workerResult} \subseteq {"ok", "failed"}
  /\ wpc \in {"wait", "info", "eval", "release", "failed", "done", "exit"}
  /\ widx \in Images /\ rest \in Seq(Sample) /\ quit \in BOOLEAN
  /\ stats \in [DOMAIN NoStats -> Nat] /\ lastEnd \in Nat /\ base \in Nat /\ gone \in BOOLEAN
  /\ \A s \in {host, out, written} : s \in Seq(Nat)
  /\ fpc \in {"wait", "write", "exited"}
  /\ phase \in {"run", "stopping", "joined", "closed", "stopped", "exit"}
  /\ due \in Nat /\ aborted \in BOOLEAN

Evaluating(i) == wpc \notin {"wait", "done"} /\ widx = i

\* The decode thread writes only into an image it owns and that was
\* re-initialized since it was last evaluated; an image is queued or evaluated,
\* never both, and at most once.
ImagesExclusive ==
  /\ dpc \in {"decode", "handoff"} => ~busy[active]
  /\ dpc = "decode" => image[active] = <<>>
  /\ \A i \in Images : busy[i] = (i \in ToSet(queue) \/ Evaluating(i))
  /\ \A i \in ToSet(queue) : ~Evaluating(i)
  /\ IsInjective(queue)

\* Stop() has written the last frame.
FileClosed == phase \in {"closed", "stopped", "exit"}

\* When Stop() closes the file without an error, nothing the sampler recorded is
\* left in the hardware buffer, in an image or in memory.
StopTakesAll ==
  FileClosed /\ result = "ok" =>
    /\ hw = <<>> /\ queue = <<>> /\ image = [i \in Images |-> <<>>]
    /\ Len(written) = stats.samples

\* The samples kept and the samples counted as lost cover the time from the
\* first to the last one, however often the sampler was re-enabled, an image
\* was full or samples came out of order.
LossAccounted ==
  base # 0 => stats.samples + stats.lost = (lastEnd - base) \div Period

\* No sample is evaluated against a sampler that did not record it: the images
\* are empty when the sampler is re-enabled.
RestartDropsNothing == [][epoch' # epoch => image = [i \in Images |-> <<>>] /\ rest = <<>>]_vars

\* gpu_metrics.proto: what an overflow or a full image cost is in samples_lost.
CostIsCounted == FileClosed /\ gone /\ result = "ok" => stats.lost + stats.invalid > 0

\* decode_thread.cpp: a sampler that refuses to stop is disabled all the same.
SurvivesRefusal == [][dpc = "restart" => dpc' # "exit"]_vars

\* A CUPTI call exited the process: on a thread of the probe or inside Stop().
Exited == ~CuptiFree \/ phase = "exit"

\* An overflowed sampler samples again, unless the probe stops, a call returned
\* an error or a call exited.
RecoversFromOverflow == over ~> (~over \/ phase # "run" \/ result # "ok" \/ Exited)

\* Stop() returns, whatever the sampler's and the threads' state and whichever
\* decode or sample count failed, unless a CUPTI call exited.
StopReturns == phase = "stopping" ~> (phase = "stopped" \/ Exited)

\* system-guide.md: Stop() "returns promptly"; helper_cupti.h: a failing CUPTI
\* call "exits". Here: Stop(), the host's or the exit hook's, returns, or the
\* process ends. An exit on a thread that Stop() waits for breaks it.
StopAlwaysReturns == phase = "stopping" ~> (phase = "stopped" \/ aborted)

\* The kept samples are a TraceLog: in the file at most once, and those kept
\* before Stop() was called when it closes the file.
Log == INSTANCE TraceLog WITH
         accepted <- stats.samples, delivered <- 1..Len(written), size <- Len(written), due <- due,
         closing <- CASE phase = "run" -> "no" [] FileClosed -> "done" [] OTHER -> "begun"
WritesLikeALog == Log!Spec
=============================================================================
