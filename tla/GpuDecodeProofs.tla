-------------------------- MODULE GpuDecodeProofs --------------------------
(* What the GPU probe's decoding promises, for every sampling period and    *)
(* every size of the image and the hardware buffer: the images are handed   *)
(* over cleanly, Stop() takes everything, the losses add up, and the kept   *)
(* samples reach the file as TraceLog says.                                 *)
EXTENDS GpuDecode, SequenceTheorems, FiniteSetTheorems, TLAPS

---------------------------------------------------------------------------
(* Sequences of samples, of whatever set the samples are in.               *)

\* Whatever a decode returns are the records it took, samples without
\* timestamps and the one of no length at the end.
LEMMA ReturnedKind ==
  ASSUME NEW S, NEW records \in Seq(S), NoTime \in S,
         [start |-> Period, end |-> Period] \in S
  PROVE  Returned(records) \subseteq Seq(S)
<1>1. Garbage(records) \subseteq Seq(S)
  <2> SUFFICES ASSUME NEW n \in 0..Len(records),
                      NEW s \in [1..n -> ToSet(records) \union {NoTime}]
               PROVE  s \in Seq(S)
    BY DEF Garbage
  <2>1. n \in Nat
    BY LenProperties
  <2>2. ToSet(records) \subseteq S
    BY LenProperties DEF ToSet
  <2>3. s \in [1..n -> S]
    BY <2>2
  <2> QED  BY <2>1, <2>3, SeqDef
<1>2. Append(records, [start |-> Period, end |-> Period]) \in Seq(S)
  BY AppendProperties
<1> QED  BY <1>1, <1>2 DEF Returned

\* The first n records of the buffer, and those that stay behind.
LEMMA TakenRecords ==
  ASSUME NEW S, NEW s \in Seq(S), NEW n \in 0..Len(s)
  PROVE  /\ SubSeq(s, 1, n) \in Seq(S)
         /\ SubSeq(s, n + 1, Len(s)) \in Seq(S)
         /\ Len(SubSeq(s, n + 1, Len(s))) = Len(s) - n
         /\ \A i \in 1..Len(s) - n : SubSeq(s, n + 1, Len(s))[i] = s[n + i]
<1>1. Len(s) \in Nat /\ \A i \in 1..Len(s) : s[i] \in S
  BY LenProperties, ElementOfSeq
<1>2. SubSeq(s, 1, n) \in Seq(S)
  BY <1>1, SubSeqProperties
<1> DEFINE m == n + 1
<1>3. m \in Int /\ Len(s) \in Int /\ \A i \in m..Len(s) : s[i] \in S
  BY <1>1
<1>4. Len(s) - m + 1 = Len(s) - n /\ (IF m <= Len(s) THEN Len(s) - m + 1 ELSE 0) = Len(s) - n
  BY <1>1
<1> HIDE DEF m
<1>5. /\ SubSeq(s, m, Len(s)) \in Seq(S)
      /\ Len(SubSeq(s, m, Len(s))) = IF m <= Len(s) THEN Len(s) - m + 1 ELSE 0
      /\ \A i \in 1..Len(s) - m + 1 : SubSeq(s, m, Len(s))[i] = s[m + i - 1]
  BY <1>3, SubSeqProperties
<1>6. ASSUME NEW i \in 1..Len(s) - n
      PROVE  SubSeq(s, m, Len(s))[i] = s[n + i]
  <2>1. m + i - 1 = n + i
    BY <1>1 DEF m
  <2> QED  BY <1>4, <1>5, <2>1
<1> QED  BY <1>2, <1>4, <1>5, <1>6 DEF m

---------------------------------------------------------------------------
(* Types.                                                                  *)

\* How many records a decode takes.
Taken == IF Len(hw) < ImageCap THEN Len(hw) ELSE ImageCap

LEMMA TakenInBuffer == TypeOK => Taken \in 0..Len(hw) /\ Len(hw) \in Nat
<1> SUFFICES ASSUME TypeOK PROVE Taken \in 0..Len(hw) /\ Len(hw) \in Nat
  OBVIOUS
<1>1. Len(hw) \in Nat
  BY LenProperties DEF TypeOK
<1> QED  BY <1>1, SizeAssumption DEF Taken

\* TypeOK, a group of variables at a time.
SamplerOK ==
  /\ clock \in Nat /\ edge \in Nat /\ epoch \in Nat
  /\ fresh \in BOOLEAN /\ over \in BOOLEAN /\ sampling \in BOOLEAN
  /\ hw \in Seq(Sample)
ImagesOK ==
  /\ image \in [Images -> Seq(Sample)] /\ busy \in [Images -> BOOLEAN]
  /\ queue \in Seq(Images) /\ active \in Images
DecodeOK ==
  /\ dpc \in {"wait", "acquire", "decode", "handoff", "restart", "stop", "finish", "join", "done", "exit"}
  /\ final \in BOOLEAN /\ ans \in [overflow : BOOLEAN, full : BOOLEAN]
  /\ result \in {"ok", "failed"}
WorkOK ==
  /\ wpc \in {"wait", "info", "eval", "release", "failed", "done", "exit"}
  /\ widx \in Images /\ rest \in Seq(Sample) /\ quit \in BOOLEAN
  /\ workerResult \in {"ok", "failed"}
CountOK == stats \in [DOMAIN NoStats -> Nat] /\ lastEnd \in Nat /\ base \in Nat /\ gone \in BOOLEAN
FlushOK ==
  /\ host \in Seq(Nat) /\ out \in Seq(Nat) /\ written \in Seq(Nat)
  /\ fpc \in {"wait", "write", "exited"}
StopOK ==
  /\ phase \in {"run", "stopping", "joined", "closed", "stopped", "exit"}
  /\ due \in Nat /\ aborted \in BOOLEAN

LEMMA TypeParts ==
  TypeOK <=> SamplerOK /\ ImagesOK /\ DecodeOK /\ WorkOK /\ CountOK /\ FlushOK /\ StopOK
<1>1. ({fresh, over, sampling} \subseteq BOOLEAN)
        <=> fresh \in BOOLEAN /\ over \in BOOLEAN /\ sampling \in BOOLEAN
  OBVIOUS
<1>2. ({result, workerResult} \subseteq {"ok", "failed"})
        <=> result \in {"ok", "failed"} /\ workerResult \in {"ok", "failed"}
  OBVIOUS
<1>3. (\A s \in {host, out, written} : s \in Seq(Nat))
        <=> host \in Seq(Nat) /\ out \in Seq(Nat) /\ written \in Seq(Nat)
  OBVIOUS
<1> QED
  BY <1>1, <1>2, <1>3, Zenon
     DEF TypeOK, SamplerOK, ImagesOK, DecodeOK, WorkOK, CountOK, FlushOK, StopOK

LEMMA TypePartsNext ==
  TypeOK' <=> SamplerOK' /\ ImagesOK' /\ DecodeOK' /\ WorkOK' /\ CountOK' /\ FlushOK' /\ StopOK'
BY TypeParts, PTL

\* What a step leaves alone keeps its types.
LEMMA TypesUnchanged ==
  /\ UNCHANGED samplerVars => (SamplerOK => SamplerOK')
  /\ UNCHANGED imageVars => (ImagesOK => ImagesOK')
  /\ UNCHANGED decodeVars => (DecodeOK => DecodeOK')
  /\ UNCHANGED workVars => (WorkOK => WorkOK')
  /\ UNCHANGED countVars => (CountOK => CountOK')
  /\ UNCHANGED <<host, flushVars>> => (FlushOK => FlushOK')
  /\ UNCHANGED stopVars => (StopOK => StopOK')
BY DEF SamplerOK, ImagesOK, DecodeOK, WorkOK, CountOK, FlushOK, StopOK,
       samplerVars, imageVars, decodeVars, workVars, countVars, flushVars, stopVars

\* The counters of DecodeStats.
LEMMA StatNames ==
  /\ DOMAIN NoStats = {"samples", "empty", "invalid", "stretched", "lost"}
  /\ NoStats \in [DOMAIN NoStats -> Nat]
  /\ NoStats.samples = 0 /\ NoStats.lost = 0
<1>1. DOMAIN NoStats = {"samples", "empty", "invalid", "stretched", "lost"}
  BY DEF NoStats
<1>2. NoStats = [f \in DOMAIN NoStats |-> 0]
  BY <1>1 DEF NoStats
<1> QED  BY <1>1, <1>2 DEF NoStats

\* The first state has the types.
LEMMA InitTypes == Init => TypeOK
<1> SUFFICES ASSUME Init PROVE TypeOK
  OBVIOUS
<1>1. <<>> \in Seq(Sample) /\ <<>> \in Seq(Images) /\ <<>> \in Seq(Nat)
  BY EmptySeq
<1>2. SamplerOK
  BY <1>1, PeriodAssumption DEF Init, SamplerStarted, SamplerOK
<1>3. ImagesOK
  BY <1>1 DEF Init, ImagesOK, Images
<1>4. DecodeOK /\ StopOK /\ FlushOK
  BY <1>1 DEF Init, ThreadsLaunched, DecodeOK, NoAns, StopOK, FlushOK
<1>5. WorkOK
  BY <1>1 DEF Init, WorkOK, Images
<1>6. CountOK
  BY StatNames DEF Init, ThreadsLaunched, CountOK
<1> QED  BY <1>2, <1>3, <1>4, <1>5, <1>6, TypeParts

\* The counts after a sample was looked at.
LEMMA CountTypes ==
  ASSUME stats \in [DOMAIN NoStats -> Nat], NEW n \in Nat,
         NEW f \in DOMAIN NoStats, f # "lost"
  PROVE  /\ [stats EXCEPT ![f] = @ + 1] \in [DOMAIN NoStats -> Nat]
         /\ \A g \in DOMAIN NoStats : g # f => [stats EXCEPT ![f] = @ + 1][g] = stats[g]
         /\ [stats EXCEPT ![f] = @ + 1, !.lost = @ + n] \in [DOMAIN NoStats -> Nat]
         /\ [stats EXCEPT ![f] = @ + 1, !.lost = @ + n].lost = stats.lost + n
         /\ [stats EXCEPT ![f] = @ + 1, !.lost = @ + n][f] = stats[f] + 1
         /\ \A g \in DOMAIN NoStats :
              g \notin {f, "lost"} => [stats EXCEPT ![f] = @ + 1, !.lost = @ + n][g] = stats[g]
<1> DEFINE c == [stats EXCEPT ![f] = @ + 1]
<1>1. c \in [DOMAIN NoStats -> Nat] /\ c.lost = stats.lost /\ c[f] = stats[f] + 1
  BY StatNames
<1>2. \A g \in DOMAIN NoStats : g # f => c[g] = stats[g]
  OBVIOUS
<1>3. [stats EXCEPT ![f] = @ + 1, !.lost = @ + n] = [c EXCEPT !.lost = @ + n]
  OBVIOUS
<1> HIDE DEF c
<1>4. /\ [c EXCEPT !.lost = @ + n] \in [DOMAIN NoStats -> Nat]
      /\ [c EXCEPT !.lost = @ + n].lost = c.lost + n
      /\ \A g \in DOMAIN NoStats : g # "lost" => [c EXCEPT !.lost = @ + n][g] = c[g]
  BY <1>1, StatNames
<1> QED  BY <1>1, <1>2, <1>3, <1>4 DEF c

\* Intervals between times in order is a count.
LEMMA IntervalsCount ==
  ASSUME NEW a \in Nat, NEW b \in Nat, a <= b
  PROVE  Intervals(a, b) \in Nat
<1>1. Period \div 2 \in Nat
  BY PeriodAssumption
<1>2. b - a + Period \div 2 \in Nat
  BY <1>1
<1> QED  BY <1>2, PeriodAssumption DEF Intervals

\* The loss counted for a sample, wherever the last one ended.
LEMMA LossCount ==
  ASSUME TypeOK, NEW s \in Sample, ~Invalid(s)
  PROVE  LostByStretch(s) \in Nat /\ LostByGap(s) \in Nat
<1>1. lastEnd \in Nat /\ s.start \in Nat /\ s.end \in Nat
  BY TypeParts DEF CountOK, Sample
<1>2. lastEnd # 0 => lastEnd <= s.end
  BY <1>1 DEF Invalid
<1> QED  BY <1>1, <1>2, IntervalsCount DEF LostByStretch, LostByGap

\* The next sample of the image.
LEMMA NextSample ==
  ASSUME TypeOK, rest # <<>>
  PROVE  Head(rest) \in Sample /\ Tail(rest) \in Seq(Sample)
BY TypeParts, HeadTailProperties DEF WorkOK

\* Every step keeps them.
LEMMA StepTypes == TypeOK /\ Next => TypeOK'
<1> SUFFICES ASSUME TypeOK, Next PROVE TypeOK'
  OBVIOUS
<1>0. SamplerOK /\ ImagesOK /\ DecodeOK /\ WorkOK /\ CountOK /\ FlushOK /\ StopOK
  BY TypeParts
<1>1. CASE Tick
  <2>1. clock' \in Nat /\ clock' = clock + Period /\ UNCHANGED <<sampling, epoch>>
    BY <1>0, <1>1, PeriodAssumption DEF Tick, SamplerOK
  <2>2. /\ UNCHANGED <<imageVars, decodeVars, workVars, stats, lastEnd, base, host, flushVars, stopVars>>
        /\ gone' \in BOOLEAN
    BY <1>0, <1>1 DEF Tick, CountOK
  <2>3. SamplerOK'
    <3>1. CASE UNCHANGED <<edge, fresh, hw, over>>
      BY <1>0, <2>1, <3>1 DEF SamplerOK
    <3>2. CASE hw' = Append(hw, [start |-> edge, end |-> clock']) /\ edge' = clock' /\ fresh' = FALSE
                 /\ UNCHANGED over
      <4>1. [start |-> edge, end |-> clock'] \in Sample
        BY <1>0, <2>1 DEF Sample, SamplerOK
      <4>2. hw' \in Seq(Sample)
        BY <1>0, <3>2, <4>1, AppendProperties DEF SamplerOK
      <4> QED  BY <1>0, <2>1, <3>2, <4>2 DEF SamplerOK
    <3>3. CASE Len(hw) = HwCap /\ over' = TRUE /\ hw' = <<>> /\ edge' = hw[1].start /\ UNCHANGED fresh
      <4>1. hw[1] \in Sample
        BY <1>0, <3>3, SizeAssumption, ElementOfSeq DEF SamplerOK
      <4>2. hw' \in Seq(Sample) /\ edge' \in Nat
        BY <3>3, <4>1, EmptySeq DEF Sample
      <4> QED  BY <1>0, <2>1, <3>3, <4>2 DEF SamplerOK
    <3> QED  BY <1>1, <3>1, <3>2, <3>3 DEF Tick
  <2>4. CountOK'
    BY <1>0, <2>2 DEF CountOK
  <2> QED  BY <1>0, <2>2, <2>3, <2>4, TypesUnchanged, TypePartsNext
<1>2. CASE \/ PassStart \/ StopRequested \/ Acquire \/ AcquireFails \/ DecodeFlagged \/ DecodeOutOfMemory
           \/ DecodeFails \/ RestartFails \/ Joined
  <2>1. UNCHANGED <<samplerVars, imageVars, workVars, countVars, host, flushVars, stopVars, final>>
    BY <1>2 DEF PassStart, StopRequested, Acquire, AcquireFails, DecodeFlagged, DecodeOutOfMemory,
                DecodeFails, RestartFails, Joined
  <2>2. ans' \in [overflow : BOOLEAN, full : BOOLEAN]
    <3>1. CASE PassStart \/ DecodeFlagged
      <4>1. ans' = [overflow |-> FALSE, full |-> FALSE] \/ ans' = [overflow |-> TRUE, full |-> FALSE]
        BY <3>1 DEF PassStart, DecodeFlagged, NoAns
      <4>2. \A a, b \in BOOLEAN : [overflow |-> a, full |-> b] \in [overflow : BOOLEAN, full : BOOLEAN]
        OBVIOUS
      <4> QED  BY <4>1, <4>2, Zenon
    <3>2. CASE ~(PassStart \/ DecodeFlagged)
      <4>1. UNCHANGED ans
        BY <1>2, <3>2 DEF StopRequested, Acquire, AcquireFails, DecodeOutOfMemory, DecodeFails,
                          RestartFails, Joined
      <4> QED  BY <1>0, <4>1 DEF DecodeOK
    <3> QED  BY <3>1, <3>2
  <2>3. /\ result' \in {"ok", "failed"}
        /\ dpc' \in {"wait", "acquire", "decode", "handoff", "restart", "stop", "finish", "join", "done",
                      "exit"}
    BY <1>0, <1>2 DEF DecodeOK, WorkOK, PassStart, StopRequested, Acquire, AcquireFails, DecodeFlagged,
                DecodeOutOfMemory, DecodeFails, RestartFails, Joined, PassEnd, AfterPass
  <2>4. DecodeOK'
    BY <1>0, <2>1, <2>2, <2>3 DEF DecodeOK
  <2> QED  BY <1>0, <2>1, <2>4, TypesUnchanged, TypePartsNext
<1>3. CASE DecodeData
  <2>1. PICK s \in Returned(SubSeq(hw, 1, Taken)) :
          /\ image' = [image EXCEPT ![active] = s]
          /\ gone' = (gone \/ (ans.full /\ s # SubSeq(hw, 1, Taken)))
    BY <1>3 DEF DecodeData, Taken
  <2>2. SubSeq(hw, 1, Taken) \in Seq(Sample) /\ SubSeq(hw, Taken + 1, Len(hw)) \in Seq(Sample)
    BY <1>0, TakenInBuffer, TakenRecords DEF SamplerOK
  <2>3. s \in Seq(Sample)
    <3>1. NoTime \in Sample /\ [start |-> Period, end |-> Period] \in Sample
      BY PeriodAssumption DEF Sample, NoTime
    <3> QED  BY <2>1, <2>2, <3>1, ReturnedKind
  <2>4. image' \in [Images -> Seq(Sample)] /\ gone' \in BOOLEAN
    BY <1>0, <2>1, <2>3 DEF ImagesOK, CountOK
  <2>5. /\ hw' \in Seq(Sample) /\ ans' \in [overflow : BOOLEAN, full : BOOLEAN] /\ dpc' = "handoff"
        /\ UNCHANGED <<clock, edge, fresh, over, sampling, epoch, busy, queue, active, final, result>>
        /\ UNCHANGED <<workVars, stats, lastEnd, base, host, flushVars, stopVars>>
    BY <1>3, <2>2 DEF DecodeData, Taken
  <2>6. SamplerOK' /\ ImagesOK' /\ DecodeOK' /\ CountOK'
    BY <1>0, <2>4, <2>5 DEF SamplerOK, ImagesOK, DecodeOK, CountOK
  <2> QED  BY <1>0, <2>5, <2>6, TypesUnchanged, TypePartsNext
<1>4. CASE HandOff
  <2>1. queue' \in Seq(Images) /\ busy' \in [Images -> BOOLEAN] /\ active' \in Images /\ UNCHANGED image
    <3>1. active \in Images /\ 1 - active \in Images
      BY <1>0 DEF ImagesOK, Images
    <3> QED  BY <1>0, <1>4, <3>1, AppendProperties DEF HandOff, NextImage, ImagesOK
  <2>2. ImagesOK'
    BY <1>0, <2>1 DEF ImagesOK
  <2>3. DecodeOK' /\ UNCHANGED <<samplerVars, workVars, countVars, host, flushVars, stopVars>>
    BY <1>0, <1>4 DEF HandOff, PassEnd, AfterPass, DecodeOK
  <2> QED  BY <1>0, <2>2, <2>3, TypesUnchanged, TypePartsNext
<1>5. CASE Restart
  <2>1. hw' \in Seq(Sample) /\ image' \in [Images -> Seq(Sample)]
    BY <1>5, EmptySeq DEF Restart
  <2>2. SamplerOK' /\ ImagesOK'
    <3>1. UNCHANGED <<clock, edge, sampling, busy, queue>> /\ active' = 0 /\ epoch' = epoch + 1
            /\ over' = FALSE /\ fresh' = TRUE
      BY <1>5 DEF Restart
    <3>2. SamplerOK'
      <4>1. clock' \in Nat /\ edge' \in Nat /\ epoch' \in Nat /\ sampling' \in BOOLEAN
        BY <1>0, <3>1 DEF SamplerOK
      <4> QED  BY <2>1, <3>1, <4>1, Zenon DEF SamplerOK
    <3>3. 0 \in Images
      BY DEF Images
    <3>4. ImagesOK'
      BY <1>0, <2>1, <3>1, <3>3 DEF ImagesOK
    <3> QED  BY <3>2, <3>4
  <2>3. DecodeOK' /\ UNCHANGED <<workVars, countVars, host, flushVars, stopVars>>
    BY <1>0, <1>5 DEF Restart, PassEnd, AfterPass, DecodeOK
  <2> QED  BY <1>0, <2>2, <2>3, TypesUnchanged, TypePartsNext
<1>6. CASE DecodeExits
  BY <1>0, <1>6, TypesUnchanged, TypePartsNext DEF DecodeExits, DecodeOK
<1>7. CASE StopSampling
  <2>1. SamplerOK' /\ DecodeOK'
    BY <1>0, <1>7 DEF StopSampling, SamplerOK, DecodeOK, NoAns
  <2>2. UNCHANGED <<imageVars, workVars, countVars, host, flushVars, stopVars>>
    BY <1>7 DEF StopSampling
  <2> QED  BY <1>0, <2>1, <2>2, TypesUnchanged, TypePartsNext
<1>8. CASE Finish
  BY <1>0, <1>8, TypesUnchanged, TypePartsNext DEF Finish, DecodeOK, WorkOK
<1>9. CASE WorkerTake
  <2>1. widx' \in Images /\ queue' \in Seq(Images)
    BY <1>0, <1>9, HeadTailProperties DEF WorkerTake, ImagesOK
  <2>2. ImagesOK' /\ WorkOK'
    BY <1>0, <1>9, <2>1 DEF WorkerTake, ImagesOK, WorkOK
  <2> QED  BY <1>0, <1>9, <2>2, TypesUnchanged, TypePartsNext DEF WorkerTake
<1>10. CASE WorkerInfo \/ WorkerFails \/ WorkerExits \/ WorkerEnd
  <2>1. WorkOK'
    BY <1>0, <1>10 DEF WorkerInfo, WorkerFails, WorkerExits, WorkerEnd, ImagesOK, WorkOK
  <2> QED
    BY <1>0, <1>10, <2>1, TypesUnchanged, TypePartsNext DEF WorkerInfo, WorkerFails, WorkerExits, WorkerEnd
<1>11. CASE DropEmpty \/ DropInvalid \/ DropStretched \/ KeepSample
  <2> DEFINE s == Head(rest)
  <2>1. /\ rest # <<>> /\ rest' = Tail(rest)
        /\ UNCHANGED <<samplerVars, imageVars, decodeVars, wpc, widx, quit, workerResult, gone, flushVars,
                       stopVars>>
    BY <1>11 DEF DropEmpty, DropInvalid, DropStretched, KeepSample, Evaluated
  <2>2. s \in Sample /\ s.start \in Nat /\ s.end \in Nat /\ WorkOK'
    BY <1>0, <2>1, NextSample DEF WorkOK, Sample
  <2>3. "empty" \in DOMAIN NoStats /\ "invalid" \in DOMAIN NoStats /\ "stretched" \in DOMAIN NoStats
          /\ "samples" \in DOMAIN NoStats
    BY StatNames
  <2>4. CASE DropEmpty \/ DropInvalid
    <3>1. stats' \in [DOMAIN NoStats -> Nat]
      <4>1. stats \in [DOMAIN NoStats -> Nat] /\ 0 \in Nat
        BY <1>0 DEF CountOK
      <4>2. /\ [stats EXCEPT !["empty"] = @ + 1] \in [DOMAIN NoStats -> Nat]
            /\ [stats EXCEPT !["invalid"] = @ + 1] \in [DOMAIN NoStats -> Nat]
        BY <2>3, <4>1, CountTypes
      <4> QED  BY <2>4, <4>2 DEF DropEmpty, DropInvalid
    <3>2. UNCHANGED <<lastEnd, base, host>>
      BY <2>4 DEF DropEmpty, DropInvalid
    <3>3. CountOK'
      BY <1>0, <2>1, <3>1, <3>2 DEF CountOK
    <3> QED  BY <1>0, <2>1, <2>2, <3>2, <3>3, TypesUnchanged, TypePartsNext
  <2>5. CASE DropStretched
    <3>1. ~Invalid(s) /\ stats' = [stats EXCEPT !.stretched = @ + 1, !.lost = @ + LostByStretch(s)]
      BY <2>5 DEF DropStretched
    <3>2. stats' \in [DOMAIN NoStats -> Nat]
      BY <1>0, <2>2, <2>3, <3>1, LossCount, CountTypes DEF CountOK
    <3>3. UNCHANGED host /\ lastEnd' \in Nat /\ base' \in Nat
      BY <1>0, <2>2, <2>5 DEF DropStretched, CountOK
    <3>4. CountOK'
      BY <1>0, <2>1, <3>2, <3>3 DEF CountOK
    <3> QED  BY <1>0, <2>1, <2>2, <3>3, <3>4, TypesUnchanged, TypePartsNext
  <2>6. CASE KeepSample
    <3>1. ~Invalid(s) /\ stats' = [stats EXCEPT !.samples = @ + 1, !.lost = @ + LostByGap(s)]
      BY <2>6 DEF KeepSample
    <3>2. stats' \in [DOMAIN NoStats -> Nat]
      BY <1>0, <2>2, <2>3, <3>1, LossCount, CountTypes DEF CountOK
    <3>3. host' = Append(host, s.end) /\ lastEnd' \in Nat /\ base' \in Nat
      BY <1>0, <2>2, <2>6 DEF KeepSample, CountOK
    <3>4. CountOK' /\ FlushOK'
      BY <1>0, <2>1, <2>2, <3>2, <3>3, AppendProperties DEF CountOK, FlushOK, flushVars
    <3> QED  BY <1>0, <2>1, <2>2, <3>4, TypesUnchanged, TypePartsNext
  <2> QED  BY <1>11, <2>4, <2>5, <2>6
<1>12. CASE WorkerReset
  <2>1. ImagesOK' /\ WorkOK'
    BY <1>0, <1>12, EmptySeq DEF WorkerReset, ImagesOK, WorkOK
  <2> QED  BY <1>0, <1>12, <2>1, TypesUnchanged, TypePartsNext DEF WorkerReset
<1>13. CASE WorkerRelease
  <2>1. ImagesOK' /\ WorkOK'
    BY <1>0, <1>13 DEF WorkerRelease, ResultOfWork, ImagesOK, WorkOK
  <2> QED  BY <1>0, <1>13, <2>1, TypesUnchanged, TypePartsNext DEF WorkerRelease
<1>14. CASE FlushDrain \/ FlushWrite \/ FlushExit
  <2>1. ASSUME FlushDrain PROVE FlushOK'
    BY <1>0, <2>1, EmptySeq DEF FlushDrain, FlushOK
  <2>2. ASSUME FlushWrite PROVE FlushOK'
    <3>1. written \o out \in Seq(Nat) /\ <<>> \in Seq(Nat)
      BY <1>0, EmptySeq, ConcatProperties DEF FlushOK
    <3> QED  BY <1>0, <2>2, <3>1 DEF FlushWrite, FlushOK
  <2>3. ASSUME FlushExit PROVE FlushOK'
    BY <1>0, <2>3 DEF FlushExit, FlushOK
  <2>4. FlushOK'
    BY <1>14, <2>1, <2>2, <2>3
  <2> QED  BY <1>0, <1>14, <2>4, TypesUnchanged, TypePartsNext DEF FlushDrain, FlushWrite, FlushExit
<1>15. CASE StopSignalled \/ ExitHook \/ StopJoined \/ CleanUp \/ CleanUpExits
  <2>1. StopOK'
    <3>1. stats.samples \in Nat
      BY <1>0, StatNames DEF CountOK
    <3>2. aborted' \in BOOLEAN
      <4>1. CASE ExitHook
        BY <4>1 DEF ExitHook
      <4>2. CASE ~ExitHook
        BY <1>0, <1>15, <4>2 DEF StopSignalled, StopJoined, CleanUp, CleanUpExits, StopOK
      <4> QED  BY <4>1, <4>2
    <3>3. due' \in Nat /\ phase' \in {"stopping", "joined", "stopped", "exit"}
      BY <1>0, <1>15, <3>1 DEF StopSignalled, ExitHook, StopJoined, CleanUp, CleanUpExits, StopOK
    <3> QED  BY <3>2, <3>3 DEF StopOK
  <2> QED
    BY <1>0, <1>15, <2>1, TypesUnchanged, TypePartsNext
       DEF StopSignalled, ExitHook, StopJoined, CleanUp, CleanUpExits
<1>16. CASE FinalFlush
  <2>1. FlushOK' /\ StopOK'
    BY <1>0, <1>16, EmptySeq, ConcatProperties DEF FinalFlush, Remaining, FlushOK, StopOK
  <2> QED  BY <1>0, <1>16, <2>1, TypesUnchanged, TypePartsNext DEF FinalFlush
<1> QED
  BY <1>1, <1>2, <1>3, <1>4, <1>5, <1>6, <1>7, <1>8, <1>9, <1>10, <1>11, <1>12, <1>13, <1>14, <1>15,
     <1>16
     DEF Next, Decoding, Working, Flushing, Stopping

\* The values every variable has, for every size and every period.
THEOREM TypeCorrect == Spec => []TypeOK
<1>1. TypeOK /\ [Next]_vars => TypeOK'
  <2> SUFFICES ASSUME TypeOK, [Next]_vars PROVE TypeOK'
    OBVIOUS
  <2>1. CASE UNCHANGED vars
    <3>1. UNCHANGED <<samplerVars, imageVars, decodeVars, workVars, countVars, host, flushVars, stopVars>>
      BY <2>1 DEF vars
    <3> QED  BY <3>1, TypeParts, TypesUnchanged, TypePartsNext
  <2> QED  BY <2>1, StepTypes
<1> QED  BY <1>1, InitTypes, PTL DEF Spec

---------------------------------------------------------------------------
(* Who has which image.                                                    *)

\* Queueing an image that is not queued.
LEMMA QueueAppend ==
  ASSUME NEW q \in Seq(Images), NEW a \in Images, a \notin ToSet(q), IsInjective(q)
  PROVE  ToSet(Append(q, a)) = ToSet(q) \union {a} /\ IsInjective(Append(q, a))
<1> DEFINE r == Append(q, a)
<1>1. Len(q) \in Nat /\ DOMAIN q = 1..Len(q)
  BY LenProperties
<1>2. r \in Seq(Images) /\ Len(r) = Len(q) + 1 /\ r[Len(q) + 1] = a /\ \A i \in 1..Len(q) : r[i] = q[i]
  BY AppendProperties
<1>3. DOMAIN r = 1..Len(q) + 1
  BY <1>2, LenProperties
<1> HIDE DEF r
<1>4. 1..Len(q) + 1 = 1..Len(q) \union {Len(q) + 1}
  BY <1>1
<1>5. ToSet(r) = ToSet(q) \union {a}
  BY <1>1, <1>2, <1>3, <1>4 DEF ToSet
<1>6. \A i \in 1..Len(q) : q[i] # a
  BY <1>1 DEF ToSet
<1>7. IsInjective(r)
  BY <1>1, <1>2, <1>3, <1>4, <1>6 DEF IsInjective
<1> QED  BY <1>5, <1>7 DEF r

\* Taking the first image off the queue.
LEMMA QueueTail ==
  ASSUME NEW q \in Seq(Images), q # <<>>, IsInjective(q)
  PROVE  /\ Head(q) \in ToSet(q)
         /\ ToSet(Tail(q)) = ToSet(q) \ {Head(q)}
         /\ IsInjective(Tail(q))
<1> DEFINE t == Tail(q)
<1>1. Len(q) \in Nat \ {0} /\ DOMAIN q = 1..Len(q)
  BY LenProperties, EmptySeq
<1>2. t \in Seq(Images) /\ Len(t) = Len(q) - 1 /\ \A i \in 1..Len(t) : t[i] = q[i + 1]
  BY HeadTailProperties
<1>3. DOMAIN t = 1..Len(q) - 1
  BY <1>2, LenProperties
<1>4. Head(q) = q[1]
  OBVIOUS
<1> HIDE DEF t
<1>5. Head(q) \in ToSet(q)
  BY <1>1, <1>4 DEF ToSet
<1>6. \A i \in 1..Len(q) - 1 : i + 1 \in 1..Len(q) /\ i + 1 # 1 /\ t[i] = q[i + 1]
  BY <1>1, <1>2
<1>7. \A j \in 1..Len(q) : j # 1 => j - 1 \in 1..Len(q) - 1 /\ t[j - 1] = q[j]
  BY <1>1, <1>2
<1>8. \A j \in 1..Len(q) : j # 1 => q[j] # Head(q)
  BY <1>1, <1>4 DEF IsInjective
<1>9. ToSet(t) = ToSet(q) \ {Head(q)}
  <2>1. ASSUME NEW x \in ToSet(t) PROVE x \in ToSet(q) \ {Head(q)}
    BY <1>1, <1>3, <1>6, <1>8 DEF ToSet
  <2>2. ASSUME NEW x \in ToSet(q), x # Head(q) PROVE x \in ToSet(t)
    BY <1>1, <1>3, <1>4, <1>7, <2>2 DEF ToSet
  <2> QED  BY <2>1, <2>2
<1>10. IsInjective(t)
  <2> SUFFICES ASSUME NEW i \in 1..Len(q) - 1, NEW j \in 1..Len(q) - 1, t[i] = t[j]
               PROVE  i = j
    BY <1>3 DEF IsInjective
  <2>1. q[i + 1] = q[j + 1] /\ i + 1 \in 1..Len(q) /\ j + 1 \in 1..Len(q)
    BY <1>6
  <2>2. i + 1 = j + 1
    BY <1>1, <2>1 DEF IsInjective
  <2> QED  BY <1>1, <2>2
<1> QED  BY <1>5, <1>9, <1>10 DEF t

\* An image is busy while it is queued or evaluated, and the decode thread's is not.
Owned ==
  /\ dpc \in {"decode", "handoff"} => ~busy[active]
  /\ \A i \in Images : busy[i] <=> (i \in ToSet(queue) \/ Evaluating(i))
  /\ \A i \in ToSet(queue) : ~Evaluating(i)
  /\ IsInjective(queue)

\* A free image is empty, except the one being handed over, as long as no
\* evaluation failed; and nothing is left of an image once it was evaluated.
CleanImages ==
  /\ dpc = "decode" => image[active] = <<>>
  /\ wpc \notin {"eval", "exit"} => rest = <<>>
  /\ wpc = "release" => image[widx] = <<>>
  /\ workerResult = "ok" =>
       \A i \in Images : image[i] = <<>> \/ busy[i] \/ (dpc = "handoff" /\ active = i)

OwnedClean == Owned /\ CleanImages

LEMMA OwnedCleanExclusive == TypeOK => (OwnedClean => ImagesExclusive)
<1> SUFFICES ASSUME TypeOK, OwnedClean PROVE ImagesExclusive
  OBVIOUS
<1>1. ASSUME NEW i \in Images
      PROVE  busy[i] = (i \in ToSet(queue) \/ Evaluating(i))
  <2>1. busy[i] \in BOOLEAN /\ (busy[i] <=> (i \in ToSet(queue) \/ Evaluating(i)))
    BY TypeParts DEF ImagesOK, OwnedClean, Owned
  <2> QED  BY <2>1, Zenon
<1> QED  BY <1>1 DEF ImagesExclusive, OwnedClean, Owned, CleanImages

\* Steps that leave the images and the worker alone: the image the decode thread
\* starts to write into is one it may take.
QuietStep ==
  /\ UNCHANGED <<imageVars, wpc, widx, rest, workerResult>>
  /\ dpc' = "decode" => dpc = "decode" \/ (dpc = "acquire" /\ ~busy[active] /\ workerResult = "ok")
  /\ dpc' = "handoff" => dpc \in {"decode", "handoff"}
  /\ dpc = "handoff" => dpc' = "handoff"

LEMMA QuietSteps ==
  ASSUME TypeOK,
         \/ Tick \/ PassStart \/ StopRequested \/ Acquire \/ AcquireFails \/ DecodeFlagged
         \/ DecodeOutOfMemory \/ DecodeFails \/ RestartFails \/ DecodeExits \/ StopSampling \/ Finish
         \/ Joined \/ FlushDrain \/ FlushWrite \/ FlushExit \/ StopSignalled \/ ExitHook \/ Stopping
         \/ UNCHANGED vars
  PROVE  QuietStep
<1> USE DEF workVars, decodeVars, QuietStep
<1>1. CASE Tick
  BY <1>1 DEF Tick
<1>2. CASE PassStart \/ StopRequested \/ Acquire
  BY <1>2 DEF PassStart, StopRequested, Acquire, IsFree
<1>3. CASE AcquireFails \/ DecodeFlagged \/ DecodeOutOfMemory \/ DecodeFails \/ RestartFails
  BY <1>3 DEF AcquireFails, DecodeFlagged, DecodeOutOfMemory, DecodeFails, RestartFails, PassEnd, AfterPass
<1>4. CASE DecodeExits \/ StopSampling \/ Finish \/ Joined
  BY <1>4 DEF DecodeExits, StopSampling, Finish, Joined
<1>5. CASE FlushDrain \/ FlushWrite \/ FlushExit
  BY <1>5 DEF FlushDrain, FlushWrite, FlushExit
<1>6. CASE StopSignalled \/ ExitHook \/ Stopping
  BY <1>6 DEF StopSignalled, ExitHook, Stopping, StopJoined, FinalFlush, CleanUp, CleanUpExits
<1>7. CASE UNCHANGED vars
  BY <1>7 DEF vars
<1> QED  BY <1>1, <1>2, <1>3, <1>4, <1>5, <1>6, <1>7

LEMMA OwnedCleanInit == Init => OwnedClean
<1> SUFFICES ASSUME Init PROVE OwnedClean
  OBVIOUS
<1>1. ToSet(<<>>) = {} /\ IsInjective(<<>>)
  BY DEF ToSet, IsInjective
<1>2. Owned
  BY <1>1 DEF Init, ThreadsLaunched, Owned, Evaluating
<1>3. CleanImages
  BY DEF Init, ThreadsLaunched, CleanImages
<1> QED  BY <1>2, <1>3 DEF OwnedClean

LEMMA OwnedCleanStep == TypeOK /\ OwnedClean /\ [Next]_vars => OwnedClean'
<1> SUFFICES ASSUME TypeOK, OwnedClean, [Next]_vars PROVE OwnedClean'
  OBVIOUS
<1>0. /\ Owned /\ CleanImages
      /\ image \in [Images -> Seq(Sample)] /\ busy \in [Images -> BOOLEAN]
      /\ queue \in Seq(Images) /\ active \in Images /\ widx \in Images
  BY TypeParts DEF OwnedClean, ImagesOK, WorkOK
<1>1. CASE QuietStep
  <2>1. UNCHANGED <<image, busy, queue, active, wpc, widx, rest, workerResult>>
    BY <1>1 DEF QuietStep, imageVars
  <2>2. \A i : Evaluating(i)' <=> Evaluating(i)
    BY <2>1 DEF Evaluating
  <2>3. Owned'
    BY <1>0, <1>1, <2>1, <2>2 DEF Owned, QuietStep
  <2>4. CleanImages'
    BY <1>0, <1>1, <2>1 DEF CleanImages, QuietStep
  <2> QED  BY <2>3, <2>4 DEF OwnedClean
<1>2. CASE DecodeData
  <2>1. /\ dpc = "decode" /\ dpc' = "handoff"
        /\ UNCHANGED <<busy, queue, active, wpc, widx, rest, workerResult>>
        /\ \A i \in Images : i # active => image'[i] = image[i]
    BY <1>0, <1>2 DEF DecodeData, workVars
  <2>2. \A i : Evaluating(i)' <=> Evaluating(i)
    BY <2>1 DEF Evaluating
  <2>3. Owned'
    BY <1>0, <2>1, <2>2 DEF Owned
  <2>4. wpc = "release" => widx # active
    BY <1>0, <2>1 DEF Owned, Evaluating
  <2>5. CleanImages'
    BY <1>0, <2>1, <2>4 DEF CleanImages
  <2> QED  BY <2>3, <2>5 DEF OwnedClean
<1>3. CASE HandOff
  <2>1. /\ dpc = "handoff" /\ dpc' \notin {"decode", "handoff"}
        /\ busy' = [busy EXCEPT ![active] = TRUE] /\ queue' = Append(queue, active)
        /\ UNCHANGED <<image, wpc, widx, rest, workerResult>>
    BY <1>3 DEF HandOff, PassEnd, AfterPass, workVars
  <2>2. active \notin ToSet(queue) /\ ~Evaluating(active)
    BY <1>0, <2>1 DEF Owned
  <2>3. ToSet(queue') = ToSet(queue) \union {active} /\ IsInjective(queue')
    BY <1>0, <2>1, <2>2, QueueAppend DEF Owned
  <2>4. \A i : Evaluating(i)' <=> Evaluating(i)
    BY <2>1 DEF Evaluating
  <2>5. Owned'
    BY <1>0, <2>1, <2>2, <2>3, <2>4 DEF Owned
  <2>6. CleanImages'
    BY <1>0, <2>1 DEF CleanImages
  <2> QED  BY <2>5, <2>6 DEF OwnedClean
<1>4. CASE Restart
  <2>1. /\ dpc = "restart" /\ dpc' \notin {"decode", "handoff"}
        /\ image' = [i \in Images |-> <<>>] /\ busy = [i \in Images |-> FALSE]
        /\ UNCHANGED <<busy, queue, wpc, widx, rest, workerResult>>
    BY <1>4 DEF Restart, PassEnd, AfterPass, workVars, WorkerIdle
  <2>2. \A i : Evaluating(i)' <=> Evaluating(i)
    BY <2>1 DEF Evaluating
  <2>3. Owned'
    BY <1>0, <2>1, <2>2 DEF Owned
  <2>4. CleanImages'
    BY <1>0, <2>1 DEF CleanImages
  <2> QED  BY <2>3, <2>4 DEF OwnedClean
<1>5. CASE WorkerTake
  <2>1. /\ wpc = "wait" /\ wpc' = "info" /\ queue # <<>>
        /\ widx' = Head(queue) /\ queue' = Tail(queue)
        /\ UNCHANGED <<image, busy, active, dpc, rest, workerResult>>
    BY <1>5 DEF WorkerTake, decodeVars
  <2>2. /\ Head(queue) \in ToSet(queue) /\ ToSet(queue') = ToSet(queue) \ {Head(queue)}
        /\ IsInjective(queue')
    BY <1>0, <2>1, QueueTail DEF Owned
  <2>3. \A i \in Images : ~Evaluating(i) /\ (Evaluating(i)' <=> i = Head(queue))
    BY <2>1 DEF Evaluating
  <2>4. ToSet(queue) \subseteq Images
    BY <1>0, LenProperties DEF ToSet
  <2>5. Owned'
    BY <1>0, <2>1, <2>2, <2>3, <2>4 DEF Owned
  <2>6. CleanImages'
    BY <1>0, <2>1 DEF CleanImages
  <2> QED  BY <2>5, <2>6 DEF OwnedClean
<1>6. CASE WorkerInfo \/ WorkerFails \/ WorkerExits \/ DropEmpty \/ DropInvalid \/ DropStretched
             \/ KeepSample
  <2>1. /\ UNCHANGED <<imageVars, dpc, widx, workerResult>>
        /\ wpc \in {"info", "eval"} /\ wpc' \in {"eval", "failed", "exit"}
        /\ wpc' = "failed" => UNCHANGED rest /\ wpc = "info"
    BY <1>6 DEF WorkerInfo, WorkerFails, WorkerExits, DropEmpty, DropInvalid, DropStretched, KeepSample,
                Evaluated, decodeVars
  <2>2. \A i : Evaluating(i)' <=> Evaluating(i)
    BY <2>1 DEF Evaluating
  <2>3. Owned'
    BY <1>0, <2>1, <2>2 DEF Owned, imageVars
  <2>4. CleanImages'
    BY <1>0, <2>1 DEF CleanImages, imageVars
  <2> QED  BY <2>3, <2>4 DEF OwnedClean
<1>7. CASE WorkerReset
  <2>1. /\ wpc = "eval" /\ rest = <<>> /\ wpc' = "release" /\ image' = [image EXCEPT ![widx] = <<>>]
        /\ UNCHANGED <<busy, queue, active, dpc, widx, rest, workerResult>>
    BY <1>7 DEF WorkerReset, decodeVars
  <2>2. \A i : Evaluating(i)' <=> Evaluating(i)
    BY <2>1 DEF Evaluating
  <2>3. Owned'
    BY <1>0, <2>1, <2>2 DEF Owned
  <2>4. CleanImages'
    BY <1>0, <2>1 DEF CleanImages
  <2> QED  BY <2>3, <2>4 DEF OwnedClean
<1>8. CASE WorkerRelease
  <2>1. /\ wpc \in {"release", "failed"} /\ wpc' = "wait" /\ busy' = [busy EXCEPT ![widx] = FALSE]
        /\ workerResult' = "ok" => wpc = "release" /\ workerResult = "ok"
        /\ UNCHANGED <<image, queue, active, dpc, widx, rest>>
    BY <1>8 DEF WorkerRelease, decodeVars, ResultOfWork
  <2>2. Evaluating(widx) /\ widx \notin ToSet(queue)
    BY <1>0, <2>1 DEF Owned, Evaluating
  <2>3. \A i \in Images : ~Evaluating(i)' /\ (i # widx => ~Evaluating(i))
    BY <2>1 DEF Evaluating
  <2>4. ToSet(queue) \subseteq Images
    BY <1>0, LenProperties DEF ToSet
  <2>5. Owned'
    BY <1>0, <2>1, <2>2, <2>3, <2>4 DEF Owned
  <2>6. CleanImages'
    BY <1>0, <2>1 DEF CleanImages
  <2> QED  BY <2>5, <2>6 DEF OwnedClean
<1>9. CASE WorkerEnd
  <2>1. wpc = "wait" /\ wpc' = "done" /\ UNCHANGED <<imageVars, dpc, widx, rest, workerResult>>
    BY <1>9 DEF WorkerEnd, decodeVars
  <2>2. \A i : Evaluating(i)' <=> Evaluating(i)
    BY <2>1 DEF Evaluating
  <2>3. Owned'
    BY <1>0, <2>1, <2>2 DEF Owned, imageVars
  <2>4. CleanImages'
    BY <1>0, <2>1 DEF CleanImages, imageVars
  <2> QED  BY <2>3, <2>4 DEF OwnedClean
<1> QED
  BY <1>1, <1>2, <1>3, <1>4, <1>5, <1>6, <1>7, <1>8, <1>9, QuietSteps
     DEF Next, Decoding, Working, Flushing, Stopping

\* The decode thread writes only into images that were handed back and emptied,
\* and the worker evaluates only what was handed over, once.
THEOREM ImagesExclusiveCorrect == Spec => []ImagesExclusive
<1>1. OwnedClean /\ TypeOK /\ [Next]_vars => OwnedClean'
  BY OwnedCleanStep
<1>2. TypeOK /\ OwnedClean => ImagesExclusive
  BY OwnedCleanExclusive
<1> QED  BY <1>1, <1>2, OwnedCleanInit, TypeCorrect, PTL DEF Spec

\* A sampler is enabled again only when both images are empty and nothing is
\* left to evaluate.
THEOREM RestartDropsNothingCorrect == Spec => RestartDropsNothing
<1> DEFINE A == epoch' # epoch => image = [i \in Images |-> <<>>] /\ rest = <<>>
<1>1. ASSUME TypeOK, OwnedClean, [Next]_vars
      PROVE  A
  <2>1. CASE Restart
    <3>1. /\ dpc = "restart" /\ busy = [i \in Images |-> FALSE] /\ workerResult = "ok"
      BY <2>1 DEF Restart, WorkerIdle
    <3>2. image \in [Images -> Seq(Sample)] /\ widx \in Images
      BY <1>1, TypeParts DEF ImagesOK, WorkOK
    <3>3. \A i \in Images : image[i] = <<>>
      BY <1>1, <3>1 DEF OwnedClean, CleanImages
    <3>4. wpc \notin {"eval", "exit"}
      BY <1>1, <3>1, <3>2 DEF OwnedClean, Owned, Evaluating
    <3> QED  BY <1>1, <3>2, <3>3, <3>4 DEF OwnedClean, CleanImages
  <2>2. CASE ~Restart
    <3>1. UNCHANGED epoch
      BY <1>1, <2>2
         DEF Next, vars, Tick, Decoding, Working, Flushing, Stopping, PassStart, StopRequested, Acquire,
             AcquireFails, DecodeData, DecodeFlagged, DecodeOutOfMemory, DecodeFails, HandOff, RestartFails,
             DecodeExits, StopSampling, Finish, Joined, WorkerTake, WorkerInfo, WorkerFails, DropEmpty,
             DropInvalid, DropStretched, KeepSample, Evaluated, WorkerReset, WorkerExits, WorkerRelease,
             WorkerEnd, FlushDrain, FlushWrite, FlushExit, StopSignalled, ExitHook, StopJoined, FinalFlush,
             CleanUp, CleanUpExits, samplerVars
    <3> QED  BY <3>1
  <2> QED  BY <2>1, <2>2
<1>2. TypeOK /\ OwnedClean /\ [Next]_vars => [A]_vars
  BY <1>1
<1>3. OwnedClean /\ TypeOK /\ [Next]_vars => OwnedClean'
  BY OwnedCleanStep
<1>4. Spec => [][A]_vars
  BY <1>2, <1>3, OwnedCleanInit, TypeCorrect, PTL DEF Spec
<1> QED  BY <1>4 DEF RestartDropsNothing

---------------------------------------------------------------------------
(* What Stop() leaves behind.                                              *)

\* The last pass empties the hardware buffer: nothing is recorded during it, and
\* it ends without an error only when nothing was left behind.
LastPass ==
  /\ over => hw = <<>>
  /\ final => dpc \in {"acquire", "decode", "handoff", "finish", "join", "done"}
  /\ final /\ dpc = "handoff" /\ ~ans.full => hw = <<>>
  /\ dpc \in {"finish", "join", "done"} /\ result = "ok" => final /\ hw = <<>>

\* The worker ends after the decode thread told it to and took what was queued;
\* the decode thread ends after it, and with its result.
WorkerEnds ==
  /\ quit <=> dpc \in {"join", "done"}
  /\ wpc = "done" => quit /\ queue = <<>>
  /\ dpc = "done" => wpc = "done" /\ (result = "ok" => workerResult = "ok")
  /\ phase \notin {"run", "stopping"} => dpc = "done"

\* Every kept sample is in the host's buffer, in the flush thread's hands or in the file.
AllOnTheWay ==
  /\ Len(written) + Len(out) + Len(host) = stats.samples
  /\ fpc # "write" => out = <<>>
  /\ fpc = "exited" => phase \notin {"run", "stopping"}
  /\ FileClosed => fpc = "exited" /\ host = <<>>
  /\ due <= stats.samples

LEMMA LastPassInit == Init => LastPass
BY DEF Init, SamplerStarted, ThreadsLaunched, LastPass

LEMMA LastPassStep == TypeOK /\ LastPass /\ [Next]_vars => LastPass'
<1> SUFFICES ASSUME TypeOK, LastPass, [Next]_vars PROVE LastPass'
  OBVIOUS
<1>0. hw \in Seq(Sample) /\ Len(hw) \in Nat
  BY TypeParts, LenProperties DEF SamplerOK
<1>1. CASE UNCHANGED <<over, hw, final, dpc, ans, result>>
  BY <1>1 DEF LastPass
<1>2. CASE Tick
  <2>1. ~final /\ (over' => hw' = <<>> \/ UNCHANGED <<over, hw>>) /\ UNCHANGED <<final, dpc, ans, result>>
    BY <1>2 DEF Tick, decodeVars
  <2> QED  BY <2>1 DEF LastPass
<1>3. CASE PassStart \/ StopRequested \/ Acquire
  BY <1>3 DEF PassStart, StopRequested, Acquire, LastPass, samplerVars
<1>4. CASE AcquireFails \/ DecodeFails \/ RestartFails
  <2>1. /\ result' = "failed" /\ dpc' = AfterPass("failed") /\ UNCHANGED <<over, hw, final, ans>>
    BY <1>4, TypeParts
       DEF AcquireFails, DecodeFails, RestartFails, PassEnd, AfterPass, samplerVars, WorkOK
  <2> QED  BY <2>1 DEF LastPass, AfterPass
<1>5. CASE DecodeOutOfMemory
  BY <1>5 DEF DecodeOutOfMemory, PassEnd, AfterPass, LastPass, samplerVars
<1>6. CASE DecodeData
  <2>1. /\ dpc = "decode" /\ ~over /\ UNCHANGED <<over, final, result>> /\ dpc' = "handoff"
        /\ hw' = SubSeq(hw, Taken + 1, Len(hw)) /\ ans' = [overflow |-> FALSE, full |-> Len(hw) > Taken]
    BY <1>6 DEF DecodeData, Taken
  <2>2. Taken \in 0..Len(hw) /\ hw' \in Seq(Sample) /\ Len(hw') = Len(hw) - Taken
    BY <1>0, <2>1, TakenInBuffer, TakenRecords
  <2>3. ~ans'.full => Len(hw') = 0
    <3>1. ans'.full = (Len(hw) > Taken)
      BY <2>1, Zenon
    <3>2. ~(Len(hw) > Taken) => Len(hw) - Taken = 0
      BY <1>0, <2>2
    <3> QED  BY <2>2, <3>1, <3>2
  <2>4. ~ans'.full => hw' = <<>>
    BY <2>2, <2>3, EmptySeq
  <2> QED  BY <2>1, <2>4 DEF LastPass
<1>7. CASE DecodeFlagged
  BY <1>7 DEF DecodeFlagged, LastPass, samplerVars
<1>8. CASE HandOff
  <2>1. /\ dpc = "handoff" /\ UNCHANGED <<over, hw, final, ans>>
        /\ \/ dpc' \in {"restart", "acquire"} /\ (dpc' = "restart" => ~final)
           \/ ~ans.full /\ result' = "ok" /\ dpc' = AfterPass("ok")
    BY <1>8 DEF HandOff, PassEnd, FlaggedRestarts, samplerVars
  <2> QED  BY <2>1 DEF LastPass, AfterPass
<1>9. CASE Restart
  BY <1>9 DEF Restart, PassEnd, AfterPass, LastPass
<1>10. CASE StopSampling
  BY <1>10 DEF StopSampling, LastPass
<1>11. CASE DecodeExits \/ Finish \/ Joined
  BY <1>11 DEF DecodeExits, Finish, Joined, LastPass, samplerVars
<1>12. CASE Working \/ Flushing \/ StopSignalled \/ ExitHook \/ Stopping \/ UNCHANGED vars
  <2>1. UNCHANGED <<over, hw, final, dpc, ans, result>>
    BY <1>12 DEF Working, WorkerTake, WorkerInfo, WorkerFails, DropEmpty, DropInvalid, DropStretched,
         KeepSample, Evaluated, WorkerReset, WorkerExits, WorkerRelease, WorkerEnd, Flushing, FlushDrain,
         FlushWrite, FlushExit, StopSignalled, ExitHook, Stopping, StopJoined, FinalFlush, CleanUp,
         CleanUpExits, vars, samplerVars, decodeVars
  <2> QED  BY <1>1, <2>1
<1> QED
  BY <1>2, <1>3, <1>4, <1>5, <1>6, <1>7, <1>8, <1>9, <1>10, <1>11, <1>12 DEF Next, Decoding

LEMMA WorkerEndsInit == Init => WorkerEnds
BY DEF Init, ThreadsLaunched, WorkerEnds

LEMMA WorkerEndsStep == TypeOK /\ WorkerEnds /\ [Next]_vars => WorkerEnds'
<1> SUFFICES ASSUME TypeOK, WorkerEnds, [Next]_vars PROVE WorkerEnds'
  OBVIOUS
<1>0. quit \in BOOLEAN
  BY TypeParts DEF WorkOK
<1>1. CASE UNCHANGED <<queue, dpc, result, wpc, quit, workerResult, phase>>
  BY <1>1 DEF WorkerEnds
<1>2. CASE \/ PassStart \/ StopRequested \/ Acquire \/ AcquireFails \/ DecodeData \/ DecodeFlagged
           \/ DecodeOutOfMemory \/ DecodeFails \/ HandOff \/ Restart \/ RestartFails \/ DecodeExits
           \/ StopSampling
  <2>1. /\ dpc \notin {"join", "done"} /\ dpc' \notin {"join", "done"}
        /\ UNCHANGED <<wpc, quit, workerResult, phase>>
    BY <1>2 DEF PassStart, StopRequested, Acquire, AcquireFails, DecodeData, DecodeFlagged,
         DecodeOutOfMemory, DecodeFails, HandOff, Restart, RestartFails, DecodeExits, StopSampling, PassEnd,
         AfterPass, workVars, stopVars
  <2> QED  BY <2>1 DEF WorkerEnds
<1>3. CASE Finish
  BY <1>3 DEF Finish, WorkerEnds, imageVars, stopVars
<1>4. CASE Joined
  BY <1>4 DEF Joined, WorkerEnds, imageVars, workVars, stopVars
<1>5. CASE WorkerTake \/ WorkerInfo \/ WorkerFails \/ WorkerExits
  <2>1. wpc # "done" /\ wpc' # "done" /\ UNCHANGED <<dpc, result, quit, workerResult, phase>>
    BY <1>5 DEF WorkerTake, WorkerInfo, WorkerFails, WorkerExits, decodeVars, stopVars
  <2> QED  BY <2>1 DEF WorkerEnds
<1>6. CASE WorkerReset \/ WorkerRelease
  <2>1. wpc # "done" /\ wpc' # "done" /\ UNCHANGED <<dpc, result, quit, phase>>
    BY <1>6 DEF WorkerReset, WorkerRelease, decodeVars, stopVars
  <2> QED  BY <2>1 DEF WorkerEnds
<1>7. CASE WorkerEnd
  BY <1>7 DEF WorkerEnd, WorkerEnds, imageVars, decodeVars, stopVars
<1>8. CASE StopSignalled \/ ExitHook \/ Stopping
  BY <1>8 DEF StopSignalled, ExitHook, Stopping, StopJoined, DecodeJoined, FinalFlush, CleanUp, CleanUpExits,
              WorkerEnds, imageVars, decodeVars, workVars
<1>9. CASE \/ Tick \/ DropEmpty \/ DropInvalid \/ DropStretched \/ KeepSample \/ Flushing
           \/ UNCHANGED vars
  <2>1. UNCHANGED <<queue, dpc, result, wpc, quit, workerResult, phase>>
    BY <1>9 DEF Tick, DropEmpty, DropInvalid, DropStretched, KeepSample, Evaluated, Flushing,
         FlushDrain, FlushWrite, FlushExit, vars, imageVars, decodeVars, workVars, stopVars
  <2> QED  BY <1>1, <2>1
<1> QED
  BY <1>2, <1>3, <1>4, <1>5, <1>6, <1>7, <1>8, <1>9 DEF Next, Decoding, Working

LEMMA AllOnTheWayInit == Init => AllOnTheWay
<1>1. Len(<<>>) = 0 /\ NoStats.samples = 0
  BY StatNames
<1> QED  BY <1>1 DEF Init, ThreadsLaunched, AllOnTheWay, FileClosed

LEMMA AllOnTheWayStep == TypeOK /\ WorkerEnds /\ AllOnTheWay /\ [Next]_vars => AllOnTheWay'
<1> SUFFICES ASSUME TypeOK, WorkerEnds, AllOnTheWay, [Next]_vars PROVE AllOnTheWay'
  OBVIOUS
<1>0. /\ FlushOK /\ CountOK /\ due \in Nat
      /\ Len(written) \in Nat /\ Len(out) \in Nat /\ Len(host) \in Nat
      /\ stats.samples \in Nat /\ Len(<<>>) = 0
  <2>1. FlushOK /\ CountOK /\ due \in Nat
    BY TypeParts DEF StopOK
  <2>2. Len(written) \in Nat /\ Len(out) \in Nat /\ Len(host) \in Nat
    BY <2>1, LenProperties DEF FlushOK
  <2>3. stats.samples \in Nat
    BY <2>1, StatNames DEF CountOK
  <2> QED  BY <2>1, <2>2, <2>3
<1>1. CASE UNCHANGED <<written, out, host, fpc, phase, due>> /\ stats'.samples = stats.samples
  BY <1>1 DEF AllOnTheWay, FileClosed
<1>2. CASE DropEmpty \/ DropInvalid \/ DropStretched
  <2>1. stats'.samples = stats.samples
    <3>1. stats \in [DOMAIN NoStats -> Nat] /\ 0 \in Nat
      BY <1>0 DEF CountOK
    <3>2. "samples" \in DOMAIN NoStats /\ "empty" \in DOMAIN NoStats /\ "invalid" \in DOMAIN NoStats
            /\ "stretched" \in DOMAIN NoStats
      BY StatNames
    <3>3. CASE DropEmpty \/ DropInvalid
      <4>1. /\ [stats EXCEPT !["empty"] = @ + 1]["samples"] = stats["samples"]
            /\ [stats EXCEPT !["invalid"] = @ + 1]["samples"] = stats["samples"]
        BY <3>1, <3>2, CountTypes
      <4> QED  BY <3>3, <4>1 DEF DropEmpty, DropInvalid
    <3>4. CASE DropStretched
      <4>1. /\ ~Invalid(Head(rest)) /\ Head(rest) \in Sample
            /\ stats' = [stats EXCEPT !.stretched = @ + 1, !.lost = @ + LostByStretch(Head(rest))]
        BY <3>4, NextSample DEF DropStretched
      <4>2. LostByStretch(Head(rest)) \in Nat
        BY <4>1, LossCount
      <4> QED  BY <3>1, <3>2, <4>1, <4>2, CountTypes
    <3> QED  BY <1>2, <3>3, <3>4
  <2>2. UNCHANGED <<written, out, host, fpc, phase, due>>
    BY <1>2 DEF DropEmpty, DropInvalid, DropStretched, Evaluated, flushVars, stopVars
  <2> QED  BY <1>1, <2>1, <2>2
<1>3. CASE KeepSample
  <2> DEFINE s == Head(rest)
  <2>1. /\ rest # <<>> /\ wpc = "eval" /\ ~Invalid(s) /\ host' = Append(host, s.end)
        /\ stats' = [stats EXCEPT !.samples = @ + 1, !.lost = @ + LostByGap(s)]
        /\ UNCHANGED <<written, out, fpc, phase, due>>
    BY <1>3 DEF KeepSample, Evaluated, flushVars, stopVars
  <2>2. s \in Sample /\ s.end \in Nat /\ LostByGap(s) \in Nat
    BY <2>1, NextSample, LossCount DEF Sample
  <2>3. "samples" \in DOMAIN NoStats /\ stats \in [DOMAIN NoStats -> Nat]
    BY <1>0, StatNames DEF CountOK
  <2>4. stats'.samples = stats.samples + 1
    BY <2>1, <2>2, <2>3, CountTypes
  <2>5. Len(host') = Len(host) + 1
    BY <1>0, <2>1, <2>2, AppendProperties DEF FlushOK
  <2>6. ~FileClosed
    BY <2>1 DEF WorkerEnds, FileClosed
  <2> QED  BY <1>0, <2>1, <2>4, <2>5, <2>6 DEF AllOnTheWay, FileClosed
<1>4. CASE FlushDrain
  <2>1. out = <<>> /\ out' = host /\ host' = <<>> /\ fpc' = "write" /\ ~FileClosed
          /\ UNCHANGED <<written, stats, phase, due>>
    BY <1>4 DEF FlushDrain, AllOnTheWay, countVars, stopVars
  <2> QED  BY <1>0, <2>1 DEF AllOnTheWay, FileClosed
<1>5. CASE FlushWrite
  <2>1. written' = written \o out /\ out' = <<>> /\ fpc = "write" /\ fpc' = "wait"
          /\ UNCHANGED <<host, stats, phase, due>>
    BY <1>5 DEF FlushWrite, countVars, stopVars
  <2>2. Len(written') = Len(written) + Len(out)
    BY <1>0, <2>1, ConcatProperties DEF FlushOK
  <2> QED  BY <1>0, <2>1, <2>2 DEF AllOnTheWay, FileClosed
<1>6. CASE FlushExit
  BY <1>6 DEF FlushExit, AllOnTheWay, FileClosed, countVars, stopVars
<1>7. CASE StopSignalled \/ ExitHook
  BY <1>0, <1>7 DEF StopSignalled, ExitHook, AllOnTheWay, FileClosed, countVars, flushVars
<1>8. CASE StopJoined \/ CleanUp \/ CleanUpExits
  BY <1>8 DEF StopJoined, CleanUp, CleanUpExits, AllOnTheWay, FileClosed, countVars, flushVars
<1>9. CASE FinalFlush
  <2>1. written' = written \o host /\ host' = <<>> /\ phase' = "closed" /\ fpc = "exited" /\ out = <<>>
          /\ UNCHANGED <<out, fpc, stats, due>>
    BY <1>9 DEF FinalFlush, Remaining, AllOnTheWay, countVars
  <2>2. Len(written') = Len(written) + Len(host)
    BY <1>0, <2>1, ConcatProperties DEF FlushOK
  <2> QED  BY <1>0, <2>1, <2>2 DEF AllOnTheWay
<1>10. CASE \/ Tick \/ Decoding \/ WorkerTake \/ WorkerInfo \/ WorkerFails \/ WorkerReset \/ WorkerExits
            \/ WorkerRelease \/ WorkerEnd \/ UNCHANGED vars
  <2>1. UNCHANGED <<written, out, host, fpc, phase, due, stats>>
    BY <1>10 DEF Tick, Decoding, PassStart, StopRequested, Acquire, AcquireFails, DecodeData, DecodeFlagged,
         DecodeOutOfMemory, DecodeFails, HandOff, Restart, RestartFails, DecodeExits, StopSampling, Finish,
         Joined, WorkerTake, WorkerInfo, WorkerFails, WorkerReset, WorkerExits, WorkerRelease, WorkerEnd, vars,
         countVars, flushVars, stopVars
  <2> QED  BY <1>1, <2>1
<1> QED
  BY <1>2, <1>3, <1>4, <1>5, <1>6, <1>7, <1>8, <1>9, <1>10 DEF Next, Working, Flushing, Stopping

\* What holds in every state, for all of what follows.
DecodeInv == TypeOK /\ OwnedClean /\ LastPass /\ WorkerEnds /\ AllOnTheWay

THEOREM DecodeInvCorrect == Spec => []DecodeInv
<1>1. Init => OwnedClean /\ LastPass /\ WorkerEnds /\ AllOnTheWay
  BY OwnedCleanInit, LastPassInit, WorkerEndsInit, AllOnTheWayInit
<1>2. TypeOK /\ OwnedClean /\ LastPass /\ WorkerEnds /\ AllOnTheWay /\ [Next]_vars
        => OwnedClean' /\ LastPass' /\ WorkerEnds' /\ AllOnTheWay'
  BY OwnedCleanStep, LastPassStep, WorkerEndsStep, AllOnTheWayStep
<1> QED  BY <1>1, <1>2, TypeCorrect, PTL DEF Spec, DecodeInv

\* When Stop() closes the file without an error, nothing recorded is left anywhere
\* but in the file.
THEOREM StopTakesAllCorrect == Spec => []StopTakesAll
<1>1. ASSUME DecodeInv, FileClosed, result = "ok"
      PROVE  /\ hw = <<>> /\ queue = <<>> /\ image = [i \in Images |-> <<>>]
             /\ Len(written) = stats.samples
  <2>1. TypeOK /\ OwnedClean /\ LastPass /\ WorkerEnds /\ AllOnTheWay
    BY <1>1 DEF DecodeInv
  <2>2. dpc = "done" /\ wpc = "done" /\ workerResult = "ok" /\ queue = <<>> /\ hw = <<>>
    BY <1>1, <2>1 DEF WorkerEnds, LastPass, FileClosed
  <2>3. ToSet(queue) = {} /\ \A i \in Images : ~Evaluating(i)
    BY <2>2 DEF ToSet, Evaluating
  <2>4. \A i \in Images : image[i] = <<>>
    BY <2>1, <2>2, <2>3 DEF OwnedClean, Owned, CleanImages
  <2>5. image = [i \in Images |-> <<>>]
    BY <2>1, <2>4, TypeParts DEF ImagesOK
  <2>6. Len(written) \in Nat /\ stats.samples \in Nat /\ Len(<<>>) = 0
    <3>1. CountOK /\ FlushOK
      BY <2>1, TypeParts
    <3> QED  BY <3>1, StatNames, LenProperties DEF CountOK, FlushOK
  <2>7. out = <<>> /\ host = <<>>
    BY <1>1, <2>1 DEF AllOnTheWay
  <2>8. Len(written) = stats.samples
    BY <2>1, <2>6, <2>7 DEF AllOnTheWay
  <2> QED  BY <2>2, <2>5, <2>8
<1>2. DecodeInv => StopTakesAll
  BY <1>1 DEF StopTakesAll
<1> QED  BY <1>2, DecodeInvCorrect, PTL

---------------------------------------------------------------------------
(* The kept samples are a TraceLog.                                        *)

\* What Stop() is doing, in TraceLog's words.
Closing == CASE phase = "run" -> "no" [] FileClosed -> "done" [] OTHER -> "begun"

LEMMA ClosingCases ==
  /\ phase = "run" => Closing = "no"
  /\ phase \in {"stopping", "joined"} => Closing = "begun"
  /\ FileClosed => Closing = "done"
BY DEF Closing, FileClosed

\* Writing the next b records after the first a of them.
LEMMA NextRecords ==
  ASSUME NEW a \in Nat, NEW b \in Nat, NEW n \in Nat, a + b <= n
  PROVE  /\ a + 1..a + b \subseteq 1..n \ 1..a
         /\ 1..a + b = 1..a \union a + 1..a + b
         /\ Cardinality(a + 1..a + b) = b
<1>1. a + 1 \in Int /\ a + b \in Int
  OBVIOUS
<1>2. Cardinality(a + 1..a + b) = IF a + 1 > a + b THEN 0 ELSE a + b - (a + 1) + 1
  BY <1>1, FS_Interval
<1>3. (IF a + 1 > a + b THEN 0 ELSE a + b - (a + 1) + 1) = b
  OBVIOUS
<1> QED  BY <1>2, <1>3

\* TraceLog counts with the same Cardinality.
LEMMA LogCardinality == \A S : Log!Cardinality(S) = Cardinality(S)
BY Zenon DEF Log!Cardinality, Cardinality

LEMMA LogInit == Init => Log!Init
<1> SUFFICES ASSUME Init PROVE Log!Init
  OBVIOUS
<1>1. Len(<<>>) = 0 /\ 1..0 = {} /\ NoStats.samples = 0
  BY StatNames
<1>2. Closing = "no"
  BY ClosingCases DEF Init, ThreadsLaunched
<1> QED  BY <1>1, <1>2 DEF Init, ThreadsLaunched, Log!Init, Closing

\* What a step does to the log, in the code's own variables.
LEMMA LogSteps ==
  ASSUME DecodeInv, [Next]_vars
  PROVE  \/ UNCHANGED <<stats.samples, Len(written), due, Closing>>
         \/ stats'.samples = stats.samples + 1 /\ UNCHANGED <<Len(written), due, Closing>>
         \/ /\ Len(written') = Len(written) + Len(out) /\ Closing # "done"
            /\ UNCHANGED <<stats.samples, due, Closing>>
         \/ /\ Closing = "no" /\ Closing' = "begun" /\ due' = stats.samples
            /\ UNCHANGED <<stats.samples, Len(written)>>
         \/ /\ Closing = "begun" /\ Closing' = "done" /\ out = <<>>
            /\ Len(written') = Len(written) + Len(host)
            /\ UNCHANGED <<stats.samples, due>>
<1>0. /\ TypeOK /\ WorkerEnds /\ AllOnTheWay /\ CountOK /\ FlushOK /\ StopOK
      /\ Closing' = (CASE phase' = "run" -> "no" [] FileClosed' -> "done" [] OTHER -> "begun")
  BY TypeParts DEF DecodeInv, Closing
<1>1. CASE DropEmpty \/ DropInvalid \/ DropStretched \/ KeepSample
  <2>1. UNCHANGED <<written, due, phase>>
    BY <1>1 DEF DropEmpty, DropInvalid, DropStretched, KeepSample, Evaluated, flushVars, stopVars
  <2>2. stats \in [DOMAIN NoStats -> Nat] /\ "samples" \in DOMAIN NoStats /\ "empty" \in DOMAIN NoStats
          /\ "invalid" \in DOMAIN NoStats /\ "stretched" \in DOMAIN NoStats /\ 0 \in Nat
    BY <1>0, StatNames DEF CountOK
  <2>3. CASE DropEmpty \/ DropInvalid
    <3>1. /\ [stats EXCEPT !["empty"] = @ + 1]["samples"] = stats["samples"]
          /\ [stats EXCEPT !["invalid"] = @ + 1]["samples"] = stats["samples"]
      BY <2>2, CountTypes
    <3>2. stats'.samples = stats.samples
      BY <2>3, <3>1 DEF DropEmpty, DropInvalid
    <3> QED  BY <2>1, <3>2 DEF Closing, FileClosed
  <2>4. CASE DropStretched
    <3>1. /\ ~Invalid(Head(rest)) /\ Head(rest) \in Sample
          /\ stats' = [stats EXCEPT !.stretched = @ + 1, !.lost = @ + LostByStretch(Head(rest))]
      BY <1>0, <2>4, NextSample DEF DropStretched
    <3>2. stats'.samples = stats.samples
      BY <1>0, <2>2, <3>1, LossCount, CountTypes
    <3> QED  BY <2>1, <3>2 DEF Closing, FileClosed
  <2>5. CASE KeepSample
    <3>1. /\ ~Invalid(Head(rest)) /\ Head(rest) \in Sample
          /\ stats' = [stats EXCEPT !.samples = @ + 1, !.lost = @ + LostByGap(Head(rest))]
      BY <1>0, <2>5, NextSample DEF KeepSample
    <3>2. stats'.samples = stats.samples + 1
      BY <1>0, <2>2, <3>1, LossCount, CountTypes
    <3> QED  BY <2>1, <3>2 DEF Closing, FileClosed
  <2> QED  BY <1>1, <2>3, <2>4, <2>5
<1>2. CASE FlushWrite
  <2>1. written' = written \o out /\ fpc = "write" /\ UNCHANGED <<stats, phase, due>>
    BY <1>2 DEF FlushWrite, countVars, stopVars
  <2>2. Len(written') = Len(written) + Len(out)
    BY <1>0, <2>1, ConcatProperties DEF FlushOK
  <2>3. ~FileClosed /\ Closing # "done" /\ Closing' = Closing
    BY <1>0, <2>1 DEF AllOnTheWay, Closing, FileClosed
  <2> QED  BY <2>1, <2>2, <2>3
<1>3. CASE StopSignalled \/ ExitHook
  <2>1. phase = "run" /\ phase' = "stopping" /\ due' = stats.samples /\ UNCHANGED <<stats, written>>
    BY <1>3 DEF StopSignalled, ExitHook, countVars, flushVars
  <2> QED  BY <1>0, <2>1, ClosingCases DEF FileClosed
<1>4. CASE FinalFlush
  <2>1. written' = written \o host /\ phase = "joined" /\ phase' = "closed" /\ fpc = "exited"
          /\ UNCHANGED <<stats, due>>
    BY <1>4 DEF FinalFlush, Remaining, countVars
  <2>2. Len(written') = Len(written) + Len(host)
    BY <1>0, <2>1, ConcatProperties DEF FlushOK
  <2>3. Closing = "begun" /\ Closing' = "done" /\ out = <<>>
    BY <1>0, <2>1, ClosingCases DEF AllOnTheWay, FileClosed
  <2> QED  BY <2>1, <2>2, <2>3
<1>5. CASE StopJoined \/ CleanUp \/ CleanUpExits
  <2>1. /\ \/ phase = "stopping" /\ phase' = "joined"
           \/ phase = "closed" /\ phase' \in {"stopped", "exit"}
        /\ UNCHANGED <<stats, written, due>>
    BY <1>5 DEF StopJoined, CleanUp, CleanUpExits, countVars, flushVars
  <2> QED  BY <1>0, <2>1, ClosingCases DEF FileClosed
<1>6. CASE \/ Tick \/ Decoding \/ WorkerTake \/ WorkerInfo \/ WorkerFails \/ WorkerReset \/ WorkerExits
           \/ WorkerRelease \/ WorkerEnd \/ FlushDrain \/ FlushExit \/ UNCHANGED vars
  <2>1. UNCHANGED <<stats, written, due, phase>>
    BY <1>6 DEF Tick, Decoding, PassStart, StopRequested, Acquire, AcquireFails, DecodeData, DecodeFlagged,
         DecodeOutOfMemory, DecodeFails, HandOff, Restart, RestartFails, DecodeExits, StopSampling, Finish,
         Joined, WorkerTake, WorkerInfo, WorkerFails, WorkerReset, WorkerExits, WorkerRelease, WorkerEnd,
         FlushDrain, FlushExit, vars, countVars, flushVars, stopVars
  <2> QED  BY <2>1 DEF Closing, FileClosed
<1> QED
  BY <1>1, <1>2, <1>3, <1>4, <1>5, <1>6 DEF Next, Working, Flushing, Stopping

\* Every step is one of the log's, or leaves the log alone.
LEMMA LogStep == DecodeInv /\ [Next]_vars => [Log!Next]_(Log!logVars)
<1> SUFFICES ASSUME DecodeInv, [Next]_vars PROVE [Log!Next]_(Log!logVars)
  OBVIOUS
<1> DEFINE a == Len(written)  n == stats.samples
<1>0. a \in Nat /\ n \in Nat /\ Len(out) \in Nat /\ Len(host) \in Nat /\ due \in Nat /\ Len(<<>>) = 0
      /\ a + Len(out) + Len(host) = n /\ due <= n
  <2>1. FlushOK /\ CountOK /\ StopOK /\ AllOnTheWay
    BY TypeParts DEF DecodeInv
  <2> QED  BY <2>1, LenProperties, StatNames DEF FlushOK, CountOK, StopOK, AllOnTheWay
<1>1. CASE UNCHANGED <<stats.samples, Len(written), due, Closing>>
  BY <1>1 DEF Log!logVars, Closing
<1>2. CASE stats'.samples = stats.samples + 1 /\ UNCHANGED <<Len(written), due, Closing>>
  BY <1>2 DEF Log!Next, Log!Accept, Closing
<1>3. CASE /\ Len(written') = Len(written) + Len(out) /\ Closing # "done"
           /\ UNCHANGED <<stats.samples, due, Closing>>
  <2> DEFINE S == a + 1..a + Len(out)
  <2>1. S \subseteq 1..n \ 1..a /\ 1..Len(written') = 1..a \union S /\ Len(written') = a + Cardinality(S)
    BY <1>0, <1>3, NextRecords
  <2>2. Log!Deliver(S) /\ S \in SUBSET (1..n \ 1..a)
    BY <1>3, <2>1, LogCardinality DEF Log!Deliver, Closing
  <2> QED  BY <1>3, <2>2 DEF Log!Next, Closing
<1>4. CASE /\ Closing = "no" /\ Closing' = "begun" /\ due' = stats.samples
           /\ UNCHANGED <<stats.samples, Len(written)>>
  BY <1>4 DEF Log!Next, Log!Stop, Closing
<1>5. CASE /\ Closing = "begun" /\ Closing' = "done" /\ out = <<>>
           /\ Len(written') = Len(written) + Len(host)
           /\ UNCHANGED <<stats.samples, due>>
  <2> DEFINE S == a + 1..a + Len(host)
  <2>1. S \subseteq 1..n \ 1..a /\ 1..Len(written') = 1..a \union S /\ Len(written') = a + Cardinality(S)
    BY <1>0, <1>5, NextRecords
  <2>2. Log!Deliver(S) /\ S \in SUBSET (1..n \ 1..a)
    BY <1>5, <2>1, LogCardinality DEF Log!Deliver, Closing
  <2>3. 1..due \subseteq 1..Len(written')
    BY <1>0, <1>5
  <2> QED  BY <1>5, <2>2, <2>3 DEF Log!Next, Log!Close, Closing
<1> QED  BY <1>1, <1>2, <1>3, <1>4, <1>5, LogSteps

\* The decoding, the host's buffer and the flush thread implement TraceLog: a
\* kept sample is in the file at most once, and in it when Stop() returns if it
\* was kept before the call.
THEOREM WritesLikeALogCorrect == Spec => WritesLikeALog
<1>1. Init => Log!Init
  BY LogInit
<1>2. DecodeInv /\ [Next]_vars => [Log!Next]_(Log!logVars)
  BY LogStep
<1>3. Spec => Log!Init /\ [][Log!Next]_(Log!logVars)
  BY <1>1, <1>2, DecodeInvCorrect, PTL DEF Spec
<1> QED  BY <1>3 DEF WritesLikeALog, Log!Spec

---------------------------------------------------------------------------
(* The losses add up.                                                      *)

\* The times the sampler takes samples at.
Times == {k * Period : k \in Nat}

LEMMA Products ==
  ASSUME NEW j \in Nat, NEW k \in Nat
  PROVE  /\ j < k => (j + 1) * Period <= k * Period
         /\ j <= k => j * Period <= k * Period
         /\ (j + 1) * Period = j * Period + Period
         /\ k * Period \in Nat
BY PeriodAssumption

\* A quotient is what it is a quotient of.
LEMMA Quotient ==
  ASSUME NEW k \in Nat, NEW r \in 0..Period - 1
  PROVE  (k * Period + r) \div Period = k
BY PeriodAssumption

LEMMA TimesInOrder ==
  ASSUME NEW x \in Times, NEW y \in Times
  PROVE  /\ x \in Nat
         /\ x < y => x + Period <= y
         /\ x + Period \in Times
<1>1. PICK j \in Nat : x = j * Period
  BY DEF Times
<1>2. PICK k \in Nat : y = k * Period
  BY DEF Times
<1>3. x \in Nat /\ y \in Nat /\ j + 1 \in Nat
  BY <1>1, <1>2, Products
<1>4. x < y => j < k
  BY <1>1, <1>2, <1>3, Products
<1> QED  BY <1>1, <1>2, <1>3, <1>4, Products, PeriodAssumption DEF Times

\* The intervals between two of them are exact.
LEMMA IntervalsExact ==
  ASSUME NEW x \in Times, NEW y \in Times, x <= y
  PROVE  Intervals(x, y) \in Nat /\ Intervals(x, y) * Period = y - x
<1>1. PICK j \in Nat : x = j * Period
  BY DEF Times
<1>2. PICK k \in Nat : y = k * Period
  BY DEF Times
<1>3. j <= k /\ k - j \in Nat
  BY <1>1, <1>2, Products, PeriodAssumption
<1>4. y - x = (k - j) * Period
  BY <1>1, <1>2, PeriodAssumption
<1>5. Period \div 2 \in 0..Period - 1
  BY PeriodAssumption
<1>6. Intervals(x, y) = k - j
  BY <1>3, <1>4, <1>5, Quotient DEF Intervals
<1> QED  BY <1>3, <1>4, <1>6

\* What the sampler records, and what a decode returns.
Recorded ==
  {s \in Sample : s.start \in Times /\ s.end \in Times /\ Period <= s.start /\ s.start <= s.end}
Decoded == Recorded \union {NoTime}

\* Every sample on its way to the worker is a recorded one or has no timestamps.
Aligned ==
  /\ clock \in Times /\ edge \in Times /\ Period <= edge /\ edge <= clock
  /\ hw \in Seq(Recorded) /\ \A i \in 1..Len(hw) : hw[i].start <= clock
  /\ image \in [Images -> Seq(Decoded)] /\ rest \in Seq(Decoded)

\* Counted from base on, every interval up to the last sample is kept or lost.
Accounted ==
  /\ lastEnd = 0 => base = 0 /\ stats.samples = 0 /\ stats.lost = 0
  /\ lastEnd # 0 => /\ lastEnd \in Times /\ base # 0
                    /\ (stats.samples + stats.lost) * Period = lastEnd - base

LEMMA FirstPeriod == Period \in Times /\ [start |-> Period, end |-> Period] \in Recorded
<1>1. Period = 1 * Period /\ Period \in Nat
  BY PeriodAssumption
<1>2. Period \in Times
  BY <1>1 DEF Times
<1> QED  BY <1>1, <1>2 DEF Recorded, Sample

LEMMA AlignedInit == Init => Aligned
<1> SUFFICES ASSUME Init PROVE Aligned
  OBVIOUS
<1>1. <<>> \in Seq(Recorded) /\ <<>> \in Seq(Decoded) /\ Len(<<>>) = 0
  BY EmptySeq
<1>2. clock = Period /\ edge = Period /\ hw = <<>> /\ image = [i \in Images |-> <<>>] /\ rest = <<>>
  BY DEF Init, SamplerStarted
<1> QED  BY <1>1, <1>2, FirstPeriod, PeriodAssumption DEF Aligned

LEMMA AlignedStep == TypeOK /\ Aligned /\ [Next]_vars => Aligned'
<1> SUFFICES ASSUME TypeOK, Aligned, [Next]_vars PROVE Aligned'
  OBVIOUS
<1>0. /\ clock \in Nat /\ edge \in Nat /\ hw \in Seq(Sample) /\ Len(hw) \in Nat
      /\ active \in Images /\ widx \in Images /\ PeriodAssumption
  BY TypeParts, LenProperties, PeriodAssumption DEF SamplerOK, ImagesOK, WorkOK
<1>1. CASE UNCHANGED <<clock, edge, hw, image, rest>>
  BY <1>1 DEF Aligned
<1>2. CASE Tick
  <2>1. clock' = clock + Period /\ clock' \in Times /\ clock' \in Nat /\ clock <= clock'
    BY <1>0, <1>2, TimesInOrder, PeriodAssumption DEF Tick, Aligned
  <2>2. UNCHANGED <<image, rest>>
    BY <1>2 DEF Tick, imageVars, workVars
  <2>3. CASE UNCHANGED <<edge, hw>>
    <3>1. \A i \in 1..Len(hw) : hw[i].start <= clock'
      <4> SUFFICES ASSUME NEW i \in 1..Len(hw) PROVE hw[i].start <= clock'
        OBVIOUS
      <4>1. hw[i] \in Sample
        BY <1>0, ElementOfSeq
      <4>2. hw[i].start \in Nat /\ hw[i].start <= clock
        BY <4>1 DEF Aligned, Sample
      <4> QED  BY <1>0, <2>1, <4>2
    <3> QED  BY <1>0, <2>1, <2>2, <2>3, <3>1 DEF Aligned
  <2>4. CASE hw' = Append(hw, [start |-> edge, end |-> clock']) /\ edge' = clock'
    <3> DEFINE new == [start |-> edge, end |-> clock']
    <3>1. new \in Recorded /\ new.start = edge
      BY <1>0, <2>1 DEF Aligned, Recorded, Sample
    <3>2. /\ hw' \in Seq(Recorded) /\ Len(hw') = Len(hw) + 1 /\ hw'[Len(hw) + 1] = new
          /\ \A i \in 1..Len(hw) : hw'[i] = hw[i]
      BY <2>4, <3>1, AppendProperties DEF Aligned
    <3>3. \A i \in 1..Len(hw') : hw'[i].start <= clock'
      <4> SUFFICES ASSUME NEW i \in 1..Len(hw') PROVE hw'[i].start <= clock'
        OBVIOUS
      <4>1. CASE i \in 1..Len(hw)
        <5>1. hw[i] \in Sample /\ hw'[i] = hw[i]
          BY <1>0, <3>2, <4>1, ElementOfSeq
        <5>2. hw[i].start \in Nat /\ hw[i].start <= clock
          BY <4>1, <5>1 DEF Aligned, Sample
        <5> QED  BY <1>0, <2>1, <5>1, <5>2
      <4>2. CASE i = Len(hw) + 1
        BY <1>0, <2>1, <3>1, <3>2, <4>2 DEF Aligned
      <4> QED  BY <1>0, <3>2, <4>1, <4>2
    <3>4. Period <= edge' /\ edge' \in Times /\ edge' <= clock'
      BY <1>0, <2>1, <2>4 DEF Aligned
    <3> QED  BY <2>1, <2>2, <3>2, <3>3, <3>4 DEF Aligned
  <2>5. CASE Len(hw) = HwCap /\ hw' = <<>> /\ edge' = hw[1].start
    <3>1. hw[1] \in Recorded /\ hw[1].start <= clock
      BY <1>0, <2>5, SizeAssumption, ElementOfSeq DEF Aligned
    <3>2. hw' \in Seq(Recorded) /\ Len(hw') = 0
      BY <2>5, EmptySeq
    <3>3. edge' \in Times /\ edge' \in Nat /\ Period <= edge' /\ edge' <= clock'
      BY <1>0, <2>1, <2>5, <3>1 DEF Recorded, Sample
    <3> QED  BY <2>1, <2>2, <3>2, <3>3 DEF Aligned
  <2> QED  BY <1>2, <2>3, <2>4, <2>5 DEF Tick
<1>3. CASE DecodeData
  <2>1. PICK s \in Returned(SubSeq(hw, 1, Taken)) : image' = [image EXCEPT ![active] = s]
    BY <1>3 DEF DecodeData, Taken
  <2>2. hw' = SubSeq(hw, Taken + 1, Len(hw)) /\ UNCHANGED <<clock, edge, rest>>
    BY <1>3 DEF DecodeData, Taken, workVars
  <2>3. /\ SubSeq(hw, 1, Taken) \in Seq(Recorded) /\ hw' \in Seq(Recorded)
        /\ Taken \in 0..Len(hw) /\ Len(hw') = Len(hw) - Taken
        /\ \A i \in 1..Len(hw) - Taken : hw'[i] = hw[Taken + i]
    BY <2>2, TakenInBuffer, TakenRecords DEF Aligned
  <2>4. SubSeq(hw, 1, Taken) \in Seq(Decoded)
    <3>1. Recorded \subseteq Decoded
      BY DEF Decoded
    <3> QED  BY <2>3, <3>1, SeqMonotonic
  <2>5. s \in Seq(Decoded)
    <3>1. NoTime \in Decoded /\ [start |-> Period, end |-> Period] \in Decoded
      BY FirstPeriod DEF Decoded
    <3> QED  BY <2>1, <2>4, <3>1, ReturnedKind
  <2>6. image' \in [Images -> Seq(Decoded)]
    BY <1>0, <2>1, <2>5 DEF Aligned
  <2>7. \A i \in 1..Len(hw') : hw'[i].start <= clock
    <3> SUFFICES ASSUME NEW i \in 1..Len(hw') PROVE hw'[i].start <= clock
      OBVIOUS
    <3>1. Taken + i \in 1..Len(hw) /\ hw'[i] = hw[Taken + i]
      BY <1>0, <2>3
    <3> QED  BY <3>1 DEF Aligned
  <2> QED  BY <2>2, <2>3, <2>6, <2>7 DEF Aligned
<1>4. CASE Restart
  <2>1. hw' = <<>> /\ image' = [i \in Images |-> <<>>] /\ UNCHANGED <<clock, edge, rest>>
    BY <1>4 DEF Restart, workVars
  <2>2. <<>> \in Seq(Recorded) /\ <<>> \in Seq(Decoded) /\ Len(<<>>) = 0
    BY EmptySeq
  <2> QED  BY <2>1, <2>2 DEF Aligned
<1>5. CASE WorkerInfo
  <2>1. rest' = image[widx] /\ UNCHANGED <<clock, edge, hw, image>>
    BY <1>5 DEF WorkerInfo, samplerVars, imageVars
  <2> QED  BY <1>0, <2>1 DEF Aligned
<1>6. CASE DropEmpty \/ DropInvalid \/ DropStretched \/ KeepSample
  <2>1. rest # <<>> /\ rest' = Tail(rest) /\ UNCHANGED <<clock, edge, hw, image>>
    BY <1>6 DEF DropEmpty, DropInvalid, DropStretched, KeepSample, Evaluated, samplerVars, imageVars
  <2>2. rest' \in Seq(Decoded)
    BY <2>1, HeadTailProperties DEF Aligned
  <2> QED  BY <2>1, <2>2 DEF Aligned
<1>7. CASE WorkerReset
  <2>1. image' = [image EXCEPT ![widx] = <<>>] /\ UNCHANGED <<clock, edge, hw, rest>>
    BY <1>7 DEF WorkerReset, samplerVars
  <2>2. image' \in [Images -> Seq(Decoded)]
    BY <2>1, EmptySeq DEF Aligned
  <2> QED  BY <2>1, <2>2 DEF Aligned
<1>8. CASE \/ PassStart \/ StopRequested \/ Acquire \/ AcquireFails \/ DecodeFlagged \/ DecodeOutOfMemory
           \/ DecodeFails \/ HandOff \/ RestartFails \/ DecodeExits \/ StopSampling \/ Finish \/ Joined
           \/ WorkerTake \/ WorkerFails \/ WorkerExits \/ WorkerRelease \/ WorkerEnd \/ Flushing
           \/ StopSignalled \/ ExitHook \/ Stopping \/ UNCHANGED vars
  <2>1. UNCHANGED <<clock, edge, hw, image, rest>>
    BY <1>8 DEF PassStart, StopRequested, Acquire, AcquireFails, DecodeFlagged, DecodeOutOfMemory,
         DecodeFails, HandOff, RestartFails, DecodeExits, StopSampling, Finish, Joined, WorkerTake,
         WorkerFails, WorkerExits, WorkerRelease, WorkerEnd, Flushing, FlushDrain, FlushWrite, FlushExit,
         StopSignalled, ExitHook, Stopping, StopJoined, FinalFlush, CleanUp, CleanUpExits, vars, samplerVars,
         imageVars, workVars
  <2> QED  BY <1>1, <2>1
<1> QED
  BY <1>2, <1>3, <1>4, <1>5, <1>6, <1>7, <1>8 DEF Next, Decoding, Working
\* A sample that is neither empty nor stretched covers one sampling interval.
LEMMA OnePeriod ==
  ASSUME NEW s \in Recorded, ~Empty(s), ~Stretched(s)
  PROVE  s.end = s.start + Period
<1>1. s.start \in Times /\ s.end \in Times /\ Period <= s.start /\ s.start <= s.end
  BY DEF Recorded
<1>2. s.start \in Nat /\ s.end \in Nat /\ s.start # 0 /\ s.start # s.end
  BY <1>1, TimesInOrder, PeriodAssumption DEF Empty
<1>3. s.start + Period <= s.end /\ s.start + Period \in Times
  BY <1>1, <1>2, TimesInOrder
<1>4. s.start + Period < s.end => s.start + Period + Period <= s.end
  BY <1>1, <1>3, TimesInOrder
<1>5. s.end - s.start <= (Period * 3) \div 2
  BY <1>2, PeriodAssumption DEF Stretched
<1>6. (Period * 3) \div 2 < Period + Period
  BY PeriodAssumption
<1> QED  BY <1>2, <1>3, <1>4, <1>5, <1>6, PeriodAssumption

LEMMA AccountedInit == Init => Accounted
<1>1. NoStats.samples = 0 /\ NoStats.lost = 0
  BY StatNames
<1> QED  BY <1>1 DEF Init, ThreadsLaunched, Accounted

LEMMA AccountedStep == TypeOK /\ Aligned /\ Accounted /\ [Next]_vars => Accounted'
<1> SUFFICES ASSUME TypeOK, Aligned, Accounted, [Next]_vars PROVE Accounted'
  OBVIOUS
<1>0. /\ stats \in [DOMAIN NoStats -> Nat] /\ lastEnd \in Nat /\ base \in Nat
      /\ stats.samples \in Nat /\ stats.lost \in Nat
      /\ "samples" \in DOMAIN NoStats /\ "lost" \in DOMAIN NoStats /\ "empty" \in DOMAIN NoStats
      /\ "invalid" \in DOMAIN NoStats /\ "stretched" \in DOMAIN NoStats
  BY TypeParts, StatNames DEF CountOK
<1>1. CASE UNCHANGED <<lastEnd, base>> /\ stats'.samples = stats.samples /\ stats'.lost = stats.lost
  BY <1>1 DEF Accounted
<1>2. CASE DropEmpty \/ DropInvalid
  <2>1. /\ [stats EXCEPT !["empty"] = @ + 1]["samples"] = stats["samples"]
        /\ [stats EXCEPT !["empty"] = @ + 1]["lost"] = stats["lost"]
        /\ [stats EXCEPT !["invalid"] = @ + 1]["samples"] = stats["samples"]
        /\ [stats EXCEPT !["invalid"] = @ + 1]["lost"] = stats["lost"]
    BY <1>0
  <2> QED  BY <1>1, <1>2, <2>1 DEF DropEmpty, DropInvalid
<1>3. ASSUME DropStretched \/ KeepSample
      PROVE  LET s == Head(rest) IN
               /\ s \in Recorded /\ s.start \in Nat /\ s.end \in Nat /\ s.end \in Times /\ s.end # 0
               /\ ~Invalid(s) /\ ~Empty(s) /\ s.start \in Times /\ s.start # 0
               /\ lastEnd # 0 => lastEnd < s.end /\ lastEnd + Period <= s.end
  <2> DEFINE s == Head(rest)
  <2>1. s \in Decoded /\ ~Invalid(s) /\ ~Empty(s)
    BY <1>3, HeadTailProperties DEF DropStretched, KeepSample, Aligned
  <2>2. s \in Recorded
    BY <2>1 DEF Decoded, Invalid
  <2>3. s.start \in Times /\ s.end \in Times /\ Period <= s.start /\ s.start <= s.end
    BY <2>2 DEF Recorded
  <2>4. s.start \in Nat /\ s.end \in Nat /\ s.start # 0 /\ s.end # 0
    BY <2>3, TimesInOrder, PeriodAssumption
  <2>5. lastEnd # 0 => lastEnd < s.end
    BY <1>0, <2>1, <2>4 DEF Invalid
  <2>6. lastEnd # 0 => lastEnd + Period <= s.end
    BY <2>3, <2>5, TimesInOrder DEF Accounted
  <2> QED  BY <2>1, <2>2, <2>3, <2>4, <2>5, <2>6
<1>4. CASE DropStretched
  <2> DEFINE s == Head(rest)
  <2>1. /\ stats' = [stats EXCEPT !.stretched = @ + 1, !.lost = @ + LostByStretch(s)]
        /\ lastEnd' = s.end /\ base' = IF lastEnd = 0 THEN s.end ELSE base
    BY <1>4 DEF DropStretched
  <2>2. s.end \in Nat /\ s.end \in Times /\ s.end # 0 /\ (lastEnd # 0 => lastEnd < s.end)
    BY <1>3, <1>4
  <2>3. /\ LostByStretch(s) \in Nat
        /\ lastEnd = 0 => LostByStretch(s) = 0
        /\ lastEnd # 0 => LostByStretch(s) * Period = s.end - lastEnd
    BY <1>0, <2>2, IntervalsExact DEF LostByStretch, Accounted
  <2>4. stats'.samples = stats.samples /\ stats'.lost = stats.lost + LostByStretch(s)
    BY <1>0, <2>1, <2>3, CountTypes
  <2> HIDE DEF s
  <2>5. CASE lastEnd = 0
    BY <1>0, <2>1, <2>2, <2>3, <2>4, <2>5, PeriodAssumption DEF Accounted
  <2>6. CASE lastEnd # 0
    <3>1. (stats.samples + stats.lost) * Period = lastEnd - base /\ base # 0
      BY <2>6 DEF Accounted
    <3>2. (stats'.samples + stats'.lost) * Period
            = (stats.samples + stats.lost) * Period + LostByStretch(s) * Period
      BY <1>0, <2>3, <2>4, PeriodAssumption
    <3> QED  BY <1>0, <2>1, <2>2, <2>3, <2>6, <3>1, <3>2 DEF Accounted
  <2> QED  BY <2>5, <2>6
<1>5. CASE KeepSample
  <2> DEFINE s == Head(rest)
  <2>1. /\ stats' = [stats EXCEPT !.samples = @ + 1, !.lost = @ + LostByGap(s)]
        /\ lastEnd' = s.end /\ base' = (IF lastEnd = 0 THEN s.start ELSE base) /\ ~Stretched(s)
    BY <1>5 DEF KeepSample
  <2>2. /\ s \in Recorded /\ s.start \in Nat /\ s.end \in Nat /\ s.end \in Times /\ s.end # 0
        /\ s.start \in Times /\ s.start # 0 /\ ~Empty(s)
        /\ lastEnd # 0 => lastEnd + Period <= s.end
    BY <1>3, <1>5
  <2>3. s.end = s.start + Period
    BY <2>1, <2>2, OnePeriod
  <2>4. lastEnd # 0 => lastEnd <= s.start
    BY <1>0, <2>2, <2>3, PeriodAssumption
  <2>5. /\ LostByGap(s) \in Nat
        /\ lastEnd = 0 => LostByGap(s) = 0
        /\ lastEnd # 0 => LostByGap(s) * Period = s.start - lastEnd
    BY <1>0, <2>2, <2>4, IntervalsExact, PeriodAssumption DEF LostByGap, Accounted
  <2>6. stats'.samples = stats.samples + 1 /\ stats'.lost = stats.lost + LostByGap(s)
    BY <1>0, <2>1, <2>5, CountTypes
  <2> HIDE DEF s
  <2>7. (stats'.samples + stats'.lost) * Period
          = (stats.samples + stats.lost) * Period + LostByGap(s) * Period + Period
    BY <1>0, <2>5, <2>6, PeriodAssumption
  <2>8. CASE lastEnd = 0
    <3>1. stats'.samples + stats'.lost = 1 /\ base' = s.start /\ lastEnd' = s.end
      BY <2>1, <2>5, <2>6, <2>8 DEF Accounted
    <3>2. 1 * Period = s.end - s.start
      BY <2>2, <2>3, PeriodAssumption
    <3>3. (stats'.samples + stats'.lost) * Period = lastEnd' - base'
      BY <3>1, <3>2
    <3> QED  BY <2>2, <3>1, <3>3 DEF Accounted
  <2>9. CASE lastEnd # 0
    <3>1. (stats.samples + stats.lost) * Period = lastEnd - base /\ base # 0
      BY <2>9 DEF Accounted
    <3> QED  BY <1>0, <2>1, <2>2, <2>3, <2>5, <2>7, <2>9, <3>1, PeriodAssumption DEF Accounted
  <2> QED  BY <2>8, <2>9
<1>6. CASE \/ Tick \/ Decoding \/ WorkerTake \/ WorkerInfo \/ WorkerFails \/ WorkerReset \/ WorkerExits
           \/ WorkerRelease \/ WorkerEnd \/ Flushing \/ StopSignalled \/ ExitHook \/ Stopping \/ UNCHANGED vars
  <2>1. UNCHANGED <<stats, lastEnd, base>>
    BY <1>6 DEF Tick, Decoding, PassStart, StopRequested, Acquire, AcquireFails, DecodeData, DecodeFlagged,
         DecodeOutOfMemory, DecodeFails, HandOff, Restart, RestartFails, DecodeExits, StopSampling, Finish,
         Joined, WorkerTake, WorkerInfo, WorkerFails, WorkerReset, WorkerExits, WorkerRelease, WorkerEnd,
         Flushing, FlushDrain, FlushWrite, FlushExit, StopSignalled, ExitHook, Stopping, StopJoined,
         FinalFlush, CleanUp, CleanUpExits, vars, countVars
  <2> QED  BY <1>1, <2>1
<1> QED
  BY <1>2, <1>4, <1>5, <1>6 DEF Next, Working

\* Between the first and the last sample, every sampling interval is a kept
\* sample or counted as lost, whatever the sampler dropped, reordered or made up.
THEOREM LossAccountedCorrect == Spec => []LossAccounted
<1>1. TypeOK /\ Aligned /\ Accounted => LossAccounted
  <2> SUFFICES ASSUME TypeOK, Accounted, base # 0
               PROVE  stats.samples + stats.lost = (lastEnd - base) \div Period
    BY DEF LossAccounted
  <2>1. stats.samples \in Nat /\ stats.lost \in Nat
    BY TypeParts, StatNames DEF CountOK
  <2>2. (stats.samples + stats.lost) * Period = lastEnd - base
    BY DEF Accounted
  <2>3. ((stats.samples + stats.lost) * Period + 0) \div Period = stats.samples + stats.lost
    BY <2>1, Quotient, PeriodAssumption
  <2>4. (stats.samples + stats.lost) * Period + 0 = lastEnd - base
    BY <2>1, <2>2, PeriodAssumption
  <2> QED  BY <2>3, <2>4
<1>2. TypeOK /\ Aligned /\ Accounted /\ [Next]_vars => Aligned' /\ Accounted'
  BY AlignedStep, AccountedStep
<1> QED  BY <1>1, <1>2, AlignedInit, AccountedInit, TypeCorrect, PTL DEF Spec
=============================================================================
