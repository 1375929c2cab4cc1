# Verification of the profiler library

TLA+ models of the concurrent core of the profiler (`lib/` and the sidecar program),
TLC runs that check them on small instances, and theorems TLAPS proves about all of
them but the exit tails of the system probe (`CpuTails`), whose one property is violated.
`PROJECT.json` lists components, runs, mutants, findings, hazards, theorems, and
for every definition the source lines it models.

Run a check with `tlc -config X.cfg M`, a proof with `tlapm M.tla`.

## 1. Inventory

The library samples a machine from inside a host program. Each *probe* has a
sampling thread and a flush thread: samples go into a buffer under a mutex, the
flush thread swaps the buffer out and appends a frame to a trace file, and
`Stop()` signals both threads, joins them and writes what is left.

| component | state | operations | interacts with |
|---|---|---|---|
| process table (`process_tracking_probe.cpp`) | entries with serial, PID, start time, pending-removal and ended flags; pidfds; deferred registrations | add, add discovered, remove, snapshot, poll, drop exited, commit removals | API threads, discovery, sampler and flusher of its probe; the kernel, which reuses PIDs |
| system probe (`system_profiler.cpp`, `system_flush_thread.cpp`) | batch, baselines, exit tails | tick, flush, stop | process table, `/proc` |
| disk probe (`disk_profiler.cpp`, `disk_flush_thread.cpp`) | as above, plus reaped I/O still to be attributed | tick, resolve, flush, stop | process table, `/proc` |
| event tracker (`event_tracker.cpp`, `event_profiler.cpp`) | open regions, awaiting and resolved lists | begin, end, mark, drain | host threads, CUDA events, flush thread |
| GPU probe (`decode_thread.cpp`, `flush_thread.cpp`, `gpu_profiler.cpp`) | two counter-data images, a queue to a worker, statistics, drained samples | decode pass, restart, evaluate, flush, stop | CUPTI's sampler |
| lifecycle (`lifecycle.cpp`) | registry, handler atomics, pipe and eventfd | register, stop all, handle a signal, exit hook | every `Stop()`, the kernel, the host's own handlers |
| suite (`profiler_suite.cpp`) | one of each probe, stopped/running flags | configure, start, stop, add and remove a process | all of the above, sidecar |
| discovery (`process_discovery.cpp`) | watched tree, queue of operations, statistics | scan, register, handle an exit, reap adopted | process tables of the system and disk probes, `/proc` |
| sidecar (`sidecar_process.cpp`, `cupti_profiler_sidecar.cpp`) | child process, two pipes, a pidfd on the host | spawn, handshake, start, add/remove, stop, acknowledge | suite; runs the system and disk probes |
| small helpers | flush backlog, warning limiter, subreaper, testing hooks, catalogs, metadata | | |
| tools (`tools/*.py`, `*.js`) | | read traces, draw them | trace files |

### What is hard

- *PID reuse.* Everything the kernel is asked about a process is asked by number;
  table entries, descriptors, baselines and readings may belong to different
  processes with one number.
- *Check, then act.* The table's lock is released around `pidfd_open`, reads of
  `/proc`, `poll`, and the write of a frame; each result is applied to a table
  that may have changed.
- *Ordering between a frame's parts.* A frame has samples drained at one moment and
  a table copied at another; a removal is announced by one frame and takes effect
  only after it.
- *Hand-off.* The decode thread and its worker exchange two images; the sampler is
  rebuilt under the worker's feet after an overflow.
- *Loss accounting.* A full buffer drops samples nobody sees; their number is
  inferred from timestamps.
- *Attribution.* When a process is waited for, what it used appears again in the
  counters of whoever waited; who that was is inferred from readings that are not
  atomic.
- *Two processes.* The host and its sidecar share pipes, and each may die between any
  two bytes of an exchange.
- *Signals.* A handler on any host thread at any instruction, also inside the
  very `Stop()` it would have to wait for; forks; exits from library threads.

### What makes each component correct

| component | properties |
|---|---|
| process table | one row per PID; serials name one registration for ever; a descriptor pins the process its entry describes; an exited process's entry does not come back; a deferred registration is registered some day; no entry is dropped before its removal is in the file |
| system probe | verified readings, baselines and deltas are of one process; every sample has its row in the frame or an earlier one; every sample pushed is written once; `Stop()` returns |
| event tracker | every region and event written once, in order per kind, with no leaked CUDA event, also the ones unfinished at `Stop()` |
| GPU probe | one user per image; kept samples in order; kept plus lost equals the time covered; an overflow is recovered from; the worker never evaluates against another sampler |
| lifecycle | torn down once; nothing dies, by exit or by signal, before it is flushed; deferred signals are taken; a fork's child does nothing |
| disk probe, CPU tails | what a reaped child used is counted once, unless a record says that it may not be; no negative remainder |
| discovery | only descendants are followed; each lasting child of a followed process is found; adopted orphans are reaped, others never |
| sidecar | exchanges match their answers and return; host and sidecar agree on what is tracked; the sidecar is stopped completely, reaped once, and does not outlive its host |

## 2. Modules

| module | what | extends |
|---|---|---|
| `ProcessTable` | process table with the sampler, flusher and `Stop()` of the system probe | |
| `MCProcessTable` | its instances | `ProcessTable` |
| `ProcessTableProofs` | type correctness, the inductive invariant and five safety theorems | `ProcessTable` |
| `ProcessTableSampling` | what is proved about samples and baselines | `ProcessTableProofs` |
| `TraceLog` | abstract: what a probe that flushes periodically promises about its file | |
| `EventTracker`, `EventTrackerProofs` | implements `TraceLog` | |
| `GpuDecode`, `GpuDecodeProofs` | one device of the GPU probe; implements `TraceLog` from the decoded sample on | |
| `Lifecycle`, `MCLifecycle`, `LifecycleProofs` | stops, signals, exit, destruction, fork | |
| `Sidecar`, `SidecarProofs` | the suite, its handle of the sidecar, two pipes, the sidecar's control loop | |
| `Discovery`, `MCDiscovery`, `DiscoveryProofs` | the scan over a kernel process tree, adoption and reaping | |
| `ReapTree` | processes that use a resource, exit and are waited for, the tracked set the probes see, the reap rule | |
| `DiskReap`, `MCDiskReap`, `DiskReapProofs` | the disk probe's tick on it: deltas, reap watches, resolution | `ReapTree` |
| `CpuTails`, `MCCpuTails` | the system probe's exit tails on it | `ReapTree` |

### ProcessTable

A process is a pair of a PID and a generation: `gen[p]` counts the processes
that have had the number `p`, `alive[p]` says whether the latest runs. A reading
*is* the generation it was taken from, so that "the value of another process" can
be said. A zombie and a freed number are one state, as every handler of the code
treats them alike.

| variables | code |
|---|---|
| `table`, `pidfds`, `deferred`, `nextSerial` | `processes_`, `pidfds_`, `deferred_`, the serial counter |
| `add` | an `AddTrackedProcess` between its two critical sections, per thread: the descriptor opened and the start time read so far |
| `spc`, `todo`, `seen`, `readings`, `items`, `exited`, `base` | locals of the sample thread's tick and its baselines |
| `batch` | the sample batch behind `batchMutex` |
| `fpc`, `drained`, `fsnap`, `froots` | locals of a flush: samples drained, table copied, deferred roots taken out |
| `frame`, `dropped`, `marked`, `pushed`, `written`, `unlisted` | history |

Each critical section is one action, each system call between two sections
another: `pidfd_open`, the read of `/proc/<pid>/stat`, the poll, the write, the
commit, and each deferred root's re-registration after it. `Exit` and `Spawn` are
the kernel's and may come between any two. Set-valued tables stand for vectors
where order does not matter; the deferred list keeps its order in `ord`.

### TraceLog

The items accepted are numbered; a step accepts one, delivers some that are not in
the file yet, begins the stop, or closes the file with every item in it that was
accepted before the stop began. `size` counts the records of the file, so that a
duplicate shows. `EventTracker` maps regions and events of every stage (open,
awaiting the GPU, resolved, in the flush thread's hands) to it, `GpuDecode`
samples from the moment the worker keeps them.

### EventTracker

Two client threads begin and end regions and mark events; a GPU tracker's are
pairs of CUDA events that complete in stream order at the GPU's pace. `Drain` is
its three phases: swap all lists out under the lock, walk them without it,
splice the unfinished ones back in front of what arrived meanwhile. The GPU's work
may fail (`GpuFails`): nothing completes after that, queries answer with an error, and the
drain in `Stop()` takes what is left all the same, as it ignores what
`cudaEventSynchronize` answers. A caller that gets the error exits the process. Names and
clock conversion are left out.

### GpuDecode

Time is a clock that ticks by the sampling period; a sample is the interval it
covers. The sampler is external, and modelled by what the decode thread's comments
and code rely on: contiguous samples, a hardware buffer that overflows and then
returns nothing until the sampler is enabled again, records left behind by a full
image, disorder while it catches up. The decode pass, the hand-off, the worker's
`Keep` with its four verdicts (empty, invalid, stretched, kept), `Restart`, the
periodic flush and `GpuProfiler::Stop` are actions. Counters that only count
passes (calls, late and full passes, overflows, restarts) are left out.

CUPTI fails in two ways. A decode and an image's sample count return an error
(`DecodeFails`, `WorkerFails`), which ends the decode thread with a result. Every other call
(of the evaluation, the re-initialization of an image, a restart, the stop of the sampler, the
clean-up of `Stop()`) ends in `CuptiProfilerFatal`: `DecodeExits`, `WorkerExits` and
`CleanUpExits` put the thread that made it into `exit()` for good, with `cupti_` locked on a
library thread, so that no other CUPTI call of the device follows (`CuptiFree`).
`ExitHook` is the `Stop()` that `exit()` then runs on that thread: the first `Stop()`
there is, or one that waits for the mutex of the other. When it is the decode thread's own, its
join of itself throws and the process aborts (`aborted`).

### Lifecycle

A thread is a stack of calls, each with a place in it; a signal pushes the
handler on top of whatever its thread is in. Each atomic operation on
`g_stopping`, `g_stoppingTid`, `g_flushing`, `g_deferredSignal` is a step, and
the registry's mutex is held across the two steps of its copy, as the places
where a signal can hit matter. A suite's `Stop()` calls those of its probes on the
same stack. The teardown of one object (its joins, its last frame) is one step,
whose insides are the other modules'. After `Fork` the model follows the child. Objects
are running at the start.

A handler waits at most seconds, and a flush that can proceed is assumed to end
sooner: unless `SlowFlush`, a wait expires only when every thread is blocked.

### Sidecar

The host's threads, the pipes, the sidecar's loop and the kernel's view of the child
in one module, as the hazards are in what comes between two of them. A message is two
items of the pipe, header and payload, as it is two `write` calls; a status is one, as a
partial one is to its reader what a missing one is. `send_mutex_` is held from the first write to the
status, except for `MSG_STOP`, which `SignalStop` writes and `JoinStopAck` awaits in
two critical sections. The probes are the sets of PIDs they track. `Kill`,
`Terminate`, `HostDies` strike at any step; `held` says that a process the host forked
keeps the control pipe open, so that only the watched pidfd tells of the host's end.
When `Reset` destroys a handle another thread is inside of, that thread is
`"undefined"` and takes no further step.

### Discovery

The kernel's part (`Fork`, `Exit`, `Wait`) is a tree over `Procs`, each of which runs once
under a number that may be another's later; the scan thread's part is stepped at every
read of `/proc` and every `pidfd` call: `TakeOps` takes the queue, `ApplyOp` applies one
operation of it, `Poll`, one `HandleExit` per exit, `ReadChildren`, `OpenChild`, `CheckChild`. Everything asked by number (`Owner(n)`) gets
the owner of the moment. `table_` keeps the process its pidfd pins. Labels and
statistics are left out; one set of probes stands for the two sinks.

### ReapTree, DiskReap, CpuTails

A unit of use keeps its origin: `held[p][q]` is what of q's use p holds because it, or
what it waited for, waited for q. That is what lets the properties compare what is
reported with what was used. The accounts add and subtract whole readings, so they are
linear in the units, and one unit whose origin TLC chooses says what many would.
Reductions:

- numbers are not reused here (that is `ProcessTable` and `Discovery`);
- one counter stands for the disk probe's five, and for CPU, a unit for a clock tick;
- a tick reads its processes in the table's order as far as it matters: a parent
  before the child discovered under it;
- `HostWaits` notes an exit and reaps in one step, the order `Discovery` checks;
- a process the application itself removes while it runs is left out (section 5);
- the tree is not followed after `Stop`, as nothing is reported any more;
- one process is listed (`Root`), and every other one is discovered, so after its parent.
  That is an assumption on the constants (`Tree`, which also says that every line of parents
  ends at the root); what two listed roots can do is in section 3.

`par` of a process that is gone stays whoever waited for it, which no code reads: the
properties and proofs ask who holds what it used.

`Resolve` and `ChainCpu` recurse over the chain of parents, and are recursive functions
here. `ReadCutime` is one step: the code reads the cutime before and after it looks at
the children and uses it only when both readings agree.

## 3. Runs

Passing runs; every property has a mutant, a plausible bug in one mapped
definition that the run then finds (`PROJECT.json`).

| run | question |
|---|---|
| `table_calls` | Two API threads, discovery, flusher and `Stop()` on one number two processes have in turn: `OneRowPerPid`, `PidfdPinsEntry`, `DeferredHasBlocker`, `DroppedWasAnnounced`, `EndedStaysEnded` |
| `table_sampling` | Two ticks against registration, reuse, failing `pidfd_open`, flush and stop: `BaselineIsOwn`, `SampleHasRow`, `SamplesConserved`, `KeptReadingIsOwn` |
| `table_liveness` | with frames lost at will: `RemovalCompletes` |
| `events` | GPU and GENERIC trackers, with GPU work that may fail: `HandlesOwned`; the refinement `WritesLikeALog`; `EventuallyWritten`, `StopReturns` |
| `decode` | full images, overflow and restart: `ImagesExclusive`, `StopTakesAll`, `LossAccounted`, `RestartDropsNothing` |
| `decode_liveness` | decodes and sample counts may return an error; evaluation, image reset, restart, the stop of the sampler and `Stop()`'s clean-up may exit the process: `WritesLikeALog`, and unless a call exited, `RecoversFromOverflow`, `StopReturns` |
| `lifecycle_signals` | two host threads stop, exit and fork, a handled signal and a crash signal, waits that expire, a library thread that exits: `RunsOnce`, `FlushedBeforeCourse`, `ExitFlushes`, `DeferralHasTaker`, `ChildLeavesParentAlone` |
| `lifecycle_liveness` | stop, exit, destruction and a signal: `CallsReturn`, `SignalTaken` |
| `sidecar` | one fault anywhere in the sidecar's life while two threads add and remove: `AnswersMatchBeforeStop`, `ProbesAgree`, `KeepsItsChild`, `StopIsComplete`, `EveryCallReturns`, `SidecarEnds` |
| `discovery` | three processes on two numbers, the three ways to reap: `OnlyOurs`, `ReapsAdoptedOnly`, `ChildrenDiscovered`, `AdoptedReaped` |
| `disk_reap` | a chain of three that exits and is reaped anywhere in the ticks, with and without a reaping host, an ignored SIGCHLD, unreadable I/O: `NoDoubleCount`, `RemainderNotNegative` |

`SerialNeverReused`, every `IndInv` and the `TypeOK` of `ProcessTable`, `GpuDecode`, `Sidecar`,
`Discovery` and `EventTracker` are proved and in no run. Every `TypeOK`, these and the others,
documents what the variables range over, and holds of the instances above when put into
their cfg.

### What the models show

One run looks for a disagreement, and TLC finds it:

| run | property | what happens |
|---|---|---|
| `cpu_tails` | `CpuCountedOnce` | a discovered process exits and is reaped between the tick's poll and the reading of its cutime; what it had reaped is erased from `childrenCpu` (`system_profiler.cpp:274`), and the tail measured on its own parent counts its children's CPU a second time, with no word in `ambiguous_pids` |

The models reach the following too. The properties are in the modules, under the
statement they translate; no run keeps them, and the last column says how to see each.
The first six are those that matter most. `GpuDecode`'s `StopAlwaysReturns` is what
`RecoversFromOverflow` and `StopReturns` excuse, stated by itself.

| module, property | what happens | to see it |
|---|---|---|
| `ProcessTable`, `EveryKeptReadingIsOwn` | an entry marked ended between a tick's snapshot and its poll is not polled, and a reading of the number's next process is kept (`process_tracking_probe.cpp:297`; `process_tracking_probe.h:261-263`: "A reading of an entry not returned here was taken while the process it pins was alive") | `MaxGen = 2`, one caller, `MaxCalls = 1`, `MaxTicks = 1` |
| `ProcessTable`, `RemovedStaysRemoved` | a Remove between a commit and the re-registration of a deferred root removes nothing (`process_tracking_probe.cpp:402`; `system-guide.md:375`: "Stop tracking a PID.") | `MaxGen = 2`, one caller, `MaxCalls = 1`, no ticks |
| `Lifecycle`, `SelfInterruptIsDeferred` | a signal between the lock of `stopMutex` and `StopScope` waits for its own thread until it times out (`profiler_suite.cpp:652-653`; `lifecycle.cpp:38-41`: "it is deferred: the handler returns at once") | one host, `HostCalls = {"stop"}`, one handled signal |
| `Lifecycle`, `CallsReturn` | a CUPTI error on a decode thread exits there, and the exit hook and a concurrent `Stop()` wait for each other (`system-guide.md:817-818`: "It returns promptly") | `HostCalls = {"stop", "fatal"}`, `MaxCalls = 2`, no signals |
| `GpuDecode`, `StopAlwaysReturns` | a CUPTI call that exits the process on the decode thread, on its worker or in `Stop()`'s clean-up (`helper_cupti.h:54`) does not end it: `Stop()` and the exit hook wait for the thread that exits, or for each other (`helper_cupti.h:37`: "prints ONE line to stderr and exits"; `system-guide.md:817-818`: "It returns promptly") | `DecodeLiveness.cfg` |
| `Sidecar`, `NoUseAfterReset` | `Stop()` destroys the `SidecarProcess` another thread is in an exchange with (`profiler_suite.cpp:703`, `750`, `767`; `profiler_suite.h:103`: "Thread-safe.") | `Callers = {c1}`, `MaxCalls = 1`, `MaxFaults = 0`, `MayFail = FALSE` |
| `ProcessTable`, `RemovedRowIsLast` | a re-Add between the frame that announced a removal and its commit: the row comes again, alive (`system-guide.md:968`: "this is the entry's last flush") | as `RemovedStaysRemoved` |
| `ProcessTable`, `DeferredWaitsForExited` | of two registrations deferred for one number, the root waits behind a discovered process that lives (`process_tracking_probe.h:132-136`) | `MaxGen = 3`, `MaxCalls = 2`, no ticks |
| `ProcessTable`, `NoSampleAfterRemoval` | a sample pushed after the flush that announced its process's removal (`system_metrics.proto:15-17`) | `MaxGen = 2`, `MaxCalls = 1`, `MaxTicks = 2` |
| `ProcessTable`, `HeadIsOwn` | the first reading of an old registration recorded in the entry that has its number now (`metric_sample.proto:76-78`) | `MaxGen = 2`, `MaxCalls = 1`, `MaxTicks = 1` |
| `ProcessTable`, `DroppedWasAnnounced` | a failed write is committed (`process_tracking_probe.h:272`: "after a successful flush") | `WriteMayFail = TRUE` |
| `GpuDecode`, `CostIsCounted` | an overflow no later sample follows is in no count (`gpu_metrics.proto:60-62`) | `Decode.cfg` |
| `GpuDecode`, `SurvivesRefusal` | a refused stop of an overflowed sampler exits the process (`decode_thread.cpp:167`: "it is disabled next") | `DecodeLiveness.cfg` |
| `Lifecycle`, `FlushedBeforeCourse` | with two suites, a signal during the `Stop()` of one takes its course with the other still running (`lifecycle.h:6-8`) | two suites, one signal |
| `Lifecycle`, `SignalTaken` | of two signals that interrupt one `Stop()` the second is dropped (`lifecycle.cpp:39-41`) | two signals, both handled |
| `Lifecycle`, `DeferralHasTaker` | a thread whose own `Stop()` is over, still taken for the stopping one, defers to a `Stop()` of another suite that has already taken what was deferred | two suites, two hosts, one handled signal |
| `Lifecycle`, `NoStopOfDestroyed` | the destructor frees a suite the flusher is stopping (`profiler_suite.h:91-93`) | `HostCalls = {"destroy"}`, one signal |
| `DiskReap`, `NoDoubleCount` | two listed roots with an untracked process between them: the lower one's I/O, sampled, is reaped by the untracked one, and that one's by the upper root, whose sample has it again, with no record (`disk_profiler.cpp:224`: "an untracked parent counts it once") | in the chain r, m, l: `Late = {m}`, without the conjunct of `Tree` that says a child of a late one is late |
| `Lifecycle`, `OrderlyEnd` | a CUPTI error on a decode thread exits there: its own join throws and the process aborts unflushed (`system-guide.md:834-837`) | `HostCalls = {"fatal"}` |

`lifecycle_signals` checks `FlushedBeforeCourse` and `DeferralHasTaker` with one suite,
for which they hold; `FlushedBeforeCourse` excuses waits that expired, which is how
`SelfInterruptIsDeferred` ends.

Read in the code while modelling it, with no property that says otherwise:

- Two threads that add and remove the same PID at once may leave the host's probes
  and the sidecar's tracking different things (`profiler_suite.cpp:747-757`);
  `ProbesAgree` leaves such PIDs out (`raced`).
- After `MSG_STOP` is written, another thread's exchange may read its status, and
  `Stop()` that thread's (`sidecar_process.cpp:295-303`): hence `AnswersMatchBeforeStop`, and
  `StopIsComplete`, which holds all the same.
- Discovery's guard against a reused number compares the parent's number with the table
  (`process_discovery.cpp:299`): a child of a process that took a followed number
  since the pass's poll is followed. `OnlyOurs` names that exception.
- An exit is judged by the parent the number has at that moment (`:243-249`): a child of
  the host itself that took the number makes `NoteAdoptedExit` name the wrong process; and a
  process that dies before its parent does, and is reparented after its exit was
  handled, is a zombie nobody waits for. `AdoptedReaped` speaks of entries still held.
- A queued AddRoot is applied before the exits of the pass are handled (`:164-175`), so it
  may update the entry of a process that is over, which is then erased.
- A process whose recorded parent has left the snapshot is given up on
  (`system_profiler.cpp:230`), also when its real reaper's tail will include it: a second
  way to the double count of `cpu_tails`.
- A full notice pipe drops notices; the write is not retried.
- A region or mark whose GPU work failed is written with whatever times
  `cudaEventElapsedTime` left, the reference time as a rule: its result is
  ignored, as is that of `cudaEventSynchronize` (`event_tracker.cpp:217-230`, `239-249`).
- An event whose GPU work never ends blocks `Stop()` in `cudaEventSynchronize`, with no
  bound on the wait.

### Bounds

- `ProcessTable`: two processes per number (`MaxGen`) is reuse. Three calls
  (`MaxCalls`) by two API threads give an Add racing an Add and a Remove, and a
  registration deferred behind another; a Remove is not counted, it only takes
  away. Two ticks (`MaxTicks`), so that a baseline of one meets the reading of the
  next. One number: entries of different numbers meet only in the serial counter
  and in a commit that registers several at once, and there the theorems, which
  are about any set of numbers, say more than a run.
- `EventTracker`: four calls by two threads: two overlapping regions, an End of an
  ended one, marks between them.
- `GpuDecode`: `decode` has images of two samples and a hardware buffer of three, so
  that a decode can fill an image, leave a record and catch up in disorder; a
  period of two units, so that half a period, the tolerance of `Keep`, is a number;
  and the time for a kept sample, an overflow, a restart and a stretched sample. `decode_liveness`
  has time for an overflow with failures around it, in images of one.
- `Lifecycle`: two host threads, two calls between them, each signal once: a
  handler interrupts a handler, a second signal comes during a flush, and one is
  deferred. The hosts are symmetric in `lifecycle_signals`; the liveness run has no
  symmetry.

- `Sidecar`: two callers and two calls (an Add racing a Remove, or Stop), one PID, one fault
  (`MaxFaults`): each death or signal at every step, one in a life; two deaths in one life are not covered.
- `Discovery`: three processes make a chain with an end whose parent can exit, two
  numbers make reuse; one call mid-run (`calls`), as a second AddRoot is the first on a larger
  table. The three setups are the three ways a configuration reaps.
- `ReapTree`: a chain of three (the listed root, its child, its grandchild) has a reaper that is
  reaped; `Late` lets the grandchild be discovered after it had used I/O; one unit
  (`MaxUse`), see above. No bound on ticks: when everything has exited the states
  close. `disk_reap` has about two and a half million states.

Deadlock is not checked: in every model the profiler stops and nothing follows.

### Fairness

Weak fairness of the profiler's own threads: each runs in a loop whose waits are
condition variables or timed polls, and nothing in the code keeps a runnable thread
from being scheduled. Critical sections are short and contended a bounded number
of times, so weak fairness of the waiting thread is enough. `EventTracker`
also assumes that the GPU goes on with its stream or fails (`GpuCompletes`, `GpuFails`): the
code blocks in `cudaEventSynchronize` on it, and work that never ends is left out. Host calls,
signals, process exits, spawns and CUPTI's failures are never fair; the hook of an exit under way
(`ExitHook`) is. `Discovery` assumes weak fairness of the scan thread, whose
waits are timed, and of the host's notice reader, whose read returns when there is a
notice. `Sidecar` has one weak fairness condition for all steps of both processes'
threads together, less than one for each: between two events from outside, whatever they
do is finite. In `Lifecycle` the handler's bounded waits end by
expiring at the latest.

## 4. Proofs

Every theorem is about every value of the constants that the module's named ASSUMEs
allow: any sets of threads, PIDs, processes, signals, any bounds. TLC evaluates those
ASSUMEs in every run. They say of which kind a constant is (`MaxCalls \in Nat`), that
names which must differ do (the flush thread is not an API thread; the kernel's
processes are not the host), in `Lifecycle` that a suite with probes is the only
one, and in `ReapTree` that the processes are one tree, discovered from its root down. What a theorem assumes beyond them is in its statement, and named here.

| module | theorems |
|---|---|
| `ProcessTableProofs` | `TypeCorrect`, `OneRowPerPidCorrect`, `SerialNeverReusedCorrect`, `PidfdPinsEntryCorrect`, `DeferredHasBlockerCorrect`, `DroppedWasAnnouncedCorrect` |
| `ProcessTableSampling` | `BaselineIsOwnCorrect`, `KeptReadingIsOwnCorrect`, `SampleHasRowCorrect`, `SamplesConservedCorrect`, `EndedStaysEndedCorrect` |
| `GpuDecodeProofs` | `TypeCorrect`, `ImagesExclusiveCorrect`, `RestartDropsNothingCorrect`, `StopTakesAllCorrect`, `LossAccountedCorrect`, `WritesLikeALogCorrect` |
| `EventTrackerProofs` | `TypeCorrect`, `HandlesOwnedCorrect`, `WritesLikeALogCorrect` |
| `LifecycleProofs` | `RunsOnceCorrect`, `ChildLeavesParentAloneCorrect`, `ExitFlushesCorrect`, `DeferralHasTakerCorrect`, `FlushedBeforeCourseCorrect` |
| `SidecarProofs` | `TypeCorrect`, `KeepsItsChildCorrect`, `StopIsCompleteCorrect`, `AnswersMatchBeforeStopCorrect`, `ProbesAgreeCorrect` |
| `DiscoveryProofs` | `TypeCorrect`, `OnlyOursCorrect`, `ReapsAdoptedOnlyCorrect` |
| `DiskReapProofs` | `TypeCorrect`, `LedgerCorrect`, `NoDoubleCountCorrect`, `RemainderNotNegativeCorrect` |

Each is proved from an inductive invariant: `Init` implies it and `[Next]_vars` keeps it, one step
per action. No run spends its time on these invariants, which are proved for every instance;
the properties a reader asks for stay.

**Process table, the table.** None of the five is inductive alone. `IndInv` joins them with
`AddPins` (a thread inside `AddTrackedProcess` holds a descriptor of the process
whose start time it read, or has noticed the difference), `WaitingPins` (the same
for a deferred registration) and `CommitFollowsWrite` (a flush about to commit
wrote its snapshot). `PidfdPinsEntry` needs the first two, as an entry
is made of what a thread or the deferred list held; `OneRowPerPid` needs
`SerialNeverReused` when a commit registers several deferred processes at once;
`DroppedWasAnnounced` needs `CommitFollowsWrite`, and is proved under
`~WriteMayFail`: it is false without (section 3).

**Process table, the samples.** `RegInv`: no registration is older than the process it names, and
what ended is announced. `ReadingInv`: what the tick holds of a registration that has a
descriptor was read from the process the descriptor pins, as it was polled after the
reading. Hence `BaselineIsOwn` and `KeptReadingIsOwn`, in spite of reuse between any two
system calls. `FlushInv`: a sample's registration is in the table, in the flusher's copy,
or was announced; it gives `SampleHasRow` (again under `~WriteMayFail`, as a lost
frame takes its rows with it) and `SamplesConserved`.

**GPU decoding.** `OwnedClean`: an image is with the decode thread, queued, with the worker or
free, as their places say, and one handed back is empty: `ImagesExclusive` and
`RestartDropsNothing`. `LastPass`: the last pass ends without an error only when the hardware
buffer is empty; `WorkerEnds`: the worker ends when its queue is empty, and before the decode
thread; `AllOnTheWay`: a kept sample is in the host's buffer, the flush thread's hands or the
file. They give `StopTakesAll` and the steps of the refinement. `LossAccounted` is arithmetic: `Aligned` (edges and samples
are multiples of the period, so a stretched sample hides a whole number of intervals) and
`Accounted` (from the first kept sample to the last, kept and lost cover the time).

**Event tracker.** `Listed`: the items at nine places, from a call in progress to the file,
are apart and are all the items there are. `Owned`: the events of
eight owners are apart and are all that live. Both need `Different`, that the entries
within one list share nothing, as otherwise moving one entry would take another's with it.
`Drained` says what each phase of a drain has in hand, `LastDrain` that the one in
`Stop()` takes the open regions too. `HandlesOwned` is `Owned` counted, and
the refinement of `TraceLog` takes its `accepted` and `written` from `Listed`.

**Lifecycle.** The state is a stack of calls per thread, so the invariants are about frames at any
depth. `Holding`: a `Stop()` past its lock holds the object's `stopMutex`, once. With
`EndsOnce` (an object being torn down was found running) it gives `RunsOnce` for any
number of stoppers. `ChildAlone`: the stack of a forked child has only exits and handlers
that have just been entered. `ExitFlushes` needs `StopsIt` (a `Stop()` past its teardown leaves
its object stopped), `Erased` (what has left the registry is stopped) and `ExitsLast`
(`exit()` goes on when `StopAll()` has found the registry empty). It is proved for a host that
destroys no suite (`"destroy" \notin HostCalls`, as in `lifecycle_signals`) and is false otherwise: the
destructor takes a suite another thread is still stopping out of the registry
(`profiler_suite.cpp:133-141`).

`DeferralHasTaker` and `FlushedBeforeCourse` are proved for a process with one suite
(`OneSuite`), any number of probes, threads and signals, and no destruction. Both are violated with
two suites (section 3), as the two atomics then stand for two `Stop()`s at once;
`FlushedBeforeCourse` is violated with the destructor too. `SignalInv` says what the atomics
mean with one suite: a probe's `Stop()` stands right above its suite's teardown
(`ProbeStops`), so the count is the number of scopes on one stack (`Counted`) and
`stoppingTid` names that stack until the suite's scope is cleared (`Marks`). A handler that
defers is above a scope that has not been cleared (`Defers`), which gives `Taken`, and that
`DeferralHasTaker`. `CourseInv` adds what each wait of the handler ends with: the registry
is empty when the eventfd is written (`Writes`, `DoneFlushed`), the suite has ended when the
count a handler saw positive is zero (`WaitsStop`), so it has ended when the handler finishes and nothing
cut the wait short (`Finishes`), or when the handlers are gone (`HandlersLeft`). That the suite's end
is everybody's is `MembersGone`.

**Sidecar.** `ChildKnown`: a handle with a PID names an unreaped child, and whoever waits for
it holds the right to; `FlushedFirst`: a sidecar acknowledges a stop after it has flushed. On
these rest `KeepsItsChild` and `StopIsComplete`. `Exchanges` gives for each place in an exchange what
the two pipes hold and where the sidecar is; `Locked` says that there is one exchange at a time,
`ShutDown` that there is none once the pipes are closed, `StopWritten` from when on all this
no longer holds. Together they give `AnswersMatchBeforeStop`. `ProbesInv` adds what has been
applied on the one side and not yet on the other.

**Discovery.** `Tree`: two processes never have one number at a time, what exists has a
living parent, and the host's children stay its own. `TableInv`: an entry pins a process that
had the entry's number, and what was found below another entry is a process the host did not
start; `ScanInv` says as much of what a scan has in hand, and `NoticeInv` that a notice is
of a process whose exit the probes were told of.

**Disk probe, reaped I/O.** `NoDoubleCount` compares what the samples carry with what was
used, over chains of parents of any length, whose links exit, are reaped and are found
reaped in any order. The inductive invariant follows the use of each process q on its own.

- *Where it is.* `Line(q)` is q and its parents up to the root; `Rose(q, a)` says that everything
  below a on that line was waited for by its parent. `Ledger`: a process not gone holds all of
  what q used if q's use has risen to it, and nothing of it otherwise. This is about the
  kernel's part alone, and the probe's arithmetic rests on it.
- *Who has it.* An account is a watch, or the baseline of a tracked process. `Accounts`: one
  account at most has q's use, q's use has passed it, and every link from it to where the use is now is
  tracked, watched or known to be unread. `Readouts` says the like of this tick's readings. `Climbed`: after
  the poll, every process between q and an ended one its use has risen to was found dead.
  `Counted`: a watch whose links up to a reading were all settled before the readings is in it.
- *What was reported.* `Once`: of an origin in no record, no more was reported than the account that has it, or
  its use has gone where nobody tracked can get it (`Finished`) and no more was reported than used.
- *What the probe knows.* `WatchFacts`: a watch that says reaped is of a process that is
  gone; found before the readings, by a parent that was read, it was waited for by that parent.
  `Phases`, `Snapshot` and `NotedOnce` tie the tick's copies of the table to the table.

Every step but the end of a tick leaves reports and most accounts alone. The end moves the
accounts: a reading becomes the baseline, what is in its watches is subtracted, and the
watches go. `ReadAbove`: the reading that has what a watch has is the one the watch is subtracted
from, or a link was never read and the record says so. `OverAbove`: a watch stays as long as
its use may still come to a reading. `Unfinished`: a watch that goes with no reading having its use is one
whose use is over, or again a recorded break. `TakenCovers`: what is subtracted from a reading is in it.
The last gives `RemainderNotNegative`.

This needs inductions: up and down a line, for `Resolution` and `Reaches`, which
recurse along it, and for `Sum`. They are done without induction theorems that take
operators: `Tree` says that every nonempty set of processes below the root has a member whose
parent is not in it, which is well-foundedness stated over sets, so each induction
is on the set of its counterexamples (`Topmost`, `SetInduction`), and `ReachesIs`, `ResolutionIs`
and `SumIs` show that the recursive functions and the fold satisfy their equations. TLC checked the invariant on
a chain of three (4.6 million states) and in simulations with four processes before it was proved.

The refinements (`WritesLikeALog`) are proved as `Spec => TraceLog!Spec`: the abstract
specification has no fairness, so this is all of it. What `TraceLog` leaves out, that a
delivery comes at all, is `EventuallyWritten` and `StopReturns`.

Only model-checked:

- Liveness (`RemovalCompletes`, `EventuallyWritten`, `StopReturns`, `RecoversFromOverflow`,
  `CallsReturn`, `SignalTaken`, `EveryCallReturns`, `SidecarEnds`, `ChildrenDiscovered`, `AdoptedReaped`):
  it rests on fairness, so on ENABLED, which the prover does not handle.
- `TypeOK` of `Lifecycle`: it says `at : STRING`, of which the provers know no member;
  `Typed` in `LifecycleProofs` has the places by name instead.

## 5. Not modelled

- Register, Configure and the in-process part of Start: models of the probes start
  with everything started. A failure inside `Start()` is modelled for the sidecar only.
- The composition of `Discovery` with `ProcessTable` (each has the other's step as one
  action: `AddDiscovered` there, registration here) and of `Sidecar` with `Lifecycle`.
- In `ReapTree`, the removal of a running process by the application. There
  `disk_profiler.cpp:405` watches the process without a parent; if it exits and is reaped within the
  tick that finds it gone, its I/O is dropped from the reaper's record and stays in the
  reaper's sample. That is read from the code, not checked.
- The numbers in `ReapTree` are never reused; a reading of a parent's cutime that is torn
  is retried by the code and is one step here.
- A sidecar blocked in `ReadMsg` after a header (`cupti_profiler_sidecar.cpp:122`) while a
  process the host forked holds the pipe and the host is dead waits for ever;
  `SidecarEnds` says so in its condition.
- A full notice pipe, the two sinks of a root, scan statistics in `Discovery`.
- Several GPUs: devices share a flush thread that drains them one after the
  other; one is modelled.
- A failing write of an event or GPU frame (that of a system frame is `WriteMayFail` in
  `ProcessTable`, with the effect shown in section 3), and a failure of `poll()` itself in
  `PollTracked`.
- GPU work that never ends.
- `ReapAdoptedChild` is one step: an exit or a reuse between its `pidfd_open`, its read of
  `stat` and its `waitid` is not followed. In `Lifecycle` the end of a scope, which takes the
  deferred signal, and the call of the handler that was there before are one step too.
- After `MSG_STOP` the sidecar's exchanges may cross (section 3): `AnswersMatchBeforeStop` ends
  there, and `StopIsComplete` says what remains true.
- A forked child whose own code calls `Stop()` or destroys the suite it inherited.
- Flush backlog and warning limiter: sequential counters that word warnings.
- Names, units, formats, the text of warnings and reports; serialization.
- Catalogs, schemas, listings: tables and I/O without state.
- Tools: they read finished traces and draw them.

## 6. What is left

1. `Registration`: the abstract promise of the table to its users (a PID's row from
   its Add to its announced removal), with `ProcessTable` shown to refine it as
   far as `RemovedRowIsLast` and `RemovedStaysRemoved` allow.
2. `Discovery` composed with the part of `ProcessTable` it calls.
3. `ReapTree` with more than one listed root, and the removal of a running process: with a
   `NoDoubleCount` that excuses what section 3 shows.
