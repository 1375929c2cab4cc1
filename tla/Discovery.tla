----------------------------- MODULE Discovery -----------------------------
(***************************************************************************)
(* Descendant tracking (process_discovery.cpp) and the reaping of adopted  *)
(* orphans (child_subreaper.cpp, the notice reader of sidecar_process.cpp) *)
(* over a kernel process tree in which processes fork, exit, are waited    *)
(* for, are reparented, and have their PID numbers reused.                 *)
(*                                                                         *)
(* The scan thread knows numbers; what a number stands for changes under   *)
(* it.  A process is an element of Procs and lives once; a pidfd pins it,  *)
(* a start time identifies it.  What the probes do with a registration is  *)
(* ProcessTable's.  Labels, comm and the statistics are left out, and so   *)
(* are the sinks: one set of probes stands for both.                       *)
(***************************************************************************)
EXTENDS Naturals, Sequences, SequencesExt

CONSTANTS
  Procs,       \* processes that may run, each once
  First,       \* the one that runs when the profiler is configured
  Pids,        \* their numbers, positive
  RootPids,    \* numbers the application may list mid-run
  Recursive,   \* ~direct_children_only
  Setups       \* configurations to start from: AdoptionReaping::Mode, whether the host is a
               \* subreaper, the number listed and whether its descendants are tracked, and
               \* how many AddRoot and RemoveRoot calls follow (bound)

Host       == "host"       \* the launcher, whose children these may be
Outside    == "outside"    \* every other process: init, other services
None       == "none"
HostPid    == 0
OutsidePid == 1 + Max(Pids)

ASSUME ProcsAssumption  == First \in Procs /\ Procs \cap {Host, Outside, None} = {} /\ Recursive \in BOOLEAN
ASSUME PidsAreNumbers   == Pids \subseteq Nat \ {HostPid} /\ RootPids \subseteq Pids \cup {HostPid}
ASSUME PidsAreFinite    == Min(Pids) \in Pids /\ OutsidePid \notin Pids \cup {HostPid}
ASSUME SetupsAreSettings ==
  Setups \subseteq [mode : {"None", "InProcess", "Notify"}, adopts : BOOLEAN,
                    root : Pids \cup {HostPid}, descend : BOOLEAN, calls : Nat]

VARIABLES
  proc,       \* proc[p]: state, number, parent, and the parent it was born to
  subreaper,  \* the host is one (before it starts the workload)
  mode,       \* reaping_.mode
  life,       \* "new", "started", "stopping" (stop_ set), "stopped" (joined)
  ops,        \* ops_: queued AddRoot and RemoveRoot calls
  descending, \* anyDescending_
  calls,      \* API calls still to come (bound)
  table,      \* table_: number -> entry
  scan,       \* the scan thread: where it is, and its locals
  notices,    \* AdoptedExitNotices in the pipe to the host
  noted,      \* processes NoteAdoptedExit was called for, until they are waited for
  misreaped   \* history: ReapAdoptedChild waited for one it should not have

kernel == <<proc, subreaper>>
api    == <<mode, life, ops, descending, calls>>
vars   == <<kernel, api, table, scan, notices, noted, misreaped>>

\* A process that is gone leaves its number.
Gone(r) == [r EXCEPT !.st = "gone", !.pid = HostPid, !.par = None]
Unborn == [st |-> "unborn", pid |-> HostPid, par |-> None, born |-> None]
Idle   == [pc |-> "none", ops |-> <<>>, gone |-> {}, alive |-> {}, done |-> {}, under |-> HostPid,
           kids |-> {}, kid |-> HostPid, pinned |-> None]

\* A number's present owner: None when it is free.
Exists(p)  == proc[p].st \in {"alive", "zombie"}
Owner(n)   == IF n = HostPid THEN Host
              ELSE IF \E p \in Procs : Exists(p) /\ proc[p].pid = n
              THEN CHOOSE p \in Procs : Exists(p) /\ proc[p].pid = n
              ELSE None
Alive(p)   == p = Host \/ (p \in Procs /\ proc[p].st = "alive")
Number(p)  == CASE p = Host -> HostPid [] p = Outside -> OutsidePid [] OTHER -> proc[p].pid
Followed   == DOMAIN table
Pinned     == {table[n].proc : n \in Followed}

Listing(n, d) == [remove |-> FALSE, pid |-> n, descend |-> d]
Removal(n)    == [remove |-> TRUE, pid |-> n, descend |-> FALSE]

TypeOK ==
  /\ proc \in [Procs -> [st : {"unborn", "alive", "zombie", "gone"}, pid : Pids \cup {HostPid},
                         par : Procs \cup {Host, Outside, None}, born : Procs \cup {Host, Outside, None}]]
  /\ life \in {"new", "started", "stopping", "stopped"}
  /\ Followed \subseteq Pids \cup {HostPid}
  /\ \A n \in Followed :
       table[n] \in [proc : Procs \cup {Host}, root : BOOLEAN, scan : BOOLEAN, rec : BOOLEAN,
                     first : Pids \cup {HostPid}, own : BOOLEAN]
  /\ scan.pc \in {"none", "wait", "poll", "scan", "check"}
  /\ noted \subseteq Procs /\ misreaped \in BOOLEAN /\ calls \in Nat

Init ==
  /\ proc = [p \in Procs |->
       IF p = First THEN [st |-> "alive", pid |-> Min(Pids), par |-> Host, born |-> Host] ELSE Unborn]
  /\ \E u \in Setups :
       /\ mode = u.mode /\ subreaper = u.adopts
       /\ ops = <<Listing(u.root, u.descend)>> /\ descending = u.descend /\ calls = u.calls
  /\ life = "new"
  /\ table = <<>>
  /\ scan = Idle
  /\ notices = {} /\ noted = {} /\ misreaped = FALSE

----------------------------------------------------------------------------
(* The kernel.                                                             *)

NumberFree(n) == Owner(n) = None

\* p starts a process (Outside does so too).
Fork(p, c, n) ==
  /\ Alive(p) \/ p = Outside
  /\ proc[c].st = "unborn" /\ NumberFree(n)
  /\ proc' = [proc EXCEPT ![c] = [st |-> "alive", pid |-> n, par |-> p, born |-> p]]
  /\ UNCHANGED <<subreaper, api, table, scan, notices, noted, misreaped>>

\* The host is among p's ancestors, as its parents are now.
UnderHost[p \in Procs] == proc[p].par = Host \/ (proc[p].par \in Procs /\ UnderHost[proc[p].par])

\* Exit: the children go to the nearest subreaper above; Outside reaps at once.
Exit(p) ==
  LET heir == IF subreaper /\ UnderHost[p] THEN Host ELSE Outside
      Reparented(q) == IF proc[q].st = "zombie" /\ heir = Outside THEN Gone(proc[q])
                       ELSE [proc[q] EXCEPT !.par = heir]
  IN /\ Alive(p)
     /\ proc' = [q \in Procs |->
                   IF q = p
                   THEN IF proc[p].par = Outside THEN Gone(proc[p]) ELSE [proc[p] EXCEPT !.st = "zombie"]
                   ELSE IF proc[q].par = p THEN Reparented(q) ELSE proc[q]]
     /\ UNCHANGED <<subreaper, api, table, scan, notices, noted, misreaped>>

Reap(p) == proc' = [proc EXCEPT ![p] = Gone(@)]

\* A parent waits for its child; the host's code only for what it started.
Wait(p) ==
  /\ proc[p].st = "zombie"
  /\ Alive(proc[p].par)
  /\ proc[p].par = Host => proc[p].born = Host
  /\ Reap(p)
  /\ UNCHANGED <<subreaper, api, table, scan, notices, noted, misreaped>>

----------------------------------------------------------------------------
(* The calls of the application: queued, applied at the next scan.         *)

Scanning == scan.pc # "none"
StartThread(when) == IF when /\ ~Scanning THEN scan' = [Idle EXCEPT !.pc = "wait"] ELSE UNCHANGED scan

AddRoot(n, descend) ==
  /\ calls > 0 /\ life # "stopped" /\ Owner(n) # None
  /\ calls' = calls - 1
  /\ ops' = Append(ops, Listing(n, descend))
  /\ descending' = (descending \/ descend)
  /\ StartThread(life = "started" /\ descending')
  /\ UNCHANGED <<kernel, mode, life, table, notices, noted, misreaped>>

RemoveRoot(n) ==
  /\ calls > 0 /\ life # "stopped"
  /\ calls' = calls - 1
  /\ ops' = Append(ops, Removal(n))
  /\ UNCHANGED <<kernel, mode, life, descending, table, scan, notices, noted, misreaped>>

Start ==
  /\ life = "new"
  /\ life' = "started"
  /\ StartThread(descending)
  /\ UNCHANGED <<kernel, mode, ops, descending, calls, table, notices, noted, misreaped>>

\* Stop sets stop_, wakes the thread ...
Stop ==
  /\ life = "started"
  /\ life' = "stopping"
  /\ UNCHANGED <<kernel, mode, ops, descending, calls, table, scan, notices, noted, misreaped>>

\* ... and joins it.
Joined ==
  /\ life = "stopping" /\ ~Scanning
  /\ life' = "stopped"
  /\ UNCHANGED <<kernel, mode, ops, descending, calls, table, scan, notices, noted, misreaped>>

----------------------------------------------------------------------------
(* The scan thread.  Run: wait for the interval or for stop_.              *)

unscanned == <<proc, subreaper, mode, life, descending, calls>>

RunEnds ==
  /\ scan.pc = "wait" /\ life = "stopping"
  /\ scan' = Idle
  /\ UNCHANGED <<unscanned, ops, table, notices, noted, misreaped>>

Without(n, t) == [k \in DOMAIN t \ {n} |-> t[k]]
With(n, e, t) == [k \in DOMAIN t \cup {n} |-> IF k = n THEN e ELSE t[k]]

\* ApplyOp, removal: listed roots only.
Dropped(t, n) ==
  IF n \in DOMAIN t /\ t[n].root THEN Without(n, t) ELSE t

\* ApplyOp, addition: an entry that is there is updated, whatever it pins; a number
\* that has no process (pidfd_open fails) is not followed.
Listed(t, n, descend) ==
  IF n \in DOMAIN t
  THEN [t EXCEPT ![n] = [@ EXCEPT !.root = TRUE, !.scan = descend, !.rec = descend /\ Recursive]]
  ELSE IF Owner(n) = None THEN t
  ELSE With(n, [proc |-> Owner(n), root |-> TRUE, scan |-> descend, rec |-> descend /\ Recursive,
                first |-> HostPid, own |-> TRUE], t)

Applied(t, op) == IF op.remove THEN Dropped(t, op.pid) ELSE Listed(t, op.pid, op.descend)

\* Run takes what was queued ...
TakeOps ==
  /\ scan.pc = "wait" /\ life # "stopping"
  /\ ops' = <<>>
  /\ scan' = [scan EXCEPT !.pc = "poll", !.ops = ops]
  /\ UNCHANGED <<unscanned, table, notices, noted, misreaped>>

\* ... and ScanOnce applies it, in order.
ApplyOp ==
  /\ scan.pc = "poll" /\ scan.ops # <<>>
  /\ table' = Applied(table, Head(scan.ops))
  /\ scan' = [scan EXCEPT !.ops = Tail(@)]
  /\ UNCHANGED <<unscanned, ops, notices, noted, misreaped>>

\* HandleExits: one poll of every pidfd held.
Poll ==
  /\ scan.pc = "poll" /\ scan.ops = <<>>
  /\ scan' = [scan EXCEPT !.pc = "scan",
                !.gone  = {n \in Followed : ~Alive(table[n].proc)},
                !.alive = {n \in Followed : Alive(table[n].proc)}]
  /\ UNCHANGED <<unscanned, ops, table, notices, noted, misreaped>>

\* mutant: the start time is not compared.
Ours_AnyStart(q, start) ==
  /\ q \in Procs
  /\ proc[q].st = "zombie" /\ proc[q].par = Host

\* child_subreaper.cpp, ReapAdoptedChild: q is what the pidfd pins (or what was
\* opened by number), start the process the caller means.
Ours(q, start) ==
  /\ q \in Procs
  /\ proc[q].st = "zombie" /\ proc[q].par = Host
  /\ q = start

ReapAdoptedChild(q, start, told) ==
  IF Ours(q, start)
  THEN /\ Reap(q)
       /\ noted' = told \ {q}
       /\ misreaped' = (misreaped \/ proc[q].born = Host \/ q \notin told)
  ELSE UNCHANGED <<proc, misreaped>> /\ noted' = told

\* mutant: the test of the first parent is the wrong way round.
Adopted_Own(n, e) ==
  LET seen == Owner(n)
  IN e.first = HostPid /\ seen \in Procs /\ proc[seen].par = Host

\* MaybeReapAdopted: decided by the parent /proc shows for the number now.
Adopted(n, e) ==
  LET seen == Owner(n)
  IN e.first # HostPid /\ seen \in Procs /\ proc[seen].par = Host

MaybeReapAdopted(n, e) ==
  IF mode = "None" \/ ~Adopted(n, e)
  THEN UNCHANGED <<proc, notices, noted, misreaped>>
  ELSE \/ /\ mode = "InProcess" /\ UNCHANGED notices
          /\ IF subreaper THEN ReapAdoptedChild(e.proc, e.proc, noted \cup {e.proc})
             ELSE noted' = noted \cup {e.proc} /\ UNCHANGED <<proc, misreaped>>
       \/ /\ mode = "Notify" /\ UNCHANGED <<proc, misreaped>>
          /\ noted' = noted \cup {e.proc}
          /\ notices' = notices \cup {[pid |-> n, start |-> e.proc]}

\* HandleExit, and the entry is erased.
HandleExit(n) ==
  /\ scan.pc = "scan" /\ n \in scan.gone
  /\ IF table[n].root THEN UNCHANGED <<proc, notices, noted, misreaped>> ELSE MaybeReapAdopted(n, table[n])
  /\ table' = Without(n, table)
  /\ scan' = [scan EXCEPT !.gone = @ \ {n}]
  /\ UNCHANGED <<subreaper, api>>

\* mutant: only the processes under a root now.
ToScan_Roots ==
  {n \in Followed : table[n].scan /\ (table[n].root \/ \E p \in Pinned : p = proc[table[n].proc].par)}
    \ scan.done

\* Scan, after the exits: the children of every followed process whose entry says
\* so, in any order, those registered on the way included.
ToScan == {n \in Followed : table[n].scan} \ scan.done

\* ReadChildren(n): of whichever process has the number.
ChildrenOf(n) == {proc[c].pid : c \in {q \in Procs : Exists(q) /\ proc[q].par = Owner(n)}}

ReadChildren(n) ==
  /\ scan.pc = "scan" /\ scan.gone = {} /\ scan.kids = {} /\ n \in ToScan
  /\ scan' = [scan EXCEPT !.done = @ \cup {n}, !.under = n, !.kids = ChildrenOf(n) \ Followed]
  /\ UNCHANGED <<unscanned, ops, table, notices, noted, misreaped>>

\* TryRegister: pidfd_open pins whatever has the number now ...
OpenChild(n) ==
  /\ scan.pc = "scan" /\ n \in scan.kids
  /\ scan' = IF Owner(n) = None
             THEN [scan EXCEPT !.kids = @ \ {n}]
             ELSE [scan EXCEPT !.kids = @ \ {n}, !.pc = "check", !.kid = n, !.pinned = Owner(n)]
  /\ UNCHANGED <<unscanned, ops, table, notices, noted, misreaped>>

\* mutant: no PID-reuse guard.
Guarded_No(ppid) ==
  TRUE

\* ... which is followed if it is alive after its stat was read, and the parent
\* read there is followed.
Guarded(ppid) == ppid \in Followed

\* own is a history: was the parent, as a process, followed (OnlyOurs).
Entered(q, ppid) ==
  LET via == table[scan.under]
  IN [proc |-> q, root |-> FALSE, scan |-> via.rec, rec |-> via.rec,
      first |-> IF ppid \in Pids THEN ppid ELSE HostPid,
      own |-> proc[q].par \in Pinned \/ (ppid \in scan.alive /\ ~Alive(table[ppid].proc))]

CheckChild ==
  LET q    == scan.pinned
      ppid == Number(proc[q].par)
      ok   == Alive(q) /\ Guarded(ppid)
  IN /\ scan.pc = "check"
     /\ table' = IF ok THEN With(scan.kid, Entered(q, ppid), table) ELSE table
     /\ scan' = [scan EXCEPT !.pc = "scan", !.kid = HostPid, !.pinned = None,
                   !.alive = IF ok THEN @ \cup {scan.kid} ELSE @,
                   !.under = IF @ # HostPid /\ scan.kids = {} THEN HostPid ELSE @]
     /\ UNCHANGED <<unscanned, ops, notices, noted, misreaped>>

\* ScanOnce is over (PublishStats); Run waits again.
EndScan ==
  /\ scan.pc = "scan" /\ scan.gone = {} /\ ToScan = {} /\ scan.kids = {}
  /\ scan' = [Idle EXCEPT !.pc = "wait"]
  /\ UNCHANGED <<unscanned, ops, table, notices, noted, misreaped>>

\* The host's notice reader: the number is opened here.
ReadNotice(note) ==
  /\ note \in notices
  /\ notices' = notices \ {note}
  /\ IF subreaper THEN ReapAdoptedChild(Owner(note.pid), note.start, noted)
     ELSE UNCHANGED <<proc, noted, misreaped>>
  /\ UNCHANGED <<subreaper, api, table, scan>>

----------------------------------------------------------------------------
ScanThread ==
  \/ RunEnds \/ TakeOps \/ ApplyOp \/ Poll \/ CheckChild \/ EndScan
  \/ \E n \in Pids \cup {HostPid} : HandleExit(n) \/ ReadChildren(n) \/ OpenChild(n)

NoticeReader == \E note \in notices : ReadNotice(note)

Kernel ==
  \/ \E p \in Procs \cup {Host, Outside}, c \in Procs, n \in Pids : Fork(p, c, n)
  \/ \E p \in Procs : Exit(p) \/ Wait(p)

Application ==
  \/ \E n \in RootPids : RemoveRoot(n) \/ \E descend \in BOOLEAN : AddRoot(n, descend)
  \/ Start \/ Stop

Next == ScanThread \/ NoticeReader \/ Joined \/ (life # "stopped" /\ Kernel) \/ Application

\* The scan thread's waits are timed, the notice reader's read returns when there is
\* a notice, and Stop() joins a thread that ends; no process has to do anything.
Spec == Init /\ [][Next]_vars /\ WF_vars(ScanThread \/ Joined) /\ WF_vars(NoticeReader)

----------------------------------------------------------------------------
(* Safety.                                                                 *)

\* Every process followed was, when it was registered, the child of a process
\* followed then.  The code compares numbers, so one exception is left: the child
\* of a process that took the number of a followed one since this pass's poll.
OnlyOurs == \A n \in Followed : table[n].own

\* A process the host started itself is never waited for here (its exit status
\* belongs to whoever started it), and the probes are told of an adopted one's exit
\* before it is waited for.
ReapsAdoptedOnly == ~misreaped

----------------------------------------------------------------------------
(* Liveness.                                                               *)

\* process_discovery.h: a process that goes on being the child of a followed one
\* is discovered, whether the follower is in its root's tree still or not.  With no
\* more processes to come there is a moment when none is left to be found.
Undiscovered(c) ==
  /\ Alive(c) /\ c \notin Pinned
  /\ \E n \in Followed : table[n].proc = proc[c].par /\ table[n].scan
ChildrenDiscovered ==
  (\E c \in Procs : Undiscovered(c)) ~> (life # "started" \/ \A c \in Procs : ~Undiscovered(c))

\* An orphan the host adopted, discovered elsewhere and followed, does not stay a
\* zombie: the host waits for it, by itself or on the sidecar's notice (unless the
\* application lists its number, and so makes it a root).
AdoptedZombie(p) ==
  /\ subreaper /\ proc[p].st = "zombie" /\ proc[p].par = Host /\ proc[p].pid \notin RootPids
  /\ \E n \in Followed : table[n].proc = p /\ table[n].first # HostPid
AdoptedReaped ==
  \A p \in Procs \ {First} : AdoptedZombie(p) ~> (life # "started" \/ proc[p].st = "gone")

=============================================================================
