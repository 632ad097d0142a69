------------------------------ MODULE RunLock ------------------------------
(***************************************************************************)
(* Who may work on the tonies, and when: the two locks of                  *)
(* OrchestratorRunner (boxbutler/main.py), a threading.Lock in each        *)
(* process and the flock of boxbutler/runlock.py between processes, and    *)
(* the reconciliation of interrupted swaps they guard, when a process      *)
(* starts and when a run does.                                             *)
(*                                                                         *)
(* The server has a thread for the scheduler and threads for requests;     *)
(* each `boxbutler ...` on the command line is a process with one thread.  *)
(* Module Orchestrator looks inside the work and assumes one such thread   *)
(* at a time; this module is about that assumption.                        *)
(***************************************************************************)
EXTENDS Integers, FiniteSets

CONSTANTS
  Server,      \* the server process, and its main thread
  Scheduler,   \* the server's scheduler thread
  Requests,    \* the server's request threads
  Clis,        \* the processes of the command line, and their threads
  NoThread,    \* holds no lock
  Tonies,
  NoTonie,
  MaxFaults    \* bound: how often a process is killed or a reconciliation raises

Processes == {Server} \union Clis
Threads   == Processes \union Requests \union {Scheduler}

ASSUME ThreadAssumption ==
  /\ NoThread \notin Threads
  /\ Server \notin Clis /\ Scheduler \notin Processes
  /\ Requests \cap (Processes \union {Scheduler}) = {}
ASSUME TonieAssumption == NoTonie \notin Tonies
ASSUME FaultAssumption == MaxFaults \in Nat

\* The process a thread belongs to.
Home(t) == IF t \in Clis THEN t ELSE Server

\* What a thread may be asked to do. A dry run is a run that swaps nothing.
JobsOf(t) == CASE t = Scheduler   -> {"scheduled"}
               [] t \in Requests  -> {"run", "repair"}
               [] t \in Clis      -> {"run"}
               [] OTHER           -> {}

Jobs == {"none", "boot", "run", "scheduled", "repair"}

VARIABLES
  up,        \* processes whose build() has finished
  pc,        \* where each thread is
  job,       \* what it was asked to do
  mutex,     \* OrchestratorRunner._lock of each process
  flock,     \* the holder of run.lock
  marker,    \* whether a tonie has a swap_marker row
  swapping,  \* the tonie a thread is in the middle of swapping
  faults     \* faults so far

vars == <<up, pc, job, mutex, flock, marker, swapping, faults>>

Init ==
  /\ up = {}
  /\ pc = [t \in Threads |-> "out"]
  /\ job = [t \in Threads |-> "none"]
  /\ mutex = [p \in Processes |-> NoThread]
  /\ flock = NoThread
  /\ marker \in [Tonies -> BOOLEAN]
  /\ swapping = [t \in Threads |-> NoTonie]
  /\ faults = 0

Goto(t, step) == pc' = [pc EXCEPT ![t] = step]

\* A call returns, or raises, in its thread.
Return(t) == Goto(t, "out") /\ job' = [job EXCEPT ![t] = "none"]

\* Leaving the with-block of RunLock.held: it unlocks what it has locked.
Unlock(t) == flock' = IF flock = t THEN NoThread ELSE flock

-----------------------------------------------------------------------------
(* build(): a process that starts tries the flock once, and reconciles when *)
(* it gets it. *)

Start(p) ==
  /\ p \notin up /\ pc[p] = "out"
  /\ Goto(p, "boot") /\ job' = [job EXCEPT ![p] = "boot"]
  /\ UNCHANGED <<up, mutex, flock, marker, swapping, faults>>

\* Mutant of BootLocks: whether a run is going on is not asked.
BootUnlocked(p) ==
  /\ pc[p] = "boot"
  /\ Goto(p, "reconcile")
  /\ UNCHANGED <<up, job, mutex, flock, marker, swapping, faults>>

BootLocks(p) ==
  /\ pc[p] = "boot"
  /\ flock = NoThread
  /\ flock' = p
  /\ Goto(p, "reconcile")
  /\ UNCHANGED <<up, job, mutex, marker, swapping, faults>>

\* Another process holds it: the markers are left to a later run.
BootSkips(p) ==
  /\ pc[p] = "boot"
  /\ flock # NoThread
  /\ Return(p) /\ up' = up \union {p}
  /\ UNCHANGED <<mutex, flock, marker, swapping, faults>>

-----------------------------------------------------------------------------
(* OrchestratorRunner.run, run_scheduled and repair *)

Call(t, j) ==
  /\ Home(t) \in up /\ pc[t] = "out"
  /\ j \in JobsOf(t)
  /\ Goto(t, "mutex") /\ job' = [job EXCEPT ![t] = j]
  /\ UNCHANGED <<up, mutex, flock, marker, swapping, faults>>

TakeMutex(t) ==
  /\ pc[t] = "mutex"
  /\ mutex[Home(t)] = NoThread
  /\ mutex' = [mutex EXCEPT ![Home(t)] = t]
  /\ Goto(t, "flock")
  /\ UNCHANGED <<up, job, flock, marker, swapping, faults>>

\* Mutant of MutexRefuses: the scheduled run waits without a timeout.
MutexRefusesRequests(t) ==
  /\ pc[t] = "mutex" /\ job[t] # "scheduled"
  /\ mutex[Home(t)] # NoThread
  /\ Return(t)
  /\ UNCHANGED <<up, mutex, flock, marker, swapping, faults>>

\* A thread of the same process holds it. A request is refused at once; the
\* scheduled run waits first, and gives the night up when its time is over.
MutexRefuses(t) ==
  /\ pc[t] = "mutex"
  /\ mutex[Home(t)] # NoThread
  /\ Return(t)
  /\ UNCHANGED <<up, mutex, flock, marker, swapping, faults>>

\* Mutants of TakeFlock: there is no lock between processes; a run does not
\* reconcile.
TakeNoFlock(t) ==
  /\ pc[t] = "flock"
  /\ Goto(t, IF job[t] = "repair" THEN "work" ELSE "reconcile")
  /\ UNCHANGED <<up, job, mutex, flock, marker, swapping, faults>>

TakeFlockOnly(t) ==
  /\ pc[t] = "flock"
  /\ flock = NoThread
  /\ flock' = t
  /\ Goto(t, "work")
  /\ UNCHANGED <<up, job, mutex, marker, swapping, faults>>

\* _run_locked reconciles before it runs, _repair_locked does not.
TakeFlock(t) ==
  /\ pc[t] = "flock"
  /\ flock = NoThread
  /\ flock' = t
  /\ Goto(t, IF job[t] = "repair" THEN "work" ELSE "reconcile")
  /\ UNCHANGED <<up, job, mutex, marker, swapping, faults>>

\* Another process holds it: RunInProgress, at once or after the timeout.
FlockRefuses(t) ==
  /\ pc[t] = "flock"
  /\ flock # NoThread
  /\ Goto(t, "unmutex")
  /\ UNCHANGED <<up, job, mutex, flock, marker, swapping, faults>>

\* reconcile_interrupted_swaps: one marker becomes a DEGRADED assignment.
Reconcile(t, a) ==
  /\ pc[t] = "reconcile"
  /\ marker[a]
  /\ marker' = [marker EXCEPT ![a] = FALSE]
  /\ UNCHANGED <<up, pc, job, mutex, flock, swapping, faults>>

Reconciled(t) ==
  /\ pc[t] = "reconcile"
  /\ \A a \in Tonies : ~marker[a]
  /\ IF job[t] = "boot"
       THEN Return(t) /\ up' = up \union {t} /\ Unlock(t)
       ELSE Goto(t, "work") /\ UNCHANGED <<up, job, flock>>
  /\ UNCHANGED <<mutex, marker, swapping, faults>>

\* The reconciliation raises: the run does not begin. (In build() it ends the
\* process: Die.)
ReconcileRaises(t) ==
  /\ pc[t] = "reconcile" /\ job[t] # "boot"
  /\ faults < MaxFaults /\ faults' = faults + 1
  /\ Unlock(t)
  /\ Goto(t, "unmutex")
  /\ UNCHANGED <<up, job, mutex, marker, swapping>>

\* The work itself: swaps, one after the other. Each is marked before the
\* tonie is cleared and unmarked by its commit, or by _degrade.
BeginSwap(t, a) ==
  /\ pc[t] = "work"
  /\ swapping[t] = NoTonie
  /\ marker' = [marker EXCEPT ![a] = TRUE]
  /\ swapping' = [swapping EXCEPT ![t] = a]
  /\ UNCHANGED <<up, pc, job, mutex, flock, faults>>

EndSwap(t) ==
  /\ swapping[t] # NoTonie
  /\ marker' = [marker EXCEPT ![swapping[t]] = FALSE]
  /\ swapping' = [swapping EXCEPT ![t] = NoTonie]
  /\ UNCHANGED <<up, pc, job, mutex, flock, faults>>

\* The work ends, or an exception ends it, a swap half done included.
EndWork(t) ==
  /\ pc[t] = "work"
  /\ swapping' = [swapping EXCEPT ![t] = NoTonie]
  /\ Unlock(t)
  /\ Goto(t, "unmutex")
  /\ UNCHANGED <<up, job, mutex, marker, faults>>

\* The finally clause around the flock.
Unmutex(t) ==
  /\ pc[t] = "unmutex"
  /\ mutex' = [mutex EXCEPT ![Home(t)] = NoThread]
  /\ Return(t)
  /\ UNCHANGED <<up, flock, marker, swapping, faults>>

-----------------------------------------------------------------------------
(* Processes end *)

\* Every thread of p is gone, and with it the lock of the process.
Gone(p) ==
  /\ up' = up \ {p}
  /\ pc' = [t \in Threads |-> IF Home(t) = p THEN "out" ELSE pc[t]]
  /\ job' = [t \in Threads |-> IF Home(t) = p THEN "none" ELSE job[t]]
  /\ swapping' = [t \in Threads |-> IF Home(t) = p THEN NoTonie ELSE swapping[t]]
  /\ mutex' = [mutex EXCEPT ![p] = NoThread]
  /\ UNCHANGED marker

Running(p) == p \in up \/ pc[p] # "out"

\* Mutant of Die: the lock file holds a name, and nobody clears it.
DieLocked(p) ==
  /\ Running(p) /\ faults < MaxFaults
  /\ Gone(p) /\ UNCHANGED flock
  /\ faults' = faults + 1

\* Killed at any point. The kernel gives the flock back.
Die(p) ==
  /\ Running(p) /\ faults < MaxFaults
  /\ Gone(p)
  /\ flock' = IF flock # NoThread /\ Home(flock) = p THEN NoThread ELSE flock
  /\ faults' = faults + 1

\* A command of the command line is done.
Exit(c) ==
  /\ c \in Clis /\ c \in up /\ pc[c] = "out"
  /\ Gone(c)
  /\ UNCHANGED <<flock, faults>>

Step(t) ==
  \/ BootLocks(t) \/ BootSkips(t)
  \/ TakeMutex(t) \/ MutexRefuses(t) \/ TakeFlock(t) \/ FlockRefuses(t)
  \/ \E a \in Tonies : Reconcile(t, a)
  \/ Reconciled(t) \/ EndSwap(t) \/ EndWork(t) \/ Unmutex(t)

Next ==
  \/ \E t \in Threads :
       \/ Step(t) \/ ReconcileRaises(t)
       \/ \E j \in JobsOf(t) : Call(t, j)
       \/ \E a \in Tonies : BeginSwap(t, a)
  \/ \E p \in Processes : Start(p) \/ Die(p) \/ Exit(p)

Spec == Init /\ [][Next]_vars

\* Threads go on, whatever they do: a run is over after finitely many swaps,
\* and a wait for a lock after its timeout. Nobody has to ask for anything.
Fairness == \A t \in Threads : WF_vars(Step(t)) /\ WF_vars(EndWork(t))

FairSpec == Spec /\ Fairness

-----------------------------------------------------------------------------
(* Properties *)

PCs == {"out", "boot", "mutex", "flock", "reconcile", "work", "unmutex"}

\* Every variable keeps its type; a thread is somewhere exactly while it has a
\* job, and only main threads boot.
TypeOK ==
  /\ up \in SUBSET Processes
  /\ pc \in [Threads -> PCs]
  /\ job \in [Threads -> Jobs]
  /\ mutex \in [Processes -> Threads \union {NoThread}]
  /\ flock \in Threads \union {NoThread}
  /\ marker \in [Tonies -> BOOLEAN]
  /\ swapping \in [Threads -> Tonies \union {NoTonie}]
  /\ faults \in 0..MaxFaults
  /\ \A t \in Threads : /\ pc[t] = "out" <=> job[t] = "none"
                        /\ job[t] \in {"none", "boot"} \union JobsOf(t)
                        /\ job[t] = "boot" => t \in Processes
                        /\ pc[t] = "boot" => job[t] = "boot"
                        /\ job[t] = "boot" => pc[t] \in {"boot", "reconcile"}

\* What a thread does that needs the lock between processes, and the lock of
\* its own process.
InsideFlock(t) == pc[t] \in {"reconcile", "work"}
InsideMutex(t) == pc[t] \in {"flock", "work", "unmutex"}
                  \/ (pc[t] = "reconcile" /\ job[t] # "boot")

\* No two threads, of one process or of two, reconcile or work on tonies at
\* the same time ("two runs never overlap", _locked).
MutualExclusion ==
  \A t, u \in Threads : InsideFlock(t) /\ InsideFlock(u) => t = u

\* A lock is held only by a living thread that is inside: no death and no
\* exception leaves a lock behind that wedges every later run.
NoLockLeft ==
  /\ flock # NoThread => InsideFlock(flock)
  /\ \A p \in Processes :
       mutex[p] # NoThread => Home(mutex[p]) = p /\ InsideMutex(mutex[p])

\* Reconciling takes no marker of a swap that is going on, in whatever
\* process ("degrading an in-flight assignment from underneath it", build).
SparesLiveSwaps ==
  [][\A a \in Tonies : marker[a] /\ ~marker'[a] =>
       \A t \in Threads : swapping[t] = a => swapping'[t] = NoTonie]_vars

\* Why they hold: who is inside has the lock, and swaps happen inside. With
\* NoLockLeft and RunMeetsNoInterruptedSwap this is inductive.
InsideHasLocks ==
  \A t \in Threads : /\ InsideFlock(t) => flock = t
                     /\ InsideMutex(t) => mutex[Home(t)] = t
SwapsInside ==
  \A t \in Threads : swapping[t] # NoTonie => pc[t] = "work"

\* While a run works, the only marker is that of its own swap: it rotates
\* nothing beside a tonie whose swap was interrupted and not yet declared
\* DEGRADED, whichever process that swap died in.
RunMeetsNoInterruptedSwap ==
  \A t \in Threads : pc[t] = "work" /\ job[t] \in {"run", "scheduled"} =>
    \A a \in Tonies : marker[a] => swapping[t] = a

Safe == /\ InsideHasLocks /\ SwapsInside /\ NoLockLeft
        /\ RunMeetsNoInterruptedSwap

\* Every call returns, the scheduled one included: nobody waits forever.
EveryCallReturns == \A t \in Threads : pc[t] # "out" ~> pc[t] = "out"

\* As long as runs get the lock at all, of whatever process, every marker is
\* eventually taken away, by its own swap or by a reconciliation: a start may
\* skip it, and a repair leaves it, but no swap that was interrupted is
\* forgotten ("caught at the very next run this process drives", _run_locked).
RunsGoOn == []<><<\E t \in Threads : job[t] \in {"run", "scheduled"} /\ flock' = t>>_flock
MarkersAreReconciled == RunsGoOn => \A a \in Tonies : marker[a] ~> ~marker[a]
=============================================================================
