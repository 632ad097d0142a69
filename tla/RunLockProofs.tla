--------------------------- MODULE RunLockProofs ---------------------------
(***************************************************************************)
(* Proofs about RunLock, for any number of processes, threads, tonies and  *)
(* faults: TypeOK and Safe together are inductive, mutual exclusion and    *)
(* what a reconciliation may take follow from them.                        *)
(***************************************************************************)
EXTENDS RunLock, TLAPS

IndInv == TypeOK /\ Safe

\* Every thread belongs to a process, the main threads to their own.
LEMMA HomeType ==
  /\ \A t \in Threads : Home(t) \in Processes
  /\ \A p \in Processes : Home(p) = p
BY ThreadAssumption DEF Home, Threads, Processes

\* No thread is asked to boot, or for nothing.
LEMMA JobsType ==
  \A t \in Threads : JobsOf(t) \subseteq Jobs \ {"none", "boot"}
BY DEF JobsOf, Jobs, Threads, Processes

\* Every step of a thread or a process keeps the types.
LEMMA TypeStep ==
  ASSUME IndInv, [Next]_vars
  PROVE  TypeOK'
<1> USE ThreadAssumption, TonieAssumption, FaultAssumption, HomeType, JobsType
<1> USE DEF IndInv, TypeOK, PCs, Jobs, Goto, Return, Unlock
<1>1. CASE UNCHANGED vars
  BY <1>1 DEF vars
<1>2. ASSUME NEW p \in Processes, Start(p)
      PROVE  TypeOK'
  BY <1>2 DEF Start, Threads
<1>3. ASSUME NEW t \in Threads, BootLocks(t) \/ BootSkips(t)
      PROVE  TypeOK'
  BY <1>3 DEF BootLocks, BootSkips
<1>4. ASSUME NEW t \in Threads, NEW j \in JobsOf(t), Call(t, j)
      PROVE  TypeOK'
  BY <1>4 DEF Call
<1>5. ASSUME NEW t \in Threads, TakeMutex(t) \/ MutexRefuses(t)
      PROVE  TypeOK'
  BY <1>5 DEF TakeMutex, MutexRefuses
<1>6. ASSUME NEW t \in Threads, TakeFlock(t) \/ FlockRefuses(t)
      PROVE  TypeOK'
  BY <1>6 DEF TakeFlock, FlockRefuses
<1>7. ASSUME NEW t \in Threads, NEW a \in Tonies, Reconcile(t, a) \/ BeginSwap(t, a)
      PROVE  TypeOK'
  <2>1. marker' \in [Tonies -> BOOLEAN]
    BY <1>7 DEF Reconcile, BeginSwap
  <2>2. swapping' \in [Threads -> Tonies \union {NoTonie}]
    BY <1>7 DEF Reconcile, BeginSwap
  <2> QED BY <1>7, <2>1, <2>2 DEF Reconcile, BeginSwap
<1>8. ASSUME NEW t \in Threads, Reconciled(t) \/ ReconcileRaises(t)
      PROVE  TypeOK'
  BY <1>8 DEF Reconciled, ReconcileRaises
<1>9. ASSUME NEW t \in Threads, EndSwap(t) \/ EndWork(t)
      PROVE  TypeOK'
  <2>1. CASE EndSwap(t)
    <3>1. marker' \in [Tonies -> BOOLEAN]
      BY <2>1 DEF EndSwap
    <3> QED BY <2>1, <3>1 DEF EndSwap
  <2>2. CASE EndWork(t)
    BY <2>2 DEF EndWork
  <2> QED BY <1>9, <2>1, <2>2
<1>10. ASSUME NEW t \in Threads, Unmutex(t)
       PROVE  TypeOK'
  BY <1>10 DEF Unmutex
<1>11. ASSUME NEW p \in Processes, Die(p) \/ Exit(p)
       PROVE  TypeOK'
  BY <1>11 DEF Die, Exit, Gone
<1> QED
  BY <1>1, <1>2, <1>3, <1>4, <1>5, <1>6, <1>7, <1>8, <1>9, <1>10, <1>11, Zenon
     DEF Next, Step

\* Every step keeps Safe: who gets a lock is alone with it, and who leaves,
\* dies or raises leaves none behind.
LEMMA SafeStep ==
  ASSUME IndInv, [Next]_vars
  PROVE  Safe'
<1> USE ThreadAssumption, TonieAssumption, HomeType, JobsType
<1> USE DEF IndInv, TypeOK, Safe, InsideHasLocks, SwapsInside, NoLockLeft,
            RunMeetsNoInterruptedSwap, InsideFlock, InsideMutex, Goto, Return, Unlock
<1>1. CASE UNCHANGED vars
  BY <1>1 DEF vars
<1>2. ASSUME NEW p \in Processes, Start(p)
      PROVE  Safe'
  BY <1>2 DEF Start, Threads
<1>3. ASSUME NEW t \in Threads, BootLocks(t) \/ BootSkips(t)
      PROVE  Safe'
  BY <1>3 DEF BootLocks, BootSkips
<1>4. ASSUME NEW t \in Threads, NEW j \in JobsOf(t), Call(t, j)
      PROVE  Safe'
  BY <1>4 DEF Call
<1>5. ASSUME NEW t \in Threads, TakeMutex(t) \/ MutexRefuses(t)
      PROVE  Safe'
  BY <1>5 DEF TakeMutex, MutexRefuses
<1>6. ASSUME NEW t \in Threads, TakeFlock(t) \/ FlockRefuses(t)
      PROVE  Safe'
  BY <1>6 DEF TakeFlock, FlockRefuses
<1>7. ASSUME NEW t \in Threads, NEW a \in Tonies, Reconcile(t, a)
      PROVE  Safe'
  BY <1>7 DEF Reconcile
<1>8. ASSUME NEW t \in Threads, NEW a \in Tonies, BeginSwap(t, a)
      PROVE  Safe'
  BY <1>8 DEF BeginSwap
<1>9. ASSUME NEW t \in Threads, Reconciled(t)
      PROVE  Safe'
  <2>1. CASE job[t] = "boot"
    BY <1>9, <2>1 DEF Reconciled
  <2>2. CASE job[t] # "boot"
    <3>1. \A a \in Tonies : ~marker[a]
      BY <1>9 DEF Reconciled
    <3>2. pc' = [pc EXCEPT ![t] = "work"]
          /\ UNCHANGED <<up, job, flock, mutex, marker, swapping>>
      BY <1>9, <2>2 DEF Reconciled
    <3>3. InsideFlock(t) /\ flock = t
      BY <1>9 DEF Reconciled
    <3>4. (InsideHasLocks /\ SwapsInside)'
      BY <1>9, <2>2, <3>2, <3>3 DEF Reconciled
    <3>5. NoLockLeft'
      BY <1>9, <2>2, <3>2, <3>3 DEF Reconciled
    <3>6. RunMeetsNoInterruptedSwap'
      BY <3>1, <3>2
    <3> QED BY <3>4, <3>5, <3>6
  <2> QED BY <2>1, <2>2
<1>10. ASSUME NEW t \in Threads, ReconcileRaises(t)
       PROVE  Safe'
  BY <1>10 DEF ReconcileRaises
<1>11. ASSUME NEW t \in Threads, EndSwap(t)
       PROVE  Safe'
  BY <1>11 DEF EndSwap
<1>12. ASSUME NEW t \in Threads, EndWork(t)
       PROVE  Safe'
  BY <1>12 DEF EndWork
<1>13. ASSUME NEW t \in Threads, Unmutex(t)
       PROVE  Safe'
  BY <1>13 DEF Unmutex
<1>14. ASSUME NEW p \in Processes, Die(p)
       PROVE  Safe'
  BY <1>14 DEF Die, Gone
<1>15. ASSUME NEW p \in Processes, Exit(p)
       PROVE  Safe'
  <2>1. \A t \in Threads : Home(t) = p => t = p
    BY <1>15 DEF Exit, Home
  <2>2. flock # NoThread => Home(flock) # p
    BY <1>15, <2>1 DEF Exit
  <2> QED BY <1>15, <2>1, <2>2 DEF Exit, Gone
<1> QED
  BY <1>1, <1>2, <1>3, <1>4, <1>5, <1>6, <1>7, <1>8, <1>9, <1>10, <1>11, <1>12,
     <1>13, <1>14, <1>15, Zenon DEF Next, Step

\* Nobody holds a lock when nothing runs yet, whatever markers are left.
LEMMA IndInvInit == Init => IndInv
BY ThreadAssumption, TonieAssumption, FaultAssumption, HomeType
   DEF Init, IndInv, TypeOK, Safe, InsideHasLocks, SwapsInside, NoLockLeft,
       RunMeetsNoInterruptedSwap, InsideFlock, InsideMutex, PCs, Jobs

\* In every reachable state the types are right, a thread that is inside has
\* its locks, no lock is left behind by a death or an exception, and a run
\* works beside no interrupted swap.
THEOREM Invariance == Spec => []IndInv
<1>1. IndInv /\ [Next]_vars => IndInv'
  BY TypeStep, SafeStep DEF IndInv
<1> QED BY <1>1, IndInvInit, PTL DEF Spec

\* At most one thread of all processes reconciles or works on tonies: what
\* module Orchestrator takes for granted.
THEOREM Exclusion == Spec => []MutualExclusion
<1>1. IndInv => MutualExclusion
  BY DEF IndInv, Safe, InsideHasLocks, MutualExclusion
<1> QED BY <1>1, Invariance, PTL

\* No lock is ever held by nobody alive inside: a killed run wedges no other.
THEOREM LocksAreReturned == Spec => []NoLockLeft
<1>1. IndInv => NoLockLeft
  BY DEF IndInv, Safe
<1> QED BY <1>1, Invariance, PTL

\* A run works beside no interrupted swap, in whichever process it died.
THEOREM RunsFollowReconciliation == Spec => []RunMeetsNoInterruptedSwap
<1>1. IndInv => RunMeetsNoInterruptedSwap
  BY DEF IndInv, Safe
<1> QED BY <1>1, Invariance, PTL

\* No reconciliation takes the marker of a swap that is going on.
LEMMA SparingStep ==
  ASSUME IndInv, [Next]_vars, NEW a \in Tonies, marker[a], ~marker'[a],
         NEW t \in Threads, swapping[t] = a
  PROVE  swapping'[t] = NoTonie
<1> USE ThreadAssumption, TonieAssumption, HomeType
<1> USE DEF IndInv, TypeOK, Safe, InsideHasLocks, SwapsInside, InsideFlock
<1>1. InsideFlock(t) /\ flock = t
  OBVIOUS
<1>2. \A u \in Threads, b \in Tonies : ~Reconcile(u, b)
  <2> SUFFICES ASSUME NEW u \in Threads, NEW b \in Tonies, Reconcile(u, b)
               PROVE  FALSE
    OBVIOUS
  <2>1. InsideFlock(u)
    BY DEF Reconcile
  <2> QED BY <1>1, <2>1 DEF Reconcile
<1>3. \A u \in Threads : EndSwap(u) => u = t
  BY <1>1 DEF EndSwap
<1>4. CASE UNCHANGED marker
  BY <1>4
<1>5. ASSUME NEW u \in Threads, EndSwap(u)
      PROVE  swapping'[t] = NoTonie
  BY <1>3, <1>5 DEF EndSwap
<1>6. ASSUME NEW u \in Threads, NEW b \in Tonies, BeginSwap(u, b)
      PROVE  FALSE
  BY <1>6 DEF BeginSwap
<1>7. ASSUME NEW u \in Threads, Step(u) \/ ReconcileRaises(u)
      PROVE  swapping'[t] = NoTonie
  BY <1>2, <1>4, <1>5, <1>7
     DEF Step, BootLocks, BootSkips, TakeMutex, MutexRefuses, TakeFlock, FlockRefuses,
         Reconciled, ReconcileRaises, EndWork, Unmutex
<1>8. ASSUME NEW u \in Threads, NEW j \in JobsOf(u), Call(u, j)
      PROVE  FALSE
  BY <1>8 DEF Call
<1>9. ASSUME NEW p \in Processes, Start(p) \/ Die(p) \/ Exit(p)
      PROVE  FALSE
  BY <1>9 DEF Start, Die, Exit, Gone
<1> QED
  BY <1>4, <1>6, <1>7, <1>8, <1>9 DEF Next, vars

\* A reconciliation, of a start or of a run, of whatever process, never
\* degrades a tonie whose swap is going on.
THEOREM LiveSwapsAreSpared == Spec => SparesLiveSwaps
<1>1. IndInv /\ [Next]_vars =>
        [\A a \in Tonies : marker[a] /\ ~marker'[a] =>
           \A t \in Threads : swapping[t] = a => swapping'[t] = NoTonie]_vars
  BY SparingStep
<1> QED BY <1>1, Invariance, PTL DEF Spec, SparesLiveSwaps
=============================================================================
