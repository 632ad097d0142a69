SPECIFICATION FairSpec
CONSTANTS
  Server = server
  Scheduler = scheduler
  Requests = {r1}
  Clis = {c1, c2}
  NoThread = none
  Tonies = {t1, t2}
  NoTonie = nothing
  MaxFaults = 2
INVARIANT MutualExclusion
INVARIANT NoLockLeft
INVARIANT RunMeetsNoInterruptedSwap
PROPERTY SparesLiveSwaps
PROPERTY EveryCallReturns
PROPERTY MarkersAreReconciled
