\* One serial tonie that loads two of its three stories, any two faults, and the
\* fairness of the deployment.
SPECIFICATION FairSpec

CONSTANTS
  a1 = a1
  a2 = a2
  u1 = u1
  NoTonie = NoTonie
  Unmanaged = {}
  Broken = {}
  Assignments <- OneTonie
  N = 3
  Mode <- SerialMode
  Fit <- FitTwo
  Attempts = 2
  Depth = 1
  ChapterIds = {0, 1, 2, 3, 4, 5, 6, 7}
  MaxFaults = 2

INVARIANT
  StagedFilesKept

PROPERTIES
  ClearedOnlyWhenArmed
  CursorFollowsLoad
  OneLoadPerWindow
  ImplementsGuard
  OwedIsRepaired
