\* Two tonies, a serial and an album that does not fit, whose staging may fail
\* on any night; one tonie without a library; any one fault; and the fairness
\* of the deployment.
SPECIFICATION FairSpec

CONSTANTS
  a1 = a1
  a2 = a2
  u1 = u1
  NoTonie = NoTonie
  Unmanaged <- OneUnmanaged
  Broken <- OneBroken
  Assignments <- TwoTonies
  N = 2
  Mode <- MixedMode
  Fit <- MixedFit
  Attempts = 2
  Depth = 0
  ChapterIds = {0, 1, 2, 3, 4, 5}
  MaxFaults = 1

INVARIANTS
  Consistent
  NoSilentDamage
  HonestRun

PROPERTIES
  DryRunSparesTonies
  EveryTonieLoaded
