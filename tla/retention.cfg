SPECIFICATION FairSpec
CONSTANTS
  N = 3
  InFolder = {0}
  Fit = 2
  Depth = 1
  Budget = 2
  Run = run
  Others = {cli}
  MaxFaults = 2
  MaxOthers = 2
INVARIANT EvictionReachesBudget
PROPERTY SparesWhatIsNeeded
PROPERTY DegradedIsLoaded
