\* A single and a serial share three stories, the last of them longer than one
\* of the caps and a playlist entry.  With no cap set the sink's six seconds
\* end a load after two stories, cut the third, or leave a tail too short to
\* ship; with a cap of four the second story is the one that is cut.  One edit
\* by anybody, at any moment.
SPECIFICATION Spec
CONSTANTS
  a1 = a1
  a2 = a2
  Tonies = {a1, a2}
  Mode <- SingleAndSerial
  N = 3
  Dur <- Lengths
  Shuffled <- Permutations3
  Caps = {0, 4}
  SinkMax = 6
  MaxChapters = 2
  PartialTail = TRUE
  MinSeconds = 2
  Depth = 1
  Kind <- Mixed
  Gone = {{}, {1, 2}, {1, 3}}
  Cooldowns = {1}
  Avoidances = {TRUE, FALSE}
  MaxEdits = 1
INVARIANT LoadFits
PROPERTY PlansAreWellChosen
PROPERTY NightNotLost
PROPERTY EveryStoryPlaysOrStalls
