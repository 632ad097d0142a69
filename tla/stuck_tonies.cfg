\* Two tonies that play one story at a time share a library of three, as the
\* first run sets them up: duplicates avoided, no cooldown.  Nobody edits
\* anything and every source is good.
SPECIFICATION Spec
CONSTANTS
  a1 = a1
  a2 = a2
  Tonies = {a1, a2}
  Mode <- TwoSingles
  N = 3
  Dur <- Even
  Shuffled <- Permutations3
  Caps = {0}
  SinkMax = 6
  MaxChapters = 2
  PartialTail = TRUE
  MinSeconds = 2
  Depth = 1
  Kind <- Files
  Gone = {{}}
  Cooldowns = {0}
  Avoidances = {TRUE}
  MaxEdits = 0
PROPERTY EveryStoryPlays
