\* A crash after the cursor is written: the repair advances it once more.
SPECIFICATION Spec

CONSTANTS
  a1 = a1
  a2 = a2
  u1 = u1
  NoTonie = NoTonie
  Unmanaged = {}
  Broken = {}
  Assignments <- OneTonie
  N = 3
  Mode <- SerialMode
  Fit <- FitTwo
  Attempts = 2
  Depth = 1
  ChapterIds = {0, 1, 2, 3, 4, 5, 6, 7}
  MaxFaults = 1

PROPERTY
  NoStorySkipped
