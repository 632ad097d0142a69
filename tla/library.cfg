\* Two names in the folder, one piece of audio copied in or uploaded, two links,
\* listings of at most two entries, two of the three threads at work at a time,
\* two edits by operators or the world, and a kill.
SPECIFICATION Spec

CONSTANTS
  c1 = c1
  e1 = e1
  e2 = e2
  Files = {1, 2}
  Contents = {c1}
  Entries = {e1, e2}
  Inbox = Inbox
  Starts <- Begun
  PageSize = 2
  MaxListed = 2
  MaxBusy = 2
  MaxEdits = 2
  MaxCrashes = 1

INVARIANT
  PositionsDense

PROPERTIES
  AppendOnly
  
  SyncAgrees
  PreviewAgrees
