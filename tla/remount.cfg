\* One thread at a time, and a mount that goes and comes back.
SPECIFICATION Spec

CONSTANTS
  c1 = c1
  e1 = e1
  e2 = e2
  Files = {1, 2}
  Contents = {c1}
  Entries = {e1}
  Inbox = Inbox
  Starts <- Empty
  PageSize = 2
  MaxListed = 1
  MaxBusy = 1
  MaxEdits = 3
  MaxCrashes = 0

PROPERTY
  MountRestores
