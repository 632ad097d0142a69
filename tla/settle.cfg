\* A load of two chapters, each of which comes out empty, right or too long: some
\* sums are within the tolerance although a chapter is wrong.
SPECIFICATION FairSpec

CONSTANTS
  Callers = {run, web}
  Run = run
  Lifetime = 2
  Margin = 1
  MaxAttempts = 1
  Chapters = 2
  Length = 2
  Outcomes = {0, 2, 3}
  Tolerance = 1
  Timeout = 2

INVARIANTS
  NoFalseAlarm
  SettledIsFinal

PROPERTIES
  SettleEnds
  ServedWhileRenewable
