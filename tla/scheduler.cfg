\* A calendar of four days of eight ticks: one of the times is skipped when the
\* clocks go forward, none is repeated when they go back.
SPECIFICATION FairSpec
CONSTANTS
  Day = 8
  Days = 4
  Forward = 10
  Back = 28
  Shift = 2
  Zones = {melbourne, utc}
  Summertime = {melbourne}
  Times = {3, 6}
  DefaultTime = 6
  DefaultZone = melbourne
  Garbage = Garbage
  NoDate = NoDate
  MaxRun = 3
  MaxEdits = 2
  MaxRestarts = 2
PROPERTY OnTime
PROPERTY OnceADay
PROPERTY FiresAgain
PROPERTY EditsArePrompt
