----------------------------- MODULE Scheduler -----------------------------
(***************************************************************************)
(* The daily trigger of boxbutler/scheduler/scheduler.py: run_forever on   *)
(* the thread that serve (boxbutler/main.py) starts, with the get_schedule *)
(* of build. Somebody edits schedule and zone meanwhile, the store cannot  *)
(* be read at times, the process is restarted, and a run takes its time.   *)
(*                                                                         *)
(* Time is the clock's UTC, in ticks; a slice of the loop's sleep is one.  *)
(* It goes round a calendar of Days days, in which the clocks of the zones *)
(* in Summertime go forward once and back once. A wall-clock reading is    *)
(* the number of ticks since the calendar began, as the clock shows it:    *)
(* what a naive datetime is.                                               *)
(***************************************************************************)
EXTENDS Integers

CONSTANTS
  Day,          \* ticks of a day
  Days,         \* days of the calendar
  Forward,      \* when clocks go forward: in the second day or later,
  Back,         \* and back: later, and not in the last ticks of the calendar
  Shift,        \* by so many ticks
  Zones,        \* the time zones,
  Summertime,   \* those that change their clocks
  Times,        \* the HH:MM that are set, in ticks since midnight
  DefaultTime, DefaultZone,  \* of environment or file
  Garbage,      \* a stored value that is no schedule or no zone
  NoDate,
  MaxRun,       \* bound: ticks a run takes; less than a day
  MaxEdits,     \* bound: changes of the stored settings
  MaxRestarts   \* bound: restarts

Year == Days * Day
Settings == [time : Times, zone : Zones]
Default == [time |-> DefaultTime, zone |-> DefaultZone]

ASSUME SchedulerAssumption ==
  /\ {Day, Days, Forward, Back, Shift, MaxRun, MaxEdits, MaxRestarts} \subseteq Nat
  /\ Day <= Forward /\ Forward + Shift <= Back /\ Back + Shift <= Year
  /\ Summertime \subseteq Zones /\ Times \subseteq 0..(Day - 1)
  /\ Default \in Settings /\ Garbage \notin Settings
  /\ MaxRun + Shift < Day /\ Days > 1
  /\ NoDate \notin 0..(Days - 1)

VARIABLES
  now,        \* the clock
  stored,     \* schedule and timezone in the settings table
  readable,   \* whether the store can be read
  phase,      \* where serve and the thread are
  known,      \* the loop's (schedule, tz_name)
  remaining,  \* ticks from now to the loop's target
  length,     \* ticks the run under way has taken
  lastDate,   \* the date of the last run since `known' changed
  unbroken,   \* whether the process has been up since then
  settled,    \* whether a slice has ended since the last edit, the store readable
  edits, restarts

envVars  == <<stored, edits>>
loopVars == <<phase, known, remaining, length>>
pastVars == <<lastDate, unbroken>>
vars == <<now, readable, envVars, loopVars, pastVars, settled, restarts>>

-----------------------------------------------------------------------------
(* Clocks *)

\* astimezone: what the clock on the wall shows at the instant t.
Wall(t, zone) == IF zone \in Summertime /\ Forward <= t /\ t < Back THEN t + Shift ELSE t

\* The instant of a wall-clock reading with fold 0: a skipped reading counts
\* from before the change, a repeated one is the first of the two.
Instant(w, zone) ==
  IF zone \in Summertime /\ Forward + Shift <= w /\ w < Back + Shift THEN w - Shift ELSE w

DateAt(t, zone) == Wall(t, zone) \div Day

\* Mutants of NextRun: now counts as still to come; the next day is a day of
\* ticks away.
NextRunOrNow(t, s) ==
  LET wall  == Wall(t, s.zone)
      today == (wall - (wall % Day)) + s.time
  IN  Instant(IF today < wall THEN today + Day ELSE today, s.zone) - t

NextRunInTicks(t, s) ==
  LET wall  == Wall(t, s.zone)
      today == (wall - (wall % Day)) + s.time
  IN  Instant(today, s.zone) + (IF today <= wall THEN Day ELSE 0) - t

\* next_run_at, as the ticks that remain. Both sides of the comparison have the
\* same zone, so it compares what the wall shows.
NextRun(t, s) ==
  LET wall  == Wall(t, s.zone)
      today == (wall - (wall % Day)) + s.time
  IN  Instant(IF today <= wall THEN today + Day ELSE today, s.zone) - t

-----------------------------------------------------------------------------
Init ==
  /\ now \in 0..(Year - 1)
  /\ stored = Default /\ readable = TRUE
  /\ phase = "serve" /\ known = Default /\ remaining = 0 /\ length = 0
  /\ lastDate = NoDate /\ unbroken = FALSE /\ settled = FALSE
  /\ edits = 0 /\ restarts = 0

\* get_schedule: what cannot be used is replaced by the configured default.
Read == IF stored = Garbage THEN Default ELSE stored

Goto(p) == phase' = p /\ UNCHANGED <<known, remaining, length>>

Quiet == UNCHANGED <<now, readable, envVars, restarts>>
Still == Quiet /\ UNCHANGED settled

\* The loop adopts the settings it has read and the target they give.
Adopt(s) ==
  /\ known' = s
  /\ remaining' = NextRun(now, s)
  /\ IF s = known THEN UNCHANGED pastVars ELSE lastDate' = NoDate /\ unbroken' = TRUE

\* The main thread reads once, and the thread that it starts once more; the
\* first failure ends the process, the second the thread.
Serve ==
  /\ phase = "serve"
  /\ Goto(IF readable THEN "boot" ELSE "down")
  /\ UNCHANGED pastVars /\ Still

Boot ==
  /\ phase = "boot" /\ readable
  /\ Adopt(Read)
  /\ phase' = "wait" /\ UNCHANGED length
  /\ Still

BootFails ==
  /\ phase = "boot" /\ ~readable
  /\ Goto("dead")
  /\ UNCHANGED pastVars /\ Still

\* while not stop.is_set(): sleep towards the target.
Sleep ==
  /\ phase = "wait" /\ remaining > 0
  /\ Goto("asleep")
  /\ UNCHANGED pastVars /\ Still

\* Mutants of Reread: it always adopts; it looks at the time only.
RereadAlways ==
  /\ phase = "reread"
  /\ phase' = "wait" /\ UNCHANGED length
  /\ IF readable THEN Adopt(Read) ELSE UNCHANGED <<known, remaining, pastVars>>
  /\ settled' = (settled \/ readable) /\ Quiet

RereadTimeOnly ==
  /\ phase = "reread"
  /\ phase' = "wait" /\ UNCHANGED length
  /\ IF readable /\ Read.time # known.time
       THEN Adopt(Read)
       ELSE UNCHANGED <<known, remaining, pastVars>>
  /\ settled' = (settled \/ readable) /\ Quiet

\* After each slice: a new target for changed settings only, and none when they
\* cannot be read.
Reread ==
  /\ phase = "reread"
  /\ phase' = "wait" /\ UNCHANGED length
  /\ IF readable /\ Read # known
       THEN Adopt(Read)
       ELSE UNCHANGED <<known, remaining, pastVars>>
  /\ settled' = (settled \/ readable) /\ Quiet

Fire ==
  /\ phase = "wait" /\ remaining <= 0
  /\ phase' = "fire" /\ length' = 0 /\ remaining' = 0
  /\ lastDate' = DateAt(now, known.zone) /\ unbroken' = TRUE
  /\ UNCHANGED known /\ Still

\* on_fire returns, or raises.
RunEnds ==
  /\ phase = "fire"
  /\ phase' = "plan" /\ length' = 0 /\ UNCHANGED <<known, remaining>>
  /\ UNCHANGED pastVars /\ Still

\* Mutant of Replan: without settings there is no new target.
ReplanOrDie ==
  /\ phase = "plan"
  /\ IF readable THEN Adopt(Read) /\ phase' = "wait"
                 ELSE phase' = "dead" /\ UNCHANGED <<known, remaining, pastVars>>
  /\ UNCHANGED length /\ Still

\* After a run: tomorrow's target, by the last known settings when the stored
\* ones cannot be read.
Replan ==
  /\ phase = "plan"
  /\ Adopt(IF readable THEN Read ELSE known)
  /\ phase' = "wait" /\ UNCHANGED length
  /\ Still

Loop == Boot \/ Sleep \/ Reread \/ Fire \/ RunEnds \/ Replan

-----------------------------------------------------------------------------
(* The world *)

\* After a restart the date of the last run is kept as long as it lasts: when the
\* calendar has gone round it is another one.
IfToday(t) == IF DateAt(t, known.zone) = lastDate THEN lastDate ELSE NoDate

\* Time passes while the loop sleeps or runs; the rest takes no time.
Tick ==
  /\ phase \in {"asleep", "fire", "down", "dead"}
  /\ phase = "fire" => length < MaxRun
  /\ now' = (now + 1) % Year
  /\ IF phase = "asleep"
       THEN phase' = "reread" /\ remaining' = remaining - 1 /\ UNCHANGED length
       ELSE length' = (IF phase = "fire" THEN length + 1 ELSE 0)
            /\ UNCHANGED <<phase, remaining>>
  /\ lastDate' = (IF unbroken THEN lastDate ELSE IfToday(now'))
  /\ UNCHANGED <<readable, envVars, known, unbroken, settled, restarts>>

\* The settings page, which accepts valid values only, or surgery on the store.
Edit ==
  /\ edits < MaxEdits /\ edits' = edits + 1
  /\ stored' \in (Settings \union {Garbage}) \ {stored}
  /\ settled' = FALSE /\ UNCHANGED <<now, readable, loopVars, pastVars, restarts>>

StoreTurns ==
  /\ readable' = ~readable
  /\ UNCHANGED <<now, envVars, loopVars, pastVars, settled, restarts>>

Restart ==
  /\ phase \notin {"serve", "boot"}
  /\ restarts < MaxRestarts /\ restarts' = restarts + 1
  /\ phase' = "serve" /\ remaining' = 0 /\ length' = 0 /\ UNCHANGED known
  /\ unbroken' = FALSE /\ lastDate' = IfToday(now) /\ UNCHANGED settled
  /\ UNCHANGED <<now, readable, envVars>>

Next == Loop \/ Serve \/ BootFails \/ Tick \/ Edit \/ StoreTurns \/ Restart

Spec == Init /\ [][Next]_vars

\* The thread runs, the clock moves, and a run ends.
FairSpec == Spec /\ WF_vars(Loop) /\ WF_vars(Tick)

-----------------------------------------------------------------------------
(* Properties *)

Up == phase \in {"wait", "asleep", "reread", "fire", "plan"}

\* Every variable keeps its type. The target is never more than a day (and the
\* hour that summer time takes) away, and the loop sleeps only towards a target
\* in the future.
TypeOK ==
  /\ now \in 0..(Year - 1)
  /\ stored \in Settings \union {Garbage} /\ known \in Settings
  /\ {readable, unbroken, settled} \subseteq BOOLEAN
  /\ Up \/ phase \in {"serve", "boot", "down", "dead"}
  /\ remaining \in -Shift..(Day + Shift)
  /\ phase = "asleep" => remaining > 0
  /\ length \in 0..MaxRun
  /\ lastDate \in 0..(Days - 1) \union {NoDate}
  /\ edits \in 0..MaxEdits /\ restarts \in 0..MaxRestarts

Fires == phase # "fire" /\ phase' = "fire"

\* A run starts when the wall shows the set time, on the day that has no such
\* time as much later as the clock jumped, and never at another time, whatever
\* the settings were before ("a DST change does not drift the run time").
OnTime ==
  [][Fires =>
       LET wall == Wall(now, known.zone)
       IN  wall % Day = known.time
           \/ /\ known.zone \in Summertime /\ Forward \div Day = wall \div Day
              /\ wall - Shift \in Forward..(Forward + Shift - 1)
              /\ (wall - Shift) % Day = known.time]_vars

\* While the settings stay what they are a date has at most one run, also across
\* restarts and changes of the clock, and no date is left out by a process that
\* stays up ("firing twice or not at all", next_run_at).
OnceADay ==
  [][Fires /\ lastDate # NoDate =>
       IF unbroken THEN DateAt(now, known.zone) = (lastDate + 1) % Days
                   ELSE DateAt(now, known.zone) # lastDate]_vars

\* A loop that is up fires again, with a store that cannot be read, and after
\* settings nobody can use ("it must never stop the loop").
FiresAgain == Up ~> phase \in {"fire", "serve"}

\* A run starts by the settings that are stored, unless they were changed within
\* the last slice or could not be read since ("picked up promptly rather than only
\* once the stale target arrives").
EditsArePrompt == [][Fires /\ settled => known = Read]_vars
=============================================================================
