-------------------------- MODULE SchedulerProofs --------------------------
(***************************************************************************)
(* For every calendar, zone, schedule, number of edits and of restarts:    *)
(*                                                                         *)
(*  - PromptEdits: a run starts by the stored settings, whatever the       *)
(*    clocks do.  A consequence of what the loop knows of the store.       *)
(*  - RunsOnTime and RunsOnceADay: by the set time and once a date, across *)
(*    changes of the clock, if no set time lies in the hour that is shown  *)
(*    twice and no clock jumps over midnight.  The invariant is LoopInv:   *)
(*    which reading of which day the loop is aiming at.                    *)
(***************************************************************************)
EXTENDS Scheduler, TLAPS

(* What the loop knows *)

\* Once a slice has ended since the last edit with a readable store, the loop's
\* schedule and zone are the stored ones (or the default that stands for them).
KnowsStored == settled => known = Read

\* No step of the loop, of the world or of a restart makes the loop's settings
\* differ from the stored ones unnoticed.
LEMMA KnowsStep == KnowsStored /\ [Next]_vars => KnowsStored'
<1> SUFFICES ASSUME KnowsStored, [Next]_vars PROVE KnowsStored'
  OBVIOUS
<1> USE DEF KnowsStored, Read
<1>1. CASE UNCHANGED vars
  BY <1>1 DEF vars, envVars, loopVars
<1>2. CASE Boot
  BY <1>2 DEF Boot, Adopt, Still, Quiet, envVars
<1>3. CASE Sleep
  BY <1>3 DEF Sleep, Goto, Still, Quiet, envVars
<1>4. CASE Reread
  <2>1. CASE readable
    BY <1>4, <2>1 DEF Reread, Adopt, Quiet, envVars
  <2>2. CASE ~readable
    BY <1>4, <2>2 DEF Reread, Quiet, envVars
  <2> QED BY <2>1, <2>2
<1>5. CASE Fire
  BY <1>5 DEF Fire, Still, Quiet, envVars
<1>6. CASE RunEnds
  BY <1>6 DEF RunEnds, Still, Quiet, envVars
<1>7. CASE Replan
  BY <1>7 DEF Replan, Adopt, Still, Quiet, envVars
<1>8. CASE Serve
  BY <1>8 DEF Serve, Goto, Still, Quiet, envVars
<1>9. CASE BootFails
  BY <1>9 DEF BootFails, Goto, Still, Quiet, envVars
<1>10. CASE Tick
  BY <1>10 DEF Tick, envVars
<1>11. CASE Edit
  BY <1>11 DEF Edit, loopVars
<1>12. CASE StoreTurns
  BY <1>12 DEF StoreTurns, envVars, loopVars
<1>13. CASE Restart
  BY <1>13 DEF Restart, envVars
<1> QED
  BY <1>1, <1>2, <1>3, <1>4, <1>5, <1>6, <1>7, <1>8, <1>9, <1>10, <1>11, <1>12, <1>13
     DEF Next, Loop

\* EditsArePrompt for all values of the constants: what run_forever re-reads
\* after each slice is what the next run starts by.
THEOREM PromptEdits == Spec => EditsArePrompt
<1>1. Init => KnowsStored
  BY DEF Init, KnowsStored
<1>2. KnowsStored /\ [Next]_vars => KnowsStored'
  BY KnowsStep
<1>3. KnowsStored => (Fires /\ settled => known = Read)
  BY DEF KnowsStored
<1>4. KnowsStored => [Fires /\ settled => known = Read]_vars
  BY <1>3
<1> QED
  BY <1>1, <1>2, <1>4, PTL DEF Spec, EditsArePrompt
-----------------------------------------------------------------------------
(* Calendar arithmetic *)

\* The reading that day d begins with.
Midnight(d) == d * Day

\* The clock's reading at the set time of day d, for the loop's settings.
Reading(d) == Midnight(d) + known.time

Showing == Wall(now, known.zone)

LEMMA Constants ==
  /\ Day \in Int /\ Days \in Int /\ Shift \in Int /\ MaxRun \in Int
  /\ Forward \in Int /\ Back \in Int /\ Year \in Int
  /\ 0 < Day /\ 1 < Days /\ 0 <= Shift /\ 0 <= MaxRun
  /\ Day <= Forward /\ Forward + Shift <= Back /\ Back + Shift <= Year
  /\ MaxRun + Shift < Day
  /\ Times \subseteq 0 .. Day - 1
  BY SchedulerAssumption DEF Year

LEMMA Midnights ==
  /\ \A d \in Int : Midnight(d) \in Int /\ Midnight(d + 1) = Midnight(d) + Day
  /\ Midnight(0) = 0 /\ Midnight(Days) = Year /\ Midnight(1) = Day
  /\ \A d, e \in Int : d < e => Midnight(d) + Day <= Midnight(e)
<1>1. \A d \in Int : Midnight(d) \in Int /\ Midnight(d + 1) = Midnight(d) + Day
  BY Constants DEF Midnight
<1>2. Midnight(0) = 0 /\ Midnight(Days) = Year /\ Midnight(1) = Day
  BY Constants DEF Midnight, Year
<1>3. ASSUME NEW d \in Int, NEW e \in Int, d < e PROVE Midnight(d) + Day <= Midnight(e)
  <2>1. (e - d - 1) * Day >= 0
    BY <1>3, Constants
  <2>2. (e - d - 1) * Day = e * Day - d * Day - Day
    BY Constants
  <2> QED BY <2>1, <2>2, Constants DEF Midnight
<1> QED BY <1>1, <1>2, <1>3

\* A reading is its day's midnight and its time of day, in one way.
LEMMA OneWay ==
  ASSUME NEW d \in Int, NEW e \in Int, NEW r \in 0 .. Day - 1, NEW m \in 0 .. Day - 1,
         Midnight(d) + r = Midnight(e) + m
  PROVE  d = e /\ r = m
<1>1. Midnight(d) \in Int /\ Midnight(e) \in Int
  BY Midnights
<1>2. r \in Int /\ m \in Int /\ 0 <= r /\ r < Day /\ 0 <= m /\ m < Day
  BY Constants
<1>3. d < e => Midnight(d) + Day <= Midnight(e)
  BY Midnights
<1>4. e < d => Midnight(e) + Day <= Midnight(d)
  BY Midnights
<1>5. ~(d < e) /\ ~(e < d)
  BY <1>1, <1>2, <1>3, <1>4, Constants
<1>6. d = e
  BY <1>5
<1> QED BY <1>1, <1>2, <1>6

LEMMA DayAndTime ==
  /\ \A x \in Int : /\ x \div Day \in Int /\ x % Day \in 0 .. Day - 1
                    /\ x = Midnight(x \div Day) + (x % Day)
  /\ \A d \in Int, r \in 0 .. Day - 1 :
        (Midnight(d) + r) \div Day = d /\ (Midnight(d) + r) % Day = r
<1>1. ASSUME NEW x \in Int
      PROVE  /\ x \div Day \in Int /\ x % Day \in 0 .. Day - 1
             /\ x = Midnight(x \div Day) + (x % Day)
  BY Constants DEF Midnight
<1>2. ASSUME NEW d \in Int, NEW r \in 0 .. Day - 1
      PROVE  (Midnight(d) + r) \div Day = d /\ (Midnight(d) + r) % Day = r
  <2>1. Midnight(d) \in Int
    BY Midnights
  <2>2. Midnight(d) + r \in Int
    BY <2>1, Constants
  <2>3. PICK x \in Int : x = Midnight(d) + r
    BY <2>2
  <2>4. x \div Day \in Int /\ x % Day \in 0 .. Day - 1 /\ Midnight(d) + r = Midnight(x \div Day) + (x % Day)
    BY <1>1, <2>3
  <2>5. PICK e \in Int, m \in 0 .. Day - 1 :
           e = x \div Day /\ m = x % Day /\ Midnight(d) + r = Midnight(e) + m
    BY <2>4
  <2>6. d = e /\ r = m
    BY <2>5, OneWay
  <2> QED BY <2>3, <2>5, <2>6
<1> QED BY <1>1, <1>2

\* A time later by less than the calendar.
LEMMA GoingRound ==
  /\ \A t \in 0 .. Year - 1 : (t + 1) % Year = IF t = Year - 1 THEN 0 ELSE t + 1
  /\ \A d \in 0 .. Days - 1 : (d + 1) % Days = IF d = Days - 1 THEN 0 ELSE d + 1
<1>1. ASSUME NEW n \in Int, n > 0, NEW t \in 0 .. n - 1
      PROVE  (t + 1) % n = IF t = n - 1 THEN 0 ELSE t + 1
  <2>1. CASE t = n - 1
    BY <1>1, <2>1
  <2>2. CASE t # n - 1
    BY <1>1, <2>2
  <2> QED BY <2>1, <2>2
<1>2. Year \in Int /\ Year > 0 /\ Days \in Int /\ Days > 0
  BY Constants
<1> HIDE DEF Year
<1> QED BY <1>1, <1>2

-----------------------------------------------------------------------------
(* Clocks *)

\* No set time lies in the hour that is shown twice. The loop violates OnTime and
\* OnceADay for a time that does.
NoneRepeated == \A time \in Times, w \in Back .. Back + Shift - 1 : w % Day # time

\* The clocks do not jump over a midnight, nor does a time that is skipped come
\* to lie behind it.
JumpWithinADay == (Forward % Day) + 2 * Shift <= Day

LEMMA SettingsAre ==
  ASSUME NEW s \in Settings
  PROVE  s.time \in Times /\ s.time \in 0 .. Day - 1 /\ s.time \in Int /\ s.zone \in Zones
<1>1. s.time \in Times /\ s.zone \in Zones
  BY DEF Settings
<1>2. s.time \in 0 .. Day - 1
  BY <1>1, Constants
<1> QED BY <1>1, <1>2, Constants

LEMMA NotRepeated ==
  ASSUME NoneRepeated, NEW d \in Int, NEW time \in Times
  PROVE  ~(Back <= Midnight(d) + time /\ Midnight(d) + time < Back + Shift)
<1>1. Midnight(d) \in Int /\ time \in 0 .. Day - 1
  BY Midnights, Constants
<1>2. (Midnight(d) + time) % Day = time
  BY <1>1, DayAndTime
<1>3. Midnight(d) + time \in Int
  BY <1>1
<1> QED BY <1>2, <1>3, Constants DEF NoneRepeated

\* A skipped time is shown on the same day, later.
LEMMA SkippedSameDay ==
  ASSUME JumpWithinADay, NEW d \in Int, NEW time \in Times,
         Forward <= Midnight(d) + time, Midnight(d) + time < Forward + Shift
  PROVE  time + Shift \in 0 .. Day - 1
<1> DEFINE q == Forward \div Day
           f == Forward % Day
<1>1. q \in Int /\ f \in 0 .. Day - 1 /\ Forward = Midnight(q) + f
  BY DayAndTime, Constants
<1>2. Midnight(q) \in Int /\ Midnight(d) \in Int /\ time \in 0 .. Day - 1
  BY <1>1, Midnights, Constants
<1>3. f + 2 * Shift <= Day
  BY DEF JumpWithinADay
<1> HIDE DEF q, f
<1>4. q < d => Midnight(q) + Day <= Midnight(d)
  BY <1>1, Midnights
<1>5. d < q => Midnight(d) + Day <= Midnight(q)
  BY <1>1, Midnights
<1>6. ~(q < d)
  BY <1>1, <1>2, <1>3, <1>4, Constants
<1>7. ~(d < q)
  BY <1>1, <1>2, <1>5, Constants
<1>8. q = d
  BY <1>1, <1>6, <1>7
<1> QED BY <1>1, <1>2, <1>3, <1>8, Constants

LEMMA WallReads ==
  ASSUME NEW t \in 0 .. Year - 1, NEW zone
  PROVE  /\ Wall(t, zone) \in 0 .. Year - 1
         /\ Wall(t, zone) >= t
         /\ t < Day => Wall(t, zone) = t
         /\ t = Year - 1 => Wall(t, zone) = t
  BY Constants DEF Wall

LEMMA InstantOf ==
  ASSUME NEW w \in Int, NEW zone
  PROVE  /\ Instant(w, zone) \in Int
         /\ Instant(w, zone) <= w
         /\ w < Day => Instant(w, zone) = w
         /\ w >= Year => Instant(w, zone) = w
         /\ w < Year => Instant(w, zone) < Year
  BY Constants DEF Instant

\* Clocks go back over no reading that is not repeated.
LEMMA Onwards ==
  ASSUME NEW t \in 0 .. Year - 1, t # Year - 1, NEW zone, NEW u \in Int,
         ~(Back <= u /\ u < Back + Shift), Wall(t, zone) >= u
  PROVE  Wall(t + 1, zone) >= u
  BY Constants DEF Wall

\* A reading by which a run starts, as the wall shows it at its instant.
LEMMA Shown ==
  ASSUME NoneRepeated, NEW d \in Int, NEW s \in Settings
  PROVE  LET w == Midnight(d) + s.time
             t == Instant(w, s.zone)
         IN  \/ Wall(t, s.zone) = w
             \/ /\ Wall(t, s.zone) = w + Shift
                /\ s.zone \in Summertime /\ Forward <= w /\ w < Forward + Shift
<1> DEFINE w == Midnight(d) + s.time
<1>1. s.time \in Times /\ s.time \in Int
  BY SettingsAre
<1>2. w \in Int
  <2>1. Midnight(d) \in Int
    BY Midnights
  <2> QED BY <1>1, <2>1
<1>3. ~(Back <= w /\ w < Back + Shift)
  BY <1>1, NotRepeated
<1> HIDE DEF w
<1>4. LET t == Instant(w, s.zone)
      IN  \/ Wall(t, s.zone) = w
          \/ /\ Wall(t, s.zone) = w + Shift
             /\ s.zone \in Summertime /\ Forward <= w /\ w < Forward + Shift
  BY <1>2, <1>3, Constants DEF Wall, Instant
<1> QED BY <1>4 DEF w

LEMMA DateShown ==
  ASSUME NoneRepeated, JumpWithinADay, NEW d \in Int, NEW s \in Settings
  PROVE  DateAt(Instant(Midnight(d) + s.time, s.zone), s.zone) = d
<1> DEFINE w == Midnight(d) + s.time
           t == Instant(w, s.zone)
<1>1. s.time \in Times /\ s.time \in 0 .. Day - 1 /\ Midnight(d) \in Int
  BY SettingsAre, Midnights
<1>2. CASE Wall(t, s.zone) = w
  BY <1>1, <1>2, DayAndTime DEF DateAt
<1>3. CASE Wall(t, s.zone) = w + Shift /\ Forward <= w /\ w < Forward + Shift
  <2>1. s.time + Shift \in 0 .. Day - 1
    BY <1>1, <1>3, SkippedSameDay
  <2>2. w + Shift = Midnight(d) + (s.time + Shift)
    BY <1>1, Constants
  <2> QED BY <1>3, <2>1, <2>2, DayAndTime DEF DateAt
<1> QED BY <1>2, <1>3, Shown

\* next_run_at: the first reading of the time after what the wall shows, and
\* never a moment that is past.
LEMMA NextTarget ==
  ASSUME NoneRepeated, NEW t \in 0 .. Year - 1, NEW s \in Settings
  PROVE  /\ NextRun(t, s) \in Int /\ NextRun(t, s) > 0
         /\ \E d \in 0 .. Days :
              /\ t + NextRun(t, s) = Instant(Midnight(d) + s.time, s.zone)
              /\ Wall(t, s.zone) < Midnight(d) + s.time
              /\ Midnight(d) + s.time <= Wall(t, s.zone) + Day
<1>1. s.time \in Times /\ s.time \in 0 .. Day - 1 /\ s.time \in Int
  BY SettingsAre
<1>2. PICK wall \in 0 .. Year - 1 : wall = Wall(t, s.zone)
  BY WallReads
<1>3. PICK q \in Int, r \in 0 .. Day - 1 :
         q = wall \div Day /\ r = wall % Day /\ wall = Midnight(q) + r
  BY DayAndTime, Constants
<1>4. /\ Midnight(q) \in Int /\ Midnight(q + 1) = Midnight(q) + Day
      /\ r \in Int /\ 0 <= r /\ r < Day /\ wall = Midnight(q) + r
  <2>1. Midnight(q) \in Int /\ Midnight(q + 1) = Midnight(q) + Day
    BY Midnights
  <2>2. r \in Int /\ 0 <= r /\ r < Day
    BY Constants
  <2> QED BY <1>3, <2>1, <2>2
<1>5. q \in 0 .. Days - 1
  <2>1. q < 0 => Midnight(q) + Day <= Midnight(0)
    BY Midnights
  <2>2. Days < q => Midnight(Days) + Day <= Midnight(q)
    BY Midnights, Constants
  <2>3. Midnight(0) = 0 /\ Midnight(Days) = Year
    BY Midnights
  <2>4. ~(q < 0)
    BY <1>3, <1>4, <2>1, <2>3, Constants
  <2>5. ~(Days < q)
    BY <1>3, <1>4, <2>2, <2>3, Constants
  <2>6. q # Days
    BY <1>3, <1>4, <2>3, Constants
  <2> QED BY <2>4, <2>5, <2>6, Constants
<1>6. PICK w \in Int : w = IF Midnight(q) + s.time <= wall THEN Midnight(q) + s.time + Day
                                                         ELSE Midnight(q) + s.time
  BY <1>1, <1>4, Constants
<1>7. \E d \in 0 .. Days : w = Midnight(d) + s.time
  <2>1. CASE Midnight(q) + s.time <= wall
    <3>1. w = Midnight(q + 1) + s.time
      BY <1>1, <1>4, <1>6, <2>1, Constants
    <3>2. q + 1 \in 0 .. Days
      BY <1>5, Constants
    <3> QED BY <3>1, <3>2
  <2>2. CASE ~(Midnight(q) + s.time <= wall)
    BY <1>5, <1>6, <2>2, Constants
  <2> QED BY <2>1, <2>2
<1>8. wall < w /\ w <= wall + Day
  <2>1. s.time >= 0 /\ s.time < Day
    BY <1>1, Constants
  <2> QED BY <1>1, <1>4, <1>6, <2>1, Constants
<1>9. NextRun(t, s) = Instant(w, s.zone) - t
  <2>1. wall - (wall % Day) = Midnight(q)
    BY <1>3, <1>4
  <2> QED BY <1>2, <1>6, <2>1 DEF NextRun
<1>10. ~(Back <= w /\ w < Back + Shift)
  BY <1>1, <1>7, NotRepeated, Constants
<1>11. Instant(w, s.zone) > t /\ Instant(w, s.zone) \in Int
  BY <1>2, <1>8, <1>10, Constants DEF Wall, Instant
<1>12. t + NextRun(t, s) = Instant(w, s.zone) /\ NextRun(t, s) > 0 /\ NextRun(t, s) \in Int
  BY <1>9, <1>11, Constants
<1> QED BY <1>2, <1>7, <1>8, <1>12

-----------------------------------------------------------------------------
(* What the loop aims at *)

LoopType ==
  /\ now \in 0 .. Year - 1
  /\ stored \in Settings \union {Garbage} /\ known \in Settings
  /\ phase \in {"serve", "boot", "wait", "asleep", "reread", "fire", "plan", "down", "dead"}
  /\ remaining \in Int /\ length \in 0 .. MaxRun
  /\ lastDate \in 0 .. Days - 1 \union {NoDate}
  /\ unbroken \in BOOLEAN

\* A date that is kept over a restart is today's, and its time is past; without a
\* restart the loop has kept the date since.
Past ==
  lastDate # NoDate =>
    /\ phase \in {"serve", "boot", "down", "dead"} => ~unbroken
    /\ ~unbroken => DateAt(now, known.zone) = lastDate /\ Showing >= Reading(lastDate)

\* A run goes on since the instant of its date's reading, for so many ticks.
Ran(n) ==
  \/ now = Instant(Reading(lastDate), known.zone) + n
  \/ now = Instant(Reading(lastDate), known.zone) + n - Year

Running ==
  /\ phase \in {"fire", "plan"} => lastDate # NoDate /\ unbroken
  /\ phase = "fire" => Ran(length)
  /\ phase = "plan" => \E n \in 0 .. MaxRun : Ran(n)

\* The loop sleeps towards the reading of a day, which is not past, and which is
\* the day after the last run's. The calendar may begin anew in between.
Awaits(d) ==
  /\ now + remaining = Instant(Reading(d), known.zone)
  /\ lastDate # NoDate => \/ d = lastDate + 1 /\ Showing >= Reading(lastDate)
                          \/ d = 0 /\ lastDate = Days - 1

Aimed ==
  phase \in {"wait", "asleep", "reread"} =>
    /\ remaining >= 0
    /\ phase = "asleep" => remaining > 0
    /\ \E d \in 0 .. Days : Awaits(d)

LoopInv == LoopType /\ Past /\ Running /\ Aimed

LEMMA Days1 ==
  /\ \A d \in 0 .. Days : d \in Int
  /\ NoDate \notin 0 .. Days - 1
  BY SchedulerAssumption

LEMMA ReadingIsInt ==
  ASSUME known \in Settings, NEW d \in Int
  PROVE  /\ Reading(d) \in Int /\ Reading(d) = Midnight(d) + known.time
         /\ known.time \in Times /\ known.time \in Int /\ 0 <= known.time /\ known.time < Day
         /\ Midnight(d) \in Int
<1>1. known.time \in Times /\ known.time \in Int /\ 0 <= known.time /\ known.time < Day
  BY SettingsAre, Constants
<1>2. Midnight(d) \in Int
  BY Midnights
<1> QED BY <1>1, <1>2 DEF Reading

\* A reading that has been passed by less than a day is followed by the next
\* day's.
LEMMA DayAfter ==
  ASSUME known \in Settings, NEW l \in Int, NEW d \in Int, NEW wall \in Int,
         Reading(l) <= wall, wall < Reading(l) + Day,
         wall < Reading(d), Reading(d) <= wall + Day
  PROVE  d = l + 1
<1>1. /\ Reading(l) = Midnight(l) + known.time /\ Reading(d) = Midnight(d) + known.time
      /\ known.time \in Int /\ Midnight(l) \in Int /\ Midnight(d) \in Int
  BY ReadingIsInt
<1>2. Midnight(l) < Midnight(d) /\ Midnight(d) < Midnight(l) + 2 * Day
  BY <1>1, Constants
<1>3. Midnight(l + 1) = Midnight(l) + Day /\ l + 1 \in Int
  BY Midnights
<1>4. d < l => Midnight(d) + Day <= Midnight(l)
  BY Midnights
<1>5. l + 1 < d => Midnight(l + 1) + Day <= Midnight(d)
  BY <1>3, Midnights
<1>6. ~(d < l)
  BY <1>1, <1>2, <1>4, Constants
<1>7. ~(l + 1 < d)
  BY <1>1, <1>2, <1>3, <1>5, Constants
<1>8. d # l
  BY <1>1, <1>2, Constants
<1> QED BY <1>6, <1>7, <1>8

\* Where the wall is after a run: behind the last reading, by less than a day, or
\* before the first one of the calendar, when that was its last.
LEMMA AfterRun ==
  ASSUME NoneRepeated, LoopType, lastDate # NoDate, NEW n \in 0 .. MaxRun, Ran(n)
  PROVE  \/ Reading(lastDate) <= Showing /\ Showing < Reading(lastDate) + Day
         \/ lastDate = Days - 1 /\ Showing < known.time
<1> DEFINE u == Reading(lastDate)
<1>1. lastDate \in 0 .. Days - 1 /\ lastDate \in Int
  BY Constants DEF LoopType
<1>2. /\ u \in Int /\ u = Midnight(lastDate) + known.time
      /\ known.time \in Times /\ known.time \in Int /\ 0 <= known.time /\ known.time < Day
      /\ Midnight(lastDate) \in Int
  BY <1>1, ReadingIsInt DEF LoopType
<1>3. ~(Back <= u /\ u < Back + Shift)
  BY <1>1, <1>2, NotRepeated
<1>4. Midnight(lastDate) + Day <= Year
  BY <1>1, Midnights, Constants
<1>5. n \in Int /\ 0 <= n /\ n <= MaxRun /\ now \in Int /\ 0 <= now /\ now < Year
  BY Constants DEF LoopType
<1>6. CASE now = Instant(u, known.zone) + n
  <2> HIDE DEF u
  <2>1. u <= Wall(now, known.zone) /\ Wall(now, known.zone) < u + Day
    BY <1>2, <1>3, <1>5, <1>6, Constants DEF Wall, Instant
  <2> QED BY <2>1 DEF u, Showing
<1>7. CASE now = Instant(u, known.zone) + n - Year
  <2>1. now < known.time /\ now < Day
    <3> HIDE DEF u
    <3>1. now <= u + n - Year
      BY <1>2, <1>5, <1>7, InstantOf, Constants
    <3> QED BY <1>2, <1>4, <1>5, <3>1, Constants
  <2>2. Showing = now
    BY <1>5, <2>1, WallReads DEF Showing, LoopType
  <2>3. lastDate = Days - 1
    <3>1. lastDate < Days - 1 => Midnight(lastDate) + Day <= Midnight(Days - 1)
      BY <1>1, Midnights, Constants
    <3>2. Midnight(Days - 1) + Day = Year
      BY Midnights, Constants
    <3>3. u + n >= Year
      <4> HIDE DEF u
      <4> QED BY <1>2, <1>5, <1>7, InstantOf, Constants
    <3>4. Midnight(Days - 1) \in Int
      BY Midnights, Constants
    <3> HIDE DEF u
    <3> QED BY <1>1, <1>2, <1>5, <3>1, <3>2, <3>3, <3>4, Constants
  <2> QED BY <2>1, <2>2, <2>3
<1> QED BY <1>6, <1>7 DEF Ran

\* The loop adopts settings that it has had, behind the last reading: it waits
\* for the day after.
LEMMA AimedAgain ==
  ASSUME NoneRepeated, LoopType, UNCHANGED <<now, known, lastDate>>,
         lastDate # NoDate => 
            \/ Reading(lastDate) <= Showing /\ Showing < Reading(lastDate) + Day
            \/ lastDate = Days - 1 /\ Showing < known.time,
         remaining' = NextRun(now, known), phase' = "wait"
  PROVE  Aimed'
<1>1. known \in Settings /\ now \in 0 .. Year - 1
  BY DEF LoopType
<1>2. /\ NextRun(now, known) \in Int /\ NextRun(now, known) > 0
      /\ \E d \in 0 .. Days :
           /\ now + NextRun(now, known) = Instant(Midnight(d) + known.time, known.zone)
           /\ Wall(now, known.zone) < Midnight(d) + known.time
           /\ Midnight(d) + known.time <= Wall(now, known.zone) + Day
  BY <1>1, NextTarget
<1>3. PICK d \in 0 .. Days :
           /\ now + NextRun(now, known) = Instant(Reading(d), known.zone)
           /\ Showing < Reading(d)
           /\ Reading(d) <= Showing + Day
  BY <1>2 DEF Reading, Showing
<1>4. d \in Int /\ Showing \in Int /\ 0 <= Showing
  BY <1>1, WallReads, Constants DEF Showing
<1>5. ASSUME lastDate # NoDate
      PROVE  \/ d = lastDate + 1 /\ Showing >= Reading(lastDate)
             \/ d = 0 /\ lastDate = Days - 1
  <2>1. lastDate \in Int
    BY <1>5, Constants DEF LoopType
  <2>2. CASE Reading(lastDate) <= Showing /\ Showing < Reading(lastDate) + Day
    <3>1. d = lastDate + 1
      BY <1>1, <1>3, <1>4, <2>1, <2>2, DayAfter
    <3>2. Reading(lastDate) \in Int
      BY <1>1, <2>1, ReadingIsInt
    <3> QED BY <1>4, <2>2, <3>1, <3>2
  <2>3. CASE lastDate = Days - 1 /\ Showing < known.time
    <3>1. /\ Reading(d) = Midnight(d) + known.time /\ Midnight(d) \in Int
          /\ known.time \in Int /\ 0 <= known.time /\ known.time < Day
      BY <1>1, <1>4, ReadingIsInt
    <3>2. 0 < d => Midnight(0) + Day <= Midnight(d)
      BY <1>4, Midnights
    <3>3. Midnight(0) = 0
      BY Midnights
    <3>4. ~(0 < d)
      BY <1>3, <1>4, <2>3, <3>1, <3>2, <3>3, Constants
    <3> QED BY <1>4, <2>3, <3>4, Constants
  <2> QED BY <1>5, <2>2, <2>3
<1>6. Awaits(d)'
  BY <1>3, <1>5 DEF Awaits, Reading, Showing
<1> QED BY <1>2, <1>6 DEF Aimed

\* It adopts new ones: no date is known for them.
LEMMA AimedAnew ==
  ASSUME NoneRepeated, now \in 0 .. Year - 1, now' = now, lastDate' = NoDate,
         NEW s \in Settings, known' = s, remaining' = NextRun(now, s), phase' = "wait"
  PROVE  Aimed'
<1>1. PICK d \in 0 .. Days :
           now + NextRun(now, s) = Instant(Midnight(d) + s.time, s.zone)
  BY NextTarget
<1>2. Awaits(d)'
  BY <1>1 DEF Awaits, Reading
<1>3. NextRun(now, s) > 0 /\ NextRun(now, s) \in Int
  BY NextTarget
<1> QED BY <1>2, <1>3 DEF Aimed

\* A step that leaves clock, target and history alone.
LEMMA LoopSame ==
  ASSUME LoopInv, UNCHANGED <<now, known, remaining, length, lastDate, unbroken>>,
         stored' \in Settings \union {Garbage},
         \/ phase' = phase
         \/ phase \in {"serve", "boot"} /\ phase' \in {"serve", "boot", "down", "dead"}
         \/ phase = "wait" /\ remaining > 0 /\ phase' = "asleep"
  PROVE  LoopInv'
<1>1. LoopType'
  BY DEF LoopInv, LoopType
<1>2. Past'
  BY DEF LoopInv, Past, LoopType, Showing, Reading
<1>3. Running'
  BY DEF LoopInv, Running, LoopType, Ran, Reading
<1>4. Aimed'
  BY DEF LoopInv, Aimed, Awaits, LoopType, Reading, Showing
<1> QED BY <1>1, <1>2, <1>3, <1>4 DEF LoopInv

\* The loop's settings become those it reads, or stay.
LEMMA ReadIsSetting == stored \in Settings \union {Garbage} => Read \in Settings
  BY SchedulerAssumption DEF Read

LEMMA AdoptStep ==
  ASSUME NoneRepeated, LoopInv, NEW s \in Settings, Adopt(s),
         UNCHANGED <<now, stored, length>>, phase' = "wait",
         s = known /\ lastDate # NoDate =>
            \/ Reading(lastDate) <= Showing /\ Showing < Reading(lastDate) + Day
            \/ lastDate = Days - 1 /\ Showing < known.time
  PROVE  LoopInv'
<1>1. now \in 0 .. Year - 1 /\ known' = s /\ remaining' = NextRun(now, s)
  BY DEF Adopt, LoopInv, LoopType
<1>2. remaining' \in Int
  BY <1>1, NextTarget
<1>3. LoopType'
  BY <1>1, <1>2 DEF LoopInv, LoopType, Adopt, pastVars
<1>4. Past'
  BY <1>1 DEF LoopInv, LoopType, Past, Adopt, pastVars, Showing, Reading
<1>5. Running'
  BY DEF Running
<1>6. Aimed'
  <2>1. CASE s = known
    BY <1>1, <2>1, AimedAgain DEF Adopt, pastVars, LoopInv
  <2>2. CASE s # known
    BY <1>1, <2>2, AimedAnew DEF Adopt
  <2> QED BY <2>1, <2>2
<1> QED BY <1>3, <1>4, <1>5, <1>6 DEF LoopInv

LEMMA BootStep == NoneRepeated /\ LoopInv /\ Boot => LoopInv'
<1> SUFFICES ASSUME NoneRepeated, LoopInv, Boot PROVE LoopInv'
  OBVIOUS
<1>1. phase = "boot" /\ Adopt(Read) /\ phase' = "wait" /\ UNCHANGED <<now, stored, length>>
  BY DEF Boot, Still, Quiet, envVars
<1>2. Read \in Settings
  BY ReadIsSetting DEF LoopInv, LoopType
<1>3. ASSUME lastDate # NoDate
      PROVE  Reading(lastDate) <= Showing /\ Showing < Reading(lastDate) + Day
  <2>1. DateAt(now, known.zone) = lastDate /\ Showing >= Reading(lastDate)
    BY <1>1, <1>3 DEF LoopInv, Past
  <2>2. lastDate \in Int /\ known \in Settings /\ Showing \in Int
    BY <1>3, WallReads, Constants DEF LoopInv, LoopType, Showing
  <2>3. PICK r \in 0 .. Day - 1 : Showing = Midnight(lastDate) + r
    BY <2>1, <2>2, DayAndTime DEF DateAt, Showing
  <2>4. /\ Reading(lastDate) = Midnight(lastDate) + known.time /\ Midnight(lastDate) \in Int
        /\ known.time \in Int /\ 0 <= known.time /\ known.time < Day
    BY <2>2, ReadingIsInt
  <2> QED BY <2>1, <2>2, <2>3, <2>4, Constants
<1> QED BY <1>1, <1>2, <1>3, AdoptStep

LEMMA RereadStep == NoneRepeated /\ LoopInv /\ Reread => LoopInv'
<1> SUFFICES ASSUME NoneRepeated, LoopInv, Reread PROVE LoopInv'
  OBVIOUS
<1>1. phase = "reread" /\ phase' = "wait" /\ UNCHANGED <<now, stored, length>>
  BY DEF Reread, Quiet, envVars
<1>2. CASE readable /\ Read # known
  <2>1. Adopt(Read) /\ Read \in Settings
    BY <1>2, ReadIsSetting DEF Reread, LoopInv, LoopType
  <2> QED BY <1>1, <1>2, <2>1, AdoptStep
<1>3. CASE ~(readable /\ Read # known)
  <2>1. UNCHANGED <<known, remaining, lastDate, unbroken>>
    BY <1>3 DEF Reread, pastVars
  <2>2. LoopType'
    BY <1>1, <2>1 DEF LoopInv, LoopType
  <2>3. Past'
    BY <1>1, <2>1 DEF LoopInv, Past, Showing, Reading
  <2>4. Running'
    BY <1>1 DEF Running
  <2>5. Aimed'
    BY <1>1, <2>1 DEF LoopInv, Aimed, Awaits, Reading, Showing
  <2> QED BY <2>2, <2>3, <2>4, <2>5 DEF LoopInv
<1> QED BY <1>2, <1>3

LEMMA ReplanStep == NoneRepeated /\ LoopInv /\ Replan => LoopInv'
<1> SUFFICES ASSUME NoneRepeated, LoopInv, Replan PROVE LoopInv'
  OBVIOUS
<1>1. phase = "plan" /\ phase' = "wait" /\ UNCHANGED <<now, stored, length>>
  BY DEF Replan, Still, Quiet, envVars
<1>2. PICK s \in Settings : Adopt(s)
  BY ReadIsSetting DEF Replan, LoopInv, LoopType
<1>3. \/ Reading(lastDate) <= Showing /\ Showing < Reading(lastDate) + Day
      \/ lastDate = Days - 1 /\ Showing < known.time
  BY <1>1, AfterRun DEF LoopInv, Running
<1> QED BY <1>1, <1>2, <1>3, AdoptStep

\* A target that is reached: the instant of a reading of this calendar.
LEMMA Reached ==
  ASSUME LoopInv, phase = "wait", remaining <= 0
  PROVE  \E d \in 0 .. Days - 1 : Awaits(d) /\ now = Instant(Reading(d), known.zone)
<1>1. PICK d \in 0 .. Days : Awaits(d)
  BY DEF LoopInv, Aimed
<1>2. remaining = 0 /\ now \in Int /\ now < Year
  BY Constants DEF LoopInv, Aimed, LoopType
<1>3. now = Instant(Reading(d), known.zone)
  BY <1>1, <1>2 DEF Awaits
<1>4. d # Days
  <2> SUFFICES ASSUME d = Days PROVE FALSE
    OBVIOUS
  <2>1. /\ Reading(d) = Midnight(d) + known.time /\ Reading(d) \in Int
        /\ known.time \in Int /\ 0 <= known.time
    BY ReadingIsInt, Constants DEF LoopInv, LoopType
  <2>2. Midnight(d) = Year
    BY Midnights
  <2>3. Reading(d) >= Year
    BY <2>1, <2>2, Constants
  <2> QED BY <1>2, <1>3, <2>1, <2>3, InstantOf, Constants
<1> QED BY <1>1, <1>3, <1>4, Constants

LEMMA FireStep == NoneRepeated /\ JumpWithinADay /\ LoopInv /\ Fire => LoopInv'
<1> SUFFICES ASSUME NoneRepeated, JumpWithinADay, LoopInv, Fire PROVE LoopInv'
  OBVIOUS
<1>1. /\ phase = "wait" /\ remaining <= 0 /\ phase' = "fire" /\ length' = 0 /\ remaining' = 0
      /\ UNCHANGED <<now, stored, known>>
      /\ lastDate' = DateAt(now, known.zone) /\ unbroken' = TRUE
  BY DEF Fire, Still, Quiet, envVars
<1>2. PICK d \in 0 .. Days - 1 : now = Instant(Reading(d), known.zone)
  BY <1>1, Reached
<1>3. lastDate' = d
  BY <1>1, <1>2, DateShown, Constants DEF LoopInv, LoopType, Reading
<1>4. lastDate' # NoDate
  BY <1>3, Days1
<1>5. LoopType'
  BY <1>1, <1>3, Constants DEF LoopInv, LoopType
<1>6. Past'
  BY <1>1 DEF Past
<1>7. Running'
  <2>1. Reading(lastDate)' = Reading(d)
    BY <1>1, <1>3 DEF Reading
  <2>2. now' = Instant(Reading(d), known.zone) + 0
    BY <1>1, <1>2, Constants DEF LoopInv, LoopType
  <2>3. Ran(length)'
    BY <1>1, <2>1, <2>2 DEF Ran
  <2> QED BY <1>1, <1>4, <2>3 DEF Running
<1>8. Aimed'
  BY <1>1 DEF Aimed
<1> QED BY <1>5, <1>6, <1>7, <1>8 DEF LoopInv

LEMMA RunEndsStep == LoopInv /\ RunEnds => LoopInv'
<1> SUFFICES ASSUME LoopInv, RunEnds PROVE LoopInv'
  OBVIOUS
<1>1. /\ phase = "fire" /\ phase' = "plan" /\ length' = 0
      /\ UNCHANGED <<now, stored, known, remaining, lastDate, unbroken>>
  BY DEF RunEnds, Still, Quiet, envVars, pastVars
<1>2. LoopType'
  BY <1>1, Constants DEF LoopInv, LoopType
<1>3. Past'
  BY <1>1 DEF LoopInv, Past, Running
<1>4. Running'
  <2>1. Ran(length) /\ length \in 0 .. MaxRun
    BY <1>1 DEF LoopInv, Running, LoopType
  <2>2. \E n \in 0 .. MaxRun : Ran(n)'
    BY <1>1, <2>1 DEF Ran, Reading
  <2> QED BY <1>1, <2>2 DEF LoopInv, Running
<1>5. Aimed'
  BY <1>1 DEF Aimed
<1> QED BY <1>2, <1>3, <1>4, <1>5 DEF LoopInv

\* The last moment of the calendar lies on its last day, and not on its first.
LEMMA LastMoment ==
  ASSUME NEW zone
  PROVE  DateAt(Year - 1, zone) # 0 /\ DateAt(0, zone) = 0
<1>1. Year - 1 \in 0 .. Year - 1 /\ 0 \in 0 .. Year - 1
  BY Constants
<1>2. Wall(Year - 1, zone) = Year - 1 /\ Wall(0, zone) = 0
  BY <1>1, WallReads, Constants
<1>3. 0 \div Day = 0
  <2>1. (Midnight(0) + 0) \div Day = 0
    BY DayAndTime, Constants
  <2>2. Midnight(0) + 0 = 0
    BY Midnights
  <2> QED BY <2>1, <2>2
<1>4. (Year - 1) \div Day # 0
  <2> SUFFICES ASSUME (Year - 1) \div Day = 0 PROVE FALSE
    OBVIOUS
  <2>1. PICK r \in 0 .. Day - 1 : Year - 1 = Midnight(0) + r
    <3>1. Year - 1 \in Int
      BY Constants
    <3> QED BY <3>1, DayAndTime
  <2>2. Midnight(1) + Day <= Midnight(Days)
    BY Midnights, Constants
  <2>3. Day + Day <= Year
    BY <2>2, Midnights
  <2>4. Midnight(0) = 0
    BY Midnights
  <2> QED BY <2>1, <2>3, <2>4, Constants
<1> QED BY <1>2, <1>3, <1>4 DEF DateAt

\* The clock goes on; of the dates of before a restart today's is kept.
LEMMA TickPast ==
  ASSUME NoneRepeated, LoopInv, Tick
  PROVE  Past'
<1>1. /\ UNCHANGED <<known, unbroken>>
      /\ now' = (now + 1) % Year
      /\ lastDate' = IF unbroken THEN lastDate ELSE IfToday(now')
      /\ phase \in {"asleep", "fire", "down", "dead"}
      /\ phase' = IF phase = "asleep" THEN "reread" ELSE phase
  BY DEF Tick
<1>2. SUFFICES ASSUME lastDate' # NoDate, ~unbroken
               PROVE  DateAt(now', known.zone) = lastDate' /\ Showing' >= Reading(lastDate)'
  BY <1>1 DEF Past, LoopInv
<1>3. lastDate' = lastDate /\ DateAt(now', known.zone) = lastDate
  BY <1>1, <1>2 DEF IfToday
<1>4. DateAt(now, known.zone) = lastDate /\ Showing >= Reading(lastDate)
  BY <1>2, <1>3 DEF LoopInv, Past
<1>5. now # Year - 1
  BY <1>1, <1>3, <1>4, LastMoment, GoingRound DEF LoopInv, LoopType
<1>6. now' = now + 1
  BY <1>1, <1>5, GoingRound DEF LoopInv, LoopType
<1>7. lastDate \in Int /\ known \in Settings /\ now \in 0 .. Year - 1
  BY <1>2, <1>3, Constants DEF LoopInv, LoopType
<1>8. Reading(lastDate) \in Int /\ ~(Back <= Reading(lastDate) /\ Reading(lastDate) < Back + Shift)
  BY <1>7, ReadingIsInt, NotRepeated
<1>9. Wall(now + 1, known.zone) >= Reading(lastDate)
  BY <1>4, <1>5, <1>7, <1>8, Onwards DEF Showing
<1> QED BY <1>1, <1>3, <1>6, <1>9 DEF Showing, Reading

LEMMA TickRunning ==
  ASSUME LoopInv, Tick
  PROVE  Running'
<1>1. CASE phase # "fire"
  BY <1>1 DEF Tick, Running
<1>2. CASE phase = "fire"
  <2>1. /\ lastDate # NoDate /\ unbroken /\ Ran(length)
        /\ now' = (now + 1) % Year /\ length < MaxRun /\ length' = length + 1
        /\ phase' = "fire" /\ UNCHANGED <<known, unbroken, lastDate>>
    BY <1>2 DEF Tick, LoopInv, Running
  <2>2. /\ now \in Int /\ 0 <= now /\ now < Year /\ length \in Int
        /\ now' = IF now = Year - 1 THEN 0 ELSE now + 1
    BY <2>1, GoingRound, Constants DEF LoopInv, LoopType
  <2>3. PICK i \in Int : i = Instant(Reading(lastDate), known.zone) /\ i < Year
    <3>1. lastDate \in 0 .. Days - 1 /\ lastDate \in Int /\ known \in Settings
      BY <2>1, Constants DEF LoopInv, LoopType
    <3>2. /\ Reading(lastDate) = Midnight(lastDate) + known.time /\ Reading(lastDate) \in Int
          /\ known.time \in Int /\ known.time < Day /\ Midnight(lastDate) \in Int
      BY <3>1, ReadingIsInt
    <3>3. Midnight(lastDate) + Day <= Year
      BY <3>1, Midnights, Constants
    <3>4. Reading(lastDate) < Year
      BY <3>2, <3>3, Constants
    <3> QED BY <3>2, <3>4, InstantOf
  <2>4. \/ now = i + length \/ now = i + length - Year
    BY <2>1, <2>3 DEF Ran
  <2>5. \/ now' = i + (length + 1) \/ now' = i + (length + 1) - Year
    <3>1. length < Day /\ Day < Year
      <4>1. Midnight(1) + Day <= Midnight(Days)
        BY Midnights, Constants
      <4>2. Day + Day <= Year
        BY <4>1, Midnights
      <4> QED BY <2>1, <2>2, <4>2, Constants
    <3> QED BY <2>2, <2>3, <2>4, <3>1, Constants
  <2>6. Ran(length)'
    BY <2>1, <2>3, <2>5 DEF Ran, Reading
  <2> QED BY <2>1, <2>6 DEF Running
<1> QED BY <1>1, <1>2

LEMMA TickAimed ==
  ASSUME NoneRepeated, LoopInv, Tick
  PROVE  Aimed'
<1>1. CASE phase # "asleep"
  BY <1>1 DEF Tick, Aimed
<1>2. CASE phase = "asleep"
  <2>1. /\ phase' = "reread" /\ now' = (now + 1) % Year /\ remaining' = remaining - 1
        /\ UNCHANGED known
        /\ lastDate' = lastDate \/ lastDate' = NoDate
    BY <1>2 DEF Tick, IfToday
  <2>2. PICK d \in 0 .. Days : Awaits(d)
    BY <1>2 DEF LoopInv, Aimed
  <2>3. /\ now \in Int /\ 0 <= now /\ now < Year /\ remaining \in Int /\ remaining > 0
        /\ d \in Int /\ known \in Settings
        /\ now' = IF now = Year - 1 THEN 0 ELSE now + 1
    BY <1>2, <2>1, GoingRound, Constants DEF LoopInv, LoopType, Aimed
  <2>4. /\ Reading(d) = Midnight(d) + known.time /\ Reading(d) \in Int /\ Midnight(d) \in Int
        /\ known.time \in Int /\ 0 <= known.time /\ known.time < Day
    BY <2>3, ReadingIsInt
  <2>5. CASE now # Year - 1
    <3>1. now' + remaining' = Instant(Reading(d), known.zone)
      BY <2>1, <2>2, <2>3, <2>5, Constants DEF Awaits
    <3>2. ASSUME lastDate # NoDate, Showing >= Reading(lastDate)
          PROVE  Wall(now + 1, known.zone) >= Reading(lastDate)
      <4>1. lastDate \in Int
        BY <3>2, Constants DEF LoopInv, LoopType
      <4>2. Reading(lastDate) \in Int
            /\ ~(Back <= Reading(lastDate) /\ Reading(lastDate) < Back + Shift)
        BY <2>3, <4>1, ReadingIsInt, NotRepeated
      <4> QED BY <2>5, <3>2, <4>2, Onwards DEF Showing, LoopInv, LoopType
    <3>3. Awaits(d)'
      BY <2>1, <2>2, <2>3, <2>5, <3>1, <3>2 DEF Awaits, Reading, Showing
    <3> QED BY <2>1, <2>3, <3>3, Constants DEF Aimed
  <2>6. CASE now = Year - 1
    <3>1. Instant(Reading(d), known.zone) >= Year
      BY <2>2, <2>3, <2>6, Constants DEF Awaits
    <3>2. Reading(d) >= Year
      BY <2>4, <3>1, InstantOf, Constants
    <3>3. d = Days
      <4>1. d < Days => Midnight(d) + Day <= Year
        BY <2>3, Midnights, Constants
      <4>2. ~(d < Days)
        BY <2>4, <3>2, <4>1, Constants
      <4> QED BY <2>3, <4>2, Constants
    <3>4. Midnight(d) = Year /\ Midnight(0) = 0
      BY <3>3, Midnights
    <3>5. Instant(Reading(d), known.zone) = Year + known.time
      BY <2>4, <3>2, <3>4, InstantOf
    <3>6. now' + remaining' = known.time
      BY <2>1, <2>2, <2>3, <2>4, <2>6, <3>5, Constants DEF Awaits
    <3>7. Instant(known.time, known.zone) = known.time /\ Midnight(0) + known.time = known.time
      BY <2>4, <3>4, InstantOf
    <3>8. lastDate # NoDate => lastDate = Days - 1
      <4>1. lastDate # NoDate => lastDate \in Int
        BY Constants DEF LoopInv, LoopType
      <4> QED BY <2>2, <3>3, <4>1, Constants DEF Awaits
    <3>9. Awaits(0)'
      BY <2>1, <3>6, <3>7, <3>8 DEF Awaits, Reading
    <3> QED BY <2>1, <2>3, <3>9, Constants DEF Aimed
  <2> QED BY <2>5, <2>6
<1> QED BY <1>1, <1>2

LEMMA TickStep == NoneRepeated /\ LoopInv /\ Tick => LoopInv'
<1> SUFFICES ASSUME NoneRepeated, LoopInv, Tick PROVE LoopInv'
  OBVIOUS
<1>1. now' \in 0 .. Year - 1
  BY GoingRound, Constants DEF Tick, LoopInv, LoopType
<1>2. remaining' \in Int /\ length' \in 0 .. MaxRun
  BY Constants DEF Tick, LoopInv, LoopType
<1>3. LoopType'
  BY <1>1, <1>2 DEF Tick, IfToday, LoopInv, LoopType, envVars
<1> QED BY <1>3, TickPast, TickRunning, TickAimed DEF LoopInv

LEMMA RestartStep == NoneRepeated /\ LoopInv /\ Restart => LoopInv'
<1> SUFFICES ASSUME NoneRepeated, LoopInv, Restart PROVE LoopInv'
  OBVIOUS
<1>1. /\ phase \notin {"serve", "boot"}
      /\ phase' = "serve" /\ remaining' = 0 /\ length' = 0 /\ unbroken' = FALSE
      /\ lastDate' = IfToday(now)
      /\ UNCHANGED <<now, stored, known>>
  BY DEF Restart, envVars
<1>2. LoopType'
  <2>1. lastDate' = lastDate \/ lastDate' = NoDate
    BY <1>1 DEF IfToday
  <2>2. 0 \in 0 .. MaxRun
    BY Constants
  <2>3. unbroken' \in BOOLEAN
    BY <1>1
  <2>4. LoopType
    BY DEF LoopInv
  <2>5. lastDate' \in 0 .. Days - 1 \union {NoDate}
    BY <2>1, <2>4 DEF LoopType
  <2>6. remaining' \in Int /\ length' \in 0 .. MaxRun
    BY <1>1, <2>2
  <2> QED BY <1>1, <2>3, <2>4, <2>5, <2>6 DEF LoopType
<1>3. ASSUME lastDate' # NoDate
      PROVE  DateAt(now, known.zone) = lastDate /\ lastDate' = lastDate /\ Showing >= Reading(lastDate)
  <2>1. DateAt(now, known.zone) = lastDate /\ lastDate' = lastDate /\ lastDate # NoDate
    BY <1>1, <1>3 DEF IfToday
  <2>2. /\ lastDate \in Int /\ known \in Settings /\ now \in 0 .. Year - 1
        /\ Showing \in Int /\ 0 <= Showing
    BY <2>1, WallReads, Constants DEF LoopInv, LoopType, Showing
  <2>3. /\ Reading(lastDate) \in Int
        /\ known.time \in Int /\ 0 <= known.time /\ known.time < Day
    BY <2>2, ReadingIsInt
  <2>4. lastDate = Days - 1 => ~(Showing < known.time)
    <3> SUFFICES ASSUME lastDate = Days - 1, Showing < known.time PROVE FALSE
      OBVIOUS
    <3>1. Showing \in 0 .. Day - 1
      BY <2>2, <2>3, Constants
    <3>2. (Midnight(0) + Showing) \div Day = 0
      BY <3>1, DayAndTime
    <3>3. Midnight(0) + Showing = Showing
      BY <2>2, Midnights
    <3> QED BY <2>1, <3>2, <3>3, Constants DEF DateAt, Showing
  <2>5. CASE phase \in {"fire", "plan"}
    <3>1. \E n \in 0 .. MaxRun : Ran(n)
      BY <2>5 DEF LoopInv, Running, LoopType
    <3>2. \/ Reading(lastDate) <= Showing
          \/ lastDate = Days - 1 /\ Showing < known.time
      BY <2>1, <3>1, AfterRun DEF LoopInv
    <3> QED BY <2>1, <2>2, <2>3, <2>4, <3>2
  <2>6. CASE phase \in {"down", "dead"}
    BY <2>1, <2>6 DEF LoopInv, Past
  <2>7. CASE phase \in {"wait", "asleep", "reread"}
    <3>1. PICK d \in 0 .. Days : Awaits(d)
      BY <2>7 DEF LoopInv, Aimed
    <3>2. CASE d = 0 /\ lastDate = Days - 1
      <4>1. Reading(0) = known.time
        <5>1. Reading(0) = Midnight(0) + known.time
          BY DEF Reading
        <5>2. Midnight(0) = 0
          BY Midnights
        <5> QED BY <2>3, <5>1, <5>2
      <4>2. Instant(known.time, known.zone) = known.time
        BY <2>3, InstantOf
      <4>3. now + remaining = known.time /\ remaining >= 0 /\ remaining \in Int
        BY <2>7, <3>1, <3>2, <4>1, <4>2 DEF Awaits, LoopInv, Aimed, LoopType
      <4>4. now \in Int /\ now <= known.time /\ now < Day
        BY <2>2, <2>3, <4>3, Constants
      <4>5. Showing = now
        BY <2>2, <4>4, WallReads DEF Showing
      <4>6. Showing \in 0 .. Day - 1 /\ (Midnight(0) + Showing) \div Day = 0
        BY <2>2, <4>4, <4>5, DayAndTime, Constants
      <4>7. Midnight(0) + Showing = Showing
        BY <2>2, Midnights
      <4> QED BY <2>1, <3>2, <4>6, <4>7, Constants DEF DateAt, Showing
    <3>3. CASE ~(d = 0 /\ lastDate = Days - 1)
      BY <2>1, <3>1, <3>3 DEF Awaits
    <3> QED BY <2>1, <3>2, <3>3
  <2> QED BY <1>1, <2>1, <2>5, <2>6, <2>7 DEF LoopInv, LoopType
<1>4. Past'
  BY <1>1, <1>3 DEF Past, Showing, Reading
<1>5. Running' /\ Aimed'
  BY <1>1 DEF Running, Aimed
<1> QED BY <1>2, <1>4, <1>5 DEF LoopInv

\* Every step.
LEMMA LoopStep ==
  NoneRepeated /\ JumpWithinADay /\ LoopInv /\ [Next]_vars => LoopInv'
<1> SUFFICES ASSUME NoneRepeated, JumpWithinADay, LoopInv, [Next]_vars PROVE LoopInv'
  OBVIOUS
<1>1. CASE UNCHANGED vars
  BY <1>1, LoopSame DEF vars, envVars, loopVars, pastVars, LoopInv, LoopType
<1>2. CASE Serve \/ BootFails
  BY <1>2, LoopSame DEF Serve, BootFails, Goto, Still, Quiet, envVars, pastVars, LoopInv, LoopType
<1>3. CASE Sleep
  BY <1>3, LoopSame DEF Sleep, Goto, Still, Quiet, envVars, pastVars, LoopInv, LoopType
<1>4. CASE Edit \/ StoreTurns
  BY <1>4, LoopSame DEF Edit, StoreTurns, envVars, loopVars, pastVars, LoopInv, LoopType
<1> QED
  BY <1>1, <1>2, <1>3, <1>4, BootStep, RereadStep, FireStep, RunEndsStep, ReplanStep,
     TickStep, RestartStep DEF Next, Loop

LEMMA LoopInit == Init => LoopInv
<1> SUFFICES ASSUME Init PROVE LoopInv
  OBVIOUS
<1>1. Default \in Settings
  BY SchedulerAssumption
<1>2. LoopType
  <2>1. 0 \in 0 .. MaxRun
    BY Constants
  <2>2. unbroken \in BOOLEAN
    BY DEF Init
  <2> QED BY <1>1, <2>1, <2>2 DEF Init, LoopType
<1> QED BY <1>2 DEF Init, LoopInv, Past, Running, Aimed

\* A run starts at the instant of a reading of the set time.
LEMMA FiresAtReading ==
  ASSUME LoopInv, Next, Fires
  PROVE  /\ phase = "wait" /\ now \in 0 .. Year - 1 /\ known \in Settings
         /\ \E d \in 0 .. Days - 1 : Awaits(d) /\ now = Instant(Reading(d), known.zone)
<1>1. phase = "wait" /\ remaining <= 0
  BY DEF Fires, Next, Loop, Boot, Sleep, Reread, Fire, RunEnds, Replan, Serve, BootFails, Tick,
         Edit, StoreTurns, Restart, Goto, loopVars
<1> QED BY <1>1, Reached DEF LoopInv, LoopType

\* OnTime for every calendar and zone whose set times are not shown twice and
\* whose clocks do not jump over midnight: next_run_at is never early, late, or
\* off by the hour, whatever was edited or restarted before.
THEOREM RunsOnTime ==
  ASSUME NoneRepeated, JumpWithinADay
  PROVE  Spec => OnTime
<1>1. LoopInv /\ [Next]_vars =>
        [Fires =>
           LET wall == Wall(now, known.zone)
           IN  wall % Day = known.time
               \/ /\ known.zone \in Summertime /\ Forward \div Day = wall \div Day
                  /\ wall - Shift \in Forward..(Forward + Shift - 1)
                  /\ (wall - Shift) % Day = known.time]_vars
  <2> SUFFICES ASSUME LoopInv, Next, Fires
               PROVE  \/ Showing % Day = known.time
                      \/ /\ known.zone \in Summertime /\ Forward \div Day = Showing \div Day
                         /\ Showing - Shift \in Forward..(Forward + Shift - 1)
                         /\ (Showing - Shift) % Day = known.time
    BY DEF Showing
  <2>1. known \in Settings
    BY FiresAtReading
  <2>2. PICK d \in 0 .. Days - 1 : now = Instant(Reading(d), known.zone)
    BY FiresAtReading
  <2>3. d \in Int
    BY Constants
  <2>4. /\ Reading(d) = Midnight(d) + known.time /\ Reading(d) \in Int /\ Midnight(d) \in Int
        /\ known.time \in Times /\ known.time \in Int /\ 0 <= known.time /\ known.time < Day
    BY <2>1, <2>3, ReadingIsInt
  <2>5. Reading(d) % Day = known.time
    <3>1. known.time \in 0 .. Day - 1
      BY <2>4, Constants
    <3> QED BY <2>3, <2>4, <3>1, DayAndTime
  <2>6. CASE Showing = Reading(d)
    BY <2>5, <2>6
  <2>7. CASE /\ Showing = Reading(d) + Shift /\ known.zone \in Summertime
             /\ Forward <= Reading(d) /\ Reading(d) < Forward + Shift
    <3>1. Showing - Shift = Reading(d)
      BY <2>4, <2>7, Constants
    <3>2. Forward \div Day = d
      <4> DEFINE q == Forward \div Day
                 f == Forward % Day
      <4>1. q \in Int /\ f \in 0 .. Day - 1 /\ Forward = Midnight(q) + f
        BY DayAndTime, Constants
      <4>2. f + 2 * Shift <= Day
        BY DEF JumpWithinADay
      <4>3. Midnight(q) \in Int
        BY <4>1, Midnights
      <4> HIDE DEF q, f
      <4>4. q < d => Midnight(q) + Day <= Midnight(d)
        BY <2>3, <4>1, Midnights
      <4>5. d < q => Midnight(d) + Day <= Midnight(q)
        BY <2>3, <4>1, Midnights
      <4>6. ~(q < d)
        BY <2>4, <2>7, <4>1, <4>2, <4>3, <4>4, Constants
      <4>7. ~(d < q)
        BY <2>4, <2>7, <4>1, <4>3, <4>5, Constants
      <4>8. q = d
        BY <2>3, <4>1, <4>6, <4>7
      <4> QED BY <4>8 DEF q
    <3>3. Showing \div Day = d
      BY <2>1, <2>2, <2>3, DateShown DEF DateAt, Showing, Reading
    <3>4. Reading(d) \in Forward .. (Forward + Shift - 1)
      BY <2>4, <2>7, Constants
    <3> QED BY <2>5, <2>7, <3>1, <3>2, <3>3, <3>4
  <2>8. \/ Showing = Reading(d)
        \/ /\ Showing = Reading(d) + Shift /\ known.zone \in Summertime
           /\ Forward <= Reading(d) /\ Reading(d) < Forward + Shift
    BY <2>1, <2>2, <2>3, Shown DEF Showing, Reading
  <2> QED BY <2>6, <2>7, <2>8
<1> QED BY <1>1, LoopInit, LoopStep, PTL DEF Spec, OnTime

\* OnceADay under the same conditions: "firing twice or not at all"
\* (next_run_at) cannot happen, across changes of the clock, edits and restarts.
THEOREM RunsOnceADay ==
  ASSUME NoneRepeated, JumpWithinADay
  PROVE  Spec => OnceADay
<1>1. LoopInv /\ [Next]_vars =>
        [Fires /\ lastDate # NoDate =>
           IF unbroken THEN DateAt(now, known.zone) = (lastDate + 1) % Days
                       ELSE DateAt(now, known.zone) # lastDate]_vars
  <2> SUFFICES ASSUME LoopInv, Next, Fires, lastDate # NoDate
               PROVE  DateAt(now, known.zone) = (lastDate + 1) % Days
                      /\ DateAt(now, known.zone) # lastDate
    OBVIOUS
  <2>1. known \in Settings
    BY FiresAtReading
  <2>2. PICK d \in 0 .. Days - 1 : Awaits(d) /\ now = Instant(Reading(d), known.zone)
    BY FiresAtReading
  <2>3. DateAt(now, known.zone) = d
    BY <2>1, <2>2, DateShown, Constants DEF Reading
  <2>4. lastDate \in 0 .. Days - 1
    BY DEF LoopInv, LoopType
  <2>5. d = lastDate + 1 \/ (d = 0 /\ lastDate = Days - 1)
    BY <2>2 DEF Awaits
  <2>6. (lastDate + 1) % Days = IF lastDate = Days - 1 THEN 0 ELSE lastDate + 1
    BY <2>4, GoingRound
  <2>7. d = (lastDate + 1) % Days /\ d # lastDate
    BY <2>4, <2>5, <2>6, Constants
  <2> QED BY <2>3, <2>7
<1> QED BY <1>1, LoopInit, LoopStep, PTL DEF Spec, OnceADay
=============================================================================
