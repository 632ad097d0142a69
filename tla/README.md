# Box Butler: a verification project

Box Butler keeps the tonies of a household loaded with audio: every day it plans
what each managed tonie should hold, prepares the files, empties the tonie, and
uploads the new chapters through the vendor's cloud. Emptying cannot be undone,
the cloud is slow and fails, and the process may be killed at any moment. This
directory holds TLA+ specifications of the program, the TLC runs that check them
and proofs that TLAPS checks.

Paths below are relative to the repository; `run.py` is
`boxbutler/orchestrator/run.py`.

## 1. The system

| component | state | operations | interacts with |
|---|---|---|---|
| orchestrator (`run.py`) | none of its own; the store's rows | `run`, `repair`, `plan`, `stage`, `swap`, `_commit`, `_degrade`, `prefetch`, `_evict` | store, sink, fetchers, renderer, cache |
| reconciliation (`reconcile.py`) | `swap_marker` rows | turns each surviving marker into DEGRADED | store; called at process start and before each run |
| settle (`settle.py`) | one poll loop | wait until a tonie stops transcoding, compare durations | sink |
| prefetch, retention (`prefetch.py`, `retention.py`) | cache files and their rows | warm the next stories; delete least recently used files | store, cache |
| snapshot (`snapshot.py`) | write-once files | record what is about to be destroyed | data directory |
| runner, composition root (`main.py`) | a `threading.Lock` | `run`, `run_scheduled`, `repair`, `build`, `on_fire` | run lock, orchestrator, scheduler |
| run lock (`runlock.py`) | one `flock` | `held(timeout)` | every process of the data directory |
| scheduler (`scheduler.py`) | the next target time | fire once a day, follow settings | runner |
| sinks (`sinks/`) | the tonies in the cloud; session token | list, read, clear, upload, settle | cloud API |
| store (`store/`) | sqlite in autocommit mode | rows of assignments, records, markers, items, runs | everybody |
| domain (`domain/`) | pure | `choose_next`, `fit_fill`, `already_current`, state transitions | orchestrator |
| sources (`sources/`) | library folders; the rows of `item` | add links and uploads, scan a folder, re-resolve a playlist | store, web, runner |
| fetchers, audio, verify | files | download, render, verify | orchestrator |
| export and import (`store/export_import.py`) | a JSON document | merge libraries and assignments into the store | store, web, CLI |
| web, CLI, notify, metrics, config, logging | settings, sessions | requests of the operator; reports | runner, store |

What is hard in it:

* **Crashes.** Every statement is durable by itself (autocommit), so the process
  may die between any two: between CLEAR and COMMIT, between the four writes of
  `_commit`, between the two writes of `_degrade` or of the reconciliation.
* **Calls that fail after they worked.** An upload that raises may have landed; a
  clear that raises may have removed some chapters; a settle poll may time out
  and the tonie become correct a minute later.
* **Failures of failures.** A repair is interrupted, then its repair.
* **Several writers.** Scheduled run, dashboard, a second process from the
  command line, an eviction outside the run lock, a parent in the vendor's app;
  threads that share one session token without a lock.
* **A catalogue with several writers.** Three threads change one library without a
  lock, statement by statement, while an operator moves files in its folder, the
  folder's mount goes and comes back, and the upstream playlist changes.
* **Shared libraries.** The story a tonie plays next depends on a cursor, on what
  the others hold, on what it held of late and on settings that anybody may edit
  while a run works with what it read at its start.
* **Time.** Tokens expire, polls time out, clocks go forward and back, settings
  change while the loop sleeps.
* **Repetition.** Three runs in one afternoon, a second click on Repair, a
  scheduled run that waits for a manual one, a new day in the middle of a run.

What makes each component correct, in a line: the orchestrator never leaves a
tonie wrong while the store calls it OK, destroys nothing it could not replace,
skips no story and reports the truth; reconciliation forgets no interrupted swap;
retention keeps what a repair needs; settle says settled only of a tonie that is;
the run lock lets one run work and is never lost; the scheduler fires once a date,
on time, by the settings of the moment; a session gives up after a bounded number of
attempts and recovers with the cloud; rotation picks the best story there is and gives
every story its turn, and what it loads fits; a scan or a re-resolution leaves a
catalogue that is true, and no file is overwritten; an import that is repeated ends
where one import would have.

`PROJECT.json` lists every component with its status, and every hazard at its
line.

## 2. Modules

| module | models |
|---|---|
| `TonieGuard` | the promise: a tonie has a content, a belief about it and an admission that it may be wrong; content is destroyed only on tonies that are admitted to be wrong, and the admission is withdrawn only when the belief is true |
| `Orchestrator` | the run loop, repair, reconciliation, commit, prefetch and eviction inside a run, one process at a time, with crashes and faults of the cloud |
| `OrchestratorProofs` | the inductive invariant of `Orchestrator`, that it implements `TonieGuard`, and what a run does and reports: its second invariant, its action properties, `StagedFilesKept`, `HonestRun` |
| `MCOrchestrator` | values of the constants for TLC |
| `RunLock` | who may work on the tonies, and when: the two locks of `OrchestratorRunner`, threads and processes that start, call, are refused, raise and die, and the reconciliations the locks guard |
| `RunLockProofs` | its inductive invariant and four theorems |
| `Session` | the access token shared by several threads, request by request, against a cloud that expires, revokes, refuses, throttles and fails |
| `Settle` | `EXTENDS Session`: a load is uploaded and polled through that session, while the cloud transcodes |
| `SettleProofs` | that the verdicts about a load are about final lengths and their sum |
| `Retention` | the cache file by file: staging, upload, prefetch and eviction of a run, beside evictions that hold no lock, with kills at any file |
| `RetentionProofs` | its inductive invariant, and that the run's eviction spares what is needed and reaches the budget |
| `Scheduler` | the daily trigger: clocks with summer time, edits, unreadable settings, restarts |
| `SchedulerProofs` | that edits of the settings are prompt, and that runs are on time and once a day |
| `Library` | one library: rows, folder and playlist, and the threads that add, scan, re-resolve and edit, statement by statement |
| `LibraryProofs` | its type invariant and dense positions, that no file is lost, and that undisturbed scans, re-resolutions and dry runs are true |
| `MCLibrary` | how a library is found, for TLC |
| `Planning` | a library shared by several tonies: which story is next, what fits on the tonie, what staging does about stories that are gone, prefetch, and edits by anybody at any moment |
| `PlanningProofs` | what the operators of rotation and fitting return for every list, and that loads fit, plans are well chosen and nights are kept |
| `MCPlanning` | libraries and tonies for TLC |
| `Transfer` | export, import and its dry run, beside edits of store and document |
| `MCTransfer` | contents of stores for TLC |
| `TransferProofs` | its type invariant, and that an import takes nothing away |

They fit together by assumption and guarantee. `Orchestrator` assumes one run at a
time: `RunLock` establishes it, and that interrupted swaps are reconciled before a
run works. `Orchestrator` takes the settle's verdict as it comes: `Settle` says when
each verdict is given, and that one is. It lets an eviction remove any unprotected
file: `Retention` has the budget, the order and what happens beside the lock. It
assumes that scheduled runs keep coming: `Scheduler` says so (`FiresAgain`). It gives
every tonie a library of its own that nobody edits and lets staging fail as it likes:
`Planning` has shared libraries and says what staging does, with a swap as one step that
succeeds or fails. `Planning` takes the state of the items as it comes (`Catalogue`):
`Library` says how scans and re-resolutions set it.

### Orchestrator and the code

| variable | in the program |
|---|---|
| `live[a]` | the chapters the tonie holds in the cloud: story, id, whether it is playable (not transcoding) |
| `records[a]` | `chapter_record` rows of the last committed load |
| `marker[a]` | `swap_marker.staged_json` |
| `state[a]`, `stagedJson[a]`, `cursor[a]` | the columns of `assignment` |
| `rotated[a]` | whether `last_success_at` lies in the current rotation window |
| `known` | the tonies without a library that have an `assignment` row |
| `scanned` | whether the rows of the mounted folder are what is in it (`_sync_media_root`) |
| `snap[a]` | the newest snapshot file |
| `files[a]` | the stories with a verified rendition in the cache |
| `pc`, `via`, `cur`, `path` | where the process is: between runs, in a run, in a repair from the dashboard; at which tonie; in `swap` or in `repair` |
| `apply`, `repairs`, `rotations`, `reports`, `unmanaged`, `noTargets` | the run: dry or not, the sorted list `due`, the `RunReport` with its UNMANAGED reports |
| `staged`, `done`, `tries`, `result` | the local variables of `swap` and `repair` |

Each write to the store and each call of the sink is a step of its own, because
the process can be killed, or an exception raised, between any two. `PROJECT.json`
maps each action to its lines. One swap is the steps

    plan -> stage -> snapshot -> marker -> clear -> upload* -> settle
         -> records -> cursor -> success -> unmark

after the run has reconciled, scanned the media root and listed the tonies, the last two
in dry runs too, with the rows they write (`ScanMedia`, `Listing`); and a repair is

    reload -> (plan -> stage) -> observe -> { upload* | records | snapshot -> ... }
           ... -> unmark -> setOk

with `degrade -> degradeUnmark` from every failure past the marker. What the
environment may do against the program is a *fault*: kill the process (`Crash`),
raise an exception out of the run (`RunAborts`) or out of the work on one tonie
(`Raises`), hide tonies from a listing (`List`, `ListNothing`), and let planning,
staging, the snapshot, a clear, an upload, a settle or a re-verification fail.
Clears and uploads that raise may have taken effect. `Transcode`, `NewDay` and
`FolderChanges` are not faults: the cloud, the calendar and the operator take those steps
at any moment. Nor is a staging that fails on a tonie of `Broken`, which may happen on any
night, and on every one.

Abstractions, and why they lose nothing the properties are about:

* Stories are numbers, each library belongs to one tonie, and all stories are of
  equal length, so that a fixed number `Fit[a]` of them fits under the cap.
  Duplicate avoidance between tonies, the cooldown, pins and shuffled orders
  change which story is planned, not what is done with it.
* Durations are compared by the code to tell that the right chapters are there in
  the right number; here the chapters themselves are compared.
* Chapter ids are fresh: the cloud does not give an id again while a record or a
  tonie refers to it.
* An eviction removes any set of files that are not protected, which includes
  every least-recently-used order and every budget.
* Staging either produces all files of the load or fails having produced some;
  re-planning after an unavailable item is left to `Planning`.
* Touching `last_used_at`, events, metrics and notifications are left out.
* Tonies without a library (`Unmanaged`) never get past the listing; they have a row and a
  report there and nothing else. Disabled tonies are left out.
* The scan of the media root is one step, which may fail and end nothing. The libraries
  the tonies play from are not in that folder here: what a scan does to items is the
  subject of `Library`, what becomes of plans then, of `Planning`.
* One run or repair at a time, in one process: what `RunLock` establishes.

### RunLock and the code

`mutex[p]` is `OrchestratorRunner._lock` of process `p`, `flock` the holder of
`run.lock`, `pc[t]` where thread `t` is (at a lock, reconciling, at work, giving the
mutex back), `marker[t]` whether a tonie has a `swap_marker` row and `swapping[t]` the
tonie a thread is in the middle of. Work on tonies is the beginning and end of swaps
here; `Orchestrator` looks inside. A lock that may be refused at once or after a
timeout is refused whenever it is held. The kernel gives the flock of a dead process
back (`Die`); an exception leaves through the with- and finally-clauses as written.

### Session, Settle and the code

`pc[c]`, `retried[c]`, `throttled[c]` are the position and the two local variables of
`Session.request` in thread `c`; `installed` is `_token is not None`, `left` its time to
live, `accepted` and `renewable` whether the cloud honours it and its refresh token, and
`well` whether the cloud does what it should. In `Settle`, `zeros` is
`consecutive_settled_zero`, `waited` is `waited_s` in poll intervals, `live` the chapters
as the cloud has them.

* A tick passes only while every caller waits (between requests, in a backoff, in the
  poll's sleep): other steps are short compared with the margin (a send is cut off at
  30 s, the margin is 60 s).
* A refresh token can be used by several threads at once: the code assumes so, as it
  has no lock around the refresh.
* In `Settle` a tick is a poll interval, and the cloud flags a new chapter within one;
  it owes nothing else. A chapter has the length zero until it is done, and then one of
  `Outcomes`; a read sums the lengths and compares the sum with `Chapters * Length` within
  `Tolerance`, as the code does. Lengths are whole numbers. `seen` is the read behind the
  verdict (`SettleResult.chapters`).
* The retries of `_upload_with_retry` are left to `Orchestrator`.

### Retention and the code

`disk` is the cache directory and `rows` the `source_file` and `rendition` rows, which
are written and deleted one by one; `todo` is what staging or prefetch still has to do
for each story (fetch, record, render, upsert). `at[e]`, `listed[e]`, `doomed[e]` are an
eviction: the files it listed, and those its plan will delete, row first and then
file. `Run` is the eviction under the lock, `Others` are those of `on_fire`
(`main.py`) and of `cache evict --apply`.

* Files have one size; which of several renditions was used least recently is left
  open, so the runs cover every order within a kind.
* The tonie's side of a run is cut down to what the cache can see: it commits,
  degrades or is killed. One serial library.
* `cache evict` protects a window without the cooldown setting; with a serial
  library that is the same window.

### Scheduler and the code

`known` is the loop's `(schedule, tz_name)`, `remaining` the distance to its `target`,
`phase` the line it is at, `stored` the two settings rows and `readable` whether they can
be read. `lastDate`, `unbroken` and `settled` only record the past for the properties. A
tick is a slice of the loop's sleep. `Wall` and `Instant` are `astimezone` and
`datetime.combine` with fold 0, as `zoneinfo` defines them, and `NextRun` compares wall
clocks, as Python compares two datetimes of the same zone.

* The calendar goes round. A date is kept over a restart only while it is today's
  (`IfToday`): later it would be another year's, and without a restart the next date
  follows anyway.

### Library and the code

`items` are the rows of table `item` of one library (`pos`, `key`, `kind`, `ok` for the
state, `path` for `local_path`, `synced` for `playlist_source_id`), `disk` the files in
its folder with their bytes, `inbox` the upload directory, `mounted`, `listed` and `plays`
the mount, the upstream playlist (a sequence: it has an order and may name an entry twice)
and `settings["playlists:<library>"]`. `pc[t]` is where thread `t` is: `Web`,
the event loop, adds (`StartAdd`, `AddReads`, `AddInserts`, `AddFinds`, `AddAdopts`,
`AddRecords`, `EndAdd`); `Pool`, a worker thread, and `Run` scan (`StartScan`,
`ScanSkips`, `ScanKnown`, `ScanRenames`, `ScanRestores`, `ScanNew`, `ScanInserts`, `EndScan`), and `Run`
then re-resolves the playlist (`StartSync`, `SyncKnown`, `SyncNew`, `SyncInserts`,
`EndSync`). `todo`, `known`, `seen`, `slot` and `at` are their local variables. A source
key is the audio's fingerprint with the number that tells twins apart.

* A row that an addition inserts names the file in the upload directory (`Inbox`) or none,
  and belongs to no playlist, also when it came with a playlist's reference; only what a
  re-resolution inserts is `synced`.
* Bytes stand for themselves: two files are the same audio exactly if the fingerprints
  are equal.
* The listing of a scan and the rows it reads right after are one step; so are the
  marking of rows at its end, and the unlink and the delete of a row and its file.
* A library begins without rows, in one of the states of `Starts`: with files that were copied
  into the folder before its first scan, with a recorded playlist whose items were deleted,
  or with neither; a start may have spent some of the edits that bound a behaviour.
* Nobody can write below a mount point that is not mounted.
* Creating and deleting libraries, titles, `enabled` and `loudnorm` are not here.
* `calm`, `raced` and `foreseen` only record the past for the properties.

### Planning and the code

`enabled`, `ok` and `source` are the items and what a fetch would meet; `on`, `cursor`,
`pinned`, `order` and `rotated` are columns of `assignment`, `loaded` the
`chapter_record` rows, `ended` the `chapter_history`; `stored` the saved settings and
`cooldown`, `avoid`, `cap` as the run read them (`effective_rotation_settings`). `pc`,
`todo`, `read`, `who`, `plan`, `budget`, `got` and `pieces` are the run: tonies left, the
assignments as `_run_locked` listed them, the plan of one tonie, the attempts its staging
has left, what is fetched and what of it goes on. `PlanTonie` is `plan` and the question
whether the tonie is current; `Fetch`, `FetchDead` and `FetchBroken` are a fetch and its
verdict, and a dead item makes `stage` plan again, after the playlist was re-resolved;
`Fit` renders and verifies; `Commit` is the swap.

* A swap is one step; how it fails is the subject of `Orchestrator`.
* An assignment keeps its library. Stories are in library order, none are added.
* A shuffled order is one permutation for each number of eligible stories, which is what
  the seeded shuffle is.
* The settings are read at the start of a run, and all at once.
* History is kept for tonies that play one story at a time: the others never ask for it.
* Re-resolution before planning is here only what it does to listed entries: they are
  available again.

### Transfer and the code

`libs` and `tonies` are the tables (items in their order, the rest as columns that are
compared or copied), `doc` the document, `pc`, `todo`, `lib`, `rows`, `fixes`, `held` and
`left` how far an import is: a library at a time, an item at a time, a statement at a
time; then a tonie at a time, a column at a time. `counts` is what it will report,
`foreseen` what a dry run would have reported when it began, `origin` the store when this
document was first imported, as long as nobody else changed anything.

* Names of libraries are unique (the code takes the first of a name).
* Columns that are only copied have values without a meaning; positions are places in a
  sequence.
* A document is one the program wrote, cut down or edited by hand (`EditDocument`), here
  or on another installation.
* `ImportDies` is a kill, or a value that none of the enumerations accepts: wherever it
  strikes, what was written stays.

## 3. Runs

| run | instance | shows |
|---|---|---|
| `two_tonies` | a serial, an over-long album whose staging may fail on any night and a tonie without a library in one run, one fault, fairness | `Consistent`, `NoSilentDamage`, `HonestRun`, `DryRunSparesTonies`; `EveryTonieLoaded` |
| `one_serial` | one serial tonie, three stories of which two fit, two faults, fairness | `StagedFilesKept`, `ClearedOnlyWhenArmed`, `CursorFollowsLoad`, `OneLoadPerWindow`, `ImplementsGuard`; `OwedIsRepaired` |
| `run_lock` | a server with scheduler and one request thread, two commands, two tonies, two deaths or exceptions | `MutualExclusion`, `NoLockLeft`, `RunMeetsNoInterruptedSwap`, `SparesLiveSwaps`; `EveryCallReturns`, `MarkersAreReconciled` |
| `settle` | a run and a web thread, a token of two ticks, one wait for throttling, two chapters that each come out empty, right or too long, a timeout of two polls | `NoFalseAlarm`, `SettledIsFinal`; `SettleEnds`, `ServedWhileRenewable` |
| `retention` | three stories, one of them in the library's folder, loads of two, a budget of two files, two evictions beside the run, two failures or kills | `EvictionReachesBudget`, `SparesWhatIsNeeded`; `DegradedIsLoaded` |
| `scheduler` | four days of eight ticks, two zones, a schedule in the evening and one in the skipped hour, two edits, two restarts | `OnTime`, `OnceADay`, `EditsArePrompt`; `FiresAgain` |
| `skipped_story` | one fault | `NoStorySkipped` fails |
| `library` | two file names, one piece of audio to copy in or upload, two entries in listings of up to two, in either order or one of them twice, two of the three threads at work at a time, two edits, one kill; six ways to find the library | `PositionsDense`, `AppendOnly`, `ScanAgrees`, `SyncAgrees`, `PreviewAgrees` |
| `remount` | an empty library, one thread at a time, three edits | `MountRestores` fails |
| `planning` | a single and a serial share three stories of lengths 2, 3 and 5 under caps of 6 and 4, one edit by anybody | `LoadFits`; `PlansAreWellChosen`, `NightNotLost`, `EveryStoryPlaysOrStalls` |
| `stuck_tonies` | two singles share three stories, no edit | `EveryStoryPlays` fails |
| `transfer` | four stores, each importing the document of every other and its own; two edits, one death | `ImportsMerge`, `RoundTrip`, `PreviewTells` |

**Bounds.** `MaxFaults` bounds the faults of a behaviour; nothing else is cut off
(days, runs and repairs go on for ever, the cursor wraps, chapter ids are used
again once nothing refers to them). Two faults on one tonie are enough for a
swap that is interrupted and a repair of it that is interrupted too; what is proved
holds for any number. One fault with two tonies is enough for a failure at one tonie to meet
the work on the other; that a tonie which fails every night does not starve another needs
one that may fail without a fault, and staging is the place where it does (`Broken`): any
other step may fail once. Two of three stories in a load make a partial load, a duplicated
chapter, a cursor that wraps in the middle of a load and a plan that differs from
the load possible. `Attempts = 2` has one retry and one giving up. Eight chapter
ids (six in `two_tonies`) are more than a tonie and its records can refer to under the
fault bound, so an upload is never blocked for want of one (a deadlock would be reported).
`two_tonies` does without prefetch (`Depth = 0`), which `one_serial` has.

In `run_lock` two deaths let a swap die in one process and the run that should meet its
marker die in another. In `settle` a token of two ticks with a margin of one is renewed
both before and after its end; two chapters are enough for one to be done while another
is new or busy, and lengths of zero, two and three where two is right, with a tolerance of
one, for sums that are right although a chapter is not. In `retention` a budget of two files with loads of two
stories makes every eviction choose among orphans, renditions and sources, and leaves
less room than load, window and staged files need together; two evictions beside the
run (`MaxOthers`) can delete from under staging and from under an upload in the same
night. In `scheduler` a run takes at most three ticks of an eight-tick day (`MaxRun`): a
run that is still going at the next target makes the loop miss that date, by design,
and is not part of `OnceADay`. Requests, polls, runs and days themselves are not
bounded.

In `library` two file names and one piece of audio make twins, renames and
adoptions possible, and an upload of what is in the folder already; two entries in a listing
of up to two make the order of new entries, a repeated one and a returning one possible; two
threads at work are enough for every race between two of their statements. Two edits let a
file be copied in and taken out, or a mount go while something else changes; that a library
may be found with files in its folder, or with a playlist, makes longer histories of them. Of
the six starts (`Begun` of `MCLibrary`) the larger three come with one edit, which is what
keeps the run small; the proofs hold for any starts and edits.
In `planning` no cap, with the sink's limit of six, ends a load after two stories, cuts
the third, or leaves a tail too short to ship; a cap of four cuts the second. The stories
are of three kinds, so each fetcher's verdict occurs, and the sets that are gone at the
beginning (`Gone`) leave one eligible story. One edit (`MaxEdits`) is enough for a pin,
a pause, a switched mode or a changed setting to fall between any two steps of a run; nights
go on for ever. In `transfer` the four stores cover new and known libraries and items, a
key in two libraries, a pin to another library's story, a missing tonie and one without a
library; one death (`MaxFaults`) anywhere and any number of imports after it cover the
repetition on a half.

**Fairness.** `Work` (a process that is up goes on), `Boot` (compose restarts the
container, `compose/box-butler.yml` `restart: unless-stopped`) and `Transcode`
(the cloud finishes) are weakly fair. `ScheduledRun` is strongly fair: between
runs it is enabled again and again rather than always, and `run_scheduled` waits
for the lock instead of giving way. Nothing a person does is fair, and no fault
is. As faults are bounded, the liveness properties say: once faults stop, without
anybody's help, every tonie that is owed is repaired.

In `RunLock` the steps of each thread that called are weakly fair (locks are tried again
and again until a timeout), and so is the end of its work; nobody has to call.
`MarkersAreReconciled` is conditional on runs that get the lock again and again. In
`Session` and `Settle` each caller's own steps are weakly fair, since every call of the
cloud is cut off after a timeout; the poll's tick is strongly fair because other
callers' requests disable it in between; the cloud has no fairness, and
`ServedWhileRenewable` supposes a cloud that stays well. In `Retention` the run's steps
and a begun eviction are weakly fair, in `Scheduler` the loop's steps and the clock. In
`Planning` the date goes on (`NewDay`) and runs are started and go on (`Scheduler` and
`RunLock` show that they do); edits, failures of swaps and of planning are not fair.
`Library` and `Transfer` state no liveness and need no fairness.

### What the failing runs show

* `skipped_story`. `_commit` writes records, cursor, success and then deletes the
  marker. A process killed after the cursor is written comes up with the marker,
  declares the tonie DEGRADED, finds it already correct, and commits again:
  the cursor advances twice and the stories in between are never played. The
  comments (`run.py:130`, `run.py:1406`, `run.py:1432`) say that this crash costs
  one upload or one needless repair and that a story is never skipped.
* `remount`. A scan that finds the folder not mounted marks every item of the library
  unavailable; a scan after the mount is back skips the paths of items that are not
  `FOLDER_FILE` before it gets to making them available. Uploads and downloads are then
  never played again, contrary to `folder.py:69-72` ("a transient NFS unmount must not
  destroy a library").
* `stuck_tonies`. Question 1 of `_already_current` (does the tonie hold what is planned?)
  also ends the run of a rotating plan, and a skip does not advance the cursor. Two
  singles that avoid each other's stories pick past the cursor; the cursor advances by
  one and points at what the tonie holds, and from then on every plan is that story,
  every night is skipped, and the third story never plays; `rotation.py:6` says every item
  plays once before any repeats. `planning` shows that this and a load too short to ship
  are the only ways in which a rotation stops (`EveryStoryPlaysOrStalls`, `Stalled`).

### Other divergences

No run is about these; a property named here is stated in its module, and the code does
not keep it in the case described, or keeps it only with the exception it makes. On the
constants of the runs of their modules TLC finds each of the first six violated.

* The grace poll of `poll_until_settled` is given to a sum of zero only. If the first chapter of
  a load is done when the second is not flagged as transcoding yet, the read shows a sum that
  is too small and nothing transcoding, and the load is called `duration_mismatch` at once,
  though `settle.py:11-13` says the sum is verified when every chapter has stopped transcoding
  (`MismatchIsReal` of `Settle`). Whether the cloud flags the chapters of a load one by one is
  not known here; the model lets it. `settle` shows that this is the only way in which a
  verdict is about lengths that are not final.
* `run()` reports each listed tonie without a library as UNMANAGED, and `RunReport.outcome`
  counts these reports: a run that met nothing else is OK, where `run.py:426-439` says that OK
  means something happened and an empty run is `NOTHING_TO_DO` (`OkMeansSomethingHappened` of
  `Orchestrator`). `HonestRun` is about what an OK says of managed tonies.
* A dry run stores a row for each tonie it meets for the first time (`run.py:616`), and scans
  the media root before (`main.py:347`), though `run.py:581-583` says that it changes nothing
  (`DryRunChangesNothing` of `Orchestrator`, which leaves the scan out, as it is not `run()`'s).
  `DryRunSparesTonies` says what a dry run does not change.
* Adding a playlist by its reference inserts its entries without `playlist_source_id`
  (`ingest.py:95-103`); the re-resolution marks and restores rows of its own only
  (`playlist_sync.py:114`, `playlist_sync.py:122`). Entries that came with the reference stay
  available when they vanish, contrary to `ingest.py:205-206` and `playlist_sync.py:18`
  (`VanishedAreMarked` of `Library`). `SyncAgrees` is about the rows a re-resolution added.
* A new entry that is listed twice is written once by `sync_playlist` and forecast twice by
  `_preview_one`, which never adds it to the rows it looks up, though it is to have the "Same
  matching logic" (`playlist_sync.py:147`; `PreviewIsTwin` of `Library`). `PreviewAgrees` is
  about listings that name no entry twice.
* An import leaves `playlist_source_id` of an item that exists, where the comment at
  `export_import.py:255` names it among what is updated (`OwnersFollow` of `Transfer`). The merge
  that `ImportsMerge` expects keeps it too, as it keeps what else is set only once.
* An album longer than the cap: `_already_current` compares what was committed with the
  whole library, the two are never equal, and each run empties the tonie and uploads the
  same chapters again, contrary to `run.py:846` and `docs/GUIDE.md:34`
  (`OneLoadPerWindow` of `Orchestrator`, for an album of which two of three stories fit).
* Repair asked for a tonie that is in order (the second click on a page that still shows it
  as degraded) plans the next load and replaces the one that was just put on, contrary to
  `run.py:865` (`RepairSparesCorrectTonie`).
* A session that once had a token renews it with the refresh token only. When the cloud
  has dropped that one, every later request fails, although the password is at hand, until
  the process is restarted; `session.py:22` speaks of re-authenticating (`ServedWhenWell`).
* An eviction that holds no lock plans while a run uploads, when the staged files belong to
  no assignment yet; the upload fails, the tonie is DEGRADED, and the eviction deletes the
  files its repair was to use, contrary to "what must never be evicted" in `retention.py`
  (`StagedFilesSurvive`). `retention` shows that such a tonie is loaded all the same.
* In the hour that the clock shows twice, the second time round, `next_run_at` finds the
  scheduled minute still ahead on the wall and takes its first instant, which is past: the
  loop fires at once and again until the wall shows that minute. `scheduler.py:94` says the
  second occurrence is never a trigger (`OnceADay`, with a schedule in that hour).
* A tail shorter than `MIN_SECONDS` is cut by `fit_fill` and then refused by
  `verify_rendition`: with such lengths the tonie's staging fails every night (`Unfit` of
  `Planning`).
* A listed playlist entry that cannot be downloaded is marked by `stage` and brought back by
  the re-resolution in the next planning: the attempts are spent on it and the night ends
  with "no_available_item" although other stories are there (the exception in
  `NightNotLost`).
* `HttpFetcher` reports every HTTP and network error as an item that is gone, so that an
  outage marks feed and URL items unavailable for good; `fetch/protocol.py` keeps the two
  apart.
* Two additions at the same moment, or one beside a reorder, give equal positions or gaps
  (`raced` of `Library`), and `move` does nothing across a gap until the order is saved again.
* A file that a scan meets before the addition that put it there has recorded its path, and a
  downloaded file that was renamed, become a second item; an upload of audio that is in the
  folder already makes the original a twin. Among renumbered files the path decides before
  the fingerprint.
* Feeds are never recorded as playlists, so new episodes are never found by a run.
* Importing: the pin of a tonie without a library is set to nothing by the import of the
  store's own export, without being counted ("never silently nulled",
  `export_import.py`), and a pin to another library's story moves to the own library's
  item of that key (the condition `Homely` of `RoundTrip`). A document without
  `folder_path` takes the library its folder, and counts it as updated each time. A dry run
  also reports pins to new items of libraries that exist as unresolved, where the docstring
  names new libraries only (`PreviewTells` allows both).
* `serve` reads the schedule on the main thread so that the scheduler's thread cannot die
  quietly at its first read, but the thread reads once more: if only that read fails, it
  ends while the web interface stays up (`BootFails` of `Scheduler`).
* The button "Run now anyway (skips repair)" of
  `boxbutler/web/templates/partials/tonie_card.html:198` starts `run`, which repairs a
  DEGRADED tonie and never skips that.

## 4. Proofs

`OrchestratorProofs` proves, for any set of tonies, any library size, fit, mode,
number of attempts, prefetch depth and number of faults, from the assumptions
named in `Orchestrator` (`TonieAssumption` ... `FaultAssumption`):

* `TypeCorrect`: `Spec => []TypeOK`.
* `NoDamage`: `Spec => []NoSilentDamage`.
* both from `Invariance`: `Spec => []IndInv`, with `IndInv == TypeOK /\ Consistent`.

`NoSilentDamage` alone is not inductive: whether a commit records the truth
depends on what the settled read showed, that on what was uploaded, and whether
the upload was allowed at all on the marker that was written before the clear.
`Consistent` states this step by step along a job: the marker exists before the
clear (`MarkedBeforeClear`), a tonie is filled only while owed or before its first
load (`OpenWhileLoading`), the number of chapters on the tonie is never below what
was uploaded and, if equal, they are those chapters (`UploadedSoFar`), a settled
read of the right length therefore shows the staged load (`SettledIsStaged`), the
commit records it (`CommittedIsLive`), and a failure has stored DEGRADED before
its marker is deleted (`DegradedIsStored`). `TypeStep` and `ConsistentStep` take the
actions one by one; the lemmas before them say what the operators on sequences
return.

Its second part proves `Implementation`: `Spec => ImplementsGuard`, the refinement of
`TonieGuard` under the mapping of `Orchestrator` (`Guard`). Its lemmas state under
which change of the real and the recorded chapters a step is `Admit`, `Release`,
`Wipe`, `Fill`, `Record` or a stutter, and `GuardStep` takes the handlers one by one.
It needs `Consistent` at three places: a clear happens on a marked tonie, an upload
on one that is owed or was never loaded, and a commit that unmarks a tonie has
recorded what the tonie holds.

Its third part proves what a run does and reports, for the same constants: `JobConsistent`
(`Consistent`), `StagedFilesStay` (`StagedFilesKept`), `Honesty` (`HonestRun`),
`ClearsAreArmed` (`ClearedOnlyWhenArmed`), `CursorIsHonest` (`CursorFollowsLoad`),
`DryRunsSpareTonies` (`DryRunSparesTonies`) and `OneLoad` (`OneLoadPerWindow`). `IndInv` speaks
of the work on one tonie; these properties need what is around it, the second invariant
`Orderly` (theorem `Order`), of four parts. `RunState` says which job, queue and marker
there can be at which step: a marker of another tonie than the one at work would let a
report of OK be about an owed tonie. `CacheHolds` says that what is staged, for the job, in
a marker or for a repair, is in the cache; `StagedFilesKept` is the part of it that a later
repair lives on, and is not inductive because the files of a marker become those of a
degraded tonie. `JobData` carries what was read to the step that relies on it: the
snapshot shows what the clear destroys, the load that is committed is one that rotates or
not, a swap was due when it was planned. `Reported` says that what has been reported stays
true while the run works on the others.

`OneLoad` has a hypothesis, `AlbumsFit`: no album is longer than its tonie takes. The code
violates the property without it (section 3), and an installation where every album fits
satisfies it.

`RunLockProofs` proves, for any processes, threads, tonies and number of deaths,
`Exclusion` (`MutualExclusion`), `LocksAreReturned` (`NoLockLeft`),
`RunsFollowReconciliation` (`RunMeetsNoInterruptedSwap`) and `LiveSwapsAreSpared`
(`SparesLiveSwaps`), from `IndInv == TypeOK /\ Safe`. Mutual exclusion alone is not
inductive: `Safe` adds that who is inside holds the locks (`InsideHasLocks`), that swaps
happen inside (`SwapsInside`), and that locks are held by threads inside only, which is
what makes an unlock by the wrong thread impossible.

`RetentionProofs` proves, for any library, folder, fit, window, budget, set of other
evictions and number of faults, `Sparing`: `Spec => SparesWhatIsNeeded`, from
`CacheAssumption` (only that `Run` is not one of `Others` is used). The property is about
the moment a row is deleted, the protection is computed when the eviction is planned;
`ByPlan` bridges the two. While the run evicts it does nothing else, so `records`,
`cursor` and what is staged stay; the other evictions only take rows away; hence what
the plan dooms and still has a row remains unneeded until the eviction ends. Only
`Run`'s eviction has this: for one of `Others` the run moves between plan and delete.
`NeededIsProtected` is the lemma about `protected_paths` that makes the plan good.

`BudgetReached` (`Spec => []EvictionReachesBudget`) needs that the plan is large enough
(`PlanReaches`) and that carrying it out keeps it so. `Reaching` is that invariant: of what
was listed and is still on the disk, no more than the budget is outside the plan, unless
all that is outside was protected; files that other evictions delete meanwhile only make
the count smaller (`Dwindling`, on finite sets).

`SchedulerProofs` proves, for any calendar, zone, schedule and number of edits and
restarts, `PromptEdits`: `Spec => EditsArePrompt`. The invariant is `KnowsStored`: once a
slice has ended since the last edit with a readable store, the schedule and zone the
loop works with are the stored ones.

It also proves `RunsOnTime` (`OnTime`) and `RunsOnceADay` (`OnceADay`), under two hypotheses
about zone and schedule. `NoneRepeated`: no set time lies in the hour that is shown twice;
with one that does, the code fires again and again (section 3). `JumpWithinADay`: the clocks
do not jump over a midnight, as those of no zone with a summer time of an hour or so at two
or three o'clock do. The invariant `LoopInv` says that the loop sleeps towards the instant
of the set time of one day, and that this day is the one after the last run's (`Aimed`);
that a run which is going on began at such an instant (`Running`), since the next target is
computed when it ends, up to a day later; and, for restarts, that the date of a run that
lasts is today's and its time past (`Past`). `NextTarget` is the lemma about `next_run_at`:
it gives the first reading of the set time after what the wall shows, never a moment that
is past. `Shown` says what the wall shows at the instant of a reading, `DateShown` that it
is the same date.

`LibraryProofs` proves, for any files, contents, listings and page size, and any
interleaving and kills, `LibraryTypes`, `Positioned` (`PositionsDense`), `FilesAreSafe`
(`AppendOnly`), `SyncSound` (`SyncAgrees`), `ForecastSound` (`PreviewAgrees`) and `ScanSound`
(`ScanAgrees`). `PositionsDense` is not inductive: that the next position is the number of
rows needs the table to be finite with distinct keys (`Table`), and what a thread inserts
has the shape of a row because of what it has in hand (`Work`); `Origin` ties rows to
the playlist. The properties about whole scans and re-resolutions have invariants of their
own, about what holds half way. `SyncInv`: the forecast for the entries still to do, from the
rows as they are, is the forecast made at the start (so the last one, for nothing, is the
result); it needs the listing to name no entry twice (`ForecastSound`), `SyncSound` does not.
`ScanInv`: each file already visited is covered by an item that will stay
(`Covered`), and what the scan remembers of the others is still so (`Recalled`).

`TransferProofs` proves, for any names, keys, stores and documents and any number of edits
and deaths, `TypeCorrect` (`Spec => []TypeOK`) and `NothingLost` (`Spec =>
ImportsOnlyAdd`), from `StoreAssumption` and `NumberAssumption`. An import works on what it
read before while rows go; `TypeOK` says what it may rely on (statements left belong to an
item left, a library left is one of the document), and each of the steps that write, a
library, an item, a column of an item, is shown to leave other libraries alone and to keep
keys and places in this one (`LibraryStep`, `ItemStep`, `FixStep`).

`SettleProofs` proves, for any number of callers and of chapters, any lengths, tolerance, life
of tokens and timeout and any behaviour of the cloud, `VerdictsAreTrue` (`SettledIsFinal`) and
`NoAlarm` (`NoFalseAlarm`). Neither says that each chapter is right, which the code does not
look at: a verdict is about the sum. Both make an exception for a read that showed a chapter
which the cloud had not flagged yet (`Unflagged(seen)`), beside others that were done: that is
the case `MismatchIsReal` is about (section 3). What makes the part about empty loads inductive is `Flagged`:
between the first read of zero and the next lies a poll interval, and after that no chapter
is unflagged, so a second zero without transcoding is a result. `FinalLoadsStay` is that a
chapter that is done keeps its length, so that a verdict stays true after the read.

`PlanningProofs` proves, for any tonies, modes, libraries, lengths, permutations, caps,
limits, settings and number of edits, `PlanningTypes` (`TypeOK`), `LoadsFit` (`LoadFits`),
`ChoicesAreSound` (`PlansAreWellChosen`) and `NightsAreKept` (`NightNotLost`), from the
assumptions `Planning` names. Most of it is about the operators. A loop of the code is a
recursive function there; `Recursion` shows that such a function has the values the loop
computes, `Climb` is induction up to a number, by the well-foundedness of the naturals.
With them `EligibleItems`, `OrderedItems` and `RotatedItems` say that ordering, shuffling
and rotating keep the eligible stories, each once; `ChosenWell` that `choose_next` decides
what `WellChosen` demands; `FillFits` that `fit_fill` leaves a load of which `Packed` is
true: what is taken and what is left make up the cap, every piece is whole except a last
one that left nothing, and it stopped for one of three reasons. The invariant `Inv` adds
what a run carries from step to step: what was fetched is a beginning of the plan
(`Staging`), what is about to go on is what fits of it, fetched until the cap was accounted
for (`Fitted`), and, for `NightNotLost`, as long as nobody edits anything there is an
attempt left for each story that may be planned, or a dead entry is listed (`Hope`).

TLC checked each of these invariants on the instances of section 3 (`Reaching`, `Past`,
`Running` and `Aimed`, with three restarts, among them) before it was proved.

Only model-checked: liveness under fairness, which is beyond the prover, in every module
(`OwedIsRepaired`, `EveryTonieLoaded`, `EveryCallReturns`, `MarkersAreReconciled`, `SettleEnds`,
`ServedWhileRenewable`, `DegradedIsLoaded`, `FiresAgain`, `EveryStoryPlaysOrStalls`); and
`ImportsMerge`, `RoundTrip` and `PreviewTells` of `Transfer`. The type invariants of
`Orchestrator`, `RunLock`, `Transfer`, `Library` and `Planning` are in no run but part of the
proofs; those of `Settle`, `Retention` and `Scheduler` are stated and in no run, which asks
about behaviour instead.

## 5. Not modelled

* Text: events, cache names, configuration parsing, titles, the pages themselves,
  notification, metrics and logging. They keep no state that the others read.
* Processes and bytes: ffmpeg, ffprobe, yt-dlp and HTTP streams. What the program concludes
  from them (available, gone, short, too long) is in `Planning`.
* Migrations, and the opening of the database.
* Logins and the setup wizard. (The wizard creates the library before the account, and a
  second try after a failed first ingestion creates a second library.)
* The write-once names of snapshot files when two processes write one in the same instant.
* Another writer of a tonie: what a parent adds in the vendor's app between the read and the
  clear is destroyed and in no snapshot; the code has no means to close this.

## 6. What is left

1. In `Planning`, cursors that are edited during a run, and assignment to another library
   (it keeps the cursor and the pin of the old one).
2. Theorems: `ImportsMerge`, `RoundTrip` and `PreviewTells` of `Transfer`, which need lemmas
   on folds and selections.
3. Runs of several processes on the data directory, with `Library` beside `Planning`.
