---------------------------- MODULE Orchestrator ----------------------------
(***************************************************************************)
(* The run loop of boxbutler/orchestrator/run.py: one pass over the        *)
(* managed tonies that repairs the DEGRADED ones and then rotates the      *)
(* others, each by PLAN, STAGE, SNAPSHOT, swap marker, CLEAR, UPLOAD,      *)
(* SETTLE, COMMIT; the repair a person asks for on the dashboard; and the  *)
(* reconciliation of interrupted swaps when the process or a run starts.   *)
(*                                                                         *)
(* Every write to the store (sqlite in autocommit mode) and every call of  *)
(* the sink is a step of its own, because the process can be killed, or an *)
(* exception raised, between any two of them. The run lock lets one run or *)
(* repair work at a time, so the process is one program counter here.      *)
(***************************************************************************)
EXTENDS Integers, Sequences, FiniteSets

CONSTANTS
  Assignments,   \* the managed, enabled tonies, each with a library of its own
  Unmanaged,     \* the tonies of the account that no library is assigned to
  NoTonie,       \* the value of cur while no tonie is worked on
  Broken,        \* those of Assignments whose staging may fail on any night
  N,             \* stories in a library: 0 .. N-1, in library order
  Mode,          \* per tonie: "single", "serial" or "album"
  Fit,           \* per tonie: how many stories of a plan fit under the cap
  Attempts,      \* RotationSettings.upload_attempts
  Depth,         \* RotationSettings.prefetch_depth
  ChapterIds,    \* the ids the cloud may give a chapter
  MaxFaults      \* bound: how many faults a behaviour contains

Tonies  == Assignments \union Unmanaged
Stories == 0..(N - 1)
Foreign == N     \* a chapter that somebody else put on the tonie

ASSUME TonieAssumption     == NoTonie \notin Tonies
ASSUME UnmanagedAssumption == Assignments \cap Unmanaged = {}
ASSUME BrokenAssumption    == Broken \subseteq Assignments
ASSUME LibraryAssumption   == N \in Nat \ {0}
ASSUME ModeAssumption      == Mode \in [Assignments -> {"single", "serial", "album"}]
ASSUME FitAssumption       == /\ Fit \in [Assignments -> 1..N]
                              /\ \A a \in Assignments : Mode[a] = "single" => Fit[a] = 1
ASSUME RetryAssumption     == Attempts \in Nat \ {0}
ASSUME DepthAssumption     == Depth \in Nat
ASSUME IdAssumption        == 0 \in ChapterIds
ASSUME FaultAssumption     == MaxFaults \in Nat

VARIABLES
  live,        \* the cloud: the chapters each tonie really holds
  records,     \* chapter_record: the load each tonie was last committed with
  marker,      \* swap_marker.staged_json, NoStaged when there is no row
  state,       \* assignment.state
  stagedJson,  \* assignment.staged_json, NoStaged for NULL and for "[]"
  cursor,      \* assignment.cursor_position
  rotated,     \* whether assignment.last_success_at is in the current window
  known,       \* the unmanaged tonies that have an assignment row
  scanned,     \* whether the item rows of the mounted folder are its files
  snap,        \* the last snapshot written before a clear
  files,       \* stories with a verified rendition in the cache
  pc,          \* where the process is; "down" when there is none
  via,         \* what it is doing: "none", "boot", "run" or "repair"
  apply,       \* whether this run may write
  repairs,     \* due tonies still to be repaired in this run
  rotations,   \* due tonies still to be rotated in this run
  reports,     \* the outcome reported for each tonie by this run
  unmanaged,   \* the tonies this run reports UNMANAGED
  noTargets,   \* RunReport.no_targets_but_managed
  cur,         \* the tonie being worked on
  path,        \* "swap" or "repair"
  staged,      \* the staged load, and the payload of a failure
  done,        \* how many chapters of it are uploaded
  tries,       \* failed attempts at the next one
  result,      \* the chapter ids the settled read returned
  faults       \* faults so far

sinkVars  == <<live>>
rowVars   == <<known, scanned>>
storeVars == <<records, marker, state, stagedJson, cursor, rotated, rowVars>>
diskVars  == <<snap, files>>
runVars   == <<via, apply, repairs, rotations, reports, unmanaged, noTargets>>
jobVars   == <<cur, path, staged, done, tries, result>>
vars == <<sinkVars, storeVars, diskVars, pc, runVars, jobVars, faults>>

-----------------------------------------------------------------------------
(* Values *)

NoStaged == [items |-> <<>>, rotates |-> FALSE]
Loads    == {load \in [items : Seq(Stories), rotates : BOOLEAN] :
               load.items = <<>> => load = NoStaged}
Chapters == [item : Stories \union {Foreign}, id : ChapterIds, ready : BOOLEAN]
Records  == [item : Stories, id : ChapterIds]

Outcomes == {"none", "SWAPPED", "SKIPPED_ALREADY_CURRENT", "PLAN_FAILED",
             "ABORTED_STAGING", "DEGRADED", "REPAIRED", "DRY_RUN", "CRASHED"}
Failures == {"ABORTED_STAGING", "PLAN_FAILED", "CRASHED"}

Steps == {"down", "idle", "reconcile", "forget", "scan", "list", "select", "plan",
          "stage", "snapshot", "marker", "clear", "upload", "settle",
          "records", "cursor", "success", "unmark", "reload", "observe",
          "setOk", "degrade", "degradeUnmark", "evict", "finish"}

\* The stories, and the chapter ids, of a sequence of chapters or records.
ItemsOf(s) == [i \in DOMAIN s |-> s[i].item]
IdsOf(s)   == [i \in DOMAIN s |-> s[i].id]
AllReady(s) == \A i \in DOMAIN s : s[i].ready
SetOf(s)   == {s[i] : i \in DOMAIN s}

\* The tonie's own truth is known to be doubtful: it is to be repaired.
Owed(a) == state[a] = "DEGRADED" \/ marker[a] # NoStaged

\* The tonie holds the committed load: its chapters, in order, all playable.
Intact(a) == /\ ItemsOf(live[a]) = ItemsOf(records[a])
             /\ IdsOf(live[a]) = IdsOf(records[a])
             /\ AllReady(live[a])

-----------------------------------------------------------------------------
(* Planning and the comparisons a run decides by *)

\* choose_next: the whole library for an album, the library from the cursor
\* on for a serial, the story at the cursor for a single.
PlanItems(a) ==
  LET fromCursor == [i \in 1..N |-> (cursor[a] + i - 1) % N]
  IN  CASE Mode[a] = "album"  -> [i \in 1..N |-> i - 1]
        [] Mode[a] = "serial" -> fromCursor
        [] OTHER              -> SubSeq(fromCursor, 1, 1)

Rotates(a) == Mode[a] # "album"

\* What fit_fill keeps of the plan: the first Fit[a] stories.
FittedLoad(a) == [items |-> SubSeq(PlanItems(a), 1, Fit[a]), rotates |-> Rotates(a)]

\* domain.idempotency.already_current
MatchesRecords(a, intended) ==
  /\ records[a] # <<>>
  /\ ItemsOf(records[a]) = intended
  /\ Len(live[a]) = Len(records[a])
  /\ \A i \in DOMAIN records[a] : \E j \in DOMAIN live[a] :
       live[a][j].id = records[a][i].id /\ live[a][j].ready

\* Mutant of AlreadyCurrent: the rotation window is forgotten.
AlreadyCurrentIntendedOnly(a) == MatchesRecords(a, PlanItems(a))

\* Orchestrator._already_current: what is intended, or, for a plan that
\* rotates, the load committed in this rotation window.
AlreadyCurrent(a) ==
  \/ MatchesRecords(a, PlanItems(a))
  \/ Rotates(a) /\ rotated[a] /\ MatchesRecords(a, ItemsOf(records[a]))

\* Mutant of LiveMatchesStaged: a chapter may still be transcoding.
LiveMatchesStagedByTitle(a) == ItemsOf(live[a]) = staged.items

\* Orchestrator._live_matches_staged
LiveMatchesStaged(a) == ItemsOf(live[a]) = staged.items /\ AllReady(live[a])

\* The outcomes of a run's reports.
Said == ({reports[a] : a \in Assignments} \ {"none"})
          \union {"UNMANAGED" : u \in unmanaged}

\* Mutant of RunOutcome: DEGRADED is not looked for.
RunOutcomeBlindToDegraded ==
  CASE noTargets               -> "FAILED"
    [] Said = {}               -> "NOTHING_TO_DO"
    [] Said \cap Failures # {} -> "FAILED"
    [] OTHER                   -> "OK"

\* RunReport.outcome
RunOutcome ==
  CASE noTargets               -> "FAILED"
    [] Said = {}               -> "NOTHING_TO_DO"
    [] "DEGRADED" \in Said     -> "DEGRADED"
    [] Said \cap Failures # {} -> "FAILED"
    [] OTHER                   -> "OK"

\* Chapter ids are never reused while anything still refers to them.
FreeIds(a) == ChapterIds \ (SetOf(IdsOf(live[a])) \union SetOf(IdsOf(records[a])))

-----------------------------------------------------------------------------
Init ==
  /\ live \in [Assignments -> {<<>>, <<[item |-> Foreign, id |-> 0, ready |-> TRUE]>>}]
  /\ records = [a \in Assignments |-> <<>>]
  /\ marker = [a \in Assignments |-> NoStaged]
  /\ state = [a \in Assignments |-> "OK"]
  /\ stagedJson = [a \in Assignments |-> NoStaged]
  /\ cursor = [a \in Assignments |-> 0]
  /\ rotated = [a \in Assignments |-> FALSE]
  /\ known \in SUBSET Unmanaged /\ scanned \in BOOLEAN
  /\ snap = [a \in Assignments |-> <<>>]
  /\ files = [a \in Assignments |-> {}]
  /\ pc = "down" /\ via = "none" /\ apply = FALSE
  /\ repairs = {} /\ rotations = {} /\ unmanaged = {} /\ noTargets = FALSE
  /\ reports = [a \in Assignments |-> "none"]
  /\ cur = NoTonie /\ path = "swap" /\ staged = NoStaged
  /\ done = 0 /\ tries = 0 /\ result = <<>>
  /\ faults = 0

\* A fault is something the environment does, a bounded number of times.
Fault   == faults < MaxFaults /\ faults' = faults + 1
NoFault == UNCHANGED faults

ResetJob == /\ cur' = NoTonie /\ path' = "swap" /\ staged' = NoStaged
            /\ done' = 0 /\ tries' = 0 /\ result' = <<>>

ResetRun == /\ via' = "none" /\ apply' = FALSE /\ noTargets' = FALSE
            /\ repairs' = {} /\ rotations' = {} /\ unmanaged' = {}
            /\ reports' = [a \in Assignments |-> "none"]

\* The work on one tonie ends: back to the run's loop, or, for a repair from
\* the dashboard, back to waiting.
EndJob(outcome) ==
  /\ ResetJob
  /\ IF via = "run"
       THEN /\ pc' = "select"
            /\ reports' = [reports EXCEPT ![cur] = outcome]
            /\ UNCHANGED <<via, apply, repairs, rotations, unmanaged, noTargets>>
       ELSE pc' = "idle" /\ ResetRun

\* A step that only moves on within the work on one tonie.
Goto(step) == pc' = step /\ UNCHANGED <<runVars, cur, path>>

-----------------------------------------------------------------------------
(* The process, and what starts work in it. OrchestratorRunner *)

Boot == /\ pc = "down"
        /\ pc' = "reconcile" /\ via' = "boot"
        /\ UNCHANGED <<sinkVars, storeVars, diskVars, apply, repairs, rotations,
                       reports, unmanaged, noTargets, jobVars, faults>>

\* _run_locked, for all tonies or for some that have a row. rotations and
\* unmanaged hold what was asked for until the listing splits it.
StartRun(asked, write) ==
  /\ pc = "idle"
  /\ asked = Tonies \/ asked \subseteq Assignments \union known
  /\ pc' = "reconcile" /\ via' = "run" /\ apply' = write
  /\ rotations' = asked \cap Assignments /\ unmanaged' = asked \cap Unmanaged
  /\ UNCHANGED <<sinkVars, storeVars, diskVars, repairs, reports, noTargets,
                 jobVars, faults>>

ScheduledRun == StartRun(Tonies, TRUE)
ManualRun    == \E asked \in SUBSET Tonies, write \in BOOLEAN : StartRun(asked, write)

\* The dashboard's Repair, which asks for no particular state of the tonie
\* and reconciles nothing.
StartRepair(a) ==
  /\ pc = "idle"
  /\ pc' = "reload" /\ via' = "repair" /\ cur' = a /\ path' = "repair"
  /\ apply' \in BOOLEAN
  /\ UNCHANGED <<sinkVars, storeVars, diskVars, repairs, rotations, reports,
                 unmanaged, noTargets, staged, done, tries, result, faults>>

\* The process is killed, the host reboots. What is stored stays.
Crash == /\ pc # "down"
         /\ Fault
         /\ pc' = "down" /\ ResetRun /\ ResetJob
         /\ UNCHANGED <<sinkVars, storeVars, diskVars>>

\* An exception ends the run but not the process: one from outside the work
\* on a tonie, or one that is no Exception.
RunAborts == /\ via \in {"run", "repair"}
             /\ Fault
             /\ pc' = "idle" /\ ResetRun /\ ResetJob
             /\ UNCHANGED <<sinkVars, storeVars, diskVars>>

-----------------------------------------------------------------------------
(* reconcile_interrupted_swaps: each surviving marker becomes DEGRADED, then *)
(* the marker is deleted. *)

Reconcile(a) ==
  /\ pc = "reconcile"
  /\ marker[a] # NoStaged
  /\ state' = [state EXCEPT ![a] = "DEGRADED"]
  /\ stagedJson' = [stagedJson EXCEPT ![a] = marker[a]]
  /\ pc' = "forget" /\ cur' = a
  /\ UNCHANGED <<sinkVars, rowVars, records, marker, cursor, rotated, diskVars, runVars,
                 path, staged, done, tries, result, faults>>

Forget ==
  /\ pc = "forget"
  /\ marker' = [marker EXCEPT ![cur] = NoStaged]
  /\ pc' = "reconcile" /\ cur' = NoTonie
  /\ UNCHANGED <<sinkVars, rowVars, records, state, stagedJson, cursor, rotated, diskVars,
                 runVars, path, staged, done, tries, result, faults>>

ReconcileDone ==
  /\ pc = "reconcile"
  /\ \A a \in Assignments : marker[a] = NoStaged
  /\ IF via = "boot" THEN pc' = "idle" /\ via' = "none"
                     ELSE pc' = "scan" /\ UNCHANGED via
  /\ UNCHANGED <<sinkVars, storeVars, diskVars, apply, repairs, rotations,
                 reports, unmanaged, noTargets, jobVars, faults>>

\* _sync_media_root, in dry runs too: the item rows become what the folder
\* holds, unless the scan raises, which ends nothing. (The libraries of the
\* tonies here are not in that folder: what a scan does to one that is played
\* from is the subject of modules Library and Planning.)
ScanMedia ==
  /\ pc = "scan"
  /\ scanned' \in {scanned, TRUE}
  /\ pc' = "list"
  /\ UNCHANGED <<sinkVars, records, marker, state, stagedJson, cursor, rotated,
                 known, diskVars, runVars, jobVars, faults>>

-----------------------------------------------------------------------------
(* Orchestrator.run: the listing, then every repair, then every rotation. *)

\* What run() does with the listed tonies: a row for each of them, in dry runs
\* too, and a report for each that was asked for and has no library. A listing
\* without every managed tonie is the cloud's fault, not the program's.
Listing(listed) ==
  /\ IF Assignments \subseteq listed THEN NoFault ELSE Fault
  /\ known' = known \union (listed \cap Unmanaged)
  /\ unmanaged' = unmanaged \cap listed
  /\ pc' = "select"
  /\ UNCHANGED <<sinkVars, records, marker, state, stagedJson, cursor, rotated,
                 scanned, diskVars, via, apply, reports, noTargets, jobVars>>

\* Mutant of List: DEGRADED tonies are due for nothing.
ListRotationsOnly ==
  /\ pc = "list"
  /\ \E listed \in SUBSET Tonies \ {{}} :
       /\ Listing(listed)
       /\ rotations' = {a \in listed \cap rotations : state[a] = "OK"}
  /\ UNCHANGED repairs

List ==
  /\ pc = "list"
  /\ \E listed \in SUBSET Tonies \ {{}} :
       /\ Listing(listed)
       /\ repairs'   = {a \in listed \cap rotations : state[a] = "DEGRADED"}
       /\ rotations' = {a \in listed \cap rotations : state[a] = "OK"}

\* No targets at all although tonies are managed: the run has failed.
ListNothing ==
  /\ pc = "list"
  /\ Fault
  /\ noTargets' = TRUE /\ repairs' = {} /\ rotations' = {} /\ unmanaged' = {}
  /\ pc' = "select"
  /\ UNCHANGED <<sinkVars, storeVars, diskVars, via, apply, reports, jobVars>>

SelectRepair(a) ==
  /\ pc = "select"
  /\ a \in repairs
  /\ repairs' = repairs \ {a}
  /\ pc' = "reload" /\ cur' = a /\ path' = "repair"
  /\ UNCHANGED <<sinkVars, storeVars, diskVars, via, apply, rotations, reports,
                 unmanaged, noTargets, staged, done, tries, result, faults>>

SelectRotation(a) ==
  /\ pc = "select"
  /\ repairs = {}
  /\ a \in rotations
  /\ rotations' = rotations \ {a}
  /\ pc' = "plan" /\ cur' = a /\ path' = "swap"
  /\ UNCHANGED <<sinkVars, storeVars, diskVars, via, apply, repairs, reports,
                 unmanaged, noTargets, staged, done, tries, result, faults>>

RunEnd ==
  /\ pc = "select"
  /\ repairs = {} /\ rotations = {}
  /\ pc' = IF apply THEN "evict" ELSE "finish"
  /\ UNCHANGED <<sinkVars, storeVars, diskVars, runVars, jobVars, faults>>

\* The stories prefetch warms next, and so the stories evict keeps.
Upcoming(a) ==
  CASE Depth = 0         -> {}
    [] Mode[a] = "album" -> Stories \ SetOf(ItemsOf(records[a]))
    [] OTHER             -> {(cursor[a] + i) % N : i \in 0..(Depth - 1)}

\* prefetch_assignment: whatever of the upcoming stories can be fetched.
Prefetch(a) ==
  \E got \in SUBSET Upcoming(a) : files' = [files EXCEPT ![a] = @ \union got]

\* Mutant of Protected: what is staged for a repair is not protected.
ProtectedWithoutStaged(a) == Upcoming(a) \union SetOf(ItemsOf(records[a]))

\* retention.protected_paths
Protected(a) ==
  UNION { Upcoming(a), SetOf(ItemsOf(records[a])),
          IF state[a] = "DEGRADED" THEN SetOf(stagedJson[a].items) ELSE {} }

\* evict deletes least recently used renditions until the budget is met:
\* which ones that are is left open, the protected ones excepted.
Evict ==
  /\ pc = "evict"
  /\ \E kept \in [Assignments -> SUBSET Stories] :
       /\ \A a \in Assignments : /\ kept[a] \subseteq files[a]
                                 /\ files[a] \cap Protected(a) \subseteq kept[a]
       /\ files' = kept
  /\ pc' = "finish"
  /\ UNCHANGED <<sinkVars, storeVars, snap, runVars, jobVars, faults>>

Finish ==
  /\ pc = "finish"
  /\ pc' = "idle" /\ ResetRun
  /\ UNCHANGED <<sinkVars, storeVars, diskVars, jobVars, faults>>

-----------------------------------------------------------------------------
(* run_assignment: PLAN and STAGE. Nothing here touches a tonie. *)

Skip ==
  /\ pc = "plan" /\ path = "swap"
  /\ AlreadyCurrent(cur)
  /\ EndJob("SKIPPED_ALREADY_CURRENT")
  /\ UNCHANGED <<sinkVars, storeVars, diskVars, faults>>

DryRun ==
  /\ ~apply
  /\ \/ pc = "plan" /\ path = "swap" /\ ~AlreadyCurrent(cur)
     \/ pc = "reload"
  /\ EndJob("DRY_RUN")
  /\ UNCHANGED <<sinkVars, storeVars, diskVars, faults>>

\* Mutant of Plan: a dry run goes on to staging.
PlanInDryRun ==
  /\ pc = "plan"
  /\ path = "repair" \/ ~AlreadyCurrent(cur)
  /\ Goto("stage")
  /\ UNCHANGED <<sinkVars, storeVars, diskVars, staged, done, tries, result, faults>>

\* A repair that lost its staged files plans afresh, without asking whether
\* the tonie is already current.
Plan ==
  /\ pc = "plan"
  /\ path = "repair" \/ (apply /\ ~AlreadyCurrent(cur))
  /\ Goto("stage")
  /\ UNCHANGED <<sinkVars, storeVars, diskVars, staged, done, tries, result, faults>>

\* The target is gone from the listing, the library is empty, a source
\* cannot be resolved.
PlanFails ==
  /\ pc \in {"plan", "reload"} /\ (pc = "reload" => apply)
  /\ Fault
  /\ EndJob("PLAN_FAILED")
  /\ UNCHANGED <<sinkVars, storeVars, diskVars>>

\* Fetch, fit, render and verify: files in the cache, and nothing else.
Stage ==
  /\ pc = "stage"
  /\ staged' = FittedLoad(cur)
  /\ files' = [files EXCEPT ![cur] = @ \union SetOf(staged'.items)]
  /\ Goto(IF path = "swap" THEN "snapshot" ELSE "observe")
  /\ UNCHANGED <<sinkVars, storeVars, snap, done, tries, result, faults>>

\* Mutant of StageFails: what one tonie raises ends the run for all.
StageEndsRun ==
  /\ pc = "stage"
  /\ IF cur \in Broken THEN NoFault ELSE Fault
  /\ pc' = "idle" /\ ResetRun /\ ResetJob
  /\ UNCHANGED <<sinkVars, storeVars, diskVars>>

\* One story cannot be fetched, rendered or verified: of a Broken tonie on any
\* night, beside the faults that are counted. A swap is abandoned; a repair goes back to DEGRADED with the staged
\* files it had.
StageFails ==
  /\ pc = "stage"
  /\ IF cur \in Broken THEN NoFault ELSE Fault
  /\ \E got \in SUBSET SetOf(FittedLoad(cur).items) :
       files' = [files EXCEPT ![cur] = @ \union got]
  /\ IF path = "swap"
       THEN EndJob("ABORTED_STAGING")
       ELSE /\ staged' = stagedJson[cur]
            /\ Goto("degrade") /\ UNCHANGED <<done, tries, result>>
  /\ UNCHANGED <<sinkVars, storeVars, snap>>

-----------------------------------------------------------------------------
(* swap: SNAPSHOT, swap marker, CLEAR, UPLOAD, SETTLE. repair shares them. *)

\* Mutant of Snapshot: an older snapshot of the tonie is kept.
SnapshotOnce ==
  /\ pc = "snapshot"
  /\ snap' = IF snap[cur] = <<>> THEN [snap EXCEPT ![cur] = live[cur]] ELSE snap
  /\ Goto("marker")
  /\ UNCHANGED <<sinkVars, storeVars, files, staged, done, tries, result, faults>>

Snapshot ==
  /\ pc = "snapshot"
  /\ snap' = [snap EXCEPT ![cur] = live[cur]]
  /\ Goto("marker")
  /\ UNCHANGED <<sinkVars, storeVars, files, staged, done, tries, result, faults>>

SnapshotFails ==
  /\ pc = "snapshot"
  /\ Fault
  /\ EndJob("ABORTED_STAGING")
  /\ UNCHANGED <<sinkVars, storeVars, diskVars>>

\* Mutant of PutMarker: nothing is written ahead of the clear.
PutNoMarker ==
  /\ pc = "marker"
  /\ Goto("clear")
  /\ UNCHANGED <<sinkVars, storeVars, diskVars, staged, done, tries, result, faults>>

PutMarker ==
  /\ pc = "marker"
  /\ marker' = [marker EXCEPT ![cur] = staged]
  /\ Goto("clear")
  /\ UNCHANGED <<sinkVars, rowVars, records, state, stagedJson, cursor, rotated, diskVars,
                 staged, done, tries, result, faults>>

Clear ==
  /\ pc = "clear"
  /\ live' = [live EXCEPT ![cur] = <<>>]
  /\ Goto("upload")
  /\ UNCHANGED <<storeVars, diskVars, staged, done, tries, result, faults>>

\* The call raises, whatever it did to the tonie.
ClearRaises ==
  /\ pc = "clear"
  /\ Fault
  /\ \E k \in 0..Len(live[cur]) : live' = [live EXCEPT ![cur] = SubSeq(@, 1, k)]
  /\ Goto("degrade")
  /\ UNCHANGED <<storeVars, diskVars, staged, done, tries, result>>

\* The chapter being uploaded arrives: at the end, with a new id, and not yet
\* playable.
Lands ==
  /\ FreeIds(cur) # {}
  /\ LET chapter == [item |-> staged.items[done + 1],
                     id |-> CHOOSE i \in FreeIds(cur) : TRUE, ready |-> FALSE]
     IN  live' = [live EXCEPT ![cur] = Append(@, chapter)]

Upload ==
  /\ pc = "upload"
  /\ Lands
  /\ done' = done + 1 /\ tries' = 0
  /\ Goto(IF done + 1 = Len(staged.items) THEN "settle" ELSE "upload")
  /\ UNCHANGED <<storeVars, diskVars, staged, result, faults>>

\* The call raises, and the chapter may be on the tonie all the same. The
\* same chapter is tried again, Attempts times in all.
UploadRaises ==
  /\ pc = "upload"
  /\ Fault
  /\ Lands \/ UNCHANGED live
  /\ tries' = tries + 1
  /\ Goto(IF tries + 1 = Attempts THEN "degrade" ELSE "upload")
  /\ UNCHANGED <<storeVars, diskVars, staged, done, result>>

\* The poll reads a tonie that finished transcoding at the expected length.
SettleOk ==
  /\ pc = "settle"
  /\ AllReady(live[cur])
  /\ Len(live[cur]) = Len(staged.items)
  /\ result' = IdsOf(live[cur])
  /\ Goto("records")
  /\ UNCHANGED <<sinkVars, storeVars, diskVars, staged, done, tries, faults>>

\* It finished at another length, or with another number of chapters.
SettleMismatch ==
  /\ pc = "settle"
  /\ AllReady(live[cur])
  /\ Len(live[cur]) # Len(staged.items)
  /\ Goto("degrade")
  /\ UNCHANGED <<sinkVars, storeVars, diskVars, staged, done, tries, result, faults>>

\* The poll times out, though the tonie may still finish later, or raises.
SettleFails ==
  /\ pc = "settle"
  /\ Fault
  /\ Goto("degrade")
  /\ UNCHANGED <<sinkVars, storeVars, diskVars, staged, done, tries, result>>

-----------------------------------------------------------------------------
(* _commit: four writes, each durable before the next. *)

\* chapters.replace_for_assignment, one transaction.
CommitRecords ==
  /\ pc = "records"
  /\ records' = [records EXCEPT ![cur] =
                   [i \in DOMAIN staged.items |->
                      [item |-> staged.items[i], id |-> result[i]]]]
  /\ Goto("cursor")
  /\ UNCHANGED <<sinkVars, rowVars, marker, state, stagedJson, cursor, rotated, diskVars,
                 staged, done, tries, result, faults>>

\* Mutant of CommitCursor: it advances by one, whatever was loaded.
CommitCursorByOne ==
  /\ pc = "cursor"
  /\ cursor' = IF staged.rotates THEN [cursor EXCEPT ![cur] = (@ + 1) % N] ELSE cursor
  /\ Goto("success")
  /\ UNCHANGED <<sinkVars, rowVars, records, marker, state, stagedJson, rotated, diskVars,
                 staged, done, tries, result, faults>>

CommitCursor ==
  /\ pc = "cursor"
  /\ cursor' = IF staged.rotates
                 THEN [cursor EXCEPT ![cur] = (@ + Len(staged.items)) % N]
                 ELSE cursor
  /\ Goto("success")
  /\ UNCHANGED <<sinkVars, rowVars, records, marker, state, stagedJson, rotated, diskVars,
                 staged, done, tries, result, faults>>

CommitSuccess ==
  /\ pc = "success"
  /\ rotated' = [rotated EXCEPT ![cur] = TRUE]
  /\ Goto("unmark")
  /\ UNCHANGED <<sinkVars, rowVars, records, marker, state, stagedJson, cursor, diskVars,
                 staged, done, tries, result, faults>>

CommitUnmark ==
  /\ pc = "unmark"
  /\ marker' = [marker EXCEPT ![cur] = NoStaged]
  /\ IF path = "swap"
       THEN EndJob("SWAPPED") /\ Prefetch(cur)
       ELSE Goto("setOk") /\ UNCHANGED <<files, staged, done, tries, result>>
  /\ UNCHANGED <<sinkVars, rowVars, records, state, stagedJson, cursor, rotated, snap, faults>>

-----------------------------------------------------------------------------
(* repair, and what every failure past the marker comes to: _degrade *)

\* _reload_staged: every staged file is still there and verifies.
ReloadOk ==
  /\ pc = "reload" /\ apply
  /\ stagedJson[cur] # NoStaged
  /\ SetOf(stagedJson[cur].items) \subseteq files[cur]
  /\ staged' = stagedJson[cur]
  /\ Goto("observe")
  /\ UNCHANGED <<sinkVars, storeVars, diskVars, done, tries, result, faults>>

\* Nothing is staged, or a file of it is gone: plan afresh.
ReloadNothing ==
  /\ pc = "reload" /\ apply
  /\ stagedJson[cur] = NoStaged \/ ~(SetOf(stagedJson[cur].items) \subseteq files[cur])
  /\ Goto("plan")
  /\ UNCHANGED <<sinkVars, storeVars, diskVars, staged, done, tries, result, faults>>

\* A staged file is there but does not verify any more.
ReloadCorrupt ==
  /\ pc = "reload" /\ apply
  /\ stagedJson[cur] # NoStaged
  /\ Fault
  /\ Goto("plan")
  /\ UNCHANGED <<sinkVars, storeVars, diskVars, staged, done, tries, result>>

\* R20: measure first. An empty tonie is only filled; one that already holds
\* the staged load is only committed; any other is swapped.
Observe ==
  /\ pc = "observe"
  /\ \/ /\ live[cur] = <<>>
        /\ Goto("upload") /\ UNCHANGED result
     \/ /\ live[cur] # <<>> /\ LiveMatchesStaged(cur)
        /\ result' = IdsOf(live[cur])
        /\ Goto("records")
     \/ /\ live[cur] # <<>> /\ ~LiveMatchesStaged(cur)
        /\ Goto("snapshot") /\ UNCHANGED result
  /\ UNCHANGED <<sinkVars, storeVars, diskVars, staged, done, tries, faults>>

SetOk ==
  /\ pc = "setOk"
  /\ state' = [state EXCEPT ![cur] = "OK"]
  /\ stagedJson' = [stagedJson EXCEPT ![cur] = NoStaged]
  /\ EndJob("REPAIRED") /\ Prefetch(cur)
  /\ UNCHANGED <<sinkVars, rowVars, records, marker, cursor, rotated, snap, faults>>

\* Mutant of Degrade: the files are stored, the state is not.
DegradeKeepsState ==
  /\ pc = "degrade"
  /\ stagedJson' = [stagedJson EXCEPT ![cur] = staged]
  /\ Goto("degradeUnmark")
  /\ UNCHANGED <<sinkVars, rowVars, records, marker, state, cursor, rotated, diskVars,
                 staged, done, tries, result, faults>>

Degrade ==
  /\ pc = "degrade"
  /\ state' = [state EXCEPT ![cur] = "DEGRADED"]
  /\ stagedJson' = [stagedJson EXCEPT ![cur] = staged]
  /\ Goto("degradeUnmark")
  /\ UNCHANGED <<sinkVars, rowVars, records, marker, cursor, rotated, diskVars, staged,
                 done, tries, result, faults>>

DegradeUnmark ==
  /\ pc = "degradeUnmark"
  /\ marker' = [marker EXCEPT ![cur] = NoStaged]
  /\ EndJob("DEGRADED")
  /\ UNCHANGED <<sinkVars, rowVars, records, state, stagedJson, cursor, rotated, diskVars, faults>>

\* An exception of no expected class, in the work on one tonie. A run asks
\* the marker whether the tonie was touched; the dashboard's repair just ends.
Raises ==
  /\ pc \in {"plan", "reload", "stage", "snapshot", "marker", "observe", "upload",
             "settle", "records", "cursor", "success", "unmark", "setOk"}
  /\ Fault
  /\ IF via = "run" /\ marker[cur] # NoStaged
       THEN /\ staged' = marker[cur]
            /\ Goto("degrade") /\ UNCHANGED <<done, tries, result>>
       ELSE EndJob("CRASHED")
  /\ UNCHANGED <<sinkVars, storeVars, diskVars>>

-----------------------------------------------------------------------------
(* The world *)

\* The cloud finishes transcoding what was uploaded to a tonie.
Transcode(a) ==
  /\ ~AllReady(live[a])
  /\ live' = [live EXCEPT ![a] = [i \in DOMAIN @ |-> [@[i] EXCEPT !.ready = TRUE]]]
  /\ UNCHANGED <<storeVars, diskVars, pc, runVars, jobVars, faults>>

\* The next rotation window begins.
NewDay ==
  /\ \E a \in Assignments : rotated[a]
  /\ rotated' = [a \in Assignments |-> FALSE]
  /\ UNCHANGED <<sinkVars, rowVars, records, marker, state, stagedJson, cursor, diskVars,
                 pc, runVars, jobVars, faults>>

\* Somebody puts a file into the mounted folder, or takes one out.
FolderChanges ==
  /\ scanned /\ scanned' = FALSE
  /\ UNCHANGED <<sinkVars, records, marker, state, stagedJson, cursor, rotated,
                 known, diskVars, pc, runVars, jobVars, faults>>

\* What the process does on its own, without a fault.
Work ==
  \/ \E a \in Assignments : Reconcile(a) \/ SelectRepair(a) \/ SelectRotation(a)
  \/ Forget \/ ReconcileDone \/ ScanMedia
  \/ List \/ RunEnd \/ Evict \/ Finish
  \/ Skip \/ DryRun \/ Plan \/ Stage
  \/ Snapshot \/ PutMarker \/ Clear \/ Upload \/ SettleOk \/ SettleMismatch
  \/ CommitRecords \/ CommitCursor \/ CommitSuccess \/ CommitUnmark
  \/ ReloadOk \/ ReloadNothing \/ Observe \/ SetOk
  \/ Degrade \/ DegradeUnmark

Faulty ==
  \/ Crash \/ RunAborts \/ Raises
  \/ ListNothing \/ PlanFails \/ StageFails \/ SnapshotFails
  \/ ClearRaises \/ UploadRaises \/ SettleFails \/ ReloadCorrupt

Next ==
  \/ Work
  \/ Faulty
  \/ Boot \/ ScheduledRun \/ ManualRun
  \/ \E a \in Assignments : StartRepair(a) \/ Transcode(a)
  \/ NewDay \/ FolderChanges

Spec == Init /\ [][Next]_vars

-----------------------------------------------------------------------------
(* Fairness. The process works on while it is up, compose restarts it, the *)
(* cloud finishes transcoding, and the schedule fires every day: a run in  *)
(* its way only delays it (run_scheduled waits for the lock), which is why *)
(* the scheduled run needs strong fairness. Faults are bounded by          *)
(* MaxFaults: the promise below is about what happens once they stop.      *)

Fairness ==
  /\ WF_vars(Work \/ (StageFails /\ cur \in Broken))
  /\ WF_vars(Boot)
  /\ SF_vars(ScheduledRun)
  /\ \A a \in Assignments : WF_vars(Transcode(a))

FairSpec == Spec /\ Fairness

-----------------------------------------------------------------------------
(* Properties *)

\* Every variable keeps its type; a job has a tonie exactly while one of its
\* steps is next.
TypeOK ==
  /\ live \in [Assignments -> Seq(Chapters)]
  /\ records \in [Assignments -> Seq(Records)]
  /\ marker \in [Assignments -> Loads]
  /\ state \in [Assignments -> {"OK", "DEGRADED"}]
  /\ stagedJson \in [Assignments -> Loads]
  /\ cursor \in [Assignments -> Stories]
  /\ rotated \in [Assignments -> BOOLEAN]
  /\ known \in SUBSET Unmanaged /\ scanned \in BOOLEAN
  /\ snap \in [Assignments -> Seq(Chapters)]
  /\ files \in [Assignments -> SUBSET Stories]
  /\ pc \in Steps
  /\ via \in {"none", "boot", "run", "repair"}
  /\ apply \in BOOLEAN /\ noTargets \in BOOLEAN
  /\ repairs \in SUBSET Assignments /\ rotations \in SUBSET Assignments
  /\ reports \in [Assignments -> Outcomes] /\ unmanaged \in SUBSET Unmanaged
  /\ cur \in Assignments \union {NoTonie}
  /\ (pc \in {"down", "idle", "reconcile", "scan", "list", "select", "evict", "finish"}
        <=> cur = NoTonie)
  /\ path \in {"swap", "repair"}
  /\ staged \in Loads
  /\ done \in Nat /\ tries \in Nat
  /\ result \in Seq(ChapterIds)
  /\ faults \in 0..MaxFaults

\* A tonie that was loaded once and is neither DEGRADED nor marked holds
\* exactly the committed load, playable: whatever was interrupted, raised or
\* timed out, no tonie is left wrong with the store calling it OK.
NoSilentDamage ==
  \A a \in Assignments : ~Owed(a) /\ records[a] # <<>> => Intact(a)

\* Why it holds: what each step of a job may rely on. Together with TypeOK
\* this is inductive.
FreshJob ==         \* nothing is counted as uploaded before the upload
  pc \notin {"upload", "settle", "records", "cursor", "success", "unmark",
             "setOk", "degrade", "degradeUnmark"} => done = 0
StagedLoad ==       \* what is being put on a tonie is not nothing
  pc \in {"observe", "snapshot", "marker", "clear", "upload", "settle", "records"}
    => staged # NoStaged
MarkedBeforeClear == pc = "clear" => marker[cur] # NoStaged
OpenWhileLoading == \* a tonie is filled only while owed, or before its first load
  pc \in {"upload", "settle"} => Owed(cur) \/ records[cur] = <<>>
UploadedSoFar ==    \* retried uploads only ever add chapters
  pc \in {"upload", "settle"} =>
    /\ done <= Len(live[cur])
    /\ done = Len(live[cur]) => ItemsOf(live[cur]) = SubSeq(staged.items, 1, done)
    /\ IF pc = "settle" THEN done = Len(staged.items) ELSE done < Len(staged.items)
SettledIsStaged ==
  pc = "records" => /\ ItemsOf(live[cur]) = staged.items
                    /\ IdsOf(live[cur]) = result
                    /\ AllReady(live[cur])
CommittedIsLive ==
  pc \in {"cursor", "success", "unmark", "setOk"} => Intact(cur) /\ records[cur] # <<>>
DegradedIsStored ==
  pc \in {"forget", "degradeUnmark"} => state[cur] = "DEGRADED"

Consistent ==
  /\ NoSilentDamage /\ FreshJob /\ StagedLoad /\ MarkedBeforeClear
  /\ OpenWhileLoading /\ UploadedSoFar /\ SettledIsStaged
  /\ CommittedIsLive /\ DegradedIsStored

\* Chapters are taken off a tonie only by a run that may write, after a
\* snapshot of exactly those chapters, and with a durable marker naming
\* verified files that are in the cache to replace them.
Shrinks(a) == Len(live'[a]) < Len(live[a])
ClearedOnlyWhenArmed ==
  [][\A a \in Assignments :
       Shrinks(a) => /\ apply
                     /\ ItemsOf(snap[a]) = ItemsOf(live[a])
                     /\ marker[a] # NoStaged
                     /\ SetOf(marker[a].items) \subseteq files[a]]_vars

\* The staged files of a DEGRADED tonie, or of an interrupted swap, stay in
\* the cache until it is repaired: retention never deletes them, so a repair
\* needs no download (retention.py, run.py repair).
StagedFilesKept ==
  \A a \in Assignments :
    /\ state[a] = "DEGRADED" => SetOf(stagedJson[a].items) \subseteq files[a]
    /\ SetOf(marker[a].items) \subseteq files[a]

\* The cursor moves only while the tonie holds, playable, the load it was
\* committed with, and by exactly the length of that load; an album's never
\* moves (_commit: "Advance by N, not by one").
CursorFollowsLoad ==
  [][\A a \in Assignments :
       cursor'[a] # cursor[a] =>
         /\ Mode[a] # "album"
         /\ records[a] # <<>> /\ Intact(a)
         /\ cursor'[a] = (cursor[a] + Len(records[a])) % N]_vars

\* A writing run that reports OK left every managed tonie it reports on in
\* order: loaded, intact, not owed (RunReport.outcome, "it worked").
HonestRun ==
  pc = "finish" /\ apply /\ RunOutcome = "OK" =>
    \A a \in Assignments :
      reports[a] # "none" => ~Owed(a) /\ records[a] # <<>> /\ Intact(a)

\* A writing run that reports OK did something about a managed tonie ("`OK` means
\* something happened and it worked ... an empty run is `NOTHING_TO_DO`",
\* RunReport.outcome). The code does not keep this: the reports of unmanaged
\* tonies make a run OK that met nothing else.
OkMeansSomethingHappened ==
  pc = "finish" /\ apply /\ RunOutcome = "OK" =>
    \E a \in Assignments : reports[a] # "none"

\* A dry run writes nothing of what the tonies hold, are owed or play next: not
\* on the tonies, in their rows or in the cache, also where it meets a DEGRADED
\* tonie. It does write rows of the catalogue, and rows of new tonies.
\* (Reconciling what an earlier run left is done before it.)
InDryRun == via \in {"run", "repair"} /\ ~apply /\ pc \notin {"reconcile", "forget"}
DryRunSparesTonies ==
  [][InDryRun =>
       /\ UNCHANGED <<records, marker, state, stagedJson, cursor, files, snap>>
       /\ \A a \in Assignments : ItemsOf(live'[a]) = ItemsOf(live[a])]_vars

\* Orchestrator.run: "a dry run reads and plans but fetches nothing and changes
\* nothing (binding constraint)", said of all it does from the listing on. The
\* code does not keep this: it stores each tonie it meets for the first time.
DryRunChangesNothing ==
  [][InDryRun /\ pc # "scan" =>
       /\ UNCHANGED <<records, marker, state, stagedJson, cursor, known, files, snap>>
       /\ \A a \in Assignments : ItemsOf(live'[a]) = ItemsOf(live[a])]_vars

FilledThisWindow(a) ==
  state[a] = "OK" /\ rotated[a] /\ records[a] # <<>> /\ Intact(a)

\* No run clears a correct tonie that was already filled in this rotation
\* window ("three runs in one afternoon produce one upload").
OneLoadPerWindow ==
  [][\A a \in Assignments : via = "run" /\ Shrinks(a) => ~FilledThisWindow(a)]_vars

\* Nor does the dashboard's Repair: "a correct tonie is not replaced again
\* inside the same rotation window just because someone re-ran the job or
\* clicked twice" (_already_current).  The code does not keep this: a second
\* click on Repair does it.
RepairSparesCorrectTonie ==
  [][\A a \in Assignments : via = "repair" /\ Shrinks(a) => ~FilledThisWindow(a)]_vars

\* The cursor only moves past stories the tonie was given at that cursor: no
\* story is skipped (_commit: "One extra upload, never a skipped story").
NoStorySkipped ==
  [][\A a \in Assignments :
       cursor'[a] # cursor[a] =>
         \A i \in DOMAIN records[a] : records[a][i].item = (cursor[a] + i - 1) % N]_vars

\* A tonie that is owed is eventually in order again, without anybody's help:
\* the scheduled runs repair it.
OwedIsRepaired == \A a \in Assignments \ Broken : Owed(a) ~> ~Owed(a)

\* Every tonie whose stories can be fetched is eventually loaded, though others
\* may fail in every run, and whatever happens to the runs and repairs before
\* ("every other tonie continues", _run_one).
EveryTonieLoaded == \A a \in Assignments \ Broken : <>(records[a] # <<>>)

\* Orchestrator implements TonieGuard.
Guard == INSTANCE TonieGuard WITH
           Tonies   <- Assignments,
           Stories  <- Stories \union {Foreign},
           content  <- [a \in Assignments |-> ItemsOf(live[a])],
           believed <- [a \in Assignments |-> ItemsOf(records[a])],
           owed     <- [a \in Assignments |-> Owed(a)]

\* Each step of the code is a step, or a stutter, of the promise: chapters
\* come and go only on a tonie that is admitted to be owed, and the admission
\* is withdrawn only when the store's belief is true.
ImplementsGuard == Guard!Init /\ [][Guard!Next]_(Guard!vars)

=============================================================================
