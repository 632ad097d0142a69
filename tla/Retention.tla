----------------------------- MODULE Retention -----------------------------
(***************************************************************************)
(* The cache: files that staging and prefetch put there, and that          *)
(* boxbutler/orchestrator/retention.py deletes when they exceed the        *)
(* budget. A run evicts at its end, while it holds the run lock. Two more  *)
(* evictions take no lock: the one of on_fire (boxbutler/main.py) after    *)
(* the scheduled run, and `cache evict --apply` of the command line. They  *)
(* delete while another run stages and uploads.                            *)
(*                                                                         *)
(* One serial tonie. A run is module Orchestrator seen from the cache:     *)
(* what it does to the tonie is left out, every file it makes, needs or    *)
(* drops is here, one step for each file and for each row.                 *)
(***************************************************************************)
EXTENDS Integers, Sequences, FiniteSets

CONSTANTS
  N,            \* stories of the library
  InFolder,     \* the stories whose audio lies in the library's folder
  Fit,          \* stories that make one load
  Depth,        \* prefetch_depth
  Budget,       \* cache_budget_bytes, in files
  Run,          \* the eviction of a run, under the run lock
  Others,       \* evictions that take no lock
  MaxFaults,    \* bound: failures of cloud and fetchers, kills
  MaxOthers     \* bound: how often evictions without the lock begin

Stories == 0..(N - 1)
Evictors == {Run} \union Others

ASSUME CacheAssumption ==
  /\ N \in Nat \ {0} /\ Fit \in 1..N /\ Depth \in 0..N /\ Budget \in Nat
  /\ InFolder \subseteq Stories
  /\ Run \notin Others
  /\ MaxFaults \in Nat /\ MaxOthers \in Nat

VARIABLES
  disk,       \* the files in the cache directory
  rows,       \* the files that source_file and rendition rows point at
  cursor,     \* of the assignment
  state,      \* of the assignment
  staged,     \* its staged_json
  records,    \* what its chapter records point at
  marker,     \* its swap marker
  pc,         \* where the run is
  load,       \* the load it stages or uploads
  todo,       \* the steps of staging or prefetching it has before it
  done,       \* how many chapters it has uploaded
  at,         \* where each eviction is
  listed,     \* the files it found
  doomed,     \* the files it will delete
  faults, others

cacheVars == <<disk, rows>>
rowVars   == <<cursor, state, staged, records, marker>>
runVars   == <<pc, load, todo, done>>
evictVars == <<at, listed, doomed>>
vars == <<cacheVars, rowVars, runVars, evictVars, faults, others>>

Source(i)    == [kind |-> "source", item |-> i]
Rendition(i) == [kind |-> "rendition", item |-> i]
Files == {Source(i) : i \in Stories \ InFolder} \union {Rendition(i) : i \in Stories}
Renditions(l) == {Rendition(l[k]) : k \in DOMAIN l}
SetOf(l) == {l[k] : k \in DOMAIN l}

Fault == faults < MaxFaults /\ faults' = faults + 1

Init ==
  /\ disk = {} /\ rows = {}
  /\ cursor = 0 /\ state = "OK" /\ staged = <<>> /\ records = <<>> /\ marker = <<>>
  /\ pc = "idle" /\ load = <<>> /\ todo = <<>> /\ done = 0
  /\ at = [e \in Evictors |-> "idle"]
  /\ listed = [e \in Evictors |-> {}]
  /\ doomed = [e \in Evictors |-> {}]
  /\ faults = 0 /\ others = 0

-----------------------------------------------------------------------------
(* A run: stage, or reload what is staged; upload; commit or degrade;       *)
(* prefetch; evict. *)

Task(op, i) == [op |-> op, item |-> i]

\* _stage_plan: fetch every story of the load, then render every one.
StageTasks(l) ==
  LET n == Len(l)
  IN  [k \in 1..(4 * n) |->
         LET j == (k + 1) \div 2
         IN  IF j <= n
               THEN Task(IF k % 2 = 1 THEN "fetch" ELSE "record", l[j])
               ELSE Task(IF k % 2 = 1 THEN "render" ELSE "upsert", l[j - n])]

\* prefetch_assignment: story by story (stage_item).
PrefetchTasks(l) ==
  [k \in 1..(4 * Len(l)) |->
     Task(<<"fetch", "record", "render", "upsert">>[((k - 1) % 4) + 1],
          l[((k - 1) \div 4) + 1])]

\* upcoming_item_ids of a serial library, and the load planned from there.
Upcoming(n) == [k \in 1..n |-> (cursor + k - 1) % N]

\* Mutant of Reload: the files of staged_json are not looked at.
ReloadBlindly ==
  /\ pc = "idle" /\ state = "DEGRADED"
  /\ staged # <<>>
  /\ load' = staged /\ done' = 0
  /\ pc' = "mark" /\ UNCHANGED todo
  /\ UNCHANGED <<cacheVars, rowVars, evictVars, faults, others>>

\* _reload_staged: every staged file is still there.
Reload ==
  /\ pc = "idle" /\ state = "DEGRADED"
  /\ staged # <<>> /\ Renditions(staged) \subseteq disk
  /\ load' = staged /\ done' = 0
  /\ pc' = "mark" /\ UNCHANGED todo
  /\ UNCHANGED <<cacheVars, rowVars, evictVars, faults, others>>

\* A new load; also for a repair whose staged files are not all there.
Plan ==
  /\ pc = "idle"
  /\ state = "DEGRADED" => staged = <<>> \/ ~(Renditions(staged) \subseteq disk)
  /\ load' = Upcoming(Fit) /\ done' = 0
  /\ todo' = StageTasks(Upcoming(Fit)) /\ pc' = "stage"
  /\ UNCHANGED <<cacheVars, rowVars, evictVars, faults, others>>

Doing(op, i) == pc \in {"stage", "prefetch"} /\ todo # <<>> /\ Head(todo) = Task(op, i)
Next1 == todo' = Tail(todo) /\ UNCHANGED <<pc, load, done>>

\* _fetch: what is in the folder or in the cache is not downloaded again.
Fetch(i) ==
  /\ Doing("fetch", i) /\ Next1
  /\ disk' = disk \union ({Source(i)} \cap Files)
  /\ UNCHANGED <<rows, rowVars, evictVars, faults, others>>

Record(i) ==
  /\ Doing("record", i) /\ Next1
  /\ {Source(i)} \cap Files \subseteq disk
  /\ rows' = rows \union ({Source(i)} \cap Files)
  /\ UNCHANGED <<disk, rowVars, evictVars, faults, others>>

\* _render_and_verify: a file that has a row is used as it is, any other is
\* rendered from the source.
Render(i) ==
  /\ Doing("render", i) /\ Next1
  /\ \/ {Rendition(i)} \subseteq rows \cap disk
     \/ {Source(i)} \cap Files \subseteq disk
  /\ disk' = disk \union {Rendition(i)}
  /\ UNCHANGED <<rows, rowVars, evictVars, faults, others>>

Upsert(i) ==
  /\ Doing("upsert", i) /\ Next1
  /\ Rendition(i) \in disk
  /\ rows' = rows \union {Rendition(i)}
  /\ UNCHANGED <<disk, rowVars, evictVars, faults, others>>

\* The file a step needs was deleted since.
Gone(i) ==
  \/ Doing("record", i) /\ ~({Source(i)} \cap Files \subseteq disk)
  \/ Doing("render", i) /\ ~({Rendition(i)} \subseteq rows \cap disk)
                        /\ ~({Source(i)} \cap Files \subseteq disk)
  \/ Doing("upsert", i) /\ Rendition(i) \notin disk

\* A step raises, because a file is gone or because a download or a rendering
\* fails. Staging ends the work on the tonie, prefetch goes on with the next
\* story or, when the extraction is broken, stops.
StepRaises(i) ==
  /\ \/ Gone(i) /\ UNCHANGED faults
     \/ (\E op \in {"fetch", "render"} : Doing(op, i)) /\ Fault
  /\ IF pc = "stage"
       THEN pc' = "evict" /\ todo' = <<>>
       ELSE pc' = pc /\ todo' \in {SelectSeq(todo, LAMBDA t : t.item # i), <<>>}
  /\ UNCHANGED <<cacheVars, rowVars, load, done, evictVars, others>>

Staged ==
  /\ pc = "stage" /\ todo = <<>>
  /\ pc' = "mark"
  /\ UNCHANGED <<cacheVars, rowVars, load, todo, done, evictVars, faults, others>>

\* The swap marker. A repair of an empty tonie clears nothing and writes none.
Mark ==
  /\ pc = "mark"
  /\ marker' \in IF state = "DEGRADED" THEN {load, marker} ELSE {load}
  /\ pc' = "upload"
  /\ UNCHANGED <<cacheVars, cursor, state, staged, records, load, todo, done,
                 evictVars, faults, others>>

Upload ==
  /\ pc = "upload" /\ done < Len(load)
  /\ Rendition(load[done + 1]) \in disk
  /\ done' = done + 1
  /\ UNCHANGED <<cacheVars, rowVars, pc, load, todo, evictVars, faults, others>>

\* _degrade: the file is gone, or the cloud fails.
Degrade ==
  /\ pc = "upload"
  /\ \/ done < Len(load) /\ Rendition(load[done + 1]) \notin disk /\ UNCHANGED faults
     \/ Fault
  /\ state' = "DEGRADED" /\ staged' = load /\ marker' = <<>>
  /\ pc' = "evict"
  /\ UNCHANGED <<cacheVars, cursor, records, load, todo, done, evictVars, others>>

\* _commit, and the prefetch after it, from the new cursor.
Commit ==
  /\ pc = "upload" /\ done = Len(load)
  /\ records' = load /\ cursor' = (cursor + Len(load)) % N
  /\ state' = "OK" /\ staged' = <<>> /\ marker' = <<>>
  /\ todo' = PrefetchTasks(Upcoming(Depth)')
  /\ pc' = "prefetch"
  /\ UNCHANGED <<cacheVars, load, done, evictVars, faults, others>>

Prefetched ==
  /\ pc = "prefetch" /\ todo = <<>>
  /\ pc' = "evict"
  /\ UNCHANGED <<cacheVars, rowVars, load, todo, done, evictVars, faults, others>>

\* The process is killed, and reconciles when it comes up.
Crash ==
  /\ pc # "idle" /\ Fault
  /\ IF marker # <<>>
       THEN state' = "DEGRADED" /\ staged' = marker /\ marker' = <<>>
       ELSE UNCHANGED <<state, staged, marker>>
  /\ pc' = "idle" /\ load' = <<>> /\ todo' = <<>> /\ done' = 0
  /\ at' = [at EXCEPT ![Run] = "idle"]
  /\ listed' = [listed EXCEPT ![Run] = {}] /\ doomed' = [doomed EXCEPT ![Run] = {}]
  /\ UNCHANGED <<cacheVars, cursor, records, others>>

-----------------------------------------------------------------------------
(* Evictions *)

\* Mutant of Protected: what the tonie holds is not protected.
ProtectedWithoutRecords ==
  {f \in rows : f.item \in SetOf(Upcoming(Depth))}
  \union IF state = "DEGRADED" THEN Renditions(staged) ELSE {}

\* protected_paths: the files of the loaded and of the upcoming stories, as far
\* as they have a row, and the files staged for a repair.
Protected ==
  {f \in rows : f.item \in SetOf(records) \union SetOf(Upcoming(Depth))}
  \union IF state = "DEGRADED" THEN Renditions(staged) ELSE {}

\* _cache_files: within the budget there is nothing to do.
List(e) ==
  /\ at[e] = "idle"
  /\ IF e = Run THEN pc = "evict" /\ UNCHANGED others
                ELSE others < MaxOthers /\ others' = others + 1
  /\ listed' = [listed EXCEPT ![e] = disk]
  /\ at' = [at EXCEPT ![e] = IF Cardinality(disk) <= Budget THEN "done" ELSE "plan"]
  /\ UNCHANGED <<cacheVars, rowVars, runVars, doomed, faults>>

\* A file is gone between the listing and the question for its size.
ListRaises(e) ==
  /\ at[e] = "idle"
  /\ \E o \in Evictors \ {e} : at[o] \in {"delete", "unlink"}
  /\ IF e = Run THEN pc = "evict" /\ UNCHANGED others
                ELSE others < MaxOthers /\ others' = others + 1
  /\ at' = [at EXCEPT ![e] = "done"]
  /\ UNCHANGED <<cacheVars, rowVars, runVars, listed, doomed, faults>>

\* Orphans, then renditions, then sources.
Rank(f) == IF f \notin rows THEN 0 ELSE IF f.kind = "rendition" THEN 1 ELSE 2

\* Mutant of MayDoom: files without a row are not looked for.
MayDoomKnown(e, D) ==
  LET candidates == (listed[e] \cap rows) \ Protected
      excess     == Cardinality(listed[e]) - Budget
  IN  /\ D \subseteq candidates
      /\ Cardinality(D) <= excess
      /\ Cardinality(D) < excess => D = candidates
      /\ \A f \in D, g \in candidates \ D : Rank(f) <= Rank(g)

\* plan_eviction: as many files as the budget asks for, the protected ones
\* excepted, in the order of Rank. Within a rank the least recently used go
\* first: which ones that are is left open.
MayDoom(e, D) ==
  LET candidates == listed[e] \ Protected
      excess     == Cardinality(listed[e]) - Budget
  IN  /\ D \subseteq candidates
      /\ Cardinality(D) <= excess
      /\ Cardinality(D) < excess => D = candidates
      /\ \A f \in D, g \in candidates \ D : Rank(f) <= Rank(g)

PlanEviction(e) ==
  /\ at[e] = "plan"
  /\ \E D \in SUBSET listed[e] : MayDoom(e, D) /\ doomed' = [doomed EXCEPT ![e] = D]
  /\ at' = [at EXCEPT ![e] = "delete"] /\ UNCHANGED listed
  /\ UNCHANGED <<cacheVars, rowVars, runVars, faults, others>>

\* evict: first the row, then the file, one file after the other. Here `listed'
\* holds the file whose row is gone.
DeleteRow(e, f) ==
  /\ at[e] = "delete" /\ f \in doomed[e]
  /\ rows' = rows \ {f}
  /\ listed' = [listed EXCEPT ![e] = {f}]
  /\ at' = [at EXCEPT ![e] = "unlink"] /\ UNCHANGED doomed
  /\ UNCHANGED <<disk, rowVars, runVars, faults, others>>

Unlink(e) ==
  /\ at[e] = "unlink"
  /\ disk' = disk \ listed[e]
  /\ doomed' = [doomed EXCEPT ![e] = @ \ listed[e]]
  /\ at' = [at EXCEPT ![e] = "delete"] /\ UNCHANGED listed
  /\ UNCHANGED <<rows, rowVars, runVars, faults, others>>

Evicted(e) ==
  /\ at[e] = "done" \/ (at[e] = "delete" /\ doomed[e] = {})
  /\ at' = [at EXCEPT ![e] = "idle"]
  /\ listed' = [listed EXCEPT ![e] = {}] /\ UNCHANGED doomed
  /\ IF e = Run
       THEN pc' = "idle" /\ load' = <<>> /\ done' = 0 /\ UNCHANGED todo
       ELSE UNCHANGED runVars
  /\ UNCHANGED <<cacheVars, rowVars, faults, others>>

\* A process that only evicts is killed.
EvictorDies(e) ==
  /\ e \in Others /\ at[e] # "idle" /\ Fault
  /\ at' = [at EXCEPT ![e] = "idle"]
  /\ listed' = [listed EXCEPT ![e] = {}] /\ doomed' = [doomed EXCEPT ![e] = {}]
  /\ UNCHANGED <<cacheVars, rowVars, runVars, others>>

EvictStep(e) ==
  \/ PlanEviction(e) \/ (\E f \in doomed[e] : DeleteRow(e, f))
  \/ Unlink(e) \/ Evicted(e)

Work ==
  \/ Reload \/ Plan \/ Staged \/ Mark \/ Upload \/ Commit \/ Degrade \/ Prefetched
  \/ \E i \in Stories :
       Fetch(i) \/ Record(i) \/ Render(i) \/ Upsert(i) \/ StepRaises(i)
  \/ List(Run) \/ ListRaises(Run) \/ EvictStep(Run)

Next ==
  \/ Work \/ Crash
  \/ \E e \in Others : List(e) \/ ListRaises(e) \/ EvictStep(e) \/ EvictorDies(e)

Spec == Init /\ [][Next]_vars

\* Runs go on, night after night, and an eviction that has begun goes on.
FairSpec == Spec /\ WF_vars(Work) /\ \A e \in Others : WF_vars(EvictStep(e))

-----------------------------------------------------------------------------
(* Properties *)

\* Every variable keeps its type; a tonie that is OK has nothing staged.
TypeOK ==
  /\ disk \subseteq Files /\ rows \subseteq Files
  /\ cursor \in Stories /\ state \in {"OK", "DEGRADED"}
  /\ {staged, records, marker, load} \subseteq Seq(Stories)
  /\ state = "OK" => staged = <<>>
  /\ pc \in {"idle", "stage", "mark", "upload", "prefetch", "evict"}
  /\ done \in 0..Len(load)
  /\ at \in [Evictors -> {"idle", "plan", "delete", "unlink", "done"}]
  /\ \A e \in Evictors : listed[e] \subseteq Files /\ doomed[e] \subseteq Files
  /\ at[Run] # "idle" => pc = "evict"
  /\ faults \in 0..MaxFaults /\ others \in 0..MaxOthers

\* The files of the load, of the next stories, and those staged for a repair.
Needed ==
  {f \in Files : \/ f.item \in SetOf(records) \union SetOf(Upcoming(Depth))
                 \/ state = "DEGRADED" /\ f \in Renditions(staged)}

\* An eviction under the run lock takes no file from the tonie's load, from
\* the next stories or from what is staged for a repair ("What must never be
\* evicted", retention.py), though it deletes by a plan made before.
SparesWhatIsNeeded ==
  [][\A f \in rows \ rows' : at'[Run] = "unlink" /\ listed'[Run] = {f} => f \notin Needed]_vars

\* What is staged for a repair is not deleted before the repair ("the one thing
\* a repair can restore from", retention.py), whoever evicts.  The code does not
\* keep this when an eviction takes no run lock.
StagedFilesSurvive == state = "DEGRADED" => Renditions(staged) \subseteq disk

\* A run's eviction that was planned and carried out leaves the cache within its
\* budget, or with nothing but what is needed: a crash or a killed eviction leaves
\* no files behind that nobody counts, and another eviction beside it does not
\* make it keep more.
EvictionReachesBudget ==
  at[Run] = "delete" /\ doomed[Run] = {} =>
    Cardinality(disk) <= Budget \/ disk \subseteq Needed

\* When failures and evictions without the lock have ceased, a tonie that was
\* left wrong is loaded, whatever they deleted: a lost file costs a download.
DegradedIsLoaded == state = "DEGRADED" ~> state = "OK"
=============================================================================
