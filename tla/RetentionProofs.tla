-------------------------- MODULE RetentionProofs --------------------------
(***************************************************************************)
(* That an eviction under the run lock spares what is needed and reaches   *)
(* the budget, for every library, budget and window, any number of         *)
(* evictions beside it, and any failures and kills.                        *)
(***************************************************************************)
EXTENDS Retention, FiniteSetTheorems, TLAPS

\* The files are where they can be, and every eviction is somewhere.
EvictType ==
  /\ disk \subseteq Files
  /\ at \in [Evictors -> {"idle", "plan", "delete", "unlink", "done"}]
  /\ listed \in [Evictors -> SUBSET Files]
  /\ doomed \in [Evictors -> SUBSET Files]

\* While the run evicts it does nothing else; what its plan dooms and still has
\* a row is not needed; and it deletes by the plan.
ByPlan ==
  /\ at[Run] # "idle" => pc = "evict"
  /\ at[Run] \in {"delete", "unlink"} => doomed[Run] \cap rows \cap Needed = {}
  /\ at[Run] = "unlink" => listed[Run] \subseteq doomed[Run]

\* An invariant that is inductive. That the files taken are not needed is not
\* inductive by itself: it depends on what was needed when the plan was made,
\* and on nobody giving the tonie a new load or a file a new row since.
IInv == EvictType /\ ByPlan

\* What protected_paths protects contains every needed file that has a row.
LEMMA NeededIsProtected == \A f \in rows \cap Needed : f \in Protected
  BY DEF Needed, Protected

LEMMA RenditionIsFile == \A i \in Stories : Rendition(i) \in Files
  BY DEF Files

\* The types, action by action.
LEMMA TypeStep == EvictType /\ [Next]_vars => EvictType'
<1> SUFFICES ASSUME EvictType, [Next]_vars PROVE EvictType'
  OBVIOUS
<1> USE DEF EvictType
<1> Run \in Evictors
  BY DEF Evictors
<1>1. CASE UNCHANGED vars
  BY <1>1 DEF vars, cacheVars, evictVars
<1>2. CASE Reload \/ Plan \/ Staged \/ Mark \/ Upload \/ Commit \/ Degrade \/ Prefetched
  BY <1>2 DEF Reload, Plan, Staged, Mark, Upload, Commit, Degrade, Prefetched,
              cacheVars, evictVars
<1>3. ASSUME NEW i \in Stories, Fetch(i) \/ Record(i) \/ Upsert(i) \/ StepRaises(i)
      PROVE  EvictType'
  BY <1>3 DEF Fetch, Record, Upsert, StepRaises, cacheVars, evictVars
<1>4. ASSUME NEW i \in Stories, Render(i)
      PROVE  EvictType'
  BY <1>4, RenditionIsFile DEF Render, evictVars
<1>5. CASE Crash
  BY <1>5 DEF Crash, cacheVars
<1>6. ASSUME NEW e \in Evictors, List(e) \/ ListRaises(e) \/ EvictStep(e) \/ EvictorDies(e)
      PROVE  EvictType'
  <2>1. CASE List(e)
    BY <2>1 DEF List, cacheVars
  <2>2. CASE ListRaises(e)
    BY <2>2 DEF ListRaises, cacheVars
  <2>3. CASE PlanEviction(e)
    <3>1. PICK D \in SUBSET listed[e] : doomed' = [doomed EXCEPT ![e] = D]
      BY <2>3 DEF PlanEviction
    <3> QED BY <2>3, <3>1 DEF PlanEviction, cacheVars
  <2>4. ASSUME NEW f \in doomed[e], DeleteRow(e, f) PROVE EvictType'
    BY <2>4 DEF DeleteRow
  <2>5. CASE Unlink(e)
    BY <2>5 DEF Unlink
  <2>6. CASE Evicted(e)
    BY <2>6 DEF Evicted, cacheVars
  <2>7. CASE EvictorDies(e)
    BY <2>7 DEF EvictorDies, cacheVars
  <2> QED
    BY <1>6, <2>1, <2>2, <2>3, <2>4, <2>5, <2>6, <2>7 DEF EvictStep
<1> QED
  BY <1>1, <1>2, <1>3, <1>4, <1>5, <1>6 DEF Next, Work, Evictors

\* A step that leaves the tonie, the run and its eviction alone, and gives no
\* file a row, leaves the plan as good as it was.
LEMMA Undisturbed ==
  ASSUME ByPlan, rows' \subseteq rows, UNCHANGED <<rowVars, pc>>,
         at'[Run] = at[Run], listed'[Run] = listed[Run], doomed'[Run] = doomed[Run]
  PROVE  ByPlan'
<1>1. Needed' = Needed
  BY DEF Needed, rowVars, Upcoming
<1> QED BY <1>1 DEF ByPlan

\* While the run does something else than evict, there is no plan.
LEMMA NotEvicting ==
  ASSUME at'[Run] = "idle"
  PROVE  ByPlan'
  BY DEF ByPlan

\* The plan, action by action.
LEMMA PlanStep == IInv /\ [Next]_vars => ByPlan'
<1> SUFFICES ASSUME IInv, [Next]_vars PROVE ByPlan'
  OBVIOUS
<1> USE DEF IInv, EvictType
<1> Run \in Evictors
  BY DEF Evictors
<1>1. CASE UNCHANGED vars
  BY <1>1, Undisturbed DEF vars, cacheVars, rowVars, runVars, evictVars
<1>2. CASE Reload \/ Plan \/ Staged \/ Mark \/ Upload \/ Commit \/ Degrade \/ Prefetched
  <2>1. at[Run] = "idle" /\ at' = at
    BY <1>2 DEF ByPlan, Reload, Plan, Staged, Mark, Upload, Commit, Degrade, Prefetched,
                evictVars
  <2> QED BY <2>1, NotEvicting
<1>3. ASSUME NEW i \in Stories,
             Fetch(i) \/ Record(i) \/ Render(i) \/ Upsert(i) \/ StepRaises(i)
      PROVE  ByPlan'
  <2>1. pc \in {"stage", "prefetch"} /\ at' = at
    BY <1>3 DEF Fetch, Record, Render, Upsert, StepRaises, Doing, Gone, evictVars
  <2>2. at[Run] = "idle"
    BY <2>1 DEF ByPlan
  <2> QED BY <2>1, <2>2, NotEvicting
<1>4. CASE Crash
  <2>1. at'[Run] = "idle"
    BY <1>4 DEF Crash
  <2> QED BY <2>1, NotEvicting
<1>5. CASE List(Run) \/ ListRaises(Run)
  <2>1. pc' = "evict" /\ at'[Run] \in {"plan", "done"}
    BY <1>5 DEF List, ListRaises, runVars
  <2> QED BY <2>1 DEF ByPlan
<1>6. CASE PlanEviction(Run)
  <2>1. PICK D \in SUBSET listed[Run] : MayDoom(Run, D) /\ doomed' = [doomed EXCEPT ![Run] = D]
    BY <1>6 DEF PlanEviction
  <2>2. doomed'[Run] \cap Protected = {}
    BY <2>1 DEF MayDoom
  <2>3. rows' = rows /\ Needed' = Needed /\ pc' = pc
    BY <1>6 DEF PlanEviction, cacheVars, rowVars, runVars, Needed, Upcoming
  <2>4. pc = "evict" /\ at'[Run] = "delete"
    BY <1>6 DEF PlanEviction, ByPlan
  <2> QED BY <2>2, <2>3, <2>4, NeededIsProtected DEF ByPlan
<1>7. ASSUME NEW f \in doomed[Run], DeleteRow(Run, f) PROVE ByPlan'
  <2>1. rows' \subseteq rows /\ Needed' = Needed /\ pc' = pc
    BY <1>7 DEF DeleteRow, rowVars, runVars, Needed, Upcoming
  <2>2. at[Run] = "delete" /\ at'[Run] = "unlink"
        /\ doomed' = doomed /\ listed'[Run] = {f}
    BY <1>7 DEF DeleteRow
  <2> QED BY <2>1, <2>2 DEF ByPlan
<1>8. CASE Unlink(Run)
  <2>1. rows' = rows /\ Needed' = Needed /\ pc' = pc
    BY <1>8 DEF Unlink, rowVars, runVars, Needed, Upcoming
  <2>2. at[Run] = "unlink" /\ at'[Run] = "delete" /\ doomed'[Run] \subseteq doomed[Run]
    BY <1>8 DEF Unlink
  <2> QED BY <2>1, <2>2 DEF ByPlan
<1>9. CASE Evicted(Run)
  <2>1. at'[Run] = "idle"
    BY <1>9 DEF Evicted
  <2> QED BY <2>1, NotEvicting
<1>10. ASSUME NEW e \in Others,
              List(e) \/ ListRaises(e) \/ EvictStep(e) \/ EvictorDies(e)
       PROVE  ByPlan'
  <2>1. e # Run /\ e \in Evictors
    BY CacheAssumption DEF Evictors
  <2>2. CASE List(e)
    BY <2>1, <2>2, Undisturbed DEF List, cacheVars, rowVars, runVars
  <2>3. CASE ListRaises(e)
    BY <2>1, <2>3, Undisturbed DEF ListRaises, cacheVars, rowVars, runVars
  <2>4. CASE PlanEviction(e)
    <3>1. PICK D : doomed' = [doomed EXCEPT ![e] = D]
      BY <2>4 DEF PlanEviction
    <3> QED BY <2>1, <2>4, <3>1, Undisturbed DEF PlanEviction, cacheVars, rowVars, runVars
  <2>5. ASSUME NEW f \in doomed[e], DeleteRow(e, f) PROVE ByPlan'
    BY <2>1, <2>5, Undisturbed DEF DeleteRow, rowVars, runVars
  <2>6. CASE Unlink(e)
    BY <2>1, <2>6, Undisturbed DEF Unlink, rowVars, runVars
  <2>7. CASE Evicted(e)
    BY <2>1, <2>7, Undisturbed DEF Evicted, cacheVars, rowVars, runVars
  <2>8. CASE EvictorDies(e)
    BY <2>1, <2>8, Undisturbed DEF EvictorDies, cacheVars, rowVars, runVars
  <2> QED
    BY <1>10, <2>2, <2>3, <2>4, <2>5, <2>6, <2>7, <2>8 DEF EvictStep
<1> QED
  BY <1>1, <1>2, <1>3, <1>4, <1>5, <1>6, <1>7, <1>8, <1>9, <1>10 DEF Next, Work, EvictStep

\* A row is taken away by an eviction only, and by the run's eviction only when
\* its plan dooms the file.
LEMMA SparingStep ==
  IInv /\ [Next]_vars =>
    [\A f \in rows \ rows' : at'[Run] = "unlink" /\ listed'[Run] = {f} => f \notin Needed]_vars
<1> SUFFICES ASSUME IInv, Next, NEW f \in rows \ rows',
                    at'[Run] = "unlink", listed'[Run] = {f}
             PROVE  f \notin Needed
  OBVIOUS
<1> USE DEF IInv, EvictType
<1> Run \in Evictors
  BY DEF Evictors
<1>1. \E e \in Evictors : \E g \in doomed[e] : DeleteRow(e, g)
  <2>1. rows' # rows
    OBVIOUS
  <2>2. rows \subseteq rows' => FALSE
    OBVIOUS
  <2>3. \A i \in Stories : ~Fetch(i) /\ ~Record(i) /\ ~Render(i) /\ ~Upsert(i) /\ ~StepRaises(i)
    BY <2>1, <2>2 DEF Fetch, Record, Render, Upsert, StepRaises, cacheVars
  <2>4. ~(Reload \/ Plan \/ Staged \/ Mark \/ Upload \/ Commit \/ Degrade \/ Prefetched \/ Crash)
    BY <2>1 DEF Reload, Plan, Staged, Mark, Upload, Commit, Degrade, Prefetched, Crash, cacheVars
  <2>5. \A e \in Evictors : ~(List(e) \/ ListRaises(e) \/ PlanEviction(e) \/ Unlink(e)
                              \/ Evicted(e) \/ EvictorDies(e))
    BY <2>1 DEF List, ListRaises, PlanEviction, Unlink, Evicted, EvictorDies, cacheVars
  <2> QED
    BY <2>3, <2>4, <2>5 DEF Next, Work, EvictStep, Evictors
<1>2. PICK e \in Evictors : \E g \in doomed[e] : DeleteRow(e, g)
  BY <1>1
<1>3. PICK g \in doomed[e] : DeleteRow(e, g)
  BY <1>2
<1>4. CASE e = Run
  BY <1>3, <1>4 DEF DeleteRow, ByPlan
<1>5. CASE e # Run
  <2>1. at[Run] = "unlink" /\ listed[Run] = {f}
    BY <1>3, <1>5 DEF DeleteRow
  <2> QED BY <2>1 DEF ByPlan
<1> QED BY <1>4, <1>5

LEMMA IInvInit == Init => IInv
  BY DEF Init, IInv, EvictType, ByPlan, Evictors

\* The inductive invariant, for all constants.
THEOREM Invariance == Spec => []IInv
<1>1. IInv /\ [Next]_vars => IInv'
  BY TypeStep, PlanStep DEF IInv
<1> QED
  BY IInvInit, <1>1, PTL DEF Spec

\* SparesWhatIsNeeded for all values of the constants: what plan_eviction
\* protects when a run plans is spared until its eviction has ended.
THEOREM Sparing == Spec => SparesWhatIsNeeded
  BY Invariance, SparingStep, PTL DEF Spec, SparesWhatIsNeeded
-----------------------------------------------------------------------------
(* That the run's eviction reaches the budget *)

\* A plan is made for files that are still the only ones; when it has been
\* carried out the rest fits the budget, or is needed. Other evictions take
\* files away meanwhile, and rows, but the run adds none while it evicts.
Reaching ==
  /\ at[Run] = "plan" => disk \subseteq listed[Run]
  /\ at[Run] \in {"delete", "unlink"} =>
       \/ Cardinality(disk \ doomed[Run]) <= Budget
       \/ disk \ doomed[Run] \subseteq Needed

LEMMA FilesAreFinite == IsFiniteSet(Files)
<1>1. IsFiniteSet(Stories)
  BY FS_Interval, CacheAssumption DEF Stories
<1>2. IsFiniteSet({Rendition(i) : i \in Stories})
  <2>1. [i \in Stories |-> Rendition(i)] \in Surjection(Stories, {Rendition(i) : i \in Stories})
    BY DEF Surjection
  <2> QED BY <1>1, <2>1, FS_Surjection
<1>3. IsFiniteSet({Source(i) : i \in Stories \ InFolder})
  <2>1. IsFiniteSet(Stories \ InFolder)
    BY <1>1, FS_Subset
  <2>2. [i \in Stories \ InFolder |-> Source(i)]
          \in Surjection(Stories \ InFolder, {Source(i) : i \in Stories \ InFolder})
    BY DEF Surjection
  <2> QED BY <2>1, <2>2, FS_Surjection
<1> QED BY <1>2, <1>3, FS_Union DEF Files

LEMMA FewerFiles ==
  ASSUME NEW S \in SUBSET Files, NEW T \in SUBSET S
  PROVE  /\ Cardinality(S) \in Nat /\ Cardinality(T) \in Nat
         /\ Cardinality(T) <= Cardinality(S)
         /\ Cardinality(S \ T) = Cardinality(S) - Cardinality(T)
<1>1. IsFiniteSet(S) /\ IsFiniteSet(T)
  BY FilesAreFinite, FS_Subset
<1>2. S \cap T = T
  OBVIOUS
<1>3. Cardinality(S \ T) = Cardinality(S) - Cardinality(S \cap T)
  BY <1>1, FS_Difference
<1>4. Cardinality(T) <= Cardinality(S)
  BY <1>1, FS_Subset
<1> QED BY <1>1, <1>2, <1>3, <1>4, FS_CardinalityType

\* A step that takes files away and leaves the tonie and the plan alone.
LEMMA Dwindling ==
  ASSUME EvictType, Reaching, disk' \subseteq disk, UNCHANGED rowVars,
         at'[Run] = at[Run], listed'[Run] = listed[Run],
         disk' \ doomed'[Run] \subseteq disk \ doomed[Run]
  PROVE  Reaching'
<1>1. Needed' = Needed
  BY DEF Needed, rowVars, Upcoming
<1>2. Cardinality(disk \ doomed[Run]) \in Nat
      /\ Cardinality(disk' \ doomed'[Run]) \in Nat
      /\ Cardinality(disk' \ doomed'[Run]) <= Cardinality(disk \ doomed[Run])
  BY FewerFiles DEF EvictType
<1> QED BY <1>1, <1>2, CacheAssumption DEF Reaching

\* What plan_eviction leaves over is protected, and therefore needed, unless the
\* files it dooms are as many as the budget asks for.
LEMMA PlanReaches ==
  ASSUME IInv, Reaching, at[Run] = "plan",
         NEW D \in SUBSET listed[Run], MayDoom(Run, D)
  PROVE  \/ Cardinality(disk \ D) <= Budget
         \/ disk \ D \subseteq Needed
<1> DEFINE L == listed[Run]
<1>1. L \in SUBSET Files /\ disk \subseteq L
  BY DEF IInv, EvictType, Reaching, Evictors
<1>2. Cardinality(L) \in Nat /\ Cardinality(D) \in Nat
      /\ Cardinality(L \ D) = Cardinality(L) - Cardinality(D)
  BY <1>1, FewerFiles
<1>3. CASE Cardinality(D) < Cardinality(L) - Budget
  <2>1. D = L \ Protected
    BY <1>3 DEF MayDoom
  <2>2. \A f \in Protected \cap Files : f \in Needed
    BY DEF Protected, Needed
  <2> QED BY <1>1, <2>1, <2>2
<1>4. CASE ~(Cardinality(D) < Cardinality(L) - Budget)
  <2>1. Cardinality(D) <= Cardinality(L) - Budget
    BY DEF MayDoom
  <2>2. Cardinality(L \ D) = Budget
    BY <1>2, <1>4, <2>1, CacheAssumption
  <2>3. Cardinality(disk \ D) <= Cardinality(L \ D) /\ Cardinality(disk \ D) \in Nat
    BY <1>1, FewerFiles
  <2> QED BY <2>2, <2>3
<1> QED BY <1>3, <1>4

\* Action by action.
LEMMA ReachingStep == IInv /\ Reaching /\ [Next]_vars => Reaching'
<1> SUFFICES ASSUME IInv, Reaching, [Next]_vars PROVE Reaching'
  OBVIOUS
<1> USE DEF IInv, EvictType
<1> Run \in Evictors
  BY DEF Evictors
<1>1. CASE UNCHANGED vars
  BY <1>1, Dwindling DEF vars, cacheVars, evictVars
<1>2. CASE Reload \/ Plan \/ Staged \/ Mark \/ Upload \/ Commit \/ Degrade \/ Prefetched
  <2>1. at'[Run] = "idle"
    BY <1>2 DEF ByPlan, Reload, Plan, Staged, Mark, Upload, Commit, Degrade, Prefetched,
                evictVars
  <2> QED BY <2>1 DEF Reaching
<1>3. ASSUME NEW i \in Stories,
             Fetch(i) \/ Record(i) \/ Render(i) \/ Upsert(i) \/ StepRaises(i)
      PROVE  Reaching'
  <2>1. pc \in {"stage", "prefetch"} /\ at' = at
    BY <1>3 DEF Fetch, Record, Render, Upsert, StepRaises, Doing, Gone, evictVars
  <2>2. at'[Run] = "idle"
    BY <2>1 DEF ByPlan
  <2> QED BY <2>2 DEF Reaching
<1>4. CASE Crash \/ Evicted(Run)
  <2>1. at'[Run] = "idle"
    BY <1>4 DEF Crash, Evicted
  <2> QED BY <2>1 DEF Reaching
<1>5. CASE List(Run) \/ ListRaises(Run)
  <2>1. CASE List(Run)
    BY <2>1 DEF List, cacheVars, Reaching
  <2>2. CASE ListRaises(Run)
    BY <2>2 DEF ListRaises, Reaching
  <2> QED BY <1>5, <2>1, <2>2
<1>6. CASE PlanEviction(Run)
  <2>1. PICK D \in SUBSET listed[Run] : MayDoom(Run, D) /\ doomed' = [doomed EXCEPT ![Run] = D]
    BY <1>6 DEF PlanEviction
  <2>2. at[Run] = "plan" /\ at'[Run] = "delete" /\ disk' = disk /\ Needed' = Needed
    BY <1>6 DEF PlanEviction, cacheVars, rowVars, Needed, Upcoming
  <2> QED BY <2>1, <2>2, PlanReaches DEF Reaching
<1>7. ASSUME NEW f \in doomed[Run], DeleteRow(Run, f) PROVE Reaching'
  <2>1. disk' = disk /\ Needed' = Needed /\ doomed' = doomed
        /\ at[Run] = "delete" /\ at'[Run] = "unlink"
    BY <1>7 DEF DeleteRow, rowVars, Needed, Upcoming
  <2> QED BY <2>1 DEF Reaching
<1>8. CASE Unlink(Run)
  <2>1. at[Run] = "unlink" /\ at'[Run] = "delete" /\ Needed' = Needed
    BY <1>8 DEF Unlink, rowVars, Needed, Upcoming
  <2>2. disk' \ doomed'[Run] = (disk \ doomed[Run]) \ listed[Run]
    <3>1. listed[Run] \subseteq doomed[Run]
      BY <2>1 DEF ByPlan
    <3>2. disk' = disk \ listed[Run] /\ doomed'[Run] = doomed[Run] \ listed[Run]
      BY <1>8 DEF Unlink
    <3> QED BY <3>1, <3>2
  <2>3. Cardinality(disk \ doomed[Run]) \in Nat
        /\ Cardinality(disk' \ doomed'[Run]) \in Nat
        /\ Cardinality(disk' \ doomed'[Run]) <= Cardinality(disk \ doomed[Run])
    BY <2>2, FewerFiles
  <2> QED BY <2>1, <2>2, <2>3, CacheAssumption DEF Reaching
<1>9. ASSUME NEW e \in Others,
             List(e) \/ ListRaises(e) \/ EvictStep(e) \/ EvictorDies(e)
      PROVE  Reaching'
  <2>1. e # Run /\ e \in Evictors
    BY CacheAssumption DEF Evictors
  <2>2. CASE List(e)
    BY <2>1, <2>2, Dwindling DEF List, cacheVars
  <2>3. CASE ListRaises(e)
    BY <2>1, <2>3, Dwindling DEF ListRaises, cacheVars
  <2>4. CASE PlanEviction(e)
    <3>1. PICK D : doomed' = [doomed EXCEPT ![e] = D]
      BY <2>4 DEF PlanEviction
    <3> QED BY <2>1, <2>4, <3>1, Dwindling DEF PlanEviction, cacheVars
  <2>5. ASSUME NEW f \in doomed[e], DeleteRow(e, f) PROVE Reaching'
    BY <2>1, <2>5, Dwindling DEF DeleteRow
  <2>6. CASE Unlink(e)
    BY <2>1, <2>6, Dwindling DEF Unlink
  <2>7. CASE Evicted(e)
    BY <2>1, <2>7, Dwindling DEF Evicted, cacheVars
  <2>8. CASE EvictorDies(e)
    BY <2>1, <2>8, Dwindling DEF EvictorDies, cacheVars
  <2> QED
    BY <1>9, <2>2, <2>3, <2>4, <2>5, <2>6, <2>7, <2>8 DEF EvictStep
<1> QED
  BY <1>1, <1>2, <1>3, <1>4, <1>5, <1>6, <1>7, <1>8, <1>9 DEF Next, Work, EvictStep

\* EvictionReachesBudget for all values of the constants: a plan of
\* plan_eviction that was carried out leaves the cache within its budget, or
\* with nothing but what is needed, whatever else deletes files meanwhile.
THEOREM BudgetReached == Spec => []EvictionReachesBudget
<1>1. Init => Reaching
  BY DEF Init, Reaching, Evictors
<1>2. IInv /\ Reaching => EvictionReachesBudget
  <2> SUFFICES ASSUME IInv, Reaching, at[Run] = "delete", doomed[Run] = {}
               PROVE  Cardinality(disk) <= Budget \/ disk \subseteq Needed
    BY DEF EvictionReachesBudget
  <2>1. disk \ doomed[Run] = disk
    OBVIOUS
  <2> QED BY <2>1 DEF Reaching
<1> QED BY <1>1, <1>2, ReachingStep, Invariance, PTL DEF Spec
=============================================================================
