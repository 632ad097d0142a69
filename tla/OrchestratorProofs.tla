------------------------- MODULE OrchestratorProofs -------------------------
(***************************************************************************)
(* Proofs about Orchestrator: TypeOK and Consistent together are           *)
(* inductive, so both hold in every reachable state, for any number of     *)
(* tonies, stories, upload attempts and faults. First facts about the      *)
(* values a step computes, then TypeStep (every step keeps the types),     *)
(* ConsistentStep (every step keeps Consistent), then the theorems, the    *)
(* refinement of TonieGuard, and what a run does and reports.              *)
(***************************************************************************)
EXTENDS Orchestrator, SequenceTheorems, TLAPS

LEMMA NoTonieIsNone == NoTonie \notin Assignments
BY TonieAssumption DEF Tonies

\* A function over 1..n is a sequence of length n.
LEMMA FunctionIsSeq ==
  ASSUME NEW S, NEW n \in Nat, NEW f \in [1..n -> S]
  PROVE  f \in Seq(S) /\ Len(f) = n /\ DOMAIN f = 1..n
<1>1. f \in Seq(S)
  BY SeqDef
<1> QED BY <1>1, LenProperties

\* A position taken modulo the library size is a story of the library, as the
\* cursor of rotation.py is.
LEMMA ModInStories ==
  ASSUME NEW x \in Int
  PROVE  x % N \in Stories
  BY LibraryAssumption DEF Stories

\* choose_next plans stories of the library, at least as many as fit the cap.
LEMMA PlanType ==
  ASSUME NEW a \in Assignments, cursor \in [Assignments -> Stories]
  PROVE  PlanItems(a) \in Seq(Stories) /\ Fit[a] \in 1..Len(PlanItems(a))
<1> USE LibraryAssumption, ModeAssumption, FitAssumption
<1> DEFINE fromCursor == [i \in 1..N |-> (cursor[a] + i - 1) % N]
           wholeLibrary == [i \in 1..N |-> i - 1]
<1>1. fromCursor \in Seq(Stories) /\ Len(fromCursor) = N
  <2>1. \A i \in 1..N : (cursor[a] + i - 1) % N \in Stories
    BY ModInStories DEF Stories
  <2>2. fromCursor \in [1..N -> Stories]
    BY <2>1
  <2> QED BY <2>2, FunctionIsSeq
<1>2. wholeLibrary \in Seq(Stories) /\ Len(wholeLibrary) = N
  <2>1. wholeLibrary \in [1..N -> Stories]
    BY DEF Stories
  <2> QED BY <2>1, FunctionIsSeq
<1>3. SubSeq(fromCursor, 1, 1) \in Seq(Stories) /\ Len(SubSeq(fromCursor, 1, 1)) = 1
  <2> HIDE DEF fromCursor
  <2>1. 1 \in 1..Len(fromCursor)
    BY <1>1
  <2>2. \A i \in 1..1 : fromCursor[i] \in Stories
    BY <1>1, <2>1, ElementOfSeq
  <2> QED BY <2>2, SubSeqProperties
<1>4. CASE Mode[a] = "album"
  BY <1>2, <1>4 DEF PlanItems
<1>5. CASE Mode[a] = "serial"
  BY <1>1, <1>5 DEF PlanItems
<1>6. CASE Mode[a] = "single"
  BY <1>3, <1>6 DEF PlanItems
<1> QED BY <1>4, <1>5, <1>6

\* What staging puts together is a load, and never an empty one.
LEMMA FittedLoadType ==
  ASSUME NEW a \in Assignments, cursor \in [Assignments -> Stories]
  PROVE  FittedLoad(a) \in Loads /\ FittedLoad(a) # NoStaged
<1> DEFINE plan == PlanItems(a)
           items == SubSeq(plan, 1, Fit[a])
<1>1. plan \in Seq(Stories) /\ Fit[a] \in 1..Len(plan)
  BY PlanType
<1>0. FittedLoad(a) = [items |-> items, rotates |-> Rotates(a)]
  BY DEF FittedLoad
<1> HIDE DEF plan
<1>2. items \in Seq(Stories) /\ Len(items) = Fit[a] /\ Fit[a] > 0
  <2>1. Len(plan) \in Nat /\ Fit[a] \in Int /\ 1 <= Fit[a] /\ Fit[a] <= Len(plan)
    BY <1>1, LenProperties
  <2>2. \A i \in 1..Fit[a] : i \in 1..Len(plan)
    BY <2>1
  <2>3. \A i \in 1..Fit[a] : plan[i] \in Stories
    BY <1>1, <2>2, ElementOfSeq
  <2> QED BY <2>1, <2>3, SubSeqProperties
<1>3. Rotates(a) \in BOOLEAN
  BY DEF Rotates
<1> HIDE DEF items
<1>4. items # <<>>
  BY <1>2, EmptySeq
<1>5. FittedLoad(a) \in [items : Seq(Stories), rotates : BOOLEAN]
  BY <1>0, <1>2, <1>3
<1>6. FittedLoad(a).items = items
  BY <1>0
<1> QED BY <1>4, <1>5, <1>6 DEF Loads, NoStaged

-----------------------------------------------------------------------------
(* TypeOK is preserved, given what Consistent says of a settled read. *)

IndInv == TypeOK /\ Consistent

\* A load names stories, and only NoStaged names none.
LEMMA LoadItems ==
  /\ \A load \in Loads : /\ load.items \in Seq(Stories)
                         /\ load # NoStaged => load.items # <<>>
BY DEF Loads

\* The values NULL columns and fresh jobs start with are well typed.
LEMMA EmptyValues ==
  /\ NoStaged \in Loads /\ NoStaged.items = <<>>
  /\ <<>> \in Seq(ChapterIds) /\ <<>> \in Seq(Chapters) /\ <<>> \in Seq(Records)
BY EmptySeq DEF NoStaged, Loads

\* The elements of a sequence over S are in S.
LEMMA SetOfType ==
  ASSUME NEW S, NEW s \in Seq(S)
  PROVE  SetOf(s) \subseteq S
BY LenProperties DEF SetOf

\* Taking the ids of a sequence keeps its length and order.
LEMMA IdsOfType ==
  ASSUME NEW S, NEW s \in Seq(S), \A c \in S : c.id \in ChapterIds
  PROVE  /\ IdsOf(s) \in Seq(ChapterIds) /\ Len(IdsOf(s)) = Len(s)
         /\ \A i \in 1..Len(s) : IdsOf(s)[i] = s[i].id
<1>1. Len(s) \in Nat /\ DOMAIN s = 1..Len(s) /\ \A i \in 1..Len(s) : s[i] \in S
  BY LenProperties
<1>2. IdsOf(s) \in [1..Len(s) -> ChapterIds]
  BY <1>1 DEF IdsOf
<1> QED BY <1>1, <1>2, FunctionIsSeq DEF IdsOf

\* The same for the stories of a sequence.
LEMMA ItemsOfType ==
  ASSUME NEW S, NEW s \in Seq(S)
  PROVE  /\ ItemsOf(s) \in Seq({c.item : c \in S}) /\ Len(ItemsOf(s)) = Len(s)
         /\ \A i \in 1..Len(s) : ItemsOf(s)[i] = s[i].item
<1>1. Len(s) \in Nat /\ DOMAIN s = 1..Len(s) /\ \A i \in 1..Len(s) : s[i] \in S
  BY LenProperties
<1>2. ItemsOf(s) \in [1..Len(s) -> {c.item : c \in S}]
  BY <1>1 DEF ItemsOf
<1> QED BY <1>1, <1>2, FunctionIsSeq DEF ItemsOf

\* The fields of a chapter are an id and a story, or a foreign one.
LEMMA ChapterFields ==
  \A c \in Chapters : c.id \in ChapterIds /\ c.item \in Stories \union {Foreign}
BY DEF Chapters

\* Prefetch warms stories of the library only.
LEMMA UpcomingType ==
  ASSUME NEW a \in Assignments, cursor \in [Assignments -> Stories]
  PROVE  Upcoming(a) \subseteq Stories
<1>1. \A i \in 0..(Depth - 1) : (cursor[a] + i) % N \in Stories
  BY ModInStories, DepthAssumption, LibraryAssumption DEF Stories
<1> QED BY <1>1 DEF Upcoming

\* A chapter that lands makes a longer sequence with that chapter at its end.
LEMMA LandsType ==
  ASSUME TypeOK, cur \in Assignments, done \in 0..(Len(staged.items) - 1), Lands
  PROVE  \E c \in Chapters :
           /\ c.item = staged.items[done + 1]
           /\ live' = [live EXCEPT ![cur] = Append(live[cur], c)]
           /\ Append(live[cur], c) \in Seq(Chapters)
<1> DEFINE c == [item |-> staged.items[done + 1],
                 id |-> CHOOSE i \in FreeIds(cur) : TRUE, ready |-> FALSE]
<1>1. (CHOOSE i \in FreeIds(cur) : TRUE) \in ChapterIds
  BY DEF Lands, FreeIds
<1>2. staged.items[done + 1] \in Stories
  <2>1. staged.items \in Seq(Stories)
    BY LoadItems DEF TypeOK
  <2>2. done + 1 \in 1..Len(staged.items)
    BY <2>1, LenProperties
  <2> QED BY <2>1, <2>2, ElementOfSeq
<1>3. c \in Chapters
  BY <1>1, <1>2 DEF Chapters
<1>4. live' = [live EXCEPT ![cur] = Append(live[cur], c)]
  BY DEF Lands
<1>5. live[cur] \in Seq(Chapters)
  BY DEF TypeOK
<1>6. c.item = staged.items[done + 1]
  OBVIOUS
<1> HIDE DEF c
<1>7. Append(live[cur], c) \in Seq(Chapters)
  BY <1>3, <1>5
<1> QED BY <1>3, <1>4, <1>6, <1>7

\* Ending the work on a tonie leaves the variables of run and job well typed.
LEMMA EndJobType ==
  ASSUME TypeOK, NEW outcome \in Outcomes, EndJob(outcome), cur \in Assignments
  PROVE  /\ pc' \in Steps
         /\ via' \in {"none", "boot", "run", "repair"}
         /\ apply' \in BOOLEAN /\ noTargets' \in BOOLEAN
         /\ repairs' \in SUBSET Assignments /\ rotations' \in SUBSET Assignments
         /\ reports' \in [Assignments -> Outcomes] /\ unmanaged' \in SUBSET Unmanaged
         /\ cur' = NoTonie /\ pc' \in {"select", "idle"}
         /\ path' \in {"swap", "repair"}
         /\ staged' \in Loads
         /\ done' \in Nat /\ tries' \in Nat
         /\ result' \in Seq(ChapterIds)
BY EmptyValues DEF TypeOK, EndJob, ResetJob, ResetRun, Outcomes, Steps

\* Every handler keeps every variable in its type.
LEMMA TypeStep ==
  ASSUME IndInv, [Next]_vars
  PROVE  TypeOK'
<1> USE NoTonieIsNone, LibraryAssumption, FaultAssumption
<1> USE DEF IndInv, TypeOK, Steps, sinkVars, storeVars, rowVars, diskVars, runVars, jobVars,
            Fault, NoFault, Goto
<1>1. CASE UNCHANGED vars
  BY <1>1 DEF vars
<1>2. CASE Boot
  BY <1>2 DEF Boot
<1>3. ASSUME NEW asked \in SUBSET Tonies, NEW write \in BOOLEAN, StartRun(asked, write)
      PROVE  TypeOK'
  BY <1>3 DEF StartRun
<1>4. ASSUME NEW a \in Assignments, StartRepair(a)
      PROVE  TypeOK'
  BY <1>4 DEF StartRepair
<1>5. CASE Crash
  <2>1. reports' \in [Assignments -> Outcomes]
    BY <1>5 DEF Crash, ResetRun, Outcomes
  <2>2. staged' \in Loads /\ result' \in Seq(ChapterIds)
    BY <1>5, EmptyValues DEF Crash, ResetJob
  <2>3. faults' \in 0..MaxFaults
    BY <1>5 DEF Crash
  <2> QED BY <1>5, <2>1, <2>2, <2>3 DEF Crash, ResetRun, ResetJob
<1>6. CASE RunAborts
  <2>1. reports' \in [Assignments -> Outcomes]
    BY <1>6 DEF RunAborts, ResetRun, Outcomes
  <2>2. staged' \in Loads /\ result' \in Seq(ChapterIds)
    BY <1>6, EmptyValues DEF RunAborts, ResetJob
  <2>3. faults' \in 0..MaxFaults
    BY <1>6 DEF RunAborts
  <2> QED BY <1>6, <2>1, <2>2, <2>3 DEF RunAborts, ResetRun, ResetJob
<1>7. ASSUME NEW a \in Assignments, Reconcile(a)
      PROVE  TypeOK'
  BY <1>7 DEF Reconcile
<1>8. CASE Forget
  BY <1>8, EmptyValues DEF Forget
<1>9. CASE ReconcileDone \/ ScanMedia
  BY <1>9 DEF ReconcileDone, ScanMedia
<1>10. CASE List
  BY <1>10 DEF List, Listing
<1>11. CASE ListNothing
  BY <1>11 DEF ListNothing
<1>12. ASSUME NEW a \in Assignments, SelectRepair(a) \/ SelectRotation(a)
       PROVE  TypeOK'
  BY <1>12 DEF SelectRepair, SelectRotation
<1>13. CASE RunEnd
  BY <1>13 DEF RunEnd
<1>14. CASE Evict
  BY <1>14 DEF Evict
<1>15. CASE Finish
  BY <1>15 DEF Finish, ResetRun, Outcomes
<1>16. CASE Skip
  BY <1>16, EndJobType DEF Skip, Outcomes
<1>17. CASE DryRun
  BY <1>17, EndJobType DEF DryRun, Outcomes
<1>18. CASE Plan
  BY <1>18 DEF Plan
<1>19. CASE PlanFails
  BY <1>19, EndJobType DEF PlanFails, Outcomes
<1>20. CASE Stage
  <2>1. staged' \in Loads /\ SetOf(staged'.items) \subseteq Stories
    BY <1>20, FittedLoadType, LoadItems, SetOfType DEF Stage
  <2> QED BY <1>20, <2>1 DEF Stage
<1>21. CASE StageFails
  <2>1. cur \in Assignments /\ SetOf(FittedLoad(cur).items) \subseteq Stories
    BY <1>21, FittedLoadType, LoadItems, SetOfType DEF StageFails
  <2>2. files' \in [Assignments -> SUBSET Stories]
    BY <1>21, <2>1 DEF StageFails
  <2>3. CASE path = "swap"
    BY <1>21, <2>1, <2>2, <2>3, EndJobType DEF StageFails, Outcomes
  <2>4. CASE path = "repair"
    BY <1>21, <2>1, <2>2, <2>4 DEF StageFails
  <2> QED BY <2>3, <2>4
<1>22. CASE Snapshot
  BY <1>22 DEF Snapshot
<1>23. CASE SnapshotFails
  BY <1>23, EndJobType DEF SnapshotFails, Outcomes
<1>24. CASE PutMarker
  BY <1>24 DEF PutMarker
<1>25. CASE Clear
  BY <1>25, EmptyValues DEF Clear
<1>26. CASE ClearRaises
  BY <1>26 DEF ClearRaises
<1>27. CASE Upload
  <2>1. cur \in Assignments /\ done \in 0..(Len(staged.items) - 1)
    BY <1>27, LoadItems, LenProperties DEF Upload, Consistent, UploadedSoFar
  <2>2. live' \in [Assignments -> Seq(Chapters)]
    BY <1>27, <2>1, LandsType DEF Upload
  <2> QED BY <1>27, <2>1, <2>2 DEF Upload
<1>28. CASE UploadRaises
  <2>1. cur \in Assignments /\ done \in 0..(Len(staged.items) - 1)
    BY <1>28, LoadItems, LenProperties DEF UploadRaises, Consistent, UploadedSoFar
  <2>2. live' \in [Assignments -> Seq(Chapters)]
    BY <1>28, <2>1, LandsType DEF UploadRaises
  <2> QED BY <1>28, <2>1, <2>2 DEF UploadRaises
<1>29. CASE SettleOk
  <2>1. cur \in Assignments /\ live[cur] \in Seq(Chapters)
    BY <1>29 DEF SettleOk
  <2>2. IdsOf(live[cur]) \in Seq(ChapterIds)
    BY <2>1, ChapterFields, IdsOfType
  <2> QED BY <1>29, <2>2 DEF SettleOk
<1>30. CASE SettleMismatch \/ SettleFails
  <2>1. CASE SettleMismatch
    BY <2>1 DEF SettleMismatch
  <2>2. CASE SettleFails
    BY <2>2 DEF SettleFails
  <2> QED BY <1>30, <2>1, <2>2
<1>31. CASE CommitRecords
  <2>1. cur \in Assignments /\ live[cur] \in Seq(Chapters) /\ staged.items \in Seq(Stories)
    BY <1>31, LoadItems DEF CommitRecords
  <2>2. result = IdsOf(live[cur]) /\ staged.items = ItemsOf(live[cur])
    BY <1>31 DEF CommitRecords, Consistent, SettledIsStaged
  <2>3. Len(result) = Len(staged.items)
    <3>1. Len(IdsOf(live[cur])) = Len(live[cur])
      BY <2>1, ChapterFields, IdsOfType
    <3>2. Len(ItemsOf(live[cur])) = Len(live[cur])
      BY <2>1, ItemsOfType
    <3> QED BY <2>2, <3>1, <3>2
  <2>4. \A i \in 1..Len(staged.items) : staged.items[i] \in Stories /\ result[i] \in ChapterIds
    BY <2>1, <2>3, ElementOfSeq
  <2> DEFINE new == [i \in DOMAIN staged.items |->
                       [item |-> staged.items[i], id |-> result[i]]]
  <2>5. new \in [1..Len(staged.items) -> Records]
    BY <2>1, <2>4, LenProperties DEF Records
  <2>6. new \in Seq(Records)
    BY <2>1, <2>5, LenProperties, FunctionIsSeq
  <2>7. records' = [records EXCEPT ![cur] = new]
    BY <1>31 DEF CommitRecords
  <2> HIDE DEF new
  <2>8. records' \in [Assignments -> Seq(Records)]
    BY <2>1, <2>6, <2>7
  <2> QED BY <1>31, <2>8 DEF CommitRecords
<1>32. CASE CommitCursor
  <2>1. cur \in Assignments /\ Len(staged.items) \in Nat
    BY <1>32, LoadItems, LenProperties DEF CommitCursor
  <2>2. (cursor[cur] + Len(staged.items)) % N \in Stories
    <3>1. cursor[cur] + Len(staged.items) \in Int
      BY <2>1 DEF Stories
    <3> QED BY <3>1, ModInStories
  <2> QED BY <1>32, <2>1, <2>2 DEF CommitCursor
<1>33. CASE CommitSuccess
  BY <1>33 DEF CommitSuccess
<1>34. CASE CommitUnmark
  <2>1. cur \in Assignments /\ Upcoming(cur) \subseteq Stories
    BY <1>34, UpcomingType DEF CommitUnmark
  <2>2. files' \in [Assignments -> SUBSET Stories]
    <3>1. CASE path = "swap"
      <4>1. PICK got \in SUBSET Upcoming(cur) :
               files' = [files EXCEPT ![cur] = files[cur] \union got]
        BY <1>34, <3>1, Zenon DEF CommitUnmark, Prefetch
      <4> QED BY <2>1, <4>1
    <3>2. CASE path = "repair"
      BY <1>34, <3>2 DEF CommitUnmark
    <3> QED BY <3>1, <3>2
  <2>3. CASE path = "swap"
    BY <1>34, <2>1, <2>2, <2>3, EndJobType, EmptyValues DEF CommitUnmark, Outcomes
  <2>4. CASE path = "repair"
    BY <1>34, <2>1, <2>2, <2>4, EmptyValues DEF CommitUnmark
  <2> QED BY <2>3, <2>4
<1>35. CASE ReloadOk \/ ReloadNothing \/ ReloadCorrupt
  BY <1>35 DEF ReloadOk, ReloadNothing, ReloadCorrupt
<1>36. CASE Observe
  <2>1. cur \in Assignments /\ live[cur] \in Seq(Chapters)
    BY <1>36 DEF Observe
  <2>2. IdsOf(live[cur]) \in Seq(ChapterIds)
    BY <2>1, ChapterFields, IdsOfType
  <2> QED BY <1>36, <2>2 DEF Observe
<1>37. CASE SetOk
  <2>1. cur \in Assignments /\ Upcoming(cur) \subseteq Stories
    BY <1>37, UpcomingType DEF SetOk
  <2>2. files' \in [Assignments -> SUBSET Stories]
    BY <1>37, <2>1 DEF SetOk, Prefetch
  <2> QED BY <1>37, <2>1, <2>2, EndJobType, EmptyValues DEF SetOk, Outcomes
<1>38. CASE Degrade
  BY <1>38 DEF Degrade
<1>39. CASE DegradeUnmark
  BY <1>39, EndJobType, EmptyValues DEF DegradeUnmark, Outcomes
<1>40. CASE Raises
  BY <1>40, EndJobType DEF Raises, Outcomes
<1>41. ASSUME NEW a \in Assignments, Transcode(a)
       PROVE  TypeOK'
  <2>1. live[a] \in Seq(Chapters)
    OBVIOUS
  <2> DEFINE playable == [i \in DOMAIN live[a] |-> [live[a][i] EXCEPT !.ready = TRUE]]
  <2>2. playable \in [1..Len(live[a]) -> Chapters]
    <3>1. DOMAIN live[a] = 1..Len(live[a]) /\ \A i \in 1..Len(live[a]) : live[a][i] \in Chapters
      BY <2>1, LenProperties
    <3>2. \A i \in 1..Len(live[a]) : [live[a][i] EXCEPT !.ready = TRUE] \in Chapters
      BY <3>1 DEF Chapters
    <3> QED BY <3>1, <3>2
  <2>3. playable \in Seq(Chapters)
    BY <2>1, <2>2, LenProperties, FunctionIsSeq
  <2>4. live' = [live EXCEPT ![a] = playable]
    BY <1>41 DEF Transcode
  <2> HIDE DEF playable
  <2>5. live' \in [Assignments -> Seq(Chapters)]
    BY <2>3, <2>4
  <2> QED BY <1>41, <2>5 DEF Transcode
<1>42. CASE NewDay \/ FolderChanges
  <2>1. CASE NewDay
    BY <2>1 DEF NewDay
  <2>2. CASE FolderChanges
    BY <2>2 DEF FolderChanges
  <2> QED BY <1>42, <2>1, <2>2
<1>43. CASE Work
  BY <1>43, <1>7, <1>8, <1>9, <1>10, <1>12, <1>13, <1>14, <1>15, <1>16, <1>17,
     <1>18, <1>20, <1>22, <1>24, <1>25, <1>27, <1>29, <1>30, <1>31, <1>32, <1>33,
     <1>34, <1>35, <1>36, <1>37, <1>38, <1>39, Zenon DEF Work
<1>44. CASE Faulty
  BY <1>44, <1>5, <1>6, <1>11, <1>19, <1>21, <1>23, <1>26, <1>28, <1>30, <1>35,
     <1>40, Zenon DEF Faulty
<1>45. CASE ScheduledRun
  BY <1>45, <1>3 DEF ScheduledRun
<1>46. CASE ManualRun
  <2>1. PICK asked \in SUBSET Tonies, write \in BOOLEAN : StartRun(asked, write)
    BY <1>46, Zenon DEF ManualRun
  <2> QED BY <2>1, <1>3
<1> QED
  BY <1>1, <1>2, <1>4, <1>41, <1>42, <1>43, <1>44, <1>45, <1>46, Zenon DEF Next

\* A cleared tonie holds no stories.
LEMMA ItemsOfEmpty ==
  ItemsOf(<<>>) = <<>> /\ IdsOf(<<>>) = <<>> /\ Len(<<>>) = 0 /\ AllReady(<<>>)
BY DEF ItemsOf, IdsOf, AllReady

\* A chapter that lands adds its story after those the tonie held.
LEMMA ItemsOfAppend ==
  ASSUME NEW s \in Seq(Chapters), NEW c \in Chapters
  PROVE  /\ Len(Append(s, c)) = Len(s) + 1
         /\ ItemsOf(Append(s, c)) = Append(ItemsOf(s), c.item)
<1>1. Append(s, c) \in Seq(Chapters) /\ Len(Append(s, c)) = Len(s) + 1 /\ Len(s) \in Nat
  BY LenProperties
<1>2. \A i \in 1..(Len(s) + 1) : Append(s, c)[i] = IF i <= Len(s) THEN s[i] ELSE c
  BY <1>1
<1> DEFINE T == {x.item : x \in Chapters}
           u == ItemsOf(Append(s, c))
           v == Append(ItemsOf(s), c.item)
<1>3. u \in Seq(T) /\ Len(u) = Len(s) + 1
      /\ \A i \in 1..(Len(s) + 1) : u[i] = Append(s, c)[i].item
  BY <1>1, ItemsOfType
<1>4. ItemsOf(s) \in Seq(T) /\ Len(ItemsOf(s)) = Len(s)
      /\ \A i \in 1..Len(s) : ItemsOf(s)[i] = s[i].item
  BY ItemsOfType
<1>5. c.item \in T
  OBVIOUS
<1> HIDE DEF T
<1>6. v \in Seq(T) /\ Len(v) = Len(s) + 1
      /\ \A i \in 1..(Len(s) + 1) : v[i] = IF i <= Len(s) THEN s[i].item ELSE c.item
  BY <1>1, <1>4, <1>5
<1>7. \A i \in 1..(Len(s) + 1) : u[i] = v[i]
  BY <1>2, <1>3, <1>6
<1> HIDE DEF u, v
<1>8. u = v
  BY <1>3, <1>6, <1>7, SeqEqual
<1> QED BY <1>1, <1>8 DEF u, v

\* A load that is staged has a first story to upload.
LEMMA LoadNotEmpty ==
  \A load \in Loads : load # NoStaged => Len(load.items) \in Nat /\ Len(load.items) > 0
BY LoadItems, LenProperties, EmptySeq

\* Nothing has been uploaded before the first chapter.
LEMMA SubSeqNothing == \A s : SubSeq(s, 1, 0) = <<>>
OBVIOUS

\* The records _commit writes name the staged stories and the settled ids.
LEMMA ItemsOfRecords ==
  ASSUME NEW s \in Seq(Chapters), NEW new,
         new = [i \in DOMAIN ItemsOf(s) |->
                  [item |-> ItemsOf(s)[i], id |-> IdsOf(s)[i]]]
  PROVE  ItemsOf(new) = ItemsOf(s) /\ IdsOf(new) = IdsOf(s)
BY DEF ItemsOf, IdsOf

\* One more uploaded chapter is one more story of the staged load.
LEMMA SubSeqAppend ==
  ASSUME NEW S, NEW s \in Seq(S), NEW n \in 0..(Len(s) - 1)
  PROVE  SubSeq(s, 1, n + 1) = Append(SubSeq(s, 1, n), s[n + 1])
OBVIOUS

\* Transcoding changes neither the stories nor the ids on a tonie.
LEMMA TranscodeKeeps ==
  ASSUME NEW s \in Seq(Chapters), NEW t,
         t = [i \in DOMAIN s |-> [s[i] EXCEPT !.ready = TRUE]]
  PROVE  ItemsOf(t) = ItemsOf(s) /\ IdsOf(t) = IdsOf(s) /\ AllReady(t) /\ Len(t) = Len(s)
<1>1. DOMAIN s = 1..Len(s) /\ Len(s) \in Nat /\ \A i \in 1..Len(s) : s[i] \in Chapters
  BY LenProperties
<1>2. DOMAIN t = DOMAIN s /\ \A i \in DOMAIN s : t[i] = [s[i] EXCEPT !.ready = TRUE]
  OBVIOUS
<1>3. \A i \in DOMAIN s : t[i].item = s[i].item /\ t[i].id = s[i].id /\ t[i].ready
  BY <1>1, <1>2 DEF Chapters
<1>4. t \in [1..Len(s) -> Chapters]
  BY <1>1, <1>2 DEF Chapters
<1>5. Len(t) = Len(s)
  BY <1>1, <1>4, FunctionIsSeq
<1> QED BY <1>2, <1>3, <1>5 DEF ItemsOf, IdsOf, AllReady

\* Every handler keeps Consistent: the case split is by handler, and under it
\* by the part of Consistent that the handler disturbs.
LEMMA ConsistentStep ==
  ASSUME IndInv, [Next]_vars
  PROVE  Consistent'
<1> USE NoTonieIsNone
<1> USE DEF IndInv, TypeOK, Consistent, NoSilentDamage, FreshJob, StagedLoad,
            MarkedBeforeClear, OpenWhileLoading, UploadedSoFar, SettledIsStaged,
            CommittedIsLive, DegradedIsStored, Owed, Intact,
            sinkVars, storeVars, rowVars, diskVars, runVars, jobVars, Fault, NoFault, Goto
<1>1. CASE UNCHANGED vars
  BY <1>1 DEF vars
<1>2. CASE Boot
  BY <1>2 DEF Boot
<1>3. CASE ReconcileDone \/ ScanMedia
  BY <1>3 DEF ReconcileDone, ScanMedia
<1>4. CASE List
  BY <1>4 DEF List, Listing
<1>5. CASE ListNothing
  BY <1>5 DEF ListNothing
<1>6. CASE RunEnd
  BY <1>6 DEF RunEnd
<1>7. CASE Evict
  BY <1>7 DEF Evict
<1>8. CASE Finish
  BY <1>8 DEF Finish, ResetRun
<1>9. CASE Crash
  BY <1>9 DEF Crash, ResetRun, ResetJob
<1>10. CASE RunAborts
  BY <1>10 DEF RunAborts, ResetRun, ResetJob
<1>11. CASE Skip
  BY <1>11 DEF Skip, EndJob, ResetRun, ResetJob
<1>12. CASE DryRun
  BY <1>12 DEF DryRun, EndJob, ResetRun, ResetJob
<1>13. CASE Plan
  BY <1>13 DEF Plan
<1>14. CASE PlanFails
  BY <1>14 DEF PlanFails, EndJob, ResetRun, ResetJob
<1>15. CASE Stage
  <2>1. cur \in Assignments /\ staged' # NoStaged
    BY <1>15, FittedLoadType DEF Stage
  <2> QED BY <1>15, <2>1 DEF Stage
<1>16. CASE StageFails
  BY <1>16 DEF StageFails, EndJob, ResetRun, ResetJob
<1>17. CASE Snapshot
  BY <1>17 DEF Snapshot
<1>18. CASE SnapshotFails
  BY <1>18 DEF SnapshotFails, EndJob, ResetRun, ResetJob
<1>19. CASE SettleMismatch
  BY <1>19 DEF SettleMismatch
<1>20. CASE SettleFails
  BY <1>20 DEF SettleFails
<1>21. CASE ReloadOk \/ ReloadNothing \/ ReloadCorrupt
  BY <1>21 DEF ReloadOk, ReloadNothing, ReloadCorrupt
<1>22. CASE Raises
  BY <1>22 DEF Raises, EndJob, ResetRun, ResetJob
<1>23. CASE NewDay \/ FolderChanges
  BY <1>23 DEF NewDay, FolderChanges
<1>24. CASE CommitCursor
  BY <1>24 DEF CommitCursor
<1>25. CASE CommitSuccess
  BY <1>25 DEF CommitSuccess
<1>26. CASE Forget
  BY <1>26 DEF Forget
<1>27. CASE PutMarker
  BY <1>27 DEF PutMarker
<1>28. CASE Clear
  <2>1. cur \in Assignments /\ done = 0 /\ Len(staged.items) > 0
    BY <1>28, LoadNotEmpty DEF Clear
  <2>2. live'[cur] = <<>> /\ \A b \in Assignments \ {cur} : live'[b] = live[b]
    BY <1>28, <2>1 DEF Clear
  <2>3. ItemsOf(live'[cur]) = SubSeq(staged.items, 1, 0) /\ Len(live'[cur]) = 0
    BY <2>1, <2>2, ItemsOfEmpty, SubSeqNothing
  <2> QED BY <1>28, <2>1, <2>2, <2>3 DEF Clear
<1>29. CASE ClearRaises
  BY <1>29 DEF ClearRaises
<1>30. CASE Upload
  <2>1. cur \in Assignments /\ staged.items \in Seq(Stories)
        /\ done \in 0..(Len(staged.items) - 1) /\ live[cur] \in Seq(Chapters)
    BY <1>30, LoadItems, LenProperties DEF Upload
  <2>2. PICK c \in Chapters :
          /\ c.item = staged.items[done + 1]
          /\ live' = [live EXCEPT ![cur] = Append(live[cur], c)]
    BY <1>30, <2>1, LandsType, Zenon DEF Upload
  <2>3. live'[cur] = Append(live[cur], c) /\ \A b \in Assignments \ {cur} : live'[b] = live[b]
    BY <2>1, <2>2
  <2>4. Len(live'[cur]) = Len(live[cur]) + 1 /\ Len(live[cur]) \in Nat
    BY <2>1, <2>3, ItemsOfAppend, LenProperties
  <2>5. done = Len(live[cur]) => ItemsOf(live'[cur]) = SubSeq(staged.items, 1, done + 1)
    <3>1. ItemsOf(live'[cur]) = Append(ItemsOf(live[cur]), staged.items[done + 1])
      BY <2>1, <2>2, <2>3, ItemsOfAppend
    <3>2. SubSeq(staged.items, 1, done + 1)
            = Append(SubSeq(staged.items, 1, done), staged.items[done + 1])
      BY <2>1, SubSeqAppend
    <3> QED BY <1>30, <3>1, <3>2 DEF Upload
  <2>6. /\ done' = done + 1 /\ pc' \in {"settle", "upload"}
        /\ (pc' = "settle" <=> done + 1 = Len(staged.items))
        /\ UNCHANGED <<storeVars, cur, staged>>
    BY <1>30, Zenon DEF Upload
  <2>7. Owed(cur) \/ records[cur] = <<>>
    BY <1>30 DEF Upload
  <2>8. NoSilentDamage'
    BY <2>1, <2>3, <2>6, <2>7
  <2>9. UploadedSoFar'
    <3>1. done + 1 <= Len(live'[cur]) /\ done <= Len(live[cur])
      BY <1>30, <2>1, <2>4 DEF Upload
    <3>2. done + 1 = Len(live'[cur]) => done = Len(live[cur])
      BY <2>1, <2>4
    <3>3. pc' = "upload" => done + 1 < Len(staged.items)
      BY <2>1, <2>6
    <3> QED BY <2>5, <2>6, <3>1, <3>2, <3>3
  <2>10. OpenWhileLoading'
    BY <2>6, <2>7
  <2> QED BY <1>30, <2>6, <2>8, <2>9, <2>10 DEF Upload
<1>31. CASE UploadRaises
  <2>1. cur \in Assignments /\ staged.items \in Seq(Stories)
        /\ done \in 0..(Len(staged.items) - 1) /\ live[cur] \in Seq(Chapters)
        /\ Len(live[cur]) \in Nat
    BY <1>31, LoadItems, LenProperties DEF UploadRaises
  <2>2. CASE Lands
    <3>1. PICK c \in Chapters : live' = [live EXCEPT ![cur] = Append(live[cur], c)]
      BY <2>1, <2>2, LandsType, Zenon
    <3>2. live'[cur] = Append(live[cur], c)
          /\ \A b \in Assignments \ {cur} : live'[b] = live[b]
      BY <2>1, <3>1
    <3>3. Len(live'[cur]) = Len(live[cur]) + 1
      BY <2>1, <3>2, ItemsOfAppend
    <3>4. /\ done' = done /\ pc' \in {"degrade", "upload"}
          /\ UNCHANGED <<storeVars, cur, staged>>
      BY <1>31, Zenon DEF UploadRaises
    <3>5. Owed(cur) \/ records[cur] = <<>>
      BY <1>31 DEF UploadRaises
    <3>6. NoSilentDamage'
      BY <2>1, <3>2, <3>4, <3>5
    <3>7. UploadedSoFar'
      BY <1>31, <2>1, <3>3, <3>4 DEF UploadRaises
    <3>8. OpenWhileLoading'
      BY <3>4, <3>5
    <3> QED BY <1>31, <3>4, <3>6, <3>7, <3>8 DEF UploadRaises
  <2>3. CASE UNCHANGED live
    BY <1>31, <2>1, <2>3 DEF UploadRaises
  <2> QED BY <1>31, <2>2, <2>3 DEF UploadRaises
<1>32. CASE SettleOk
  <2>1. cur \in Assignments /\ staged.items \in Seq(Stories)
    BY <1>32, LoadItems DEF SettleOk
  <2>2. ItemsOf(live[cur]) = SubSeq(staged.items, 1, Len(staged.items))
    BY <1>32 DEF SettleOk
  <2>3. ItemsOf(live[cur]) = staged.items
    BY <2>1, <2>2, SubSeqFull
  <2> QED BY <1>32, <2>3 DEF SettleOk
<1>33. CASE CommitRecords
  <2> DEFINE new == [i \in DOMAIN staged.items |->
                       [item |-> staged.items[i], id |-> result[i]]]
  <2>1. cur \in Assignments /\ live[cur] \in Seq(Chapters) /\ Len(staged.items) > 0
        /\ result = IdsOf(live[cur]) /\ staged.items = ItemsOf(live[cur])
        /\ AllReady(live[cur])
    BY <1>33, LoadNotEmpty DEF CommitRecords
  <2>2. ItemsOf(new) = ItemsOf(live[cur]) /\ IdsOf(new) = IdsOf(live[cur])
    <3>1. new = [i \in DOMAIN ItemsOf(live[cur]) |->
                   [item |-> ItemsOf(live[cur])[i], id |-> IdsOf(live[cur])[i]]]
      BY <2>1
    <3> HIDE DEF new
    <3> QED BY <2>1, <3>1, ItemsOfRecords
  <2>3. records' = [records EXCEPT ![cur] = new]
    BY <1>33 DEF CommitRecords
  <2>4. records'[cur] = new /\ \A b \in Assignments \ {cur} : records'[b] = records[b]
    BY <2>1, <2>3
  <2>5. new # <<>>
    BY <2>1, <2>2, ItemsOfEmpty
  <2> HIDE DEF new
  <2> QED BY <1>33, <2>1, <2>2, <2>4, <2>5 DEF CommitRecords
<1>34. CASE CommitUnmark
  BY <1>34 DEF CommitUnmark, EndJob, ResetRun, ResetJob
<1>35. CASE Observe
  <2>1. cur \in Assignments /\ done = 0 /\ Len(staged.items) > 0
        /\ records[cur] \in Seq(Records)
    BY <1>35, LoadNotEmpty DEF Observe
  <2>2. CASE live[cur] = <<>>
    <3>1. ItemsOf(live[cur]) = SubSeq(staged.items, 1, 0) /\ Len(live[cur]) = 0
      BY <2>2, ItemsOfEmpty, SubSeqNothing
    <3>2. Owed(cur) \/ records[cur] = <<>>
      <4>1. Intact(cur) => ItemsOf(records[cur]) = <<>>
        BY <2>2, ItemsOfEmpty
      <4>2. Len(ItemsOf(records[cur])) = Len(records[cur])
        BY <2>1, ItemsOfType
      <4>3. ItemsOf(records[cur]) = <<>> => records[cur] = <<>>
        BY <2>1, <4>2, ItemsOfEmpty, EmptySeq
      <4> QED BY <2>1, <4>1, <4>3
    <3> QED BY <1>35, <2>1, <2>2, <3>1, <3>2 DEF Observe
  <2>3. CASE live[cur] # <<>>
    BY <1>35, <2>1, <2>3 DEF Observe, LiveMatchesStaged
  <2> QED BY <2>2, <2>3
<1>36. CASE SetOk
  BY <1>36 DEF SetOk, EndJob, ResetRun, ResetJob
<1>37. CASE Degrade
  BY <1>37 DEF Degrade
<1>38. CASE DegradeUnmark
  BY <1>38 DEF DegradeUnmark, EndJob, ResetRun, ResetJob
<1>39. ASSUME NEW a \in Assignments, StartRepair(a)
      PROVE  Consistent'
  BY <1>39 DEF StartRepair
<1>40. ASSUME NEW a \in Assignments, Reconcile(a)
      PROVE  Consistent'
  BY <1>40 DEF Reconcile
<1>41. ASSUME NEW a \in Assignments, SelectRepair(a) \/ SelectRotation(a)
      PROVE  Consistent'
  BY <1>41 DEF SelectRepair, SelectRotation
<1>42. ASSUME NEW a \in Assignments, Transcode(a)
      PROVE  Consistent'
  <2> DEFINE playable == [i \in DOMAIN live[a] |-> [live[a][i] EXCEPT !.ready = TRUE]]
  <2>1. live' = [live EXCEPT ![a] = playable]
    BY <1>42 DEF Transcode
  <2>2. ItemsOf(playable) = ItemsOf(live[a]) /\ IdsOf(playable) = IdsOf(live[a])
        /\ AllReady(playable) /\ Len(playable) = Len(live[a])
    BY TranscodeKeeps
  <2> HIDE DEF playable
  <2>3. live'[a] = playable /\ \A b \in Assignments \ {a} : live'[b] = live[b]
    BY <2>1
  <2>4. \A b \in Assignments :
          /\ ItemsOf(live'[b]) = ItemsOf(live[b]) /\ IdsOf(live'[b]) = IdsOf(live[b])
          /\ Len(live'[b]) = Len(live[b]) /\ (AllReady(live[b]) => AllReady(live'[b]))
    BY <2>2, <2>3
  <2>5. UNCHANGED <<storeVars, diskVars, pc, runVars, jobVars, faults>>
    BY <1>42 DEF Transcode
  <2> QED BY <2>4, <2>5
<1>43. ASSUME NEW asked \in SUBSET Tonies, NEW write \in BOOLEAN, StartRun(asked, write)
      PROVE  Consistent'
  BY <1>43 DEF StartRun
<1>44. CASE Work
  BY <1>44, <1>3, <1>4, <1>6, <1>7, <1>8, <1>11, <1>12, <1>13, <1>15, <1>17, <1>19,
     <1>21, <1>24, <1>25, <1>26, <1>27, <1>28, <1>30, <1>32, <1>33, <1>34, <1>35,
     <1>36, <1>37, <1>38, <1>40, <1>41, Zenon DEF Work
<1>45. CASE Faulty
  BY <1>45, <1>5, <1>9, <1>10, <1>14, <1>16, <1>18, <1>20, <1>21, <1>22, <1>29,
     <1>31, Zenon DEF Faulty
<1>46. CASE ScheduledRun
  BY <1>46, <1>43 DEF ScheduledRun
<1>47. CASE ManualRun
  <2>1. PICK asked \in SUBSET Tonies, write \in BOOLEAN : StartRun(asked, write)
    BY <1>47, Zenon DEF ManualRun
  <2> QED BY <2>1, <1>43
<1> QED
  BY <1>1, <1>2, <1>23, <1>39, <1>42, <1>44, <1>45, <1>46, <1>47, Zenon DEF Next

-----------------------------------------------------------------------------
(* The theorems. *)

\* A fresh store and tonies nobody loaded yet satisfy the invariant.
LEMMA IndInvInit == Init => IndInv
<1> SUFFICES ASSUME Init PROVE IndInv
  OBVIOUS
<1>1. TypeOK
  <2>1. live \in [Assignments -> Seq(Chapters)]
    <3> DEFINE foreign == [item |-> Foreign, id |-> 0, ready |-> TRUE]
    <3>1. foreign \in Chapters
      BY IdAssumption DEF Chapters
    <3> HIDE DEF foreign
    <3>2. <<>> \in Seq(Chapters) /\ <<foreign>> \in Seq(Chapters)
      BY <3>1
    <3>3. live \in [Assignments -> {<<>>, <<foreign>>}]
      BY DEF Init, foreign
    <3> QED BY <3>2, <3>3
  <2>2. 0 \in Stories /\ 0 \in 0..MaxFaults
    BY LibraryAssumption, FaultAssumption DEF Stories
  <2> QED BY <2>1, <2>2, EmptyValues, NoTonieIsNone
          DEF Init, TypeOK, Steps, Outcomes
<1>2. Consistent
  BY DEF Init, Consistent, NoSilentDamage, FreshJob, StagedLoad, MarkedBeforeClear,
         OpenWhileLoading, UploadedSoFar, SettledIsStaged, CommittedIsLive,
         DegradedIsStored
<1> QED BY <1>1, <1>2 DEF IndInv

\* No handler, fault or step of the world breaks the invariant.
LEMMA IndInvStep == IndInv /\ [Next]_vars => IndInv'
BY TypeStep, ConsistentStep DEF IndInv

\* Whatever is interrupted, raised or timed out, and for any number of tonies,
\* stories, attempts and faults: TypeOK and all parts of Consistent hold.
THEOREM Invariance == Spec => []IndInv
BY IndInvInit, IndInvStep, PTL DEF Spec

\* Every variable keeps its type, and a job has a tonie exactly while one of
\* its steps is next.
THEOREM TypeCorrect == Spec => []TypeOK
<1>1. IndInv => TypeOK
  BY DEF IndInv
<1> QED BY <1>1, Invariance, PTL

\* A tonie that was loaded once and is neither DEGRADED nor marked holds
\* exactly the committed load: run.py's promise that nothing it does leaves a
\* tonie wrong while the store calls it OK.
THEOREM NoDamage == Spec => []NoSilentDamage
<1>1. IndInv => NoSilentDamage
  BY DEF IndInv, Consistent
<1> QED BY <1>1, Invariance, PTL

-----------------------------------------------------------------------------
(***************************************************************************)
(* Orchestrator implements TonieGuard: every step of the run loop, of a    *)
(* repair, of the reconciliation or of the cloud is a step of the promise  *)
(* or a stutter. The lemmas say under what change of the stored and of the *)
(* real chapters a step is which step of the promise; GuardStep goes       *)
(* through the handlers.                                                   *)
(***************************************************************************)
SameOwed    == \A a \in Assignments : Owed(a)' = Owed(a)
OthersOwed(t) == \A a \in Assignments \ {t} : Owed(a)' = Owed(a)
SameRecords == \A a \in Assignments : ItemsOf(records'[a]) = ItemsOf(records[a])
SameLive    == \A a \in Assignments : ItemsOf(live'[a]) = ItemsOf(live[a])

\* A step that changes no story, no record's story and no owing is a stutter.
LEMMA StutterStep ==
  ASSUME SameLive, SameRecords, SameOwed
  PROVE  UNCHANGED Guard!vars
BY DEF SameLive, SameRecords, SameOwed, Guard!vars

\* Writing the marker, or the state DEGRADED, is Admit.
LEMMA AdmitStep ==
  ASSUME NEW t \in Assignments, SameLive, SameRecords, OthersOwed(t),
         Owed(t) = FALSE, Owed(t)' = TRUE
  PROVE  Guard!Next
<1>1. Guard!Admit(t)
  BY DEF Guard!Admit, SameLive, SameRecords, OthersOwed
<1> QED BY <1>1 DEF Guard!Next

\* Dropping the marker, or returning to OK, is Release when the tonie holds
\* what is on record.
LEMMA ReleaseStep ==
  ASSUME NEW t \in Assignments, SameLive, SameRecords, OthersOwed(t),
         Owed(t) = TRUE, Owed(t)' = FALSE,
         ItemsOf(records[t]) = ItemsOf(live[t]), ItemsOf(live[t]) # <<>>
  PROVE  Guard!Next
<1>1. Guard!Release(t)
  BY DEF Guard!Release, SameLive, SameRecords, OthersOwed
<1> QED BY <1>1 DEF Guard!Next

\* What a clear takes off a tonie that is owed is Wipe.
LEMMA WipeStep ==
  ASSUME NEW t \in Assignments, SameRecords, SameOwed, Owed(t),
         NEW k \in 0..(Len(ItemsOf(live[t])) - 1),
         ItemsOf(live'[t]) = SubSeq(ItemsOf(live[t]), 1, k),
         \A a \in Assignments \ {t} : live'[a] = live[a]
  PROVE  Guard!Next
<1>1. [a \in Assignments |-> ItemsOf(live'[a])] =
        [[a \in Assignments |-> ItemsOf(live[a])]
           EXCEPT ![t] = SubSeq(ItemsOf(live[t]), 1, k)]
  OBVIOUS
<1>2. Guard!Wipe(t)
  <2>1. UNCHANGED <<[a \in Assignments |-> ItemsOf(records[a])],
                    [a \in Assignments |-> Owed(a)]>>
    BY DEF SameRecords, SameOwed
  <2> QED BY <1>1, <2>1 DEF Guard!Wipe
<1> QED BY <1>2 DEF Guard!Next

\* A chapter that lands on a tonie that is owed, or was never loaded, is Fill.
LEMMA FillStep ==
  ASSUME NEW t \in Assignments, SameRecords, SameOwed,
         Owed(t) \/ ItemsOf(records[t]) = <<>>,
         NEW s \in Stories \union {Foreign},
         ItemsOf(live'[t]) = Append(ItemsOf(live[t]), s),
         \A a \in Assignments \ {t} : live'[a] = live[a]
  PROVE  Guard!Next
<1>1. [a \in Assignments |-> ItemsOf(live'[a])] =
        [[a \in Assignments |-> ItemsOf(live[a])]
           EXCEPT ![t] = Append(ItemsOf(live[t]), s)]
  OBVIOUS
<1>2. Guard!Fill(t)
  <2>1. UNCHANGED <<[a \in Assignments |-> ItemsOf(records[a])],
                    [a \in Assignments |-> Owed(a)]>>
    BY DEF SameRecords, SameOwed
  <2>2. Guard!Open(t)
    BY DEF Guard!Open
  <2> QED BY <1>1, <2>1, <2>2 DEF Guard!Fill
<1> QED BY <1>2 DEF Guard!Next

\* Committing the records of a settled load is Record.
LEMMA RecordStep ==
  ASSUME NEW t \in Assignments, SameLive, SameOwed,
         Owed(t) \/ ItemsOf(records[t]) = <<>>,
         ItemsOf(live[t]) # <<>>,
         ItemsOf(records'[t]) = ItemsOf(live[t]),
         \A a \in Assignments \ {t} : records'[a] = records[a]
  PROVE  Guard!Next
<1>1. [a \in Assignments |-> ItemsOf(records'[a])] =
        [[a \in Assignments |-> ItemsOf(records[a])] EXCEPT ![t] = ItemsOf(live[t])]
  OBVIOUS
<1>2. Guard!Record(t)
  <2>1. UNCHANGED <<[a \in Assignments |-> ItemsOf(live[a])],
                    [a \in Assignments |-> Owed(a)]>>
    BY DEF SameLive, SameOwed
  <2>2. Guard!Open(t)
    BY DEF Guard!Open
  <2> QED BY <1>1, <2>1, <2>2 DEF Guard!Record
<1> QED BY <1>2 DEF Guard!Next

-----------------------------------------------------------------------------
(* Every step of Orchestrator, in a state where Consistent holds. *)

\* A settled read, or a committed tonie, is not empty when its load is not.
LEMMA ItemsNotEmpty ==
  ASSUME NEW S, NEW s \in Seq(S)
  PROVE  (ItemsOf(s) = <<>>) <=> (s = <<>>)
<1>1. Len(ItemsOf(s)) = Len(s) /\ ItemsOf(s) \in Seq({c.item : c \in S})
  BY ItemsOfType
<1> QED BY <1>1, EmptySeq

\* The first chapters of a tonie hold the first of its stories.
LEMMA ItemsOfPrefix ==
  ASSUME NEW s \in Seq(Chapters), NEW k \in 0..Len(s)
  PROVE  ItemsOf(SubSeq(s, 1, k)) = SubSeq(ItemsOf(s), 1, k)
<1> DEFINE T == {c.item : c \in Chapters}
           u == ItemsOf(SubSeq(s, 1, k))
           v == SubSeq(ItemsOf(s), 1, k)
<1>1. Len(s) \in Nat /\ k \in Nat /\ k <= Len(s)
  BY LenProperties
<1>2. SubSeq(s, 1, k) \in Seq(Chapters) /\ Len(SubSeq(s, 1, k)) = k
      /\ \A i \in 1..k : SubSeq(s, 1, k)[i] = s[i]
  <2>1. \A i \in 1..k : s[i] \in Chapters
    BY <1>1, ElementOfSeq
  <2> QED BY <1>1, <2>1, SubSeqProperties
<1>3. ItemsOf(s) \in Seq(T) /\ Len(ItemsOf(s)) = Len(s)
      /\ \A i \in 1..Len(s) : ItemsOf(s)[i] = s[i].item
  BY ItemsOfType
<1>4. u \in Seq(T) /\ Len(u) = k /\ \A i \in 1..k : u[i] = s[i].item
  BY <1>1, <1>2, ItemsOfType
<1>5. v \in Seq(T) /\ Len(v) = k /\ \A i \in 1..k : v[i] = s[i].item
  <2> HIDE DEF T
  <2>1. \A i \in 1..k : ItemsOf(s)[i] \in T
    BY <1>1, <1>3, ElementOfSeq
  <2> QED BY <1>1, <1>3, <2>1, SubSeqProperties
<1> HIDE DEF u, v, T
<1> QED BY <1>4, <1>5, SeqEqual DEF u, v

\* Handlers that write no chapter, no record, no marker and no state.
LEMMA QuietStep ==
  ASSUME UNCHANGED <<live, records, marker, state>>
  PROVE  UNCHANGED Guard!vars
<1>1. SameLive /\ SameRecords /\ SameOwed
  BY DEF SameLive, SameRecords, SameOwed, Owed
<1> QED BY <1>1, StutterStep

\* Each step is a step of TonieGuard or a stutter.
LEMMA GuardStep ==
  ASSUME IndInv, [Next]_vars
  PROVE  Guard!Next \/ UNCHANGED Guard!vars
<1> USE NoTonieIsNone
<1> USE DEF IndInv, TypeOK, sinkVars, storeVars, rowVars, diskVars, runVars, jobVars, Goto
<1>1. CASE UNCHANGED vars
  BY <1>1, QuietStep DEF vars
<1>2. CASE UNCHANGED <<live, records, marker, state>>
  BY <1>2, QuietStep
<1>3. ASSUME NEW a \in Assignments, Reconcile(a)
      PROVE  UNCHANGED Guard!vars
  <2>1. SameLive /\ SameRecords /\ SameOwed
    BY <1>3 DEF Reconcile, SameLive, SameRecords, SameOwed, Owed
  <2> QED BY <2>1, StutterStep
<1>4. CASE Forget \/ DegradeUnmark
  <2>1. cur \in Assignments /\ state[cur] = "DEGRADED"
    BY <1>4 DEF Forget, DegradeUnmark, Consistent, DegradedIsStored
  <2>2. SameLive /\ SameRecords /\ SameOwed
    BY <1>4, <2>1 DEF Forget, DegradeUnmark, SameLive, SameRecords, SameOwed, Owed
  <2> QED BY <2>2, StutterStep
<1>5. CASE PutMarker \/ Degrade
  <2>1. PICK t \in Assignments : t = cur
    BY <1>5 DEF PutMarker, Degrade
  <2>2. SameLive /\ SameRecords /\ OthersOwed(t)
    BY <1>5, <2>1 DEF PutMarker, Degrade, SameLive, SameRecords, OthersOwed, Owed
  <2>3. Owed(t)' = TRUE
    BY <1>5, <2>1 DEF PutMarker, Degrade, Owed, Consistent, StagedLoad
  <2>4. CASE Owed(t) = TRUE
    <3>1. SameOwed
      BY <2>2, <2>3, <2>4 DEF SameOwed, OthersOwed
    <3> QED BY <2>2, <3>1, StutterStep
  <2>5. CASE Owed(t) = FALSE
    BY <2>2, <2>3, <2>5, AdmitStep
  <2>6. Owed(t) \in BOOLEAN
    BY DEF Owed
  <2> QED BY <2>4, <2>5, <2>6
<1>6. CASE Clear \/ ClearRaises
  <2>1. cur \in Assignments /\ live[cur] \in Seq(Chapters)
    BY <1>6 DEF Clear, ClearRaises
  <2>2. SameRecords /\ SameOwed /\ Owed(cur)
    BY <1>6 DEF Clear, ClearRaises, SameRecords, SameOwed, Owed, Consistent, MarkedBeforeClear
  <2>3. PICK k \in 0..Len(live[cur]) :
          live' = [live EXCEPT ![cur] = SubSeq(live[cur], 1, k)]
    <3>1. CASE Clear
      <4>1. SubSeq(live[cur], 1, 0) = <<>> /\ 0 \in 0..Len(live[cur])
        BY <2>1, LenProperties
      <4> QED BY <3>1, <4>1 DEF Clear
    <3>2. CASE ClearRaises
      BY <3>2 DEF ClearRaises
    <3> QED BY <1>6, <3>1, <3>2
  <2>4. Len(ItemsOf(live[cur])) = Len(live[cur])
    BY <2>1, ItemsOfType
  <2>5. ItemsOf(live'[cur]) = SubSeq(ItemsOf(live[cur]), 1, k)
    BY <2>1, <2>3, ItemsOfPrefix
  <2>6. \A a \in Assignments \ {cur} : live'[a] = live[a]
    BY <2>1, <2>3
  <2>7. CASE k = Len(live[cur])
    <3>1. SubSeq(live[cur], 1, k) = live[cur]
      BY <2>1, <2>7, SubSeqFull
    <3>2. SameLive
      BY <2>1, <2>3, <3>1 DEF SameLive
    <3> QED BY <2>2, <3>2, StutterStep
  <2>8. CASE k # Len(live[cur])
    <3>1. k \in 0..(Len(ItemsOf(live[cur])) - 1)
      BY <2>1, <2>4, <2>8, LenProperties
    <3> QED BY <2>1, <2>2, <2>5, <2>6, <3>1, WipeStep
  <2> QED BY <2>7, <2>8
<1>7. CASE Upload \/ UploadRaises
  <2>1. cur \in Assignments /\ live[cur] \in Seq(Chapters) /\ records[cur] \in Seq(Records)
        /\ done \in 0..(Len(staged.items) - 1)
    BY <1>7, LoadItems, LenProperties DEF Upload, UploadRaises, Consistent, UploadedSoFar
  <2>2. SameRecords /\ SameOwed
    BY <1>7 DEF Upload, UploadRaises, SameRecords, SameOwed, Owed
  <2>3. Owed(cur) \/ ItemsOf(records[cur]) = <<>>
    BY <1>7, <2>1, ItemsNotEmpty DEF Upload, UploadRaises, Consistent, OpenWhileLoading
  <2>4. CASE Lands
    <3>1. PICK c \in Chapters : live' = [live EXCEPT ![cur] = Append(live[cur], c)]
      BY <2>1, <2>4, LandsType
    <3>2. ItemsOf(live'[cur]) = Append(ItemsOf(live[cur]), c.item)
      BY <2>1, <3>1, ItemsOfAppend
    <3>3. \A a \in Assignments \ {cur} : live'[a] = live[a]
      BY <2>1, <3>1
    <3>4. c.item \in Stories \union {Foreign}
      BY ChapterFields
    <3> QED BY <2>1, <2>2, <2>3, <3>2, <3>3, <3>4, FillStep
  <2>5. CASE UNCHANGED live
    <3>1. SameLive
      BY <2>5 DEF SameLive
    <3> QED BY <2>2, <3>1, StutterStep
  <2> QED BY <1>7, <2>4, <2>5 DEF Upload, UploadRaises
<1>8. CASE CommitRecords
  <2> DEFINE new == [i \in DOMAIN staged.items |->
                       [item |-> staged.items[i], id |-> result[i]]]
  <2>1. cur \in Assignments /\ live[cur] \in Seq(Chapters) /\ records[cur] \in Seq(Records)
    BY <1>8 DEF CommitRecords
  <2>2. staged.items = ItemsOf(live[cur]) /\ result = IdsOf(live[cur])
    BY <1>8 DEF CommitRecords, Consistent, SettledIsStaged
  <2>3. staged.items # <<>>
    BY <1>8, LoadItems DEF CommitRecords, Consistent, StagedLoad
  <2>4. ItemsOf(new) = ItemsOf(live[cur])
    <3>1. new = [i \in DOMAIN ItemsOf(live[cur]) |->
                   [item |-> ItemsOf(live[cur])[i], id |-> IdsOf(live[cur])[i]]]
      BY <2>2
    <3> HIDE DEF new
    <3> QED BY <2>1, <3>1, ItemsOfRecords
  <2>5. records' = [records EXCEPT ![cur] = new]
    BY <1>8 DEF CommitRecords
  <2> HIDE DEF new
  <2>6. ItemsOf(records'[cur]) = ItemsOf(live[cur])
        /\ \A a \in Assignments \ {cur} : records'[a] = records[a]
    BY <2>1, <2>4, <2>5
  <2>7. SameLive /\ SameOwed
    BY <1>8 DEF CommitRecords, SameLive, SameOwed, Owed
  <2>8. CASE Owed(cur) \/ records[cur] = <<>>
    <3>1. Owed(cur) \/ ItemsOf(records[cur]) = <<>>
      BY <2>1, <2>8, ItemsNotEmpty
    <3> QED BY <2>1, <2>2, <2>3, <2>6, <2>7, <3>1, RecordStep
  <2>9. CASE ~(Owed(cur) \/ records[cur] = <<>>)
    <3>1. ItemsOf(live[cur]) = ItemsOf(records[cur])
      BY <2>1, <2>9 DEF Consistent, NoSilentDamage, Intact
    <3>2. SameRecords
      BY <2>6, <3>1 DEF SameRecords
    <3> QED BY <2>7, <3>2, StutterStep
  <2> QED BY <2>8, <2>9
<1>9. CASE CommitUnmark \/ SetOk
  <2>1. PICK t \in Assignments : t = cur
    BY <1>9 DEF CommitUnmark, SetOk
  <2>2. SameLive /\ SameRecords /\ OthersOwed(t)
    BY <1>9, <2>1 DEF CommitUnmark, SetOk, SameLive, SameRecords, OthersOwed, Owed
  <2>3. ItemsOf(records[t]) = ItemsOf(live[t]) /\ ItemsOf(live[t]) # <<>>
    <3>1. Intact(t) /\ records[t] # <<>> /\ records[t] \in Seq(Records)
      BY <1>9, <2>1 DEF CommitUnmark, SetOk, Consistent, CommittedIsLive
    <3> QED BY <3>1, ItemsNotEmpty DEF Intact
  <2>4. Owed(t)' => Owed(t)
    BY <1>9, <2>1 DEF CommitUnmark, SetOk, Owed
  <2>5. Owed(t) \in BOOLEAN /\ Owed(t)' \in BOOLEAN
    BY DEF Owed
  <2>6. CASE Owed(t) = Owed(t)'
    <3>1. SameOwed
      BY <2>2, <2>6 DEF SameOwed, OthersOwed
    <3> QED BY <2>2, <3>1, StutterStep
  <2>7. CASE Owed(t) = TRUE /\ Owed(t)' = FALSE
    BY <2>2, <2>3, <2>7, ReleaseStep
  <2> QED BY <2>4, <2>5, <2>6, <2>7
<1>10. ASSUME NEW a \in Assignments, Transcode(a)
       PROVE  UNCHANGED Guard!vars
  <2> DEFINE playable == [i \in DOMAIN live[a] |-> [live[a][i] EXCEPT !.ready = TRUE]]
  <2>1. ItemsOf(playable) = ItemsOf(live[a])
    BY TranscodeKeeps
  <2>2. live' = [live EXCEPT ![a] = playable]
    BY <1>10 DEF Transcode
  <2> HIDE DEF playable
  <2>3. SameLive
    BY <2>1, <2>2 DEF SameLive
  <2>4. SameRecords /\ SameOwed
    BY <1>10 DEF Transcode, SameRecords, SameOwed, Owed
  <2> QED BY <2>3, <2>4, StutterStep
<1>11. CASE Work
  <2>1. CASE \E a \in Assignments : SelectRepair(a) \/ SelectRotation(a)
    BY <2>1, <1>2 DEF SelectRepair, SelectRotation
  <2>2. CASE ReconcileDone \/ ScanMedia \/ List \/ RunEnd \/ Evict \/ Finish \/ Skip \/ DryRun \/ Plan \/ Stage
    BY <2>2, <1>2 DEF ReconcileDone, ScanMedia, List, Listing, RunEnd, Evict, Finish, Skip, DryRun, Plan, Stage
  <2>3. CASE Snapshot \/ SettleOk \/ SettleMismatch \/ CommitCursor \/ CommitSuccess
    BY <2>3, <1>2 DEF Snapshot, SettleOk, SettleMismatch, CommitCursor, CommitSuccess
  <2>4. CASE ReloadOk \/ ReloadNothing \/ Observe
    BY <2>4, <1>2 DEF ReloadOk, ReloadNothing, Observe
  <2> QED BY <1>11, <2>1, <2>2, <2>3, <2>4, <1>3, <1>4, <1>5, <1>6, <1>7, <1>8, <1>9, Zenon
          DEF Work
<1>12. CASE Faulty
  <2>1. CASE Crash \/ RunAborts \/ Raises \/ ListNothing \/ PlanFails \/ StageFails
             \/ SnapshotFails \/ SettleFails \/ ReloadCorrupt
    BY <2>1, <1>2 DEF Crash, RunAborts, Raises, ListNothing, PlanFails, StageFails,
                      SnapshotFails, SettleFails, ReloadCorrupt
  <2> QED BY <1>12, <2>1, <1>6, <1>7, Zenon DEF Faulty
<1>13. CASE Boot \/ ScheduledRun \/ ManualRun \/ \E a \in Assignments : StartRepair(a)
  BY <1>13, <1>2 DEF Boot, ScheduledRun, ManualRun, StartRun, StartRepair
<1>14. CASE NewDay \/ FolderChanges
  BY <1>14, <1>2 DEF NewDay, FolderChanges
<1> QED
  BY <1>1, <1>10, <1>11, <1>12, <1>13, <1>14, Zenon DEF Next

\* A fresh store believes nothing, and owes nothing to any tonie.
LEMMA GuardInit == Init => Guard!Init
<1> SUFFICES ASSUME Init PROVE Guard!Init
  OBVIOUS
<1>1. \A a \in Assignments : live[a] \in Seq(Chapters)
  BY IndInvInit DEF IndInv, TypeOK
<1>2. \A a \in Assignments : ItemsOf(live[a]) \in Seq(Stories \union {Foreign})
  <2> TAKE a \in Assignments
  <2>1. live[a] \in Seq(Chapters)
    BY <1>1
  <2>2. Len(live[a]) \in Nat /\ ItemsOf(live[a]) \in [1..Len(live[a]) -> Stories \union {Foreign}]
    BY <2>1, LenProperties, ElementOfSeq, ChapterFields DEF ItemsOf
  <2> QED BY <2>2, FunctionIsSeq
<1>3. \A a \in Assignments : ItemsOf(records[a]) = <<>> /\ ~Owed(a)
  BY ItemsOfEmpty DEF Init, Owed
<1>4. [a \in Assignments |-> ItemsOf(live[a])] \in
        [Assignments -> Seq(Stories \union {Foreign})]
  BY <1>2
<1>5. [a \in Assignments |-> ItemsOf(records[a])] = [a \in Assignments |-> <<>>]
  BY <1>3
<1>6. [a \in Assignments |-> Owed(a)] = [a \in Assignments |-> FALSE]
  <2>1. \A a \in Assignments : Owed(a) = FALSE
    BY <1>3 DEF Owed
  <2> QED BY <2>1
<1> QED BY <1>4, <1>5, <1>6 DEF Guard!Init, Guard!Loads

\* Orchestrator implements TonieGuard: chapters come and go only on a tonie
\* that is admitted to be owed, or before its first load, and the admission is
\* withdrawn only when the store's belief is true.
THEOREM Implementation == Spec => ImplementsGuard
<1>1. IndInv /\ [Next]_vars => [Guard!Next]_(Guard!vars)
  BY GuardStep
<1> QED BY <1>1, GuardInit, Invariance, PTL DEF Spec, ImplementsGuard

-----------------------------------------------------------------------------
(***************************************************************************)
(* What a run does and reports: the action properties, StagedFilesKept and *)
(* HonestRun. They rest on IndInv and on a second invariant, Orderly,      *)
(* about the run around the work on a tonie: which of its parts hold       *)
(* where, what is queued and reported, and what the cache, the snapshot    *)
(* and the staged load have to do with each other.                         *)
(***************************************************************************)
(* The invariant *)

\* From staging on, only a run that may write is at work.
Writing == {"stage", "snapshot", "marker", "clear", "upload", "settle", "records",
            "cursor", "success", "unmark", "observe", "setOk", "degrade",
            "degradeUnmark", "evict"}
MayWrite == pc \in Writing \/ (pc = "plan" /\ path = "repair") => apply

\* Who is at which step: the start of the process reconciles only, the
\* dashboard's repair works on one tonie and does nothing around it.
Context ==
  /\ via = "none" <=> pc \in {"down", "idle"}
  /\ via = "boot" => pc \in {"reconcile", "forget"}
  /\ via = "repair" => path = "repair" /\ cur # NoTonie /\ pc # "forget"
  /\ pc \in {"reload", "observe", "setOk"} => path = "repair"
  /\ cur = NoTonie \/ pc = "forget" => staged = NoStaged

\* Nothing is queued for repair or reported before the listing.
Before == {"down", "idle", "reconcile", "forget", "scan", "list"}
NothingYet ==
  /\ via # "run" \/ pc \in Before =>
       repairs = {} /\ reports = [a \in Assignments |-> "none"]
  /\ via # "run" => rotations = {}

\* A tonie is queued once, for what its state asks for, and reported on once,
\* after the work on it.
Queues ==
  /\ \A a \in repairs : state[a] = "DEGRADED" /\ a \notin rotations
  /\ pc \notin Before => \A a \in rotations : state[a] = "OK"
  /\ pc \notin Before => cur \notin repairs \union rotations
  /\ \A a \in Assignments :
       reports[a] # "none" => a # cur /\ a \notin repairs \union rotations

\* In a run the tonie at work has the state that it was listed with.
JobState ==
  via = "run" /\ cur # NoTonie /\ pc \notin {"forget", "degrade", "degradeUnmark"} =>
    state[cur] = IF path = "swap" THEN "OK" ELSE "DEGRADED"

\* A run that is past its reconciliation meets no marker but the one that it
\* wrote for the tonie at work.
Marked == {"clear", "upload", "settle", "records", "cursor", "success", "unmark",
           "degrade", "degradeUnmark"}
MarkersClosed ==
  via = "run" /\ pc \notin {"reconcile", "forget"} =>
    \A a \in Assignments : marker[a] # NoStaged => a = cur /\ pc \in Marked

RunState == MayWrite /\ Context /\ NothingYet /\ Queues /\ JobState /\ MarkersClosed

\* What is staged, for the tonie at work, in a marker or for a repair, is in
\* the cache; only a DEGRADED tonie has something staged for its repair.
CacheHolds ==
  /\ \A a \in Assignments :
       /\ state[a] = "OK" => stagedJson[a] = NoStaged
       /\ SetOf(stagedJson[a].items) \subseteq files[a]
       /\ SetOf(marker[a].items) \subseteq files[a]
  /\ cur # NoTonie => SetOf(staged.items) \subseteq files[cur]

\* The snapshot shows what a clear is about to take away.
SnapshotFresh == pc \in {"marker", "clear"} => ItemsOf(snap[cur]) = ItemsOf(live[cur])

\* Only the loads of a library that rotates move the cursor.
LoadsRotate ==
  /\ \A a \in Assignments : /\ stagedJson[a].rotates => Rotates(a)
                            /\ marker[a].rotates => Rotates(a)
  /\ staged.rotates => Rotates(cur)

\* The cursor moves past what was recorded.
CommittedLoad == pc = "cursor" => ItemsOf(records[cur]) = staged.items

\* A run swaps a tonie that was never loaded, is not yet loaded in this
\* window, or whose library does not rotate and has changed.
SwapIsDue ==
  path = "swap" /\ pc \in {"stage", "snapshot", "marker", "clear"} =>
    records[cur] = <<>> \/ ~ rotated[cur] \/ ~ Rotates(cur)

JobData == SnapshotFresh /\ LoadsRotate /\ CommittedLoad /\ SwapIsDue

\* What a run has reported stays true: a tonie it loaded, repaired or found
\* current is in order, and only a dry run calls anything a dry run.
InOrder(a) == ~ Owed(a) /\ records[a] # <<>> /\ Intact(a)
Good == {"SWAPPED", "REPAIRED", "SKIPPED_ALREADY_CURRENT"}
Reported ==
  \A a \in Assignments : /\ reports[a] \in Good => InOrder(a)
                         /\ reports[a] = "DRY_RUN" => ~ apply

\* Together with IndInv this is inductive.
Orderly == RunState /\ CacheHolds /\ JobData /\ Reported

-----------------------------------------------------------------------------
\* The tonies, the queues and the markers of a run, handler by handler.
LEMMA RunStateStep ==
  ASSUME IndInv, RunState, [Next]_vars
  PROVE  RunState'
<1> USE NoTonieIsNone
<1> USE DEF IndInv, TypeOK, RunState, Writing, MayWrite, Context, Before, NothingYet,
            Queues, JobState, Marked, MarkersClosed,
            sinkVars, storeVars, rowVars, diskVars, runVars, jobVars, Fault, NoFault, Goto
<1>1. CASE UNCHANGED vars
  BY <1>1 DEF vars
<1>2. CASE Boot
  BY <1>2 DEF Boot
<1>3. ASSUME NEW asked \in SUBSET Tonies, NEW write \in BOOLEAN, StartRun(asked, write)
      PROVE  RunState'
  BY <1>3 DEF StartRun
<1>4. ASSUME NEW a \in Assignments, StartRepair(a)
      PROVE  RunState'
  BY <1>4 DEF StartRepair
<1>5. CASE Crash \/ RunAborts
  BY <1>5 DEF Crash, RunAborts, ResetRun, ResetJob
<1>6. ASSUME NEW a \in Assignments, Reconcile(a)
      PROVE  RunState'
  BY <1>6 DEF Reconcile
<1>7. CASE Forget
  BY <1>7 DEF Forget
<1>8. CASE ReconcileDone \/ ScanMedia
  BY <1>8 DEF ReconcileDone, ScanMedia
<1>9. CASE List
  BY <1>9 DEF List, Listing
<1>10. CASE ListNothing
  BY <1>10 DEF ListNothing
<1>11. ASSUME NEW a \in Assignments, SelectRepair(a)
       PROVE  RunState'
  BY <1>11 DEF SelectRepair
<1>12. ASSUME NEW a \in Assignments, SelectRotation(a)
       PROVE  RunState'
  BY <1>12 DEF SelectRotation
<1>13. CASE RunEnd
  BY <1>13 DEF RunEnd
<1>14. CASE Evict
  BY <1>14 DEF Evict
<1>15. CASE Finish
  BY <1>15 DEF Finish, ResetRun
<1>16. CASE Skip
  BY <1>16 DEF Skip, EndJob, ResetRun, ResetJob
<1>17. CASE DryRun
  BY <1>17 DEF DryRun, EndJob, ResetRun, ResetJob
<1>18. CASE Plan
  BY <1>18 DEF Plan
<1>19. CASE PlanFails
  BY <1>19 DEF PlanFails, EndJob, ResetRun, ResetJob
<1>20. CASE Stage
  BY <1>20 DEF Stage
<1>21. CASE StageFails
  <2>1. CASE path = "swap"
    <3>1. pc = "stage" /\ EndJob("ABORTED_STAGING") /\ UNCHANGED storeVars
      BY <1>21, <2>1, Zenon DEF StageFails
    <3> QED BY <2>1, <3>1 DEF EndJob, ResetRun, ResetJob
  <2>2. CASE path = "repair"
    BY <1>21, <2>2 DEF StageFails
  <2> QED BY <2>1, <2>2
<1>22. CASE Snapshot
  BY <1>22 DEF Snapshot
<1>23. CASE SnapshotFails
  BY <1>23 DEF SnapshotFails, EndJob, ResetRun, ResetJob
<1>24. CASE PutMarker
  BY <1>24 DEF PutMarker
<1>25. CASE Clear \/ ClearRaises
  BY <1>25 DEF Clear, ClearRaises
<1>26. CASE Upload \/ UploadRaises
  BY <1>26 DEF Upload, UploadRaises
<1>27. CASE SettleOk \/ SettleMismatch \/ SettleFails
  BY <1>27 DEF SettleOk, SettleMismatch, SettleFails
<1>28. CASE CommitRecords \/ CommitCursor \/ CommitSuccess
  BY <1>28 DEF CommitRecords, CommitCursor, CommitSuccess
<1>29. CASE CommitUnmark
  BY <1>29 DEF CommitUnmark, EndJob, ResetRun, ResetJob
<1>30. CASE ReloadOk \/ ReloadNothing \/ ReloadCorrupt
  BY <1>30 DEF ReloadOk, ReloadNothing, ReloadCorrupt
<1>31. CASE Observe
  BY <1>31 DEF Observe
<1>32. CASE SetOk
  <2>1. CASE via = "run"
    BY <1>32, <2>1 DEF SetOk, EndJob, ResetRun, ResetJob
  <2>2. CASE via = "repair"
    BY <1>32, <2>2 DEF SetOk, EndJob, ResetRun, ResetJob
  <2> QED BY <1>32, <2>1, <2>2 DEF SetOk
<1>33. CASE Degrade
  BY <1>33 DEF Degrade
<1>34. CASE DegradeUnmark
  BY <1>34 DEF DegradeUnmark, EndJob, ResetRun, ResetJob
<1>35. CASE Raises
  BY <1>35 DEF Raises, EndJob, ResetRun, ResetJob
<1>36. ASSUME NEW a \in Assignments, Transcode(a)
       PROVE  RunState'
  BY <1>36 DEF Transcode
<1>37. CASE NewDay \/ FolderChanges
  BY <1>37 DEF NewDay, FolderChanges
<1>38. CASE Work
  BY <1>38, <1>6, <1>7, <1>8, <1>9, <1>11, <1>12, <1>13, <1>14, <1>15, <1>16, <1>17,
     <1>18, <1>20, <1>22, <1>24, <1>25, <1>26, <1>27, <1>28, <1>29, <1>30, <1>31,
     <1>32, <1>33, <1>34, Zenon DEF Work
<1>39. CASE Faulty
  BY <1>39, <1>5, <1>10, <1>19, <1>21, <1>23, <1>25, <1>26, <1>27, <1>30, <1>35,
     Zenon DEF Faulty
<1>40. CASE ScheduledRun
  BY <1>40, <1>3 DEF ScheduledRun
<1>41. CASE ManualRun
  <2>1. PICK asked \in SUBSET Tonies, write \in BOOLEAN : StartRun(asked, write)
    BY <1>41, Zenon DEF ManualRun
  <2> QED BY <2>1, <1>3
<1> QED
  BY <1>1, <1>2, <1>4, <1>36, <1>37, <1>38, <1>39, <1>40, <1>41, Zenon DEF Next

-----------------------------------------------------------------------------
\* Nothing staged needs no file.
LEMMA NothingNeeded == SetOf(NoStaged.items) = {}
BY DEF SetOf, NoStaged

\* The files that a retention, a failure or a restart finds: only an eviction
\* takes any away, and it spares what is staged.
LEMMA CacheStep ==
  ASSUME IndInv, RunState, CacheHolds, [Next]_vars
  PROVE  CacheHolds'
<1> USE NoTonieIsNone, NothingNeeded
<1> USE DEF IndInv, TypeOK, CacheHolds,
            sinkVars, storeVars, rowVars, diskVars, runVars, jobVars, Fault, NoFault, Goto
<1>1. CASE UNCHANGED vars
  BY <1>1 DEF vars
<1>2. CASE Boot \/ ReconcileDone \/ ScanMedia \/ List \/ ListNothing \/ RunEnd
  BY <1>2 DEF Boot, ReconcileDone, ScanMedia, List, Listing, ListNothing, RunEnd
<1>3. ASSUME NEW asked \in SUBSET Tonies, NEW write \in BOOLEAN, StartRun(asked, write)
      PROVE  CacheHolds'
  BY <1>3 DEF StartRun
<1>4. ASSUME NEW a \in Assignments, StartRepair(a) \/ SelectRepair(a) \/ SelectRotation(a)
      PROVE  CacheHolds'
  BY <1>4 DEF StartRepair, SelectRepair, SelectRotation, RunState, Context
<1>5. CASE Crash \/ RunAborts
  BY <1>5 DEF Crash, RunAborts, ResetRun, ResetJob
<1>6. ASSUME NEW a \in Assignments, Reconcile(a)
      PROVE  CacheHolds'
  BY <1>6 DEF Reconcile, RunState, Context
<1>7. CASE Forget
  BY <1>7 DEF Forget
<1>8. CASE Evict
  <2>1. cur = NoTonie /\ \A a \in Assignments : marker[a] = NoStaged
    BY <1>8 DEF Evict, RunState, Context, MarkersClosed, Marked
  <2>2. PICK kept \in [Assignments -> SUBSET Stories] :
          /\ \A a \in Assignments : files[a] \cap Protected(a) \subseteq kept[a]
          /\ files' = kept
    BY <1>8, Zenon DEF Evict
  <2>3. \A a \in Assignments : SetOf(stagedJson[a].items) \subseteq files'[a]
    BY <2>2 DEF Protected
  <2>4. UNCHANGED <<storeVars, jobVars>>
    BY <1>8 DEF Evict
  <2> QED BY <2>1, <2>3, <2>4
<1>9. CASE Finish
  BY <1>9 DEF Finish, ResetRun
<1>10. CASE Skip \/ DryRun \/ PlanFails \/ SnapshotFails
  BY <1>10 DEF Skip, DryRun, PlanFails, SnapshotFails, EndJob, ResetRun, ResetJob
<1>11. CASE Plan
  BY <1>11 DEF Plan
<1>12. CASE Stage
  <2>1. cur \in Assignments /\ UNCHANGED <<storeVars, cur>>
        /\ files' = [files EXCEPT ![cur] = files[cur] \union SetOf(staged'.items)]
    BY <1>12 DEF Stage
  <2> QED BY <2>1
<1>13. CASE StageFails
  <2>1. cur \in Assignments /\ UNCHANGED storeVars
    BY <1>13 DEF StageFails
  <2>2. PICK got : files' = [files EXCEPT ![cur] = files[cur] \union got]
    BY <1>13, Zenon DEF StageFails
  <2>3. CASE path = "swap"
    <3>1. cur' = NoTonie
      BY <1>13, <2>3, Zenon DEF StageFails, EndJob, ResetJob
    <3> QED BY <2>1, <2>2, <3>1
  <2>4. CASE path # "swap"
    <3>1. cur' = cur /\ staged' = stagedJson[cur]
      BY <1>13, <2>4 DEF StageFails
    <3> QED BY <2>1, <2>2, <3>1
  <2> QED BY <2>3, <2>4
<1>14. CASE Snapshot \/ PutMarker \/ Clear \/ ClearRaises
  BY <1>14 DEF Snapshot, PutMarker, Clear, ClearRaises
<1>15. CASE Upload \/ UploadRaises \/ SettleOk \/ SettleMismatch \/ SettleFails
  BY <1>15 DEF Upload, UploadRaises, SettleOk, SettleMismatch, SettleFails
<1>16. CASE CommitRecords \/ CommitCursor \/ CommitSuccess
  BY <1>16 DEF CommitRecords, CommitCursor, CommitSuccess
<1>17. CASE CommitUnmark
  <2>1. cur \in Assignments /\ UNCHANGED <<state, stagedJson>>
        /\ marker' = [marker EXCEPT ![cur] = NoStaged]
    BY <1>17 DEF CommitUnmark
  <2>2. CASE path = "swap"
    <3>1. cur' = NoTonie
      BY <1>17, <2>2, Zenon DEF CommitUnmark, EndJob, ResetJob
    <3>2. PICK got : files' = [files EXCEPT ![cur] = files[cur] \union got]
      BY <1>17, <2>2, Zenon DEF CommitUnmark, Prefetch
    <3> QED BY <2>1, <3>1, <3>2
  <2>3. CASE path # "swap"
    BY <1>17, <2>1, <2>3 DEF CommitUnmark
  <2> QED BY <2>2, <2>3
<1>18. CASE ReloadOk \/ ReloadNothing \/ ReloadCorrupt
  BY <1>18 DEF ReloadOk, ReloadNothing, ReloadCorrupt
<1>19. CASE Observe
  BY <1>19 DEF Observe
<1>20. CASE SetOk
  <2>1. cur \in Assignments /\ UNCHANGED marker
        /\ state' = [state EXCEPT ![cur] = "OK"]
        /\ stagedJson' = [stagedJson EXCEPT ![cur] = NoStaged]
    BY <1>20 DEF SetOk
  <2>2. cur' = NoTonie
    BY <1>20, Zenon DEF SetOk, EndJob, ResetJob
  <2>3. PICK got : files' = [files EXCEPT ![cur] = files[cur] \union got]
    BY <1>20, Zenon DEF SetOk, Prefetch
  <2> QED BY <2>1, <2>2, <2>3
<1>21. CASE Degrade
  BY <1>21 DEF Degrade
<1>22. CASE DegradeUnmark
  BY <1>22 DEF DegradeUnmark, EndJob, ResetRun, ResetJob
<1>23. CASE Raises
  BY <1>23 DEF Raises, EndJob, ResetRun, ResetJob
<1>24. ASSUME NEW a \in Assignments, Transcode(a)
       PROVE  CacheHolds'
  BY <1>24 DEF Transcode
<1>25. CASE NewDay \/ FolderChanges
  BY <1>25 DEF NewDay, FolderChanges
<1>26. CASE Work
  BY <1>26, <1>2, <1>4, <1>6, <1>7, <1>8, <1>9, <1>10, <1>11, <1>12, <1>14, <1>15,
     <1>16, <1>17, <1>18, <1>19, <1>20, <1>21, <1>22, Zenon DEF Work
<1>27. CASE Faulty
  BY <1>27, <1>2, <1>5, <1>10, <1>13, <1>14, <1>15, <1>18, <1>23, Zenon DEF Faulty
<1>28. CASE ScheduledRun
  BY <1>28, <1>3 DEF ScheduledRun
<1>29. CASE ManualRun
  <2>1. PICK asked \in SUBSET Tonies, write \in BOOLEAN : StartRun(asked, write)
    BY <1>29, Zenon DEF ManualRun
  <2> QED BY <2>1, <1>3
<1> QED
  BY <1>1, <1>2, <1>4, <1>24, <1>25, <1>26, <1>27, <1>28, <1>29, Zenon DEF Next

-----------------------------------------------------------------------------
\* A tonie that holds its committed load is current for a plan of that load:
\* already_current says so of every such tonie.
LEMMA IntactIsCurrent ==
  ASSUME TypeOK, NEW a \in Assignments, Intact(a), records[a] # <<>>
  PROVE  MatchesRecords(a, ItemsOf(records[a]))
<1>1. live[a] \in Seq(Chapters) /\ records[a] \in Seq(Records)
  BY DEF TypeOK
<1>2. DOMAIN live[a] = 1..Len(live[a]) /\ DOMAIN records[a] = 1..Len(records[a])
      /\ Len(live[a]) \in Nat /\ Len(records[a]) \in Nat
  BY <1>1, LenProperties
<1>3. Len(live[a]) = Len(records[a])
  BY <1>1, ItemsOfType DEF Intact
<1>4. \A i \in DOMAIN records[a] : live[a][i].id = records[a][i].id /\ live[a][i].ready
  BY <1>2, <1>3, Zenon DEF Intact, IdsOf, AllReady
<1> QED BY <1>2, <1>3, <1>4 DEF MatchesRecords

\* What the cloud finishes is the same chapters in the same order.
LEMMA TranscodeStep ==
  ASSUME TypeOK, NEW a \in Assignments, Transcode(a)
  PROVE  \A b \in Assignments :
           /\ ItemsOf(live'[b]) = ItemsOf(live[b]) /\ IdsOf(live'[b]) = IdsOf(live[b])
           /\ Len(live'[b]) = Len(live[b]) /\ (AllReady(live[b]) => AllReady(live'[b]))
<1> DEFINE playable == [i \in DOMAIN live[a] |-> [live[a][i] EXCEPT !.ready = TRUE]]
<1>1. live' = [live EXCEPT ![a] = playable] /\ live \in [Assignments -> Seq(Chapters)]
  BY DEF Transcode, TypeOK
<1>2. ItemsOf(playable) = ItemsOf(live[a]) /\ IdsOf(playable) = IdsOf(live[a])
      /\ AllReady(playable) /\ Len(playable) = Len(live[a])
  BY <1>1, TranscodeKeeps
<1> HIDE DEF playable
<1> QED BY <1>1, <1>2

\* What the steps of a job know of its load, its snapshot and its reason.
LEMMA JobDataStep ==
  ASSUME IndInv, RunState, JobData, [Next]_vars
  PROVE  JobData'
<1> USE NoTonieIsNone
<1> USE DEF IndInv, TypeOK, JobData, SnapshotFresh, LoadsRotate, CommittedLoad, SwapIsDue,
            NoStaged, Rotates,
            sinkVars, storeVars, rowVars, diskVars, runVars, jobVars, Fault, NoFault, Goto
<1>1. CASE UNCHANGED vars
  BY <1>1 DEF vars
<1>2. CASE Boot \/ ReconcileDone \/ ScanMedia \/ List \/ ListNothing \/ RunEnd
  BY <1>2 DEF Boot, ReconcileDone, ScanMedia, List, Listing, ListNothing, RunEnd
<1>3. ASSUME NEW asked \in SUBSET Tonies, NEW write \in BOOLEAN, StartRun(asked, write)
      PROVE  JobData'
  BY <1>3 DEF StartRun
<1>4. ASSUME NEW a \in Assignments, StartRepair(a) \/ SelectRepair(a) \/ SelectRotation(a)
      PROVE  JobData'
  BY <1>4 DEF StartRepair, SelectRepair, SelectRotation, RunState, Context
<1>5. CASE Crash \/ RunAborts
  BY <1>5 DEF Crash, RunAborts, ResetRun, ResetJob
<1>6. ASSUME NEW a \in Assignments, Reconcile(a)
      PROVE  JobData'
  BY <1>6 DEF Reconcile, RunState, Context
<1>7. CASE Forget
  BY <1>7 DEF Forget, RunState, Context
<1>8. CASE Evict \/ Finish
  BY <1>8 DEF Evict, Finish, ResetRun
<1>9. CASE Skip \/ DryRun \/ PlanFails \/ SnapshotFails
  BY <1>9 DEF Skip, DryRun, PlanFails, SnapshotFails, EndJob, ResetRun, ResetJob
<1>10. CASE Plan
  <2>1. cur \in Assignments /\ UNCHANGED <<records, rotated, cur, path, stagedJson, marker, staged>>
        /\ pc = "plan" /\ pc' = "stage"
    BY <1>10 DEF Plan
  <2>2. ASSUME path = "swap", records[cur] # <<>>, rotated[cur], Rotates(cur)
        PROVE  FALSE
    <3>1. ~ AlreadyCurrent(cur) /\ via = "run"
      BY <1>10, <2>1, <2>2 DEF Plan, RunState, Context
    <3>2. ~ Owed(cur)
      BY <2>1, <2>2, <3>1 DEF RunState, JobState, MarkersClosed, Marked, Owed
    <3>3. Intact(cur)
      BY <2>1, <2>2, <3>2 DEF Consistent, NoSilentDamage
    <3>4. MatchesRecords(cur, ItemsOf(records[cur]))
      BY <2>1, <2>2, <3>3, IntactIsCurrent
    <3> QED BY <2>2, <3>1, <3>4 DEF AlreadyCurrent
  <2> QED BY <2>1, <2>2
<1>11. CASE Stage
  BY <1>11 DEF Stage, FittedLoad
<1>12. CASE StageFails
  <2>1. CASE path = "swap"
    <3>1. EndJob("ABORTED_STAGING") /\ UNCHANGED storeVars
      BY <1>12, <2>1, Zenon DEF StageFails
    <3> QED BY <3>1 DEF EndJob, ResetRun, ResetJob
  <2>2. CASE path # "swap"
    BY <1>12, <2>2 DEF StageFails
  <2> QED BY <2>1, <2>2
<1>13. CASE Snapshot
  BY <1>13 DEF Snapshot
<1>14. CASE PutMarker
  BY <1>14 DEF PutMarker
<1>15. CASE Clear \/ ClearRaises \/ Upload \/ UploadRaises
  BY <1>15 DEF Clear, ClearRaises, Upload, UploadRaises
<1>16. CASE SettleOk \/ SettleMismatch \/ SettleFails
  BY <1>16 DEF SettleOk, SettleMismatch, SettleFails
<1>17. CASE CommitRecords
  <2> DEFINE new == [i \in DOMAIN staged.items |->
                       [item |-> staged.items[i], id |-> result[i]]]
  <2>1. cur \in Assignments /\ records' = [records EXCEPT ![cur] = new]
    BY <1>17 DEF CommitRecords
  <2>2. ItemsOf(new) = staged.items
    <3>1. staged.items \in Seq(Stories)
      BY LoadItems
    <3>2. staged.items = [i \in DOMAIN staged.items |-> staged.items[i]]
      BY <3>1, LenProperties
    <3> QED BY <3>2 DEF ItemsOf
  <2> HIDE DEF new
  <2> QED BY <1>17, <2>1, <2>2 DEF CommitRecords
<1>18. CASE CommitCursor \/ CommitSuccess
  BY <1>18 DEF CommitCursor, CommitSuccess
<1>19. CASE CommitUnmark
  BY <1>19 DEF CommitUnmark, EndJob, ResetRun, ResetJob
<1>20. CASE ReloadOk \/ ReloadNothing \/ ReloadCorrupt
  BY <1>20 DEF ReloadOk, ReloadNothing, ReloadCorrupt
<1>21. CASE Observe
  BY <1>21 DEF Observe, RunState, Context
<1>22. CASE SetOk
  BY <1>22 DEF SetOk, EndJob, ResetRun, ResetJob
<1>23. CASE Degrade
  BY <1>23 DEF Degrade
<1>24. CASE DegradeUnmark
  BY <1>24 DEF DegradeUnmark, EndJob, ResetRun, ResetJob
<1>25. CASE Raises
  BY <1>25 DEF Raises, EndJob, ResetRun, ResetJob
<1>26. ASSUME NEW a \in Assignments, Transcode(a)
       PROVE  JobData'
  <2>1. UNCHANGED <<storeVars, diskVars, pc, runVars, jobVars, faults>>
    BY <1>26 DEF Transcode
  <2>2. \A b \in Assignments : ItemsOf(live'[b]) = ItemsOf(live[b])
    BY <1>26, TranscodeStep
  <2> QED BY <2>1, <2>2
<1>27. CASE NewDay \/ FolderChanges
  BY <1>27 DEF NewDay, FolderChanges
<1>28. CASE Work
  BY <1>28, <1>2, <1>4, <1>6, <1>7, <1>8, <1>9, <1>10, <1>11, <1>13, <1>14, <1>15,
     <1>16, <1>17, <1>18, <1>19, <1>20, <1>21, <1>22, <1>23, <1>24, Zenon DEF Work
<1>29. CASE Faulty
  BY <1>29, <1>2, <1>5, <1>9, <1>12, <1>15, <1>16, <1>20, <1>25, Zenon DEF Faulty
<1>30. CASE ScheduledRun
  BY <1>30, <1>3 DEF ScheduledRun
<1>31. CASE ManualRun
  <2>1. PICK asked \in SUBSET Tonies, write \in BOOLEAN : StartRun(asked, write)
    BY <1>31, Zenon DEF ManualRun
  <2> QED BY <2>1, <1>3
<1> QED
  BY <1>1, <1>2, <1>4, <1>26, <1>27, <1>28, <1>29, <1>30, <1>31, Zenon DEF Next

-----------------------------------------------------------------------------
\* No step does anything to a tonie that is not the one at work, except that
\* a reconciliation takes up a marked one and the cloud goes on transcoding.
LEMMA OnlyCurrent ==
  ASSUME IndInv, [Next]_vars, NEW a \in Assignments, a # cur
  PROVE  /\ records'[a] = records[a] /\ cursor'[a] = cursor[a] /\ marker'[a] = marker[a]
         /\ pc # "reconcile" => state'[a] = state[a]
         /\ ItemsOf(live'[a]) = ItemsOf(live[a]) /\ IdsOf(live'[a]) = IdsOf(live[a])
         /\ Len(live'[a]) = Len(live[a]) /\ (AllReady(live[a]) => AllReady(live'[a]))
<1> DEFINE Kept == /\ records'[a] = records[a] /\ cursor'[a] = cursor[a]
                   /\ marker'[a] = marker[a] /\ live'[a] = live[a]
                   /\ pc # "reconcile" => state'[a] = state[a]
<1> SUFFICES Kept \/ \E b \in Assignments : Transcode(b)
  <2>1. CASE Kept
    BY <2>1
  <2>2. ASSUME NEW b \in Assignments, Transcode(b)
        PROVE  /\ UNCHANGED <<records, cursor, marker, state>>
               /\ ItemsOf(live'[a]) = ItemsOf(live[a]) /\ IdsOf(live'[a]) = IdsOf(live[a])
               /\ Len(live'[a]) = Len(live[a]) /\ (AllReady(live[a]) => AllReady(live'[a]))
    BY <2>2, TranscodeStep DEF Transcode, storeVars, rowVars, IndInv
  <2> QED BY <2>1, <2>2
<1> USE DEF IndInv, TypeOK, sinkVars, storeVars, rowVars, diskVars, runVars, jobVars
<1>1. CASE UNCHANGED vars
  BY <1>1 DEF vars
<1>2. CASE Boot \/ ScheduledRun \/ NewDay \/ FolderChanges
  BY <1>2 DEF Boot, ScheduledRun, StartRun, NewDay, FolderChanges
<1>3. CASE ManualRun
  BY <1>3 DEF ManualRun, StartRun
<1>4. ASSUME NEW b \in Assignments,
             StartRepair(b) \/ Reconcile(b) \/ SelectRepair(b) \/ SelectRotation(b)
      PROVE  Kept
  BY <1>4 DEF StartRepair, Reconcile, SelectRepair, SelectRotation
<1>5. CASE Crash \/ RunAborts \/ Raises \/ ListNothing \/ PlanFails \/ SnapshotFails
  BY <1>5 DEF Crash, RunAborts, Raises, ListNothing, PlanFails, SnapshotFails
<1>6. CASE StageFails \/ ReloadCorrupt \/ SettleFails
  BY <1>6 DEF StageFails, ReloadCorrupt, SettleFails
<1>7. CASE ClearRaises
  BY <1>7 DEF ClearRaises
<1>8. CASE Upload \/ UploadRaises
  <2>1. UNCHANGED storeVars /\ (Lands \/ UNCHANGED live)
    BY <1>8 DEF Upload, UploadRaises
  <2> QED BY <2>1 DEF Lands
<1>9. CASE Forget \/ ReconcileDone \/ ScanMedia \/ List \/ RunEnd \/ Evict \/ Finish
  BY <1>9 DEF Forget, ReconcileDone, ScanMedia, List, Listing, RunEnd, Evict, Finish
<1>10. CASE Skip \/ DryRun \/ Plan \/ Stage
  BY <1>10 DEF Skip, DryRun, Plan, Stage
<1>11. CASE Snapshot \/ PutMarker \/ Clear \/ SettleOk \/ SettleMismatch
  BY <1>11 DEF Snapshot, PutMarker, Clear, SettleOk, SettleMismatch
<1>12. CASE CommitRecords \/ CommitCursor \/ CommitSuccess \/ CommitUnmark
  BY <1>12 DEF CommitRecords, CommitCursor, CommitSuccess, CommitUnmark
<1>13. CASE ReloadOk \/ ReloadNothing \/ Observe \/ SetOk \/ Degrade \/ DegradeUnmark
  BY <1>13 DEF ReloadOk, ReloadNothing, Observe, SetOk, Degrade, DegradeUnmark
<1> HIDE DEF Kept
<1>14. CASE Work
  BY <1>14, <1>4, <1>8, <1>9, <1>10, <1>11, <1>12, <1>13, Zenon DEF Work
<1>15. CASE Faulty
  BY <1>15, <1>5, <1>6, <1>7, <1>8, Zenon DEF Faulty
<1> QED
  BY <1>1, <1>2, <1>3, <1>4, <1>14, <1>15, Zenon DEF Next

\* What is reported when the work on a tonie ends is true of that tonie, and
\* stays true of it for the rest of the run.
LEMMA ReportedStep ==
  ASSUME IndInv, RunState, Reported, [Next]_vars
  PROVE  Reported'
<1> USE NoTonieIsNone
<1> DEFINE Same  == UNCHANGED <<reports, apply>>
           Reset == reports' = [a \in Assignments |-> "none"]
           Ended(o) == /\ via = "run" /\ cur \in Assignments
                       /\ reports' = [reports EXCEPT ![cur] = o] /\ apply' = apply
                       /\ o = "DRY_RUN" => ~ apply
                       /\ o \in Good => \A a \in Assignments : a = cur => InOrder(a)'
           Sound == Same \/ Reset \/ \E o \in Outcomes : Ended(o)
<1>1. ASSUME NEW a \in Assignments, reports[a] # "none", InOrder(a)
      PROVE  InOrder(a)'
  <2>1. a # cur /\ pc # "reconcile"
    BY <1>1 DEF RunState, Queues, NothingYet, Before
  <2> QED BY <1>1, <2>1, OnlyCurrent DEF InOrder, Owed, Intact
<1>2. SUFFICES Sound
  <2>1. CASE Same
    BY <1>1, <2>1 DEF Reported, Good
  <2>2. CASE Reset
    BY <2>2 DEF Reported, Good
  <2>3. ASSUME NEW o \in Outcomes, Ended(o)
        PROVE  Reported'
    <3>1. reports \in [Assignments -> Outcomes]
      BY DEF IndInv, TypeOK
    <3>2. reports'[cur] = o /\ \A a \in Assignments \ {cur} : reports'[a] = reports[a]
      BY <2>3, <3>1
    <3> QED BY <1>1, <2>3, <3>2 DEF Reported, Good
  <2> QED BY <2>1, <2>2, <2>3
<1> USE DEF sinkVars, storeVars, rowVars, diskVars, runVars, jobVars, Fault, NoFault, Goto
<1>3. ASSUME pc \in Steps \ {"down", "idle", "reconcile", "scan", "list", "select",
                             "evict", "finish", "forget"},
             NEW o \in Outcomes, EndJob(o), o = "DRY_RUN" => ~ apply,
             \A a \in Assignments : o \in Good /\ via = "run" /\ a = cur => InOrder(a)'
      PROVE  Sound
  <2>1. cur \in Assignments
    BY <1>3 DEF IndInv, TypeOK
  <2>2. CASE via = "run"
    <3>1. reports' = [reports EXCEPT ![cur] = o] /\ apply' = apply
      BY <1>3, <2>2 DEF EndJob
    <3> QED BY <1>3, <2>1, <2>2, <3>1
  <2>3. CASE via # "run"
    BY <1>3, <2>3 DEF EndJob, ResetRun
  <2> QED BY <2>2, <2>3
<1> USE DEF Steps, Outcomes, Good
<1>4. CASE UNCHANGED vars
  BY <1>4 DEF vars
<1>5. CASE Boot \/ ReconcileDone \/ ScanMedia \/ List \/ ListNothing \/ RunEnd \/ NewDay \/ FolderChanges
  BY <1>5 DEF Boot, ReconcileDone, ScanMedia, List, Listing, ListNothing, RunEnd, NewDay, FolderChanges
<1>6. CASE ScheduledRun \/ ManualRun
  <2>1. pc = "idle" /\ reports' = reports
    BY <1>6 DEF ScheduledRun, ManualRun, StartRun
  <2> QED BY <2>1 DEF RunState, NothingYet, Before
<1>7. ASSUME NEW a \in Assignments,
             StartRepair(a) \/ SelectRepair(a) \/ SelectRotation(a) \/ Reconcile(a) \/ Transcode(a)
      PROVE  Sound
  BY <1>7 DEF StartRepair, SelectRepair, SelectRotation, Reconcile, Transcode,
              RunState, NothingYet, Before
<1>8. CASE Crash \/ RunAborts \/ Finish
  BY <1>8 DEF Crash, RunAborts, Finish, ResetRun
<1>9. CASE Forget \/ Evict \/ Plan \/ Stage \/ Snapshot \/ PutMarker
  BY <1>9 DEF Forget, Evict, Plan, Stage, Snapshot, PutMarker
<1>10. CASE Skip
  <2>1. /\ pc = "plan" /\ path = "swap" /\ AlreadyCurrent(cur) /\ cur \in Assignments
        /\ EndJob("SKIPPED_ALREADY_CURRENT") /\ UNCHANGED <<sinkVars, storeVars>>
    BY <1>10 DEF Skip, IndInv, TypeOK
  <2>2. records[cur] # <<>>
    BY <2>1 DEF AlreadyCurrent, MatchesRecords
  <2>3. ASSUME via = "run" PROVE ~ Owed(cur)
    BY <2>1, <2>3 DEF RunState, JobState, MarkersClosed, Marked, Owed, IndInv, TypeOK
  <2>4. ASSUME via = "run" PROVE InOrder(cur)
    BY <2>1, <2>2, <2>3, <2>4 DEF InOrder, IndInv, Consistent, NoSilentDamage
  <2>5. \A a \in Assignments : InOrder(a) => InOrder(a)'
    BY <2>1 DEF InOrder, Owed, Intact
  <2> QED BY <2>1, <2>4, <2>5, <1>3
<1>11. CASE DryRun
  <2>1. EndJob("DRY_RUN") /\ ~ apply /\ pc \in {"plan", "reload"}
    BY <1>11 DEF DryRun
  <2> QED BY <2>1, <1>3
<1>12. CASE PlanFails
  <2>1. EndJob("PLAN_FAILED") /\ pc \in {"plan", "reload"}
    BY <1>12 DEF PlanFails
  <2> QED BY <2>1, <1>3
<1>13. CASE StageFails
  <2>1. CASE path = "swap"
    <3>1. EndJob("ABORTED_STAGING") /\ pc = "stage"
      BY <1>13, <2>1, Zenon DEF StageFails
    <3> QED BY <3>1, <1>3
  <2>2. CASE path # "swap"
    BY <1>13, <2>2 DEF StageFails
  <2> QED BY <2>1, <2>2
<1>14. CASE SnapshotFails
  <2>1. EndJob("ABORTED_STAGING") /\ pc = "snapshot"
    BY <1>14 DEF SnapshotFails
  <2> QED BY <2>1, <1>3
<1>15. CASE Clear \/ ClearRaises \/ Upload \/ UploadRaises
  BY <1>15 DEF Clear, ClearRaises, Upload, UploadRaises
<1>16. CASE SettleOk \/ SettleMismatch \/ SettleFails
  BY <1>16 DEF SettleOk, SettleMismatch, SettleFails
<1>17. CASE CommitRecords \/ CommitCursor \/ CommitSuccess
  BY <1>17 DEF CommitRecords, CommitCursor, CommitSuccess
<1>18. CASE CommitUnmark
  <2>1. CASE path = "swap"
    <3>1. /\ pc = "unmark" /\ cur \in Assignments /\ EndJob("SWAPPED")
          /\ marker' = [marker EXCEPT ![cur] = NoStaged]
          /\ UNCHANGED <<live, records, state>>
      BY <1>18, <2>1 DEF CommitUnmark, IndInv, TypeOK
    <3>2. Intact(cur) /\ records[cur] # <<>>
      BY <3>1 DEF IndInv, Consistent, CommittedIsLive
    <3>3. marker'[cur] = NoStaged
      BY <3>1 DEF IndInv, TypeOK
    <3>4. via = "run" => state[cur] = "OK"
      BY <3>1, <2>1, NoTonieIsNone DEF RunState, JobState
    <3>5. \A a \in Assignments : via = "run" /\ a = cur => InOrder(a)'
      BY <3>1, <3>2, <3>3, <3>4 DEF InOrder, Owed, Intact
    <3> QED BY <3>1, <3>5, <1>3
  <2>2. CASE path # "swap"
    BY <1>18, <2>2 DEF CommitUnmark
  <2> QED BY <2>1, <2>2
<1>19. CASE ReloadOk \/ ReloadNothing \/ ReloadCorrupt \/ Observe \/ Degrade
  BY <1>19 DEF ReloadOk, ReloadNothing, ReloadCorrupt, Observe, Degrade
<1>20. CASE SetOk
  <2>1. /\ pc = "setOk" /\ cur \in Assignments /\ EndJob("REPAIRED")
        /\ state' = [state EXCEPT ![cur] = "OK"]
        /\ UNCHANGED <<live, records, marker>>
    BY <1>20 DEF SetOk, IndInv, TypeOK
  <2>2. Intact(cur) /\ records[cur] # <<>>
    BY <2>1 DEF IndInv, Consistent, CommittedIsLive
  <2>3. state'[cur] = "OK"
    BY <2>1 DEF IndInv, TypeOK
  <2>4. via = "run" => marker[cur] = NoStaged
    BY <2>1 DEF RunState, MarkersClosed, Marked
  <2>5. \A a \in Assignments : via = "run" /\ a = cur => InOrder(a)'
    BY <2>1, <2>2, <2>3, <2>4 DEF InOrder, Owed, Intact
  <2> QED BY <2>1, <2>5, <1>3
<1>21. CASE DegradeUnmark
  <2>1. EndJob("DEGRADED") /\ pc = "degradeUnmark"
    BY <1>21 DEF DegradeUnmark
  <2> QED BY <2>1, <1>3
<1>22. CASE Raises
  <2>1. CASE via = "run" /\ marker[cur] # NoStaged
    BY <1>22, <2>1 DEF Raises
  <2>2. CASE ~ (via = "run" /\ marker[cur] # NoStaged)
    <3>1. /\ EndJob("CRASHED")
          /\ pc \in {"plan", "reload", "stage", "snapshot", "marker", "observe", "upload",
                     "settle", "records", "cursor", "success", "unmark", "setOk"}
      BY <1>22, <2>2, Zenon DEF Raises
    <3> QED BY <3>1, <1>3
  <2> QED BY <2>1, <2>2
<1> HIDE DEF Sound
<1>23. CASE Work
  BY <1>23, <1>5, <1>7, <1>8, <1>9, <1>10, <1>11, <1>15, <1>16, <1>17, <1>18, <1>19,
     <1>20, <1>21, Zenon DEF Work
<1>24. CASE Faulty
  BY <1>24, <1>5, <1>8, <1>12, <1>13, <1>14, <1>15, <1>16, <1>19, <1>22, Zenon
     DEF Faulty
<1> QED
  BY <1>4, <1>5, <1>6, <1>7, <1>23, <1>24, Zenon DEF Next

-----------------------------------------------------------------------------
(* The theorems *)

\* A fresh store and a process that is not running satisfy Orderly.
LEMMA OrderlyInit == Init => Orderly
<1> SUFFICES ASSUME Init PROVE Orderly
  OBVIOUS
<1> USE DEF Init
<1>1. RunState
  BY DEF RunState, MayWrite, Writing, Context, NothingYet, Before, Queues, JobState,
         MarkersClosed
<1>2. CacheHolds
  BY NothingNeeded DEF CacheHolds
<1>3. JobData
  BY DEF JobData, SnapshotFresh, LoadsRotate, CommittedLoad, SwapIsDue, NoStaged
<1>4. Reported
  BY DEF Reported, Good
<1> QED BY <1>1, <1>2, <1>3, <1>4 DEF Orderly

\* No handler, fault or step of the world breaks it.
LEMMA OrderlyStep == IndInv /\ Orderly /\ [Next]_vars => Orderly'
BY RunStateStep, CacheStep, JobDataStep, ReportedStep DEF Orderly

\* In every reachable state the run around the work on a tonie is as Orderly
\* says.
THEOREM Order == Spec => [](IndInv /\ Orderly)
BY Invariance, OrderlyInit, OrderlyStep, PTL DEF Spec

\* Along a job each step may rely on what the steps before it established:
\* the conjuncts of Consistent, from the marker before the clear to the
\* committed load on the tonie.
THEOREM JobConsistent == Spec => []Consistent
<1>1. IndInv => Consistent
  BY DEF IndInv
<1> QED BY <1>1, Invariance, PTL

\* The files that a repair needs are still there when it comes: no eviction,
\* failure or restart takes the staged files of a DEGRADED or marked tonie.
THEOREM StagedFilesStay == Spec => []StagedFilesKept
<1>1. Orderly => StagedFilesKept
  BY DEF Orderly, CacheHolds, StagedFilesKept
<1> QED BY <1>1, Order, PTL

\* RunReport.outcome is OK only if every tonie that the run reports on is
\* loaded, holds that load and is owed nothing, whatever happened on the way.
THEOREM Honesty == Spec => []HonestRun
<1>1. Orderly /\ IndInv => HonestRun
  <2> SUFFICES ASSUME Orderly, IndInv, apply, RunOutcome = "OK",
                      NEW a \in Assignments, reports[a] # "none"
               PROVE  InOrder(a)
    BY DEF HonestRun, InOrder
  <2>1. reports[a] \in Said /\ reports[a] \in Outcomes
    BY DEF IndInv, TypeOK, Said
  <2>2. "DEGRADED" \notin Said /\ Said \cap Failures = {}
    BY DEF RunOutcome
  <2>3. reports[a] # "DEGRADED" /\ reports[a] \notin Failures
    BY <2>1, <2>2
  <2>4. reports[a] \in Good
    BY <2>1, <2>3 DEF Outcomes, Failures, Good, Orderly, Reported
  <2> QED BY <2>4 DEF Orderly, Reported
<1> QED BY <1>1, Order, PTL

-----------------------------------------------------------------------------
(* The action properties *)

\* Chapters go from a tonie by its own clear only: no other handler, and no
\* other tonie's, makes it shorter.
LEMMA ShrinkStep ==
  ASSUME IndInv, [Next]_vars, NEW a \in Assignments, Shrinks(a)
  PROVE  a = cur /\ pc = "clear"
<1> USE DEF IndInv, TypeOK, Shrinks, sinkVars, storeVars, rowVars, diskVars, runVars, jobVars
<1>0. \A b \in Assignments : live[b] \in Seq(Chapters) /\ Len(live[b]) \in Nat
  BY LenProperties
<1>1. a = cur
  BY <1>0, OnlyCurrent
<1> SUFFICES ASSUME pc # "clear" PROVE FALSE
  BY <1>1
<1>2. ASSUME UNCHANGED live PROVE FALSE
  BY <1>0, <1>2
<1>3. CASE UNCHANGED vars
  BY <1>2, <1>3 DEF vars
<1>4. CASE Boot \/ ScheduledRun \/ ManualRun \/ NewDay \/ FolderChanges
  BY <1>2, <1>4 DEF Boot, ScheduledRun, ManualRun, StartRun, NewDay, FolderChanges
<1>5. ASSUME NEW b \in Assignments,
             StartRepair(b) \/ Reconcile(b) \/ SelectRepair(b) \/ SelectRotation(b)
      PROVE  FALSE
  BY <1>2, <1>5 DEF StartRepair, Reconcile, SelectRepair, SelectRotation
<1>6. ASSUME NEW b \in Assignments, Transcode(b)
      PROVE  FALSE
  BY <1>0, <1>6, TranscodeStep
<1>7. CASE Upload \/ UploadRaises
  <2>1. cur \in Assignments /\ done \in 0..(Len(staged.items) - 1)
    BY <1>7, LoadItems, LenProperties DEF Upload, UploadRaises, Consistent, UploadedSoFar, Steps
  <2>2. Lands
    BY <1>2, <1>7 DEF Upload, UploadRaises
  <2>3. PICK c \in Chapters : live' = [live EXCEPT ![cur] = Append(live[cur], c)]
    BY <2>1, <2>2, LandsType, Zenon
  <2>4. live'[cur] = Append(live[cur], c)
    BY <2>1, <2>3
  <2>5. Len(live'[cur]) = Len(live[cur]) + 1
    BY <1>0, <2>1, <2>4, ItemsOfAppend
  <2> QED BY <1>0, <1>1, <2>5
<1>8. CASE Crash \/ RunAborts \/ Raises \/ ListNothing \/ PlanFails \/ SnapshotFails
  BY <1>2, <1>8 DEF Crash, RunAborts, Raises, ListNothing, PlanFails, SnapshotFails
<1>9. CASE StageFails \/ ReloadCorrupt \/ SettleFails
  BY <1>2, <1>9 DEF StageFails, ReloadCorrupt, SettleFails
<1>10. CASE Clear \/ ClearRaises
  BY <1>10 DEF Clear, ClearRaises
<1>11. CASE Forget \/ ReconcileDone \/ ScanMedia \/ List \/ RunEnd \/ Evict \/ Finish
  BY <1>2, <1>11 DEF Forget, ReconcileDone, ScanMedia, List, Listing, RunEnd, Evict, Finish
<1>12. CASE Skip \/ DryRun \/ Plan \/ Stage \/ Snapshot \/ PutMarker
  BY <1>2, <1>12 DEF Skip, DryRun, Plan, Stage, Snapshot, PutMarker
<1>13. CASE SettleOk \/ SettleMismatch \/ CommitRecords \/ CommitCursor \/ CommitSuccess
  BY <1>2, <1>13 DEF SettleOk, SettleMismatch, CommitRecords, CommitCursor, CommitSuccess
<1>14. CASE CommitUnmark \/ ReloadOk \/ ReloadNothing \/ Observe \/ SetOk \/ Degrade
            \/ DegradeUnmark
  BY <1>2, <1>14 DEF CommitUnmark, ReloadOk, ReloadNothing, Observe, SetOk, Degrade,
                     DegradeUnmark
<1>15. CASE Work
  BY <1>15, <1>5, <1>7, <1>10, <1>11, <1>12, <1>13, <1>14, Zenon DEF Work
<1>16. CASE Faulty
  BY <1>16, <1>7, <1>8, <1>9, <1>10, Zenon DEF Faulty
<1> QED
  BY <1>3, <1>4, <1>5, <1>6, <1>15, <1>16, Zenon DEF Next

\* A tonie loses chapters only to a run that may write, after a snapshot of
\* exactly those, and with a marker that names files in the cache to replace
\* them: what run.py calls armed.
THEOREM ClearsAreArmed == Spec => ClearedOnlyWhenArmed
<1>1. IndInv /\ Orderly /\ [Next]_vars =>
        [\A a \in Assignments :
           Shrinks(a) => /\ apply
                         /\ ItemsOf(snap[a]) = ItemsOf(live[a])
                         /\ marker[a] # NoStaged
                         /\ SetOf(marker[a].items) \subseteq files[a]]_vars
  <2> SUFFICES ASSUME IndInv, Orderly, [Next]_vars, NEW a \in Assignments, Shrinks(a)
               PROVE  /\ apply
                      /\ ItemsOf(snap[a]) = ItemsOf(live[a])
                      /\ marker[a] # NoStaged
                      /\ SetOf(marker[a].items) \subseteq files[a]
    OBVIOUS
  <2>1. a = cur /\ pc = "clear"
    BY ShrinkStep
  <2> QED BY <2>1 DEF Orderly, RunState, MayWrite, Writing, JobData, SnapshotFresh,
                      CacheHolds, IndInv, Consistent, MarkedBeforeClear
<1> QED BY <1>1, Order, PTL DEF Spec, ClearedOnlyWhenArmed

\* The cursor moves by one write of the commit only.
LEMMA CursorStep ==
  ASSUME IndInv, [Next]_vars, NEW a \in Assignments, cursor'[a] # cursor[a]
  PROVE  a = cur /\ CommitCursor
<1> USE DEF sinkVars, storeVars, rowVars, diskVars, runVars, jobVars
<1>1. a = cur
  BY OnlyCurrent
<1>2. CASE UNCHANGED vars
  BY <1>2 DEF vars
<1>3. CASE Boot \/ ScheduledRun \/ ManualRun \/ NewDay \/ FolderChanges
  BY <1>3 DEF Boot, ScheduledRun, ManualRun, StartRun, NewDay, FolderChanges
<1>4. ASSUME NEW b \in Assignments,
             StartRepair(b) \/ Reconcile(b) \/ SelectRepair(b) \/ SelectRotation(b) \/ Transcode(b)
      PROVE  FALSE
  BY <1>4 DEF StartRepair, Reconcile, SelectRepair, SelectRotation, Transcode
<1>5. CASE Faulty
  BY <1>5 DEF Faulty, Crash, RunAborts, Raises, ListNothing, PlanFails, SnapshotFails,
              StageFails, ReloadCorrupt, SettleFails, ClearRaises, UploadRaises
<1>6. CASE Forget \/ ReconcileDone \/ ScanMedia \/ List \/ RunEnd \/ Evict \/ Finish
  BY <1>6 DEF Forget, ReconcileDone, ScanMedia, List, Listing, RunEnd, Evict, Finish
<1>7. CASE Skip \/ DryRun \/ Plan \/ Stage \/ Snapshot \/ PutMarker \/ Clear \/ Upload
  BY <1>7 DEF Skip, DryRun, Plan, Stage, Snapshot, PutMarker, Clear, Upload
<1>8. CASE SettleOk \/ SettleMismatch \/ CommitRecords \/ CommitSuccess \/ CommitUnmark
  BY <1>8 DEF SettleOk, SettleMismatch, CommitRecords, CommitSuccess, CommitUnmark
<1>9. CASE ReloadOk \/ ReloadNothing \/ Observe \/ SetOk \/ Degrade \/ DegradeUnmark
  BY <1>9 DEF ReloadOk, ReloadNothing, Observe, SetOk, Degrade, DegradeUnmark
<1>10. CASE Work
  BY <1>1, <1>10, <1>4, <1>6, <1>7, <1>8, <1>9, Zenon DEF Work
<1> QED
  BY <1>1, <1>2, <1>3, <1>4, <1>5, <1>10, Zenon DEF Next

\* The cursor moves past a load that the tonie holds, playable and recorded,
\* by its length, and never for an album.
THEOREM CursorIsHonest == Spec => CursorFollowsLoad
<1>1. IndInv /\ Orderly /\ [Next]_vars =>
        [\A a \in Assignments :
           cursor'[a] # cursor[a] =>
             /\ Mode[a] # "album"
             /\ records[a] # <<>> /\ Intact(a)
             /\ cursor'[a] = (cursor[a] + Len(records[a])) % N]_vars
  <2> SUFFICES ASSUME IndInv, Orderly, [Next]_vars,
                      NEW a \in Assignments, cursor'[a] # cursor[a]
               PROVE  /\ Mode[a] # "album"
                      /\ records[a] # <<>> /\ Intact(a)
                      /\ cursor'[a] = (cursor[a] + Len(records[a])) % N
    OBVIOUS
  <2>1. a = cur /\ CommitCursor
    BY CursorStep
  <2>2. staged.rotates /\ cursor' = [cursor EXCEPT ![cur] = (cursor[cur] + Len(staged.items)) % N]
    BY <2>1 DEF CommitCursor
  <2>3. cursor'[a] = (cursor[a] + Len(staged.items)) % N
    BY <2>1, <2>2 DEF IndInv, TypeOK
  <2>4. Len(staged.items) = Len(records[a])
    <3>1. records[a] \in Seq(Records)
      BY DEF IndInv, TypeOK
    <3>2. ItemsOf(records[a]) = staged.items
      BY <2>1 DEF CommitCursor, Orderly, JobData, CommittedLoad
    <3> QED BY <3>1, <3>2, ItemsOfType
  <2>5. Mode[a] # "album"
    BY <2>1, <2>2 DEF Orderly, JobData, LoadsRotate, Rotates
  <2>6. records[a] # <<>> /\ Intact(a)
    BY <2>1 DEF CommitCursor, IndInv, Consistent, CommittedIsLive
  <2> QED BY <2>3, <2>4, <2>5, <2>6
<1> QED BY <1>1, Order, PTL DEF Spec, CursorFollowsLoad

\* What a dry run may not touch stays as it is.
Untouched ==
  /\ UNCHANGED <<records, marker, state, stagedJson, cursor, files, snap>>
  /\ \A a \in Assignments : ItemsOf(live'[a]) = ItemsOf(live[a])

\* The handlers that a run without leave to write gets to write nothing.
LEMMA DryStep ==
  ASSUME IndInv, RunState, [Next]_vars, InDryRun
  PROVE  Untouched
<1> USE DEF RunState, MayWrite, Writing, Context, InDryRun, Untouched,
            sinkVars, storeVars, rowVars, diskVars, runVars, jobVars
<1>1. CASE UNCHANGED vars
  BY <1>1 DEF vars
<1>2. CASE Boot \/ ScheduledRun \/ ManualRun \/ NewDay \/ FolderChanges
  BY <1>2 DEF Boot, ScheduledRun, ManualRun, StartRun, NewDay, FolderChanges
<1>3. ASSUME NEW a \in Assignments,
             StartRepair(a) \/ SelectRepair(a) \/ SelectRotation(a) \/ Reconcile(a)
      PROVE  Untouched
  BY <1>3 DEF StartRepair, SelectRepair, SelectRotation, Reconcile
<1>4. ASSUME NEW a \in Assignments, Transcode(a)
      PROVE  Untouched
  BY <1>4, TranscodeStep DEF Transcode, IndInv
<1>5. CASE Crash \/ RunAborts \/ Raises \/ ListNothing \/ PlanFails
  BY <1>5 DEF Crash, RunAborts, Raises, ListNothing, PlanFails
<1>6. CASE StageFails \/ SnapshotFails \/ ReloadCorrupt \/ SettleFails \/ ClearRaises
           \/ UploadRaises
  BY <1>6 DEF StageFails, SnapshotFails, ReloadCorrupt, SettleFails, ClearRaises, UploadRaises
<1>7. CASE Forget \/ ReconcileDone \/ ScanMedia \/ List \/ RunEnd \/ Evict \/ Finish
  BY <1>7 DEF Forget, ReconcileDone, ScanMedia, List, Listing, RunEnd, Evict, Finish
<1>8. CASE Skip \/ DryRun \/ Plan \/ Stage \/ Snapshot \/ PutMarker \/ Clear \/ Upload
  BY <1>8 DEF Skip, DryRun, Plan, Stage, Snapshot, PutMarker, Clear, Upload
<1>9. CASE SettleOk \/ SettleMismatch \/ CommitRecords \/ CommitCursor \/ CommitSuccess
           \/ CommitUnmark
  BY <1>9 DEF SettleOk, SettleMismatch, CommitRecords, CommitCursor, CommitSuccess,
              CommitUnmark
<1>10. CASE ReloadOk \/ ReloadNothing \/ Observe \/ SetOk \/ Degrade \/ DegradeUnmark
  BY <1>10 DEF ReloadOk, ReloadNothing, Observe, SetOk, Degrade, DegradeUnmark
<1> HIDE DEF Untouched
<1>11. CASE Work
  BY <1>11, <1>3, <1>7, <1>8, <1>9, <1>10, Zenon DEF Work
<1>12. CASE Faulty
  BY <1>12, <1>5, <1>6, Zenon DEF Faulty
<1> QED
  BY <1>1, <1>2, <1>3, <1>4, <1>11, <1>12, Zenon DEF Next

\* A dry run writes nothing of what the tonies hold, are owed or play next, with
\* any number of DEGRADED tonies and whatever fails in it.
THEOREM DryRunsSpareTonies == Spec => DryRunSparesTonies
<1>1. IndInv /\ Orderly /\ [Next]_vars =>
        [InDryRun =>
           /\ UNCHANGED <<records, marker, state, stagedJson, cursor, files, snap>>
           /\ \A a \in Assignments : ItemsOf(live'[a]) = ItemsOf(live[a])]_vars
  BY DryStep DEF Orderly, Untouched
<1> QED BY <1>1, Order, PTL DEF Spec, DryRunSparesTonies

-----------------------------------------------------------------------------
(* One load per window *)

\* Every album fits on its tonie. The code does not see to it: an album that
\* does not is loaded again by every run.
AlbumsFit == \A a \in Assignments : Mode[a] = "album" => Fit[a] = N

WholeLibrary == [i \in 1..N |-> i - 1]
Whole(items) == items \in {<<>>, WholeLibrary}

\* An album that fits is staged, marked and recorded as a whole, and swapped
\* only if it was never loaded.
AlbumLoads ==
  /\ \A a \in Assignments : Mode[a] = "album" =>
       /\ Whole(stagedJson[a].items) /\ Whole(marker[a].items)
       /\ Whole(ItemsOf(records[a]))
       /\ cur = a => Whole(staged.items)
  /\ path = "swap" /\ pc \in {"stage", "snapshot", "marker", "clear"} /\ Mode[cur] = "album" =>
       records[cur] = <<>>

\* The plan of an album that fits is kept as it is by fit_fill.
LEMMA AlbumFitted ==
  ASSUME AlbumsFit, NEW a \in Assignments, Mode[a] = "album"
  PROVE  PlanItems(a) = WholeLibrary /\ FittedLoad(a).items = WholeLibrary
<1>1. PlanItems(a) = WholeLibrary
  BY DEF PlanItems, WholeLibrary
<1>2. WholeLibrary \in Seq(Stories) /\ Len(WholeLibrary) = N
  <2>1. WholeLibrary \in [1..N -> Stories]
    BY LibraryAssumption DEF WholeLibrary, Stories
  <2> QED BY <2>1, LibraryAssumption, FunctionIsSeq
<1>3. SubSeq(WholeLibrary, 1, N) = WholeLibrary
  BY <1>2, SubSeqFull
<1> QED BY <1>1, <1>3 DEF FittedLoad, AlbumsFit

\* The handlers that stage, mark, record or reload a load handle whole albums.
LEMMA AlbumStep ==
  ASSUME AlbumsFit, IndInv, RunState, AlbumLoads, [Next]_vars
  PROVE  AlbumLoads'
<1> USE NoTonieIsNone
<1> USE DEF IndInv, TypeOK, AlbumLoads, 
            sinkVars, storeVars, rowVars, diskVars, runVars, jobVars, Fault, NoFault, Goto
<1>0. Whole(NoStaged.items) /\ Whole(ItemsOf(<<>>))
  BY ItemsOfEmpty DEF NoStaged, Whole
<1>1. CASE UNCHANGED vars
  BY <1>1 DEF vars
<1>2. CASE Boot \/ ReconcileDone \/ ScanMedia \/ List \/ ListNothing \/ RunEnd
  BY <1>2 DEF Boot, ReconcileDone, ScanMedia, List, Listing, ListNothing, RunEnd
<1>3. ASSUME NEW asked \in SUBSET Tonies, NEW write \in BOOLEAN, StartRun(asked, write)
      PROVE  AlbumLoads'
  BY <1>3 DEF StartRun
<1>4. ASSUME NEW a \in Assignments, StartRepair(a) \/ SelectRepair(a) \/ SelectRotation(a)
      PROVE  AlbumLoads'
  BY <1>0, <1>4 DEF StartRepair, SelectRepair, SelectRotation, RunState, Context
<1>5. CASE Crash \/ RunAborts
  BY <1>0, <1>5 DEF Crash, RunAborts, ResetRun, ResetJob
<1>6. ASSUME NEW a \in Assignments, Reconcile(a)
      PROVE  AlbumLoads'
  BY <1>0, <1>6 DEF Reconcile, RunState, Context
<1>7. CASE Forget
  BY <1>0, <1>7 DEF Forget, RunState, Context
<1>8. CASE Evict \/ Finish
  BY <1>8 DEF Evict, Finish, ResetRun
<1>9. CASE Skip \/ DryRun \/ PlanFails \/ SnapshotFails
  BY <1>0, <1>9 DEF Skip, DryRun, PlanFails, SnapshotFails, EndJob, ResetRun, ResetJob
<1>10. CASE Plan
  <2>1. cur \in Assignments /\ UNCHANGED <<records, cur, path, stagedJson, marker, staged>>
        /\ pc = "plan" /\ pc' = "stage"
    BY <1>10 DEF Plan, Steps
  <2>2. ASSUME path = "swap", records[cur] # <<>>, Mode[cur] = "album"
        PROVE  FALSE
    <3>1. ~ AlreadyCurrent(cur) /\ via = "run"
      BY <1>10, <2>1, <2>2 DEF Plan, RunState, Context
    <3>2. ~ Owed(cur)
      BY <2>1, <2>2, <3>1 DEF RunState, JobState, MarkersClosed, Marked, Owed
    <3>3. Intact(cur)
      BY <2>1, <2>2, <3>2 DEF Consistent, NoSilentDamage
    <3>4. MatchesRecords(cur, ItemsOf(records[cur]))
      BY <2>1, <2>2, <3>3, IntactIsCurrent
    <3>5. ItemsOf(records[cur]) = WholeLibrary
      <4>1. records[cur] \in Seq(Records) /\ records[cur] # <<>>
        BY <2>1, <2>2
      <4>2. Len(records[cur]) # 0 /\ Len(ItemsOf(records[cur])) = Len(records[cur])
        BY <4>1, ItemsOfType, EmptySeq
      <4>3. ItemsOf(records[cur]) # <<>>
        BY <4>2
      <4> QED BY <2>1, <2>2, <4>3 DEF Whole
    <3>6. PlanItems(cur) = WholeLibrary
      BY <2>1, <2>2, AlbumFitted
    <3> QED BY <3>1, <3>4, <3>5, <3>6 DEF AlreadyCurrent
  <2> QED BY <2>1, <2>2
<1>11. CASE Stage
  <2>1. cur \in Assignments /\ staged' = FittedLoad(cur)
    BY <1>11 DEF Stage, Steps
  <2>2. Mode[cur] = "album" => Whole(staged'.items)
    BY <2>1, AlbumFitted DEF Whole
  <2> QED BY <1>11, <2>1, <2>2 DEF Stage
<1>12. CASE StageFails
  <2>1. CASE path = "swap"
    <3>1. EndJob("ABORTED_STAGING") /\ UNCHANGED storeVars
      BY <1>12, <2>1, Zenon DEF StageFails
    <3> QED BY <3>1 DEF EndJob, ResetRun, ResetJob
  <2>2. CASE path # "swap"
    BY <1>12, <2>2 DEF StageFails
  <2> QED BY <2>1, <2>2
<1>13. CASE Snapshot
  BY <1>13 DEF Snapshot
<1>14. CASE PutMarker
  BY <1>14 DEF PutMarker
<1>15. CASE Clear \/ ClearRaises \/ Upload \/ UploadRaises
  BY <1>15 DEF Clear, ClearRaises, Upload, UploadRaises
<1>16. CASE SettleOk \/ SettleMismatch \/ SettleFails
  BY <1>16 DEF SettleOk, SettleMismatch, SettleFails
<1>17. CASE CommitRecords
  <2> DEFINE new == [i \in DOMAIN staged.items |->
                       [item |-> staged.items[i], id |-> result[i]]]
  <2>1. cur \in Assignments /\ records' = [records EXCEPT ![cur] = new]
    BY <1>17 DEF CommitRecords, Steps
  <2>2. ItemsOf(new) = staged.items
    <3>1. staged.items \in Seq(Stories)
      BY LoadItems
    <3>2. staged.items = [i \in DOMAIN staged.items |-> staged.items[i]]
      BY <3>1, LenProperties
    <3> QED BY <3>2 DEF ItemsOf
  <2> HIDE DEF new
  <2> QED BY <1>17, <2>1, <2>2 DEF CommitRecords
<1>18. CASE CommitCursor \/ CommitSuccess
  BY <1>18 DEF CommitCursor, CommitSuccess
<1>19. CASE CommitUnmark
  BY <1>0, <1>19 DEF CommitUnmark, EndJob, ResetRun, ResetJob
<1>20. CASE ReloadOk \/ ReloadNothing \/ ReloadCorrupt
  BY <1>20 DEF ReloadOk, ReloadNothing, ReloadCorrupt
<1>21. CASE Observe
  BY <1>21 DEF Observe, RunState, Context
<1>22. CASE SetOk
  BY <1>0, <1>22 DEF SetOk, EndJob, ResetRun, ResetJob
<1>23. CASE Degrade
  BY <1>23 DEF Degrade
<1>24. CASE DegradeUnmark
  BY <1>0, <1>24 DEF DegradeUnmark, EndJob, ResetRun, ResetJob
<1>25. CASE Raises
  BY <1>0, <1>25 DEF Raises, EndJob, ResetRun, ResetJob
<1>26. ASSUME NEW a \in Assignments, Transcode(a)
       PROVE  AlbumLoads'
  BY <1>26 DEF Transcode
<1>27. CASE NewDay \/ FolderChanges
  BY <1>27 DEF NewDay, FolderChanges
<1>28. CASE Work
  BY <1>28, <1>2, <1>4, <1>6, <1>7, <1>8, <1>9, <1>10, <1>11, <1>13, <1>14, <1>15,
     <1>16, <1>17, <1>18, <1>19, <1>20, <1>21, <1>22, <1>23, <1>24, Zenon DEF Work
<1>29. CASE Faulty
  BY <1>29, <1>2, <1>5, <1>9, <1>12, <1>15, <1>16, <1>20, <1>25, Zenon DEF Faulty
<1>30. CASE ScheduledRun
  BY <1>30, <1>3 DEF ScheduledRun
<1>31. CASE ManualRun
  <2>1. PICK asked \in SUBSET Tonies, write \in BOOLEAN : StartRun(asked, write)
    BY <1>31, Zenon DEF ManualRun
  <2> QED BY <2>1, <1>3
<1> QED
  BY <1>1, <1>2, <1>4, <1>26, <1>27, <1>28, <1>29, <1>30, <1>31, Zenon DEF Next

\* Three runs in one afternoon produce one upload: no run clears a tonie that
\* is in order and was filled in this rotation window - if the albums fit.
THEOREM OneLoad ==
  ASSUME AlbumsFit
  PROVE  Spec => OneLoadPerWindow
<1>1. Init => AlbumLoads
  BY ItemsOfEmpty DEF Init, AlbumLoads, Whole, NoStaged
<1>2. IndInv /\ Orderly /\ AlbumLoads /\ [Next]_vars => AlbumLoads'
  BY AlbumStep DEF Orderly
<1>3. IndInv /\ Orderly /\ AlbumLoads /\ [Next]_vars =>
        [\A a \in Assignments : via = "run" /\ Shrinks(a) => ~FilledThisWindow(a)]_vars
  <2> SUFFICES ASSUME IndInv, Orderly, AlbumLoads, [Next]_vars,
                      NEW a \in Assignments, via = "run", Shrinks(a)
               PROVE  ~ FilledThisWindow(a)
    OBVIOUS
  <2>1. a = cur /\ pc = "clear"
    BY ShrinkStep
  <2>2. CASE path = "swap"
    BY <2>1, <2>2 DEF Orderly, JobData, SwapIsDue, AlbumLoads, FilledThisWindow, Rotates
  <2>3. CASE path = "repair"
    BY <2>1, <2>3, NoTonieIsNone DEF Orderly, RunState, JobState, FilledThisWindow
  <2> QED BY <2>2, <2>3 DEF IndInv, TypeOK
<1> QED BY <1>1, <1>2, <1>3, Order, PTL DEF Spec, OneLoadPerWindow

=============================================================================
