--------------------------- MODULE TransferProofs ---------------------------
(***************************************************************************)
(* An import takes nothing away: for any contents of the store and of the  *)
(* document, any other people's edits and any number of imports that die.  *)
(***************************************************************************)
EXTENDS Transfer, SequenceTheorems, TLAPS

Columns == {"enabled", "loudnorm"}

LEMMA ColumnSeqs ==
    <<>> \in Seq(Columns) /\ <<"enabled">> \in Seq(Columns) /\ <<"loudnorm">> \in Seq(Columns)
  BY DEF Columns

\* What is left to set of one item are columns of it.
LEMMA DifferingType ==
    ASSUME NEW old, NEW r
    PROVE  Differing(old, r) \in Seq(Columns)
  BY ColumnSeqs, ConcatProperties DEF Differing

LEMMA FixedType ==
    ASSUME NEW old \in Item, NEW r \in Item, NEW f
    PROVE  /\ Fixed(old, r, f) \in Item
           /\ Fixed(old, r, f).key = old.key /\ Fixed(old, r, f).born = old.born
           /\ Fixed(old, r, f).owner = old.owner
  BY DEF Fixed, Item

\* A library of the document, as the table takes it.
LEMMA FolderType ==
    ASSUME NEW d \in DocLibrary
    PROVE  FolderOf(d) \in Values \cup {NoFolder}
  BY DEF FolderOf, DocLibrary

\* What an import may do to a library that is there, and to what it still has
\* to do.
Grows(L, M) == \A n \in DOMAIN L : n \in DOMAIN M /\ Kept(L[n].items, M[n].items)

Shaped == /\ libs \in [DOMAIN libs -> Library] /\ DOMAIN libs \subseteq Names
          /\ rows \in Seq(Item) /\ fixes \in Seq(Columns)
          /\ fixes # <<>> => rows # <<>>

LEMMA KeptSame == ASSUME TypeOK PROVE Grows(libs, libs)
  BY DEF TypeOK, Grows, Kept, Library

\* A library is created without items, or keeps those it has.
LEMMA LibraryStep ==
    ASSUME TypeOK, NEW n \in todo, ImportLibrary(n)
    PROVE  Shaped' /\ Grows(libs, libs')
  <1> DEFINE d == doc.libs[n]
  <1>1. n \in Names /\ d \in DocLibrary
    BY DEF TypeOK, ImportLibrary
  <1>2. FolderOf(d) \in Values \cup {NoFolder} /\ d.items \in Seq(Item) /\ d.mode \in Values
    BY <1>1, FolderType DEF DocLibrary
  <1>3. rows' = d.items /\ fixes' = <<>>
    BY DEF ImportLibrary
  <1>4. CASE n \notin DOMAIN libs
    <2> DEFINE new == [mode |-> d.mode, folder |-> FolderOf(d), items |-> <<>>]
    <2>1. libs' = [m \in DOMAIN libs \cup {n} |-> IF m = n THEN new ELSE libs[m]]
      BY <1>4 DEF ImportLibrary
    <2>2. new \in Library
      BY <1>2 DEF Library
    <2>3. libs' \in [DOMAIN libs' -> Library] /\ DOMAIN libs' \subseteq Names
      BY <1>1, <2>1, <2>2 DEF TypeOK
    <2>4. Grows(libs, libs')
      BY <1>4, <2>1 DEF TypeOK, Grows, Kept, Library
    <2> QED  BY <1>2, <1>3, <2>3, <2>4 DEF Shaped, Columns
  <1>5. CASE n \in DOMAIN libs
    <2>1. libs' = [libs EXCEPT ![n].mode = d.mode, ![n].folder = FolderOf(d)]
      BY <1>5 DEF ImportLibrary
    <2>2. libs' = [libs EXCEPT ![n] = [libs[n] EXCEPT !.mode = d.mode, !.folder = FolderOf(d)]]
      BY <1>5, <2>1 DEF TypeOK
    <2>3. [libs[n] EXCEPT !.mode = d.mode, !.folder = FolderOf(d)] \in Library
      BY <1>2, <1>5 DEF TypeOK, Library
    <2>4. libs' \in [DOMAIN libs' -> Library] /\ DOMAIN libs' \subseteq Names
      BY <1>5, <2>2, <2>3 DEF TypeOK
    <2>5. \A m \in DOMAIN libs : libs'[m].items = libs[m].items
      BY <1>5, <2>2 DEF TypeOK, Library
    <2>6. Grows(libs, libs')
      BY <1>5, <2>2, <2>5 DEF TypeOK, Grows, Kept, Library
    <2> QED  BY <1>2, <1>3, <2>4, <2>6 DEF Shaped, Columns
  <1> QED  BY <1>4, <1>5

\* An item goes behind the others, or nothing is written yet.
LEMMA ItemStep ==
    ASSUME TypeOK, ImportItem
    PROVE  Shaped' /\ Grows(libs, libs')
  <1> DEFINE r == Head(rows)
  <1>1. r \in Item /\ Tail(rows) \in Seq(Item) /\ rows \in Seq(Item) /\ rows # <<>>
    BY DEF TypeOK, ImportItem
  <1>2. rows' = IF fixes' = <<>> THEN Tail(rows) ELSE rows
    BY DEF ImportItem
  <1>3. CASE r.key \in KeysIn(libs, lib)
    <2>1. libs' = libs
      BY <1>3 DEF ImportItem
    <2>2. fixes' \in Seq(Columns)
      BY <1>3, DifferingType DEF ImportItem
    <2> QED  BY <1>1, <1>2, <2>1, <2>2, KeptSame DEF Shaped, TypeOK
  <1>4. CASE r.key \notin KeysIn(libs, lib)
    <2> DEFINE old == libs[lib].items
               new == [r EXCEPT !.enabled = TRUE]
    <2>1. lib \in DOMAIN libs /\ libs' = [libs EXCEPT ![lib].items = Append(old, new)]
      BY <1>4 DEF ImportItem
    <2>2. old \in Seq(Item) /\ new \in Item
      BY <1>1, <2>1 DEF TypeOK, Library, Item
    <2>3. /\ Append(old, new) \in Seq(Item) /\ Len(Append(old, new)) = Len(old) + 1
          /\ \A k \in 1 .. Len(old) : Append(old, new)[k] = old[k]
      BY <2>2, AppendProperties
    <2> HIDE DEF new
    <2>4. libs' \in [DOMAIN libs -> Library] /\ libs'[lib].items = Append(old, new)
      BY <2>1, <2>3 DEF TypeOK, Library
    <2>5. \A n \in DOMAIN libs : n # lib => libs'[n] = libs[n]
      BY <2>1 DEF TypeOK
    <2>6. Kept(old, libs'[lib].items)
      BY <2>2, <2>3, <2>4 DEF Kept
    <2>7. Grows(libs, libs')
      BY <2>4, <2>5, <2>6, KeptSame DEF Grows
    <2>8. fixes' \in Seq(Columns)
      BY <1>4, ColumnSeqs DEF ImportItem
    <2> QED  BY <1>1, <1>2, <2>4, <2>7, <2>8 DEF Shaped, TypeOK
  <1> QED  BY <1>3, <1>4

\* One column of one item is written.
LEMMA FixStep ==
    ASSUME TypeOK, FixItem
    PROVE  Shaped' /\ Grows(libs, libs')
  <1> DEFINE r == Head(rows)
             f == Head(fixes)
  <1>1. /\ r \in Item /\ Tail(rows) \in Seq(Item) /\ rows \in Seq(Item) /\ rows # <<>>
        /\ Tail(fixes) \in Seq(Columns)
    BY DEF TypeOK, FixItem, Columns
  <1>2. fixes' = Tail(fixes) /\ rows' = IF fixes' = <<>> THEN Tail(rows) ELSE rows
    BY DEF FixItem
  <1>3. libs' \in [DOMAIN libs' -> Library] /\ DOMAIN libs' \subseteq Names /\ Grows(libs, libs')
    <2>1. CASE lib \notin DOMAIN libs
      BY <2>1, KeptSame DEF FixItem, TypeOK
    <2>2. CASE lib \in DOMAIN libs
      <3> DEFINE old == libs[lib].items
                 new == [k \in DOMAIN old |-> IF old[k].key = r.key THEN Fixed(old[k], r, f) ELSE old[k]]
      <3>1. libs' = [libs EXCEPT ![lib].items = new]
        BY <2>2 DEF FixItem
      <3>2. old \in Seq(Item)
        BY <2>2 DEF TypeOK, Library
      <3>3. \A k \in DOMAIN old : /\ new[k] \in Item
                                  /\ new[k].key = old[k].key /\ new[k].born = old[k].born
                                  /\ new[k].owner = old[k].owner
        BY <1>1, <3>2, FixedType
      <3>4. DOMAIN old = 1 .. Len(old) /\ Len(old) \in Nat /\ DOMAIN new = DOMAIN old
        BY <3>2
      <3>5. new \in Seq(Item) /\ Len(new) = Len(old)
        <4>1. new \in [1 .. Len(old) -> Item]
          BY <3>3, <3>4
        <4> HIDE DEF new
        <4> QED  BY <3>4, <4>1, SeqDef
      <3>6. Kept(old, new)
        BY <3>3, <3>4, <3>5 DEF Kept
      <3> HIDE DEF new
      <3>7. libs' \in [DOMAIN libs -> Library] /\ libs'[lib].items = new
        BY <2>2, <3>1, <3>5 DEF TypeOK, Library
      <3>8. \A n \in DOMAIN libs : n # lib => libs'[n] = libs[n]
        BY <2>2, <3>1 DEF TypeOK
      <3> QED  BY <3>6, <3>7, <3>8, KeptSame DEF Grows, TypeOK
    <2> QED  BY <2>1, <2>2
  <1> QED  BY <1>1, <1>2, <1>3 DEF Shaped

\* The other steps of an import leave the libraries alone.
LEMMA OtherStep ==
    ASSUME TypeOK, Import,
           ~(\E n \in todo : ImportLibrary(n)), ~ImportItem, ~FixItem
    PROVE  Shaped' /\ UNCHANGED libs
  <1>1. /\ UNCHANGED libs
        /\ \/ UNCHANGED <<rows, fixes>>
           \/ rows' = <<>> /\ fixes' = <<>>
    BY DEF Import, StartImport, LibrariesDone, ReadTonie, SetField, EndImport, ImportRaises,
           ImportDies, Idle, store
  <1>2. <<>> \in Seq(Item)
    OBVIOUS
  <1> QED  BY <1>1, <1>2, ColumnSeqs DEF TypeOK, Shaped, Columns

LEMMA ImportStep ==
    ASSUME TypeOK, Import
    PROVE  /\ TypeOK' /\ Grows(libs, libs') /\ DOMAIN tonies' = DOMAIN tonies
  <1>1. Shaped' /\ Grows(libs, libs')
    BY LibraryStep, ItemStep, FixStep, OtherStep, KeptSame
  <1>2. doc' = doc /\ pc' \in {"idle", "libraries", "tonies"}
    BY DEF TypeOK, Import, StartImport, ImportLibrary, ImportItem, FixItem, LibrariesDone, ReadTonie,
           SetField, EndImport, ImportRaises, ImportDies, Idle
  <1>3. pc' = "libraries" => todo' \subseteq DOMAIN doc.libs
    BY DEF TypeOK, Import, StartImport, ImportLibrary, ImportItem, FixItem, LibrariesDone, ReadTonie,
           SetField, EndImport, ImportRaises, ImportDies, Idle
  <1>4. DOMAIN tonies' = DOMAIN tonies
    BY DEF Import, StartImport, ImportLibrary, ImportItem, FixItem, LibrariesDone, ReadTonie,
           SetField, EndImport, ImportRaises, ImportDies, store
  <1> QED  BY <1>1, <1>2, <1>3, <1>4 DEF TypeOK, Shaped, Columns

\* What other people do to the store.
LEMMA EditStep ==
    ASSUME TypeOK, Edit
    PROVE  /\ libs' \in [DOMAIN libs' -> Library] /\ DOMAIN libs' \subseteq Names
           /\ DOMAIN tonies' \subseteq Tonies
  <1>1. CASE UNCHANGED libs /\ DOMAIN tonies' = DOMAIN tonies
    BY <1>1 DEF TypeOK
  <1>2. ASSUME NEW n \in DOMAIN libs, NEW k \in DOMAIN libs[n].items,
               libs' = [libs EXCEPT ![n].items[k].enabled = ~@], UNCHANGED tonies
        PROVE  libs' \in [DOMAIN libs' -> Library] /\ DOMAIN libs' = DOMAIN libs
    <2> DEFINE old == libs[n].items
               row == [old[k] EXCEPT !.enabled = ~@]
               new == [old EXCEPT ![k] = row]
    <2>1. old \in Seq(Item) /\ k \in 1 .. Len(old)
      BY DEF TypeOK, Library
    <2>2. row \in Item
      <3>1. old[k] \in Item
        BY <2>1
      <3>2. (~ old[k].enabled) \in BOOLEAN
        OBVIOUS
      <3> QED  BY <3>1, <3>2 DEF Item
    <2> HIDE DEF row
    <2>3. new \in Seq(Item)
      BY <2>1, <2>2, ExceptSeq
    <2>4. libs' = [libs EXCEPT ![n].items = new]
      BY <1>2 DEF row
    <2> HIDE DEF new
    <2> QED  BY <2>3, <2>4 DEF TypeOK, Library
  <1>3. ASSUME NEW n \in DOMAIN libs, libs' = Without(libs, n),
               tonies' = [t \in DOMAIN tonies |-> Unnamed(n, t)]
        PROVE  libs' \in [DOMAIN libs' -> Library] /\ DOMAIN libs' \subseteq Names
               /\ DOMAIN tonies' = DOMAIN tonies
    BY <1>3 DEF Without, TypeOK
  <1> QED  BY <1>1, <1>2, <1>3
       DEF Edit, AssignLibrary, PinStory, SwitchItem, DeleteLibrary, TypeOK

\* What is done to the document by hand.
LEMMA DocumentStep ==
    ASSUME TypeOK, EditDocument
    PROVE  /\ doc' = [libs |-> doc'.libs, tonies |-> doc'.tonies]
           /\ doc'.libs \in [DOMAIN doc'.libs -> DocLibrary] /\ DOMAIN doc'.libs \subseteq Names
  <1> DEFINE L == doc.libs
  <1>1. doc = [libs |-> L, tonies |-> doc.tonies] /\ L \in [DOMAIN L -> DocLibrary] /\ DOMAIN L \subseteq Names
    BY DEF TypeOK
  <1>2. ASSUME NEW n \in DOMAIN L, doc' = [doc EXCEPT !.libs = Without(@, n)]
        PROVE  doc' = [libs |-> Without(L, n), tonies |-> doc.tonies]
               /\ Without(L, n) \in [DOMAIN Without(L, n) -> DocLibrary] /\ DOMAIN Without(L, n) \subseteq Names
    BY <1>1, <1>2 DEF Without
  <1>3. ASSUME NEW n \in DOMAIN L, NEW v \in Values, doc' = [doc EXCEPT !.libs[n].mode = v]
        PROVE  doc' = [libs |-> [L EXCEPT ![n].mode = v], tonies |-> doc.tonies]
               /\ [L EXCEPT ![n].mode = v] \in [DOMAIN L -> DocLibrary]
    BY <1>1, <1>3 DEF DocLibrary
  <1>4. ASSUME NEW n \in DOMAIN L, doc' = [doc EXCEPT !.libs[n].folder = Missing]
        PROVE  doc' = [libs |-> [L EXCEPT ![n].folder = Missing], tonies |-> doc.tonies]
               /\ [L EXCEPT ![n].folder = Missing] \in [DOMAIN L -> DocLibrary]
    BY <1>1, <1>4 DEF DocLibrary
  <1>5. ASSUME NEW n \in DOMAIN L, L[n].items # <<>>, doc' = [doc EXCEPT !.libs[n].items = Tail(@)]
        PROVE  doc' = [libs |-> [L EXCEPT ![n].items = Tail(@)], tonies |-> doc.tonies]
               /\ [L EXCEPT ![n].items = Tail(@)] \in [DOMAIN L -> DocLibrary]
    <2>1. Tail(L[n].items) \in Seq(Item)
      BY <1>1, <1>5 DEF DocLibrary
    <2> QED  BY <1>1, <1>5, <2>1 DEF DocLibrary
  <1>6. ASSUME NEW t \in DOMAIN doc.tonies, doc' = [doc EXCEPT !.tonies = Without(@, t)]
        PROVE  doc' = [libs |-> L, tonies |-> Without(doc.tonies, t)]
    BY <1>1, <1>6
  <1> QED  BY <1>1, <1>2, <1>3, <1>4, <1>5, <1>6 DEF EditDocument

\* The type invariant, for every store, document, edit and death.
THEOREM TypeCorrect == Spec => []TypeOK
  <1>1. Init => TypeOK
    <2> SUFFICES ASSUME Init PROVE TypeOK
      OBVIOUS
    <2>1. PICK s \in Stores : libs = s.libs /\ tonies = s.tonies
      BY DEF Init
    <2>2. PICK d \in Stores : doc = Export(d)
      BY DEF Init
    <2>3. IsStore(s) /\ IsStore(d)
      BY StoreAssumption
    <2>4. Library \subseteq DocLibrary
      BY DEF Library, DocLibrary
    <2>5. doc = [libs |-> doc.libs, tonies |-> doc.tonies] /\ doc.libs = d.libs
      BY <2>2 DEF Export
    <2>6. d.libs \in [DOMAIN d.libs -> DocLibrary]
      BY <2>3, <2>4 DEF IsStore
    <2>7. rows \in Seq(Item) /\ fixes \in Seq({"enabled", "loudnorm"})
      BY DEF Init
    <2> QED  BY <2>1, <2>3, <2>5, <2>6, <2>7 DEF Init, TypeOK, IsStore
  <1>2. TypeOK /\ [Next]_vars => TypeOK'
    <2> SUFFICES ASSUME TypeOK, [Next]_vars PROVE TypeOK'
      OBVIOUS
    <2>1. CASE Import
      BY <2>1, ImportStep
    <2>2. CASE EditStore
      BY <2>2, EditStep DEF EditStore, TypeOK, import
    <2>3. CASE MakeExport
      <3>1. doc' = [libs |-> libs, tonies |-> doc'.tonies]
        BY <2>3 DEF MakeExport, Export, Content
      <3>2. libs \in [DOMAIN libs -> DocLibrary]
        BY DEF TypeOK, Library, DocLibrary
      <3> QED  BY <2>3, <3>1, <3>2 DEF MakeExport, TypeOK, import, store
    <2>4. CASE EditDocument
      BY <2>4, DocumentStep DEF EditDocument, TypeOK, import, store
    <2>5. CASE UNCHANGED vars
      BY <2>5 DEF vars, store, import, TypeOK
    <2> QED  BY <2>1, <2>2, <2>3, <2>4, <2>5 DEF Next
  <1> QED  BY <1>1, <1>2, PTL DEF Spec

\* No step of an import takes away or moves what is in the store (module
\* Transfer, ImportsOnlyAdd), whatever the document holds.
THEOREM NothingLost == Spec => ImportsOnlyAdd
  <1>1. TypeOK /\ [Next]_vars =>
          [ Import =>
              /\ \A n \in DOMAIN libs : n \in DOMAIN libs' /\ Kept(libs[n].items, libs'[n].items)
              /\ DOMAIN tonies' = DOMAIN tonies ]_vars
    BY ImportStep DEF Grows
  <1> QED  BY <1>1, TypeCorrect, PTL DEF Spec, ImportsOnlyAdd
=============================================================================
