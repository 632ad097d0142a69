------------------------------ MODULE Transfer ------------------------------
(***************************************************************************)
(* Export and import of libraries and assignments (store/export_import.py):*)
(* a document made here or on another installation, perhaps edited by      *)
(* hand, is merged into the store.                                         *)
(*                                                                         *)
(* An import is no transaction.  It reads and writes statement by          *)
(* statement, on the event loop of the web server or in a process of the   *)
(* command line, while other people edit the store; a value it cannot read *)
(* or a row that is gone ends it half way, and so does the death of the    *)
(* process.  The documentation promises that importing the document again  *)
(* puts that right.                                                        *)
(***************************************************************************)
EXTENDS Integers, FiniteSets, Sequences, SequencesExt

CONSTANTS
    Names,     \* names of libraries, numbered in their order
    Keys,      \* source keys
    Tonies,    \* (sink, target_id), numbered in the order of their names
    Values,    \* what a column may hold that is only copied
    Stores,    \* the contents a store may have, here or elsewhere
    MaxEdits,  \* bound on what people change in the store or in the document
    MaxFaults  \* bound on imports that die

NoLibrary == 0
NoKey     == 0
NoPin     == <<NoLibrary, NoKey>>
NoFolder  == 0     \* NULL or "" in the table: both are read as ""
Missing   == -1    \* a field that is not in the document

\* A row of table item: what import sets once (born: kind, reference and title;
\* owner: the playlist that keeps it) and what it sets again.  The position is
\* the place in the sequence.
Item    == [key : Keys, born : Values, owner : Values, enabled : BOOLEAN, loudnorm : BOOLEAN]
Library == [mode : Values, folder : Values \cup {NoFolder}, items : Seq(Item)]

\* The columns of a row of table assignment, in the order import writes them.
Fields == <<"library", "mode", "seed", "pin", "cursor", "override", "fit", "enabled">>
Copied == ToSet(Fields) \ {"library", "pin"}

IsStore(s) ==
    /\ DOMAIN s.libs \subseteq Names /\ s.libs \in [DOMAIN s.libs -> Library]
    /\ DOMAIN s.tonies \subseteq Tonies
    /\ \A t \in DOMAIN s.tonies :
         /\ DOMAIN s.tonies[t] = ToSet(Fields)
         /\ s.tonies[t].library \in DOMAIN s.libs \cup {NoLibrary}
         /\ \A f \in Copied : s.tonies[t][f] \in Values

ASSUME NumberAssumption ==
    /\ Names \subseteq Nat \ {NoLibrary} /\ IsFiniteSet(Names)
    /\ Keys \subseteq Nat \ {NoKey} /\ IsFiniteSet(Keys)
    /\ Tonies \subseteq Nat /\ IsFiniteSet(Tonies)
    /\ Values \subseteq Nat \ {NoFolder} /\ Values # {}
    /\ MaxEdits \in Nat /\ MaxFaults \in Nat
ASSUME StoreAssumption == Stores # {} /\ \A s \in Stores : IsStore(s)

VARIABLES
    libs, tonies,           \* the store
    doc,                    \* the document
    pc, todo,               \* the import: libraries or tonies left,
    lib, rows, fixes,       \* ... a library, its items left, columns of an item left to set,
    held, left,             \* ... a tonie as it was read, its columns left to set
    counts,                 \* ... what it will report
    foreseen,               \* history: what a dry run would have reported
    origin,                 \* history: the store when this document was first imported,
                            \* if nobody else has changed anything since
    edits, faults

store  == <<libs, tonies>>
import == <<pc, todo, lib, rows, fixes, held, left, counts, foreseen>>
vars   == <<store, doc, import, origin, edits, faults>>

NoOrigin == [libs |-> <<>>, tonies |-> <<>>]
Nothing  == [libraries |-> 0, updated |-> 0, items |-> 0, assignments |-> 0, pins |-> 0, unresolved |-> 0]

(***************************************************************************)
(* Export                                                                  *)
(***************************************************************************)
\* A pin is named by the key of its item, wherever that item is.
PinnedKey(pin) == pin[2]

\* Mutant of Export: the pins are left out.
ExportUnpinned(s) ==
    [libs |-> s.libs, tonies |-> [t \in DOMAIN s.tonies |-> [s.tonies[t] EXCEPT !.pin = NoKey]]]

Export(s) ==
    [libs |-> s.libs,
     tonies |-> [t \in DOMAIN s.tonies |-> [s.tonies[t] EXCEPT !.pin = PinnedKey(@)]]]

Content == [libs |-> libs, tonies |-> tonies]

(***************************************************************************)
(* Import                                                                  *)
(***************************************************************************)
KeysOf(rs) == {rs[k].key : k \in DOMAIN rs}
KeysIn(L, n) == IF n \in DOMAIN L THEN KeysOf(L[n].items) ELSE {}

\* The one that is next, in the order the document has them.
Turn(x) == x \in todo /\ \A y \in todo : x <= y

Count(field, k) == counts' = [counts EXCEPT ![field] = @ + k]

\* The library a tonie of the document is to have: by the name in the document
\* or in the store, and else the one it has.
Resolves(L, d, t) == d.tonies[t].library \in DOMAIN d.libs \cup DOMAIN L \cup {NoLibrary}
LibraryFor(L, d, t, has) == IF Resolves(L, d, t) THEN d.tonies[t].library ELSE has

\* A folder that is not given is written as NULL, and differs from any.
Changed(l, d) == l.mode # d.mode \/ l.folder # d.folder
FolderOf(d)   == IF d.folder = Missing THEN NoFolder ELSE d.folder

\* Mutant of DryRun: items of libraries that do not exist yet are not counted.
DryRunOfKnown(L, T, d) ==
    LET known == DOMAIN d.tonies \cap DOMAIN T
        fresh(n) == Len(SelectSeq(d.libs[n].items, LAMBDA r : r.key \notin KeysIn(L, n)))
        homeOf(t) == LibraryFor(L, d, t, T[t].library)
    IN  [libraries |-> Cardinality(DOMAIN d.libs \ DOMAIN L),
         updated |-> Cardinality({n \in DOMAIN d.libs \cap DOMAIN L : Changed(L[n], d.libs[n])}),
         items |-> MapThenSumSet(fresh, DOMAIN d.libs \cap DOMAIN L),
         assignments |-> Cardinality(known),
         pins |-> Cardinality({t \in known : /\ d.tonies[t].pin # NoKey /\ homeOf(t) # NoLibrary
                                             /\ d.tonies[t].pin \notin KeysIn(L, homeOf(t))}),
         unresolved |-> Cardinality({t \in known : ~Resolves(L, d, t)})]

\* The counts of a dry run, which sees nothing but the store as it is.
DryRun(L, T, d) ==
    LET known == DOMAIN d.tonies \cap DOMAIN T
        fresh(n) == Len(SelectSeq(d.libs[n].items, LAMBDA r : r.key \notin KeysIn(L, n)))
        homeOf(t) == LibraryFor(L, d, t, T[t].library)
    IN  [libraries |-> Cardinality(DOMAIN d.libs \ DOMAIN L),
         updated |-> Cardinality({n \in DOMAIN d.libs \cap DOMAIN L : Changed(L[n], d.libs[n])}),
         items |-> MapThenSumSet(fresh, DOMAIN d.libs),
         assignments |-> Cardinality(known),
         pins |-> Cardinality({t \in known : /\ d.tonies[t].pin # NoKey /\ homeOf(t) # NoLibrary
                                             /\ d.tonies[t].pin \notin KeysIn(L, homeOf(t))}),
         unresolved |-> Cardinality({t \in known : ~Resolves(L, d, t)})]

Idle == /\ pc' = "idle" /\ todo' = {} /\ lib' = NoLibrary /\ rows' = <<>> /\ fixes' = <<>>
        /\ held' = NoPin /\ left' = <<>> /\ counts' = Nothing /\ foreseen' = Nothing

StartImport ==
    /\ pc = "idle"
    /\ pc' = "libraries" /\ todo' = DOMAIN doc.libs
    /\ foreseen' = DryRun(libs, tonies, doc)
    /\ origin' = IF origin = NoOrigin THEN Content ELSE origin
    /\ UNCHANGED <<store, doc, lib, rows, fixes, held, left, counts, edits, faults>>

\* The first library of this name, created or brought up to date.
ImportLibrary(n) ==
    /\ pc = "libraries" /\ fixes = <<>> /\ rows = <<>>
    /\ Turn(n)
    /\ LET d == doc.libs[n]
       IN  /\ IF n \notin DOMAIN libs
              THEN /\ libs' = [m \in DOMAIN libs \cup {n} |->
                                 IF m = n THEN [mode |-> d.mode, folder |-> FolderOf(d), items |-> <<>>]
                                 ELSE libs[m]]
                   /\ Count("libraries", 1)
              ELSE /\ libs' = [libs EXCEPT ![n].mode = d.mode, ![n].folder = FolderOf(d)]
                   /\ Count("updated", IF Changed(libs[n], d) THEN 1 ELSE 0)
           /\ lib' = n /\ rows' = d.items /\ todo' = todo \ {n}
    /\ UNCHANGED <<tonies, doc, pc, fixes, held, left, foreseen, origin, edits, faults>>

\* The columns of an item that an import sets again, by set_enabled and
\* set_loudnorm.
Differing(old, r) == (IF old.enabled # r.enabled THEN <<"enabled">> ELSE <<>>)
                     \o (IF old.loudnorm # r.loudnorm THEN <<"loudnorm">> ELSE <<>>)
Fixed(old, r, f)  == IF f = "enabled" THEN [old EXCEPT !.enabled = r.enabled]
                     ELSE [old EXCEPT !.loudnorm = r.loudnorm]

\* Mutant of ImportItem: an item that is there already is left as it is.
ImportItemOnce ==
    /\ pc = "libraries" /\ fixes = <<>> /\ rows # <<>> /\ lib \in DOMAIN libs
    /\ LET r == Head(rows) IN
         IF r.key \in KeysIn(libs, lib)
         THEN UNCHANGED <<libs, counts, fixes>>
         ELSE /\ libs' = [libs EXCEPT ![lib].items = Append(@, [r EXCEPT !.enabled = TRUE])]
              /\ fixes' = IF r.enabled THEN <<>> ELSE <<"enabled">>
              /\ Count("items", 1)
    /\ rows' = IF fixes' = <<>> THEN Tail(rows) ELSE rows
    /\ UNCHANGED <<tonies, doc, pc, todo, lib, held, left, foreseen, origin, edits, faults>>

\* A new item goes behind the others, enabled; what is to be set of it, or of
\* the one that has the key, is set by statements of their own.
ImportItem ==
    /\ pc = "libraries" /\ fixes = <<>> /\ rows # <<>> /\ lib \in DOMAIN libs
    /\ LET r == Head(rows) IN
         IF r.key \in KeysIn(libs, lib)
         THEN LET old == libs[lib].items
                  k == CHOOSE k \in DOMAIN old : old[k].key = r.key
              IN  fixes' = Differing(old[k], r) /\ UNCHANGED <<libs, counts>>
         ELSE /\ libs' = [libs EXCEPT ![lib].items = Append(@, [r EXCEPT !.enabled = TRUE])]
              /\ fixes' = IF r.enabled THEN <<>> ELSE <<"enabled">>
              /\ Count("items", 1)
    /\ rows' = IF fixes' = <<>> THEN Tail(rows) ELSE rows
    /\ UNCHANGED <<tonies, doc, pc, todo, lib, held, left, foreseen, origin, edits, faults>>

\* One of these statements: without its row it has no effect.
FixItem ==
    /\ pc = "libraries" /\ fixes # <<>>
    /\ LET r == Head(rows)
           f == Head(fixes)
       IN  libs' = IF lib \notin DOMAIN libs THEN libs
                   ELSE [libs EXCEPT ![lib].items =
                           [k \in DOMAIN @ |-> IF @[k].key = r.key THEN Fixed(@[k], r, f) ELSE @[k]]]
    /\ fixes' = Tail(fixes)
    /\ rows' = IF fixes' = <<>> THEN Tail(rows) ELSE rows
    /\ UNCHANGED <<tonies, doc, pc, todo, lib, held, left, counts, foreseen, origin, edits, faults>>

LibrariesDone ==
    /\ pc = "libraries" /\ fixes = <<>> /\ rows = <<>> /\ todo = {}
    /\ pc' = "tonies" /\ todo' = DOMAIN doc.tonies /\ lib' = NoLibrary
    /\ UNCHANGED <<store, doc, rows, fixes, held, left, counts, foreseen, origin, edits, faults>>

\* A tonie nobody knows here is passed over; of any other the pin it has is
\* remembered, in case the one in the document is not to be found.
ReadTonie(t) ==
    /\ pc = "tonies" /\ left = <<>>
    /\ Turn(t)
    /\ IF t \notin DOMAIN tonies
       THEN todo' = todo \ {t} /\ UNCHANGED <<lib, held, left, counts>>
       ELSE /\ lib' = LibraryFor(libs, doc, t, tonies[t].library)
            /\ held' = tonies[t].pin
            /\ left' = Fields
            /\ Count("unresolved", IF Resolves(libs, doc, t) THEN 0 ELSE 1)
            /\ UNCHANGED todo
    /\ UNCHANGED <<store, doc, pc, rows, fixes, foreseen, origin, edits, faults>>

\* Where the pin is to be: looked for in the library the tonie now has.
Found(key)   == key \in KeysIn(libs, lib)
PinFor(key) ==
    IF key = NoKey \/ lib = NoLibrary THEN NoPin
    ELSE IF Found(key) THEN <<lib, key>>
    ELSE held

\* What the foreign keys allow.
Exists(f, v) ==
    CASE f = "library" -> v \in DOMAIN libs \cup {NoLibrary}
      [] f = "pin"     -> v = NoPin \/ PinnedKey(v) \in KeysIn(libs, v[1])
      [] OTHER         -> TRUE

Wanted(t, f) ==
    CASE f = "library" -> lib
      [] f = "pin"     -> PinFor(doc.tonies[t].pin)
      [] OTHER         -> doc.tonies[t][f]

SetField(t) ==
    /\ pc = "tonies" /\ left # <<>>
    /\ Turn(t)
    /\ LET f == Head(left)
       IN  /\ Exists(f, Wanted(t, f))
           /\ tonies' = [tonies EXCEPT ![t][f] = Wanted(t, f)]
           /\ left' = Tail(left)
           /\ IF left' = <<>>
              THEN todo' = todo \ {t} /\ Count("assignments", 1)
              ELSE /\ UNCHANGED todo
                   /\ Count("pins", IF /\ f = "pin" /\ doc.tonies[t].pin # NoKey
                                       /\ lib # NoLibrary /\ ~Found(doc.tonies[t].pin)
                                    THEN 1 ELSE 0)
    /\ UNCHANGED <<libs, doc, pc, lib, rows, fixes, held, foreseen, origin, edits, faults>>

\* It returns the counts.
EndImport ==
    /\ pc = "tonies" /\ left = <<>> /\ todo = {}
    /\ Idle
    /\ UNCHANGED <<store, doc, origin, edits, faults>>

\* The library or the item it is to write about was deleted meanwhile.
ImportRaises ==
    /\ \/ pc = "libraries" /\ fixes = <<>> /\ rows # <<>> /\ lib \notin DOMAIN libs
       \/ pc = "tonies" /\ left # <<>> /\ \E t \in todo : Turn(t) /\ ~Exists(Head(left), Wanted(t, Head(left)))
    /\ Idle
    /\ UNCHANGED <<store, doc, origin, edits, faults>>

\* The process is killed, or a value of the document is none of the expected.
ImportDies ==
    /\ pc # "idle"
    /\ faults < MaxFaults /\ faults' = faults + 1
    /\ Idle
    /\ UNCHANGED <<store, doc, origin, edits>>

(***************************************************************************)
(* Everybody else                                                          *)
(***************************************************************************)
Without(f, x) == [y \in DOMAIN f \ {x} |-> f[y]]

\* The rows that name a library or one of its items: ON DELETE SET NULL.
Unnamed(n, t) ==
    [tonies[t] EXCEPT !.library = IF @ = n THEN NoLibrary ELSE @,
                      !.pin = IF @[1] = n THEN NoPin ELSE @]

\* The pages: a tonie gets another library, or none, and keeps its pin; a
\* story is pinned; an item is switched on or off; a library is deleted.
AssignLibrary ==
    /\ \E t \in DOMAIN tonies, n \in DOMAIN libs \cup {NoLibrary} :
         tonies' = [tonies EXCEPT ![t].library = n]
    /\ UNCHANGED libs

PinStory ==
    /\ \E t \in DOMAIN tonies, n \in DOMAIN libs :
         \E k \in KeysIn(libs, n) : tonies' = [tonies EXCEPT ![t].pin = <<n, k>>]
    /\ UNCHANGED libs

SwitchItem ==
    /\ \E n \in DOMAIN libs : \E k \in DOMAIN libs[n].items :
         libs' = [libs EXCEPT ![n].items[k].enabled = ~@]
    /\ UNCHANGED tonies

DeleteLibrary ==
    \E n \in DOMAIN libs :
      /\ libs' = Without(libs, n)
      /\ tonies' = [t \in DOMAIN tonies |-> Unnamed(n, t)]

Edit == AssignLibrary \/ PinStory \/ SwitchItem \/ DeleteLibrary

EditStore ==
    /\ edits < MaxEdits /\ edits' = edits + 1
    /\ Edit
    /\ origin' = NoOrigin
    /\ UNCHANGED <<doc, import, faults>>

\* A document of this store.
MakeExport ==
    /\ pc = "idle"
    /\ edits < MaxEdits /\ edits' = edits + 1
    /\ doc' = Export(Content)
    /\ origin' = NoOrigin
    /\ UNCHANGED <<store, import, faults>>

\* The document is cut down or changed by hand.
EditDocument ==
    /\ pc = "idle"
    /\ edits < MaxEdits /\ edits' = edits + 1
    /\ \/ \E n \in DOMAIN doc.libs :
            \/ doc' = [doc EXCEPT !.libs = Without(@, n)]
            \/ \E v \in Values : doc' = [doc EXCEPT !.libs[n].mode = v]
            \/ doc' = [doc EXCEPT !.libs[n].folder = Missing]
            \/ doc.libs[n].items # <<>> /\ doc' = [doc EXCEPT !.libs[n].items = Tail(@)]
       \/ \E t \in DOMAIN doc.tonies : doc' = [doc EXCEPT !.tonies = Without(@, t)]
    /\ origin' = NoOrigin
    /\ UNCHANGED <<store, import, faults>>

(***************************************************************************)
(* The specification                                                       *)
(***************************************************************************)
Init ==
    /\ \E s \in Stores : libs = s.libs /\ tonies = s.tonies
    /\ \E s \in Stores : doc = Export(s)
    /\ pc = "idle" /\ todo = {} /\ lib = NoLibrary /\ rows = <<>> /\ fixes = <<>>
    /\ held = NoPin /\ left = <<>> /\ counts = Nothing /\ foreseen = Nothing
    /\ origin = NoOrigin /\ edits = 0 /\ faults = 0

Import == \/ StartImport \/ ImportItem \/ FixItem \/ LibrariesDone
          \/ \E x \in todo : ImportLibrary(x) \/ ReadTonie(x) \/ SetField(x)
          \/ EndImport \/ ImportRaises \/ ImportDies

Next == Import \/ EditStore \/ MakeExport \/ EditDocument

Spec == Init /\ [][Next]_vars

(***************************************************************************)
(* Properties                                                              *)
(***************************************************************************)
\* Libraries, the document's and the store's, and what an import still has to
\* do of one, have the shapes the code gives them; the columns left to set are
\* those of the next item.
DocLibrary == [mode : Values, folder : Values \cup {NoFolder, Missing}, items : Seq(Item)]

TypeOK ==
    /\ libs \in [DOMAIN libs -> Library] /\ DOMAIN libs \subseteq Names
    /\ DOMAIN tonies \subseteq Tonies
    /\ doc = [libs |-> doc.libs, tonies |-> doc.tonies]
    /\ doc.libs \in [DOMAIN doc.libs -> DocLibrary] /\ DOMAIN doc.libs \subseteq Names
    /\ pc \in {"idle", "libraries", "tonies"}
    /\ pc = "libraries" => todo \subseteq DOMAIN doc.libs
    /\ rows \in Seq(Item) /\ fixes \in Seq({"enabled", "loudnorm"})
    /\ fixes # <<>> => rows # <<>>

\* What the document and the store make together, said without the steps.
\* Rows that are there keep their places, and all that is set only once; their
\* playlist is, though a comment of the code names it with enabled and loudnorm.
MergedItems(old, new) ==
    [k \in DOMAIN old |->
        IF old[k].key \in KeysOf(new)
        THEN LET r == CHOOSE r \in ToSet(new) : r.key = old[k].key
             IN  [old[k] EXCEPT !.enabled = r.enabled, !.loudnorm = r.loudnorm]
        ELSE old[k]]
    \o SelectSeq(new, LAMBDA r : r.key \notin KeysOf(old))

MergedLibs(L, d) ==
    [n \in DOMAIN L \cup DOMAIN d |->
        IF n \notin DOMAIN d THEN L[n]
        ELSE [mode |-> d[n].mode, folder |-> FolderOf(d[n]),
              items |-> MergedItems(IF n \in DOMAIN L THEN L[n].items ELSE <<>>, d[n].items)]]

MergedTonie(L, a, want) ==
    LET home == IF want.library \in DOMAIN L \cup {NoLibrary} THEN want.library ELSE a.library
        pin  == IF want.pin = NoKey \/ home = NoLibrary THEN NoPin
                ELSE IF want.pin \in KeysIn(L, home) THEN <<home, want.pin>>
                ELSE a.pin
    IN  [want EXCEPT !.library = home, !.pin = pin]

Merged(s, d) ==
    LET L == MergedLibs(s.libs, d.libs)
    IN  [libs |-> L,
         tonies |-> [t \in DOMAIN s.tonies |->
                       IF t \in DOMAIN d.tonies THEN MergedTonie(L, s.tonies[t], d.tonies[t])
                       ELSE s.tonies[t]]]

Undisturbed == origin # NoOrigin

\* However often a document is imported and however often that died half way,
\* an import that ends leaves what one import would have made of the store
\* (store/export_import.py: "Import is idempotent"; "merging by (library.name,
\* item.source_key)").
ImportsMerge == [][ EndImport /\ Undisturbed => Content' = Merged(origin, doc) ]_vars

\* An import that ends leaves every item of the document with the playlist that
\* the document names for it (store/export_import.py, of an item that exists:
\* "update enabled/loudnorm/playlist_source_id if needed").
OwnersFollow ==
    [][ EndImport /\ Undisturbed =>
          \A n \in DOMAIN doc.libs : \A r \in ToSet(doc.libs[n].items), i \in ToSet(libs'[n].items) :
             i.key = r.key => i.owner = r.owner ]_vars

\* Importing a store's own export changes nothing (tests/store/
\* test_export_import.py, "round trip is lossless"), if no tonie is pinned to a
\* story of a library that is not its own.
Homely(s) == \A t \in DOMAIN s.tonies : s.tonies[t].pin[1] \in {NoLibrary, s.tonies[t].library}

RoundTrip ==
    [][ EndImport /\ Undisturbed /\ doc = Export(origin) /\ Homely(origin) => Content' = origin ]_vars

\* A dry run reports what the import then does, except that it may report pins
\* as unresolved whose items the import itself is about to add (store/
\* export_import.py: "the same counts a real import would produce").
PreviewTells ==
    [][ EndImport /\ Undisturbed =>
          /\ counts.pins <= foreseen.pins
          /\ counts = [foreseen EXCEPT !.pins = counts.pins]
          /\ counts.items = 0 => counts = foreseen ]_vars

\* No step of an import takes anything away or moves it: libraries stay, items
\* keep their places and what was set of them once, and no tonie is invented,
\* whoever else writes and wherever it ends (store/export_import.py: "import
\* never invents new tonies").
Kept(old, new) ==
    /\ Len(old) <= Len(new)
    /\ \A k \in DOMAIN old : new[k].key = old[k].key /\ new[k].born = old[k].born /\ new[k].owner = old[k].owner

ImportsOnlyAdd ==
    [][ Import =>
          /\ \A n \in DOMAIN libs : n \in DOMAIN libs' /\ Kept(libs[n].items, libs'[n].items)
          /\ DOMAIN tonies' = DOMAIN tonies ]_vars
=============================================================================
