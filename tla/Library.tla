------------------------------ MODULE Library ------------------------------
(***************************************************************************)
(* One library: the rows of table item, the folder the library is, and the *)
(* threads that keep the two together.                                     *)
(*                                                                         *)
(* The web server's event loop adds references and uploads (sources/       *)
(* ingest.py), its worker threads scan the folder when a page is opened    *)
(* (sources/folder.py), and the thread of a run scans it as well and then  *)
(* re-resolves the playlist (sources/playlist_sync.py).  No lock covers    *)
(* these threads: the store is in autocommit mode, so each statement is a  *)
(* step of its own, and only reorder, move and delete are transactions.    *)
(* The operator edits the folder and may lose its mount, the upstream      *)
(* playlist changes, and the process may be killed between any two steps.  *)
(***************************************************************************)
EXTENDS Naturals, FiniteSets, Sequences, SequencesExt

CONSTANTS
    Files,      \* file names of the folder, numbered in their natural order
    Contents,   \* the audio an operator copies in or uploads
    Entries,    \* the audio behind links: the entries of the playlist
    Inbox,      \* the place of an upload in the upload directory
    Starts,     \* how the library may be found
    MaxListed,  \* bound on the length of the playlist
    PageSize,   \* rows of a library page (50 in the code)
    MaxBusy,    \* bound on the threads at work at one time
    MaxEdits,   \* bound on what operators and the outside world do
    MaxCrashes  \* bound on deaths of the process

ASSUME FilesAssumption == Files \subseteq Nat \ {0} /\ IsFiniteSet(Files)
ASSUME InboxAssumption == Inbox \notin Nat
ASSUME BoundsAssumption ==
    /\ PageSize \in Nat \ {0} /\ MaxBusy \in Nat \ {0}
    /\ MaxListed \in Nat /\ MaxEdits \in Nat /\ MaxCrashes \in Nat

VARIABLES
    disk,     \* the files in the folder: their bytes, and whether the name carries the key
    mounted,  \* whether the folder can be entered
    listed,   \* the entries upstream lists now, in order; it may list one twice
    inbox,    \* the uploads whose file is in the upload directory
    plays,    \* whether settings["playlists:<library>"] holds the playlist
    items,    \* the rows of table item, by id
    nextId,   \* a fresh id
    pc, todo, seen, known, slot, at,  \* the threads' local state
    foreseen, \* history: the catalogue a dry run would have planned with instead
    calm,     \* history: nobody else changed anything since the thread began
    raced,    \* history: an insertion used a position that was no longer the next one
    edits, crashes

store    == <<items, nextId, plays>>
world    == <<disk, mounted, listed, inbox>>
local    == <<pc, todo, seen, known, slot, at, foreseen>>
counters == <<edits, crashes>>
vars     == <<store, world, local, calm, raced, counters>>

Web  == "web"     \* the event loop: add_item is async, so additions never overlap
Pool == "pool"    \* a worker thread: a page is opened, or Scan is pressed
Run  == "run"     \* the thread of a run
Threads == {Web, Pool, Run}

NoFile == 0
Paths  == Files \cup {NoFile, Inbox}
Bytes  == Contents \cup Entries
Kinds  == {"FOLDER_FILE", "UPLOAD", "LINK", "PLAYLIST_ENTRY"}   \* LINK: YOUTUBE, URL and RSS

\* A source key: what identifies the audio, and a number that tells files
\* with equal fingerprints apart ("-c1", "-c2").
Key(b)     == <<b, 0>>
Twin(b, n) == <<b, n>>
Keys       == Bytes \X Nat

(***************************************************************************)
(* The table                                                               *)
(***************************************************************************)
Row == [pos : Nat, key : Keys, kind : Kinds, ok : BOOLEAN,
        path : Paths, synced : BOOLEAN]

Positions(t) == {t[i].pos : i \in DOMAIN t}

\* SELECT COALESCE(MAX(position), -1) + 1
NextPos ==
    IF items = <<>> THEN 0
    ELSE 1 + CHOOSE p \in Positions(items) : \A q \in Positions(items) : q <= p

WithKey(k) == {i \in DOMAIN items : items[i].key = k}

\* INSERT ... ON CONFLICT(library_id, source_key) DO NOTHING, at the
\* position read before.
Insert(k, kind, path, synced, p) ==
    IF WithKey(k) # {}
    THEN UNCHANGED <<items, nextId, raced>>
    ELSE /\ items' = [i \in DOMAIN items \cup {nextId} |->
                        IF i = nextId
                        THEN [pos |-> p, key |-> k, kind |-> kind, ok |-> TRUE,
                              path |-> path, synced |-> synced]
                        ELSE items[i]]
         /\ nextId' = nextId + 1
         /\ raced' = (raced \/ p # NextPos)

Available(S)   == [i \in DOMAIN items |-> IF i \in S THEN [items[i] EXCEPT !.ok = TRUE] ELSE items[i]]
Unavailable(S) == [i \in DOMAIN items |-> IF i \in S THEN [items[i] EXCEPT !.ok = FALSE] ELSE items[i]]

\* UPDATE item SET local_path = ...: no row, no effect.
Located(i, f) == [j \in DOMAIN items |-> IF j = i THEN [items[j] EXCEPT !.path = f] ELSE items[j]]

\* The dense renumberings of the rows that keep the order of the positions p.
\* Rows at one position come in the order of their ids, which are random.
Ranks(p) ==
    {r \in [DOMAIN p -> 0 .. Cardinality(DOMAIN p) - 1] :
        /\ IsInjective(r)
        /\ \A i, j \in DOMAIN p : p[i] < p[j] => r[i] < r[j]}

Placed(p) == [i \in DOMAIN items |-> [items[i] EXCEPT !.pos = p[i]]]

(***************************************************************************)
(* The folder                                                              *)
(***************************************************************************)
Present == IF mounted THEN DOMAIN disk ELSE {}

\* find_by_source_key: the first file whose bracketed key is the item's.
Bracketed(k) == {f \in Present : disk[f].named /\ Key(disk[f].bytes) = k}

\* The file that the row names is where it says.
There(i) == items[i].path \in Present \/ (items[i].path = Inbox /\ items[i].key[1] \in inbox)

First(S) == CHOOSE f \in S : \A g \in S : f <= g

Busy    == {t \in Threads : pc[t] # "idle"}
Idle(t) == t \notin Busy /\ Cardinality(Busy) < MaxBusy

\* What t does is its own; whatever another thread or the world changes of the
\* rows, the folder or the listing disturbs it.
Readers == {Pool, Run}
Step(t) ==
    calm' = [u \in Readers |->
               calm[u] /\ pc'[u] # "idle" /\ (u = t \/ UNCHANGED <<disk, mounted, listed, items>>)]
Disturb == calm' = [u \in Readers |-> FALSE]

Goto(t, l) == pc' = [pc EXCEPT ![t] = l]

\* t is through, and forgets what it knew.
Finish(t) ==
    /\ Goto(t, "idle")
    /\ todo' = [todo EXCEPT ![t] = <<>>]
    /\ seen' = [seen EXCEPT ![t] = {}]
    /\ known' = [known EXCEPT ![t] = <<>>]
    /\ slot' = [slot EXCEPT ![t] = 0]
    /\ at' = [at EXCEPT ![t] = 0]
    /\ foreseen' = IF t = Run THEN {} ELSE foreseen

Drop(t)    == todo' = [todo EXCEPT ![t] = Tail(@)]

(***************************************************************************)
(* Adding a reference or an upload                                         *)
(***************************************************************************)
\* What resolve() and save() make of a reference: one item for a link, every
\* entry for a feed, in order, the file for an upload; and every entry for a
\* playlist, which is recorded when all of them are in, if there are any.  A
\* feed is not recorded.
Linked(e)   == << <<"LINK", e>> >>
Uploaded(c) == << <<"UPLOAD", c>> >>
Feed        == [n \in DOMAIN listed |-> <<"LINK", listed[n]>>]
Playlist    ==
    IF listed = <<>> THEN <<>>
    ELSE [n \in DOMAIN listed |-> <<"PLAYLIST_ENTRY", listed[n]>>] \o << <<"PLAYLIST">> >>

\* An upload is in the upload directory before anything else happens to it.
StartAdd ==
    /\ Idle(Web)
    /\ \/ /\ \E r \in {Linked(e) : e \in Entries} \cup {Feed, Playlist} :
                todo' = [todo EXCEPT ![Web] = r]
          /\ UNCHANGED inbox
       \/ \E c \in Contents :
             /\ todo' = [todo EXCEPT ![Web] = Uploaded(c)]
             /\ inbox' = inbox \cup {c}
    /\ Goto(Web, "add")
    /\ edits < MaxEdits /\ edits' = edits + 1
    /\ UNCHANGED <<store, disk, mounted, listed, seen, known, slot, at, calm, raced, crashes, foreseen>>

Adding(l) == pc[Web] = l /\ todo[Web] # <<>> /\ Head(todo[Web])[1] \in Kinds

AddReads ==
    /\ Adding("add")
    /\ slot' = [slot EXCEPT ![Web] = NextPos]
    /\ Goto(Web, "insert")
    /\ UNCHANGED <<store, world, todo, seen, known, at, raced, counters, foreseen>>
    /\ Step(Web)

\* A new row of an upload names its file in the upload directory.
Given(kind) == IF kind = "UPLOAD" THEN Inbox ELSE NoFile

\* add() returns the row that has the key, old or new.
AddInserts ==
    /\ Adding("insert")
    /\ LET r == Head(todo[Web]) IN
         /\ Insert(Key(r[2]), r[1], Given(r[1]), FALSE, slot[Web])
         /\ at' = [at EXCEPT ![Web] = CHOOSE i \in DOMAIN items' : items'[i].key = Key(r[2])]
    /\ Goto(Web, "materialise")
    /\ UNCHANGED <<plays, world, todo, seen, known, slot, counters, foreseen>>
    /\ Step(Web)

\* The audio is in the folder already, under a name that carries its key.
AddFinds ==
    /\ Adding("materialise")
    /\ LET S == Bracketed(Key(Head(todo[Web])[2])) IN
         /\ S # {}
         /\ slot' = [slot EXCEPT ![Web] = First(S)]
    /\ Goto(Web, "record")
    /\ UNCHANGED <<store, world, todo, seen, known, at, raced, counters, foreseen>>
    /\ Step(Web)

\* Mutant of Adoptable: a name that is taken is taken over.
AdoptableTaken == Files

\* adopt_into moves the finished file in under the first name that is free.
Adoptable == Files \ DOMAIN disk

AddAdopts ==
    /\ Adding("materialise")
    /\ mounted
    /\ LET b == Head(todo[Web])[2] IN
         /\ Bracketed(Key(b)) = {}
         /\ \E f \in Adoptable :
              /\ disk' = [g \in DOMAIN disk \cup {f} |->
                            IF g = f THEN [bytes |-> b, named |-> TRUE] ELSE disk[g]]
              /\ slot' = [slot EXCEPT ![Web] = f]
         /\ inbox' = inbox \ {b}
    /\ Goto(Web, "record")
    /\ UNCHANGED <<store, mounted, listed, todo, seen, known, at, raced, counters, foreseen>>
    /\ Step(Web)

\* A dead link, a broken extractor, a folder that cannot be written: logged,
\* and the row stays as it is.  An upload may be lost on its way.
AddFails ==
    /\ Adding("materialise")
    /\ LET b == Head(todo[Web])[2] IN
         /\ Bracketed(Key(b)) = {}
         /\ inbox' \in {inbox, inbox \ {b}}
    /\ Drop(Web)
    /\ Goto(Web, "add")
    /\ UNCHANGED <<store, disk, mounted, listed, seen, known, slot, at, raced, counters, foreseen>>
    /\ Step(Web)

AddRecords ==
    /\ Adding("record")
    /\ items' = Located(at[Web], slot[Web])
    /\ Drop(Web)
    /\ Goto(Web, "add")
    /\ UNCHANGED <<nextId, plays, world, seen, known, slot, at, raced, counters, foreseen>>
    /\ Step(Web)

EndAdd ==
    /\ pc[Web] = "add"
    /\ \/ todo[Web] = <<>> /\ UNCHANGED plays
       \/ todo[Web] = << <<"PLAYLIST">> >> /\ plays' = TRUE
    /\ Finish(Web)
    /\ UNCHANGED <<items, nextId, world, raced, counters>>
    /\ Step(Web)

(***************************************************************************)
(* Scanning the folder                                                     *)
(***************************************************************************)
\* The folder is not there: every row is marked, whatever its kind.
ScanNothing(t) ==
    /\ Idle(t)
    /\ ~mounted
    /\ items' = Unavailable(DOMAIN items)
    /\ Finish(t)
    /\ UNCHANGED <<nextId, plays, world, raced, counters>>
    /\ Step(t)

\* What the scan remembers of a row: by_path for scanned files (of two rows
\* at one path the later one), ingested_paths for the rest.
Remembered(f) ==
    LET R == {i \in DOMAIN items : items[i].path = f} IN
    IF \E i \in R : items[i].kind # "FOLDER_FILE" THEN [ingested |-> TRUE]
    ELSE LET i == CHOOSE i \in R : \A j \in R : items[j].pos <= items[i].pos
         IN [ingested |-> FALSE, id |-> i, key |-> items[i].key, ok |-> items[i].ok]

\* The listings of the files S in their natural order: there is one.
NameOrder(S) == {s \in SetToSeqs(S) : \A m, n \in DOMAIN s : m < n => s[m] < s[n]}

StartScan(t) ==
    /\ Idle(t)
    /\ mounted
    /\ \E s \in NameOrder(DOMAIN disk) : todo' = [todo EXCEPT ![t] = s]
    /\ known' = [known EXCEPT ![t] =
                   [f \in {items[i].path : i \in DOMAIN items} \ {NoFile} |-> Remembered(f)]]
    /\ seen' = [seen EXCEPT ![t] = {}]
    /\ Goto(t, "scan")
    /\ calm' = [calm EXCEPT ![t] = TRUE]
    /\ UNCHANGED <<store, world, slot, at, raced, counters, foreseen>>

Scanning(t, l) == pc[t] = l /\ todo[t] # <<>>
See(t, k)      == seen' = [seen EXCEPT ![t] = @ \cup {k}]

\* A file of an ingested item, or one that vanished since it was listed.
ScanSkips(t) ==
    /\ Scanning(t, "scan")
    /\ LET f == Head(todo[t]) IN
         \/ f \in DOMAIN known[t] /\ known[t][f].ingested
         \/ f \notin Present
    /\ Drop(t)
    /\ UNCHANGED <<store, world, pc, seen, known, slot, at, raced, counters, foreseen>>
    /\ Step(t)

Reads(t, f) ==
    /\ Scanning(t, "scan")
    /\ f = Head(todo[t]) /\ f \in Present
    /\ f \in DOMAIN known[t] => ~known[t][f].ingested

\* Known by its path: restored if it was unavailable when the scan began.
ScanKnown(t) ==
    \E f \in Files :
      /\ Reads(t, f)
      /\ f \in DOMAIN known[t]
      /\ See(t, known[t][f].key)
      /\ items' = IF known[t][f].ok THEN items ELSE Available({known[t][f].id} \cap DOMAIN items)
      /\ Drop(t)
      /\ UNCHANGED <<nextId, plays, world, pc, known, slot, at, raced, counters, foreseen>>
      /\ Step(t)

\* Known by its fingerprint, and nothing is left where it was: a rename.  The
\* path is written first, and a row that was unavailable is restored after it.
ScanRenames(t) ==
    \E f \in Files :
      /\ Reads(t, f)
      /\ f \notin DOMAIN known[t]
      /\ \E i \in WithKey(Key(disk[f].bytes)) :
           /\ items[i].path = f \/ ~There(i)
           /\ See(t, items[i].key)
           /\ items' = Located(i, f)
           /\ \/ items[i].ok /\ Drop(t) /\ UNCHANGED <<pc, at>>
              \/ /\ ~items[i].ok
                 /\ at' = [at EXCEPT ![t] = i]
                 /\ Goto(t, "scan-restore")
                 /\ UNCHANGED todo
      /\ UNCHANGED <<nextId, plays, world, known, slot, raced, counters, foreseen>>
      /\ Step(t)

ScanRestores(t) ==
    /\ Scanning(t, "scan-restore")
    /\ items' = Available({at[t]})
    /\ Drop(t)
    /\ Goto(t, "scan")
    /\ at' = [at EXCEPT ![t] = 0]
    /\ UNCHANGED <<nextId, plays, world, seen, known, slot, raced, counters, foreseen>>
    /\ Step(t)

\* Mutant of FreshTwin: the second file shares the key of the first.
FreshTwinShared(t, b) == Key(b)

\* A new file, or a second one with the fingerprint of a file that is still
\* there, which gets the first key of its own that is free.  The position is
\* read here.
FreshTwin(t, b) ==
    LET Taken(n) == WithKey(Twin(b, n)) # {} \/ Twin(b, n) \in seen[t]
    IN Twin(b, CHOOSE n \in 1 .. Cardinality(DOMAIN items) + Cardinality(seen[t]) + 1 :
                 ~Taken(n) /\ \A m \in 1 .. n - 1 : Taken(m))

ScanNew(t) ==
    \E f \in Files :
      /\ Reads(t, f)
      /\ f \notin DOMAIN known[t]
      /\ LET b == disk[f].bytes IN
           \/ /\ WithKey(Key(b)) = {}
              /\ at' = [at EXCEPT ![t] = Key(b)]
           \/ /\ \E i \in WithKey(Key(b)) : items[i].path # f /\ There(i)
              /\ at' = [at EXCEPT ![t] = FreshTwin(t, b)]
      /\ slot' = [slot EXCEPT ![t] = NextPos]
      /\ Goto(t, "scan-insert")
      /\ UNCHANGED <<store, world, todo, seen, known, raced, counters, foreseen>>
      /\ Step(t)

ScanInserts(t) ==
    /\ Scanning(t, "scan-insert")
    /\ Insert(at[t], "FOLDER_FILE", Head(todo[t]), FALSE, slot[t])
    /\ See(t, at[t])
    /\ Drop(t)
    /\ Goto(t, "scan")
    /\ slot' = [slot EXCEPT ![t] = 0] /\ at' = [at EXCEPT ![t] = 0]
    /\ UNCHANGED <<plays, world, known, counters, foreseen>>
    /\ Step(t)

\* The scanned items whose key did not come up.
Gone(t) == {i \in DOMAIN items : items[i].kind = "FOLDER_FILE" /\ items[i].key \notin seen[t]}

EndScan(t) ==
    /\ pc[t] = "scan" /\ todo[t] = <<>>
    /\ items' = Unavailable(Gone(t))
    /\ Finish(t)
    /\ UNCHANGED <<nextId, plays, world, raced, counters>>
    /\ Step(t)

(***************************************************************************)
(* Re-resolving the playlist                                               *)
(***************************************************************************)
\* The entries of the listing that have no row: an entry that is new and
\* listed twice comes twice, for a dry run looks at the rows as they are.
Fresh(L) == {n \in DOMAIN L : WithKey(Key(L[n])) = {}}

NewRows ==
    {[pos |-> NextPos + Cardinality({m \in Fresh(listed) : m < n}), key |-> Key(listed[n]), ok |-> TRUE] :
        n \in Fresh(listed)}

\* Mutant of Preview: rows that are there already keep their state.
PreviewOfStates ==
    {[pos |-> items[i].pos, key |-> items[i].key, ok |-> items[i].ok] : i \in DOMAIN items}
        \cup NewRows

\* What a dry run would plan with: the rows as the re-resolution would leave
\* them, and the new entries behind them, none of it written.
Preview ==
    {[pos |-> items[i].pos, key |-> items[i].key,
      ok |-> IF items[i].synced THEN items[i].key[1] \in Range(listed) ELSE items[i].ok] :
        i \in DOMAIN items}
        \cup NewRows

\* resolve() has returned.  When it raises, nothing is touched.
StartSync ==
    /\ Idle(Run)
    /\ plays
    /\ foreseen' = Preview
    /\ todo' = [todo EXCEPT ![Run] = listed]
    /\ seen' = [seen EXCEPT ![Run] = {}]
    /\ Goto(Run, "sync")
    /\ calm' = [calm EXCEPT ![Run] = TRUE]
    /\ UNCHANGED <<store, world, known, slot, at, raced, counters>>

Syncing(l) == pc[Run] = l /\ todo[Run] # <<>>

\* Mutant of SyncKnown: an entry that has a row is not counted as seen.
SyncKnownUnseen ==
    /\ Syncing("sync")
    /\ LET k == Key(Head(todo[Run])) IN
         /\ WithKey(k) # {}
         /\ items' = Available({i \in WithKey(k) : items[i].synced})
    /\ Drop(Run)
    /\ UNCHANGED <<nextId, plays, world, pc, seen, known, slot, at, foreseen, raced, counters>>
    /\ Step(Run)

\* An entry that has a row: restored if this playlist put it there.
SyncKnown ==
    /\ Syncing("sync")
    /\ LET k == Key(Head(todo[Run])) IN
         /\ WithKey(k) # {}
         /\ See(Run, k)
         /\ items' = Available({i \in WithKey(k) : items[i].synced})
    /\ Drop(Run)
    /\ UNCHANGED <<nextId, plays, world, pc, known, slot, at, raced, counters, foreseen>>
    /\ Step(Run)

SyncNew ==
    /\ Syncing("sync")
    /\ LET k == Key(Head(todo[Run])) IN
         /\ WithKey(k) = {}
         /\ See(Run, k)
    /\ slot' = [slot EXCEPT ![Run] = NextPos]
    /\ Goto(Run, "sync-insert")
    /\ UNCHANGED <<store, world, todo, known, at, raced, counters, foreseen>>
    /\ Step(Run)

SyncInserts ==
    /\ Syncing("sync-insert")
    /\ Insert(Key(Head(todo[Run])), "PLAYLIST_ENTRY", NoFile, TRUE, slot[Run])
    /\ Drop(Run)
    /\ Goto(Run, "sync")
    /\ UNCHANGED <<plays, world, seen, known, slot, at, counters, foreseen>>
    /\ Step(Run)

\* The entries of this playlist that upstream lists no more.
Vanished ==
    {i \in DOMAIN items :
        items[i].kind = "PLAYLIST_ENTRY" /\ items[i].synced /\ items[i].key \notin seen[Run]}

EndSync ==
    /\ pc[Run] = "sync" /\ todo[Run] = <<>>
    /\ items' = Unavailable(Vanished)
    /\ Finish(Run)
    /\ UNCHANGED <<nextId, plays, world, raced, counters>>
    /\ Step(Run)

(***************************************************************************)
(* The library page                                                        *)
(***************************************************************************)
Pages == 1 .. IF items = <<>> THEN 1 ELSE (Cardinality(DOMAIN items) + PageSize - 1) \div PageSize

\* A drag posts the ids of one page, as it was when it was drawn; a page
\* number past the last one is clamped.
Reordered(order, page) ==
    [i \in DOMAIN items |->
        IF \E n \in DOMAIN order : order[n] = i
        THEN (page - 1) * PageSize + (CHOOSE n \in DOMAIN order : order[n] = i) - 1
        ELSE items[i].pos]

Reorder ==
    /\ \E S \in SUBSET DOMAIN items, page \in Pages :
         /\ S # {} /\ Cardinality(S) <= PageSize
         /\ \E order \in SetToSeqs(S) :
              \E r \in Ranks(Reordered(order, page)) : items' = Placed(r)
    /\ raced' = FALSE
    /\ UNCHANGED <<nextId, plays>>

\* Up or down by one: the two rows change places, unless no row is there.
Move ==
    /\ \E i, j \in DOMAIN items :
         /\ items[j].pos = items[i].pos + 1
         /\ items' = [items EXCEPT ![i].pos = items[j].pos, ![j].pos = items[i].pos]
    /\ UNCHANGED <<nextId, plays, raced>>

\* Mutant of Without: the rows behind the deleted one stay.
WithoutGap(i) == [j \in DOMAIN items \ {i} |-> items[j]]

\* The rows behind the deleted one move up.
Without(i) ==
    [j \in DOMAIN items \ {i} |->
        IF items[j].pos > items[i].pos THEN [items[j] EXCEPT !.pos = @ - 1] ELSE items[j]]

\* delete_item, with or without "and delete the file".
Unlink(i) == [f \in DOMAIN disk \ ({items[i].path} \cap Present) |-> disk[f]]

Delete ==
    /\ \E i \in DOMAIN items :
         /\ items' = Without(i)
         /\ disk' \in {disk, Unlink(i)}
    /\ UNCHANGED <<nextId, plays, raced>>

Page ==
    /\ edits < MaxEdits /\ edits' = edits + 1
    /\ \/ (Reorder \/ Move) /\ UNCHANGED disk
       \/ Delete
    /\ Disturb
    /\ UNCHANGED <<mounted, listed, inbox, local, crashes>>

(***************************************************************************)
(* The world                                                               *)
(***************************************************************************)
\* A listing has its own order, and nothing keeps an entry from it twice.
Listings == UNION {[1 .. n -> Entries] : n \in 0 .. MaxListed}

CopyIn(f, c) ==
    disk' = [g \in DOMAIN disk \cup {f} |->
               IF g = f THEN [bytes |-> c, named |-> FALSE] ELSE disk[g]]
TakeOut(f) == disk' = [g \in DOMAIN disk \ {f} |-> disk[g]]
Rename(f, g) ==
    disk' = [h \in (DOMAIN disk \ {f}) \cup {g} |-> IF h = g THEN disk[f] ELSE disk[h]]

Outside ==
    /\ edits < MaxEdits /\ edits' = edits + 1
    /\ \/ /\ mounted
          /\ \/ \E f \in Files, c \in Contents : CopyIn(f, c)
             \/ \E f \in DOMAIN disk : TakeOut(f)
             \/ \E f \in DOMAIN disk, g \in Files \ DOMAIN disk : Rename(f, g)
          /\ UNCHANGED <<mounted, listed>>
       \/ /\ mounted' = ~mounted
          /\ UNCHANGED <<disk, listed>>
       \/ /\ listed' \in Listings
          /\ UNCHANGED <<disk, mounted>>
    /\ Disturb
    /\ UNCHANGED <<store, inbox, local, raced, crashes>>

\* The process is killed and started again: rows and files are what is left.
Crash ==
    /\ crashes < MaxCrashes /\ crashes' = crashes + 1
    /\ Busy # {}
    /\ pc' = [t \in Threads |-> "idle"]
    /\ todo' = [t \in Threads |-> <<>>]
    /\ seen' = [t \in Threads |-> {}]
    /\ known' = [t \in Threads |-> <<>>]
    /\ slot' = [t \in Threads |-> 0]
    /\ at' = [t \in Threads |-> 0]
    /\ foreseen' = {}
    /\ Disturb
    /\ UNCHANGED <<store, world, raced, edits>>

(***************************************************************************)
(* The specification                                                       *)
(***************************************************************************)
\* A library is found without rows: with the files that were copied into its
\* folder before, with a playlist whose items were deleted, or with neither,
\* and with part of the bound on edits spent.
ASSUME StartsAssumption ==
    \A s \in Starts :
        /\ s.disk \in UNION {[F -> [bytes : Contents, named : {FALSE}]] : F \in SUBSET Files}
        /\ s.listed \in Listings /\ s.plays \in BOOLEAN /\ s.edits \in Nat

Init ==
    /\ \E s \in Starts : disk = s.disk /\ listed = s.listed /\ plays = s.plays /\ edits = s.edits
    /\ mounted = TRUE /\ inbox = {}
    /\ items = <<>> /\ nextId = 1
    /\ pc = [t \in Threads |-> "idle"]
    /\ todo = [t \in Threads |-> <<>>]
    /\ seen = [t \in Threads |-> {}]
    /\ known = [t \in Threads |-> <<>>]
    /\ slot = [t \in Threads |-> 0]
    /\ at = [t \in Threads |-> 0]
    /\ foreseen = {}
    /\ calm = [t \in Readers |-> FALSE]
    /\ raced = FALSE
    /\ crashes = 0

Add  == StartAdd \/ AddReads \/ AddInserts \/ AddFinds \/ AddAdopts \/ AddFails \/ AddRecords \/ EndAdd
Scan == \E t \in Readers :
            \/ ScanNothing(t) \/ StartScan(t) \/ ScanSkips(t) \/ ScanKnown(t)
            \/ ScanRenames(t) \/ ScanRestores(t) \/ ScanNew(t) \/ ScanInserts(t) \/ EndScan(t)
Sync == StartSync \/ SyncKnown \/ SyncNew \/ SyncInserts \/ EndSync

Next == Add \/ Scan \/ Sync \/ Page \/ Outside \/ Crash

Spec == Init /\ [][Next]_vars

(***************************************************************************)
(* Properties                                                              *)
(***************************************************************************)
\* Rows, files and the threads' state have the shapes the code gives them:
\* keys are unique in the library, as the index of table item demands.
TypeOK ==
    /\ DOMAIN disk \subseteq Files
    /\ \A f \in DOMAIN disk : disk[f] \in [bytes : Bytes, named : BOOLEAN]
    /\ mounted \in BOOLEAN /\ plays \in BOOLEAN /\ raced \in BOOLEAN
    /\ listed \in Seq(Entries) /\ inbox \subseteq Contents
    /\ DOMAIN items \subseteq 1 .. nextId - 1
    /\ \A i \in DOMAIN items : items[i] \in Row
    /\ \A i, j \in DOMAIN items : items[i].key = items[j].key => i = j

\* The positions of a library are 0, 1, 2, ... (store/repos.py: reorder,
\* delete; move and the buttons of the page rely on it) unless two insertions
\* overlapped since the order was last saved, which puts it right.
PositionsDense ==
    \/ raced
    \/ /\ Positions(items) = 0 .. Cardinality(DOMAIN items) - 1
       /\ \A i, j \in DOMAIN items : items[i].pos = items[j].pos => i = j

\* Whatever the threads do to the folder, a file in it keeps its bytes and its
\* name, and goes only with the row that names it (sources/ingest.py: "Never
\* overwrite"; web/routes/library.py delete_item).
AppendOnly ==
    [][ \/ Outside
        \/ \A f \in DOMAIN disk :
              IF f \in DOMAIN disk' THEN disk'[f] = disk[f]
              ELSE \E i \in DOMAIN items \ DOMAIN items' : items[i].path = f ]_vars

\* A scan that nobody disturbed leaves the catalogue saying what is in the
\* folder: every file is some item's, and the scanned items that are available
\* are the ones whose file is there - after renames, twins, swaps, returned
\* mounts and interrupted additions too (sources/folder.py scan_folder).
Catalogued ==
    /\ \A f \in DOMAIN disk : \E i \in DOMAIN items :
          items[i].path = f /\ (items[i].kind = "FOLDER_FILE" => items[i].ok)
    /\ \A i \in DOMAIN items :
          items[i].kind = "FOLDER_FILE" /\ items[i].ok => items[i].path \in DOMAIN disk

ScanAgrees == [][ \A t \in Readers : EndScan(t) /\ calm[t] => Catalogued' ]_vars

\* After a re-resolution that nobody disturbed, every listed entry has a row,
\* and a row that a re-resolution added is available exactly if it is still
\* listed (sources/playlist_sync.py sync_playlist).  The rows that came with
\* the playlist's reference have no owner and are no part of this.
Resolved ==
    /\ \A e \in Range(listed) : WithKey(Key(e)) # {}
    /\ \A i \in DOMAIN items : items[i].synced => (items[i].ok <=> items[i].key[1] \in Range(listed))

SyncAgrees == [][ EndSync /\ calm[Run] => Resolved' ]_vars

\* After a re-resolution that nobody disturbed, no entry of the playlist that
\* is listed no more is available, whoever added it (sources/playlist_sync.py,
\* "An upstream entry that has vanished is marked"; sources/ingest.py
\* _record_playlist).
VanishedMarked ==
    \A i \in DOMAIN items :
        items[i].kind = "PLAYLIST_ENTRY" /\ items[i].ok => items[i].key[1] \in Range(listed)

VanishedAreMarked == [][ EndSync /\ calm[Run] => VanishedMarked' ]_vars

\* A dry run plans with the catalogue that the real one would have written, had
\* it started at the same moment: position by position, for a listing that
\* names no entry twice (sources/playlist_sync.py _preview_one).
Catalogue == {[pos |-> items[i].pos, key |-> items[i].key, ok |-> items[i].ok] : i \in DOMAIN items}

PreviewAgrees == [][ EndSync /\ calm[Run] /\ IsInjective(listed) => Catalogue' = foreseen ]_vars

\* The same for every listing (sources/playlist_sync.py _preview_one, "Same
\* matching logic as sync_playlist").
PreviewIsTwin == [][ EndSync /\ calm[Run] => Catalogue' = foreseen ]_vars

\* After a scan of the folder that nobody disturbed, an item whose file is in
\* it is available, whatever brought the file there (sources/folder.py, on
\* "Disappearance": "a transient NFS unmount must not destroy a library").
Restored == \A i \in DOMAIN items : items[i].path \in DOMAIN disk => items[i].ok

MountRestores == [][ \A t \in Readers : EndScan(t) /\ calm[t] => Restored' ]_vars
==============================================================================
