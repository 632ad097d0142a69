------------------------------ MODULE Planning ------------------------------
(***************************************************************************)
(* What plays next: a library shared by several tonies, the rotation of    *)
(* each of them (domain/rotation.py), the load that fits under the cap     *)
(* (domain/fitting.py), and the staging that fetches it and plans again    *)
(* when a story turns out to be gone (orchestrator/run.py plan, stage).    *)
(*                                                                         *)
(* A swap is one step here that succeeds or does not: what can go wrong in *)
(* it is the subject of module Orchestrator, where every tonie has a       *)
(* library of its own and nobody edits it.  Here people edit the library,  *)
(* the pins and the settings at any moment, sources go and come back, and  *)
(* a run works with what it read when it began.                            *)
(***************************************************************************)
EXTENDS Naturals, FiniteSets, Sequences, SequencesExt

CONSTANTS
    Tonies,         \* the managed tonies, which share the library
    Mode,           \* per tonie: effective_mode, "single", "serial" or "album"
    N,              \* the stories 1 .. N, in library order
    Dur,            \* per story: its length
    Shuffled,       \* per length n: the permutation of 1 .. n that the seed gives
    Caps,           \* the values settings.cap_seconds may have
    SinkMax,        \* sink.limits.max_seconds
    MaxChapters,    \* sink.limits.max_chapters
    PartialTail,    \* assignment.allow_partial_tail
    MinSeconds,     \* verify.MIN_SECONDS
    Depth,          \* settings.prefetch_depth
    Kind,           \* per story: the kind of its item, which decides who fetches it
    Gone,           \* the sets of stories that may be gone at the beginning
    Cooldowns,      \* the values settings.repeat_cooldown_days may have
    Avoidances,     \* the values settings.avoid_duplicates may have
    MaxEdits        \* bound on what people and the outside world do

Items == 1 .. N

ASSUME LibraryAssumption ==
    /\ N \in Nat \ {0} /\ Dur \in [Items -> Nat \ {0}]
    /\ Kind \in [Items -> {"FOLDER_FILE", "UPLOAD", "YOUTUBE", "PLAYLIST_ENTRY", "RSS", "URL"}]
    /\ Gone \subseteq SUBSET Items /\ Gone # {}
ASSUME ModeAssumption    == Mode \in [Tonies -> {"single", "serial", "album"}]
ASSUME ShuffleAssumption ==
    \A n \in Items : Shuffled[n] \in [1 .. n -> 1 .. n] /\ IsInjective(Shuffled[n])
ASSUME LimitAssumption   ==
    /\ Caps \subseteq Nat /\ Caps # {} /\ SinkMax \in Nat \ {0} /\ MaxChapters \in Nat \ {0}
    /\ PartialTail \in BOOLEAN /\ MinSeconds \in Nat /\ Depth \in Nat
ASSUME SettingAssumption ==
    /\ Cooldowns \subseteq Nat /\ Cooldowns # {} /\ IsFiniteSet(Cooldowns)
    /\ Avoidances \subseteq BOOLEAN /\ Avoidances # {}
    /\ MaxEdits \in Nat

VARIABLES
    enabled,   \* the stories whose item is enabled
    ok,        \* the stories whose item is in state OK
    source,    \* the world: the audio is "there", "gone", "short" of what was announced,
               \* or whatever leads to it is "down"
    on,        \* the tonies that are not paused
    cursor,    \* assignment.cursor_position
    pinned,    \* assignment.pinned_item_id, NoPin for NULL
    order,     \* assignment.mode: "ordered" or "shuffle"
    loaded,    \* chapter_record, and the tonie: the stories it holds
    ended,     \* chapter_history: days since the tonie last held the story, of
               \* tonies that play one story at a time: nobody else asks
    rotated,   \* whether last_success_at is in the current window
    stored,                     \* the settings as saved
    cooldown, avoid, cap,       \* ... and as the last run read them
    pc, todo, read,             \* the run: tonies left, assignments as read
    who, plan, budget, got,     \* one tonie: its plan, what is fetched of it
    pieces,                     \* ... and what fits, staged
    calm,      \* history: nobody edited anything since this tonie was planned
    edits

library == <<enabled, ok, source>>
tonies  == <<on, cursor, pinned, order, loaded, ended, rotated>>
knobs   == <<cooldown, avoid, cap>>
job     == <<who, plan, budget, got, pieces, calm>>
run     == <<pc, todo, read>>
vars    == <<library, tonies, stored, knobs, run, job, edits>>

NoPin   == 0
NoTonie == "none"
NoPlan  == [items |-> <<>>, rotates |-> FALSE]
Long    == 1 + CHOOSE c \in Cooldowns : \A d \in Cooldowns : d <= c   \* longer ago than matters

(***************************************************************************)
(* Rotation                                                                *)
(***************************************************************************)
\* Enabled items in state OK, in library order; S is what is in state OK.
Eligible(S) ==
    LET among[n \in 0 .. N] ==
            IF n = 0 THEN <<>>
            ELSE IF n \in enabled \cap S THEN Append(among[n - 1], n) ELSE among[n - 1]
    IN  among[N]

\* Mutant of AdvanceCursor: the modulus is one too small.
AdvanceCursorShort(c, count, n) == IF n <= 1 THEN 0 ELSE (c + count) % (n - 1)

AdvanceCursor(c, count, n) == IF n = 0 THEN 0 ELSE (c + count) % n

Turned(seq, k) ==
    [j \in DOMAIN seq |-> seq[IF j + k <= Len(seq) THEN j + k ELSE (j + k) - Len(seq)]]

\* The eligible items from the cursor on, in library order or shuffled: the
\* permutation is one of places, and depends on how many there are.
OrderFor(c, ord, elig) ==
    LET perm == IF ord = "shuffle"
                THEN [k \in DOMAIN elig |-> elig[Shuffled[Len(elig)][k]]] ELSE elig
    IN  IF elig = <<>> THEN <<>> ELSE Turned(perm, c % Len(elig))

RotateTo(seq, i) == Turned(seq, (CHOOSE k \in DOMAIN seq : seq[k] = i) - 1)

LoadedElsewhere(a) == UNION {ToSet(loaded[b]) : b \in Tonies \ {a}}

\* held_since(now - cooldown).  A hold that ended as many dates ago as the
\* cooldown has days ended before or after that minute.
RecentlyHeld(a) ==
    IF cooldown = 0 THEN {{}}
    ELSE {ToSet(loaded[a]) \cup {i \in Items : ended[a][i] < cooldown} \cup S :
            S \in SUBSET {i \in Items : ended[a][i] = cooldown}}

\* Mutant of Relaxed: uniqueness is relaxed before the cooldown.
RelaxedOwn(ordered, cool, unique) ==
    IF ~ToSet(ordered) \subseteq cool \cup unique THEN cool \cup unique
    ELSE IF ~ToSet(ordered) \subseteq cool THEN cool ELSE {}

\* The relaxation ladder: the cooldown goes first, then uniqueness.  What is
\* left of what is barred.
Relaxed(ordered, cool, unique) ==
    IF ~ToSet(ordered) \subseteq cool \cup unique THEN cool \cup unique
    ELSE IF ~ToSet(ordered) \subseteq unique THEN unique ELSE {}

FirstAllowed(ordered, blocked) ==
    ordered[CHOOSE k \in DOMAIN ordered :
                ordered[k] \notin blocked /\ \A j \in 1 .. k - 1 : ordered[j] \in blocked]

PinActive(asg, elig) == asg.pinned \in ToSet(elig)

\* choose_next, for a tonie whose assignment was read as asg, at cursor c.
ChooseNext(a, asg, c, elig, cool) ==
    LET ordered == OrderFor(c, asg.order, elig)
        pin     == PinActive(asg, elig)
        start   == IF pin THEN RotateTo(ordered, asg.pinned) ELSE ordered
        unique  == IF avoid THEN LoadedElsewhere(a) ELSE {}
    IN  IF elig = <<>> THEN NoPlan
        ELSE IF Mode[a] = "album"  THEN [items |-> elig, rotates |-> FALSE]
        ELSE IF Mode[a] = "serial" THEN [items |-> start, rotates |-> ~pin]
        ELSE IF pin THEN [items |-> <<asg.pinned>>, rotates |-> FALSE]
        ELSE [items |-> <<FirstAllowed(ordered, Relaxed(ordered, cool, unique))>>,
              rotates |-> TRUE]

\* Question 1: it holds what is intended.  Question 2, for a plan that
\* rotates: it holds what was put on it in this window.
RotationDue(a) == ~rotated[a]

AlreadyCurrent(a, p) ==
    \/ loaded[a] = p.items
    \/ p.rotates /\ ~RotationDue(a) /\ loaded[a] # <<>>

(***************************************************************************)
(* Fitting                                                                 *)
(***************************************************************************)
ClampCap(c) == IF c = 0 \/ c > SinkMax THEN SinkMax ELSE c

\* Mutant of Pack: the first story goes on whole, however long it is.
PackFirst(acc, i) ==
    LET cut == Append(acc.pieces, [item |-> i, take |-> acc.left])
    IN  IF acc.stopped THEN acc
        ELSE IF Dur[i] <= acc.left \/ acc.pieces = <<>>
        THEN LET whole == Append(acc.pieces, [item |-> i, take |-> Dur[i]])
             IN  [pieces |-> whole, left |-> IF Dur[i] <= acc.left THEN acc.left - Dur[i] ELSE 0,
                  stopped |-> Dur[i] >= acc.left \/ Len(whole) >= MaxChapters]
        ELSE [pieces |-> IF PartialTail THEN cut ELSE acc.pieces, left |-> 0, stopped |-> TRUE]

\* One candidate more: it goes on whole, or cut to what is left, or not at
\* all, and then nothing behind it does.
Pack(acc, i) ==
    LET whole == Append(acc.pieces, [item |-> i, take |-> Dur[i]])
        cut   == Append(acc.pieces, [item |-> i, take |-> acc.left])
    IN  IF acc.stopped THEN acc
        ELSE IF Dur[i] <= acc.left
        THEN [pieces |-> whole, left |-> acc.left - Dur[i],
              stopped |-> Dur[i] = acc.left \/ Len(whole) >= MaxChapters]
        ELSE IF PartialTail \/ acc.pieces = <<>>
        THEN [pieces |-> cut, left |-> 0, stopped |-> TRUE]
        ELSE [acc EXCEPT !.stopped = TRUE]

FitFill(candidates) ==
    LET packed[n \in 0 .. Len(candidates)] ==
            IF n = 0 THEN [pieces |-> <<>>, left |-> cap, stopped |-> FALSE]
            ELSE Pack(packed[n - 1], candidates[n])
    IN  packed[Len(candidates)].pieces

Total(s) ==
    LET sum[n \in 0 .. Len(s)] == IF n = 0 THEN 0 ELSE sum[n - 1] + s[n]
    IN  sum[Len(s)]

Seconds(items) == Total([k \in DOMAIN items |-> Dur[items[k]]])
StoriesOf(ps)  == [k \in DOMAIN ps |-> ps[k].item]

\* What ffmpeg makes of a piece, and whether verify_rendition refuses it:
\* "too_short", "over_cap" or "duration_mismatch".
Rendered(piece) == IF piece.take < Dur[piece.item] THEN piece.take ELSE Dur[piece.item]

Unfit(ps) ==
    \E piece \in ToSet(ps) :
        LET r == Rendered(piece) IN r < MinSeconds \/ r > SinkMax \/ r # piece.take

(***************************************************************************)
(* Fetching                                                                *)
(***************************************************************************)
\* Every HTTP error, also one of the network, is the item's own.
HttpFetch(w) == IF w \in {"gone", "down"} THEN "unavailable" ELSE "fetched"

\* The messages of yt-dlp that name the one video, and all others.
YtDlpFetch(w) == CASE w = "gone" -> "unavailable" [] w = "down" -> "broken" [] OTHER -> "fetched"

\* One file, or the root of the library with everything under it.
FolderFetch(w) == CASE w = "gone" -> "unavailable" [] w = "down" -> "broken" [] OTHER -> "fetched"

\* The first fetcher that supports the kind; nobody fetches an upload again.
Fetched(i) ==
    CASE Kind[i] = "FOLDER_FILE"                -> FolderFetch(source[i])
      [] Kind[i] \in {"YOUTUBE", "PLAYLIST_ENTRY"} -> YtDlpFetch(source[i])
      [] Kind[i] \in {"RSS", "URL"}              -> HttpFetch(source[i])
      [] OTHER -> IF source[i] \in {"gone", "down"} THEN "broken" ELSE "fetched"

\* _probe_source: what was fetched is refused when it is much shorter than
\* the feed says.
Meets(i) == IF Fetched(i) = "fetched" /\ source[i] = "short" THEN "refused" ELSE Fetched(i)

\* The playlist entries, as long as upstream lists them.
Listed == {i \in Items : Kind[i] = "PLAYLIST_ENTRY"}

(***************************************************************************)
(* A run                                                                   *)
(***************************************************************************)
Assignment(a) == [pinned |-> pinned[a], order |-> order[a]]
Unread        == [a \in Tonies |-> [pinned |-> NoPin, order |-> "ordered"]]

Leave == /\ pc' = "next"
         /\ who' = NoTonie /\ plan' = NoPlan /\ budget' = 0 /\ got' = <<>> /\ pieces' = <<>>
         /\ calm' = FALSE

\* effective_rotation_settings: a run reads the settings once.
ReadSettings == /\ cooldown' = stored.cooldown /\ avoid' = stored.avoid
                /\ cap' = ClampCap(stored.cap)

\* The run reads the assignments it is due to work on: not the paused ones.
Start(S) ==
    /\ pc = "idle"
    /\ ReadSettings
    /\ pc' = "next" /\ todo' = S \cap on
    /\ read' = [a \in Tonies |-> IF a \in S \cap on THEN Assignment(a) ELSE Unread[a]]
    /\ UNCHANGED <<library, tonies, stored, job>>

ScheduledRun == Start(Tonies) /\ UNCHANGED edits

\* Somebody runs one tonie from its card.
ManualRun ==
    /\ edits < MaxEdits /\ edits' = edits + 1
    /\ \E a \in Tonies : Start({a})

EndRun ==
    /\ pc = "next" /\ todo = {}
    /\ pc' = "idle" /\ read' = Unread
    /\ UNCHANGED <<library, tonies, stored, knobs, todo, job, edits>>

\* _sync_sources and choose_next: the entries that are listed come back.
PlanTonie ==
    /\ pc = "next"
    /\ \E a \in todo :
         /\ todo' = todo \ {a}
         /\ read' = [read EXCEPT ![a] = Unread[a]]
         /\ ok' = ok \cup Listed
         /\ \E p \in {ChooseNext(a, read[a], cursor[a], Eligible(ok \cup Listed), cool) :
                         cool \in RecentlyHeld(a)} :
              \/ (p.items = <<>> \/ AlreadyCurrent(a, p)) /\ UNCHANGED <<pc, job>>
              \/ /\ p.items # <<>> /\ ~AlreadyCurrent(a, p)
                 /\ pc' = "fetch"
                 /\ who' = a /\ plan' = p /\ budget' = N /\ got' = <<>> /\ pieces' = <<>>
                 /\ calm' = TRUE
    /\ UNCHANGED <<enabled, source, tonies, stored, knobs, edits>>

\* The source cannot be resolved: PLAN_FAILED, and nothing is touched.
PlanFails ==
    /\ pc = "next" /\ Listed # {}
    /\ edits < MaxEdits /\ edits' = edits + 1
    /\ \E a \in todo : /\ todo' = todo \ {a}
                       /\ read' = [read EXCEPT ![a] = Unread[a]]
    /\ UNCHANGED <<library, tonies, stored, knobs, pc, job>>

\* _stage_plan fetches and measures in the order of the plan until the cap is
\* accounted for.
Enough == Seconds(got) >= cap \/ Len(got) = Len(plan.items)
Wanted == plan.items[Len(got) + 1]
Fetches(s) == pc = "fetch" /\ ~Enough /\ Meets(Wanted) = s

Fetch ==
    /\ Fetches("fetched")
    /\ got' = Append(got, Wanted)
    /\ UNCHANGED <<library, tonies, stored, knobs, run, who, plan, budget, pieces, calm, edits>>

\* Mutant of FetchDead: one attempt, whatever the library holds.
FetchDeadOnce ==
    /\ Fetches("unavailable")
    /\ ok' = (ok \ {Wanted}) \cup Listed
    /\ Leave
    /\ UNCHANGED <<enabled, source, tonies, stored, knobs, todo, read, edits>>

\* ItemUnavailable: the story is marked, and stage plans again with the
\* assignment as it is now - at most once per item of the library.
FetchDead ==
    /\ Fetches("unavailable")
    /\ ok' = (ok \ {Wanted}) \cup Listed
    /\ \E p \in {ChooseNext(who, Assignment(who), cursor[who], Eligible(ok'), cool) :
                    cool \in RecentlyHeld(who)} :
         IF p.items = <<>> \/ budget = 1
         THEN Leave
         ELSE /\ plan' = p /\ budget' = budget - 1 /\ got' = <<>>
              /\ UNCHANGED <<pc, who, pieces, calm>>
    /\ UNCHANGED <<enabled, source, tonies, stored, knobs, todo, read, edits>>

\* ExtractionBroken, or a source much shorter than its feed says: the tonie
\* keeps what it has, and the story keeps its turn.
FetchBroken ==
    /\ Fetches("broken") \/ Fetches("refused")
    /\ Leave
    /\ UNCHANGED <<library, tonies, stored, knobs, todo, read, edits>>

\* What fits is rendered and verified.
Fit ==
    /\ pc = "fetch" /\ Enough
    /\ IF Unfit(FitFill(got))
       THEN Leave
       ELSE /\ pieces' = FitFill(got) /\ pc' = "swap"
            /\ UNCHANGED <<who, plan, budget, got, calm>>
    /\ UNCHANGED <<library, tonies, stored, knobs, todo, read, edits>>

\* The swap succeeded: records, history, cursor and last_success_at.  The
\* items are counted as they are now.
Commit ==
    /\ pc = "swap"
    /\ loaded' = [loaded EXCEPT ![who] = StoriesOf(pieces)]
    /\ ended' = IF Mode[who] # "single" THEN ended
                ELSE [ended EXCEPT ![who] =
                        [i \in Items |-> IF i \in ToSet(loaded[who]) THEN 0 ELSE @[i]]]
    /\ cursor' = IF plan.rotates
                 THEN [cursor EXCEPT ![who] = AdvanceCursor(@, Len(pieces), Len(Eligible(ok)))]
                 ELSE cursor
    /\ rotated' = [rotated EXCEPT ![who] = TRUE]
    /\ pc' = "prefetch"
    /\ UNCHANGED <<library, on, pinned, order, stored, knobs, todo, read, job, edits>>

\* A snapshot that cannot be written, a swap that fails and is repaired later.
SwapFails ==
    /\ pc = "swap"
    /\ edits < MaxEdits /\ edits' = edits + 1
    /\ Leave
    /\ UNCHANGED <<library, tonies, stored, knobs, todo, read>>

\* upcoming_item_ids: for a single, choose_next again and again at a cursor
\* that moves by one.
Upcoming(a, cool) ==
    LET elig == Eligible(ok)
        next(c) == ChooseNext(a, Assignment(a), c, elig, cool)
        walk(acc, n) ==
            IF acc.stopped THEN acc
            ELSE [ids |-> Append(acc.ids, Head(next(acc.at).items)),
                  at |-> AdvanceCursor(acc.at, 1, Len(elig)),
                  stopped |-> ~next(acc.at).rotates]
        upTo(seq) == SubSeq(seq, 1, IF Len(seq) < Depth THEN Len(seq) ELSE Depth)
    IN  IF Depth = 0 \/ elig = <<>> THEN <<>>
        ELSE IF Mode[a] = "album"  THEN SelectSeq(elig, LAMBDA i : i \notin ToSet(loaded[a]))
        ELSE IF Mode[a] = "serial" THEN upTo(next(cursor[a]).items)
        ELSE FoldLeft(walk, [ids |-> <<>>, at |-> cursor[a], stopped |-> FALSE],
                      [n \in 1 .. Depth |-> n]).ids

\* prefetch_assignment marks the upcoming stories that cannot be had, up to
\* the first that shows the extractor broken.
Unavailable(ids) ==
    {ids[k] : k \in {k \in DOMAIN ids :
        Meets(ids[k]) = "unavailable" /\ \A j \in 1 .. k - 1 : Meets(ids[j]) # "broken"}}

Prefetch ==
    /\ pc = "prefetch"
    /\ \E ids \in {Upcoming(who, cool) : cool \in RecentlyHeld(who)} : ok' = ok \ Unavailable(ids)
    /\ Leave
    /\ UNCHANGED <<enabled, source, tonies, stored, knobs, todo, read, edits>>

(***************************************************************************)
(* Everybody else                                                          *)
(***************************************************************************)
\* A date begins: another rotation window.
NewDay ==
    /\ rotated' = [a \in Tonies |-> FALSE]
    /\ ended' = [a \in Tonies |->
                   [i \in Items |-> IF ended[a][i] = Long THEN Long ELSE ended[a][i] + 1]]
    /\ UNCHANGED <<library, on, cursor, pinned, order, loaded, stored, knobs, run, job, edits>>

Flip(S, i) == IF i \in S THEN S \ {i} ELSE S \cup {i}

\* The card of a tonie, and the page of the library.
Pin == \E a \in Tonies, i \in Items \cup {NoPin} : pinned' = [pinned EXCEPT ![a] = i]
SetMode == \E a \in Tonies, m \in {"ordered", "shuffle"} : order' = [order EXCEPT ![a] = m]
SetEnabled == \E i \in Items : enabled' = Flip(enabled, i)
Save == stored' \in [cooldown : Cooldowns, avoid : Avoidances, cap : Caps]
Pause == \E a \in Tonies : on' = Flip(on, a)

\* A scan, a re-resolution, an upload: an item goes or comes back.
Catalogue == \E i \in Items : ok' = Flip(ok, i)

\* What a fetch would meet.
World == \E i \in Items, s \in {"there", "gone", "short", "down"} : source' = [source EXCEPT ![i] = s]

\* The prefetch command takes no lock; here its step for one tonie, with the
\* settings of the last run.
PrefetchCommand ==
    \E a \in Tonies : \E ids \in {Upcoming(a, cool) : cool \in RecentlyHeld(a)} :
        ok' = ok \ Unavailable(ids)

Edit ==
    /\ edits < MaxEdits /\ edits' = edits + 1
    /\ \/ Pin        /\ UNCHANGED <<library, on, order, stored>>
       \/ SetMode    /\ UNCHANGED <<library, on, pinned, stored>>
       \/ Pause      /\ UNCHANGED <<library, pinned, order, stored>>
       \/ SetEnabled /\ UNCHANGED <<ok, source, on, pinned, order, stored>>
       \/ Save       /\ UNCHANGED <<library, on, pinned, order>>
       \/ (Catalogue \/ PrefetchCommand)
                     /\ UNCHANGED <<enabled, source, on, pinned, order, stored>>
       \/ World      /\ UNCHANGED <<enabled, ok, on, pinned, order, stored>>
    /\ calm' = FALSE
    /\ UNCHANGED <<cursor, loaded, ended, rotated, knobs, run, who, plan, budget, got, pieces>>

(***************************************************************************)
(* The specification                                                       *)
(***************************************************************************)
Init ==
    /\ enabled = Items /\ ok = Items
    /\ \E S \in Gone : source = [i \in Items |-> IF i \in S THEN "gone" ELSE "there"]
    /\ on = Tonies
    /\ cursor = [a \in Tonies |-> 0]
    /\ pinned = [a \in Tonies |-> NoPin]
    /\ order = [a \in Tonies |-> "ordered"]
    /\ loaded = [a \in Tonies |-> <<>>]
    /\ ended = [a \in Tonies |-> [i \in Items |-> Long]]
    /\ rotated = [a \in Tonies |-> FALSE]
    /\ stored \in [cooldown : Cooldowns, avoid : Avoidances, cap : Caps]
    /\ cooldown = stored.cooldown /\ avoid = stored.avoid /\ cap = SinkMax
    /\ pc = "idle" /\ todo = {} /\ read = Unread
    /\ who = NoTonie /\ plan = NoPlan /\ budget = 0 /\ got = <<>> /\ pieces = <<>> /\ calm = FALSE
    /\ edits = 0

Work == \/ EndRun \/ PlanTonie
        \/ Fetch \/ FetchDead \/ FetchBroken \/ Fit
        \/ Commit \/ Prefetch

Next == \/ ScheduledRun \/ ManualRun \/ Work \/ PlanFails \/ SwapFails
        \/ NewDay \/ Edit

\* Dates go on; the scheduler starts a run whenever none is under way, and a
\* run goes on to its end (modules Scheduler and RunLock).
Fairness == WF_vars(NewDay) /\ WF_vars(ScheduledRun \/ Work)

Spec == Init /\ [][Next]_vars /\ Fairness

(***************************************************************************)
(* Properties                                                              *)
(***************************************************************************)
\* The assignments, the settings and what the run remembers have the shapes
\* the code gives them; a cursor stays below the number of stories.
TypeOK ==
    /\ enabled \subseteq Items /\ ok \subseteq Items
    /\ source \in [Items -> {"there", "gone", "short", "down"}]
    /\ on \subseteq Tonies
    /\ cursor \in [Tonies -> 0 .. N - 1]
    /\ pinned \in [Tonies -> Items \cup {NoPin}]
    /\ order \in [Tonies -> {"ordered", "shuffle"}]
    /\ \A a \in Tonies : ToSet(loaded[a]) \subseteq Items
    /\ ended \in [Tonies -> [Items -> 0 .. Long]]
    /\ rotated \in [Tonies -> BOOLEAN]
    /\ stored \in [cooldown : Cooldowns, avoid : Avoidances, cap : Caps]
    /\ cooldown \in Cooldowns /\ avoid \in Avoidances /\ cap \in 1 .. SinkMax
    /\ pc \in {"idle", "next", "fetch", "swap", "prefetch"}
    /\ todo \subseteq Tonies /\ budget \in 0 .. N /\ calm \in BOOLEAN /\ edits \in 0 .. MaxEdits
    /\ pc \in {"fetch", "swap", "prefetch"} => who \in Tonies /\ plan.items # <<>>

\* What choose_next decides, said without its steps (domain/rotation.py: "a
\* pin must never empty a tonie", and the ladder of spec 4.2).  Only what is
\* eligible is planned; a pin that is eligible comes first and stops the
\* rotation; a single gets the first story, from its cursor on, of the best
\* grade there is: one that is neither elsewhere nor recent, else one it held
\* recently itself, else one that another tonie holds.
Grade(a, i, cool) ==
    IF avoid /\ i \in LoadedElsewhere(a) THEN 2 ELSE IF i \in cool THEN 1 ELSE 0

WellChosen(a, asg, elig, p, cool) ==
    LET ordered == OrderFor(cursor[a], asg.order, elig)
        pin == PinActive(asg, elig)
    IN  /\ p.items # <<>>
        /\ ToSet(p.items) \subseteq ToSet(elig)
        /\ p.rotates <=> Mode[a] # "album" /\ ~pin
        /\ Mode[a] # "single" => Len(p.items) = Len(elig) /\ IsInjective(p.items)
        /\ Mode[a] # "album" /\ pin => Head(p.items) = asg.pinned
        /\ Mode[a] = "single" => Len(p.items) = 1
        /\ Mode[a] = "single" /\ ~pin =>
             \A k \in DOMAIN ordered :
                LET mine == CHOOSE m \in DOMAIN ordered : ordered[m] = p.items[1]
                IN  \/ Grade(a, ordered[k], cool) > Grade(a, p.items[1], cool)
                    \/ Grade(a, ordered[k], cool) = Grade(a, p.items[1], cool) /\ k >= mine

PlansAreWellChosen ==
    [][ /\ PlanTonie /\ pc' = "fetch" =>
             \E cool \in RecentlyHeld(who') :
                WellChosen(who', read[who'], Eligible(ok'), plan', cool)
        /\ FetchDead /\ pc' = "fetch" =>
             \E cool \in RecentlyHeld(who) :
                WellChosen(who, Assignment(who), Eligible(ok'), plan', cool) ]_vars

\* What goes on a tonie fits: within the cap and the chapter limit, the first
\* stories of the plan in its order, whole except perhaps the last, which is
\* then cut to exactly what is left; never nothing, never a piece too short to
\* ship; and the next story was left out only because there was no room for
\* it (domain/fitting.py fit_fill; verify.py "too_short").
Taken(ps) == Total([k \in DOMAIN ps |-> ps[k].take])

LoadFits ==
    pc = "swap" =>
        LET n == Len(pieces) IN
        /\ n \in 1 .. MaxChapters /\ n <= Len(plan.items)
        /\ StoriesOf(pieces) = SubSeq(plan.items, 1, n)
        /\ Taken(pieces) <= cap
        /\ \A k \in 1 .. n - 1 : pieces[k].take = Dur[pieces[k].item]
        /\ pieces[n].take # Dur[pieces[n].item] =>
              pieces[n].take < Dur[pieces[n].item] /\ Taken(pieces) = cap
        /\ \A k \in 1 .. n : pieces[k].take >= MinSeconds
        /\ n < Len(plan.items) =>
              \/ Taken(pieces) = cap
              \/ n = MaxChapters
              \/ ~PartialTail /\ Dur[plan.items[n + 1]] > cap - Taken(pieces)

\* Staging runs out of candidates only when no story that is eligible can be
\* fetched - unless a dead entry is listed, which planning brings back as
\* often as staging marks it (orchestrator/run.py stage: "marks it unavailable
\* and re-plans ... up to one attempt per item in the library").
NightNotLost ==
    [][ FetchDead /\ pc' = "next" /\ calm =>
          \/ \A i \in enabled \cap ok' : Meets(i) # "fetched"
          \/ \E i \in enabled \cap Listed : Meets(i) = "unavailable" ]_vars

\* The library as it is can be played, and this tonie rotates through it.
Settled(a) ==
    /\ pinned[a] = NoPin
    /\ a \in on
    /\ \A i \in enabled \cap (ok \cup Listed) : source[i] = "there"

\* The plan is what the tonie holds, or what is too short to ship.
Stalled(a) ==
    \E p \in {ChooseNext(a, Assignment(a), cursor[a], Eligible(ok), cool) : cool \in RecentlyHeld(a)} :
        p.items = loaded[a] \/ Unfit(FitFill(p.items))

\* In a library that has come to rest, every story plays on every tonie that
\* rotates, again and again, unless the tonie is stalled for good
\* (domain/rotation.py: "every item plays once before any repeats").
EveryStoryPlaysOrStalls ==
    \A a \in Tonies, i \in Items :
        Mode[a] # "album" /\ <>[](Settled(a) /\ ~avoid /\ i \in enabled \cap ok)
            => []<>(i \in ToSet(loaded[a])) \/ <>[]Stalled(a)

\* The same without the exception, as the documentation has it.
EveryStoryPlays ==
    \A a \in Tonies, i \in Items :
        Mode[a] # "album" /\ <>[](Settled(a) /\ i \in enabled \cap ok)
            => []<>(i \in ToSet(loaded[a]))
=============================================================================
