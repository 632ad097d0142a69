--------------------------- MODULE LibraryProofs ---------------------------
(***************************************************************************)
(* That the positions of a library stay dense, that no thread loses a file *)
(* it should keep, and that an undisturbed scan, re-resolution or dry run  *)
(* says what is in the folder and upstream - for every folder, playlist    *)
(* and page size, every interleaving of the threads and every kill.        *)
(***************************************************************************)
EXTENDS Library, FiniteSetTheorems, TLAPS

(***************************************************************************)
(* Numbers, finite sets and sequences                                      *)
(***************************************************************************)
\* Numbers have a least one.
LEMMA LeastNumber ==
  ASSUME NEW T, T \subseteq Nat, T # {}
  PROVE  \E x \in T : \A y \in T : x <= y
<1> DEFINE Less == OpToRel(<, Nat)
<1>1. IsWellFoundedOn(Less, Nat)
  BY NatLessThanWellFounded
<1>2. \A x, y \in Nat : <<x, y>> \in Less <=> x < y
  BY DEF OpToRel
<1>3. \E x \in T : \A y \in T : ~ (<<y, x>> \in Less)
  <2> HIDE DEF Less
  <2> QED BY <1>1, WFMin
<1>4. PICK x \in T : \A y \in T : ~ (<<y, x>> \in Less)
  BY <1>3
<1> HIDE DEF Less
<1>5. \A y \in T : ~ (y < x)
  BY <1>2, <1>4
<1> QED BY <1>4, <1>5

\* A finite set of numbers has a greatest one: of the sets with an element but
\* no greatest one, a minimal one would have lost an element.
LEMMA GreatestNumber ==
  ASSUME NEW T, T \subseteq Nat, T # {}, IsFiniteSet(T)
  PROVE  \E x \in T : \A y \in T : y <= x
<1> DEFINE Tops(U) == {x \in U : \A y \in U : y <= x}
           Bad == {U \in FiniteSubsetsOf(T) : U # {} /\ Tops(U) = {}}
<1>1. SUFFICES ASSUME Bad # {} PROVE FALSE
  <2>1. T \in FiniteSubsetsOf(T)
    BY DEF FiniteSubsetsOf
  <2> QED BY <2>1
<1>2. PICK U \in Bad : \A V \in Bad : ~ (<<V, U>> \in StrictSubsetOrdering(T))
  <2>1. Bad \subseteq FiniteSubsetsOf(T)
    OBVIOUS
  <2> HIDE DEF Bad
  <2> QED BY <1>1, <2>1, FS_StrictSubsetOrderingWellFounded, WFMin
<1>3. PICK x \in U : TRUE
  BY <1>2
<1> DEFINE V == U \ {x}
<1>4. V \in FiniteSubsetsOf(T) /\ <<V, U>> \in StrictSubsetOrdering(T)
  BY <1>2, <1>3, FS_RemoveElement DEF FiniteSubsetsOf, StrictSubsetOrdering
<1>5. V # {}
  BY <1>2, <1>3 DEF FiniteSubsetsOf
<1>6. PICK y \in V : \A z \in V : z <= y
  BY <1>2, <1>4, <1>5
<1>7. x \in Nat /\ y \in Nat /\ U \subseteq Nat
  BY <1>2, <1>3, <1>6 DEF FiniteSubsetsOf
<1>8. CASE x <= y
  BY <1>2, <1>6, <1>7, <1>8
<1>9. CASE y <= x
  BY <1>2, <1>3, <1>6, <1>7, <1>9
<1> QED BY <1>7, <1>8, <1>9

\* An injection of a finite set into as many numbers reaches each of them.
LEMMA InjectionOnto ==
  ASSUME NEW S, NEW T, IsFiniteSet(T), IsFiniteSet(S), Cardinality(S) = Cardinality(T),
         NEW f \in [S -> T], IsInjective(f)
  PROVE  Range(f) = T
<1>1. f \in Injection(S, T)
  BY DEF Injection, IsInjective
<1>2. f \in Surjection(S, T)
  BY <1>1, FS_Injection
<1> QED BY <1>2 DEF Surjection, Range

\* What Head and Tail do to a listing.
LEMMA HeadTail ==
  ASSUME NEW S, NEW s \in Seq(S), s # <<>>
  PROVE  /\ Head(s) \in S /\ Tail(s) \in Seq(S)
         /\ Range(s) = {Head(s)} \cup Range(Tail(s))
<1>1. /\ Head(s) = s[1] /\ Tail(s) \in Seq(S) /\ Len(Tail(s)) = Len(s) - 1
      /\ \A i \in 1 .. Len(Tail(s)) : Tail(s)[i] = s[i + 1]
      /\ DOMAIN s = 1 .. Len(s) /\ DOMAIN Tail(s) = 1 .. Len(Tail(s))
      /\ Len(s) \in Nat \ {0}
  OBVIOUS
<1>2. Head(s) \in S
  BY <1>1
<1>3. ASSUME NEW n \in DOMAIN s PROVE s[n] \in {Head(s)} \cup Range(Tail(s))
  <2>1. CASE n = 1
    BY <1>1, <2>1
  <2>2. CASE n # 1
    <3>1. n - 1 \in DOMAIN Tail(s) /\ Tail(s)[n - 1] = s[n]
      BY <1>1, <2>2
    <3> QED BY <3>1 DEF Range
  <2> QED BY <2>1, <2>2
<1>4. ASSUME NEW n \in DOMAIN Tail(s) PROVE Tail(s)[n] \in Range(s)
  BY <1>1 DEF Range
<1>5. Head(s) \in Range(s)
  BY <1>1 DEF Range
<1> QED BY <1>1, <1>2, <1>3, <1>4, <1>5 DEF Range

\* What they do to a listing without repetitions.
LEMMA Popped ==
  ASSUME NEW S, NEW s \in Seq(S), s # <<>>, IsInjective(s)
  PROVE  /\ Head(s) \in S /\ Tail(s) \in Seq(S)
         /\ IsInjective(Tail(s))
         /\ Range(s) = {Head(s)} \cup Range(Tail(s))
         /\ Head(s) \notin Range(Tail(s))
<1>1. /\ Head(s) = s[1] /\ Len(Tail(s)) = Len(s) - 1
      /\ \A i \in 1 .. Len(Tail(s)) : Tail(s)[i] = s[i + 1]
      /\ DOMAIN s = 1 .. Len(s) /\ DOMAIN Tail(s) = 1 .. Len(Tail(s))
      /\ Len(s) \in Nat \ {0}
  OBVIOUS
<1>2. IsInjective(Tail(s))
  BY <1>1 DEF IsInjective
<1>3. Head(s) \notin Range(Tail(s))
  BY <1>1 DEF Range, IsInjective
<1> QED BY <1>2, <1>3, HeadTail

\* SetToSeqs lists each element of a finite set once.
LEMMA Listing ==
  ASSUME NEW S, IsFiniteSet(S), NEW s \in [1 .. Cardinality(S) -> S], IsInjective(s)
  PROVE  s \in Seq(S) /\ Range(s) = S
<1>1. Cardinality(S) \in Nat
  BY FS_CardinalityType
<1>2. IsFiniteSet(1 .. Cardinality(S)) /\ Cardinality(1 .. Cardinality(S)) = Cardinality(S)
  BY <1>1, FS_Interval
<1> QED BY <1>1, <1>2, InjectionOnto

(***************************************************************************)
(* Dense positions                                                         *)
(***************************************************************************)
\* The positions p, one for each id, are 0, 1, 2, ... without repetition.
Dense(p) == Range(p) = 0 .. Cardinality(DOMAIN p) - 1 /\ IsInjective(p)

\* A row behind the last one.
LEMMA DenseAppend ==
  ASSUME NEW p, NEW q, NEW x, Dense(p), IsFiniteSet(DOMAIN p),
         (~ x \in DOMAIN p), DOMAIN q = DOMAIN p \cup {x},
         q[x] = Cardinality(DOMAIN p), \A i \in DOMAIN p : q[i] = p[i]
  PROVE  Dense(q)
<1> DEFINE n == Cardinality(DOMAIN p)
<1>1. n \in Nat /\ Cardinality(DOMAIN q) = n + 1
  BY FS_CardinalityType, FS_AddElement
<1>2. Range(q) = 0 .. n
  BY <1>1 DEF Dense, Range
<1>3. IsInjective(q)
  BY <1>1 DEF Dense, Range, IsInjective
<1> QED BY <1>1, <1>2, <1>3 DEF Dense

\* A row less, and those behind it move up.
LEMMA DenseWithout ==
  ASSUME NEW p, NEW q, NEW x \in DOMAIN p, Dense(p), IsFiniteSet(DOMAIN p),
         DOMAIN q = DOMAIN p \ {x},
         \A i \in DOMAIN q : q[i] = IF p[i] > p[x] THEN p[i] - 1 ELSE p[i]
  PROVE  Dense(q)
<1> DEFINE n == Cardinality(DOMAIN p)
<1>1. n \in Nat /\ Cardinality(DOMAIN q) = n - 1
  BY FS_CardinalityType, FS_RemoveElement
<1>2. \A i \in DOMAIN p : p[i] \in 0 .. n - 1
  BY DEF Dense, Range
<1>3. \A k \in 0 .. n - 1 : \E i \in DOMAIN p : p[i] = k
  BY DEF Dense, Range
<1>4. \A i, j \in DOMAIN p : p[i] = p[j] => i = j
  BY DEF Dense, IsInjective
<1>5. \A i \in DOMAIN q : i \in DOMAIN p /\ p[i] # p[x]
  BY <1>4
<1>6. \A i \in DOMAIN q : q[i] \in 0 .. n - 2
  BY <1>1, <1>2, <1>5
<1>7. ASSUME NEW k \in 0 .. n - 2 PROVE \E i \in DOMAIN q : q[i] = k
  <2>1. CASE k < p[x]
    BY <1>1, <1>2, <1>3, <2>1
  <2>2. CASE ~ (k < p[x])
    <3>1. PICK i \in DOMAIN p : p[i] = k + 1
      BY <1>1, <1>3
    <3> QED BY <1>1, <1>2, <2>2, <3>1
  <2> QED BY <2>1, <2>2
<1>8. Range(q) = 0 .. n - 2
  BY <1>6, <1>7 DEF Range
<1>9. IsInjective(q)
  BY <1>1, <1>2, <1>4, <1>5 DEF IsInjective
<1> QED BY <1>1, <1>8, <1>9 DEF Dense

\* Two rows change places.
LEMMA DenseSwap ==
  ASSUME NEW p, NEW q, NEW x \in DOMAIN p, NEW y \in DOMAIN p, Dense(p),
         DOMAIN q = DOMAIN p, q[x] = p[y], q[y] = p[x],
         \A i \in DOMAIN p \ {x, y} : q[i] = p[i]
  PROVE  Dense(q)
<1>1. Range(q) = Range(p)
  BY DEF Range
<1>2. IsInjective(q)
  BY DEF Dense, IsInjective
<1> QED BY <1>1, <1>2 DEF Dense

\* A renumbering.
LEMMA DenseRanks ==
  ASSUME NEW p, NEW q \in Ranks(p), IsFiniteSet(DOMAIN p)
  PROVE  Dense(q) /\ DOMAIN q = DOMAIN p
<1> DEFINE n == Cardinality(DOMAIN p)
<1>1. n \in Nat
  BY FS_CardinalityType
<1>2. IsFiniteSet(0 .. n - 1) /\ Cardinality(0 .. n - 1) = n
  BY <1>1, FS_Interval
<1>3. q \in [DOMAIN p -> 0 .. n - 1] /\ IsInjective(q)
  BY DEF Ranks
<1>4. Range(q) = 0 .. n - 1
  BY <1>2, <1>3, InjectionOnto
<1> QED BY <1>3, <1>4 DEF Dense

(***************************************************************************)
(* The table                                                               *)
(***************************************************************************)
\* A table t of rows with distinct keys and ids below n.
Rows(t, n) ==
  /\ n \in Nat \ {0}
  /\ DOMAIN t \subseteq 1 .. n - 1
  /\ t = [i \in DOMAIN t |-> t[i]]
  /\ \A i \in DOMAIN t : t[i] \in Row
  /\ \A i, j \in DOMAIN t : t[i].key = t[j].key => i = j

Table == Rows(items, nextId)

\* The positions of the rows of t.
Order(t) == [i \in DOMAIN t |-> t[i].pos]

LEMMA DenseOrder ==
  PositionsDense <=> raced \/ Dense(Order(items))
  BY DEF PositionsDense, Dense, Order, Range, IsInjective, Positions

LEMMA RowsFinite ==
  ASSUME NEW t, NEW n, Rows(t, n)
  PROVE  IsFiniteSet(DOMAIN t)
<1>1. n - 1 \in Int /\ 1 \in Int
  BY DEF Rows
<1>2. IsFiniteSet(1 .. n - 1)
  BY <1>1, FS_Interval
<1> QED BY <1>2, FS_Subset DEF Rows

\* The next position of a table t.
Behind(t) == IF t = <<>> THEN 0 ELSE 1 + CHOOSE p \in Positions(t) : \A q \in Positions(t) : q <= p

LEMMA NextPosIsBehind == NextPos = Behind(items)
  BY DEF NextPos, Behind

LEMMA NoRows ==
  ASSUME NEW t, NEW n, Rows(t, n)
  PROVE  t = <<>> <=> DOMAIN t = {}
<1>1. DOMAIN (<<>>) = {} /\ <<>> = [i \in {} |-> t[i]]
  OBVIOUS
<1> QED BY <1>1 DEF Rows

\* It is behind every row, and no number before it is.
LEMMA BehindAll ==
  ASSUME NEW t, NEW n, Rows(t, n)
  PROVE  /\ Behind(t) \in Nat
         /\ \A i \in DOMAIN t : t[i].pos \in Nat /\ t[i].pos < Behind(t)
         /\ \A m \in Nat : (\A i \in DOMAIN t : t[i].pos < m) => Behind(t) <= m
<1>1. \A i \in DOMAIN t : t[i].pos \in Nat
  BY DEF Rows, Row
<1>2. CASE DOMAIN t = {}
  BY <1>2, NoRows DEF Behind
<1>3. CASE DOMAIN t # {}
  <2> DEFINE P == Positions(t)
             Pick == CHOOSE p \in P : \A q \in P : q <= p
  <2>1. P \subseteq Nat /\ P # {}
    BY <1>1, <1>3 DEF Positions
  <2>2. IsFiniteSet(P)
    <3>1. Order(t) \in Surjection(DOMAIN t, P)
      BY DEF Surjection, Order, Positions
    <3> QED BY <3>1, RowsFinite, FS_Surjection
  <2>3. \E p \in P : \A q \in P : q <= p
    BY <2>1, <2>2, GreatestNumber
  <2>4. Pick \in P /\ \A q \in P : q <= Pick
    BY <2>3
  <2>5. Behind(t) = 1 + Pick
    BY <1>3, NoRows DEF Behind
  <2>6. PICK i \in DOMAIN t : Pick = t[i].pos
    BY <2>4 DEF Positions
  <2> HIDE DEF Pick
  <2>7. \A j \in DOMAIN t : t[j].pos \in P
    BY DEF Positions
  <2> QED BY <1>1, <2>1, <2>4, <2>5, <2>6, <2>7
<1> QED BY <1>2, <1>3

LEMMA NextPosBehind ==
  ASSUME Table
  PROVE  /\ NextPos \in Nat
         /\ \A i \in DOMAIN items : items[i].pos \in Nat /\ items[i].pos < NextPos
         /\ \A m \in Nat : (\A i \in DOMAIN items : items[i].pos < m) => NextPos <= m
  BY BehindAll, NextPosIsBehind DEF Table

\* In a dense order it is the number of the rows.
LEMMA NextPosDense ==
  ASSUME Table, Dense(Order(items))
  PROVE  NextPos = Cardinality(DOMAIN items)
<1> DEFINE n == Cardinality(DOMAIN items)
<1>1. n \in Nat
  BY RowsFinite, FS_CardinalityType DEF Table
<1>2. \A i \in DOMAIN items : items[i].pos \in 0 .. n - 1
  BY DEF Dense, Order, Range
<1>3. \A k \in 0 .. n - 1 : \E i \in DOMAIN items : items[i].pos = k
  BY DEF Dense, Order, Range
<1>4. NextPos <= n
  BY <1>1, <1>2, NextPosBehind
<1>5. n <= NextPos
  <2>1. CASE n = 0
    BY <2>1, NextPosBehind
  <2>2. CASE n # 0
    <3>1. PICK i \in DOMAIN items : items[i].pos = n - 1
      BY <1>1, <1>3, <2>2
    <3> QED BY <1>1, <3>1, NextPosBehind
  <2> QED BY <2>1, <2>2
<1> QED BY <1>1, <1>4, <1>5, NextPosBehind

\* A table with the same rows in the same places; what may differ is where
\* their files are, and whether they are available.
SamePlaces(t) ==
  /\ t = [i \in DOMAIN items |-> t[i]]
  /\ \A i \in DOMAIN items :
        t[i] \in Row /\ t[i].pos = items[i].pos /\ t[i].key = items[i].key
                     /\ t[i].kind = items[i].kind /\ t[i].synced = items[i].synced

LEMMA SamePlacesKeep ==
  ASSUME Table, NEW t, SamePlaces(t)
  PROVE  Rows(t, nextId) /\ Order(t) = Order(items)
<1>1. DOMAIN t = DOMAIN items
  BY DEF SamePlaces
<1>2. Rows(t, nextId)
  BY <1>1 DEF SamePlaces, Table, Rows
<1>3. Order(t) = Order(items)
  BY <1>1 DEF SamePlaces, Order
<1> QED BY <1>2, <1>3

LEMMA AvailableKeeps ==
  ASSUME Table, NEW S
  PROVE  SamePlaces(items) /\ SamePlaces(Available(S)) /\ SamePlaces(Unavailable(S))
<1>1. \A i \in DOMAIN items : items[i] \in Row
  BY DEF Table, Rows
<1>2. SamePlaces(items)
  BY <1>1 DEF SamePlaces, Table, Rows
<1>3. SamePlaces(Available(S))
  BY <1>1 DEF SamePlaces, Available, Row
<1>4. SamePlaces(Unavailable(S))
  BY <1>1 DEF SamePlaces, Unavailable, Row
<1> QED BY <1>2, <1>3, <1>4

LEMMA LocatedKeeps ==
  ASSUME Table, NEW i, NEW f \in Files
  PROVE  SamePlaces(Located(i, f))
<1>1. \A j \in DOMAIN items : items[j] \in Row
  BY DEF Table, Rows
<1> QED BY <1>1 DEF SamePlaces, Located, Row, Paths

\* An insertion: the row is there, or it comes at the position p.
LEMMA InsertKeeps ==
  ASSUME Table, NEW k \in Keys, NEW kind \in Kinds, NEW path \in Paths,
         NEW synced \in BOOLEAN, NEW p \in Nat, Insert(k, kind, path, synced, p)
  PROVE  Table' /\ (PositionsDense => PositionsDense')
<1>1. CASE WithKey(k) # {}
  <2>1. UNCHANGED <<items, nextId, raced>>
    BY <1>1 DEF Insert
  <2> QED BY <2>1 DEF Table, Rows, PositionsDense, Positions
<1>2. CASE WithKey(k) = {}
  <2> DEFINE r == [pos |-> p, key |-> k, kind |-> kind, ok |-> TRUE, path |-> path, synced |-> synced]
  <2>1. /\ items' = [i \in DOMAIN items \cup {nextId} |-> IF i = nextId THEN r ELSE items[i]]
        /\ nextId' = nextId + 1
        /\ raced' = (raced \/ p # NextPos)
    BY <1>2 DEF Insert
  <2>2. r \in Row /\ r.pos = p /\ r.key = k
    BY DEF Row
  <2> HIDE DEF r
  <2>3. nextId \in Nat \ {0} /\ (~ nextId \in DOMAIN items)
    BY DEF Table, Rows
  <2>4. DOMAIN items' = DOMAIN items \cup {nextId} /\ items'[nextId] = r
        /\ \A i \in DOMAIN items : items'[i] = items[i]
    BY <2>1, <2>3
  <2>5. \A i \in DOMAIN items : items[i].key # k
    BY <1>2 DEF WithKey
  <2>6. Table'
    <3>1. items' = [i \in DOMAIN items' |-> items'[i]]
      BY <2>1
    <3>2. DOMAIN items' \subseteq 1 .. nextId' - 1
      BY <2>1, <2>3, <2>4 DEF Table, Rows
    <3>3. \A i \in DOMAIN items' : items'[i] \in Row
      BY <2>2, <2>4 DEF Table, Rows
    <3>4. \A i, j \in DOMAIN items' : items'[i].key = items'[j].key => i = j
      BY <2>2, <2>4, <2>5 DEF Table, Rows
    <3>5. nextId' \in Nat \ {0}
      BY <2>1, <2>3
    <3>6. Rows(items', nextId')
      BY <3>1, <3>2, <3>3, <3>4, <3>5, Zenon DEF Rows
    <3> QED BY <3>6 DEF Table
  <2>7. ASSUME Dense(Order(items)), p = NextPos PROVE Dense(Order(items'))
    <3>1. DOMAIN Order(items) = DOMAIN items /\ DOMAIN Order(items') = DOMAIN items'
          /\ Order(items')[nextId] = p
          /\ \A i \in DOMAIN items : Order(items')[i] = Order(items)[i]
      BY <2>2, <2>4 DEF Order
    <3>2. IsFiniteSet(DOMAIN items) /\ p = Cardinality(DOMAIN items)
      BY <2>7, NextPosDense, RowsFinite DEF Table
    <3> QED BY <2>3, <2>4, <2>7, <3>1, <3>2, DenseAppend
  <2>8. PositionsDense => PositionsDense'
    <3>1. (raced \/ Dense(Order(items))) => (raced' \/ Dense(Order(items')))
      BY <2>1, <2>7
    <3>2. PositionsDense' <=> raced' \/ Dense(Order(items'))
      BY DEF PositionsDense, Dense, Order, Range, IsInjective, Positions
    <3> QED BY <3>1, <3>2, DenseOrder
  <2> QED BY <2>6, <2>8
<1> QED BY <1>1, <1>2

\* The operations of the library page.
LEMMA ReorderKeeps ==
  ASSUME Table, Reorder
  PROVE  Table' /\ PositionsDense'
<1>1. PICK S \in SUBSET DOMAIN items, page \in Pages : \E order \in SetToSeqs(S) :
         \E r \in Ranks(Reordered(order, page)) : items' = Placed(r)
  BY DEF Reorder
<1>2. PICK order \in SetToSeqs(S) : \E r \in Ranks(Reordered(order, page)) : items' = Placed(r)
  BY <1>1
<1> DEFINE p == Reordered(order, page)
<1>3. PICK r \in Ranks(p) : items' = Placed(r)
  BY <1>2
<1>4. DOMAIN p = DOMAIN items
  BY DEF Reordered
<1> HIDE DEF p
<1>5. IsFiniteSet(DOMAIN items)
  BY RowsFinite DEF Table
<1>6. Dense(r) /\ DOMAIN r = DOMAIN items /\ r \in [DOMAIN items -> 0 .. Cardinality(DOMAIN items) - 1]
  BY <1>3, <1>4, <1>5, DenseRanks DEF Ranks
<1>7. Cardinality(DOMAIN items) \in Nat
  BY <1>5, FS_CardinalityType
<1>8. DOMAIN items' = DOMAIN items /\ nextId' = nextId
      /\ \A i \in DOMAIN items : items'[i] = [items[i] EXCEPT !.pos = r[i]]
  BY <1>3 DEF Placed, Reorder
<1>9. \A i \in DOMAIN items : items[i] \in Row /\ r[i] \in Nat
  BY <1>6, <1>7 DEF Table, Rows
<1>10. \A i \in DOMAIN items : items'[i] \in Row /\ items'[i].pos = r[i] /\ items'[i].key = items[i].key
  BY <1>8, <1>9 DEF Row
<1>11. Table'
  <2>1. items' = [i \in DOMAIN items' |-> items'[i]]
    BY <1>3 DEF Placed
  <2> QED BY <1>8, <1>10, <2>1 DEF Table, Rows
<1>12. Order(items') = r
  BY <1>6, <1>8, <1>10 DEF Order
<1>13. PositionsDense' <=> raced' \/ Dense(Order(items'))
  BY DEF PositionsDense, Dense, Order, Range, IsInjective, Positions
<1> QED BY <1>6, <1>11, <1>12, <1>13

LEMMA MoveKeeps ==
  ASSUME Table, Move
  PROVE  Table' /\ (PositionsDense => PositionsDense')
<1>1. PICK i, j \in DOMAIN items :
         /\ items[j].pos = items[i].pos + 1
         /\ items' = [items EXCEPT ![i].pos = items[j].pos, ![j].pos = items[i].pos]
  BY DEF Move
<1>2. \A k \in DOMAIN items : items[k] \in Row
  BY DEF Table, Rows
<1>3. items[i].pos \in Nat /\ i # j
  BY <1>1, <1>2 DEF Row
<1>4. /\ DOMAIN items' = DOMAIN items
      /\ items'[i] = [items[i] EXCEPT !.pos = items[j].pos]
      /\ items'[j] = [items[j] EXCEPT !.pos = items[i].pos]
      /\ \A k \in DOMAIN items \ {i, j} : items'[k] = items[k]
  BY <1>1, <1>3
<1>5. items'[i].pos = items[j].pos /\ items'[j].pos = items[i].pos
  BY <1>2, <1>4 DEF Row
<1>6. \A k \in DOMAIN items : items'[k] \in Row /\ items'[k].key = items[k].key
  BY <1>2, <1>4 DEF Row
<1>7. nextId' = nextId /\ raced' = raced
  BY DEF Move
<1>8. Table'
  <2>1. items' = [k \in DOMAIN items' |-> items'[k]]
    BY <1>1
  <2> QED BY <1>4, <1>6, <1>7, <2>1 DEF Table, Rows
<1>9. Dense(Order(items)) => Dense(Order(items'))
  <2>1. DOMAIN Order(items') = DOMAIN Order(items) /\ DOMAIN Order(items) = DOMAIN items
        /\ Order(items')[i] = Order(items)[j] /\ Order(items')[j] = Order(items)[i]
        /\ \A k \in DOMAIN items \ {i, j} : Order(items')[k] = Order(items)[k]
    BY <1>4, <1>5 DEF Order
  <2> QED BY <2>1, DenseSwap
<1>10. PositionsDense' <=> raced' \/ Dense(Order(items'))
  BY DEF PositionsDense, Dense, Order, Range, IsInjective, Positions
<1> QED BY <1>7, <1>8, <1>9, <1>10, DenseOrder

LEMMA DeleteKeeps ==
  ASSUME Table, PositionsDense, NEW i \in DOMAIN items, items' = Without(i),
         UNCHANGED <<nextId, raced>>
  PROVE  PositionsDense'
<1>1. \A j \in DOMAIN items : items[j] \in Row
  BY DEF Table, Rows
<1>2. DOMAIN items' = DOMAIN items \ {i}
      /\ \A j \in DOMAIN items' :
           items'[j] = IF items[j].pos > items[i].pos THEN [items[j] EXCEPT !.pos = @ - 1] ELSE items[j]
  BY DEF Without
<1>3. \A j \in DOMAIN items' :
        items'[j].pos = IF items[j].pos > items[i].pos THEN items[j].pos - 1 ELSE items[j].pos
  BY <1>1, <1>2 DEF Row
<1>4. Dense(Order(items)) => Dense(Order(items'))
  <2>1. DOMAIN Order(items) = DOMAIN items /\ DOMAIN Order(items') = DOMAIN items \ {i}
        /\ \A j \in DOMAIN Order(items') :
              Order(items')[j] = IF Order(items)[j] > Order(items)[i]
                                 THEN Order(items)[j] - 1 ELSE Order(items)[j]
    BY <1>2, <1>3 DEF Order
  <2> QED BY <2>1, DenseWithout, RowsFinite DEF Table
<1>5. PositionsDense' <=> raced' \/ Dense(Order(items'))
  BY DEF PositionsDense, Dense, Order, Range, IsInjective, Positions
<1> QED BY <1>4, <1>5, DenseOrder

LEMMA DeleteRows ==
  ASSUME Table, NEW i \in DOMAIN items, items' = Without(i), UNCHANGED nextId
  PROVE  Table'
<1>1. \A j \in DOMAIN items : items[j] \in Row
  BY DEF Table, Rows
<1>2. DOMAIN items' = DOMAIN items \ {i}
      /\ \A j \in DOMAIN items' :
           items'[j] = IF items[j].pos > items[i].pos THEN [items[j] EXCEPT !.pos = @ - 1] ELSE items[j]
  BY DEF Without
<1>3. items[i].pos \in Nat
  BY <1>1 DEF Row
<1>4. \A j \in DOMAIN items' : items'[j] \in Row /\ items'[j].key = items[j].key
  BY <1>1, <1>2, <1>3 DEF Row
<1>5. items' = [j \in DOMAIN items' |-> items'[j]]
  BY DEF Without
<1> QED BY <1>2, <1>4, <1>5 DEF Table, Rows

(***************************************************************************)
(* The world and the threads                                               *)
(***************************************************************************)
World ==
  /\ DOMAIN disk \subseteq Files
  /\ \A f \in DOMAIN disk : disk[f] \in [bytes : Bytes, named : BOOLEAN]
  /\ mounted \in BOOLEAN /\ plays \in BOOLEAN /\ raced \in BOOLEAN
  /\ listed \in Seq(Entries) /\ inbox \subseteq Contents

Jobs == (Kinds \X Bytes) \cup {<<"PLAYLIST">>}

\* What each thread has in hand has the shape its next step expects.
Locals ==
  /\ pc \in [Threads -> {"idle", "add", "insert", "materialise", "record",
                         "scan", "scan-restore", "scan-insert", "sync", "sync-insert"}]
  /\ todo = [t \in Threads |-> todo[t]] /\ seen = [t \in Threads |-> seen[t]]
  /\ known = [t \in Threads |-> known[t]]
  /\ slot = [t \in Threads |-> slot[t]] /\ at = [t \in Threads |-> at[t]]
  /\ calm \in [Readers -> BOOLEAN]
  /\ \A t \in Threads : IsFiniteSet(seen[t])

WebWork ==
  /\ pc[Web] \in {"idle", "add", "insert", "materialise", "record"}
  /\ pc[Web] # "idle" => todo[Web] \in Seq(Jobs)
  /\ pc[Web] = "insert" => slot[Web] \in Nat
  /\ pc[Web] = "record" => slot[Web] \in Files

InHand(t) ==
  /\ pc[t] \in {"idle", "scan", "scan-restore", "scan-insert", "sync", "sync-insert"}
  /\ pc[t] \in {"sync", "sync-insert"} => t = Run /\ todo[t] \in Seq(Entries)
  /\ pc[t] \in {"scan", "scan-restore", "scan-insert"} => todo[t] \in Seq(Files)
  /\ pc[t] \in {"scan-insert", "sync-insert"} => slot[t] \in Nat /\ todo[t] # <<>>
  /\ pc[t] = "scan-insert" => at[t] \in Keys

ReaderWork == \A t \in Readers : InHand(t)

Work == Locals /\ WebWork /\ ReaderWork

LEMMA ThreadsDiffer ==
  /\ Web \in Threads /\ Run \in Threads /\ Readers \subseteq Threads
  /\ Run \in Readers /\ (~ Web \in Readers)
  /\ Threads = {Web} \cup Readers
  BY DEF Web, Pool, Run, Threads, Readers

LEMMA JobFacts ==
  /\ \A j \in Jobs : j[1] \in Kinds => j[2] \in Bytes /\ Key(j[2]) \in Keys
  /\ \A e \in Entries : e \in Bytes /\ Key(e) \in Keys
<1>1. <<"PLAYLIST">>[1] = "PLAYLIST" /\ (~ "PLAYLIST" \in Kinds)
  BY DEF Kinds
<1>2. \A j \in Kinds \X Bytes : j[2] \in Bytes
  OBVIOUS
<1>3. \A b \in Bytes : Key(b) \in Keys
  BY DEF Key, Keys
<1> QED BY <1>1, <1>2, <1>3 DEF Jobs, Bytes

\* What a reference resolves to is work of the known kinds.
LEMMA ReferencesAreJobs ==
  ASSUME listed \in Seq(Entries)
  PROVE  /\ \A e \in Entries : Linked(e) \in Seq(Jobs)
         /\ \A c \in Contents : Uploaded(c) \in Seq(Jobs)
         /\ Feed \in Seq(Jobs) /\ Playlist \in Seq(Jobs)
<1>1. /\ DOMAIN listed = 1 .. Len(listed) /\ Len(listed) \in Nat
      /\ \A n \in 1 .. Len(listed) : listed[n] \in Bytes
  BY DEF Bytes
<1>2. \A b \in Bytes : <<"LINK", b>> \in Jobs /\ <<"UPLOAD", b>> \in Jobs /\ <<"PLAYLIST_ENTRY", b>> \in Jobs
  BY DEF Jobs, Kinds
<1>3. \A f : f \in [1 .. Len(listed) -> Jobs] => f \in Seq(Jobs)
  BY <1>1
<1>4. Feed \in Seq(Jobs)
  <2>1. \A n \in 1 .. Len(listed) : <<"LINK", listed[n]>> \in Jobs
    BY <1>1, <1>2
  <2> QED BY <1>1, <1>3, <2>1 DEF Feed
<1>5. [n \in DOMAIN listed |-> <<"PLAYLIST_ENTRY", listed[n]>>] \in Seq(Jobs)
  <2>1. \A n \in 1 .. Len(listed) : <<"PLAYLIST_ENTRY", listed[n]>> \in Jobs
    BY <1>1, <1>2
  <2> QED BY <1>1, <1>3, <2>1
<1>6. \A j \in Jobs : <<j>> \in Seq(Jobs)
  OBVIOUS
<1>7. << <<"PLAYLIST">> >> \in Seq(Jobs) /\ <<>> \in Seq(Jobs)
  BY DEF Jobs
<1>8. Playlist \in Seq(Jobs)
  <2> DEFINE entries == [n \in DOMAIN listed |-> <<"PLAYLIST_ENTRY", listed[n]>>]
             mark == << <<"PLAYLIST">> >>
  <2>1. Playlist = IF listed = <<>> THEN <<>> ELSE entries \o mark
    BY DEF Playlist
  <2>2. entries \in Seq(Jobs) /\ mark \in Seq(Jobs)
    BY <1>5, <1>7
  <2> HIDE DEF entries, mark
  <2>3. entries \o mark \in Seq(Jobs)
    BY <2>2
  <2> QED BY <1>7, <2>1, <2>3
<1>9. \A e \in Entries : Linked(e) \in Seq(Jobs)
  <2>1. ASSUME NEW e \in Entries PROVE Linked(e) \in Seq(Jobs)
    <3>1. <<"LINK", e>> \in Jobs
      BY <1>2 DEF Bytes
    <3> QED BY <1>6, <3>1 DEF Linked
  <2> QED BY <2>1
<1>10. \A c \in Contents : Uploaded(c) \in Seq(Jobs)
  <2>1. ASSUME NEW c \in Contents PROVE Uploaded(c) \in Seq(Jobs)
    <3>1. <<"UPLOAD", c>> \in Jobs
      BY <1>2 DEF Bytes
    <3> QED BY <1>6, <3>1 DEF Uploaded
  <2> QED BY <2>1
<1> QED BY <1>4, <1>8, <1>9, <1>10

\* Of the files found, the first.
LEMMA FirstIsOne ==
  ASSUME NEW S, S \subseteq Files, S # {}
  PROVE  First(S) \in S
<1>1. S \subseteq Nat
  BY FilesAssumption
<1>2. \E x \in S : \A y \in S : x <= y
  BY <1>1, LeastNumber
<1> QED BY <1>2 DEF First

\* There is a free key of its own for a second file: one more number than there
\* are rows and keys seen.
LEMMA FreshTwinIsFree ==
  ASSUME Table, NEW t \in Threads, IsFiniteSet(seen[t]), NEW b \in Bytes
  PROVE  /\ FreshTwin(t, b) \in Keys
         /\ WithKey(FreshTwin(t, b)) = {} /\ (~ FreshTwin(t, b) \in seen[t])
<1> DEFINE N == Cardinality(DOMAIN items) + Cardinality(seen[t]) + 1
           Taken(n) == WithKey(Twin(b, n)) # {} \/ Twin(b, n) \in seen[t]
           Free(n) == ~ Taken(n) /\ \A m \in 1 .. n - 1 : Taken(m)
           held == [i \in DOMAIN items |-> items[i].key]
           T == Range(held) \cup seen[t]
           F == {n \in 1 .. N : ~ Taken(n)}
<1>1. IsFiniteSet(DOMAIN items)
  BY RowsFinite DEF Table
<1>2. IsFiniteSet(Range(held)) /\ Cardinality(Range(held)) <= Cardinality(DOMAIN items)
      /\ Cardinality(Range(held)) \in Nat /\ Cardinality(DOMAIN items) \in Nat
  <2>1. held \in Surjection(DOMAIN items, Range(held))
    BY DEF Surjection, Range
  <2> HIDE DEF held
  <2> QED BY <1>1, <2>1, FS_Surjection, FS_CardinalityType
<1> HIDE DEF held
<1>3. Cardinality(seen[t]) \in Nat
  BY FS_CardinalityType
<1>4. IsFiniteSet(T) /\ Cardinality(T) < N /\ N \in Nat
  <2>1. /\ IsFiniteSet(T)
        /\ Cardinality(T) = Cardinality(Range(held)) + Cardinality(seen[t]) - Cardinality(Range(held) \cap seen[t])
    BY <1>2, FS_Union
  <2>2. Cardinality(Range(held) \cap seen[t]) \in Nat
    BY <1>2, FS_Subset, FS_CardinalityType
  <2>3. Cardinality(T) \in Nat
    BY <2>1, FS_CardinalityType
  <2> QED BY <1>2, <1>3, <2>1, <2>2, <2>3
<1>5. \A n \in 1 .. N : Taken(n) <=> Twin(b, n) \in T
  BY DEF WithKey, Range, held
<1>6. F # {}
  <2>1. SUFFICES ASSUME \A n \in 1 .. N : Twin(b, n) \in T PROVE FALSE
    BY <1>5
  <2> DEFINE tw == [n \in 1 .. N |-> Twin(b, n)]
  <2>2. tw \in [1 .. N -> T]
    BY <2>1
  <2>3. \A m, n \in 1 .. N : tw[m] = tw[n] => m = n
    BY DEF Twin
  <2>4. IsFiniteSet(1 .. N) /\ Cardinality(1 .. N) = N
    BY <1>4, FS_Interval
  <2> HIDE DEF tw, N, T
  <2> QED BY <1>4, <2>2, <2>3, <2>4, FS_PigeonHole
<1>7. PICK n \in F : \A m \in F : n <= m
  <2>1. F \subseteq Nat
    BY <1>4
  <2> QED BY <1>6, <2>1, LeastNumber
<1>8. n \in 1 .. N /\ Free(n)
  <2>1. \A m \in 1 .. n - 1 : m \in 1 .. N /\ (~ n <= m)
    BY <1>4, <1>7
  <2> QED BY <1>7, <2>1
<1> DEFINE c == CHOOSE x \in 1 .. N : Free(x)
<1>9. c \in 1 .. N /\ Free(c)
  BY <1>8
<1>10. FreshTwin(t, b) = Twin(b, c)
  BY DEF FreshTwin
<1> HIDE DEF c
<1> QED BY <1>4, <1>9, <1>10 DEF Keys, Twin

(***************************************************************************)
(* The steps                                                               *)
(***************************************************************************)
Kept     == SamePlaces(items') /\ UNCHANGED <<nextId, raced>>
Inserted == \E k \in Keys, kind \in Kinds, path \in Paths, synced \in BOOLEAN, p \in Nat :
               /\ Insert(k, kind, path, synced, p)
               /\ synced => kind = "PLAYLIST_ENTRY" /\ k = Key(k[1])
Deleted  == \E i \in DOMAIN items : items' = Without(i) /\ UNCHANGED <<nextId, raced>>

\* A key of what the web server adds next, and of what a run re-resolves.
LEMMA WebHead ==
  ASSUME Work, NEW l, Adding(l), l # "idle"
  PROVE  /\ Head(todo[Web])[1] \in Kinds /\ Head(todo[Web])[2] \in Bytes
         /\ Key(Head(todo[Web])[2]) \in Keys /\ Tail(todo[Web]) \in Seq(Jobs)
<1>1. todo[Web] \in Seq(Jobs) /\ todo[Web] # <<>> /\ Head(todo[Web])[1] \in Kinds
  BY DEF Work, WebWork, Adding
<1>2. Head(todo[Web]) \in Jobs /\ Tail(todo[Web]) \in Seq(Jobs)
  BY <1>1
<1> QED BY <1>1, <1>2, JobFacts

LEMMA RowsChange ==
  ASSUME Table, World, Work, [Next]_vars
  PROVE  Kept \/ Inserted \/ Reorder \/ Move \/ Deleted
<1> USE DEF Kept
<1>1. CASE UNCHANGED <<items, nextId, raced>>
  BY <1>1, AvailableKeeps
<1>2. CASE AddInserts
  <2>1. Adding("insert") /\ slot[Web] \in Nat
    BY <1>2 DEF AddInserts, Adding, Work, WebWork
  <2>2. Insert(Key(Head(todo[Web])[2]), Head(todo[Web])[1], Given(Head(todo[Web])[1]), FALSE, slot[Web])
    BY <1>2 DEF AddInserts
  <2>3. Given(Head(todo[Web])[1]) \in Paths
    BY DEF Given, Paths
  <2> QED BY <2>1, <2>2, <2>3, WebHead DEF Inserted
<1>3. CASE AddRecords
  <2>1. slot[Web] \in Files /\ items' = Located(at[Web], slot[Web]) /\ UNCHANGED <<nextId, raced>>
    BY <1>3 DEF AddRecords, Adding, Work, WebWork
  <2> QED BY <2>1, LocatedKeeps
<1>4. ASSUME NEW t \in Readers, ScanNothing(t) \/ EndScan(t) PROVE Kept
  <2>1. \E S : items' = Unavailable(S) /\ UNCHANGED <<nextId, raced>>
    BY <1>4 DEF ScanNothing, EndScan
  <2> QED BY <2>1, AvailableKeeps
<1>5. ASSUME NEW t \in Readers, ScanKnown(t) PROVE Kept
  <2>1. \/ items' = items /\ UNCHANGED <<nextId, raced>>
        \/ \E S : items' = Available(S) /\ UNCHANGED <<nextId, raced>>
    BY <1>5 DEF ScanKnown
  <2> QED BY <2>1, AvailableKeeps
<1>6. ASSUME NEW t \in Readers, ScanRenames(t) \/ ScanRestores(t) PROVE Kept
  <2>1. CASE ScanRenames(t)
    <3>1. \E f \in Files : \E i : items' = Located(i, f) /\ UNCHANGED <<nextId, raced>>
      BY <2>1 DEF ScanRenames
    <3> QED BY <3>1, LocatedKeeps
  <2>2. CASE ScanRestores(t)
    <3>1. \E S : items' = Available(S) /\ UNCHANGED <<nextId, raced>>
      BY <2>2 DEF ScanRestores
    <3> QED BY <3>1, AvailableKeeps
  <2> QED BY <1>6, <2>1, <2>2
<1>7. ASSUME NEW t \in Readers, ScanInserts(t) PROVE Inserted
  <2>1. Head(todo[t]) \in Files /\ at[t] \in Keys /\ slot[t] \in Nat
    BY <1>7 DEF ScanInserts, Scanning, Work, ReaderWork, InHand
  <2>2. Insert(at[t], "FOLDER_FILE", Head(todo[t]), FALSE, slot[t])
    BY <1>7 DEF ScanInserts
  <2> QED BY <2>1, <2>2 DEF Inserted, Kinds, Paths
<1>8. CASE SyncKnown
  <2>1. \E S : items' = Available(S) /\ UNCHANGED <<nextId, raced>>
    BY <1>8 DEF SyncKnown
  <2> QED BY <2>1, AvailableKeeps
<1>9. CASE SyncInserts
  <2>1. Head(todo[Run]) \in Entries /\ slot[Run] \in Nat
    BY <1>9, ThreadsDiffer DEF SyncInserts, Syncing, Work, ReaderWork, InHand
  <2>2. Insert(Key(Head(todo[Run])), "PLAYLIST_ENTRY", NoFile, TRUE, slot[Run])
    BY <1>9 DEF SyncInserts
  <2>3. Key(Head(todo[Run])) \in Keys /\ Key(Head(todo[Run])) = Key(Key(Head(todo[Run]))[1])
    BY <2>1, JobFacts DEF Key
  <2> QED BY <2>1, <2>2, <2>3 DEF Inserted, Kinds, Paths
<1>10. CASE EndSync
  <2>1. \E S : items' = Unavailable(S) /\ UNCHANGED <<nextId, raced>>
    BY <1>10 DEF EndSync
  <2> QED BY <2>1, AvailableKeeps
<1>11. CASE Page
  BY <1>11 DEF Page, Delete, Deleted
<1>12. CASE UNCHANGED vars
  BY <1>1, <1>12 DEF vars, store
<1>13. CASE Add
  BY <1>1, <1>2, <1>3, <1>13
     DEF Add, StartAdd, AddReads, AddFinds, AddAdopts, AddFails, EndAdd, store
<1>14. CASE Scan
  <2>1. ASSUME NEW t \in Readers, StartScan(t) \/ ScanSkips(t) \/ ScanNew(t)
        PROVE  UNCHANGED <<items, nextId, raced>>
    BY <2>1 DEF StartScan, ScanSkips, ScanNew, store
  <2> QED BY <1>1, <1>4, <1>5, <1>6, <1>7, <1>14, <2>1 DEF Scan
<1>15. CASE Sync
  BY <1>1, <1>8, <1>9, <1>10, <1>15 DEF Sync, StartSync, SyncNew, store
<1>16. CASE Outside \/ Crash
  BY <1>1, <1>16 DEF Outside, Crash, store
<1> QED BY <1>11, <1>12, <1>13, <1>14, <1>15, <1>16 DEF Next

LEMMA TableStep ==
  ASSUME Table, World, Work, [Next]_vars
  PROVE  Table' /\ (PositionsDense => PositionsDense')
<1>1. CASE Kept
  <2>1. Rows(items', nextId) /\ Order(items') = Order(items) /\ UNCHANGED <<nextId, raced>>
    BY <1>1, SamePlacesKeep DEF Kept
  <2>2. PositionsDense' <=> raced' \/ Dense(Order(items'))
    BY DEF PositionsDense, Dense, Order, Range, IsInjective, Positions
  <2>3. Table'
    BY <2>1 DEF Table
  <2> QED BY <2>1, <2>2, <2>3, DenseOrder
<1>2. CASE Inserted
  BY <1>2, InsertKeeps DEF Inserted
<1>3. CASE Deleted
  BY <1>3, DeleteKeeps, DeleteRows DEF Deleted
<1> QED BY <1>1, <1>2, <1>3, RowsChange, ReorderKeeps, MoveKeeps

LEMMA ListingsAreSequences == Listings \subseteq Seq(Entries)
<1>1. ASSUME NEW n \in 0 .. MaxListed, NEW L \in [1 .. n -> Entries] PROVE L \in Seq(Entries)
  BY BoundsAssumption
<1> QED BY <1>1 DEF Listings

LEMMA WorldStep ==
  ASSUME World, Table, Work, [Next]_vars
  PROVE  World'
<1> USE DEF World
<1>1. CASE UNCHANGED vars
  BY <1>1 DEF vars, store, world
<1>2. CASE Add
  <2>1. CASE AddAdopts
    <3> DEFINE b == Head(todo[Web])[2]
    <3>1. b \in Bytes
      BY <2>1, WebHead DEF AddAdopts
    <3>2. PICK f \in Adoptable : disk' = [g \in DOMAIN disk \cup {f} |->
                   IF g = f THEN [bytes |-> b, named |-> TRUE] ELSE disk[g]]
      BY <2>1 DEF AddAdopts
    <3>3. f \in Files /\ UNCHANGED <<mounted, listed, plays, raced>> /\ inbox' \subseteq Contents
      BY <2>1 DEF Adoptable, AddAdopts, store
    <3> HIDE DEF b
    <3> QED BY <3>1, <3>2, <3>3
  <2>2. CASE AddInserts
    BY <2>2 DEF AddInserts, world, Insert
  <2> QED BY <1>2, <2>1, <2>2
          DEF Add, StartAdd, AddReads, AddFinds, AddFails, AddRecords, EndAdd, store, world
<1>3. CASE Scan
  BY <1>3 DEF Scan, ScanNothing, StartScan, ScanSkips, ScanKnown, ScanRenames, ScanRestores, ScanNew,
              ScanInserts, EndScan, store, world, Insert
<1>4. CASE Sync
  BY <1>4 DEF Sync, StartSync, SyncKnown, SyncNew, SyncInserts, EndSync, store, world, Insert
<1>5. CASE Page
  BY <1>5 DEF Page, Reorder, Move, Delete, Unlink
<1>6. CASE Outside
  <2>1. plays' = plays /\ raced' = raced /\ inbox' = inbox
    BY <1>6 DEF Outside, store
  <2>2. ASSUME NEW f \in Files, NEW c \in Contents, CopyIn(f, c), UNCHANGED <<mounted, listed>>
        PROVE  World'
    BY <2>1, <2>2 DEF CopyIn, Bytes
  <2>3. ASSUME NEW f \in DOMAIN disk, TakeOut(f), UNCHANGED <<mounted, listed>>
        PROVE  World'
    BY <2>1, <2>3 DEF TakeOut
  <2>4. ASSUME NEW f \in DOMAIN disk, NEW g \in Files \ DOMAIN disk, Rename(f, g),
               UNCHANGED <<mounted, listed>>
        PROVE  World'
    BY <2>1, <2>4 DEF Rename
  <2>5. ASSUME mounted' = ~mounted, UNCHANGED <<disk, listed>> PROVE World'
    BY <2>1, <2>5
  <2>6. ASSUME listed' \in Listings, UNCHANGED <<disk, mounted>> PROVE World'
    BY <2>1, <2>6, ListingsAreSequences
  <2> QED BY <1>6, <2>2, <2>3, <2>4, <2>5, <2>6 DEF Outside
<1>7. CASE Crash
  BY <1>7 DEF Crash, store, world
<1> QED BY <1>1, <1>2, <1>3, <1>4, <1>5, <1>6, <1>7 DEF Next

\* A step of the thread t leaves the other threads' hands alone, and a reader
\* it does not disturb sees the same folder, playlist and rows after it.
Others(t) ==
  /\ \A u \in Threads \ {t} :
        /\ pc'[u] = pc[u] /\ todo'[u] = todo[u] /\ seen'[u] = seen[u]
        /\ known'[u] = known[u] /\ slot'[u] = slot[u] /\ at'[u] = at[u]
  /\ t # Run => foreseen' = foreseen
  /\ \A u \in Readers \ {t} : calm'[u] => calm[u] /\ UNCHANGED <<disk, mounted, listed, items>>

LEMMA StepCalm ==
  ASSUME Locals, NEW t \in Threads, Step(t)
  PROVE  /\ calm' \in [Readers -> BOOLEAN]
         /\ \A u \in Readers : calm'[u] => calm[u] /\ pc'[u] # "idle"
         /\ \A u \in Readers \ {t} : calm'[u] => UNCHANGED <<disk, mounted, listed, items>>
<1>1. calm' = [u \in Readers |->
               calm[u] /\ pc'[u] # "idle" /\ (u = t \/ UNCHANGED <<disk, mounted, listed, items>>)]
  BY DEF Step
<1>2. \A u \in Readers : calm[u] \in BOOLEAN
  BY DEF Locals
<1>3. calm' \in [Readers -> BOOLEAN]
  BY <1>1, <1>2
<1>4. \A u \in Readers : calm'[u] = (calm[u] /\ pc'[u] # "idle" /\ (u = t \/ UNCHANGED <<disk, mounted, listed, items>>))
  BY <1>1
<1> QED BY <1>3, <1>4

LEMMA FinishLocal ==
  ASSUME Locals, NEW t \in Threads, Finish(t), Step(t)
  PROVE  Locals' /\ Others(t)
         /\ pc'[t] = "idle"
<1>1. calm' \in [Readers -> BOOLEAN]
      /\ \A u \in Readers \ {t} : calm'[u] => calm[u] /\ UNCHANGED <<disk, mounted, listed, items>>
  BY StepCalm
<1>2. IsFiniteSet({})
  BY FS_EmptySet
<1> QED BY <1>1, <1>2 DEF Locals, Finish, Goto, Others

LEMMA AddLocal ==
  ASSUME Locals, Add
  PROVE  Locals' /\ Others(Web)
<1>1. Web \in Threads /\ Web # Run /\ (~ Web \in Readers)
  BY DEF Web, Run, Pool, Threads, Readers
<1>2. CASE StartAdd
  <2>1. Locals'
    BY <1>1, <1>2 DEF StartAdd, Locals, Goto
  <2> QED BY <1>1, <1>2, <2>1 DEF StartAdd, Others, Locals, Goto, store, world
<1>3. CASE EndAdd
  BY <1>1, <1>3, FinishLocal DEF EndAdd
<1>4. CASE AddReads \/ AddInserts \/ AddFinds \/ AddAdopts \/ AddFails \/ AddRecords
  <2>1. Step(Web)
    BY <1>4 DEF AddReads, AddInserts, AddFinds, AddAdopts, AddFails, AddRecords
  <2>2. calm' \in [Readers -> BOOLEAN]
        /\ \A u \in Readers : calm'[u] => calm[u] /\ UNCHANGED <<disk, mounted, listed, items>>
    BY <1>1, <2>1, StepCalm
  <2>3. Locals'
    BY <1>1, <1>4, <2>2 DEF Locals, AddReads, AddInserts, AddFinds, AddAdopts, AddFails, AddRecords, Goto, Drop
  <2>4. Others(Web)
    BY <1>1, <1>4, <2>2 DEF Locals, Others, AddReads, AddInserts, AddFinds, AddAdopts, AddFails, AddRecords, Goto, Drop
  <2> QED BY <2>3, <2>4
<1> QED BY <1>2, <1>3, <1>4 DEF Add

Scans(t) ==
  \/ ScanNothing(t) \/ StartScan(t) \/ ScanSkips(t) \/ ScanKnown(t) \/ ScanRenames(t)
  \/ ScanRestores(t) \/ ScanNew(t) \/ ScanInserts(t) \/ EndScan(t)

LEMMA SeeLocal ==
  ASSUME Locals, NEW t \in Threads, NEW k, See(t, k)
  PROVE  /\ seen' = [u \in Threads |-> seen'[u]]
         /\ \A u \in Threads : IsFiniteSet(seen'[u])
         /\ \A u \in Threads \ {t} : seen'[u] = seen[u]
         /\ seen'[t] = seen[t] \cup {k}
<1>1. IsFiniteSet(seen[t] \cup {k})
  BY FS_AddElement DEF Locals
<1> QED BY <1>1 DEF Locals, See

LEMMA ScanLocal ==
  ASSUME Locals, NEW t \in Readers, Scans(t)
  PROVE  Locals' /\ Others(t)
<1>1. t \in Threads
  BY ThreadsDiffer
<1>2. CASE StartScan(t)
  <2>1. IsFiniteSet({})
    BY FS_EmptySet
  <2>2. Locals'
    BY <1>1, <1>2, <2>1 DEF StartScan, Locals, Goto
  <2> QED BY <1>1, <1>2, <2>2 DEF StartScan, Others, Locals, Goto, store, world
<1>3. CASE ScanNothing(t) \/ EndScan(t)
  BY <1>1, <1>3, FinishLocal DEF ScanNothing, EndScan
<1>4. CASE ScanSkips(t) \/ ScanNew(t) \/ ScanRestores(t)
  <2>1. Step(t)
    BY <1>4 DEF ScanSkips, ScanNew, ScanRestores
  <2>2. calm' \in [Readers -> BOOLEAN]
        /\ \A u \in Readers \ {t} : calm'[u] => calm[u] /\ UNCHANGED <<disk, mounted, listed, items>>
    BY <1>1, <2>1, StepCalm
  <2>3. Locals'
    BY <1>1, <1>4, <2>2 DEF Locals, ScanSkips, ScanNew, ScanRestores, Goto, Drop
  <2> QED BY <1>1, <1>4, <2>2, <2>3 DEF Locals, Others, ScanSkips, ScanNew, ScanRestores, Goto, Drop
<1>5. CASE ScanKnown(t) \/ ScanRenames(t) \/ ScanInserts(t)
  <2>1. Step(t) /\ \E k : See(t, k)
    BY <1>5 DEF ScanKnown, ScanRenames, ScanInserts
  <2>2. calm' \in [Readers -> BOOLEAN]
        /\ \A u \in Readers \ {t} : calm'[u] => calm[u] /\ UNCHANGED <<disk, mounted, listed, items>>
    BY <1>1, <2>1, StepCalm
  <2>3. /\ seen' = [u \in Threads |-> seen'[u]]
        /\ \A u \in Threads : IsFiniteSet(seen'[u])
        /\ \A u \in Threads \ {t} : seen'[u] = seen[u]
    BY <1>1, <2>1, SeeLocal
  <2>4. Locals'
    BY <1>1, <1>5, <2>2, <2>3 DEF Locals, ScanKnown, ScanRenames, ScanInserts, Goto, Drop
  <2> QED BY <1>1, <1>5, <2>2, <2>3, <2>4 DEF Locals, Others, ScanKnown, ScanRenames, ScanInserts, Goto, Drop
<1> QED BY <1>2, <1>3, <1>4, <1>5 DEF Scans

LEMMA SyncLocal ==
  ASSUME Locals, Sync
  PROVE  Locals' /\ Others(Run)
<1>1. Run \in Threads /\ Run \in Readers
  BY ThreadsDiffer
<1>2. CASE StartSync
  <2>1. IsFiniteSet({})
    BY FS_EmptySet
  <2>2. Locals'
    BY <1>1, <1>2, <2>1 DEF StartSync, Locals, Goto
  <2> QED BY <1>1, <1>2, <2>2 DEF StartSync, Others, Locals, Goto, store, world
<1>3. CASE EndSync
  BY <1>1, <1>3, FinishLocal DEF EndSync
<1>4. CASE SyncKnown \/ SyncNew \/ SyncInserts
  <2>1. Step(Run)
    BY <1>4 DEF SyncKnown, SyncNew, SyncInserts
  <2>2. calm' \in [Readers -> BOOLEAN]
        /\ \A u \in Readers \ {Run} : calm'[u] => calm[u] /\ UNCHANGED <<disk, mounted, listed, items>>
    BY <1>1, <2>1, StepCalm
  <2>3. /\ seen' = [u \in Threads |-> seen'[u]]
        /\ \A u \in Threads : IsFiniteSet(seen'[u])
        /\ \A u \in Threads \ {Run} : seen'[u] = seen[u]
    <3>1. CASE SyncInserts
      BY <3>1 DEF SyncInserts, Locals
    <3>2. CASE SyncKnown \/ SyncNew
      <4>1. \E k : See(Run, k)
        BY <3>2 DEF SyncKnown, SyncNew
      <4> QED BY <1>1, <4>1, SeeLocal
    <3> QED BY <1>4, <3>1, <3>2
  <2>4. Locals'
    BY <1>1, <1>4, <2>2, <2>3 DEF Locals, SyncKnown, SyncNew, SyncInserts, Goto, Drop
  <2> QED BY <1>1, <1>4, <2>2, <2>3, <2>4 DEF Locals, Others, SyncKnown, SyncNew, SyncInserts, Goto, Drop
<1> QED BY <1>2, <1>3, <1>4 DEF Sync

LEMMA RestLocal ==
  ASSUME Locals, Page \/ Outside \/ Crash \/ UNCHANGED vars
  PROVE  Locals' /\ (calm' = calm \/ \A u \in Readers : ~ calm'[u])
<1>1. IsFiniteSet({})
  BY FS_EmptySet
<1>2. CASE UNCHANGED vars
  BY <1>2 DEF vars, local, Locals
<1>3. CASE Page \/ Outside
  BY <1>3 DEF Page, Outside, Disturb, local, Locals
<1>4. CASE Crash
  BY <1>1, <1>4 DEF Crash, Disturb, Locals
<1> QED BY <1>2, <1>3, <1>4

LEMMA WebWorkStep ==
  ASSUME Table, World, Work, [Next]_vars
  PROVE  WebWork'
<1>1. ASSUME NEW t \in Readers, Others(t) PROVE WebWork'
  <2>1. pc'[Web] = pc[Web] /\ todo'[Web] = todo[Web] /\ slot'[Web] = slot[Web]
    BY <1>1, ThreadsDiffer DEF Others
  <2> QED BY <2>1 DEF Work, WebWork
<1>2. CASE Scan \/ Sync
  BY <1>1, <1>2, ScanLocal, SyncLocal, ThreadsDiffer DEF Scan, Scans, Work
<1>3. CASE Add
  <2>1. CASE StartAdd
    <3>1. todo'[Web] \in Seq(Jobs)
      BY <2>1, ReferencesAreJobs, ThreadsDiffer DEF StartAdd, Work, Locals, World
    <3> QED BY <2>1, <3>1, ThreadsDiffer DEF StartAdd, Work, Locals, WebWork, Goto
  <2>2. CASE AddReads
    <3>1. todo'[Web] \in Seq(Jobs) /\ NextPos \in Nat
      BY <2>2, NextPosBehind DEF AddReads, Adding, Work, WebWork
    <3> QED BY <2>2, <3>1, ThreadsDiffer DEF AddReads, Work, Locals, WebWork, Goto
  <2>3. CASE AddInserts
    BY <2>3, ThreadsDiffer DEF AddInserts, Adding, Work, Locals, WebWork, Goto
  <2>4. CASE AddFinds
    <3> DEFINE S == Bracketed(Key(Head(todo[Web])[2]))
    <3>1. S \subseteq Files /\ S # {}
      BY <2>4 DEF AddFinds, Bracketed, Present, World
    <3> HIDE DEF S
    <3>2. First(S) \in Files
      BY <3>1, FirstIsOne
    <3> QED BY <2>4, <3>2, ThreadsDiffer DEF AddFinds, Adding, Work, Locals, WebWork, Goto, S
  <2>5. CASE AddAdopts
    BY <2>5, ThreadsDiffer DEF AddAdopts, Adoptable, Adding, Work, Locals, WebWork, Goto
  <2>6. CASE AddFails \/ AddRecords
    <3>1. Tail(todo[Web]) \in Seq(Jobs)
      BY <2>6, WebHead DEF AddFails, AddRecords
    <3> QED BY <2>6, <3>1, ThreadsDiffer DEF AddFails, AddRecords, Work, Locals, WebWork, Goto, Drop
  <2>7. CASE EndAdd
    BY <2>7, FinishLocal, ThreadsDiffer DEF EndAdd, Work, WebWork
  <2> QED BY <1>3, <2>1, <2>2, <2>3, <2>4, <2>5, <2>6, <2>7 DEF Add
<1>4. CASE Page \/ Outside \/ UNCHANGED vars
  BY <1>4 DEF Page, Outside, vars, local, Work, WebWork
<1>5. CASE Crash
  BY <1>5, ThreadsDiffer DEF Crash, WebWork
<1> QED BY <1>2, <1>3, <1>4, <1>5 DEF Next

LEMMA FolderListed ==
  ASSUME NEW S, S \subseteq Files, NEW s \in NameOrder(S)
  PROVE  s \in Seq(Files) /\ s \in Seq(S) /\ Range(s) = S /\ IsInjective(s)
<1>1. IsFiniteSet(S)
  BY FilesAssumption, FS_Subset
<1>2. Cardinality(S) \in Nat
  BY <1>1, FS_CardinalityType
<1>3. s \in [1 .. Cardinality(S) -> S] /\ IsInjective(s)
  BY DEF NameOrder, SetToSeqs, IsInjective
<1>4. s \in Seq(S) /\ Range(s) = S
  BY <1>1, <1>3, Listing
<1>5. s \in [1 .. Cardinality(S) -> Files]
  BY <1>3
<1>6. s \in Seq(Files)
  BY <1>2, <1>5
<1> QED BY <1>3, <1>4, <1>6

LEMMA ScanReads ==
  ASSUME Table, World, Work, NEW t \in Readers, Scans(t)
  PROVE  InHand(t)'
<1>1. t \in Threads
  BY ThreadsDiffer
<1>2. CASE StartScan(t)
  <2>1. todo'[t] \in Seq(Files)
    BY <1>1, <1>2, FolderListed DEF StartScan, Work, Locals, World
  <2> QED BY <1>1, <1>2, <2>1 DEF StartScan, Work, Locals, Goto, InHand
<1>3. CASE ScanNothing(t) \/ EndScan(t)
  BY <1>1, <1>3, FinishLocal DEF ScanNothing, EndScan, Work, InHand
<1>4. CASE ScanSkips(t) \/ ScanKnown(t) \/ ScanRestores(t)
  <2>1. pc[t] \in {"scan", "scan-restore"} /\ todo[t] # <<>> /\ todo[t] \in Seq(Files)
    BY <1>4 DEF ScanSkips, ScanKnown, ScanRestores, Reads, Scanning, Work, ReaderWork, InHand
  <2>2. Tail(todo[t]) \in Seq(Files)
    BY <2>1
  <2>3. pc'[t] = "scan" /\ todo'[t] = Tail(todo[t])
    BY <1>1, <1>4, <2>1
       DEF ScanSkips, ScanKnown, ScanRestores, Reads, Scanning, Drop, Goto, Work, Locals
  <2> QED BY <2>2, <2>3 DEF InHand
<1>7. CASE ScanRenames(t)
  <2>1. pc[t] = "scan" /\ todo[t] # <<>> /\ todo[t] \in Seq(Files)
    BY <1>7 DEF ScanRenames, Reads, Scanning, Work, ReaderWork, InHand
  <2>2. Tail(todo[t]) \in Seq(Files)
    BY <2>1
  <2>3. \/ pc'[t] = "scan" /\ todo'[t] = Tail(todo[t])
        \/ pc'[t] = "scan-restore" /\ todo'[t] = todo[t]
    BY <1>1, <1>7, <2>1 DEF ScanRenames, Drop, Goto, Work, Locals
  <2> QED BY <2>1, <2>2, <2>3 DEF InHand
<1>5. CASE ScanNew(t)
  <2>1. PICK f \in Files :
          /\ Reads(t, f)
          /\ \/ at' = [at EXCEPT ![t] = Key(disk[f].bytes)]
             \/ at' = [at EXCEPT ![t] = FreshTwin(t, disk[f].bytes)]
    BY <1>5 DEF ScanNew
  <2>2. disk[f].bytes \in Bytes
    BY <2>1 DEF Reads, Present, World
  <2>3. Key(disk[f].bytes) \in Keys /\ FreshTwin(t, disk[f].bytes) \in Keys
    BY <1>1, <2>2, FreshTwinIsFree DEF Key, Keys, Work, Locals
  <2>4. at'[t] \in Keys
    BY <1>1, <2>1, <2>3 DEF Work, Locals
  <2>5. todo'[t] = todo[t] /\ todo[t] \in Seq(Files) /\ todo[t] # <<>>
    BY <1>5, <2>1 DEF ScanNew, Reads, Scanning, Work, ReaderWork, InHand
  <2>6. slot'[t] \in Nat /\ pc'[t] = "scan-insert"
    BY <1>1, <1>5, NextPosBehind DEF ScanNew, Goto, Work, Locals
  <2> QED BY <2>4, <2>5, <2>6 DEF InHand
<1>6. CASE ScanInserts(t)
  <2>1. todo[t] \in Seq(Files) /\ todo[t] # <<>>
    BY <1>6 DEF ScanInserts, Scanning, Work, ReaderWork, InHand
  <2>2. Tail(todo[t]) \in Seq(Files)
    BY <2>1
  <2>3. pc'[t] = "scan" /\ todo'[t] = Tail(todo[t])
    BY <1>1, <1>6 DEF ScanInserts, Drop, Goto, Work, Locals
  <2> QED BY <2>2, <2>3 DEF InHand
<1> QED BY <1>2, <1>3, <1>4, <1>5, <1>6, <1>7 DEF Scans

LEMMA SyncReads ==
  ASSUME Table, World, Work, Sync
  PROVE  InHand(Run)'
<1>1. Run \in Threads /\ Run \in Readers
  BY ThreadsDiffer
<1>2. CASE StartSync
  BY <1>1, <1>2 DEF StartSync, World, Work, Locals, Goto, InHand
<1>3. CASE EndSync
  BY <1>1, <1>3, FinishLocal DEF EndSync, Work, InHand
<1>4. CASE SyncNew
  <2>1. todo[Run] \in Seq(Entries) /\ todo[Run] # <<>> /\ todo' = todo
    BY <1>1, <1>4 DEF SyncNew, Syncing, Work, ReaderWork, InHand
  <2>2. NextPos \in Nat
    BY NextPosBehind
  <2> QED BY <1>1, <1>4, <2>1, <2>2 DEF SyncNew, Goto, Work, Locals, InHand
<1>5. CASE SyncKnown \/ SyncInserts
  <2>1. todo[Run] \in Seq(Entries) /\ todo[Run] # <<>>
    BY <1>1, <1>5 DEF SyncKnown, SyncInserts, Syncing, Work, ReaderWork, InHand
  <2>2. Tail(todo[Run]) \in Seq(Entries)
    BY <2>1
  <2>3. pc'[Run] = "sync" /\ todo'[Run] = Tail(todo[Run])
    BY <1>1, <1>5 DEF SyncKnown, SyncInserts, Syncing, Drop, Goto, Work, Locals
  <2> QED BY <2>2, <2>3 DEF InHand
<1> QED BY <1>2, <1>3, <1>4, <1>5 DEF Sync

LEMMA WorkStep ==
  ASSUME Table, World, Work, [Next]_vars
  PROVE  Work'
<1>1. Locals'
  BY AddLocal, ScanLocal, SyncLocal, RestLocal DEF Next, Scan, Scans, Work
<1>2. ASSUME NEW u \in Readers PROVE InHand(u)'
  <2>1. InHand(u) /\ u \in Threads /\ u # Web
    BY ThreadsDiffer DEF Work, ReaderWork
  <2>2. ASSUME NEW t \in Threads \ {u}, Others(t) PROVE InHand(u)'
    <3>1. pc'[u] = pc[u] /\ todo'[u] = todo[u] /\ slot'[u] = slot[u] /\ at'[u] = at[u]
      BY <2>1, <2>2 DEF Others
    <3> QED BY <2>1, <3>1 DEF InHand
  <2>3. CASE Add
    BY <2>1, <2>2, <2>3, AddLocal, ThreadsDiffer DEF Work
  <2>4. ASSUME NEW t \in Readers, Scans(t) PROVE InHand(u)'
    <3>1. CASE t = u
      BY <2>4, <3>1, ScanReads
    <3>2. CASE t # u
      BY <2>2, <2>4, <3>2, ScanLocal, ThreadsDiffer DEF Work
    <3> QED BY <3>1, <3>2
  <2>5. CASE Sync
    <3>1. CASE u = Run
      BY <2>5, <3>1, SyncReads
    <3>2. CASE u # Run
      BY <2>2, <2>5, <3>2, SyncLocal, ThreadsDiffer DEF Work
    <3> QED BY <3>1, <3>2
  <2>6. CASE Page \/ Outside \/ UNCHANGED vars
    BY <2>1, <2>6 DEF Page, Outside, vars, local, InHand
  <2>7. CASE Crash
    BY <2>1, <2>7 DEF Crash, InHand
  <2> QED BY <2>3, <2>4, <2>5, <2>6, <2>7 DEF Next, Scan, Scans
<1>3. ReaderWork'
  BY <1>2 DEF ReaderWork
<1> QED BY <1>1, <1>3, WebWorkStep DEF Work

\* The rows that the playlist put there are entries of it, under their own
\* keys.
Origin ==
  \A i \in DOMAIN items :
     items[i].synced => items[i].kind = "PLAYLIST_ENTRY" /\ items[i].key = Key(items[i].key[1])

LEMMA OriginStep ==
  ASSUME Table, World, Work, Origin, [Next]_vars
  PROVE  Origin'
<1>1. ASSUME \A i \in DOMAIN items' :
               /\ i \in DOMAIN items /\ items'[i].synced = items[i].synced
               /\ items'[i].kind = items[i].kind /\ items'[i].key = items[i].key
      PROVE  Origin'
  BY <1>1 DEF Origin
<1>2. \A i \in DOMAIN items : items[i] \in Row
  BY DEF Table, Rows
<1>3. CASE Kept
  BY <1>1, <1>3 DEF Kept, SamePlaces
<1>4. CASE Inserted
  BY <1>4 DEF Inserted, Insert, Origin
<1>5. CASE Reorder
  <2>1. PICK p : items' = Placed(p)
    BY <1>5 DEF Reorder
  <2> QED BY <1>1, <1>2, <2>1 DEF Placed, Row
<1>6. CASE Move
  BY <1>1, <1>2, <1>6 DEF Move, Row
<1>7. CASE Deleted
  BY <1>1, <1>2, <1>7 DEF Deleted, Without, Row
<1> QED BY <1>3, <1>4, <1>5, <1>6, <1>7, RowsChange

(***************************************************************************)
(* Types, positions, and files                                             *)
(***************************************************************************)
\* An invariant that is inductive. PositionsDense is not by itself: an
\* insertion keeps the order dense because the position read is the number of
\* the rows, which needs the table to be finite and its keys distinct; and what
\* is inserted has the shape of a row because of what the threads have in hand.
IInv == Table /\ World /\ Work /\ Origin

LEMMA InitIInv == Init => IInv /\ PositionsDense
<1> SUFFICES ASSUME Init PROVE IInv /\ PositionsDense
  OBVIOUS
<1>1. DOMAIN items = {} /\ items = [i \in DOMAIN items |-> items[i]]
  <2>1. DOMAIN (<<>>) = {} /\ <<>> = [i \in {} |-> i]
    OBVIOUS
  <2>2. items = [i \in {} |-> i]
    BY <2>1 DEF Init
  <2>3. DOMAIN items = {} /\ [i \in {} |-> i] = [i \in {} |-> items[i]]
    BY <2>2
  <2> QED BY <2>2, <2>3
<1>2. Table
  BY <1>1 DEF Init, Table, Rows
<1>3. World
  <2>1. PICK s \in Starts : disk = s.disk /\ listed = s.listed /\ plays = s.plays
    BY DEF Init
  <2>2. PICK F \in SUBSET Files : disk \in [F -> [bytes : Contents, named : {FALSE}]]
    BY <2>1, StartsAssumption
  <2>3. /\ DOMAIN disk \subseteq Files
        /\ \A f \in DOMAIN disk : disk[f] \in [bytes : Bytes, named : BOOLEAN]
    BY <2>2 DEF Bytes
  <2>4. listed \in Listings /\ plays \in BOOLEAN
    BY <2>1, StartsAssumption
  <2> QED BY <2>3, <2>4, ListingsAreSequences DEF Init, World
<1>4. Work
  BY FS_EmptySet, ThreadsDiffer DEF Init, Work, Locals, WebWork, ReaderWork, InHand
<1>5. PositionsDense
  <2>1. Cardinality(DOMAIN items) = 0
    BY <1>1, FS_EmptySet
  <2>2. Positions(items) = {} /\ 0 .. 0 - 1 = {}
    BY <1>1 DEF Positions
  <2> QED BY <1>1, <2>1, <2>2 DEF PositionsDense
<1>6. Origin
  BY <1>1 DEF Origin
<1> QED BY <1>2, <1>3, <1>4, <1>5, <1>6 DEF IInv

LEMMA IInvStep == IInv /\ [Next]_vars => IInv' /\ (PositionsDense => PositionsDense')
  BY TableStep, WorldStep, WorkStep, OriginStep DEF IInv

\* In every state the table has rows with distinct keys, the folder has files
\* it can have, and the threads have in hand what their next step expects.
THEOREM Shapes == Spec => []IInv
  BY InitIInv, IInvStep, PTL DEF Spec

\* TypeOK holds in every state: keys stay unique without a lock, whichever
\* thread inserts first (store/repos.py add, the index of table item).
THEOREM LibraryTypes == Spec => []TypeOK
<1>1. IInv => TypeOK
  BY DEF IInv, Table, Rows, World, TypeOK
<1> QED BY <1>1, Shapes, PTL

\* PositionsDense holds in every state, for any interleaving of the threads:
\* without an overlap of insertions the rows are numbered 0, 1, 2, ..., after
\* additions, scans, deletions, moves and reorders of any page.
THEOREM Positioned == Spec => []PositionsDense
<1>1. Init => IInv /\ PositionsDense
  BY InitIInv
<1>2. IInv /\ PositionsDense /\ [Next]_vars => (IInv /\ PositionsDense)'
  BY IInvStep
<1> QED BY <1>1, <1>2, PTL DEF Spec

\* The two steps that change the folder from inside: an addition takes a name
\* that is free, and a deletion unlinks the file of the row that goes.
LEMMA KeepsFiles ==
  ASSUME Next
  PROVE  \/ Outside
         \/ \A f \in DOMAIN disk :
              IF f \in DOMAIN disk' THEN disk'[f] = disk[f]
              ELSE \E i \in DOMAIN items \ DOMAIN items' : items[i].path = f
<1>1. CASE UNCHANGED disk
  BY <1>1
<1>2. CASE AddAdopts
  BY <1>2 DEF AddAdopts, Adoptable
<1>3. CASE Page
  <2>1. CASE Delete
    <3>1. PICK i \in DOMAIN items : items' = Without(i) /\ disk' \in {disk, Unlink(i)}
      BY <2>1 DEF Delete
    <3>2. i \in DOMAIN items \ DOMAIN items'
      BY <3>1 DEF Without
    <3>3. CASE disk' = Unlink(i)
      BY <3>2, <3>3 DEF Unlink
    <3> QED BY <1>1, <3>1, <3>3
  <2> QED BY <1>1, <1>3, <2>1 DEF Page
<1>4. CASE Add
  BY <1>1, <1>2, <1>4
     DEF Add, StartAdd, AddReads, AddInserts, AddFinds, AddFails, AddRecords, EndAdd, world
<1>5. CASE Scan
  BY <1>1, <1>5 DEF Scan, ScanNothing, StartScan, ScanSkips, ScanKnown, ScanRenames, ScanRestores, ScanNew,
                    ScanInserts, EndScan, world
<1>6. CASE Sync
  BY <1>1, <1>6 DEF Sync, StartSync, SyncKnown, SyncNew, SyncInserts, EndSync, world
<1>7. CASE Crash
  BY <1>1, <1>7 DEF Crash, world
<1> QED BY <1>3, <1>4, <1>5, <1>6, <1>7 DEF Next

\* AppendOnly holds of every step: whatever the threads do, a file of the
\* folder is never overwritten, and goes only with the row that names it.
THEOREM FilesAreSafe == Spec => AppendOnly
<1>1. [Next]_vars => [ \/ Outside
                       \/ \A f \in DOMAIN disk :
                            IF f \in DOMAIN disk' THEN disk'[f] = disk[f]
                            ELSE \E i \in DOMAIN items \ DOMAIN items' : items[i].path = f ]_vars
  BY KeepsFiles
<1> QED BY <1>1, PTL DEF Spec, AppendOnly

(***************************************************************************)
(* The re-resolution of the playlist, and its dry run                      *)
(***************************************************************************)
Before(F, n) == {m \in F : m < n}

\* The numbering of what is left moves up by one when the first is done.
LEMMA ShiftCount ==
  ASSUME NEW F \in SUBSET (Nat \ {0}), NEW G \in SUBSET (Nat \ {0}),
         \A m \in Nat \ {0} : m \in G <=> m + 1 \in F,
         NEW n \in Nat \ {0}
  PROVE  /\ Cardinality(Before(G, n)) \in Nat
         /\ 1 \in F => Cardinality(Before(F, n + 1)) = Cardinality(Before(G, n)) + 1
         /\ (~ 1 \in F) => Cardinality(Before(F, n + 1)) = Cardinality(Before(G, n))
<1> DEFINE A == {m \in G : m < n}
           B == {m \in F : m < n + 1}
           C == {m \in F : m < n + 1 /\ m # 1}
           up == [m \in A |-> m + 1]
<1>2. IsFiniteSet(A)
  <2>1. IsFiniteSet(1 .. n)
    BY FS_Interval
  <2>2. \A m \in A : m \in Nat \ {0} /\ m < n
    OBVIOUS
  <2>3. A \subseteq 1 .. n
    <3> HIDE DEF A
    <3> QED BY <2>2
  <2> QED BY <2>1, <2>3, FS_Subset
<1>3. up \in [A -> C]
  <2>1. ASSUME NEW m \in A PROVE m + 1 \in C
    <3>1. m \in Nat \ {0} /\ m < n /\ m \in G
      OBVIOUS
    <3>2. m + 1 \in F
      BY <3>1
    <3>3. m + 1 < n + 1 /\ m + 1 # 1
      BY <3>1
    <3> QED BY <3>2, <3>3
  <2> QED BY <2>1
<1>4. IsInjective(up)
  BY DEF IsInjective
<1>5. \A c \in C : \E m \in A : up[m] = c
  <2>1. ASSUME NEW c \in C PROVE c - 1 \in A /\ up[c - 1] = c
    <3>1. c \in Nat \ {0, 1} /\ c - 1 \in Nat \ {0} /\ (c - 1) + 1 = c
      OBVIOUS
    <3> QED BY <3>1
  <2> QED BY <2>1
<1>6. ExistsBijection(A, C)
  <2> HIDE DEF A, C, up
  <2>1. up \in Injection(A, C) /\ up \in Surjection(A, C)
    BY <1>3, <1>4, <1>5 DEF Injection, Surjection, IsInjective
  <2> QED BY <2>1 DEF ExistsBijection, Bijection
<1>7. IsFiniteSet(C) /\ Cardinality(C) = Cardinality(A) /\ Cardinality(A) \in Nat
  BY <1>2, <1>6, FS_Bijection, FS_CardinalityType
<1>8. B = IF 1 \in F THEN C \cup {1} ELSE C
  OBVIOUS
<1>9. ~ 1 \in C
  OBVIOUS
<1>10. A = Before(G, n) /\ B = Before(F, n + 1)
  BY DEF Before
<1> HIDE DEF A, B, C
<1>11. Cardinality(C \cup {1}) = Cardinality(C) + 1
  BY <1>7, <1>9, FS_AddElement
<1> QED BY <1>7, <1>8, <1>10, <1>11

\* What a dry run forecasts for the rest L of a listing: the rows as they will
\* be, and the new entries behind them.
RowForecast(i) ==
  [pos |-> items[i].pos, key |-> items[i].key,
   ok |-> IF items[i].synced THEN items[i].key[1] \in Range(listed) ELSE items[i].ok]

EntryForecast(L, n) ==
  [pos |-> NextPos + Cardinality(Before(Fresh(L), n)), key |-> Key(L[n]), ok |-> TRUE]

Forecast(L) == {RowForecast(i) : i \in DOMAIN items} \cup {EntryForecast(L, n) : n \in Fresh(L)}

LEMMA PreviewIsForecast == Preview = Forecast(listed)
  BY DEF Preview, NewRows, Forecast, RowForecast, EntryForecast, Before

Resolving == pc[Run] \in {"sync", "sync-insert"} /\ calm[Run]

\* What an undisturbed re-resolution knows on its way: which entries are behind
\* it and which before it, that those behind have their rows, and - the reason
\* why its dry run agrees - that, if no entry is listed twice, the forecast for
\* the rest has not changed since it began.
Midway ==
  /\ \A e \in Bytes : e \in Range(listed) <=> Key(e) \in seen[Run] \/ e \in Range(todo[Run])
  /\ \A k \in seen[Run] :
        WithKey(k) # {} \/ (pc[Run] = "sync-insert" /\ k = Key(Head(todo[Run])))
  /\ \A i \in DOMAIN items : items[i].synced /\ items[i].key \in seen[Run] => items[i].ok
  /\ pc[Run] = "sync-insert" =>
        /\ WithKey(Key(Head(todo[Run]))) = {} /\ Key(Head(todo[Run])) \in seen[Run]
        /\ slot[Run] = NextPos
  /\ IsInjective(listed) => IsInjective(todo[Run]) /\ foreseen = Forecast(todo[Run])

SyncInv == Resolving => Midway

\* A table with the same rows in the same places has the same next position.
LEMMA SameNextPos ==
  ASSUME Table, SamePlaces(items')
  PROVE  NextPos' = NextPos
<1>1. Rows(items', nextId) /\ Rows(items, nextId) /\ DOMAIN items' = DOMAIN items
      /\ \A i \in DOMAIN items : items'[i].pos = items[i].pos
  BY SamePlacesKeep DEF Table, SamePlaces
<1>2. Positions(items') = Positions(items)
  BY <1>1 DEF Positions
<1>3. items' = <<>> <=> items = <<>>
  BY <1>1, NoRows
<1>4. Behind(items') = Behind(items)
  BY <1>2, <1>3 DEF Behind
<1> QED BY <1>4 DEF NextPos, Behind

\* An entry that has a row: nothing is forecast differently for it.
LEMMA ForecastKnown ==
  ASSUME IInv, NEW L \in Seq(Entries), L # <<>>, NEW T, T = Tail(L),
         WithKey(Key(Head(L))) # {}, listed' = listed,
         items' = Available({i \in WithKey(Key(Head(L))) : items[i].synced})
  PROVE  Forecast(T)' = Forecast(L)
<1>1. /\ T \in Seq(Entries) /\ DOMAIN T = 1 .. Len(T) /\ DOMAIN L = 1 .. Len(L) /\ Len(L) = Len(T) + 1
      /\ \A n \in DOMAIN T : T[n] = L[n + 1] /\ n + 1 \in DOMAIN L
      /\ Head(L) = L[1] /\ Len(T) \in Nat
  OBVIOUS
<1>2. SamePlaces(items')
  BY AvailableKeeps DEF IInv
<1>3. DOMAIN items' = DOMAIN items
      /\ \A i \in DOMAIN items : /\ items'[i].pos = items[i].pos /\ items'[i].key = items[i].key
                                 /\ items'[i].synced = items[i].synced
  BY <1>2 DEF SamePlaces
<1>4. \A k : WithKey(k)' = WithKey(k)
  BY <1>3 DEF WithKey
<1>5. NextPos' = NextPos
  BY <1>2, SameNextPos DEF IInv
<1>6. \A i \in DOMAIN items : RowForecast(i)' = RowForecast(i)
  <2>1. \A i \in DOMAIN items : ~ items[i].synced => items'[i].ok = items[i].ok
    BY DEF Available
  <2> QED BY <1>3, <2>1 DEF RowForecast
<1>7. /\ Fresh(T)' = Fresh(T) /\ (~ 1 \in Fresh(L))
      /\ Fresh(T) \subseteq Nat \ {0} /\ Fresh(L) \subseteq Nat \ {0}
      /\ \A n \in Nat \ {0} : n \in Fresh(T) <=> n + 1 \in Fresh(L)
  <2>1. Fresh(T)' = Fresh(T)
    BY <1>4 DEF Fresh
  <2>2. (~ 1 \in Fresh(L)) /\ Fresh(T) \subseteq Nat \ {0} /\ Fresh(L) \subseteq Nat \ {0}
    BY <1>1 DEF Fresh
  <2>3. ASSUME NEW n \in Nat \ {0} PROVE n \in Fresh(T) <=> n + 1 \in Fresh(L)
    BY <1>1 DEF Fresh
  <2> QED BY <2>1, <2>2, <2>3
<1>8. \A n \in Nat \ {0} : Cardinality(Before(Fresh(L), n + 1)) = Cardinality(Before(Fresh(T), n))
  <2> DEFINE F == Fresh(L)
             G == Fresh(T)
  <2>1. F \in SUBSET (Nat \ {0}) /\ G \in SUBSET (Nat \ {0}) /\ (~ 1 \in F)
        /\ \A n \in Nat \ {0} : n \in G <=> n + 1 \in F
    BY <1>7
  <2> HIDE DEF F, G
  <2>2. \A n \in Nat \ {0} : Cardinality(Before(F, n + 1)) = Cardinality(Before(G, n))
    BY <2>1, ShiftCount
  <2> QED BY <2>2 DEF F, G
<1>9. \A n \in Fresh(T) : EntryForecast(T, n)' = EntryForecast(L, n + 1) /\ n + 1 \in Fresh(L)
  <2>1. ASSUME NEW n \in Fresh(T) PROVE EntryForecast(T, n)' = EntryForecast(L, n + 1)
    <3>1. n \in DOMAIN T /\ n \in Nat \ {0}
      BY <1>7 DEF Fresh
    <3>2. T[n] = L[n + 1]
      BY <1>1, <3>1
    <3> QED BY <1>5, <1>7, <1>8, <3>1, <3>2 DEF EntryForecast
  <2> QED BY <1>7, <2>1
<1>10. \A n \in Fresh(L) : n - 1 \in Fresh(T) /\ (n - 1) + 1 = n
  BY <1>1, <1>7
<1>11. Forecast(T)' = {RowForecast(i)' : i \in DOMAIN items'} \cup {EntryForecast(T, n)' : n \in Fresh(T)'}
  BY DEF Forecast
<1>12. {RowForecast(i)' : i \in DOMAIN items'} = {RowForecast(i) : i \in DOMAIN items}
  BY <1>3, <1>6
<1>13. {EntryForecast(T, n)' : n \in Fresh(T)'} = {EntryForecast(L, n) : n \in Fresh(L)}
  BY <1>7, <1>9, <1>10
<1> QED BY <1>11, <1>12, <1>13 DEF Forecast

\* A new entry: what was the first of the forecast entries is a row now.
LEMMA ForecastInserted ==
  ASSUME IInv, NEW L \in Seq(Entries), L # <<>>, NEW T, T = Tail(L), IsInjective(L),
         WithKey(Key(Head(L))) = {}, listed' = listed, Head(L) \in Range(listed),
         Insert(Key(Head(L)), "PLAYLIST_ENTRY", NoFile, TRUE, NextPos)
  PROVE  Forecast(T)' = Forecast(L)
<1> DEFINE h == Head(L)
           r == [pos |-> NextPos, key |-> Key(h), kind |-> "PLAYLIST_ENTRY", ok |-> TRUE,
                 path |-> NoFile, synced |-> TRUE]
<1>1. /\ T \in Seq(Entries) /\ DOMAIN T = 1 .. Len(T) /\ DOMAIN L = 1 .. Len(L) /\ Len(L) = Len(T) + 1
      /\ \A n \in DOMAIN T : T[n] = L[n + 1] /\ n + 1 \in DOMAIN L
      /\ Head(L) = L[1] /\ Len(T) \in Nat
  OBVIOUS
<1>2. /\ items' = [i \in DOMAIN items \cup {nextId} |-> IF i = nextId THEN r ELSE items[i]]
      /\ nextId' = nextId + 1
  BY DEF Insert
<1>3. h \in Entries /\ Key(h) \in Keys /\ NextPos \in Nat
  BY JobFacts, NextPosBehind DEF IInv
<1>4. /\ r.pos = NextPos /\ r.key = Key(h) /\ r.synced = TRUE /\ r.ok = TRUE /\ r \in Row
  BY <1>3 DEF Row, Kinds, Paths
<1> HIDE DEF r
<1>5. ~ nextId \in DOMAIN items
  BY DEF IInv, Table, Rows
<1>6. DOMAIN items' = DOMAIN items \cup {nextId} /\ items'[nextId] = r
      /\ \A i \in DOMAIN items : items'[i] = items[i]
  BY <1>2, <1>5
<1>7. \A k : WithKey(k)' = IF k = Key(h) THEN {nextId} ELSE WithKey(k)
  BY <1>4, <1>5, <1>6 DEF WithKey
<1>8. NextPos' = NextPos + 1
  <2>1. Rows(items', nextId')
    <3>1. Table'
      BY <1>3, InsertKeeps DEF IInv, Kinds, Paths
    <3> QED BY <3>1 DEF Table
  <2>2. /\ Behind(items') \in Nat
        /\ \A i \in DOMAIN items' : items'[i].pos < Behind(items')
        /\ \A m \in Nat : (\A i \in DOMAIN items' : items'[i].pos < m) => Behind(items') <= m
    BY <2>1, BehindAll
  <2>3. \A i \in DOMAIN items : items[i].pos \in Nat /\ items[i].pos < NextPos
    BY NextPosBehind DEF IInv
  <2>4. \A i \in DOMAIN items' : items'[i].pos < NextPos + 1
    BY <1>3, <1>4, <1>6, <2>3
  <2>5. Behind(items') <= NextPos + 1 /\ NextPos < Behind(items')
    BY <1>3, <1>4, <1>6, <2>2, <2>4
  <2>6. NextPos' = Behind(items')
    BY DEF NextPos, Behind
  <2> QED BY <1>3, <2>2, <2>5, <2>6
<1>9. \A i \in DOMAIN items : RowForecast(i)' = RowForecast(i)
  BY <1>6 DEF RowForecast
<1>10. ASSUME NEW x, x = nextId PROVE RowForecast(x)' = EntryForecast(L, 1)
  <2>1. Before(Fresh(L), 1) = {}
    BY <1>1 DEF Before, Fresh
  <2>2. NextPos + Cardinality(Before(Fresh(L), 1)) = NextPos
    <3>1. Cardinality(Before(Fresh(L), 1)) = 0
      BY <2>1, FS_EmptySet
    <3> QED BY <1>3, <3>1
  <2>3. EntryForecast(L, 1) = [pos |-> NextPos, key |-> Key(h), ok |-> TRUE]
    BY <1>1, <2>2 DEF EntryForecast
  <2>4. items'[x] = r /\ r.key[1] = h /\ (h \in Range(listed)) = TRUE
    BY <1>4, <1>6, <1>10 DEF Key
  <2>5. RowForecast(x)' = [pos |-> r.pos, key |-> r.key, ok |-> IF r.synced THEN r.key[1] \in Range(listed) ELSE r.ok]
    BY <2>4 DEF RowForecast
  <2> QED BY <1>4, <2>3, <2>4, <2>5
<1>11. /\ 1 \in Fresh(L)
       /\ Fresh(T)' \subseteq Nat \ {0} /\ Fresh(L) \subseteq Nat \ {0}
       /\ \A n \in Nat \ {0} : n \in Fresh(T)' <=> n + 1 \in Fresh(L)
  <2>1. 1 \in Fresh(L) /\ Fresh(L) \subseteq Nat \ {0}
    BY <1>1 DEF Fresh
  <2>2. Fresh(T)' = {n \in DOMAIN T : WithKey(Key(T[n]))' = {}}
    BY DEF Fresh
  <2>3. \A n \in DOMAIN T : Key(T[n]) # Key(h)
    BY <1>1 DEF Key, IsInjective
  <2>4. Fresh(T)' = {n \in DOMAIN T : WithKey(Key(T[n])) = {}}
    BY <1>7, <2>2, <2>3
  <2>5. ASSUME NEW n \in Nat \ {0} PROVE n \in Fresh(T)' <=> n + 1 \in Fresh(L)
    <3>1. n \in DOMAIN T <=> n + 1 \in DOMAIN L
      BY <1>1
    <3>2. n \in DOMAIN T => T[n] = L[n + 1]
      BY <1>1
    <3> QED BY <2>4, <3>1, <3>2 DEF Fresh
  <2>6. Fresh(T)' \subseteq Nat \ {0}
    BY <1>1, <2>2
  <2> QED BY <2>1, <2>5, <2>6
<1>12. \A n \in Nat \ {0} : /\ Cardinality(Before(Fresh(T)', n)) \in Nat
                            /\ Cardinality(Before(Fresh(L), n + 1)) = Cardinality(Before(Fresh(T)', n)) + 1
  <2> DEFINE F == Fresh(L)
             G == Fresh(T)'
  <2>1. F \in SUBSET (Nat \ {0}) /\ G \in SUBSET (Nat \ {0}) /\ 1 \in F
        /\ \A n \in Nat \ {0} : n \in G <=> n + 1 \in F
    BY <1>11
  <2> HIDE DEF F, G
  <2>2. \A n \in Nat \ {0} : /\ Cardinality(Before(G, n)) \in Nat
                             /\ Cardinality(Before(F, n + 1)) = Cardinality(Before(G, n)) + 1
    BY <2>1, ShiftCount
  <2> QED BY <2>2 DEF F, G
<1>13. \A n \in Fresh(T)' : EntryForecast(T, n)' = EntryForecast(L, n + 1) /\ n + 1 \in Fresh(L)
  <2>1. ASSUME NEW n \in Fresh(T)' PROVE EntryForecast(T, n)' = EntryForecast(L, n + 1)
    <3>1. n \in Nat \ {0} /\ n \in DOMAIN T
      BY <1>11 DEF Fresh
    <3>2. T[n] = L[n + 1]
      BY <1>1, <3>1
    <3>3. EntryForecast(T, n)' =
            [pos |-> NextPos' + Cardinality(Before(Fresh(T)', n)), key |-> Key(T[n]), ok |-> TRUE]
      BY DEF EntryForecast
    <3>4. NextPos' + Cardinality(Before(Fresh(T)', n)) = NextPos + Cardinality(Before(Fresh(L), n + 1))
      BY <1>3, <1>8, <1>12, <3>1
    <3> QED BY <3>2, <3>3, <3>4 DEF EntryForecast
  <2> QED BY <1>11, <2>1
<1>14. ASSUME NEW n \in Fresh(L) \ {1} PROVE n - 1 \in Fresh(T)' /\ (n - 1) + 1 = n
  <2>1. n \in Nat \ {0} /\ n # 1
    BY <1>11
  <2>2. n - 1 \in Nat \ {0} /\ (n - 1) + 1 = n
    BY <2>1
  <2> QED BY <1>11, <2>2
<1>15. Forecast(T)' = {RowForecast(i)' : i \in DOMAIN items'} \cup {EntryForecast(T, n)' : n \in Fresh(T)'}
  BY DEF Forecast
<1>16. {RowForecast(i)' : i \in DOMAIN items'} = {RowForecast(i) : i \in DOMAIN items} \cup {EntryForecast(L, 1)}
  <2>1. PICK x : x = nextId
    OBVIOUS
  <2>2. DOMAIN items' = DOMAIN items \cup {x} /\ RowForecast(x)' = EntryForecast(L, 1)
    BY <1>6, <1>10, <2>1
  <2> QED BY <1>9, <2>2
<1>17. {EntryForecast(T, n)' : n \in Fresh(T)'} \cup {EntryForecast(L, 1)} = {EntryForecast(L, n) : n \in Fresh(L)}
  BY <1>11, <1>13, <1>14
<1> QED BY <1>15, <1>16, <1>17 DEF Forecast

LEMMA SyncFrame ==
  ASSUME SyncInv,
         pc'[Run] = pc[Run], todo'[Run] = todo[Run], seen'[Run] = seen[Run],
         slot'[Run] = slot[Run], foreseen' = foreseen,
         calm'[Run] => calm[Run] /\ UNCHANGED <<listed, items>>
  PROVE  SyncInv'
<1> SUFFICES ASSUME Resolving' PROVE Midway'
  BY DEF SyncInv
<1>1. Resolving /\ Midway /\ UNCHANGED <<listed, items>>
  BY DEF Resolving, SyncInv
<1>2. NextPos' = NextPos /\ (\A k : WithKey(k)' = WithKey(k))
  BY <1>1 DEF NextPos, WithKey
<1>3. Forecast(todo[Run])' = Forecast(todo[Run])
  <2> DEFINE L == todo[Run]
  <2>1. L' = L
    OBVIOUS
  <2> HIDE DEF L
  <2>2. Fresh(L)' = Fresh(L)
    BY <1>2, <2>1 DEF Fresh
  <2>3. \A i : RowForecast(i)' = RowForecast(i)
    BY <1>1 DEF RowForecast
  <2>4. \A n : EntryForecast(L, n)' = EntryForecast(L, n)
    BY <1>2, <2>1, <2>2 DEF EntryForecast
  <2> QED BY <1>1, <2>1, <2>2, <2>3, <2>4 DEF Forecast, L
<1> QED BY <1>1, <1>2, <1>3 DEF Midway

LEMMA StartSyncStep ==
  ASSUME IInv, StartSync
  PROVE  SyncInv'
<1>1. Run \in Threads /\ Run \in Readers
  BY ThreadsDiffer
<1>2. /\ todo'[Run] = listed /\ seen'[Run] = {} /\ pc'[Run] = "sync"
      /\ foreseen' = Preview /\ UNCHANGED <<listed, items>>
  BY <1>1 DEF StartSync, IInv, Work, Locals, Goto, store, world
<1> DEFINE L == listed
<1>5. foreseen' = Forecast(L)
  BY <1>2, PreviewIsForecast
<1>6. Forecast(todo[Run])' = Forecast(L)
  <2>1. NextPos' = NextPos /\ (\A k : WithKey(k)' = WithKey(k))
    BY <1>2 DEF NextPos, WithKey
  <2>2. Fresh(todo[Run])' = Fresh(L)
    BY <1>2, <2>1 DEF Fresh
  <2>3. \A i : RowForecast(i)' = RowForecast(i)
    BY <1>2 DEF RowForecast
  <2>4. \A n : EntryForecast(todo[Run], n)' = EntryForecast(L, n)
    BY <1>2, <2>1, <2>2 DEF EntryForecast
  <2> QED BY <1>2, <2>2, <2>3, <2>4 DEF Forecast
<1> HIDE DEF L
<1> QED BY <1>2, <1>5, <1>6 DEF SyncInv, Midway, L

LEMMA SyncKnownStep ==
  ASSUME IInv, SyncInv, SyncKnown
  PROVE  SyncInv'
<1> DEFINE L == todo[Run]
           h == Head(L)
<1>1. Run \in Threads /\ Run \in Readers
  BY ThreadsDiffer
<1>2. L \in Seq(Entries) /\ L # <<>> /\ pc[Run] = "sync"
  BY <1>1 DEF SyncKnown, Syncing, IInv, Work, ReaderWork, InHand
<1>3. /\ todo'[Run] = Tail(L) /\ seen'[Run] = seen[Run] \cup {Key(h)} /\ pc' = pc
      /\ listed' = listed /\ foreseen' = foreseen
      /\ WithKey(Key(h)) # {} /\ items' = Available({i \in WithKey(Key(h)) : items[i].synced})
  BY <1>1 DEF SyncKnown, See, Drop, IInv, Work, Locals, world
<1> SUFFICES ASSUME Resolving' PROVE Midway'
  BY DEF SyncInv
<1>4. calm[Run]
  BY <1>1, StepCalm DEF SyncKnown, Resolving, IInv, Work
<1>5. Midway
  BY <1>2, <1>4 DEF SyncInv, Resolving
<1>6. /\ h \in Entries /\ Tail(L) \in Seq(Entries) /\ Range(L) = {h} \cup Range(Tail(L))
      /\ IsInjective(listed) => IsInjective(Tail(L))
  BY <1>2, <1>5, HeadTail, Popped DEF Midway
<1>7. SamePlaces(items')
  BY <1>3, AvailableKeeps DEF IInv
<1>8. \A k : WithKey(k)' = WithKey(k)
  BY <1>7 DEF SamePlaces, WithKey
<1>9. \A i \in DOMAIN items : items'[i].ok = IF items[i].key = Key(h) /\ items[i].synced THEN TRUE ELSE items[i].ok
  <2>1. \A i \in DOMAIN items : items[i] \in Row
    BY DEF IInv, Table, Rows
  <2> QED BY <1>3, <2>1 DEF Available, WithKey, Row
<1>10. \A e \in Bytes : e \in Range(listed)' <=> Key(e) \in seen'[Run] \/ e \in Range(todo'[Run])
  BY <1>3, <1>5, <1>6 DEF Midway, Key
<1>11. \A k \in seen'[Run] : WithKey(k)' # {}
  BY <1>2, <1>3, <1>5, <1>8 DEF Midway
<1>12. \A i \in DOMAIN items' : items'[i].synced /\ items'[i].key \in seen'[Run] => items'[i].ok
  BY <1>3, <1>5, <1>7, <1>9 DEF Midway, SamePlaces
<1>13. ASSUME IsInjective(listed) PROVE foreseen' = Forecast(todo[Run])'
  <2>1. PICK T : T = Tail(L)
    OBVIOUS
  <2>2. PICK M : M = L
    OBVIOUS
  <2>3. Forecast(T)' = Forecast(M)
    BY <1>2, <1>3, <2>1, <2>2, ForecastKnown
  <2>4. Forecast(todo[Run])' = Forecast(T)'
    BY <1>3, <2>1 DEF Forecast, EntryForecast, Fresh
  <2> QED BY <1>3, <1>5, <1>13, <2>2, <2>3, <2>4 DEF Midway
<1> QED BY <1>2, <1>3, <1>6, <1>10, <1>11, <1>12, <1>13 DEF Midway

LEMMA SyncNewStep ==
  ASSUME IInv, SyncInv, SyncNew
  PROVE  SyncInv'
<1> DEFINE L == todo[Run]
           h == Head(L)
<1>1. Run \in Threads /\ Run \in Readers
  BY ThreadsDiffer
<1>2. L \in Seq(Entries) /\ L # <<>> /\ pc[Run] = "sync"
  BY <1>1 DEF SyncNew, Syncing, IInv, Work, ReaderWork, InHand
<1>3. /\ todo' = todo /\ seen'[Run] = seen[Run] \cup {Key(h)} /\ pc'[Run] = "sync-insert"
      /\ UNCHANGED <<listed, items>> /\ foreseen' = foreseen
      /\ WithKey(Key(h)) = {} /\ slot'[Run] = NextPos
  BY <1>1 DEF SyncNew, See, Goto, IInv, Work, Locals, world, store
<1> SUFFICES ASSUME Resolving' PROVE Midway'
  BY DEF SyncInv
<1>4. calm[Run]
  BY <1>1, StepCalm DEF SyncNew, Resolving, IInv, Work
<1>5. Midway
  BY <1>2, <1>4 DEF SyncInv, Resolving
<1>6. h \in Entries /\ Range(L) = {h} \cup Range(Tail(L))
  BY <1>2, HeadTail
<1>7. NextPos' = NextPos /\ (\A k : WithKey(k)' = WithKey(k))
  BY <1>3 DEF NextPos, WithKey
<1>8. \A e \in Bytes : e \in Range(listed)' <=> Key(e) \in seen'[Run] \/ e \in Range(todo'[Run])
  BY <1>3, <1>5, <1>6 DEF Midway, Key
<1>9. \A k \in seen'[Run] : WithKey(k)' # {} \/ k = Key(h)
  BY <1>2, <1>3, <1>5, <1>7 DEF Midway
<1>10. \A i \in DOMAIN items' : items'[i].synced /\ items'[i].key \in seen'[Run] => items'[i].ok
  BY <1>3, <1>5 DEF Midway, WithKey
<1>11. Forecast(todo[Run])' = Forecast(todo[Run])
  <2>1. Fresh(L)' = Fresh(L)
    BY <1>3, <1>7 DEF Fresh
  <2>2. \A i : RowForecast(i)' = RowForecast(i)
    BY <1>3 DEF RowForecast
  <2>3. \A n : EntryForecast(L, n)' = EntryForecast(L, n)
    BY <1>3, <1>7, <2>1 DEF EntryForecast
  <2> QED BY <1>3, <2>1, <2>2, <2>3 DEF Forecast
<1> QED BY <1>3, <1>5, <1>7, <1>8, <1>9, <1>10, <1>11 DEF Midway

LEMMA SyncInsertsStep ==
  ASSUME IInv, SyncInv, SyncInserts
  PROVE  SyncInv'
<1> DEFINE L == todo[Run]
           h == Head(L)
<1>1. Run \in Threads /\ Run \in Readers
  BY ThreadsDiffer
<1>2. L \in Seq(Entries) /\ L # <<>> /\ pc[Run] = "sync-insert"
  BY <1>1 DEF SyncInserts, Syncing, IInv, Work, ReaderWork, InHand
<1>3. /\ todo'[Run] = Tail(L) /\ seen' = seen /\ pc'[Run] = "sync"
      /\ listed' = listed /\ foreseen' = foreseen
      /\ Insert(Key(h), "PLAYLIST_ENTRY", NoFile, TRUE, slot[Run])
  BY <1>1 DEF SyncInserts, Drop, Goto, IInv, Work, Locals, world
<1> SUFFICES ASSUME Resolving' PROVE Midway'
  BY DEF SyncInv
<1>4. calm[Run]
  BY <1>1, StepCalm DEF SyncInserts, Resolving, IInv, Work
<1>5. Midway
  BY <1>2, <1>4 DEF SyncInv, Resolving
<1>6. /\ h \in Entries /\ Tail(L) \in Seq(Entries) /\ Range(L) = {h} \cup Range(Tail(L))
      /\ IsInjective(listed) => IsInjective(Tail(L))
  BY <1>2, <1>5, HeadTail, Popped DEF Midway
<1>7. WithKey(Key(h)) = {} /\ Key(h) \in seen[Run] /\ slot[Run] = NextPos
  BY <1>2, <1>5 DEF Midway
<1>8. h \in Range(listed)
  BY <1>5, <1>6, <1>7, JobFacts DEF Midway
<1>9. /\ DOMAIN items' = DOMAIN items \cup {nextId} /\ (~ nextId \in DOMAIN items)
      /\ items'[nextId].key = Key(h) /\ items'[nextId].ok = TRUE
      /\ \A i \in DOMAIN items : items'[i] = items[i]
  BY <1>3, <1>7 DEF Insert, IInv, Table, Rows
<1>10. \A e \in Bytes : e \in Range(listed)' <=> Key(e) \in seen'[Run] \/ e \in Range(todo'[Run])
  BY <1>3, <1>5, <1>6, <1>7 DEF Midway, Key
<1>11. \A k \in seen'[Run] : WithKey(k)' # {}
  <2>1. ASSUME NEW k, k = Key(h) PROVE WithKey(k)' # {}
    BY <1>9, <2>1 DEF WithKey
  <2>2. \A k : WithKey(k) \subseteq WithKey(k)'
    BY <1>9 DEF WithKey
  <2> QED BY <1>2, <1>3, <1>5, <2>1, <2>2 DEF Midway
<1>12. \A i \in DOMAIN items' : items'[i].synced /\ items'[i].key \in seen'[Run] => items'[i].ok
  BY <1>3, <1>5, <1>9 DEF Midway
<1>13. ASSUME IsInjective(listed) PROVE foreseen' = Forecast(todo[Run])'
  <2>1. PICK T : T = Tail(L)
    OBVIOUS
  <2>2. PICK M : M = L
    OBVIOUS
  <2>3. Forecast(T)' = Forecast(M)
    BY <1>2, <1>3, <1>5, <1>7, <1>8, <1>13, <2>1, <2>2, ForecastInserted DEF Midway
  <2>4. Forecast(todo[Run])' = Forecast(T)'
    BY <1>3, <2>1 DEF Forecast, EntryForecast, Fresh
  <2> QED BY <1>3, <1>5, <1>13, <2>2, <2>3, <2>4 DEF Midway
<1> QED BY <1>3, <1>6, <1>10, <1>11, <1>12, <1>13 DEF Midway

LEMMA SyncInvStep ==
  ASSUME IInv, SyncInv, [Next]_vars
  PROVE  SyncInv'
<1>1. Run \in Threads /\ Run \in Readers /\ Web \in Threads /\ Web # Run
  BY ThreadsDiffer
<1>2. ASSUME NEW t \in Threads \ {Run}, Others(t) PROVE SyncInv'
  BY <1>1, <1>2, SyncFrame DEF Others
<1>3. CASE Add
  BY <1>1, <1>2, <1>3, AddLocal DEF IInv, Work
<1>4. ASSUME NEW t \in Readers, Scans(t) PROVE SyncInv'
  <2>1. CASE t = Run
    <3>1. ~ pc'[Run] \in {"sync", "sync-insert"}
      BY <1>1, <1>4, <2>1
         DEF Scans, ScanNothing, StartScan, ScanSkips, ScanKnown, ScanRenames, ScanRestores,
             ScanNew, ScanInserts, EndScan, Reads, Scanning, Finish, Goto, IInv, Work, Locals
    <3> QED BY <3>1 DEF SyncInv, Resolving
  <2>2. CASE t # Run
    BY <1>2, <1>4, <2>2, ScanLocal, ThreadsDiffer DEF IInv, Work
  <2> QED BY <2>1, <2>2
<1>5. CASE EndSync
  <2>1. pc'[Run] = "idle"
    BY <1>1, <1>5, FinishLocal DEF EndSync, IInv, Work
  <2> QED BY <2>1 DEF SyncInv, Resolving
<1>6. CASE Sync
  BY <1>5, <1>6, StartSyncStep, SyncKnownStep, SyncNewStep, SyncInsertsStep DEF Sync
<1>7. CASE Page \/ Outside \/ Crash
  BY <1>1, <1>7 DEF Page, Outside, Crash, Disturb, SyncInv, Resolving
<1>8. CASE UNCHANGED vars
  BY <1>1, <1>8, SyncFrame DEF vars, local, store, world
<1> QED BY <1>3, <1>4, <1>6, <1>7, <1>8 DEF Next, Scan, Scans

\* What an undisturbed re-resolution leaves behind.
LEMMA EndSyncLeaves ==
  ASSUME IInv, SyncInv, EndSync, calm[Run]
  PROVE  Resolved' /\ (IsInjective(listed) => Catalogue' = foreseen)
<1>1. Run \in Threads /\ Run \in Readers
  BY ThreadsDiffer
<1>2. pc[Run] = "sync" /\ todo[Run] = <<>> /\ items' = Unavailable(Vanished) /\ listed' = listed
  BY DEF EndSync, world
<1>3. Midway
  BY <1>2 DEF SyncInv, Resolving
<1>4. Range(todo[Run]) = {}
  BY <1>2 DEF Range
<1>5. \A i \in DOMAIN items : items[i] \in Row
  BY DEF IInv, Table, Rows
<1>6. SamePlaces(items')
  BY <1>2, AvailableKeeps DEF IInv
<1>7. /\ DOMAIN items' = DOMAIN items
      /\ \A i \in DOMAIN items :
           /\ items'[i].key = items[i].key /\ items'[i].pos = items[i].pos /\ items'[i].synced = items[i].synced
           /\ items'[i].ok = IF i \in Vanished THEN FALSE ELSE items[i].ok
  BY <1>2, <1>5, <1>6 DEF SamePlaces, Unavailable, Row
<1>8. \A e \in Bytes : e \in Range(listed) <=> Key(e) \in seen[Run]
  BY <1>3, <1>4 DEF Midway
<1>9. \A i \in DOMAIN items : items[i].synced =>
         /\ items[i].key[1] \in Range(listed) <=> items[i].key \in seen[Run]
         /\ i \in Vanished <=> (~ items[i].key \in seen[Run])
         /\ items[i].key \in seen[Run] => items[i].ok
  <2>1. ASSUME NEW i \in DOMAIN items, items[i].synced
        PROVE  /\ items[i].key[1] \in Range(listed) <=> items[i].key \in seen[Run]
               /\ i \in Vanished <=> (~ items[i].key \in seen[Run])
               /\ items[i].key \in seen[Run] => items[i].ok
    <3>1. items[i].key[1] \in Bytes
      BY <1>5 DEF Row, Keys
    <3>2. items[i].kind = "PLAYLIST_ENTRY" /\ items[i].key = Key(items[i].key[1])
      BY <2>1 DEF IInv, Origin
    <3> QED BY <1>3, <1>8, <2>1, <3>1, <3>2 DEF Vanished, Midway
  <2> QED BY <2>1
<1>10. \A i \in DOMAIN items : items'[i].ok = IF items[i].synced THEN items[i].key[1] \in Range(listed) ELSE items[i].ok
  <2>1. \A i \in DOMAIN items : ~ items[i].synced => (~ i \in Vanished)
    BY DEF Vanished
  <2>2. \A i \in DOMAIN items : items[i].ok \in BOOLEAN
    BY <1>5 DEF Row
  <2>3. ASSUME NEW i \in DOMAIN items, items[i].synced
        PROVE  items'[i].ok = (items[i].key[1] \in Range(listed))
    <3>1. CASE items[i].key[1] \in Range(listed)
      <4>1. items'[i].ok = items[i].ok /\ items[i].ok
        BY <1>7, <1>9, <2>3, <3>1
      <4>2. items'[i].ok = TRUE
        BY <2>2, <4>1
      <4> QED BY <3>1, <4>2
    <3>2. CASE ~ items[i].key[1] \in Range(listed)
      <4>1. items'[i].ok = FALSE
        BY <1>7, <1>9, <2>3, <3>2
      <4>2. (items[i].key[1] \in Range(listed)) = FALSE
        BY <3>2
      <4> QED BY <4>1, <4>2, Zenon
    <3> QED BY <3>1, <3>2
  <2>4. ASSUME NEW i \in DOMAIN items, ~ items[i].synced
        PROVE  items'[i].ok = items[i].ok
    BY <1>7, <2>1, <2>4
  <2> QED BY <2>3, <2>4
<1>11. Resolved'
  <2>1. \A e \in Range(listed) : WithKey(Key(e)) # {}
    <3>1. \A e \in Range(listed) : e \in Bytes
      <4>1. listed \in [1 .. Len(listed) -> Entries]
        BY DEF IInv, World
      <4> QED BY <4>1 DEF Range, Bytes
    <3> QED BY <1>2, <1>3, <1>8, <3>1 DEF Midway
  <2>2. \A k : WithKey(k)' = WithKey(k)
    BY <1>7 DEF WithKey
  <2>3. \A e \in Range(listed)' : WithKey(Key(e))' # {}
    BY <1>2, <2>1, <2>2
  <2>4. \A i \in DOMAIN items' : items'[i].synced => (items'[i].ok <=> items'[i].key[1] \in Range(listed)')
    BY <1>2, <1>7, <1>10
  <2> QED BY <2>3, <2>4 DEF Resolved
<1>12. ASSUME IsInjective(listed) PROVE Catalogue' = foreseen
  <2>1. Fresh(todo[Run]) = {}
    BY <1>2 DEF Fresh
  <2>2. foreseen = {RowForecast(i) : i \in DOMAIN items}
    BY <1>3, <1>12, <2>1 DEF Midway, Forecast
  <2>3. \A i \in DOMAIN items :
          [pos |-> items'[i].pos, key |-> items'[i].key, ok |-> items'[i].ok] = RowForecast(i)
    BY <1>7, <1>10 DEF RowForecast
  <2> QED BY <1>7, <2>2, <2>3 DEF Catalogue
<1> QED BY <1>11, <1>12

LEMMA InitSync == Init => SyncInv
  BY ThreadsDiffer DEF Init, SyncInv, Resolving

\* SyncAgrees holds of every step: after a re-resolution that nobody disturbed
\* every listed entry has a row, and the rows that a re-resolution added are
\* available exactly if they are listed, for any listing, one that names an
\* entry twice too (sources/playlist_sync.py sync_playlist). It says nothing of
\* the rows that the reference itself added, which have no owner.
THEOREM SyncSound == Spec => SyncAgrees
<1>1. IInv /\ SyncInv /\ [Next]_vars => [EndSync /\ calm[Run] => Resolved']_vars
  BY EndSyncLeaves
<1>2. IInv /\ SyncInv /\ [Next]_vars => SyncInv'
  BY SyncInvStep
<1> QED BY <1>1, <1>2, InitSync, Shapes, PTL DEF Spec, SyncAgrees

\* PreviewAgrees holds of every step: what _preview_one forecasts at the start
\* of a re-resolution is what sync_playlist leaves at its end, position by
\* position and in the order of the listing, if nobody else changed rows or
\* listing and no entry is listed twice - without which the two differ.
THEOREM ForecastSound == Spec => PreviewAgrees
<1>1. IInv /\ SyncInv /\ [Next]_vars
        => [EndSync /\ calm[Run] /\ IsInjective(listed) => Catalogue' = foreseen]_vars
  BY EndSyncLeaves
<1>2. IInv /\ SyncInv /\ [Next]_vars => SyncInv'
  BY SyncInvStep
<1> QED BY <1>1, <1>2, InitSync, Shapes, PTL DEF Spec, PreviewAgrees

(***************************************************************************)
(* The scan of the folder                                                  *)
(***************************************************************************)
Watching(t) == pc[t] \in {"scan", "scan-restore", "scan-insert"} /\ calm[t]

\* The file f is some item's; if the scan found the item, it will stay.
Covered(t, f) ==
  \E i \in DOMAIN items :
     /\ items[i].path = f
     /\ items[i].kind = "FOLDER_FILE" => items[i].ok /\ items[i].key \in seen[t]

\* What the scan remembers of the row at f is still so.
Recalled(t, f) ==
  IF known[t][f].ingested
  THEN \E i \in DOMAIN items : items[i].path = f /\ items[i].kind # "FOLDER_FILE"
  ELSE LET i == known[t][f].id IN
       /\ i \in DOMAIN items /\ items[i].path = f /\ items[i].key = known[t][f].key
       /\ known[t][f].ok => items[i].ok

\* What an undisturbed scan knows on its way: the files behind it are covered,
\* of the files before it nothing has changed since it began, and what it has
\* seen is in the folder.
Halfway(t) ==
  /\ mounted
  /\ IsInjective(todo[t]) /\ Range(todo[t]) \subseteq DOMAIN disk
  /\ \A f \in DOMAIN disk \ Range(todo[t]) : Covered(t, f)
  /\ \A i \in DOMAIN items :
        items[i].kind = "FOLDER_FILE" /\ items[i].key \in seen[t] => items[i].path \in DOMAIN disk
  /\ \A f \in Range(todo[t]) \cap DOMAIN known[t] : Recalled(t, f)
  /\ pc[t] = "scan-insert" => WithKey(at[t]) = {}
  /\ pc[t] = "scan-restore" => /\ at[t] \in DOMAIN items /\ items[at[t]].path = Head(todo[t])
                               /\ items[at[t]].key \in seen[t]

ScanInv == \A t \in Readers : Watching(t) => Halfway(t)

LEMMA ScanFrame ==
  ASSUME NEW t \in Readers, Watching(t) => Halfway(t),
         pc'[t] = pc[t], todo'[t] = todo[t], seen'[t] = seen[t],
         known'[t] = known[t], at'[t] = at[t],
         calm'[t] => calm[t] /\ UNCHANGED <<disk, mounted, items>>
  PROVE  (Watching(t) => Halfway(t))'
<1> SUFFICES ASSUME Watching(t)' PROVE Halfway(t)'
  OBVIOUS
<1>1. Watching(t) /\ Halfway(t) /\ UNCHANGED <<disk, mounted, items>>
  BY DEF Watching
<1>2. \A f : Covered(t, f) => Covered(t, f)'
  BY <1>1 DEF Covered
<1>3. \A f : Recalled(t, f) => Recalled(t, f)'
  BY <1>1 DEF Recalled
<1>4. WithKey(at[t])' = WithKey(at[t])
  BY <1>1 DEF WithKey
<1> QED BY <1>1, <1>2, <1>3, <1>4 DEF Halfway

\* What a scan remembers when it begins is so.
LEMMA RememberedIsSo ==
  ASSUME Table, NEW f \in {items[i].path : i \in DOMAIN items}, NEW m, m = Remembered(f)
  PROVE  /\ m.ingested => \E i \in DOMAIN items : items[i].path = f /\ items[i].kind # "FOLDER_FILE"
         /\ (~ m.ingested) => /\ m.id \in DOMAIN items /\ items[m.id].path = f
                              /\ items[m.id].key = m.key /\ m.ok = items[m.id].ok
<1> DEFINE R == {i \in DOMAIN items : items[i].path = f}
           Latest(i) == \A j \in R : items[j].pos <= items[i].pos
           top == CHOOSE i \in R : Latest(i)
<1>1. R # {}
  OBVIOUS
<1>2. \E i \in R : Latest(i)
  <2> DEFINE P == {items[i].pos : i \in R}
             p == [i \in R |-> items[i].pos]
  <2>1. P # {} /\ P \subseteq Nat
    BY <1>1 DEF Table, Rows, Row
  <2>2. IsFiniteSet(P)
    <3>1. p \in Surjection(R, P)
      BY DEF Surjection
    <3>2. IsFiniteSet(R)
      BY RowsFinite, FS_Subset DEF Table
    <3> QED BY <3>1, <3>2, FS_Surjection
  <2>3. PICK x \in P : \A y \in P : y <= x
    BY <2>1, <2>2, GreatestNumber
  <2> QED BY <2>3
<1>3. top \in R
  BY <1>2
<1>4. CASE \E i \in R : items[i].kind # "FOLDER_FILE"
  <2>1. m = [ingested |-> TRUE]
    BY <1>4 DEF Remembered
  <2> QED BY <1>4, <2>1
<1>5. CASE ~ \E i \in R : items[i].kind # "FOLDER_FILE"
  <2>1. m = [ingested |-> FALSE, id |-> top, key |-> items[top].key, ok |-> items[top].ok]
    BY <1>5 DEF Remembered
  <2> HIDE DEF top
  <2> QED BY <1>3, <2>1
<1> QED BY <1>4, <1>5

LEMMA StartScanStep ==
  ASSUME IInv, NEW t \in Readers, StartScan(t)
  PROVE  Halfway(t)'
<1>1. t \in Threads
  BY ThreadsDiffer
<1>2. PICK s \in NameOrder(DOMAIN disk) : todo' = [todo EXCEPT ![t] = s]
  BY DEF StartScan
<1>3. Range(s) = DOMAIN disk /\ IsInjective(s)
  BY FolderListed DEF IInv, World
<1> DEFINE paths == {items[i].path : i \in DOMAIN items}
<1>4. /\ todo'[t] = s /\ seen'[t] = {} /\ pc'[t] = "scan" /\ mounted' = TRUE
      /\ known'[t] = [f \in paths \ {NoFile} |-> Remembered(f)]
      /\ UNCHANGED <<disk, items>>
  BY <1>1, <1>2 DEF StartScan, IInv, Work, Locals, World, Goto, store, world
<1>5. \A f \in DOMAIN known'[t] : Recalled(t, f)'
  <2>1. ASSUME NEW f \in DOMAIN known'[t] PROVE Recalled(t, f)'
    <3>1. f \in paths /\ known'[t][f] = Remembered(f)
      BY <1>4
    <3>2. PICK m : m = Remembered(f)
      OBVIOUS
    <3> QED BY <1>4, <3>1, <3>2, RememberedIsSo DEF Recalled, IInv
  <2> QED BY <2>1
<1> HIDE DEF paths
<1> QED BY <1>3, <1>4, <1>5 DEF Halfway

\* The file at the head of the list, done: what holds of it and of the others.
LEMMA ScanGoesOn ==
  ASSUME NEW t \in Readers, Halfway(t), NEW S, todo[t] \in Seq(S), todo[t] # <<>>,
         UNCHANGED <<disk, mounted>>, todo'[t] = Tail(todo[t]), pc'[t] = "scan",
         \A f \in DOMAIN disk : f = Head(todo[t]) \/ Covered(t, f) => Covered(t, f)',
         \A i \in DOMAIN items' :
            items'[i].kind = "FOLDER_FILE" /\ items'[i].key \in seen'[t] => items'[i].path \in DOMAIN disk,
         known'[t] = known[t],
         \A f \in DOMAIN disk \ {Head(todo[t])} : Recalled(t, f) => Recalled(t, f)'
  PROVE  Halfway(t)'
<1>1. /\ IsInjective(Tail(todo[t])) /\ (~ Head(todo[t]) \in Range(Tail(todo[t])))
      /\ Range(todo[t]) = {Head(todo[t])} \cup Range(Tail(todo[t]))
  BY Popped DEF Halfway
<1>2. Range(todo[t])' = Range(Tail(todo[t])) /\ IsInjective(todo'[t])
  BY <1>1
<1>3. \A f \in DOMAIN disk' \ Range(todo[t])' : Covered(t, f)'
  BY <1>1, <1>2 DEF Halfway
<1>4. \A f \in Range(todo[t])' \cap DOMAIN known'[t] : Recalled(t, f)'
  BY <1>1, <1>2 DEF Halfway
<1>5. mounted' /\ Range(todo[t])' \subseteq DOMAIN disk'
  BY <1>1, <1>2 DEF Halfway
<1> QED BY <1>2, <1>3, <1>4, <1>5 DEF Halfway

LEMMA ScanSkipsStep ==
  ASSUME IInv, NEW t \in Readers, ScanSkips(t), Halfway(t)
  PROVE  Halfway(t)'
<1> DEFINE f == Head(todo[t])
<1>1. t \in Threads
  BY ThreadsDiffer
<1>2. todo[t] \in Seq(Files) /\ todo[t] # <<>> /\ pc[t] = "scan"
  BY DEF ScanSkips, Scanning, IInv, Work, ReaderWork, InHand
<1>3. /\ todo'[t] = Tail(todo[t]) /\ pc'[t] = "scan" /\ seen' = seen /\ known' = known
      /\ UNCHANGED <<disk, mounted, items>>
      /\ (f \in DOMAIN known[t] /\ known[t][f].ingested) \/ (~ f \in Present)
  BY <1>1, <1>2 DEF ScanSkips, Drop, IInv, Work, Locals, store, world
<1>4. f \in Range(todo[t]) /\ f \in DOMAIN disk
  BY <1>2, Popped DEF Halfway
<1>5. f \in DOMAIN known[t] /\ known[t][f].ingested
  BY <1>3, <1>4 DEF Present, Halfway
<1>6. \E i \in DOMAIN items : items[i].path = f /\ items[i].kind # "FOLDER_FILE"
  BY <1>4, <1>5 DEF Halfway, Recalled
<1>7. \A g \in DOMAIN disk : g = f \/ Covered(t, g) => Covered(t, g)'
  BY <1>3, <1>6 DEF Covered
<1>8. \A g : Recalled(t, g) => Recalled(t, g)'
  BY <1>3 DEF Recalled
<1>9. \A i \in DOMAIN items' :
         items'[i].kind = "FOLDER_FILE" /\ items'[i].key \in seen'[t] => items'[i].path \in DOMAIN disk
  BY <1>3 DEF Halfway
<1> QED BY <1>2, <1>3, <1>7, <1>8, <1>9, ScanGoesOn

LEMMA ScanKnownStep ==
  ASSUME IInv, NEW t \in Readers, ScanKnown(t), Halfway(t)
  PROVE  Halfway(t)'
<1>1. t \in Threads
  BY ThreadsDiffer
<1>2. PICK f \in Files :
        /\ Reads(t, f) /\ f \in DOMAIN known[t]
        /\ See(t, known[t][f].key)
        /\ items' = IF known[t][f].ok THEN items ELSE Available({known[t][f].id} \cap DOMAIN items)
  BY DEF ScanKnown
<1>3. /\ todo[t] \in Seq(Files) /\ todo[t] # <<>> /\ pc[t] = "scan" /\ f = Head(todo[t])
      /\ ~ known[t][f].ingested
  BY <1>2 DEF Reads, Scanning, IInv, Work, ReaderWork, InHand
<1>4. /\ todo'[t] = Tail(todo[t]) /\ pc'[t] = "scan" /\ known' = known
      /\ UNCHANGED <<disk, mounted>> /\ seen'[t] = seen[t] \cup {known[t][f].key}
  BY <1>1, <1>2, <1>3 DEF ScanKnown, Drop, See, IInv, Work, Locals, world
<1>5. f \in Range(todo[t]) /\ f \in DOMAIN disk
  BY <1>3, Popped DEF Halfway
<1> DEFINE i == known[t][f].id
<1>6. /\ i \in DOMAIN items /\ items[i].path = f /\ items[i].key = known[t][f].key
      /\ known[t][f].ok => items[i].ok
  BY <1>2, <1>3, <1>5 DEF Halfway, Recalled
<1> HIDE DEF i
<1>7. \A j \in DOMAIN items : items[j] \in Row
  BY DEF IInv, Table, Rows
<1>8. /\ DOMAIN items' = DOMAIN items /\ items'[i].ok
      /\ \A j \in DOMAIN items : /\ items'[j].path = items[j].path /\ items'[j].key = items[j].key
                                 /\ items'[j].kind = items[j].kind /\ (items[j].ok => items'[j].ok)
  <2>1. CASE known[t][f].ok
    BY <1>2, <1>6, <2>1
  <2>2. CASE ~ known[t][f].ok
    <3>1. items' = Available({i})
      BY <1>2, <1>6, <2>2 DEF i
    <3> QED BY <1>6, <1>7, <3>1 DEF Available, Row
  <2> QED BY <2>1, <2>2
<1>9. \A g \in DOMAIN disk : g = f \/ Covered(t, g) => Covered(t, g)'
  BY <1>4, <1>6, <1>8 DEF Covered
<1>10. \A g : Recalled(t, g) => Recalled(t, g)'
  BY <1>4, <1>8 DEF Recalled
<1>11. \A j \in DOMAIN items' :
         items'[j].kind = "FOLDER_FILE" /\ items'[j].key \in seen'[t] => items'[j].path \in DOMAIN disk
  <2>1. \A j \in DOMAIN items : items[j].key = items[i].key => j = i
    BY <1>6 DEF IInv, Table, Rows
  <2> QED BY <1>4, <1>5, <1>6, <1>8, <2>1 DEF Halfway
<1> QED BY <1>3, <1>4, <1>9, <1>10, <1>11, ScanGoesOn

LEMMA ScanRenamesStep ==
  ASSUME IInv, NEW t \in Readers, ScanRenames(t), Halfway(t)
  PROVE  Halfway(t)'
<1>1. t \in Threads
  BY ThreadsDiffer
<1>2. PICK f \in Files, i \in DOMAIN items :
        /\ Reads(t, f) /\ (~ f \in DOMAIN known[t])
        /\ items[i].path = f \/ (~ items[i].path \in Present)
        /\ See(t, items[i].key)
        /\ items' = Located(i, f)
        /\ \/ items[i].ok /\ Drop(t) /\ UNCHANGED <<pc, at>>
           \/ at' = [at EXCEPT ![t] = i] /\ Goto(t, "scan-restore") /\ UNCHANGED todo
  BY DEF ScanRenames, WithKey, There
<1>3. todo[t] \in Seq(Files) /\ todo[t] # <<>> /\ pc[t] = "scan" /\ f = Head(todo[t])
  BY <1>2 DEF Reads, Scanning, IInv, Work, ReaderWork, InHand
<1>4. known' = known /\ UNCHANGED <<disk, mounted>> /\ seen'[t] = seen[t] \cup {items[i].key}
  BY <1>1, <1>2 DEF ScanRenames, See, IInv, Work, Locals, world
<1>5. f \in DOMAIN disk /\ Present = DOMAIN disk
  BY <1>3, Popped DEF Halfway, Present
<1>6. \A j \in DOMAIN items : items[j] \in Row
  BY DEF IInv, Table, Rows
<1>7. /\ DOMAIN items' = DOMAIN items
      /\ items'[i].path = f /\ items'[i].ok = items[i].ok /\ items'[i].key = items[i].key
      /\ items'[i].kind = items[i].kind
      /\ \A j \in DOMAIN items \ {i} : items'[j] = items[j]
  BY <1>2, <1>6 DEF Located, Row
<1>8. \A g \in DOMAIN disk : Covered(t, g) => Covered(t, g)'
  BY <1>2, <1>4, <1>5, <1>7 DEF Covered
<1>9. \A g \in DOMAIN disk \ {f} : Recalled(t, g) => Recalled(t, g)'
  BY <1>2, <1>4, <1>5, <1>7 DEF Recalled
<1>10. \A j \in DOMAIN items' :
         items'[j].kind = "FOLDER_FILE" /\ items'[j].key \in seen'[t] => items'[j].path \in DOMAIN disk
  <2>1. \A j \in DOMAIN items : items[j].key = items[i].key => j = i
    BY DEF IInv, Table, Rows
  <2> QED BY <1>4, <1>5, <1>7, <2>1 DEF Halfway
<1>11. CASE items[i].ok /\ Drop(t) /\ UNCHANGED <<pc, at>>
  <2>1. todo'[t] = Tail(todo[t]) /\ pc'[t] = "scan"
    BY <1>1, <1>3, <1>11 DEF Drop, IInv, Work, Locals
  <2>2. Covered(t, f)'
    BY <1>4, <1>7, <1>11 DEF Covered
  <2> QED BY <1>3, <1>4, <1>8, <1>9, <1>10, <2>1, <2>2, ScanGoesOn
<1>12. CASE at' = [at EXCEPT ![t] = i] /\ Goto(t, "scan-restore") /\ UNCHANGED todo
  <2>1. todo'[t] = todo[t] /\ pc'[t] = "scan-restore" /\ at'[t] = i
    BY <1>1, <1>12 DEF Goto, IInv, Work, Locals
  <2>2. \A g \in Range(todo[t]) \cap DOMAIN known[t] : Recalled(t, g)'
    BY <1>2, <1>9 DEF Halfway
  <2>3. /\ at'[t] \in DOMAIN items' /\ items'[at'[t]].path = Head(todo'[t])
        /\ items'[at'[t]].key \in seen'[t]
    BY <1>3, <1>4, <1>7, <2>1
  <2> QED BY <1>4, <1>8, <1>10, <2>1, <2>2, <2>3 DEF Halfway
<1> QED BY <1>2, <1>11, <1>12

LEMMA ScanRestoresStep ==
  ASSUME IInv, NEW t \in Readers, ScanRestores(t), Halfway(t)
  PROVE  Halfway(t)'
<1> DEFINE f == Head(todo[t])
           i == at[t]
<1>1. t \in Threads
  BY ThreadsDiffer
<1>2. /\ todo[t] \in Seq(Files) /\ todo[t] # <<>> /\ pc[t] = "scan-restore"
      /\ i \in DOMAIN items /\ items[i].path = f /\ items[i].key \in seen[t]
  BY DEF ScanRestores, Scanning, IInv, Work, ReaderWork, InHand, Halfway
<1>3. /\ todo'[t] = Tail(todo[t]) /\ pc'[t] = "scan" /\ known' = known /\ seen' = seen
      /\ UNCHANGED <<disk, mounted>> /\ items' = Available({i})
  BY <1>1 DEF ScanRestores, Drop, Goto, IInv, Work, Locals, world
<1> HIDE DEF i
<1>4. \A j \in DOMAIN items : items[j] \in Row
  BY DEF IInv, Table, Rows
<1>5. /\ DOMAIN items' = DOMAIN items /\ items'[i].ok
      /\ \A j \in DOMAIN items : /\ items'[j].path = items[j].path /\ items'[j].key = items[j].key
                                 /\ items'[j].kind = items[j].kind /\ (items[j].ok => items'[j].ok)
  BY <1>2, <1>3, <1>4 DEF Available, Row
<1>6. \A g \in DOMAIN disk : g = f \/ Covered(t, g) => Covered(t, g)'
  BY <1>2, <1>3, <1>5 DEF Covered
<1>7. \A g : Recalled(t, g) => Recalled(t, g)'
  BY <1>3, <1>5 DEF Recalled
<1>8. \A j \in DOMAIN items' :
         items'[j].kind = "FOLDER_FILE" /\ items'[j].key \in seen'[t] => items'[j].path \in DOMAIN disk
  BY <1>3, <1>5 DEF Halfway
<1> QED BY <1>2, <1>3, <1>6, <1>7, <1>8, ScanGoesOn

LEMMA ScanNewStep ==
  ASSUME IInv, NEW t \in Readers, ScanNew(t), Halfway(t)
  PROVE  Halfway(t)'
<1>1. t \in Threads
  BY ThreadsDiffer
<1>2. PICK f \in Files :
        /\ Reads(t, f)
        /\ \/ WithKey(Key(disk[f].bytes)) = {} /\ at' = [at EXCEPT ![t] = Key(disk[f].bytes)]
           \/ at' = [at EXCEPT ![t] = FreshTwin(t, disk[f].bytes)]
  BY DEF ScanNew
<1>3. disk[f].bytes \in Bytes
  BY <1>2 DEF Reads, Present, IInv, World
<1>4. IsFiniteSet(seen[t])
  BY <1>1 DEF IInv, Work, Locals
<1>5. WithKey(FreshTwin(t, disk[f].bytes)) = {}
  BY <1>1, <1>3, <1>4, FreshTwinIsFree DEF IInv
<1>6. WithKey(at'[t]) = {}
  BY <1>1, <1>2, <1>5 DEF IInv, Work, Locals
<1>7. UNCHANGED <<disk, mounted, items, todo, seen, known>>
  BY DEF ScanNew, store, world
<1>8. WithKey(at[t])' = {}
  BY <1>6, <1>7 DEF WithKey
<1>9. \A g : Covered(t, g) => Covered(t, g)'
  BY <1>7 DEF Covered
<1>10. \A g : Recalled(t, g) => Recalled(t, g)'
  BY <1>7 DEF Recalled
<1>11. pc'[t] = "scan-insert"
  BY <1>1 DEF ScanNew, Goto, IInv, Work, Locals
<1> QED BY <1>7, <1>8, <1>9, <1>10, <1>11 DEF Halfway

LEMMA ScanInsertsStep ==
  ASSUME IInv, NEW t \in Readers, ScanInserts(t), Halfway(t)
  PROVE  Halfway(t)'
<1> DEFINE f == Head(todo[t])
           r == [pos |-> slot[t], key |-> at[t], kind |-> "FOLDER_FILE", ok |-> TRUE,
                 path |-> f, synced |-> FALSE]
<1>1. t \in Threads
  BY ThreadsDiffer
<1>2. todo[t] \in Seq(Files) /\ todo[t] # <<>> /\ pc[t] = "scan-insert" /\ WithKey(at[t]) = {}
  BY DEF ScanInserts, Scanning, IInv, Work, ReaderWork, InHand, Halfway
<1>3. /\ todo'[t] = Tail(todo[t]) /\ pc'[t] = "scan" /\ known' = known
      /\ UNCHANGED <<disk, mounted>> /\ seen'[t] = seen[t] \cup {at[t]}
  BY <1>1 DEF ScanInserts, Drop, Goto, See, IInv, Work, Locals, world
<1>4. items' = [i \in DOMAIN items \cup {nextId} |-> IF i = nextId THEN r ELSE items[i]]
  BY <1>2 DEF ScanInserts, Insert
<1>5. r.key = at[t] /\ r.kind = "FOLDER_FILE" /\ r.ok = TRUE /\ r.path = f
  OBVIOUS
<1>6. f \in Range(todo[t]) /\ f \in DOMAIN disk
  BY <1>2, Popped DEF Halfway
<1> HIDE DEF r, f
<1>7. PICK x : x = nextId
  OBVIOUS
<1>8. /\ DOMAIN items' = DOMAIN items \cup {x} /\ items'[x] = r /\ (~ x \in DOMAIN items)
      /\ \A i \in DOMAIN items : items'[i] = items[i]
  BY <1>4, <1>7 DEF IInv, Table, Rows
<1>9. \A i \in DOMAIN items : items[i].key # at[t]
  BY <1>2 DEF WithKey
<1>10. \A g \in DOMAIN disk : g = f \/ Covered(t, g) => Covered(t, g)'
  <2>1. ASSUME NEW g, g = f PROVE Covered(t, g)'
    BY <1>3, <1>5, <1>8, <2>1 DEF Covered
  <2>2. ASSUME NEW g, Covered(t, g) PROVE Covered(t, g)'
    BY <1>3, <1>8, <2>2 DEF Covered
  <2> QED BY <2>1, <2>2
<1>11. \A g : Recalled(t, g) => Recalled(t, g)'
  BY <1>3, <1>8 DEF Recalled
<1>12. \A i \in DOMAIN items' :
         items'[i].kind = "FOLDER_FILE" /\ items'[i].key \in seen'[t] => items'[i].path \in DOMAIN disk
  BY <1>3, <1>5, <1>6, <1>8, <1>9 DEF Halfway
<1> QED BY <1>2, <1>3, <1>10, <1>11, <1>12, ScanGoesOn DEF f

LEMMA ScanInvStep ==
  ASSUME IInv, ScanInv, [Next]_vars
  PROVE  ScanInv'
<1> SUFFICES ASSUME NEW u \in Readers PROVE (Watching(u) => Halfway(u))'
  BY DEF ScanInv
<1>1. (Watching(u) => Halfway(u)) /\ u \in Threads /\ u # Web
  BY ThreadsDiffer DEF ScanInv
<1>2. ASSUME NEW t \in Threads \ {u}, Others(t) PROVE (Watching(u) => Halfway(u))'
  BY <1>1, <1>2, ScanFrame DEF Others
<1>3. CASE Add
  BY <1>1, <1>2, <1>3, AddLocal, ThreadsDiffer DEF IInv, Work
<1>4. CASE Sync
  <2>1. CASE u = Run
    <3>1. ~ pc'[u] \in {"scan", "scan-restore", "scan-insert"}
      BY <1>1, <1>4, <2>1 DEF Sync, StartSync, SyncKnown, SyncNew, SyncInserts, EndSync,
                              Syncing, Finish, Goto, IInv, Work, Locals
    <3> QED BY <3>1 DEF Watching
  <2>2. CASE u # Run
    BY <1>1, <1>2, <1>4, <2>2, SyncLocal, ThreadsDiffer DEF IInv, Work
  <2> QED BY <2>1, <2>2
<1>5. CASE Scans(u)
  <2>1. CASE StartScan(u)
    BY <2>1, StartScanStep
  <2>2. CASE ScanNothing(u) \/ EndScan(u)
    <3>1. pc'[u] = "idle"
      BY <1>1, <2>2, FinishLocal DEF ScanNothing, EndScan, IInv, Work
    <3> QED BY <3>1 DEF Watching
  <2>3. CASE \/ ScanSkips(u) \/ ScanKnown(u) \/ ScanRenames(u) \/ ScanRestores(u)
             \/ ScanNew(u) \/ ScanInserts(u)
    <3> SUFFICES ASSUME Watching(u)' PROVE Halfway(u)'
      OBVIOUS
    <3>1. Step(u) /\ pc[u] \in {"scan", "scan-restore", "scan-insert"}
      BY <2>3 DEF ScanSkips, ScanKnown, ScanRenames, ScanRestores, ScanNew, ScanInserts, Reads, Scanning
    <3>2. Watching(u)
      BY <1>1, <3>1, StepCalm DEF Watching, IInv, Work
    <3> QED BY <1>1, <2>3, <3>2, ScanSkipsStep, ScanKnownStep, ScanRenamesStep,
              ScanRestoresStep, ScanNewStep, ScanInsertsStep
  <2> QED BY <1>5, <2>1, <2>2, <2>3 DEF Scans
<1>6. ASSUME NEW t \in Readers, Scans(t), t # u PROVE (Watching(u) => Halfway(u))'
  BY <1>2, <1>6, ScanLocal, ThreadsDiffer DEF IInv, Work
<1>7. CASE Page \/ Outside \/ Crash
  BY <1>7 DEF Page, Outside, Crash, Disturb, Watching
<1>8. CASE UNCHANGED vars
  BY <1>1, <1>8, ScanFrame DEF vars, local, store, world
<1> QED BY <1>3, <1>4, <1>5, <1>6, <1>7, <1>8 DEF Next, Scan, Scans

\* What an undisturbed scan leaves behind.
LEMMA EndScanLeaves ==
  ASSUME IInv, ScanInv, NEW t \in Readers, EndScan(t), calm[t]
  PROVE  Catalogued'
<1>1. pc[t] = "scan" /\ todo[t] = <<>> /\ items' = Unavailable(Gone(t)) /\ disk' = disk
  BY DEF EndScan, world
<1>2. Halfway(t)
  BY <1>1 DEF ScanInv, Watching
<1>3. \A i \in DOMAIN items : items[i] \in Row
  BY DEF IInv, Table, Rows
<1>4. /\ DOMAIN items' = DOMAIN items
      /\ \A i \in DOMAIN items :
           /\ items'[i].path = items[i].path /\ items'[i].kind = items[i].kind
           /\ i \in Gone(t) => items'[i].ok = FALSE
           /\ (~ i \in Gone(t)) => items'[i].ok = items[i].ok
  BY <1>1, <1>3 DEF Unavailable, Row
<1>5. ASSUME NEW f \in DOMAIN disk
      PROVE  \E i \in DOMAIN items' : items'[i].path = f /\ (items'[i].kind = "FOLDER_FILE" => items'[i].ok)
  <2>1. ~ f \in Range(todo[t])
    BY <1>1 DEF Range
  <2>2. PICK i \in DOMAIN items :
           /\ items[i].path = f
           /\ items[i].kind = "FOLDER_FILE" => items[i].ok /\ items[i].key \in seen[t]
    BY <1>2, <2>1 DEF Halfway, Covered
  <2> QED BY <1>4, <2>2 DEF Gone
<1>6. ASSUME NEW i \in DOMAIN items', items'[i].kind = "FOLDER_FILE", items'[i].ok
      PROVE  items'[i].path \in DOMAIN disk
  <2>1. i \in DOMAIN items /\ items[i].kind = "FOLDER_FILE" /\ items[i].key \in seen[t]
    BY <1>4, <1>6 DEF Gone
  <2> QED BY <1>2, <1>4, <2>1 DEF Halfway
<1> QED BY <1>1, <1>5, <1>6 DEF Catalogued

LEMMA InitScan == Init => ScanInv
  BY ThreadsDiffer DEF Init, ScanInv, Watching

\* ScanAgrees holds of every step: after a scan that nobody disturbed every
\* file of the folder is some item's, and the scanned items that are available
\* are those whose file is there - whatever was renamed, copied, swapped or
\* lost since the last one, and however earlier additions were interrupted.
THEOREM ScanSound == Spec => ScanAgrees
<1>1. IInv /\ ScanInv /\ [Next]_vars
        => [ \A t \in Readers : EndScan(t) /\ calm[t] => Catalogued' ]_vars
  BY EndScanLeaves
<1>2. IInv /\ ScanInv /\ [Next]_vars => ScanInv'
  BY ScanInvStep
<1> QED BY <1>1, <1>2, InitScan, Shapes, PTL DEF Spec, ScanAgrees

============================================================================
