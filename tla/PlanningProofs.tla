--------------------------- MODULE PlanningProofs ---------------------------
(***************************************************************************)
(* Proofs about Planning. First what a loop computes (Recursion, Climb),   *)
(* and with it what the operators of rotation and fitting return, for      *)
(* every list: OrderedItems, FirstIsFirst, ChosenWell for choose_next,     *)
(* FillFits for fit_fill. Then the invariant Inv of a run that stages, and *)
(* the theorems.                                                           *)
(***************************************************************************)
EXTENDS Planning, FiniteSetTheorems, SequenceTheorems, WellFoundedInduction, TLAPS

\* A set of numbers that has 0 and with each number below n the next one has
\* all of them: a least one that it lacks would have one before it.
LEMMA Climb ==
  ASSUME NEW n \in Nat, NEW P, 0 \in P, \A i \in 1 .. n : i - 1 \in P => i \in P
  PROVE  \A i \in 0 .. n : i \in P
<1> DEFINE Less == OpToRel(<, Nat)
           Lacking == {i \in 0 .. n : i \notin P}
<1>1. IsWellFoundedOn(Less, Nat)
  BY NatLessThanWellFounded
<1>2. \A x, y \in Nat : <<x, y>> \in Less <=> x < y
  BY DEF OpToRel
<1>3. SUFFICES ASSUME Lacking # {} PROVE FALSE
  OBVIOUS
<1>4. PICK x \in Lacking : \A y \in Lacking : ~ (<<y, x>> \in Less)
  <2>1. Lacking \subseteq Nat
    OBVIOUS
  <2> HIDE DEF Less, Lacking
  <2> QED BY <1>1, <1>3, <2>1, WFMin
<1> HIDE DEF Less
<1>5. x \in 1 .. n /\ x - 1 \in 0 .. n /\ x - 1 \in Nat /\ x \in Nat /\ x - 1 < x
  BY <1>4
<1>6. x - 1 \in P
  BY <1>2, <1>4, <1>5
<1> QED BY <1>4, <1>5, <1>6

\* What a loop computes: a first value, and from each value the next one.
Loops(n, S, base, step) ==
  {f \in [0 .. n -> S] : f[0] = base /\ \A i \in 1 .. n : f[i] = step[i][f[i - 1]]}

\* Such a loop has values, whatever its base and steps.
LEMMA Recursion ==
  ASSUME NEW n \in Nat, NEW S, NEW base \in S, NEW step \in [1 .. n -> [S -> S]]
  PROVE  \E f : f \in Loops(n, S, base, step)
<1> DEFINE Upto(m) == Loops(m, S, base, step)
           P == {m \in 0 .. n : \E f : f \in Upto(m)}
<1> USE DEF Loops
<1>1. 0 \in P
  <2>1. [i \in 0 .. 0 |-> base] \in Upto(0)
    OBVIOUS
  <2> QED BY <2>1
<1>2. \A m \in 1 .. n : m - 1 \in P => m \in P
  <2> SUFFICES ASSUME NEW m \in 1 .. n, m - 1 \in P PROVE m \in P
    OBVIOUS
  <2>1. PICK f : f \in Upto(m - 1)
    OBVIOUS
  <2> DEFINE g == [i \in 0 .. m |-> IF i = m THEN step[m][f[m - 1]] ELSE f[i]]
  <2>2. /\ f \in [0 .. m - 1 -> S] /\ f[0] = base
        /\ \A i \in 1 .. m - 1 : f[i] = step[i][f[i - 1]]
    BY <2>1
  <2>3. /\ g \in [0 .. m -> S] /\ g[0] = base /\ g[m] = step[m][f[m - 1]]
        /\ \A i \in 0 .. m - 1 : g[i] = f[i]
    <3>1. f[m - 1] \in S /\ step[m] \in [S -> S]
      BY <2>2
    <3> QED BY <2>2, <3>1
  <2> HIDE DEF g
  <2>4. \A i \in 1 .. m : g[i] = step[i][g[i - 1]]
    <3> TAKE i \in 1 .. m
    <3>1. i - 1 \in 0 .. m - 1 /\ g[i - 1] = f[i - 1]
      BY <2>3
    <3> QED BY <2>2, <2>3, <3>1
  <2> QED BY <2>3, <2>4
<1> HIDE DEF P
<1>3. \A i \in 0 .. n : i \in P
  BY <1>1, <1>2, Climb
<1> QED BY <1>3 DEF P

-----------------------------------------------------------------------------
(* Rotation *)

\* Items of Eligible(S): in ascending order, each once, and no others.
LEMMA EligibleItems ==
  ASSUME enabled \subseteq Items, NEW S
  PROVE  /\ Eligible(S) \in Seq(Items) /\ Len(Eligible(S)) <= N
         /\ IsInjective(Eligible(S)) /\ ToSet(Eligible(S)) = enabled \cap S
<1> DEFINE step == [n \in 1 .. N |-> [s \in Seq(Items) |-> IF n \in enabled \cap S THEN Append(s, n) ELSE s]]
           Loop(f) == f = [n \in 0 .. N |-> IF n = 0 THEN <<>>
                                            ELSE IF n \in enabled \cap S THEN Append(f[n - 1], n) ELSE f[n - 1]]
           among == CHOOSE f : Loop(f)
<1>0. N \in Nat /\ Items = 1 .. N
  BY LibraryAssumption DEF Items
<1>1. Eligible(S) = among[N]
  BY DEF Eligible
<1>2. /\ among[0] = <<>>
      /\ \A n \in 1 .. N : among[n] = IF n \in enabled \cap S THEN Append(among[n - 1], n) ELSE among[n - 1]
  <2>1. step \in [1 .. N -> [Seq(Items) -> Seq(Items)]]
    <3>1. \A n \in Items, s \in Seq(Items) : Append(s, n) \in Seq(Items)
      BY AppendProperties
    <3> QED BY <1>0, <3>1
  <2>2. PICK f \in [0 .. N -> Seq(Items)] :
           f[0] = <<>> /\ \A n \in 1 .. N : f[n] = step[n][f[n - 1]]
    <3> DEFINE Values == Seq(Items)
    <3>1. <<>> \in Values
      OBVIOUS
    <3> HIDE DEF step, Values
    <3>2. step \in [1 .. N -> [Values -> Values]] /\ N \in Nat
      BY <1>0, <2>1 DEF Values
    <3>3. PICK f : f \in Loops(N, Values, <<>>, step)
      BY <3>1, <3>2, Recursion
    <3> QED BY <3>3 DEF Values, Loops
  <2>3. Loop(f)
    <3>1. \A n \in 1 .. N : n - 1 \in 0 .. N /\ f[n - 1] \in Seq(Items)
      BY <1>0, <2>2
    <3>2. \A n \in 1 .. N : \A s \in Seq(Items) :
             step[n][s] = IF n \in enabled \cap S THEN Append(s, n) ELSE s
      OBVIOUS
    <3> HIDE DEF step
    <3>3. \A n \in 0 .. N : f[n] = IF n = 0 THEN <<>>
                                  ELSE IF n \in enabled \cap S THEN Append(f[n - 1], n) ELSE f[n - 1]
      <4> TAKE n \in 0 .. N
      <4>1. CASE n = 0
        BY <2>2, <4>1
      <4>2. CASE n # 0
        <5>1. n \in 1 .. N
          BY <1>0, <4>2
        <5> QED BY <2>2, <3>1, <3>2, <4>2, <5>1
      <4> QED BY <4>1, <4>2
    <3> QED BY <2>2, <3>3
  <2>4. Loop(among)
    BY <2>3
  <2> HIDE DEF among
  <2>5. \A n \in 0 .. N : among[n] = IF n = 0 THEN <<>>
                                 ELSE IF n \in enabled \cap S THEN Append(among[n - 1], n) ELSE among[n - 1]
    BY <2>4, Zenon
  <2>6. 0 \in 0 .. N /\ \A n \in 1 .. N : n \in 0 .. N /\ n # 0
    BY <1>0
  <2> QED BY <2>5, <2>6, Zenon
<1> HIDE DEF among, step, Loop
<1> DEFINE Right(n) == /\ among[n] \in Seq(Items) /\ Len(among[n]) <= n
                       /\ \A k \in 1 .. Len(among[n]) : among[n][k] \in enabled \cap S /\ among[n][k] <= n
                       /\ \A j, k \in 1 .. Len(among[n]) : j < k => among[n][j] < among[n][k]
                       /\ \A i \in 1 .. n : i \in enabled \cap S =>
                              \E k \in 1 .. Len(among[n]) : among[n][k] = i
           P == {n \in 0 .. N : Right(n)}
<1>3. 0 \in P
  <2>1. Right(0)
    BY <1>2
  <2> QED BY <1>0, <2>1
<1>4. \A n \in 1 .. N : n - 1 \in P => n \in P
  <2> SUFFICES ASSUME NEW n \in 1 .. N, n - 1 \in P PROVE n \in P
    OBVIOUS
  <2>0. Right(n - 1)
    OBVIOUS
  <2>1. n \in Nat /\ n \in Items /\ n \in 0 .. N
    BY <1>0
  <2> SUFFICES Right(n)
    BY <2>1
  <2> HIDE DEF P
  <2> DEFINE s == among[n - 1]
  <2>2. /\ s \in Seq(Items) /\ Len(s) <= n - 1 /\ Len(s) \in Nat
        /\ \A k \in 1 .. Len(s) : s[k] \in enabled \cap S /\ s[k] <= n - 1 /\ s[k] \in Nat
        /\ \A j, k \in 1 .. Len(s) : j < k => s[j] < s[k]
        /\ \A i \in 1 .. n - 1 : i \in enabled \cap S => \E k \in 1 .. Len(s) : s[k] = i
    BY <1>0, <2>0
  <2>3. among[n] = IF n \in enabled \cap S THEN Append(s, n) ELSE s
    BY <1>2, Zenon
  <2> HIDE DEF s
  <2>4. CASE n \in enabled \cap S
    <3> DEFINE t == Append(s, n)
    <3>1. /\ t \in Seq(Items) /\ Len(t) = Len(s) + 1 /\ t[Len(s) + 1] = n
          /\ \A k \in 1 .. Len(s) : t[k] = s[k]
      BY <2>1, <2>2, AppendProperties
    <3>2. among[n] = t
      BY <2>3, <2>4
    <3> HIDE DEF t
    <3>3. \A k \in 1 .. Len(t) : k \in 1 .. Len(s) \/ k = Len(s) + 1
      BY <2>2, <3>1
    <3>4. \A k \in 1 .. Len(t) : t[k] \in enabled \cap S /\ t[k] <= n
      BY <2>1, <2>2, <2>4, <3>1, <3>3
    <3>5. \A j, k \in 1 .. Len(t) : j < k => t[j] < t[k]
      <4> TAKE j \in 1 .. Len(t), k \in 1 .. Len(t)
      <4> HAVE j < k
      <4>1. j \in 1 .. Len(s)
        BY <2>2, <3>1, <3>3
      <4> QED BY <2>1, <2>2, <3>1, <3>3, <4>1
    <3>6. \A i \in 1 .. n : i \in enabled \cap S => \E k \in 1 .. Len(t) : t[k] = i
      <4> TAKE i \in 1 .. n
      <4>1. CASE i = n
        <5>1. Len(s) + 1 \in 1 .. Len(t)
          BY <2>2, <3>1
        <5> QED BY <3>1, <4>1, <5>1
      <4>2. CASE i # n
        <5>1. i \in 1 .. n - 1 /\ \A k \in 1 .. Len(s) : k \in 1 .. Len(t)
          BY <2>1, <2>2, <3>1, <4>2
        <5> QED BY <2>2, <3>1, <5>1
      <4> QED BY <4>1, <4>2
    <3> QED BY <2>1, <2>2, <3>1, <3>2, <3>4, <3>5, <3>6
  <2>5. CASE n \notin enabled \cap S
    <3>1. among[n] = s
      BY <2>3, <2>5
    <3>2. \A i \in 1 .. n : i \in enabled \cap S => i \in 1 .. n - 1
      BY <2>1, <2>5
    <3> QED BY <2>1, <2>2, <3>1, <3>2
  <2> QED BY <2>4, <2>5
<1>5. Right(N)
  <2>1. \A n \in 0 .. N : n \in P
    <3> HIDE DEF P
    <3> QED BY <1>0, <1>3, <1>4, Climb
  <2>2. N \in P
    <3> HIDE DEF P
    <3> QED BY <1>0, <2>1
  <2> HIDE DEF Right
  <2> QED BY <2>2
<1> QED
  <2> DEFINE e == among[N]
  <2>1. /\ e \in Seq(Items) /\ Len(e) <= N /\ DOMAIN e = 1 .. Len(e) /\ Len(e) \in Nat
        /\ \A k \in 1 .. Len(e) : e[k] \in enabled \cap S /\ e[k] \in Nat
        /\ \A j, k \in 1 .. Len(e) : j < k => e[j] < e[k]
        /\ \A i \in enabled \cap S : \E k \in 1 .. Len(e) : e[k] = i
    BY <1>0, <1>5
  <2> HIDE DEF e
  <2>2. IsInjective(e)
    BY <2>1 DEF IsInjective
  <2>3. ToSet(e) = enabled \cap S
    BY <2>1 DEF ToSet
  <2> QED BY <1>1, <2>1, <2>2, <2>3 DEF e

\* The same stories, each once, in some other order.
Reordered(s, t) == /\ s \in Seq(Items) /\ Len(s) = Len(t)
                   /\ IsInjective(s) /\ ToSet(s) = ToSet(t)

\* Turning a list keeps its stories and begins with the one at the turn.
LEMMA TurnedItems ==
  ASSUME NEW s \in Seq(Items), IsInjective(s), NEW k \in Nat, k < Len(s)
  PROVE  Reordered(Turned(s, k), s) /\ Turned(s, k)[1] = s[k + 1]
<1> DEFINE n == Len(s)
           at(j) == IF j + k <= n THEN j + k ELSE (j + k) - n
           t == [j \in 1 .. n |-> s[at(j)]]
<1>1. n \in Nat /\ DOMAIN s = 1 .. n /\ \A j \in 1 .. n : s[j] \in Items
  OBVIOUS
<1>2. Turned(s, k) = t
  BY <1>1 DEF Turned
<1>3. \A j \in 1 .. n : at(j) \in 1 .. n
  BY <1>1
<1>4. \A i, j \in 1 .. n : at(i) = at(j) => i = j
  BY <1>1
<1>5. \A m \in 1 .. n : \E j \in 1 .. n : at(j) = m
  <2> TAKE m \in 1 .. n
  <2>1. CASE m > k
    <3>1. m - k \in 1 .. n /\ at(m - k) = m
      BY <1>1, <2>1
    <3> QED BY <3>1
  <2>2. CASE m <= k
    <3>1. (m + n) - k \in 1 .. n /\ at((m + n) - k) = m
      BY <1>1, <2>2
    <3> QED BY <3>1
  <2> QED BY <1>1, <2>1, <2>2
<1>6. 1 \in 1 .. n /\ at(1) = k + 1
  BY <1>1
<1> HIDE DEF at, n
<1>7. t \in [1 .. n -> Items]
  BY <1>1, <1>3
<1>8. t \in Seq(Items) /\ Len(t) = n /\ DOMAIN t = 1 .. n
  BY <1>1, <1>7, SeqDef
<1>9. IsInjective(t)
  BY <1>1, <1>3, <1>4, <1>8 DEF IsInjective
<1>10. ToSet(t) = ToSet(s)
  <2>1. \A x \in ToSet(t) : x \in ToSet(s)
    BY <1>1, <1>3, <1>8 DEF ToSet
  <2>2. \A x \in ToSet(s) : x \in ToSet(t)
    <3> TAKE x \in ToSet(s)
    <3>1. PICK m \in 1 .. n : s[m] = x
      BY <1>1 DEF ToSet
    <3>2. PICK j \in 1 .. n : at(j) = m
      BY <1>5
    <3> QED BY <1>8, <3>1, <3>2 DEF ToSet
  <2> QED BY <2>1, <2>2
<1>11. t[1] = s[k + 1]
  BY <1>6
<1> QED BY <1>2, <1>8, <1>9, <1>10, <1>11 DEF Reordered, n

\* So does shuffling it: the permutation is one of its places.
LEMMA ShuffledItems ==
  ASSUME NEW e \in Seq(Items), IsInjective(e), Len(e) \in Items
  PROVE  Reordered([k \in DOMAIN e |-> e[Shuffled[Len(e)][k]]], e)
<1> DEFINE n == Len(e)
           f == Shuffled[n]
           t == [k \in DOMAIN e |-> e[f[k]]]
<1>1. n \in Nat /\ DOMAIN e = 1 .. n /\ \A j \in 1 .. n : e[j] \in Items
  OBVIOUS
<1>2. f \in [1 .. n -> 1 .. n] /\ IsInjective(f)
  BY ShuffleAssumption
<1> HIDE DEF n, f
<1>3. f \in Surjection(1 .. n, 1 .. n)
  <2>1. IsFiniteSet(1 .. n)
    BY <1>1, FS_Interval
  <2>2. f \in Injection(1 .. n, 1 .. n)
    BY <1>2, Zenon DEF Injection
  <2> QED BY <2>1, <2>2, FS_Injection
<1>4. \A m \in 1 .. n : \E k \in 1 .. n : f[k] = m
  BY <1>3 DEF Surjection
<1>5. \A j, k \in 1 .. n : f[j] = f[k] => j = k
  BY <1>2 DEF IsInjective
<1>6. t \in [1 .. n -> Items]
  BY <1>1, <1>2
<1>7. t \in Seq(Items) /\ Len(t) = n /\ DOMAIN t = 1 .. n
  BY <1>1, <1>6, SeqDef
<1>8. IsInjective(t)
  BY <1>1, <1>2, <1>5, <1>7 DEF IsInjective
<1>9. ToSet(t) = ToSet(e)
  <2>1. \A x \in ToSet(t) : x \in ToSet(e)
    BY <1>1, <1>2, <1>7 DEF ToSet
  <2>2. \A x \in ToSet(e) : x \in ToSet(t)
    <3> TAKE x \in ToSet(e)
    <3>1. PICK m \in 1 .. n : e[m] = x
      BY <1>1 DEF ToSet
    <3>2. PICK k \in 1 .. n : f[k] = m
      BY <1>4
    <3> QED BY <1>1, <1>7, <3>1, <3>2 DEF ToSet
  <2> QED BY <2>1, <2>2
<1> QED BY <1>7, <1>8, <1>9 DEF Reordered, n, f

\* order_for: the eligible stories, each once.
LEMMA OrderedItems ==
  ASSUME NEW e \in Seq(Items), IsInjective(e), Len(e) <= N, e # <<>>, NEW c \in Nat, NEW ord
  PROVE  Reordered(OrderFor(c, ord, e), e)
<1> DEFINE perm == IF ord = "shuffle" THEN [k \in DOMAIN e |-> e[Shuffled[Len(e)][k]]] ELSE e
<1>1. Len(e) \in Items /\ Len(e) \in Nat /\ Len(e) > 0
  BY LibraryAssumption, EmptySeq DEF Items
<1>2. Reordered(perm, e)
  BY <1>1, ShuffledItems DEF Reordered
<1>3. c % Len(e) \in Nat /\ c % Len(e) < Len(e)
  BY <1>1
<1>4. OrderFor(c, ord, e) = Turned(perm, c % Len(e))
  BY DEF OrderFor
<1> HIDE DEF perm
<1>5. Reordered(Turned(perm, c % Len(e)), perm)
  BY <1>2, <1>3, TurnedItems DEF Reordered
<1> QED BY <1>2, <1>4, <1>5 DEF Reordered

\* _rotate_to: the same stories, beginning with the given one.
LEMMA RotatedItems ==
  ASSUME NEW s \in Seq(Items), IsInjective(s), NEW i \in ToSet(s)
  PROVE  Reordered(RotateTo(s, i), s) /\ RotateTo(s, i)[1] = i
<1> DEFINE k == CHOOSE k \in DOMAIN s : s[k] = i
<1>1. k \in DOMAIN s /\ s[k] = i
  BY DEF ToSet
<1>2. RotateTo(s, i) = Turned(s, k - 1)
  BY DEF RotateTo
<1> HIDE DEF k
<1>3. k - 1 \in Nat /\ k - 1 < Len(s) /\ (k - 1) + 1 = k
  BY <1>1
<1> QED BY <1>1, <1>2, <1>3, TurnedItems

\* The first story that is not barred, if one is not.
LEMMA FirstIsFirst ==
  ASSUME NEW s \in Seq(Items), NEW blocked, ~ ToSet(s) \subseteq blocked
  PROVE  \E k \in DOMAIN s : /\ FirstAllowed(s, blocked) = s[k] /\ s[k] \notin blocked
                           /\ \A j \in 1 .. k - 1 : s[j] \in blocked
<1> DEFINE First(k) == s[k] \notin blocked /\ \A j \in 1 .. k - 1 : s[j] \in blocked
           P == {m \in 0 .. Len(s) : \A j \in 1 .. m : s[j] \in blocked}
<1>1. DOMAIN s = 1 .. Len(s) /\ Len(s) \in Nat
  OBVIOUS
<1>2. \E k \in DOMAIN s : First(k)
  <2> SUFFICES ASSUME \A k \in DOMAIN s : ~ First(k) PROVE FALSE
    OBVIOUS
  <2>1. 0 \in P
    BY <1>1
  <2>2. \A i \in 1 .. Len(s) : i - 1 \in P => i \in P
    <3> SUFFICES ASSUME NEW i \in 1 .. Len(s), i - 1 \in P PROVE \A j \in 1 .. i : s[j] \in blocked
      BY <1>1
    <3>1. \A j \in 1 .. i - 1 : s[j] \in blocked
      OBVIOUS
    <3>2. s[i] \in blocked
      BY <1>1, <3>1
    <3>3. \A j \in 1 .. i : j \in 1 .. i - 1 \/ j = i
      BY <1>1
    <3> QED BY <3>1, <3>2, <3>3
  <2> HIDE DEF P
  <2>3. \A i \in 0 .. Len(s) : i \in P
    BY <1>1, <2>1, <2>2, Climb
  <2>4. \A j \in 1 .. Len(s) : s[j] \in blocked
    BY <1>1, <2>3 DEF P
  <2> QED BY <1>1, <2>4 DEF ToSet
<1> DEFINE k == CHOOSE k \in DOMAIN s : First(k)
<1>3. k \in DOMAIN s /\ First(k) /\ FirstAllowed(s, blocked) = s[k]
  BY <1>2 DEF FirstAllowed
<1> HIDE DEF k
<1> QED BY <1>3

\* What is left of what is barred bars not everything, and as little as the
\* ladder allows.
LEMMA LadderEnds ==
  ASSUME NEW s \in Seq(Items), s # <<>>, NEW cool, NEW unique
  PROVE  ~ ToSet(s) \subseteq Relaxed(s, cool, unique)
<1>1. s[1] \in ToSet(s)
  BY EmptySeq DEF ToSet
<1> QED BY <1>1 DEF Relaxed

\* choose_next decides what WellChosen says, whatever was recently held.
LEMMA ChosenWell ==
  ASSUME NEW a \in Tonies, cursor[a] \in Nat, NEW asg, NEW cool,
         NEW e \in Seq(Items), IsInjective(e), Len(e) <= N, e # <<>>
  PROVE  LET p == ChooseNext(a, asg, cursor[a], e, cool)
         IN  p.items \in Seq(Items) /\ WellChosen(a, asg, e, p, cool)
<1> DEFINE ordered == OrderFor(cursor[a], asg.order, e)
           pin == PinActive(asg, e)
           start == IF pin THEN RotateTo(ordered, asg.pinned) ELSE ordered
           unique == IF avoid THEN LoadedElsewhere(a) ELSE {}
           p == ChooseNext(a, asg, cursor[a], e, cool)
<1>1. Reordered(ordered, e)
  BY OrderedItems
<1>2. Len(e) \in Nat /\ Len(e) > 0
  BY EmptySeq
<1>3. Mode[a] \in {"single", "serial", "album"}
  BY ModeAssumption
<1> SUFFICES p.items \in Seq(Items) /\ WellChosen(a, asg, e, p, cool)
  OBVIOUS
<1>4. CASE Mode[a] = "album"
  <2>1. p = [items |-> e, rotates |-> FALSE]
    BY <1>4 DEF ChooseNext
  <2> QED BY <1>2, <1>4, <2>1 DEF WellChosen
<1>5. CASE Mode[a] = "serial"
  <2>1. p = [items |-> start, rotates |-> ~ pin]
    BY <1>5 DEF ChooseNext
  <2> HIDE DEF ordered, p
  <2>2. Reordered(start, e) /\ (pin => start[1] = asg.pinned)
    BY <1>1, RotatedItems DEF Reordered, PinActive
  <2> HIDE DEF start
  <2>3. start # <<>>
    BY <1>2, <2>2, EmptySeq DEF Reordered
  <2>4. p.items = start /\ (p.rotates <=> ~ pin)
    BY <2>1 DEF PinActive
  <2> QED BY <1>2, <1>5, <2>2, <2>3, <2>4 DEF WellChosen, Reordered
<1>6. CASE Mode[a] = "single" /\ pin
  <2>1. p = [items |-> <<asg.pinned>>, rotates |-> FALSE]
    BY <1>6 DEF ChooseNext
  <2>2. asg.pinned \in ToSet(e) /\ ToSet(e) \subseteq Items
    BY <1>6 DEF PinActive, ToSet
  <2> QED BY <1>6, <2>1, <2>2 DEF WellChosen, ToSet
<1>7. CASE Mode[a] = "single" /\ ~ pin
  <2> DEFINE blocked == Relaxed(ordered, cool, unique)
  <2>1. p = [items |-> <<FirstAllowed(ordered, blocked)>>, rotates |-> TRUE]
    BY <1>7 DEF ChooseNext
  <2> HIDE DEF ordered, p
  <2>2. ordered \in Seq(Items) /\ ordered # <<>> /\ ToSet(ordered) = ToSet(e)
    BY <1>1, <1>2, EmptySeq DEF Reordered
  <2>3. PICK k \in DOMAIN ordered : /\ FirstAllowed(ordered, blocked) = ordered[k]
                                    /\ ordered[k] \notin blocked
                                    /\ \A j \in 1 .. k - 1 : ordered[j] \in blocked
    BY <2>2, LadderEnds, FirstIsFirst
  <2> DEFINE x == ordered[k]
  <2>4. /\ DOMAIN ordered = 1 .. Len(ordered) /\ Len(ordered) \in Nat
        /\ x \in ToSet(e) /\ x \in Items
        /\ \A j \in DOMAIN ordered : ordered[j] \in ToSet(ordered)
    <3>1. DOMAIN ordered = 1 .. Len(ordered) /\ Len(ordered) \in Nat /\ \A j \in DOMAIN ordered : ordered[j] \in Items
      BY <2>2
    <3>2. \A j \in DOMAIN ordered : ordered[j] \in ToSet(ordered)
      BY DEF ToSet
    <3> QED BY <2>2, <2>3, <3>1, <3>2
  <2>5. \A j \in DOMAIN ordered : ordered[j] = x => j = k
    BY <1>1, <2>4 DEF Reordered, IsInjective
  <2>6. (CHOOSE m \in DOMAIN ordered : ordered[m] = x) = k
    BY <2>5
  <2>7. \A j \in DOMAIN ordered : \/ Grade(a, ordered[j], cool) > Grade(a, x, cool)
                                  \/ Grade(a, ordered[j], cool) = Grade(a, x, cool) /\ j >= k
    <3> TAKE j \in DOMAIN ordered
    <3> DEFINE y == ordered[j]
    <3>1. y \in ToSet(ordered) /\ x \in ToSet(ordered) /\ (j >= k \/ y \in blocked) /\ x \notin blocked
      BY <2>2, <2>3, <2>4
    <3>0. \A i \in {x, y} : Grade(a, i, cool) = IF i \in unique THEN 2 ELSE IF i \in cool THEN 1 ELSE 0
      BY DEF Grade
    <3>1a. blocked = IF ~ ToSet(ordered) \subseteq cool \cup unique THEN cool \cup unique
                     ELSE IF ~ ToSet(ordered) \subseteq unique THEN unique ELSE {}
      BY DEF Relaxed
    <3> HIDE DEF x, y, blocked, unique
    <3>5. \/ Grade(a, y, cool) > Grade(a, x, cool)
          \/ Grade(a, y, cool) = Grade(a, x, cool) /\ j >= k
      <4>2. CASE blocked = cool \cup unique
        BY <3>0, <3>1, <4>2
      <4>3. CASE ToSet(ordered) \subseteq cool \cup unique /\ blocked = unique
        BY <3>0, <3>1, <4>3
      <4>4. CASE ToSet(ordered) \subseteq unique /\ blocked = {}
        BY <3>0, <3>1, <4>4
      <4> QED BY <3>1a, <4>2, <4>3, <4>4
    <3> QED BY <3>5 DEF y
  <2>8. p.items = <<x>> /\ p.rotates = TRUE
    BY <2>1, <2>3
  <2> HIDE DEF x
  <2>9. p.items \in Seq(Items) /\ p.items # <<>> /\ ToSet(p.items) = {x} /\ Len(p.items) = 1
        /\ p.items[1] = x
    BY <2>4, <2>8 DEF ToSet
  <2> QED BY <1>7, <2>4, <2>6, <2>7, <2>8, <2>9 DEF WellChosen, ordered, x
<1> QED BY <1>3, <1>4, <1>5, <1>6, <1>7

-----------------------------------------------------------------------------
(* Fitting *)

\* A running sum, step by step, is what Total computes.
Sums(s) == {h \in [0 .. Len(s) -> Nat] : h[0] = 0 /\ \A i \in 1 .. Len(s) : h[i] = h[i - 1] + s[i]}

LEMMA TotalUnique ==
  ASSUME NEW s \in Seq(Nat), NEW h \in Sums(s)
  PROVE  Total(s) = h[Len(s)]
<1> DEFINE n == Len(s)
           Loop(f) == f = [m \in 0 .. n |-> IF m = 0 THEN 0 ELSE f[m - 1] + s[m]]
           sum == CHOOSE f : Loop(f)
           P == {m \in 0 .. n : sum[m] = h[m]}
<1>0. n \in Nat /\ h \in [0 .. n -> Nat] /\ h[0] = 0 /\ \A i \in 1 .. n : h[i] = h[i - 1] + s[i]
  BY DEF Sums
<1>1. Total(s) = sum[n]
  BY DEF Total
<1>2. Loop(h)
  <2>1. \A m \in 0 .. n : h[m] = IF m = 0 THEN 0 ELSE h[m - 1] + s[m]
    BY <1>0
  <2> HIDE DEF n
  <2> QED BY <1>0, <2>1
<1>3. Loop(sum)
  BY <1>2
<1> HIDE DEF sum, n
<1>4. \A m \in 0 .. n : sum[m] = IF m = 0 THEN 0 ELSE sum[m - 1] + s[m]
  BY <1>3, Zenon
<1>5. 0 \in P
  BY <1>0, <1>4
<1>6. \A m \in 1 .. n : m - 1 \in P => m \in P
  <2> TAKE m \in 1 .. n
  <2>1. m \in 0 .. n /\ m # 0
    BY <1>0
  <2> QED BY <1>0, <1>4, <2>1
<1> HIDE DEF P
<1>7. \A i \in 0 .. n : i \in P
  <2>1. n \in Nat
    BY <1>0
  <2> QED BY <1>5, <1>6, <2>1, Climb
<1>8. n \in P
  BY <1>0, <1>7
<1> QED BY <1>1, <1>8 DEF P, n

\* ... and there is one.
LEMMA SumsExist ==
  ASSUME NEW s \in Seq(Nat)
  PROVE  \E h : h \in Sums(s)
<1> DEFINE n == Len(s)
           step == [i \in 1 .. n |-> [x \in Nat |-> x + s[i]]]
<1>1. n \in Nat /\ \A i \in 1 .. n : s[i] \in Nat
  OBVIOUS
<1>2. step \in [1 .. n -> [Nat -> Nat]]
  BY <1>1
<1>3. \A i \in 1 .. n : \A x \in Nat : step[i][x] = x + s[i]
  OBVIOUS
<1> HIDE DEF step, n
<1>4. PICK h : h \in Loops(n, Nat, 0, step)
  BY <1>1, <1>2, Recursion
<1>5. h \in [0 .. n -> Nat] /\ h[0] = 0 /\ \A i \in 1 .. n : h[i] = step[i][h[i - 1]]
  BY <1>4 DEF Loops
<1>6. \A i \in 1 .. n : h[i] = h[i - 1] + s[i]
  <2> TAKE i \in 1 .. n
  <2>1. i - 1 \in 0 .. n /\ h[i - 1] \in Nat
    BY <1>1, <1>5
  <2> QED BY <1>3, <1>5, <2>1
<1> QED BY <1>5, <1>6 DEF Sums, n

\* Nothing adds up to 0.
LEMMA TotalOfNone == Total(<<>>) = 0
<1>1. [i \in 0 .. 0 |-> 0] \in Sums(<<>>)
  BY DEF Sums
<1> QED BY <1>1, TotalUnique

\* One more adds itself.
LEMMA TotalOfMore ==
  ASSUME NEW s \in Seq(Nat), NEW x \in Nat
  PROVE  Total(s) \in Nat /\ Total(Append(s, x)) = Total(s) + x
<1> DEFINE t == Append(s, x)
           n == Len(s)
<1>1. /\ t \in Seq(Nat) /\ Len(t) = n + 1 /\ t[n + 1] = x /\ n \in Nat
      /\ \A i \in 1 .. n : t[i] = s[i]
  BY AppendProperties
<1> HIDE DEF t
<1>2. PICK h : h \in Sums(t)
  BY <1>1, SumsExist
<1>3. h \in [0 .. n + 1 -> Nat] /\ h[0] = 0 /\ \A i \in 1 .. n + 1 : h[i] = h[i - 1] + t[i]
  BY <1>1, <1>2 DEF Sums
<1> DEFINE g == [i \in 0 .. n |-> h[i]]
<1>4. g \in Sums(s)
  <2>1. g \in [0 .. n -> Nat] /\ g[0] = 0
    BY <1>1, <1>3
  <2>2. \A i \in 1 .. n : g[i] = g[i - 1] + s[i]
    BY <1>1, <1>3
  <2> QED BY <2>1, <2>2 DEF Sums
<1>5. Total(s) = h[n] /\ h[n] \in Nat
  <2>1. g[n] = h[n] /\ h[n] \in Nat
    BY <1>1, <1>3
  <2> HIDE DEF g
  <2> QED BY <1>4, <2>1, TotalUnique
<1>6. Total(t) = h[n + 1]
  BY <1>1, <1>2, TotalUnique
<1>7. h[n + 1] = h[n] + x
  BY <1>1, <1>3
<1> QED BY <1>5, <1>6, <1>7 DEF t

\* fit_fill, as far as it has come after n candidates: r is what it has made
\* of them.
Packed(c, n, r) ==
    LET m == Len(r.pieces) IN
    /\ m <= n /\ m <= MaxChapters
    /\ \A k \in 1 .. m : r.pieces[k].item = c[k]
    /\ Taken(r.pieces) + r.left = cap
    /\ \A k \in 1 .. m : \/ r.pieces[k].take = Dur[c[k]]
                         \/ k = m /\ r.pieces[k].take < Dur[c[k]] /\ r.left = 0 /\ r.stopped
    /\ ~ r.stopped => m = n /\ r.left > 0 /\ m < MaxChapters
    /\ r.stopped => /\ m >= 1
                    /\ \/ r.left = 0
                       \/ m = MaxChapters
                       \/ ~ PartialTail /\ m < n /\ Dur[c[m + 1]] > r.left

Loads == [pieces : Seq([item : Items, take : Nat]), left : Nat, stopped : BOOLEAN]

\* A piece more takes what it takes.
LEMMA TakenMore ==
  ASSUME NEW ps \in Seq([item : Items, take : Nat]), NEW i \in Items, NEW x \in Nat
  PROVE  /\ Taken(ps) \in Nat /\ Taken(Append(ps, [item |-> i, take |-> x])) = Taken(ps) + x
<1> DEFINE q == Append(ps, [item |-> i, take |-> x])
           s == [k \in DOMAIN ps |-> ps[k].take]
           t == [k \in DOMAIN q |-> q[k].take]
           n == Len(ps)
<1>1. /\ n \in Nat /\ DOMAIN ps = 1 .. n /\ \A k \in 1 .. n : ps[k] \in [item : Items, take : Nat]
      /\ Len(q) = n + 1 /\ DOMAIN q = 1 .. n + 1 /\ q[n + 1] = [item |-> i, take |-> x]
      /\ \A k \in 1 .. n : q[k] = ps[k]
  <2> DEFINE R == [item : Items, take : Nat]
             r == [item |-> i, take |-> x]
  <2>1. ps \in Seq(R) /\ r \in R
    OBVIOUS
  <2> HIDE DEF R, r
  <2>2. /\ n \in Nat /\ DOMAIN ps = 1 .. n /\ \A k \in 1 .. n : ps[k] \in R
    BY <2>1
  <2>3. Append(ps, r) \in Seq(R) /\ Len(Append(ps, r)) = n + 1 /\ Append(ps, r)[n + 1] = r
        /\ \A k \in 1 .. n : Append(ps, r)[k] = ps[k]
    BY <2>1, AppendProperties
  <2>4. DOMAIN Append(ps, r) = 1 .. n + 1
    BY <2>3
  <2> QED BY <2>2, <2>3, <2>4 DEF r, R
<1>2. Taken(ps) = Total(s) /\ Taken(q) = Total(t)
  BY DEF Taken
<1> HIDE DEF q
<1>3. s \in Seq(Nat) /\ Len(s) = n /\ DOMAIN s = 1 .. n
  <2>1. s \in [1 .. n -> Nat]
    BY <1>1
  <2> QED BY <1>1, <2>1, SeqDef
<1>4. t \in Seq(Nat) /\ Len(t) = n + 1 /\ DOMAIN t = 1 .. n + 1
  <2>1. \A k \in 1 .. n + 1 : k \in 1 .. n \/ k = n + 1
    BY <1>1
  <2>2. t \in [1 .. n + 1 -> Nat]
    BY <1>1, <2>1
  <2> QED BY <1>1, <2>2, SeqDef
<1>5. t = Append(s, x)
  <2> DEFINE u == Append(s, x)
  <2>1. u \in Seq(Nat) /\ Len(u) = n + 1 /\ u[n + 1] = x /\ \A k \in 1 .. n : u[k] = s[k]
    BY <1>3, AppendProperties
  <2>2. \A k \in 1 .. n : t[k] = s[k]
    BY <1>1
  <2>3. t[n + 1] = x
    BY <1>1
  <2> HIDE DEF t, s, u
  <2>4. \A k \in 1 .. Len(t) : t[k] = u[k]
    BY <1>1, <1>4, <2>1, <2>2, <2>3
  <2>5. t = u
    BY <1>4, <2>1, <2>4, SeqEqual
  <2> QED BY <2>5 DEF u
<1> HIDE DEF s, t
<1> QED BY <1>2, <1>3, <1>5, TotalOfMore DEF q

\* One candidate more, and what was made of them is still as Packed says.
LEMMA PackKeeps ==
  ASSUME NEW c \in Seq(Items), NEW n \in 1 .. Len(c), cap \in Nat, NEW r \in Loads, Packed(c, n - 1, r)
  PROVE  Pack(r, c[n]) \in Loads /\ Packed(c, n, Pack(r, c[n]))
<1> DEFINE R == [item : Items, take : Nat]
           i == c[n]
           m == Len(r.pieces)
           q == Pack(r, i)
<1>0. /\ n \in Nat /\ i \in Items /\ Dur[i] \in Nat \ {0} /\ MaxChapters \in Nat \ {0} /\ PartialTail \in BOOLEAN
      /\ \A k \in 1 .. Len(c) : c[k] \in Items
  <2>1. \A k \in 1 .. Len(c) : c[k] \in Items
    OBVIOUS
  <2> QED BY <2>1, LibraryAssumption, LimitAssumption DEF Items
<1>1. /\ r.pieces \in Seq(R) /\ r.left \in Nat /\ r.stopped \in BOOLEAN /\ m \in Nat
      /\ r = [pieces |-> r.pieces, left |-> r.left, stopped |-> r.stopped]
  BY DEF Loads
<1>2. \A k \in 1 .. m : r.pieces[k] \in R
  <2> HIDE DEF R
  <2> QED BY <1>1
<1>3. CASE r.stopped
  <2>1. q = r
    BY <1>3 DEF Pack
  <2> QED BY <1>0, <1>1, <1>3, <2>1 DEF Packed
<1>4. CASE ~ r.stopped
  <2>1. /\ m = n - 1 /\ r.left > 0 /\ m < MaxChapters /\ Taken(r.pieces) + r.left = cap
        /\ \A k \in 1 .. m : r.pieces[k].item = c[k] /\ r.pieces[k].take = Dur[c[k]]
    BY <1>4 DEF Packed
  <2>2. ASSUME NEW x \in Nat
        PROVE  LET ps == Append(r.pieces, [item |-> i, take |-> x])
               IN  /\ ps \in Seq(R) /\ Len(ps) = n /\ ps[n] = [item |-> i, take |-> x]
                   /\ \A k \in 1 .. m : ps[k] = r.pieces[k]
                   /\ Taken(ps) = Taken(r.pieces) + x
    <3> DEFINE y == [item |-> i, take |-> x]
    <3>1. y \in R
      BY <1>0
    <3>2. Taken(Append(r.pieces, y)) = Taken(r.pieces) + x
      BY <1>0, <1>1, TakenMore
    <3> HIDE DEF y, R
    <3>3. /\ Append(r.pieces, y) \in Seq(R) /\ Len(Append(r.pieces, y)) = m + 1
          /\ Append(r.pieces, y)[m + 1] = y
          /\ \A k \in 1 .. m : Append(r.pieces, y)[k] = r.pieces[k]
      BY <1>1, <3>1, AppendProperties
    <3>4. m + 1 = n
      BY <1>0, <2>1
    <3> QED BY <3>2, <3>3, <3>4 DEF y
  <2>3. Taken(r.pieces) \in Nat
    BY <1>0, <1>1, TakenMore
  <2>4. CASE Dur[i] <= r.left
    <3> DEFINE ps == Append(r.pieces, [item |-> i, take |-> Dur[i]])
    <3>1. /\ ps \in Seq(R) /\ Len(ps) = n /\ ps[n].item = i /\ ps[n].take = Dur[i]
          /\ \A k \in 1 .. m : ps[k] = r.pieces[k]
          /\ Taken(ps) = Taken(r.pieces) + Dur[i]
      <4> DEFINE d == Dur[i]
      <4>1. d \in Nat
        BY <1>0
      <4> HIDE DEF d, i, R
      <4>2. LET s == Append(r.pieces, [item |-> i, take |-> d])
            IN  /\ s \in Seq(R) /\ Len(s) = n /\ s[n] = [item |-> i, take |-> d]
                /\ \A k \in 1 .. m : s[k] = r.pieces[k]
                /\ Taken(s) = Taken(r.pieces) + d
        BY <2>2, <4>1
      <4> QED BY <4>2 DEF d
    <3>2. q = [pieces |-> ps, left |-> r.left - Dur[i],
               stopped |-> Dur[i] = r.left \/ Len(ps) >= MaxChapters]
      BY <1>4, <2>4 DEF Pack
    <3> HIDE DEF ps, q
    <3>3. /\ q.pieces = ps /\ q.left = r.left - Dur[i]
          /\ (q.stopped <=> Dur[i] = r.left \/ n >= MaxChapters)
      BY <3>1, <3>2
    <3>4. q \in Loads
      BY <1>0, <1>1, <2>4, <3>1, <3>2 DEF Loads
    <3>5. \A k \in 1 .. n : ps[k].item = c[k] /\ ps[k].take = Dur[c[k]]
      <4>1. \A k \in 1 .. n : k \in 1 .. m \/ k = n
        BY <1>0, <2>1
      <4> QED BY <2>1, <3>1, <4>1
    <3>6. Taken(ps) + q.left = cap
      BY <1>0, <1>1, <2>1, <2>3, <2>4, <3>1, <3>3
    <3>7. n <= MaxChapters
      BY <1>0, <2>1
    <3>8. Packed(c, n, q)
      <4>1. Dur[i] \in Nat /\ r.left \in Nat /\ (~ q.stopped => q.left > 0 /\ n < MaxChapters)
            /\ (q.stopped => q.left = 0 \/ n = MaxChapters)
        <5> HIDE DEF i
        <5>1. Dur[i] \in Nat /\ r.left \in Nat /\ n \in Nat /\ MaxChapters \in Nat
          BY <1>0, <1>1
        <5> QED BY <2>4, <3>3, <3>7, <5>1
      <4> HIDE DEF i
      <4> QED BY <1>0, <3>1, <3>3, <3>5, <3>6, <3>7, <4>1 DEF Packed
    <3> QED BY <3>4, <3>8 DEF q
  <2>5. CASE Dur[i] > r.left /\ (PartialTail \/ r.pieces = <<>>)
    <3> DEFINE ps == Append(r.pieces, [item |-> i, take |-> r.left])
    <3>1. /\ ps \in Seq(R) /\ Len(ps) = n /\ ps[n].item = i /\ ps[n].take = r.left
          /\ \A k \in 1 .. m : ps[k] = r.pieces[k]
          /\ Taken(ps) = Taken(r.pieces) + r.left
      BY <1>1, <2>2
    <3>2. q = [pieces |-> ps, left |-> 0, stopped |-> TRUE]
      BY <1>0, <1>1, <1>4, <2>5 DEF Pack
    <3> HIDE DEF ps, q
    <3>3. q.pieces = ps /\ q.left = 0 /\ q.stopped = TRUE
      BY <3>2
    <3>4. q \in Loads
      BY <3>1, <3>2 DEF Loads
    <3>5. \A k \in 1 .. n : /\ ps[k].item = c[k]
                            /\ \/ ps[k].take = Dur[c[k]]
                               \/ k = n /\ ps[k].take < Dur[c[k]]
      <4>1. \A k \in 1 .. n : k \in 1 .. m \/ k = n
        BY <1>0, <2>1
      <4> QED BY <2>1, <2>5, <3>1, <4>1
    <3>6. Taken(ps) + q.left = cap
      BY <1>1, <2>1, <2>3, <3>1, <3>3
    <3>7. n <= MaxChapters
      BY <1>0, <2>1
    <3>8. Packed(c, n, q)
      BY <1>0, <1>1, <2>1, <3>1, <3>3, <3>5, <3>6, <3>7 DEF Packed
    <3> QED BY <3>4, <3>8 DEF q
  <2>6. CASE Dur[i] > r.left /\ ~ PartialTail /\ r.pieces # <<>>
    <3>1. q = [pieces |-> r.pieces, left |-> r.left, stopped |-> TRUE]
      <4>1. ~ Dur[i] <= r.left
        BY <1>0, <1>1, <2>6
      <4>2. q = [r EXCEPT !.stopped = TRUE]
        BY <1>4, <2>6, <4>1 DEF Pack
      <4> QED BY <1>1, <4>2
    <3>2. m >= 1 /\ m < n /\ c[m + 1] = i
      <4>1. m # 0
        BY <1>1, <2>6, EmptySeq
      <4> QED BY <1>0, <1>1, <2>1, <4>1
    <3> HIDE DEF q
    <3>3. q.pieces = r.pieces /\ q.left = r.left /\ q.stopped = TRUE /\ q \in Loads
      BY <1>1, <3>1 DEF Loads
    <3>4. Packed(c, n, q)
      BY <1>0, <1>1, <2>1, <2>6, <3>2, <3>3 DEF Packed
    <3> QED BY <3>3, <3>4 DEF q
  <2> QED BY <1>0, <1>1, <2>4, <2>5, <2>6
<1> QED BY <1>1, <1>3, <1>4

\* fit_fill, for every list of candidates.
LEMMA FillFits ==
  ASSUME NEW c \in Seq(Items), cap \in Nat \ {0}
  PROVE  \E r \in Loads : r.pieces = FitFill(c) /\ Packed(c, Len(c), r)
<1> DEFINE n == Len(c)
           none == [pieces |-> <<>>, left |-> cap, stopped |-> FALSE]
           Loop(f) == f = [m \in 0 .. n |-> IF m = 0 THEN none ELSE Pack(f[m - 1], c[m])]
           packed == CHOOSE f : Loop(f)
           step == [m \in 1 .. n |-> [r \in Loads |->
                      IF Packed(c, m - 1, r) THEN Pack(r, c[m]) ELSE none]]
<1>0. n \in Nat
  OBVIOUS
<1>1. FitFill(c) = packed[n].pieces
  BY DEF FitFill
<1>2. none \in Loads /\ Packed(c, 0, none)
  <2>1. none \in Loads /\ none.pieces = <<>> /\ none.left = cap /\ none.stopped = FALSE
    BY EmptySeq DEF Loads
  <2>2. Taken(<<>>) = 0
    <3>1. [k \in DOMAIN <<>> |-> <<>>[k].take] = <<>>
      OBVIOUS
    <3> QED BY <3>1, TotalOfNone DEF Taken
  <2> QED BY <2>1, <2>2, LimitAssumption DEF Packed
<1> HIDE DEF none, n
<1>3. step \in [1 .. n -> [Loads -> Loads]]
  BY <1>2, PackKeeps DEF n
<1>4. \A m \in 1 .. n, r \in Loads :
         step[m][r] = IF Packed(c, m - 1, r) THEN Pack(r, c[m]) ELSE none
  OBVIOUS
<1> HIDE DEF step
<1>5. PICK f : f \in Loops(n, Loads, none, step)
  BY <1>0, <1>2, <1>3, Recursion
<1>6. f \in [0 .. n -> Loads] /\ f[0] = none /\ \A m \in 1 .. n : f[m] = step[m][f[m - 1]]
  BY <1>5 DEF Loops
<1> DEFINE P == {m \in 0 .. n : Packed(c, m, f[m])}
<1>7. \A m \in 0 .. n : m \in P
  <2>1. 0 \in P
    BY <1>0, <1>2, <1>6
  <2>2. \A m \in 1 .. n : m - 1 \in P => m \in P
    <3> SUFFICES ASSUME NEW m \in 1 .. n, m - 1 \in P PROVE m \in P
      OBVIOUS
    <3>1. m \in 0 .. n /\ m - 1 \in 0 .. n /\ f[m - 1] \in Loads
      BY <1>0, <1>6
    <3>2. f[m] = Pack(f[m - 1], c[m]) /\ Packed(c, m - 1, f[m - 1])
      BY <1>4, <1>6, <3>1
    <3> QED BY <3>1, <3>2, PackKeeps DEF n
  <2> HIDE DEF P
  <2> QED BY <1>0, <2>1, <2>2, Climb
<1>8. Loop(f)
  <2>1. \A m \in 0 .. n : f[m] = IF m = 0 THEN none ELSE Pack(f[m - 1], c[m])
    <3> TAKE m \in 0 .. n
    <3>1. CASE m = 0
      BY <1>6, <3>1
    <3>2. CASE m # 0
      <4>1. m \in 1 .. n /\ m - 1 \in 0 .. n
        BY <1>0, <3>2
      <4> QED BY <1>4, <1>6, <1>7, <3>2, <4>1
    <3> QED BY <3>1, <3>2
  <2> QED BY <1>6, <2>1
<1>9. \A g : Loop(g) => g = f
  <2> SUFFICES ASSUME NEW g, Loop(g) PROVE g = f
    OBVIOUS
  <2> DEFINE Q == {m \in 0 .. n : g[m] = f[m]}
  <2>1. \A m \in 0 .. n : g[m] = IF m = 0 THEN none ELSE Pack(g[m - 1], c[m])
    BY Zenon
  <2>2. \A m \in 0 .. n : f[m] = IF m = 0 THEN none ELSE Pack(f[m - 1], c[m])
    BY <1>8, Zenon
  <2>3. 0 \in Q
    BY <1>0, <2>1, <2>2
  <2>4. \A m \in 1 .. n : m - 1 \in Q => m \in Q
    <3> TAKE m \in 1 .. n
    <3>1. m \in 0 .. n /\ m # 0
      BY <1>0
    <3> QED BY <2>1, <2>2, <3>1
  <2>5. \A m \in 0 .. n : m \in Q
    <3> HIDE DEF Q
    <3> QED BY <1>0, <2>3, <2>4, Climb
  <2>6. DOMAIN g = 0 .. n /\ DOMAIN f = 0 .. n
    BY <1>8, Zenon
  <2> QED BY <1>6, <2>5, <2>6
<1>10. packed = f
  BY <1>8, <1>9
<1> HIDE DEF packed
<1> QED BY <1>0, <1>1, <1>6, <1>7, <1>10 DEF n

-----------------------------------------------------------------------------
(* The inductive invariant *)

\* What has been fetched is the plan, as far as it goes.
Staging ==
    pc \in {"fetch", "swap", "prefetch"} =>
        /\ plan.items \in Seq(Items)
        /\ got \in Seq(Items) /\ Len(got) <= Len(plan.items)
        /\ \A k \in 1 .. Len(got) : got[k] = plan.items[k]

\* What is about to go on the tonie is what fits of it, and can be shipped.
Fitted == pc = "swap" => pieces = FitFill(got) /\ ~ Unfit(pieces) /\ Enough

\* As long as nobody edits anything, there are attempts left for every story
\* that may be planned - or a dead entry is listed.
Hope ==
    pc = "fetch" /\ calm =>
        /\ Listed \subseteq ok /\ ToSet(plan.items) \subseteq enabled \cap ok
        /\ \/ \E i \in enabled \cap Listed : Meets(i) = "unavailable"
           \/ Cardinality(enabled \cap ok) <= budget

Inv == /\ TypeOK /\ Staging /\ Fitted /\ Hope
       /\ pc = "fetch" => budget \in 1 .. N

\* There is a longest cooldown, so Long is longer than any.
LEMMA LongestCooldown ==
  Long \in Nat /\ \A c \in Cooldowns : c < Long
<1>0. PICK n \in Nat : ExistsSurjection(1 .. n, Cooldowns)
  BY SettingAssumption, FS_NatSurjection
<1>1. PICK f : f \in Surjection(1 .. n, Cooldowns)
  BY <1>0 DEF ExistsSurjection
<1>2. f \in [1 .. n -> Cooldowns] /\ \A c \in Cooldowns : \E i \in 1 .. n : f[i] = c
  BY <1>1 DEF Surjection
<1>3. Cooldowns \subseteq Nat /\ Cooldowns # {}
  BY SettingAssumption
<1> DEFINE P == {m \in 0 .. n : m = 0 \/ \E k \in 1 .. m : \A j \in 1 .. m : f[j] <= f[k]}
<1>4. \A m \in 0 .. n : m \in P
  <2>1. 0 \in P
    OBVIOUS
  <2>2. \A m \in 1 .. n : m - 1 \in P => m \in P
    <3> SUFFICES ASSUME NEW m \in 1 .. n, m - 1 \in P
                 PROVE  \E k \in 1 .. m : \A j \in 1 .. m : f[j] <= f[k]
      OBVIOUS
    <3>0. \A j \in 1 .. m : f[j] \in Nat /\ (j \in 1 .. m - 1 \/ j = m)
      <4> TAKE j \in 1 .. m
      <4>1. j \in 1 .. n /\ (j \in 1 .. m - 1 \/ j = m)
        OBVIOUS
      <4> QED BY <1>2, <1>3, <4>1
    <3>1. CASE m = 1
      BY <3>0, <3>1
    <3>2. CASE m # 1
      <4>1. PICK k \in 1 .. m - 1 : \A j \in 1 .. m - 1 : f[j] <= f[k]
        BY <3>2
      <4>2. k \in 1 .. m /\ m \in 1 .. m
        BY <4>1
      <4>3. CASE f[m] <= f[k]
        BY <3>0, <4>1, <4>2, <4>3
      <4>4. CASE ~ f[m] <= f[k]
        <5>1. \A j \in 1 .. m : f[j] <= f[m]
          BY <3>0, <4>1, <4>2, <4>4
        <5> QED BY <4>2, <5>1
      <4> QED BY <4>3, <4>4
    <3> QED BY <3>1, <3>2
  <2> HIDE DEF P
  <2> QED BY <2>1, <2>2, Climb
<1>5. n # 0
  <2>1. PICK c \in Cooldowns : TRUE
    BY <1>3
  <2>2. PICK i \in 1 .. n : f[i] = c
    BY <1>2
  <2> QED BY <2>2
<1>6. PICK k \in 1 .. n : \A j \in 1 .. n : f[j] <= f[k]
  BY <1>4, <1>5
<1>7. f[k] \in Cooldowns /\ \A d \in Cooldowns : d <= f[k]
  BY <1>2, <1>6
<1> DEFINE most == CHOOSE c \in Cooldowns : \A d \in Cooldowns : d <= c
<1>8. most \in Cooldowns /\ \A d \in Cooldowns : d <= most
  BY <1>7
<1>9. Long = 1 + most
  BY DEF Long
<1> HIDE DEF most
<1> QED BY <1>3, <1>8, <1>9

\* A plan is empty only when nothing is eligible.
LEMMA PlanOrNone ==
  ASSUME TypeOK, NEW a \in Tonies, NEW asg, NEW cool, NEW S
  PROVE  LET p == ChooseNext(a, asg, cursor[a], Eligible(S), cool)
         IN  \/ p = NoPlan /\ p.items = <<>> /\ enabled \cap S = {}
             \/ /\ p.items \in Seq(Items) /\ p.items # <<>>
                /\ ToSet(p.items) \subseteq enabled \cap S
                /\ WellChosen(a, asg, Eligible(S), p, cool)
<1> DEFINE e == Eligible(S)
<1>1. e \in Seq(Items) /\ Len(e) <= N /\ IsInjective(e) /\ ToSet(e) = enabled \cap S
  BY EligibleItems DEF TypeOK
<1>2. cursor[a] \in Nat
  BY LibraryAssumption DEF TypeOK
<1> HIDE DEF e
<1>3. CASE e = <<>>
  <2>1. ToSet(e) = {}
    BY <1>3 DEF ToSet
  <2>2. ChooseNext(a, asg, cursor[a], e, cool) = NoPlan
    BY <1>3 DEF ChooseNext
  <2> QED BY <1>1, <2>1, <2>2 DEF e, NoPlan
<1>4. CASE e # <<>>
  <2> DEFINE p == ChooseNext(a, asg, cursor[a], e, cool)
  <2>1. p.items \in Seq(Items) /\ WellChosen(a, asg, e, p, cool)
    BY <1>1, <1>2, <1>4, ChosenWell
  <2> HIDE DEF p
  <2>2. p.items # <<>> /\ ToSet(p.items) \subseteq ToSet(e)
    BY <2>1 DEF WellChosen
  <2> QED BY <1>1, <2>1, <2>2 DEF p, e
<1> QED BY <1>3, <1>4

\* A fresh installation satisfies the invariant.
LEMMA InitInv == Init => Inv
<1> SUFFICES ASSUME Init PROVE Inv
  OBVIOUS
<1>1. /\ Long \in Nat /\ N \in Nat \ {0} /\ SinkMax \in Nat \ {0} /\ MaxEdits \in Nat
      /\ IsFiniteSet(Cooldowns)
  BY LongestCooldown, LibraryAssumption, LimitAssumption, SettingAssumption
<1>2. TypeOK
  <2>1. source \in [Items -> {"there", "gone", "short", "down"}]
    BY DEF Init
  <2>2. \A a \in Tonies : ToSet(loaded[a]) \subseteq Items
    BY DEF Init, ToSet
  <2>3. cursor \in [Tonies -> 0 .. N - 1] /\ ended \in [Tonies -> [Items -> 0 .. Long]]
    BY <1>1 DEF Init
  <2>4. /\ pinned \in [Tonies -> Items \cup {NoPin}] /\ order \in [Tonies -> {"ordered", "shuffle"}]
        /\ rotated \in [Tonies -> BOOLEAN]
    BY DEF Init
  <2>5. /\ stored \in [cooldown : Cooldowns, avoid : Avoidances, cap : Caps]
        /\ cooldown \in Cooldowns /\ avoid \in Avoidances /\ cap \in 1 .. SinkMax
    BY <1>1 DEF Init
  <2>6. /\ enabled \subseteq Items /\ ok \subseteq Items /\ on \subseteq Tonies /\ todo \subseteq Tonies
        /\ budget \in 0 .. N /\ edits \in 0 .. MaxEdits /\ calm \in BOOLEAN /\ pc = "idle"
    <3>1. /\ enabled = Items /\ ok = Items /\ on = Tonies /\ todo = {} /\ budget = 0 /\ edits = 0
          /\ calm = FALSE /\ pc = "idle"
      BY DEF Init
    <3>2. 0 \in 0 .. N /\ 0 \in 0 .. MaxEdits
      BY <1>1
    <3> QED BY <3>1, <3>2
  <2> QED BY <2>1, <2>2, <2>3, <2>4, <2>5, <2>6 DEF TypeOK
<1> QED BY <1>2 DEF Init, Inv, Staging, Fitted, Hope

\* What is left of the run when a tonie is done, whatever became of it.
LEMMA LeaveKeeps ==
  ASSUME TypeOK, Leave
  PROVE  /\ pc' = "next" /\ budget' \in 0 .. N /\ calm' \in BOOLEAN
         /\ Staging' /\ Fitted' /\ Hope'
<1>1. 0 \in 0 .. N
  BY LibraryAssumption
<1> QED BY <1>1 DEF Leave, Staging, Fitted, Hope

\* The settings a run works with are settings.
LEMMA ClampedCap ==
  ASSUME NEW c \in Caps
  PROVE  ClampCap(c) \in 1 .. SinkMax
BY LimitAssumption DEF ClampCap

\* advance_cursor stays below the number of stories, eligible or not.
LEMMA CursorStays ==
  ASSUME TypeOK, NEW c \in Nat, NEW k \in Nat
  PROVE  AdvanceCursor(c, k, Len(Eligible(ok))) \in 0 .. N - 1
<1> DEFINE n == Len(Eligible(ok))
<1>1. n \in Nat /\ n <= N /\ N \in Nat \ {0}
  BY EligibleItems, LibraryAssumption DEF TypeOK
<1> SUFFICES AdvanceCursor(c, k, n) \in 0 .. N - 1
  OBVIOUS
<1> HIDE DEF n
<1>2. CASE n = 0
  BY <1>1, <1>2 DEF AdvanceCursor
<1>3. CASE n # 0
  <2>1. ((c + k) % n) \in 0 .. n - 1
    BY <1>1, <1>3
  <2> QED BY <1>1, <1>3, <2>1 DEF AdvanceCursor
<1> QED BY <1>2, <1>3

\* Every step keeps the types.
LEMMA TypesKept ==
  ASSUME Inv, [Next]_vars
  PROVE  TypeOK'
<1>0. TypeOK
  BY DEF Inv
<1> USE DEF library, tonies, knobs, job, run
<1>1. CASE \E S \in SUBSET Tonies : Start(S) /\ edits' \in 0 .. MaxEdits
  <2>1. cooldown' \in Cooldowns /\ avoid' \in Avoidances /\ cap' \in 1 .. SinkMax
    BY <1>0, <1>1, ClampedCap DEF Start, ReadSettings, TypeOK
  <2> QED BY <1>0, <1>1, <2>1 DEF Start, TypeOK
<1>2. CASE EndRun
  BY <1>0, <1>2 DEF EndRun, TypeOK
<1>3. CASE PlanTonie
  <2>1. ok' \subseteq Items
    BY <1>0, <1>3 DEF PlanTonie, TypeOK, Listed
  <2>2. /\ todo' \subseteq Tonies /\ pc' \in {"idle", "next", "fetch", "swap", "prefetch"}
        /\ budget' \in 0 .. N /\ calm' \in BOOLEAN
        /\ pc' \in {"fetch", "swap", "prefetch"} => who' \in Tonies /\ plan'.items # <<>>
    <3>1. PICK a, p :
             /\ a \in todo /\ pc = "next" /\ todo' = todo \ {a}
             /\ \/ UNCHANGED <<pc, job>>
                \/ /\ p.items # <<>> /\ pc' = "fetch" /\ who' = a /\ plan' = p
                   /\ budget' = N /\ calm' = TRUE
      <4> HIDE DEF library, tonies, knobs, job, run
      <4> QED BY <1>3, Zenon DEF PlanTonie
    <3>2. N \in 0 .. N
      BY LibraryAssumption
    <3> QED BY <1>0, <3>1, <3>2 DEF TypeOK
  <2>3. UNCHANGED <<enabled, source, tonies, stored, knobs, edits>>
    BY <1>3 DEF PlanTonie
  <2> QED BY <1>0, <2>1, <2>2, <2>3 DEF TypeOK
<1>4. CASE Fetch
  BY <1>0, <1>4 DEF Fetch, Fetches, TypeOK
<1>5. CASE FetchDead
  <2>1. ok' \subseteq Items
    BY <1>0, <1>5 DEF FetchDead, TypeOK, Listed
  <2>2. /\ pc' \in {"next", "fetch"} /\ budget' \in 0 .. N /\ calm' \in BOOLEAN
        /\ pc' = "fetch" => who' \in Tonies /\ plan'.items # <<>>
    <3>1. CASE Leave
      BY <1>0, <3>1, LeaveKeeps
    <3>2. CASE ~ Leave
      <4>1. /\ pc = "fetch" /\ budget # 1 /\ budget' = budget - 1 /\ plan'.items # <<>>
            /\ UNCHANGED <<pc, who, calm>>
        BY <1>5, <3>2 DEF FetchDead, Fetches
      <4>2. budget \in 1 .. N /\ who \in Tonies /\ calm \in BOOLEAN
        BY <4>1 DEF Inv, TypeOK
      <4> QED BY <4>1, <4>2, LibraryAssumption
    <3> QED BY <3>1, <3>2
  <2>3. UNCHANGED <<enabled, source, tonies, stored, knobs, todo, read, edits>>
    BY <1>5 DEF FetchDead
  <2> QED BY <1>0, <2>1, <2>2, <2>3 DEF TypeOK
<1>6. CASE Leave /\ UNCHANGED <<library, tonies, stored, knobs, todo, read>> /\ edits' \in 0 .. MaxEdits
  BY <1>0, <1>6, LeaveKeeps DEF TypeOK
<1>7. CASE Fit
  <2>1. CASE Leave
    BY <1>0, <1>6, <1>7, <2>1 DEF Fit, TypeOK
  <2>2. CASE ~ Leave
    BY <1>0, <1>7, <2>2 DEF Fit, TypeOK
  <2> QED BY <2>1, <2>2
<1>8. CASE Commit
  <2>1. who \in Tonies /\ pc = "swap" /\ pc' = "prefetch"
    BY <1>0, <1>8 DEF Commit, TypeOK
  <2>2. got \in Seq(Items) /\ pieces = FitFill(got) /\ cap \in Nat \ {0}
    <3>1. cap \in 1 .. SinkMax /\ SinkMax \in Nat
      BY <1>0, LimitAssumption DEF TypeOK
    <3> QED BY <2>1, <3>1 DEF Inv, Staging, Fitted
  <2>3. pieces \in Seq([item : Items, take : Nat])
    BY <2>2, FillFits DEF Loads
  <2>4. ToSet(StoriesOf(pieces)) \subseteq Items /\ Len(pieces) \in Nat
    <3> DEFINE R == [item : Items, take : Nat]
    <3>1. \A k \in DOMAIN pieces : pieces[k] \in R
      <4>1. pieces \in Seq(R)
        BY <2>3
      <4> HIDE DEF R
      <4> QED BY <4>1
    <3> QED BY <2>3, <3>1 DEF ToSet, StoriesOf
  <2>5. \A a \in Tonies : ToSet(loaded'[a]) \subseteq Items
    <3> TAKE a \in Tonies
    <3>1. loaded' = [loaded EXCEPT ![who] = StoriesOf(pieces)]
      BY <1>8 DEF Commit
    <3>2. CASE a = who /\ loaded'[a] = StoriesOf(pieces)
      BY <2>4, <3>2
    <3>3. CASE loaded'[a] = loaded[a]
      BY <1>0, <3>3 DEF TypeOK
    <3> QED BY <3>1, <3>2, <3>3
  <2>6. cursor' \in [Tonies -> 0 .. N - 1]
    <3>1. cursor \in [Tonies -> 0 .. N - 1] /\ cursor[who] \in Nat
      BY <1>0, <2>1, LibraryAssumption DEF TypeOK
    <3>2. AdvanceCursor(cursor[who], Len(pieces), Len(Eligible(ok))) \in 0 .. N - 1
      BY <1>0, <2>4, <3>1, CursorStays
    <3> QED BY <1>8, <3>1, <3>2 DEF Commit
  <2>7. ended' \in [Tonies -> [Items -> 0 .. Long]]
    <3>1. 0 \in 0 .. Long
      BY LongestCooldown
    <3>2. ended[who] \in [Items -> 0 .. Long] /\ ended \in [Tonies -> [Items -> 0 .. Long]]
      BY <1>0, <2>1 DEF TypeOK
    <3> DEFINE new == [i \in Items |-> IF i \in ToSet(loaded[who]) THEN 0 ELSE ended[who][i]]
    <3>3. new \in [Items -> 0 .. Long]
      BY <3>1, <3>2
    <3>4. ended' = ended \/ ended' = [ended EXCEPT ![who] = new]
      BY <1>8 DEF Commit
    <3> HIDE DEF new
    <3> QED BY <3>2, <3>3, <3>4
  <2>8. rotated' \in [Tonies -> BOOLEAN]
    BY <1>0, <1>8 DEF Commit, TypeOK
  <2>9. UNCHANGED <<library, on, pinned, order, stored, knobs, todo, read, job, edits>>
    BY <1>8 DEF Commit
  <2> QED BY <1>0, <2>1, <2>5, <2>6, <2>7, <2>8, <2>9 DEF TypeOK
<1>9. CASE Prefetch
  <2>1. ok' \subseteq Items
    BY <1>0, <1>9 DEF Prefetch, TypeOK
  <2>2. Leave /\ UNCHANGED <<enabled, source, tonies, stored, knobs, todo, read, edits>>
    BY <1>9 DEF Prefetch
  <2> QED BY <1>0, <2>1, <2>2, LeaveKeeps DEF TypeOK
<1>10. CASE PlanFails
  <2>1. edits' \in 0 .. MaxEdits
    BY <1>0, <1>10, SettingAssumption DEF PlanFails, TypeOK
  <2> QED BY <1>0, <1>10, <2>1 DEF PlanFails, TypeOK
<1>11. CASE NewDay
  <2>1. rotated' \in [Tonies -> BOOLEAN]
    BY <1>11 DEF NewDay
  <2>2. ended' \in [Tonies -> [Items -> 0 .. Long]]
    <3>1. \A a \in Tonies, i \in Items : ended[a][i] \in 0 .. Long
      BY <1>0 DEF TypeOK
    <3>2. \A x \in 0 .. Long : (IF x = Long THEN Long ELSE x + 1) \in 0 .. Long
      BY LongestCooldown
    <3>3. ended' = [a \in Tonies |->
                   [i \in Items |-> IF ended[a][i] = Long THEN Long ELSE ended[a][i] + 1]]
      BY <1>11 DEF NewDay
    <3> QED BY <3>1, <3>2, <3>3
  <2>3. UNCHANGED <<library, on, cursor, pinned, order, loaded, stored, knobs, run, job, edits>>
    BY <1>11 DEF NewDay
  <2> QED BY <1>0, <2>1, <2>2, <2>3 DEF TypeOK
<1>12. CASE Edit
  <2>1. edits' \in 0 .. MaxEdits
    BY <1>0, <1>12, SettingAssumption DEF Edit, TypeOK
  <2>2. /\ calm' = FALSE
        /\ UNCHANGED <<cursor, loaded, ended, rotated, knobs, run, who, plan, budget, got, pieces>>
    BY <1>12 DEF Edit
  <2>3. enabled' \subseteq Items /\ ok' \subseteq Items /\ on' \subseteq Tonies
    BY <1>0, <1>12 DEF Edit, SetEnabled, Pause, Catalogue, PrefetchCommand, Flip, TypeOK
  <2>4. source' \in [Items -> {"there", "gone", "short", "down"}]
    BY <1>0, <1>12 DEF Edit, World, TypeOK
  <2>5. pinned' \in [Tonies -> Items \cup {NoPin}] /\ order' \in [Tonies -> {"ordered", "shuffle"}]
    <3>1. \/ \E a \in Tonies, i \in Items \cup {NoPin} :
                 pinned' = [pinned EXCEPT ![a] = i] /\ order' = order
          \/ \E a \in Tonies, m \in {"ordered", "shuffle"} :
                 order' = [order EXCEPT ![a] = m] /\ pinned' = pinned
          \/ UNCHANGED <<pinned, order>>
      BY <1>12, Zenon DEF Edit, Pin, SetMode
    <3>2. pinned \in [Tonies -> Items \cup {NoPin}] /\ order \in [Tonies -> {"ordered", "shuffle"}]
      BY <1>0 DEF TypeOK
    <3> QED BY <3>1, <3>2
  <2>6. stored' \in [cooldown : Cooldowns, avoid : Avoidances, cap : Caps]
    BY <1>0, <1>12 DEF Edit, Save, TypeOK
  <2> QED BY <1>0, <2>1, <2>2, <2>3, <2>4, <2>5, <2>6 DEF TypeOK
<1>13. CASE UNCHANGED vars
  BY <1>0, <1>13 DEF vars, TypeOK
<1>14. ScheduledRun \/ ManualRun => \E S \in SUBSET Tonies : Start(S) /\ edits' \in 0 .. MaxEdits
  <2>1. edits \in 0 .. MaxEdits /\ MaxEdits \in Nat
    BY <1>0, SettingAssumption DEF TypeOK
  <2>2. ScheduledRun => Start(Tonies) /\ edits' = edits
    BY DEF ScheduledRun
  <2>3. ManualRun => edits' \in 0 .. MaxEdits /\ \E a \in Tonies : Start({a})
    BY <2>1 DEF ManualRun
  <2>4. Tonies \in SUBSET Tonies /\ \A a \in Tonies : {a} \in SUBSET Tonies
    OBVIOUS
  <2> HIDE DEF library, tonies, knobs, job, run
  <2> QED BY <2>1, <2>2, <2>3, <2>4
<1>15. FetchBroken \/ SwapFails =>
         Leave /\ UNCHANGED <<library, tonies, stored, knobs, todo, read>> /\ edits' \in 0 .. MaxEdits
  BY <1>0, SettingAssumption DEF FetchBroken, SwapFails, TypeOK
<1> HIDE DEF library, tonies, knobs, job, run
<1> QED BY <1>1, <1>2, <1>3, <1>4, <1>5, <1>6, <1>7, <1>8, <1>9, <1>10, <1>11, <1>12, <1>13,
           <1>14, <1>15 DEF Next, Work

\* What a fetch meets depends on the world only.
LEMMA MeetsAsBefore ==
  ASSUME source' = source
  PROVE  \A i : Meets(i)' = Meets(i)
BY DEF Meets, Fetched, FolderFetch, YtDlpFetch, HttpFetch

\* A tonie is planned: there are as many attempts as there are stories.
LEMMA PlanTonieKeeps ==
  ASSUME Inv, PlanTonie
  PROVE  /\ Staging' /\ Fitted' /\ Hope' /\ (pc' = "fetch" => budget' \in 1 .. N)
         /\ pc' = "fetch" => \E cool \in RecentlyHeld(who') :
                               WellChosen(who', read[who'], Eligible(ok'), plan', cool)
<1>0. TypeOK /\ N \in 1 .. N /\ N \in Nat /\ pc = "next"
  BY LibraryAssumption DEF Inv, PlanTonie
<1>1. PICK a, cool, p :
         /\ a \in todo /\ cool \in RecentlyHeld(a)
         /\ p = ChooseNext(a, read[a], cursor[a], Eligible(ok \cup Listed), cool)
         /\ ok' = ok \cup Listed
         /\ \/ UNCHANGED <<pc, job>>
            \/ /\ p.items # <<>> /\ pc' = "fetch" /\ who' = a /\ plan' = p
               /\ budget' = N /\ got' = <<>> /\ calm' = TRUE
         /\ enabled' = enabled
  BY <1>0, Zenon DEF PlanTonie
<1>2. CASE UNCHANGED <<pc, job>>
  BY <1>0, <1>2 DEF Staging, Fitted, Hope
<1>3. CASE /\ p.items # <<>> /\ pc' = "fetch" /\ who' = a /\ plan' = p
           /\ budget' = N /\ got' = <<>> /\ calm' = TRUE
  <2>1. a \in Tonies
    BY <1>0, <1>1 DEF TypeOK
  <2>2. /\ p.items \in Seq(Items) /\ ToSet(p.items) \subseteq enabled \cap (ok \cup Listed)
        /\ WellChosen(a, read[a], Eligible(ok \cup Listed), p, cool)
    BY <1>0, <1>1, <1>3, <2>1, PlanOrNone
  <2>3. Cardinality(enabled \cap (ok \cup Listed)) <= N
    <3>1. enabled \cap (ok \cup Listed) \subseteq 1 .. N
      BY <1>0 DEF TypeOK, Items
    <3>2. IsFiniteSet(1 .. N) /\ Cardinality(1 .. N) = N
      BY <1>0, FS_Interval
    <3> QED BY <3>1, <3>2, FS_Subset
  <2>4. ok' = ok \cup Listed /\ Listed' = Listed
    BY <1>1 DEF Listed
  <2>5. Staging'
    BY <1>3, <2>2 DEF Staging
  <2>6. Fitted'
    BY <1>3 DEF Fitted
  <2>7. Hope'
    BY <1>1, <1>3, <2>2, <2>3, <2>4 DEF Hope
  <2> QED BY <1>0, <1>1, <1>3, <2>2, <2>4, <2>5, <2>6, <2>7
<1> QED BY <1>1, <1>2, <1>3

\* A story turns out to be gone: one attempt less, and one story less that may
\* be planned, unless it is one that planning brings back.
LEMMA FetchDeadKeeps ==
  ASSUME Inv, FetchDead
  PROVE  /\ Staging' /\ Fitted' /\ Hope' /\ (pc' = "fetch" => budget' \in 1 .. N)
         /\ pc' = "fetch" => \E cool \in RecentlyHeld(who) :
                               WellChosen(who, Assignment(who), Eligible(ok'), plan', cool)
         /\ pc' = "next" /\ calm => \/ enabled \cap ok' = {}
                                  \/ \E i \in enabled \cap Listed : Meets(i) = "unavailable"
<1>0. /\ TypeOK /\ N \in Nat /\ pc = "fetch" /\ ~ Enough /\ Meets(Wanted) = "unavailable"
      /\ budget \in 1 .. N /\ who \in Tonies
  BY LibraryAssumption DEF Inv, TypeOK, FetchDead, Fetches
<1>1. PICK cool, p :
         /\ cool \in RecentlyHeld(who) /\ p = ChooseNext(who, Assignment(who), cursor[who], Eligible(ok'), cool)
         /\ IF p.items = <<>> \/ budget = 1
            THEN Leave
            ELSE /\ plan' = p /\ budget' = budget - 1 /\ got' = <<>>
                 /\ UNCHANGED <<pc, who, pieces, calm>>
  BY Zenon DEF FetchDead
<1>2. ok' = (ok \ {Wanted}) \cup Listed /\ UNCHANGED <<enabled, source>>
  BY DEF FetchDead
<1>3. Listed' = Listed /\ \A i : Meets(i)' = Meets(i)
  BY <1>2, MeetsAsBefore DEF Listed
<1>4. \/ p.items = <<>> /\ enabled \cap ok' = {}
      \/ /\ p.items # <<>> /\ p.items \in Seq(Items) /\ ToSet(p.items) \subseteq enabled \cap ok'
         /\ WellChosen(who, Assignment(who), Eligible(ok'), p, cool)
  BY <1>0, <1>1, PlanOrNone
<1>5. calm => \/ \E i \in enabled \cap Listed : Meets(i) = "unavailable"
              \/ Cardinality(enabled \cap ok') <= budget - 1 /\ Cardinality(enabled \cap ok') \in Nat
  <2> SUFFICES ASSUME calm, ~ \E i \in enabled \cap Listed : Meets(i) = "unavailable"
               PROVE  Cardinality(enabled \cap ok') <= budget - 1 /\ Cardinality(enabled \cap ok') \in Nat
    OBVIOUS
  <2>1. /\ Listed \subseteq ok /\ ToSet(plan.items) \subseteq enabled \cap ok
        /\ Cardinality(enabled \cap ok) <= budget
    BY <1>0 DEF Inv, Hope
  <2>2. Wanted \in ToSet(plan.items)
    <3>1. /\ plan.items \in Seq(Items) /\ Len(plan.items) \in Nat /\ Len(got) \in Nat
          /\ Len(got) <= Len(plan.items) /\ Len(got) # Len(plan.items)
      <4>1. plan.items \in Seq(Items) /\ got \in Seq(Items) /\ Len(got) <= Len(plan.items)
        BY <1>0 DEF Inv, Staging
      <4> QED BY <1>0, <4>1 DEF Enough
    <3>2. Len(got) + 1 \in DOMAIN plan.items
      BY <3>1
    <3> QED BY <3>2 DEF Wanted, ToSet
  <2>3. Wanted \in enabled \cap ok /\ Wanted \notin Listed
    BY <1>0, <2>1, <2>2
  <2>4. enabled \cap ok' = (enabled \cap ok) \ {Wanted}
    BY <1>2, <2>1, <2>3
  <2>5. IsFiniteSet(enabled \cap ok)
    <3>1. enabled \cap ok \subseteq 1 .. N
      BY <1>0 DEF TypeOK, Items
    <3>2. IsFiniteSet(1 .. N)
      BY <1>0, FS_Interval
    <3> QED BY <3>1, <3>2, FS_Subset
  <2>6. /\ IsFiniteSet(enabled \cap ok')
        /\ Cardinality(enabled \cap ok') = Cardinality(enabled \cap ok) - 1
    BY <2>3, <2>4, <2>5, FS_RemoveElement
  <2>7. Cardinality(enabled \cap ok) \in Nat /\ Cardinality(enabled \cap ok') \in Nat
    BY <2>5, <2>6, FS_CardinalityType
  <2> QED BY <1>0, <2>1, <2>6, <2>7
<1>6. CASE p.items = <<>> \/ budget = 1
  <2>1. Leave
    BY <1>1, <1>6
  <2>2. calm => \/ enabled \cap ok' = {}
                \/ \E i \in enabled \cap Listed : Meets(i) = "unavailable"
    <3>1. CASE p.items = <<>>
      BY <1>4, <3>1
    <3>2. CASE budget = 1 /\ Cardinality(enabled \cap ok') <= budget - 1 /\ Cardinality(enabled \cap ok') \in Nat
      <4>1. Cardinality(enabled \cap ok') = 0
        BY <3>2
      <4>2. IsFiniteSet(enabled \cap ok')
        <5>1. enabled \cap ok' \subseteq 1 .. N
          BY <1>0 DEF TypeOK, Items
        <5>2. IsFiniteSet(1 .. N)
          BY <1>0, FS_Interval
        <5> QED BY <5>1, <5>2, FS_Subset
      <4> QED BY <4>1, <4>2, FS_EmptySet
    <3> QED BY <1>5, <1>6, <3>1, <3>2
  <2> QED BY <1>0, <2>1, <2>2, LeaveKeeps
<1>7. CASE ~ (p.items = <<>> \/ budget = 1)
  <2>1. /\ plan' = p /\ budget' = budget - 1 /\ got' = <<>>
        /\ pc' = "fetch" /\ calm' = calm
    BY <1>0, <1>1, <1>7
  <2>2. budget' \in 1 .. N
    BY <1>0, <1>7, <2>1
  <2>3. Staging'
    BY <1>4, <1>7, <2>1 DEF Staging
  <2>4. Fitted'
    BY <2>1 DEF Fitted
  <2>5. Hope'
    <3>1. Listed \subseteq ok'
      BY <1>2
    <3> QED BY <1>2, <1>3, <1>4, <1>5, <1>7, <2>1, <3>1 DEF Hope
  <2> QED BY <1>1, <1>4, <1>7, <2>1, <2>2, <2>3, <2>4, <2>5
<1> QED BY <1>6, <1>7

\* What fits, and whether enough is fetched, depends on the job and its cap.
LEMMA FitFillAsBefore ==
  ASSUME got' = got, cap' = cap, plan' = plan
  PROVE  FitFill(got)' = FitFill(got) /\ Enough' = Enough
BY DEF FitFill, Enough

\* Every step keeps the invariant.
LEMMA NextInv ==
  ASSUME Inv, [Next]_vars
  PROVE  Inv'
<1>0. TypeOK'
  BY TypesKept
<1>1. TypeOK /\ (pc \in {"fetch", "swap", "prefetch"} => plan.items \in Seq(Items) /\ got \in Seq(Items))
  BY DEF Inv, Staging
<1> SUFFICES Staging' /\ Fitted' /\ Hope' /\ (pc' = "fetch" => budget' \in 1 .. N)
  BY <1>0 DEF Inv
<1>2. ASSUME NEW S, Start(S)
      PROVE  Staging' /\ Fitted' /\ Hope' /\ (pc' = "fetch" => budget' \in 1 .. N)
  BY <1>2 DEF Start, Staging, Fitted, Hope
<1>3. CASE EndRun
  BY <1>3 DEF EndRun, Staging, Fitted, Hope
<1>4. CASE PlanTonie
  BY <1>4, PlanTonieKeeps
<1>5. CASE Fetch
  <2>1. /\ pc = "fetch" /\ pc' = "fetch" /\ ~ Enough /\ got' = Append(got, Wanted)
        /\ UNCHANGED <<library, plan, budget, calm>>
    BY <1>5 DEF Fetch, Fetches, run
  <2>2. /\ plan.items \in Seq(Items) /\ got \in Seq(Items) /\ Len(got) <= Len(plan.items)
        /\ Len(got) # Len(plan.items) /\ \A k \in 1 .. Len(got) : got[k] = plan.items[k]
    BY <2>1 DEF Inv, Staging, Enough
  <2>3. Staging'
    <3>1. Wanted \in Items /\ Wanted = plan.items[Len(got) + 1] /\ Len(got) \in Nat /\ Len(plan.items) \in Nat
      BY <2>2 DEF Wanted
    <3>2. /\ got' \in Seq(Items) /\ Len(got') = Len(got) + 1 /\ got'[Len(got) + 1] = Wanted
          /\ \A k \in 1 .. Len(got) : got'[k] = got[k]
      BY <2>1, <2>2, <3>1, AppendProperties
    <3>3. \A k \in 1 .. Len(got') : got'[k] = plan.items[k]
      <4>1. \A k \in 1 .. Len(got') : k \in 1 .. Len(got) \/ k = Len(got) + 1
        BY <3>1, <3>2
      <4> QED BY <2>2, <3>1, <3>2, <4>1
    <3> QED BY <2>1, <2>2, <3>1, <3>2, <3>3 DEF Staging
  <2>4. Fitted' /\ budget' \in 1 .. N
    BY <2>1 DEF Inv, Fitted
  <2>5. Hope'
    <3>1. Listed' = Listed /\ \A i : Meets(i)' = Meets(i)
      BY <2>1, MeetsAsBefore DEF Listed, library
    <3> QED BY <2>1, <3>1 DEF Inv, Hope, library
  <2> QED BY <2>3, <2>4, <2>5
<1>6. CASE FetchDead
  BY <1>6, FetchDeadKeeps
<1>7. CASE Leave
  BY <1>1, <1>7, LeaveKeeps
<1>8. CASE Fit
  <2>1. CASE ~ Leave
    <3>1. /\ pc = "fetch" /\ Enough /\ ~ Unfit(FitFill(got)) /\ pieces' = FitFill(got) /\ pc' = "swap"
          /\ UNCHANGED <<plan, got, cap>>
      BY <1>8, <2>1 DEF Fit, knobs
    <3>2. FitFill(got)' = FitFill(got) /\ Enough' = Enough
      BY <3>1, FitFillAsBefore
    <3>3. Fitted'
      BY <3>1, <3>2 DEF Fitted, Unfit
    <3> QED BY <3>1, <3>3 DEF Inv, Staging, Hope
  <2> QED BY <1>7, <2>1
<1>9. CASE Commit
  BY <1>9 DEF Commit, Inv, Staging, Fitted, Hope, job
<1>10. CASE PlanFails
  BY <1>10 DEF PlanFails, Inv, Staging, Fitted, Hope, job
<1>11. CASE UNCHANGED <<library, knobs, pc, job>>
  <2>1. Listed' = Listed /\ \A i : Meets(i)' = Meets(i)
    BY <1>11, MeetsAsBefore DEF Listed, library
  <2>2. FitFill(got)' = FitFill(got) /\ Enough' = Enough
    BY <1>11, FitFillAsBefore DEF job, knobs
  <2>3. Staging'
    BY <1>11 DEF Inv, Staging, job
  <2>4. Fitted'
    BY <1>11, <2>2 DEF Inv, Fitted, Unfit, job
  <2>5. Hope'
    BY <1>11, <2>1 DEF Inv, Hope, job, library
  <2> QED BY <1>11, <2>3, <2>4, <2>5 DEF Inv, job
<1>12. CASE Edit
  <2>1. calm' = FALSE /\ UNCHANGED <<knobs, pc, plan, budget, got, pieces>>
    BY <1>12 DEF Edit, run
  <2>2. FitFill(got)' = FitFill(got) /\ Enough' = Enough
    BY <2>1, FitFillAsBefore DEF knobs
  <2>3. Staging' /\ Hope' /\ (pc' = "fetch" => budget' \in 1 .. N)
    BY <2>1 DEF Inv, Staging, Hope
  <2>4. Fitted'
    BY <2>1, <2>2 DEF Inv, Fitted, Unfit
  <2> QED BY <2>3, <2>4
<1>13. ScheduledRun \/ ManualRun => \E S : Start(S)
  BY DEF ScheduledRun, ManualRun
<1>14. FetchBroken \/ Prefetch \/ SwapFails => Leave
  BY DEF FetchBroken, Prefetch, SwapFails
<1>15. NewDay \/ UNCHANGED vars => UNCHANGED <<library, knobs, pc, job>>
  BY DEF NewDay, vars, run
<1> QED BY <1>2, <1>3, <1>4, <1>5, <1>6, <1>7, <1>8, <1>9, <1>10, <1>11, <1>12, <1>13, <1>14, <1>15
        DEF Next, Work

\* So it holds in every reachable state.
LEMMA InvHolds == Spec => []Inv
<1>1. Init => Inv
  BY InitInv
<1>2. Inv /\ [Next]_vars => Inv'
  BY NextInv
<1> QED BY <1>1, <1>2, PTL DEF Spec

-----------------------------------------------------------------------------
(* What holds of every library and every number of tonies *)

\* The assignments, the settings and what a run remembers have the shapes the
\* code gives them; a cursor stays below the number of stories.
THEOREM PlanningTypes == Spec => []TypeOK
<1>1. Inv => TypeOK
  BY DEF Inv
<1> QED BY <1>1, InvHolds, PTL

\* The invariant says of a load about to go on what LoadFits demands.
LEMMA FitsInv ==
  ASSUME Inv
  PROVE  LoadFits
<1> SUFFICES ASSUME pc = "swap" PROVE LoadFits
  BY DEF LoadFits
<1> DEFINE R == [item : Items, take : Nat]
           n == Len(pieces)
           g == Len(got)
           l == Len(plan.items)
<1>1. /\ plan.items \in Seq(Items) /\ plan.items # <<>> /\ got \in Seq(Items) /\ g <= l
      /\ \A k \in 1 .. g : got[k] = plan.items[k]
      /\ pieces = FitFill(got) /\ ~ Unfit(pieces) /\ Enough
      /\ cap \in Nat \ {0} /\ SinkMax \in Nat /\ MinSeconds \in Nat /\ MaxChapters \in Nat
      /\ Dur \in [Items -> Nat \ {0}]
  <2>1. cap \in 1 .. SinkMax /\ SinkMax \in Nat /\ plan.items # <<>>
    BY LimitAssumption DEF Inv, TypeOK
  <2> QED BY <2>1, LimitAssumption, LibraryAssumption DEF Inv, Staging, Fitted
<1>2. PICK r \in Loads : r.pieces = pieces /\ Packed(got, g, r)
  BY <1>1, FillFits
<1>3. pieces \in Seq(R) /\ r.left \in Nat /\ r.stopped \in BOOLEAN
  BY <1>2 DEF Loads
<1>4. n \in Nat /\ g \in Nat /\ l \in Nat /\ \A k \in 1 .. n : pieces[k] \in R
  <2> HIDE DEF R
  <2> QED BY <1>1, <1>3
<1>5. \A k \in 1 .. g : got[k] \in Items /\ Dur[got[k]] \in Nat
  BY <1>1
<1>6. /\ n <= g /\ n <= MaxChapters
      /\ \A k \in 1 .. n : pieces[k].item = got[k]
      /\ Taken(pieces) + r.left = cap
      /\ \A k \in 1 .. n : \/ pieces[k].take = Dur[got[k]]
                           \/ k = n /\ pieces[k].take < Dur[got[k]] /\ r.left = 0 /\ r.stopped
      /\ ~ r.stopped => n = g /\ r.left > 0
      /\ r.stopped => /\ n >= 1
                      /\ \/ r.left = 0
                         \/ n = MaxChapters
                         \/ ~ PartialTail /\ n < g /\ Dur[got[n + 1]] > r.left
  BY <1>2 DEF Packed
<1>7. Taken(pieces) \in Nat
  <2>1. pieces = <<>> => Taken(pieces) = 0
    <3>1. [k \in DOMAIN <<>> |-> <<>>[k].take] = <<>>
      OBVIOUS
    <3> QED BY <3>1, TotalOfNone DEF Taken
  <2>2. Taken(pieces) = Total([k \in DOMAIN pieces |-> pieces[k].take])
    BY DEF Taken
  <2>3. [k \in 1 .. n |-> pieces[k].take] \in Seq(Nat) /\ DOMAIN pieces = 1 .. n
    <3>1. [k \in 1 .. n |-> pieces[k].take] \in [1 .. n -> Nat]
      BY <1>4
    <3>2. DOMAIN pieces = 1 .. n
      BY <1>3
    <3> QED BY <1>4, <3>1, <3>2, SeqDef
  <2>4. 0 \in Nat
    OBVIOUS
  <2> QED BY <2>2, <2>3, <2>4, TotalOfMore
<1>8. g >= 1
  <2> SUFFICES ASSUME g = 0 PROVE FALSE
    BY <1>4
  <2>1. got = <<>>
    BY <1>1, EmptySeq
  <2>2. [k \in DOMAIN got |-> Dur[got[k]]] = <<>>
    BY <2>1
  <2>3. Seconds(got) = 0
    BY <2>2, TotalOfNone DEF Seconds
  <2>4. l # 0
    BY <1>1, EmptySeq
  <2> QED BY <1>1, <2>3, <2>4 DEF Enough
<1>9. n >= 1
  BY <1>3, <1>6, <1>8
<1>10. StoriesOf(pieces) = SubSeq(plan.items, 1, n)
  <2> DEFINE s == StoriesOf(pieces)
             t == SubSeq(plan.items, 1, n)
  <2>1. s \in Seq(Items) /\ Len(s) = n /\ \A k \in 1 .. n : s[k] = plan.items[k]
    <3>1. DOMAIN pieces = 1 .. n
      BY <1>3
    <3>2. s = [k \in 1 .. n |-> pieces[k].item]
      BY <3>1 DEF StoriesOf
    <3>3. \A k \in 1 .. n : k \in 1 .. g
      BY <1>4, <1>6
    <3>4. \A k \in 1 .. n : pieces[k].item = plan.items[k] /\ pieces[k].item \in Items
      BY <1>1, <1>4, <1>6, <3>3
    <3> HIDE DEF s
    <3>5. s \in [1 .. n -> Items]
      BY <3>2, <3>4
    <3>6. s \in Seq(Items) /\ Len(s) = n
      BY <1>4, <3>5, SeqDef
    <3> QED BY <3>2, <3>4, <3>6
  <2>2. t \in Seq(Items) /\ Len(t) = n /\ \A k \in 1 .. n : t[k] = plan.items[k]
    <3>1. n <= l
      BY <1>1, <1>4, <1>6
    <3> QED BY <1>1, <1>4, <3>1, SubSeqProperties
  <2> HIDE DEF s, t
  <2>3. s = t
    BY <2>1, <2>2, SeqEqual
  <2> QED BY <2>3 DEF s, t
<1>11. \A k \in 1 .. n : pieces[k].take >= MinSeconds
  <2> TAKE k \in 1 .. n
  <2>1. pieces[k] \in ToSet(pieces)
    BY <1>3 DEF ToSet
  <2>2. Rendered(pieces[k]) = pieces[k].take /\ ~ Rendered(pieces[k]) < MinSeconds
    BY <1>1, <2>1 DEF Unfit
  <2>3. pieces[k].take \in Nat
    BY <1>4
  <2> QED BY <1>1, <2>2, <2>3
<1>12. n < l => \/ Taken(pieces) = cap
                \/ n = MaxChapters
                \/ ~ PartialTail /\ Dur[plan.items[n + 1]] > cap - Taken(pieces)
  <2> SUFFICES ASSUME n < l
               PROVE  \/ Taken(pieces) = cap
                      \/ n = MaxChapters
                      \/ ~ PartialTail /\ Dur[plan.items[n + 1]] > cap - Taken(pieces)
    OBVIOUS
  <2>1. CASE r.stopped
    <3>1. n < g => n + 1 \in 1 .. g
      BY <1>4
    <3>2. n < g => got[n + 1] = plan.items[n + 1]
      BY <1>1, <3>1
    <3>3. r.left = cap - Taken(pieces)
      BY <1>1, <1>3, <1>6, <1>7
    <3> HIDE DEF n, g, l, R
    <3>4. \/ r.left = 0
          \/ n = MaxChapters
          \/ ~ PartialTail /\ n < g /\ Dur[got[n + 1]] > r.left
      BY <1>6, <2>1
    <3>5. CASE r.left = 0
      BY <1>6, <1>7, <3>5
    <3>6. CASE ~ PartialTail /\ n < g /\ Dur[got[n + 1]] > r.left
      BY <3>2, <3>3, <3>6
    <3> QED BY <3>4, <3>5, <3>6
  <2>2. CASE ~ r.stopped
    <3>1. n = g /\ r.left > 0 /\ \A k \in 1 .. n : pieces[k].take = Dur[got[k]]
      BY <1>6, <2>2
    <3>2. DOMAIN pieces = 1 .. n /\ DOMAIN got = 1 .. n
      BY <1>1, <1>3, <3>1
    <3>3. [k \in DOMAIN pieces |-> pieces[k].take] = [k \in DOMAIN got |-> Dur[got[k]]]
      BY <3>1, <3>2
    <3>4. Taken(pieces) = Seconds(got)
      BY <3>3 DEF Taken, Seconds
    <3>5. Seconds(got) >= cap
      BY <1>1, <3>1 DEF Enough
    <3> QED BY <1>1, <1>3, <1>6, <1>7, <3>1, <3>4, <3>5
  <2> QED BY <1>3, <2>1, <2>2
<1>13. \A k \in 1 .. n : k \in 1 .. g /\ pieces[k].take \in Nat
  BY <1>4, <1>6
<1> HIDE DEF R
<1>14. /\ n \in 1 .. MaxChapters /\ n <= l /\ Taken(pieces) <= cap
  BY <1>1, <1>3, <1>4, <1>6, <1>7, <1>9
<1>15. \A k \in 1 .. n - 1 : pieces[k].take = Dur[pieces[k].item]
  BY <1>4, <1>6
<1>16. pieces[n].take # Dur[pieces[n].item] =>
              pieces[n].take < Dur[pieces[n].item] /\ Taken(pieces) = cap
  <2>1. n \in 1 .. n
    BY <1>4, <1>9
  <2>2. pieces[n].item = got[n]
    BY <1>6, <2>1
  <2>3. \/ pieces[n].take = Dur[got[n]]
        \/ pieces[n].take < Dur[got[n]] /\ r.left = 0
    BY <1>6, <2>1
  <2> HIDE DEF n
  <2>4. r.left = 0 => Taken(pieces) = cap
    BY <1>6, <1>7
  <2> QED BY <2>2, <2>3, <2>4
<1> QED BY <1>10, <1>11, <1>12, <1>14, <1>15, <1>16 DEF LoadFits

\* What goes on a tonie fits, for every library, cap and chapter limit: the
\* first stories of the plan, whole except perhaps the last, and the next one
\* was left out only because there was no room for it.
THEOREM LoadsFit == Spec => []LoadFits
<1>1. Inv => LoadFits
  BY FitsInv
<1> QED BY <1>1, InvHolds, PTL

\* Every plan, the first one and those made after a story turned out to be
\* gone, is one that choose_next may decide: nothing but what is eligible, a
\* pin first, and the best story there is for a single.
THEOREM ChoicesAreSound == Spec => PlansAreWellChosen
<1> DEFINE A == /\ PlanTonie /\ pc' = "fetch" =>
                     \E cool \in RecentlyHeld(who') :
                        WellChosen(who', read[who'], Eligible(ok'), plan', cool)
                /\ FetchDead /\ pc' = "fetch" =>
                     \E cool \in RecentlyHeld(who) :
                        WellChosen(who, Assignment(who), Eligible(ok'), plan', cool)
<1>1. Inv /\ [Next]_vars => [A]_vars
  BY PlanTonieKeeps, FetchDeadKeeps
<1> HIDE DEF A
<1>2. Spec => [][A]_vars
  BY <1>1, InvHolds, PTL DEF Spec
<1> QED BY <1>2 DEF PlansAreWellChosen, A

\* A night is given up only when no eligible story can be fetched, or when a
\* dead entry is still listed: the attempts, one per story, never run out first.
THEOREM NightsAreKept == Spec => NightNotLost
<1> DEFINE A == FetchDead /\ pc' = "next" /\ calm =>
                  \/ \A i \in enabled \cap ok' : Meets(i) # "fetched"
                  \/ \E i \in enabled \cap Listed : Meets(i) = "unavailable"
<1>1. Inv /\ [Next]_vars => [A]_vars
  <2> SUFFICES ASSUME Inv, FetchDead, pc' = "next", calm
               PROVE  \/ \A i \in enabled \cap ok' : Meets(i) # "fetched"
                      \/ \E i \in enabled \cap Listed : Meets(i) = "unavailable"
    OBVIOUS
  <2>1. \/ enabled \cap ok' = {}
        \/ \E i \in enabled \cap Listed : Meets(i) = "unavailable"
    BY FetchDeadKeeps
  <2> QED BY <2>1
<1> HIDE DEF A
<1>2. Spec => [][A]_vars
  BY <1>1, InvHolds, PTL DEF Spec
<1> QED BY <1>2 DEF NightNotLost, A

=============================================================================
