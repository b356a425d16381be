---------------------------- MODULE ListTheorems ----------------------------
(***************************************************************************)
(* Lemmas about numbers, functions that are defined by recursion on them,  *)
(* and the operators of Lists.  The inductions are about sets, because no  *)
(* fact can be cited here that takes an operator as a parameter.           *)
(***************************************************************************)
EXTENDS Lists, TLAPS, WellFoundedInduction

-----------------------------------------------------------------------------
(***************************************************************************)
(* Numbers, and functions that are defined by recursion on them            *)
(***************************************************************************)
\* A set of numbers has a least one.
LEMMA LeastNumber ==
  ASSUME NEW T \in SUBSET Nat, T # {}
  PROVE  \E x \in T : \A y \in T : x <= y
<1> DEFINE less == OpToRel(<, Nat)
<1>1. IsWellFoundedOn(less, Nat)
  BY NatLessThanWellFounded
<1>2. \A x, y \in Nat : <<y, x>> \in less <=> y < x
  BY DEF OpToRel
<1> HIDE DEF less
<1>3. PICK x \in T : \A y \in T : ~(<<y, x>> \in less)
  BY <1>1, WFMin
<1>4. ASSUME NEW y \in T PROVE x <= y
  <2>1. x \in Nat /\ y \in Nat /\ ~(y < x)
    BY <1>2, <1>3
  <2> QED
    BY <2>1
<1> QED
  BY <1>4

\* Induction up to n, over a set instead of a predicate.
LEMMA Induction ==
  ASSUME NEW n \in Nat, NEW S, 0 \in S, \A k \in 0..(n - 1) : k \in S => k + 1 \in S
  PROVE  \A k \in 0..n : k \in S
<1> SUFFICES ASSUME (0..n) \ S # {} PROVE FALSE
  OBVIOUS
<1>1. PICK k \in (0..n) \ S : \A m \in (0..n) \ S : k <= m
  <2> DEFINE T == (0..n) \ S
  <2>1. T \in SUBSET Nat /\ T # {}
    OBVIOUS
  <2> HIDE DEF T
  <2>2. \E k \in T : \A m \in T : k <= m
    BY <2>1, LeastNumber
  <2> QED
    BY <2>2 DEF T
<1>2. k - 1 \in 0..(n - 1) /\ k - 1 \in S
  BY <1>1
<1> QED
  BY <1>1, <1>2


\* A recursive definition over the first numbers has a function that solves it.
Steps(n, S) == [(1..n) \X S -> S]
Solves(f, n, S, base, advance) ==
  /\ f \in [0..n -> S] /\ f[0] = base
  /\ \A i \in 1..n : f[i] = advance[<<i, f[i - 1]>>]

LEMMA RecursionSolved ==
  ASSUME NEW n \in Nat, NEW S, NEW base \in S, NEW advance \in Steps(n, S)
  PROVE  \E f : Solves(f, n, S, base, advance)
<1> DEFINE T == {k \in 0..n : \E f : Solves(f, k, S, base, advance)}
<1> USE DEF Solves, Steps
<1>1. 0 \in T
  <2> DEFINE g == [i \in 0..0 |-> base]
  <2>1. Solves(g, 0, S, base, advance)
    OBVIOUS
  <2> HIDE DEF g
  <2>2. 0 \in 0..n
    OBVIOUS
  <2> QED
    BY <2>1, <2>2
<1>2. ASSUME NEW k \in 0..(n - 1), k \in T PROVE k + 1 \in T
  <2>1. PICK f : Solves(f, k, S, base, advance)
    BY <1>2
  <2> DEFINE value == advance[<<k + 1, f[k]>>]
             g == [i \in 0..(k + 1) |-> IF i = k + 1 THEN value ELSE f[i]]
  <2>2. value \in S
    BY <2>1
  <2>3. g \in [0..(k + 1) -> S]
    BY <2>1, <2>2
  <2>4. \A i \in 0..k : g[i] = f[i]
    OBVIOUS
  <2>5. g[k + 1] = value
    OBVIOUS
  <2> HIDE DEF g
  <2>6. ASSUME NEW i \in 1..(k + 1) PROVE g[i] = advance[<<i, g[i - 1]>>]
    <3>1. CASE i = k + 1
      BY <2>4, <2>5, <3>1
    <3>2. CASE i \in 1..k
      BY <2>1, <2>4, <3>2
    <3> QED
      BY <3>1, <3>2
  <2>7. Solves(g, k + 1, S, base, advance)
    BY <2>1, <2>3, <2>4, <2>6
  <2> QED
    BY <2>7
<1> HIDE DEF T
<1>3. n \in T
  BY <1>1, <1>2, Induction
<1> QED
  BY <1>3 DEF T

\* A function that begins as it says and goes on as it says is such a solution.
LEMMA Unrolled ==
  ASSUME NEW n \in Nat, NEW S, NEW base \in S, NEW advance \in Steps(n, S), NEW f,
         f = [i \in 0..n |-> f[i]], f[0] = base,
         \A i \in 1..n : f[i - 1] \in S => f[i] = advance[<<i, f[i - 1]>>]
  PROVE  Solves(f, n, S, base, advance)
<1> DEFINE T == {k \in 0..n : f[k] \in S}
<1>1. 0 \in T
  OBVIOUS
<1>2. ASSUME NEW k \in 0..(n - 1), k \in T PROVE k + 1 \in T
  <2>1. k + 1 \in 1..n /\ k + 1 \in 0..n /\ (k + 1) - 1 = k
    OBVIOUS
  <2>2. f[k] \in S /\ f[k + 1] = advance[<<k + 1, f[k]>>]
    BY <1>2, <2>1
  <2>3. <<k + 1, f[k]>> \in (1..n) \X S
    BY <2>1, <2>2
  <2> QED
    BY <2>1, <2>2, <2>3 DEF Steps
<1> HIDE DEF T
<1>3. \A k \in 0..n : k \in T
  BY <1>1, <1>2, Induction
<1>4. \A k \in 0..n : f[k] \in S
  BY <1>3 DEF T
<1>5. f \in [0..n -> S]
  BY <1>4
<1>6. \A i \in 1..n : i - 1 \in 0..n
  OBVIOUS
<1> QED
  BY <1>4, <1>5, <1>6 DEF Solves

-----------------------------------------------------------------------------
(***************************************************************************)
(* Lists                                                                   *)
(***************************************************************************)
LEMMA ListElement == ASSUME NEW X, NEW s \in Seq(X) PROVE \A i \in DOMAIN s : s[i] \in X
  OBVIOUS

LEMMA ListOf == ASSUME NEW X, NEW n \in Nat, NEW f \in [1..n -> X] PROVE f \in Seq(X) /\ Len(f) = n
  OBVIOUS

LEMMA NumberAt == ASSUME NEW s \in Seq(Nat) PROVE \A i \in 1..Len(s) : s[i] \in Nat
  OBVIOUS

LEMMA AppendedElements ==
  ASSUME NEW X, NEW s \in Seq(X), NEW x PROVE Elements(Append(s, x)) = Elements(s) \cup {x}
<1> DEFINE d == Append(s, x)
<1>1. /\ DOMAIN s = 1..Len(s) /\ Len(s) \in Nat /\ DOMAIN d = 1..(Len(s) + 1)
      /\ d[Len(s) + 1] = x /\ \A i \in 1..Len(s) : d[i] = s[i]
  OBVIOUS
<1> HIDE DEF d
<1>2. \A e : e \in Elements(d) <=> e \in Elements(s) \/ e = x
  BY <1>1 DEF Elements
<1> QED
  BY <1>2 DEF d

LEMMA JoinedList ==
  ASSUME NEW X, NEW s \in Seq(X), NEW t \in Seq(X)
  PROVE  /\ s \o t \in Seq(X) /\ Len(s) \in Nat /\ Len(t) \in Nat
         /\ DOMAIN s = 1..Len(s) /\ DOMAIN t = 1..Len(t)
         /\ Len(s \o t) = Len(s) + Len(t) /\ DOMAIN (s \o t) = 1..(Len(s) + Len(t))
         /\ \A i \in 1..Len(s) : (s \o t)[i] = s[i]
         /\ \A i \in 1..Len(t) : (s \o t)[Len(s) + i] = t[i]
  OBVIOUS

LEMMA JoinedElements ==
  ASSUME NEW X, NEW s \in Seq(X), NEW t \in Seq(X)
  PROVE  s \o t \in Seq(X) /\ Elements(s \o t) = Elements(s) \cup Elements(t)
<1> DEFINE d == s \o t
<1>1. /\ DOMAIN s = 1..Len(s) /\ DOMAIN t = 1..Len(t) /\ DOMAIN d = 1..(Len(s) + Len(t))
      /\ Len(s) \in Nat /\ Len(t) \in Nat /\ d \in Seq(X)
      /\ \A i \in 1..Len(s) : d[i] = s[i]
      /\ \A i \in 1..Len(t) : d[Len(s) + i] = t[i]
  OBVIOUS
<1> HIDE DEF d
<1>2. \A i \in DOMAIN d : i \in DOMAIN s \/ (i - Len(s) \in DOMAIN t /\ i = Len(s) + (i - Len(s)))
  BY <1>1
<1>3. \A i \in DOMAIN t : Len(s) + i \in DOMAIN d
  BY <1>1
<1>4. \A i \in DOMAIN s : i \in DOMAIN d
  BY <1>1
<1>5. \A e \in Elements(d) : e \in Elements(s) \cup Elements(t)
  BY <1>1, <1>2 DEF Elements
<1>6. \A e \in Elements(s) \cup Elements(t) : e \in Elements(d)
  BY <1>1, <1>3, <1>4 DEF Elements
<1> QED
  BY <1>1, <1>5, <1>6 DEF d

LEMMA FirstElements ==
  ASSUME NEW X, NEW s \in Seq(X), NEW count \in Nat
  PROVE  /\ FirstOf(s, count) \in Seq(X) /\ Elements(FirstOf(s, count)) \subseteq Elements(s)
         /\ Len(FirstOf(s, count)) = IF Len(s) < count THEN Len(s) ELSE count
         /\ \A i \in DOMAIN FirstOf(s, count) : i \in DOMAIN s /\ FirstOf(s, count)[i] = s[i]
<1> DEFINE n == IF Len(s) < count THEN Len(s) ELSE count
           d == SubSeq(s, 1, n)
<1>1. n \in Nat /\ n <= Len(s) /\ Len(s) \in Nat /\ DOMAIN s = 1..Len(s)
  OBVIOUS
<1> HIDE DEF n
<1>2. Len(d) = n /\ DOMAIN d = 1..n /\ \A i \in 1..n : d[i] = s[i]
  BY <1>1
<1>3. d \in Seq(X)
  BY <1>1
<1>4. FirstOf(s, count) = d
  BY DEF FirstOf, n
<1> HIDE DEF d
<1>5. \A i \in DOMAIN d : i \in DOMAIN s /\ d[i] = s[i]
  BY <1>1, <1>2
<1>6. Elements(d) \subseteq Elements(s)
  BY <1>5 DEF Elements
<1>7. Len(d) = IF Len(s) < count THEN Len(s) ELSE count
  BY <1>2 DEF n
<1> QED
  BY <1>3, <1>4, <1>5, <1>6, <1>7

KeepAdvance(s, T, X) ==
  [p \in (1..Len(s)) \X Seq(X) |-> IF s[p[1]] \in T THEN Append(p[2], s[p[1]]) ELSE p[2]]

LEMMA KeepingSolves ==
  ASSUME NEW X, NEW s \in Seq(X), NEW T
  PROVE  Solves(Keeping(s, T), Len(s), Seq(X), <<>>, KeepAdvance(s, T, X))
<1> DEFINE n == Len(s)
           advance == KeepAdvance(s, T, X)
           Kept(g) == [i \in 0..n |-> IF i = 0 THEN <<>>
                                      ELSE IF s[i] \in T THEN Append(g[i - 1], s[i]) ELSE g[i - 1]]
           k == Keeping(s, T)
<1>1. n \in Nat /\ <<>> \in Seq(X) /\ \A i \in 1..n : s[i] \in X
  OBVIOUS
<1>2. k = CHOOSE g : g = Kept(g)
  BY DEF Keeping
<1>3. /\ advance \in Steps(n, Seq(X))
      /\ \A i \in 1..n, l \in Seq(X) : advance[<<i, l>>] = IF s[i] \in T THEN Append(l, s[i]) ELSE l
  BY <1>1 DEF Steps, KeepAdvance
<1> HIDE DEF n, advance, k
<1>4. PICK f : Solves(f, n, Seq(X), <<>>, advance)
  BY <1>1, <1>3, RecursionSolved
<1>5. f = Kept(f)
  <2>1. f \in [0..n -> Seq(X)] /\ f[0] = <<>> /\ \A i \in 1..n : f[i] = advance[<<i, f[i - 1]>>]
    BY <1>4 DEF Solves
  <2>2. ASSUME NEW i \in 0..n PROVE f[i] = Kept(f)[i]
    <3>1. CASE i = 0
      BY <2>1, <3>1
    <3>2. CASE i # 0
      <4>1. i \in 1..n /\ f[i - 1] \in Seq(X)
        BY <1>1, <2>1, <3>2
      <4> QED
        BY <1>3, <2>1, <3>2, <4>1
    <3> QED
      BY <3>1, <3>2
  <2> QED
    BY <2>1, <2>2
<1>6. k = Kept(k)
  BY <1>2, <1>5, Zenon
<1>7. \A i \in 0..n : k[i] = IF i = 0 THEN <<>>
                             ELSE IF s[i] \in T THEN Append(k[i - 1], s[i]) ELSE k[i - 1]
  BY <1>6
<1>8. k = [i \in 0..n |-> k[i]]
  BY <1>6
<1>9. k[0] = <<>> /\ \A i \in 1..n : k[i - 1] \in Seq(X) => k[i] = advance[<<i, k[i - 1]>>]
  <2>1. 0 \in 0..n /\ \A i \in 1..n : i \in 0..n /\ i # 0
    BY <1>1
  <2> QED
    BY <1>3, <1>7, <2>1, Zenon
<1>10. Solves(k, n, Seq(X), <<>>, advance)
  BY <1>1, <1>3, <1>8, <1>9, Unrolled
<1> QED
  BY <1>10 DEF k, n, advance

\* A list filtered by a set holds what it held of that set.
LEMMA FilteredList ==
  ASSUME NEW X, NEW s \in Seq(X), NEW T
  PROVE  /\ Filtered(s, T) \in Seq(X)
         /\ Elements(Filtered(s, T)) = Elements(s) \cap T
<1> DEFINE n == Len(s)
           advance == KeepAdvance(s, T, X)
           k == Keeping(s, T)
           N == {i \in 0..n : Elements(k[i]) = {s[j] : j \in 1..i} \cap T}
<1>1. n \in Nat /\ DOMAIN s = 1..n /\ \A i \in 1..n : s[i] \in X
  OBVIOUS
<1>2. \A i \in 1..n, l \in Seq(X) : advance[<<i, l>>] = IF s[i] \in T THEN Append(l, s[i]) ELSE l
  BY <1>1 DEF KeepAdvance
<1>3. Solves(k, n, Seq(X), <<>>, advance)
  BY KeepingSolves
<1> HIDE DEF n, advance, k
<1>4. /\ k \in [0..n -> Seq(X)] /\ k[0] = <<>>
      /\ \A i \in 1..n : k[i - 1] \in Seq(X) /\ k[i] = IF s[i] \in T THEN Append(k[i - 1], s[i]) ELSE k[i - 1]
  <2>1. /\ k \in [0..n -> Seq(X)] /\ k[0] = <<>>
        /\ \A i \in 1..n : k[i] = advance[<<i, k[i - 1]>>] 
    BY <1>3 DEF Solves
  <2>2. \A i \in 1..n : i - 1 \in 0..n
    BY <1>1
  <2> QED
    BY <1>2, <2>1, <2>2
<1>5. 0 \in N
  BY <1>1, <1>4 DEF Elements
<1>6. ASSUME NEW i \in 0..(n - 1), i \in N PROVE i + 1 \in N
  <2>1. i + 1 \in 1..n /\ (i + 1) - 1 = i /\ i + 1 \in 0..n /\ 1..(i + 1) = 1..i \cup {i + 1}
    BY <1>1
  <2>2. k[i] \in Seq(X) /\ k[i + 1] = IF s[i + 1] \in T THEN Append(k[i], s[i + 1]) ELSE k[i]
    BY <1>4, <2>1
  <2>3. Elements(Append(k[i], s[i + 1])) = Elements(k[i]) \cup {s[i + 1]}
    BY <1>1, <2>1, <2>2, AppendedElements
  <2>4. Elements(k[i]) = {s[j] : j \in 1..i} \cap T
    BY <1>6
  <2>5. {s[j] : j \in 1..(i + 1)} = {s[j] : j \in 1..i} \cup {s[i + 1]}
    BY <2>1
  <2> QED
    BY <2>1, <2>2, <2>3, <2>4, <2>5
<1> HIDE DEF N
<1>7. n \in N
  BY <1>1, <1>5, <1>6, Induction
<1> QED
  BY <1>1, <1>4, <1>7 DEF N, Filtered, Elements, k, n

\* It holds them in their order: what stands at a place of it stood at some place of the
\* list, and earlier places come from earlier ones.
FilterPlaces(f, s, n, at) ==
  /\ at \in [1..Len(f) -> 1..n]
  /\ \A j \in 1..Len(f) : f[j] = s[at[j]]
  /\ \A i, j \in 1..Len(f) : i < j => at[i] < at[j]

LEMMA FilteredPlaces ==
  ASSUME NEW X, NEW s \in Seq(X), NEW T
  PROVE  Len(Filtered(s, T)) <= Len(s) /\ \E at : FilterPlaces(Filtered(s, T), s, Len(s), at)
<1> DEFINE n == Len(s)
           advance == KeepAdvance(s, T, X)
           k == Keeping(s, T)
           N == {i \in 0..n : Len(k[i]) <= i /\ \E at : FilterPlaces(k[i], s, i, at)}
<1>1. n \in Nat /\ DOMAIN s = 1..n /\ \A i \in 1..n : s[i] \in X
  OBVIOUS
<1>2. \A i \in 1..n, l \in Seq(X) : advance[<<i, l>>] = IF s[i] \in T THEN Append(l, s[i]) ELSE l
  BY <1>1 DEF KeepAdvance
<1>3. Solves(k, n, Seq(X), <<>>, advance)
  BY KeepingSolves
<1> HIDE DEF n, advance, k
<1>4. /\ k \in [0..n -> Seq(X)] /\ k[0] = <<>>
      /\ \A i \in 1..n : k[i - 1] \in Seq(X) /\ k[i] = IF s[i] \in T THEN Append(k[i - 1], s[i]) ELSE k[i - 1]
  <2>1. /\ k \in [0..n -> Seq(X)] /\ k[0] = <<>>
        /\ \A i \in 1..n : k[i] = advance[<<i, k[i - 1]>>]
    BY <1>3 DEF Solves
  <2>2. \A i \in 1..n : i - 1 \in 0..n
    BY <1>1
  <2> QED
    BY <1>2, <2>1, <2>2
<1>5. 0 \in N
  <2>1. FilterPlaces(k[0], s, 0, [j \in 1..0 |-> 0])
    BY <1>4 DEF FilterPlaces
  <2>2. Len(k[0]) <= 0 /\ 0 \in 0..n
    BY <1>1, <1>4
  <2> QED
    BY <2>1, <2>2
<1>6. ASSUME NEW i \in 0..(n - 1), i \in N PROVE i + 1 \in N
  <2>1. i \in Nat /\ i + 1 \in 1..n /\ (i + 1) - 1 = i /\ i + 1 \in 0..n
    BY <1>1
  <2>2. k[i] \in Seq(X) /\ k[i + 1] = IF s[i + 1] \in T THEN Append(k[i], s[i + 1]) ELSE k[i]
    BY <1>4, <2>1
  <2>3. PICK at : FilterPlaces(k[i], s, i, at)
    BY <1>6
  <2>4. Len(k[i]) <= i /\ Len(k[i]) \in Nat
    BY <1>6, <2>2
  <2>5. CASE s[i + 1] \notin T
    <3>1. k[i + 1] = k[i]
      BY <2>2, <2>5
    <3>2. FilterPlaces(k[i], s, i + 1, at)
      BY <2>1, <2>3 DEF FilterPlaces
    <3> QED
      BY <2>1, <2>4, <3>1, <3>2
  <2>6. CASE s[i + 1] \in T
    <3> DEFINE m == Len(k[i])
               more == [j \in 1..(m + 1) |-> IF j = m + 1 THEN i + 1 ELSE at[j]]
    <3>1. m \in Nat /\ m <= i
      BY <2>4
    <3>2. k[i + 1] = Append(k[i], s[i + 1])
      BY <2>2, <2>6
    <3>3. /\ Len(k[i + 1]) = m + 1 /\ k[i + 1][m + 1] = s[i + 1]
          /\ \A j \in 1..m : k[i + 1][j] = k[i][j]
      BY <2>2, <3>2
    <3>4. /\ at \in [1..m -> 1..i] /\ \A j \in 1..m : k[i][j] = s[at[j]]
          /\ \A a, b \in 1..m : a < b => at[a] < at[b]
      BY <2>3 DEF FilterPlaces
    <3> HIDE DEF m
    <3>5. /\ more \in [1..(m + 1) -> 1..(i + 1)]
          /\ more[m + 1] = i + 1 /\ \A j \in 1..m : more[j] = at[j] /\ more[j] \in 1..i
      BY <2>1, <3>1, <3>4
    <3> HIDE DEF more
    <3>6. \A j \in 1..(m + 1) : k[i + 1][j] = s[more[j]]
      BY <3>1, <3>3, <3>4, <3>5
    <3>7. \A a, b \in 1..(m + 1) : a < b => more[a] < more[b]
      <4>1. SUFFICES ASSUME NEW a \in 1..(m + 1), NEW b \in 1..(m + 1), a < b
                     PROVE  more[a] < more[b]
        OBVIOUS
      <4>2. a \in 1..m /\ more[a] = at[a] /\ more[a] \in 1..i
        BY <3>1, <3>5, <4>1
      <4>3. CASE b = m + 1
        BY <2>1, <3>5, <4>2, <4>3
      <4>4. CASE b \in 1..m
        BY <3>4, <3>5, <4>1, <4>2, <4>4
      <4> QED
        BY <3>1, <4>3, <4>4
    <3>8. FilterPlaces(k[i + 1], s, i + 1, more)
      BY <3>3, <3>5, <3>6, <3>7 DEF FilterPlaces
    <3>9. Len(k[i + 1]) <= i + 1
      BY <2>1, <3>1, <3>3
    <3> QED
      BY <2>1, <3>8, <3>9
  <2> QED
    BY <2>5, <2>6
<1> HIDE DEF N
<1>7. n \in N
  BY <1>1, <1>5, <1>6, Induction
<1> QED
  BY <1>7 DEF N, Filtered, k, n

DistinctAdvance(s, X) ==
  [p \in (1..Len(s)) \X Seq(X) |->
     IF s[p[1]] \in Elements(p[2]) THEN p[2] ELSE Append(p[2], s[p[1]])]

LEMMA DeduplicatingSolves ==
  ASSUME NEW X, NEW s \in Seq(X)
  PROVE  Solves(Deduplicating(s), Len(s), Seq(X), <<>>, DistinctAdvance(s, X))
<1> DEFINE n == Len(s)
           advance == DistinctAdvance(s, X)
           Next(g) == [i \in 0..n |-> IF i = 0 THEN <<>> ELSE IF s[i] \in Elements(g[i - 1]) THEN g[i - 1] ELSE Append(g[i - 1], s[i])]
           k == Deduplicating(s)
<1>1. n \in Nat /\ <<>> \in Seq(X) /\ \A i \in 1..n : s[i] \in X
  OBVIOUS
<1>2. k = CHOOSE g : g = Next(g)
  BY DEF Deduplicating
<1>3. /\ advance \in Steps(n, Seq(X))
      /\ \A i \in 1..n, l \in Seq(X) : advance[<<i, l>>] = IF s[i] \in Elements(l) THEN l ELSE Append(l, s[i])
  <2>1. \A i \in 1..n, l \in Seq(X) : Append(l, s[i]) \in Seq(X)
    BY <1>1
  <2>2. \A p \in (1..n) \X Seq(X) : p[1] \in 1..n /\ p[2] \in Seq(X)
    OBVIOUS
  <2>3. advance = [p \in (1..n) \X Seq(X) |->
                     IF s[p[1]] \in Elements(p[2]) THEN p[2] ELSE Append(p[2], s[p[1]])]
    BY DEF DistinctAdvance
  <2>4. \A p \in (1..n) \X Seq(X) :
          (IF s[p[1]] \in Elements(p[2]) THEN p[2] ELSE Append(p[2], s[p[1]])) \in Seq(X)
    BY <2>1, <2>2, Zenon
  <2> HIDE DEF n, advance
  <2>5. advance \in [(1..n) \X Seq(X) -> Seq(X)]
    BY <2>3, <2>4, Zenon
  <2>6. ASSUME NEW i \in 1..n, NEW l \in Seq(X)
        PROVE  advance[<<i, l>>] = IF s[i] \in Elements(l) THEN l ELSE Append(l, s[i])
    BY <2>3
  <2> QED
    BY <2>5, <2>6 DEF Steps
<1> HIDE DEF n, advance, k
<1>4. PICK f : Solves(f, n, Seq(X), <<>>, advance)
  BY <1>1, <1>3, RecursionSolved
<1>5. f = Next(f)
  <2>1. f \in [0..n -> Seq(X)] /\ f[0] = <<>> /\ \A i \in 1..n : f[i] = advance[<<i, f[i - 1]>>]
    BY <1>4 DEF Solves
  <2>2. ASSUME NEW i \in 0..n PROVE f[i] = Next(f)[i]
    <3>1. CASE i = 0
      BY <2>1, <3>1
    <3>2. CASE i # 0
      <4>1. i \in 1..n /\ f[i - 1] \in Seq(X)
        BY <1>1, <2>1, <3>2
      <4> QED
        BY <1>3, <2>1, <3>2, <4>1
    <3> QED
      BY <3>1, <3>2
  <2> QED
    BY <2>1, <2>2
<1>6. k = Next(k)
  BY <1>2, <1>5, Zenon
<1>7. \A i \in 0..n : k[i] = IF i = 0 THEN <<>> ELSE IF s[i] \in Elements(k[i - 1]) THEN k[i - 1] ELSE Append(k[i - 1], s[i])
  BY <1>6
<1>8. k = [i \in 0..n |-> k[i]]
  BY <1>6
<1>9. k[0] = <<>> /\ \A i \in 1..n : k[i - 1] \in Seq(X) => k[i] = advance[<<i, k[i - 1]>>]
  <2>1. 0 \in 0..n /\ \A i \in 1..n : i \in 0..n /\ i # 0
    BY <1>1
  <2> QED
    BY <1>3, <1>7, <2>1, Zenon
<1>10. Solves(k, n, Seq(X), <<>>, advance)
  BY <1>1, <1>3, <1>8, <1>9, Unrolled
<1> QED
  BY <1>10 DEF k, n, advance

\* Without its repetitions a list is still one of the same things.
LEMMA DistinctList == ASSUME NEW X, NEW s \in Seq(X) PROVE Distinct(s) \in Seq(X)
<1> DEFINE advance == DistinctAdvance(s, X)
           k == Deduplicating(s)
<1>1. Solves(k, Len(s), Seq(X), <<>>, advance)
  BY DeduplicatingSolves
<1> HIDE DEF k, advance
<1>2. k \in [0..Len(s) -> Seq(X)]
  BY <1>1 DEF Solves
<1>3. Len(s) \in 0..Len(s)
  OBVIOUS
<1> QED
  BY <1>2, <1>3 DEF k, Distinct

JoinAdvance(s, lists, X) == [p \in (1..Len(s)) \X Seq(X) |-> p[2] \o lists[s[p[1]]]]

LEMMA ConcatenatingSolves ==
  ASSUME NEW X, NEW I, NEW s \in Seq(I), NEW lists \in [I -> Seq(X)]
  PROVE  Solves(Concatenating(s, lists), Len(s), Seq(X), <<>>, JoinAdvance(s, lists, X))
<1> DEFINE n == Len(s)
           advance == JoinAdvance(s, lists, X)
           Next(g) == [i \in 0..n |-> IF i = 0 THEN <<>> ELSE g[i - 1] \o lists[s[i]]]
           k == Concatenating(s, lists)
<1>1. n \in Nat /\ <<>> \in Seq(X) /\ \A i \in 1..n : lists[s[i]] \in Seq(X)
  OBVIOUS
<1>2. k = CHOOSE g : g = Next(g)
  BY DEF Concatenating
<1>3. /\ advance \in Steps(n, Seq(X))
      /\ \A i \in 1..n, l \in Seq(X) : advance[<<i, l>>] = l \o lists[s[i]]
  <2>1. \A i \in 1..n, l \in Seq(X) : l \o lists[s[i]] \in Seq(X)
    BY <1>1, JoinedElements
  <2> QED
    BY <1>1, <2>1 DEF Steps, JoinAdvance
<1> HIDE DEF n, advance, k
<1>4. PICK f : Solves(f, n, Seq(X), <<>>, advance)
  BY <1>1, <1>3, RecursionSolved
<1>5. f = Next(f)
  <2>1. f \in [0..n -> Seq(X)] /\ f[0] = <<>> /\ \A i \in 1..n : f[i] = advance[<<i, f[i - 1]>>]
    BY <1>4 DEF Solves
  <2>2. ASSUME NEW i \in 0..n PROVE f[i] = Next(f)[i]
    <3>1. CASE i = 0
      BY <2>1, <3>1
    <3>2. CASE i # 0
      <4>1. i \in 1..n /\ f[i - 1] \in Seq(X)
        BY <1>1, <2>1, <3>2
      <4> QED
        BY <1>3, <2>1, <3>2, <4>1
    <3> QED
      BY <3>1, <3>2
  <2> QED
    BY <2>1, <2>2
<1>6. k = Next(k)
  BY <1>2, <1>5, Zenon
<1>7. \A i \in 0..n : k[i] = IF i = 0 THEN <<>> ELSE k[i - 1] \o lists[s[i]]
  BY <1>6
<1>8. k = [i \in 0..n |-> k[i]]
  BY <1>6
<1>9. k[0] = <<>> /\ \A i \in 1..n : k[i - 1] \in Seq(X) => k[i] = advance[<<i, k[i - 1]>>]
  <2>1. 0 \in 0..n /\ \A i \in 1..n : i \in 0..n /\ i # 0
    BY <1>1
  <2> QED
    BY <1>3, <1>7, <2>1, Zenon
<1>10. Solves(k, n, Seq(X), <<>>, advance)
  BY <1>1, <1>3, <1>8, <1>9, Unrolled
<1> QED
  BY <1>10 DEF k, n, advance

LEMMA ConcatenatedList ==
  ASSUME NEW X, NEW I, NEW s \in Seq(I), NEW lists \in [I -> Seq(X)]
  PROVE  Concatenated(s, lists) \in Seq(X)
<1> DEFINE advance == JoinAdvance(s, lists, X)
           k == Concatenating(s, lists)
<1>1. Solves(k, Len(s), Seq(X), <<>>, advance)
  BY ConcatenatingSolves
<1> HIDE DEF k, advance
<1>2. k \in [0..Len(s) -> Seq(X)]
  BY <1>1 DEF Solves
<1>3. Len(s) \in 0..Len(s)
  OBVIOUS
<1> QED
  BY <1>2, <1>3 DEF k, Concatenated

LEMMA ConcatenatedElements ==
  ASSUME NEW X, NEW I, NEW s \in Seq(I), NEW lists \in [I -> Seq(X)]
  PROVE  \A x : x \in Elements(Concatenated(s, lists))
                <=> \E i \in 1..Len(s) : x \in Elements(lists[s[i]])
<1> DEFINE n == Len(s)
           advance == JoinAdvance(s, lists, X)
           k == Concatenating(s, lists)
           N == {i \in 0..n : \A x : x \in Elements(k[i])
                                     <=> \E j \in 1..i : x \in Elements(lists[s[j]])}
<1>1. n \in Nat /\ \A i \in 1..n : lists[s[i]] \in Seq(X) /\ s[i] \in I
  OBVIOUS
<1>2. \A i \in 1..n, l \in Seq(X) : advance[<<i, l>>] = l \o lists[s[i]]
  BY <1>1 DEF JoinAdvance
<1>3. Solves(k, n, Seq(X), <<>>, advance)
  BY ConcatenatingSolves
<1> HIDE DEF n, advance, k
<1>4. /\ k \in [0..n -> Seq(X)] /\ k[0] = <<>>
      /\ \A i \in 1..n : k[i - 1] \in Seq(X) /\ k[i] = k[i - 1] \o lists[s[i]]
  <2>1. k \in [0..n -> Seq(X)] /\ k[0] = <<>> /\ \A i \in 1..n : k[i] = advance[<<i, k[i - 1]>>]
    BY <1>3 DEF Solves
  <2>2. \A i \in 1..n : i - 1 \in 0..n
    BY <1>1
  <2> QED
    BY <1>2, <2>1, <2>2
<1>5. 0 \in N
  BY <1>1, <1>4 DEF Elements
<1>6. ASSUME NEW i \in 0..(n - 1), i \in N PROVE i + 1 \in N
  <2>1. i + 1 \in 1..n /\ (i + 1) - 1 = i /\ i + 1 \in 0..n /\ 1..(i + 1) = 1..i \cup {i + 1}
    BY <1>1
  <2>2. k[i] \in Seq(X) /\ k[i + 1] = k[i] \o lists[s[i + 1]]
    BY <1>4, <2>1
  <2>3. Elements(k[i + 1]) = Elements(k[i]) \cup Elements(lists[s[i + 1]])
    BY <1>1, <2>1, <2>2, JoinedElements
  <2>4. \A x : x \in Elements(k[i]) <=> \E j \in 1..i : x \in Elements(lists[s[j]])
    BY <1>6
  <2>5. \A x : x \in Elements(k[i + 1]) <=> \E j \in 1..(i + 1) : x \in Elements(lists[s[j]])
    BY <2>1, <2>3, <2>4, Zenon
  <2> QED
    BY <2>1, <2>5
<1> HIDE DEF N
<1>7. n \in N
  <2>1. \A i \in 0..(n - 1) : i \in N => i + 1 \in N
    BY <1>6
  <2>2. \A i \in 0..n : i \in N
    BY <1>1, <1>5, <2>1, Induction
  <2> QED
    BY <1>1, <2>2
<1> QED
  BY <1>7 DEF N, Concatenated, k, n

AddAdvance(s) == [p \in (1..Len(s)) \X Nat |-> p[2] + s[p[1]]]

LEMMA AddingSolves ==
  ASSUME NEW s \in Seq(Nat)
  PROVE  Solves(Adding(s), Len(s), Nat, 0, AddAdvance(s))
<1> DEFINE n == Len(s)
           advance == AddAdvance(s)
           Next(g) == [i \in 0..n |-> IF i = 0 THEN 0 ELSE g[i - 1] + s[i]]
           k == Adding(s)
<1>1. n \in Nat /\ 0 \in Nat /\ \A i \in 1..n : s[i] \in Nat
  OBVIOUS
<1>2. k = CHOOSE g : g = Next(g)
  BY DEF Adding
<1>3. /\ advance \in Steps(n, Nat)
      /\ \A i \in 1..n, l \in Nat : advance[<<i, l>>] = l + s[i]
  BY <1>1 DEF Steps, AddAdvance
<1> HIDE DEF n, advance, k
<1>4. PICK f : Solves(f, n, Nat, 0, advance)
  BY <1>1, <1>3, RecursionSolved
<1>5. f = Next(f)
  <2>1. f \in [0..n -> Nat] /\ f[0] = 0 /\ \A i \in 1..n : f[i] = advance[<<i, f[i - 1]>>]
    BY <1>4 DEF Solves
  <2>2. ASSUME NEW i \in 0..n PROVE f[i] = Next(f)[i]
    <3>1. CASE i = 0
      BY <2>1, <3>1
    <3>2. CASE i # 0
      <4>1. i \in 1..n /\ f[i - 1] \in Nat
        BY <1>1, <2>1, <3>2
      <4> QED
        BY <1>3, <2>1, <3>2, <4>1
    <3> QED
      BY <3>1, <3>2
  <2> QED
    BY <2>1, <2>2
<1>6. k = Next(k)
  BY <1>2, <1>5, Zenon
<1>7. \A i \in 0..n : k[i] = IF i = 0 THEN 0 ELSE k[i - 1] + s[i]
  BY <1>6
<1>8. k = [i \in 0..n |-> k[i]]
  BY <1>6
<1>9. k[0] = 0 /\ \A i \in 1..n : k[i - 1] \in Nat => k[i] = advance[<<i, k[i - 1]>>]
  <2>1. 0 \in 0..n /\ \A i \in 1..n : i \in 0..n /\ i # 0
    BY <1>1
  <2> QED
    BY <1>3, <1>7, <2>1, Zenon
<1>10. Solves(k, n, Nat, 0, advance)
  BY <1>1, <1>3, <1>8, <1>9, Unrolled
<1> QED
  BY <1>10 DEF k, n, advance

\* A sum is a number that grows with each of its parts, none of which is more than it.
LEMMA SumOfNumbers ==
  ASSUME NEW s \in Seq(Nat)
  PROVE  /\ Sum(s) \in Nat /\ \A i \in 1..Len(s) : s[i] <= Sum(s)
         /\ Adding(s)[0] = 0
         /\ \A i \in 1..Len(s) : Adding(s)[i - 1] \in Nat /\ Adding(s)[i] = Adding(s)[i - 1] + s[i]
<1> DEFINE n == Len(s)
           advance == AddAdvance(s)
           k == Adding(s)
           N == {i \in 0..n : \A j \in 1..i : s[j] <= k[i]}
<1>1. n \in Nat /\ \A i \in 1..n : s[i] \in Nat
  OBVIOUS
<1>2. \A i \in 1..n, l \in Nat : advance[<<i, l>>] = l + s[i]
  BY <1>1 DEF AddAdvance
<1>3. Solves(k, n, Nat, 0, advance)
  BY AddingSolves
<1> HIDE DEF n, advance, k
<1>4. /\ k \in [0..n -> Nat] /\ k[0] = 0
      /\ \A i \in 1..n : k[i - 1] \in Nat /\ k[i] = k[i - 1] + s[i]
  <2>1. k \in [0..n -> Nat] /\ k[0] = 0 /\ \A i \in 1..n : k[i] = advance[<<i, k[i - 1]>>]
    BY <1>3 DEF Solves
  <2>2. \A i \in 1..n : i - 1 \in 0..n
    BY <1>1
  <2> QED
    BY <1>2, <2>1, <2>2
<1>5. 0 \in N
  BY <1>1
<1>6. ASSUME NEW i \in 0..(n - 1), i \in N PROVE i + 1 \in N
  <2>1. i + 1 \in 1..n /\ (i + 1) - 1 = i /\ i + 1 \in 0..n
    BY <1>1
  <2>2. k[i] \in Nat /\ k[i + 1] = k[i] + s[i + 1] /\ s[i + 1] \in Nat
    BY <1>1, <1>4, <2>1
  <2>3. ASSUME NEW j \in 1..(i + 1) PROVE s[j] <= k[i + 1]
    <3>1. CASE j = i + 1
      BY <2>2, <3>1
    <3>2. CASE j \in 1..i
      <4>1. s[j] <= k[i] /\ s[j] \in Nat
        BY <1>1, <1>6, <2>1, <3>2
      <4> QED
        BY <2>2, <4>1
    <3> QED
      BY <3>1, <3>2
  <2> QED
    BY <2>1, <2>3
<1> HIDE DEF N
<1>7. n \in N /\ n \in 0..n
  <2>1. \A i \in 0..(n - 1) : i \in N => i + 1 \in N
    BY <1>6
  <2>2. \A i \in 0..n : i \in N
    BY <1>1, <1>5, <2>1, Induction
  <2> QED
    BY <1>1, <2>2
<1>8. \A i \in 1..n : s[i] <= k[n]
  BY <1>7 DEF N
<1>9. k[n] \in Nat /\ Sum(s) = k[n]
  BY <1>4, <1>7 DEF Sum, k, n
<1> QED
  BY <1>4, <1>8, <1>9 DEF k, n

\* The sum up to a place is no more than the whole sum.
LEMMA PartOfSum ==
  ASSUME NEW s \in Seq(Nat)
  PROVE  \A i \in 0..Len(s) : Adding(s)[i] \in Nat /\ Adding(s)[i] <= Sum(s)
<1> DEFINE n == Len(s)
           k == Adding(s)
           N == {i \in 0..n : k[n - i] \in Nat /\ k[n - i] <= k[n]}
<1>1. n \in Nat /\ \A i \in 1..n : s[i] \in Nat
  OBVIOUS
<1>2. /\ k[n] \in Nat /\ k[0] = 0
      /\ \A i \in 1..n : k[i - 1] \in Nat /\ k[i] = k[i - 1] + s[i]
  BY SumOfNumbers DEF Sum
<1> HIDE DEF n, k
<1>3. 0 \in N
  BY <1>1, <1>2
<1>4. ASSUME NEW i \in 0..(n - 1), i \in N PROVE i + 1 \in N
  <2>1. n - i \in 1..n /\ (n - i) - 1 = n - (i + 1) /\ i + 1 \in 0..n
    BY <1>1
  <2>2. k[(n - i) - 1] \in Nat /\ k[n - i] = k[(n - i) - 1] + s[n - i] /\ s[n - i] \in Nat
    BY <1>1, <1>2, <2>1
  <2>3. k[n - i] <= k[n]
    BY <1>4
  <2>4. k[n - (i + 1)] \in Nat /\ k[n - (i + 1)] <= k[n]
    BY <1>2, <2>1, <2>2, <2>3
  <2> QED
    BY <2>1, <2>4
<1> HIDE DEF N
<1>5. \A i \in 0..n : i \in N
  BY <1>1, <1>3, <1>4, Induction
<1>6. ASSUME NEW i \in 0..n PROVE k[i] \in Nat /\ k[i] <= k[n]
  <2>1. n - i \in 0..n /\ n - (n - i) = i
    BY <1>1
  <2>2. n - i \in N
    BY <1>5, <2>1
  <2> QED
    BY <2>1, <2>2 DEF N
<1> QED
  BY <1>6 DEF n, k, Sum

\* Parts of a window of a list, each no more than so much of what it is a part of and some
\* slack, have a sum that is no more than that of the whole list and as often the slack.
LEMMA ScaledSum ==
  ASSUME NEW s \in Seq(Nat), NEW d \in Seq(Nat), NEW from \in Nat, from + Len(d) <= Len(s),
         NEW c \in Nat, NEW e \in Nat, NEW f \in Nat,
         \A i \in 1..Len(d) : c * d[i] <= e * s[from + i] + f
  PROVE  c * Sum(d) <= e * Sum(s) + f * Len(d)
<1> DEFINE n == Len(s)
           m == Len(d)
           k == Adding(s)
           h == Adding(d)
           N == {i \in 0..m : c * h[i] <= e * k[from + i] + f * i}
<1>1. n \in Nat /\ m \in Nat /\ from + m <= n
  OBVIOUS
<1>2. (\A i \in 1..n : s[i] \in Nat) /\ (\A i \in 1..m : d[i] \in Nat)
  BY NumberAt, Zenon
<1>3. /\ \A i \in 0..n : k[i] \in Nat /\ k[i] <= k[n]
      /\ \A i \in 0..m : h[i] \in Nat /\ h[i] <= h[m]
  BY PartOfSum DEF Sum
<1>4. /\ \A i \in 1..n : k[i] = k[i - 1] + s[i]
      /\ h[0] = 0 /\ \A i \in 1..m : h[i] = h[i - 1] + d[i]
  BY SumOfNumbers
<1>5. \A i \in 1..m : c * d[i] <= e * s[from + i] + f
  OBVIOUS
<1> HIDE DEF n, m, k, h
<1>6. 0 \in N
  <2>1. from \in 0..n /\ from + 0 = from /\ k[from] \in Nat
    BY <1>1, <1>3
  <2>2. e * k[from] \in Nat /\ c * 0 = 0 /\ f * 0 = 0
    BY <2>1
  <2> QED
    BY <1>1, <1>4, <2>1, <2>2
<1>7. ASSUME NEW i \in 0..(m - 1), i \in N PROVE i + 1 \in N
  <2>1. /\ i \in 0..m /\ i + 1 \in 1..m /\ (i + 1) - 1 = i /\ i + 1 \in 0..m
        /\ from + i \in 0..n /\ from + (i + 1) \in 1..n /\ (from + (i + 1)) - 1 = from + i
    BY <1>1
  <2> DEFINE x == h[i]  y == d[i + 1]  u == k[from + i]  v == s[from + (i + 1)]
  <2>2. x \in Nat /\ y \in Nat /\ u \in Nat /\ v \in Nat
    BY <1>2, <1>3, <2>1
  <2>3. h[i + 1] = x + y /\ k[from + (i + 1)] = u + v
    BY <1>4, <2>1
  <2>4. c * x <= e * u + f * i /\ c * y <= e * v + f
    BY <1>5, <1>7, <2>1
  <2> HIDE DEF x, y, u, v
  <2>5. c * (x + y) = c * x + c * y /\ e * (u + v) = e * u + e * v
    BY <2>2
  <2>6. /\ c * x \in Nat /\ c * y \in Nat /\ e * u \in Nat /\ e * v \in Nat
        /\ f * i \in Nat /\ f * (i + 1) = f * i + f
    BY <2>1, <2>2
  <2>7. c * (x + y) <= e * (u + v) + f * (i + 1)
    BY <2>4, <2>5, <2>6
  <2> QED
    BY <2>1, <2>3, <2>7
<1> HIDE DEF N
<1>8. m \in N
  <2>1. \A i \in 0..(m - 1) : i \in N => i + 1 \in N
    BY <1>7, Zenon
  <2>2. \A i \in 0..m : i \in N
    BY <1>1, <1>6, <2>1, Induction, Zenon
  <2>3. m \in 0..m
    BY <1>1
  <2> QED
    BY <2>2, <2>3, Zenon
<1>9. from + m \in 0..n /\ c * h[m] <= e * k[from + m] + f * m
  BY <1>1, <1>8 DEF N
<1>10. k[from + m] \in Nat /\ k[n] \in Nat /\ k[from + m] <= k[n] /\ h[m] \in Nat
  BY <1>1, <1>3, <1>9
<1>11. e * k[from + m] <= e * k[n]
  <2> DEFINE u == k[from + m]  w == k[n] - k[from + m]
  <2>1. u \in Nat /\ w \in Nat /\ k[n] = u + w
    BY <1>10
  <2> HIDE DEF u, w
  <2>2. e * (u + w) = e * u + e * w /\ e * w \in Nat /\ e * u \in Nat
    BY <2>1
  <2>3. e * u <= e * k[n]
    BY <2>1, <2>2
  <2> QED
    BY <2>3 DEF u
<1>12. c * h[m] \in Nat /\ e * k[from + m] \in Nat /\ e * k[n] \in Nat /\ f * m \in Nat
  <2>1. \A x, y \in Nat : x * y \in Nat
    OBVIOUS
  <2>2. c \in Nat /\ e \in Nat /\ f \in Nat
    OBVIOUS
  <2> QED
    BY <1>1, <1>10, <2>1, <2>2, Zenon
<1>13. c * h[m] <= e * k[n] + f * m
  <2> DEFINE x == c * h[m]  y == e * k[from + m]  z == e * k[n]  w == f * m
  <2>1. x \in Nat /\ y \in Nat /\ z \in Nat /\ w \in Nat /\ x <= y + w /\ y <= z
    BY <1>9, <1>11, <1>12
  <2> HIDE DEF x, y, z, w
  <2>2. x <= z + w
    BY <2>1
  <2> QED
    BY <2>2 DEF x, z, w
<1> QED
  BY <1>13 DEF Sum, n, m, k, h

\* The sum of a list whose elements are sums of five is the sum of the five sums.
FiveParts(s, a, b, c, d, e) ==
  /\ s \in Seq(Nat) /\ a \in Seq(Nat) /\ b \in Seq(Nat) /\ c \in Seq(Nat)
  /\ d \in Seq(Nat) /\ e \in Seq(Nat)
  /\ Len(a) = Len(s) /\ Len(b) = Len(s) /\ Len(c) = Len(s) /\ Len(d) = Len(s) /\ Len(e) = Len(s)
  /\ \A i \in 1..Len(s) : s[i] = a[i] + b[i] + c[i] + d[i] + e[i]
LEMMA SumOfFive ==
  ASSUME NEW s, NEW a, NEW b, NEW c, NEW d, NEW e, FiveParts(s, a, b, c, d, e)
  PROVE  Sum(s) = Sum(a) + Sum(b) + Sum(c) + Sum(d) + Sum(e)
<1> USE DEF FiveParts
<1> DEFINE n == Len(s)
           N == {i \in 0..n : Adding(s)[i] = Adding(a)[i] + Adding(b)[i] + Adding(c)[i]
                                               + Adding(d)[i] + Adding(e)[i]}
<1>1. n \in Nat
  OBVIOUS
<1>2. ASSUME NEW t \in Seq(Nat), Len(t) = n
      PROVE  /\ Adding(t)[0] = 0 /\ Sum(t) = Adding(t)[n] /\ \A i \in 0..n : Adding(t)[i] \in Nat
             /\ \A i \in 1..n : t[i] \in Nat /\ Adding(t)[i] = Adding(t)[i - 1] + t[i]
  <2>1. Sum(t) = Adding(t)[n]
    BY <1>2 DEF Sum
  <2>2. \A i \in 1..n : t[i] \in Nat
    BY <1>2, NumberAt
  <2>3. Adding(t)[0] = 0 /\ \A i \in 1..n : Adding(t)[i] = Adding(t)[i - 1] + t[i]
    BY <1>2, SumOfNumbers
  <2>4. \A i \in 0..n : Adding(t)[i] \in Nat
    BY <1>2, PartOfSum
  <2> QED
    BY <2>1, <2>2, <2>3, <2>4
<1>3. 0 \in N
  <2>1. /\ Adding(s)[0] = 0 /\ Adding(a)[0] = 0 /\ Adding(b)[0] = 0 /\ Adding(c)[0] = 0
        /\ Adding(d)[0] = 0 /\ Adding(e)[0] = 0
    BY <1>2
  <2> QED
    BY <1>1, <2>1
<1>4. ASSUME NEW i \in 0..(n - 1), i \in N PROVE i + 1 \in N
  <2>1. i \in 0..n /\ i + 1 \in 1..n /\ (i + 1) - 1 = i /\ i + 1 \in 0..n
    BY <1>1
  <2>2. ASSUME NEW t \in Seq(Nat), Len(t) = n
        PROVE  /\ Adding(t)[i] \in Nat /\ t[i + 1] \in Nat
               /\ Adding(t)[i + 1] = Adding(t)[i] + t[i + 1]
    BY <1>2, <2>1, <2>2
  <2>3. s[i + 1] = a[i + 1] + b[i + 1] + c[i + 1] + d[i + 1] + e[i + 1]
    BY <2>1
  <2>4. Adding(s)[i] = Adding(a)[i] + Adding(b)[i] + Adding(c)[i] + Adding(d)[i] + Adding(e)[i]
    BY <1>4
  <2>5. /\ Adding(s)[i] \in Nat /\ s[i + 1] \in Nat /\ Adding(s)[i + 1] = Adding(s)[i] + s[i + 1]
    BY <2>2
  <2>6. /\ Adding(a)[i] \in Nat /\ a[i + 1] \in Nat /\ Adding(a)[i + 1] = Adding(a)[i] + a[i + 1]
        /\ Adding(b)[i] \in Nat /\ b[i + 1] \in Nat /\ Adding(b)[i + 1] = Adding(b)[i] + b[i + 1]
        /\ Adding(c)[i] \in Nat /\ c[i + 1] \in Nat /\ Adding(c)[i + 1] = Adding(c)[i] + c[i + 1]
    BY <2>2
  <2>7. /\ Adding(d)[i] \in Nat /\ d[i + 1] \in Nat /\ Adding(d)[i + 1] = Adding(d)[i] + d[i + 1]
        /\ Adding(e)[i] \in Nat /\ e[i + 1] \in Nat /\ Adding(e)[i + 1] = Adding(e)[i] + e[i + 1]
    BY <2>2
  <2>8. Adding(s)[i + 1] = Adding(a)[i + 1] + Adding(b)[i + 1] + Adding(c)[i + 1]
                             + Adding(d)[i + 1] + Adding(e)[i + 1]
    <3> DEFINE x1 == Adding(a)[i]  y1 == a[i + 1]
               x2 == Adding(b)[i]  y2 == b[i + 1]
               x3 == Adding(c)[i]  y3 == c[i + 1]
               x4 == Adding(d)[i]  y4 == d[i + 1]
               x5 == Adding(e)[i]  y5 == e[i + 1]
    <3>1. /\ x1 \in Nat /\ x2 \in Nat /\ x3 \in Nat /\ x4 \in Nat /\ x5 \in Nat
          /\ y1 \in Nat /\ y2 \in Nat /\ y3 \in Nat /\ y4 \in Nat /\ y5 \in Nat
      BY <2>6, <2>7
    <3> HIDE DEF x1, x2, x3, x4, x5, y1, y2, y3, y4, y5
    <3>2. (x1 + x2 + x3 + x4 + x5) + (y1 + y2 + y3 + y4 + y5)
            = (x1 + y1) + (x2 + y2) + (x3 + y3) + (x4 + y4) + (x5 + y5)
      BY <3>1
    <3> QED
      BY <2>3, <2>4, <2>5, <2>6, <2>7, <3>2, Zenon
         DEF x1, x2, x3, x4, x5, y1, y2, y3, y4, y5
  <2> QED
    BY <2>1, <2>8
<1> HIDE DEF N
<1>5. n \in N
  <2>1. \A i \in 0..(n - 1) : i \in N => i + 1 \in N
    BY <1>4, Zenon
  <2>2. \A i \in 0..n : i \in N
    BY <1>1, <1>3, <2>1, Induction, Zenon
  <2>3. n \in 0..n
    BY <1>1
  <2> QED
    BY <2>2, <2>3, Zenon
<1>6. /\ Sum(s) = Adding(s)[n] /\ Sum(a) = Adding(a)[n] /\ Sum(b) = Adding(b)[n]
      /\ Sum(c) = Adding(c)[n] /\ Sum(d) = Adding(d)[n] /\ Sum(e) = Adding(e)[n]
  BY <1>2
<1> QED
  BY <1>5, <1>6 DEF N
=============================================================================
