---------------------------- MODULE Basics_proofs ----------------------------
(***************************************************************************)
(* What the other proofs need of numbers, of finite sets in an order, of   *)
(* what a sequence has at some places, and of sums.                        *)
(***************************************************************************)
EXTENDS ParserBasics, FiniteSetTheorems, TLAPS

-----------------------------------------------------------------------------
(* Induction over the natural numbers, as a fact about sets: inclusion of  *)
(* finite sets is well founded, and 1..m is strictly included in 1..n when *)
(* m is less than n.                                                       *)

\* A set of natural numbers that has an element has a least one.
LEMMA Least ==
  ASSUME NEW S \in SUBSET Nat, S # {}
  PROVE  \E x \in S : \A y \in S : x <= y
<1> DEFINE T == {1..n : n \in S}
           R == StrictSubsetOrdering(Nat)
<1>1. T \subseteq FiniteSubsetsOf(Nat)
  <2>1. \A n \in S : IsFiniteSet(1..n) /\ 1..n \in SUBSET Nat BY FS_Interval
  <2> QED BY <2>1 DEF FiniteSubsetsOf
<1>2. \E x \in T : \A y \in T : ~ (<<y, x>> \in R)
  <2>1. T # {} OBVIOUS
  <2>2. IsWellFoundedOn(R, FiniteSubsetsOf(Nat)) BY FS_StrictSubsetOrderingWellFounded
  <2> HIDE DEF T, R
  <2> QED BY <1>1, <2>1, <2>2, WFMin
<1>3. PICK n \in S : \A m \in S : ~ (<<1..m, 1..n>> \in R)
  BY <1>2
<1>4. ASSUME NEW m \in S, m < n PROVE FALSE
  <2>1. /\ 1..m \in SUBSET Nat /\ 1..n \in SUBSET Nat /\ 1..m \subseteq 1..n
        /\ n \notin 1..m /\ n \in 1..n
    BY <1>4
  <2>2. <<1..m, 1..n>> \in R BY <2>1 DEF StrictSubsetOrdering
  <2> QED BY <1>3, <2>2
<1> QED BY <1>4

\* A set with 0 and the successors of its numbers has every natural number.
LEMMA Induction ==
  ASSUME NEW S, 0 \in S, \A n \in Nat : n \in S => n + 1 \in S
  PROVE  Nat \subseteq S
<1> SUFFICES ASSUME Nat \ S # {} PROVE FALSE OBVIOUS
<1>1. PICK n \in Nat \ S : \A m \in Nat \ S : n <= m BY Least
<1>2. n - 1 \in Nat /\ n - 1 \notin Nat \ S BY <1>1
<1> QED BY <1>1, <1>2

\* A finite set of natural numbers has a greatest one.
LEMMA Greatest ==
  ASSUME NEW n \in Nat, NEW S \in SUBSET (1..n), S # {}
  PROVE  Max(S) \in S /\ \A x \in S : x <= Max(S)
<1> DEFINE T == {m \in 0..n : (n - m) \in S}
<1>1. T \in SUBSET Nat /\ T # {}
  <2>1. PICK x \in S : x \in 1..n
    OBVIOUS
  <2>2. n - x \in 0..n /\ n - (n - x) = x
    BY <2>1
  <2>3. n - x \in T
    BY <2>1, <2>2
  <2>4. \A m \in T : m \in Nat
    OBVIOUS
  <2> HIDE DEF T
  <2> QED BY <2>3, <2>4
<1>2. PICK m \in T : \A k \in T : m <= k
  <2> HIDE DEF T
  <2> QED BY <1>1, Least
<1>3. ASSUME NEW x \in S PROVE x <= n - m
  <2>1. n - x \in T
    OBVIOUS
  <2>2. m <= n - x
    BY <1>2, <2>1
  <2> QED BY <1>2, <2>2
<1>4. \E x \in S : \A y \in S : x >= y
  <2>1. n - m \in S /\ \A y \in S : n - m >= y
    BY <1>2, <1>3
  <2> QED BY <2>1
<1>5. Max(S) \in S /\ \A y \in S : Max(S) >= y
  BY <1>4 DEF Max
<1> QED BY <1>5

\* So many numbers are up to n.
LEMMA IntervalSize == \A n \in Nat : IsFiniteSet(1..n) /\ Cardinality(1..n) = n
  BY FS_Interval

-----------------------------------------------------------------------------
(* Arranging a finite set.  An order is a set of pairs.                    *)

TotalOrder(S, R) ==
  /\ \A x, y \in S : <<x, y>> \in R \/ <<y, x>> \in R
  /\ \A x, y \in S : <<x, y>> \in R /\ <<y, x>> \in R => x = y
  /\ \A x, y, z \in S : <<x, y>> \in R /\ <<y, z>> \in R => <<x, z>> \in R

UpTo(S, R, x) == {y \in S : <<y, x>> \in R}

\* An arrangement has each element at one place, and the places are in order.
LEMMA ArrangedFacts ==
  ASSUME NEW S, IsFiniteSet(S), NEW R, TotalOrder(S, R), NEW at,
         \A n \in 1..Cardinality(S) :
           (\E x \in S : Cardinality(UpTo(S, R, x)) = n) =>
             at[n] \in S /\ Cardinality(UpTo(S, R, at[n])) = n
  PROVE  /\ \A n \in 1..Cardinality(S) : at[n] \in S
         /\ \A x \in S : \E n \in 1..Cardinality(S) : at[n] = x
         /\ \A m, n \in 1..Cardinality(S) : <<at[m], at[n]>> \in R <=> m <= n
<1> DEFINE rank == [x \in S |-> Cardinality(UpTo(S, R, x))]
           N == Cardinality(S)
<1>1. N \in Nat
  BY FS_CardinalityType
<1>2. ASSUME NEW x \in S
      PROVE  /\ IsFiniteSet(UpTo(S, R, x)) /\ x \in UpTo(S, R, x) /\ rank[x] \in 1..N
  <2>1. UpTo(S, R, x) \in SUBSET S /\ x \in UpTo(S, R, x)
    BY DEF UpTo, TotalOrder
  <2>2. IsFiniteSet(UpTo(S, R, x)) /\ Cardinality(UpTo(S, R, x)) <= N
    BY <2>1, FS_Subset
  <2>3. Cardinality(UpTo(S, R, x)) # 0 /\ Cardinality(UpTo(S, R, x)) \in Nat
    BY <2>1, <2>2, FS_EmptySet, FS_CardinalityType
  <2> QED BY <1>1, <2>1, <2>2, <2>3
<1>3. ASSUME NEW x \in S, NEW y \in S, <<x, y>> \in R, x # y
      PROVE  rank[x] < rank[y]
  <2>1. UpTo(S, R, x) \in SUBSET UpTo(S, R, y)
    BY <1>3 DEF UpTo, TotalOrder
  <2>2. y \notin UpTo(S, R, x)
    BY <1>3 DEF UpTo, TotalOrder
  <2>3. UpTo(S, R, x) # UpTo(S, R, y)
    BY <1>2, <2>2
  <2>4. /\ Cardinality(UpTo(S, R, x)) <= Cardinality(UpTo(S, R, y))
        /\ Cardinality(UpTo(S, R, x)) # Cardinality(UpTo(S, R, y))
    BY <1>2, <2>1, <2>3, FS_Subset
  <2>5. rank[x] \in 1..N /\ rank[y] \in 1..N
    BY <1>2
  <2> QED BY <1>1, <2>4, <2>5
<1>4. rank \in Injection(S, 1..N)
  <2>1. rank \in [S -> 1..N]
    BY <1>2
  <2>2. ASSUME NEW x \in S, NEW y \in S, x # y PROVE rank[x] # rank[y]
    <3>1. rank[x] \in 1..N /\ rank[y] \in 1..N
      BY <1>2
    <3>2. rank[x] < rank[y] \/ rank[y] < rank[x]
      BY <1>3, <2>2 DEF TotalOrder
    <3> QED BY <1>1, <3>1, <3>2
  <2> HIDE DEF rank
  <2> QED BY <2>1, <2>2 DEF Injection, IsInjective
<1>5. rank \in Surjection(S, 1..N)
  <2>1. IsFiniteSet(1..N) /\ Cardinality(1..N) = N
    BY <1>1, FS_Interval
  <2> HIDE DEF rank
  <2> QED BY <1>4, <2>1, FS_Injection
<1>6. \A n \in 1..N : \E x \in S : rank[x] = n
  <2> HIDE DEF rank
  <2> QED BY <1>5 DEF Surjection
<1>7. ASSUME NEW n \in 1..N PROVE at[n] \in S /\ rank[at[n]] = n
  BY <1>6
<1> HIDE DEF rank
<1>8. ASSUME NEW x \in S PROVE \E n \in 1..N : at[n] = x
  <2>1. rank[x] \in 1..N
    BY <1>2
  <2>2. at[rank[x]] \in S /\ rank[at[rank[x]]] = rank[x]
    BY <1>7, <2>1
  <2>3. at[rank[x]] = x
    BY <1>4, <2>2 DEF Injection, IsInjective
  <2> QED BY <2>1, <2>3
<1>9. ASSUME NEW m \in 1..N, NEW n \in 1..N
      PROVE  <<at[m], at[n]>> \in R <=> m <= n
  <2>1. /\ at[m] \in S /\ at[n] \in S /\ rank[at[m]] = m /\ rank[at[n]] = n
    BY <1>7
  <2>2. CASE at[m] = at[n]
    BY <1>1, <2>1, <2>2 DEF TotalOrder
  <2>3. CASE at[m] # at[n]
    <3>1. <<at[m], at[n]>> \in R => m < n
      BY <1>3, <2>1, <2>3
    <3>2. <<at[n], at[m]>> \in R => n < m
      BY <1>3, <2>1, <2>3
    <3>3. <<at[m], at[n]>> \in R \/ <<at[n], at[m]>> \in R
      BY <2>1 DEF TotalOrder
    <3> QED BY <1>1, <3>1, <3>2, <3>3
  <2> QED BY <2>2, <2>3
<1> QED BY <1>7, <1>8, <1>9

\* s is what seq has at the places P, each of them once and in order.
IsPicked(s, seq, P, T) ==
  \E at \in [1..Cardinality(P) -> P] :
    /\ s \in [1..Cardinality(P) -> T]
    /\ \A n \in 1..Cardinality(P) : s[n] = seq[at[n]]
    /\ \A i \in P : \E n \in 1..Cardinality(P) : at[n] = i
    /\ \A m, n \in 1..Cardinality(P) : at[m] <= at[n] <=> m <= n

\* The places themselves, in order.
Places(P) == Arranged(P, LAMBDA i, j : i <= j)

LEMMA PlacesFacts ==
  ASSUME NEW P, P \in SUBSET Nat, IsFiniteSet(P)
  PROVE  /\ Places(P) \in [1..Cardinality(P) -> P]
         /\ \A i \in P : \E n \in 1..Cardinality(P) : Places(P)[n] = i
         /\ \A m, n \in 1..Cardinality(P) : Places(P)[m] <= Places(P)[n] <=> m <= n
         /\ \A seq : Picked(seq, P) = [n \in 1..Cardinality(P) |-> seq[Places(P)[n]]]
<1> DEFINE R == {p \in P \X P : p[1] <= p[2]}
           at == Places(P)
<1>1. TotalOrder(P, R)
  BY DEF TotalOrder
<1>2. \A i \in P : UpTo(P, R, i) = {j \in P : j <= i}
  BY DEF UpTo
<1>3. Cardinality(P) \in Nat
  BY FS_CardinalityType
<1>4. at = [n \in 1..Cardinality(P) |-> CHOOSE i \in P : Cardinality({j \in P : j <= i}) = n]
  BY DEF Arranged, Places
<1>5. \A n \in 1..Cardinality(P) :
        (\E i \in P : Cardinality(UpTo(P, R, i)) = n) =>
          at[n] \in P /\ Cardinality(UpTo(P, R, at[n])) = n
  <2> SUFFICES ASSUME NEW n \in 1..Cardinality(P), NEW i \in P, Cardinality(UpTo(P, R, i)) = n
               PROVE  at[n] \in P /\ Cardinality(UpTo(P, R, at[n])) = n
    OBVIOUS
  <2>1. Cardinality({j \in P : j <= i}) = n
    BY <1>2
  <2>2. at[n] = CHOOSE x \in P : Cardinality({j \in P : j <= x}) = n
    BY <1>4
  <2>3. at[n] \in P /\ Cardinality({j \in P : j <= at[n]}) = n
    BY <2>1, <2>2
  <2> QED BY <1>2, <2>3
<1>6. ASSUME NEW seq PROVE Picked(seq, P) = [n \in 1..Cardinality(P) |-> seq[at[n]]]
  BY <1>4 DEF Picked, Places
<1> HIDE DEF at, R
<1>7. /\ \A n \in 1..Cardinality(P) : at[n] \in P
      /\ \A i \in P : \E n \in 1..Cardinality(P) : at[n] = i
      /\ \A m, n \in 1..Cardinality(P) : <<at[m], at[n]>> \in R <=> m <= n
  BY <1>1, <1>5, ArrangedFacts
<1>8. at \in [1..Cardinality(P) -> P]
  BY <1>4, <1>7
<1>9. \A m, n \in 1..Cardinality(P) : at[m] <= at[n] <=> m <= n
  BY <1>7 DEF R
<1> QED BY <1>6, <1>7, <1>8, <1>9 DEF at

LEMMA PickedFacts ==
  ASSUME NEW seq, NEW P, P \in SUBSET Nat, IsFiniteSet(P),
         NEW T, \A i \in P : seq[i] \in T
  PROVE  IsPicked(Picked(seq, P), seq, P, T)
<1> DEFINE at == Places(P)
<1>1. /\ at \in [1..Cardinality(P) -> P]
      /\ \A i \in P : \E n \in 1..Cardinality(P) : at[n] = i
      /\ \A m, n \in 1..Cardinality(P) : at[m] <= at[n] <=> m <= n
      /\ Picked(seq, P) = [n \in 1..Cardinality(P) |-> seq[at[n]]]
  BY PlacesFacts
<1> HIDE DEF at
<1>2. Picked(seq, P) \in [1..Cardinality(P) -> T]
  BY <1>1
<1> QED BY <1>1, <1>2 DEF IsPicked

\* An irreflexive order in which what is not before x is not before what x is before.
WeakOrder(S, B) ==
  /\ \A x, y \in S : ~ (<<x, y>> \in B /\ <<y, x>> \in B)
  /\ \A x, y, z \in S : <<x, z>> \in B => <<x, y>> \in B \/ <<y, z>> \in B

\* A stable sort: each place once, by the order, and equals as they were.
LEMMA StableFacts ==
  ASSUME NEW n \in Nat, NEW B, WeakOrder(1..n, B), NEW at, 
         \A m \in 1..n :
           LET upto(i) == {j \in 1..n : <<j, i>> \in B \/ (<<i, j>> \notin B /\ j <= i)}
           IN (\E i \in 1..n : Cardinality(upto(i)) = m) =>
                at[m] \in 1..n /\ Cardinality(upto(at[m])) = m
  PROVE  /\ \A m \in 1..n : at[m] \in 1..n
         /\ \A i \in 1..n : \E m \in 1..n : at[m] = i
         /\ \A l, m \in 1..n : at[l] = at[m] => l = m
         /\ \A l, m \in 1..n : l < m =>
              /\ <<at[m], at[l]>> \notin B
              /\ <<at[l], at[m]>> \in B \/ at[l] < at[m]
<1> DEFINE R == {p \in (1..n) \X (1..n) : p \in B \/ (<<p[2], p[1]>> \notin B /\ p[1] <= p[2])}
<1>1. TotalOrder(1..n, R)
  <2>1. \A x, y \in 1..n : <<x, y>> \in R <=> <<x, y>> \in B \/ (<<y, x>> \notin B /\ x <= y)
    OBVIOUS
  <2> HIDE DEF R
  <2>2. ASSUME NEW x \in 1..n, NEW y \in 1..n
        PROVE  /\ <<x, y>> \in R \/ <<y, x>> \in R
               /\ <<x, y>> \in R /\ <<y, x>> \in R => x = y
    <3>1. ~ (<<x, y>> \in B /\ <<y, x>> \in B)
      BY DEF WeakOrder
    <3>2. x \in Int /\ y \in Int
      OBVIOUS
    <3>3. /\ <<x, y>> \in R <=> <<x, y>> \in B \/ (<<y, x>> \notin B /\ x <= y)
          /\ <<y, x>> \in R <=> <<y, x>> \in B \/ (<<x, y>> \notin B /\ y <= x)
      BY <2>1
    <3> QED BY <3>1, <3>2, <3>3
  <2>3. ASSUME NEW x \in 1..n, NEW y \in 1..n, NEW z \in 1..n,
               <<x, y>> \in R, <<y, z>> \in R
        PROVE  <<x, z>> \in R
    <3>1. /\ <<x, y>> \in R <=> <<x, y>> \in B \/ (<<y, x>> \notin B /\ x <= y)
          /\ <<y, z>> \in R <=> <<y, z>> \in B \/ (<<z, y>> \notin B /\ y <= z)
          /\ <<x, z>> \in R <=> <<x, z>> \in B \/ (<<z, x>> \notin B /\ x <= z)
      BY <2>1
    <3>2. /\ ~ (<<x, y>> \in B /\ <<y, x>> \in B)
          /\ ~ (<<y, z>> \in B /\ <<z, y>> \in B)
          /\ ~ (<<x, z>> \in B /\ <<z, x>> \in B)
      BY DEF WeakOrder
    <3>3. /\ <<x, y>> \in B => <<x, z>> \in B \/ <<z, y>> \in B
          /\ <<y, z>> \in B => <<y, x>> \in B \/ <<x, z>> \in B
          /\ <<z, x>> \in B => <<z, y>> \in B \/ <<y, x>> \in B
      BY DEF WeakOrder
    <3>4. x \in Int /\ y \in Int /\ z \in Int /\ (x <= y /\ y <= z => x <= z)
      OBVIOUS
    <3> QED BY <2>3, <3>1, <3>2, <3>3, <3>4
  <2> QED BY <2>2, <2>3 DEF TotalOrder
<1>2. \A i \in 1..n : UpTo(1..n, R, i) = {j \in 1..n : <<j, i>> \in B \/ (<<i, j>> \notin B /\ j <= i)}
  BY DEF UpTo
<1>3. IsFiniteSet(1..n) /\ Cardinality(1..n) = n
  BY FS_Interval
<1>4. \A x, y \in 1..n : <<x, y>> \in R <=> <<x, y>> \in B \/ (<<y, x>> \notin B /\ x <= y)
  OBVIOUS
<1> HIDE DEF R
<1>5. \A m \in 1..Cardinality(1..n) :
        (\E i \in 1..n : Cardinality(UpTo(1..n, R, i)) = m) =>
          at[m] \in 1..n /\ Cardinality(UpTo(1..n, R, at[m])) = m
  BY <1>2, <1>3
<1>6. /\ \A m \in 1..Cardinality(1..n) : at[m] \in 1..n
      /\ \A i \in 1..n : \E m \in 1..Cardinality(1..n) : at[m] = i
      /\ \A l, m \in 1..Cardinality(1..n) : <<at[l], at[m]>> \in R <=> l <= m
  <2> HIDE <1>2, <1>4
  <2> QED BY <1>1, <1>3, <1>5, ArrangedFacts
<1>7. ASSUME NEW l \in 1..n, NEW m \in 1..n, at[l] = at[m] PROVE l = m
  <2>1. <<at[l], at[m]>> \in R <=> l <= m
    BY <1>3, <1>6
  <2>2. <<at[m], at[l]>> \in R <=> m <= l
    BY <1>3, <1>6
  <2>3. <<at[l], at[l]>> \in R <=> l <= l
    BY <1>3, <1>6
  <2> QED BY <1>7, <2>1, <2>2, <2>3
<1>8. ASSUME NEW l \in 1..n, NEW m \in 1..n, l < m
      PROVE  /\ <<at[m], at[l]>> \notin B
             /\ <<at[l], at[m]>> \in B \/ at[l] < at[m]
  <2>1. at[l] \in 1..n /\ at[m] \in 1..n
    BY <1>3, <1>6
  <2>2. at[l] # at[m]
    BY <1>7, <1>8
  <2>3. <<at[l], at[m]>> \in R /\ <<at[m], at[l]>> \notin R
    <3>1. <<at[l], at[m]>> \in R <=> l <= m
      BY <1>3, <1>6
    <3>2. <<at[m], at[l]>> \in R <=> m <= l
      BY <1>3, <1>6
    <3>3. l <= m /\ ~ (m <= l)
      BY <1>8
    <3> QED BY <3>1, <3>2, <3>3
  <2>4. /\ <<at[l], at[m]>> \in B \/ (<<at[m], at[l]>> \notin B /\ at[l] <= at[m])
        /\ ~ (<<at[m], at[l]>> \in B)
    BY <1>4, <2>1, <2>3
  <2> QED BY <2>1, <2>2, <2>4
<1> QED BY <1>3, <1>6, <1>7, <1>8

\* Picked at the same places, sequences that agree there are the same.
LEMMA PickedSame ==
  ASSUME NEW P, P \in SUBSET Nat, IsFiniteSet(P), NEW s, NEW t, \A i \in P : s[i] = t[i]
  PROVE  Picked(s, P) = Picked(t, P)
<1>1. /\ Places(P) \in [1..Cardinality(P) -> P]
      /\ Picked(s, P) = [n \in 1..Cardinality(P) |-> s[Places(P)[n]]]
      /\ Picked(t, P) = [n \in 1..Cardinality(P) |-> t[Places(P)[n]]]
  BY PlacesFacts
<1>2. \A n \in 1..Cardinality(P) : s[Places(P)[n]] = t[Places(P)[n]]
  BY <1>1
<1> QED BY <1>1, <1>2

\* The places of a sequence at which something holds are finitely many.
LEMMA SomePlaces ==
  ASSUME NEW S, NEW seq \in Seq(S), NEW P \in SUBSET DOMAIN seq
  PROVE  P \in SUBSET Nat /\ IsFiniteSet(P)
<1>1. DOMAIN seq = 1..Len(seq) /\ Len(seq) \in Nat
  OBVIOUS
<1>2. IsFiniteSet(1..Len(seq))
  BY <1>1, IntervalSize
<1>3. IsFiniteSet(P)
  BY <1>1, <1>2, FS_Subset
<1> QED BY <1>1, <1>3

-----------------------------------------------------------------------------
(* Sums.  A sum is computed by a function on the subsets of a finite set,  *)
(* each taken apart at an element chosen; what follows holds of them by    *)
(* induction on the subsets, for their strict inclusion is well founded.   *)

\* What every subset of a finite set has once its strict subsets have it.
LEMMA SubsetInduction ==
  ASSUME NEW S, IsFiniteSet(S), NEW G,
         \A T \in SUBSET S : (\A U \in SUBSET T : U # T => U \in G) => T \in G
  PROVE  SUBSET S \subseteq G
<1> SUFFICES ASSUME (SUBSET S) \ G # {} PROVE FALSE
  OBVIOUS
<1> DEFINE B == (SUBSET S) \ G
           R == StrictSubsetOrdering(S)
<1>1. \E T \in B : \A U \in B : ~ (<<U, T>> \in R)
  <2>1. B # {} /\ B \subseteq SUBSET S
    OBVIOUS
  <2>2. IsWellFoundedOn(R, SUBSET S)
    <3>1. IsWellFoundedOn(R, FiniteSubsetsOf(S))
      BY FS_StrictSubsetOrderingWellFounded
    <3>2. FiniteSubsetsOf(S) = SUBSET S
      BY FS_FiniteSubsetsOfFinite
    <3> HIDE DEF R
    <3> QED BY <3>1, <3>2
  <2> HIDE DEF B, R
  <2> QED BY <2>1, <2>2, WFMin
<1>2. PICK T \in B : \A U \in B : ~ (<<U, T>> \in R)
  BY <1>1
<1>3. ASSUME NEW U \in SUBSET T, U # T PROVE U \in G
  <2>1. <<U, T>> \in R
    BY <1>3 DEF StrictSubsetOrdering
  <2> QED BY <1>2, <2>1
<1> QED BY <1>2, <1>3

Chosen(T) == CHOOSE x \in T : TRUE

IsIter(g, f, S) ==
  g = [T \in SUBSET S |-> IF T = {} THEN 0 ELSE f[Chosen(T)] + g[T \ {Chosen(T)}]]

Iter(f, S) == CHOOSE g : IsIter(g, f, S)

\* The fold of the library is the function that takes sets apart at an element chosen.
LEMMA SumIsIter ==
  \A f, S : SumFunctionOnSet(f, S) = Iter(f, S)[S]
BY Zenon DEF SumFunctionOnSet, FoldFunctionOnSet, MapThenFoldSet, Iter, IsIter, Chosen

\* An element is chosen where there is one.
LEMMA ChosenIn == \A T : T # {} => Chosen(T) \in T
BY Zenon DEF Chosen

\* Two such functions agree where what they sum agrees.
LEMMA IterAgree ==
  ASSUME NEW f, NEW h, NEW S, NEW R, NEW g, NEW k, IsIter(g, f, S), IsIter(k, h, R),
         NEW V, V \subseteq S, V \subseteq R, IsFiniteSet(V), \A x \in V : f[x] = h[x]
  PROVE  g[V] = k[V]
<1> DEFINE G == {W \in SUBSET V : g[W] = k[W]}
<1>1. ASSUME NEW T \in SUBSET V, \A U \in SUBSET T : U # T => U \in G
      PROVE  T \in G
  <2>1. T \in SUBSET S /\ T \in SUBSET R
    OBVIOUS
  <2>2. CASE T = {}
    <3>1. g[T] = 0 /\ k[T] = 0
      BY <2>1, <2>2 DEF IsIter
    <3> QED BY <3>1
  <2>3. CASE T # {}
    <3>1. PICK x \in T : x = Chosen(T)
      BY <2>3, ChosenIn
    <3>2. g[T] = f[x] + g[T \ {x}] /\ k[T] = h[x] + k[T \ {x}]
      BY <2>1, <2>3, <3>1 DEF IsIter
    <3>3. T \ {x} \in G
      BY <1>1
    <3> QED BY <3>2, <3>3
  <2> QED BY <2>2, <2>3
<1> HIDE DEF G
<1>2. SUBSET V \subseteq G
  BY <1>1, SubsetInduction
<1>3. V \in G
  BY <1>2
<1> QED BY <1>3 DEF G

\* There is such a function on the subsets of any finite set.
LEMMA IterExists ==
  ASSUME NEW f, NEW S, IsFiniteSet(S)
  PROVE  IsIter(Iter(f, S), f, S)
<1> DEFINE G == {T \in SUBSET S : \E g : IsIter(g, f, T)}
<1>1. ASSUME NEW T \in SUBSET S, \A U \in SUBSET T : U # T => U \in G
      PROVE  T \in G
  <2> DEFINE c == Chosen(T)
             h == [U \in SUBSET T |-> IF U = T
                     THEN IF T = {} THEN 0 ELSE f[c] + Iter(f, T \ {c})[T \ {c}]
                     ELSE Iter(f, U)[U]]
  <2>1. ASSUME NEW U \in SUBSET T, U # T PROVE IsIter(Iter(f, U), f, U)
    <3>1. \E g : IsIter(g, f, U)
      BY <1>1, <2>1
    <3> QED BY <3>1, Zenon DEF Iter
  <2>2. ASSUME NEW U \in SUBSET T
        PROVE  h[U] = IF U = {} THEN 0 ELSE f[Chosen(U)] + h[U \ {Chosen(U)}]
    <3>1. CASE U = {}
      <4>1. CASE U = T
        BY <3>1, <4>1
      <4>2. CASE U # T
        <5>1. Iter(f, U)[U] = 0
          BY <2>1, <3>1, <4>2 DEF IsIter
        <5> QED BY <3>1, <4>2, <5>1
      <4> QED BY <4>1, <4>2
    <3>2. CASE U # {}
      <4>1. PICK d \in U : d = Chosen(U)
        BY <3>2, ChosenIn
      <4>2. U \ {d} \in SUBSET T /\ U \ {d} # T /\ U \ {d} # U
        OBVIOUS
      <4>3. h[U \ {d}] = Iter(f, U \ {d})[U \ {d}]
        BY <4>2
      <4>4. CASE U = T
        BY <3>2, <4>1, <4>3, <4>4
      <4>5. CASE U # T
        <5>1. IsIter(Iter(f, U), f, U)
          BY <2>1, <4>5
        <5>2. IsIter(Iter(f, U \ {d}), f, U \ {d})
          BY <2>1, <4>2
        <5>3. IsFiniteSet(U \ {d})
          <6>1. U \ {d} \in SUBSET S
            OBVIOUS
          <6> QED BY <6>1, FS_Subset
        <5>4. Iter(f, U)[U \ {d}] = Iter(f, U \ {d})[U \ {d}]
          BY <5>1, <5>2, <5>3, IterAgree
        <5>5. Iter(f, U)[U] = f[d] + Iter(f, U)[U \ {d}]
          BY <3>2, <4>1, <5>1 DEF IsIter
        <5>6. h[U] = Iter(f, U)[U]
          BY <4>5
        <5> QED BY <3>2, <4>1, <4>3, <5>4, <5>5, <5>6
      <4> QED BY <4>4, <4>5
    <3> QED BY <3>1, <3>2
  <2>3. h = [U \in SUBSET T |-> h[U]]
    OBVIOUS
  <2>4. IsIter(h, f, T)
    <3> HIDE DEF h
    <3> QED BY <2>2, <2>3 DEF IsIter
  <2> HIDE DEF h
  <2> QED BY <2>4
<1> HIDE DEF G
<1>2. SUBSET S \subseteq G
  BY <1>1, SubsetInduction
<1>3. \E g : IsIter(g, f, S)
  BY <1>2 DEF G
<1> QED BY <1>3, Zenon DEF Iter

\* A sum depends on what is summed alone.
LEMMA SumSame ==
  ASSUME NEW f, NEW h, NEW S, IsFiniteSet(S), \A x \in S : f[x] = h[x]
  PROVE  SumFunctionOnSet(f, S) = SumFunctionOnSet(h, S)
<1>1. IsIter(Iter(f, S), f, S) /\ IsIter(Iter(h, S), h, S)
  BY IterExists
<1>2. Iter(f, S)[S] = Iter(h, S)[S]
  BY <1>1, IterAgree
<1> QED BY <1>2, SumIsIter

\* Nothing sums to nothing.
LEMMA SumEmpty == \A f : SumFunctionOnSet(f, {}) = 0
<1> SUFFICES ASSUME NEW f PROVE SumFunctionOnSet(f, {}) = 0
  OBVIOUS
<1>1. IsIter(Iter(f, {}), f, {})
  BY IterExists, FS_EmptySet
<1>2. Iter(f, {})[{}] = 0
  BY <1>1 DEF IsIter
<1> QED BY <1>2, SumIsIter

\* The sum is taken apart at some element.
LEMMA SumChosen ==
  ASSUME NEW f, NEW S, IsFiniteSet(S), S # {}
  PROVE  \E x \in S : SumFunctionOnSet(f, S) = f[x] + SumFunctionOnSet(f, S \ {x})
<1>1. PICK x \in S : x = Chosen(S)
  BY ChosenIn
<1>2. IsFiniteSet(S \ {x})
  BY FS_RemoveElement
<1>3. IsIter(Iter(f, S), f, S) /\ IsIter(Iter(f, S \ {x}), f, S \ {x})
  BY <1>2, IterExists
<1>4. Iter(f, S)[S \ {x}] = Iter(f, S \ {x})[S \ {x}]
  BY <1>2, <1>3, IterAgree
<1>5. Iter(f, S)[S] = f[x] + Iter(f, S)[S \ {x}]
  BY <1>1, <1>3 DEF IsIter
<1> QED BY <1>4, <1>5, SumIsIter

\* A sum of naturals is a natural.
LEMMA SumNat ==
  ASSUME NEW f, NEW S, IsFiniteSet(S), \A x \in S : f[x] \in Nat
  PROVE  SumFunctionOnSet(f, S) \in Nat
<1> DEFINE G == {T \in SUBSET S : SumFunctionOnSet(f, T) \in Nat}
<1>1. ASSUME NEW T \in SUBSET S, \A U \in SUBSET T : U # T => U \in G
      PROVE  T \in G
  <2>1. CASE T = {}
    BY <2>1, SumEmpty
  <2>2. CASE T # {}
    <3>1. IsFiniteSet(T)
      BY FS_Subset
    <3>2. PICK x \in T : SumFunctionOnSet(f, T) = f[x] + SumFunctionOnSet(f, T \ {x})
      BY <2>2, <3>1, SumChosen
    <3>3. T \ {x} \in G
      BY <1>1
    <3>4. PICK n \in Nat : n = SumFunctionOnSet(f, T \ {x})
      BY <3>3
    <3>5. PICK m \in Nat : m = f[x]
      OBVIOUS
    <3> QED BY <3>2, <3>4, <3>5
  <2> QED BY <2>1, <2>2
<1> HIDE DEF G
<1>2. SUBSET S \subseteq G
  BY <1>1, SubsetInduction
<1>3. S \in G
  BY <1>2
<1> QED BY <1>3 DEF G

\* A sum of integers is an integer.
LEMMA SumInt ==
  ASSUME NEW f, NEW S, IsFiniteSet(S), \A x \in S : f[x] \in Int
  PROVE  SumFunctionOnSet(f, S) \in Int
<1> DEFINE G == {T \in SUBSET S : SumFunctionOnSet(f, T) \in Int}
<1>1. ASSUME NEW T \in SUBSET S, \A U \in SUBSET T : U # T => U \in G
      PROVE  T \in G
  <2>1. CASE T = {}
    BY <2>1, SumEmpty
  <2>2. CASE T # {}
    <3>1. IsFiniteSet(T)
      BY FS_Subset
    <3>2. PICK x \in T : SumFunctionOnSet(f, T) = f[x] + SumFunctionOnSet(f, T \ {x})
      BY <2>2, <3>1, SumChosen
    <3>3. T \ {x} \in G
      BY <1>1
    <3>4. PICK n \in Int : n = SumFunctionOnSet(f, T \ {x})
      BY <3>3
    <3>5. PICK m \in Int : m = f[x]
      OBVIOUS
    <3> QED BY <3>2, <3>4, <3>5
  <2> QED BY <2>1, <2>2
<1> HIDE DEF G
<1>2. SUBSET S \subseteq G
  BY <1>1, SubsetInduction
<1>3. S \in G
  BY <1>2
<1> QED BY <1>3 DEF G

\* Any element may be taken out.
LEMMA SumSplit ==
  ASSUME NEW f, NEW S, IsFiniteSet(S), \A x \in S : f[x] \in Int, NEW x \in S
  PROVE  SumFunctionOnSet(f, S) = f[x] + SumFunctionOnSet(f, S \ {x})
<1> DEFINE G == {T \in SUBSET S : \A y \in T :
                   SumFunctionOnSet(f, T) = f[y] + SumFunctionOnSet(f, T \ {y})}
<1>1. ASSUME NEW T \in SUBSET S, \A U \in SUBSET T : U # T => U \in G
      PROVE  T \in G
  <2> SUFFICES ASSUME NEW y \in T
               PROVE  SumFunctionOnSet(f, T) = f[y] + SumFunctionOnSet(f, T \ {y})
    OBVIOUS
  <2>1. IsFiniteSet(T)
    BY FS_Subset
  <2>2. PICK c \in T : SumFunctionOnSet(f, T) = f[c] + SumFunctionOnSet(f, T \ {c})
    BY <2>1, SumChosen
  <2>3. CASE c = y
    BY <2>2, <2>3
  <2>4. CASE c # y
    <3>1. T \ {c} \in G /\ T \ {y} \in G
      BY <1>1
    <3>2. SumFunctionOnSet(f, T \ {c}) = f[y] + SumFunctionOnSet(f, (T \ {c}) \ {y})
      BY <2>4, <3>1
    <3>3. SumFunctionOnSet(f, T \ {y}) = f[c] + SumFunctionOnSet(f, (T \ {y}) \ {c})
      BY <2>4, <3>1
    <3>4. PICK U \in SUBSET S : U = (T \ {c}) \ {y} /\ U = (T \ {y}) \ {c}
      OBVIOUS
    <3>5. IsFiniteSet(U)
      BY FS_Subset
    <3>6. SumFunctionOnSet(f, U) \in Int
      BY <3>5, SumInt
    <3>7. PICK n \in Int, a \in Int, b \in Int :
            n = SumFunctionOnSet(f, U) /\ a = f[c] /\ b = f[y]
      BY <3>6
    <3>8. SumFunctionOnSet(f, T \ {c}) = b + n /\ SumFunctionOnSet(f, T \ {y}) = a + n
      BY <3>2, <3>3, <3>4, <3>7
    <3>9. SumFunctionOnSet(f, T) = a + (b + n)
      BY <2>2, <3>7, <3>8
    <3> QED BY <3>7, <3>8, <3>9
  <2> QED BY <2>3, <2>4
<1> HIDE DEF G
<1>2. SUBSET S \subseteq G
  BY <1>1, SubsetInduction
<1>3. S \in G
  BY <1>2
<1> QED BY <1>3 DEF G

\* What has fewer and lesser terms is no more.
LEMMA SumMonotone ==
  ASSUME NEW f, NEW S, IsFiniteSet(S), \A x \in S : f[x] \in Nat,
         NEW g, NEW R \in SUBSET S, \A x \in R : g[x] \in Nat /\ g[x] <= f[x]
  PROVE  SumFunctionOnSet(g, R) <= SumFunctionOnSet(f, S)
<1> DEFINE G == {T \in SUBSET S : SumFunctionOnSet(g, T \cap R) <= SumFunctionOnSet(f, T)}
<1>1. ASSUME NEW T \in SUBSET S, \A U \in SUBSET T : U # T => U \in G
      PROVE  T \in G
  <2>1. CASE T = {}
    <3>1. T \cap R = {}
      BY <2>1
    <3> QED BY <2>1, <3>1, SumEmpty
  <2>2. CASE T # {}
    <3>1. PICK x \in T : TRUE
      BY <2>2
    <3>2. /\ IsFiniteSet(T) /\ IsFiniteSet(T \ {x}) /\ IsFiniteSet(T \cap R)
          /\ IsFiniteSet((T \ {x}) \cap R)
      <4>1. T \ {x} \in SUBSET S /\ T \cap R \in SUBSET S /\ (T \ {x}) \cap R \in SUBSET S
        OBVIOUS
      <4> QED BY <4>1, FS_Subset
    <3>3. SumFunctionOnSet(f, T) = f[x] + SumFunctionOnSet(f, T \ {x})
      BY <3>2, SumSplit
    <3>4. PICK n \in Nat, m \in Nat, a \in Nat :
            /\ n = SumFunctionOnSet(f, T \ {x}) /\ a = f[x]
            /\ m = SumFunctionOnSet(g, (T \ {x}) \cap R)
      BY <3>2, SumNat
    <3>5. m <= n
      <4>1. T \ {x} \in G
        BY <1>1
      <4> QED BY <3>4, <4>1
    <3>6. CASE x \in R
      <4>1. SumFunctionOnSet(g, T \cap R) = g[x] + SumFunctionOnSet(g, (T \cap R) \ {x})
        BY <3>2, <3>6, SumSplit
      <4>2. (T \cap R) \ {x} = (T \ {x}) \cap R
        OBVIOUS
      <4>3. PICK b \in Nat : b = g[x] /\ b <= a
        BY <3>4, <3>6
      <4>4. SumFunctionOnSet(g, T \cap R) = b + m
        BY <3>4, <4>1, <4>2, <4>3
      <4>5. SumFunctionOnSet(f, T) = a + n
        BY <3>3, <3>4
      <4>6. b + m <= a + n
        BY <3>5, <4>3
      <4> QED BY <4>4, <4>5, <4>6
    <3>7. CASE x \notin R
      <4>1. T \cap R = (T \ {x}) \cap R
        BY <3>7
      <4>2. SumFunctionOnSet(g, T \cap R) = m
        BY <3>4, <4>1
      <4>3. SumFunctionOnSet(f, T) = a + n
        BY <3>3, <3>4
      <4>4. m <= a + n
        BY <3>5
      <4> QED BY <4>2, <4>3, <4>4
    <3> QED BY <3>6, <3>7
  <2> QED BY <2>1, <2>2
<1> HIDE DEF G
<1>2. SUBSET S \subseteq G
  BY <1>1, SubsetInduction
<1>3. S \in G /\ S \cap R = R
  BY <1>2
<1> QED BY <1>3 DEF G

\* Zeros sum to zero.
LEMMA SumZero ==
  ASSUME NEW f, NEW S, IsFiniteSet(S), \A x \in S : f[x] = 0
  PROVE  SumFunctionOnSet(f, S) = 0
<1> DEFINE G == {T \in SUBSET S : SumFunctionOnSet(f, T) = 0}
<1>1. ASSUME NEW T \in SUBSET S, \A U \in SUBSET T : U # T => U \in G
      PROVE  T \in G
  <2>1. CASE T = {}
    BY <2>1, SumEmpty
  <2>2. CASE T # {}
    <3>1. IsFiniteSet(T)
      BY FS_Subset
    <3>2. PICK x \in T : SumFunctionOnSet(f, T) = f[x] + SumFunctionOnSet(f, T \ {x})
      BY <2>2, <3>1, SumChosen
    <3>3. T \ {x} \in G
      BY <1>1
    <3>4. SumFunctionOnSet(f, T \ {x}) = 0 /\ f[x] = 0
      BY <3>3
    <3> QED BY <3>2, <3>4
  <2> QED BY <2>1, <2>2
<1> HIDE DEF G
<1>2. SUBSET S \subseteq G
  BY <1>1, SubsetInduction
<1>3. S \in G
  BY <1>2
<1> QED BY <1>3 DEF G

\* One term that is raised by one, or is new and one, raises the sum by no more.
LEMMA SumRaised ==
  ASSUME NEW f, NEW S, IsFiniteSet(S), \A y \in S : f[y] \in Nat,
         NEW g, NEW R, IsFiniteSet(R), \A y \in R : g[y] \in Nat,
         NEW x, \A y \in R \ {x} : y \in S /\ g[y] <= f[y],
         x \in R => g[x] <= 1 + IF x \in S THEN f[x] ELSE 0
  PROVE  SumFunctionOnSet(g, R) <= SumFunctionOnSet(f, S) + 1
<1>1. CASE x \notin R
  <2>1. R \in SUBSET S /\ \A y \in R : g[y] <= f[y]
    BY <1>1
  <2>2. SumFunctionOnSet(g, R) <= SumFunctionOnSet(f, S)
    BY <2>1, SumMonotone
  <2>3. PICK n \in Nat, m \in Nat : n = SumFunctionOnSet(g, R) /\ m = SumFunctionOnSet(f, S)
    BY SumNat
  <2>4. n <= m
    BY <2>2, <2>3
  <2>5. n <= m + 1
    BY <2>4
  <2> QED BY <2>3, <2>5
<1>2. CASE x \in R
  <2>1. IsFiniteSet(R \ {x}) /\ IsFiniteSet(S \ {x})
    BY FS_RemoveElement
  <2>2. SumFunctionOnSet(g, R) = g[x] + SumFunctionOnSet(g, R \ {x})
    BY <1>2, SumSplit
  <2>3. R \ {x} \in SUBSET (S \ {x})
    OBVIOUS
  <2>4. SumFunctionOnSet(g, R \ {x}) <= SumFunctionOnSet(f, S \ {x})
    BY <2>1, <2>3, SumMonotone
  <2>5. PICK n \in Nat, m \in Nat, b \in Nat :
          /\ n = SumFunctionOnSet(g, R \ {x}) /\ m = SumFunctionOnSet(f, S \ {x})
          /\ b = g[x]
    BY <1>2, <2>1, SumNat
  <2>6. n <= m
    BY <2>4, <2>5
  <2>7. SumFunctionOnSet(g, R) = b + n
    BY <2>2, <2>5
  <2>8. CASE x \in S
    <3>1. PICK a \in Nat : a = f[x] /\ b <= 1 + a
      BY <1>2, <2>5, <2>8
    <3>2. SumFunctionOnSet(f, S) = f[x] + SumFunctionOnSet(f, S \ {x})
      BY <2>8, SumSplit
    <3>3. SumFunctionOnSet(f, S) = a + m
      BY <2>5, <3>1, <3>2
    <3>4. b + n <= (a + m) + 1
      BY <2>6, <3>1
    <3> QED BY <2>7, <3>3, <3>4
  <2>9. CASE x \notin S
    <3>1. b <= 1
      BY <1>2, <2>5, <2>9
    <3>2. S \ {x} = S
      BY <2>9
    <3>3. SumFunctionOnSet(f, S) = m
      BY <2>5, <3>2
    <3>4. b + n <= m + 1
      BY <2>6, <3>1
    <3> QED BY <2>7, <3>3, <3>4
  <2> QED BY <2>8, <2>9
<1> QED BY <1>1, <1>2

\* A sum grows by what one term grows, or by what a new term is.
LEMMA SumOneChanged ==
  ASSUME NEW f, NEW S, IsFiniteSet(S), \A y \in S : f[y] \in Int,
         NEW g, NEW R, IsFiniteSet(R), \A y \in R : g[y] \in Int,
         NEW x \in R, R \ {x} = S \ {x}, \A y \in S \ {x} : g[y] = f[y]
  PROVE  SumFunctionOnSet(g, R)
           = SumFunctionOnSet(f, S) + (g[x] - IF x \in S THEN f[x] ELSE 0)
<1>1. PICK T : T = S \ {x}
  OBVIOUS
<1>2. IsFiniteSet(T)
  BY <1>1, FS_RemoveElement
<1>3. SumFunctionOnSet(g, T) = SumFunctionOnSet(f, T)
  BY <1>1, <1>2, SumSame
<1>4. PICK n \in Int, b \in Int : n = SumFunctionOnSet(f, T) /\ b = g[x]
  BY <1>1, <1>2, SumInt
<1>5. SumFunctionOnSet(g, R) = b + n
  BY <1>1, <1>3, <1>4, SumSplit
<1>6. CASE x \in S
  <2>1. PICK a \in Int : a = f[x]
    BY <1>6
  <2>2. SumFunctionOnSet(f, S) = a + n
    BY <1>1, <1>4, <1>6, <2>1, SumSplit
  <2>3. b + n = (a + n) + (b - a)
    OBVIOUS
  <2> QED BY <1>4, <1>5, <1>6, <2>1, <2>2, <2>3
<1>7. CASE x \notin S
  <2>1. S = T
    BY <1>1, <1>7
  <2>2. b + n = n + (b - 0)
    OBVIOUS
  <2> QED BY <1>4, <1>5, <1>7, <2>1, <2>2
<1> QED BY <1>6, <1>7

\* A finite set has an element of the least key.
LEMMA LeastKey ==
  ASSUME NEW S, IsFiniteSet(S), S # {}, NEW key, \A x \in S : key[x] \in Int
  PROVE  \E m \in S : \A x \in S : key[m] <= key[x]
<1> DEFINE G == {T \in SUBSET S : T # {} => \E m \in T : \A x \in T : key[m] <= key[x]}
<1>1. ASSUME NEW T \in SUBSET S, \A U \in SUBSET T : U # T => U \in G
      PROVE  T \in G
  <2> SUFFICES ASSUME T # {} PROVE \E m \in T : \A x \in T : key[m] <= key[x]
    OBVIOUS
  <2>1. PICK y \in T : TRUE
    OBVIOUS
  <2>2. CASE T = {y}
    BY <2>2
  <2>3. CASE T # {y}
    <3>1. T \ {y} \in G /\ T \ {y} # {}
      BY <1>1, <2>3
    <3>2. PICK m \in T \ {y} : \A x \in T \ {y} : key[m] <= key[x]
      BY <3>1
    <3>3. CASE key[m] <= key[y]
      BY <3>2, <3>3
    <3>4. CASE key[y] < key[m]
      <4>1. \A x \in T : key[y] <= key[x]
        BY <3>2, <3>4
      <4> QED BY <4>1
    <3> QED BY <3>3, <3>4
  <2> QED BY <2>2, <2>3
<1> HIDE DEF G
<1>2. SUBSET S \subseteq G
  BY <1>1, SubsetInduction
<1>3. S \in G
  BY <1>2
<1> QED BY <1>3 DEF G

\* Stretches of numbers that follow one another up to the last, and the differences of a
\* function over them.
Follow(W, lo, hi, last, g, f) ==
  /\ last \in Int /\ g[last] \in Int
  /\ \A w \in W : /\ lo[w] \in Int /\ hi[w] \in Int /\ lo[w] < hi[w] /\ hi[w] <= last
                  /\ g[lo[w]] \in Int /\ g[hi[w]] \in Int
                  /\ f[w] = g[hi[w]] - g[lo[w]]
                  /\ hi[w] = last \/ \E v \in W : lo[v] = hi[w]
  /\ \A v, w \in W : v = w \/ lo[v] >= hi[w] \/ lo[w] >= hi[v]

\* They add up to the difference over all of them.
LEMMA Telescope ==
  ASSUME NEW W, IsFiniteSet(W), NEW lo, NEW hi, NEW g, NEW f, NEW top,
         Follow(W, lo, hi, top, g, f), NEW first \in W, \A w \in W : lo[first] <= lo[w]
  PROVE  SumFunctionOnSet(f, W) = g[top] - g[lo[first]]
<1> USE DEF Follow
<1> DEFINE Closed(T) == \A w \in T : hi[w] = top \/ \E v \in T : lo[v] = hi[w]
           IsLeast(m, T) == m \in T /\ \A v \in T : lo[m] <= lo[v]
           G == {T \in SUBSET W : Closed(T) =>
                   \A m : IsLeast(m, T) => SumFunctionOnSet(f, T) = g[top] - g[lo[m]]}
<1>1. ASSUME NEW T \in SUBSET W, \A U \in SUBSET T : U # T => U \in G
      PROVE  T \in G
  <2> SUFFICES ASSUME Closed(T), NEW m, IsLeast(m, T)
               PROVE  SumFunctionOnSet(f, T) = g[top] - g[lo[m]]
    OBVIOUS
  <2>1. PICK U : U = T \ {m}
    OBVIOUS
  <2>2. U \in G /\ IsFiniteSet(T) /\ IsFiniteSet(U)
    <3>1. U \in SUBSET W /\ T \in SUBSET W
      BY <2>1
    <3> QED BY <1>1, <2>1, <3>1, FS_Subset
  <2>3. \A w \in T : f[w] \in Int
    OBVIOUS
  <2>4. SumFunctionOnSet(f, T) = f[m] + SumFunctionOnSet(f, U)
    BY <2>1, <2>2, <2>3, SumSplit
  <2>5. \A w \in U : \A v \in T : lo[v] = hi[w] => v \in U
    <3> SUFFICES ASSUME NEW w \in U, lo[m] = hi[w] PROVE FALSE
      BY <2>1
    <3>1. lo[m] <= lo[w] /\ lo[w] < hi[w] /\ lo[m] \in Int /\ lo[w] \in Int /\ hi[w] \in Int
      BY <2>1
    <3> QED BY <3>1
  <2>6. Closed(U)
    BY <2>1, <2>5
  <2>7. CASE U = {}
    <3>1. hi[m] = top
      <4> SUFFICES ASSUME NEW v \in T, lo[v] = hi[m] PROVE FALSE
        OBVIOUS
      <4>1. v = m
        BY <2>1, <2>7
      <4> QED BY <4>1
    <3>2. SumFunctionOnSet(f, U) = 0
      BY <2>7, SumEmpty
    <3>3. f[m] = g[top] - g[lo[m]] /\ f[m] \in Int
      BY <3>1
    <3> QED BY <2>4, <3>2, <3>3
  <2>8. CASE U # {}
    <3>1. PICK n \in U : \A v \in U : lo[n] <= lo[v]
      <4>1. \A v \in U : lo[v] \in Int
        BY <2>1
      <4> QED BY <2>2, <2>8, <4>1, LeastKey
    <3>2. SumFunctionOnSet(f, U) = g[top] - g[lo[n]]
      BY <2>2, <2>6, <3>1
    <3>3. lo[m] <= lo[n] /\ lo[n] \in Int /\ hi[n] \in Int /\ lo[m] \in Int /\ hi[m] \in Int
          /\ lo[m] < hi[m] /\ lo[n] < hi[n] /\ hi[n] <= top /\ n # m
      BY <2>1, <3>1
    <3>4. lo[n] >= hi[m]
      <4>1. n = m \/ lo[n] >= hi[m] \/ lo[m] >= hi[n]
        BY <2>1
      <4> QED BY <3>3, <4>1
    <3>5. hi[m] # top
      BY <3>3, <3>4
    <3>6. PICK v \in T : lo[v] = hi[m]
      BY <3>5
    <3>7. v # m
      BY <3>3, <3>6
    <3>8. lo[n] <= lo[v]
      BY <2>1, <3>1, <3>7
    <3>9. lo[n] = hi[m]
      BY <3>3, <3>4, <3>6, <3>8
    <3>10. f[m] = g[hi[m]] - g[lo[m]] /\ g[hi[m]] \in Int /\ g[lo[m]] \in Int
      OBVIOUS
    <3> QED BY <2>4, <3>2, <3>9, <3>10
  <2> QED BY <2>7, <2>8
<1> HIDE DEF G
<1>2. SUBSET W \subseteq G
  BY <1>1, SubsetInduction
<1>3. W \in G
  BY <1>2
<1> QED BY <1>3 DEF G

\* One term is its sum.
LEMMA SumOne == \A f, x : f[x] \in Int => SumFunctionOnSet(f, {x}) = f[x]
<1> SUFFICES ASSUME NEW f, NEW x, f[x] \in Int PROVE SumFunctionOnSet(f, {x}) = f[x]
  OBVIOUS
<1>1. IsFiniteSet({x})
  BY FS_Singleton
<1>2. SumFunctionOnSet(f, {x}) = f[x] + SumFunctionOnSet(f, {x} \ {x})
  BY <1>1, SumSplit
<1>3. {x} \ {x} = {}
  OBVIOUS
<1> QED BY <1>2, <1>3, SumEmpty

\* And two are.
LEMMA SumTwo ==
  ASSUME NEW f, NEW x, NEW y, x # y, f[x] \in Int, f[y] \in Int
  PROVE  SumFunctionOnSet(f, {x, y}) = f[x] + f[y]
<1>1. IsFiniteSet({x, y})
  <2>1. IsFiniteSet({y} \cup {x})
    BY FS_Singleton, FS_AddElement
  <2>2. {y} \cup {x} = {x, y}
    OBVIOUS
  <2> QED BY <2>1, <2>2
<1>2. {x, y} \ {x} = {y}
  OBVIOUS
<1>3. SumFunctionOnSet(f, {x, y}) = f[x] + SumFunctionOnSet(f, {x, y} \ {x})
  BY <1>1, SumSplit
<1>4. SumFunctionOnSet(f, {y}) = f[y]
  BY SumOne
<1> QED BY <1>2, <1>3, <1>4

\* Terms that are zero may be left out.
LEMMA SumTrim ==
  ASSUME NEW f, NEW S, IsFiniteSet(S), \A x \in S : f[x] \in Int,
         NEW g, NEW R \in SUBSET S, \A x \in R : g[x] = f[x], \A x \in S \ R : f[x] = 0
  PROVE  SumFunctionOnSet(g, R) = SumFunctionOnSet(f, S)
<1> DEFINE G == {T \in SUBSET S : SumFunctionOnSet(g, T \cap R) = SumFunctionOnSet(f, T)}
<1>1. ASSUME NEW T \in SUBSET S, \A U \in SUBSET T : U # T => U \in G
      PROVE  T \in G
  <2>1. CASE T = {}
    <3>1. T \cap R = {}
      BY <2>1
    <3> QED BY <2>1, <3>1, SumEmpty
  <2>2. CASE T # {}
    <3>1. PICK x \in T : TRUE
      BY <2>2
    <3>2. /\ IsFiniteSet(T) /\ IsFiniteSet(T \ {x}) /\ IsFiniteSet(T \cap R)
          /\ IsFiniteSet((T \ {x}) \cap R)
      <4>1. T \ {x} \in SUBSET S /\ T \cap R \in SUBSET S /\ (T \ {x}) \cap R \in SUBSET S
        OBVIOUS
      <4> QED BY <4>1, FS_Subset
    <3>3. SumFunctionOnSet(f, T) = f[x] + SumFunctionOnSet(f, T \ {x})
      BY <3>2, SumSplit
    <3>4. PICK n \in Int, a \in Int : n = SumFunctionOnSet(f, T \ {x}) /\ a = f[x]
      BY <3>2, SumInt
    <3>5. n = SumFunctionOnSet(g, (T \ {x}) \cap R)
      <4>1. T \ {x} \in G
        BY <1>1
      <4> QED BY <3>4, <4>1
    <3>6. CASE x \in R
      <4>1. SumFunctionOnSet(g, T \cap R) = g[x] + SumFunctionOnSet(g, (T \cap R) \ {x})
        <5>1. \A y \in T \cap R : g[y] \in Int
          OBVIOUS
        <5> QED BY <3>2, <3>6, <5>1, SumSplit
      <4>2. (T \cap R) \ {x} = (T \ {x}) \cap R
        OBVIOUS
      <4>3. g[x] = a
        BY <3>4, <3>6
      <4> QED BY <3>3, <3>4, <3>5, <4>1, <4>2, <4>3
    <3>7. CASE x \notin R
      <4>1. T \cap R = (T \ {x}) \cap R
        BY <3>7
      <4>2. a = 0
        BY <3>4, <3>7
      <4>3. SumFunctionOnSet(f, T) = n
        BY <3>3, <3>4, <4>2
      <4>4. SumFunctionOnSet(g, T \cap R) = n
        BY <3>5, <4>1
      <4> QED BY <4>3, <4>4
    <3> QED BY <3>6, <3>7
  <2> QED BY <2>1, <2>2
<1> HIDE DEF G
<1>2. SUBSET S \subseteq G
  BY <1>1, SubsetInduction
<1>3. S \in G /\ S \cap R = R
  BY <1>2
<1> QED BY <1>3 DEF G

\* Two sums are one of sums.
LEMMA SumPlus ==
  ASSUME NEW f, NEW g, NEW h, NEW S, IsFiniteSet(S),
         \A x \in S : f[x] \in Int /\ g[x] \in Int /\ h[x] = f[x] + g[x]
  PROVE  SumFunctionOnSet(h, S) = SumFunctionOnSet(f, S) + SumFunctionOnSet(g, S)
<1> DEFINE G == {T \in SUBSET S :
                   SumFunctionOnSet(h, T) = SumFunctionOnSet(f, T) + SumFunctionOnSet(g, T)}
<1>1. ASSUME NEW T \in SUBSET S, \A U \in SUBSET T : U # T => U \in G
      PROVE  T \in G
  <2>1. CASE T = {}
    BY <2>1, SumEmpty
  <2>2. CASE T # {}
    <3>1. PICK x \in T : TRUE
      BY <2>2
    <3>2. PICK U \in SUBSET T : U = T \ {x}
      OBVIOUS
    <3>3. IsFiniteSet(T) /\ IsFiniteSet(U)
      BY <3>2, FS_Subset
    <3>4. PICK a \in Int, b \in Int, m \in Int, n \in Int :
            /\ a = f[x] /\ b = g[x]
            /\ m = SumFunctionOnSet(f, U) /\ n = SumFunctionOnSet(g, U)
      BY <3>2, <3>3, SumInt
    <3>5. SumFunctionOnSet(f, T) = a + m
      BY <3>2, <3>3, <3>4, SumSplit
    <3>6. SumFunctionOnSet(g, T) = b + n
      BY <3>2, <3>3, <3>4, SumSplit
    <3>7. SumFunctionOnSet(h, T) = (a + b) + SumFunctionOnSet(h, U)
      <4>1. \A y \in T : h[y] \in Int
        OBVIOUS
      <4>2. h[x] = a + b
        BY <3>4
      <4> QED BY <3>2, <3>3, <4>1, <4>2, SumSplit
    <3>8. SumFunctionOnSet(h, U) = m + n
      <4>1. U \in G
        BY <1>1, <3>2
      <4> QED BY <3>4, <4>1
    <3>9. (a + b) + (m + n) = (a + m) + (b + n)
      OBVIOUS
    <3> QED BY <3>5, <3>6, <3>7, <3>8, <3>9
  <2> QED BY <2>1, <2>2
<1> HIDE DEF G
<1>2. SUBSET S \subseteq G
  BY <1>1, SubsetInduction
<1>3. S \in G
  BY <1>2
<1> QED BY <1>3 DEF G

\* A table is added up by its rows or by its columns.
Crossed(row, col, A, B) == \A a \in A, b \in B : row[a][b] \in Int /\ row[a][b] = col[b][a]
AddsUp(r, row, A, B) == \A a \in A : r[a] = SumFunctionOnSet(row[a], B)

LEMMA SumTable ==
  ASSUME NEW A, IsFiniteSet(A), NEW B, IsFiniteSet(B), NEW row, NEW col, Crossed(row, col, A, B),
         NEW r, AddsUp(r, row, A, B), NEW c, AddsUp(c, col, B, A)
  PROVE  SumFunctionOnSet(r, A) = SumFunctionOnSet(c, B)
<1> USE DEF Crossed, AddsUp
<1> DEFINE upto(T) == [b \in B |-> SumFunctionOnSet(col[b], T)]
           G == {T \in SUBSET A : SumFunctionOnSet(r, T) = SumFunctionOnSet(upto(T), B)}
<1>1. ASSUME NEW T \in SUBSET A, \A U \in SUBSET T : U # T => U \in G
      PROVE  T \in G
  <2>1. CASE T = {}
    <3>1. \A b \in B : upto(T)[b] = 0
      BY <2>1, SumEmpty
    <3> HIDE DEF upto
    <3>2. SumFunctionOnSet(upto(T), B) = 0
      BY <3>1, SumZero
    <3> QED BY <2>1, <3>2, SumEmpty
  <2>2. CASE T # {}
    <3>1. PICK x \in T : TRUE
      BY <2>2
    <3>2. PICK U \in SUBSET T : U = T \ {x}
      OBVIOUS
    <3>3. IsFiniteSet(T) /\ IsFiniteSet(U)
      BY <3>2, FS_Subset
    <3>4. \A a \in T : r[a] \in Int
      BY SumInt
    <3>5. SumFunctionOnSet(r, T) = SumFunctionOnSet(row[x], B) + SumFunctionOnSet(r, U)
      <4>1. r[x] = SumFunctionOnSet(row[x], B)
        OBVIOUS
      <4> QED BY <3>2, <3>3, <3>4, <4>1, SumSplit
    <3>6. \A b \in B : upto(U)[b] \in Int
      <4>1. ASSUME NEW b \in B PROVE SumFunctionOnSet(col[b], U) \in Int
        <5>1. \A a \in U : col[b][a] \in Int
          OBVIOUS
        <5> QED BY <3>3, <5>1, SumInt
      <4> QED BY <4>1
    <3>7. \A b \in B : upto(T)[b] = row[x][b] + upto(U)[b]
      <4>1. ASSUME NEW b \in B
            PROVE  SumFunctionOnSet(col[b], T) = col[b][x] + SumFunctionOnSet(col[b], U)
        <5>1. \A a \in T : col[b][a] \in Int
          OBVIOUS
        <5> QED BY <3>2, <3>3, <5>1, SumSplit
      <4> QED BY <4>1
    <3>8. U \in G
      BY <1>1, <3>2
    <3>9. SumFunctionOnSet(r, U) = SumFunctionOnSet(upto(U), B)
      BY <3>8
    <3> HIDE DEF upto, G
    <3>10. SumFunctionOnSet(upto(T), B) = SumFunctionOnSet(row[x], B) + SumFunctionOnSet(upto(U), B)
      <4>1. \A b \in B : row[x][b] \in Int
        OBVIOUS
      <4> QED BY <3>6, <3>7, <4>1, SumPlus
    <3> QED BY <3>5, <3>9, <3>10 DEF G
  <2> QED BY <2>1, <2>2
<1> HIDE DEF G, upto
<1>2. SUBSET A \subseteq G
  BY <1>1, SubsetInduction
<1>3. SumFunctionOnSet(r, A) = SumFunctionOnSet(upto(A), B)
  BY <1>2 DEF G
<1>4. \A b \in B : upto(A)[b] = c[b]
  BY DEF upto
<1> QED BY <1>3, <1>4, SumSame

\* And group by group.
Grouped(r, f, S, of, K) == \A k \in K : r[k] = SumFunctionOnSet(f, {x \in S : of[x] = k})

LEMMA SumGroups ==
  ASSUME NEW f, NEW S, IsFiniteSet(S), \A x \in S : f[x] \in Int,
         NEW K, IsFiniteSet(K), NEW of, \A x \in S : of[x] \in K,
         NEW r, Grouped(r, f, S, of, K)
  PROVE  SumFunctionOnSet(r, K) = SumFunctionOnSet(f, S)
<1> DEFINE row == [k \in K |-> [x \in S |-> IF of[x] = k THEN f[x] ELSE 0]]
           col == [x \in S |-> [k \in K |-> IF of[x] = k THEN f[x] ELSE 0]]
<1>1. \A k \in K, x \in S : /\ row[k][x] = IF of[x] = k THEN f[x] ELSE 0
                            /\ col[x][k] = IF of[x] = k THEN f[x] ELSE 0
  OBVIOUS
<1> HIDE DEF row, col
<1>2. \A k \in K, x \in S : row[k][x] \in Int /\ row[k][x] = col[x][k]
  BY <1>1
<1>3. ASSUME NEW k \in K PROVE r[k] = SumFunctionOnSet(row[k], S)
  <2> DEFINE R == {x \in S : of[x] = k}
  <2>1. R \in SUBSET S /\ r[k] = SumFunctionOnSet(f, R)
    BY DEF Grouped
  <2>2. \A x \in S : row[k][x] \in Int
    BY <1>2
  <2>3. (\A x \in R : f[x] = row[k][x]) /\ (\A x \in S \ R : row[k][x] = 0)
    BY <1>1
  <2> HIDE DEF R
  <2>4. SumFunctionOnSet(f, R) = SumFunctionOnSet(row[k], S)
    BY <2>1, <2>2, <2>3, SumTrim
  <2> QED BY <2>1, <2>4
<1>4. ASSUME NEW x \in S PROVE f[x] = SumFunctionOnSet(col[x], K)
  <2>1. \A k \in K : col[x][k] \in Int
    BY <1>2
  <2>2. {of[x]} \in SUBSET K /\ col[x][of[x]] = f[x] /\ \A k \in K \ {of[x]} : col[x][k] = 0
    BY <1>1
  <2>3. SumFunctionOnSet(col[x], {of[x]}) = SumFunctionOnSet(col[x], K)
    BY <2>1, <2>2, SumTrim
  <2>4. SumFunctionOnSet(col[x], {of[x]}) = f[x]
    BY <2>2, SumOne
  <2> QED BY <2>3, <2>4
<1>5. Crossed(row, col, K, S) /\ AddsUp(r, row, K, S) /\ AddsUp(f, col, S, K)
  BY <1>2, <1>3, <1>4 DEF Crossed, AddsUp
<1> QED BY <1>5, SumTable
=============================================================================
