---------------------------- MODULE SortingProofs -----------------------------
(***************************************************************************)
(* Facts the other proofs share: a set of numbers has a least one, which   *)
(* stands in for induction, and sorting a finite set by a strict total     *)
(* order lists every member once and in order.                             *)
(***************************************************************************)
EXTENDS Sorting, Sequences, FiniteSetTheorems, FunctionTheorems, WellFoundedInduction, TLAPS

\* A finite set of numbers that is not empty has a least one.
LEMMA LeastOfFinite ==
    ASSUME NEW S \in SUBSET Nat, IsFiniteSet(S), S # {}
    PROVE  \E m \in S : \A n \in S : m <= n
<1> DEFINE below(n) == {k \in S : k < n}
           T == {below(n) : n \in S}
<1>1. T \subseteq FiniteSubsetsOf(S)
    BY FS_FiniteSubsetsOfFinite
<1>2. T # {}
    OBVIOUS
<1>3. PICK x \in T : \A y \in T : ~(<<y, x>> \in StrictSubsetOrdering(S))
    <2> HIDE DEF T
    <2> QED
        BY <1>1, <1>2, FS_StrictSubsetOrderingWellFounded, WFMin
<1>4. PICK m \in S : x = below(m)
    BY <1>3
<1>5. ASSUME NEW n \in S, n < m PROVE FALSE
    <2>0. m \in Nat /\ n \in Nat /\ S \subseteq Nat
        BY <1>4
    <2>1. n \in below(m) /\ n \notin below(n)
        BY <2>0, <1>5
    <2>3. ASSUME NEW k \in below(n) PROVE k \in below(m)
        <3>1. k \in S /\ k < n /\ k \in Nat
            BY <2>0
        <3>2. k < m
            BY <3>1, <2>0, <1>5
        <3> QED
            BY <3>1, <3>2
    <2>4. below(n) \in SUBSET S /\ below(m) \in SUBSET S
        OBVIOUS
    <2>2. <<below(n), below(m)>> \in StrictSubsetOrdering(S)
        <3> HIDE DEF below
        <3> QED
            BY <2>1, <2>3, <2>4 DEF StrictSubsetOrdering
    <2> QED
        BY <1>3, <1>4, <2>2
<1> QED
    BY <1>5

\* So has every set of numbers that is not empty.
LEMMA LeastNumber ==
    ASSUME NEW S \in SUBSET Nat, S # {}
    PROVE  \E m \in S : \A n \in S : m <= n
<1>1. PICK b \in S : TRUE
    OBVIOUS
<1> DEFINE U == {n \in S : n <= b}
<1>2. b \in U /\ U \in SUBSET Nat /\ \A n \in U : n <= b
    <2>1. b \in Nat /\ b <= b
        BY <1>1
    <2>2. b \in U
        BY <1>1, <2>1
    <2>3. U \in SUBSET Nat
        OBVIOUS
    <2>4. \A n \in U : n <= b
        OBVIOUS
    <2> QED
        BY <2>2, <2>3, <2>4
<1>3. IsFiniteSet(U)
    <2> HIDE DEF U
    <2> QED
        BY <1>1, <1>2, FS_BoundedSetOfNaturals
<1>4. PICK m \in U : \A n \in U : m <= n
    <2> HIDE DEF U
    <2> QED
        BY <1>2, <1>3, LeastOfFinite
<1> QED
    BY <1>1, <1>4

\* Induction up to n: what holds of 0 and goes from each number to the next.
LEMMA UpTo ==
    ASSUME NEW n \in Nat, NEW G, 0 \in G, \A i \in 1..n : i - 1 \in G => i \in G
    PROVE  \A i \in 0..n : i \in G
<1> DEFINE Bad == {i \in 0..n : i \notin G}
<1>1. SUFFICES ASSUME Bad # {} PROVE FALSE
    OBVIOUS
<1>2. Bad \in SUBSET Nat
    OBVIOUS
<1>3. PICK m \in Bad : \A k \in Bad : m <= k
    <2> HIDE DEF Bad
    <2> QED
        BY <1>1, <1>2, LeastNumber
<1>4. m \in 1..n /\ m - 1 \in 0..n /\ ~(m <= m - 1)
    BY <1>3
<1>5. m - 1 \notin Bad
    <2> HIDE DEF Bad
    <2> QED
        BY <1>3, <1>4
<1> QED
    BY <1>3, <1>4, <1>5

-------------------------------------------------------------------------------
(* Sorting. *)

\* before is a strict total order of S.
Orders(before, S) ==
    /\ before \in [S -> SUBSET S]
    /\ \A x \in S : x \notin before[x]
    /\ \A x, y \in S : x \in before[y] => before[x] \subseteq before[y]
    /\ \A x, y \in S : x = y \/ x \in before[y] \/ y \in before[x]

\* A member that comes before another has fewer before it, and none has all.
LEMMA Ranks ==
    ASSUME NEW S, NEW before, IsFiniteSet(S), Orders(before, S), NEW x \in S, NEW y \in S
    PROVE  /\ Cardinality(before[x]) \in Nat /\ Cardinality(before[x]) < Cardinality(S)
           /\ x \in before[y] => Cardinality(before[x]) < Cardinality(before[y])
<1>1. before[x] \in SUBSET S /\ before[y] \in SUBSET S
    BY DEF Orders
<1>2. x \notin before[x]
    BY DEF Orders
<1>4. /\ IsFiniteSet(before[x]) /\ Cardinality(before[x]) \in Nat
      /\ IsFiniteSet(before[y]) /\ Cardinality(before[y]) \in Nat
      /\ Cardinality(S) \in Nat
    BY <1>1, FS_Subset, FS_CardinalityType
<1>5. /\ IsFiniteSet(before[x] \cup {x})
      /\ Cardinality(before[x] \cup {x}) = Cardinality(before[x]) + 1
    BY <1>2, <1>4, FS_AddElement
<1>6. Cardinality(before[x] \cup {x}) <= Cardinality(S)
    <2>1. before[x] \cup {x} \in SUBSET S
        BY <1>1
    <2> QED
        BY <2>1, FS_Subset
<1>7. ASSUME x \in before[y] PROVE Cardinality(before[x] \cup {x}) <= Cardinality(before[y])
    <2>1. before[x] \cup {x} \in SUBSET before[y]
        BY <1>7 DEF Orders
    <2> QED
        BY <2>1, <1>4, FS_Subset
<1> QED
    BY <1>4, <1>5, <1>6, <1>7

\* Members with equally many before them are one.
LEMMA RanksDiffer ==
    ASSUME NEW S, NEW before, IsFiniteSet(S), Orders(before, S), NEW x \in S, NEW y \in S,
           Cardinality(before[x]) = Cardinality(before[y])
    PROVE  x = y
<1>1. x \notin before[y] /\ y \notin before[x]
    BY Ranks
<1> QED
    BY <1>1 DEF Orders

\* Every place of the sorted sequence is taken.
LEMMA RankTaken ==
    ASSUME NEW S, NEW before, IsFiniteSet(S), Orders(before, S), NEW i \in 1..Cardinality(S)
    PROVE  \E x \in S : Cardinality(before[x]) = i - 1
<1>0. Cardinality(S) \in Nat
    BY FS_CardinalityType
<1> DEFINE n == Cardinality(S)
           T == 0..(n - 1)
           rank == [x \in S |-> Cardinality(before[x])]
<1>1. IsFiniteSet(T) /\ Cardinality(T) = n
    <2> HIDE DEF n
    <2>1. n \in Nat /\ n - 1 \in Int
        BY <1>0 DEF n
    <2>2. IsFiniteSet(0..(n - 1)) /\ Cardinality(0..(n - 1)) = IF 0 > n - 1 THEN 0 ELSE n - 1 - 0 + 1
        BY <2>1, FS_Interval
    <2> QED
        BY <2>1, <2>2
<1>2. rank \in [S -> T]
    <2>1. ASSUME NEW x \in S PROVE Cardinality(before[x]) \in T
        <3>1. Cardinality(before[x]) \in Nat /\ Cardinality(before[x]) < Cardinality(S)
            BY Ranks
        <3> QED
            BY <3>1, <1>0
    <2> QED
        BY <2>1
<1>3. ASSUME NEW x \in S, NEW y \in S, rank[x] = rank[y] PROVE x = y
    BY <1>3, RanksDiffer
<1>4. rank \in Injection(S, T)
    <2> HIDE DEF rank, T
    <2> QED
        BY <1>2, <1>3, Fun_IsInj
<1>5. rank \in Surjection(S, T)
    <2> HIDE DEF rank, T
    <2> QED
        BY <1>1, <1>4, FS_Injection
<1>6. i - 1 \in T
    BY <1>0
<1>7. PICK x \in S : rank[x] = i - 1
    <2> HIDE DEF rank, T
    <2> QED
        BY <1>5, <1>6 DEF Surjection
<1> QED
    BY <1>7

\* s lists S in order: each member at one place, after those that come before it.
Lists(s, S, before) ==
    /\ s \in Seq(S) /\ Len(s) = Cardinality(S)
    /\ \A i, j \in DOMAIN s : i < j => s[i] \in before[s[j]]
    /\ \A x \in S : \E i \in DOMAIN s : s[i] = x

\* Sorting gives such a list.
LEMMA SortedLists ==
    ASSUME NEW S, NEW before, IsFiniteSet(S), Orders(before, S)
    PROVE  Lists(SortedBy(before), S, before)
<1> DEFINE n == Cardinality(S)
           s == SortedBy(before)
<1>0. n \in Nat /\ DOMAIN before = S
    BY FS_CardinalityType DEF Orders
<1>1. s = [i \in 1..n |-> CHOOSE x \in S : Cardinality(before[x]) = i - 1]
    BY <1>0 DEF SortedBy
<1> HIDE DEF s, n
<1>2. ASSUME NEW i \in 1..n PROVE s[i] \in S /\ Cardinality(before[s[i]]) = i - 1
    <2>1. \E x \in S : Cardinality(before[x]) = i - 1
        BY RankTaken DEF n
    <2> QED
        BY <1>1, <2>1
<1>3. s \in Seq(S) /\ Len(s) = n /\ DOMAIN s = 1..n
    BY <1>0, <1>1, <1>2
<1>4. ASSUME NEW i \in 1..n, NEW j \in 1..n, i < j PROVE s[i] \in before[s[j]]
    <2>1. s[i] \in S /\ s[j] \in S /\ Cardinality(before[s[i]]) < Cardinality(before[s[j]])
        BY <1>2, <1>4, <1>0
    <2>2. /\ Cardinality(before[s[i]]) \in Nat /\ Cardinality(before[s[j]]) \in Nat
          /\ s[j] \in before[s[i]] => Cardinality(before[s[j]]) < Cardinality(before[s[i]])
        BY <2>1, Ranks
    <2>3. s[j] \notin before[s[i]] /\ s[i] # s[j]
        BY <2>1, <2>2
    <2> QED
        BY <2>1, <2>3 DEF Orders
<1>5. ASSUME NEW x \in S PROVE \E i \in 1..n : s[i] = x
    <2>1. Cardinality(before[x]) \in Nat /\ Cardinality(before[x]) < n
        BY Ranks DEF n
    <2> DEFINE i == Cardinality(before[x]) + 1
    <2>2. i \in 1..n /\ Cardinality(before[x]) = i - 1
        BY <2>1, <1>0
    <2>3. s[i] \in S /\ Cardinality(before[s[i]]) = Cardinality(before[x])
        <3> HIDE DEF i
        <3> QED
            BY <1>2, <2>2
    <2>4. s[i] = x
        BY <2>3, RanksDiffer
    <2> QED
        BY <2>2, <2>4
<1> QED
    BY <1>3, <1>4, <1>5 DEF s, n, Lists

\* A finite set that is not empty has a first and a last member.
LEMMA FirstAndLast ==
    ASSUME NEW S, NEW before, IsFiniteSet(S), Orders(before, S), S # {}
    PROVE  /\ \E x \in S : \A y \in S \ {x} : x \in before[y]
           /\ \E x \in S : \A y \in S \ {x} : y \in before[x]
<1>1. PICK s : s = SortedBy(before)
    OBVIOUS
<1>2. PICK n \in Nat : n = Cardinality(S) /\ n # 0
    BY FS_CardinalityType, FS_EmptySet
<1>3. /\ s \in Seq(S) /\ Len(s) = n /\ DOMAIN s = 1..n
      /\ \A i, j \in DOMAIN s : i < j => s[i] \in before[s[j]]
      /\ \A x \in S : \E i \in DOMAIN s : s[i] = x
    BY <1>1, <1>2, SortedLists DEF Lists
<1>4. s[1] \in S /\ s[n] \in S
    BY <1>2, <1>3
<1>5. ASSUME NEW y \in S, y # s[1] PROVE s[1] \in before[y]
    <2>1. PICK i \in 1..n : s[i] = y
        BY <1>3
    <2>2. 1 \in 1..n /\ 1 < i
        BY <2>1, <1>2, <1>5
    <2> QED
        BY <2>1, <2>2, <1>3
<1>6. ASSUME NEW y \in S, y # s[n] PROVE y \in before[s[n]]
    <2>1. PICK i \in 1..n : s[i] = y
        BY <1>3
    <2>2. n \in 1..n /\ i < n
        BY <2>1, <1>2, <1>6
    <2> QED
        BY <2>1, <2>2, <1>3
<1> QED
    BY <1>4, <1>5, <1>6
===============================================================================
