--------------------------- MODULE ChangeQueryProofs --------------------------
(***************************************************************************)
(* Change queries.  The cache, for any number of readers, writers, queries *)
(* and events: every answer is a recent snapshot of the repository, and    *)
(* only the race of a fill with a purge hides an answered event.  The      *)
(* projection and its pages, for any events, requests and page sizes: what *)
(* a change says is what its events say, late evidence takes nothing away, *)
(* no change is on two pages and none that stays in its place is missed.   *)
(***************************************************************************)
EXTENDS ChangeCache, Changes, SortingProofs, SequenceTheorems

\* The entries of the LRU but one, in their order.
LEMMA RemoveAtElements ==
    ASSUME NEW E, NEW s \in Seq(E), NEW i \in 1..Len(s)
    PROVE  /\ RemoveAt(s, i) \in Seq(E)
           /\ Len(RemoveAt(s, i)) = Len(s) - 1
           /\ \A j \in 1..(Len(s) - 1) : RemoveAt(s, i)[j] = IF j < i THEN s[j] ELSE s[j + 1]
PROOF
<1> DEFINE a == SubSeq(s, 1, i - 1)
           b == SubSeq(s, i + 1, Len(s))
<1>1. Len(s) \in Nat /\ i \in Nat
  OBVIOUS
<1>2. a \in Seq(E) /\ Len(a) = i - 1 /\ \A j \in 1..(i - 1) : a[j] = s[j]
  BY <1>1, SubSeqProperties
<1>3. b \in Seq(E) /\ Len(b) = Len(s) - i /\ \A j \in 1..(Len(s) - i) : b[j] = s[i + j]
  BY <1>1
<1> HIDE DEF a, b
<1>4. a \o b \in Seq(E) /\ Len(a \o b) = Len(s) - 1
  <2>1. a \o b \in Seq(E) /\ Len(a \o b) = Len(a) + Len(b)
    BY <1>2, <1>3, ConcatProperties
  <2> QED
    BY <2>1, <1>1, <1>2, <1>3
<1>5. ASSUME NEW j \in 1..(Len(s) - 1) PROVE (a \o b)[j] = IF j < i THEN s[j] ELSE s[j + 1]
  <2>1. CASE j < i
    BY <2>1, <1>1, <1>2, <1>3
  <2>2. CASE ~(j < i)
    <3>1. j - (i - 1) \in 1..(Len(s) - i) /\ i + (j - (i - 1)) = j + 1
      BY <2>2, <1>1
    <3>2. (a \o b)[j] = b[j - (i - 1)]
      BY <2>2, <1>1, <1>2, <1>3
    <3>3. b[j - (i - 1)] = s[i + (j - (i - 1))]
      BY <3>1, <1>3
    <3> QED
      BY <3>1, <3>2, <3>3, <2>2
  <2> QED
    BY <2>1, <2>2
<1>6. RemoveAt(s, i) = a \o b
  BY DEF RemoveAt, a, b
<1> QED
  BY <1>4, <1>5, <1>6

\* The entries of the LRU but the least recently used one.
LEMMA FrontElements ==
    ASSUME NEW E, NEW s \in Seq(E), Len(s) > 0
    PROVE  /\ Front(s) \in Seq(E)
           /\ Len(Front(s)) = Len(s) - 1
           /\ \A j \in 1..(Len(s) - 1) : Front(s)[j] = s[j]
PROOF
<1>1. PICK n \in Nat : n = Len(s) - 1
  OBVIOUS
<1> DEFINE a == SubSeq(s, 1, n)
<1>2. a \in Seq(E) /\ Len(a) = n /\ \A j \in 1..n : a[j] = s[j]
  BY <1>1, SubSeqProperties
<1>3. Front(s) = a
  BY <1>1 DEF Front
<1> HIDE DEF a
<1> QED
  BY <1>1, <1>2, <1>3

-------------------------------------------------------------------------------
(* What QueryTimeline selects. *)

\* How many events of M come before e: smaller for earlier events.
LEMMA RankGrows ==
    ASSUME NEW M \in SUBSET Nat, IsFiniteSet(M), NEW d \in M, NEW e \in M, d < e
    PROVE  /\ Cardinality({f \in M : f < d}) \in Nat
           /\ Cardinality({f \in M : f < e}) \in Nat
           /\ Cardinality({f \in M : f < d}) < Cardinality({f \in M : f < e})
PROOF
<1> DEFINE D == {f \in M : f < d}
           E == {f \in M : f < e}
<1>0. d \in Nat /\ e \in Nat /\ \A f \in M : f \in Nat
  OBVIOUS
<1>1. D \in SUBSET M /\ E \in SUBSET M /\ D \cup {d} \in SUBSET E /\ d \notin D
  <2>1. \A f \in D \cup {d} : f \in E
    BY <1>0
  <2>2. D \subseteq M /\ E \subseteq M /\ d \notin D
    BY <1>0
  <2> HIDE DEF D, E
  <2> QED
    BY <2>1, <2>2
<1> HIDE DEF D, E
<1>2. IsFiniteSet(D) /\ IsFiniteSet(E)
  BY <1>1, FS_Subset
<1>3. Cardinality(D \cup {d}) = Cardinality(D) + 1 /\ IsFiniteSet(D \cup {d})
  BY <1>1, <1>2, FS_AddElement
<1>4. Cardinality(D \cup {d}) <= Cardinality(E)
  BY <1>1, <1>2, FS_Subset
<1>5. Cardinality(D) \in Nat /\ Cardinality(E) \in Nat
  BY <1>2, FS_CardinalityType
<1>6. Cardinality(D) < Cardinality(E)
  BY <1>3, <1>4, <1>5
<1> QED
  BY <1>5, <1>6 DEF D, E

\* The answer is not longer than Limit.
LEMMA SelectedBounded ==
    ASSUME NEW k \in Keys, NEW S \in SUBSET Events, IsFiniteSet(S)
    PROVE  Selected(k, S) \subseteq S /\ Cardinality(Selected(k, S)) <= Limit
PROOF
<1> DEFINE M == S \cap Window[k]
           Rank(e) == Cardinality({f \in M : f < e})
           Sel == Selected(k, S)
<1>a. Limit \in Nat \ {0} /\ Events \in SUBSET Nat
  BY ChangeCacheAssumption
<1>1. M \in SUBSET Nat /\ M \subseteq S
  BY <1>a
<1>2. IsFiniteSet(M)
  BY <1>1, FS_Subset
<1>3. Sel \subseteq M /\ \A e \in Sel : Rank(e) < Limit
  BY DEF Selected
<1>4. \A d, e \in M : d < e => Rank(d) \in Nat /\ Rank(e) \in Nat /\ Rank(d) < Rank(e)
  BY <1>1, <1>2, RankGrows
<1>5. ASSUME NEW e \in M PROVE Rank(e) \in Nat
  <2> DEFINE E == {f \in M : f < e}
  <2>1. E \in SUBSET M
    OBVIOUS
  <2> HIDE DEF E
  <2>2. Cardinality(E) \in Nat
    BY <2>1, <1>2, FS_Subset, FS_CardinalityType
  <2> QED
    BY <2>2 DEF E
<1> DEFINE low == [e \in Sel |-> Rank(e)]
<1>6. \A e \in Sel : low[e] = Rank(e)
  OBVIOUS
<1>6c. low \in [Sel -> 0..(Limit - 1)]
  <2> HIDE DEF Rank, M, Sel
  <2>1. \A e \in Sel : Rank(e) \in 0..(Limit - 1)
    BY <1>3, <1>5, <1>a
  <2> QED
    BY <2>1
<1> HIDE DEF Rank, low, Sel, M
<1>7. ASSUME NEW d \in M, NEW e \in M, Rank(d) = Rank(e) PROVE d = e
  <2>1. d \in Nat /\ e \in Nat
    BY <1>1
  <2>2. ~(d < e) /\ ~(e < d)
    BY <1>4, <1>7
  <2> QED
    BY <2>1, <2>2
<1>8. low \in Injection(Sel, 0..(Limit - 1))
  BY <1>3, <1>6, <1>6c, <1>7 DEF Injection, IsInjective
<1>9. IsFiniteSet(0..(Limit - 1)) /\ Cardinality(0..(Limit - 1)) = Limit
  BY <1>a, FS_Interval
<1>10. IsFiniteSet(Sel) /\ Cardinality(Sel) <= Limit
  BY <1>8, <1>9, FS_Injection
<1> QED
  BY <1>1, <1>3, <1>10 DEF Sel

\* An event that a longer history still selects was selected in the shorter one: events
\* that come later push others behind the limit, never before it.
LEMMA SelectedShrinks ==
    ASSUME NEW k \in Keys, NEW T, NEW S \in SUBSET T, NEW e \in S, e \in Selected(k, T)
    PROVE  e \in Selected(k, S)
PROOF
<1> DEFINE D == {f \in S \cap Window[k] : f < e}
           E == {f \in T \cap Window[k] : f < e}
<1>a. Limit \in Nat /\ Window[k] \in SUBSET Nat
  BY ChangeCacheAssumption
<1>1. e \in Window[k] /\ e \in Found[k] /\ Cardinality(E) < Limit
  BY DEF Selected
<1>2. e \in Nat /\ E \in SUBSET (0..(e - 1)) /\ D \in SUBSET E
  <2>1. e \in Nat /\ \A f \in E : f \in 0..(e - 1)
    BY <1>a, <1>1
  <2>2. \A f \in D : f \in E
    OBVIOUS
  <2> HIDE DEF D, E
  <2> QED
    BY <2>1, <2>2
<1> HIDE DEF D, E
<1>3. IsFiniteSet(0..(e - 1))
  <2>1. e - 1 \in Int
    BY <1>2
  <2> QED
    BY <2>1, FS_Interval
<1>4. IsFiniteSet(E)
  BY <1>2, <1>3, FS_Subset
<1>5. IsFiniteSet(D) /\ Cardinality(D) <= Cardinality(E)
  BY <1>2, <1>4, FS_Subset
<1>6. Cardinality(D) \in Nat /\ Cardinality(E) \in Nat
  BY <1>4, <1>5, FS_CardinalityType
<1>7. Cardinality(D) < Limit
  BY <1>a, <1>1, <1>5, <1>6
<1> QED
  BY <1>1, <1>7 DEF Selected, D
-------------------------------------------------------------------------------
(* The repository: what was committed stays, in its order. *)

\* The first n commits are a finite set of events.
LEMMA StoredInFinite ==
    ASSUME TypeOK, NEW n \in 0..Len(log)
    PROVE  StoredIn(n) \in SUBSET Events /\ IsFiniteSet(StoredIn(n))
PROOF
<1> DEFINE f == [i \in 1..n |-> log[i].ev]
<1>1. log \in Seq(Commits) /\ Len(log) \in Nat
  BY DEF TypeOK
<1>2. \A i \in 1..n : log[i] \in Commits
  BY <1>1
<1>3. StoredIn(n) \in SUBSET Events
  BY <1>2 DEF StoredIn, Commits
<1>4. f \in Surjection(1..n, StoredIn(n))
  BY DEF Surjection, StoredIn
<1>5. IsFiniteSet(1..n)
  BY <1>1, FS_Interval
<1> HIDE DEF f
<1> QED
  BY <1>3, <1>4, <1>5, FS_Surjection

\* There are more commits before a later time, and never more than there are commits.
LEMMA CommittedMonotone ==
    ASSUME TypeOK, NEW t \in Int, NEW u \in Int, t <= u
    PROVE  /\ CommittedBefore(t) \in Nat /\ CommittedBefore(u) \in Nat
           /\ CommittedBefore(t) <= CommittedBefore(u)
           /\ CommittedBefore(u) <= Len(log)
PROOF
<1> DEFINE T == {i \in DOMAIN log : log[i].at < t}
           U == {i \in DOMAIN log : log[i].at < u}
<1>1. log \in Seq(Commits) /\ Len(log) \in Nat /\ DOMAIN log = 1..Len(log)
  BY DEF TypeOK
<1>2. \A i \in DOMAIN log : log[i].at \in Int
  <2>1. \A i \in DOMAIN log : log[i] \in Commits
    BY <1>1
  <2> QED
    BY <2>1, ChangeCacheAssumption DEF Commits
<1>3. T \in SUBSET U /\ U \in SUBSET (1..Len(log))
  <2>1. \A i \in DOMAIN log : log[i].at < t => log[i].at < u
    BY <1>2
  <2>2. T \subseteq U
    BY <2>1
  <2>3. U \subseteq 1..Len(log)
    BY <1>1
  <2> QED
    BY <2>2, <2>3
<1>4. IsFiniteSet(1..Len(log)) /\ Cardinality(1..Len(log)) = Len(log)
  <2>1. PICK n \in Nat : n = Len(log)
    BY <1>1
  <2>2. IsFiniteSet(1..n) /\ Cardinality(1..n) = n
    BY FS_Interval
  <2> QED
    BY <2>1, <2>2
<1> HIDE DEF T, U
<1>5. IsFiniteSet(U) /\ Cardinality(U) <= Len(log)
  <2> DEFINE N == 1..Len(log)
  <2>1. IsFiniteSet(N) /\ Cardinality(N) = Len(log) /\ U \in SUBSET N
    BY <1>3, <1>4
  <2> HIDE DEF N
  <2>2. IsFiniteSet(U) /\ Cardinality(U) <= Cardinality(N)
    BY <2>1, FS_Subset
  <2> QED
    BY <2>1, <2>2
<1>6. IsFiniteSet(T) /\ Cardinality(T) <= Cardinality(U)
  BY <1>3, <1>5, FS_Subset
<1>7. Cardinality(T) \in Nat /\ Cardinality(U) \in Nat
  BY <1>5, <1>6, FS_CardinalityType
<1> QED
  BY <1>5, <1>6, <1>7 DEF T, U, CommittedBefore

\* A step of the log: nothing, or a new event at its end.
LogStep == UNCHANGED log \/ \E e \in Events : Stored(e)

\* The log keeps its prefix.
LEMMA LogGrows ==
    ASSUME TypeOK, LogStep
    PROVE  /\ log' \in Seq(Commits) /\ Len(log) <= Len(log')
           /\ \A i \in DOMAIN log : i \in DOMAIN log' /\ log'[i] = log[i]
           /\ \A i \in DOMAIN log' : i \in DOMAIN log \/ (i = Len(log) + 1 /\ log'[i].at = now)
PROOF
<1>1. log \in Seq(Commits) /\ Len(log) \in Nat /\ now \in 0..MaxTime
  BY DEF TypeOK
<1>2. CASE UNCHANGED log
  BY <1>1, <1>2
<1>3. ASSUME NEW e \in Events, log' = Append(log, [ev |-> e, at |-> now])
      PROVE  /\ log' \in Seq(Commits) /\ Len(log') = Len(log) + 1
             /\ \A i \in DOMAIN log : i \in DOMAIN log' /\ log'[i] = log[i]
             /\ \A i \in DOMAIN log' : i \in DOMAIN log \/ (i = Len(log) + 1 /\ log'[i].at = now)
  <2>1. PICK c \in Commits : c = [ev |-> e, at |-> now]
    BY <1>1 DEF Commits
  <2>2. log' = Append(log, c)
    BY <1>3, <2>1
  <2>3. log' \in Seq(Commits) /\ Len(log') = Len(log) + 1
    BY <2>2, <1>1
  <2>4. /\ DOMAIN log = 1..Len(log) /\ DOMAIN log' = 1..(Len(log) + 1)
        /\ \A i \in 1..Len(log) : log'[i] = log[i]
        /\ log'[Len(log) + 1] = c
    BY <2>2, <2>3, <1>1
  <2>5. \A i \in DOMAIN log' : i \in DOMAIN log \/ i = Len(log) + 1
    BY <2>4, <1>1
  <2>6. \A i \in DOMAIN log : i \in DOMAIN log'
    BY <2>4, <1>1
  <2> QED
    BY <2>1, <2>3, <2>4, <2>5, <2>6
<1>4. UNCHANGED log \/ \E e \in Events : log' = Append(log, [ev |-> e, at |-> now])
  BY DEF LogStep, Stored
<1>5. CASE \E e \in Events : log' = Append(log, [ev |-> e, at |-> now])
  <2>1. PICK e \in Events : log' = Append(log, [ev |-> e, at |-> now])
    BY <1>5
  <2>2. Len(log') = Len(log) + 1
    BY <2>1, <1>3
  <2>3. Len(log) <= Len(log')
    BY <2>2, <1>1
  <2> QED
    BY <2>1, <2>3, <1>3
<1> QED
  BY <1>2, <1>4, <1>5

\* What was stored after n commits does not change.
LEMMA StoredInKept ==
    ASSUME TypeOK, LogStep, NEW n \in 0..Len(log)
    PROVE  StoredIn(n)' = StoredIn(n)
PROOF
<1>1. log \in Seq(Commits) /\ Len(log) \in Nat
  BY DEF TypeOK
<1>2. \A i \in 1..n : i \in DOMAIN log
  BY <1>1
<1>3. \A i \in 1..n : log'[i] = log[i]
  BY <1>2, LogGrows
<1>4. {log'[i].ev : i \in 1..n} = {log[i].ev : i \in 1..n}
  BY <1>3
<1> QED
  BY <1>4 DEF StoredIn

\* Nothing is committed in the past.
LEMMA CommittedKept ==
    ASSUME TypeOK, LogStep, NEW t \in Int, t <= now
    PROVE  CommittedBefore(t)' = CommittedBefore(t)
PROOF
<1>1. now \in Int
  BY DEF TypeOK
<1>2. /\ \A i \in DOMAIN log : i \in DOMAIN log' /\ log'[i] = log[i]
      /\ \A i \in DOMAIN log' : i \in DOMAIN log \/ ~(log'[i].at < t)
  BY <1>1, LogGrows
<1>3. {i \in DOMAIN log' : log'[i].at < t} = {i \in DOMAIN log : log[i].at < t}
  BY <1>2
<1> QED
  BY <1>3 DEF CommittedBefore

\* What was a snapshot stays one.
LEMMA SnapshotKept ==
    ASSUME TypeOK, LogStep, NEW k, NEW items, NEW t \in Int, t <= now, Snapshot(k, items, t)
    PROVE  Snapshot(k, items, t)'
PROOF
<1>1. PICK n \in CommittedBefore(t)..Len(log) : items = Selected(k, StoredIn(n))
  BY DEF Snapshot
<1>2. CommittedBefore(t) \in Nat /\ CommittedBefore(t)' = CommittedBefore(t)
  BY CommittedMonotone, CommittedKept
<1>3. Len(log) \in Nat /\ Len(log') \in Nat /\ Len(log) <= Len(log')
  BY LogGrows DEF TypeOK
<1>4. n \in 0..Len(log) /\ n \in (CommittedBefore(t)..Len(log))'
  BY <1>1, <1>2, <1>3
<1>5. StoredIn(n)' = StoredIn(n)
  BY <1>4, StoredInKept
<1>6. items = Selected(k, StoredIn(n))'
  BY <1>1, <1>5 DEF Selected
<1> QED
  BY <1>4, <1>6 DEF Snapshot

\* A snapshot from after t is one from after any earlier time.
LEMMA SnapshotEarlier ==
    ASSUME TypeOK, NEW k, NEW items, NEW t \in Int, NEW u \in Int, u <= t, Snapshot(k, items, t)
    PROVE  Snapshot(k, items, u)
PROOF
<1>1. PICK n \in CommittedBefore(t)..Len(log) : items = Selected(k, StoredIn(n))
  BY DEF Snapshot
<1>2. CommittedBefore(t) \in Nat /\ CommittedBefore(u) \in Nat /\ CommittedBefore(u) <= CommittedBefore(t)
  BY CommittedMonotone
<1>3. n \in CommittedBefore(u)..Len(log)
  BY <1>1, <1>2 DEF TypeOK
<1> QED
  BY <1>1, <1>3 DEF Snapshot

\* A snapshot is a set of events, no longer than Limit.
LEMMA SnapshotBounded ==
    ASSUME TypeOK, NEW k \in Keys, NEW items, NEW t \in Int, Snapshot(k, items, t)
    PROVE  items \in SUBSET Events /\ Cardinality(items) <= Limit
PROOF
<1>1. PICK n \in CommittedBefore(t)..Len(log) : items = Selected(k, StoredIn(n))
  BY DEF Snapshot
<1>2. n \in 0..Len(log)
  BY <1>1, CommittedMonotone DEF TypeOK
<1> QED
  BY <1>1, <1>2, StoredInFinite, SelectedBounded
-------------------------------------------------------------------------------
(* The LRU. *)

OneForAKey(s) == \A i, j \in DOMAIN s : s[i].key = s[j].key => i = j

\* Without the entry at i there is none for its key, and no new one.
LEMMA WithoutEntry ==
    ASSUME NEW s \in Seq(Entries), OneForAKey(s), NEW i \in DOMAIN s
    PROVE  /\ RemoveAt(s, i) \in Seq(Entries) /\ Len(RemoveAt(s, i)) = Len(s) - 1
           /\ OneForAKey(RemoveAt(s, i))
           /\ \A j \in DOMAIN RemoveAt(s, i) :
                  \E h \in DOMAIN s : RemoveAt(s, i)[j] = s[h] /\ s[h].key # s[i].key
PROOF
<1> DEFINE r == RemoveAt(s, i)
<1>1. Len(s) \in Nat /\ DOMAIN s = 1..Len(s) /\ i \in 1..Len(s)
  OBVIOUS
<1>2. /\ r \in Seq(Entries) /\ Len(r) = Len(s) - 1
      /\ \A j \in 1..(Len(s) - 1) : r[j] = IF j < i THEN s[j] ELSE s[j + 1]
  BY <1>1, RemoveAtElements
<1> HIDE DEF r
<1>3. DOMAIN r = 1..(Len(s) - 1)
  BY <1>1, <1>2
<1>4. ASSUME NEW j \in DOMAIN r
      PROVE  \E h \in DOMAIN s : r[j] = s[h] /\ s[h].key # s[i].key /\ h = IF j < i THEN j ELSE j + 1
  <2>1. PICK h : h = IF j < i THEN j ELSE j + 1
    OBVIOUS
  <2>2. h \in DOMAIN s /\ h # i /\ r[j] = s[h]
    BY <2>1, <1>1, <1>2, <1>3
  <2> QED
    BY <2>1, <2>2 DEF OneForAKey
<1>5. ASSUME NEW j \in DOMAIN r, NEW l \in DOMAIN r, r[j].key = r[l].key PROVE j = l
  <2>1. PICK h \in DOMAIN s : r[j] = s[h] /\ h = IF j < i THEN j ELSE j + 1
    BY <1>4
  <2>2. PICK g \in DOMAIN s : r[l] = s[g] /\ g = IF l < i THEN l ELSE l + 1
    BY <1>4
  <2>3. h = g
    BY <2>1, <2>2, <1>5 DEF OneForAKey
  <2> QED
    BY <2>1, <2>2, <2>3, <1>1, <1>3
<1> QED
  BY <1>2, <1>4, <1>5 DEF r, OneForAKey

\* Evicting the last entry leaves the others.
LEMMA WithoutLast ==
    ASSUME NEW s \in Seq(Entries), OneForAKey(s), Len(s) > 0
    PROVE  /\ Front(s) \in Seq(Entries) /\ Len(Front(s)) = Len(s) - 1
           /\ OneForAKey(Front(s))
           /\ \A j \in DOMAIN Front(s) : \E h \in DOMAIN s : Front(s)[j] = s[h]
PROOF
<1> DEFINE r == Front(s)
<1>1. Len(s) \in Nat /\ DOMAIN s = 1..Len(s)
  OBVIOUS
<1>2. r \in Seq(Entries) /\ Len(r) = Len(s) - 1 /\ \A j \in 1..(Len(s) - 1) : r[j] = s[j]
  BY FrontElements
<1> HIDE DEF r
<1>3. DOMAIN r = 1..(Len(s) - 1)
  BY <1>1, <1>2
<1>4. \A j \in DOMAIN r : j \in DOMAIN s /\ r[j] = s[j]
  BY <1>1, <1>2, <1>3
<1> QED
  BY <1>2, <1>4 DEF r, OneForAKey

\* A new entry in front of entries for other keys.
LEMMA PutInFront ==
    ASSUME NEW s \in Seq(Entries), OneForAKey(s), NEW x \in Entries,
           \A i \in DOMAIN s : s[i].key # x.key
    PROVE  /\ <<x>> \o s \in Seq(Entries) /\ Len(<<x>> \o s) = Len(s) + 1
           /\ OneForAKey(<<x>> \o s)
           /\ \A j \in DOMAIN (<<x>> \o s) :
                  (<<x>> \o s)[j] = x \/ \E h \in DOMAIN s : (<<x>> \o s)[j] = s[h]
PROOF
<1> DEFINE o == <<x>>
           r == o \o s
<1>1. Len(s) \in Nat /\ DOMAIN s = 1..Len(s)
  OBVIOUS
<1>2. o \in Seq(Entries) /\ Len(o) = 1 /\ o[1] = x
  OBVIOUS
<1> HIDE DEF o
<1>3. /\ r \in Seq(Entries) /\ Len(r) = Len(s) + 1
      /\ \A j \in 1..(Len(s) + 1) : r[j] = IF j <= 1 THEN o[j] ELSE s[j - 1]
  <2>1. /\ r \in Seq(Entries) /\ Len(r) = Len(o) + Len(s)
        /\ \A j \in 1..(Len(o) + Len(s)) : r[j] = IF j <= Len(o) THEN o[j] ELSE s[j - Len(o)]
    BY <1>2, ConcatProperties
  <2> QED
    BY <2>1, <1>1, <1>2
<1> HIDE DEF r
<1>4. DOMAIN r = 1..(Len(s) + 1)
  BY <1>1, <1>3
<1>5. ASSUME NEW j \in DOMAIN r
      PROVE  (j = 1 /\ r[j] = x) \/ (j - 1 \in DOMAIN s /\ r[j] = s[j - 1])
  BY <1>1, <1>2, <1>3, <1>4
<1>6. ASSUME NEW j \in DOMAIN r, NEW l \in DOMAIN r, r[j].key = r[l].key PROVE j = l
  <2>1. j \in Int /\ l \in Int
    BY <1>1, <1>4
  <2>2. (j = 1 /\ r[j] = x) \/ (j - 1 \in DOMAIN s /\ r[j] = s[j - 1])
    BY <1>5
  <2>3. (l = 1 /\ r[l] = x) \/ (l - 1 \in DOMAIN s /\ r[l] = s[l - 1])
    BY <1>5
  <2>4. j = l \/ j - 1 = l - 1
    BY <2>2, <2>3, <1>6 DEF OneForAKey
  <2> QED
    BY <2>1, <2>4
<1>7. \A j \in DOMAIN r : r[j] = x \/ \E h \in DOMAIN s : r[j] = s[h]
  BY <1>5
<1>8. OneForAKey(r)
  BY <1>6 DEF OneForAKey
<1> QED
  BY <1>3, <1>7, <1>8 DEF r, o
-------------------------------------------------------------------------------
(* The inductive invariant. *)

\* The state the inductive invariant starts in.
LEMMA InitIInv == Init => IInv
PROOF
<1> SUFFICES ASSUME Init PROVE IInv
  OBVIOUS
<1> USE ChangeCacheAssumption DEF Init
<1>1. log \in Seq(Commits) /\ Len(log) = 0 /\ DOMAIN log = {}
  OBVIOUS
<1>2. lru \in Seq(Entries) /\ Len(lru) = 0 /\ DOMAIN lru = {}
  OBVIOUS
<1>3. Idle \in Fills /\ FillFounded(Idle)
  BY DEF Idle, Fills, FillFounded
<1>4. TypeOK
  <2>1. fill \in [Readers -> Fills] /\ purging \in [Writers -> Events \cup {NoEvent}]
    BY <1>3
  <2>2. got \in [key : Keys \cup {NoKey}, items : SUBSET Events, at : 0..MaxTime]
    BY DEF Nothing
  <2> QED
    BY <1>1, <1>2, <2>1, <2>2 DEF TypeOK
<1>5. LogOrdered
  BY <1>1 DEF LogOrdered
<1>6. AckedStored
  BY DEF AckedStored
<1>7. got.at <= now /\ ReadsRecentSnapshot
  BY DEF Nothing, ReadsRecentSnapshot
<1>8. \A r \in Readers : FillFounded(fill[r])
  BY <1>3
<1> QED
  BY <1>2, <1>4, <1>5, <1>6, <1>7, <1>8 DEF IInv

\* What is complete stays complete while the repository grows.
LEMMA CompleteKept ==
    ASSUME TypeOK, AckedStored, LogStep, acked' = acked,
           NEW k \in Keys, NEW items, Complete(k, items)
    PROVE  Complete(k, items)'
PROOF
<1>1. PICK S, T : S = StoredIn(Len(log)) /\ T = StoredIn(Len(log))'
  OBVIOUS
<1>2. S \in SUBSET T
  <2>1. log \in Seq(Commits) /\ Len(log) \in Nat /\ DOMAIN log = 1..Len(log)
    BY DEF TypeOK
  <2>2. /\ log' \in Seq(Commits) /\ Len(log) <= Len(log')
        /\ \A i \in DOMAIN log : i \in DOMAIN log' /\ log'[i] = log[i]
    BY LogGrows
  <2>3. \A i \in 1..Len(log) : i \in 1..Len(log') /\ log'[i] = log[i]
    BY <2>1, <2>2
  <2> QED
    BY <2>3, <1>1 DEF StoredIn
<1>3. acked \subseteq S /\ acked \cap Selected(k, S) \subseteq items
  BY <1>1 DEF AckedStored, Complete
<1>4. acked \cap Selected(k, T) \subseteq items
  BY <1>2, <1>3, SelectedShrinks
<1>5. Selected(k, T) = Selected(k, StoredIn(Len(log)))'
  BY <1>1 DEF Selected
<1> QED
  BY <1>4, <1>5 DEF Complete

\* An entry stays what it is while the repository grows and time passes.
LEMMA EntryKept ==
    ASSUME TypeOK, AckedStored, LogStep, acked' = acked, now' \in Nat, now <= now',
           NEW x \in Entries, EntryFounded(x)
    PROVE  EntryFounded(x)'
PROOF
<1> USE ChangeCacheAssumption
<1>1. PICK t : t = x.expires - TTL - MaxFill
  OBVIOUS
<1>2. now \in Nat /\ x.expires \in Nat /\ x.expires <= now + TTL
  BY DEF TypeOK, EntryFounded, Entries
<1>3. t \in Int /\ t <= now /\ x.expires <= now' + TTL
  BY <1>1, <1>2
<1>4. Snapshot(x.key, x.items, t)
  BY <1>1 DEF EntryFounded
<1>5. PICK k, items : k = x.key /\ items = x.items
  OBVIOUS
<1>6. Snapshot(k, items, t)'
  BY <1>3, <1>4, <1>5, SnapshotKept
<1>7. Snapshot(x.key, x.items, x.expires - TTL - MaxFill)'
  BY <1>1, <1>5, <1>6
<1>8. k \in Keys /\ (~x.late => Complete(k, items))
  BY <1>5 DEF EntryFounded, Entries
<1>9. ~x.late => Complete(k, items)'
  BY <1>8, CompleteKept
<1>10. ~x.late => Complete(x.key, x.items)'
  BY <1>5, <1>9
<1> QED
  BY <1>3, <1>7, <1>10 DEF EntryFounded

\* So does a fill, as long as it is in its time.
LEMMA FillKept ==
    ASSUME TypeOK, AckedStored, LogStep, acked' = acked, now' \in Nat, now <= now',
           NEW f \in Fills, FillFounded(f), f.pc = "add" => now' <= f.since + MaxFill
    PROVE  FillFounded(f)'
PROOF
<1>1. CASE f.pc # "add"
  BY <1>1 DEF FillFounded
<1>2. CASE f.pc = "add"
  <2>1. PICK t, k, items : t = f.since /\ k = f.key /\ items = f.items
    OBVIOUS
  <2>2. now \in Nat /\ t \in Int /\ t <= now
    BY <2>1, <1>2 DEF TypeOK, FillFounded, Fills
  <2>3. t <= now'
    BY <2>2
  <2>4. Snapshot(k, items, t)'
    BY <2>1, <2>2, <1>2, SnapshotKept DEF FillFounded
  <2>5. Snapshot(f.key, f.items, f.since)'
    BY <2>1, <2>4
  <2>6. k \in Keys /\ (~f.late => Complete(k, items))
    BY <2>1, <1>2 DEF FillFounded
  <2>7. ~f.late => Complete(k, items)'
    BY <2>6, CompleteKept
  <2>8. ~f.late => Complete(f.key, f.items)'
    BY <2>1, <2>7
  <2> QED
    BY <2>1, <2>3, <2>5, <2>8, <1>2 DEF FillFounded
<1> QED
  BY <1>1, <1>2

\* And the last answer.
LEMMA AnswerKept ==
    ASSUME IInv, LogStep, got' = got, now' \in Nat, now <= now'
    PROVE  (got.at <= now)' /\ ReadsRecentSnapshot'
PROOF
<1> USE ChangeCacheAssumption
<1>1. PICK t, k, items : t = got.at - TTL - MaxFill /\ k = got.key /\ items = got.items
  OBVIOUS
<1>2. TypeOK /\ now \in Nat /\ got.at \in Nat /\ got.at <= now
  BY DEF IInv, TypeOK
<1>3. t \in Int /\ t <= now /\ got.at <= now'
  BY <1>1, <1>2
<1>4. got # Nothing => Snapshot(k, items, t)
  BY <1>1 DEF IInv, ReadsRecentSnapshot, Snapshot
<1>5. got # Nothing => Snapshot(k, items, t)'
  BY <1>2, <1>3, <1>4, SnapshotKept
<1>6. ReadsRecentSnapshot'
  BY <1>1, <1>5 DEF ReadsRecentSnapshot, Snapshot
<1> QED
  BY <1>3, <1>6

\* An answer with the items of an entry or a fill.
LEMMA AnswerRecent ==
    ASSUME IInv, UNCHANGED <<log, now>>, NEW k \in Keys, NEW items \in SUBSET Events, Answer(k, items),
           Snapshot(k, items, now - TTL - MaxFill)
    PROVE  /\ got' \in [key : Keys \cup {NoKey}, items : SUBSET Events, at : 0..MaxTime]
           /\ (got.at <= now)' /\ ReadsRecentSnapshot'
PROOF
<1>1. now \in 0..MaxTime /\ got' = [key |-> k, items |-> items, at |-> now]
  BY DEF IInv, TypeOK, Answer
<1>2. PICK n \in CommittedBefore(now - TTL - MaxFill)..Len(log) : items = Selected(k, StoredIn(n))
  BY DEF Snapshot
<1>3. /\ got'.key = k /\ got'.items = items /\ got'.at = now
      /\ got' \in [key : Keys \cup {NoKey}, items : SUBSET Events, at : 0..MaxTime]
  BY <1>1
<1>4. (CommittedBefore(now - TTL - MaxFill)..Len(log)) = CommittedBefore(got.at - TTL - MaxFill)'..Len(log')
  BY <1>3 DEF CommittedBefore
<1>5. Selected(k, StoredIn(n)) = Selected(got.key, StoredIn(n))'
  BY <1>3 DEF Selected, StoredIn
<1>6. ReadsRecentSnapshot'
  BY <1>2, <1>3, <1>4, <1>5 DEF ReadsRecentSnapshot
<1>7. now <= now /\ now' = now
  BY <1>1
<1> QED
  BY <1>3, <1>6, <1>7

\* The repository stays in order, each event stored once, and what was answered stays stored.
LEMMA LogKept ==
    ASSUME IInv, LogStep, now' \in Nat, now <= now'
    PROVE  /\ LogOrdered'
           /\ \A i, j \in DOMAIN log' : log'[i].ev = log'[j].ev => i = j
           /\ StoredIn(Len(log)) \subseteq StoredIn(Len(log))'
PROOF
<1>1. log \in Seq(Commits) /\ Len(log) \in Nat /\ DOMAIN log = 1..Len(log) /\ now \in Nat
  BY DEF IInv, TypeOK
<1>2. /\ log' \in Seq(Commits) /\ Len(log) <= Len(log')
      /\ \A i \in DOMAIN log : i \in DOMAIN log' /\ log'[i] = log[i]
      /\ \A i \in DOMAIN log' : i \in DOMAIN log \/ (i = Len(log) + 1 /\ log'[i].at = now)
  BY LogGrows DEF IInv
<1>3. Len(log') \in Nat /\ DOMAIN log' = 1..Len(log')
  BY <1>2
<1>4. \A i \in DOMAIN log : log[i].at \in Nat /\ log[i].at <= now
  <2>1. \A i \in DOMAIN log : log[i] \in Commits
    BY <1>1
  <2> QED
    BY <2>1, ChangeCacheAssumption DEF Commits, IInv, LogOrdered
<1>5. LogOrdered'
  <2>1. \A i \in DOMAIN log' : log'[i].at \in Nat /\ log'[i].at <= now
    BY <1>1, <1>2, <1>4
  <2>2. \A i \in DOMAIN log' : log'[i].at <= now'
    BY <2>1, <1>1
  <2>3. ASSUME NEW i \in DOMAIN log', NEW j \in DOMAIN log', i < j PROVE log'[i].at <= log'[j].at
    <3>1. CASE j \in DOMAIN log
      <4>1. i \in DOMAIN log
        BY <3>1, <2>3, <1>1, <1>3
      <4> QED
        BY <4>1, <3>1, <2>3, <1>2 DEF IInv, LogOrdered
    <3>2. CASE j = Len(log) + 1 /\ log'[j].at = now
      BY <3>2, <2>1
    <3> QED
      BY <3>1, <3>2, <1>2
  <2> QED
    BY <2>2, <2>3 DEF LogOrdered
<1>6. \A i, j \in DOMAIN log' : log'[i].ev = log'[j].ev => i = j
  <2>1. \A i, j \in DOMAIN log : log[i].ev = log[j].ev => i = j
    BY DEF IInv, TypeOK
  <2>2. CASE log' = log
    BY <2>1, <2>2
  <2>3. ASSUME NEW e \in Events, e \notin StoredIn(Len(log)), log' = Append(log, [ev |-> e, at |-> now])
        PROVE  \A i, j \in DOMAIN log' : log'[i].ev = log'[j].ev => i = j
    <3>1. Len(log') = Len(log) + 1 /\ log'[Len(log) + 1].ev = e
      BY <2>3, <1>1
    <3>2. \A i \in DOMAIN log : log'[i].ev # e
      BY <2>3, <1>1, <1>2 DEF StoredIn
    <3> QED
      BY <3>1, <3>2, <2>1, <1>2
  <2> QED
    BY <2>2, <2>3 DEF LogStep, Stored
<1>7. StoredIn(Len(log)) \subseteq StoredIn(Len(log))'
  <2>1. \A i \in 1..Len(log) : i \in 1..Len(log') /\ log'[i] = log[i]
    BY <1>1, <1>2, <1>3
  <2> QED
    BY <2>1 DEF StoredIn
<1> QED
  BY <1>5, <1>6, <1>7

\* What is stored is stored afterwards.
LEMMA StoredThen ==
    ASSUME TypeOK, NEW e \in Events, Stored(e)
    PROVE  e \in StoredIn(Len(log))'
PROOF
<1>1. log \in Seq(Commits) /\ Len(log) \in Nat
  BY DEF TypeOK
<1>2. CASE e \in StoredIn(Len(log)) /\ log' = log
  BY <1>2 DEF StoredIn
<1>3. CASE log' = Append(log, [ev |-> e, at |-> now])
  <2>1. Len(log') = Len(log) + 1 /\ log'[Len(log) + 1].ev = e
    BY <1>1, <1>3
  <2>2. Len(log) + 1 \in 1..Len(log')
    BY <1>1, <2>1
  <2> QED
    BY <2>1, <2>2 DEF StoredIn
<1> QED
  BY <1>2, <1>3 DEF Stored
\* Steps that leave the LRU, the fills and the last answer alone.
LEMMA LogAndClock ==
    ASSUME IInv, LogStep, UNCHANGED <<lru, fill, got, acked>>, now' \in 0..MaxTime, now <= now',
           purging' \in [Writers -> Events \cup {NoEvent}],
           \A w \in Writers : purging'[w] # NoEvent => purging'[w] \in StoredIn(Len(log))',
           \A r \in Readers : fill[r].pc = "add" => now' <= fill[r].since + MaxFill
    PROVE  IInv'
PROOF
<1>t. TypeOK /\ AckedStored /\ now' \in Nat
  BY DEF IInv
<1>1. TypeOK'
  <2>1. log' \in Seq(Commits)
    BY <1>t, LogGrows
  <2>2. \A i, j \in DOMAIN log' : log'[i].ev = log'[j].ev => i = j
    BY <1>t, LogKept
  <2> QED
    BY <1>t, <2>1, <2>2 DEF TypeOK
<1>2. LogOrdered'
  BY <1>t, LogKept
<1>3. AckedStored'
  <2>1. acked' \subseteq StoredIn(Len(log))'
    BY <1>t, LogKept DEF IInv, AckedStored
  <2> QED
    BY <2>1 DEF AckedStored
<1>4. ASSUME NEW r \in Readers PROVE FillFounded(fill[r])'
  <2>1. PICK f : f = fill[r]
    OBVIOUS
  <2>2. f \in Fills /\ FillFounded(f)
    BY <2>1, <1>t DEF TypeOK, IInv
  <2>3. FillFounded(f)'
    BY <2>1, <2>2, <1>t, FillKept
  <2> QED
    BY <2>1, <2>3
<1>5. ASSUME NEW i \in DOMAIN lru' PROVE EntryFounded(lru[i])'
  <2>1. PICK x : x = lru[i]
    OBVIOUS
  <2>2. x \in Entries /\ EntryFounded(x)
    BY <2>1, <1>t DEF TypeOK, IInv
  <2>3. EntryFounded(x)'
    BY <2>2, <1>t, EntryKept
  <2> QED
    BY <2>1, <2>3
<1>6. (got.at <= now)' /\ ReadsRecentSnapshot'
  BY <1>t, AnswerKept
<1> QED
  BY <1>1, <1>2, <1>3, <1>4, <1>5, <1>6 DEF IInv

\* Steps of the cache: the repository and the clock stand still, the entries are old ones or
\* founded, and so are the fills.
LEMMA CacheStep ==
    ASSUME IInv, UNCHANGED <<log, purging, acked, now>>,
           lru' \in Seq(Entries), Len(lru') <= Capacity, OneForAKey(lru'),
           \A i \in DOMAIN lru' : EntryFounded(lru'[i]) \/ \E h \in DOMAIN lru : lru'[i] = lru[h],
           fill' \in [Readers -> Fills],
           \A r \in Readers : FillFounded(fill'[r]) \/ fill'[r] = fill[r],
           got' \in [key : Keys \cup {NoKey}, items : SUBSET Events, at : 0..MaxTime],
           (got.at <= now)', ReadsRecentSnapshot'
    PROVE  IInv'
PROOF
<1>t. TypeOK /\ AckedStored /\ LogStep /\ now' \in Nat /\ now <= now' /\ now \in Nat
  BY DEF IInv, TypeOK, LogStep
<1>1. ASSUME NEW i \in DOMAIN lru' PROVE EntryFounded(lru[i])'
  <2>1. PICK x : x = lru'[i]
    OBVIOUS
  <2>2. x \in Entries /\ EntryFounded(x)
    BY <2>1, <1>t DEF TypeOK, IInv
  <2>3. EntryFounded(x)'
    BY <2>2, <1>t, EntryKept
  <2> QED
    BY <2>1, <2>3
<1>2. ASSUME NEW r \in Readers PROVE FillFounded(fill[r])'
  <2>1. PICK f : f = fill'[r]
    OBVIOUS
  <2>2. f \in Fills /\ FillFounded(f)
    BY <2>1 DEF IInv
  <2>3. f.pc = "add" => now' <= f.since + MaxFill
    BY <2>2 DEF FillFounded
  <2>4. FillFounded(f)'
    BY <2>2, <2>3, <1>t, FillKept
  <2> QED
    BY <2>1, <2>4
<1>3. \A i \in DOMAIN lru' : Cardinality(lru'[i].items) <= Limit
  <2> SUFFICES ASSUME NEW i \in DOMAIN lru' PROVE Cardinality(lru'[i].items) <= Limit
    OBVIOUS
  <2>1. CASE EntryFounded(lru'[i])
    <3>1. PICK k, items, t : k = lru'[i].key /\ items = lru'[i].items /\ t = lru'[i].expires - TTL - MaxFill
      OBVIOUS
    <3>2. lru'[i] \in Entries
      OBVIOUS
    <3>3. k \in Keys /\ t \in Int
      BY <3>1, <3>2, ChangeCacheAssumption DEF Entries
    <3>4. Snapshot(k, items, t)
      BY <3>1, <2>1 DEF EntryFounded
    <3> QED
      BY <3>1, <3>3, <3>4, <1>t, SnapshotBounded
  <2>2. CASE \E h \in DOMAIN lru : lru'[i] = lru[h]
    BY <2>2, <1>t DEF TypeOK
  <2> QED
    BY <2>1, <2>2
<1>4. TypeOK'
  BY <1>t, <1>3 DEF TypeOK, OneForAKey
<1>5. LogOrdered' /\ AckedStored'
  BY DEF IInv, LogOrdered, AckedStored, StoredIn
<1> QED
  BY <1>1, <1>2, <1>4, <1>5 DEF IInv

\* One case for each action.
LEMMA NextIInv == IInv /\ [Next]_vars => IInv'
PROOF
<1> SUFFICES ASSUME IInv, [Next]_vars PROVE IInv'
  OBVIOUS
<1> USE ChangeCacheAssumption
<1>t. /\ TypeOK /\ now \in 0..MaxTime /\ now \in Nat /\ now <= now
      /\ lru \in Seq(Entries) /\ Len(lru) \in Nat /\ Len(lru) <= Capacity /\ OneForAKey(lru)
      /\ fill \in [Readers -> Fills]
  BY DEF IInv, TypeOK, OneForAKey
<1>f. \A r \in Readers : fill[r].pc = "add" => now <= fill[r].since + MaxFill
  BY DEF IInv, FillFounded
<1>i. Idle \in Fills /\ FillFounded(Idle)
  BY DEF Idle, Fills, FillFounded
<1>1. ASSUME NEW w \in Writers, NEW e \in Events, Ingest(w, e) PROVE IInv'
  <2>1. /\ purging' = [purging EXCEPT ![w] = e] /\ Stored(e)
        /\ UNCHANGED <<lru, fill, got, acked, now>>
    BY <1>1 DEF Ingest
  <2>2. LogStep
    BY <2>1 DEF LogStep
  <2>3. StoredIn(Len(log)) \subseteq StoredIn(Len(log))' /\ e \in StoredIn(Len(log))'
    BY <2>1, <2>2, <1>t, LogKept, StoredThen
  <2>4. purging' \in [Writers -> Events \cup {NoEvent}]
    BY <2>1, <1>t DEF TypeOK
  <2>5. \A v \in Writers : purging'[v] # NoEvent => purging'[v] \in StoredIn(Len(log))'
    BY <2>1, <2>3, <1>t DEF TypeOK, IInv, AckedStored
  <2> QED
    BY <2>1, <2>2, <2>4, <2>5, <1>t, <1>f, LogAndClock
<1>2. ASSUME NEW e \in Events, IngestUnseen(e) PROVE IInv'
  <2>1. Stored(e) /\ UNCHANGED <<lru, purging, fill, got, acked, now>>
    BY <1>2 DEF IngestUnseen
  <2>2. LogStep
    BY <2>1 DEF LogStep
  <2>3. StoredIn(Len(log)) \subseteq StoredIn(Len(log))'
    BY <2>1, <2>2, <1>t, LogKept
  <2>4. /\ purging' \in [Writers -> Events \cup {NoEvent}]
        /\ \A v \in Writers : purging'[v] # NoEvent => purging'[v] \in StoredIn(Len(log))'
    BY <2>1, <2>3, <1>t DEF TypeOK, IInv, AckedStored
  <2> QED
    BY <2>1, <2>2, <2>4, <1>t, <1>f, LogAndClock
<1>3. CASE Tick
  <2>1. /\ now < MaxTime /\ now' = now + 1 /\ UNCHANGED <<log, lru, purging, fill, got, acked>>
        /\ \A r \in Readers : fill[r].pc = "add" => now - fill[r].since < MaxFill
    BY <1>3 DEF Tick
  <2>2. LogStep
    BY <2>1 DEF LogStep
  <2>3. /\ purging' \in [Writers -> Events \cup {NoEvent}]
        /\ \A v \in Writers : purging'[v] # NoEvent => purging'[v] \in StoredIn(Len(log))'
    BY <2>1, <1>t DEF TypeOK, IInv, AckedStored, StoredIn
  <2>4. \A r \in Readers : fill[r].pc = "add" => now' <= fill[r].since + MaxFill
    <3>1. \A r \in Readers : fill[r].since \in Nat
      BY <1>t DEF Fills
    <3> QED
      BY <3>1, <2>1, <1>t
  <2>5. now' \in 0..MaxTime /\ now <= now'
    BY <2>1, <1>t
  <2> QED
    BY <2>1, <2>2, <2>3, <2>4, <2>5, LogAndClock
<1>4. ASSUME NEW w \in Writers, Purge(w) PROVE IInv'
  <2>1. /\ purging[w] # NoEvent /\ lru' = <<>> /\ acked' = acked \cup {purging[w]}
        /\ fill' = [r \in Readers |-> [fill[r] EXCEPT !.late = fill[r].pc = "add"]]
        /\ purging' = [purging EXCEPT ![w] = NoEvent]
        /\ UNCHANGED <<log, got, now>>
    BY <1>4 DEF Purge
  <2>2. lru' \in Seq(Entries) /\ DOMAIN lru' = {} /\ Len(lru') = 0
    BY <2>1
  <2>3. ASSUME NEW r \in Readers
        PROVE  /\ fill'[r] \in Fills /\ fill'[r].pc = fill[r].pc /\ fill'[r].key = fill[r].key
               /\ fill'[r].items = fill[r].items /\ fill'[r].since = fill[r].since
               /\ fill'[r].late = (fill[r].pc = "add")
    BY <2>1, <1>t DEF Fills
  <2>4. fill' \in [Readers -> Fills]
    BY <2>1, <2>3
  <2>5. purging[w] \in Events /\ purging' \in [Writers -> Events \cup {NoEvent}]
    BY <2>1, <1>t DEF TypeOK
  <2>6. TypeOK'
    BY <2>1, <2>2, <2>4, <2>5, <1>t DEF TypeOK
  <2>7. LogOrdered' /\ AckedStored'
    <3>1. \A v \in Writers : purging'[v] # NoEvent => purging'[v] = purging[v]
      BY <2>1, <1>t DEF TypeOK
    <3> QED
      BY <2>1, <3>1 DEF IInv, LogOrdered, AckedStored, StoredIn
  <2>8. ASSUME NEW r \in Readers PROVE FillFounded(fill[r])'
    <3>1. FillFounded(fill[r])
      BY DEF IInv
    <3>2. CASE fill[r].pc # "add"
      BY <3>1, <3>2, <2>3 DEF FillFounded
    <3>3. CASE fill[r].pc = "add"
      <4>1. PICK k, items, t : k = fill[r].key /\ items = fill[r].items /\ t = fill[r].since
        OBVIOUS
      <4>2. t \in Int /\ t <= now /\ Snapshot(k, items, t)
        BY <4>1, <3>1, <3>3, <1>t DEF FillFounded, Fills
      <4>3. LogStep
        BY <2>1 DEF LogStep
      <4>4. Snapshot(k, items, t)'
        BY <4>2, <4>3, <1>t, SnapshotKept
      <4>5. Snapshot(fill[r].key, fill[r].items, fill[r].since)'
        BY <4>1, <4>4, <2>3
      <4> QED
        BY <4>5, <3>1, <3>3, <2>1, <2>3 DEF FillFounded
    <3> QED
      BY <3>2, <3>3
  <2>9. (got.at <= now)' /\ ReadsRecentSnapshot'
    <3>1. LogStep
      BY <2>1 DEF LogStep
    <3> QED
      BY <3>1, <2>1, <1>t, AnswerKept
  <2> QED
    BY <2>2, <2>6, <2>7, <2>8, <2>9 DEF IInv
<1>5. ASSUME NEW r \in Readers, NEW k \in Keys, Get(r, k) PROVE IInv'
  <2>1. UNCHANGED <<log, purging, acked, now>>
    BY <1>5 DEF Get
  <2>2. ASSUME NEW i \in DOMAIN lru, Live(lru[i], k), lru' = <<lru[i]>> \o RemoveAt(lru, i),
               Answer(k, lru[i].items), fill' = fill
        PROVE  IInv'
    <3>1. PICK x \in Entries : x = lru[i]
      BY <1>t
    <3>2. PICK s : s = RemoveAt(lru, i)
      OBVIOUS
    <3>3. /\ s \in Seq(Entries) /\ Len(s) = Len(lru) - 1 /\ OneForAKey(s)
          /\ \A j \in DOMAIN s : \E h \in DOMAIN lru : s[j] = lru[h] /\ lru[h].key # x.key
      <4>1. /\ RemoveAt(lru, i) \in Seq(Entries) /\ Len(RemoveAt(lru, i)) = Len(lru) - 1
            /\ OneForAKey(RemoveAt(lru, i))
            /\ \A j \in DOMAIN RemoveAt(lru, i) :
                   \E h \in DOMAIN lru : RemoveAt(lru, i)[j] = lru[h] /\ lru[h].key # lru[i].key
        BY <1>t, WithoutEntry
      <4> QED
        BY <4>1, <3>1, <3>2
    <3>4. /\ lru' \in Seq(Entries) /\ Len(lru') = Len(s) + 1 /\ OneForAKey(lru')
          /\ \A j \in DOMAIN lru' : lru'[j] = x \/ \E h \in DOMAIN s : lru'[j] = s[h]
      <4>1. (\A j \in DOMAIN s : s[j].key # x.key) /\ lru' = <<x>> \o s
        BY <2>2, <3>1, <3>2, <3>3
      <4>2. /\ <<x>> \o s \in Seq(Entries) /\ Len(<<x>> \o s) = Len(s) + 1 /\ OneForAKey(<<x>> \o s)
            /\ \A j \in DOMAIN (<<x>> \o s) : (<<x>> \o s)[j] = x \/ \E h \in DOMAIN s : (<<x>> \o s)[j] = s[h]
        BY <4>1, <3>3, PutInFront
      <4> QED
        BY <4>1, <4>2
    <3>5. \A j \in DOMAIN lru' : \E h \in DOMAIN lru : lru'[j] = lru[h]
      BY <3>1, <3>3, <3>4
    <3>6. Len(lru') <= Capacity
      BY <3>3, <3>4, <1>t
    <3>7. x.key = k /\ now <= x.expires /\ x.expires \in Nat
      BY <2>2, <3>1 DEF Live, Entries
    <3>8. Snapshot(k, x.items, x.expires - TTL - MaxFill)
      BY <3>1, <3>7 DEF IInv, EntryFounded
    <3>9. PICK t, u, items : t = x.expires - TTL - MaxFill /\ u = now - TTL - MaxFill /\ items = x.items
      OBVIOUS
    <3>10. t \in Int /\ u \in Int /\ u <= t
      BY <3>7, <3>9, <1>t
    <3>11. Snapshot(k, items, u)
      BY <3>8, <3>9, <3>10, <1>t, SnapshotEarlier
    <3>12. items \in SUBSET Events /\ Answer(k, items)
      BY <3>1, <3>9, <2>2 DEF Entries
    <3>13. /\ got' \in [key : Keys \cup {NoKey}, items : SUBSET Events, at : 0..MaxTime]
           /\ (got.at <= now)' /\ ReadsRecentSnapshot'
      BY <3>9, <3>11, <3>12, <2>1, AnswerRecent
    <3> QED
      BY <3>4, <3>5, <3>6, <3>13, <2>1, <2>2, <1>t, CacheStep
  <2>3. ASSUME fill' = [fill EXCEPT ![r] = [Idle EXCEPT !.pc = "query", !.key = k]], UNCHANGED <<lru, got>>
        PROVE  IInv'
    <3>1. PICK f : f = [Idle EXCEPT !.pc = "query", !.key = k]
      OBVIOUS
    <3>a. f = [pc |-> "query", key |-> k, items |-> {}, since |-> 0, late |-> FALSE]
      BY <3>1 DEF Idle
    <3>2. f \in Fills /\ FillFounded(f)
      BY <3>a DEF Fills, FillFounded
    <3>3. fill' \in [Readers -> Fills] /\ \A q \in Readers : FillFounded(fill'[q]) \/ fill'[q] = fill[q]
      BY <2>3, <3>1, <3>2, <1>t
    <3>4. (got.at <= now)' /\ ReadsRecentSnapshot'
      <4>1. LogStep
        BY <2>1 DEF LogStep
      <4> QED
        BY <4>1, <2>1, <2>3, <1>t, AnswerKept
    <3> QED
      BY <3>3, <3>4, <2>1, <2>3, <1>t, CacheStep DEF TypeOK
  <2> QED
    BY <1>5, <2>2, <2>3 DEF Get
<1>6. ASSUME NEW r \in Readers, QueryTimeline(r) \/ QueryFails(r) PROVE IInv'
  <2>1. UNCHANGED <<log, lru, purging, got, acked, now>> /\ fill[r].pc = "query"
    BY <1>6 DEF QueryTimeline, QueryFails
  <2>2. LogStep
    BY <2>1 DEF LogStep
  <2>3. PICK k \in Keys : k = fill[r].key /\ ~fill[r].late
    BY <2>1 DEF IInv, FillFounded
  <2>4. PICK S : S = Selected(k, StoredIn(Len(log)))
    OBVIOUS
  <2>5. Len(log) \in 0..Len(log) /\ Len(log) \in Nat
    BY <1>t DEF TypeOK
  <2>6. StoredIn(Len(log)) \in SUBSET Events /\ IsFiniteSet(StoredIn(Len(log)))
    BY <2>5, <1>t, StoredInFinite
  <2>7. PICK M \in SUBSET Events : M = StoredIn(Len(log))
    BY <2>6
  <2>8. S = Selected(k, M) /\ IsFiniteSet(M)
    BY <2>4, <2>6, <2>7
  <2>9. S \subseteq M
    BY <2>8, SelectedBounded
  <2>10. CASE QueryTimeline(r)
    <3>1. PICK f \in Fills : /\ f.pc = "add" /\ f.key = k /\ f.items = S /\ f.since = now /\ f.late = fill[r].late
                             /\ fill' = [fill EXCEPT ![r] = f]
      <4>1. fill[r] \in Fills
        BY <1>t
      <4>2. [fill[r] EXCEPT !.pc = "add", !.since = now, !.items = S] \in Fills
        BY <4>1, <2>7, <2>9, <1>t DEF Fills
      <4>3. fill' = [fill EXCEPT ![r] = [fill[r] EXCEPT !.pc = "add", !.since = now, !.items = S]]
        BY <2>10, <2>3, <2>4, <1>t DEF QueryTimeline
      <4> QED
        BY <4>1, <4>2, <4>3, <2>3 DEF Fills
    <3>2. FillFounded(f)
      <4>1. Snapshot(k, S, now)
        <5>1. CommittedBefore(now) \in Nat /\ CommittedBefore(now) <= Len(log)
          <6>1. now \in Int
            BY <1>t
          <6> QED
            BY <6>1, <1>t, CommittedMonotone
        <5>2. Len(log) \in CommittedBefore(now)..Len(log)
          BY <5>1, <2>5
        <5> QED
          BY <5>2, <2>4 DEF Snapshot
      <4>2. Complete(k, S)
        BY <2>4 DEF Complete
      <4>3. f.since <= now /\ now <= f.since + MaxFill
        BY <3>1, <1>t
      <4> QED
        BY <4>1, <4>2, <4>3, <3>1 DEF FillFounded
    <3>3. fill' \in [Readers -> Fills] /\ \A q \in Readers : FillFounded(fill'[q]) \/ fill'[q] = fill[q]
      BY <3>1, <3>2, <1>t
    <3>4. (got.at <= now)' /\ ReadsRecentSnapshot'
      BY <2>1, <2>2, <1>t, AnswerKept
    <3> QED
      BY <3>3, <3>4, <2>1, <1>t, CacheStep DEF TypeOK
  <2>11. CASE QueryFails(r)
    <3>1. fill' \in [Readers -> Fills] /\ \A q \in Readers : FillFounded(fill'[q]) \/ fill'[q] = fill[q]
      BY <2>11, <1>i, <1>t DEF QueryFails
    <3>2. (got.at <= now)' /\ ReadsRecentSnapshot'
      BY <2>1, <2>2, <1>t, AnswerKept
    <3> QED
      BY <3>1, <3>2, <2>1, <1>t, CacheStep DEF TypeOK
  <2> QED
    BY <1>6, <2>10, <2>11
<1>7. ASSUME NEW r \in Readers, Add(r) PROVE IInv'
  <2>1. PICK f \in Fills : f = fill[r] /\ f.pc = "add" /\ FillFounded(f)
    BY <1>7, <1>t DEF Add, IInv
  <2>2. PICK x : x = [key |-> f.key, items |-> f.items, expires |-> now + TTL, late |-> f.late]
    OBVIOUS
  <2>3. x.key = f.key /\ x.items = f.items /\ x.expires = now + TTL /\ x.late = f.late
    BY <2>2
  <2>4. x \in Entries
    <3>1. f.key \in Keys /\ f.items \in SUBSET Events /\ f.late \in BOOLEAN /\ now + TTL \in 0..(MaxTime + TTL)
      BY <2>1, <1>t DEF FillFounded, Fills
    <3> QED
      BY <3>1, <2>2 DEF Entries
  <2>5. /\ UNCHANGED <<log, purging, acked, now>> /\ fill' = [fill EXCEPT ![r] = Idle]
        /\ Answer(f.key, f.items)
        /\ \/ \E i \in DOMAIN lru : lru[i].key = x.key /\ lru' = <<x>> \o RemoveAt(lru, i)
           \/ /\ \A i \in DOMAIN lru : lru[i].key # x.key
              /\ lru' = <<x>> \o (IF Len(lru) = Capacity THEN Front(lru) ELSE lru)
    BY <1>7, <2>1, <2>2 DEF Add
  <2>6. PICK k \in Keys, items \in SUBSET Events, t \in Int :
            k = f.key /\ items = f.items /\ t = f.since /\ t <= now /\ now <= t + MaxFill /\ Snapshot(k, items, t)
    BY <2>1 DEF FillFounded, Fills
  <2>7. PICK u, v : u = now + TTL - TTL - MaxFill /\ v = now - TTL - MaxFill
    OBVIOUS
  <2>8. u \in Int /\ v \in Int /\ u <= t /\ v <= t
    BY <2>6, <2>7, <1>t
  <2>9. Snapshot(k, items, u) /\ Snapshot(k, items, v)
    BY <2>6, <2>8, <1>t, SnapshotEarlier
  <2>10. EntryFounded(x)
    <3>1. Snapshot(x.key, x.items, x.expires - TTL - MaxFill)
      <4>1. x.expires - TTL - MaxFill = u
        BY <2>3, <2>7, <1>t
      <4>2. x.key = k /\ x.items = items
        BY <2>3, <2>6
      <4> QED
        BY <4>1, <4>2, <2>9, Zenon
    <3>2. ~x.late => Complete(x.key, x.items)
      BY <2>1, <2>3 DEF FillFounded
    <3>3. x.expires <= now + TTL
      BY <2>3, <1>t
    <3> QED
      BY <3>1, <3>2, <3>3 DEF EntryFounded
  <2>11. /\ got' \in [key : Keys \cup {NoKey}, items : SUBSET Events, at : 0..MaxTime]
         /\ (got.at <= now)' /\ ReadsRecentSnapshot'
    <3>1. Answer(k, items) /\ Snapshot(k, items, now - TTL - MaxFill)
      BY <2>5, <2>6, <2>7, <2>9
    <3> QED
      BY <3>1, <2>5, AnswerRecent
  <2>12. /\ lru' \in Seq(Entries) /\ Len(lru') <= Capacity /\ OneForAKey(lru')
         /\ \A j \in DOMAIN lru' : lru'[j] = x \/ \E h \in DOMAIN lru : lru'[j] = lru[h]
    <3>1. ASSUME NEW s \in Seq(Entries), OneForAKey(s), Len(s) < Capacity, lru' = <<x>> \o s,
                 \A j \in DOMAIN s : \E h \in DOMAIN lru : s[j] = lru[h] /\ lru[h].key # x.key
          PROVE  /\ lru' \in Seq(Entries) /\ Len(lru') <= Capacity /\ OneForAKey(lru')
                 /\ \A j \in DOMAIN lru' : lru'[j] = x \/ \E h \in DOMAIN lru : lru'[j] = lru[h]
      <4>1. /\ lru' \in Seq(Entries) /\ Len(lru') = Len(s) + 1 /\ OneForAKey(lru')
            /\ \A j \in DOMAIN lru' : lru'[j] = x \/ \E h \in DOMAIN s : lru'[j] = s[h]
        BY <3>1, <2>4, PutInFront
      <4>2. Len(s) \in Nat
        BY <3>1
      <4>3. Len(lru') <= Capacity
        BY <4>1, <4>2, <3>1
      <4> QED
        BY <4>1, <4>3, <3>1
    <3>2. ASSUME NEW i \in DOMAIN lru, lru[i].key = x.key, lru' = <<x>> \o RemoveAt(lru, i)
          PROVE  \E s \in Seq(Entries) :
                     /\ OneForAKey(s) /\ Len(s) < Capacity /\ lru' = <<x>> \o s
                     /\ \A j \in DOMAIN s : \E h \in DOMAIN lru : s[j] = lru[h] /\ lru[h].key # x.key
      <4>1. PICK s : s = RemoveAt(lru, i)
        OBVIOUS
      <4>2. /\ s \in Seq(Entries) /\ Len(s) = Len(lru) - 1 /\ OneForAKey(s)
            /\ \A j \in DOMAIN s : \E h \in DOMAIN lru : s[j] = lru[h] /\ lru[h].key # x.key
        BY <4>1, <3>2, <1>t, WithoutEntry
      <4>3. Len(s) < Capacity
        BY <4>2, <1>t
      <4> QED
        BY <4>1, <4>2, <4>3, <3>2
    <3>3. ASSUME \A i \in DOMAIN lru : lru[i].key # x.key,
                 lru' = <<x>> \o (IF Len(lru) = Capacity THEN Front(lru) ELSE lru)
          PROVE  \E s \in Seq(Entries) :
                     /\ OneForAKey(s) /\ Len(s) < Capacity /\ lru' = <<x>> \o s
                     /\ \A j \in DOMAIN s : \E h \in DOMAIN lru : s[j] = lru[h] /\ lru[h].key # x.key
      <4>1. CASE Len(lru) = Capacity
        <5>1. PICK s : s = Front(lru)
          OBVIOUS
        <5>2. /\ s \in Seq(Entries) /\ Len(s) = Len(lru) - 1 /\ OneForAKey(s)
              /\ \A j \in DOMAIN s : \E h \in DOMAIN lru : s[j] = lru[h]
          <6>1. Len(lru) > 0
            BY <4>1, <1>t
          <6> QED
            BY <6>1, <5>1, <1>t, WithoutLast
        <5>3. Len(s) < Capacity
          BY <5>2, <4>1
        <5>4. lru' = <<x>> \o s
          BY <5>1, <4>1, <3>3
        <5>5. \A j \in DOMAIN s : \E h \in DOMAIN lru : s[j] = lru[h] /\ lru[h].key # x.key
          BY <5>2, <3>3
        <5> QED
          BY <5>2, <5>3, <5>4, <5>5
      <4>2. CASE Len(lru) # Capacity
        <5>1. Len(lru) < Capacity
          BY <4>2, <1>t
        <5> QED
          BY <5>1, <4>2, <3>3, <1>t
      <4> QED
        BY <4>1, <4>2
    <3>4. \E s \in Seq(Entries) :
              /\ OneForAKey(s) /\ Len(s) < Capacity /\ lru' = <<x>> \o s
              /\ \A j \in DOMAIN s : \E h \in DOMAIN lru : s[j] = lru[h] /\ lru[h].key # x.key
      BY <2>5, <3>2, <3>3
    <3> QED
      BY <3>1, <3>4
  <2>13. \A j \in DOMAIN lru' : EntryFounded(lru'[j]) \/ \E h \in DOMAIN lru : lru'[j] = lru[h]
    BY <2>10, <2>12
  <2>14. fill' \in [Readers -> Fills] /\ \A q \in Readers : FillFounded(fill'[q]) \/ fill'[q] = fill[q]
    BY <2>5, <1>i, <1>t
  <2> QED
    BY <2>5, <2>11, <2>12, <2>13, <2>14, CacheStep
<1>8. CASE deleteExpired
  <2>1. PICK i \in DOMAIN lru : lru' = RemoveAt(lru, i)
    BY <1>8 DEF deleteExpired
  <2>2. UNCHANGED <<log, purging, fill, got, acked, now>>
    BY <1>8 DEF deleteExpired
  <2>3. /\ lru' \in Seq(Entries) /\ Len(lru') = Len(lru) - 1 /\ OneForAKey(lru')
        /\ \A j \in DOMAIN lru' : \E h \in DOMAIN lru : lru'[j] = lru[h]
    BY <2>1, <1>t, WithoutEntry
  <2>4. Len(lru') <= Capacity
    BY <2>3, <1>t
  <2>5. (got.at <= now)' /\ ReadsRecentSnapshot'
    <3>1. LogStep
      BY <2>2 DEF LogStep
    <3> QED
      BY <3>1, <2>2, <1>t, AnswerKept
  <2> QED
    BY <2>2, <2>3, <2>4, <2>5, <1>t, CacheStep DEF TypeOK
<1>9. CASE UNCHANGED vars
  <2>1. LogStep /\ UNCHANGED <<lru, fill, got, acked, purging, now>>
    BY <1>9 DEF vars, LogStep
  <2>2. /\ purging' \in [Writers -> Events \cup {NoEvent}]
        /\ \A v \in Writers : purging'[v] # NoEvent => purging'[v] \in StoredIn(Len(log))'
    BY <1>9, <1>t DEF vars, TypeOK, IInv, AckedStored, StoredIn
  <2> QED
    BY <2>1, <2>2, <1>t, <1>f, LogAndClock
<1> QED
  BY <1>1, <1>2, <1>3, <1>4, <1>5, <1>6, <1>7, <1>8, <1>9 DEF Next

\* The cache never grows beyond its capacity, holds one entry for a key, and no answer is
\* longer than the limit of the query.
THEOREM CacheTypeOK == Spec => []TypeOK
PROOF
<1>1. IInv => TypeOK
  BY DEF IInv
<1> QED
  BY <1>1, InitIInv, NextIInv, PTL DEF Spec

\* Every answer is the repository's at one moment, TTL and one fill ago at the most.
THEOREM AnswersRecent == Spec => []ReadsRecentSnapshot
PROOF
<1>1. IInv => ReadsRecentSnapshot
  BY DEF IInv
<1> QED
  BY <1>1, InitIInv, NextIInv, PTL DEF Spec

\* Without the race of a fill with a purge no entry hides an event whose ingest was answered
\* and that the query would give now.
THEOREM OnlyRacesHide == Spec => []HiddenOnlyByRace
PROOF
<1>1. IInv => HiddenOnlyByRace
  BY DEF IInv, EntryFounded, HiddenOnlyByRace
<1> QED
  BY <1>1, InitIInv, NextIInv, PTL DEF Spec

-------------------------------------------------------------------------------
(* Changes: events in their order. *)

Timed(E) == E \in SUBSET Catalog /\ IsFiniteSet(E)

\* Time, then id, is a strict total order of the events.
LEMMA EventsOrdered ==
    ASSUME NEW E, Timed(E)
    PROVE  Orders([e \in E |-> {f \in E : Earlier(f, e)}], E)
<1> DEFINE b == [e \in E |-> {f \in E : Earlier(f, e)}]
<1>0. \A e \in E : e \in Catalog /\ e.time \in Nat /\ e.id \in Nat
    BY ChangesAssumption DEF Timed
<1>1. b \in [E -> SUBSET E]
    OBVIOUS
<1>2. \A x, y \in E : x \in b[y] <=> Earlier(x, y)
    OBVIOUS
<1>3. ASSUME NEW x \in E PROVE ~Earlier(x, x)
    BY <1>0 DEF Earlier
<1>4. ASSUME NEW x \in E, NEW y \in E, NEW z \in E, Earlier(z, x), Earlier(x, y)
      PROVE  Earlier(z, y)
    BY <1>0, <1>4 DEF Earlier
<1>5. ASSUME NEW x \in E, NEW y \in E PROVE x = y \/ Earlier(x, y) \/ Earlier(y, x)
    <2>1. x.id = y.id => x = y
        BY <1>0, ChangesAssumption
    <2> QED
        BY <1>0, <2>1 DEF Earlier
<1> HIDE DEF b
<1>6. \A x, y \in E : x \in b[y] => b[x] \subseteq b[y]
    BY <1>1, <1>2, <1>4
<1> QED
    BY <1>1, <1>2, <1>3, <1>5, <1>6 DEF Orders, b

\* The first and the last event of a set, and what they bound.
LEMMA Ends ==
    ASSUME NEW E, Timed(E), E # {}
    PROVE  /\ EarliestOf(E) \in E
           /\ \A e \in E : EarliestOf(E).time <= e.time /\ ~Earlier(e, EarliestOf(E))
           /\ LatestOf(E) \in E /\ \A e \in E : e.time <= LatestOf(E).time
<1> DEFINE b == [e \in E |-> {f \in E : Earlier(f, e)}]
<1>0. \A e \in E : e \in Catalog /\ e.time \in Nat /\ e.id \in Nat
    BY ChangesAssumption DEF Timed
<1>1. /\ \E x \in E : \A y \in E \ {x} : x \in b[y]
      /\ \E x \in E : \A y \in E \ {x} : y \in b[x]
    <2>1. Orders(b, E)
        BY EventsOrdered
    <2> HIDE DEF b
    <2> QED
        BY <2>1, FirstAndLast DEF Timed
<1>2. EarliestOf(E) \in E /\ \A f \in E \ {EarliestOf(E)} : Earlier(EarliestOf(E), f)
    BY <1>1 DEF EarliestOf
<1>3. LatestOf(E) \in E /\ \A f \in E \ {LatestOf(E)} : Earlier(f, LatestOf(E))
    BY <1>1 DEF LatestOf
<1>4. \A e \in E : EarliestOf(E).time <= e.time
    BY <1>0, <1>2 DEF Earlier
<1>5. \A e \in E : e.time <= LatestOf(E).time
    BY <1>0, <1>3 DEF Earlier
<1>6. ASSUME NEW e \in E PROVE ~Earlier(e, EarliestOf(E))
    <2>1. PICK a \in E : a = EarliestOf(E)
        BY <1>2
    <2>2. e = a \/ Earlier(a, e)
        BY <1>2, <2>1
    <2>3. ~Earlier(e, a)
        BY <1>0, <2>2 DEF Earlier
    <2> QED
        BY <2>1, <2>3
<1> QED
    BY <1>2, <1>3, <1>4, <1>5, <1>6

\* The loop of buildChangesByID meets every event of a change once.
LEMMA InOrderLists ==
    ASSUME NEW E, Timed(E)
    PROVE  /\ InOrder(E) \in Seq(E) /\ Len(InOrder(E)) \in Nat
           /\ \A e \in E : \E i \in 1..Len(InOrder(E)) : InOrder(E)[i] = e
           /\ E # {} => Len(InOrder(E)) # 0
<1> DEFINE b == [e \in E |-> {f \in E : Earlier(f, e)}]
<1>1. Lists(SortedBy(b), E, b)
    <2>1. Orders(b, E)
        BY EventsOrdered
    <2> HIDE DEF b
    <2> QED
        BY <2>1, SortedLists DEF Timed
<1>2. PICK s : s = InOrder(E)
    OBVIOUS
<1>3. s = SortedBy(b)
    BY <1>2 DEF InOrder
<1> HIDE DEF b
<1>4. s \in Seq(E) /\ \A e \in E : \E i \in DOMAIN s : s[i] = e
    BY <1>1, <1>3 DEF Lists
<1>5. DOMAIN s = 1..Len(s) /\ Len(s) \in Nat
    BY <1>4
<1> QED
    BY <1>2, <1>4, <1>5

-------------------------------------------------------------------------------
(* Changes: merging event by event. *)

\* A run of a loop over n events: its values before the first and after each event.
IsRun(f, n, V, start, step) ==
    f \in [0..n -> V] /\ f[0] = start /\ \A i \in 1..n : f[i] = step[i][f[i - 1]]

\* Every such loop has a run.
LEMMA RunExists ==
    ASSUME NEW n \in Nat, NEW V, NEW start \in V, NEW step \in [1..n -> [V -> V]]
    PROVE  \E f : IsRun(f, n, V, start, step)
<1> DEFINE Run(f, m) == f \in [0..m -> V] /\ f[0] = start /\ \A i \in 1..m : f[i] = step[i][f[i - 1]]
           Good == {m \in 0..n : \E f : Run(f, m)}
<1>1. 0 \in Good
    <2> DEFINE f == [i \in 0..0 |-> start]
    <2>1. Run(f, 0) /\ 0 \in 0..n
        OBVIOUS
    <2>2. \E g : Run(g, 0)
        <3> HIDE DEF f
        <3> QED
            BY <2>1
    <2> QED
        BY <2>1, <2>2
<1>2. ASSUME NEW m \in 1..n, m - 1 \in Good PROVE m \in Good
    <2>1. PICK f : Run(f, m - 1)
        BY <1>2
    <2> DEFINE g == [i \in 0..m |-> IF i = m THEN step[m][f[m - 1]] ELSE f[i]]
    <2>2. /\ m - 1 \in 0..(m - 1) /\ m \in 0..n
          /\ \A i \in 0..m : i # m => i \in 0..(m - 1)
          /\ \A i \in 1..m : i - 1 \in 0..m /\ i - 1 # m /\ i \in 0..m /\ (i # m => i \in 1..(m - 1))
        OBVIOUS
    <2>3. f[m - 1] \in V /\ step[m] \in [V -> V]
        BY <2>1, <2>2
    <2>4. g \in [0..m -> V]
        <3>1. \A i \in 0..m : g[i] \in V
            BY <2>1, <2>2, <2>3
        <3> QED
            BY <3>1
    <2>5. g[0] = start
        BY <2>1
    <2>6. ASSUME NEW i \in 1..m PROVE g[i] = step[i][g[i - 1]]
        <3>1. g[i - 1] = f[i - 1]
            BY <2>2
        <3>2. CASE i = m
            BY <3>1, <3>2, <2>2
        <3>3. CASE i # m
            BY <3>1, <3>3, <2>1, <2>2
        <3> QED
            BY <3>2, <3>3
    <2> QED
        BY <2>2, <2>4, <2>5, <2>6
<1>3. n \in Good
    <2> HIDE DEF Good
    <2>1. \A m \in 0..n : m \in Good
        BY <1>1, <1>2, UpTo
    <2> QED
        BY <2>1
<1> QED
    BY <1>3 DEF IsRun

Results == {"failed", "succeeded", "unknown"}
Healths == {"healthy", "degraded", "progressing", "missing", "unknown"}

LEMMA EventStatuses == \A e \in Catalog : Result[e] \in Results /\ Health[e] \in Healths
<1>1. ASSUME NEW e \in Catalog PROVE Result[e] \in Results
    BY DEF Result, inferResultStatus, Results
<1>2. ASSUME NEW e \in Catalog PROVE Health[e] \in Healths
    <2>1. Health[e] = inferHealthStatus(e)
        BY DEF Health
    <2> QED
        BY <2>1 DEF inferHealthStatus, Healths
<1> QED
    BY <1>1, <1>2

\* The result of a change is what the loop has after the last event.
LEMMA ResultRun ==
    ASSUME NEW E, Timed(E), NEW es, es = InOrder(E), NEW n, n = Len(es)
    PROVE  \E f : /\ f \in [0..n -> Results] /\ f[0] = "unknown" /\ mergedResult(E) = f[n]
                  /\ \A i \in 1..n : f[i] = mergeResultStatus(f[i - 1], Result[es[i]])
<1>1. n \in Nat /\ es \in Seq(E)
    BY InOrderLists
<1>2. \A i \in 1..n : es[i] \in Catalog /\ Result[es[i]] \in Results
    BY <1>1, EventStatuses DEF Timed
<1> DEFINE step == [i \in 1..n |-> [v \in Results |-> mergeResultStatus(v, Result[es[i]])]]
           Eq(g) == g = [i \in 0..n |-> IF i = 0 THEN "unknown"
                                        ELSE mergeResultStatus(g[i - 1], Result[es[i]])]
<1>3. step \in [1..n -> [Results -> Results]]
    BY <1>2 DEF mergeResultStatus, Results
<1>4a. PICK f : IsRun(f, n, Results, "unknown", step)
    <2>1. "unknown" \in Results
        BY DEF Results
    <2> HIDE DEF step
    <2> QED
        BY <1>1, <1>3, <2>1, RunExists
<1>4. /\ f \in [0..n -> Results] /\ f[0] = "unknown"
      /\ \A i \in 1..n : f[i] = step[i][f[i - 1]]
    <2> HIDE DEF step
    <2> QED
        BY <1>4a DEF IsRun
<1>5. \A i \in 1..n : f[i] = mergeResultStatus(f[i - 1], Result[es[i]])
    <2>1. \A i \in 1..n : i - 1 \in 0..n
        BY <1>1
    <2>2. \A i \in 1..n : f[i - 1] \in Results
        BY <1>4, <2>1
    <2> QED
        BY <1>4, <2>2
<1>6. Eq(f)
    <2>1. \A i \in 0..n : i # 0 => i \in 1..n
        BY <1>1
    <2> QED
        BY <1>4, <1>5, <2>1
<1> DEFINE h == CHOOSE g : Eq(g)
<1>7. Eq(h)
    BY <1>6
<1>8. mergedResult(E) = h[n]
    BY DEF mergedResult
<1> HIDE DEF h
<1>9. h[0] = "unknown" /\ \A i \in 1..n : h[i] = mergeResultStatus(h[i - 1], Result[es[i]])
    BY <1>1, <1>7
<1>10. h \in [0..n -> Results]
    <2>1. ASSUME NEW i \in 0..n PROVE h[i] \in Results
        <3>1. CASE i = 0
            BY <3>1, <1>9 DEF Results
        <3>2. CASE i # 0
            <4>1. i \in 1..n
                BY <3>2, <1>1
            <4> QED
                BY <4>1, <1>9 DEF mergeResultStatus, Results
        <3> QED
            BY <3>1, <3>2
    <2> QED
        BY <1>7, <2>1
<1> QED
    BY <1>8, <1>9, <1>10

\* The health of a change is what the loop has after the last event.
LEMMA HealthRun ==
    ASSUME NEW E, Timed(E), NEW es, es = InOrder(E), NEW n, n = Len(es)
    PROVE  \E f : /\ f \in [0..n -> Healths] /\ f[0] = "unknown" /\ mergedHealth(E) = f[n]
                  /\ \A i \in 1..n : f[i] = mergeHealthStatus(f[i - 1], Health[es[i]])
<1>1. n \in Nat /\ es \in Seq(E)
    BY InOrderLists
<1>2. \A i \in 1..n : es[i] \in Catalog /\ Health[es[i]] \in Healths
    BY <1>1, EventStatuses DEF Timed
<1> DEFINE step == [i \in 1..n |-> [v \in Healths |-> mergeHealthStatus(v, Health[es[i]])]]
           Eq(g) == g = [i \in 0..n |-> IF i = 0 THEN "unknown"
                                        ELSE mergeHealthStatus(g[i - 1], Health[es[i]])]
<1>3. step \in [1..n -> [Healths -> Healths]]
    BY <1>2 DEF mergeHealthStatus, Healths
<1>4a. PICK f : IsRun(f, n, Healths, "unknown", step)
    <2>1. "unknown" \in Healths
        BY DEF Healths
    <2> HIDE DEF step
    <2> QED
        BY <1>1, <1>3, <2>1, RunExists
<1>4. /\ f \in [0..n -> Healths] /\ f[0] = "unknown"
      /\ \A i \in 1..n : f[i] = step[i][f[i - 1]]
    <2> HIDE DEF step
    <2> QED
        BY <1>4a DEF IsRun
<1>5. \A i \in 1..n : f[i] = mergeHealthStatus(f[i - 1], Health[es[i]])
    <2>1. \A i \in 1..n : i - 1 \in 0..n
        BY <1>1
    <2>2. \A i \in 1..n : f[i - 1] \in Healths
        BY <1>4, <2>1
    <2> QED
        BY <1>4, <2>2
<1>6. Eq(f)
    <2>1. \A i \in 0..n : i # 0 => i \in 1..n
        BY <1>1
    <2> QED
        BY <1>4, <1>5, <2>1
<1> DEFINE h == CHOOSE g : Eq(g)
<1>7. Eq(h)
    BY <1>6
<1>8. mergedHealth(E) = h[n]
    BY DEF mergedHealth
<1> HIDE DEF h
<1>9. h[0] = "unknown" /\ \A i \in 1..n : h[i] = mergeHealthStatus(h[i - 1], Health[es[i]])
    BY <1>1, <1>7
<1>10. h \in [0..n -> Healths]
    <2> DEFINE G == {i \in 0..n : h[i] \in Healths}
    <2>0. 0 \in G
        BY <1>1, <1>9 DEF Healths
    <2>1. ASSUME NEW i \in 1..n, i - 1 \in G PROVE i \in G
        <3>1. h[i] = mergeHealthStatus(h[i - 1], Health[es[i]]) /\ h[i - 1] \in Healths /\ i \in 0..n
            BY <1>9, <2>1
        <3> QED
            BY <3>1, <1>2 DEF mergeHealthStatus
    <2>2. \A i \in 0..n : i \in G
        <3> HIDE DEF G
        <3> QED
            BY <1>1, <2>0, <2>1, UpTo
    <2> QED
        BY <1>7, <2>2
<1> QED
    BY <1>8, <1>9, <1>10

\* One failure makes a change failed; it is unknown only if all its events are.
LEMMA ResultMerged ==
    ASSUME NEW E, Timed(E)
    PROVE  /\ E # {} => \E e \in E : Result[e] = mergedResult(E)
           /\ mergedResult(E) = "failed" <=> \E e \in E : Result[e] = "failed"
           /\ mergedResult(E) = "unknown" <=> \A e \in E : Result[e] = "unknown"
<1>1. PICK es, n : es = InOrder(E) /\ n = Len(es)
    OBVIOUS
<1>2. /\ n \in Nat /\ es \in Seq(E)
      /\ \A e \in E : \E i \in 1..n : es[i] = e
    BY <1>1, InOrderLists
<1>3. \A i \in 1..n : es[i] \in E /\ Result[es[i]] \in Results
    BY <1>1, <1>2, EventStatuses DEF Timed
<1>4. PICK f : /\ f \in [0..n -> Results] /\ f[0] = "unknown" /\ mergedResult(E) = f[n]
               /\ \A i \in 1..n : f[i] = mergeResultStatus(f[i - 1], Result[es[i]])
    BY <1>1, ResultRun
<1> DEFINE Failed(i) == \E j \in 1..i : Result[es[j]] = "failed"
           Unknown(i) == \A j \in 1..i : Result[es[j]] = "unknown"
           G == {i \in 0..n : (f[i] = "failed" <=> Failed(i)) /\ (f[i] = "unknown" <=> Unknown(i))}
<1>5. 0 \in G
    BY <1>2, <1>4
<1>6. ASSUME NEW i \in 1..n, i - 1 \in G PROVE i \in G
    <2>0. PICK old, new : old = f[i - 1] /\ new = Result[es[i]]
        OBVIOUS
    <2>1. \A j \in 1..i : j = i \/ j \in 1..(i - 1)
        OBVIOUS
    <2>2. i \in 1..i /\ \A j \in 1..(i - 1) : j \in 1..i
        OBVIOUS
    <2>3. Failed(i) <=> Failed(i - 1) \/ new = "failed"
        BY <2>0, <2>1, <2>2
    <2>4. Unknown(i) <=> Unknown(i - 1) /\ new = "unknown"
        BY <2>0, <2>1, <2>2
    <2>5. (old = "failed" <=> Failed(i - 1)) /\ (old = "unknown" <=> Unknown(i - 1))
        BY <1>6, <2>0
    <2>6. f[i] = mergeResultStatus(old, new) /\ old \in Results /\ new \in Results
        <3>1. i - 1 \in 0..n
            BY <1>2
        <3> QED
            BY <3>1, <1>3, <1>4, <2>0
    <2>7. i \in 0..n
        OBVIOUS
    <2> HIDE DEF Failed, Unknown
    <2>8. /\ f[i] = "failed" <=> old = "failed" \/ new = "failed"
          /\ f[i] = "unknown" <=> old = "unknown" /\ new = "unknown"
        <3>1. CASE old = "failed" \/ new = "failed"
            BY <3>1, <2>6 DEF mergeResultStatus
        <3>2. CASE old # "failed" /\ new # "failed" /\ (old = "succeeded" \/ new = "succeeded")
            BY <3>2, <2>6 DEF mergeResultStatus
        <3>3. CASE old = "unknown" /\ new = "unknown"
            BY <3>3, <2>6 DEF mergeResultStatus
        <3> QED
            BY <3>1, <3>2, <3>3, <2>6 DEF Results
    <2>9. (f[i] = "failed" <=> Failed(i)) /\ (f[i] = "unknown" <=> Unknown(i))
        BY <2>3, <2>4, <2>5, <2>8
    <2> QED
        BY <2>7, <2>9
<1>7. n \in G
    <2> HIDE DEF G
    <2>1. \A i \in 0..n : i \in G
        BY <1>2, <1>5, <1>6, UpTo
    <2> QED
        BY <1>2, <2>1
<1>8. /\ Failed(n) <=> \E e \in E : Result[e] = "failed"
      /\ Unknown(n) <=> \A e \in E : Result[e] = "unknown"
    BY <1>2, <1>3
<1>9. f[n] \in Results /\ \A e \in E : Result[e] \in Results
    BY <1>2, <1>4, EventStatuses DEF Timed
<1> HIDE DEF Failed, Unknown
<1>10. /\ f[n] = "failed" <=> \E e \in E : Result[e] = "failed"
       /\ f[n] = "unknown" <=> \A e \in E : Result[e] = "unknown"
    BY <1>7, <1>8
<1>11. E # {} => \E e \in E : Result[e] = f[n]
    BY <1>9, <1>10 DEF Results
<1> QED
    BY <1>4, <1>10, <1>11

\* One degradation makes a change degraded, else progress covers the other healths, and
\* else its health is that of one of its events.
LEMMA HealthMerged ==
    ASSUME NEW E, Timed(E)
    PROVE  /\ mergedHealth(E) = "degraded" <=> \E e \in E : Health[e] = "degraded"
           /\ mergedHealth(E) = "progressing" <=>
                  (\E e \in E : Health[e] = "progressing") /\ ~\E e \in E : Health[e] = "degraded"
           /\ E # {} => \E e \in E : Health[e] = mergedHealth(E)
<1>1. PICK es, n : es = InOrder(E) /\ n = Len(es)
    OBVIOUS
<1>2. /\ n \in Nat /\ es \in Seq(E) /\ (E # {} => n # 0)
      /\ \A e \in E : \E i \in 1..n : es[i] = e
    BY <1>1, InOrderLists
<1>3. \A i \in 1..n : es[i] \in E /\ Health[es[i]] \in Healths
    BY <1>1, <1>2, EventStatuses DEF Timed
<1>4. PICK f : /\ f \in [0..n -> Healths] /\ f[0] = "unknown" /\ mergedHealth(E) = f[n]
               /\ \A i \in 1..n : f[i] = mergeHealthStatus(f[i - 1], Health[es[i]])
    BY <1>1, HealthRun
<1> DEFINE Has(i, h) == \E j \in 1..i : Health[es[j]] = h
           Good(i) == /\ f[i] = "degraded" <=> Has(i, "degraded")
                      /\ f[i] = "progressing" <=> Has(i, "progressing") /\ ~Has(i, "degraded")
                      /\ f[i] # "unknown" => Has(i, f[i])
                      /\ f[i] = "unknown" => \A j \in 1..i : Health[es[j]] = "unknown"
           G == {i \in 0..n : Good(i)}
<1>5. 0 \in G
    BY <1>2, <1>4
<1>6. ASSUME NEW i \in 1..n, i - 1 \in G PROVE i \in G
    <2>0. PICK old, new : old = f[i - 1] /\ new = Health[es[i]]
        OBVIOUS
    <2>1. \A j \in 1..i : j = i \/ j \in 1..(i - 1)
        OBVIOUS
    <2>2. i \in 1..i /\ \A j \in 1..(i - 1) : j \in 1..i
        OBVIOUS
    <2>3. \A h : Has(i, h) <=> Has(i - 1, h) \/ new = h
        BY <2>0, <2>1, <2>2
    <2>4. /\ old = "degraded" <=> Has(i - 1, "degraded")
          /\ old = "progressing" <=> Has(i - 1, "progressing") /\ ~Has(i - 1, "degraded")
          /\ old # "unknown" => Has(i - 1, old)
          /\ old = "unknown" => \A j \in 1..(i - 1) : Health[es[j]] = "unknown"
        BY <1>6, <2>0
    <2>5. f[i] = mergeHealthStatus(old, new) /\ old \in Healths /\ new \in Healths
        <3>1. i - 1 \in 0..n
            BY <1>2
        <3> QED
            BY <3>1, <1>3, <1>4, <2>0
    <2>6. f[i] = "unknown" => \A j \in 1..i : Health[es[j]] = "unknown"
        <3>1. f[i] = "unknown" => old = "unknown" /\ new = "unknown"
            BY <2>5 DEF mergeHealthStatus, Healths
        <3> QED
            BY <3>1, <2>0, <2>1, <2>4
    <2>7. i \in 0..n
        OBVIOUS
    <2> HIDE DEF Has
    <2>8. /\ f[i] = "degraded" <=> old = "degraded" \/ new = "degraded"
          /\ f[i] = "progressing" <=> (old = "progressing" /\ new # "degraded")
                                      \/ (new = "progressing" /\ old # "degraded")
          /\ f[i] = old \/ f[i] = new
        BY <2>5 DEF mergeHealthStatus, Healths
    <2>9. f[i] # "unknown" => Has(i, f[i])
        BY <2>3, <2>4, <2>8
    <2>10. f[i] = "degraded" <=> Has(i, "degraded")
        BY <2>3, <2>4, <2>8
    <2>11. f[i] = "progressing" <=> Has(i, "progressing") /\ ~Has(i, "degraded")
        BY <2>3, <2>4, <2>8
    <2> QED
        BY <2>6, <2>7, <2>9, <2>10, <2>11
<1>7. n \in G
    <2> HIDE DEF G
    <2>1. \A i \in 0..n : i \in G
        BY <1>2, <1>5, <1>6, UpTo
    <2> QED
        BY <1>2, <2>1
<1>8. \A h : Has(n, h) <=> \E e \in E : Health[e] = h
    BY <1>2, <1>3
<1>9. E # {} /\ f[n] = "unknown" => \E e \in E : Health[e] = "unknown"
    BY <1>2, <1>3, <1>7
<1>10. Good(n)
    BY <1>7
<1> HIDE DEF Has, G
<1> QED
    BY <1>4, <1>8, <1>9, <1>10

-------------------------------------------------------------------------------
(* Changes: the projection. *)

\* What is true of a change, and that more events take nothing of it away.
LEMMA ChangeGrows ==
    ASSUME NEW k, NEW D, NEW E, Timed(E), D \subseteq E, D # {}
    PROVE  AtLeast(buildChange(k, E), buildChange(k, D))
<1>0. Timed(D) /\ E # {}
    BY FS_Subset DEF Timed
<1>1. PICK c, d : c = buildChange(k, D) /\ d = buildChange(k, E)
    OBVIOUS
<1>2. \A e \in E : e.time \in Nat
    BY ChangesAssumption DEF Timed
<1>3. /\ c.events = D /\ d.events = E
      /\ c.result = mergedResult(D) /\ d.result = mergedResult(E)
      /\ c.health = mergedHealth(D) /\ d.health = mergedHealth(E)
      /\ c.meta = [m \in MetaKeys |-> firstMeta(D, m)] /\ d.meta = [m \in MetaKeys |-> firstMeta(E, m)]
      /\ c.hasApprovals = (\E e \in D : approvalsFromData(e) # {})
      /\ d.hasApprovals = (\E e \in E : approvalsFromData(e) # {})
      /\ c.times = finalizeChange(D) /\ d.times = finalizeChange(E)
    BY <1>1 DEF buildChange
<1>4. /\ c.times.started = EarliestOf(D).time /\ c.times.completed = LatestOf(D).time
      /\ d.times.started = EarliestOf(E).time /\ d.times.completed = LatestOf(E).time
    BY <1>3 DEF finalizeChange, CompletedAt
<1>5. d.times.started <= c.times.started /\ d.times.completed >= c.times.completed
    <2>1. EarliestOf(D) \in E /\ LatestOf(D) \in E
        BY <1>0, Ends
    <2>2. LatestOf(E) \in E /\ EarliestOf(E).time <= EarliestOf(D).time /\ LatestOf(D).time <= LatestOf(E).time
        BY <1>0, <2>1, Ends
    <2> QED
        BY <1>2, <1>4, <2>1, <2>2
<1>6. c.result = "failed" => d.result = "failed"
    <2>1. c.result = "failed" => \E e \in D : Result[e] = "failed"
        BY <1>0, <1>3, ResultMerged
    <2> QED
        BY <1>0, <1>3, <2>1, ResultMerged
<1>7. c.result = "succeeded" => d.result # "unknown"
    <2>1. c.result = "succeeded" => \E e \in D : Result[e] # "unknown"
        BY <1>0, <1>3, ResultMerged
    <2> QED
        BY <1>0, <1>3, <2>1, ResultMerged
<1>8. c.health = "degraded" => d.health = "degraded"
    <2>1. c.health = "degraded" => \E e \in D : Health[e] = "degraded"
        BY <1>0, <1>3, HealthMerged
    <2> QED
        BY <1>0, <1>3, <2>1, HealthMerged
<1>9. c.hasApprovals => d.hasApprovals
    BY <1>3
<1>10. ASSUME NEW m \in MetaKeys, c.meta[m] # Blank PROVE d.meta[m] # Blank
    <2> DEFINE with(X) == {e \in X : metaOf(e, m) # Blank}
    <2>1. c.meta[m] = firstMeta(D, m) /\ d.meta[m] = firstMeta(E, m)
        BY <1>3
    <2>2. with(D) # {}
        BY <1>10, <2>1 DEF firstMeta
    <2>3. with(E) # {} /\ with(E) \subseteq E
        BY <2>2
    <2>4. Timed(with(E))
        BY <2>3, FS_Subset DEF Timed
    <2>5. EarliestOf(with(E)) \in with(E)
        <3> HIDE DEF with
        <3> QED
            BY <2>3, <2>4, Ends
    <2>6. d.meta[m] = metaOf(EarliestOf(with(E)), m)
        BY <2>1, <2>3 DEF firstMeta
    <2> QED
        BY <2>5, <2>6
<1>11. AtLeast(d, c)
    BY <1>3, <1>5, <1>6, <1>7, <1>8, <1>9, <1>10 DEF AtLeast
<1> QED
    BY <1>1, <1>11

PartOf(E, k) == {e \in E : ChangeId[e] = k}

\* The map of changes by id.
LEMMA ChangesByID ==
    ASSUME NEW E, Timed(E), NEW m, m = buildChangesByID(E), NEW k
    PROVE  /\ k \in DOMAIN m <=> PartOf(E, k) # {}
           /\ k \in DOMAIN m => k \in ChangeIds /\ m[k] = buildChange(k, PartOf(E, k)) /\ Timed(PartOf(E, k))
<1>1. DOMAIN m = {ChangeId[e] : e \in E}
    BY DEF buildChangesByID
<1>2. k \in DOMAIN m => m[k] = buildChange(k, PartOf(E, k))
    BY DEF buildChangesByID, PartOf
<1>3. k \in DOMAIN m <=> PartOf(E, k) # {}
    BY <1>1 DEF PartOf
<1>4. PartOf(E, k) \subseteq E
    BY DEF PartOf
<1>5. Timed(PartOf(E, k))
    BY <1>4, FS_Subset DEF Timed
<1>6. k \in DOMAIN m => k \in ChangeIds
    BY <1>1 DEF Timed, ChangeIds
<1> QED
    BY <1>2, <1>3, <1>5, <1>6

LEMMA AllGrow ==
    ASSUME NEW D, NEW E, Timed(E), D \subseteq E
    PROVE  AllAtLeast(buildChangesByID(D), buildChangesByID(E))
<1>1. PICK m, n : m = buildChangesByID(D) /\ n = buildChangesByID(E)
    OBVIOUS
<1>2. Timed(D)
    BY FS_Subset DEF Timed
<1>3. ASSUME NEW k \in DOMAIN m PROVE k \in DOMAIN n /\ AtLeast(n[k], m[k])
    <2>1. PartOf(D, k) # {} /\ m[k] = buildChange(k, PartOf(D, k))
        BY <1>1, <1>2, ChangesByID
    <2>2. PartOf(D, k) \subseteq PartOf(E, k)
        BY DEF PartOf
    <2>3. k \in DOMAIN n
        BY <1>1, <2>1, <2>2, ChangesByID
    <2>4. n[k] = buildChange(k, PartOf(E, k)) /\ Timed(PartOf(E, k))
        BY <1>1, <2>3, ChangesByID
    <2>5. AtLeast(buildChange(k, PartOf(E, k)), buildChange(k, PartOf(D, k)))
        BY <2>1, <2>2, <2>4, ChangeGrows
    <2> QED
        BY <2>1, <2>3, <2>4, <2>5
<1> QED
    BY <1>1, <1>3 DEF AllAtLeast

\* The events a request of S with this search projects.
Slice(S, text) == filterEventsByQuery(eventsForChangeQuery(S), text)

LEMMA Slices ==
    ASSUME NEW S, Timed(S), NEW text \in Searches \cup {Blank}
    PROVE  /\ Projection[S][text] = buildChangesByID(Slice(S, text))
           /\ Slice(S, text) \subseteq S /\ Timed(Slice(S, text))
           /\ Slice(S, text) \subseteq Slice(S, Blank)
           /\ Slice(S, Blank) = eventsForChangeQuery(S)
           /\ Cardinality(S) <= EventLimit => eventsForChangeQuery(S) = S
<1>1. S \in SUBSET Catalog
    BY DEF Timed
<1>2. Projection[S][text] = buildChangesByID(Slice(S, text))
    BY <1>1 DEF Projection, Slice
<1>3. /\ Slice(S, text) \subseteq S /\ Slice(S, text) \subseteq Slice(S, Blank)
      /\ Slice(S, Blank) = eventsForChangeQuery(S)
    BY DEF Slice, filterEventsByQuery, eventsForChangeQuery
<1>4. Timed(Slice(S, text))
    BY <1>3, FS_Subset DEF Timed
<1>5. ASSUME Cardinality(S) <= EventLimit, NEW e \in S
      PROVE  Cardinality({f \in S : Earlier(f, e)}) < EventLimit
    <2> DEFINE b == [x \in S |-> {f \in S : Earlier(f, x)}]
    <2>1. Orders(b, S) /\ b[e] = {f \in S : Earlier(f, e)}
        BY EventsOrdered
    <2> HIDE DEF b
    <2>2. Cardinality(b[e]) \in Nat /\ Cardinality(b[e]) < Cardinality(S)
        BY <2>1, Ranks DEF Timed
    <2>3. Cardinality(S) \in Nat /\ EventLimit \in Nat
        BY FS_CardinalityType, ChangesAssumption DEF Timed
    <2> QED
        BY <1>5, <2>1, <2>2, <2>3
<1> QED
    BY <1>2, <1>3, <1>4, <1>5 DEF eventsForChangeQuery

\* has_approvals agrees with the evidence: the first approval is nowhere left out.
LEMMA ApprovalsShown ==
    ASSUME NEW c, Timed(c.events)
    PROVE  (\E e \in c.events : approvalsFromData(e) # {}) <=> Evidence(c).approvals # {}
<1> DEFINE E == c.events
           given == UNION {{<<e, i>> : i \in approvalsFromData(e)} : e \in E}
           of(p) == p[1].approvals[p[2]]
           seen(p) == {o \in given : Earlier(o[1], p[1]) \/ (o[1] = p[1] /\ o[2] < p[2])}
           new == {p \in given : \A o \in seen(p) : of(o).who # of(p).who}
<1>1. Evidence(c).approvals = {of(p) : p \in new}
    BY DEF Evidence
<1>2. \A p \in given : \E e \in E : \E i \in approvalsFromData(e) : p = <<e, i>>
    OBVIOUS
<1>3. ASSUME new # {} PROVE \E e \in E : approvalsFromData(e) # {}
    BY <1>2, <1>3
<1>4. ASSUME \E e \in E : approvalsFromData(e) # {} PROVE new # {}
    <2> DEFINE F == {e \in E : approvalsFromData(e) # {}}
    <2>1. F # {} /\ F \subseteq E
        BY <1>4
    <2>2. Timed(F)
        BY <2>1, FS_Subset DEF Timed
    <2>3. PICK a \in F : \A e \in F : ~Earlier(e, a)
        <3> HIDE DEF F
        <3> QED
            BY <2>1, <2>2, Ends
    <2>4. a \in Catalog /\ approvalsFromData(a) \in SUBSET Nat /\ approvalsFromData(a) # {}
        BY <2>3, ChangesAssumption DEF Timed, approvalsFromData
    <2>5. PICK i \in approvalsFromData(a) : \A j \in approvalsFromData(a) : i <= j
        BY <2>4, LeastNumber
    <2>6. PICK p : p = <<a, i>>
        OBVIOUS
    <2>7. p \in given /\ p[1] = a /\ p[2] = i
        BY <2>3, <2>5, <2>6
    <2>8. ASSUME NEW o \in given PROVE ~(Earlier(o[1], a) \/ (o[1] = a /\ o[2] < i))
        <3>0. PICK e \in E : \E j \in approvalsFromData(e) : o = <<e, j>>
            BY <1>2
        <3>1. PICK j \in approvalsFromData(e) : o = <<e, j>>
            BY <3>0
        <3>2. e \in F /\ o[1] = e /\ o[2] = j
            BY <3>1
        <3>3. ~Earlier(e, a)
            BY <2>3, <3>2
        <3>4. e = a => ~(j < i)
            BY <2>4, <2>5, <3>1
        <3> QED
            BY <3>2, <3>3, <3>4
    <2>9. seen(p) = {}
        <3> HIDE DEF given
        <3> QED
            BY <2>7, <2>8
    <2> QED
        BY <2>7, <2>9
<1> HIDE DEF new, given
<1> QED
    BY <1>1, <1>3, <1>4

\* A change says of its events what the reference says.
LEMMA ChangeMeetsReference ==
    ASSUME NEW k, NEW E, Timed(E), E # {}
    PROVE  MeetsReference(buildChange(k, E))
<1>1. PICK c : c = buildChange(k, E)
    OBVIOUS
<1>2. /\ c.events = E /\ c.result = mergedResult(E) /\ c.health = mergedHealth(E)
      /\ c.hasApprovals = (\E e \in E : approvalsFromData(e) # {})
      /\ c.times = finalizeChange(E)
    BY <1>1 DEF buildChange
<1>3. /\ c.result = "failed" <=> HasResult(c, "failed")
      /\ c.result = "unknown" <=> \A e \in c.events : Result[e] = "unknown"
      /\ HasResult(c, c.result)
    BY <1>2, ResultMerged DEF HasResult
<1>4. /\ c.health = "degraded" <=> HasHealth(c, "degraded")
      /\ c.health = "progressing" <=> HasHealth(c, "progressing") /\ ~HasHealth(c, "degraded")
      /\ HasHealth(c, c.health)
    BY <1>2, HealthMerged DEF HasHealth
<1>5. Spans(c, c.times.started, c.times.completed)
    <2>1. c.times.started = EarliestOf(E).time /\ c.times.completed = LatestOf(E).time
        BY <1>2 DEF finalizeChange, CompletedAt
    <2> QED
        BY <1>2, <2>1, Ends DEF Spans
<1>6. Observed(c) => c.health = "degraded"
    <2>1. c.times.degraded # {} => \E e \in E : Health[e] = "degraded"
        BY <1>2 DEF finalizeChange
    <2> QED
        BY <1>2, <1>4, <2>1 DEF Observed, HasHealth
<1>7. c.hasApprovals <=> Evidence(c).approvals # {}
    BY <1>2, ApprovalsShown
<1> QED
    BY <1>1, <1>3, <1>4, <1>5, <1>6, <1>7 DEF MeetsReference

\* What is true of the changes of a request: each is the change of its id, made of events
\* of the slice, and they are finitely many.
LEMMA ChangesOfSlice ==
    ASSUME NEW S, Timed(S), NEW text \in Searches \cup {Blank}
    PROVE  /\ IsFiniteSet(ChangesOf(S, text))
           /\ \A c \in ChangesOf(S, text) :
                  /\ c.id \in DOMAIN Projection[S][text] /\ c = Projection[S][text][c.id]
                  /\ c = buildChange(c.id, PartOf(Slice(S, text), c.id))
                  /\ c.events = PartOf(Slice(S, text), c.id)
                  /\ c.events # {} /\ Timed(c.events)
                  /\ c.id \in ChangeIds
                  /\ \E e \in c.events : c.times.completed = e.time
<1>1. PICK E, m : E = Slice(S, text) /\ m = Projection[S][text]
    OBVIOUS
<1>2. Timed(E) /\ m = buildChangesByID(E)
    BY <1>1, Slices
<1>3. PICK C : C = ChangesOf(S, text)
    OBVIOUS
<1>4. C = {m[k] : k \in DOMAIN m}
    BY <1>1, <1>3 DEF ChangesOf
<1>5. ASSUME NEW c \in C
      PROVE  /\ c.id \in DOMAIN m /\ c = m[c.id] /\ c = buildChange(c.id, PartOf(E, c.id))
             /\ c.events = PartOf(E, c.id) /\ c.events # {} /\ Timed(c.events) /\ c.id \in ChangeIds
             /\ \E e \in c.events : c.times.completed = e.time
    <2>1. PICK k \in DOMAIN m : c = m[k]
        BY <1>4
    <2>2. m[k] = buildChange(k, PartOf(E, k)) /\ PartOf(E, k) # {} /\ Timed(PartOf(E, k)) /\ k \in ChangeIds
        BY <1>2, ChangesByID
    <2>3. c.id = k /\ c.events = PartOf(E, k) /\ c.times = finalizeChange(PartOf(E, k))
        BY <2>1, <2>2 DEF buildChange
    <2>4. c.times.completed = LatestOf(PartOf(E, k)).time
        BY <2>3 DEF finalizeChange, CompletedAt
    <2>5. LatestOf(PartOf(E, k)) \in PartOf(E, k)
        BY <2>2, Ends
    <2> QED
        BY <2>1, <2>2, <2>3, <2>4, <2>5
<1>6. IsFiniteSet(C)
    <2> DEFINE f == [e \in E |-> m[ChangeId[e]]]
    <2>1. DOMAIN m = {ChangeId[e] : e \in E}
        BY <1>2 DEF buildChangesByID
    <2>2. f \in Surjection(E, C)
        BY <1>4, <2>1 DEF Surjection
    <2> HIDE DEF f
    <2> QED
        BY <1>2, <2>2, FS_Surjection DEF Timed
<1> QED
    BY <1>1, <1>3, <1>5, <1>6

\* Every event is in one change.
LEMMA OneChange ==
    ASSUME NEW S, Timed(S), NEW e \in eventsForChangeQuery(S)
    PROVE  Cardinality({c \in ChangesOf(S, Blank) : e \in c.events}) = 1
<1>1. PICK E, m, k : E = Slice(S, Blank) /\ m = Projection[S][Blank] /\ k = ChangeId[e]
    OBVIOUS
<1>2. Timed(E) /\ m = buildChangesByID(E) /\ e \in E
    BY <1>1, Slices
<1>3. e \in PartOf(E, k)
    BY <1>1, <1>2 DEF PartOf
<1>4. k \in DOMAIN m /\ m[k] = buildChange(k, PartOf(E, k))
    BY <1>2, <1>3, ChangesByID
<1>5. m[k] \in ChangesOf(S, Blank) /\ e \in m[k].events
    <2>1. m[k].events = PartOf(E, k)
        BY <1>4 DEF buildChange
    <2> QED
        BY <1>1, <1>3, <1>4, <2>1 DEF ChangesOf
<1>6. ASSUME NEW c \in ChangesOf(S, Blank), e \in c.events PROVE c = m[k]
    <2>1. c = m[c.id] /\ c.events = PartOf(E, c.id)
        BY <1>1, ChangesOfSlice
    <2>2. c.id = k
        BY <1>1, <1>6, <2>1 DEF PartOf
    <2> QED
        BY <2>1, <2>2
<1>7. {c \in ChangesOf(S, Blank) : e \in c.events} = {m[k]}
    BY <1>5, <1>6
<1> QED
    BY <1>7, FS_Singleton

LEMMA StoredMeetsReference == Timed(stored) => ProjectionMeetsReference
<1> SUFFICES ASSUME Timed(stored) PROVE ProjectionMeetsReference
    OBVIOUS
<1>1. \A c \in ChangesOf(stored, Blank) : MeetsReference(c)
    <2>1. ASSUME NEW c \in ChangesOf(stored, Blank) PROVE MeetsReference(c)
        <3>1. PICK k, E : k = c.id /\ E = PartOf(Slice(stored, Blank), c.id)
            OBVIOUS
        <3>2. c = buildChange(k, E) /\ E # {} /\ Timed(E)
            BY <3>1, ChangesOfSlice
        <3> QED
            BY <3>2, ChangeMeetsReference
    <2> QED
        BY <2>1
<1>2. ASSUME NEW w \in Searches PROVE AllAtLeast(Projection[stored][w], Projection[stored][Blank])
    <2>1. /\ Projection[stored][w] = buildChangesByID(Slice(stored, w))
          /\ Slice(stored, w) \subseteq Slice(stored, Blank)
        BY Slices
    <2>2. Projection[stored][Blank] = buildChangesByID(Slice(stored, Blank)) /\ Timed(Slice(stored, Blank))
        BY Slices
    <2> QED
        BY <2>1, <2>2, AllGrow
<1> QED
    BY <1>1, <1>2, OneChange DEF ProjectionMeetsReference

\* While a query reads all events, more of them take nothing away.
LEMMA ProjectionGrows ==
    ASSUME NEW S, NEW T, Timed(T), S \subseteq T, Cardinality(T) <= EventLimit,
           NEW text \in Searches \cup {Blank}
    PROVE  Timed(S) /\ AllAtLeast(Projection[S][text], Projection[T][text])
<1>1. Timed(S) /\ Cardinality(S) <= Cardinality(T) /\ Cardinality(S) \in Nat /\ Cardinality(T) \in Nat
    BY FS_Subset, FS_CardinalityType DEF Timed
<1>2. Cardinality(S) <= EventLimit
    BY <1>1, ChangesAssumption
<1>3. eventsForChangeQuery(S) = S /\ eventsForChangeQuery(T) = T
    BY <1>1, <1>2, Slices
<1>4. Slice(S, text) \subseteq Slice(T, text)
    BY <1>3 DEF Slice, filterEventsByQuery
<1>5. Timed(Slice(T, text)) /\ Projection[T][text] = buildChangesByID(Slice(T, text))
    BY Slices
<1>6. Projection[S][text] = buildChangesByID(Slice(S, text))
    BY <1>1, Slices
<1> QED
    BY <1>1, <1>4, <1>5, <1>6, AllGrow

-------------------------------------------------------------------------------
(* Changes: pages of the list. *)

ListOf(S, q) == filterChanges(ChangesOf(S, q.text), q)

Placed(c) == c.times.completed \in Nat /\ c.id \in ChangeIds

\* The order of the list.
LEMMA AheadOrders ==
    ASSUME NEW x, NEW y, NEW z, Placed(x), Placed(y), Placed(z)
    PROVE  /\ ~Ahead(x, x)
           /\ Ahead(x, y) => ~Ahead(y, x)
           /\ Ahead(x, y) /\ Ahead(y, z) => Ahead(x, z)
           /\ x.id = y.id \/ Ahead(x, y) \/ Ahead(y, x)
<1>1. /\ x.times.completed \in Nat /\ y.times.completed \in Nat /\ z.times.completed \in Nat
      /\ stableHash(x.id) \in Nat /\ stableHash(y.id) \in Nat /\ stableHash(z.id) \in Nat
      /\ stableHash(x.id) = stableHash(y.id) => x.id = y.id
    BY IdAssumption DEF Placed
<1> QED
    BY <1>1 DEF Ahead

\* A change has a place in the list, and a cursor there is not the one of the first page.
LEMMA ChangePlaced ==
    ASSUME NEW c \in AllChanges
    PROVE  Placed(c) /\ encodeChangeCursor(c) # NoCursor
<1>1. PICK S, text : Timed(S) /\ text \in Searches \cup {Blank} /\ c \in ChangesOf(S, text)
    BY DEF AllChanges, Timed
<1>2. Timed(c.events) /\ c.id \in ChangeIds /\ \E e \in c.events : c.times.completed = e.time
    BY <1>1, ChangesOfSlice
<1>3. PICK e \in Catalog : c.times.completed = e.time
    BY <1>2 DEF Timed
<1>4. encodeChangeCursor(c) # NoCursor
    BY <1>2, <1>3, IdAssumption DEF encodeChangeCursor
<1> QED
    BY <1>2, <1>3, <1>4, ChangesAssumption DEF Placed

LEMMA ListedPlaced ==
    ASSUME NEW S, Timed(S), NEW q \in Queries, NEW c \in ListOf(S, q)
    PROVE  /\ Placed(c) /\ c \in AllChanges
           /\ c.id \in DOMAIN Projection[S][q.text] /\ c = Projection[S][q.text][c.id]
           /\ encodeChangeCursor(c) # NoCursor
<1>1. q.text \in Searches \cup {Blank} /\ c \in ChangesOf(S, q.text)
    BY ChangesAssumption DEF ListOf, filterChanges
<1>2. c.id \in DOMAIN Projection[S][q.text] /\ c = Projection[S][q.text][c.id]
    BY <1>1, ChangesOfSlice
<1>3. c \in AllChanges
    <2>1. S \in {T \in SUBSET Catalog : IsFiniteSet(T)}
        BY DEF Timed
    <2> QED
        BY <1>1, <2>1 DEF AllChanges
<1> QED
    BY <1>2, <1>3, ChangePlaced

\* Sorting lists any part of the list once and newest first.
LEMMA ListSorted ==
    ASSUME NEW S, Timed(S), NEW q \in Queries, NEW A \in SUBSET ListOf(S, q)
    PROVE  Lists(SortedByCompletion(A), A, [c \in A |-> {d \in A : Ahead(d, c)}])
<1> DEFINE b == [c \in A |-> {d \in A : Ahead(d, c)}]
<1>1. IsFiniteSet(A)
    <2>1. A \subseteq ChangesOf(S, q.text) /\ q.text \in Searches \cup {Blank}
        BY ChangesAssumption DEF ListOf, filterChanges
    <2> QED
        BY <2>1, ChangesOfSlice, FS_Subset
<1>2. \A c \in A : Placed(c) /\ c = Projection[S][q.text][c.id]
    BY ListedPlaced
<1>3. b \in [A -> SUBSET A] /\ \A x, y \in A : x \in b[y] <=> Ahead(x, y)
    OBVIOUS
<1>4. \A x, y \in A : x.id = y.id => x = y
    BY <1>2
<1> HIDE DEF b
<1>5. \A x \in A : x \notin b[x]
    BY <1>2, <1>3, AheadOrders
<1>6. ASSUME NEW x \in A, NEW y \in A, x \in b[y] PROVE b[x] \subseteq b[y]
    <2>1. ASSUME NEW z \in b[x] PROVE z \in b[y]
        <3>1. z \in A /\ Ahead(z, x) /\ Ahead(x, y)
            BY <1>3, <1>6, <2>1
        <3>2. Ahead(z, y)
            BY <1>2, <3>1, AheadOrders
        <3> QED
            BY <1>3, <3>1, <3>2
    <2> QED
        BY <2>1
<1>7. \A x, y \in A : x = y \/ x \in b[y] \/ y \in b[x]
    BY <1>2, <1>3, <1>4, AheadOrders
<1>8. Orders(b, A)
    BY <1>3, <1>5, <1>6, <1>7 DEF Orders
<1>9. Lists(SortedBy(b), A, b)
    BY <1>1, <1>8, SortedLists
<1>10. SortedByCompletion(A) = SortedBy(b)
    BY DEF SortedByCompletion, b
<1> QED
    BY <1>9, <1>10 DEF b

\* items is the first page of A, next the cursor behind it.
IsChangePage(A, items, next) ==
    /\ items \in Seq(A)
    /\ \A i, j \in DOMAIN items : i < j => Ahead(items[i], items[j])
    /\ next = NoCursor => \A x \in A : \E i \in DOMAIN items : items[i] = x
    /\ next # NoCursor =>
           /\ items # <<>> /\ next = encodeChangeCursor(items[Len(items)])
           /\ \A x \in A : (\E i \in DOMAIN items : items[i] = x) \/ Ahead(next, x)

\* ListChanges returns such a page of what the cursor leaves.
LEMMA PageOfChanges ==
    ASSUME NEW S, Timed(S), NEW q \in Queries, NEW c
    PROVE  IsChangePage(applyChangeCursor(ListOf(S, q), c), ListChanges(S, q, c).items,
                        ListChanges(S, q, c).next)
<1>0. PICK items, next : items = ListChanges(S, q, c).items /\ next = ListChanges(S, q, c).next
    OBVIOUS
<1> DEFINE A == applyChangeCursor(ListOf(S, q), c)
           b == [x \in A |-> {y \in A : Ahead(y, x)}]
           s == SortedByCompletion(A)
           n == PageLimit(q)
<1>1. A \in SUBSET ListOf(S, q)
    BY DEF applyChangeCursor
<1>2. Lists(s, A, b)
    <2> HIDE DEF A
    <2> QED
        BY <1>1, ListSorted
<1>3. n \in Nat \ {0}
    BY ChangesAssumption DEF PageLimit
<1>4. /\ items = IF Len(s) > n THEN SubSeq(s, 1, n) ELSE s
      /\ next = IF Len(s) > n THEN encodeChangeCursor(s[n]) ELSE NoCursor
    BY <1>0 DEF ListChanges, Remaining, ListOf
<1>5. \A x, y \in A : x \in b[y] => Ahead(x, y)
    OBVIOUS
<1> HIDE DEF s, n, A, b
<1>6. PICK m \in Nat : m = Len(s) /\ DOMAIN s = 1..m
    BY <1>2 DEF Lists
<1>7. /\ s \in Seq(A) /\ \A i \in 1..m : s[i] \in A
      /\ \A i, j \in 1..m : i < j => Ahead(s[i], s[j])
      /\ \A x \in A : \E i \in 1..m : s[i] = x
    <2>1. /\ s \in Seq(A) /\ \A i, j \in 1..m : i < j => s[i] \in b[s[j]]
          /\ \A x \in A : \E i \in 1..m : s[i] = x
        BY <1>2, <1>6 DEF Lists
    <2>2. \A i \in 1..m : s[i] \in A
        BY <1>6, <2>1
    <2> QED
        BY <1>5, <2>1, <2>2
<1>8. CASE m <= n
    <2>1. items = s /\ next = NoCursor
        BY <1>3, <1>4, <1>6, <1>8
    <2> QED
        BY <2>1, <1>0, <1>6, <1>7 DEF A, IsChangePage
<1>9. CASE m > n
    <2>1. items = SubSeq(s, 1, n) /\ next = encodeChangeCursor(s[n])
        BY <1>4, <1>6, <1>9
    <2>2. items \in Seq(A) /\ Len(items) = n /\ \A i \in 1..n : items[i] = s[i]
        BY <2>1, <1>3, <1>6, <1>7, <1>9, SubSeqProperties
    <2>3. \A i, j \in DOMAIN items : i < j => Ahead(items[i], items[j])
        <3>1. DOMAIN items = 1..n /\ \A i \in 1..n : i \in 1..m
            BY <1>3, <1>9, <2>2
        <3> QED
            BY <3>1, <2>2, <1>7
    <2>4. n \in 1..n /\ n \in 1..m /\ DOMAIN items = 1..n
        BY <1>3, <1>9, <2>2
    <2>5. items # <<>> /\ items[Len(items)] = s[n] /\ s[n] \in A
        <3>1. items # <<>>
            BY <2>2, <1>3
        <3> QED
            BY <3>1, <2>2, <2>4, <1>7
    <2>6. next # NoCursor
        BY <2>1, <2>5, <1>1, ListedPlaced
    <2>7. ASSUME NEW x \in A PROVE (\E i \in DOMAIN items : items[i] = x) \/ Ahead(next, x)
        <3>1. PICK k \in 1..m : s[k] = x
            BY <1>7
        <3>2. CASE k <= n
            <4>1. k \in 1..n
                BY <3>2, <1>3
            <4> QED
                BY <3>1, <4>1, <2>2, <2>4
        <3>3. CASE k > n
            <4>1. Ahead(s[n], x)
                BY <3>1, <3>3, <2>4, <1>7
            <4> QED
                BY <4>1, <2>1 DEF Ahead, encodeChangeCursor
        <3> QED
            BY <3>2, <3>3, <1>3
    <2>8. next = encodeChangeCursor(items[Len(items)])
        BY <2>1, <2>5
    <2>9. IsChangePage(A, items, next)
        BY <2>2, <2>3, <2>5, <2>6, <2>7, <2>8 DEF IsChangePage
    <2> QED
        BY <2>9, <1>0 DEF A
<1> QED
    BY <1>3, <1>8, <1>9

-------------------------------------------------------------------------------
(* Changes: the inductive invariant. *)

LEMMA ChangesInitInv == ChangesInit => ChangesIInv
<1> SUFFICES ASSUME ChangesInit PROVE ChangesIInv
    OBVIOUS
<1>1. ChangesTypeOK /\ IsFiniteSet(stored)
    BY ChangesAssumption, FS_EmptySet DEF ChangesInit, ChangesTypeOK
<1>2. delivered \in Seq(AllChanges) /\ DOMAIN delivered = {} /\ owed = {} /\ status = "idle" /\ delivered = <<>>
    BY DEF ChangesInit
<1>3. SnapshotsGrow
    BY DEF ChangesInit, SnapshotsGrow
<1> QED
    BY <1>1, <1>2, <1>3 DEF ChangesIInv, DeliveredPassed, DeliveredMovedAhead, NoChangeTwice, OwedAhead

\* Steps of the writers and of the cache leave the walk alone.
LEMMA WalkKept ==
    ASSUME ChangesIInv, UNCHANGED pagerVars, stored \subseteq stored', Timed(stored'),
           Orderly' => Orderly, SnapshotsGrow', fills' \in 0..MaxFills,
           entry' \in {NoEntry} \cup SUBSET stored', slow' \in {NoEntry} \cup SUBSET stored'
    PROVE  ChangesIInv'
<1>1. /\ query' = query /\ cursor' = cursor /\ status' = status /\ snapshot' = snapshot
      /\ owed' = owed /\ delivered' = delivered
    BY DEF pagerVars
<1>2. ChangesTypeOK' /\ IsFiniteSet(stored)' /\ (delivered \in Seq(AllChanges))'
    BY <1>1 DEF ChangesIInv, ChangesTypeOK, Timed
<1>3. DeliveredPassed'
    BY <1>1 DEF ChangesIInv, DeliveredPassed
<1>4. OwedAhead'
    BY <1>1 DEF ChangesIInv, OwedAhead
<1>5. NoChangeTwice'
    BY <1>1 DEF ChangesIInv, NoChangeTwice
<1>6. DeliveredMovedAhead'
    BY <1>1 DEF ChangesIInv, DeliveredMovedAhead
<1> QED
    BY <1>2, <1>3, <1>4, <1>5, <1>6 DEF ChangesIInv

\* A page after cursor at, where that cursor has passed what was delivered and not what is owed.
LEMMA PageKeepsInv ==
    ASSUME ChangesIInv, NEW at, Page(at), at # NoCursor => Placed(at),
           \A i \in DOMAIN delivered : at # NoCursor /\ ~Ahead(at, delivered[i]),
           \A p \in owed' : /\ p \in PlacesIn(snapshot')
                            /\ \/ \E i \in DOMAIN delivered : delivered[i].id = p.id
                               \/ at = NoCursor \/ Ahead(at, p)
    PROVE  ChangesIInv'
<1>1. PICK S, items, next :
          /\ S = IF entry # NoEntry THEN entry ELSE stored
          /\ items = ListChanges(S, query, at).items /\ next = ListChanges(S, query, at).next
    OBVIOUS
<1> DEFINE A == applyChangeCursor(ListOf(S, query), at)
           s == delivered \o items
<1>2. /\ entry' = S /\ snapshot' = S /\ delivered' = s /\ cursor' = next
      /\ status' = IF next = NoCursor THEN "done" ELSE "paging"
      /\ stored' = stored /\ slow' = slow /\ fills' = fills /\ query' = query
    BY <1>1 DEF Page
<1>3. /\ Timed(stored) /\ S \in SUBSET stored /\ query \in Queries /\ snapshot \in SUBSET stored
      /\ delivered \in Seq(AllChanges) /\ query.text \in Searches \cup {Blank}
    BY <1>1, ChangesAssumption DEF ChangesIInv, ChangesTypeOK, Timed
<1>4. Timed(S) /\ Timed(snapshot)
    BY <1>3, FS_Subset DEF Timed
<1>5. IsChangePage(A, items, next)
    BY <1>1, <1>3, <1>4, PageOfChanges
<1>6. \A x \in A : x \in ListOf(S, query) /\ (at = NoCursor \/ Ahead(at, x))
    BY DEF applyChangeCursor
<1>7. \A x \in ListOf(S, query) : at = NoCursor \/ Ahead(at, x) => x \in A
    BY DEF applyChangeCursor
<1> HIDE DEF A
<1>8. /\ items \in Seq(A)
      /\ \A i, j \in DOMAIN items : i < j => Ahead(items[i], items[j])
      /\ next = NoCursor => \A x \in A : \E i \in DOMAIN items : items[i] = x
      /\ next # NoCursor =>
             /\ items # <<>> /\ next = encodeChangeCursor(items[Len(items)])
             /\ \A x \in A : (\E i \in DOMAIN items : items[i] = x) \/ Ahead(next, x)
    BY <1>5 DEF IsChangePage
<1>9. \A x \in A : /\ Placed(x) /\ x \in AllChanges
                   /\ x.id \in DOMAIN Projection[S][query.text] /\ x = Projection[S][query.text][x.id]
    BY <1>3, <1>4, <1>6, ListedPlaced
<1>10. \A x \in AllChanges : Placed(x)
    BY ChangePlaced
<1>11. items \in Seq(AllChanges)
    BY <1>8, <1>9
<1>12. /\ s \in Seq(AllChanges) /\ Len(s) = Len(delivered) + Len(items)
       /\ \A i \in 1..Len(s) : s[i] = IF i <= Len(delivered) THEN delivered[i] ELSE items[i - Len(delivered)]
    BY <1>3, <1>11, ConcatProperties
<1> HIDE DEF s
<1>13. PICK m \in Nat, k \in Nat : m = Len(delivered) /\ k = Len(items)
    BY <1>3, <1>8
<1>14. /\ DOMAIN delivered = 1..m /\ DOMAIN items = 1..k /\ DOMAIN s = 1..(m + k) /\ Len(s) = m + k
    BY <1>3, <1>8, <1>12, <1>13
<1>15. /\ \A i \in 1..m : s[i] = delivered[i] /\ i \in DOMAIN s
       /\ \A i \in 1..k : s[m + i] = items[i] /\ m + i \in DOMAIN s
       /\ \A i \in DOMAIN s : i \in 1..m \/ (i - m \in 1..k /\ s[i] = items[i - m])
    <2>1. ASSUME NEW i \in 1..m PROVE s[i] = delivered[i] /\ i \in DOMAIN s
        BY <1>12, <1>13, <1>14
    <2>2. ASSUME NEW i \in 1..k PROVE s[m + i] = items[i] /\ m + i \in DOMAIN s
        <3>1. m + i \in 1..(m + k) /\ ~(m + i <= m) /\ (m + i) - m = i
            OBVIOUS
        <3> QED
            BY <3>1, <1>12, <1>13, <1>14
    <2>3. ASSUME NEW i \in DOMAIN s, i \notin 1..m PROVE i - m \in 1..k /\ s[i] = items[i - m]
        <3>1. i \in 1..(m + k) /\ i - m \in 1..k /\ ~(i <= m)
            BY <1>14, <2>3
        <3> QED
            BY <3>1, <1>12, <1>13, <1>14
    <2> QED
        BY <2>1, <2>2, <2>3
<1>16. /\ \A i \in 1..m : Placed(delivered[i])
       /\ \A i \in 1..k : items[i] \in A /\ Placed(items[i])
    BY <1>3, <1>8, <1>9, <1>10, <1>14
<1>17. ASSUME next # NoCursor
       PROVE  k \in 1..k /\ next = encodeChangeCursor(items[k]) /\ s[m + k] = items[k] /\ s # <<>>
    <2>1. items # <<>> /\ next = encodeChangeCursor(items[k])
        BY <1>8, <1>13, <1>17
    <2>2. k # 0
        BY <1>8, <1>13, <2>1
    <2>3. k \in 1..k /\ Len(s) # 0
        BY <1>14, <2>2
    <2> QED
        BY <1>15, <2>1, <2>3
<1>18. ChangesTypeOK' /\ IsFiniteSet(stored)' /\ (delivered \in Seq(AllChanges))'
    <2>1. IF status' = "paging"
          THEN /\ delivered' # <<>>
               /\ cursor' = [times |-> [completed |-> delivered'[Len(delivered')].times.completed],
                             id |-> delivered'[Len(delivered')].id]
          ELSE cursor' = NoCursor
        BY <1>2, <1>14, <1>17 DEF encodeChangeCursor
    <2> QED
        BY <1>2, <1>3, <1>12, <2>1 DEF ChangesIInv, ChangesTypeOK, Timed
<1>19. SnapshotsGrow'
    BY <1>2 DEF ChangesIInv, SnapshotsGrow
<1>20. DeliveredPassed'
    <2>1. ASSUME next # NoCursor, NEW i \in DOMAIN s PROVE ~Ahead(next, s[i])
        <3>1. PICK last : last = items[k]
            OBVIOUS
        <3>2. /\ k \in 1..k /\ last \in A /\ Placed(last)
              /\ \A x : Ahead(next, x) <=> Ahead(last, x)
            BY <1>16, <1>17, <2>1, <3>1 DEF Ahead, encodeChangeCursor
        <3>3. CASE i \in 1..m
            <4>1. s[i] = delivered[i] /\ Placed(delivered[i]) /\ at # NoCursor /\ ~Ahead(at, delivered[i])
                BY <3>3, <1>14, <1>15, <1>16
            <4>2. Placed(at) /\ Ahead(at, last)
                BY <4>1, <3>2, <1>6
            <4> QED
                BY <4>1, <4>2, <3>2, AheadOrders
        <3>4. CASE i \notin 1..m
            <4>1. PICK j \in 1..k : s[i] = items[j]
                BY <3>4, <1>15
            <4>2. j = k \/ Ahead(items[j], last)
                BY <3>1, <3>2, <1>8, <1>14
            <4> QED
                BY <4>1, <4>2, <3>1, <3>2, <1>16, AheadOrders
        <3> QED
            BY <3>3, <3>4
    <2> QED
        BY <1>2, <2>1 DEF DeliveredPassed
<1>21. ASSUME Orderly
       PROVE  AllAtLeast(Projection[snapshot][query.text], Projection[S][query.text])
    <2>1. snapshot \subseteq S
        BY <1>1, <1>3, <1>21 DEF ChangesIInv, SnapshotsGrow, Orderly
    <2>2. Cardinality(S) <= EventLimit
        <3>1. Cardinality(S) <= Cardinality(stored) /\ Cardinality(S) \in Nat /\ Cardinality(stored) \in Nat
            BY <1>3, <1>4, FS_Subset, FS_CardinalityType DEF Timed
        <3> QED
            BY <3>1, <1>21, ChangesAssumption DEF Orderly
    <2> QED
        BY <1>3, <1>4, <2>1, <2>2, ProjectionGrows
<1>22. ASSUME Orderly, NEW i \in 1..m
       PROVE  /\ delivered[i].id \in DOMAIN Projection[S][query.text]
              /\ delivered[i].times.completed <= Projection[S][query.text][delivered[i].id].times.completed
    <2>1. PICK x, d, f : /\ x = delivered[i] /\ d = Projection[snapshot][query.text]
                         /\ f = Projection[S][query.text]
        OBVIOUS
    <2>2. x.id \in DOMAIN d /\ x.times.completed <= d[x.id].times.completed
        BY <1>14, <1>22, <2>1 DEF ChangesIInv, DeliveredMovedAhead
    <2>3. x.id \in DOMAIN f /\ AtLeast(f[x.id], d[x.id])
        BY <1>21, <1>22, <2>1, <2>2 DEF AllAtLeast
    <2>4. f[x.id].times.completed >= d[x.id].times.completed
        BY <2>3 DEF AtLeast
    <2>5. x.times.completed \in Nat /\ d[x.id].times.completed \in Nat /\ f[x.id].times.completed \in Nat
        <3>1. d[x.id] \in ChangesOf(snapshot, query.text) /\ f[x.id] \in ChangesOf(S, query.text)
            BY <2>1, <2>2, <2>3 DEF ChangesOf
        <3>2. d[x.id] \in AllChanges /\ f[x.id] \in AllChanges
            BY <3>1, <1>3, <1>4 DEF AllChanges, Timed
        <3> QED
            BY <3>2, <1>10, <1>16, <2>1 DEF Placed
    <2>6. x.times.completed <= f[x.id].times.completed
        <3>1. PICK t, u, v : t = x.times.completed /\ u = d[x.id].times.completed /\ v = f[x.id].times.completed
            OBVIOUS
        <3>2. t \in Nat /\ u \in Nat /\ v \in Nat /\ t <= u /\ v >= u
            BY <3>1, <2>2, <2>4, <2>5
        <3>3. t <= v
            BY <3>2
        <3> QED
            BY <3>1, <3>3
    <2> QED
        BY <2>1, <2>3, <2>6
<1>23. DeliveredMovedAhead'
    <2>1. ASSUME Orderly, NEW i \in DOMAIN s
          PROVE  /\ s[i].id \in DOMAIN Projection[S][query.text]
                 /\ s[i].times.completed <= Projection[S][query.text][s[i].id].times.completed
        <3>1. CASE i \in 1..m
            BY <3>1, <2>1, <1>15, <1>22
        <3>2. CASE i \notin 1..m
            <4>1. PICK x \in A : s[i] = x
                BY <3>2, <1>15, <1>16
            <4>2. x.times.completed \in Nat /\ x.id \in DOMAIN Projection[S][query.text] /\ x = Projection[S][query.text][x.id]
                BY <1>9 DEF Placed
            <4> QED
                BY <4>1, <4>2
        <3> QED
            BY <3>1, <3>2
    <2> QED
        BY <1>2, <2>1 DEF DeliveredMovedAhead, Orderly
<1>24. NoChangeTwice'
    <2>1. ASSUME Orderly, NEW i \in 1..m, NEW x \in A, delivered[i].id = x.id PROVE FALSE
        <3>1. PICK y : y = delivered[i]
            OBVIOUS
        <3>2. x = Projection[S][query.text][x.id] /\ y.times.completed <= x.times.completed
            BY <1>9, <1>22, <2>1, <3>1
        <3>3. at # NoCursor /\ Placed(at) /\ ~Ahead(at, y) /\ Ahead(at, x) /\ Placed(x) /\ Placed(y)
            BY <1>6, <1>9, <1>14, <1>16, <3>1
        <3>4. /\ at.times.completed \in Nat /\ x.times.completed \in Nat /\ y.times.completed \in Nat
              /\ stableHash(at.id) \in Nat /\ stableHash(x.id) \in Nat /\ stableHash(y.id) = stableHash(x.id)
            BY <3>1, <3>3, <2>1, IdAssumption DEF Placed
        <3> QED
            BY <3>2, <3>3, <3>4 DEF Ahead
    <2>2. ASSUME NEW i \in 1..k, NEW j \in 1..k, items[i].id = items[j].id PROVE i = j
        <3>1. items[i] = items[j]
            BY <1>9, <1>16, <2>2
        <3>2. ~(i < j) /\ ~(j < i)
            BY <1>8, <1>14, <1>16, <3>1, AheadOrders
        <3> QED
            BY <3>2
    <2>3. ASSUME Orderly, NEW i \in DOMAIN s, NEW j \in DOMAIN s, s[i].id = s[j].id PROVE i = j
        <3>1. CASE i \in 1..m /\ j \in 1..m
            BY <3>1, <2>3, <1>14, <1>15 DEF ChangesIInv, NoChangeTwice
        <3>2. CASE i \in 1..m /\ j \notin 1..m
            BY <3>2, <2>1, <2>3, <1>15, <1>16
        <3>3. CASE i \notin 1..m /\ j \in 1..m
            BY <3>3, <2>1, <2>3, <1>15, <1>16
        <3>4. CASE i \notin 1..m /\ j \notin 1..m
            <4>1. i - m \in 1..k /\ j - m \in 1..k /\ s[i] = items[i - m] /\ s[j] = items[j - m]
                BY <3>4, <1>15
            <4>2. i - m = j - m
                BY <4>1, <2>2, <2>3
            <4> QED
                BY <4>2, <1>14
        <3> QED
            BY <3>1, <3>2, <3>3, <3>4
    <2> QED
        BY <1>2, <2>3 DEF NoChangeTwice, Orderly
<1>25. OwedAhead'
    <2>1. ASSUME NEW p \in owed'
          PROVE  \/ \E i \in DOMAIN s : s[i].id = p.id
                 \/ next # NoCursor /\ Ahead(next, p)
        <3>1. CASE \E i \in DOMAIN delivered : delivered[i].id = p.id
            BY <3>1, <1>14, <1>15
        <3>2. CASE at = NoCursor \/ Ahead(at, p)
            <4>1. PICK x \in ListOf(S, query) : p = PlaceOf(x)
                BY <2>1, <1>2 DEF PlacesIn, ListOf
            <4>2. p.id = x.id /\ p.times.completed = x.times.completed
                BY <4>1 DEF PlaceOf
            <4>3. x \in A
                BY <3>2, <4>2, <1>7 DEF Ahead
            <4>4. CASE \E i \in DOMAIN items : items[i] = x
                <5>1. PICK i \in 1..k : items[i] = x
                    BY <4>4, <1>14
                <5>2. m + i \in DOMAIN s /\ s[m + i] = x
                    BY <5>1, <1>15
                <5> QED
                    BY <5>2, <4>2
            <4>5. CASE next # NoCursor /\ Ahead(next, x)
                BY <4>2, <4>5 DEF Ahead
            <4> QED
                BY <4>3, <4>4, <4>5, <1>8
        <3> QED
            BY <3>1, <3>2
    <2> QED
        BY <1>2, <2>1 DEF OwedAhead
<1> QED
    BY <1>18, <1>19, <1>20, <1>23, <1>24, <1>25 DEF ChangesIInv

LEMMA ChangesNextInv == ChangesIInv /\ [ChangesNext]_changesVars => ChangesIInv'
<1> SUFFICES ASSUME ChangesIInv, [ChangesNext]_changesVars PROVE ChangesIInv'
    OBVIOUS
<1>0. /\ Timed(stored) /\ fills \in 0..MaxFills /\ MaxFills \in Nat
      /\ entry \in {NoEntry} \cup SUBSET stored /\ slow \in {NoEntry} \cup SUBSET stored
    BY ChangesAssumption DEF ChangesIInv, ChangesTypeOK, Timed
<1>1. ASSUME NEW e \in Catalog, StoreEvent(e) PROVE ChangesIInv'
    <2>1. stored' = stored \cup {e} /\ e \notin stored /\ UNCHANGED <<entry, slow, fills>> /\ UNCHANGED pagerVars
        BY <1>1 DEF StoreEvent, cacheVars
    <2>2. Timed(stored') /\ Cardinality(stored') = Cardinality(stored) + 1 /\ Cardinality(stored) \in Nat
        BY <1>0, <2>1, FS_AddElement, FS_CardinalityType DEF Timed
    <2>3. Orderly' => Orderly
        BY <2>1, <2>2, ChangesAssumption DEF Orderly
    <2>4. SnapshotsGrow'
        BY <2>1 DEF ChangesIInv, SnapshotsGrow, pagerVars
    <2> QED
        BY <1>0, <2>1, <2>2, <2>3, <2>4, WalkKept
<1>2. CASE DropEntry
    <2>1. entry' = NoEntry /\ UNCHANGED <<stored, slow, fills>> /\ UNCHANGED pagerVars
        BY <1>2 DEF DropEntry
    <2>2. SnapshotsGrow' /\ (Orderly' => Orderly)
        BY <2>1 DEF ChangesIInv, SnapshotsGrow, Orderly
    <2> QED
        BY <1>0, <2>1, <2>2, WalkKept
<1>3. CASE SlowRead
    <2>1. /\ slow' = stored /\ fills' = fills + 1 /\ fills < MaxFills
          /\ UNCHANGED <<stored, entry>> /\ UNCHANGED pagerVars
        BY <1>3 DEF SlowRead
    <2>2. fills' \in 0..MaxFills /\ fills' # 0
        BY <1>0, <2>1
    <2>3. SnapshotsGrow' /\ (Orderly' => Orderly)
        BY <2>2 DEF SnapshotsGrow, Orderly
    <2> QED
        BY <1>0, <2>1, <2>2, <2>3, WalkKept
<1>4. CASE SlowAdd
    <2>1. slow # NoEntry /\ entry' = slow /\ slow' = NoEntry /\ UNCHANGED <<stored, fills>> /\ UNCHANGED pagerVars
        BY <1>4 DEF SlowAdd
    <2>2. fills # 0
        BY <2>1 DEF ChangesIInv, SnapshotsGrow
    <2>3. SnapshotsGrow' /\ (Orderly' => Orderly)
        BY <2>1, <2>2 DEF SnapshotsGrow, Orderly
    <2> QED
        BY <1>0, <2>1, <2>3, WalkKept
<1>5. CASE FirstPage
    <2>1. status = "idle" /\ Page(NoCursor) /\ owed' = PlacesIn(snapshot')
        BY <1>5 DEF FirstPage
    <2>2. DOMAIN delivered = {}
        BY <2>1 DEF ChangesIInv, DeliveredPassed
    <2> QED
        BY <2>1, <2>2, PageKeepsInv
<1>6. CASE NextPage
    <2>1. status = "paging" /\ Page(cursor) /\ owed' = owed \cap PlacesIn(snapshot')
        BY <1>6 DEF NextPage
    <2>2. PICK last \in AllChanges : cursor = [times |-> [completed |-> last.times.completed], id |-> last.id]
        <3>1. delivered # <<>> /\ delivered \in Seq(AllChanges)
            BY <2>1 DEF ChangesIInv, ChangesTypeOK
        <3>2. delivered[Len(delivered)] \in AllChanges
            BY <3>1
        <3> QED
            BY <2>1, <3>2 DEF ChangesIInv, ChangesTypeOK
    <2>3. Placed(cursor) /\ cursor # NoCursor
        <3>1. Placed(last) /\ encodeChangeCursor(last) # NoCursor
            BY ChangePlaced
        <3> QED
            BY <2>2, <3>1 DEF Placed, encodeChangeCursor
    <2>4. \A i \in DOMAIN delivered : ~Ahead(cursor, delivered[i])
        BY <2>1 DEF ChangesIInv, DeliveredPassed
    <2>5. \A p \in owed : (\E i \in DOMAIN delivered : delivered[i].id = p.id) \/ Ahead(cursor, p)
        BY DEF ChangesIInv, OwedAhead
    <2> QED
        BY <2>1, <2>3, <2>4, <2>5, PageKeepsInv
<1>7. CASE UNCHANGED changesVars
    <2>1. UNCHANGED <<stored, entry, slow, fills>> /\ UNCHANGED pagerVars
        BY <1>7 DEF changesVars, cacheVars
    <2>2. SnapshotsGrow' /\ (Orderly' => Orderly)
        BY <2>1 DEF ChangesIInv, SnapshotsGrow, Orderly, pagerVars
    <2> QED
        BY <1>0, <2>1, <2>2, WalkKept
<1> QED
    BY <1>1, <1>2, <1>3, <1>4, <1>5, <1>6, <1>7 DEF ChangesNext

-------------------------------------------------------------------------------
(* Changes: theorems. *)

\* The client, its cursor and the cache keep their types: a cursor is always the end and the
\* id of the last change delivered, whichever pages, purges and fills there were.
THEOREM ChangesTyped == ChangesSpec => []ChangesTypeOK
<1>1. ChangesIInv => ChangesTypeOK
    BY DEF ChangesIInv
<1> QED
    BY <1>1, ChangesInitInv, ChangesNextInv, PTL DEF ChangesSpec

\* For any events, in any order of arrival: what a change says is what its events say, every
\* event is in one change, and a search shows part of the changes of the full list.
THEOREM ChangesMeetReference == ChangesSpec => []ProjectionMeetsReference
<1>1. ChangesIInv => ProjectionMeetsReference
    BY StoredMeetsReference DEF ChangesIInv, ChangesTypeOK, Timed
<1> QED
    BY <1>1, ChangesInitInv, ChangesNextInv, PTL DEF ChangesSpec

\* No event that is stored late takes a change, its id, a failure or a degradation away.
THEOREM LateEvidenceGrows == ChangesSpec => EvidenceGrows
<1>1. ASSUME ChangesIInv, ChangesIInv', [ChangesNext]_changesVars
      PROVE  [Cardinality(stored') <= EventLimit =>
                  AllAtLeast(Projection[stored][Blank], Projection[stored'][Blank])]_stored
    <2>1. SUFFICES ASSUME Cardinality(stored') <= EventLimit
                   PROVE  AllAtLeast(Projection[stored][Blank], Projection[stored'][Blank])
        OBVIOUS
    <2>2. Timed(stored')
        BY <1>1 DEF ChangesIInv, ChangesTypeOK, Timed
    <2>3. stored \subseteq stored'
        BY <1>1 DEF ChangesNext, StoreEvent, DropEntry, SlowRead, SlowAdd, FirstPage, NextPage, Page,
                    changesVars
    <2>4. PICK T : T = stored'
        OBVIOUS
    <2>5. AllAtLeast(Projection[stored][Blank], Projection[T][Blank])
        BY <2>1, <2>2, <2>3, <2>4, ProjectionGrows
    <2> QED
        BY <2>4, <2>5
<1> QED
    BY <1>1, ChangesInitInv, ChangesNextInv, PTL DEF ChangesSpec, EvidenceGrows

\* No change is on two pages of one walk, for any events, requests and page sizes.
THEOREM NoChangeListedTwice == ChangesSpec => []NoChangeTwice
<1>1. ChangesIInv => NoChangeTwice
    BY DEF ChangesIInv
<1> QED
    BY <1>1, ChangesInitInv, ChangesNextInv, PTL DEF ChangesSpec

\* A walk that is over has delivered each change that every page found at the same place.
THEOREM SettledChangesDelivered == ChangesSpec => []SettledDelivered
<1>1. ChangesIInv => SettledDelivered
    BY DEF ChangesIInv, OwedAhead, SettledDelivered
<1> QED
    BY <1>1, ChangesInitInv, ChangesNextInv, PTL DEF ChangesSpec
===============================================================================
