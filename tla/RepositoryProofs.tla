--------------------------- MODULE RepositoryProofs ---------------------------
(***************************************************************************)
(* Proofs about the event repository.  Its reads (Timeline), for any       *)
(* events, requests and page sizes: the order of each repository is a      *)
(* strict total one, a page is a piece of it, and so the pages of a walk   *)
(* are complete, chronological and the same for all repositories.  Its     *)
(* writes (SqlStore), for any number of clients, ids, hashes and faults:   *)
(* the inductive invariant, the safety properties it implies, and the      *)
(* refinement of EventStore.  The two share no constant and no variable.   *)
(***************************************************************************)
EXTENDS SqlStore, Timeline, SortingProofs, SequenceTheorems

-------------------------------------------------------------------------------
(* Reads: the order of the timeline. *)

\* The digits of a fraction are numbers.
LEMMA Digit ==
    ASSUME NEW f \in Seq(0..9), NEW i \in DOMAIN f
    PROVE  i \in Nat /\ f[i] \in Nat
OBVIOUS

\* No fraction is before itself.
LEMMA FracIrreflexive ==
    ASSUME NEW f \in Seq(0..9), NEW l \in BOOLEAN
    PROVE  ~FracBefore(f, f, l)
BY DEF FracBefore

\* What one fraction is before, all before it are.
LEMMA FracTransitive ==
    ASSUME NEW f \in Seq(0..9), NEW g \in Seq(0..9), NEW h \in Seq(0..9), NEW l \in BOOLEAN,
           FracBefore(f, g, l), FracBefore(g, h, l)
    PROVE  FracBefore(f, h, l)
<1> DEFINE at(u, v, i) == i \in DOMAIN u \cap DOMAIN v /\ u[i] < v[i] /\ \A j \in 1..(i - 1) : u[j] = v[j]
           part(u, v) == /\ \A i \in DOMAIN u \cap DOMAIN v : u[i] = v[i]
                         /\ IF l THEN Len(u) > Len(v) ELSE Len(u) < Len(v)
<1>0. \A u, v : FracBefore(u, v, l) <=> (\E i : at(u, v, i)) \/ part(u, v)
    BY DEF FracBefore
<1>1. /\ FracBefore(f, h, l) <=> (\E i : at(f, h, i)) \/ part(f, h)
      /\ FracBefore(f, g, l) <=> (\E i : at(f, g, i)) \/ part(f, g)
      /\ FracBefore(g, h, l) <=> (\E i : at(g, h, i)) \/ part(g, h)
    <2> HIDE DEF at, part
    <2> QED
        BY <1>0
<1>2. CASE (\E i : at(f, g, i)) /\ (\E i : at(g, h, i))
    <2>1. PICK i : at(f, g, i)
        BY <1>2
    <2>2. PICK k : at(g, h, k)
        BY <1>2
    <2>0. i \in Nat /\ k \in Nat /\ f[i] \in Nat /\ g[i] \in Nat /\ g[k] \in Nat /\ h[k] \in Nat
        BY <2>1, <2>2, Digit
    <2>3. CASE i <= k
        <3>0. PICK n \in Nat : DOMAIN h = 1..n
            OBVIOUS
        <3>1. i \in DOMAIN h /\ h[i] \in Nat
            <4>1. k \in 1..n /\ i \in DOMAIN f
                BY <2>1, <2>2, <3>0
            <4>2. 1 <= i
                BY <4>1
            <4>3. i \in DOMAIN h
                BY <2>0, <2>3, <3>0, <4>1, <4>2
            <4> QED
                BY <4>3, Digit
        <3>2. g[i] <= h[i]
            <4>1. CASE i = k
                BY <4>1, <2>0, <2>2
            <4>2. CASE i # k
                <5>1. i \in 1..(k - 1)
                    BY <4>2, <2>0, <2>1, <2>3
                <5>2. g[i] = h[i]
                    BY <5>1, <2>2
                <5> QED
                    BY <5>2, <3>1
            <4> QED
                BY <4>1, <4>2
        <3>3. \A j \in 1..(i - 1) : f[j] = h[j]
            BY <2>0, <2>1, <2>2, <2>3
        <3>4. at(f, h, i)
            BY <2>0, <2>1, <3>1, <3>2, <3>3
        <3> HIDE DEF at, part
        <3> QED
            BY <3>4, <1>1
    <2>4. CASE k < i
        <3>1. at(f, h, k)
            BY <2>1, <2>2, <2>4
        <3> HIDE DEF at, part
        <3> QED
            BY <3>1, <1>1
    <2> QED
        BY <2>0, <2>3, <2>4
<1>3. CASE (\E i : at(f, g, i)) /\ part(g, h)
    <2>1. PICK i : at(f, g, i)
        BY <1>3
    <2>2. CASE i \in DOMAIN h
        <3>1. at(f, h, i)
            BY <2>1, <1>3, <2>2
        <3> HIDE DEF at, part
        <3> QED
            BY <3>1, <1>1
    <2>3. CASE i \notin DOMAIN h
        <3>1. part(f, h)
            BY <2>1, <1>3, <2>3
        <3> HIDE DEF at, part
        <3> QED
            BY <3>1, <1>1
    <2> QED
        BY <2>2, <2>3
<1>4. CASE part(f, g) /\ (\E i : at(g, h, i))
    <2>1. PICK i : at(g, h, i)
        BY <1>4
    <2>2. CASE i \in DOMAIN f
        <3>1. at(f, h, i)
            BY <2>1, <1>4, <2>2
        <3> HIDE DEF at, part
        <3> QED
            BY <3>1, <1>1
    <2>3. CASE i \notin DOMAIN f
        <3>1. part(f, h)
            BY <2>1, <1>4, <2>3
        <3> HIDE DEF at, part
        <3> QED
            BY <3>1, <1>1
    <2> QED
        BY <2>2, <2>3
<1>5. CASE part(f, g) /\ part(g, h)
    <2>1. part(f, h)
        BY <1>5
    <2> QED
        BY <2>1, <1>1
<1> QED
    BY <1>1, <1>2, <1>3, <1>4, <1>5

\* Of two different fractions one is before the other.
LEMMA FracTotal ==
    ASSUME NEW f \in Seq(0..9), NEW g \in Seq(0..9), f # g, NEW l \in BOOLEAN
    PROVE  FracBefore(f, g, l) \/ FracBefore(g, f, l)
<1> DEFINE differ == {i \in DOMAIN f \cap DOMAIN g : f[i] # g[i]}
<1>1. CASE differ = {}
    <2>1. Len(f) # Len(g)
        BY <1>1
    <2> QED
        BY <1>1, <2>1 DEF FracBefore
<1>2. CASE differ # {}
    <2>1. differ \in SUBSET Nat
        OBVIOUS
    <2>2. PICK i \in differ : \A j \in differ : i <= j
        <3> HIDE DEF differ
        <3> QED
            BY <1>2, <2>1, LeastNumber
    <2>3. \A j \in 1..(i - 1) : f[j] = g[j]
        BY <2>2
    <2>4. f[i] < g[i] \/ g[i] < f[i]
        BY <2>2
    <2> QED
        BY <2>2, <2>3, <2>4 DEF FracBefore
<1> QED
    BY <1>1, <1>2

\* The order of the times, by the clock or as text, is a strict total order.
LEMMA TimesOrdered ==
    ASSUME NEW d, NEW t \in Times, NEW u \in Times, NEW v \in Times
    PROVE  /\ ~tsBefore(d, t, t)
           /\ tsBefore(d, t, u) /\ tsBefore(d, u, v) => tsBefore(d, t, v)
           /\ t # u => tsBefore(d, t, u) \/ tsBefore(d, u, t)
<1> DEFINE l == d = "sqlite"
           before(x, y) == x.sec < y.sec \/ (x.sec = y.sec /\ FracBefore(x.frac, y.frac, l))
<1>1. l \in BOOLEAN
    OBVIOUS
<1>2. \A x, y : tsBefore(d, x, y) <=> before(x, y)
    BY DEF tsBefore, TextBefore, TimeBefore
<1>3. /\ t.sec \in Nat /\ u.sec \in Nat /\ v.sec \in Nat
      /\ t.frac \in Seq(0..9) /\ u.frac \in Seq(0..9) /\ v.frac \in Seq(0..9)
      /\ t # u => t.sec # u.sec \/ t.frac # u.frac
    BY DEF Times
<1> HIDE DEF l
<1>4. ~before(t, t)
    BY <1>1, <1>3, FracIrreflexive
<1>5. before(t, u) /\ before(u, v) => before(t, v)
    BY <1>1, <1>3, FracTransitive
<1>6. t # u => before(t, u) \/ before(u, t)
    BY <1>1, <1>3, FracTotal
<1> HIDE DEF before
<1> QED
    BY <1>2, <1>4, <1>5, <1>6

\* What events and cursors have in common: a time and an id.
IsPosition(e) == e.time \in Times /\ e.id \in Nat

\* No position precedes itself.
LEMMA PrecedesIrreflexive ==
    ASSUME NEW d, NEW e, IsPosition(e)
    PROVE  ~Precedes(d, e, e)
BY TimesOrdered DEF Precedes, IsPosition

\* What a position precedes, all that precede it precede.
LEMMA PrecedesTransitive ==
    ASSUME NEW d, NEW e, NEW f, NEW g, IsPosition(e), IsPosition(f), IsPosition(g),
           Precedes(d, e, f), Precedes(d, f, g)
    PROVE  Precedes(d, e, g)
<1>1. CASE tsBefore(d, e.time, f.time) /\ tsBefore(d, f.time, g.time)
    BY <1>1, TimesOrdered DEF Precedes, IsPosition
<1>2. CASE e.time = f.time /\ e.id < f.id /\ f.time = g.time /\ f.id < g.id
    BY <1>2 DEF Precedes, IsPosition
<1>3. CASE tsBefore(d, e.time, f.time) /\ f.time = g.time
    BY <1>3 DEF Precedes
<1>4. CASE e.time = f.time /\ tsBefore(d, f.time, g.time)
    BY <1>4 DEF Precedes
<1> QED
    BY <1>1, <1>2, <1>3, <1>4 DEF Precedes

\* Of two different positions one precedes the other.
LEMMA PrecedesTotal ==
    ASSUME NEW d, NEW e, NEW f, IsPosition(e), IsPosition(f), e.id # f.id
    PROVE  Precedes(d, e, f) \/ Precedes(d, f, e)
<1>1. CASE e.time # f.time
    BY <1>1, TimesOrdered DEF Precedes, IsPosition
<1>2. CASE e.time = f.time
    BY <1>2 DEF Precedes, IsPosition
<1> QED
    BY <1>1, <1>2

\* Events a repository can sort: their ids tell them apart.
Sortable(S) ==
    /\ IsFiniteSet(S)
    /\ \A e \in S : IsPosition(e)
    /\ \A e, f \in S : e.id = f.id => e = f

\* What sorting gives: every event once, each preceding the later ones.
LEMMA Sorted ==
    ASSUME NEW d, NEW S, Sortable(S)
    PROVE  /\ sortStoredEvents(d, S) \in Seq(S)
           /\ Len(sortStoredEvents(d, S)) = Cardinality(S)
           /\ \A i, j \in DOMAIN sortStoredEvents(d, S) :
                  i < j => Precedes(d, sortStoredEvents(d, S)[i], sortStoredEvents(d, S)[j])
           /\ \A e \in S : \E i \in DOMAIN sortStoredEvents(d, S) : sortStoredEvents(d, S)[i] = e
<1> DEFINE before == [e \in S |-> {f \in S : Precedes(d, f, e)}]
<1>1. /\ before \in [S -> SUBSET S]
      /\ \A e, f \in S : e \in before[f] <=> Precedes(d, e, f)
    OBVIOUS
<1>2. sortStoredEvents(d, S) = SortedBy(before)
    BY DEF sortStoredEvents
<1> HIDE DEF before
<1>3. Orders(before, S)
    <2>1. \A e \in S : ~Precedes(d, e, e)
        BY PrecedesIrreflexive DEF Sortable
    <2>2. \A e, f, g \in S : Precedes(d, e, f) /\ Precedes(d, f, g) => Precedes(d, e, g)
        BY PrecedesTransitive DEF Sortable
    <2>3. \A e, f \in S : e = f \/ Precedes(d, e, f) \/ Precedes(d, f, e)
        BY PrecedesTotal DEF Sortable
    <2>4. \A e, f \in S : e \in before[f] => before[e] \subseteq before[f]
        BY <1>1, <2>2
    <2> QED
        BY <1>1, <2>1, <2>3, <2>4 DEF Orders
<1>4. PICK s : s = SortedBy(before)
    OBVIOUS
<1>5. /\ s \in Seq(S) /\ Len(s) = Cardinality(S)
      /\ \A i, j \in DOMAIN s : i < j => s[i] \in before[s[j]]
      /\ \A x \in S : \E i \in DOMAIN s : s[i] = x
    BY <1>3, <1>4, SortedLists DEF Sortable, Lists
<1>6. ASSUME NEW i \in DOMAIN s, NEW j \in DOMAIN s, i < j PROVE Precedes(d, s[i], s[j])
    <2>1. s[i] \in S /\ s[j] \in S
        BY <1>5
    <2> QED
        BY <2>1, <1>1, <1>5, <1>6
<1> QED
    BY <1>2, <1>4, <1>5, <1>6

-------------------------------------------------------------------------------
(* Reads: one page. *)

\* What the query asks for beyond the cursor.
Ahead(d, S, q, c) == {e \in S : InWindow(d, e, q) /\ Selects(d, e, q) /\ AfterCursor(d, c, e)}

\* Stored events can be sorted, and so can any selection of them.
LEMMA StoredSortable ==
    ASSUME NEW S \in SUBSET Catalog, IsFiniteSet(S), NEW T \in SUBSET S
    PROVE  Sortable(T)
<1>1. IsFiniteSet(T)
    BY FS_Subset
<1> QED
    BY <1>1, TimelineAssumption DEF Sortable, IsPosition

\* A page holds at least one item.
LEMMA LimitPositive ==
    ASSUME NEW n \in Nat
    PROVE  boundedLimit(n) \in Nat \ {0}
BY TimelineAssumption DEF boundedLimit

\* A page is in order and from the selection; without a next_cursor it is all of it, with one
\* it ends where the cursor points, and what it leaves out is behind that point.
IsPage(d, A, items, next) ==
    /\ items \in Seq(A)
    /\ \A i, j \in DOMAIN items : i < j => Precedes(d, items[i], items[j])
    /\ next = NoCursor => \A e \in A : \E i \in DOMAIN items : items[i] = e
    /\ next # NoCursor =>
           /\ items # <<>> /\ next = encodeCursor(items[Len(items)])
           /\ \A e \in A : (\E i \in DOMAIN items : items[i] = e) \/ AfterCursor(d, next, e)

\* QueryTimeline returns such a page of what is ahead of the cursor.
LEMMA PageOfTimeline ==
    ASSUME NEW d, NEW S \in SUBSET Catalog, IsFiniteSet(S), NEW q \in Queries, NEW c
    PROVE  IsPage(d, Ahead(d, S, q, c), QueryTimeline(d, S, q, c).items, QueryTimeline(d, S, q, c).next)
<1>0. PICK items, next : /\ items = QueryTimeline(d, S, q, c).items
                         /\ next = QueryTimeline(d, S, q, c).next
    OBVIOUS
<1> DEFINE A == Ahead(d, S, q, c)
           s == sortStoredEvents(d, A)
           n == boundedLimit(q.limit)
<1>1. A \in SUBSET S
    BY DEF Ahead
<1>2. Sortable(A)
    BY <1>1, StoredSortable
<1>3. n \in Nat \ {0}
    BY LimitPositive, TimelineAssumption
<1>4. /\ items = IF Len(s) > n THEN SubSeq(s, 1, n) ELSE s
      /\ next = IF Len(s) > n THEN encodeCursor(s[n]) ELSE NoCursor
    BY <1>0 DEF QueryTimeline, Hits, Ahead
<1> HIDE DEF s, n, A
<1>5. PICK m \in Nat : m = Cardinality(A)
    BY <1>2, FS_CardinalityType DEF Sortable
<1>6. s \in Seq(A) /\ Len(s) = m /\ DOMAIN s = 1..m
    BY <1>2, <1>5, Sorted DEF s
<1>7. \A i, j \in 1..m : i < j => Precedes(d, s[i], s[j])
    BY <1>2, <1>6, Sorted DEF s
<1>8. \A e \in A : \E i \in 1..m : s[i] = e
    BY <1>2, <1>6, Sorted DEF s
<1>9. CASE m <= n
    <2>1. items = s /\ next = NoCursor
        BY <1>3, <1>4, <1>6, <1>9
    <2> QED
        BY <2>1, <1>0, <1>6, <1>7, <1>8 DEF A, IsPage
<1>10. CASE m > n
    <2>1. items = SubSeq(s, 1, n) /\ next = encodeCursor(s[n])
        BY <1>4, <1>6, <1>10
    <2>2. /\ items \in Seq(A) /\ Len(items) = n
          /\ \A i \in 1..n : items[i] = s[i]
        BY <2>1, <1>3, <1>6, <1>10, SubSeqProperties
    <2>3. \A i, j \in DOMAIN items : i < j => Precedes(d, items[i], items[j])
        BY <2>2, <1>3, <1>7, <1>10
    <2>4. items # <<>> /\ next = encodeCursor(items[Len(items)])
        <3>1. n \in 1..n /\ Len(items) > 0
            BY <2>2, <1>3
        <3>2. items[Len(items)] = s[n]
            BY <3>1, <2>2
        <3>3. items # <<>>
            BY <3>1
        <3> QED
            BY <3>2, <3>3, <2>1, Zenon
    <2>5. s[n] \in A /\ s[n] \in Catalog
        BY <1>1, <1>3, <1>6, <1>10
    <2>6. next # NoCursor
        BY <2>1, <2>5, TimelineAssumption DEF encodeCursor
    <2>7. ASSUME NEW e \in A
          PROVE  (\E i \in DOMAIN items : items[i] = e) \/ AfterCursor(d, next, e)
        <3>1. PICK k \in 1..m : s[k] = e
            BY <1>8
        <3>2. CASE k <= n
            <4>1. k \in DOMAIN items /\ items[k] = e
                BY <3>1, <3>2, <2>2, <1>3
            <4> QED
                BY <4>1
        <3>3. CASE k > n
            <4>1. Precedes(d, s[n], e)
                BY <3>1, <3>3, <1>3, <1>7, <1>10
            <4> QED
                BY <4>1, <2>1 DEF AfterCursor, Precedes, encodeCursor
        <3> QED
            BY <1>3, <3>2, <3>3
    <2> QED
        BY <2>2, <2>3, <2>4, <2>6, <2>7, <1>0 DEF A, IsPage
<1> QED
    BY <1>3, <1>9, <1>10

-------------------------------------------------------------------------------
(* Reads: the walk from page to page. *)

\* Where a walk starts.
LEMMA TimelineInitInv == TimelineInit => TimelineIInv
BY FS_EmptySet DEF TimelineInit, TimelineIInv, TimelineTypeOK, Dialects, DeliveredInOrder, DeliveredSet,
   CursorAtEnd, NothingSkipped

\* The invariant when a page is appended: FirstPage with the stored events as what is owed
\* and nothing delivered, NextPage with what is owed ahead of the cursor.
LEMMA PageInv ==
    ASSUME TimelineIInv, NEW c, Page(c), NEW owed, base' = owed, owed \subseteq stored,
           UNCHANGED <<dialect, stored, query>>,
           \A e \in DeliveredSet, f \in stored : AfterCursor(dialect, c, f) => Precedes(dialect, e, f),
           \A e \in owed : Wanted(e) => e \in DeliveredSet \/ AfterCursor(dialect, c, e)
    PROVE  TimelineIInv'
<1>1. PICK items, next : /\ items = QueryTimeline(dialect, stored, query, c).items
                         /\ next = QueryTimeline(dialect, stored, query, c).next
    OBVIOUS
<1> DEFINE A == Ahead(dialect, stored, query, c)
           s == delivered \o items
<1>2. /\ delivered' = s /\ cursor' = next
      /\ status' = IF next = NoCursor THEN "done" ELSE "paging"
    BY <1>1 DEF Page
<1>3. /\ stored \in SUBSET Catalog /\ IsFiniteSet(stored) /\ query \in Queries
      /\ dialect \in Dialects /\ delivered \in Seq(stored)
    BY DEF TimelineIInv, TimelineTypeOK
<1>4a. IsPage(dialect, A, items, next)
    BY <1>1, <1>3, PageOfTimeline
<1>4. /\ items \in Seq(A)
      /\ \A i, j \in DOMAIN items : i < j => Precedes(dialect, items[i], items[j])
      /\ next = NoCursor => \A e \in A : \E i \in DOMAIN items : items[i] = e
      /\ next # NoCursor =>
             /\ items # <<>> /\ next = encodeCursor(items[Len(items)])
             /\ \A e \in A : (\E i \in DOMAIN items : items[i] = e) \/ AfterCursor(dialect, next, e)
    <2> HIDE DEF A
    <2> QED
        BY <1>4a DEF IsPage
<1>5. \A e \in A : e \in stored /\ Wanted(e) /\ AfterCursor(dialect, c, e)
    BY DEF Ahead, Wanted
<1>6. \A e \in stored : Wanted(e) /\ AfterCursor(dialect, c, e) => e \in A
    BY DEF Ahead, Wanted
<1>7. \A e : Wanted(e)' = Wanted(e)
    BY DEF Wanted
<1> HIDE DEF A
<1>8. items \in Seq(stored)
    BY <1>4, <1>5
<1>9. /\ s \in Seq(stored) /\ Len(s) = Len(delivered) + Len(items)
      /\ \A i \in 1..Len(s) : s[i] = IF i <= Len(delivered) THEN delivered[i] ELSE items[i - Len(delivered)]
    BY <1>3, <1>8, ConcatProperties
<1> HIDE DEF s
<1>10. PICK m \in Nat, k \in Nat : m = Len(delivered) /\ k = Len(items)
    BY <1>3, <1>4
<1>11. /\ DOMAIN delivered = 1..m /\ DOMAIN items = 1..k /\ DOMAIN s = 1..(m + k)
       /\ \A i \in 1..m : s[i] = delivered[i]
       /\ \A i \in 1..k : s[m + i] = items[i]
       /\ \A i \in 1..(m + k) : i \in 1..m \/ (i - m \in 1..k /\ s[i] = items[i - m])
    <2>1. DOMAIN delivered = 1..m /\ DOMAIN items = 1..k /\ DOMAIN s = 1..(m + k) /\ Len(s) = m + k
        BY <1>3, <1>4, <1>9, <1>10
    <2>2. ASSUME NEW i \in 1..m PROVE s[i] = delivered[i]
        BY <1>9, <1>10, <2>1
    <2>3. ASSUME NEW i \in 1..k PROVE s[m + i] = items[i]
        <3>1. m + i \in 1..(m + k) /\ ~(m + i <= m) /\ (m + i) - m = i
            BY <2>3
        <3> QED
            BY <3>1, <1>9, <1>10, <2>1
    <2>4. ASSUME NEW i \in 1..(m + k), i \notin 1..m PROVE i - m \in 1..k /\ s[i] = items[i - m]
        <3>1. i - m \in 1..k /\ ~(i <= m)
            BY <2>4
        <3> QED
            BY <3>1, <1>9, <1>10, <2>1
    <2> QED
        BY <2>1, <2>2, <2>3, <2>4
<1>12. DeliveredSet' = {s[i] : i \in 1..(m + k)}
    BY <1>2, <1>11 DEF DeliveredSet
<1>13. ASSUME NEW e \in DeliveredSet PROVE e \in DeliveredSet'
    <2>1. PICK i \in 1..m : e = delivered[i]
        BY <1>11, <1>13 DEF DeliveredSet
    <2>2. i \in 1..(m + k) /\ e = s[i]
        BY <2>1, <1>11
    <2> QED
        BY <2>2, <1>12
<1>14. ASSUME NEW i \in DOMAIN items PROVE items[i] \in DeliveredSet'
    <2>1. m + i \in 1..(m + k) /\ s[m + i] = items[i]
        BY <1>11, <1>14
    <2> QED
        BY <2>1, <1>12
<1>15. ASSUME NEW e \in DeliveredSet' PROVE e \in DeliveredSet \/ e \in A
    <2>1. PICK i \in 1..(m + k) : e = s[i]
        BY <1>12, <1>15
    <2> QED
        <3>1. CASE i \in 1..m
            BY <3>1, <2>1, <1>11 DEF DeliveredSet
        <3>2. CASE i \notin 1..m
            <4>1. i - m \in DOMAIN items /\ e = items[i - m]
                BY <3>2, <2>1, <1>11
            <4> QED
                BY <4>1, <1>4
        <3> QED
            BY <3>1, <3>2
<1>16. TimelineTypeOK'
    <2>1. cursor' \in {NoCursor} \cup {[time |-> e.time, id |-> e.id] : e \in stored}
        <3>1. CASE next = NoCursor
            BY <3>1, <1>2
        <3>2. CASE next # NoCursor
            <4>1. items[Len(items)] \in stored
                BY <3>2, <1>4, <1>8
            <4> QED
                BY <4>1, <3>2, <1>2, <1>4 DEF encodeCursor
        <3> QED
            BY <3>1, <3>2
    <2> QED
        BY <2>1, <1>2, <1>3, <1>9 DEF TimelineTypeOK
<1>17. DeliveredInOrder'
    <2>1. \A e \in DeliveredSet' : Wanted(e)'
        BY <1>5, <1>7, <1>15 DEF TimelineIInv, DeliveredInOrder
    <2>2. ASSUME NEW i \in 1..(m + k), NEW j \in 1..(m + k), i < j PROVE Precedes(dialect, s[i], s[j])
        <3>1. CASE i \in 1..m /\ j \in 1..m
            BY <3>1, <2>2, <1>11 DEF TimelineIInv, DeliveredInOrder
        <3>2. CASE i \in 1..m /\ j \notin 1..m
            <4>1. s[i] \in DeliveredSet
                BY <3>2, <1>11 DEF DeliveredSet
            <4>2. s[j] \in A
                <5>1. j - m \in DOMAIN items /\ s[j] = items[j - m]
                    BY <3>2, <1>11
                <5> QED
                    BY <5>1, <1>4
            <4> QED
                BY <4>1, <4>2, <1>5
        <3>3. CASE i \notin 1..m
            <4>1. j \notin 1..m
                BY <3>3, <2>2
            <4>2. /\ i - m \in 1..k /\ j - m \in 1..k /\ i - m < j - m
                  /\ s[i] = items[i - m] /\ s[j] = items[j - m]
                BY <3>3, <4>1, <2>2, <1>11
            <4>3. PICK p \in 1..k, q \in 1..k : p = i - m /\ q = j - m
                BY <4>2
            <4>4. p < q /\ s[i] = items[p] /\ s[j] = items[q]
                BY <4>2, <4>3
            <4>5. Precedes(dialect, items[p], items[q])
                BY <4>4, <1>4, <1>11
            <4> QED
                BY <4>4, <4>5
        <3> QED
            BY <3>1, <3>2, <3>3
    <2> QED
        BY <2>1, <2>2, <1>2, <1>11 DEF DeliveredInOrder
<1>18. CursorAtEnd'
    <2> SUFFICES ASSUME next # NoCursor PROVE s # <<>> /\ next = encodeCursor(s[Len(s)])
        BY <1>2 DEF CursorAtEnd
    <2>1. k # 0 /\ k \in 1..k
        BY <1>4, <1>10
    <2>2. s[Len(s)] = items[k] /\ Len(s) # 0
        BY <2>1, <1>9, <1>10, <1>11
    <2> QED
        BY <2>1, <2>2, <1>4, <1>10
<1>19. NothingSkipped'
    <2> SUFFICES ASSUME NEW e \in owed, Wanted(e)
                 PROVE  e \in DeliveredSet' \/ (status' = "paging" /\ AfterCursor(dialect, next, e))
        BY <1>2, <1>7 DEF NothingSkipped
    <2>1. CASE e \in DeliveredSet
        BY <2>1, <1>13
    <2>2. CASE AfterCursor(dialect, c, e)
        <3>1. e \in A
            BY <2>2, <1>6
        <3> QED
            BY <3>1, <1>2, <1>4, <1>14
    <2> QED
        BY <2>1, <2>2
<1> QED
    BY <1>3, <1>16, <1>17, <1>18, <1>19 DEF TimelineIInv

\* Every step of the client and of the writers keeps the invariant.
LEMMA TimelineNextInv == TimelineIInv /\ [TimelineNext]_timelineVars => TimelineIInv'
<1> SUFFICES ASSUME TimelineIInv, [TimelineNext]_timelineVars PROVE TimelineIInv'
    OBVIOUS
<1>1. ASSUME NEW e \in Catalog, Ingest(e) PROVE TimelineIInv'
    <2>1. stored \subseteq stored' /\ stored' \subseteq Catalog /\ IsFiniteSet(stored')
        BY <1>1, FS_AddElement DEF Ingest, TimelineIInv, TimelineTypeOK
    <2>2. delivered \in Seq(stored')
        BY <2>1 DEF TimelineIInv, TimelineTypeOK
    <2>3. TimelineTypeOK'
        BY <1>1, <2>1, <2>2 DEF Ingest, TimelineIInv, TimelineTypeOK
    <2>4. DeliveredInOrder' /\ CursorAtEnd' /\ NothingSkipped'
        BY <1>1 DEF Ingest, TimelineIInv, DeliveredInOrder, CursorAtEnd, NothingSkipped, DeliveredSet, Wanted
    <2> QED
        BY <2>1, <2>3, <2>4 DEF TimelineIInv
<1>2. CASE FirstPage
    <2>1. delivered = <<>> /\ DeliveredSet = {}
        BY <1>2 DEF FirstPage, TimelineIInv, CursorAtEnd, DeliveredSet
    <2>2. \A e : AfterCursor(dialect, NoCursor, e)
        BY DEF AfterCursor
    <2> QED
        BY <1>2, <2>1, <2>2, PageInv DEF FirstPage
<1>3. CASE NextPage
    <2>1. /\ status = "paging" /\ delivered # <<>> /\ delivered \in Seq(stored)
          /\ cursor = encodeCursor(delivered[Len(delivered)])
          /\ stored \subseteq Catalog /\ base \subseteq stored
        BY <1>3 DEF NextPage, TimelineIInv, TimelineTypeOK, CursorAtEnd
    <2>2. PICK m \in Nat : m = Len(delivered)
        BY <2>1
    <2>3. m \in 1..m /\ DOMAIN delivered = 1..m
        BY <2>1, <2>2
    <2>4. PICK l : l = delivered[m]
        OBVIOUS
    <2>5. l \in Catalog /\ cursor = encodeCursor(l) /\ cursor # NoCursor
        BY <2>1, <2>2, <2>3, <2>4, TimelineAssumption DEF encodeCursor
    <2>6. \A f : AfterCursor(dialect, cursor, f) <=> Precedes(dialect, l, f)
        BY <2>5 DEF AfterCursor, Precedes, encodeCursor
    <2>7. ASSUME NEW e \in DeliveredSet, NEW f \in stored, AfterCursor(dialect, cursor, f)
          PROVE  Precedes(dialect, e, f)
        <3>1. PICK i \in 1..m : e = delivered[i]
            BY <2>3 DEF DeliveredSet
        <3>2. CASE i = m
            BY <3>1, <3>2, <2>4, <2>6, <2>7
        <3>3. CASE i # m
            <4>1. Precedes(dialect, e, l)
                BY <3>1, <3>3, <2>3, <2>4 DEF TimelineIInv, DeliveredInOrder
            <4>2. IsPosition(e) /\ IsPosition(l) /\ IsPosition(f)
                BY <3>1, <2>1, <2>3, <2>5, TimelineAssumption DEF IsPosition
            <4> QED
                BY <4>1, <4>2, <2>6, <2>7, PrecedesTransitive
        <3> QED
            BY <3>2, <3>3
    <2>8. \A e \in base : Wanted(e) => e \in DeliveredSet \/ AfterCursor(dialect, cursor, e)
        BY DEF TimelineIInv, NothingSkipped
    <2> QED
        BY <1>3, <2>1, <2>7, <2>8, PageInv DEF NextPage
<1>4. CASE UNCHANGED timelineVars
    BY <1>4 DEF timelineVars, TimelineIInv, TimelineTypeOK, DeliveredInOrder, CursorAtEnd, NothingSkipped,
       DeliveredSet, Wanted
<1> QED
    BY <1>1, <1>2, <1>3, <1>4 DEF TimelineNext

-------------------------------------------------------------------------------
(* Reads: what the client sees. *)

\* Every state of the walk and every page has its type: a cursor is that of a stored event,
\* what is delivered is stored, and a walk that is over has no cursor.
THEOREM TimelineTyped == TimelineSpec => []TimelineTypeOK
<1>1. TimelineIInv => TimelineTypeOK
    BY DEF TimelineIInv
<1> QED
    BY <1>1, TimelineInitInv, TimelineNextInv, PTL DEF TimelineSpec

\* Between seconds text and time agree, so they agree on the window but for its edges.
LEMMA WindowsAgree ==
    ASSUME TimelineIInv, NEW e \in stored
    PROVE  OnEdge(e) \/ (InWindow(dialect, e, query) <=> InWindow("memory", e, query))
<1>1. /\ e.time.sec \in Nat /\ query.from.sec \in Nat /\ query.to.sec \in Nat
    BY TimelineAssumption DEF TimelineIInv, TimelineTypeOK, Times
<1>2. CASE dialect # "sqlite"
    BY <1>2 DEF InWindow, tsBefore
<1>3. CASE dialect = "sqlite" /\ e.time.sec # query.from.sec /\ e.time.sec # query.to.sec
    BY <1>1, <1>3 DEF InWindow, tsBefore, TextBefore, TimeBefore
<1> QED
    BY <1>2, <1>3 DEF OnEdge

\* A walk that is over has delivered all that was there when it began and nothing else, in
\* whatever order events were stored meanwhile, for every catalog, query and page size.
THEOREM TimelinePagesComplete == TimelineSpec => []PagesComplete
<1>1. ASSUME TimelineIInv PROVE PagesComplete
    <2>1. \A e \in DeliveredSet : e \in stored /\ Wanted(e)
        BY <1>1 DEF TimelineIInv, TimelineTypeOK, DeliveredInOrder, DeliveredSet
    <2>2. \A e \in base : e \in stored
        BY <1>1 DEF TimelineIInv, TimelineTypeOK
    <2>3. \A e \in DeliveredSet : InWindow("memory", e, query) \/ OnEdge(e)
        BY <1>1, <2>1, WindowsAgree DEF Wanted
    <2>4. ASSUME status = "done", NEW e \in base,
                 InWindow("memory", e, query), Selects(dialect, e, query), ~OnEdge(e)
          PROVE  e \in DeliveredSet
        <3>1. Wanted(e)
            BY <1>1, <2>2, <2>4, WindowsAgree DEF Wanted
        <3> QED
            BY <1>1, <2>4, <3>1 DEF TimelineIInv, NothingSkipped
    <2> QED
        BY <2>3, <2>4 DEF PagesComplete
<1> QED
    BY <1>1, TimelineInitInv, TimelineNextInv, PTL DEF TimelineSpec

\* Nothing is delivered twice and all in order, over any number of pages and whatever is
\* stored between them; on SQLite the order is that of the seconds.
THEOREM TimelineChronological == TimelineSpec => []Chronological
<1>1. ASSUME TimelineIInv PROVE Chronological
    <2> SUFFICES ASSUME NEW i \in DOMAIN delivered, NEW j \in DOMAIN delivered, i < j
                 PROVE  /\ delivered[i] # delivered[j]
                        /\ \/ ~TimeBefore(delivered[j].time, delivered[i].time)
                           \/ dialect = "sqlite" /\ delivered[i].time.sec = delivered[j].time.sec
        BY DEF Chronological
    <2>1. PICK e, f : e = delivered[i] /\ f = delivered[j]
        OBVIOUS
    <2>2. Precedes(dialect, e, f)
        BY <1>1, <2>1 DEF TimelineIInv, DeliveredInOrder
    <2>3. IsPosition(e) /\ IsPosition(f)
        BY <1>1, <2>1, TimelineAssumption DEF TimelineIInv, TimelineTypeOK, IsPosition
    <2>4. e # f
        BY <2>2, <2>3, PrecedesIrreflexive
    <2>5. CASE dialect # "sqlite"
        <3>1. TimeBefore(e.time, f.time) \/ e.time = f.time
            BY <2>2, <2>5 DEF Precedes, tsBefore
        <3>2. e.time \in Times /\ f.time \in Times
            BY <2>3 DEF IsPosition
        <3>3. /\ ~tsBefore("memory", e.time, e.time)
              /\ tsBefore("memory", e.time, f.time) /\ tsBefore("memory", f.time, e.time)
                     => tsBefore("memory", e.time, e.time)
            BY <3>2, TimesOrdered
        <3>4. ~TimeBefore(f.time, e.time)
            BY <3>1, <3>3 DEF tsBefore
        <3> QED
            BY <3>4, <2>1, <2>4
    <2>6. CASE dialect = "sqlite" /\ e.time.sec # f.time.sec
        <3>1. e.time.sec < f.time.sec
            BY <2>2, <2>6 DEF Precedes, tsBefore, TextBefore
        <3>2. e.time.sec \in Nat /\ f.time.sec \in Nat
            BY <2>3 DEF IsPosition, Times
        <3>3. ~TimeBefore(f.time, e.time)
            <4>1. \A m, n \in Nat : m < n => ~(n < m) /\ n # m
                OBVIOUS
            <4>2. ~(f.time.sec < e.time.sec) /\ f.time.sec # e.time.sec
                BY <3>1, <3>2, <4>1, Zenon
            <4> QED
                BY <4>2, Zenon DEF TimeBefore
        <3> QED
            BY <3>3, <2>1, <2>4
    <2> QED
        BY <2>1, <2>4, <2>5, <2>6
<1> QED
    BY <1>1, TimelineInitInv, TimelineNextInv, PTL DEF TimelineSpec

\* Fractions of one length are in the same order as text and as time.
LEMMA SameLengthSameOrder ==
    ASSUME NEW f, NEW g, Len(f) = Len(g), NEW n \in Nat, Len(f) = n
    PROVE  FracBefore(f, g, TRUE) <=> FracBefore(f, g, FALSE)
BY DEF FracBefore

\* Times of one precision are in the same order for every repository.
LEMMA PlainOrder ==
    ASSUME TimelineIInv, Plain, NEW t \in TimesSeen, NEW u \in TimesSeen, NEW d
    PROVE  tsBefore(d, t, u) <=> tsBefore("memory", t, u)
<1>1. TimesSeen \subseteq Times
    BY TimelineAssumption DEF TimesSeen, TimelineIInv, TimelineTypeOK
<1>2. t.frac \in Seq(0..9) /\ Len(t.frac) \in Nat
    BY <1>1 DEF Times
<1>3. Len(t.frac) = Len(u.frac)
    BY DEF Plain
<1>4. FracBefore(t.frac, u.frac, TRUE) <=> FracBefore(t.frac, u.frac, FALSE)
    BY <1>2, <1>3, SameLengthSameOrder
<1> QED
    BY <1>4 DEF tsBefore, TextBefore, TimeBefore

\* Sorting by the same order gives the same sequence.
LEMMA SameSort ==
    ASSUME NEW d, NEW S, \A e, f \in S : Precedes(d, e, f) <=> Precedes("memory", e, f)
    PROVE  sortStoredEvents(d, S) = sortStoredEvents("memory", S)
<1>1. ASSUME NEW e \in S PROVE {f \in S : Precedes(d, f, e)} = {f \in S : Precedes("memory", f, e)}
    OBVIOUS
<1>2. [e \in S |-> {f \in S : Precedes(d, f, e)}] = [e \in S |-> {f \in S : Precedes("memory", f, e)}]
    BY <1>1
<1> QED
    BY <1>2 DEF sortStoredEvents

\* A plain value has one text, and is found by it in every repository.
LEMMA PlainText ==
    ASSUME NEW v \in Values, PlainValue(v), NEW d \in Dialects, NEW want
    PROVE  /\ ExtensionText(d, v) = ExtensionText("memory", v)
           /\ ExtensionIs(d, v, want) <=> ExtensionIs("memory", v, want)
<1>1. ExtensionText(d, v) = ExtensionText("memory", v)
    BY DEF ExtensionText, PlainValue
<1> QED
    BY <1>1 DEF ExtensionIs, PlainValue

\* The extensions of a stored event.
LEMMA StoredValues ==
    ASSUME TimelineIInv, NEW e \in stored
    PROVE  /\ e.subject \in Text /\ e.ext \in [Keys -> Values]
           /\ query.key # Blank => query.key \in ValidKeys
           /\ ValidKeys \subseteq Keys /\ "cluster" \in ValidKeys /\ "namespace" \in ValidKeys
BY TextAssumption DEF TimelineIInv, TimelineTypeOK

\* A plain event is selected by all repositories or by none.
LEMMA PlainSelects ==
    ASSUME TimelineIInv, NEW d \in Dialects, NEW e \in stored, PlainEvent(e)
    PROVE  Selects(d, e, query) <=> Selects("memory", e, query)
<1>1. e.obs \in {"absent", "true", "false"}
    BY DEF PlainEvent
<1>2. Supporting(d, e) <=> Supporting("memory", e)
    BY <1>1 DEF Supporting, Dialects
<1>3. ASSUME NEW k \in ValidKeys, NEW want
      PROVE  AllowsExtension(d, want, e.ext[k]) <=> AllowsExtension("memory", want, e.ext[k])
    <2>1. e.ext[k] \in Values /\ PlainValue(e.ext[k])
        BY StoredValues DEF PlainEvent
    <2> QED
        BY <2>1, PlainText DEF AllowsExtension
<1>4. HasSubject(d, e) <=> HasSubject("memory", e)
    BY TextAssumption DEF HasSubject, PlainEvent
<1>5. /\ AllowsExtension(d, query.cluster, e.ext["cluster"]) <=> AllowsExtension("memory", query.cluster, e.ext["cluster"])
      /\ AllowsExtension(d, query.namespace, e.ext["namespace"]) <=> AllowsExtension("memory", query.namespace, e.ext["namespace"])
    BY <1>3, StoredValues
<1>6. query.key # Blank => (AllowsExtension(d, query.value, e.ext[query.key]) <=> AllowsExtension("memory", query.value, e.ext[query.key]))
    BY <1>3, StoredValues
<1> QED
    BY <1>2, <1>4, <1>5, <1>6 DEF Selects

\* On plain data the selection, the order and so the page do not depend on the repository.
LEMMA PlainPages ==
    ASSUME TimelineIInv, Plain, NEW d \in Dialects,
           NEW c \in {cursor} \cup {encodeCursor(e) : e \in stored}
    PROVE  QueryTimeline(d, stored, query, c) = QueryTimeline("memory", stored, query, c)
<1>1. \A e \in stored : e.time \in TimesSeen
    BY DEF TimesSeen
<1>2. query.from \in TimesSeen /\ query.to \in TimesSeen
    BY DEF TimesSeen
<1>3. \A t, u \in TimesSeen : tsBefore(d, t, u) <=> tsBefore("memory", t, u)
    BY PlainOrder
<1>4. \A e, f \in stored : Precedes(d, e, f) <=> Precedes("memory", e, f)
    BY <1>1, <1>3 DEF Precedes
<1>5. \A e \in stored : InWindow(d, e, query) <=> InWindow("memory", e, query)
    BY <1>1, <1>2, <1>3 DEF InWindow
<1>6. \A e \in stored : Selects(d, e, query) <=> Selects("memory", e, query)
    BY PlainSelects DEF Plain
<1>7. ASSUME NEW e \in stored PROVE AfterCursor(d, c, e) <=> AfterCursor("memory", c, e)
    <2>1. CASE c = NoCursor
        BY <2>1 DEF AfterCursor
    <2>2. CASE c # NoCursor
        <3>1. PICK f \in stored : c = [time |-> f.time, id |-> f.id]
            BY <2>2 DEF TimelineIInv, TimelineTypeOK, encodeCursor
        <3>2. c.time = f.time /\ c.time \in TimesSeen
            BY <3>1, <1>1
        <3> QED
            BY <3>2, <1>1, <1>3 DEF AfterCursor, Precedes
    <2> QED
        BY <2>1, <2>2
<1>8. Ahead(d, stored, query, c) = Ahead("memory", stored, query, c)
    BY <1>5, <1>6, <1>7 DEF Ahead
<1>9. sortStoredEvents(d, Ahead(d, stored, query, c)) = sortStoredEvents("memory", Ahead(d, stored, query, c))
    <2>1. \A e \in Ahead(d, stored, query, c) : e \in stored
        BY DEF Ahead
    <2> QED
        BY <2>1, <1>4, SameSort
<1>10. Hits(d, stored, query, c) = Hits("memory", stored, query, c)
    BY <1>8, <1>9 DEF Hits, Ahead
<1> QED
    BY <1>10 DEF QueryTimeline

\* On plain data the events of an extension do not depend on the repository.
LEMMA PlainByExtension ==
    ASSUME TimelineIInv, Plain, NEW d \in Dialects, NEW k \in ValidKeys, NEW v
    PROVE  EventsByExtension(d, stored, k, v) = EventsByExtension("memory", stored, k, v)
<1> DEFINE S == {e \in stored : HasExtension(d, e, k, v)}
<1>1. \A e \in stored : e.time \in TimesSeen
    BY DEF TimesSeen
<1>2. \A t, u \in TimesSeen : tsBefore(d, t, u) <=> tsBefore("memory", t, u)
    BY PlainOrder
<1>3. \A e, f \in S : Precedes(d, e, f) <=> Precedes("memory", e, f)
    BY <1>1, <1>2 DEF Precedes
<1>4. sortStoredEvents(d, S) = sortStoredEvents("memory", S)
    <2> HIDE DEF S
    <2> QED
        BY <1>3, SameSort
<1>5. ASSUME NEW e \in stored PROVE HasExtension(d, e, k, v) <=> HasExtension("memory", e, k, v)
    <2>1. e.ext[k] \in Values /\ PlainValue(e.ext[k])
        BY StoredValues DEF Plain, PlainEvent
    <2>2. ExtensionIs(d, e.ext[k], v) <=> ExtensionIs("memory", e.ext[k], v)
        BY <2>1, PlainText
    <2>3. ExtensionIs(d, e.ext[k], v) => e.ext[k].kind = "string"
        BY <2>1 DEF ExtensionIs, PlainValue
    <2> QED
        BY <2>2, <2>3 DEF HasExtension
<1>6. S = {e \in stored : HasExtension("memory", e, k, v)}
    BY <1>5
<1> QED
    BY <1>4, <1>6 DEF EventsByExtension

\* On plain data whose names do not run together the subjects do not depend on the repository.
LEMMA PlainSubjects ==
    ASSUME TimelineIInv, Plain, Unambiguous, NEW d \in Dialects,
           NEW out \in SUBSET Subjects("memory", stored), ListSubjects("memory", stored, out)
    PROVE  ListSubjects(d, stored, {s \in out : d = "memory" \/ s[1] # Blank})
<1>1. CASE d = "memory"
    <2>1. {s \in out : d = "memory" \/ s[1] # Blank} = out
        BY <1>1
    <2> QED
        BY <2>1, <1>1
<1>2. CASE d # "memory"
    <2> DEFINE kept == {s \in out : d = "memory" \/ s[1] # Blank}
               T == {e \in stored : HasSubject(d, e)}
    <2>1. out = Subjects("memory", stored)
        BY DEF ListSubjects, Unambiguous
    <2>2. ASSUME NEW e \in stored
          PROVE  /\ SubjectInfo(d, e) = SubjectInfo("memory", e)
                 /\ SubjectInfo(d, e)[1] = e.subject
                 /\ HasSubject(d, e) <=> e.subject # Blank
        <3>1. /\ e.ext["cluster"] \in Values /\ PlainValue(e.ext["cluster"])
              /\ e.ext["namespace"] \in Values /\ PlainValue(e.ext["namespace"])
            BY StoredValues DEF Plain, PlainEvent
        <3>2. /\ ExtensionText(d, e.ext["cluster"]) = ExtensionText("memory", e.ext["cluster"])
              /\ ExtensionText(d, e.ext["namespace"]) = ExtensionText("memory", e.ext["namespace"])
            BY <3>1, PlainText
        <3>3. HasSubject(d, e) <=> e.subject # Blank
            BY <1>2, TextAssumption DEF HasSubject, Plain, PlainEvent
        <3> QED
            BY <3>2, <3>3 DEF SubjectInfo
    <2>3. kept \subseteq Subjects(d, T)
        BY <1>2, <2>1, <2>2 DEF Subjects
    <2>4. Subjects(d, T) \subseteq kept
        BY <1>2, <2>1, <2>2 DEF Subjects
    <2> QED
        BY <1>2, <2>3, <2>4 DEF ListSubjects
<1> QED
    BY <1>1, <1>2

\* The map, PostgreSQL and SQLite are interchangeable on times of one precision, flags that
\* are booleans and extensions that are plain strings, for every catalog and request; and an
\* event they do not select alike has a value that is not plain.
THEOREM TimelineRepositoriesAgree == TimelineSpec => []RepositoriesAgree
<1>1. ASSUME TimelineIInv PROVE RepositoriesAgree
    <2>1. ASSUME NEW d \in Dialects, NEW e \in stored, Selects(d, e, query) # Selects("memory", e, query)
          PROVE  ~PlainEvent(e)
        <3>1. PlainEvent(e) => (Selects(d, e, query) <=> Selects("memory", e, query))
            BY <1>1, PlainSelects
        <3>2. Selects(d, e, query) \in BOOLEAN /\ Selects("memory", e, query) \in BOOLEAN
            BY DEF Selects
        <3> QED
            BY <2>1, <3>1, <3>2
    <2> QED
        BY <1>1, <2>1, PlainPages, PlainByExtension, PlainSubjects DEF RepositoriesAgree
<1> QED
    BY <1>1, TimelineInitInv, TimelineNextInv, PTL DEF TimelineSpec

-------------------------------------------------------------------------------
(* Writes. *)

\* Init establishes the inductive invariant.
LEMMA InitIInv == Init => IInv
  BY ConstantsDistinct
  DEF Init, IInv, TypeOK, InTransaction, RowLocks, SeenStays, AnsweredValid,
      RepliesTruthful, AcceptedOnce, Phases, Pending,
      Contract!Init, Contract!TypeOK, Contract!Replies, Contract!Pending

USE DEF Contract!TypeOK, Contract!Replies, Contract!Pending, Contract!Requests,
        Contract!validateStoredEvent, Pending, Phases

\* A new request starts outside of any transaction and disturbs no other call.
LEMMA CallIInv ==
  ASSUME IInv, NEW c \in Clients, NEW r \in Contract!Requests, Call(c, r)
  PROVE  IInv'
  BY ConstantsDistinct
  DEF IInv, TypeOK, InTransaction, RowLocks, SeenStays, AnsweredValid,
      RepliesTruthful, AcceptedOnce, Call, Contract!Call

\* The steps of a transaction that leave the table and the row locks alone.
LEMMA ReadIInv ==
  ASSUME IInv, NEW c \in Clients,
         \/ Reject(c) \/ BeginTx(c) \/ getEventTx(c)
         \/ AnswerDuplicate(c) \/ AnswerConflict(c) \/ InsertViolatesKey(c)
  PROVE  IInv'
  BY ConstantsDistinct
  DEF IInv, TypeOK, InTransaction, RowLocks, SeenStays, AnsweredValid,
      RepliesTruthful, AcceptedOnce, Reject, Contract!Reject, BeginTx, getEventTx,
      AnswerDuplicate, AnswerConflict, InsertViolatesKey, CanInsert, Answer

\* INSERT takes the row lock of a key that is free in the table and unlocked.
LEMMA InsertIInv ==
  ASSUME IInv, NEW c \in Clients, Insert(c)
  PROVE  IInv'
  BY ConstantsDistinct
  DEF IInv, TypeOK, InTransaction, RowLocks, SeenStays, AnsweredValid,
      RepliesTruthful, AcceptedOnce, Insert, CanInsert

\* Releasing the locks of some clients leaves each key unlocked or with its old owner.
LEMMA ReleasedType ==
  ASSUME TypeOK, NEW S \in SUBSET Clients
  PROVE  /\ Released(S) \in [Ids -> Clients \cup {NoClient}]
         /\ \A id \in Ids : Released(S)[id] = IF owner[id] \in S THEN NoClient ELSE owner[id]
  BY DEF TypeOK, Released

\* A COMMIT fills a key that no other transaction holds and that nobody has seen filled,
\* whether its answer arrives or not.
LEMMA CommitIInv ==
  ASSUME IInv, NEW c \in Clients, Commit(c) \/ CommitAckLost(c)
  PROVE  IInv'
  <1> DEFINE i == req[c].id
  <1>1. i \in Ids /\ events[i] = NoHash /\ owner[i] = c /\ req[c].hash \in Hashes
    BY ConstantsDistinct
    DEF IInv, TypeOK, InTransaction, RowLocks, Commit, CommitAckLost, Store
  <1>2. /\ owner' \in [Ids -> Clients \cup {NoClient}]
        /\ \A id \in Ids : owner'[id] = IF owner[id] = c THEN NoClient ELSE owner[id]
    BY ReleasedType DEF IInv, Commit, CommitAckLost, Store
  <1>3. TypeOK'
    BY <1>1, <1>2, ConstantsDistinct DEF IInv, TypeOK, Commit, CommitAckLost, Store, Answer, Fault
  <1>4. InTransaction'
    BY <1>1 DEF IInv, TypeOK, InTransaction, Commit, CommitAckLost, Store, Answer
  <1>5. RowLocks'
    BY <1>1, <1>2, ConstantsDistinct
    DEF IInv, TypeOK, InTransaction, RowLocks, Commit, CommitAckLost, Store, Answer
  <1>6. SeenStays'
    BY <1>1, ConstantsDistinct
    DEF IInv, TypeOK, InTransaction, SeenStays, Commit, CommitAckLost, Store, Answer
  <1>7. AnsweredValid'
    BY <1>1, ConstantsDistinct
    DEF IInv, TypeOK, InTransaction, AnsweredValid, Commit, CommitAckLost, Store, Answer
  <1>8. RepliesTruthful'
    BY <1>1, ConstantsDistinct
    DEF IInv, TypeOK, AnsweredValid, RepliesTruthful, Commit, CommitAckLost, Store, Answer
  <1>9. AcceptedOnce'
    BY <1>1, ConstantsDistinct
    DEF IInv, TypeOK, AcceptedOnce, Commit, CommitAckLost, Store, Answer
  <1> QED BY <1>3, <1>4, <1>5, <1>6, <1>7, <1>8, <1>9 DEF IInv

\* A failing call gives up its row lock and answers an error.
LEMMA AbortIInv ==
  ASSUME IInv, NEW c \in Clients, Abort(c)
  PROVE  IInv'
  <1>1. /\ owner' \in [Ids -> Clients \cup {NoClient}]
        /\ \A id \in Ids : owner'[id] = IF owner[id] = c THEN NoClient ELSE owner[id]
    BY ReleasedType DEF IInv, Abort
  <1>2. TypeOK'
    <2>1. reply' \in [Clients -> Contract!Replies] /\ phase' \in [Clients -> Phases]
      BY DEF IInv, TypeOK, Abort, Answer
    <2>2. faults' \in 0..MaxFaults
      BY ConstantsDistinct DEF IInv, TypeOK, Abort, Fault
    <2> QED BY <1>1, <2>1, <2>2 DEF IInv, TypeOK, Abort
  <1>3. InTransaction' /\ SeenStays' /\ AnsweredValid' /\ RepliesTruthful' /\ AcceptedOnce'
    BY ConstantsDistinct
    DEF IInv, TypeOK, InTransaction, SeenStays, AnsweredValid, RepliesTruthful,
        AcceptedOnce, Abort, Answer
  <1>4. RowLocks'
    <2>1. \A id \in Ids : owner'[id] # NoClient => owner'[id] = owner[id] /\ owner[id] # c
      BY <1>1, ConstantsDistinct DEF IInv, TypeOK
    <2>2. \A d \in Clients : phase'[d] = "inserted" => d # c /\ phase[d] = "inserted"
      BY DEF IInv, TypeOK, Abort, Answer
    <2>3. \A d \in Clients : phase[d] = "inserted" => req[d].id \in Ids /\ owner[req[d].id] = d
      BY ConstantsDistinct DEF IInv, TypeOK, InTransaction, RowLocks
    <2>4. \A d \in Clients : d # c => phase'[d] = phase[d]
      BY DEF IInv, TypeOK, Abort, Answer
    <2>5. UNCHANGED <<events, req>>
      BY DEF Abort
    <2>6. ASSUME NEW id \in Ids, owner'[id] # NoClient
          PROVE  phase'[owner'[id]] = "inserted" /\ req'[owner'[id]].id = id /\ events'[id] = NoHash
      BY <2>1, <2>4, <2>5, <2>6 DEF IInv, TypeOK, RowLocks
    <2>7. ASSUME NEW d \in Clients, phase'[d] = "inserted"
          PROVE  owner'[req'[d].id] = d
      BY <1>1, <2>2, <2>3, <2>5, <2>7
    <2> QED BY <2>6, <2>7 DEF RowLocks
  <1> QED BY <1>2, <1>3, <1>4 DEF IInv

\* A crash ends every transaction; the committed rows stay.
LEMMA CrashIInv ==
  ASSUME IInv, Crash
  PROVE  IInv'
  <1>1. owner' \in [Ids -> Clients \cup {NoClient}] /\ \A id \in Ids : owner'[id] = NoClient
    BY ReleasedType DEF IInv, TypeOK, Crash
  <1>2. /\ phase' \in [Clients -> Phases]
        /\ reply' \in [Clients -> Contract!Replies]
        /\ \A c \in Clients : phase'[c] = "out" /\ reply'[c] \in {reply[c], "error"}
    BY DEF IInv, TypeOK, Crash
  <1>3. TypeOK'
    <2>1. faults' \in 0..MaxFaults
      BY ConstantsDistinct DEF IInv, TypeOK, Crash, Fault
    <2> QED BY <1>1, <1>2, <2>1 DEF IInv, TypeOK, Crash
  <1>4. InTransaction' /\ RowLocks' /\ SeenStays'
    BY <1>1, <1>2 DEF InTransaction, RowLocks, SeenStays
  <1>5. AnsweredValid' /\ RepliesTruthful' /\ AcceptedOnce'
    BY <1>2 DEF IInv, AnsweredValid, RepliesTruthful, AcceptedOnce, Crash
  <1> QED BY <1>3, <1>4, <1>5 DEF IInv

\* Every step preserves the inductive invariant.
LEMMA NextIInv == IInv /\ [Next]_vars => IInv'
  <1> SUFFICES ASSUME IInv, [Next]_vars PROVE IInv'
    OBVIOUS
  <1>1. CASE \E c \in Clients, r \in Contract!Requests : Call(c, r)
    BY <1>1, CallIInv
  <1>2. ASSUME NEW c \in Clients, IngestEvent(c) PROVE IInv'
    BY <1>2, ReadIInv, InsertIInv, CommitIInv DEF IngestEvent
  <1>3. CASE \E c \in Clients : CommitAckLost(c) \/ Abort(c)
    BY <1>3, CommitIInv, AbortIInv
  <1>4. CASE Crash
    BY <1>4, CrashIInv
  <1>5. CASE UNCHANGED vars
    BY <1>5 DEF vars, IInv, TypeOK, InTransaction, RowLocks, SeenStays, AnsweredValid,
                RepliesTruthful, AcceptedOnce
  <1> QED BY <1>1, <1>2, <1>3, <1>4, <1>5 DEF Next

\* The inductive invariant holds in every reachable state.
LEMMA Invariance == Spec => []IInv
  BY InitIInv, NextIInv, PTL DEF Spec

\* SQLRepository.IngestEvent keeps its state well typed, for every set of clients and events.
THEOREM TypeCorrect == Spec => []TypeOK
  <1>1. IInv => TypeOK BY DEF IInv
  <1> QED BY <1>1, Invariance, PTL

\* Every answer of IngestEvent stays true, through any interleaving of transactions,
\* any number of failed or cancelled calls and any crash.
THEOREM RepliesStayTrue == Spec => []RepliesTruthful
  <1>1. IInv => RepliesTruthful BY DEF IInv
  <1> QED BY <1>1, Invariance, PTL

\* An id is accepted at most once, although SELECT and INSERT are separate statements.
THEOREM AtMostOneAccept == Spec => []AcceptedOnce
  <1>1. IInv => AcceptedOnce BY DEF IInv
  <1> QED BY <1>1, Invariance, PTL

\* Only a COMMIT writes the table, and its key is free: a committed row never changes or
\* disappears, which is what the append-only evidence of the store rests on.
THEOREM CommittedRowsStay == Spec => AppendOnly
  <1> DEFINE Stays == \A id \in Ids : events[id] # NoHash => events'[id] = events[id]
  <1>1. ASSUME IInv, [Next]_vars PROVE [Stays]_vars
    <2>1. ASSUME NEW c \in Clients, Store(c) PROVE Stays
      BY <1>1, <2>1, ConstantsDistinct DEF IInv, TypeOK, RowLocks, InTransaction, Store
    <2>2. CASE UNCHANGED events
      BY <2>2
    <2>3. \/ UNCHANGED events
          \/ \E c \in Clients : Store(c)
          \/ UNCHANGED vars
      BY <1>1
      DEF Next, IngestEvent, Call, Contract!Call, Reject, Contract!Reject, BeginTx, getEventTx,
          AnswerDuplicate, AnswerConflict, Insert, InsertViolatesKey, Commit, CommitAckLost,
          Abort, Crash
    <2> QED BY <2>1, <2>2, <2>3
  <1>2. IInv /\ [Next]_vars => [Stays]_vars
    BY <1>1
  <1> QED BY <1>2, Invariance, PTL DEF Spec, AppendOnly

\* Each step of a transaction is a step of the atomic contract or invisible to it.
LEMMA StepRefines ==
  ASSUME IInv, [Next]_vars
  PROVE  [Contract!Next]_(Contract!vars)
  <1> USE DEF Contract!vars
  <1>1. ASSUME NEW c \in Clients, NEW r \in Contract!Requests, Call(c, r)
        PROVE  Contract!Next
    BY <1>1 DEF Call, Contract!Next
  <1>2. ASSUME NEW c \in Clients, Reject(c)
        PROVE  Contract!Next
    BY <1>2 DEF Reject, Contract!Next, Contract!IngestEvent
  <1>3. ASSUME NEW c \in Clients, BeginTx(c) \/ getEventTx(c) \/ Insert(c)
        PROVE  UNCHANGED Contract!vars
    BY <1>3 DEF BeginTx, getEventTx, Insert
  <1>4. ASSUME NEW c \in Clients, AnswerDuplicate(c)
        PROVE  Contract!AnswerDuplicate(c)
    BY <1>4, ConstantsDistinct
    DEF AnswerDuplicate, Contract!AnswerDuplicate, Answer, IInv, TypeOK, InTransaction, SeenStays
  <1>5. ASSUME NEW c \in Clients, AnswerConflict(c)
        PROVE  Contract!AnswerConflict(c)
    BY <1>5, ConstantsDistinct
    DEF AnswerConflict, Contract!AnswerConflict, Answer, IInv, TypeOK, InTransaction, SeenStays
  <1>6. ASSUME NEW c \in Clients, Store(c)
        PROVE  Pending(c) /\ Contract!validateStoredEvent(req[c]) /\ events[req[c].id] = NoHash
    BY <1>6, ConstantsDistinct DEF Store, IInv, TypeOK, InTransaction, RowLocks
  <1>7. ASSUME NEW c \in Clients, Commit(c)
        PROVE  Contract!Accept(c)
    BY <1>6, <1>7 DEF Commit, Store, Answer, Contract!Accept
  <1>8. ASSUME NEW c \in Clients, CommitAckLost(c)
        PROVE  Contract!AckLost(c)
    BY <1>6, <1>8 DEF CommitAckLost, Store, Answer, Contract!AckLost
  <1>9. ASSUME NEW c \in Clients, InsertViolatesKey(c) \/ Abort(c)
        PROVE  Contract!Fail({c})
    BY <1>9
    DEF InsertViolatesKey, CanInsert, Abort, Answer, Contract!Fail, IInv, TypeOK, InTransaction
  <1>10. ASSUME Crash
         PROVE  Contract!Fail({c \in Clients : Pending(c)})
    BY <1>10 DEF Crash, Contract!Fail, IInv, TypeOK
  <1>11. CASE UNCHANGED vars
    BY <1>11 DEF vars
  <1>12. ASSUME NEW S \in SUBSET Clients, Contract!Fail(S)
         PROVE  Contract!Next
    BY <1>12 DEF Contract!Next
  <1>13. ASSUME NEW c \in Clients,
                \/ Contract!AnswerDuplicate(c) \/ Contract!AnswerConflict(c)
                \/ Contract!Accept(c) \/ Contract!AckLost(c)
         PROVE  Contract!Next
    BY <1>13 DEF Contract!Next, Contract!IngestEvent
  <1>14. ASSUME NEW c \in Clients, IngestEvent(c) \/ CommitAckLost(c) \/ Abort(c)
         PROVE  [Contract!Next]_(Contract!vars)
    <2>1. CASE InsertViolatesKey(c) \/ Abort(c)
      BY <2>1, <1>9, <1>12
    <2> QED BY <2>1, <1>14, <1>2, <1>3, <1>4, <1>5, <1>7, <1>8, <1>13 DEF IngestEvent
  <1>15. CASE Crash
    BY <1>15, <1>10, <1>12
  <1> QED BY <1>1, <1>11, <1>14, <1>15 DEF Next

\* SQLRepository.IngestEvent implements the atomic check-and-insert of EventStore: its
\* initial states and every step map to the contract's.
THEOREM Refinement == Spec => ImplementsContract
  <1>1. Init => Contract!Init
    BY DEF Init
  <1>2. IInv /\ [Next]_vars => [Contract!Next]_(Contract!vars)
    BY StepRefines
  <1> QED BY <1>1, <1>2, Invariance, PTL DEF Spec, Contract!Spec, ImplementsContract
===============================================================================
