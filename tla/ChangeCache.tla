----------------------------- MODULE ChangeCache ------------------------------
(***************************************************************************)
(* The change query cache of Service: an LRU of at most Capacity answers   *)
(* of QueryTimeline, each kept for TTL.  Service.IngestEvent purges it     *)
(* after the repository accepted an event; the Argo collector writes to    *)
(* the repository directly and never purges.  Reading the cache, querying  *)
(* the repository and adding the answer are separate steps, so writes,     *)
(* purges and other readers come in between.                               *)
(***************************************************************************)
EXTENDS Integers, Sequences, FiniteSets, SequencesExt

CONSTANTS Writers,      \* requests that ingest through Service.IngestEvent
          Readers,      \* requests that list or get changes
          Events,       \* numbered in the order (time, id) of QueryTimeline
          Keys,         \* change queries (changeQueryCacheKey)
          Window,       \* Window[k]: the events of k's subject and time
          Found,        \* Found[k]: those with the text k searches for, all without one
          Limit,        \* QueryTimeline's limit, 500
          Capacity,     \* entries of the LRU, 256
          TTL,          \* 10 seconds
          MaxFill,      \* longest time a reader spends between query and Add (no timeout in the code)
          MaxTime,      \* bound on the clock
          NoKey, NoEvent

ASSUME ChangeCacheAssumption ==
    /\ Events \subseteq Nat /\ NoEvent \notin Events
    /\ NoKey \notin Keys /\ Window \in [Keys -> SUBSET Events] /\ Found \in [Keys -> SUBSET Events]
    /\ Limit \in Nat \ {0} /\ Capacity \in Nat \ {0}
    /\ TTL \in Nat /\ MaxFill \in Nat /\ MaxTime \in Nat

VARIABLES log,          \* the repository: its events in commit order, with commit times
          lru,          \* changeCache, most recently used first
          purging,      \* purging[w]: the event w has ingested and not purged for
          fill,         \* fill[r]: a miss on its way from Get over QueryTimeline to Add
          got,          \* the last answer of eventsForChangeQuery to any reader
          acked,        \* events whose ingest was answered without error (history)
          now

vars == <<log, lru, purging, fill, got, acked, now>>

Commits == [ev : Events, at : 0..MaxTime]
Entries == [key : Keys, items : SUBSET Events, expires : 0..(MaxTime + TTL), late : BOOLEAN]
Fills == [pc : {"idle", "query", "add"}, key : Keys \cup {NoKey}, items : SUBSET Events,
          since : 0..MaxTime, late : BOOLEAN]
Idle == [pc |-> "idle", key |-> NoKey, items |-> {}, since |-> 0, late |-> FALSE]
Nothing == [key |-> NoKey, items |-> {}, at |-> 0]

\* Besides the types: no answer is longer than Limit, the LRU holds one entry for a key and
\* never more than Capacity, and an event is stored once.
TypeOK ==
    /\ log \in Seq(Commits)
    /\ \A i, j \in DOMAIN log : log[i].ev = log[j].ev => i = j
    /\ lru \in Seq(Entries) /\ Len(lru) <= Capacity
    /\ \A i, j \in DOMAIN lru : lru[i].key = lru[j].key => i = j
    /\ \A i \in DOMAIN lru : Cardinality(lru[i].items) <= Limit
    /\ purging \in [Writers -> Events \cup {NoEvent}]
    /\ fill \in [Readers -> Fills]
    /\ got \in [key : Keys \cup {NoKey}, items : SUBSET Events, at : 0..MaxTime]
    /\ acked \subseteq Events /\ now \in 0..MaxTime

Init ==
    /\ log = <<>> /\ lru = <<>>
    /\ purging = [w \in Writers |-> NoEvent]
    /\ fill = [r \in Readers |-> Idle] /\ got = Nothing
    /\ acked = {} /\ now = 0

StoredIn(n) == {log[i].ev : i \in 1..n}

\* repo.IngestEvent: a new event is appended, a known one is a duplicate.
Stored(e) ==
    log' = IF e \in StoredIn(Len(log)) THEN log ELSE Append(log, [ev |-> e, at |-> now])

\* Service.IngestEvent, repository part.
Ingest(w, e) ==
    /\ purging[w] = NoEvent
    /\ Stored(e)
    /\ purging' = [purging EXCEPT ![w] = e]
    /\ UNCHANGED <<lru, fill, got, acked, now>>

\* Mutant of Purge: the purge is dropped, as in a refactoring that answers before it.
PurgeForgotten(w) ==
    /\ purging[w] # NoEvent
    /\ acked' = acked \cup {purging[w]}
    /\ purging' = [purging EXCEPT ![w] = NoEvent]
    /\ UNCHANGED <<log, lru, fill, got, now>>

\* Service.IngestEvent, no error: changeCache.Purge.  A fill under way is marked late.
Purge(w) ==
    /\ purging[w] # NoEvent
    /\ lru' = <<>>
    /\ fill' = [r \in Readers |-> [fill[r] EXCEPT !.late = fill[r].pc = "add"]]
    /\ acked' = acked \cup {purging[w]}
    /\ purging' = [purging EXCEPT ![w] = NoEvent]
    /\ UNCHANGED <<log, got, now>>

\* Written without a purge: by the collector, whose Sink is the repository, or by an ingest
\* whose commit took effect although its answer is an error.
IngestUnseen(e) ==
    /\ e \notin StoredIn(Len(log))
    /\ Stored(e)
    /\ UNCHANGED <<lru, purging, fill, got, acked, now>>

Answer(k, items) == got' = [key |-> k, items |-> items, at |-> now]

Live(x, k) == x.key = k /\ now <= x.expires

\* eventsForChangeQuery: a hit moves to the front and is returned, a miss goes on to query.
Get(r, k) ==
    /\ fill[r].pc = "idle"
    /\ \/ \E i \in DOMAIN lru :
              /\ Live(lru[i], k)
              /\ lru' = <<lru[i]>> \o RemoveAt(lru, i)
              /\ Answer(k, lru[i].items)
              /\ UNCHANGED fill
       \/ /\ \A i \in DOMAIN lru : ~Live(lru[i], k)
          /\ fill' = [fill EXCEPT ![r] = [Idle EXCEPT !.pc = "query", !.key = k]]
          /\ UNCHANGED <<lru, got>>
    /\ UNCHANGED <<log, purging, acked, now>>

\* The oldest Limit events of the window, and of these the ones the search finds.
Selected(k, S) ==
    LET W == S \cap Window[k] IN {e \in W : Cardinality({f \in W : f < e}) < Limit} \cap Found[k]

\* repo.QueryTimeline, filterEventsByQuery
QueryTimeline(r) ==
    /\ fill[r].pc = "query"
    /\ fill' = [fill EXCEPT ![r].pc = "add", ![r].since = now,
                            ![r].items = Selected(fill[r].key, StoredIn(Len(log)))]
    /\ UNCHANGED <<log, lru, purging, got, acked, now>>

QueryFails(r) ==
    /\ fill[r].pc = "query"
    /\ fill' = [fill EXCEPT ![r] = Idle]
    /\ UNCHANGED <<log, lru, purging, got, acked, now>>

\* Mutant of Add: the entry outlives its TTL by one.
AddOverTime(r) ==
    /\ fill[r].pc = "add"
    /\ lru' = <<[key |-> fill[r].key, items |-> fill[r].items, expires |-> now + TTL + 1, late |-> fill[r].late]>>
    /\ Answer(fill[r].key, fill[r].items)
    /\ fill' = [fill EXCEPT ![r] = Idle]
    /\ UNCHANGED <<log, purging, acked, now>>

\* Mutant of Add: a second entry for a key another reader filled meanwhile.
AddTwice(r) ==
    /\ fill[r].pc = "add"
    /\ lru' = <<[key |-> fill[r].key, items |-> fill[r].items, expires |-> now + TTL, late |-> fill[r].late]>> \o lru
    /\ Answer(fill[r].key, fill[r].items)
    /\ fill' = [fill EXCEPT ![r] = Idle]
    /\ UNCHANGED <<log, purging, acked, now>>

\* changeCache.Add replaces the key's entry, whatever was purged meanwhile, and evicts the
\* least recently used one.
Add(r) ==
    /\ fill[r].pc = "add"
    /\ LET x == [key |-> fill[r].key, items |-> fill[r].items, expires |-> now + TTL, late |-> fill[r].late]
       IN  \/ \E i \in DOMAIN lru : lru[i].key = x.key /\ lru' = <<x>> \o RemoveAt(lru, i)
           \/ /\ \A i \in DOMAIN lru : lru[i].key # x.key
              /\ lru' = <<x>> \o (IF Len(lru) = Capacity THEN Front(lru) ELSE lru)
    /\ Answer(fill[r].key, fill[r].items)
    /\ fill' = [fill EXCEPT ![r] = Idle]
    /\ UNCHANGED <<log, purging, acked, now>>

\* The LRU's own goroutine removes what has expired, some time after, entry by entry.
deleteExpired ==
    /\ \E i \in DOMAIN lru : lru[i].expires < now /\ lru' = RemoveAt(lru, i)
    /\ UNCHANGED <<log, purging, fill, got, acked, now>>

\* Time passes, but no fill takes longer than MaxFill.
Tick ==
    /\ now < MaxTime
    /\ \A r \in Readers : fill[r].pc = "add" => now - fill[r].since < MaxFill
    /\ now' = now + 1
    /\ UNCHANGED <<log, lru, purging, fill, got, acked>>

Next ==
    \/ \E w \in Writers : Purge(w) \/ \E e \in Events : Ingest(w, e)
    \/ \E e \in Events : IngestUnseen(e)
    \/ \E r \in Readers : QueryTimeline(r) \/ QueryFails(r) \/ Add(r) \/ \E k \in Keys : Get(r, k)
    \/ deleteExpired
    \/ Tick

Spec == Init /\ [][Next]_vars

-------------------------------------------------------------------------------
(* Properties. *)

\* Commits made before time t.
CommittedBefore(t) == Cardinality({i \in DOMAIN log : log[i].at < t})

\* Every answer is what the repository held for exactly this query at one moment, and that
\* moment is at most TTL + MaxFill ago - with or without a purge, whoever wrote
\* (changes.go 244-268, service.go 35 and 51-53, runtime.go 216-274).
ReadsRecentSnapshot ==
    got # Nothing =>
        \E n \in CommittedBefore(got.at - TTL - MaxFill)..Len(log) :
            got.items = Selected(got.key, StoredIn(n))

\* The items lack no event whose ingest was answered and that a query made now would give.
Complete(k, items) == acked \cap Selected(k, StoredIn(Len(log))) \subseteq items

\* An entry hides an event whose ingest has been answered, and that the repository would give
\* for the same query now, only if a purge overtook the fill that made it: the reader had
\* queried before and added after (changes.go 252-268 against service.go 49-54).
HiddenOnlyByRace ==
    \A i \in DOMAIN lru : ~lru[i].late => Complete(lru[i].key, lru[i].items)
-------------------------------------------------------------------------------
(* The inductive invariant. *)

\* The commits are in the order of their times, none is in the future.
LogOrdered ==
    /\ \A i \in DOMAIN log : log[i].at <= now
    /\ \A i, j \in DOMAIN log : i < j => log[i].at <= log[j].at

\* The items are what the query k selected at a moment not before t.
Snapshot(k, items, t) ==
    \E n \in CommittedBefore(t)..Len(log) : items = Selected(k, StoredIn(n))

\* An entry is at most TTL old, its items at most MaxFill older, and complete if no purge
\* overtook them.
EntryFounded(x) ==
    /\ x.expires <= now + TTL
    /\ Snapshot(x.key, x.items, x.expires - TTL - MaxFill)
    /\ ~x.late => Complete(x.key, x.items)

\* So it is with the items of a fill, before they become an entry.
FillFounded(f) ==
    /\ f.pc # "idle" => f.key \in Keys
    /\ f.pc # "add" => ~f.late
    /\ f.pc = "add" =>
           /\ f.since <= now /\ now <= f.since + MaxFill
           /\ Snapshot(f.key, f.items, f.since)
           /\ ~f.late => Complete(f.key, f.items)

\* An answered event is in the repository, from before its purge.
AckedStored ==
    /\ acked \subseteq StoredIn(Len(log))
    /\ \A w \in Writers : purging[w] # NoEvent => purging[w] \in StoredIn(Len(log))

IInv ==
    /\ TypeOK /\ LogOrdered /\ AckedStored
    /\ \A r \in Readers : FillFounded(fill[r])
    /\ \A i \in DOMAIN lru : EntryFounded(lru[i])
    /\ got.at <= now /\ ReadsRecentSnapshot
===============================================================================
