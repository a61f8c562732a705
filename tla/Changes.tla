------------------------------- MODULE Changes --------------------------------
(***************************************************************************)
(* The changes Service computes from the events of one subject: every      *)
(* request groups the events of its window by deriveChangeIdentity, merges *)
(* their statuses, filters and sorts the changes, newest first, and cuts a *)
(* page at the cursor.  Nothing of it is stored, so a client that pages    *)
(* through the list sees each page computed from other events: those of    *)
(* the cache entry, which API writes purge and the collector does not, or  *)
(* those of the repository.                                                *)
(***************************************************************************)
EXTENDS Naturals, Sequences, FiniteSets, Sorting

CONSTANTS Catalog,      \* the events that may be stored, all of one subject
          Queries,      \* filter and limit of the requests a client may make
          Searches,     \* words of the free text search
          stableHash(_),    \* where a change comes among those of one CompletedAt
          Blank,        \* the empty string
          NotText,      \* a value of an extension that is not a string
          NoCursor, NoEntry,
          EventLimit,   \* 500 events for a query of changes, scaled down
          DefaultLimit, MaxLimit,   \* 100 and 500 changes for a page, scaled down
          MaxFills      \* fills that are overtaken by a purge

ASSUME ChangesAssumption ==
    /\ \A e \in Catalog : e.time \in Nat /\ e.id \in Nat /\ DOMAIN e.approvals \subseteq Nat
    /\ \A e, f \in Catalog : e.id = f.id => e = f
    /\ \A q \in Queries : q.text \in Searches \cup {Blank} /\ q.limit \in Nat
    /\ EventLimit \in Nat \ {0} /\ MaxFills \in Nat
    /\ MaxLimit \in Nat /\ DefaultLimit \in 1..MaxLimit

VARIABLES stored,       \* events in the repository
          entry,        \* what the cache holds for this query
          slow,         \* what a slower request has read and not yet added
          fills,        \* how many of those there were
          query,        \* the request the client is paging through
          cursor, status,
          snapshot,     \* the events the last page was computed from
          owed,         \* the places of the list that every page so far found taken
          delivered     \* the changes of all pages so far

cacheVars == <<entry, slow, fills>>
pagerVars == <<query, cursor, status, snapshot, owed, delivered>>
changesVars == <<stored, cacheVars, pagerVars>>

-------------------------------------------------------------------------------
(* What an event says. *)

\* ExtensionString: a number or a list is no text.
ExtensionString(e, k) ==
    IF k \in DOMAIN e.ext /\ e.ext[k] # NotText THEN e.ext[k] ELSE Blank

\* The first value of e under one of the keys that is a text and not blank.
firstExtension(e, keys) ==
    LET found == SelectSeq(keys, LAMBDA k : ExtensionString(e, k) # Blank)
    IN  IF found = <<>> THEN Blank ELSE ExtensionString(e, found[1])

normalizePrimaryProvider(e) ==
    IF e.obs /\ firstExtension(e, <<"operation_id", "history_id", "sync_revision">>) # Blank
    THEN "argo"
    ELSE IF ExtensionString(e, "primary_provider") # Blank
         THEN e.ext["primary_provider"]
         ELSE IF e.source \in {"argocd", "argo"} THEN "argo" ELSE e.source

\* Without a reference, events of one second and revision are one change.
deriveChangeIdentity(e) ==
    LET reference == firstExtension(e, <<"primary_reference", "operation_id", "history_id">>)
        revision  == firstExtension(e, <<"revision", "sync_revision", "commit_sha">>)
    IN  IF reference # Blank
        THEN <<normalizePrimaryProvider(e), reference, Blank, 0>>
        ELSE <<normalizePrimaryProvider(e), Blank, revision, e.time>>

inferResultStatus(e) ==
    IF {e.type, e.status} \cap {"failed", "error", "degraded", "aborted"} # {}
    THEN "failed"
    ELSE IF {e.type, e.status} \cap {"succeeded", "healthy", "completed"} # {}
         THEN "succeeded" ELSE "unknown"

inferHealthStatus(e) ==
    LET raw == firstExtension(e, <<"health_status", "health">>)
    IN  IF raw \in {"healthy", "degraded", "progressing", "missing"} THEN raw ELSE "unknown"

MetaKeys == {"external_change_id", "ticket_id", "approval_reference", "initiator"}

\* externalCorrelationFromEvent: the extension, or the annotation; the initiator has none.
metaOf(e, k) ==
    IF ExtensionString(e, k) # Blank THEN e.ext[k]
    ELSE IF k \in DOMAIN e.annotations THEN e.annotations[k] ELSE Blank

\* The places of the entries; those with nothing in them are left out.
approvalsFromData(e) == {i \in DOMAIN e.approvals : e.approvals[i].who # Blank}

\* Computed once for every event.
ChangeId == [e \in Catalog |-> deriveChangeIdentity(e)]
Result   == [e \in Catalog |-> inferResultStatus(e)]
Health   == [e \in Catalog |-> inferHealthStatus(e)]

ChangeIds == {ChangeId[e] : e \in Catalog}

\* Ids are compared as texts; those of two changes differ (SHA-256).
ASSUME IdAssumption ==
    /\ \A k \in ChangeIds : stableHash(k) \in Nat
    /\ \A k, l \in ChangeIds : stableHash(k) = stableHash(l) => k = l
    /\ \A e \in Catalog, k \in ChangeIds : NoCursor # [times |-> [completed |-> e.time], id |-> k]

-------------------------------------------------------------------------------
(* The order of QueryTimeline and of sort.Slice: by time, then by id. *)

Earlier(e, f) == e.time < f.time \/ (e.time = f.time /\ e.id < f.id)

InOrder(E) == SortedBy([e \in E |-> {f \in E : Earlier(f, e)}])

EarliestOf(E) == CHOOSE e \in E : \A f \in E \ {e} : Earlier(e, f)
LatestOf(E) == CHOOSE e \in E : \A f \in E \ {e} : Earlier(f, e)

-------------------------------------------------------------------------------
(* The projection. *)

mergeResultStatus(current, next) ==
    IF "failed" \in {current, next} THEN "failed"
    ELSE IF "succeeded" \in {current, next} THEN "succeeded" ELSE "unknown"

\* Mutant of mergeHealthStatus: the newest known health wins.
mergeHealthStatusNewest(current, next) == IF next = "unknown" THEN current ELSE next

mergeHealthStatus(current, next) ==
    IF \/ next = "degraded"
       \/ next = "progressing" /\ current # "degraded"
       \/ next \in {"healthy", "missing"} /\ current = "unknown"
    THEN next ELSE current

\* The statuses are merged event by event, in the order of the loop.
mergedResult(E) ==
    LET es == InOrder(E)
        merged[i \in 0..Len(es)] ==
            IF i = 0 THEN "unknown" ELSE mergeResultStatus(merged[i - 1], Result[es[i]])
    IN  merged[Len(es)]

mergedHealth(E) ==
    LET es == InOrder(E)
        merged[i \in 0..Len(es)] ==
            IF i = 0 THEN "unknown" ELSE mergeHealthStatus(merged[i - 1], Health[es[i]])
    IN  merged[Len(es)]

\* The first value that is not blank stays.
firstMeta(E, k) ==
    LET set == {e \in E : metaOf(e, k) # Blank}
    IN  IF set = {} THEN Blank ELSE metaOf(EarliestOf(set), k)

LastHealth(E) == IF E = {} THEN "unknown" ELSE Health[LatestOf(E)]

\* Mutant of CompletedAt: the end of a change stays that of its first event.
CompletedAtStart(E) == EarliestOf(E).time

CompletedAt(E) == LatestOf(E).time

finalizeChange(E) ==
    LET started   == EarliestOf(E).time
        completed == CompletedAt(E)
        known     == {e \in E : Health[e] # "unknown"}
        atEnd     == {e \in known : e.time >= completed}
        degraded  == {e \in known : e.time > started /\ Health[e] = "degraded"}
    IN  [started |-> started, completed |-> completed,
         startHealth |-> LastHealth({e \in known : e.time <= started}),
         afterHealth |-> LastHealth(IF atEnd = {} THEN known ELSE atEnd),
         degraded |-> IF degraded = {} THEN {} ELSE {EarliestOf(degraded).time}]

Observed(c) == c.times.startHealth = "healthy" /\ c.times.degraded # {}

buildChange(k, E) ==
    [id |-> k, events |-> E, times |-> finalizeChange(E),
     result |-> mergedResult(E), health |-> mergedHealth(E),
     meta |-> [m \in MetaKeys |-> firstMeta(E, m)],
     hasApprovals |-> \E e \in E : approvalsFromData(e) # {}]

buildChangesByID(E) ==
    [k \in {ChangeId[e] : e \in E} |-> buildChange(k, {e \in E : ChangeId[e] = k})]

Ahead(c, d) ==
    \/ c.times.completed > d.times.completed
    \/ c.times.completed = d.times.completed /\ stableHash(c.id) < stableHash(d.id)

\* QueryTimeline for the oldest EventLimit events; its next_cursor is not followed.
eventsForChangeQuery(S) == {e \in S : Cardinality({f \in S : Earlier(f, e)}) < EventLimit}

filterEventsByQuery(E, text) == {e \in E : text = Blank \/ text \in e.words}

\* The changes of every set of events and search, computed once.
Projection ==
    [S \in SUBSET Catalog |-> [text \in Searches \cup {Blank} |->
        buildChangesByID(filterEventsByQuery(eventsForChangeQuery(S), text))]]

ChangesOf(S, text) == LET m == Projection[S][text] IN {m[k] : k \in DOMAIN m}

Wanted(want, have) == want = Blank \/ have = want

InState(state, have) ==
    /\ state = "set" => have # Blank
    /\ state = "unset" => have = Blank

filterChanges(cs, q) ==
    {c \in cs :
        /\ Wanted(q.result, c.result) /\ Wanted(q.health, c.health)
        /\ InState(q.externalState, c.meta["external_change_id"])
        /\ InState(q.ticketState, c.meta["ticket_id"])
        /\ \A k \in DOMAIN q.meta : Wanted(q.meta[k], c.meta[k])
        /\ q.hasApprovals = "yes" => c.hasApprovals
        /\ q.hasApprovals = "no" => ~c.hasApprovals}

\* Mutant of applyChangeCursor: the change the cursor names comes again.
applyChangeCursorInclusive(cs, c) ==
    IF c = NoCursor THEN cs
    ELSE {d \in cs : d.times.completed < c.times.completed
                     \/ (d.times.completed = c.times.completed /\ stableHash(d.id) >= stableHash(c.id))}

\* Mutant of applyChangeCursor: changes that end in one second with the cursor are lost.
applyChangeCursorByTime(cs, c) ==
    IF c = NoCursor THEN cs ELSE {d \in cs : d.times.completed < c.times.completed}

applyChangeCursor(cs, c) == IF c = NoCursor THEN cs ELSE {d \in cs : Ahead(c, d)}

SortedByCompletion(cs) == SortedBy([c \in cs |-> {d \in cs : Ahead(d, c)}])

\* The changes after cursor c, newest first.
Remaining(S, q, c) ==
    SortedByCompletion(applyChangeCursor(filterChanges(ChangesOf(S, q.text), q), c))

PageLimit(q) ==
    CASE q.limit = 0        -> DefaultLimit
      [] q.limit > MaxLimit -> MaxLimit
      [] OTHER              -> q.limit

\* Mutant of encodeChangeCursor: the cursor is made of StartedAt.
encodeChangeCursorStart(c) == [times |-> [completed |-> c.times.started], id |-> c.id]

encodeChangeCursor(c) == [times |-> [completed |-> c.times.completed], id |-> c.id]

ListChanges(S, q, c) ==
    LET all == Remaining(S, q, c)
        n   == PageLimit(q)
    IN  IF Len(all) > n
        THEN [items |-> SubSeq(all, 1, n), next |-> encodeChangeCursor(all[n])]
        ELSE [items |-> all, next |-> NoCursor]

\* GetChangeEvidence: the approvals of a change, one of those that differ in spelling only.
Evidence(c) ==
    LET given   == UNION {{<<e, i>> : i \in approvalsFromData(e)} : e \in c.events}
        of(p)   == p[1].approvals[p[2]]
        seen(p) == {o \in given : Earlier(o[1], p[1]) \/ (o[1] = p[1] /\ o[2] < p[2])}
    IN  [supporting |-> {e \in c.events : e.obs},
         approvals  |-> {of(p) : p \in {p \in given : \A o \in seen(p) : of(o).who # of(p).who}}]

-------------------------------------------------------------------------------
(* The client, the writers and the cache. *)

ChangesTypeOK ==
    /\ stored \subseteq Catalog
    /\ entry \in {NoEntry} \cup SUBSET stored /\ slow \in {NoEntry} \cup SUBSET stored
    /\ fills \in 0..MaxFills
    /\ query \in Queries
    /\ snapshot \subseteq stored
    /\ status \in {"idle", "paging", "done"}
    /\ IF status = "paging"
       THEN /\ delivered # <<>>
            /\ cursor = [times |-> [completed |-> delivered[Len(delivered)].times.completed],
                         id |-> delivered[Len(delivered)].id]
       ELSE cursor = NoCursor

ChangesInit ==
    /\ stored = {}
    /\ entry = NoEntry /\ slow = NoEntry /\ fills = 0
    /\ query \in Queries
    /\ cursor = NoCursor /\ status = "idle"
    /\ snapshot = {} /\ owed = {} /\ delivered = <<>>

\* A write of the API, whose purge is a step of its own, or of the collector.
StoreEvent(e) ==
    /\ e \notin stored
    /\ stored' = stored \cup {e}
    /\ UNCHANGED <<cacheVars, pagerVars>>

\* The purge of an API write, or the time to live of the entry.
DropEntry ==
    /\ entry # NoEntry
    /\ entry' = NoEntry
    /\ UNCHANGED <<stored, slow, fills, pagerVars>>

\* A request of another client misses the cache and reads the repository ...
SlowRead ==
    /\ entry = NoEntry /\ slow = NoEntry
    /\ fills < MaxFills
    /\ slow' = stored /\ fills' = fills + 1
    /\ UNCHANGED <<stored, entry, pagerVars>>

\* ... and adds what it read, perhaps after a purge.
SlowAdd ==
    /\ slow # NoEntry
    /\ entry' = slow /\ slow' = NoEntry
    /\ UNCHANGED <<stored, fills, pagerVars>>

\* Where a change stands in the list of a request.
PlaceOf(c) == [times |-> [completed |-> c.times.completed], id |-> c.id]

PlacesIn(S) == {PlaceOf(c) : c \in filterChanges(ChangesOf(S, query.text), query)}

Page(c) ==
    \E S \in {IF entry # NoEntry THEN entry ELSE stored} :
        \E res \in {ListChanges(S, query, c)} :
            /\ entry' = S /\ snapshot' = S
            /\ delivered' = delivered \o res.items
            /\ cursor' = res.next
            /\ status' = IF res.next = NoCursor THEN "done" ELSE "paging"
            /\ UNCHANGED <<stored, slow, fills, query>>

FirstPage == status = "idle" /\ Page(NoCursor) /\ owed' = PlacesIn(snapshot')

NextPage == status = "paging" /\ Page(cursor) /\ owed' = owed \cap PlacesIn(snapshot')

ChangesNext ==
    \/ \E e \in Catalog : StoreEvent(e)
    \/ DropEntry \/ SlowRead \/ SlowAdd
    \/ FirstPage \/ NextPage

ChangesSpec == ChangesInit /\ [][ChangesNext]_changesVars

-------------------------------------------------------------------------------
(* Properties. *)

HasHealth(c, h) == \E e \in c.events : Health[e] = h
HasResult(c, r) == \E e \in c.events : Result[e] = r

Spans(c, t, u) ==
    /\ \A e \in c.events : t <= e.time /\ e.time <= u
    /\ t \in {e.time : e \in c.events} /\ u \in {e.time : e \in c.events}

AtLeast(d, c) ==
    /\ d.times.started <= c.times.started /\ d.times.completed >= c.times.completed
    /\ c.events \subseteq d.events
    /\ c.result = "failed" => d.result = "failed"
    /\ c.result = "succeeded" => d.result # "unknown"
    /\ c.health = "degraded" => d.health = "degraded"
    /\ c.hasApprovals => d.hasApprovals
    /\ \A k \in MetaKeys : c.meta[k] # Blank => d.meta[k] # Blank

AllAtLeast(m, n) == \A k \in DOMAIN m : k \in DOMAIN n /\ AtLeast(n[k], m[k])

MeetsReference(c) ==
    /\ c.result = "failed" <=> HasResult(c, "failed")
    /\ c.result = "unknown" <=> \A e \in c.events : Result[e] = "unknown"
    /\ HasResult(c, c.result)
    /\ c.health = "degraded" <=> HasHealth(c, "degraded")
    /\ c.health = "progressing" <=>
           HasHealth(c, "progressing") /\ ~HasHealth(c, "degraded")
    /\ HasHealth(c, c.health)
    /\ Spans(c, c.times.started, c.times.completed)
    /\ Observed(c) => c.health = "degraded"
    /\ c.hasApprovals <=> Evidence(c).approvals # {}

\* What a change says of its events, whichever order they were merged in: one failure makes
\* it failed, one degradation degraded, progress covers a good health, its bounds are those
\* of its events, a degradation after the start is never shown on a change with another
\* health, and has_approvals agrees with the evidence.  Every event is in one change.  A
\* free text search keeps events, not changes: what it shows is a change of the full list with
\* part of its evidence, never failed or degraded where the full one is not.
ProjectionMeetsReference ==
    LET cs == ChangesOf(stored, Blank)
    IN  /\ \A e \in eventsForChangeQuery(stored) : Cardinality({c \in cs : e \in c.events}) = 1
        /\ \A c \in cs : MeetsReference(c)
        /\ \A w \in Searches : AllAtLeast(Projection[stored][w], Projection[stored][Blank])

\* An event that is stored late, at any time in the window, takes nothing away: every change
\* keeps its id, so that its permalink still resolves, a failure and a degradation stay, and
\* its bounds only widen - until the window holds more events than a query reads.
EvidenceGrows ==
    [][Cardinality(stored') <= EventLimit =>
           AllAtLeast(Projection[stored][Blank], Projection[stored'][Blank])]_stored

\* The pages were computed from ever newer events and none was cut off.
Orderly == fills = 0 /\ Cardinality(stored) <= EventLimit

\* No change is on two pages of one walk, although it moves ahead in the list when it gets
\* new events; only an older snapshot put back by a slow fill, or a full window, moves a
\* change behind the cursor again (changes.go 132-153).
NoChangeTwice ==
    Orderly => \A i, j \in DOMAIN delivered : delivered[i].id = delivered[j].id => i = j

\* When the walk is over, every change that each page found in the list at one and the same
\* place has been delivered, whatever events, purges and old snapshots came in between.  One
\* that got new evidence at its end moved ahead of the cursor, and one that a filter left
\* out for the length of a page may have been passed: the client has to start again.
SettledDelivered ==
    status = "done" => \A p \in owed : \E i \in DOMAIN delivered : delivered[i].id = p.id

-------------------------------------------------------------------------------
(* The inductive invariant. *)

\* Every change that some finite set of events and some search give.
AllChanges ==
    UNION {UNION {ChangesOf(S, text) : text \in Searches \cup {Blank}} :
              S \in {S \in SUBSET Catalog : IsFiniteSet(S)}}

\* Before the first fill of another request the snapshots only grow.
SnapshotsGrow == fills = 0 => slow = NoEntry /\ entry \in {NoEntry, snapshot}

\* The walk has left behind what it delivered ...
DeliveredPassed ==
    /\ status = "idle" => delivered = <<>>
    /\ status = "paging" => \A i \in DOMAIN delivered : ~Ahead(cursor, delivered[i])

\* ... and those changes have since moved ahead in the list, if at all.
DeliveredMovedAhead ==
    Orderly => \A i \in DOMAIN delivered :
        LET m == Projection[snapshot][query.text]
            k == delivered[i].id
        IN  k \in DOMAIN m /\ delivered[i].times.completed <= m[k].times.completed

\* What is owed is delivered or still to come.
OwedAhead ==
    /\ status = "idle" => owed = {}
    /\ \A p \in owed : \/ \E i \in DOMAIN delivered : delivered[i].id = p.id
                       \/ status = "paging" /\ Ahead(cursor, p)

ChangesIInv ==
    /\ ChangesTypeOK /\ IsFiniteSet(stored) /\ delivered \in Seq(AllChanges)
    /\ SnapshotsGrow /\ DeliveredPassed /\ DeliveredMovedAhead /\ NoChangeTwice /\ OwedAhead
===============================================================================
