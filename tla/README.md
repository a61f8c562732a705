# Evidra GitOps in TLA+

TLA+ modules of the parts of Evidra in which ordering, failure and concurrency
decide whether the evidence is right: the event repository and its queries,
batches of CloudEvents, the Argo CD collector with its checkpoint, evidence
exports, the projection of events into changes and the cache before it, the
rate limiter and the authorization of requests. TLC checks them on small
instances; every safety property of a passing run is also proved with TLAPS, for
every instance. `PROJECT.json` lists the components,
the runs, the mutants each property is tested with, the source lines behind each
definition, the findings, the hazards and the theorems.

To repeat a run: `tlc -config SqlStore.cfg MCSqlStore`. To repeat the proofs:
`tlapm` on `SortingProofs.tla`, `RepositoryProofs.tla`, `BatchIngestProofs.tla`,
`ArgoPollProofs.tla`, `ArgoInformerProofs.tla`, `ExportJobProofs.tla`,
`ChangeQueryProofs.tla` and `GuardProofs.tla`.

## The system

Evidra collects deployment events, keeps them append-only and answers questions
about changes. The diagram is one process, and so is every module here: the
production overlay runs three replicas, each with a collector, a checkpoint file,
a cache, a rate limiter and a key cache of its own over one database. What the
database guarantees (SqlStore, Timeline) holds for all of them together;
the other properties speak of one replica. In particular three informers
record every deployment three times without any outage, because their ids are
made of the clock, and a client has a rate limit for each replica.

    CloudEvents (POST /v1/events) --> Service.IngestEvent --> Repository (SQL, memory)
                                          | purge                 ^        |
    Argo CD Application --> Collector ----+--- (around it) -------+        |
                              |  checkpoint file                           |
    changes, timelines <-- Service <-- change query cache <----------------+
    exports            <-- Service.CreateExport --> evidence pack on disk

| part | state | operations | what is hard | what makes it correct |
|---|---|---|---|---|
| Repository (`internal/store`) | tables `events`, `exports` | IngestEvent, CreateExport, SetExport... | a transaction's SELECT is stale at its INSERT; commits whose answer is lost | answers true of the table, one acceptance per id, append-only |
| Repository queries (`internal/store`) | none | QueryTimeline, ListSubjects, EventsByExtension | events stored between two pages; times kept as text on SQLite | pages complete and in order, the repositories interchangeable |
| Argo informer (`internal/ingest/argo/collector.go`) | cursors per application, checkpoint file, watch | Start, handleAppEvent, saveCheckpoint | crash between ingest, advance and save; shutdown save beside the handler; merged updates | checkpoint never ahead of the evidence, newest deployment recorded |
| Argo polling (`client_fetch_argocd.go`, `collector.go`) | the same cursors and file | Fetch, toSourceEvents, ingest loop | one ingest of several failing; ids made of changing fields | no deployment overtaken by the cursor, every deployment recorded |
| Exports (`internal/app/service.go`, `internal/export`) | job rows, packs on disk | CreateExport, download | request context cancelled half way, crash, download during the write | packs whole, jobs decided, outcome final |
| Change queries (`internal/app/changes.go`) | LRU of query answers, 256 entries, 10 s | eventsForChangeQuery, IngestEvent's purge | purge between query and Add; collector bypasses the purge | bounded staleness |
| Change projection (`internal/app/changes.go`) | none (computed per query) | buildChangesByID, filters, ListChanges | merges event by event, a cursor over a CompletedAt that moves | late evidence takes nothing away, no change twice, none lost |
| Rate limiter (`internal/api/ratelimit.go`) | window, counters | Allow | clock read outside the mutex | limit per client and minute |
| Authentication (`internal/api/auth.go`, `roles.go`, `jwks.go`) | JWKS key cache under `jwksMu` | authorizeRead, authorizeExport, authorizeIngest, resolveKey, refresh | the mutex is held during a fetch; rotations and failing fetches; fallbacks between tokens | keys fresh, published keys found, nobody let in without a credential, everybody answered |
| POST /v1/events (`internal/api/handlers_events.go`, `internal/cloudevents`) | none | ParseRequest, the ingest loop, handleStoreErr | a batch stops half way; redelivery; a time put in on arrival | an acknowledged batch is stored, sending again is safe |
| Other API handlers (`internal/api`) | none | queries, exports, download | | |
| Webhook providers, Kubernetes collector | none; not wired by the runtime | parsers | | |
| Runtime, configuration, migrations, demo, observability | wiring | | | |
| UI (`ui/src`) | React state | useChanges, export polling | responses out of order | |

## Modules

**EventStore** is the abstract specification of `Repository.IngestEvent`: a map
from id to integrity hash with one atomic check-and-insert. It is
`MemoryRepository.IngestEvent`, whose mutex makes the check one step, with the
two failures every caller has to expect: an error without effect and an error
although the event is stored. Events are ids and hashes; every reason for
`ErrInvalidInput` is the blank id.

**SqlStore** is `SQLRepository.IngestEvent`: begin, SELECT (`getEventTx`),
answer or INSERT, COMMIT, the deferred rollback. `phase` says where a call's
transaction stands, `seen` what its SELECT returned, `owner` which transaction
holds an uncommitted row - a database makes a second INSERT of the same key
wait for it. `Abort`, `CommitAckLost` and `Crash` are the failures. It
implements EventStore (`INSTANCE EventStore WITH ...`): `events`, `req`, `reply`
and `accepts` are mapped to themselves, the rest is hidden.

**BatchIngest** composes `handleEvents` of several senders with EventStore, one
`INSTANCE` whose actions are its repository calls: the whole batch is parsed and
validated (`Refuse`, `ParseRequest`), then `CallNext`, the repository's
`IngestEvent` and `Ingested` or `IngestFailed` for each event, then `Respond`.
`StoreFails`, `HangUp` and `Crash` may come between any two of these steps;
`Resend` is the sender. A hash is what it covers: the body, and the time of the
event or, where `Validate` had to put one in, that of its arrival.

**Timeline** is `QueryTimeline`, `ListSubjects` and `EventsByExtension` of the
memory, PostgreSQL and SQLite repositories as operators of the dialect, and a
client that follows `next_cursor` while other events are stored. A time is a
second and the digits of its fraction, because SQLite compares the text of
RFC3339Nano; the `supporting_observation` flag has the values the three
repositories read differently. So do the other extensions (`Values`): Go's
`ExtensionString` trims a string and takes anything else for missing, `->>` and
`json_extract` give the text of any JSON value, `@>` finds strings only, and a
number is equal to no text in SQLite (`ExtensionText`, `ExtensionIs`,
`HasExtension`). `ListSubjects` is a relation: of subjects whose names join to one
string with ":" the memory repository lists the one its map gives first.
Strings are opaque but for `Trim`, `JsonText` and `Joined`, which are constants.

**Sorting** is what `sort.Slice` and ORDER BY give for a finite set: the i-th
member is the one that i - 1 members come before. Timeline and Changes share it.

**ArgoApp** is the part of an Argo CD Application the collectors read. Argo CD
is not in the repository; the fields and their changes are those the collector
code depends on: `sync.revision` follows comparisons, a successful sync appends
to the history (ids from 0, length limited), `operationState` keeps the last
operation. A tick of `now` passes with every change. A status that was written
has a compared revision and a running sync the revision it syncs (`AppType`).

**ArgoCheckpoint** is what both collectors share: the cursor, `shouldProcess`,
`advanceCheckpoint`, the file with its load and its save, which truncates
before it writes (`os.WriteFile`). An unreadable file is loaded as an empty one.

**ArgoPoll** composes the two with the polling loop: `Fetch` turns a snapshot
into source events (`toSourceEvents` with its ids, keys and the window in which
a history entry is left to the finish event), then `Skip`, `Collect`,
`IngestConflict` or `IngestFails` for each, then the save. The batch is a
function from places to events, with holes where an entry is left out; the loop
takes the event at the smallest place (`Due`). **ArgoInformer**
composes them with the watch: `Deliver` builds the one event `handleAppEvent`
makes of a version, `Ingest`, `Advance`, `TruncateFile` and `WriteFile` follow;
`Cancel`, `StopRead`, `StopStore`, `StopTruncate`, `StopWrite` and `Exit` are the
shutdown beside it. Both write a text they encoded before (`text`, `image`), and
`Save` stores each cursor it read back into the map, which may undo an advance of
the handler: a data race of the code, here one of the interleavings.

**ExportJob** is `Service.CreateExport` step by step in the goroutine of its
request, the pack on disk, and `handleExportDownload`. A cancelled context
makes every later database call fail; writing the pack ignores the context.

**ChangeCache** is the LRU of `Service` with `IngestEvent` and its purge, the
three steps of `eventsForChangeQuery`, and writers that never purge. Expired
entries leave the LRU one at a time (`deleteExpired`). Events are
numbers in the order of `QueryTimeline`; a query has a window of events and the
events with the text it searches for, and an answer is what the search finds in
the oldest `Limit` events of the window (`Selected`). `late` marks a fill that a
purge has overtaken. An entry that is not late has every acknowledged event that
the query would return now; matches beyond the limit are in no answer, cached or not.

**Changes** is what `changes.go` computes from those events: the identity of a
change, its merged result and health, `finalizeChange`, the filters and the
search, the order and the cursor of `ListChanges`, the approvals of
`GetChangeEvidence`. The pure part is a function of a set of events
(`Projection`), compared with what the set says as a whole (`MeetsReference`);
`mergedResult` and `mergedHealth` are recursive functions that merge event by
event, in the order of the query, as the loop of the code does. Around it a
client pages through the list while events arrive, the entry of its query is
purged (`DropEntry`), and a slower request (`SlowRead`, `SlowAdd`) puts an older
answer back. `owed` is a history variable: the places of the filtered list that
every page so far found taken by a change.

**RateLimit** is `authRateLimiter.Allow` in two steps, the clock and the mutex.

**Access** is the decision about a request: `authorizeRead`, `authorizeExport`
and `authorizeIngest` as operators of a configuration, a request and the key
that was found, and `resolveKey` with `refresh` as steps of requests that queue
for `jwksMu`. The issuer rotates keys, answers, or does not; `doc` is a document
on its way, which may be older than the next rotation. Signatures are whether
they fit; `Validate` is what `config.go` asks of a configuration: that a PEM is
there, not that it parses. The id of a key in a token is trimmed, in the document
it is not (`Padded`, `Cached`).

**Guards** puts the two together as `authorizeRead`, Export and Ingest do: with
the limiter enabled a request goes through the clock and the mutex of RateLimit
first, and ends there if it is refused (`Limit`); only then does Access decide about
it (`Authorize`). It extends both modules, so their properties are properties of its
states.

The MC modules give the constants their values. A definition whose comment
says "Mutant of X" is X with a plausible mistake; it is not used by any
specification and exists to show that a property notices the mistake.

## Runs

| run | config | bounds | shows |
|---|---|---|---|
| sql | SqlStore | 3 clients, 1 id, 2 hashes, 1 fault, fair | `RepliesTruthful`, `AppendOnly`; `ImplementsContract` (EventStore); `CallsAnswered` |
| batch | BatchIngest | 4 senders, batches of 1 and 2, 4 ids, 2 ticks, 1 fault, fair | `AckMeansStored`, `RefusalsJustified`, `BatchSettles` |
| timeline | Timeline | 3 dialects, 7 events, 4 extensions, 12 strings, 5 requests, pages of 1 to 3 | `PagesComplete`, `Chronological`, `RepositoriesAgree`, `PagingEnds` |
| poll | ArgoPoll | 4 ticks, 2 revisions, 2 actors, history of 2, 1 failed ingest, 1 crash, fair | `CursorBacked`, `HistoryNotOvertaken`, `HistoryCaptured` |
| poll_gap | ArgoPollGap | 5 ticks, 1 failed ingest | finding: the cursor passes a deployment whose ingest failed |
| informer | ArgoInformer | 4 ticks, 1 failed ingest, 1 outage (crash or shutdown), any number of disconnections with at most 1 version waiting, fair | `CursorBacked`, `DuplicatesNeedOutages`, `NewestCaptured` |
| informer_failed | ArgoInformerFailed | no fault, fair | finding: a failed sync is never recorded |
| informer_duplicates | ArgoInformerDuplicates | 1 crash or shutdown | finding: a restart records a deployment again |
| export | ExportJob | 2 requests, 2 jobs, 1 download, 2 cuts, fair | `DownloadsWhole`, `PendingHasOwner`, `AnswersTruthful`, `OutcomeFinal`, `JobDecided` |
| cache | ChangeCache | 2 readers, 1 writer, 2 events, 2 queries, capacity 1, limit 1, 3 ticks | `ReadsRecentSnapshot`, `HiddenOnlyByRace` |
| changes | Changes | 6 events of 3 changes, 5 requests, 4 events per query, pages of 1 to 3, 1 slow fill | `ProjectionMeetsReference`, `EvidenceGrows`, `NoChangeTwice`, `SettledDelivered` |
| guards | Guards | with the limiter 4 requests, 2 addresses, 2 actions, 2 minutes; with a JWKS document 3 requests, 2 keys, 2 rotations, 3 ticks, refresh every 2, fetches of 1; all other configurations with 1 request; fair | `LimitPerReset`, `RefusedOverLimit`, `KeysFresh`, `PublishedKeyFound`, `NothingOpen`, `NobodyLockedOut`, `EveryoneAnswered` |

The runs of the collectors, the cache, the timeline and the changes also check
the type invariants of their modules; the type invariants of the other modules,
and `AcceptedOnce` of SqlStore, are theorems.

Why the bounds are enough. Two transactions on one id show every order of
SELECT, INSERT and COMMIT; a third adds a waiter behind a waiter; keys do not
interact, so one id is enough. The batches are a pair of events, one of the pair
again on a second connection, an event without time and a valid event before an
invalid one; the fault may hit any step, and two ticks separate two deliveries.
The events of Timeline put several precisions into one second, two events at
one time, a blank subject, every reading of the flag, extensions with blanks
around them, a number and a boolean, two subjects whose names run together and a
key that only SQL refuses; the pages are smaller than the window. Four ticks let an application be deployed, refreshed and
deployed again; one crash reaches every step of the loop because it is always
enabled; history id 0 and a history already cut by its limit are both initial
states. Two cuts are a hang-up or failing call and a crash, in either order.
A backlog of one version is enough to have
a connection lost and the application listed again between any two steps of the
handler; more only repeats versions. Capacity 1 with two queries makes every Add
evict, limit 1 with two events cuts off answers - also the only match of the
query that searches - and three ticks exceed TTL + fill. The events of Changes are one
change with evidence of every health and result, one known by its revision only
and one of another provider; six events exceed the four a query reads. Of the
four requests that the limiter of Guards sees, one moves the window back, one moves it
forward again and two pass; one minute boundary is enough for that. Where keys are
fetched a third request waits behind a second, two rotations withdraw a key and
publish it again, and three ticks pass the refresh interval with a fetch. Limiter and
fetched keys are not enabled in one configuration of the run: neither looks at the
other's state, and the proofs cover them together. Deadlock checking is off where the system may rest: the
informer with nothing to deliver, requests that have all been answered, clients
at the end of their pages.

### Fairness

- `SqlStore`: each call's goroutine is scheduled and the database answers its
  statements (weak fairness per client); faults, crashes and new calls are not
  fair.
- `ArgoPoll`: `wait.UntilWithContext` polls for ever and the orchestrator
  restarts a dead process: weak fairness of the collector's steps.
- `ArgoInformer`: the handler runs, client-go reconnects, an exiting process
  exits and is started again. Saves on shutdown are not fair: main does not
  wait for them.
- `ExportJob`: a started request goes on to its end.
- `BatchIngest`: handlers are scheduled, the repository answers (`CallsAnswered`)
  and a sender repeats a batch that was cut off or answered with 500, which the
  API marks retryable. Faults are bounded and not fair.
- `Timeline`: a client that got a `next_cursor` asks for the next page.
- `Guards`: the mutexes of limiter and key cache are handed on and the `http.Client`
  ends a fetch after its timeout (weak fairness per request). The issuer is not fair.

Argo CD's own steps are never fair.

### Findings

The runs marked *finding*, and for the last point the run `guards`, show where the code does something else than its
documentation says; the quotations are in `PROJECT.json`:

- Polling loses a deployment after one failed ingest (`GapsDetected`).
- The informer records no failed sync after a deployment (`FailedSyncCaptured`).
  It does record running syncs, and applications without any, as finished; this
  contradicts the same line, `argo-ingest-logic.md` 38, and has no run of its own.
- The informer records a deployment again after a crash between its ingest and its
  save (`RecordedOnce`), which `argo-ingest-logic.md` excludes twice.
  `DuplicatesNeedOutages` bounds what is left of the promise: no more than one
  further record for each failing call, crash or shutdown of one process.
- The production setup of `config-modes.md`, a read token and direct JWT mode,
  can be read by nobody: both are wanted in the same header (`BothInOneHeader`).
  `deploy/k8s/overlays/prod/secrets.env.example` asks for the token only where
  JWT is not used. `NobodyLockedOut` says that this and a PEM that does not parse
  are the only valid configurations that lock anybody out, as long as the issuer's
  key is found; it is an equivalence, so the run `guards` shows that both do.

The models also show behaviour that no document contradicts and that has no run
of its own:

- Of two racing ingests of one event the second gets an error of the primary
  key, not "duplicate"; sending it again gives "duplicate".
- An event without `time` that is redelivered conflicts with itself; this is the
  one exception of `RefusalsJustified` and `BatchSettles`.
- Polling writes a deployment with history id 0 again at every poll (the zero
  value of the cursor is "none yet"), and a refresh between two polls gives the
  finish event of an operation another id. After a disconnection the informer
  records only the newest deployment, and it does not retry a failed ingest.
- On SQLite the first and the last second of a window gain and lose events and
  the order within a second is that of the text, where precisions are mixed; the
  three repositories read a `supporting_observation` that is no JSON boolean, and
  any other extension that is no string or has blanks around it, differently;
  only the memory repository lists a blank subject and takes an extension key
  with odd characters, and it lists one of two subjects whose names run together.
- A window with more than 500 events shows the oldest ones: the newest changes
  are missing, and a search finds nothing beyond the oldest 500.
  A search shows a change with the state of the events that match.
  A `history_id` that is a number never identifies a change.
  A change that a health filter leaves out while one page is made, and that later
  evidence brings back at the same time, may have been passed by the cursor.
- A request that read the clock before a minute boundary and took the mutex
  after it moves the rate limiter's window back and clears its counters, which
  is why `LimitPerReset` allows the limit once more for every such reset.
- A PEM that is no RSA key passes `Validate` and fails every token. A key id
  that the issuer's document writes with blanks around it is never found. A failing
  refresh does not move `lastRefresh`, so every request fetches again
  while the issuer fails, one after the other under the mutex.

## Proofs

`SortingProofs` has the lemmas the others share. The library's induction theorems
cannot be instantiated here, so induction is replaced by the least counterexample:
a finite set of numbers has a least one (`LeastOfFinite`, from the
well-foundedness of strict inclusion on finite sets), hence any set of numbers has
(`LeastNumber`), hence what holds of 0 and of n + 1 with n holds up to any bound
(`UpTo`). For a strict total order on a finite set, the members before a member
are a different number for each (`RanksDiffer`) and every number below the
cardinality is one (`RankTaken`), so `SortedBy` lists every member once and in
order (`SortedLists`).

`RepositoryProofs` proves for all sets of clients, ids and hashes and any number
of faults that `Spec` of SqlStore keeps `TypeOK`, `RepliesTruthful`, `AcceptedOnce`
and `AppendOnly` and implements EventStore. The assumption is `ConstantsDistinct`:
the markers (no hash, blank id, no request, no client) are not members of the
sets they extend.

The invariant is `IInv`. `RepliesTruthful` and `AcceptedOnce` are not inductive:
that a COMMIT stores a row under a free key follows from `RowLocks` (an
uncommitted row has one owner, past its INSERT, and its key is free), that
"duplicate" and "conflict" are right although the SELECT is older follows from
`SeenStays`, and that a row belongs to a running call with a valid request from
`InTransaction`. One lemma per group of actions preserves `IInv`. The refinement
maps BEGIN, SELECT, INSERT and rollbacks to stuttering or to `Fail`, and COMMIT
to `Accept`, using the same invariant.

It also proves the type invariant of Timeline, `PagesComplete`, `Chronological`
and `RepositoriesAgree`, for any catalogue of events, requests and limits, from
`TimelineAssumption` (one event per id, times are a second and decimal digits, the
limits of the code in their order) and `TextAssumption` (the empty string trims to
itself; `Trim`, `JsonText` and `Joined` are otherwise arbitrary). Under each dialect `Precedes` is a strict
total order: the lexicographic comparison of fractions, with a prefix before or
after its extensions, is transitive and total (`FracTransitive`, `FracTotal`), the
latter because two different fractions have a least place where they differ. So a
page is the first `limit` of what is ahead of the cursor, in order (`IsPage`).
`TimelineIInv` follows the walk: what was delivered is in order and wanted
(`DeliveredInOrder`), the cursor is the last of it (`CursorAtEnd`), and what was
stored at the start and is not delivered is ahead of it (`NothingSkipped`), which
an event stored behind the cursor does not disturb. `RepositoriesAgree` is about
the operators alone: where all fractions have one length the text of a time
compares like the time, and a plain value is the same text for all three
(`PlainText`), so that they select the same events (`PlainSelects`), find the same
ones by an extension (`PlainByExtension`) and list the same subjects
(`PlainSubjects`).

`ExportJobProofs` proves for any requests, readers, jobs and number of cuts the
type invariant, `DownloadsWhole`, `PendingHasOwner`, `AnswersTruthful` and
`OutcomeFinal` of ExportJob. The assumption is `ExportJobAssumption` (`NoJob` is
no job, the bound on cuts is a natural number). `IInv` adds to the properties
that a job belongs to the one request that inserted it (`JobOwners`: no other
request can write its row or its file), what a request knows of its row and pack
from where it stands (`Stages`: the pack is whole before the row is completed)
and that a download looks at completed jobs with whole packs only (`Published`).
Actions that change the same variables share a lemma: insert, move, write, end,
decide, crash, download. `OutcomeFinal` follows because every UPDATE finds its
row pending.

`BatchIngestProofs` proves for any batches, senders and number of faults the
type invariant of BatchIngest, `AckMeansStored` and `RefusalsJustified`. The
assumption is `BatchAssumption` (batches are finite sequences of items, markers
are no members of their sets). `AckMeansStored` speaks of the end of a request;
`IInv` adds what its handler knows on the way: the events before `done` are
stored as this delivery parsed them (`IngestedStored`), a call in flight is for
the next one and its answer stays true whatever other senders store
(`CallMatches`), an acknowledged sender is through its batch (`AckedDone`), and
only events with an id are parsed (`ParsedValid`). The steps of the repository
have lemmas of their own, about EventStore, which every action that makes a call
uses: a stored hash is never replaced. For the refusals `RInv` says where every
stored hash comes from: an item of a batch that passed validation and was
delivered, with the hash of its only delivery or of one of several
(`StoredDelivered`, `ParsedBatches`). A conflict that the repository reports is
then about an item that another batch, or another delivery without a time,
contests (`RefusalsFounded`).

`GuardProofs` proves for any requests, clients, actions, limits and minutes
the type invariant of RateLimit, `RefusedOverLimit` and `LimitPerReset`, from
`RateLimitAssumption` (finitely many requests, limits are integers). The
properties speak of requests, the limiter of counters; `LimiterIInv` says what a counter
stands for. A count is a request that was answered (`CountsAnswered`, for the
type), and up to the limit one that went through in the window (`CountsPassed`,
for the refusals; `LockingLimited` excludes actions without a limit). `Spent`
follows a minute through the moves of the window: what went through in it is a
limit for each step back, and one more unless the window has yet to move forward
to it - leaving a minute and coming back always takes one step back.

It also proves for any requests, keys, configurations and times the type
invariant of Access, `KeysFresh`, `PublishedKeyFound`, `NothingOpen` and
`NobodyLockedOut`. The assumption is `AccessAssumption` (bounds are natural
numbers, positive where the code's defaults are). `KeysFresh` bounds the age of
a key by the age of the cache: `CacheSeen` says how old a cached key may be when it is taken over,
`DocSeen` that a document under way is younger than its fetch and a fetch not
older than its timeout, `IssuerSeen` ties both to the issuer's history. A
published key is found because the mutex makes the fetch the request's own
(`HolderFetches`) and every document sent since the request came has the key
(`SteadyKept`). `NothingOpen` and `NobodyLockedOut` are facts about the decision
operators; the first is carried to every state by `OutcomesFounded`, the second
is shown with the request that a valid configuration lets in, and for its two
exceptions because a bearer is one thing at a time or no token is a verified one.

Every behaviour of Guards is one of the limiter and one of Access (`GuardsImplement`,
a step of either being a stutter of the other), so all of this holds of requests that
pass both; `GuardsAssumption` says that the `Requests` of the limiter are the `Clients`
of Access.

`ChangeQueryProofs` proves for any capacity, TTL, limit and number of readers and
writers the type invariant of ChangeCache, `ReadsRecentSnapshot` and
`HiddenOnlyByRace`, from `ChangeCacheAssumption` (events are numbers, capacity
and limit are positive). `ReadsRecentSnapshot` speaks of the last answer; `IInv` follows it back to where it came from: an
entry of the cache (`EntryFounded`) and a fill on its way (`FillFounded`) hold
what the query selected in some prefix of the repository's log, one not older
than the commits of its moment (`Snapshot`), and while they are not `late` they
have every answered event that the query would return now: an event that is
stored later may push a match behind the limit but never brings an older one
back (`SelectedShrinks`), so that what an entry has is enough (`CompleteKept`). `LogOrdered` says that commits are in the
order of their times, so that an event committed later does not change an older
prefix, and `AckedStored` that an answered event is in the log from before its
purge.

It also proves for any events, requests, limits and number of slow fills the type
invariant of Changes, `ProjectionMeetsReference`, `EvidenceGrows`,
`NoChangeTwice` and `SettledDelivered`. The assumptions are `ChangesAssumption`
(one event per id, times are numbers, the limits of the code in their order) and
`IdAssumption` (the order of change ids has no ties - two changes with one id
would be one change - and no cursor is the blank one). The reference is first
shown of the merges: the value of `mergedResult` and `mergedHealth` after n
events is the one the set of the first n demands, for n up to their number, by
`UpTo`; a recursive function of TLA+ is a CHOOSE, so that a lemma first builds the
runs of the loop, one event at a time. That a larger set of events gives changes
`AtLeast` as far (`EvidenceGrows`, and the searches of
`ProjectionMeetsReference`) follows from the references of both.

`NoChangeTwice` and `SettledDelivered` need `ChangesIInv`. While snapshots only
grow (`SnapshotsGrow`: an entry of the cache is then the last page's own), a
change that was delivered has since moved ahead in the list if at all
(`DeliveredMovedAhead`), and the cursor has left behind what was delivered
(`DeliveredPassed`), so no later page has it. For the other direction `OwedAhead`
says that a place every page found taken is delivered or still ahead of the cursor.

Two definitions were changed because a proof failed. CASE expressions with
overlapping guards (`mergeResultStatus`, `inferResultStatus`,
`normalizePrimaryProvider`) do not determine a value in TLA+, although TLC takes
the first arm; they are IF ... ELSE now, as in the code. And `SettledDelivered`
used to compare the first and the last page only. This is false beyond the bounds
of the run: a change that a health filter leaves out for one page - three events
that come late, each before the others - is back on the list when the cursor has
passed its place. The property therefore speaks of what every page found.

`ArgoInformerProofs` proves for any revisions, history limit, failures and
outages the type invariant of ArgoInformer, `CursorBacked` and
`DuplicatesNeedOutages`, and that no step between a start and a crash makes the
handler want a deployment again that its cursor has passed, but for the one in
which a shutdown stores back what it read (`InformerStaysHandled`). `HandlerKnows`
carries what `handleAppEvent` has checked and stored to its later steps, and
`ImagesBacked` that what the two saves have read is behind the evidence too; with
them `CursorBacked` is inductive. `DuplicatesNeedOutages` counts: a deployment has a record for each
failing call, crash and shutdown and one more only while the running collector is past it
(`DuplicatesCounted`, `Covered`). That a second record needs a lost cursor
follows because a deployment has the same time wherever it is told of
(`DeploymentsAgree`: the application, versions on their way, the handler's event,
the records), a record has its own number (`RecordsCounted`), and no version
without a status comes after one that has one (`StatusFirst`).

`ArgoPollProofs` proves for any jitter, history limit, failures and crashes the
type invariant of ArgoPoll, `CursorBacked` and `HistoryNotOvertaken`; that a
cursor never wants an event it was advanced over (`HandledOnce`) and, between a
start and a crash, never again a numbered deployment it has passed
(`DeploymentsStayHandled`). `HistoryNotOvertaken` is far from inductive. The loop
may drop an event because the cursor says that it was handled or because the
repository has its id; `EvidenceKept` says what then stands for the deployment:
below the cursor a stored record, or a finish that is stored or still to come;
below a record still to come any of the two; below the cursor of the file
something stored, because a crash takes the batch away. That a record is not
overtaken within a batch follows from the order of ids (`HistoryOrdered`,
`BatchOrdered`), that a new deployment is above every cursor from
`WithinHistory`, and that a dropped finish has its like in the repository from
`FinishAgrees` (an operation has one finish time) - unless the key the cursor
compares is that of a deployment 0, which has the form of the key of an
operation. `ZeroApart` shows that this can only happen to the operation an
application came with, when no numbered deployment exists yet. `EventsFormed`
ties ids, keys and types of events together.

The assumptions about Argo CD are `ArgoAppAssumption` (markers are no members of
their sets, the history holds at least one entry) and the actions of ArgoApp: it
numbers history entries upwards and dates them with a clock that moves between
two changes.

Only model-checked are the liveness properties: fairness and ENABLED are out of
the prover's reach (`CallsAnswered`, `BatchSettles`, `PagingEnds`,
`HistoryCaptured`, `NewestCaptured`, `JobDecided`, `EveryoneAnswered`), and the
findings, which are about one behaviour each.

## Plan

Done: EventStore, SqlStore, BatchIngest; Timeline; ArgoApp, ArgoCheckpoint,
ArgoPoll, ArgoInformer; ExportJob; ChangeCache, Changes; RateLimit, Access, Guards; the
proofs of the safety properties of all of them. The modules were written in this
order because everything else rests on what the repository holds.

## Not modelled

- The Kubernetes collector: the runtime does not start it, and `Validate`
  refuses a configuration that asks for it.
- The webhook registry and its providers: parsers without state; the runtime
  registers none.
- The normalisation of Argo source events and the arithmetic of hashes, keys and
  signatures: conversions of one value. Their effect on identity (which fields
  an id or a hash covers) is in the modules that use them.
- The audit log, metrics and traces: written and never read back. One thing
  about the order is visible in the code alone: an export refused for its role
  is not audited.
- Configuration, migrations, demo data: read once at start. What `Validate` asks
  of the authentication is part of Access, and which repository the collector
  writes to part of ChangeCache.
- The user interface: the state of one page in a browser, which reaches the
  server through the requests modelled here only.
- Several replicas over one database, as said above.
- Within modelled parts: PostgreSQL rounds times to microseconds, the order of
  the list of subjects and a timeline request whose correlation key SQL refuses are
  left out (Timeline); so is a static token that is itself a JWT (Access);
  liveness of paging through changes is not checked, since the projection makes
  the liveness graph of Changes too large; the contents of approvals and the
  wording of results are left out (Changes).
