------------------------------- MODULE Timeline -------------------------------
(***************************************************************************)
(* The reads of the event repository, in its three variants: the map of    *)
(* MemoryRepository and the SQL of SQLRepository for PostgreSQL and for    *)
(* SQLite.  A client of /v1/timeline follows next_cursor from page to page *)
(* while other clients store events anywhere in the timeline.  SQLite      *)
(* keeps event_time as text, so its order is that of the characters.       *)
(***************************************************************************)
EXTENDS Naturals, Sequences, FiniteSets, Sorting

CONSTANTS Catalog,      \* the events that may be stored
          Queries,      \* the requests a client may make
          NoCursor,
          Text, Blank,  \* strings, and the empty one: a missing subject, extension or filter
          Trim,         \* strings.TrimSpace
          JsonText,     \* the text PostgreSQL and SQLite give of a JSON value that is no string
          Joined(_),    \* a subject's names with ":" between them
          Keys, ValidKeys,  \* names of extensions, and those isValidExtensionKey lets pass
          InvalidInput,     \* the answer ErrInvalidInput
          DefaultLimit, MaxLimit,   \* 50 and 500, scaled down
          ByExtensionLimit          \* 100, scaled down

Dialects == {"memory", "postgres", "sqlite"}

\* A time is a second and the digits of its fraction, without trailing zeros (RFC3339Nano).
Times == [sec : Nat, frac : Seq(0..9)]

\* An extension as it came in the event: missing or null, a string, a number or boolean, or
\* an object or array.
Values == [kind : {"absent", "string", "scalar", "composite"}, text : Text]

ASSUME TextAssumption ==
    /\ Blank \in Text /\ Trim \in [Text -> Text] /\ Trim[Blank] = Blank
    /\ JsonText \in [{"postgres", "sqlite"} -> [Text -> Text]]
    /\ {"cluster", "namespace"} \subseteq ValidKeys /\ ValidKeys \subseteq Keys
    /\ Blank \notin Keys
    /\ \A e \in Catalog : e.subject \in Text /\ e.ext \in [Keys -> Values]
    /\ \A q \in Queries : q.key \in ValidKeys \cup {Blank} /\ q.value \in Text

ASSUME TimelineAssumption ==
    /\ \A e \in Catalog : e.time \in Times /\ e.id \in Nat
    /\ \A e, f \in Catalog : e.id = f.id => e = f
    /\ \A e \in Catalog : NoCursor # [time |-> e.time, id |-> e.id]
    /\ \A q \in Queries : q.from \in Times /\ q.to \in Times /\ q.limit \in Nat
    /\ DefaultLimit \in 1..MaxLimit /\ MaxLimit \in Nat /\ ByExtensionLimit \in Nat \ {0}

VARIABLES dialect,      \* the repository the server was started with
          stored,       \* the events in it
          query,        \* the request the client is paging through
          cursor,       \* the next_cursor of its last page
          base,         \* what was stored when it asked for the first page
          delivered,    \* the items of its pages so far, in order
          status        \* "idle", "paging" or "done"

timelineVars == <<dialect, stored, query, cursor, base, delivered, status>>

-------------------------------------------------------------------------------
(* Time as the repositories compare it. *)

\* The order of two fractions; longerFirst when one begins with the other.
FracBefore(f, g, longerFirst) ==
    LET common == DOMAIN f \cap DOMAIN g
    IN  \/ \E i \in common : f[i] < g[i] /\ \A j \in 1..(i - 1) : f[j] = g[j]
        \/ /\ \A i \in common : f[i] = g[i]
           /\ IF longerFirst THEN Len(f) > Len(g) ELSE Len(f) < Len(g)

TimeBefore(t, u) ==
    t.sec < u.sec \/ (t.sec = u.sec /\ FracBefore(t.frac, u.frac, FALSE))

\* As text, "." and the digits come before the "Z" that ends a shorter fraction.
TextBefore(t, u) ==
    t.sec < u.sec \/ (t.sec = u.sec /\ FracBefore(t.frac, u.frac, TRUE))

tsBefore(d, t, u) == IF d = "sqlite" THEN TextBefore(t, u) ELSE TimeBefore(t, u)

-------------------------------------------------------------------------------
(* The queries. *)

\* Mutant of Supporting: SQLite only looks whether the extension is there.
SupportingIfPresent(d, e) == e.obs \in {"true"} \cup (IF d = "sqlite" THEN {"false"} ELSE {})

\* supporting_observation as each repository reads it: Go's ExtensionBool, the text of ->>,
\* and a comparison with the number 0.
Supporting(d, e) ==
    e.obs \in CASE d = "memory"   -> {"true", "number", "text true", "text yes"}
                [] d = "postgres" -> {"true", "text true"}
                [] d = "sqlite"   -> {"true", "number", "text true", "text yes", "text false"}

\* An extension as text: ExtensionString trims and knows strings only, ->> and json_extract
\* give any value.
ExtensionText(d, v) ==
    IF v.kind = "absent" THEN Blank
    ELSE IF d = "memory" THEN (IF v.kind = "string" THEN Trim[v.text] ELSE Blank)
    ELSE IF v.kind = "string" THEN v.text ELSE JsonText[d][v.text]

\* The extension compared with a filter: a number is not equal to a text in SQLite.
ExtensionIs(d, v, want) ==
    /\ v.kind # "absent" /\ ExtensionText(d, v) = want
    /\ d = "sqlite" => v.kind # "scalar"

\* nullable: a subject of blanks is NULL in the SQL table.
HasSubject(d, e) == IF d = "memory" THEN e.subject # Blank ELSE Trim[e.subject] # Blank

InWindow(d, e, q) == ~tsBefore(d, e.time, q.from) /\ ~tsBefore(d, q.to, e.time)

Allows(want, have) == want = Blank \/ have = want

AllowsExtension(d, want, v) == want = Blank \/ ExtensionIs(d, v, want)

Selects(d, e, q) ==
    /\ q.subject # Blank =>
           /\ HasSubject(d, e) /\ e.subject = q.subject
           /\ AllowsExtension(d, q.cluster, e.ext["cluster"])
           /\ AllowsExtension(d, q.namespace, e.ext["namespace"])
    /\ Allows(q.source, e.source) /\ Allows(q.type, e.type)
    /\ q.key # Blank => AllowsExtension(d, q.value, e.ext[q.key])
    /\ q.supporting \/ ~Supporting(d, e)

Precedes(d, e, f) ==
    tsBefore(d, e.time, f.time) \/ (e.time = f.time /\ e.id < f.id)

\* Mutant of AfterCursor: the row the cursor names is not left out.
AfterCursorOrAt(d, c, e) == c = NoCursor \/ ~Precedes(d, e, c)

\* Mutant of AfterCursor: the cursor is the time alone.
AfterCursorByTime(d, c, e) == c = NoCursor \/ tsBefore(d, c.time, e.time)

AfterCursor(d, c, e) == c = NoCursor \/ Precedes(d, c, e)

boundedLimit(n) ==
    IF n = 0 THEN DefaultLimit ELSE IF n > MaxLimit THEN MaxLimit ELSE n

sortStoredEvents(d, S) == SortedBy([e \in S |-> {f \in S : Precedes(d, f, e)}])

\* Mutant of encodeCursor: RFC3339 for RFC3339Nano, the fraction is lost.
encodeCursorSeconds(e) == [time |-> [e.time EXCEPT !.frac = <<>>], id |-> e.id]

encodeCursor(e) == [time |-> e.time, id |-> e.id]

Hits(d, S, q, c) ==
    sortStoredEvents(d, {e \in S : InWindow(d, e, q) /\ Selects(d, e, q) /\ AfterCursor(d, c, e)})

\* Mutant of QueryTimeline: every page has a next_cursor.
QueryTimelineEndless(d, S, q, c) ==
    LET items == Hits(d, S, q, c)
        n     == boundedLimit(q.limit)
        page  == SubSeq(items, 1, IF Len(items) > n THEN n ELSE Len(items))
    IN  [items |-> page, next |-> IF page = <<>> THEN c ELSE encodeCursor(page[Len(page)])]

QueryTimeline(d, S, q, c) ==
    LET items == Hits(d, S, q, c)
        n     == boundedLimit(q.limit)
    IN  IF Len(items) > n
        THEN [items |-> SubSeq(items, 1, n), next |-> encodeCursor(items[n])]
        ELSE [items |-> items, next |-> NoCursor]

SubjectInfo(d, e) ==
    <<e.subject, ExtensionText(d, e.ext["cluster"]), ExtensionText(d, e.ext["namespace"])>>

Subjects(d, S) == {SubjectInfo(d, e) : e \in S}

\* The lists out that ListSubjects may answer.  Memory lists one of the subjects whose names
\* join to the same string, the one its map happens to give first; SQL leaves NULL out.
ListSubjects(d, S, out) ==
    IF d = "memory"
    THEN /\ out \subseteq Subjects(d, S)
         /\ \A s \in Subjects(d, S) : \E t \in out : Joined(t) = Joined(s)
         /\ \A s, t \in out : Joined(s) = Joined(t) => s = t
    ELSE out = Subjects(d, {e \in S : HasSubject(d, e)})

\* PostgreSQL's @> finds strings only.
HasExtension(d, e, key, value) ==
    /\ ExtensionIs(d, e.ext[key], value)
    /\ d = "postgres" => e.ext[key].kind = "string"

EventsByExtension(d, S, key, value) ==
    LET items == sortStoredEvents(d, {e \in S : HasExtension(d, e, key, value)})
    IN  IF key = Blank \/ value = Blank \/ (d # "memory" /\ key \notin ValidKeys)
        THEN InvalidInput
        ELSE SubSeq(items, 1,
                    IF Len(items) > ByExtensionLimit THEN ByExtensionLimit ELSE Len(items))

-------------------------------------------------------------------------------
(* The client and the writers. *)

TimelineTypeOK ==
    /\ dialect \in Dialects
    /\ stored \subseteq Catalog /\ base \subseteq stored
    /\ query \in Queries
    /\ cursor \in {NoCursor} \cup {[time |-> e.time, id |-> e.id] : e \in stored}
    /\ delivered \in Seq(stored)
    /\ status \in {"idle", "paging", "done"}
    /\ status = "done" => cursor = NoCursor

TimelineInit ==
    /\ dialect \in Dialects
    /\ stored = {} /\ base = {}
    /\ query \in Queries
    /\ cursor = NoCursor /\ delivered = <<>> /\ status = "idle"

\* IngestEvent of another client, at any time in the timeline.
Ingest(e) ==
    /\ e \notin stored
    /\ stored' = stored \cup {e}
    /\ UNCHANGED <<dialect, query, cursor, base, delivered, status>>

\* handleTimeline refuses a request without a subject or a correlation.
InScope(q) == q.subject # Blank \/ (q.key # Blank /\ q.value # Blank)

Page(c) ==
    LET res == QueryTimeline(dialect, stored, query, c)
    IN  /\ delivered' = delivered \o res.items
        /\ cursor' = res.next
        /\ status' = IF res.next = NoCursor THEN "done" ELSE "paging"

FirstPage ==
    /\ status = "idle" /\ InScope(query)
    /\ base' = stored
    /\ Page(NoCursor)
    /\ UNCHANGED <<dialect, stored, query>>

NextPage ==
    /\ status = "paging"
    /\ Page(cursor)
    /\ UNCHANGED <<dialect, stored, query, base>>

TimelineNext ==
    \/ \E e \in Catalog : Ingest(e)
    \/ FirstPage
    \/ NextPage

TimelineSpec == TimelineInit /\ [][TimelineNext]_timelineVars

\* A client that has a next_cursor asks for the next page.
TimelineFairSpec == TimelineSpec /\ WF_timelineVars(NextPage)

-------------------------------------------------------------------------------
(* The inductive invariant: the pages so far are the timeline up to the cursor. *)

DeliveredSet == {delivered[i] : i \in DOMAIN delivered}

Wanted(e) == InWindow(dialect, e, query) /\ Selects(dialect, e, query)

\* What was delivered is in the repository's own order, over all the pages.
DeliveredInOrder ==
    /\ \A e \in DeliveredSet : Wanted(e)
    /\ \A i, j \in DOMAIN delivered : i < j => Precedes(dialect, delivered[i], delivered[j])

\* The cursor stands at the last item of the last page.
CursorAtEnd ==
    /\ status = "idle" => delivered = <<>>
    /\ status = "paging" => delivered # <<>> /\ cursor = encodeCursor(delivered[Len(delivered)])

\* What is still owed to the client is ahead of the cursor.
NothingSkipped ==
    \A e \in base : Wanted(e) =>
        e \in DeliveredSet \/ (status = "paging" /\ AfterCursor(dialect, cursor, e))

TimelineIInv ==
    /\ TimelineTypeOK /\ IsFiniteSet(stored)
    /\ DeliveredInOrder /\ CursorAtEnd /\ NothingSkipped

-------------------------------------------------------------------------------
(* Properties. *)

\* Where the characters and the time disagree: SQLite, in the first and the last second.
OnEdge(e) == dialect = "sqlite" /\ e.time.sec \in {query.from.sec, query.to.sec}

\* A walk that is over has delivered every event of the window that was stored when it
\* began, and nothing from outside the window; on SQLite the first and the last second of
\* the window are excepted, where the text comparison drops and adds events (sql.go 138-143).
PagesComplete ==
    /\ status = "done" =>
           \A e \in base :
               InWindow("memory", e, query) /\ Selects(dialect, e, query) /\ ~OnEdge(e)
                   => e \in DeliveredSet
    /\ \A e \in DeliveredSet : InWindow("memory", e, query) \/ OnEdge(e)

\* Over all pages of one walk no event is delivered twice and all are in the order of event
\* time, although events arrive before and behind the cursor and share their time with it;
\* SQLite keeps that order between seconds only (sql.go 171-175, store.go 170-174, tsValue).
Chronological ==
    \A i, j \in DOMAIN delivered : i < j =>
        /\ delivered[i] # delivered[j]
        /\ \/ ~TimeBefore(delivered[j].time, delivered[i].time)
           \/ dialect = "sqlite" /\ delivered[i].time.sec = delivered[j].time.sec

TimesSeen == {e.time : e \in stored} \cup {query.from, query.to}

\* A value every repository reads alike: none, or a string without blanks around it.
PlainValue(v) == v.kind = "absent" \/ (v.kind = "string" /\ Trim[v.text] = v.text)

\* An event of such values, with a flag that is a JSON boolean and a subject not all blanks.
PlainEvent(e) ==
    /\ e.obs \in {"absent", "true", "false"}
    /\ \A k \in ValidKeys : PlainValue(e.ext[k])
    /\ Trim[e.subject] = Blank => e.subject = Blank

\* Such events only, and times of one precision.
Plain ==
    /\ \A t, u \in TimesSeen : Len(t.frac) = Len(u.frac)
    /\ \A e \in stored : PlainEvent(e)

\* No two subjects have names that join to the same string.
Unambiguous ==
    \A s, t \in Subjects("memory", stored) : Joined(s) = Joined(t) => s = t

\* On plain data the three repositories are interchangeable: the same page, the same cursor,
\* the same events of an extension they all take the name of, and the same subjects, blank
\* ones aside, unless names with ":" in them run together.  On any data an event that one
\* repository selects and another does not is one of odd values (sql.go 145-163, 201-265,
\* store.go 150-172, 195-245, ExtensionString).
RepositoriesAgree ==
    \A d \in Dialects :
        /\ Plain =>
               /\ \A c \in {cursor} \cup {encodeCursor(e) : e \in stored} :
                      QueryTimeline(d, stored, query, c) = QueryTimeline("memory", stored, query, c)
               /\ \A k \in ValidKeys, v \in Text :
                      EventsByExtension(d, stored, k, v) = EventsByExtension("memory", stored, k, v)
               /\ \A out \in SUBSET Subjects("memory", stored) :
                      Unambiguous /\ ListSubjects("memory", stored, out) =>
                          ListSubjects(d, stored, {s \in out : d = "memory" \/ s[1] # Blank})
        /\ \A e \in stored :
               Selects(d, e, query) # Selects("memory", e, query) => ~PlainEvent(e)

\* A client that follows next_cursor comes to the end of the timeline.
PagingEnds == status = "paging" ~> status = "done"
===============================================================================
