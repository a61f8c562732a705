----------------------------- MODULE ArgoInformer -----------------------------
(***************************************************************************)
(* The primary path of the Argo collector: a watch on the Application      *)
(* whose every version goes through handleAppEvent, one at a time.  The    *)
(* handler makes one source event out of the whole Application, with an    *)
(* id taken from the clock, ingests it, advances the cursor and saves the  *)
(* checkpoint.  On shutdown Start saves the checkpoint too, concurrently   *)
(* with a handler that is still running.                                   *)
(***************************************************************************)
EXTENDS ArgoCheckpoint, FiniteSets

CONSTANTS MaxFaults,    \* bound on failing calls of the store and of the file system
          MaxOutages,   \* bound on crashes and shutdowns
          MaxBacklog    \* a connection is lost only with fewer versions than this to deliver

ASSUME ArgoInformerAssumption ==
    MaxFaults \in Nat /\ MaxOutages \in Nat /\ MaxBacklog \in Nat

VARIABLES pc,           \* handler: "down", "idle", "ingest", "advance", "save", "saving"
          stop,         \* Start: "no", "asked" (ctx cancelled), "read", "back", "saving", "done"
          text, image,  \* the cursor as the save of the handler, and that of Start, read it
          queue,        \* versions of the application the watch still has to deliver
          watching,     \* the watch is connected
          se,           \* the source event of the running handler
          stored,       \* events in the repository
          faults, outages

vars == <<app, now, cursor, file, pc, stop, text, image, queue, watching, se, stored, faults, outages>>

\* One source event of a whole Application: the last history entry, the revision of the
\* last comparison and whatever phase the operation is in.
sourceEvent(a) ==
    LET has == a.hist # <<>>
        last == a.hist[Len(a.hist)]
    IN  [type |-> "argo.sync.finished",
         hist |-> IF has THEN last.id ELSE 0,
         at |-> IF has THEN last.at ELSE IF a.finish # 0 THEN a.finish ELSE now,
         key |-> Key(0, IF a.rev # NoRev THEN a.rev ELSE IF has THEN last.rev ELSE NoRev, 0),
         health |-> a.health,
         phase |-> a.phase]

NoEvent == [type |-> "none", hist |-> 0, at |-> 0, key |-> NoKey, health |-> NoHealth, phase |-> "None"]

SourceEvents ==
    [type : {"none", "argo.sync.finished"}, hist : Nat, at : Times, key : Keys,
     health : Healths \cup {NoHealth}, phase : PhaseNames]

Records == [n : Nat, hist : Nat, at : Times, key : Keys, phase : PhaseNames]

TypeOK ==
    /\ AppType /\ CheckpointType
    /\ pc \in {"down", "idle", "ingest", "advance", "save", "saving"}
    /\ stop \in {"no", "asked", "read", "back", "saving", "done"}
    /\ text \in Cursors /\ image \in Cursors
    /\ queue \in Seq(Apps)
    /\ se \in SourceEvents /\ stored \subseteq Records
    /\ pc \in {"ingest", "advance", "save", "saving"} => se # NoEvent
    /\ watching \in BOOLEAN
    /\ faults \in 0..MaxFaults /\ outages \in 0..MaxOutages

Init ==
    /\ InitApp
    /\ cursor = NoCursor /\ file = Absent
    /\ pc = "down" /\ stop = "no" /\ queue = <<>> /\ watching = FALSE
    /\ text = NoCursor /\ image = NoCursor
    /\ se = NoEvent /\ stored = {}
    /\ faults = 0 /\ outages = 0

Fault == faults < MaxFaults /\ faults' = faults + 1
Outage == outages < MaxOutages /\ outages' = outages + 1

\* Start: load the checkpoint, list the applications (an Add for each) and watch.
Start ==
    /\ pc = "down"
    /\ cursor' = loadCheckpoint
    /\ pc' = "idle" /\ stop' = "no" /\ queue' = <<app>> /\ watching' = TRUE
    /\ UNCHANGED <<app, now, file, se, stored, faults, outages, image, text>>

\* handleAppEvent up to shouldProcess.  Without a status the handler panics, and client-go
\* lets the panic end the process.
Deliver ==
    /\ pc = "idle" /\ queue # <<>>
    /\ Head(queue).phase # "NoStatus"
    /\ queue' = Tail(queue)
    /\ LET e == sourceEvent(Head(queue)) IN
           IF shouldProcess(e, cursor)
           THEN pc' = "ingest" /\ se' = e
           ELSE UNCHANGED <<pc, se>>
    /\ UNCHANGED <<app, now, cursor, file, stop, watching, stored, faults, outages, image, text>>

Died ==
    /\ pc' = "down" /\ stop' = "no" /\ queue' = <<>> /\ watching' = FALSE
    /\ se' = NoEvent /\ cursor' = NoCursor /\ text' = NoCursor /\ image' = NoCursor

Panic ==
    /\ pc = "idle" /\ queue # <<>>
    /\ Head(queue).phase = "NoStatus"
    /\ Died
    /\ UNCHANGED <<app, now, file, stored, faults, outages>>

\* The id comes from the clock, so no event is ever a duplicate or a conflict to the store.
Record(e) == [n |-> Cardinality(stored) + 1, hist |-> e.hist, at |-> e.at, key |-> e.key, phase |-> e.phase]

Ingest ==
    /\ pc = "ingest" /\ stop = "no"
    /\ stored' = stored \cup {Record(se)}
    /\ pc' = "advance"
    /\ UNCHANGED <<app, now, cursor, file, stop, queue, watching, se, faults, outages, image, text>>

\* Mutant of IngestFails: the cursor is advanced before the outcome is known.
IngestFailsAdvances ==
    /\ pc = "ingest"
    /\ \/ stop # "no" /\ UNCHANGED <<stored, faults>>
       \/ Fault /\ UNCHANGED stored
    /\ cursor' = advanceCheckpoint(cursor, se)
    /\ pc' = "idle" /\ se' = NoEvent
    /\ UNCHANGED <<app, now, file, stop, queue, watching, outages, image, text>>

\* Mutant of IngestFails: the handler tries again with the event already dropped.
IngestFailsKeepsOn ==
    /\ pc = "ingest"
    /\ Fault
    /\ se' = NoEvent
    /\ UNCHANGED <<app, now, cursor, file, pc, stop, queue, watching, stored, outages, image, text>>

\* The store fails (with the event stored if only its answer is lost) or, after the context
\* was cancelled, refuses: the handler returns and nothing retries it.
IngestFails ==
    /\ pc = "ingest"
    /\ \/ stop # "no" /\ UNCHANGED <<stored, faults>>
       \/ Fault /\ UNCHANGED stored
       \/ Fault /\ stored' = stored \cup {Record(se)}
    /\ pc' = "idle" /\ se' = NoEvent
    /\ UNCHANGED <<app, now, cursor, file, stop, queue, watching, outages, image, text>>

\* Mutant of Advance: the advance is left to a later successful save and is forgotten.
AdvanceForgotten ==
    /\ pc = "advance"
    /\ pc' = "save"
    /\ UNCHANGED <<app, now, cursor, file, stop, queue, watching, se, stored, faults, outages, image, text>>

Advance ==
    /\ pc = "advance"
    /\ cursor' = advanceCheckpoint(cursor, se)
    /\ pc' = "save"
    /\ UNCHANGED <<app, now, file, stop, queue, watching, se, stored, faults, outages, image, text>>

\* saveCheckpoint in the handler.  The text is encoded before the file is truncated.
TruncateFile ==
    /\ pc = "save"
    /\ text' = cursor /\ file' = Torn
    /\ pc' = "saving"
    /\ UNCHANGED <<app, now, cursor, stop, queue, watching, se, stored, faults, outages, image>>

\* What a save that has truncated the file leaves in it.  Two saves that write at once, or one
\* after the other over a text of another length, leave a mixture.
Written(c, other) ==
    {Saved(c)} \cup (IF other = "saving" \/ (file.state = "ok" /\ file.cursor # c) THEN {Torn} ELSE {})

WriteFile ==
    /\ pc = "saving"
    /\ file' \in Written(text, stop)
    /\ pc' = "idle" /\ se' = NoEvent /\ text' = NoCursor
    /\ UNCHANGED <<app, now, cursor, stop, queue, watching, stored, faults, outages, image>>

SaveFails ==
    /\ pc \in {"save", "saving"}
    /\ Fault
    /\ pc' = "idle" /\ se' = NoEvent /\ text' = NoCursor
    /\ UNCHANGED <<app, now, cursor, file, stop, queue, watching, stored, outages, image>>

\* ctx.Done: the informer stops, Start saves the checkpoint and returns.
Cancel ==
    /\ pc # "down" /\ stop = "no"
    /\ Outage
    /\ stop' = "asked" /\ queue' = <<>> /\ watching' = FALSE
    /\ UNCHANGED <<app, now, cursor, file, pc, se, stored, faults, image, text>>

\* Save walks over the map of cursors and stores each one back, with its time in UTC, while
\* the handler may advance it: the advance is then lost, or Go notices the concurrent access
\* to the map and ends the process, as Exit does.
StopRead ==
    /\ stop = "asked"
    /\ image' = cursor
    /\ stop' = "read"
    /\ UNCHANGED <<app, now, cursor, file, pc, queue, watching, se, stored, faults, outages, text>>

StopStore ==
    /\ stop = "read"
    /\ cursor' = image
    /\ stop' = "back"
    /\ UNCHANGED <<app, now, file, pc, queue, watching, se, stored, faults, outages, image, text>>

StopTruncate ==
    /\ stop = "back"
    /\ image' = cursor /\ file' = Torn
    /\ stop' = "saving"
    /\ UNCHANGED <<app, now, cursor, pc, queue, watching, se, stored, faults, outages, text>>

StopWrite ==
    /\ stop = "saving"
    /\ file' \in Written(image, pc)
    /\ stop' = "done"
    /\ UNCHANGED <<app, now, cursor, pc, queue, watching, se, stored, faults, outages, image, text>>

\* main returns without waiting for the collector.
Exit ==
    /\ stop # "no"
    /\ Died
    /\ UNCHANGED <<app, now, file, stored, faults, outages>>

Crash ==
    /\ pc # "down" /\ stop = "no"
    /\ Outage
    /\ Died
    /\ UNCHANGED <<app, now, file, stored, faults>>

\* A lost connection, any number of times: what changes until the relist is seen as one version.
Disconnect ==
    /\ watching /\ Len(queue) < MaxBacklog
    /\ watching' = FALSE
    /\ UNCHANGED <<app, now, cursor, file, pc, stop, queue, se, stored, faults, outages, image, text>>

Relist ==
    /\ pc # "down" /\ stop = "no" /\ ~watching
    /\ watching' = TRUE /\ queue' = Append(queue, app)
    /\ UNCHANGED <<app, now, cursor, file, pc, stop, se, stored, faults, outages, image, text>>

Argo ==
    /\ AppNext
    /\ queue' = IF watching THEN Append(queue, app') ELSE queue
    /\ UNCHANGED <<cursor, file, pc, stop, watching, se, stored, faults, outages, image, text>>

Handler == Deliver \/ Panic \/ Ingest \/ Advance \/ TruncateFile \/ WriteFile

Next ==
    \/ Argo \/ Start \/ Handler \/ Relist
    \/ IngestFails \/ SaveFails \/ Disconnect
    \/ Cancel \/ StopRead \/ StopStore \/ StopTruncate \/ StopWrite \/ Exit \/ Crash

Spec == Init /\ [][Next]_vars

\* The informer's goroutine runs, client-go reconnects, a cancelled process ends and the
\* orchestrator starts it again.
FairSpec ==
    /\ Spec
    /\ WF_vars(Handler) /\ WF_vars(Relist) /\ WF_vars(Exit) /\ WF_vars(Start)

-------------------------------------------------------------------------------
(* Properties. *)

\* Everything the cursor c says was handled is in the repository.
Backed(c) ==
    /\ c.hist > 0 => \E e \in stored : e.hist = c.hist /\ e.at <= c.at
    /\ c.termKey # NoKey => \E e \in stored : e.hist = 0 /\ e.key = c.termKey

\* The checkpoint never runs ahead of the evidence, in memory or in the file a restart
\* loads, however handler, shutdown save, failures and crashes interleave
\* (collector.go 99-100 and 289-302).
CursorBacked ==
    /\ Backed(cursor)
    /\ file.state = "ok" => Backed(file.cursor)

RecordsOf(n) == {e \in stored : e.hist = n}

\* Within one run of the collector the cursor makes every later version of an application a
\* no-op, relists after any number of lost connections included: a deployment gets a further
\* record only for a failing call, a crash or a shutdown, one for each (collector.go 270-302;
\* the clock in the id, line 253, leaves the store no way to notice).
DuplicatesNeedOutages ==
    \A n \in HistoryIds \ {0} : Cardinality(RecordsOf(n)) <= 1 + outages + faults

\* argo-ingest-logic.md lines 50 and 58: the checkpoint "prevents duplicate ingest writes across
\* informer watch cycles and restarts"; "deterministic IDs + checkpoint guards prevent
\* duplicate evidence records".
RecordedOnce == \A n \in HistoryIds \ {0} : Cardinality(RecordsOf(n)) <= 1

LastIs(n) == app.hist # <<>> /\ app.hist[Len(app.hist)].id = n

\* As long as the store answers, the newest deployment gets a record, through lost
\* connections, crashes, unreadable checkpoints and a handler that panics.
NewestCaptured ==
    \A n \in HistoryIds \ {0} : LastIs(n) ~> (RecordsOf(n) # {} \/ ~LastIs(n) \/ faults > 0)

\* argo-ingest-logic.md line 38: a Failed operation is a "primary completion signal" too.
FailedSyncCaptured ==
    app.phase = "Failed" ~> (app.phase # "Failed" \/ \E e \in stored : e.phase = "Failed")
-------------------------------------------------------------------------------
(* The inductive invariant. *)

\* What the handler has made sure of, in each of its steps.
HandlerKnows ==
    /\ pc = "ingest" /\ stop = "no" => shouldProcess(se, cursor)
    /\ pc = "advance" => \E e \in stored : e.hist = se.hist /\ e.at = se.at /\ e.key = se.key
    /\ pc \in {"ingest", "advance", "save", "saving"} => se.type = "argo.sync.finished"

\* What the two saves have read is behind the evidence too.
ImagesBacked == Backed(text) /\ Backed(image)

\* Every ingest leaves a record of its own.
RecordsCounted == IsFiniteSet(stored) /\ \A e \in stored : e.n <= Cardinality(stored)

\* The status is written once: versions without one come first, and nothing was recorded
\* while one is still to be delivered.
StatusFirst ==
    /\ \A i, j \in DOMAIN queue : i < j /\ queue[j].phase = "NoStatus" => queue[i].phase = "NoStatus"
    /\ app.phase = "NoStatus" => \A i \in DOMAIN queue : queue[i].phase = "NoStatus"
    /\ app.phase = "NoStatus" \/ (\E i \in DOMAIN queue : queue[i].phase = "NoStatus") =>
           stored = {} /\ pc \in {"down", "idle"}

\* The deployments, with their times, that the application, a version on its way, the handler
\* or a record tells of.
Versions == {app} \cup {queue[i] : i \in DOMAIN queue}
Told ==
    {[n |-> a.hist[Len(a.hist)].id, at |-> a.hist[Len(a.hist)].at] : a \in {v \in Versions : v.hist # <<>>}}
        \cup {[n |-> e.hist, at |-> e.at] : e \in stored \cup {se}}
Deployments == {d \in Told : d.n > 0}

\* A deployment has one time, and none is newer than the last in the history.
DeploymentsAgree ==
    /\ \A c, d \in Deployments : c.n = d.n => c.at = d.at
    /\ \A d \in Deployments : app.hist # <<>> /\ d.n <= app.hist[Len(app.hist)].id

\* The running collector will not record deployment n again.
Covered(n) ==
    /\ pc # "down" /\ stop = "no"
    /\ n <= cursor.hist \/ (pc = "advance" /\ se.hist = n)

\* Every loss of the cursor that follows a record is counted.
DuplicatesCounted ==
    \A n \in HistoryIds \ {0} :
        Cardinality(RecordsOf(n)) <= outages + faults + (IF Covered(n) THEN 1 ELSE 0)

IInv ==
    /\ TypeOK /\ HandlerKnows /\ RecordsCounted /\ CursorBacked /\ ImagesBacked
    /\ StatusFirst /\ DeploymentsAgree /\ DuplicatesCounted
===============================================================================
