------------------------------- MODULE ArgoPoll -------------------------------
(***************************************************************************)
(* The polling fallback of the Argo collector: fetch a snapshot of the     *)
(* application, turn it into source events, offer each new one to the      *)
(* store, advance the cursor after each success and save the checkpoint    *)
(* once per poll.  The process may die between any two of these steps.     *)
(***************************************************************************)
EXTENDS ArgoCheckpoint

CONSTANTS Jitter,       \* the 2 minutes of sameRevisionWindow, in ticks
          MaxFaults,    \* bound on failing calls of the store and of the file system
          MaxCrashes    \* bound on crashes of the process

ASSUME ArgoPollAssumption == Jitter \in Nat /\ MaxFaults \in Nat /\ MaxCrashes \in Nat

VARIABLES pc,           \* "down", "idle" between polls, "loop" over the batch, "saving"
          batch,        \* source events of this poll still to be looked at, each at its place
          stored,       \* events in the repository (the SQL store survives a crash)
          faults, crashes

vars == <<app, now, cursor, file, pc, batch, stored, faults, crashes>>

-------------------------------------------------------------------------------
(* toSourceEvents *)

\* deterministicHistoryID, deterministicOperationID, deterministicHealthID
EventId(kind, n, w, t) == [kind |-> kind, n |-> n, what |-> w, at |-> t]

deterministicHistoryID(h) ==
    IF h.id > 0 THEN EventId("hist", h.id, NoRev, 0) ELSE EventId("hist", 0, h.rev, h.at)

historyOperationKey(h) == IF h.id > 0 THEN Key(h.id, NoRev, 0) ELSE Key(0, h.rev, h.at)

resolveActor(a) == IF a.phase \in NoOperation THEN "argocd" ELSE a.by

\* The revision of a terminal operation is taken from the last comparison.
sameRevisionWindow(r, t, terminalRev, start, finish) ==
    /\ r = terminalRev
    /\ start - Jitter <= t /\ t <= finish + Jitter

recordedEvent(h, a) ==
    [id |-> deterministicHistoryID(h), type |-> "argo.deployment.recorded", hist |-> h.id,
     at |-> h.at, key |-> historyOperationKey(h), health |-> NoHealth,
     data |-> [by |-> resolveActor(a), rev |-> h.rev, phase |-> "Recorded"]]

operationEvent(a, type, kind, t) ==
    [id |-> EventId(kind, 0, a.rev, a.start), type |-> type, hist |-> 0,
     at |-> t, key |-> Key(0, a.rev, a.start), health |-> NoHealth,
     data |-> [by |-> resolveActor(a), rev |-> a.rev, phase |-> a.phase]]

healthEvent(a) ==
    [id |-> EventId("health", 0, a.health, a.recon), type |-> "argo.health.changed", hist |-> 0,
     at |-> a.recon, key |-> NoKey, health |-> a.health,
     data |-> [by |-> "argocd", rev |-> a.rev, phase |-> "None"]]

\* The deployments that the finish of the last operation stands for.
superseded(h, a) == a.phase \in Terminal /\ sameRevisionWindow(h.rev, h.at, a.rev, a.start, a.finish)

\* Mutant of historyEvents: newest entry first, as the Argo CD UI lists them.
historyEventsNewestFirst(a) ==
    LET old(i) == a.hist[Len(a.hist) + 1 - i]
    IN  [i \in {j \in DOMAIN a.hist : ~superseded(old(j), a)} |-> recordedEvent(old(i), a)]

historyEvents(a) ==
    [i \in {j \in DOMAIN a.hist : ~superseded(a.hist[j], a)} |-> recordedEvent(a.hist[i], a)]

phaseEvent(a) ==
    IF a.phase = "Running"
    THEN operationEvent(a, "argo.sync.started", "start", a.start)
    ELSE operationEvent(a, "argo.sync.finished", "finish", a.finish)

\* Mutant of toSourceEvents: a terminal operation is also reported as started.
toSourceEventsStartToo(a) ==
    LET n == Len(a.hist)
        hs == historyEvents(a)
    IN  [i \in DOMAIN hs \cup (IF a.phase \in NoOperation THEN {} ELSE {n + 1, n + 2})
                         \cup (IF a.health = NoHealth THEN {} ELSE {n + 3}) |->
             CASE i <= n -> hs[i]
               [] i = n + 1 -> operationEvent(a, "argo.sync.started", "start", a.start)
               [] i = n + 2 -> operationEvent(a, "argo.sync.finished", "finish", a.finish)
               [] i = n + 3 -> healthEvent(a)]

\* The source events of a snapshot in their order: the deployments, each at the place of its
\* entry, then the operation, then the health.
toSourceEvents(a) ==
    LET n == Len(a.hist)
        hs == historyEvents(a)
    IN  [i \in DOMAIN hs \cup (IF a.phase \in NoOperation THEN {} ELSE {n + 1})
                         \cup (IF a.health = NoHealth THEN {} ELSE {n + 2}) |->
             CASE i <= n -> hs[i]
               [] i = n + 1 -> phaseEvent(a)
               [] i = n + 2 -> healthEvent(a)]

NoEvents == [i \in {} |-> NoKey]

SourceEvents ==
    [id : [kind : {"hist", "start", "finish", "health"}, n : Nat, what : Revs \cup {NoRev} \cup Healths, at : Times],
     type : {"argo.deployment.recorded", "argo.sync.started", "argo.sync.finished", "argo.health.changed"},
     hist : Nat, at : Times, key : Keys, health : Healths \cup {NoHealth},
     data : [by : Actors \cup {"argocd"}, rev : Revs \cup {NoRev}, phase : PhaseNames \cup {"Recorded"}]]

-------------------------------------------------------------------------------
(* The collector *)

TypeOK ==
    /\ AppType /\ CheckpointType
    /\ pc \in {"down", "idle", "loop", "saving"}
    /\ batch \in [DOMAIN batch -> SourceEvents] /\ DOMAIN batch \subseteq 1..(HistoryLimit + 2)
    /\ stored \subseteq SourceEvents
    /\ faults \in 0..MaxFaults /\ crashes \in 0..MaxCrashes

Init ==
    /\ InitApp
    /\ cursor = NoCursor /\ file = Absent
    /\ pc = "down" /\ batch = NoEvents /\ stored = {}
    /\ faults = 0 /\ crashes = 0

Fault == faults < MaxFaults /\ faults' = faults + 1

\* Mutant of Start: an unreadable checkpoint is taken for fatal.
StartNeedsReadableFile ==
    /\ pc = "down" /\ file.state # "torn"
    /\ cursor' = loadCheckpoint
    /\ pc' = "idle"
    /\ UNCHANGED <<app, now, file, batch, stored, faults, crashes>>

Start ==
    /\ pc = "down"
    /\ cursor' = loadCheckpoint
    /\ pc' = "idle"
    /\ UNCHANGED <<app, now, file, batch, stored, faults, crashes>>

\* A successful Fetch.  A failing one leaves everything as it is until the next interval.
Fetch ==
    /\ pc = "idle"
    /\ batch' = toSourceEvents(app)
    /\ pc' = "loop"
    /\ UNCHANGED <<app, now, cursor, file, stored, faults, crashes>>

\* The loop looks at batch[i] next.
Due(i) == pc = "loop" /\ \A j \in DOMAIN batch : i <= j

Rest(i) == [j \in DOMAIN batch \ {i} |-> batch[j]]

Skip(i) ==
    /\ Due(i)
    /\ ~shouldProcess(batch[i], cursor)
    /\ batch' = Rest(i)
    /\ UNCHANGED <<app, now, cursor, file, pc, stored, faults, crashes>>

Conflicts(e) == \E s \in stored : s.id = e.id /\ s # e

\* Accepted or duplicate.
Collect(i) ==
    /\ Due(i)
    /\ shouldProcess(batch[i], cursor)
    /\ ~Conflicts(batch[i])
    /\ stored' = stored \cup {batch[i]}
    /\ cursor' = advanceCheckpoint(cursor, batch[i])
    /\ batch' = Rest(i)
    /\ UNCHANGED <<app, now, file, pc, faults, crashes>>

\* ErrConflict: logged, the cursor stays and the loop goes on with the next event.
IngestConflict(i) ==
    /\ Due(i)
    /\ shouldProcess(batch[i], cursor)
    /\ Conflicts(batch[i])
    /\ batch' = Rest(i)
    /\ UNCHANGED <<app, now, cursor, file, pc, stored, faults, crashes>>

\* Mutant of IngestFails: the cursor advances before the error is looked at.
IngestFailsAdvances(i) ==
    /\ Due(i)
    /\ shouldProcess(batch[i], cursor)
    /\ Fault
    /\ cursor' = advanceCheckpoint(cursor, batch[i])
    /\ batch' = Rest(i)
    /\ UNCHANGED <<app, now, file, pc, stored, crashes>>

\* Any other error of the store, with the event stored (a lost answer) or not.
IngestFails(i) ==
    /\ Due(i)
    /\ shouldProcess(batch[i], cursor)
    /\ Fault
    /\ \/ UNCHANGED stored
       \/ ~Conflicts(batch[i]) /\ stored' = stored \cup {batch[i]}
    /\ batch' = Rest(i)
    /\ UNCHANGED <<app, now, cursor, file, pc, crashes>>

\* saveCheckpoint at the end of the loop: os.WriteFile truncates, then writes.
TruncateFile ==
    /\ pc = "loop" /\ batch = NoEvents
    /\ file' = Torn
    /\ pc' = "saving"
    /\ UNCHANGED <<app, now, cursor, batch, stored, faults, crashes>>

WriteFile ==
    /\ pc = "saving"
    /\ file' = Saved(cursor)
    /\ pc' = "idle"
    /\ UNCHANGED <<app, now, cursor, batch, stored, faults, crashes>>

\* The save fails before or after the truncation; the error is logged and the poll is over.
SaveFails ==
    /\ (pc = "loop" /\ batch = NoEvents) \/ pc = "saving"
    /\ Fault
    /\ pc' = "idle"
    /\ UNCHANGED <<app, now, cursor, file, batch, stored, crashes>>

Crash ==
    /\ pc # "down"
    /\ crashes < MaxCrashes
    /\ crashes' = crashes + 1
    /\ pc' = "down" /\ batch' = NoEvents /\ cursor' = NoCursor
    /\ UNCHANGED <<app, now, file, stored, faults>>

Argo == AppNext /\ UNCHANGED <<cursor, file, pc, batch, stored, faults, crashes>>

Loop(i) == Skip(i) \/ Collect(i) \/ IngestConflict(i)

Collector ==
    \/ Start \/ Fetch \/ TruncateFile \/ WriteFile
    \/ \E i \in DOMAIN batch : Loop(i)

Next ==
    \/ Argo \/ Collector \/ SaveFails \/ Crash
    \/ \E i \in DOMAIN batch : IngestFails(i)

Spec == Init /\ [][Next]_vars

\* wait.UntilWithContext polls for ever and the orchestrator restarts a dead process.
FairSpec == Spec /\ WF_vars(Collector)

-------------------------------------------------------------------------------
(* Properties. *)

Recorded(e) == e.type = "argo.deployment.recorded"
Finished(e) == e.type = "argo.sync.finished"

\* Everything the cursor c says was handled is in the repository.
Backed(c) ==
    /\ c.hist > 0 => \E e \in stored : Recorded(e) /\ e.hist = c.hist
    /\ c.termKey # NoKey => \E e \in stored : (Recorded(e) \/ Finished(e)) /\ e.key = c.termKey
    /\ c.startKey # NoKey => \E e \in stored : e.type = "argo.sync.started" /\ e.key = c.startKey
    /\ c.health # NoHealth => \E e \in stored : e.health = c.health

\* The checkpoint never runs ahead of the evidence: neither the cursor in memory nor the
\* one a restart would load names an event that the store does not have, whatever fails and
\* wherever the process dies (collector.go 147-159: ingest, advance, save, in this order).
CursorBacked ==
    /\ Backed(cursor)
    /\ file.state = "ok" => Backed(file.cursor)

\* The deployment h has evidence in es: its own record, or the finish of an operation of
\* the same revision whose window it falls into, for which toSourceEvents leaves it out.
RecordIn(h, es) == \E e \in es : Recorded(e) /\ e.id = deterministicHistoryID(h)
FinishIn(h, es) == \E e \in es : Finished(e) /\ sameRevisionWindow(h.rev, h.at, e.data.rev, e.key.at, e.at)
Evidenced(h, es) == RecordIn(h, es) \/ FinishIn(h, es)

BatchSet == {batch[i] : i \in DOMAIN batch}

\* A deployment at or below the history cursor has its evidence, or has it in the rest of
\* this poll (historyCursorShouldProcess looks at the highest id only).
NotOvertaken ==
    \A i \in DOMAIN app.hist :
        0 < app.hist[i].id /\ app.hist[i].id <= cursor.hist =>
            Evidenced(app.hist[i], stored \cup BatchSet)

\* As long as the store and the file system answer, the history cursor does not overtake a
\* deployment, wherever the process dies and whatever Argo CD does between two polls.
HistoryNotOvertaken == faults = 0 => NotOvertaken

InHistory(n) == \E i \in DOMAIN app.hist : app.hist[i].id = n

\* A deployment in the history of the application gets its evidence, unless Argo CD cuts it
\* off first or a call fails: polling repeats, and neither a crash nor an unreadable
\* checkpoint stops it.
HistoryCaptured ==
    \A n \in HistoryIds :
        InHistory(n) ~>
            \/ faults > 0
            \/ \A i \in DOMAIN app.hist : app.hist[i].id = n => Evidenced(app.hist[i], stored)

\* argo-ingest-logic.md line 57: "checkpoint comparison detects and backfills gaps on
\* reconnect" - so a call that failed once leaves no deployment behind the cursor.
GapsDetected == NotOvertaken
-------------------------------------------------------------------------------
(* The inductive invariant. *)

\* What the fields of an event say of each other.
Formed(e) ==
    /\ Recorded(e) <=> e.id.kind = "hist"
    /\ Recorded(e) => e.id.n = e.hist /\ e.key.n = e.hist /\ (e.hist = 0 => e.key.at = e.at)
    /\ ~Recorded(e) => e.hist = 0
    /\ Finished(e) <=> e.id.kind = "finish"
    /\ Finished(e) =>
           /\ e.key = Key(0, e.data.rev, e.key.at) /\ e.data.rev # NoRev
           /\ e.id = EventId("finish", 0, e.data.rev, e.key.at)

Events == stored \cup BatchSet
EventsFormed == \A e \in Events : Formed(e)

\* A batch exists in the loop only, and has the deployments in the order of their ids.
BatchOrdered ==
    /\ pc # "loop" => batch = NoEvents
    /\ \A i, j \in DOMAIN batch : i < j /\ Recorded(batch[j]) => Recorded(batch[i]) /\ batch[i].hist < batch[j].hist

\* Argo CD numbers and dates what it appends, and a running operation is newer than all of it.
HistoryOrdered ==
    /\ \A i, j \in DOMAIN app.hist : i < j => app.hist[i].id < app.hist[j].id
    /\ app.start <= now /\ \A i \in DOMAIN app.hist : app.hist[i].at <= now
    /\ app.phase = "Running" => \A i \in DOMAIN app.hist : app.hist[i].at < app.start

\* No cursor and no event is ahead of the history.
NewestId == IF app.hist = <<>> THEN 0 ELSE app.hist[Len(app.hist)].id
WithinHistory ==
    /\ cursor.hist <= NewestId /\ file.cursor.hist <= NewestId
    /\ \A e \in Events : e.hist <= NewestId

\* An operation has one finish.
FinishAgrees ==
    /\ \A e \in Events : Finished(e) =>
           /\ e.key.at <= now
           /\ e.key.at = app.start => app.phase \in Terminal /\ e.at = app.finish
    /\ \A e, f \in Events : Finished(e) /\ Finished(f) /\ e.key.at = f.key.at => e.at = f.at

\* The key of deployment 0 has the form of the key of an operation.  They can be equal only
\* for the operation that the application came with, when there is no other deployment.
ZeroTimes ==
    {app.hist[i].at : i \in {j \in DOMAIN app.hist : app.hist[j].id = 0}}
        \cup {e.at : e \in {z \in Events : Recorded(z) /\ z.hist = 0}}
ZeroApart ==
    /\ \A t \in ZeroTimes :
           /\ t <= now
           /\ app.phase = "Running" => t < app.start
           /\ t = app.start => NewestId = 0
    /\ \A i \in DOMAIN batch : Finished(batch[i]) /\ batch[i].key.at \in ZeroTimes =>
           cursor.hist = 0 /\ \A j \in DOMAIN batch : batch[j].hist = 0

\* The evidence of the deployment h at or below the cursor: it is not left to a record that
\* the rest of the batch would bring too late, and the cursor of the file needs no batch.
Kept(h) ==
    /\ h.id <= cursor.hist => RecordIn(h, stored) \/ FinishIn(h, Events)
    /\ (\E j \in DOMAIN batch : h.id <= batch[j].hist) => Evidenced(h, Events)
    /\ file.state = "ok" /\ h.id <= file.cursor.hist => Evidenced(h, stored)
EvidenceKept ==
    faults = 0 => \A i \in DOMAIN app.hist : app.hist[i].id > 0 => Kept(app.hist[i])

IInv ==
    /\ TypeOK /\ EventsFormed /\ BatchOrdered /\ HistoryOrdered /\ WithinHistory
    /\ FinishAgrees /\ ZeroApart /\ EvidenceKept /\ CursorBacked
===============================================================================
