---------------------------- MODULE ArgoCheckpoint ----------------------------
(***************************************************************************)
(* The checkpoint the informer and the polling collector share: the cursor *)
(* of an application in memory (AppCheckpoint), the decision whether a     *)
(* source event is new, the advance after a successful ingest, and the     *)
(* checkpoint file with its load and its non-atomic save.                  *)
(***************************************************************************)
EXTENDS ArgoApp

VARIABLES cursor,       \* appCursors[app] of the running collector
          file          \* the checkpoint file

\* OperationKey: "hist:<n>" or "<revision>:<nanoseconds>"; NoKey is the empty string.
Key(n, r, t) == [n |-> n, rev |-> r, at |-> t]
NoKey == Key(0, NoRev, 0)

Keys == [n : Nat, rev : Revs \cup {NoRev}, at : Times]

Cursors == [hist : Nat, at : Times, startKey : Keys, termKey : Keys, health : Healths \cup {NoHealth}]

NoCursor == [hist |-> 0, at |-> 0, startKey |-> NoKey, termKey |-> NoKey, health |-> NoHealth]

Absent == [state |-> "absent", cursor |-> NoCursor]
Torn == [state |-> "torn", cursor |-> NoCursor]
Saved(c) == [state |-> "ok", cursor |-> c]

CheckpointType ==
    /\ cursor \in Cursors
    /\ file \in [state : {"absent", "torn", "ok"}, cursor : Cursors]

\* loadCheckpoint: a missing file and an unreadable one both start from nothing.
loadCheckpoint == IF file.state = "ok" THEN file.cursor ELSE NoCursor

historyCursorShouldProcess(se, c) ==
    IF se.hist > 0
    THEN \/ se.hist > c.hist
         \/ se.hist = c.hist /\ se.at > c.at
    ELSE se.key # NoKey /\ se.key # c.termKey

shouldProcess(se, c) ==
    \/ /\ se.type \in {"argo.deployment.recorded", "argo.sync.finished"}
       /\ historyCursorShouldProcess(se, c)
    \/ /\ se.type = "argo.sync.started"
       /\ se.key \notin {NoKey, c.startKey}
    \/ /\ se.type = "argo.health.changed"
       /\ se.health \notin {NoHealth, c.health}

updateHistoryCursor(c, se) ==
    IF se.hist > 0
    THEN [c EXCEPT !.hist = IF se.hist > @ THEN se.hist ELSE @,
                   !.at = IF se.at > @ THEN se.at ELSE @]
    ELSE [c EXCEPT !.termKey = IF se.key # NoKey THEN se.key ELSE @]

advanceCheckpoint(c, se) ==
    CASE se.type \in {"argo.deployment.recorded", "argo.sync.finished"} ->
             updateHistoryCursor(c, se)
      [] se.type = "argo.sync.started" ->
             [c EXCEPT !.startKey = IF se.key # NoKey THEN se.key ELSE @]
      [] se.type = "argo.health.changed" ->
             [c EXCEPT !.health = IF se.health # NoHealth THEN se.health ELSE @]
===============================================================================
