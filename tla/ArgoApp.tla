------------------------------- MODULE ArgoApp --------------------------------
(***************************************************************************)
(* One Argo CD Application as the collectors see it (external: Argo CD is  *)
(* not in this repository; the fields are the ones collector.go and        *)
(* client_fetch_argocd.go read).  sync.revision is the revision of the     *)
(* last comparison, so it moves without a sync; only a sync that succeeds  *)
(* appends to the history, whose ids start at 0 and whose length Argo CD   *)
(* limits; operationState keeps the last operation until the next one.     *)
(***************************************************************************)
EXTENDS Integers, Sequences

CONSTANTS Revs,         \* git revisions
          NoRev,        \* revision not set
          Actors,       \* operationState.operation.initiatedBy
          Healths,      \* status.health.status
          NoHealth,     \* health not reported
          HistoryLimit, \* spec.revisionHistoryLimit
          MaxTime       \* bound: one tick per change of the application

ASSUME ArgoAppAssumption ==
    /\ NoRev \notin Revs
    /\ NoHealth \notin Healths
    /\ Revs # {} /\ Actors # {} /\ Healths # {}
    /\ HistoryLimit \in Nat \ {0}
    /\ MaxTime \in Nat \ {0}

VARIABLES app, now

Times == 0..MaxTime                      \* 0 is Go's zero time
Terminal == {"Succeeded", "Failed"}      \* Error differs from Failed in its name only
\* "None": no operation yet; "NoStatus": Argo CD has not written the status at all.
NoOperation == {"None", "NoStatus"}
PhaseNames == Terminal \cup NoOperation \cup {"Running"}

HistoryEntry == [id : Nat, rev : Revs, at : Times]

Apps ==
    [rev : Revs \cup {NoRev}, phase : PhaseNames, oprev : Revs \cup {NoRev},
     start : Times, finish : Times, recon : Times, by : Actors,
     health : Healths \cup {NoHealth}, hist : Seq(HistoryEntry)]

\* A status that was written has a compared revision, and a running sync the one it syncs.
AppType ==
    /\ app \in Apps /\ Len(app.hist) <= HistoryLimit
    /\ app.phase # "NoStatus" => app.rev # NoRev
    /\ app.phase = "Running" => app.oprev # NoRev
    /\ now \in Times

\* An application created a moment ago, or one with a past when the collector first sees it.
FreshApp(b) ==
    [rev |-> NoRev, phase |-> "NoStatus", oprev |-> NoRev, start |-> 0, finish |-> 0, by |-> b,
     hist |-> <<>>, health |-> NoHealth, recon |-> 0]

DeployedApp(r, b, id) ==
    [FreshApp(b) EXCEPT !.rev = r, !.oprev = r, !.phase = "Succeeded", !.start = 1, !.finish = 1,
                        !.hist = <<[id |-> id, rev |-> r, at |-> 1]>>]

\* Actors and revisions are interchangeable: the first operation is anybody's.
Anybody == CHOOSE b \in Actors : TRUE
AnyRev == CHOOSE r \in Revs : TRUE

\* 0: Argo CD numbers the first deployment 0; 2: older entries have been cut off.
InitApp ==
    /\ now = 1
    /\ \/ app = FreshApp(Anybody)
       \/ \E id \in {0, 2} : app = DeployedApp(AnyRev, Anybody, id)

\* The ids that fit into MaxTime: a sync takes two ticks.
HistoryIds == 0..(2 + (MaxTime - 1) \div 2)

Tick == now < MaxTime /\ now' = now + 1

\* A comparison against git found another revision; no sync is made.
Refresh(r) ==
    /\ Tick
    /\ r # app.rev
    /\ app' = [app EXCEPT !.rev = r, !.recon = now',
                          !.phase = IF @ = "NoStatus" THEN "None" ELSE @]

StartSync(b) ==
    /\ Tick
    /\ app.phase \notin {"Running", "NoStatus"}
    /\ app' = [app EXCEPT !.phase = "Running", !.oprev = app.rev, !.by = b,
                          !.start = now', !.finish = 0]

NextHistoryId == IF app.hist = <<>> THEN 0 ELSE app.hist[Len(app.hist)].id + 1

\* The newest HistoryLimit entries of h.
Trimmed(h) == IF Len(h) > HistoryLimit THEN Tail(h) ELSE h

FinishSync ==
    /\ Tick
    /\ app.phase = "Running"
    /\ app' = [app EXCEPT !.phase = "Succeeded", !.finish = now',
                          !.hist = Trimmed(Append(@,
                              [id |-> NextHistoryId, rev |-> app.oprev, at |-> now']))]

FailSync ==
    /\ Tick
    /\ app.phase = "Running"
    /\ app' = [app EXCEPT !.phase = "Failed", !.finish = now']

SetHealth(h) ==
    /\ Tick
    /\ h # app.health /\ app.phase # "NoStatus"
    /\ app' = [app EXCEPT !.health = h, !.recon = now']

AppNext ==
    \/ \E r \in Revs : Refresh(r)
    \/ \E b \in Actors : StartSync(b)
    \/ FinishSync
    \/ FailSync
    \/ \E h \in Healths : SetHealth(h)
===============================================================================
