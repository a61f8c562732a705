---------------------------- MODULE ArgoPollProofs ----------------------------
(***************************************************************************)
(* The polling collector for any history, jitter and number of failures    *)
(* and crashes: the checkpoint is backed by the repository, and as long as *)
(* nothing fails the history cursor overtakes no deployment.               *)
(***************************************************************************)
EXTENDS ArgoPoll, SequenceTheorems, TLAPS

-------------------------------------------------------------------------------
(* Argo CD. *)

\* The fields of the application.
LEMMA AppFields ==
    ASSUME AppType
    PROVE  /\ app \in Apps /\ app.hist \in Seq(HistoryEntry) /\ Len(app.hist) \in 0..HistoryLimit
           /\ DOMAIN app.hist = 1..Len(app.hist)
           /\ \A i \in DOMAIN app.hist : /\ app.hist[i] \in HistoryEntry /\ app.hist[i].id \in Nat
                                         /\ app.hist[i].rev \in Revs /\ app.hist[i].at \in Times
           /\ app.phase # "NoStatus" => app.rev \in Revs
           /\ app.phase = "Running" => app.oprev \in Revs
           /\ app.phase \in PhaseNames /\ app.rev \in Revs \cup {NoRev} /\ app.by \in Actors
           /\ app.start \in Times /\ app.finish \in Times /\ app.recon \in Times
           /\ app.health \in Healths \cup {NoHealth}
           /\ now \in Times
           /\ \A t \in Times : t \in Nat
PROOF
<1>1. app \in Apps /\ app.hist \in Seq(HistoryEntry) /\ Len(app.hist) <= HistoryLimit /\ now \in Times
  BY DEF AppType, Apps
<1>2. Len(app.hist) \in 0..HistoryLimit /\ DOMAIN app.hist = 1..Len(app.hist)
  BY <1>1, ArgoAppAssumption
<1>3. \A i \in DOMAIN app.hist : app.hist[i] \in HistoryEntry
  BY <1>1
<1>4. \A h \in HistoryEntry : h.id \in Nat /\ h.rev \in Revs /\ h.at \in Times
  BY DEF HistoryEntry
<1>5. /\ app.phase # "NoStatus" => app.rev \in Revs
      /\ app.phase = "Running" => app.oprev \in Revs
      /\ app.phase \in PhaseNames /\ app.rev \in Revs \cup {NoRev} /\ app.by \in Actors
      /\ app.start \in Times /\ app.finish \in Times /\ app.recon \in Times
      /\ app.health \in Healths \cup {NoHealth}
  BY DEF AppType, Apps
<1>6. \A t \in Times : t \in Nat
  BY DEF Times
<1> QED
  BY <1>1, <1>2, <1>3, <1>4, <1>5, <1>6

\* A deployment is appended, and at most the oldest one is cut off.
LEMMA TrimmedAppend ==
    ASSUME NEW h \in Seq(HistoryEntry), Len(h) <= HistoryLimit, NEW x \in HistoryEntry
    PROVE  LET t == Trimmed(Append(h, x))
           IN  /\ t \in Seq(HistoryEntry) /\ Len(t) \in 1..HistoryLimit /\ t[Len(t)] = x
               /\ \E d \in {0, 1} :
                      /\ Len(t) = Len(h) + 1 - d
                      /\ \A i \in 1..(Len(t) - 1) : t[i] = h[i + d]
PROOF
<1> USE ArgoAppAssumption
<1> DEFINE g == Append(h, x)
<1>1. /\ g \in Seq(HistoryEntry) /\ Len(g) = Len(h) + 1 /\ g[Len(h) + 1] = x
      /\ Len(h) \in Nat /\ HistoryLimit \in Nat \ {0}
      /\ \A i \in 1..Len(h) : g[i] = h[i]
  OBVIOUS
<1> HIDE DEF g
<1>2. CASE Len(g) > HistoryLimit
  <2>1. Len(h) >= 1
    BY <1>1, <1>2
  <2>2. /\ Tail(g) \in Seq(HistoryEntry) /\ Len(Tail(g)) = Len(h)
        /\ \A i \in 1..Len(h) : Tail(g)[i] = g[i + 1]
    BY <1>1, <2>1
  <2>3. \A i \in 1..(Len(h) - 1) : Tail(g)[i] = h[i + 1]
    BY <1>1, <2>2
  <2>4. Tail(g)[Len(h)] = x /\ Len(h) \in 1..HistoryLimit
    BY <1>1, <2>1, <2>2
  <2>5. Len(h) = Len(h) + 1 - 1
    BY <1>1
  <2> QED
    BY <1>2, <2>2, <2>3, <2>4, <2>5 DEF Trimmed, g
<1>3. CASE ~(Len(g) > HistoryLimit)
  <2>1. Len(g) \in 1..HistoryLimit /\ g[Len(g)] = x
    BY <1>1, <1>3
  <2>2. Len(g) = Len(h) + 1 - 0 /\ \A i \in 1..(Len(g) - 1) : g[i] = h[i + 0]
    BY <1>1
  <2> QED
    BY <1>1, <1>3, <2>1, <2>2 DEF Trimmed, g
<1> QED
  BY <1>2, <1>3

\* What a change of the application can be, as far as the collector's properties tell.
Unmoved == app'.hist = app.hist /\ app'.start = app.start /\ app'.finish = app.finish
           /\ (app'.phase = app.phase \/ (app.phase = "NoStatus" /\ app'.phase = "None"))
Started == app'.hist = app.hist /\ app'.start = now' /\ app'.phase = "Running"
Failed == app'.hist = app.hist /\ app'.start = app.start /\ app.phase = "Running" /\ app'.phase = "Failed"
Deployed ==
    /\ app'.start = app.start /\ app.phase = "Running" /\ app'.phase = "Succeeded"
    /\ \E x \in HistoryEntry : /\ x.id = NextHistoryId /\ x.at = now'
                               /\ app'.hist = Trimmed(Append(app.hist, x))

\* Every change of the application is of one of these kinds, and takes a tick.
LEMMA AppStep ==
    ASSUME AppType, AppNext
    PROVE  /\ AppType' /\ now' = now + 1
           /\ Unmoved \/ Started \/ Failed \/ Deployed
PROOF
<1> USE ArgoAppAssumption
<1>1. /\ app \in Apps /\ app.hist \in Seq(HistoryEntry) /\ Len(app.hist) <= HistoryLimit
      /\ app.phase # "NoStatus" => app.rev \in Revs
      /\ app.phase = "Running" => app.oprev \in Revs
      /\ now \in Times /\ MaxTime \in Nat /\ NoRev \notin Revs /\ 0 \in Times
  BY AppFields DEF Times, AppType
<1>2. Tick => now' \in Times /\ now' = now + 1
  BY <1>1 DEF Tick, Times
<1>3. ASSUME NEW r \in Revs, Refresh(r)
      PROVE  AppType' /\ Unmoved /\ now' = now + 1
  BY <1>1, <1>2, <1>3 DEF Refresh, Apps, AppType, PhaseNames, NoOperation, Terminal, Unmoved
<1>4. ASSUME NEW b \in Actors, StartSync(b)
      PROVE  AppType' /\ Started /\ now' = now + 1
  BY <1>1, <1>2, <1>4 DEF StartSync, Apps, AppType, PhaseNames, NoOperation, Terminal, Started
<1>5. CASE FailSync
  <2>1. AppType' /\ Failed /\ now' = now + 1
    BY <1>1, <1>2, <1>5 DEF FailSync, Apps, AppType, PhaseNames, NoOperation, Terminal, Failed
  <2> QED
    BY <2>1
<1>6. ASSUME NEW h \in Healths, SetHealth(h)
      PROVE  AppType' /\ Unmoved /\ now' = now + 1
  BY <1>1, <1>2, <1>6 DEF SetHealth, Apps, AppType, Unmoved
<1>7. CASE FinishSync
  <2> DEFINE x == [id |-> NextHistoryId, rev |-> app.oprev, at |-> now']
             t == Trimmed(Append(app.hist, x))
  <2>1. NextHistoryId \in Nat
    <3>1. app.hist # <<>> => Len(app.hist) \in DOMAIN app.hist
      BY <1>1
    <3> QED
      BY <3>1, AppFields DEF NextHistoryId
  <2>2. x \in HistoryEntry
    BY <2>1, <1>1, <1>2, <1>7 DEF FinishSync, HistoryEntry
  <2>3. t \in Seq(HistoryEntry) /\ Len(t) <= HistoryLimit
    <3> HIDE DEF x
    <3>1. t \in Seq(HistoryEntry) /\ Len(t) \in 1..HistoryLimit
      BY <2>2, <1>1, TrimmedAppend
    <3> QED
      BY <3>1
  <2>4. app' = [app EXCEPT !.phase = "Succeeded", !.finish = now', !.hist = t] /\ Tick /\ app.phase = "Running"
    BY <1>7 DEF FinishSync
  <2>5. x.id = NextHistoryId /\ x.at = now' /\ t = Trimmed(Append(app.hist, x))
    OBVIOUS
  <2> HIDE DEF t, x
  <2>6. /\ app'.hist = t /\ app'.phase = "Succeeded" /\ app'.rev = app.rev /\ app'.start = app.start
        /\ app' \in Apps
    BY <2>3, <2>4, <1>1, <1>2 DEF Apps, PhaseNames, Terminal
  <2>7. AppType'
    BY <2>3, <2>4, <2>6, <1>1, <1>2 DEF AppType
  <2>8. Deployed
    BY <2>2, <2>4, <2>5, <2>6 DEF Deployed
  <2> QED
    BY <2>4, <2>7, <2>8, <1>2
<1> QED
  BY <1>3, <1>4, <1>5, <1>6, <1>7 DEF AppNext

-------------------------------------------------------------------------------
(* The source events of a snapshot. *)

\* The record of a deployment.
LEMMA RecordedEventFormed ==
    ASSUME AppType, NEW h \in HistoryEntry
    PROVE  LET e == recordedEvent(h, app)
           IN  /\ e \in SourceEvents /\ Formed(e) /\ Recorded(e)
               /\ e.id = deterministicHistoryID(h) /\ e.hist = h.id /\ e.at = h.at
PROOF
<1> USE ArgoAppAssumption
<1> DEFINE d == deterministicHistoryID(h)
           k == historyOperationKey(h)
           x == [by |-> resolveActor(app), rev |-> h.rev, phase |-> "Recorded"]
           e == recordedEvent(h, app)
<1>1. h.id \in Nat /\ h.rev \in Revs /\ h.at \in Times /\ 0 \in Times
  BY DEF HistoryEntry, Times
<1>2. /\ d \in [kind : {"hist", "start", "finish", "health"}, n : Nat, what : Revs \cup {NoRev} \cup Healths, at : Times]
      /\ d.kind = "hist" /\ d.n = h.id
  BY <1>1 DEF deterministicHistoryID, EventId
<1>3. k \in Keys /\ k.n = h.id /\ (h.id = 0 => k.at = h.at)
  BY <1>1 DEF historyOperationKey, Key, Keys
<1>4. resolveActor(app) \in Actors \cup {"argocd"}
  BY AppFields DEF resolveActor
<1>5. x \in [by : Actors \cup {"argocd"}, rev : Revs \cup {NoRev}, phase : PhaseNames \cup {"Recorded"}]
  BY <1>1, <1>4
<1> HIDE DEF d, k, x
<1>6. e = [id |-> d, type |-> "argo.deployment.recorded", hist |-> h.id, at |-> h.at, key |-> k,
           health |-> NoHealth, data |-> x]
  BY DEF recordedEvent, d, k, x
<1>7. e \in SourceEvents
  BY <1>1, <1>2, <1>3, <1>5, <1>6 DEF SourceEvents
<1>8. Recorded(e) /\ Formed(e)
  BY <1>2, <1>3, <1>6 DEF Recorded, Formed, Finished
<1> QED
  BY <1>6, <1>7, <1>8 DEF d

\* The event of an operation.
LEMMA PhaseEventFormed ==
    ASSUME AppType, app.phase \notin NoOperation
    PROVE  LET e == phaseEvent(app)
           IN  /\ e \in SourceEvents /\ Formed(e) /\ ~Recorded(e)
               /\ Finished(e) <=> app.phase \in Terminal
               /\ Finished(e) => e.key.at = app.start /\ e.at = app.finish /\ e.data.rev = app.rev
PROOF
<1> USE ArgoAppAssumption
<1> DEFINE k == Key(0, app.rev, app.start)
           x == [by |-> resolveActor(app), rev |-> app.rev, phase |-> app.phase]
           e == phaseEvent(app)
           ids == [kind : {"hist", "start", "finish", "health"}, n : Nat, what : Revs \cup {NoRev} \cup Healths, at : Times]
<1>1. /\ app.rev \in Revs /\ app.rev # NoRev /\ app.start \in Times /\ app.finish \in Times
      /\ app.phase \in PhaseNames /\ (app.phase = "Running" \/ app.phase \in Terminal)
  BY AppFields DEF PhaseNames, NoOperation
<1>2. k \in Keys /\ k = Key(0, app.rev, k.at) /\ k.n = 0 /\ k.at = app.start
  BY <1>1 DEF Key, Keys
<1>3. x \in [by : Actors \cup {"argocd"}, rev : Revs \cup {NoRev}, phase : PhaseNames \cup {"Recorded"}]
  BY <1>1, AppFields DEF resolveActor
<1>4. /\ EventId("start", 0, app.rev, app.start) \in ids /\ EventId("finish", 0, app.rev, app.start) \in ids
      /\ EventId("start", 0, app.rev, app.start).kind = "start"
      /\ EventId("finish", 0, app.rev, app.start).kind = "finish"
  BY <1>1 DEF EventId
<1>5. x.rev = app.rev
  OBVIOUS
<1> HIDE DEF k, x, ids
<1>6. CASE app.phase = "Running"
  <2>1. e = [id |-> EventId("start", 0, app.rev, app.start), type |-> "argo.sync.started", hist |-> 0,
             at |-> app.start, key |-> k, health |-> NoHealth, data |-> x]
    BY <1>6 DEF phaseEvent, operationEvent, k, x
  <2>2. e \in SourceEvents
    BY <1>1, <1>2, <1>3, <1>4, <2>1 DEF SourceEvents, ids
  <2>3. ~Recorded(e) /\ ~Finished(e) /\ Formed(e)
    BY <1>4, <2>1 DEF Recorded, Finished, Formed
  <2> QED
    BY <1>6, <2>2, <2>3 DEF Terminal
<1>7. CASE app.phase \in Terminal
  <2>0. app.phase # "Running"
    BY <1>7 DEF Terminal
  <2>1. e = [id |-> EventId("finish", 0, app.rev, app.start), type |-> "argo.sync.finished", hist |-> 0,
             at |-> app.finish, key |-> k, health |-> NoHealth, data |-> x]
    BY <2>0 DEF phaseEvent, operationEvent, k, x
  <2>2. e \in SourceEvents
    BY <1>1, <1>2, <1>3, <1>4, <2>1 DEF SourceEvents, ids
  <2>3. /\ e.key = k /\ e.data.rev = app.rev /\ e.at = app.finish /\ e.hist = 0
        /\ e.id = EventId("finish", 0, app.rev, app.start)
    BY <1>5, <2>1
  <2>4. ~Recorded(e) /\ Finished(e)
    BY <2>1 DEF Recorded, Finished
  <2>5. Formed(e)
    BY <1>1, <1>2, <1>4, <2>3, <2>4 DEF Formed
  <2> QED
    BY <1>2, <1>7, <2>2, <2>3, <2>4, <2>5
<1> QED
  BY <1>1, <1>6, <1>7

\* The event of a health.
LEMMA HealthEventFormed ==
    ASSUME AppType, app.health # NoHealth
    PROVE  LET e == healthEvent(app)
           IN  e \in SourceEvents /\ Formed(e) /\ ~Recorded(e) /\ ~Finished(e)
PROOF
<1> USE ArgoAppAssumption
<1> DEFINE d == EventId("health", 0, app.health, app.recon)
           x == [by |-> "argocd", rev |-> app.rev, phase |-> "None"]
           e == healthEvent(app)
<1>1. /\ app.health \in Healths /\ app.recon \in Times /\ app.rev \in Revs \cup {NoRev} /\ 0 \in Times
      /\ "None" \in PhaseNames
  BY AppFields DEF Times, PhaseNames, NoOperation
<1>2. /\ d \in [kind : {"hist", "start", "finish", "health"}, n : Nat, what : Revs \cup {NoRev} \cup Healths, at : Times]
      /\ d.kind = "health"
  BY <1>1 DEF EventId
<1>3. x \in [by : Actors \cup {"argocd"}, rev : Revs \cup {NoRev}, phase : PhaseNames \cup {"Recorded"}]
  BY <1>1
<1>4. NoKey \in Keys
  BY <1>1 DEF NoKey, Key, Keys
<1> HIDE DEF d, x
<1>5. e = [id |-> d, type |-> "argo.health.changed", hist |-> 0, at |-> app.recon, key |-> NoKey,
           health |-> app.health, data |-> x]
  BY DEF healthEvent, d, x
<1>6. e \in SourceEvents
  BY <1>1, <1>2, <1>3, <1>4, <1>5 DEF SourceEvents
<1>7. ~Recorded(e) /\ ~Finished(e) /\ Formed(e)
  BY <1>2, <1>5 DEF Recorded, Finished, Formed
<1> QED
  BY <1>6, <1>7

\* What toSourceEvents makes of a snapshot: a record for each deployment, but for those that
\* the finish of the last operation stands for.
LEMMA Snapshot ==
    ASSUME AppType
    PROVE  LET B == toSourceEvents(app)
               n == Len(app.hist)
           IN  /\ B = [i \in DOMAIN B |-> B[i]] /\ DOMAIN B \subseteq 1..(n + 2)
               /\ \A i \in DOMAIN B : i <= n => B[i] = recordedEvent(app.hist[i], app)
               /\ \A i \in DOMAIN B : i = n + 1 => app.phase \notin NoOperation /\ B[i] = phaseEvent(app)
               /\ \A i \in DOMAIN B : i = n + 2 => app.health # NoHealth /\ B[i] = healthEvent(app)
               /\ \A i \in 1..n : i \in DOMAIN B \/ superseded(app.hist[i], app)
               /\ app.phase \notin NoOperation => n + 1 \in DOMAIN B
PROOF
<1> DEFINE n == Len(app.hist)
           hs == historyEvents(app)
           B == toSourceEvents(app)
           D == DOMAIN hs \cup (IF app.phase \in NoOperation THEN {} ELSE {n + 1})
                          \cup (IF app.health = NoHealth THEN {} ELSE {n + 2})
<1>1. n \in Nat /\ DOMAIN app.hist = 1..n
  BY AppFields
<1>2. /\ DOMAIN hs = {j \in 1..n : ~superseded(app.hist[j], app)}
      /\ \A i \in DOMAIN hs : hs[i] = recordedEvent(app.hist[i], app)
  BY <1>1 DEF historyEvents
<1> DEFINE at(i) == CASE i <= n -> hs[i]
                      [] i = n + 1 -> phaseEvent(app)
                      [] i = n + 2 -> healthEvent(app)
<1>3. B = [i \in D |-> at(i)]
  BY DEF toSourceEvents
<1> HIDE DEF hs, B, n
<1>4. D \subseteq 1..(n + 2) /\ DOMAIN hs \subseteq 1..n
  BY <1>1, <1>2
<1>5. /\ \A i \in D : i <= n => i \in DOMAIN hs
      /\ n + 1 \in D <=> app.phase \notin NoOperation
      /\ n + 2 \in D <=> app.health # NoHealth
  BY <1>1, <1>4
<1> HIDE DEF D, at
<1>6. DOMAIN B = D /\ B = [i \in DOMAIN B |-> B[i]]
  BY <1>3
<1>7. ASSUME NEW i \in D
      PROVE  /\ i <= n => B[i] = hs[i]
             /\ i = n + 1 => B[i] = phaseEvent(app)
             /\ i = n + 2 => B[i] = healthEvent(app)
  <2>1. B[i] = CASE i <= n -> hs[i]
                 [] i = n + 1 -> phaseEvent(app)
                 [] i = n + 2 -> healthEvent(app)
    BY <1>3 DEF at
  <2> QED
    BY <1>1, <2>1
<1>8. \A i \in 1..n : i \in DOMAIN B \/ superseded(app.hist[i], app)
  <2>1. DOMAIN hs \subseteq D
    BY DEF D
  <2> QED
    BY <1>2, <1>6, <2>1
<1> QED
  BY <1>2, <1>4, <1>5, <1>6, <1>7, <1>8 DEF B, n

\* Every event of a snapshot is typed and formed, and what kind of event stands at its place.
LEMMA SnapshotEvents ==
    ASSUME AppType, NEW i \in DOMAIN toSourceEvents(app)
    PROVE  LET e == toSourceEvents(app)[i]
           IN  /\ i \in 1..(HistoryLimit + 2) /\ e \in SourceEvents /\ Formed(e)
               /\ Recorded(e) <=> i \in DOMAIN app.hist
               /\ Recorded(e) => /\ e.id = deterministicHistoryID(app.hist[i])
                                 /\ e.hist = app.hist[i].id /\ e.at = app.hist[i].at
               /\ Finished(e) => /\ e.key.at = app.start /\ e.at = app.finish /\ e.data.rev = app.rev
                                 /\ app.phase \in Terminal
PROOF
<1> DEFINE n == Len(app.hist)
           B == toSourceEvents(app)
           e == B[i]
<1>1. /\ n \in 0..HistoryLimit /\ DOMAIN app.hist = 1..n /\ HistoryLimit \in Nat
      /\ \A j \in DOMAIN app.hist : app.hist[j] \in HistoryEntry
  BY AppFields, ArgoAppAssumption
<1>2. /\ DOMAIN B \subseteq 1..(n + 2) /\ i \in DOMAIN B
      /\ i <= n => e = recordedEvent(app.hist[i], app)
      /\ i = n + 1 => app.phase \notin NoOperation /\ e = phaseEvent(app)
      /\ i = n + 2 => app.health # NoHealth /\ e = healthEvent(app)
  BY Snapshot
<1> HIDE DEF n, B
<1>3. i \in 1..(HistoryLimit + 2) /\ (i \in 1..n \/ i = n + 1 \/ i = n + 2) /\ (i \in 1..n <=> i <= n)
  BY <1>1, <1>2
<1>4. CASE i \in 1..n
  <2>1. app.hist[i] \in HistoryEntry /\ e = recordedEvent(app.hist[i], app) /\ i \in DOMAIN app.hist
    BY <1>1, <1>2, <1>3, <1>4
  <2>2. /\ e \in SourceEvents /\ Formed(e) /\ Recorded(e)
        /\ e.id = deterministicHistoryID(app.hist[i]) /\ e.hist = app.hist[i].id /\ e.at = app.hist[i].at
    BY <2>1, RecordedEventFormed
  <2>3. ~Finished(e)
    BY <2>2 DEF Recorded, Finished
  <2> QED
    BY <1>3, <2>1, <2>2, <2>3 DEF B
<1>5. CASE i = n + 1
  <2>1. e = phaseEvent(app) /\ app.phase \notin NoOperation /\ i \notin DOMAIN app.hist
    BY <1>1, <1>2, <1>5
  <2>2. /\ e \in SourceEvents /\ Formed(e) /\ ~Recorded(e)
        /\ Finished(e) <=> app.phase \in Terminal
        /\ Finished(e) => e.key.at = app.start /\ e.at = app.finish /\ e.data.rev = app.rev
    BY <2>1, PhaseEventFormed
  <2> QED
    BY <1>3, <2>1, <2>2 DEF B
<1>6. CASE i = n + 2
  <2>1. e = healthEvent(app) /\ app.health # NoHealth /\ i \notin DOMAIN app.hist
    BY <1>1, <1>2, <1>6
  <2>2. e \in SourceEvents /\ Formed(e) /\ ~Recorded(e) /\ ~Finished(e)
    BY <2>1, HealthEventFormed
  <2> QED
    BY <1>3, <2>1, <2>2 DEF B
<1> QED
  BY <1>3, <1>4, <1>5, <1>6

\* A snapshot has evidence for every deployment of the history.
LEMMA SnapshotEvidence ==
    ASSUME AppType, NEW i \in DOMAIN app.hist
    PROVE  LET B == toSourceEvents(app)
           IN  \E j \in DOMAIN B :
                   \/ Recorded(B[j]) /\ B[j].id = deterministicHistoryID(app.hist[i])
                   \/ /\ Finished(B[j])
                      /\ sameRevisionWindow(app.hist[i].rev, app.hist[i].at, B[j].data.rev, B[j].key.at, B[j].at)
PROOF
<1> DEFINE n == Len(app.hist)
           B == toSourceEvents(app)
<1>1. n \in Nat /\ i \in 1..n /\ i \in DOMAIN app.hist
  BY AppFields
<1>2. CASE i \in DOMAIN B
  <2>1. Recorded(B[i]) /\ B[i].id = deterministicHistoryID(app.hist[i])
    BY <1>1, <1>2, SnapshotEvents
  <2> QED
    BY <1>2, <2>1
<1>3. CASE i \notin DOMAIN B
  <2>1. /\ app.phase \in Terminal
        /\ sameRevisionWindow(app.hist[i].rev, app.hist[i].at, app.rev, app.start, app.finish)
    BY <1>1, <1>3, Snapshot DEF superseded
  <2>2. app.phase \notin NoOperation
    BY <2>1 DEF Terminal, NoOperation
  <2>3. n + 1 \in DOMAIN B /\ B[n + 1] = phaseEvent(app)
    BY <2>2, Snapshot
  <2>4. Finished(B[n + 1])
    BY <2>1, <2>2, <2>3, PhaseEventFormed
  <2>5. /\ B[n + 1].key.at = app.start /\ B[n + 1].at = app.finish /\ B[n + 1].data.rev = app.rev
    BY <2>3, <2>4, SnapshotEvents
  <2> QED
    BY <2>1, <2>3, <2>4, <2>5
<1> QED
  BY <1>2, <1>3

-------------------------------------------------------------------------------
(* The cursor and its backing. *)

\* What an advance makes of a cursor.
LEMMA AdvanceCursor ==
    ASSUME NEW c \in Cursors, NEW e \in SourceEvents, Formed(e)
    PROVE  LET d == advanceCheckpoint(c, e)
           IN  /\ d \in Cursors
               /\ d.hist = c.hist \/ (d.hist = e.hist /\ Recorded(e))
               /\ d.termKey = c.termKey \/ (d.termKey = e.key /\ (Recorded(e) \/ Finished(e)))
               /\ d.startKey = c.startKey \/ (d.startKey = e.key /\ e.type = "argo.sync.started")
               /\ d.health = c.health \/ d.health = e.health
PROOF
<1> DEFINE d == advanceCheckpoint(c, e)
<1>1. /\ c.hist \in Nat /\ c.at \in Times /\ c.termKey \in Keys /\ c.startKey \in Keys
      /\ c.health \in Healths \cup {NoHealth} /\ e.health \in Healths \cup {NoHealth}
      /\ e.hist \in Nat /\ e.at \in Times /\ e.key \in Keys
      /\ e.type \in {"argo.deployment.recorded", "argo.sync.started", "argo.sync.finished", "argo.health.changed"}
  BY DEF Cursors, SourceEvents
<1>2. CASE e.type \in {"argo.deployment.recorded", "argo.sync.finished"}
  <2>1. d = updateHistoryCursor(c, e) /\ (Recorded(e) \/ Finished(e))
    BY <1>2 DEF advanceCheckpoint, Recorded, Finished
  <2>2. CASE e.hist > 0
    <3> DEFINE h == IF e.hist > c.hist THEN e.hist ELSE c.hist
               t == IF e.at > c.at THEN e.at ELSE c.at
    <3>1. d = [c EXCEPT !.hist = h, !.at = t]
      BY <2>1, <2>2 DEF updateHistoryCursor
    <3>2. h \in Nat /\ t \in Times /\ (h = c.hist \/ h = e.hist)
      BY <1>1
    <3>3. Recorded(e)
      BY <2>2 DEF Formed
    <3> HIDE DEF h, t, d
    <3>4. d \in Cursors /\ d.hist = h /\ d.termKey = c.termKey /\ d.startKey = c.startKey /\ d.health = c.health
      BY <3>1, <3>2 DEF Cursors
    <3> QED
      BY <3>2, <3>3, <3>4 DEF d
  <2>3. CASE ~(e.hist > 0)
    <3> DEFINE k == IF e.key # NoKey THEN e.key ELSE c.termKey
    <3>1. d = [c EXCEPT !.termKey = k]
      BY <2>1, <2>3 DEF updateHistoryCursor
    <3>2. k \in Keys /\ (k = c.termKey \/ k = e.key)
      BY <1>1
    <3> HIDE DEF k, d
    <3>3. d \in Cursors /\ d.hist = c.hist /\ d.termKey = k /\ d.startKey = c.startKey /\ d.health = c.health
      BY <3>1, <3>2 DEF Cursors
    <3> QED
      BY <2>1, <3>2, <3>3 DEF d
  <2> QED
    BY <2>2, <2>3
<1>3. CASE e.type = "argo.sync.started"
  <2> DEFINE k == IF e.key # NoKey THEN e.key ELSE c.startKey
  <2>1. d = [c EXCEPT !.startKey = k]
    BY <1>3 DEF advanceCheckpoint
  <2>2. k \in Keys /\ (k = c.startKey \/ k = e.key)
    BY <1>1
  <2> HIDE DEF k, d
  <2>3. d \in Cursors /\ d.hist = c.hist /\ d.termKey = c.termKey /\ d.startKey = k /\ d.health = c.health
    BY <2>1, <2>2 DEF Cursors
  <2> QED
    BY <1>3, <2>2, <2>3 DEF d
<1>4. CASE e.type = "argo.health.changed"
  <2> DEFINE k == IF e.health # NoHealth THEN e.health ELSE c.health
  <2>1. d = [c EXCEPT !.health = k]
    BY <1>4 DEF advanceCheckpoint
  <2>2. k \in Healths \cup {NoHealth} /\ (k = c.health \/ k = e.health)
    BY <1>1
  <2> HIDE DEF k, d
  <2>3. d \in Cursors /\ d.hist = c.hist /\ d.termKey = c.termKey /\ d.startKey = c.startKey /\ d.health = k
    BY <2>1, <2>2 DEF Cursors
  <2> QED
    BY <2>2, <2>3 DEF d
<1> QED
  BY <1>1, <1>2, <1>3, <1>4

\* The cursor that an event advanced does not want that event again (collector.go
\* updateHistoryCursor against historyCursorShouldProcess, and the two other cursors).
THEOREM HandledOnce ==
    ASSUME NEW c \in Cursors, NEW e \in SourceEvents
    PROVE  ~shouldProcess(e, advanceCheckpoint(c, e))
PROOF
<1> DEFINE d == advanceCheckpoint(c, e)
<1>1. /\ c.hist \in Nat /\ c.at \in Nat /\ e.hist \in Nat /\ e.at \in Nat
      /\ c \in [hist : Nat, at : Times, startKey : Keys, termKey : Keys, health : Healths \cup {NoHealth}]
      /\ e.type \in {"argo.deployment.recorded", "argo.sync.started", "argo.sync.finished", "argo.health.changed"}
  BY DEF Cursors, SourceEvents, Times
<1>2. CASE e.type \in {"argo.deployment.recorded", "argo.sync.finished"} /\ e.hist > 0
  <2>1. d = [c EXCEPT !.hist = IF e.hist > c.hist THEN e.hist ELSE c.hist,
                      !.at = IF e.at > c.at THEN e.at ELSE c.at]
    BY <1>2 DEF advanceCheckpoint, updateHistoryCursor
  <2> HIDE DEF d
  <2>2. /\ d.hist = (IF e.hist > c.hist THEN e.hist ELSE c.hist)
        /\ d.at = (IF e.at > c.at THEN e.at ELSE c.at)
    BY <1>1, <2>1
  <2>3. ~(e.hist > d.hist) /\ ~(e.at > d.at)
    BY <1>1, <2>2
  <2>4. ~shouldProcess(e, d)
    BY <1>2, <2>3 DEF shouldProcess, historyCursorShouldProcess
  <2> QED
    BY <2>4 DEF d
<1>3. CASE e.type \in {"argo.deployment.recorded", "argo.sync.finished"} /\ ~(e.hist > 0)
  <2>1. d = [c EXCEPT !.termKey = IF e.key # NoKey THEN e.key ELSE c.termKey]
    BY <1>3 DEF advanceCheckpoint, updateHistoryCursor
  <2> HIDE DEF d
  <2>2. e.key # NoKey => d.termKey = e.key
    BY <1>1, <2>1
  <2>3. ~shouldProcess(e, d)
    BY <1>3, <2>2 DEF shouldProcess, historyCursorShouldProcess
  <2> QED
    BY <2>3 DEF d
<1>4. CASE e.type = "argo.sync.started"
  <2>1. d = [c EXCEPT !.startKey = IF e.key # NoKey THEN e.key ELSE c.startKey]
    BY <1>4 DEF advanceCheckpoint
  <2> HIDE DEF d
  <2>2. e.key # NoKey => d.startKey = e.key
    BY <1>1, <2>1
  <2>3. ~shouldProcess(e, d)
    BY <1>4, <2>2 DEF shouldProcess
  <2> QED
    BY <2>3 DEF d
<1>5. CASE e.type = "argo.health.changed"
  <2>1. d = [c EXCEPT !.health = IF e.health # NoHealth THEN e.health ELSE c.health]
    BY <1>5 DEF advanceCheckpoint
  <2> HIDE DEF d
  <2>2. e.health # NoHealth => d.health = e.health
    BY <1>1, <2>1
  <2>3. ~shouldProcess(e, d)
    BY <1>5, <2>2 DEF shouldProcess
  <2> QED
    BY <2>3 DEF d
<1> QED
  BY <1>1, <1>2, <1>3, <1>4, <1>5

\* No event that comes after it reopens a deployment with a number.
LEMMA NeverReopened ==
    ASSUME NEW c \in Cursors, NEW e \in SourceEvents, Formed(e),
           NEW f \in SourceEvents, Recorded(f), f.hist > 0, ~shouldProcess(f, c)
    PROVE  ~shouldProcess(f, advanceCheckpoint(c, e))
PROOF
<1> DEFINE d == advanceCheckpoint(c, e)
<1>1. /\ c.hist \in Nat /\ c.at \in Nat /\ e.hist \in Nat /\ e.at \in Nat /\ f.hist \in Nat /\ f.at \in Nat
      /\ c \in [hist : Nat, at : Times, startKey : Keys, termKey : Keys, health : Healths \cup {NoHealth}]
      /\ e.type \in {"argo.deployment.recorded", "argo.sync.started", "argo.sync.finished", "argo.health.changed"}
  BY DEF Cursors, SourceEvents, Times
<1>2. f.type = "argo.deployment.recorded" /\ ~(f.hist > c.hist) /\ ~(f.hist = c.hist /\ f.at > c.at)
  BY DEF shouldProcess, historyCursorShouldProcess, Recorded
<1>3. /\ d.hist \in Nat /\ d.at \in Nat
      /\ d.hist > c.hist \/ (d.hist = c.hist /\ d.at >= c.at)
  <2>1. CASE e.type \in {"argo.deployment.recorded", "argo.sync.finished"} /\ e.hist > 0
    <3>1. d = [c EXCEPT !.hist = IF e.hist > c.hist THEN e.hist ELSE c.hist,
                        !.at = IF e.at > c.at THEN e.at ELSE c.at]
      BY <2>1 DEF advanceCheckpoint, updateHistoryCursor
    <3> HIDE DEF d
    <3>2. /\ d.hist = (IF e.hist > c.hist THEN e.hist ELSE c.hist)
          /\ d.at = (IF e.at > c.at THEN e.at ELSE c.at)
      BY <1>1, <3>1
    <3> QED
      BY <1>1, <3>2
  <2>2. CASE ~(e.type \in {"argo.deployment.recorded", "argo.sync.finished"} /\ e.hist > 0)
    <3>1. d.hist = c.hist /\ d.at = c.at
      BY <1>1, <2>2 DEF advanceCheckpoint, updateHistoryCursor
    <3> QED
      BY <1>1, <3>1
  <2> QED
    BY <2>1, <2>2
<1> HIDE DEF d
<1>4. ~(f.hist > d.hist) /\ ~(f.hist = d.hist /\ f.at > d.at)
  BY <1>1, <1>2, <1>3
<1>5. ~shouldProcess(f, d)
  BY <1>2, <1>4 DEF shouldProcess, historyCursorShouldProcess
<1> QED
  BY <1>5 DEF d

\* The cursors of the initial states are typed, and nothing needs to back them.
LEMMA NoCursorFacts ==
    /\ NoKey \in Keys /\ NoCursor \in Cursors /\ NoCursor.hist = 0 /\ 0 \in Times
    /\ Backed(NoCursor) /\ Backed(NoCursor)'
PROOF
<1> USE ArgoAppAssumption
<1>1. NoKey \in Keys /\ 0 \in Times
  BY DEF NoKey, Key, Keys, Times
<1>2. NoCursor \in Cursors /\ NoCursor.hist = 0
  BY <1>1 DEF NoCursor, Cursors
<1>3. /\ NoCursor.hist = 0 /\ NoCursor.termKey = NoKey /\ NoCursor.startKey = NoKey /\ NoCursor.health = NoHealth
  BY DEF NoCursor
<1>4. Backed(NoCursor) /\ Backed(NoCursor)'
  BY <1>3 DEF Backed
<1> QED
  BY <1>1, <1>2, <1>4

\* What backs a cursor stays when events are added.
LEMMA BackedStays ==
    ASSUME stored \subseteq stored', NEW CONSTANT c, Backed(c)
    PROVE  Backed(c)'
BY DEF Backed

\* The advance after an ingest is backed by the event that was stored.
LEMMA AdvanceBacked ==
    ASSUME NEW CONSTANT c \in Cursors, NEW CONSTANT e \in SourceEvents, Formed(e),
           stored \subseteq stored', e \in stored', Backed(c)
    PROVE  Backed(advanceCheckpoint(c, e))'
PROOF
<1> DEFINE d == advanceCheckpoint(c, e)
<1>1. /\ d.hist = c.hist \/ (d.hist = e.hist /\ Recorded(e))
      /\ d.termKey = c.termKey \/ (d.termKey = e.key /\ (Recorded(e) \/ Finished(e)))
      /\ d.startKey = c.startKey \/ (d.startKey = e.key /\ e.type = "argo.sync.started")
      /\ d.health = c.health \/ d.health = e.health
  BY AdvanceCursor
<1>2. Backed(c)'
  BY BackedStays
<1> HIDE DEF d
<1>3. Backed(d)'
  BY <1>1, <1>2 DEF Backed
<1> QED
  BY <1>3 DEF d

-------------------------------------------------------------------------------
(* The kinds of steps. *)

\* A step of the loop looks at one event: the repository gets it or stays, and the cursor
\* advances only over an event that is stored.
LEMMA LoopStep ==
    ASSUME NEW i \in DOMAIN batch, Loop(i) \/ IngestFails(i)
    PROVE  /\ Due(i) /\ batch' = Rest(i) /\ UNCHANGED <<app, now, file, pc, crashes>>
           /\ stored' = stored \/ stored' = stored \cup {batch[i]}
           /\ \/ cursor' = cursor
              \/ cursor' = advanceCheckpoint(cursor, batch[i]) /\ stored' = stored \cup {batch[i]}
           /\ faults' = faults \/ (faults < MaxFaults /\ faults' = faults + 1)
BY DEF Loop, Skip, Collect, IngestConflict, IngestFails, Fault

\* Nothing is left of a batch that is over.
LEMMA NoEventsEmpty == DOMAIN NoEvents = {} /\ NoEvents \in [DOMAIN NoEvents -> SourceEvents]
BY DEF NoEvents

\* Every other step than Argo's and a fetch leaves the application alone and brings no event.
Shrinks ==
    /\ UNCHANGED <<app, now>> /\ stored \subseteq stored' /\ Events' \subseteq Events
    /\ DOMAIN batch' \subseteq DOMAIN batch /\ \A j \in DOMAIN batch' : batch'[j] = batch[j]

LEMMA StepKinds ==
    ASSUME Next
    PROVE  Argo \/ Fetch \/ Shrinks
PROOF
<1>1. CASE \E i \in DOMAIN batch : Loop(i) \/ IngestFails(i)
  <2>1. PICK i \in DOMAIN batch : Loop(i) \/ IngestFails(i)
    BY <1>1
  <2>2. /\ batch' = Rest(i) /\ UNCHANGED <<app, now>>
        /\ stored' = stored \/ stored' = stored \cup {batch[i]}
    BY <2>1, LoopStep
  <2>3. DOMAIN batch' = DOMAIN batch \ {i} /\ \A j \in DOMAIN batch' : batch'[j] = batch[j]
    BY <2>2 DEF Rest
  <2>4. Events' \subseteq Events
    BY <2>1, <2>2, <2>3 DEF Events, BatchSet
  <2> QED
    BY <2>2, <2>3, <2>4 DEF Shrinks
<1>2. CASE Start \/ TruncateFile \/ WriteFile \/ SaveFails
  <2>1. UNCHANGED <<app, now, batch, stored>>
    BY <1>2 DEF Start, TruncateFile, WriteFile, SaveFails
  <2> QED
    BY <2>1 DEF Shrinks, Events, BatchSet
<1>3. CASE Crash
  <2>1. UNCHANGED <<app, now, stored>> /\ DOMAIN batch' = {}
    BY <1>3, NoEventsEmpty DEF Crash
  <2> QED
    BY <2>1 DEF Shrinks, Events, BatchSet
<1> QED
  BY <1>1, <1>2, <1>3 DEF Next, Collector

\* A cursor is loaded, advanced over a stored event or lost; the file gets the cursor or is torn.
LEMMA CursorKinds ==
    ASSUME Next
    PROVE  /\ \/ cursor' \in {cursor, NoCursor}
              \/ pc = "down" /\ file.state = "ok" /\ cursor' = file.cursor
              \/ \E i \in DOMAIN batch : batch[i] \in stored' /\ cursor' = advanceCheckpoint(cursor, batch[i])
           /\ file' \in {file, Torn} \/ (pc = "saving" /\ file' = Saved(cursor))
PROOF
<1>1. CASE \E i \in DOMAIN batch : Loop(i) \/ IngestFails(i)
  <2>1. PICK i \in DOMAIN batch : Loop(i) \/ IngestFails(i)
    BY <1>1
  <2> QED
    BY <2>1, LoopStep
<1>2. CASE Start
  BY <1>2 DEF Start, loadCheckpoint
<1>3. CASE Argo \/ Fetch \/ TruncateFile \/ WriteFile \/ SaveFails \/ Crash
  BY <1>3 DEF Argo, Fetch, TruncateFile, WriteFile, SaveFails, Crash
<1> QED
  BY <1>1, <1>2, <1>3 DEF Next, Collector

\* The history of the application and the events come with their types.
LEMMA Fields ==
    ASSUME TypeOK
    PROVE  /\ AppType /\ cursor \in Cursors /\ cursor.hist \in Nat
           /\ file.cursor \in Cursors /\ file.cursor.hist \in Nat
           /\ Events \subseteq SourceEvents /\ \A e \in Events : e.hist \in Nat /\ e.at \in Times /\ e.key.at \in Times
           /\ \A i \in DOMAIN batch : batch[i] \in Events
           /\ stored \subseteq Events
           /\ faults \in Nat
PROOF
<1>1. AppType /\ cursor \in Cursors /\ file.cursor \in Cursors /\ faults \in Nat
  BY ArgoPollAssumption DEF TypeOK, CheckpointType
<1>2. cursor.hist \in Nat /\ file.cursor.hist \in Nat
  BY <1>1 DEF Cursors
<1>3. Events \subseteq SourceEvents /\ (\A i \in DOMAIN batch : batch[i] \in Events) /\ stored \subseteq Events
  BY DEF TypeOK, Events, BatchSet
<1>4. \A e \in SourceEvents : e.hist \in Nat /\ e.at \in Times /\ e.key.at \in Times
  BY DEF SourceEvents, Keys
<1> QED
  BY <1>1, <1>2, <1>3, <1>4

-------------------------------------------------------------------------------
(* The types and the form of the events. *)

\* The application of the initial states.
LEMMA InitAppFacts ==
    ASSUME InitApp
    PROVE  /\ AppType /\ HistoryOrdered /\ now = 1 /\ app.phase # "Running"
           /\ \A i \in DOMAIN app.hist : app.hist[i].at = 1 /\ (app.hist[i].id = 0 => NewestId = 0)
PROOF
<1> USE ArgoAppAssumption
<1> DEFINE InitFacts ==
               /\ AppType /\ HistoryOrdered /\ now = 1 /\ app.phase # "Running"
               /\ \A i \in DOMAIN app.hist : app.hist[i].at = 1 /\ (app.hist[i].id = 0 => NewestId = 0)
<1>1. /\ Anybody \in Actors /\ AnyRev \in Revs /\ AnyRev # NoRev
      /\ 0 \in Times /\ 1 \in Times /\ HistoryLimit \in Nat \ {0}
      /\ "NoStatus" \in PhaseNames /\ "Succeeded" \in PhaseNames
  BY DEF Anybody, AnyRev, Times, PhaseNames, NoOperation, Terminal
<1>2. ASSUME NEW b \in Actors
      PROVE  /\ FreshApp(b) \in Apps /\ FreshApp(b).hist = <<>> /\ FreshApp(b).phase = "NoStatus"
             /\ FreshApp(b).start = 0
  BY <1>1 DEF FreshApp, Apps
<1>3. now \in Times /\ now = 1
  BY <1>1 DEF InitApp
<1>4. CASE app = FreshApp(Anybody)
  <2>1. app \in Apps /\ Len(app.hist) = 0 /\ DOMAIN app.hist = {} /\ app.phase = "NoStatus" /\ app.start = 0
    BY <1>1, <1>2, <1>4
  <2> QED
    BY <2>1, <1>1, <1>3 DEF AppType, HistoryOrdered
<1>5. ASSUME NEW id \in {0, 2}, app = DeployedApp(AnyRev, Anybody, id)
      PROVE  InitFacts
  <2>1. /\ app \in Apps /\ app.hist = <<[id |-> id, rev |-> AnyRev, at |-> 1]>>
        /\ app.phase = "Succeeded" /\ app.rev = AnyRev /\ app.start = 1
    <3> DEFINE h == <<[id |-> id, rev |-> AnyRev, at |-> 1]>>
               f == FreshApp(Anybody)
    <3>1. h \in Seq(HistoryEntry)
      BY <1>1 DEF HistoryEntry
    <3>2. app = [f EXCEPT !.rev = AnyRev, !.oprev = AnyRev, !.phase = "Succeeded", !.start = 1,
                          !.finish = 1, !.hist = h]
      BY <1>5 DEF DeployedApp
    <3>3. f \in Apps
      BY <1>1, <1>2
    <3> HIDE DEF h, f
    <3>4. app \in Apps /\ app.hist = h /\ app.phase = "Succeeded" /\ app.rev = AnyRev /\ app.start = 1
      BY <3>1, <3>2, <3>3, <1>1 DEF Apps
    <3> QED
      BY <3>4 DEF h
  <2>2. /\ Len(app.hist) = 1 /\ DOMAIN app.hist = {1} /\ app.hist[1].at = 1 /\ app.hist[1].id = id
        /\ app.hist # <<>>
    BY <2>1
  <2>3. AppType
    BY <1>1, <1>3, <2>1, <2>2 DEF AppType
  <2>4. HistoryOrdered
    BY <1>3, <2>1, <2>2 DEF HistoryOrdered
  <2>5. NewestId = id
    BY <2>2 DEF NewestId
  <2> QED
    BY <1>3, <2>1, <2>2, <2>3, <2>4, <2>5
<1> QED
  BY <1>4, <1>5 DEF InitApp

\* Every step keeps the types.
LEMMA TypeStep ==
    ASSUME TypeOK, EventsFormed, Next
    PROVE  TypeOK'
PROOF
<1> USE ArgoPollAssumption
<1> DEFINE Files == [state : {"absent", "torn", "ok"}, cursor : Cursors]
           Batches(b) == b \in [DOMAIN b -> SourceEvents] /\ DOMAIN b \subseteq 1..(HistoryLimit + 2)
<1>1. /\ AppType /\ cursor \in Cursors /\ file \in Files /\ file.cursor \in Cursors
      /\ pc \in {"down", "idle", "loop", "saving"}
      /\ Batches(batch) /\ stored \subseteq SourceEvents
      /\ faults \in 0..MaxFaults /\ crashes \in 0..MaxCrashes
  BY DEF TypeOK, CheckpointType
<1>2. NoCursor \in Cursors /\ Batches(NoEvents)
  BY NoCursorFacts, NoEventsEmpty
<1>3. ASSUME NEW i \in DOMAIN batch
      PROVE  batch[i] \in SourceEvents /\ batch[i] \in Events /\ Formed(batch[i])
  BY <1>1 DEF Events, BatchSet, EventsFormed
<1>4. cursor' \in Cursors
  <2>1. CASE \E i \in DOMAIN batch : cursor' = advanceCheckpoint(cursor, batch[i])
    BY <1>1, <1>3, <2>1, AdvanceCursor
  <2> QED
    BY <1>1, <1>2, <2>1, CursorKinds
<1>5. file' \in Files
  <2>1. Torn \in Files /\ Saved(cursor) \in Files
    BY <1>1, <1>2 DEF Torn, Saved
  <2> QED
    BY <1>1, <2>1, CursorKinds
<1>7. ASSUME NEW i \in DOMAIN batch
      PROVE  Batches(Rest(i)) /\ batch[i] \in SourceEvents
  BY <1>1 DEF Rest
<1>8. ASSUME AppType', Batches(batch'), stored' \subseteq SourceEvents, pc' \in {"down", "idle", "loop", "saving"},
             faults' \in 0..MaxFaults, crashes' \in 0..MaxCrashes
      PROVE  TypeOK'
  BY <1>4, <1>5, <1>8 DEF TypeOK, CheckpointType
<1>9. UNCHANGED <<app, now>> => AppType'
  BY <1>1 DEF AppType
<1>10. Fault => faults' \in 0..MaxFaults
  BY <1>1 DEF Fault
<1>11. CASE Argo
  <2>1. AppType'
    BY <1>1, <1>11, AppStep DEF Argo
  <2> QED
    BY <1>1, <1>8, <1>11, <2>1 DEF Argo
<1>12. CASE Fetch
  <2> DEFINE B == toSourceEvents(app)
  <2>1. \A i \in DOMAIN B : i \in 1..(HistoryLimit + 2) /\ B[i] \in SourceEvents
    BY <1>1, SnapshotEvents
  <2>2. B = [i \in DOMAIN B |-> B[i]]
    BY <1>1, Snapshot
  <2>3. batch' = B
    BY <1>12 DEF Fetch
  <2> HIDE DEF B
  <2>4. Batches(batch')
    BY <2>1, <2>2, <2>3
  <2> QED
    BY <1>1, <1>8, <1>9, <1>12, <2>4 DEF Fetch
<1>13. CASE \E i \in DOMAIN batch : Loop(i) \/ IngestFails(i)
  <2>1. PICK i \in DOMAIN batch : Loop(i) \/ IngestFails(i)
    BY <1>13
  <2>2. /\ batch' = Rest(i) /\ UNCHANGED <<app, now, pc, crashes>>
        /\ stored' = stored \/ stored' = stored \cup {batch[i]}
        /\ faults' = faults \/ (faults < MaxFaults /\ faults' = faults + 1)
    BY <2>1, LoopStep
  <2>3. stored' \subseteq SourceEvents /\ faults' \in 0..MaxFaults
    BY <1>1, <1>7, <2>2
  <2>4. Batches(batch')
    BY <1>7, <2>2
  <2> QED
    BY <1>1, <1>8, <1>9, <2>2, <2>3, <2>4
<1>14. CASE Start \/ TruncateFile \/ WriteFile \/ SaveFails
  <2>1. /\ UNCHANGED <<app, now, batch, stored, crashes>> /\ pc' \in {"idle", "saving"}
        /\ faults' \in 0..MaxFaults
    BY <1>1, <1>10, <1>14 DEF Start, TruncateFile, WriteFile, SaveFails
  <2> QED
    BY <1>1, <1>8, <1>9, <2>1
<1>15. CASE Crash
  <2>1. /\ UNCHANGED <<app, now, stored, faults>> /\ batch' = NoEvents /\ pc' = "down"
        /\ crashes' \in 0..MaxCrashes
    BY <1>1, <1>15 DEF Crash
  <2> QED
    BY <1>1, <1>2, <1>8, <1>9, <2>1
<1> QED
  BY <1>11, <1>12, <1>13, <1>14, <1>15 DEF Next, Collector

\* Every step keeps the events formed.
LEMMA FormedStep ==
    ASSUME TypeOK, EventsFormed, Next
    PROVE  EventsFormed'
PROOF
<1>1. CASE Argo
  BY <1>1 DEF Argo, EventsFormed, Events, BatchSet
<1>2. CASE Fetch
  <2>1. \A i \in DOMAIN batch' : Formed(batch'[i])
    BY <1>2, SnapshotEvents DEF Fetch, TypeOK
  <2>2. stored' = stored
    BY <1>2 DEF Fetch
  <2>3. \A e \in stored' : Formed(e)
    BY <2>2 DEF EventsFormed, Events
  <2> QED
    BY <2>1, <2>3 DEF EventsFormed, Events, BatchSet
<1>3. CASE Shrinks
  BY <1>3 DEF Shrinks, EventsFormed
<1> QED
  BY <1>1, <1>2, <1>3, StepKinds

-------------------------------------------------------------------------------
(* The order of the history and of the batch. *)

\* The newest id bounds all ids.
LEMMA NewestIdBounds ==
    ASSUME AppType, HistoryOrdered
    PROVE  NewestId \in Nat /\ \A i \in DOMAIN app.hist : app.hist[i].id <= NewestId
PROOF
<1>1. /\ app.hist \in Seq(HistoryEntry) /\ Len(app.hist) \in Nat /\ DOMAIN app.hist = 1..Len(app.hist)
      /\ \A i \in DOMAIN app.hist : app.hist[i].id \in Nat
  BY AppFields
<1>2. CASE app.hist = <<>>
  BY <1>1, <1>2 DEF NewestId
<1>3. CASE app.hist # <<>>
  <2>1. Len(app.hist) \in DOMAIN app.hist /\ NewestId = app.hist[Len(app.hist)].id
    BY <1>1, <1>3 DEF NewestId
  <2>2. ASSUME NEW i \in DOMAIN app.hist
        PROVE  app.hist[i].id <= NewestId
    <3>1. i = Len(app.hist) \/ i < Len(app.hist)
      BY <1>1
    <3> QED
      BY <1>1, <2>1, <3>1 DEF HistoryOrdered
  <2> QED
    BY <1>1, <2>1, <2>2
<1> QED
  BY <1>2, <1>3

\* A new deployment is numbered above and dated after all others, and the entries that are
\* left keep their order.
LEMMA DeployedStep ==
    ASSUME AppType, HistoryOrdered, Deployed, now' = now + 1
    PROVE  /\ HistoryOrdered'
           /\ NewestId' = NextHistoryId
           /\ (NextHistoryId = 0 /\ NewestId = 0) \/ NextHistoryId = NewestId + 1
           /\ \A i \in DOMAIN app'.hist :
                  \/ \E j \in DOMAIN app.hist : app'.hist[i] = app.hist[j]
                  \/ app'.hist[i].id = NextHistoryId /\ app'.hist[i].at = now'
PROOF
<1> DEFINE h == app.hist
<1>1. /\ h \in Seq(HistoryEntry) /\ Len(h) \in Nat /\ Len(h) <= HistoryLimit /\ DOMAIN h = 1..Len(h)
      /\ \A i \in DOMAIN h : h[i].id \in Nat /\ h[i].at \in Nat
      /\ now \in Nat /\ app.start \in Nat
  BY AppFields DEF AppType
<1>2. PICK x \in HistoryEntry : x.id = NextHistoryId /\ x.at = now' /\ app'.hist = Trimmed(Append(h, x))
  BY DEF Deployed
<1> DEFINE t == Trimmed(Append(h, x))
<1>3. /\ t \in Seq(HistoryEntry) /\ Len(t) \in 1..HistoryLimit /\ t[Len(t)] = x
      /\ \E d \in {0, 1} :
             /\ Len(t) = Len(h) + 1 - d
             /\ \A i \in 1..(Len(t) - 1) : t[i] = h[i + d]
  BY <1>1, TrimmedAppend
<1> HIDE DEF t
<1>4. PICK d \in {0, 1} : Len(t) = Len(h) + 1 - d /\ \A i \in 1..(Len(t) - 1) : t[i] = h[i + d]
  BY <1>3
<1>5. app'.hist = t /\ DOMAIN t = 1..Len(t) /\ t # <<>> /\ Len(t) \in Nat /\ Len(t) >= 1
  BY <1>2, <1>3, ArgoAppAssumption DEF t
<1>6. \A i \in 1..(Len(t) - 1) : i + d \in DOMAIN h /\ t[i] = h[i + d]
  BY <1>1, <1>4, <1>5
<1>7. NewestId \in Nat /\ \A i \in DOMAIN h : h[i].id <= NewestId
  BY NewestIdBounds
<1>8. (NextHistoryId = 0 /\ NewestId = 0 /\ DOMAIN h = {}) \/ NextHistoryId = NewestId + 1
  BY <1>1 DEF NextHistoryId, NewestId
<1>9. NewestId' = NextHistoryId
  BY <1>2, <1>3, <1>5 DEF NewestId
<1>10. \A i \in DOMAIN t : i = Len(t) \/ i \in 1..(Len(t) - 1)
  BY <1>5
<1>11. \A i \in DOMAIN t : (\E j \in DOMAIN h : t[i] = h[j]) \/ (t[i].id = NextHistoryId /\ t[i].at = now')
  BY <1>2, <1>3, <1>6, <1>10
<1>12. \A i, j \in DOMAIN t : i < j => t[i].id < t[j].id
  <2> SUFFICES ASSUME NEW i \in DOMAIN t, NEW j \in DOMAIN t, i < j
               PROVE  t[i].id < t[j].id
    OBVIOUS
  <2>1. i \in 1..(Len(t) - 1) /\ i + d \in DOMAIN h /\ t[i] = h[i + d]
    BY <1>5, <1>6
  <2>2. CASE j = Len(t)
    <3>1. NextHistoryId = NewestId + 1
      BY <1>8, <2>1
    <3>2. t[j].id = NextHistoryId
      BY <1>2, <1>3, <2>2
    <3>3. t[i].id \in Nat /\ t[i].id <= NewestId
      BY <1>1, <1>7, <2>1
    <3> QED
      BY <1>7, <3>1, <3>2, <3>3
  <2>3. CASE j \in 1..(Len(t) - 1)
    <3>1. j + d \in DOMAIN h /\ t[j] = h[j + d]
      BY <1>6, <2>3
    <3>2. i \in Int /\ j \in Int /\ d \in Int
      BY <1>5
    <3>3. i + d < j + d
      BY <3>2
    <3> QED
      BY <2>1, <3>1, <3>3 DEF HistoryOrdered
  <2> QED
    BY <1>10, <2>2, <2>3
<1>13. \A i \in DOMAIN t : t[i].at <= now'
  BY <1>1, <1>11 DEF HistoryOrdered
<1>14. app'.start <= now' /\ app'.phase # "Running"
  BY <1>1 DEF HistoryOrdered, Deployed
<1>15. HistoryOrdered'
  BY <1>5, <1>12, <1>13, <1>14 DEF HistoryOrdered
<1> QED
  BY <1>5, <1>8, <1>9, <1>11, <1>15

\* Every step keeps the order of the history, and the newest id does not fall.
LEMMA HistoryStep ==
    ASSUME TypeOK, HistoryOrdered, Next
    PROVE  HistoryOrdered' /\ NewestId' \in Nat /\ NewestId' >= NewestId
PROOF
<1>1. AppType /\ NewestId \in Nat /\ now \in Nat /\ app.start \in Nat
      /\ \A i \in DOMAIN app.hist : app.hist[i].at \in Nat
  BY AppFields, NewestIdBounds DEF TypeOK
<1>2. CASE Argo
  <2>1. now' = now + 1 /\ (Unmoved \/ Started \/ Failed \/ Deployed)
    BY <1>1, <1>2, AppStep DEF Argo
  <2>2. CASE Deployed
    <3>1. HistoryOrdered' /\ (NewestId' = NewestId \/ NewestId' = NewestId + 1)
      BY <1>1, <2>1, <2>2, DeployedStep
    <3> QED
      BY <1>1, <3>1
  <2>3. CASE Unmoved \/ Started \/ Failed
    <3>1. app'.hist = app.hist /\ NewestId' = NewestId
      BY <2>3 DEF Unmoved, Started, Failed, NewestId
    <3>2. \A i \in DOMAIN app.hist : app.hist[i].at < now'
      BY <1>1, <2>1 DEF HistoryOrdered
    <3>3. app'.start <= now'
      BY <1>1, <2>1, <2>3 DEF HistoryOrdered, Unmoved, Started, Failed
    <3>4. app'.phase = "Running" => \A i \in DOMAIN app.hist : app.hist[i].at < app'.start
      BY <2>3, <3>2 DEF HistoryOrdered, Unmoved, Started, Failed
    <3>5. \A i \in DOMAIN app'.hist : app'.hist[i].at <= now'
      BY <1>1, <2>1, <3>1, <3>2
    <3>6. HistoryOrdered'
      BY <3>1, <3>3, <3>4, <3>5 DEF HistoryOrdered
    <3> QED
      BY <1>1, <3>1, <3>6
  <2> QED
    BY <2>1, <2>2, <2>3
<1>3. CASE UNCHANGED <<app, now>>
  BY <1>1, <1>3 DEF HistoryOrdered, NewestId
<1>4. Argo \/ UNCHANGED <<app, now>>
  BY StepKinds DEF Fetch, Shrinks
<1> QED
  BY <1>2, <1>3, <1>4

\* Every step keeps the batch in order, and in the loop.
LEMMA BatchStep ==
    ASSUME TypeOK, HistoryOrdered, BatchOrdered, Next
    PROVE  BatchOrdered'
PROOF
<1>1. \A i, j \in DOMAIN batch : i < j /\ Recorded(batch[j]) => Recorded(batch[i]) /\ batch[i].hist < batch[j].hist
  BY DEF BatchOrdered
<1>2. \A i, j \in DOMAIN batch' : i < j /\ Recorded(batch'[j]) => Recorded(batch'[i]) /\ batch'[i].hist < batch'[j].hist
  <2>1. CASE Fetch
    <3> DEFINE B == toSourceEvents(app)
    <3>1. \A i \in DOMAIN B : /\ i \in 1..(HistoryLimit + 2)
                              /\ Recorded(B[i]) <=> i \in DOMAIN app.hist
                              /\ Recorded(B[i]) => B[i].hist = app.hist[i].id
      BY SnapshotEvents DEF TypeOK
    <3>2. DOMAIN app.hist = 1..Len(app.hist) /\ Len(app.hist) \in Nat
      BY AppFields DEF TypeOK
    <3> HIDE DEF B
    <3>3. \A i, j \in DOMAIN B : i < j /\ Recorded(B[j]) => Recorded(B[i]) /\ B[i].hist < B[j].hist
      <4> SUFFICES ASSUME NEW i \in DOMAIN B, NEW j \in DOMAIN B, i < j, Recorded(B[j])
                   PROVE  Recorded(B[i]) /\ B[i].hist < B[j].hist
        OBVIOUS
      <4>1. j \in DOMAIN app.hist /\ i \in 1..(HistoryLimit + 2)
        BY <3>1
      <4>2. i \in DOMAIN app.hist
        BY <3>2, <4>1
      <4>3. Recorded(B[i]) /\ B[i].hist = app.hist[i].id /\ B[j].hist = app.hist[j].id
        BY <3>1, <4>2
      <4> QED
        BY <4>1, <4>2, <4>3 DEF HistoryOrdered
    <3> QED
      BY <2>1, <3>3 DEF Fetch, B
  <2>2. CASE Argo
    BY <1>1, <2>2 DEF Argo
  <2>3. CASE Shrinks
    BY <1>1, <2>3 DEF Shrinks
  <2> QED
    BY <2>1, <2>2, <2>3, StepKinds
<1>3. pc' # "loop" => batch' = NoEvents
  <2>1. CASE \E i \in DOMAIN batch : Loop(i) \/ IngestFails(i)
    <3>1. pc' = "loop"
      BY <2>1, LoopStep DEF Due
    <3> QED
      BY <3>1
  <2>2. CASE Argo \/ Start \/ Fetch \/ Crash
    BY <2>2 DEF Argo, Start, Fetch, Crash, BatchOrdered
  <2>3. CASE TruncateFile \/ WriteFile \/ SaveFails
    BY <2>3 DEF TruncateFile, WriteFile, SaveFails, BatchOrdered
  <2> QED
    BY <2>1, <2>2, <2>3 DEF Next, Collector
<1> QED
  BY <1>2, <1>3 DEF BatchOrdered

\* Every step keeps the cursors and the events within the history.
LEMMA WithinStep ==
    ASSUME TypeOK, EventsFormed, HistoryOrdered, WithinHistory, Next
    PROVE  WithinHistory'
PROOF
<1>1. /\ NewestId \in Nat /\ NewestId' \in Nat /\ NewestId <= NewestId'
      /\ \A i \in DOMAIN app.hist : app.hist[i].id <= NewestId
  BY HistoryStep, NewestIdBounds, Fields
<1>2. /\ cursor \in Cursors /\ cursor.hist \in Nat /\ file.cursor.hist \in Nat
      /\ \A e \in Events : e.hist \in Nat
      /\ \A i \in DOMAIN batch : batch[i] \in Events /\ batch[i] \in SourceEvents /\ Formed(batch[i])
  BY Fields DEF EventsFormed
<1>3. cursor.hist <= NewestId /\ file.cursor.hist <= NewestId /\ \A e \in Events : e.hist <= NewestId
  BY DEF WithinHistory
<1>4. cursor'.hist \in Nat /\ cursor'.hist <= NewestId
  <2>1. CASE cursor' \in {cursor, NoCursor} \/ cursor' = file.cursor
    BY <1>1, <1>2, <1>3, <2>1, NoCursorFacts
  <2>2. CASE \E i \in DOMAIN batch : cursor' = advanceCheckpoint(cursor, batch[i])
    <3>1. PICK i \in DOMAIN batch : cursor' = advanceCheckpoint(cursor, batch[i])
      BY <2>2
    <3>2. cursor'.hist = cursor.hist \/ cursor'.hist = batch[i].hist
      BY <1>2, <3>1, AdvanceCursor
    <3> QED
      BY <1>2, <1>3, <3>2
  <2> QED
    BY <2>1, <2>2, CursorKinds
<1>5. file'.cursor.hist \in Nat /\ file'.cursor.hist <= NewestId
  <2>1. Torn.cursor = NoCursor /\ Saved(cursor).cursor = cursor
    BY DEF Torn, Saved
  <2> QED
    BY <1>1, <1>2, <1>3, <2>1, NoCursorFacts, CursorKinds
<1>6. \A e \in Events' : e.hist \in Nat /\ e.hist <= NewestId
  <2>1. CASE Fetch
    <3>1. ASSUME NEW i \in DOMAIN toSourceEvents(app)
          PROVE  toSourceEvents(app)[i].hist \in Nat /\ toSourceEvents(app)[i].hist <= NewestId
      <4> DEFINE e == toSourceEvents(app)[i]
      <4>1. /\ e \in SourceEvents /\ Formed(e)
            /\ Recorded(e) => i \in DOMAIN app.hist /\ e.hist = app.hist[i].id
        BY Fields, SnapshotEvents
      <4> HIDE DEF e
      <4>2. e.hist \in Nat /\ e.hist <= NewestId
        BY <1>1, <4>1 DEF SourceEvents, Formed
      <4> QED
        BY <4>2 DEF e
    <3>2. batch' = toSourceEvents(app) /\ stored' = stored
      BY <2>1 DEF Fetch
    <3> QED
      BY <1>2, <1>3, <3>1, <3>2 DEF Events, BatchSet
  <2>2. CASE Argo
    BY <1>2, <1>3, <2>2 DEF Argo, Events, BatchSet
  <2>3. CASE Shrinks
    BY <1>2, <1>3, <2>3 DEF Shrinks
  <2> QED
    BY <2>1, <2>2, <2>3, StepKinds
<1>7. /\ cursor'.hist <= NewestId' /\ file'.cursor.hist <= NewestId'
      /\ \A e \in Events' : e.hist <= NewestId'
  BY <1>1, <1>4, <1>5, <1>6
<1> QED
  BY <1>7 DEF WithinHistory

-------------------------------------------------------------------------------
(* The finishes and the deployment 0. *)

\* Every step keeps one finish for an operation.
LEMMA FinishStep ==
    ASSUME TypeOK, HistoryOrdered, FinishAgrees, Next
    PROVE  FinishAgrees'
PROOF
<1>1. /\ AppType /\ now \in Nat /\ app.start \in Nat /\ app.start <= now
      /\ \A e \in Events : e.key.at \in Nat
  BY Fields, AppFields DEF HistoryOrdered
<1>2. /\ \A e \in Events : Finished(e) =>
             /\ e.key.at <= now
             /\ e.key.at = app.start => app.phase \in Terminal /\ e.at = app.finish
      /\ \A e, f \in Events : Finished(e) /\ Finished(f) /\ e.key.at = f.key.at => e.at = f.at
  BY DEF FinishAgrees
<1>3. CASE Argo
  <2>1. now' = now + 1 /\ (Unmoved \/ Started \/ Failed \/ Deployed) /\ Events' = Events
    BY <1>1, <1>3, AppStep DEF Argo, Events, BatchSet
  <2>2. ASSUME NEW e \in Events, Finished(e)
        PROVE  e.key.at <= now' /\ (e.key.at = app'.start => app'.phase \in Terminal /\ e.at = app'.finish)
    <3>1. /\ e.key.at \in Nat /\ e.key.at <= now
          /\ e.key.at = app.start => app.phase \in Terminal /\ e.at = app.finish
      BY <1>1, <1>2, <2>2
    <3>2. e.key.at <= now' /\ e.key.at # now'
      BY <1>1, <2>1, <3>1
    <3>3. CASE Unmoved
      BY <3>1, <3>2, <3>3 DEF Unmoved, Terminal
    <3>4. CASE Started
      BY <3>2, <3>4 DEF Started
    <3>5. CASE Failed \/ Deployed
      BY <3>1, <3>2, <3>5 DEF Failed, Deployed, Terminal
    <3> QED
      BY <2>1, <3>3, <3>4, <3>5
  <2> QED
    BY <1>2, <2>1, <2>2 DEF FinishAgrees
<1>4. CASE Fetch
  <2> DEFINE B == toSourceEvents(app)
  <2>1. /\ batch' = B /\ stored' = stored /\ app' = app /\ now' = now
        /\ \A i \in DOMAIN B : Finished(B[i]) =>
               B[i].key.at = app.start /\ B[i].at = app.finish /\ app.phase \in Terminal
    BY <1>1, <1>4, SnapshotEvents DEF Fetch
  <2> HIDE DEF B
  <2>2. \A e \in Events' : e \in Events \/ \E i \in DOMAIN B : e = B[i]
    BY <2>1 DEF Events, BatchSet
  <2>3. \A e \in Events' : Finished(e) =>
           \/ e \in Events
           \/ e.key.at = app.start /\ e.at = app.finish /\ app.phase \in Terminal
    BY <2>1, <2>2
  <2>4. \A e \in Events' : Finished(e) =>
           /\ e.key.at <= now
           /\ e.key.at = app.start => app.phase \in Terminal /\ e.at = app.finish
    BY <1>1, <1>2, <2>3
  <2>5. \A e, f \in Events' : Finished(e) /\ Finished(f) /\ e.key.at = f.key.at => e.at = f.at
    BY <1>2, <2>3, <2>4
  <2> QED
    BY <2>1, <2>4, <2>5 DEF FinishAgrees
<1>5. CASE Shrinks
  BY <1>2, <1>5 DEF Shrinks, FinishAgrees
<1> QED
  BY <1>3, <1>4, <1>5, StepKinds

\* The times at which a deployment 0 is known to have been made.
LEMMA ZeroTimesMembers ==
    ASSUME NEW t
    PROVE  t \in ZeroTimes <=> \/ \E i \in DOMAIN app.hist : app.hist[i].id = 0 /\ app.hist[i].at = t
                               \/ \E e \in Events : Recorded(e) /\ e.hist = 0 /\ e.at = t
BY Zenon DEF ZeroTimes

\* The same of the next state.
LEMMA NextZeroTimesMembers ==
    ASSUME NEW t
    PROVE  t \in ZeroTimes' <=> \/ \E i \in DOMAIN app'.hist : app'.hist[i].id = 0 /\ app'.hist[i].at = t
                                \/ \E e \in Events' : Recorded(e) /\ e.hist = 0 /\ e.at = t
BY Zenon DEF ZeroTimes, Recorded

\* Every step keeps the key of deployment 0 apart from those of the operations.
LEMMA ZeroStep ==
    ASSUME TypeOK, EventsFormed, BatchOrdered, HistoryOrdered, WithinHistory, FinishAgrees, ZeroApart, Next
    PROVE  ZeroApart'
PROOF
<1>1. /\ AppType /\ now \in Nat /\ app.start \in Nat /\ app.start <= now
      /\ cursor \in Cursors /\ cursor.hist \in Nat
      /\ NewestId \in Nat /\ \A i \in DOMAIN app.hist : app.hist[i].id <= NewestId
      /\ \A i \in DOMAIN app.hist : app.hist[i].at \in Nat /\ app.hist[i].id \in Nat
      /\ \A e \in Events : e.key.at \in Nat /\ e.at \in Nat /\ e.hist \in Nat
      /\ \A i \in DOMAIN batch : batch[i] \in Events /\ batch[i] \in SourceEvents /\ Formed(batch[i])
  BY Fields, AppFields, NewestIdBounds DEF HistoryOrdered, EventsFormed
<1>2. \A t \in ZeroTimes : /\ t \in Nat /\ t <= now
                           /\ app.phase = "Running" => t < app.start
                           /\ t = app.start => NewestId = 0
  <2>1. \A t \in ZeroTimes : t \in Nat
    BY <1>1, ZeroTimesMembers
  <2> QED
    BY <2>1 DEF ZeroApart
<1>3. \A i \in DOMAIN batch : Finished(batch[i]) /\ batch[i].key.at \in ZeroTimes =>
         cursor.hist = 0 /\ \A j \in DOMAIN batch : batch[j].hist = 0
  BY DEF ZeroApart
<1>4. CASE Argo
  <2>1. /\ now' = now + 1 /\ (Unmoved \/ Started \/ Failed \/ Deployed)
        /\ Events' = Events /\ batch' = batch /\ cursor' = cursor
    BY <1>1, <1>4, AppStep DEF Argo, Events, BatchSet
  <2>2. \A t \in ZeroTimes' : t \in ZeroTimes \/ (Deployed /\ t = now')
    <3>1. CASE Deployed
      <4>1. \A i \in DOMAIN app'.hist : \/ \E j \in DOMAIN app.hist : app'.hist[i] = app.hist[j]
                                        \/ app'.hist[i].at = now'
        BY <1>1, <2>1, <3>1, DeployedStep
      <4> QED
        BY <2>1, <3>1, <4>1, ZeroTimesMembers, NextZeroTimesMembers
    <3>2. CASE Unmoved \/ Started \/ Failed
      <4>1. app'.hist = app.hist
        BY <3>2 DEF Unmoved, Started, Failed
      <4> QED
        BY <2>1, <4>1, ZeroTimesMembers, NextZeroTimesMembers
    <3> QED
      BY <2>1, <3>1, <3>2
  <2>3. ASSUME NEW t \in ZeroTimes'
        PROVE  /\ t <= now'
               /\ app'.phase = "Running" => t < app'.start
               /\ t = app'.start => NewestId' = 0
    <3>1. CASE t \in ZeroTimes
      <4>1. /\ t \in Nat /\ t <= now /\ (app.phase = "Running" => t < app.start)
            /\ t = app.start => NewestId = 0
        BY <1>2, <3>1
      <4>2. t <= now' /\ t # now' /\ t < now'
        BY <1>1, <2>1, <4>1
      <4>3. CASE Unmoved
        <5>1. NewestId' = NewestId /\ app'.start = app.start
              /\ (app'.phase = "Running" => app.phase = "Running")
          BY <4>3 DEF Unmoved, NewestId
        <5> QED
          BY <4>1, <4>2, <5>1
      <4>4. CASE Started
        BY <4>2, <4>4 DEF Started
      <4>5. CASE Failed \/ Deployed
        <5>1. app'.start = app.start /\ app'.phase # "Running" /\ app.phase = "Running"
          BY <4>5 DEF Failed, Deployed
        <5> QED
          BY <1>1, <4>1, <4>2, <5>1
      <4> QED
        BY <2>1, <4>3, <4>4, <4>5
    <3>2. CASE Deployed /\ t = now'
      <4>1. app'.start = app.start /\ app'.phase # "Running"
        BY <3>2 DEF Deployed
      <4>2. t <= now' /\ t # app.start
        BY <1>1, <2>1, <3>2
      <4> QED
        BY <4>1, <4>2
    <3> QED
      BY <2>2, <3>1, <3>2
  <2>4. \A i \in DOMAIN batch : Finished(batch[i]) /\ batch[i].key.at \in ZeroTimes' =>
           cursor.hist = 0 /\ \A j \in DOMAIN batch : batch[j].hist = 0
    <3>1. ASSUME NEW i \in DOMAIN batch, Finished(batch[i]), batch[i].key.at = now'
          PROVE  FALSE
      <4>1. batch[i].key.at <= now /\ batch[i].key.at \in Nat
        BY <1>1, <3>1 DEF FinishAgrees
      <4> QED
        BY <1>1, <2>1, <3>1, <4>1
    <3> QED
      BY <1>3, <2>2, <3>1
  <2> QED
    BY <2>1, <2>3, <2>4 DEF ZeroApart
<1>5. CASE Fetch
  <2> DEFINE B == toSourceEvents(app)
  <2>1. /\ batch' = B /\ UNCHANGED <<app, now, cursor, stored>> /\ NewestId' = NewestId
        /\ \A i \in DOMAIN B :
               /\ B[i] \in SourceEvents /\ Formed(B[i])
               /\ Recorded(B[i]) => /\ i \in DOMAIN app.hist
                                    /\ B[i].hist = app.hist[i].id /\ B[i].at = app.hist[i].at
               /\ Finished(B[i]) => B[i].key.at = app.start
    BY <1>1, <1>5, SnapshotEvents DEF Fetch, NewestId
  <2> HIDE DEF B
  <2>2. \A e \in Events' : e \in Events \/ \E i \in DOMAIN B : e = B[i]
    BY <2>1 DEF Events, BatchSet
  <2>3. \A e \in Events' : Recorded(e) /\ e.hist = 0 =>
           \/ e \in Events
           \/ \E i \in DOMAIN app.hist : app.hist[i].id = 0 /\ app.hist[i].at = e.at
    BY <2>1, <2>2
  <2>4. \A t \in ZeroTimes' : t \in ZeroTimes
    BY <2>1, <2>3, ZeroTimesMembers, NextZeroTimesMembers
  <2>5. ASSUME NewestId = 0
        PROVE  cursor.hist = 0 /\ \A j \in DOMAIN B : B[j].hist = 0
    <3>1. cursor.hist = 0 /\ \A j \in DOMAIN app.hist : app.hist[j].id = 0
      BY <1>1, <2>5 DEF WithinHistory
    <3>2. \A j \in DOMAIN B : B[j].hist = 0
      BY <2>1, <3>1 DEF Formed
    <3> QED
      BY <3>1, <3>2
  <2>6. \A i \in DOMAIN B : Finished(B[i]) /\ B[i].key.at \in ZeroTimes' => NewestId = 0
    BY <1>2, <2>1, <2>4
  <2>7. \A t \in ZeroTimes' : /\ t <= now'
                              /\ app'.phase = "Running" => t < app'.start
                              /\ t = app'.start => NewestId' = 0
    BY <1>2, <2>1, <2>4
  <2>8. \A i \in DOMAIN batch' : Finished(batch'[i]) /\ batch'[i].key.at \in ZeroTimes' =>
           cursor'.hist = 0 /\ \A j \in DOMAIN batch' : batch'[j].hist = 0
    BY <2>1, <2>5, <2>6
  <2> QED
    BY <2>7, <2>8 DEF ZeroApart
<1>6. CASE Shrinks
  <2>1. /\ app' = app /\ now' = now /\ Events' \subseteq Events /\ NewestId' = NewestId
        /\ DOMAIN batch' \subseteq DOMAIN batch /\ \A j \in DOMAIN batch' : batch'[j] = batch[j]
    BY <1>6 DEF Shrinks, NewestId
  <2>2. \A t \in ZeroTimes' : t \in ZeroTimes
    BY <2>1, ZeroTimesMembers, NextZeroTimesMembers
  <2>3. ASSUME NEW i \in DOMAIN batch', Finished(batch'[i]), batch'[i].key.at \in ZeroTimes'
        PROVE  cursor'.hist = 0 /\ \A j \in DOMAIN batch' : batch'[j].hist = 0
    <3>1. i \in DOMAIN batch /\ cursor.hist = 0 /\ \A j \in DOMAIN batch : batch[j].hist = 0
      BY <1>3, <2>1, <2>2, <2>3
    <3>2. CASE cursor' \in {cursor, NoCursor}
      BY <2>1, <3>1, <3>2, NoCursorFacts
    <3>3. CASE pc = "down"
      BY <3>1, <3>3, NoEventsEmpty DEF BatchOrdered
    <3>4. CASE \E k \in DOMAIN batch : cursor' = advanceCheckpoint(cursor, batch[k])
      <4>1. PICK k \in DOMAIN batch : cursor' = advanceCheckpoint(cursor, batch[k])
        BY <3>4
      <4>2. cursor'.hist = cursor.hist \/ cursor'.hist = batch[k].hist
        BY <1>1, <4>1, AdvanceCursor
      <4> QED
        BY <2>1, <3>1, <4>1, <4>2
    <3> QED
      BY <3>2, <3>3, <3>4, CursorKinds
  <2>4. \A t \in ZeroTimes' : /\ t <= now'
                              /\ app'.phase = "Running" => t < app'.start
                              /\ t = app'.start => NewestId' = 0
    BY <1>2, <2>1, <2>2
  <2> QED
    BY <2>3, <2>4 DEF ZeroApart
<1> QED
  BY <1>4, <1>5, <1>6, StepKinds

-------------------------------------------------------------------------------
(* The evidence of a deployment. *)

\* More events are no less evidence.
LEMMA EvidenceGrows ==
    ASSUME NEW h, NEW es, NEW fs, es \subseteq fs
    PROVE  /\ RecordIn(h, es) => RecordIn(h, fs)
           /\ FinishIn(h, es) => FinishIn(h, fs)
           /\ Evidenced(h, es) => Evidenced(h, fs)
BY DEF RecordIn, FinishIn, Evidenced

\* The record of a deployment that is not the first carries its number.
LEMMA RecordNumber ==
    ASSUME NEW h \in HistoryEntry, h.id > 0, NEW e, Formed(e), e.id = deterministicHistoryID(h)
    PROVE  Recorded(e) /\ e.hist = h.id
BY DEF deterministicHistoryID, EventId, Formed

\* Out of the loop all evidence is in the repository.
LEMMA IdleEvents ==
    ASSUME BatchOrdered, pc # "loop"
    PROVE  Events = stored /\ DOMAIN batch = {}
BY NoEventsEmpty DEF BatchOrdered, Events, BatchSet

\* The finish that the loop drops is in the repository already, or no deployment with a
\* number can be at stake.
LEMMA DroppedFinish ==
    ASSUME TypeOK, EventsFormed, FinishAgrees, ZeroApart, Backed(cursor),
           NEW i \in DOMAIN batch, Finished(batch[i]),
           ~shouldProcess(batch[i], cursor) \/ Conflicts(batch[i])
    PROVE  \/ \E s \in stored : /\ Finished(s) /\ s.data.rev = batch[i].data.rev
                                /\ s.key.at = batch[i].key.at /\ s.at = batch[i].at
           \/ cursor.hist = 0 /\ \A j \in DOMAIN batch : batch[j].hist = 0
PROOF
<1> DEFINE e == batch[i]
<1>1. /\ e \in Events /\ Formed(e) /\ Finished(e) /\ stored \subseteq Events
      /\ \A s \in stored : Formed(s)
  BY Fields DEF EventsFormed
<1>2. /\ e.hist = 0 /\ ~Recorded(e) /\ e.type = "argo.sync.finished"
      /\ e.key = Key(0, e.data.rev, e.key.at) /\ e.data.rev # NoRev
      /\ e.id = EventId("finish", 0, e.data.rev, e.key.at)
  BY <1>1 DEF Formed, Finished, Recorded
<1>3. ASSUME NEW s \in stored, Finished(s), s.data.rev = e.data.rev, s.key.at = e.key.at
      PROVE  s.at = e.at
  BY <1>1, <1>3 DEF FinishAgrees
<1>4. CASE Conflicts(e)
  <2>1. PICK s \in stored : s.id = e.id
    BY <1>4 DEF Conflicts
  <2>2. Formed(s) /\ s.id.kind = "finish"
    BY <1>1, <1>2, <2>1 DEF EventId
  <2>3. Finished(s) /\ s.id = EventId("finish", 0, s.data.rev, s.key.at)
    BY <2>2 DEF Formed
  <2>4. s.data.rev = e.data.rev /\ s.key.at = e.key.at
    BY <1>2, <2>1, <2>3 DEF EventId
  <2> QED
    BY <1>3, <2>3, <2>4
<1>5. CASE ~shouldProcess(e, cursor)
  <2>1. e.key # NoKey
    BY <1>2 DEF Key, NoKey
  <2>2. e.key = cursor.termKey
    BY <1>2, <1>5, <2>1 DEF shouldProcess, historyCursorShouldProcess
  <2>3. PICK s \in stored : (Recorded(s) \/ Finished(s)) /\ s.key = e.key
    BY <2>1, <2>2 DEF Backed
  <2>4. Formed(s) /\ s.key.n = 0 /\ s.key.rev = e.data.rev /\ s.key.at = e.key.at
    BY <1>1, <1>2, <2>3 DEF Key
  <2>5. CASE Finished(s)
    <3>1. s.key = Key(0, s.data.rev, s.key.at)
      BY <2>4, <2>5 DEF Formed
    <3>2. s.data.rev = e.data.rev
      BY <2>4, <3>1 DEF Key
    <3> QED
      BY <1>3, <2>4, <2>5, <3>2
  <2>6. CASE Recorded(s)
    <3>1. s.hist = 0 /\ s.at = e.key.at /\ s \in Events
      BY <1>1, <2>4, <2>6 DEF Formed
    <3>2. e.key.at \in ZeroTimes
      BY <2>6, <3>1, ZeroTimesMembers
    <3> QED
      BY <1>1, <3>2 DEF ZeroApart
  <2> QED
    BY <2>3, <2>5, <2>6
<1> QED
  BY <1>4, <1>5

\* A step of the loop that succeeds keeps the evidence of a deployment.
LEMMA LoopKeeps ==
    ASSUME TypeOK, EventsFormed, BatchOrdered, FinishAgrees, ZeroApart, Backed(cursor),
           NEW CONSTANT h \in HistoryEntry, h.id > 0, Kept(h),
           NEW i \in DOMAIN batch, Loop(i)
    PROVE  Kept(h)'
PROOF
<1> DEFINE e == batch[i]
<1>1. /\ Due(i) /\ batch' = Rest(i) /\ file' = file /\ stored \subseteq stored'
      /\ DOMAIN batch' = DOMAIN batch \ {i} /\ \A j \in DOMAIN batch' : batch'[j] = batch[j]
  BY LoopStep DEF Rest
<1>2. /\ cursor \in Cursors /\ cursor.hist \in Nat /\ h.id \in Nat
      /\ e \in Events /\ e \in SourceEvents /\ e.hist \in Nat
      /\ \A j \in DOMAIN batch : batch[j] \in Events /\ batch[j].hist \in Nat
      /\ \A x \in Events : Formed(x)
  BY Fields DEF EventsFormed, HistoryEntry
<1>3. /\ h.id <= cursor.hist => RecordIn(h, stored) \/ FinishIn(h, Events)
      /\ (\E j \in DOMAIN batch : h.id <= batch[j].hist) => Evidenced(h, Events)
      /\ file.state = "ok" /\ h.id <= file.cursor.hist => Evidenced(h, stored)
  BY DEF Kept
<1>4. /\ stored' \subseteq Events' /\ stored \subseteq Events'
      /\ \A x \in Events : x \in Events' \/ x = e
  BY <1>1 DEF Events, BatchSet
<1>5. file'.state = "ok" /\ h.id <= file'.cursor.hist => Evidenced(h, stored')
  BY <1>1, <1>3, EvidenceGrows
<1>6. ASSUME NEW j \in DOMAIN batch', h.id <= batch'[j].hist
      PROVE  Evidenced(h, Events) /\ j \in DOMAIN batch /\ h.id <= batch[j].hist /\ batch[j].hist # 0
  <2>1. j \in DOMAIN batch /\ h.id <= batch[j].hist
    BY <1>1, <1>6
  <2> QED
    BY <1>2, <1>3, <2>1
<1>7. CASE Collect(i)
  <2>1. cursor' = advanceCheckpoint(cursor, e) /\ e \in stored'
    BY <1>7 DEF Collect
  <2>2. Events \subseteq Events'
    BY <1>4, <2>1
  <2>3. cursor'.hist = cursor.hist \/ (cursor'.hist = e.hist /\ Recorded(e))
    BY <1>2, <2>1, AdvanceCursor
  <2>4. ASSUME h.id <= e.hist
        PROVE  RecordIn(h, stored') \/ FinishIn(h, Events')
    <3>1. Evidenced(h, Events)
      BY <1>3, <2>4
    <3>2. CASE FinishIn(h, Events)
      BY <2>2, <3>2, EvidenceGrows
    <3>3. CASE RecordIn(h, Events)
      <4>1. PICK x \in Events : Recorded(x) /\ x.id = deterministicHistoryID(h)
        BY <3>3 DEF RecordIn
      <4>2. x.hist = h.id
        BY <1>2, <4>1, RecordNumber
      <4>3. x \in stored'
        <5>1. CASE x \in stored
          BY <1>1, <5>1
        <5>2. CASE x \in BatchSet
          <6>1. PICK j \in DOMAIN batch : x = batch[j]
            BY <5>2 DEF BatchSet
          <6>2. i \in Nat /\ j \in Nat /\ i <= j
            BY <1>1, <6>1, ArgoAppAssumption DEF Due, TypeOK
          <6>3. ~(i < j)
            <7>1. i < j => e.hist < x.hist
              BY <4>1, <6>1 DEF BatchOrdered
            <7> QED
              BY <1>2, <2>4, <4>2, <7>1
          <6>4. i = j
            BY <6>2, <6>3
          <6> QED
            BY <2>1, <6>1, <6>4
        <5> QED
          BY <4>1, <5>1, <5>2 DEF Events
      <4> QED
        BY <4>1, <4>3 DEF RecordIn
    <3> QED
      BY <3>1, <3>2, <3>3 DEF Evidenced
  <2>5. h.id <= cursor'.hist => RecordIn(h, stored') \/ FinishIn(h, Events')
    BY <1>1, <1>3, <2>2, <2>3, <2>4, EvidenceGrows
  <2>6. (\E j \in DOMAIN batch' : h.id <= batch'[j].hist) => Evidenced(h, Events')
    BY <1>6, <2>2, EvidenceGrows
  <2> QED
    BY <1>5, <2>5, <2>6 DEF Kept
<1>8. CASE Skip(i) \/ IngestConflict(i)
  <2>1. cursor' = cursor /\ stored' = stored /\ (~shouldProcess(e, cursor) \/ Conflicts(e))
    BY <1>8 DEF Skip, IngestConflict
  <2>2. FinishIn(h, Events) => \/ FinishIn(h, Events')
                               \/ cursor.hist = 0 /\ \A j \in DOMAIN batch : batch[j].hist = 0
    <3> SUFFICES ASSUME FinishIn(h, Events)
                 PROVE  \/ FinishIn(h, Events')
                        \/ cursor.hist = 0 /\ \A j \in DOMAIN batch : batch[j].hist = 0
      OBVIOUS
    <3>1. PICK x \in Events : Finished(x) /\ sameRevisionWindow(h.rev, h.at, x.data.rev, x.key.at, x.at)
      BY DEF FinishIn
    <3>2. CASE x \in Events'
      BY <3>1, <3>2 DEF FinishIn
    <3>3. CASE x = e
      <4>1. \/ \E s \in stored : /\ Finished(s) /\ s.data.rev = e.data.rev
                                 /\ s.key.at = e.key.at /\ s.at = e.at
            \/ cursor.hist = 0 /\ \A j \in DOMAIN batch : batch[j].hist = 0
        BY <2>1, <3>1, <3>3, DroppedFinish
      <4>2. (\E s \in stored : /\ Finished(s) /\ s.data.rev = e.data.rev
                               /\ s.key.at = e.key.at /\ s.at = e.at) => FinishIn(h, Events')
        BY <1>4, <3>1, <3>3 DEF FinishIn
      <4> QED
        BY <4>1, <4>2
    <3> QED
      BY <1>4, <3>1, <3>2, <3>3
  <2>3. h.id <= cursor'.hist => RecordIn(h, stored') \/ FinishIn(h, Events')
    BY <1>2, <1>3, <2>1, <2>2
  <2>4. ASSUME NEW j \in DOMAIN batch', h.id <= batch'[j].hist
        PROVE  Evidenced(h, Events')
    <3>1. Evidenced(h, Events) /\ j \in DOMAIN batch /\ batch[j].hist # 0
      BY <1>6, <2>4
    <3>2. FinishIn(h, Events) => FinishIn(h, Events')
      BY <2>2, <3>1
    <3>3. RecordIn(h, Events) => RecordIn(h, Events') \/ FinishIn(h, Events')
      <4> SUFFICES ASSUME RecordIn(h, Events)
                   PROVE  RecordIn(h, Events') \/ FinishIn(h, Events')
        OBVIOUS
      <4>1. PICK x \in Events : Recorded(x) /\ x.id = deterministicHistoryID(h)
        BY DEF RecordIn
      <4>2. CASE x \in Events'
        BY <4>1, <4>2 DEF RecordIn
      <4>3. CASE x = e /\ ~shouldProcess(e, cursor)
        <5>1. e.hist = h.id /\ e.type = "argo.deployment.recorded"
          BY <1>2, <4>1, <4>3, RecordNumber DEF Recorded
        <5>2. ~(e.hist > cursor.hist)
          BY <4>3, <5>1 DEF shouldProcess, historyCursorShouldProcess
        <5>3. h.id <= cursor.hist
          BY <1>2, <5>1, <5>2
        <5>4. RecordIn(h, stored) \/ FinishIn(h, Events)
          BY <1>3, <5>3
        <5> QED
          BY <1>4, <3>2, <5>4, EvidenceGrows
      <4>4. CASE x = e /\ Conflicts(e)
        <5>1. PICK s \in stored : s.id = e.id
          BY <4>4 DEF Conflicts
        <5>2. s \in Events /\ Formed(s) /\ s.id = deterministicHistoryID(h)
          BY <1>2, <4>1, <4>4, <5>1 DEF Events
        <5>3. Recorded(s)
          BY <5>2, RecordNumber
        <5> QED
          BY <1>4, <5>2, <5>3 DEF RecordIn
      <4> QED
        BY <1>4, <2>1, <4>1, <4>2, <4>3, <4>4
    <3> QED
      BY <3>1, <3>2, <3>3 DEF Evidenced
  <2> QED
    BY <1>5, <2>3, <2>4 DEF Kept
<1> QED
  BY <1>7, <1>8 DEF Loop

\* Every step keeps the evidence of the deployments, as long as nothing fails.
LEMMA EvidenceStep ==
    ASSUME TypeOK, EventsFormed, BatchOrdered, HistoryOrdered, WithinHistory, FinishAgrees, ZeroApart,
           EvidenceKept, CursorBacked, Next
    PROVE  EvidenceKept'
PROOF
<1> SUFFICES ASSUME faults' = 0, NEW CONSTANT k \in DOMAIN app'.hist, app'.hist[k].id > 0
             PROVE  Kept(app.hist[k])'
  BY DEF EvidenceKept
<1> PICK h : h = app'.hist[k]
  OBVIOUS
<1> SUFFICES Kept(h)'
  BY DEF Kept
<1>1. /\ AppType /\ Backed(cursor) /\ cursor.hist \in Nat /\ file.cursor.hist \in Nat /\ faults \in Nat
      /\ \A e \in Events : e.hist \in Nat
      /\ \A j \in DOMAIN batch : batch[j] \in Events
      /\ NewestId \in Nat /\ \A j \in DOMAIN app.hist : app.hist[j] \in HistoryEntry
  BY Fields, AppFields, NewestIdBounds DEF CursorBacked
<1>2. faults = 0 /\ ~SaveFails /\ ~\E i \in DOMAIN batch : IngestFails(i)
  <2>1. Fault => faults' # 0
    BY <1>1 DEF Fault
  <2>2. ~SaveFails /\ ~\E i \in DOMAIN batch : IngestFails(i)
    BY <2>1 DEF SaveFails, IngestFails
  <2>3. faults' = faults
    BY <2>2 DEF Next, Argo, Collector, Start, Fetch, TruncateFile, WriteFile, Loop, Skip, Collect, IngestConflict, Crash
  <2> QED
    BY <2>2, <2>3
<1>3. CASE Argo
  <2>1. UNCHANGED <<cursor, file, batch, stored>> /\ Events' = Events
    BY <1>3 DEF Argo, Events, BatchSet
  <2>2. CASE \E j \in DOMAIN app.hist : h = app.hist[j]
    <3>1. Kept(h)
      BY <1>2, <2>2 DEF EvidenceKept
    <3> QED
      BY <2>1, <3>1 DEF Kept
  <2>3. CASE Deployed /\ h.id = NextHistoryId
    <3>1. now' = now + 1
      BY <1>1, <1>3, AppStep DEF Argo
    <3>2. (NextHistoryId = 0 /\ NewestId = 0) \/ NextHistoryId = NewestId + 1
      BY <1>1, <2>3, <3>1, DeployedStep
    <3>3. h.id = NewestId + 1
      BY <2>3, <3>2
    <3>4. ~(h.id <= cursor.hist) /\ ~(h.id <= file.cursor.hist) /\ \A e \in Events : ~(h.id <= e.hist)
      BY <1>1, <3>3 DEF WithinHistory
    <3> QED
      BY <1>1, <2>1, <3>4 DEF Kept
  <2>4. now' = now + 1 /\ (Unmoved \/ Started \/ Failed \/ Deployed)
    BY <1>1, <1>3, AppStep DEF Argo
  <2>5. CASE Unmoved \/ Started \/ Failed
    BY <2>2, <2>5 DEF Unmoved, Started, Failed
  <2>6. CASE Deployed
    BY <1>1, <2>2, <2>3, <2>4, <2>6, DeployedStep
  <2> QED
    BY <2>4, <2>5, <2>6
<1>4. CASE ~Argo
  <2>1. app' = app
    BY <1>4, StepKinds DEF Fetch, Shrinks
  <2>2. k \in DOMAIN app.hist /\ h = app.hist[k] /\ h \in HistoryEntry /\ h.id > 0 /\ h.id \in Nat
    BY <1>1, <2>1 DEF HistoryEntry
  <2>3. Kept(h)
    BY <1>2, <2>2 DEF EvidenceKept
  <2>4. CASE \E i \in DOMAIN batch : Loop(i)
    BY <1>1, <2>2, <2>3, <2>4, LoopKeeps
  <2>5. CASE Fetch
    <3>1. /\ pc = "idle" /\ batch' = toSourceEvents(app) /\ UNCHANGED <<cursor, file, stored>>
      BY <2>5 DEF Fetch
    <3>2. Events = stored
      BY <3>1, IdleEvents
    <3>3. Events \subseteq Events' /\ BatchSet' \subseteq Events'
      BY <3>1, <3>2 DEF Events, BatchSet
    <3>4. Evidenced(h, BatchSet')
      <4> DEFINE B == toSourceEvents(app)
      <4>1. \E j \in DOMAIN B :
                \/ Recorded(B[j]) /\ B[j].id = deterministicHistoryID(h)
                \/ Finished(B[j]) /\ sameRevisionWindow(h.rev, h.at, B[j].data.rev, B[j].key.at, B[j].at)
        BY <1>1, <2>2, SnapshotEvidence
      <4>2. BatchSet' = {B[j] : j \in DOMAIN B}
        BY <3>1 DEF BatchSet
      <4> HIDE DEF B
      <4> QED
        BY <4>1, <4>2 DEF Evidenced, RecordIn, FinishIn
    <3>5. Evidenced(h, Events')
      BY <3>3, <3>4, EvidenceGrows
    <3>6. h.id <= cursor'.hist => RecordIn(h, stored') \/ FinishIn(h, Events')
      BY <2>3, <3>1, <3>3, EvidenceGrows DEF Kept
    <3>7. file'.state = "ok" /\ h.id <= file'.cursor.hist => Evidenced(h, stored')
      BY <2>3, <3>1 DEF Kept
    <3> QED
      BY <3>5, <3>6, <3>7 DEF Kept
  <2>6. CASE Start
    <3>1. pc = "down" /\ cursor' = loadCheckpoint /\ UNCHANGED <<file, batch, stored>> /\ Events' = Events
      BY <2>6 DEF Start, Events, BatchSet
    <3>2. Events = stored
      BY <3>1, IdleEvents
    <3>3. h.id <= cursor'.hist => RecordIn(h, stored') \/ FinishIn(h, Events')
      <4>1. CASE file.state = "ok"
        BY <2>3, <3>1, <3>2, <4>1 DEF Kept, Evidenced, loadCheckpoint
      <4>2. CASE file.state # "ok"
        BY <2>2, <3>1, <4>2, NoCursorFacts DEF loadCheckpoint
      <4> QED
        BY <4>1, <4>2
    <3> QED
      BY <2>3, <3>1, <3>3 DEF Kept
  <2>7. CASE TruncateFile
    <3>1. file' = Torn /\ UNCHANGED <<cursor, batch, stored>> /\ Events' = Events
      BY <2>7 DEF TruncateFile, Events, BatchSet
    <3>2. file'.state # "ok"
      BY <3>1 DEF Torn
    <3> QED
      BY <2>3, <3>1, <3>2 DEF Kept
  <2>8. CASE WriteFile
    <3>1. pc = "saving" /\ file' = Saved(cursor) /\ UNCHANGED <<cursor, batch, stored>> /\ Events' = Events
      BY <2>8 DEF WriteFile, Events, BatchSet
    <3>2. file'.cursor = cursor /\ Events = stored
      BY <3>1, IdleEvents DEF Saved
    <3>3. h.id <= file'.cursor.hist => Evidenced(h, stored')
      BY <2>3, <3>1, <3>2 DEF Kept, Evidenced
    <3> QED
      BY <2>3, <3>1, <3>3 DEF Kept
  <2>9. CASE Crash
    <3>1. cursor'.hist = 0 /\ DOMAIN batch' = {} /\ UNCHANGED <<file, stored>>
      BY <2>9, NoCursorFacts, NoEventsEmpty DEF Crash
    <3> QED
      BY <2>2, <2>3, <3>1 DEF Kept
  <2> QED
    BY <1>2, <1>4, <2>4, <2>5, <2>6, <2>7, <2>8, <2>9 DEF Next, Collector
<1> QED
  BY <1>3, <1>4

-------------------------------------------------------------------------------
(* The checkpoint. *)

\* Every step keeps both cursors backed by the repository.
LEMMA BackedStep ==
    ASSUME TypeOK, EventsFormed, CursorBacked, Next
    PROVE  CursorBacked'
PROOF
<1> PICK c : c = cursor
  OBVIOUS
<1> PICK f : f = file.cursor
  OBVIOUS
<1>1. /\ c \in Cursors /\ Backed(c) /\ (file.state = "ok" => Backed(f))
      /\ \A i \in DOMAIN batch : batch[i] \in SourceEvents /\ Formed(batch[i])
  BY Fields DEF CursorBacked, EventsFormed
<1>2. stored \subseteq stored'
  BY StepKinds DEF Argo, Fetch, Shrinks
<1>3. Backed(c)' /\ (file.state = "ok" => Backed(f)')
  BY <1>1, <1>2, BackedStays
<1>4. PICK d : d = cursor'
  OBVIOUS
<1>5. PICK g : g = file'.cursor
  OBVIOUS
<1>6. Backed(d)'
  <2>1. CASE d \in {c, NoCursor} \/ (file.state = "ok" /\ d = f)
    <3>1. Backed(NoCursor)'
      BY NoCursorFacts
    <3> QED
      BY <1>3, <2>1, <3>1 DEF Backed
  <2>2. CASE \E i \in DOMAIN batch : batch[i] \in stored' /\ cursor' = advanceCheckpoint(cursor, batch[i])
    <3>1. PICK i \in DOMAIN batch : batch[i] \in stored' /\ cursor' = advanceCheckpoint(cursor, batch[i])
      BY <2>2
    <3>2. PICK e : e = batch[i]
      OBVIOUS
    <3>3. e \in stored' /\ d = advanceCheckpoint(c, e) /\ e \in SourceEvents /\ Formed(e)
      BY <1>1, <1>4, <3>1, <3>2
    <3>4. Backed(advanceCheckpoint(c, e))'
      BY <1>1, <1>2, <3>3, AdvanceBacked
    <3> QED
      BY <3>3, <3>4 DEF Backed
  <2> QED
    BY <1>4, <2>1, <2>2, CursorKinds
<1>7. file'.state = "ok" => Backed(g)'
  <2>1. \/ file'.state # "ok"
        \/ file.state = "ok" /\ g = f
        \/ g = c
    BY <1>5, CursorKinds DEF Torn, Saved
  <2> QED
    BY <1>3, <2>1 DEF Backed
<1>8. Backed(cursor)' /\ (file'.state = "ok" => Backed(file.cursor)')
  BY <1>4, <1>5, <1>6, <1>7 DEF Backed
<1> QED
  BY <1>8 DEF CursorBacked

-------------------------------------------------------------------------------
(* The theorems. *)

\* The initial states satisfy the invariant: nothing is stored yet.
LEMMA InitIInv == Init => IInv
PROOF
<1> USE ArgoPollAssumption
<1> SUFFICES ASSUME Init PROVE IInv
  OBVIOUS
<1>1. /\ AppType /\ HistoryOrdered /\ now = 1 /\ app.phase # "Running"
      /\ \A i \in DOMAIN app.hist : app.hist[i].at = 1 /\ (app.hist[i].id = 0 => NewestId = 0)
  BY InitAppFacts DEF Init
<1>2. /\ cursor = NoCursor /\ file = Absent /\ pc = "down" /\ batch = NoEvents /\ stored = {}
      /\ faults = 0 /\ crashes = 0
  BY DEF Init
<1>3. DOMAIN batch = {} /\ Events = {}
  BY <1>2, NoEventsEmpty DEF Events, BatchSet
<1>4. file.state = "absent" /\ file.cursor = NoCursor
  BY <1>2 DEF Absent
<1>5. TypeOK
  <2>1. file \in [state : {"absent", "torn", "ok"}, cursor : Cursors]
    BY <1>2, NoCursorFacts DEF Absent
  <2>2. batch \in [DOMAIN batch -> SourceEvents] /\ DOMAIN batch \subseteq 1..(HistoryLimit + 2)
    BY <1>2, <1>3, NoEventsEmpty
  <2>3. faults \in 0..MaxFaults /\ crashes \in 0..MaxCrashes /\ cursor \in Cursors
    BY <1>2, NoCursorFacts
  <2> QED
    BY <1>1, <1>2, <2>1, <2>2, <2>3 DEF TypeOK, CheckpointType
<1>6. EventsFormed /\ BatchOrdered /\ FinishAgrees
  BY <1>2, <1>3 DEF EventsFormed, BatchOrdered, FinishAgrees
<1>7. WithinHistory
  <2>1. NewestId \in Nat
    BY <1>1, NewestIdBounds
  <2> QED
    BY <1>2, <1>3, <1>4, <2>1, NoCursorFacts DEF WithinHistory
<1>8. ZeroApart
  <2>1. \A t \in ZeroTimes : t = 1 /\ NewestId = 0
    BY <1>1, <1>3, ZeroTimesMembers
  <2> QED
    BY <1>1, <1>3, <2>1 DEF ZeroApart
<1>9. EvidenceKept
  <2> SUFFICES ASSUME NEW i \in DOMAIN app.hist, app.hist[i].id > 0
               PROVE  Kept(app.hist[i])
    BY DEF EvidenceKept
  <2>1. app.hist[i].id \in Nat
    BY <1>1, AppFields
  <2> QED
    BY <1>2, <1>3, <1>4, <2>1, NoCursorFacts DEF Kept
<1>10. CursorBacked
  BY <1>2, <1>4, NoCursorFacts DEF CursorBacked
<1> QED
  BY <1>1, <1>5, <1>6, <1>7, <1>8, <1>9, <1>10 DEF IInv

\* Every step keeps the invariant.
LEMMA NextIInv == IInv /\ [Next]_vars => IInv'
PROOF
<1> SUFFICES ASSUME IInv, [Next]_vars PROVE IInv'
  OBVIOUS
<1>1. CASE Next
  <2>1. /\ TypeOK /\ EventsFormed /\ BatchOrdered /\ HistoryOrdered /\ WithinHistory
        /\ FinishAgrees /\ ZeroApart /\ EvidenceKept /\ CursorBacked
    BY DEF IInv
  <2>2. TypeOK' /\ EventsFormed'
    BY <1>1, <2>1, TypeStep, FormedStep
  <2>3. HistoryOrdered' /\ BatchOrdered' /\ WithinHistory'
    BY <1>1, <2>1, HistoryStep, BatchStep, WithinStep
  <2>4. FinishAgrees' /\ ZeroApart'
    BY <1>1, <2>1, FinishStep, ZeroStep
  <2>5. EvidenceKept' /\ CursorBacked'
    BY <1>1, <2>1, EvidenceStep, BackedStep
  <2> QED
    BY <2>2, <2>3, <2>4, <2>5 DEF IInv
<1>2. CASE UNCHANGED vars
  <2>1. UNCHANGED <<app, now, cursor, file, pc, batch, stored, faults, crashes>>
    BY <1>2 DEF vars
  <2>2. BatchSet' = BatchSet /\ Events' = Events /\ NewestId' = NewestId /\ ZeroTimes' = ZeroTimes
    BY <2>1 DEF BatchSet, Events, NewestId, ZeroTimes
  <2>3. TypeOK' /\ EventsFormed' /\ BatchOrdered'
    BY <2>1, <2>2 DEF IInv, TypeOK, AppType, CheckpointType, EventsFormed, BatchOrdered
  <2>4. HistoryOrdered' /\ WithinHistory' /\ FinishAgrees' /\ ZeroApart'
    BY <2>1, <2>2 DEF IInv, HistoryOrdered, WithinHistory, FinishAgrees, ZeroApart
  <2>5. EvidenceKept' /\ CursorBacked'
    BY <2>1, <2>2 DEF IInv, EvidenceKept, Kept, CursorBacked, Backed
  <2> QED
    BY <2>3, <2>4, <2>5 DEF IInv
<1> QED
  BY <1>1, <1>2

\* The state of the polling collector is always of its type: whatever fails, the batch has
\* well-formed source events at the places of a snapshot (collector.go startPollingFallback).
THEOREM PollTypeOK == Spec => []TypeOK
PROOF
<1>1. IInv => TypeOK
  BY DEF IInv
<1> QED
  BY <1>1, InitIInv, NextIInv, PTL DEF Spec

\* Neither the cursor in memory nor the one that a restart would load names an event that
\* the repository does not have (collector.go 147-159: ingest, advance, save).
THEOREM PollCursorBacked == Spec => []CursorBacked
PROOF
<1>1. IInv => CursorBacked
  BY DEF IInv
<1> QED
  BY <1>1, InitIInv, NextIInv, PTL DEF Spec

\* As long as no call fails, no deployment of the history falls behind the history cursor
\* without evidence (collector.go historyCursorShouldProcess, toSourceEvents), for any
\* jitter, length of the history and number of crashes.
THEOREM HistoryKept == Spec => []HistoryNotOvertaken
PROOF
<1>1. IInv => HistoryNotOvertaken
  <2> SUFFICES ASSUME IInv, faults = 0, NEW i \in DOMAIN app.hist, 0 < app.hist[i].id,
                      app.hist[i].id <= cursor.hist
               PROVE  Evidenced(app.hist[i], stored \cup BatchSet)
    BY DEF HistoryNotOvertaken, NotOvertaken
  <2>1. app.hist[i].id \in Nat /\ stored \subseteq Events
    BY AppFields, Fields DEF IInv, TypeOK
  <2>2. Kept(app.hist[i])
    BY <2>1 DEF IInv, EvidenceKept
  <2>3. RecordIn(app.hist[i], stored) \/ FinishIn(app.hist[i], Events)
    BY <2>2 DEF Kept
  <2>4. Evidenced(app.hist[i], Events)
    BY <2>1, <2>3, EvidenceGrows DEF Evidenced
  <2> QED
    BY <2>4 DEF Events
<1> QED
  BY <1>1, InitIInv, NextIInv, PTL DEF Spec

\* A deployment with a number that this process has handled.
StaysHandled ==
    pc # "down" /\ pc' # "down" =>
        \A f \in SourceEvents : Recorded(f) /\ f.hist > 0 /\ ~shouldProcess(f, cursor) => ~shouldProcess(f, cursor')

\* From a start to the next crash a deployment that the cursor has passed is not wanted
\* again, whatever else is collected, refused or fails (collector.go updateHistoryCursor).
THEOREM DeploymentsStayHandled == Spec => [][StaysHandled]_vars
PROOF
<1>1. IInv /\ [Next]_vars => [StaysHandled]_vars
  <2> SUFFICES ASSUME IInv, Next, pc # "down", pc' # "down",
                      NEW f \in SourceEvents, Recorded(f), f.hist > 0, ~shouldProcess(f, cursor)
               PROVE  ~shouldProcess(f, cursor')
    BY DEF StaysHandled
  <2>1. /\ cursor \in Cursors
        /\ \A i \in DOMAIN batch : batch[i] \in SourceEvents /\ Formed(batch[i])
    BY Fields DEF IInv, EventsFormed
  <2>2. CASE \E i \in DOMAIN batch : cursor' = advanceCheckpoint(cursor, batch[i])
    BY <2>1, <2>2, NeverReopened
  <2>3. CASE ~\E i \in DOMAIN batch : Loop(i) \/ IngestFails(i)
    <3>1. cursor' = cursor
      BY <2>3 DEF Next, Collector, Argo, Start, Fetch, TruncateFile, WriteFile, SaveFails, Crash
    <3> QED
      BY <3>1
  <2>4. CASE \E i \in DOMAIN batch : Loop(i) \/ IngestFails(i)
    BY <2>2, <2>4, LoopStep
  <2> QED
    BY <2>3, <2>4
<1> QED
  BY <1>1, InitIInv, NextIInv, PTL DEF Spec
===============================================================================
