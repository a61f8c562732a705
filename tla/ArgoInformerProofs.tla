-------------------------- MODULE ArgoInformerProofs --------------------------
(***************************************************************************)
(* The informer for any history, any number of failures and outages: the   *)
(* checkpoint is backed by the repository, and a deployment is recorded    *)
(* twice only for what is counted.                                         *)
(***************************************************************************)
EXTENDS ArgoInformer, FiniteSetTheorems, SequenceTheorems, TLAPS

-------------------------------------------------------------------------------
(* Argo CD. *)

Last(a) == a.hist[Len(a.hist)]

\* The last of a history that is not empty.
LEMMA LastEntry ==
    ASSUME NEW a \in Apps, a.hist # <<>>
    PROVE  Last(a) \in HistoryEntry /\ Last(a).id \in Nat /\ Last(a).at \in Times
PROOF
<1>1. a.hist \in Seq(HistoryEntry)
  BY DEF Apps
<1>2. Len(a.hist) \in 1..Len(a.hist)
  BY <1>1
<1>3. Last(a) \in HistoryEntry
  BY <1>1, <1>2 DEF Last
<1> QED
  BY <1>3 DEF HistoryEntry

\* A sync that succeeds is the last entry of the history, whatever the limit cuts off.
LEMMA TrimmedAppend ==
    ASSUME NEW h \in Seq(HistoryEntry), Len(h) <= HistoryLimit, NEW x \in HistoryEntry
    PROVE  LET t == Trimmed(Append(h, x))
           IN  /\ t \in Seq(HistoryEntry) /\ Len(t) <= HistoryLimit
               /\ t # <<>> /\ t[Len(t)] = x
PROOF
<1> USE ArgoAppAssumption
<1> DEFINE g == Append(h, x)
<1>1. /\ g \in Seq(HistoryEntry) /\ Len(g) = Len(h) + 1 /\ g[Len(h) + 1] = x
      /\ Len(h) \in Nat /\ HistoryLimit \in Nat \ {0}
  OBVIOUS
<1> HIDE DEF g
<1>2. CASE Len(g) > HistoryLimit
  <2>1. Len(h) >= 1
    BY <1>1, <1>2
  <2>2. Tail(g) \in Seq(HistoryEntry) /\ Len(Tail(g)) = Len(h) /\ Tail(g)[Len(h)] = x
    BY <1>1, <2>1
  <2>3. Tail(g) # <<>>
    BY <2>1, <2>2
  <2> QED
    BY <1>2, <2>2, <2>3 DEF Trimmed, g
<1>3. CASE ~(Len(g) > HistoryLimit)
  <2>1. g # <<>> /\ Len(g) <= HistoryLimit /\ g[Len(g)] = x
    BY <1>1, <1>3
  <2> QED
    BY <1>1, <1>3, <2>1 DEF Trimmed, g
<1> QED
  BY <1>2, <1>3

\* A change of the application writes its status and appends at most one deployment.
LEMMA AppStep ==
    ASSUME AppType, AppNext
    PROVE  /\ AppType' /\ app'.phase # "NoStatus"
           /\ \/ app'.hist = app.hist
              \/ app'.hist # <<>> /\ Last(app').id = NextHistoryId
PROOF
<1> USE ArgoAppAssumption
<1>1. /\ app \in Apps /\ app.hist \in Seq(HistoryEntry) /\ Len(app.hist) <= HistoryLimit
      /\ app.phase # "NoStatus" => app.rev \in Revs
      /\ app.phase = "Running" => app.oprev \in Revs
      /\ now \in Times /\ MaxTime \in Nat /\ NoRev \notin Revs
  BY DEF AppType, Apps
<1>2. Tick => now' \in Times
  BY <1>1 DEF Tick, Times
<1>3. ASSUME NEW r \in Revs, Refresh(r)
      PROVE  AppType' /\ app'.phase # "NoStatus" /\ app'.hist = app.hist
  BY <1>1, <1>2, <1>3 DEF Refresh, Apps, AppType, PhaseNames, NoOperation, Terminal
<1>4. ASSUME NEW b \in Actors, StartSync(b)
      PROVE  AppType' /\ app'.phase # "NoStatus" /\ app'.hist = app.hist
  <2>1. 0 \in Times
    BY DEF Times
  <2> QED
    BY <1>1, <1>2, <1>4, <2>1 DEF StartSync, Apps, AppType, PhaseNames, NoOperation, Terminal
<1>5. CASE FailSync
  BY <1>1, <1>2, <1>5 DEF FailSync, Apps, AppType, PhaseNames, NoOperation, Terminal
<1>6. ASSUME NEW h \in Healths, SetHealth(h)
      PROVE  AppType' /\ app'.phase # "NoStatus" /\ app'.hist = app.hist
  BY <1>1, <1>2, <1>6 DEF SetHealth, Apps, AppType
<1>7. CASE FinishSync
  <2> DEFINE x == [id |-> NextHistoryId, rev |-> app.oprev, at |-> now']
             t == Trimmed(Append(app.hist, x))
  <2>1. NextHistoryId \in Nat
    <3>1. app.hist # <<>> => Last(app).id \in Nat
      BY <1>1, LastEntry
    <3> QED
      BY <3>1 DEF NextHistoryId, Last
  <2>2. x \in HistoryEntry
    BY <2>1, <1>1, <1>2, <1>7 DEF FinishSync, HistoryEntry
  <2>3. t \in Seq(HistoryEntry) /\ Len(t) <= HistoryLimit /\ t # <<>> /\ t[Len(t)] = x
    BY <2>2, <1>1, TrimmedAppend
  <2>4. app' = [app EXCEPT !.phase = "Succeeded", !.finish = now', !.hist = t] /\ Tick
    BY <1>7 DEF FinishSync
  <2>5. x.id = NextHistoryId
    OBVIOUS
  <2> HIDE DEF t, x
  <2>6. app'.hist = t /\ app'.phase = "Succeeded" /\ app'.rev = app.rev /\ app.phase = "Running"
    BY <2>4, <1>1, <1>7 DEF Apps, FinishSync
  <2>7. app' \in Apps
    BY <2>3, <2>4, <1>1, <1>2 DEF Apps, PhaseNames, Terminal
  <2>8. AppType'
    BY <2>3, <2>4, <2>6, <2>7, <1>1, <1>2 DEF AppType
  <2>9. app'.phase # "NoStatus" /\ app'.hist # <<>> /\ Last(app').id = NextHistoryId
    BY <2>3, <2>5, <2>6 DEF Last
  <2> QED
    BY <2>8, <2>9
<1> QED
  BY <1>3, <1>4, <1>5, <1>6, <1>7 DEF AppNext

-------------------------------------------------------------------------------
(* Source events, the cursor and its backing. *)

\* A source event with a history id tells of the last deployment of its version.
LEMMA SourceEventTells ==
    ASSUME NEW a \in Apps, now \in Times
    PROVE  /\ sourceEvent(a) \in SourceEvents
           /\ sourceEvent(a).type = "argo.sync.finished"
           /\ sourceEvent(a).hist > 0 =>
                  /\ a.hist # <<>>
                  /\ sourceEvent(a).hist = Last(a).id /\ sourceEvent(a).at = Last(a).at
PROOF
<1> USE ArgoAppAssumption
<1> DEFINE has == a.hist # <<>>
           k == Key(0, IF a.rev # NoRev THEN a.rev ELSE IF has THEN Last(a).rev ELSE NoRev, 0)
           t == IF has THEN Last(a).at ELSE IF a.finish # 0 THEN a.finish ELSE now
           n == IF has THEN Last(a).id ELSE 0
<1>1. /\ a.rev \in Revs \cup {NoRev} /\ a.finish \in Times
      /\ a.health \in Healths \cup {NoHealth} /\ a.phase \in PhaseNames /\ 0 \in Times
  BY DEF Apps, Times
<1>2. has => Last(a) \in HistoryEntry /\ Last(a).rev \in Revs /\ Last(a).at \in Times /\ Last(a).id \in Nat
  BY LastEntry DEF HistoryEntry
<1>3. k \in Keys
  BY <1>1, <1>2 DEF Keys, Key
<1>4. t \in Times /\ n \in Nat
  BY <1>1, <1>2
<1>5. sourceEvent(a) = [type |-> "argo.sync.finished", hist |-> n, at |-> t, key |-> k,
                        health |-> a.health, phase |-> a.phase]
  BY DEF sourceEvent, Last
<1>6. n > 0 => has /\ n = Last(a).id /\ t = Last(a).at
  OBVIOUS
<1> HIDE DEF n, t, k, has
<1>7. sourceEvent(a) \in SourceEvents
  BY <1>1, <1>3, <1>4, <1>5 DEF SourceEvents
<1> QED
  BY <1>5, <1>6, <1>7 DEF has

\* A cursor and a checkpoint file that start a collector are typed.
LEMMA CursorTyped ==
    /\ NoKey \in Keys /\ NoCursor \in Cursors /\ NoEvent \in SourceEvents
    /\ 0 \in Times
PROOF
<1> USE ArgoAppAssumption
<1>1. NoKey \in Keys /\ 0 \in Times
  BY DEF NoKey, Key, Keys, Times
<1> QED
  BY <1>1 DEF NoCursor, Cursors, NoEvent, SourceEvents, PhaseNames, NoOperation

\* What an advance makes of a cursor.
LEMMA AdvanceCursor ==
    ASSUME NEW c \in Cursors, NEW e \in SourceEvents, e.type = "argo.sync.finished"
    PROVE  LET d == advanceCheckpoint(c, e)
           IN  /\ d \in Cursors
               /\ d.hist >= c.hist /\ d.hist >= e.hist /\ d.at >= c.at
               /\ d.hist > 0 =>
                      \/ d.hist = c.hist /\ c.at <= d.at
                      \/ d.hist = e.hist /\ e.at <= d.at
               /\ d.termKey # NoKey => d.termKey = c.termKey \/ (e.hist = 0 /\ d.termKey = e.key)
PROOF
<1> DEFINE d == advanceCheckpoint(c, e)
<1>1. /\ c.hist \in Nat /\ c.at \in Times /\ c.termKey \in Keys
      /\ e.hist \in Nat /\ e.at \in Times /\ e.key \in Keys
  BY DEF Cursors, SourceEvents
<1>2. d = updateHistoryCursor(c, e)
  BY DEF advanceCheckpoint
<1>3. \A t \in Times : t \in Int
  BY ArgoAppAssumption DEF Times
<1>4. CASE e.hist > 0
  <2> DEFINE h == IF e.hist > c.hist THEN e.hist ELSE c.hist
             t == IF e.at > c.at THEN e.at ELSE c.at
  <2>1. d = [c EXCEPT !.hist = h, !.at = t]
    BY <1>2, <1>4 DEF updateHistoryCursor
  <2>2. /\ h \in Nat /\ h >= c.hist /\ h >= e.hist /\ h \in {c.hist, e.hist}
        /\ t \in Times /\ t >= c.at /\ t >= e.at
    BY <1>1, <1>3
  <2> HIDE DEF h, t, d
  <2>3. d \in Cursors /\ d.hist = h /\ d.at = t /\ d.termKey = c.termKey
    BY <2>1, <2>2 DEF Cursors
  <2> QED
    BY <2>2, <2>3 DEF d
<1>5. CASE ~(e.hist > 0)
  <2> DEFINE k == IF e.key # NoKey THEN e.key ELSE c.termKey
  <2>1. d = [c EXCEPT !.termKey = k]
    BY <1>2, <1>5 DEF updateHistoryCursor
  <2>2. k \in Keys /\ (k # NoKey => k = c.termKey \/ k = e.key) /\ e.hist = 0
    BY <1>1, <1>5
  <2> HIDE DEF k, d
  <2>3. d \in Cursors /\ d.hist = c.hist /\ d.at = c.at /\ d.termKey = k
    BY <2>1, <2>2 DEF Cursors
  <2>4. d.hist >= c.hist /\ d.hist >= e.hist /\ c.at <= d.at /\ d.at >= c.at
    BY <1>1, <1>3, <2>2, <2>3
  <2> QED
    BY <2>2, <2>3, <2>4 DEF d
<1> QED
  BY <1>4, <1>5

\* Nothing is behind a cursor that says nothing.
LEMMA NoCursorBacked == Backed(NoCursor) /\ Backed(NoCursor)'
BY DEF Backed, NoCursor, NoKey, Key

\* What backs a cursor stays when records are added.
LEMMA BackedStays ==
    ASSUME stored \subseteq stored', NEW CONSTANT c, Backed(c)
    PROVE  Backed(c)'
BY DEF Backed

\* The advance after an ingest is backed by the record the ingest left.
LEMMA AdvanceBacked ==
    ASSUME NEW CONSTANT c \in Cursors, NEW CONSTANT e \in SourceEvents, e.type = "argo.sync.finished",
           stored \subseteq Records, stored' = stored, Backed(c),
           NEW r \in stored, r.hist = e.hist, r.at = e.at, r.key = e.key
    PROVE  Backed(advanceCheckpoint(c, e))'
PROOF
<1> DEFINE d == advanceCheckpoint(c, e)
<1>1. /\ d.hist > 0 =>
             \/ d.hist = c.hist /\ c.at <= d.at
             \/ d.hist = e.hist /\ e.at <= d.at
      /\ d.termKey # NoKey => d.termKey = c.termKey \/ (e.hist = 0 /\ d.termKey = e.key)
      /\ d \in Cursors
  BY AdvanceCursor
<1>2. /\ \A t \in Times : t \in Int
      /\ \A x \in stored : x.at \in Times
      /\ c.at \in Times /\ e.at \in Times /\ d.at \in Times
  BY <1>1, ArgoAppAssumption DEF Times, Records, Cursors, SourceEvents
<1> HIDE DEF d
<1>3. d.hist > 0 => \E x \in stored : x.hist = d.hist /\ x.at <= d.at
  <2>1. CASE d.hist > 0 /\ d.hist = c.hist /\ c.at <= d.at
    <3>1. PICK x \in stored : x.hist = c.hist /\ x.at <= c.at
      BY <2>1 DEF Backed
    <3>2. x.at <= d.at
      BY <3>1, <2>1, <1>2
    <3> QED
      BY <3>1, <3>2, <2>1
  <2> QED
    BY <2>1, <1>1
<1>4. d.termKey # NoKey => \E x \in stored : x.hist = 0 /\ x.key = d.termKey
  BY <1>1 DEF Backed
<1> QED
  BY <1>3, <1>4 DEF Backed, d

-------------------------------------------------------------------------------
(* The initial states and the types. *)

\* The application of the initial states is typed.
LEMMA InitAppTyped ==
    ASSUME InitApp
    PROVE  AppType
PROOF
<1> USE ArgoAppAssumption
<1>1. /\ Anybody \in Actors /\ AnyRev \in Revs /\ AnyRev # NoRev
      /\ 0 \in Times /\ 1 \in Times /\ HistoryLimit \in Nat \ {0}
      /\ "NoStatus" \in PhaseNames /\ "Succeeded" \in PhaseNames
  BY DEF Anybody, AnyRev, Times, PhaseNames, NoOperation, Terminal
<1>2. ASSUME NEW b \in Actors
      PROVE  FreshApp(b) \in Apps /\ FreshApp(b).hist = <<>> /\ FreshApp(b).phase = "NoStatus"
  BY <1>1 DEF FreshApp, Apps
<1>3. ASSUME NEW r \in Revs, NEW b \in Actors, NEW id \in {0, 2}
      PROVE  /\ DeployedApp(r, b, id) \in Apps /\ Len(DeployedApp(r, b, id).hist) = 1
             /\ DeployedApp(r, b, id).phase = "Succeeded" /\ DeployedApp(r, b, id).rev = r
  <2> DEFINE h == <<[id |-> id, rev |-> r, at |-> 1]>>
  <2>1. [id |-> id, rev |-> r, at |-> 1] \in HistoryEntry
    BY <1>1 DEF HistoryEntry
  <2>2. h \in Seq(HistoryEntry) /\ Len(h) = 1
    BY <2>1
  <2> DEFINE f == FreshApp(b)
  <2>3. DeployedApp(r, b, id) = [f EXCEPT !.rev = r, !.oprev = r, !.phase = "Succeeded", !.start = 1,
                                          !.finish = 1, !.hist = h]
    BY DEF DeployedApp
  <2>4. f \in Apps
    BY <1>2
  <2> HIDE DEF h, f
  <2> QED
    BY <2>2, <2>3, <2>4, <1>1 DEF Apps
<1>4. now \in Times
  BY <1>1 DEF InitApp
<1>5. CASE app = FreshApp(Anybody)
  <2>1. app \in Apps /\ Len(app.hist) = 0 /\ app.phase = "NoStatus"
    BY <1>1, <1>2, <1>5
  <2> QED
    BY <2>1, <1>1, <1>4 DEF AppType
<1>6. CASE \E id \in {0, 2} : app = DeployedApp(AnyRev, Anybody, id)
  <2>1. app \in Apps /\ Len(app.hist) = 1 /\ app.phase = "Succeeded" /\ app.rev \in Revs
    BY <1>1, <1>3, <1>6
  <2> QED
    BY <2>1, <1>1, <1>4 DEF AppType
<1> QED
  BY <1>5, <1>6 DEF InitApp

\* A new record is one more.
LEMMA RecordNew ==
    ASSUME TypeOK, RecordsCounted
    PROVE  /\ Cardinality(stored) \in Nat
           /\ Record(se) \in Records /\ Record(se) \notin stored
           /\ Record(se).n = Cardinality(stored) + 1
           /\ Record(se).hist = se.hist /\ Record(se).at = se.at /\ Record(se).key = se.key
           /\ IsFiniteSet(stored \cup {Record(se)})
           /\ Cardinality(stored \cup {Record(se)}) = Cardinality(stored) + 1
PROOF
<1>1. Cardinality(stored) \in Nat
  BY FS_CardinalityType DEF RecordsCounted
<1>2. /\ Record(se).n = Cardinality(stored) + 1
      /\ Record(se).hist = se.hist /\ Record(se).at = se.at /\ Record(se).key = se.key
      /\ Record(se) \in Records
  BY <1>1 DEF Record, Records, TypeOK, SourceEvents
<1>3. Record(se) \notin stored
  BY <1>1, <1>2 DEF RecordsCounted, TypeOK, Records
<1>4. /\ IsFiniteSet(stored \cup {Record(se)})
      /\ Cardinality(stored \cup {Record(se)}) = Cardinality(stored) + 1
  BY <1>3, FS_AddElement DEF RecordsCounted
<1> QED
  BY <1>1, <1>2, <1>3, <1>4

\* Only an ingest touches the repository, and it adds one record.
LEMMA StoredStep ==
    ASSUME Next
    PROVE  \/ stored' = stored
           \/ pc = "ingest" /\ stored' = stored \cup {Record(se)}
BY DEF Next, Argo, Start, Handler, Deliver, Panic, Ingest, Advance, TruncateFile, WriteFile, Relist,
       IngestFails, SaveFails, Disconnect, Cancel, StopRead, StopStore, StopTruncate, StopWrite, Exit, Crash

\* The initial states satisfy the invariant.
LEMMA InitIInv ==
    ASSUME Init
    PROVE  IInv
PROOF
<1> USE ArgoAppAssumption, ArgoInformerAssumption
<1>1. AppType
  BY InitAppTyped DEF Init
<1>2. NoKey \in Keys /\ NoCursor \in Cursors /\ NoEvent \in SourceEvents
  BY CursorTyped
<1>3. TypeOK
  <2>1. Absent \in [state : {"absent", "torn", "ok"}, cursor : Cursors]
    BY <1>2 DEF Absent
  <2>2. <<>> \in Seq(Apps) /\ 0 \in 0..MaxFaults /\ 0 \in 0..MaxOutages
    OBVIOUS
  <2> QED
    BY <1>1, <1>2, <2>1, <2>2 DEF Init, TypeOK, CheckpointType
<1>4. stored = {} /\ IsFiniteSet(stored) /\ Cardinality(stored) = 0
  BY FS_EmptySet DEF Init
<1>5. HandlerKnows /\ RecordsCounted
  BY <1>4 DEF HandlerKnows, RecordsCounted, Init
<1>6. CursorBacked
  BY NoCursorBacked DEF CursorBacked, Init, Absent
<1>10. ImagesBacked
  BY NoCursorBacked DEF ImagesBacked, Init
<1>7. StatusFirst
  BY <1>4 DEF StatusFirst, Init
<1>8. DeploymentsAgree
  <2>1. Versions = {app}
    BY DEF Versions, Init
  <2>2. \A d \in Deployments :
            app.hist # <<>> /\ d = [n |-> app.hist[Len(app.hist)].id, at |-> app.hist[Len(app.hist)].at]
    BY <2>1, <1>4 DEF Deployments, Told, Init, NoEvent
  <2>3. app \in Apps
    BY <1>1 DEF AppType
  <2>4. app.hist # <<>> => app.hist[Len(app.hist)].id \in Nat
    BY <2>3, LastEntry DEF Last
  <2> QED
    BY <2>2, <2>4 DEF DeploymentsAgree
<1>9. DuplicatesCounted
  <2>1. ASSUME NEW n \in HistoryIds \ {0}
        PROVE  Cardinality(RecordsOf(n)) = 0
    <3>1. RecordsOf(n) = {}
      BY <1>4 DEF RecordsOf
    <3> QED
      BY <3>1, FS_EmptySet
  <2>2. faults = 0 /\ outages = 0
    BY DEF Init
  <2> QED
    BY <2>1, <2>2 DEF DuplicatesCounted
<1> QED
  BY <1>3, <1>5, <1>6, <1>7, <1>8, <1>9, <1>10 DEF IInv

\* Every step keeps the types.
LEMMA TypeStep ==
    ASSUME TypeOK, HandlerKnows, RecordsCounted, Next
    PROVE  TypeOK'
PROOF
<1> USE ArgoAppAssumption, ArgoInformerAssumption
<1> DEFINE Files == [state : {"absent", "torn", "ok"}, cursor : Cursors]
           Busy == {"ingest", "advance", "save", "saving"}
<1>1. /\ AppType /\ app \in Apps /\ now \in Times
      /\ cursor \in Cursors /\ file \in Files /\ file.cursor \in Cursors
      /\ text \in Cursors /\ image \in Cursors
      /\ pc \in {"down", "idle"} \cup Busy
      /\ stop \in {"no", "asked", "read", "back", "saving", "done"}
      /\ queue \in Seq(Apps) /\ se \in SourceEvents /\ stored \subseteq Records
      /\ pc \in Busy => se # NoEvent
      /\ watching \in BOOLEAN
      /\ faults \in 0..MaxFaults /\ outages \in 0..MaxOutages
  BY DEF TypeOK, AppType, CheckpointType
<1>2. NoCursor \in Cursors /\ NoEvent \in SourceEvents /\ NoEvent.type = "none"
  BY CursorTyped DEF NoEvent
<1>3. (Fault => faults' \in 0..MaxFaults) /\ (Outage => outages' \in 0..MaxOutages)
  BY <1>1 DEF Fault, Outage
<1>4. Torn \in Files /\ (\A c \in Cursors : Saved(c) \in Files)
  BY <1>1, <1>2 DEF Torn, Saved
<1>5. stored' \subseteq Records
  BY <1>1, StoredStep, RecordNew
<1>6. ASSUME UNCHANGED <<app, now>>, UNCHANGED <<cursor, file>> \/ (cursor' \in Cursors /\ file' \in Files),
             pc' \in {"down", "idle"} \cup Busy, stop' \in {"no", "asked", "read", "back", "saving", "done"},
             queue' \in Seq(Apps), se' \in SourceEvents, pc' \in Busy => se' # NoEvent,
             watching' \in BOOLEAN, faults' \in 0..MaxFaults, outages' \in 0..MaxOutages,
             text' \in Cursors, image' \in Cursors
      PROVE  TypeOK'
  BY <1>1, <1>5, <1>6 DEF TypeOK, AppType, CheckpointType
<1> HIDE DEF Files, Busy
<1>7. queue # <<>> => Head(queue) \in Apps /\ Tail(queue) \in Seq(Apps)
  BY <1>1
<1>8. <<>> \in Seq(Apps) /\ <<app>> \in Seq(Apps) /\ Append(queue, app) \in Seq(Apps)
  BY <1>1
<1>9. /\ "ingest" \in Busy /\ "advance" \in Busy /\ "save" \in Busy /\ "saving" \in Busy
      /\ "down" \notin Busy /\ "idle" \notin Busy
  BY DEF Busy
<1>10. CASE Argo
  <2>1. AppType' /\ app' \in Apps
    BY <1>1, <1>10, AppStep DEF Argo, AppType
  <2>2. queue' \in Seq(Apps)
    BY <1>1, <1>10, <2>1 DEF Argo
  <2> QED
    BY <1>1, <1>5, <1>10, <2>1, <2>2 DEF Argo, TypeOK, CheckpointType, Files, Busy
<1>11. CASE Start
  <2>1. loadCheckpoint \in Cursors
    BY <1>1, <1>2 DEF loadCheckpoint
  <2>2. UNCHANGED <<app, now>> /\ cursor' \in Cursors /\ file' \in Files /\ queue' \in Seq(Apps)
    BY <1>1, <1>8, <1>11, <2>1 DEF Start
  <2> QED
    BY <1>1, <1>6, <1>9, <1>11, <2>2 DEF Start
<1>12. CASE Deliver
  <2>1. sourceEvent(Head(queue)) \in SourceEvents /\ sourceEvent(Head(queue)) # NoEvent
    BY <1>1, <1>2, <1>7, <1>12, SourceEventTells DEF Deliver
  <2>2. se' \in SourceEvents /\ (pc' \in Busy => se' # NoEvent) /\ pc' \in {"idle"} \cup Busy
    BY <1>1, <1>9, <1>12, <2>1 DEF Deliver
  <2> QED
    BY <1>1, <1>6, <1>7, <1>9, <1>12, <2>2 DEF Deliver
<1>13. ASSUME Died, UNCHANGED <<app, now, file>>, faults' \in 0..MaxFaults, outages' \in 0..MaxOutages
       PROVE  TypeOK'
  BY <1>1, <1>2, <1>6, <1>8, <1>9, <1>13 DEF Died
<1>14. CASE Panic \/ Exit \/ Crash
  BY <1>1, <1>3, <1>13, <1>14 DEF Panic, Exit, Crash
<1>15. CASE Ingest
  BY <1>1, <1>6, <1>9, <1>15 DEF Ingest
<1>16. CASE Advance
  <2>1. cursor' \in Cursors
    BY <1>1, <1>16, AdvanceCursor DEF Advance, HandlerKnows
  <2> QED
    BY <1>1, <1>6, <1>9, <1>16, <2>1 DEF Advance
<1>17. CASE TruncateFile
  BY <1>1, <1>4, <1>6, <1>9, <1>17 DEF TruncateFile
<1>18. CASE WriteFile
  <2>1. file' \in Files
    BY <1>1, <1>4, <1>18 DEF WriteFile, Written
  <2> QED
    BY <1>1, <1>2, <1>6, <1>9, <1>18, <2>1 DEF WriteFile
<1>19. CASE IngestFails
  BY <1>1, <1>2, <1>3, <1>6, <1>9, <1>19 DEF IngestFails
<1>20. CASE SaveFails
  BY <1>1, <1>2, <1>3, <1>6, <1>9, <1>20 DEF SaveFails
<1>21. CASE Cancel
  BY <1>1, <1>3, <1>6, <1>8, <1>21 DEF Cancel
<1>22. CASE StopTruncate
  BY <1>1, <1>4, <1>6, <1>22 DEF StopTruncate
<1>23. CASE StopWrite
  <2>1. file' \in Files
    BY <1>1, <1>4, <1>23 DEF StopWrite, Written
  <2> QED
    BY <1>1, <1>6, <1>23, <2>1 DEF StopWrite
<1>24. CASE Disconnect
  BY <1>1, <1>3, <1>6, <1>24 DEF Disconnect
<1>25. CASE Relist
  BY <1>1, <1>6, <1>8, <1>25 DEF Relist
<1>26. CASE StopRead \/ StopStore
  BY <1>1, <1>6, <1>26 DEF StopRead, StopStore
<1> QED
  BY <1>10, <1>11, <1>12, <1>14, <1>15, <1>16, <1>17, <1>18, <1>19, <1>20, <1>21, <1>22, <1>23, <1>24, <1>25, <1>26
     DEF Next, Handler

-------------------------------------------------------------------------------
(* The handler, the repository and the checkpoint. *)

\* Every step keeps what the handler has made sure of.
LEMMA HandlerStep ==
    ASSUME TypeOK, HandlerKnows, RecordsCounted, Next
    PROVE  HandlerKnows'
PROOF
<1>1. /\ app \in Apps /\ now \in Times /\ queue \in Seq(Apps)
      /\ pc = "ingest" /\ stop = "no" => shouldProcess(se, cursor)
      /\ pc = "advance" => \E e \in stored : e.hist = se.hist /\ e.at = se.at /\ e.key = se.key
      /\ pc \in {"ingest", "advance", "save", "saving"} => se.type = "argo.sync.finished"
  BY DEF TypeOK, AppType, HandlerKnows
<1>2. CASE UNCHANGED <<pc, se, stored>> /\ (UNCHANGED <<cursor, stop>> \/ stop' # "no")
  BY <1>1, <1>2 DEF HandlerKnows
<1>3. CASE pc' \in {"down", "idle"}
  BY <1>3 DEF HandlerKnows
<1>4. CASE Deliver
  <2> DEFINE e == sourceEvent(Head(queue))
  <2>1. e.type = "argo.sync.finished"
    BY <1>1, <1>4, SourceEventTells DEF Deliver
  <2>2. CASE shouldProcess(e, cursor)
    <3> HIDE DEF e
    <3>1. pc' = "ingest" /\ se' = e /\ cursor' = cursor
      BY <2>2, <1>4 DEF Deliver, e
    <3>2. shouldProcess(se', cursor')
      BY <2>2, <3>1
    <3> QED
      BY <2>1, <3>1, <3>2 DEF HandlerKnows
  <2>3. CASE ~shouldProcess(e, cursor)
    BY <1>2, <1>4, <2>3 DEF Deliver
  <2> QED
    BY <2>2, <2>3
<1>5. CASE Ingest
  <2>1. pc' = "advance" /\ se' = se /\ Record(se) \in stored' /\ se.type = "argo.sync.finished"
    BY <1>1, <1>5 DEF Ingest
  <2>2. Record(se).hist = se.hist /\ Record(se).at = se.at /\ Record(se).key = se.key
    BY RecordNew
  <2> QED
    BY <2>1, <2>2 DEF HandlerKnows
<1>6. CASE Advance \/ TruncateFile
  BY <1>1, <1>6 DEF Advance, TruncateFile, HandlerKnows
<1>7. CASE Argo \/ Relist \/ Disconnect \/ Cancel \/ StopRead \/ StopStore \/ StopTruncate \/ StopWrite
  BY <1>2, <1>7 DEF Argo, Relist, Disconnect, Cancel, StopRead, StopStore, StopTruncate, StopWrite
<1>8. CASE Start \/ Panic \/ WriteFile \/ IngestFails \/ SaveFails \/ Exit \/ Crash
  BY <1>3, <1>8 DEF Start, Panic, WriteFile, IngestFails, SaveFails, Exit, Crash, Died
<1> QED
  BY <1>4, <1>5, <1>6, <1>7, <1>8 DEF Next, Handler

\* Every step keeps the count of the records.
LEMMA CountStep ==
    ASSUME TypeOK, RecordsCounted, Next
    PROVE  RecordsCounted'
PROOF
<1>1. CASE stored' = stored
  BY <1>1 DEF RecordsCounted
<1>2. CASE stored' = stored \cup {Record(se)}
  <2>1. /\ Cardinality(stored) \in Nat /\ Record(se).n = Cardinality(stored) + 1
        /\ IsFiniteSet(stored') /\ Cardinality(stored') = Cardinality(stored) + 1
    BY <1>2, RecordNew
  <2>2. \A e \in stored : e.n \in Nat /\ e.n <= Cardinality(stored)
    BY DEF RecordsCounted, TypeOK, Records
  <2>3. \A e \in stored' : e.n <= Cardinality(stored) + 1
    BY <1>2, <2>1, <2>2
  <2> QED
    BY <2>1, <2>3 DEF RecordsCounted
<1> QED
  BY <1>1, <1>2, StoredStep

\* Every step keeps the cursor, the checkpoint file and what the saves have read behind the
\* repository.
LEMMA BackedStep ==
    ASSUME TypeOK, HandlerKnows, CursorBacked, ImagesBacked, Next
    PROVE  CursorBacked' /\ ImagesBacked'
PROOF
<1>1. stored \subseteq stored'
  BY StoredStep
<1>2. PICK c, t, i, f : c = cursor /\ t = text /\ i = image /\ f = file
  OBVIOUS
<1> DEFINE Safe == {c, t, i, NoCursor} \cup (IF f.state = "ok" THEN {f.cursor} ELSE {})
<1>3. ASSUME NEW d \in Safe
      PROVE  Backed(d)'
  <2>1. Backed(d)
    BY <1>2, NoCursorBacked DEF CursorBacked, ImagesBacked
  <2> QED
    BY <1>1, <2>1, BackedStays
<1>4. ASSUME NEW d \in Safe, file' = f \/ file' = Torn \/ file' = Saved(d), Backed(cursor)',
             text' \in Safe, image' \in Safe
      PROVE  CursorBacked' /\ ImagesBacked'
  <2>1. ImagesBacked'
    BY <1>3, <1>4 DEF ImagesBacked, Backed
  <2>2. file'.state = "ok" => file'.cursor \in Safe
    BY <1>4 DEF Torn, Saved
  <2>3. file'.state = "ok" => Backed(file.cursor)'
    BY <1>3, <2>2 DEF Backed
  <2> QED
    BY <1>4, <2>1, <2>3 DEF CursorBacked
<1>5. ASSUME cursor' \in Safe
      PROVE  Backed(cursor)'
  BY <1>3, <1>5 DEF Backed
<1>6. c \in Safe /\ t \in Safe /\ i \in Safe /\ NoCursor \in Safe /\ (f.state = "ok" => f.cursor \in Safe)
  OBVIOUS
<1> HIDE DEF Safe
<1>7. CASE Advance
  <2>1. PICK e : e = se
    OBVIOUS
  <2>2. PICK r \in stored : r.hist = e.hist /\ r.at = e.at /\ r.key = e.key
    BY <1>7, <2>1 DEF Advance, HandlerKnows
  <2>3. /\ e \in SourceEvents /\ e.type = "argo.sync.finished" /\ c \in Cursors
        /\ stored \subseteq Records /\ stored' = stored /\ Backed(c)
    BY <1>2, <1>7, <2>1 DEF Advance, HandlerKnows, TypeOK, CheckpointType, CursorBacked
  <2>4. Backed(advanceCheckpoint(c, e))'
    BY <2>2, <2>3, AdvanceBacked
  <2>5. cursor' = advanceCheckpoint(c, e) /\ file' = f /\ text' = t /\ image' = i
    BY <1>2, <1>7, <2>1 DEF Advance
  <2>6. PICK d : d = advanceCheckpoint(c, e)
    OBVIOUS
  <2>7. Backed(d)'
    BY <2>4, <2>6 DEF Backed
  <2>8. Backed(cursor)'
    BY <2>5, <2>6, <2>7 DEF Backed
  <2> QED
    BY <1>4, <1>6, <2>5, <2>8
<1>8. CASE \/ Start \/ Argo \/ Deliver \/ Panic \/ Ingest \/ Relist
           \/ IngestFails \/ SaveFails \/ Disconnect \/ Cancel \/ StopRead \/ StopStore \/ Exit \/ Crash
  <2>1. cursor' \in Safe /\ text' \in Safe /\ image' \in Safe /\ file' = f
    BY <1>2, <1>6, <1>8 DEF Start, loadCheckpoint, Argo, Deliver, Panic, Ingest, Relist, IngestFails,
                            SaveFails, Disconnect, Cancel, StopRead, StopStore, Exit, Crash, Died
  <2> QED
    BY <1>4, <1>5, <1>6, <2>1
<1>9. CASE TruncateFile \/ StopTruncate
  <2>1. cursor' \in Safe /\ text' \in Safe /\ image' \in Safe /\ file' = Torn
    BY <1>2, <1>6, <1>9 DEF TruncateFile, StopTruncate
  <2> QED
    BY <1>4, <1>5, <1>6, <2>1
<1>10. CASE WriteFile \/ StopWrite
  <2>1. /\ cursor' \in Safe /\ text' \in Safe /\ image' \in Safe
        /\ file' = Torn \/ file' = Saved(t) \/ file' = Saved(i)
    BY <1>2, <1>6, <1>10 DEF WriteFile, StopWrite, Written
  <2> QED
    BY <1>4, <1>5, <1>6, <2>1
<1> QED
  BY <1>7, <1>8, <1>9, <1>10 DEF Next, Handler

-------------------------------------------------------------------------------
(* The versions on their way. *)

\* The versions of a queue that lost its head, and of one that got another at its end.
LEMMA QueueVersions ==
    ASSUME NEW q \in Seq(Apps)
    PROVE  /\ \A a : /\ Len(Append(q, a)) = Len(q) + 1 /\ DOMAIN Append(q, a) = 1..(Len(q) + 1)
                     /\ \A i \in 1..(Len(q) + 1) : Append(q, a)[i] = IF i <= Len(q) THEN q[i] ELSE a
           /\ q # <<>> => /\ DOMAIN Tail(q) = 1..(Len(q) - 1) /\ Len(q) > 0 /\ Head(q) = q[1]
                          /\ \A i \in 1..(Len(q) - 1) : Tail(q)[i] = q[i + 1]
           /\ DOMAIN q = 1..Len(q) /\ Len(q) \in Nat
BY DEF Apps

\* Every step keeps the versions without a status in front.
LEMMA StatusStep ==
    ASSUME TypeOK, StatusFirst, Next
    PROVE  StatusFirst'
PROOF
<1> DEFINE No(a) == a.phase = "NoStatus"
<1>1. /\ app \in Apps /\ queue \in Seq(Apps) /\ AppType
      /\ \A i, j \in DOMAIN queue : i < j /\ No(queue[j]) => No(queue[i])
      /\ No(app) => \A i \in DOMAIN queue : No(queue[i])
      /\ No(app) \/ (\E i \in DOMAIN queue : No(queue[i])) => stored = {} /\ pc \in {"down", "idle"}
  BY DEF TypeOK, AppType, StatusFirst
<1>2. DOMAIN queue = 1..Len(queue) /\ Len(queue) \in Nat
  BY <1>1
<1>3. CASE Argo
  <2>1. ~No(app')
    BY <1>1, <1>3, AppStep DEF Argo
  <2>2. CASE queue' = queue
    BY <1>1, <1>3, <2>1, <2>2 DEF Argo, StatusFirst
  <2>3. CASE queue' = Append(queue, app')
    <3>1. /\ DOMAIN queue' = 1..(Len(queue) + 1)
          /\ \A i \in 1..(Len(queue) + 1) : queue'[i] = IF i <= Len(queue) THEN queue[i] ELSE app'
      BY <1>1, <2>3, QueueVersions
    <3>2. \A i \in DOMAIN queue' : No(queue'[i]) => i \in DOMAIN queue /\ queue'[i] = queue[i]
      BY <1>2, <2>1, <3>1
    <3>3. \A i, j \in DOMAIN queue' : i < j /\ No(queue'[j]) => No(queue'[i])
      BY <1>1, <1>2, <3>1, <3>2
    <3>4. (\E i \in DOMAIN queue' : No(queue'[i])) => stored' = {} /\ pc' \in {"down", "idle"}
      BY <1>1, <1>3, <3>2 DEF Argo
    <3> QED
      BY <2>1, <3>3, <3>4 DEF StatusFirst
  <2> QED
    BY <1>3, <2>2, <2>3 DEF Argo
<1>4. CASE Relist
  <2>1. /\ DOMAIN queue' = 1..(Len(queue) + 1) /\ app' = app /\ stored' = stored /\ pc' = pc
        /\ \A i \in 1..(Len(queue) + 1) : queue'[i] = IF i <= Len(queue) THEN queue[i] ELSE app
    BY <1>1, <1>4, QueueVersions DEF Relist
  <2>2. \A i \in DOMAIN queue' : queue'[i] = app \/ (i \in DOMAIN queue /\ queue'[i] = queue[i])
    BY <1>2, <2>1
  <2>3. \A i, j \in DOMAIN queue' : i < j /\ No(queue'[j]) => No(queue'[i])
    <3> SUFFICES ASSUME NEW i \in DOMAIN queue', NEW j \in DOMAIN queue', i < j, No(queue'[j])
                 PROVE  No(queue'[i])
      OBVIOUS
    <3>1. CASE j <= Len(queue)
      BY <1>1, <1>2, <2>1, <3>1
    <3>2. CASE j = Len(queue) + 1
      BY <1>1, <1>2, <2>1, <3>2
    <3> QED
      BY <1>2, <2>1, <3>1, <3>2
  <2>4. No(app) => \A i \in DOMAIN queue' : No(queue'[i])
    BY <1>1, <2>2
  <2>5. No(app) \/ (\E i \in DOMAIN queue' : No(queue'[i])) => stored' = {} /\ pc' \in {"down", "idle"}
    BY <1>1, <2>1, <2>2
  <2> QED
    BY <2>1, <2>3, <2>4, <2>5 DEF StatusFirst
<1>5. CASE Deliver
  <2>1. /\ DOMAIN queue' = 1..(Len(queue) - 1) /\ Len(queue) > 0 /\ Head(queue) = queue[1]
        /\ \A i \in 1..(Len(queue) - 1) : queue'[i] = queue[i + 1]
        /\ app' = app /\ stored' = stored /\ ~No(queue[1])
    BY <1>1, <1>5, QueueVersions DEF Deliver
  <2>2. \A i \in DOMAIN queue : ~No(queue[i])
    BY <1>1, <1>2, <2>1
  <2>3. \A i \in DOMAIN queue' : ~No(queue'[i])
    BY <1>2, <2>1, <2>2
  <2>4. ~No(app)
    BY <1>1, <1>2, <2>1
  <2> QED
    BY <2>1, <2>3, <2>4 DEF StatusFirst
<1>6. CASE Start
  <2>1. DOMAIN queue' = {1} /\ queue'[1] = app /\ UNCHANGED <<app, stored>> /\ pc' = "idle"
    BY <1>6 DEF Start
  <2>2. No(app) => stored = {}
    BY <1>1
  <2> QED
    BY <2>1, <2>2 DEF StatusFirst
<1>7. CASE Panic \/ Exit \/ Crash \/ Cancel
  <2>1. queue' = <<>> /\ UNCHANGED <<app, stored>> /\ (pc' = "down" \/ pc' = pc)
    BY <1>7 DEF Panic, Exit, Crash, Cancel, Died
  <2>2. DOMAIN queue' = {}
    BY <2>1
  <2> QED
    BY <1>1, <2>1, <2>2 DEF StatusFirst
<1>8. CASE Ingest \/ Advance \/ TruncateFile \/ WriteFile \/ IngestFails \/ SaveFails
  <2>1. pc \notin {"down", "idle"} /\ UNCHANGED <<app, queue>>
    BY <1>8 DEF Ingest, Advance, TruncateFile, WriteFile, IngestFails, SaveFails
  <2> QED
    BY <1>1, <2>1 DEF StatusFirst
<1>9. CASE Disconnect \/ StopRead \/ StopStore \/ StopTruncate \/ StopWrite
  <2>1. UNCHANGED <<app, queue, stored, pc>>
    BY <1>9 DEF Disconnect, StopRead, StopStore, StopTruncate, StopWrite
  <2> QED
    BY <1>1, <2>1 DEF StatusFirst
<1> QED
  BY <1>3, <1>4, <1>5, <1>6, <1>7, <1>8, <1>9 DEF Next, Handler

-------------------------------------------------------------------------------
(* The deployments that are told of. *)

Dep(a) == [n |-> Last(a).id, at |-> Last(a).at]
DepOf(e) == [n |-> e.hist, at |-> e.at]

\* A deployment comes from the history of a version, from a record or from the handler.
LEMMA DeploymentsFrom ==
    /\ \A d \in Deployments :
           /\ d.n > 0
           /\ \/ \E a \in Versions : a.hist # <<>> /\ d = Dep(a)
              \/ \E e \in stored \cup {se} : d = DepOf(e)
    /\ \A d \in Deployments' :
           /\ d.n > 0
           /\ \/ \E a \in Versions' : a.hist # <<>> /\ d = Dep(a)
              \/ \E e \in stored' \cup {se'} : d = DepOf(e)
    /\ \A a \in Versions : a.hist # <<>> /\ Last(a).id > 0 => Dep(a) \in Deployments
    /\ \A e \in stored \cup {se} : e.hist > 0 => DepOf(e) \in Deployments
BY DEF Deployments, Told, Dep, DepOf, Last

\* The versions are typed, and so are the deployments.
LEMMA DeploymentsTyped ==
    ASSUME TypeOK
    PROVE  Versions \subseteq Apps /\ app \in Versions /\ \A d \in Deployments : d.n \in Nat
PROOF
<1>1. Versions \subseteq Apps /\ app \in Versions
  BY DEF TypeOK, AppType, Versions
<1>2. ASSUME NEW d \in Deployments
      PROVE  d.n \in Nat
  <2>1. CASE \E a \in Versions : a.hist # <<>> /\ d = Dep(a)
    BY <1>1, <2>1, LastEntry DEF Dep
  <2>2. CASE \E e \in stored \cup {se} : d = DepOf(e)
    BY <2>2 DEF DepOf, TypeOK, Records, SourceEvents
  <2> QED
    BY <2>1, <2>2, DeploymentsFrom
<1> QED
  BY <1>1, <1>2

\* No step brings a version other than the application's newest.
LEMMA VersionsStep ==
    ASSUME TypeOK, Next
    PROVE  \A a \in Versions' : a = app' \/ a \in Versions
PROOF
<1>1. queue \in Seq(Apps) /\ DOMAIN queue = 1..Len(queue) /\ Len(queue) \in Nat
  BY DEF TypeOK
<1>2. SUFFICES \A i \in DOMAIN queue' : queue'[i] \in {app, app'} \cup {queue[j] : j \in DOMAIN queue}
  BY DEF Versions
<1>3. CASE Argo \/ Relist
  <2>1. CASE queue' = queue
    BY <2>1
  <2>2. ASSUME NEW a \in {app, app'}, queue' = Append(queue, a)
        PROVE  \A i \in DOMAIN queue' : queue'[i] = a \/ (i \in DOMAIN queue /\ queue'[i] = queue[i])
    <3>1. /\ DOMAIN queue' = 1..(Len(queue) + 1)
          /\ \A i \in 1..(Len(queue) + 1) : queue'[i] = IF i <= Len(queue) THEN queue[i] ELSE a
      BY <1>1, <2>2, QueueVersions
    <3> QED
      BY <1>1, <3>1
  <2>3. queue' = queue \/ \E a \in {app, app'} : queue' = Append(queue, a)
    BY <1>3 DEF Argo, Relist
  <2> QED
    BY <2>1, <2>2, <2>3
<1>4. CASE Deliver
  <2>1. /\ DOMAIN queue' = 1..(Len(queue) - 1) /\ Len(queue) > 0
        /\ \A i \in 1..(Len(queue) - 1) : queue'[i] = queue[i + 1]
    BY <1>1, <1>4, QueueVersions DEF Deliver
  <2>2. \A i \in DOMAIN queue' : i + 1 \in DOMAIN queue /\ queue'[i] = queue[i + 1]
    BY <1>1, <2>1
  <2> QED
    BY <2>2
<1>5. CASE Start
  BY <1>5 DEF Start
<1>6. CASE Panic \/ Cancel \/ Exit \/ Crash
  BY <1>6 DEF Panic, Cancel, Exit, Crash, Died
<1>7. CASE Ingest \/ Advance \/ TruncateFile \/ WriteFile \/ IngestFails \/ SaveFails
           \/ Disconnect \/ StopRead \/ StopStore \/ StopTruncate \/ StopWrite
  <2>1. queue' = queue
    BY <1>7 DEF Ingest, Advance, TruncateFile, WriteFile, IngestFails, SaveFails, Disconnect,
                StopRead, StopStore, StopTruncate, StopWrite
  <2> QED
    BY <2>1
<1> QED
  BY <1>3, <1>4, <1>5, <1>6, <1>7 DEF Next, Handler

\* No step brings a source event or a record of a deployment that was not told of.
LEMMA EventsStep ==
    ASSUME TypeOK, RecordsCounted, Next
    PROVE  \A e \in stored' \cup {se'} : e.hist > 0 => DepOf(e) \in Deployments
PROOF
<1>1. \A e \in stored \cup {se} : e.hist > 0 => DepOf(e) \in Deployments
  BY DeploymentsFrom
<1>2. ASSUME NEW e \in stored', e.hist > 0
      PROVE  DepOf(e) \in Deployments
  <2>1. CASE e \in stored
    BY <1>1, <1>2, <2>1
  <2>2. CASE e = Record(se)
    <3>1. e.hist = se.hist /\ e.at = se.at
      BY <2>2, RecordNew
    <3>2. DepOf(e) = DepOf(se) /\ se.hist > 0
      BY <1>2, <3>1 DEF DepOf
    <3> QED
      BY <1>1, <3>2
  <2> QED
    BY <1>2, <2>1, <2>2, StoredStep
<1>3. ASSUME se'.hist > 0
      PROVE  DepOf(se') \in Deployments
  <2>1. CASE se' = se
    BY <1>1, <1>3, <2>1
  <2>2. CASE se' = NoEvent
    BY <1>3, <2>2 DEF NoEvent
  <2>3. CASE Deliver /\ se' = sourceEvent(Head(queue))
    <3>1. queue \in Seq(Apps) /\ queue # <<>> /\ now \in Times
      BY <2>3 DEF Deliver, TypeOK, AppType
    <3>2. Head(queue) \in Apps /\ 1 \in DOMAIN queue /\ Head(queue) = queue[1]
      BY <3>1
    <3>3. Head(queue) \in Versions
      BY <3>2 DEF Versions
    <3>4. /\ Head(queue).hist # <<>>
          /\ se'.hist = Last(Head(queue)).id /\ se'.at = Last(Head(queue)).at
      BY <1>3, <2>3, <3>1, <3>2, SourceEventTells
    <3>5. DepOf(se') = Dep(Head(queue)) /\ Last(Head(queue)).id > 0
      BY <1>3, <3>4 DEF DepOf, Dep
    <3> QED
      BY <3>3, <3>4, <3>5, DeploymentsFrom
  <2>4. se' = se \/ se' = NoEvent \/ (Deliver /\ se' = sourceEvent(Head(queue)))
    BY DEF Next, Argo, Start, Handler, Deliver, Panic, Ingest, Advance, TruncateFile, WriteFile, Relist,
           IngestFails, SaveFails, Disconnect, Cancel, StopRead, StopStore, StopTruncate, StopWrite, Exit, Crash, Died
  <2> QED
    BY <2>1, <2>2, <2>3, <2>4
<1> QED
  BY <1>2, <1>3

\* Every step keeps one time for each deployment: a new one gets an id above all others.
LEMMA DeploymentsStep ==
    ASSUME TypeOK, RecordsCounted, DeploymentsAgree, Next
    PROVE  DeploymentsAgree'
PROOF
<1>1. /\ \A c, d \in Deployments : c.n = d.n => c.at = d.at
      /\ \A d \in Deployments : app.hist # <<>> /\ d.n <= Last(app).id
  BY DEF DeploymentsAgree, Last
<1>2. /\ Versions \subseteq Apps /\ app \in Versions /\ app \in Apps
      /\ \A d \in Deployments : d.n \in Nat
  BY DeploymentsTyped
<1>3. \A d \in Deployments' : d \in Deployments \/ (app'.hist # <<>> /\ d = Dep(app') /\ d.n > 0)
  <2> SUFFICES ASSUME NEW d \in Deployments'
               PROVE  d \in Deployments \/ (app'.hist # <<>> /\ d = Dep(app') /\ d.n > 0)
    OBVIOUS
  <2>1. d.n > 0
    BY DeploymentsFrom
  <2>2. CASE \E e \in stored' \cup {se'} : d = DepOf(e)
    BY <2>1, <2>2, EventsStep DEF DepOf
  <2>3. CASE \E a \in Versions' : a.hist # <<>> /\ d = Dep(a)
    <3>1. PICK a \in Versions' : a.hist # <<>> /\ d = Dep(a)
      BY <2>3
    <3>2. CASE a \in Versions
      <4>1. Last(a).id > 0
        BY <2>1, <3>1 DEF Dep
      <4> QED
        BY <3>1, <3>2, <4>1, DeploymentsFrom
    <3>3. CASE a = app'
      BY <2>1, <3>1, <3>3
    <3> QED
      BY <3>2, <3>3, VersionsStep
  <2> QED
    BY <2>2, <2>3, DeploymentsFrom
<1>4. \/ app'.hist = app.hist
      \/ app'.hist # <<>> /\ Last(app').id = NextHistoryId
  <2>1. CASE Argo
    BY <2>1, AppStep DEF Argo, TypeOK
  <2>2. CASE app' = app
    BY <2>2
  <2>3. Argo \/ app' = app
    BY DEF Next, Start, Handler, Deliver, Panic, Ingest, Advance, TruncateFile, WriteFile, Relist,
           IngestFails, SaveFails, Disconnect, Cancel, StopRead, StopStore, StopTruncate, StopWrite, Exit, Crash
  <2> QED
    BY <2>1, <2>2, <2>3
<1>5. app.hist # <<>> => Last(app).id \in Nat /\ NextHistoryId = Last(app).id + 1
  BY <1>2, LastEntry DEF NextHistoryId, Last
<1>6. CASE app'.hist = app.hist
  <2>1. Last(app') = Last(app)
    BY <1>6 DEF Last
  <2>2. Deployments' \subseteq Deployments
    <3> SUFFICES ASSUME NEW d \in Deployments', app'.hist # <<>>, d = Dep(app'), d.n > 0
                 PROVE  d \in Deployments
      BY <1>3
    <3>1. d = Dep(app) /\ app.hist # <<>> /\ Last(app).id > 0
      BY <1>6, <2>1 DEF Dep
    <3> QED
      BY <1>2, <3>1, DeploymentsFrom
  <2> QED
    BY <1>1, <1>6, <2>1, <2>2 DEF DeploymentsAgree, Last
<1>7. CASE app'.hist # <<>> /\ Last(app').id = NextHistoryId
  <2>1. \A d \in Deployments : d.n \in Nat /\ d.n < Last(app').id
    BY <1>1, <1>2, <1>5, <1>7
  <2>2. \A d \in Deployments' : d \in Deployments \/ (d = Dep(app') /\ d.n = Last(app').id)
    BY <1>3 DEF Dep
  <2>3. \A c, d \in Deployments' : c.n = d.n => c.at = d.at
    BY <1>1, <2>1, <2>2
  <2>4. NextHistoryId \in Nat
    BY <1>5 DEF NextHistoryId
  <2>5. \A d \in Deployments' : d.n <= Last(app').id
    BY <1>7, <2>1, <2>2, <2>4
  <2> QED
    BY <1>7, <2>3, <2>5 DEF DeploymentsAgree, Last
<1> QED
  BY <1>4, <1>6, <1>7

-------------------------------------------------------------------------------
(* The records of a deployment. *)

\* The handler ingests a deployment that the cursor does not cover yet.
LEMMA IngestNotCovered ==
    ASSUME TypeOK, HandlerKnows, CursorBacked, DeploymentsAgree, pc = "ingest", stop = "no", se.hist > 0
    PROVE  cursor.hist < se.hist
PROOF
<1>1. /\ se.hist \in Nat /\ cursor.hist \in Nat /\ se.at \in Times /\ cursor.at \in Times
      /\ \A e \in stored : e.at \in Times
      /\ \A t \in Times : t \in Int
  BY ArgoAppAssumption DEF TypeOK, CheckpointType, Cursors, SourceEvents, Records, Times
<1>2. se.hist > cursor.hist \/ (se.hist = cursor.hist /\ se.at > cursor.at)
  BY DEF HandlerKnows, shouldProcess, historyCursorShouldProcess
<1>3. ASSUME se.hist = cursor.hist, se.at > cursor.at
      PROVE  FALSE
  <2>1. PICK e \in stored : e.hist = cursor.hist /\ e.at <= cursor.at
    BY <1>3 DEF CursorBacked, Backed
  <2>2. DepOf(e) \in Deployments /\ DepOf(se) \in Deployments
    BY <1>3, <2>1, DeploymentsFrom
  <2>3. DepOf(e).n = DepOf(se).n /\ DepOf(e).at = e.at /\ DepOf(se).at = se.at
    BY <1>3, <2>1 DEF DepOf
  <2>4. e.at = se.at
    BY <2>2, <2>3 DEF DeploymentsAgree
  <2> QED
    BY <1>1, <1>3, <2>1, <2>4
<1> QED
  BY <1>1, <1>2, <1>3

\* The records of a deployment are finitely many, and a step adds at most one.
LEMMA RecordsStep ==
    ASSUME TypeOK, RecordsCounted, Next, NEW CONSTANT n
    PROVE  /\ Cardinality(RecordsOf(n)) \in Nat
           /\ \/ Cardinality(RecordsOf(n)') = Cardinality(RecordsOf(n)) /\ (stored' = stored \/ se.hist # n)
              \/ /\ Cardinality(RecordsOf(n)') = Cardinality(RecordsOf(n)) + 1
                 /\ pc = "ingest" /\ se.hist = n /\ stored' = stored \cup {Record(se)}
PROOF
<1>1. IsFiniteSet(RecordsOf(n)) /\ Cardinality(RecordsOf(n)) \in Nat
  BY FS_Subset, FS_CardinalityType DEF RecordsCounted, RecordsOf
<1>2. CASE stored' = stored
  BY <1>1, <1>2 DEF RecordsOf
<1>3. CASE pc = "ingest" /\ stored' = stored \cup {Record(se)}
  <2>1. Record(se).hist = se.hist /\ Record(se) \notin stored
    BY RecordNew
  <2>2. CASE se.hist # n
    <3>1. RecordsOf(n)' = RecordsOf(n)
      BY <1>3, <2>1, <2>2 DEF RecordsOf
    <3> QED
      BY <1>1, <2>2, <3>1
  <2>3. CASE se.hist = n
    <3>1. RecordsOf(n)' = RecordsOf(n) \cup {Record(se)} /\ Record(se) \notin RecordsOf(n)
      BY <1>3, <2>1, <2>3 DEF RecordsOf
    <3>2. Cardinality(RecordsOf(n)') = Cardinality(RecordsOf(n)) + 1
      BY <1>1, <3>1, FS_AddElement
    <3> QED
      BY <1>1, <1>3, <2>3, <3>2
  <2> QED
    BY <2>2, <2>3
<1> QED
  BY <1>2, <1>3, StoredStep

\* Every step counts the loss of a cursor that follows a record.
LEMMA DuplicatesStep ==
    ASSUME IInv, Next
    PROVE  DuplicatesCounted'
PROOF
<1>1. /\ TypeOK /\ HandlerKnows /\ RecordsCounted /\ CursorBacked
      /\ StatusFirst /\ DeploymentsAgree /\ DuplicatesCounted
  BY DEF IInv
<1>2. SUFFICES ASSUME NEW n \in HistoryIds \ {0}
               PROVE  Cardinality(RecordsOf(n)') <= outages' + faults' + (IF Covered(n)' THEN 1 ELSE 0)
  BY DEF DuplicatesCounted
<1>3. n \in Nat /\ n > 0
  BY DEF HistoryIds
<1>4. PICK K \in Nat : K = Cardinality(RecordsOf(n))
  BY <1>1, RecordsStep
<1>5. K <= outages + faults + (IF Covered(n) THEN 1 ELSE 0)
  BY <1>1, <1>4 DEF DuplicatesCounted
<1>6. \/ Cardinality(RecordsOf(n)') = K /\ (stored' = stored \/ se.hist # n)
      \/ Cardinality(RecordsOf(n)') = K + 1 /\ pc = "ingest" /\ se.hist = n /\ stored' = stored \cup {Record(se)}
  BY <1>1, <1>4, RecordsStep
<1>7. /\ faults \in Nat /\ outages \in Nat /\ cursor \in Cursors /\ cursor.hist \in Nat
      /\ se \in SourceEvents /\ se.hist \in Nat
  BY <1>1, ArgoInformerAssumption DEF TypeOK, CheckpointType, Cursors, SourceEvents
<1>8. ASSUME Cardinality(RecordsOf(n)') = K, outages' \in {outages, outages + 1}, faults' \in {faults, faults + 1},
             Covered(n) => Covered(n)' \/ outages' = outages + 1
      PROVE  Cardinality(RecordsOf(n)') <= outages' + faults' + (IF Covered(n)' THEN 1 ELSE 0)
  <2>1. outages' \in Nat /\ faults' \in Nat
    BY <1>7, <1>8
  <2>2. CASE outages' = outages + 1
    BY <1>4, <1>5, <1>7, <1>8, <2>1, <2>2
  <2>3. CASE outages' = outages /\ Covered(n)
    BY <1>4, <1>5, <1>7, <1>8, <2>1, <2>3
  <2>4. CASE ~Covered(n)
    BY <1>4, <1>5, <1>7, <1>8, <2>1, <2>4
  <2> QED
    BY <1>8, <2>2, <2>3, <2>4
<1>9. CASE Ingest
  <2>1. /\ pc = "ingest" /\ pc' = "advance" /\ stop' = "no" /\ stop = "no"
        /\ UNCHANGED <<cursor, se, outages, faults>>
    BY <1>9 DEF Ingest
  <2>2. CASE se.hist = n
    <3>1. ~Covered(n)
      BY <1>1, <1>3, <1>7, <2>1, <2>2, IngestNotCovered DEF Covered
    <3>2. Covered(n)'
      BY <2>1, <2>2 DEF Covered
    <3> QED
      BY <1>5, <1>6, <1>7, <2>1, <3>1, <3>2
  <2>3. CASE se.hist # n
    <3>1. Covered(n) => Covered(n)'
      BY <2>1 DEF Covered
    <3> QED
      BY <1>6, <1>8, <2>1, <2>3, <3>1
  <2> QED
    BY <2>2, <2>3
<1>10. CASE IngestFails
  <2>1. /\ pc = "ingest" /\ pc' = "idle" /\ UNCHANGED <<cursor, stop, outages>>
        /\ (stored' = stored /\ faults' \in {faults, faults + 1}) \/ faults' = faults + 1
    BY <1>10 DEF IngestFails, Fault
  <2>2. Covered(n) => Covered(n)'
    BY <2>1 DEF Covered
  <2>3. stored' = stored => Cardinality(RecordsOf(n)') = K
    BY <1>4 DEF RecordsOf
  <2> QED
    BY <1>5, <1>6, <1>7, <1>8, <2>1, <2>2, <2>3
<1>11. CASE ~Ingest /\ ~IngestFails
  <2>1. stored' = stored
    BY <1>11 DEF Next, Argo, Start, Handler, Deliver, Panic, Advance, TruncateFile, WriteFile, Relist,
                 SaveFails, Disconnect, Cancel, StopRead, StopStore, StopTruncate, StopWrite, Exit, Crash
  <2>2. Cardinality(RecordsOf(n)') = K
    BY <1>4, <2>1 DEF RecordsOf
  <2>3. CASE Argo \/ Relist \/ Disconnect
    <3>1. UNCHANGED <<pc, stop, cursor, se, faults>> /\ outages' \in {outages, outages + 1}
      BY <2>3 DEF Argo, Relist, Disconnect, Outage
    <3>2. Covered(n) => Covered(n)'
      BY <3>1 DEF Covered
    <3> QED
      BY <1>8, <2>2, <3>1, <3>2
  <2>4. CASE Start \/ StopRead \/ StopStore \/ StopTruncate \/ StopWrite \/ Exit
    <3>1. UNCHANGED <<outages, faults>> /\ (pc = "down" \/ stop # "no")
      BY <2>4 DEF Start, StopRead, StopStore, StopTruncate, StopWrite, Exit
    <3>2. ~Covered(n)
      BY <3>1 DEF Covered
    <3> QED
      BY <1>8, <2>2, <3>1, <3>2
  <2>5. CASE Deliver \/ TruncateFile \/ WriteFile \/ SaveFails
    <3>1. /\ pc # "advance" /\ pc' # "down" /\ UNCHANGED <<cursor, stop, outages>>
          /\ faults' \in {faults, faults + 1}
      BY <2>5 DEF Deliver, TruncateFile, WriteFile, SaveFails, Fault
    <3>2. Covered(n) => Covered(n)'
      BY <3>1 DEF Covered
    <3> QED
      BY <1>8, <2>2, <3>1, <3>2
  <2>6. CASE Advance
    <3>1. /\ pc = "advance" /\ pc' = "save" /\ UNCHANGED <<stop, outages, faults>>
          /\ cursor' = advanceCheckpoint(cursor, se) /\ se.type = "argo.sync.finished"
      BY <1>1, <2>6 DEF Advance, HandlerKnows
    <3>2. cursor'.hist >= cursor.hist /\ cursor'.hist >= se.hist /\ cursor'.hist \in Nat
      BY <1>7, <3>1, AdvanceCursor DEF Cursors
    <3>3. Covered(n) => Covered(n)'
      BY <1>3, <1>7, <3>1, <3>2 DEF Covered
    <3> QED
      BY <1>8, <2>2, <3>1, <3>3
  <2>7. CASE Cancel \/ Crash
    <3>1. outages' = outages + 1 /\ faults' = faults
      BY <2>7 DEF Cancel, Crash, Outage
    <3> QED
      BY <1>8, <2>2, <3>1
  <2>8. CASE Panic
    <3>1. queue \in Seq(Apps) /\ queue # <<>> /\ Head(queue).phase = "NoStatus" /\ UNCHANGED <<outages, faults>>
      BY <1>1, <2>8 DEF Panic, TypeOK
    <3>2. 1 \in DOMAIN queue /\ queue[1].phase = "NoStatus"
      BY <3>1
    <3>3. stored = {}
      BY <1>1, <3>2 DEF StatusFirst
    <3>4. RecordsOf(n) = {}
      BY <3>3 DEF RecordsOf
    <3>5. K = 0
      BY <1>4, <3>4, FS_EmptySet
    <3> QED
      BY <1>7, <2>2, <3>1, <3>5
  <2> QED
    BY <1>11, <2>3, <2>4, <2>5, <2>6, <2>7, <2>8 DEF Next, Handler
<1> QED
  BY <1>9, <1>10, <1>11

\* Every step preserves the inductive invariant.
LEMMA NextIInv ==
    ASSUME IInv, [Next]_vars
    PROVE  IInv'
PROOF
<1>1. CASE Next
  <2>1. /\ TypeOK /\ HandlerKnows /\ RecordsCounted /\ CursorBacked /\ ImagesBacked
        /\ StatusFirst /\ DeploymentsAgree
    BY DEF IInv
  <2>2. TypeOK' /\ HandlerKnows' /\ RecordsCounted'
    BY <1>1, <2>1, TypeStep, HandlerStep, CountStep
  <2>3. CursorBacked' /\ ImagesBacked' /\ StatusFirst' /\ DeploymentsAgree'
    BY <1>1, <2>1, BackedStep, StatusStep, DeploymentsStep
  <2>4. DuplicatesCounted'
    BY <1>1, DuplicatesStep
  <2> QED
    BY <2>2, <2>3, <2>4 DEF IInv
<1>2. CASE UNCHANGED vars
  <2>1. UNCHANGED <<app, now, cursor, file, pc, stop, text, image, queue, watching, se, stored, faults, outages>>
    BY <1>2 DEF vars
  <2>2. TypeOK' /\ HandlerKnows' /\ RecordsCounted'
    BY <2>1 DEF IInv, TypeOK, AppType, CheckpointType, HandlerKnows, RecordsCounted
  <2>3. CursorBacked' /\ ImagesBacked' /\ StatusFirst'
    BY <2>1 DEF IInv, CursorBacked, ImagesBacked, Backed, StatusFirst
  <2>4. DeploymentsAgree'
    BY <2>1 DEF IInv, DeploymentsAgree, Deployments, Told, Versions
  <2>5. DuplicatesCounted'
    BY <2>1 DEF IInv, DuplicatesCounted, RecordsOf, Covered
  <2> QED
    BY <2>2, <2>3, <2>4, <2>5 DEF IInv
<1> QED
  BY <1>1, <1>2

-------------------------------------------------------------------------------
(* The theorems. *)

\* The informer's variables stay typed: a handler at work has an event, and every version,
\* cursor and record is well formed (collector.go 225-302).
THEOREM InformerTypeOK == Spec => []TypeOK
PROOF
<1>1. IInv => TypeOK
  BY DEF IInv
<1> QED
  BY <1>1, InitIInv, NextIInv, PTL DEF Spec

\* The checkpoint never runs ahead of the repository, in memory or in the file, however the
\* handler, the shutdown save, failures and crashes interleave (collector.go 99-100, 289-302).
THEOREM InformerCursorBacked == Spec => []CursorBacked
PROOF
<1>1. IInv => CursorBacked
  BY DEF IInv
<1> QED
  BY <1>1, InitIInv, NextIInv, PTL DEF Spec

\* A deployment has at most one record more than there were failing calls, crashes and
\* shutdowns, however often the watch was lost and listed again (collector.go 270-302).
THEOREM InformerDuplicatesCounted == Spec => []DuplicatesNeedOutages
PROOF
<1>1. IInv => DuplicatesNeedOutages
  <2> SUFFICES ASSUME IInv, NEW n \in HistoryIds \ {0}
               PROVE  Cardinality(RecordsOf(n)) <= 1 + outages + faults
    BY DEF DuplicatesNeedOutages
  <2>1. Cardinality(RecordsOf(n)) <= outages + faults + (IF Covered(n) THEN 1 ELSE 0)
    BY DEF IInv, DuplicatesCounted
  <2>2. IsFiniteSet(RecordsOf(n)) /\ Cardinality(RecordsOf(n)) \in Nat
    BY FS_Subset, FS_CardinalityType DEF IInv, RecordsCounted, RecordsOf
  <2>3. faults \in Nat /\ outages \in Nat
    BY ArgoInformerAssumption DEF IInv, TypeOK
  <2> QED
    BY <2>1, <2>2, <2>3
<1> QED
  BY <1>1, InitIInv, NextIInv, PTL DEF Spec

\* A deployment, as the handler sees it in any version of the application.
Deployed == {f \in SourceEvents : f.type = "argo.sync.finished" /\ f.hist > 0}

\* The collector goes on, and its shutdown does not store back a cursor it has read.
KeepsOn == pc # "down" /\ pc' # "down" /\ ~(stop = "read" /\ stop' = "back")

\* What the cursor has passed, it has passed after the step.
StaysHandled ==
    KeepsOn => \A f \in Deployed : ~shouldProcess(f, cursor) => ~shouldProcess(f, cursor')

\* From a start to a crash, a deployment that the cursor has passed is never wanted again,
\* whatever versions, relists, failures and saves come in between; only the save of a shutdown,
\* in one step, may take an advance back (collector.go 100, 301, checkpoint.go 58-61).
THEOREM InformerStaysHandled == Spec => [][StaysHandled]_vars
PROOF
<1>1. IInv /\ [Next]_vars => [StaysHandled]_vars
  <2> SUFFICES ASSUME IInv, Next, KeepsOn, NEW f \in Deployed, ~shouldProcess(f, cursor)
               PROVE  ~shouldProcess(f, cursor')
    BY DEF StaysHandled
  <2>1. CASE Advance
    <3>1. PICK c, e : c = cursor /\ e = se
      OBVIOUS
    <3>2. c \in Cursors /\ e \in SourceEvents /\ e.type = "argo.sync.finished"
      BY <2>1, <3>1 DEF IInv, TypeOK, CheckpointType, HandlerKnows, Advance
    <3>3. PICK d : d = advanceCheckpoint(c, e)
      OBVIOUS
    <3>4. cursor' = d
      BY <2>1, <3>1, <3>3 DEF Advance
    <3>5. d \in Cursors /\ d.hist >= c.hist /\ d.at >= c.at
      BY <3>2, <3>3, AdvanceCursor
    <3>6. /\ f.hist \in Nat /\ f.hist > 0 /\ f.type = "argo.sync.finished"
          /\ f.at \in Int /\ c.at \in Int /\ d.at \in Int /\ c.hist \in Nat /\ d.hist \in Nat
      BY <3>2, <3>5, ArgoAppAssumption DEF Deployed, SourceEvents, Cursors, Times
    <3>7. ~(f.hist > c.hist) /\ ~(f.hist = c.hist /\ f.at > c.at)
      BY <3>1, <3>6 DEF shouldProcess, historyCursorShouldProcess
    <3>8. ~(f.hist > d.hist) /\ ~(f.hist = d.hist /\ f.at > d.at)
      BY <3>5, <3>6, <3>7
    <3>9. ~shouldProcess(f, d)
      BY <3>6, <3>8 DEF shouldProcess, historyCursorShouldProcess
    <3> QED
      BY <3>4, <3>9
  <2>2. CASE ~Advance
    <3>1. cursor' = cursor
      BY <2>2 DEF KeepsOn, Next, Argo, Start, Handler, Deliver, Panic, Ingest, TruncateFile, WriteFile,
                  Relist, IngestFails, SaveFails, Disconnect, Cancel, StopRead, StopStore, StopTruncate,
                  StopWrite, Exit, Crash, Died
    <3> QED
      BY <3>1
  <2> QED
    BY <2>1, <2>2
<1> QED
  BY <1>1, InitIInv, NextIInv, PTL DEF Spec
===============================================================================
