---------------------------- MODULE ExportJobProofs ---------------------------
(***************************************************************************)
(* Proofs about ExportJob, for any requests, readers, jobs and number of   *)
(* failures: the inductive invariant and the safety properties it implies. *)
(* Actions that change the same variables share a lemma.                   *)
(***************************************************************************)
EXTENDS ExportJob, TLAPS

\* Init establishes the inductive invariant.
LEMMA InitIInv == Init => IInv
  BY ExportJobAssumption
  DEF Init, IInv, TypeOK, JobOwners, Stages, Published, DownloadsWhole, PendingHasOwner,
      AnswersTruthful, Steps, Running

\* What every lemma uses of the job of a request: a running request has one, and no two
\* requests share one.
LEMMA OwnJob ==
  ASSUME IInv, NEW r \in Requests
  PROVE  /\ job[r] \in Jobs \cup {NoJob}
         /\ step[r] \in Steps
         /\ step[r] \notin {"idle", "done"} => job[r] \in Jobs
         /\ \A q \in Requests : job[r] \in Jobs /\ job[q] = job[r] => q = r
  BY DEF IInv, TypeOK, JobOwners, Running

\* The count of failures below its bound can be raised.
LEMMA OneMore ==
  ASSUME NEW c \in 0..MaxCuts, c < MaxCuts
  PROVE  c + 1 \in 0..MaxCuts
  BY ExportJobAssumption

\* A row is inserted under a free key.
LEMMA InsertIInv ==
  ASSUME IInv, NEW r \in Requests, NEW k \in Jobs, CreateExport(r, k), status[k] = "absent"
  PROVE  IInv'
  <1> USE ExportJobAssumption
  <1>0. TypeOK /\ JobOwners /\ Stages /\ Published /\ DownloadsWhole /\ PendingHasOwner /\ AnswersTruthful
    BY DEF IInv
  <1>1. /\ step[r] = "idle" /\ step' = [step EXCEPT ![r] = "created"]
        /\ job' = [job EXCEPT ![r] = k]
        /\ status' = [status EXCEPT ![k] = "pending"]
        /\ UNCHANGED <<uri, artifact, reply, cut, cancelled, look, got, cuts>>
    BY DEF CreateExport, Goto, readers
  <1>2. /\ \A q \in Requests : step'[q] = IF q = r THEN "created" ELSE step[q]
        /\ \A q \in Requests : job'[q] = IF q = r THEN k ELSE job[q]
        /\ \A j \in Jobs : status'[j] = IF j = k THEN "pending" ELSE status[j]
    BY <1>0, <1>1 DEF TypeOK
  <1>3. \A q \in Requests : job[q] \in Jobs \cup {NoJob} /\ job[q] # k
    BY <1>0 DEF TypeOK, JobOwners
  <1>4. reply[r] = "none" /\ \A q \in Requests : reply[q] = "ok" => job[q] \in Jobs
    BY <1>0, <1>1 DEF Stages, JobOwners
  <1>5. TypeOK'
    BY <1>0, <1>1 DEF TypeOK, Steps
  <1>6. JobOwners'
    <2>1. \A q \in Requests : Running(q)' \/ reply'[q] = "ok" => job'[q] \in Jobs
      BY <1>0, <1>1, <1>2 DEF JobOwners, Running
    <2>2. \A q \in Requests : step'[q] = "idle" => job'[q] = NoJob
      BY <1>0, <1>2 DEF JobOwners
    <2>3. \A q \in Requests : job'[q] \in Jobs => status'[job'[q]] # "absent"
      BY <1>0, <1>2 DEF JobOwners
    <2>4. \A q, s \in Requests : job'[q] \in Jobs /\ job'[q] = job'[s] => q = s
      BY <1>0, <1>2, <1>3 DEF JobOwners
    <2> QED BY <2>1, <2>2, <2>3, <2>4 DEF JobOwners
  <1>7. Stages'
    BY <1>0, <1>1, <1>2, <1>3 DEF Stages, Steps, JobOwners, Running
  <1>8. Published'
    <2>1. \A d \in Readers : look[d] \in Jobs => look[d] # k
      BY <1>0 DEF Published
    <2> QED BY <1>0, <1>1, <1>2, <2>1 DEF Published
  <1>9. DownloadsWhole'
    BY <1>0, <1>1 DEF DownloadsWhole
  <1>10. PendingHasOwner'
    BY <1>0, <1>1, <1>2, <1>3 DEF PendingHasOwner, JobOwners, Running
  <1>11. AnswersTruthful'
    <2>1. \A q \in Requests : q # r /\ job[q] \in Jobs => status'[job'[q]] = status[job[q]] /\ job'[q] = job[q]
      BY <1>2, <1>3
    <2> QED BY <1>0, <1>1, <1>2, <1>3, <1>4, <2>1 DEF AnswersTruthful
  <1> QED BY <1>5, <1>6, <1>7, <1>8, <1>9, <1>10, <1>11 DEF IInv

\* A request with a pending job moves on without touching rows or files.
LEMMA MoveIInv ==
  ASSUME IInv, NEW r \in Requests, NEW t \in {"items", "pack", "failing"},
         step[r] \in {"created", "items", "pack", "writing"}, Goto(r, t),
         UNCHANGED <<status, uri, artifact, job, reply, cancelled, look, got>>,
         cut \subseteq cut', cut' \subseteq Requests, cuts' \in 0..MaxCuts
  PROVE  IInv'
  <1>0. TypeOK /\ JobOwners /\ Stages /\ Published /\ DownloadsWhole /\ PendingHasOwner /\ AnswersTruthful
    BY DEF IInv
  <1>1. \A q \in Requests : step'[q] = IF q = r THEN t ELSE step[q]
    BY <1>0 DEF TypeOK, Goto
  <1>2. TypeOK'
    BY <1>0 DEF TypeOK, Goto, Steps
  <1>3. JobOwners'
    BY <1>0, <1>1 DEF JobOwners, Running
  <1>4. Stages'
    BY <1>0, <1>1 DEF Stages, Steps
  <1>5. Published' /\ DownloadsWhole'
    BY <1>0 DEF Published, DownloadsWhole
  <1>6. PendingHasOwner'
    BY <1>0, <1>1 DEF PendingHasOwner, Running
  <1>7. AnswersTruthful'
    BY <1>0 DEF AnswersTruthful
  <1> QED BY <1>2, <1>3, <1>4, <1>5, <1>6, <1>7 DEF IInv

\* A request writes the pack of its own pending job.
LEMMA WriteIInv ==
  ASSUME IInv, NEW r \in Requests, OpenPack(r) \/ WritePack(r)
  PROVE  IInv'
  <1>0. TypeOK /\ JobOwners /\ Stages /\ Published /\ DownloadsWhole /\ PendingHasOwner /\ AnswersTruthful
    BY DEF IInv
  <1>1. PICK t \in {"writing", "complete"}, a \in {"part", "whole"} :
        /\ step[r] \in {"pack", "writing"}
        /\ step' = [step EXCEPT ![r] = t]
        /\ artifact' = [artifact EXCEPT ![job[r]] = a]
        /\ t = "complete" => a = "whole"
    BY DEF OpenPack, WritePack, Goto
  <1>2. UNCHANGED <<status, uri, job, reply, cut, cancelled, look, got, cuts>>
    BY DEF OpenPack, WritePack, db, readers
  <1>3. job[r] \in Jobs /\ status[job[r]] = "pending"
    BY <1>0, <1>1 DEF JobOwners, Stages, Running, Steps
  <1>4. /\ \A q \in Requests : step'[q] = IF q = r THEN t ELSE step[q]
        /\ \A j \in Jobs : artifact'[j] = IF j = job[r] THEN a ELSE artifact[j]
    BY <1>0, <1>1 DEF TypeOK
  <1>5. \A q \in Requests : q # r => job[q] # job[r]
    BY <1>3, OwnJob
  <1>6. TypeOK'
    BY <1>0, <1>1, <1>2 DEF TypeOK, Steps
  <1>7. JobOwners'
    BY <1>0, <1>1, <1>2, <1>4 DEF JobOwners, Running
  <1>8. Stages'
    <2>1. \A q \in Requests : q # r /\ step[q] \in {"complete", "readback"} => artifact'[job[q]] = artifact[job[q]]
      BY <1>0, <1>4, <1>5 DEF JobOwners, Running
    <2> QED BY <1>0, <1>1, <1>2, <1>3, <1>4, <2>1 DEF Stages, Steps
  <1>9. Published' /\ DownloadsWhole'
    BY <1>0, <1>2, <1>3, <1>4 DEF Published, DownloadsWhole
  <1>10. PendingHasOwner'
    BY <1>0, <1>1, <1>2, <1>4 DEF PendingHasOwner, Running
  <1>11. AnswersTruthful'
    BY <1>0, <1>2, <1>3, <1>4 DEF AnswersTruthful, JobOwners
  <1> QED BY <1>6, <1>7, <1>8, <1>9, <1>10, <1>11 DEF IInv

\* A request ends without touching rows or files: with a completed job, with no job, or cut.
LEMMA EndIInv ==
  ASSUME IInv, NEW r \in Requests, NEW a \in {"ok", "error"},
         Goto(r, "done"), Reply(r, a), step[r] # "done",
         UNCHANGED <<status, uri, artifact, job, cancelled, look, got>>,
         cut \subseteq cut', cut' \subseteq Requests, cuts' \in 0..MaxCuts,
         \/ a = "ok" /\ step[r] = "readback"
         \/ a = "error" /\ (step[r] = "idle" \/ r \in cut')
  PROVE  IInv'
  <1>0. TypeOK /\ JobOwners /\ Stages /\ Published /\ DownloadsWhole /\ PendingHasOwner /\ AnswersTruthful
    BY DEF IInv
  <1>1. /\ \A q \in Requests : step'[q] = IF q = r THEN "done" ELSE step[q]
        /\ \A q \in Requests : reply'[q] = IF q = r THEN a ELSE reply[q]
    BY <1>0 DEF TypeOK, Goto, Reply
  <1>2. TypeOK'
    BY <1>0 DEF TypeOK, Goto, Reply, Steps
  <1>3. JobOwners'
    BY <1>0, <1>1 DEF JobOwners, Running
  <1>4. Stages'
    BY <1>0, <1>1 DEF Stages, Steps
  <1>5. Published' /\ DownloadsWhole'
    BY <1>0 DEF Published, DownloadsWhole
  <1>6. PendingHasOwner'
    <2> SUFFICES ASSUME NEW j \in Jobs, status[j] = "pending"
                 PROVE  \E q \in Requests : job[q] = j /\ (step'[q] \notin {"idle", "done"} \/ q \in cut')
      BY DEF PendingHasOwner, Running
    <2>1. PICK q \in Requests : job[q] = j /\ (step[q] \notin {"idle", "done"} \/ q \in cut)
      BY <1>0 DEF PendingHasOwner, Running
    <2>2. q # r \/ r \in cut'
      BY <1>0, <2>1, ExportJobAssumption DEF Stages, JobOwners
    <2> QED BY <1>1, <2>1, <2>2
  <1>7. AnswersTruthful'
    BY <1>0, <1>1 DEF AnswersTruthful, Stages, JobOwners, Published, Running
  <1> QED BY <1>2, <1>3, <1>4, <1>5, <1>6, <1>7 DEF IInv

\* A request decides its own pending job: failed, or completed once the pack is whole.
LEMMA DecideIInv ==
  ASSUME IInv, NEW r \in Requests, NEW o \in {"failed", "completed"},
         NEW t \in {"readback", "done"}, NEW a \in {"none", "error"},
         Goto(r, t), Reply(r, a), status' = [status EXCEPT ![job[r]] = o],
         UNCHANGED <<artifact, job, cancelled, look, got>>,
         cut \subseteq cut', cut' \subseteq Requests, cuts' \in 0..MaxCuts,
         t = "readback" <=> a = "none",
         \/ o = "failed" /\ step[r] = "failing" /\ t = "done" /\ uri' = uri
         \/ o = "completed" /\ step[r] = "complete" /\ uri' = uri \cup {job[r]} /\ (t = "readback" \/ r \in cut')
  PROVE  IInv'
  <1>0. TypeOK /\ JobOwners /\ Stages /\ Published /\ DownloadsWhole /\ PendingHasOwner /\ AnswersTruthful
    BY DEF IInv
  <1>1. job[r] \in Jobs /\ status[job[r]] = "pending" /\ (o = "completed" => artifact[job[r]] = "whole")
    BY <1>0 DEF JobOwners, Stages, Running, Steps
  <1>2. /\ \A q \in Requests : step'[q] = IF q = r THEN t ELSE step[q]
        /\ \A q \in Requests : reply'[q] = IF q = r THEN a ELSE reply[q]
        /\ \A j \in Jobs : status'[j] = IF j = job[r] THEN o ELSE status[j]
    BY <1>0, <1>1 DEF TypeOK, Goto, Reply
  <1>3. \A q \in Requests : q # r => job[q] # job[r]
    BY <1>1, OwnJob
  <1>4. TypeOK'
    BY <1>0, <1>1 DEF TypeOK, Goto, Reply, Steps
  <1>5. JobOwners'
    BY <1>0, <1>1, <1>2 DEF JobOwners, Running
  <1>6. Stages'
    <2>1. \A q \in Requests : q # r /\ step[q] \in Steps \ {"idle", "done"} => status'[job[q]] = status[job[q]]
      BY <1>0, <1>2, <1>3 DEF JobOwners, Running
    <2> QED BY <1>0, <1>1, <1>2, <2>1 DEF Stages, Steps
  <1>7. Published' /\ DownloadsWhole'
    BY <1>0, <1>1, <1>2 DEF Published, DownloadsWhole
  <1>8. PendingHasOwner'
    BY <1>0, <1>2 DEF PendingHasOwner, Running
  <1>9. AnswersTruthful'
    <2>1. \A q \in Requests : q # r /\ job[q] \in Jobs => status'[job[q]] = status[job[q]]
      BY <1>2, <1>3
    <2>2. \A q \in Requests : job[q] \in Jobs \cup {NoJob} /\ (reply[q] = "ok" => job[q] \in Jobs)
      BY <1>0 DEF TypeOK, JobOwners
    <2> QED BY <1>0, <1>1, <1>2, <2>1, <2>2 DEF AnswersTruthful
  <1> QED BY <1>4, <1>5, <1>6, <1>7, <1>8, <1>9 DEF IInv

\* A crash cuts every running request and changes neither rows nor files.
LEMMA CrashIInv ==
  ASSUME IInv, Crash
  PROVE  IInv'
  <1>0. TypeOK /\ JobOwners /\ Stages /\ Published /\ DownloadsWhole /\ PendingHasOwner /\ AnswersTruthful
    BY DEF IInv
  <1>1. /\ \A q \in Requests : step'[q] = IF Running(q) THEN "done" ELSE step[q]
        /\ \A q \in Requests : reply'[q] = IF Running(q) THEN "error" ELSE reply[q]
        /\ \A q \in Requests : q \in cut' <=> q \in cut \/ Running(q)
        /\ \A d \in Readers : look'[d] = NoJob
        /\ UNCHANGED <<status, uri, artifact, job, cancelled, got>>
    BY DEF Crash, db
  <1>2. TypeOK'
    <2>1. /\ step' \in [Requests -> Steps]
          /\ reply' \in [Requests -> {"none", "ok", "error"}]
          /\ look' \in [Readers -> Jobs \cup {NoJob}]
          /\ cut' \subseteq Requests
      BY <1>0 DEF TypeOK, Crash, Steps
    <2>2. cuts' \in 0..MaxCuts
      BY <1>0, OneMore DEF TypeOK, Crash
    <2> QED BY <1>0, <1>1, <2>1, <2>2 DEF TypeOK
  <1>3. JobOwners'
    BY <1>0, <1>1 DEF JobOwners, Running
  <1>4. Stages'
    BY <1>0, <1>1 DEF Stages, Steps, Running
  <1>5. Published' /\ DownloadsWhole'
    BY <1>0, <1>1, ExportJobAssumption DEF Published, DownloadsWhole
  <1>6. PendingHasOwner'
    BY <1>0, <1>1 DEF PendingHasOwner, Running
  <1>7. AnswersTruthful'
    BY <1>0, <1>1 DEF AnswersTruthful
  <1> QED BY <1>2, <1>3, <1>4, <1>5, <1>6, <1>7 DEF IInv

\* Nothing but the downloads, the cancelled requests and the failure count changes.
LEMMA ReadIInv ==
  ASSUME IInv, UNCHANGED <<status, uri, artifact, step, job, reply, cut>>,
         TypeOK', Published', DownloadsWhole'
  PROVE  IInv'
  <1>1. JobOwners' /\ Stages' /\ PendingHasOwner' /\ AnswersTruthful'
    BY DEF IInv, JobOwners, Stages, PendingHasOwner, AnswersTruthful, Running
  <1> QED BY <1>1 DEF IInv

\* A download is answered, or finds a completed job, whose pack is whole.
LEMMA DownloadIInv ==
  ASSUME IInv, NEW d \in Readers, (\E j \in Jobs : GetExport(d, j)) \/ ReadArtifact(d)
  PROVE  IInv'
  <1>0. TypeOK /\ Published /\ DownloadsWhole
    BY DEF IInv
  <1>1. CASE \E j \in Jobs : GetExport(d, j)
    <2>1. PICK j \in Jobs : GetExport(d, j)
      BY <1>1
    <2>2. UNCHANGED <<status, uri, artifact, step, job, reply, cut, cancelled, cuts>>
      BY <2>1 DEF GetExport, db
    <2>3. \/ /\ look' = look /\ got' = [got EXCEPT ![d] = "not found"]
          \/ /\ look' = look /\ got' = [got EXCEPT ![d] = "not ready"]
          \/ /\ look' = [look EXCEPT ![d] = j] /\ got' = got /\ j \in uri
      BY <2>1 DEF GetExport
    <2>4. TypeOK'
      BY <1>0, <2>2, <2>3 DEF TypeOK
    <2>5. Published'
      <3>1. \A x \in Readers : look'[x] = look[x] \/ (look'[x] = j /\ j \in uri)
        BY <1>0, <2>3 DEF TypeOK
      <3>2. \A x \in Readers : look'[x] \in Jobs => status[look'[x]] = "completed"
        BY <1>0, <3>1 DEF Published
      <3> QED
        BY <1>0, <2>2, <3>2 DEF Published
    <2>6. DownloadsWhole'
      BY <1>0, <2>2, <2>3 DEF TypeOK, DownloadsWhole
    <2> QED BY <2>2, <2>4, <2>5, <2>6, ReadIInv
  <1>2. CASE ReadArtifact(d)
    <2>1. UNCHANGED <<status, uri, artifact, step, job, reply, cut, cancelled, cuts>>
      BY <1>2 DEF ReadArtifact, db
    <2>2. /\ got' = [got EXCEPT ![d] = "whole"]
          /\ look' = [look EXCEPT ![d] = NoJob]
      <3>1. look[d] \in Jobs
        BY <1>0, <1>2 DEF ReadArtifact, TypeOK
      <3>2. artifact[look[d]] = "whole"
        BY <1>0, <3>1 DEF Published
      <3> QED BY <1>2, <3>2 DEF ReadArtifact
    <2>3. TypeOK'
      BY <1>0, <2>1, <2>2 DEF TypeOK
    <2>4. Published' /\ DownloadsWhole'
      <3>1. \A e \in Readers : look'[e] = (IF e = d THEN NoJob ELSE look[e]) /\ (got'[e] = IF e = d THEN "whole" ELSE got[e])
        BY <1>0, <2>2 DEF TypeOK
      <3> QED BY <1>0, <2>1, <3>1, ExportJobAssumption DEF Published, DownloadsWhole
    <2> QED BY <2>1, <2>3, <2>4, ReadIInv
  <1> QED BY <1>1, <1>2

\* A failing call counts as a failure of the request.
LEMMA FailureCounted ==
  ASSUME IInv, NEW r \in Requests, CallFails(r)
  PROVE  cut \subseteq cut' /\ cut' \subseteq Requests /\ r \in cut' /\ cuts' \in 0..MaxCuts
  <1>1. cuts \in 0..MaxCuts /\ cut \subseteq Requests
    BY DEF IInv, TypeOK
  <1>2. cuts' \in 0..MaxCuts
    BY <1>1, OneMore DEF CallFails
  <1> QED BY <1>1, <1>2 DEF CallFails

\* Every step of a request past the INSERT preserves the invariant.
LEMMA ProgressIInv ==
  ASSUME IInv, NEW r \in Requests, Progress(r)
  PROVE  IInv'
  <1>0. TypeOK /\ Stages
    BY DEF IInv
  <1>1. CASE Created(r)
    BY <1>0, <1>1, MoveIInv DEF Created, TypeOK, db, readers
  <1>2. CASE exportItemsForJob(r)
    BY <1>0, <1>2, MoveIInv DEF exportItemsForJob, TypeOK, db, readers
  <1>3. CASE exportItemsFails(r)
    BY <1>3, FailureCounted, MoveIInv DEF exportItemsFails, db, readers
  <1>4. CASE OpenPack(r) \/ WritePack(r)
    BY <1>4, WriteIInv
  <1>5. CASE PackFails(r)
    BY <1>0, <1>5, MoveIInv DEF PackFails, TypeOK, db, readers
  <1>6. CASE SetExportFailed(r)
    BY <1>0, <1>6, DecideIInv DEF SetExportFailed, TypeOK, readers
  <1>7. CASE SetExportCompleted(r)
    <2>1. Reply(r, "none")
      <3>1. reply[r] = "none"
        BY <1>0, <1>7 DEF SetExportCompleted, Stages
      <3> QED BY <1>0, <1>7, <3>1 DEF SetExportCompleted, Reply, TypeOK
    <2> QED BY <1>0, <1>7, <2>1, DecideIInv DEF SetExportCompleted, TypeOK, readers
  <1>8. CASE ReadBack(r)
    BY <1>0, <1>8, EndIInv DEF ReadBack, TypeOK, db, readers
  <1>9. CASE CallLost(r)
    <2>0. /\ cut \subseteq cut' /\ cut' \subseteq Requests /\ r \in cut' /\ cuts' \in 0..MaxCuts
          /\ Goto(r, "done") /\ Reply(r, "error") /\ step[r] # "done"
          /\ UNCHANGED <<artifact, job, cancelled, look, got>>
      BY <1>9, FailureCounted DEF CallLost, readers
    <2>1. CASE UNCHANGED db
      BY <2>0, <2>1, EndIInv DEF db
    <2>2. CASE ~ UNCHANGED db
      <3>1. /\ step[r] = "complete"
            /\ status' = [status EXCEPT ![job[r]] = "completed"]
            /\ uri' = uri \cup {job[r]}
        BY <1>9, <2>2 DEF CallLost
      <3> QED BY <2>0, <3>1, DecideIInv
    <2> QED BY <2>1, <2>2
  <1> QED BY <1>1, <1>2, <1>3, <1>4, <1>5, <1>6, <1>7, <1>8, <1>9 DEF Progress

\* Every step preserves the invariant.
LEMMA NextIInv == IInv /\ [Next]_vars => IInv'
  <1> SUFFICES ASSUME IInv, [Next]_vars PROVE IInv'
    OBVIOUS
  <1>0. TypeOK /\ Published /\ DownloadsWhole
    BY DEF IInv
  <1>1. CASE \E r \in Requests, j \in Jobs : CreateExport(r, j)
    <2>1. PICK r \in Requests, j \in Jobs : CreateExport(r, j)
      BY <1>1
    <2>2. CASE status[j] = "absent"
      BY <2>1, <2>2, InsertIInv
    <2>3. CASE status[j] # "absent"
      BY <1>0, <2>1, <2>3, EndIInv DEF CreateExport, TypeOK, readers
    <2> QED BY <2>2, <2>3
  <1>2. CASE \E r \in Requests : CreateExportFails(r)
    BY <1>2, FailureCounted, EndIInv DEF CreateExportFails, db, readers
  <1>3. CASE \E r \in Requests : Progress(r)
    BY <1>3, ProgressIInv
  <1>4. CASE \E r \in Requests : Cancel(r)
    <2>1. UNCHANGED <<status, uri, artifact, step, job, reply, cut, look, got>>
      BY <1>4 DEF Cancel, db, readers
    <2>2. cancelled' \subseteq Requests /\ cuts' \in 0..MaxCuts
      BY <1>0, <1>4, OneMore DEF Cancel, TypeOK
    <2>3. TypeOK' /\ Published' /\ DownloadsWhole'
      BY <1>0, <2>1, <2>2 DEF TypeOK, Published, DownloadsWhole
    <2> QED BY <2>1, <2>3, ReadIInv
  <1>5. CASE Crash
    BY <1>5, CrashIInv
  <1>6. CASE \E d \in Readers : (\E j \in Jobs : GetExport(d, j)) \/ ReadArtifact(d)
    BY <1>6, DownloadIInv
  <1>7. CASE UNCHANGED vars
    <2>1. TypeOK' /\ Published' /\ DownloadsWhole'
      BY <1>0, <1>7 DEF TypeOK, Published, DownloadsWhole, vars
    <2> QED BY <1>7, <2>1, ReadIInv DEF vars
  <1> QED BY <1>1, <1>2, <1>3, <1>4, <1>5, <1>6, <1>7 DEF Next

\* The inductive invariant holds in every reachable state.
THEOREM Invariance == Spec => []IInv
  BY InitIInv, NextIInv, PTL DEF Spec

\* Rows, files, requests and downloads stay within their types.
THEOREM TypeCorrect == Spec => []TypeOK
  <1>1. IInv => TypeOK
    BY DEF IInv
  <1> QED BY <1>1, Invariance, PTL

\* No download returns a half-written pack, whatever requests do, fail or die meanwhile.
THEOREM WholePacks == Spec => []DownloadsWhole
  <1>1. IInv => DownloadsWhole
    BY DEF IInv
  <1> QED BY <1>1, Invariance, PTL

\* A pending job has a running request or one that was cut.
THEOREM NoOrphans == Spec => []PendingHasOwner
  <1>1. IInv => PendingHasOwner
    BY DEF IInv
  <1> QED BY <1>1, Invariance, PTL

\* What POST /v1/exports answers is true of rows and files, at any later time too.
THEOREM TrueAnswers == Spec => []AnswersTruthful
  <1>1. IInv => AnswersTruthful
    BY DEF IInv
  <1> QED BY <1>1, Invariance, PTL

\* No step changes the status or the URI of a decided job.
THEOREM DecidedForGood == Spec => OutcomeFinal
  <1>1. ASSUME IInv, [Next]_vars
        PROVE  [\A j \in Jobs : status[j] \in {"completed", "failed"} =>
                   status'[j] = status[j] /\ (j \in uri' <=> j \in uri)]_vars
    <2> SUFFICES ASSUME NEW j \in Jobs, status[j] \in {"completed", "failed"}
                 PROVE  status'[j] = status[j] /\ (j \in uri' <=> j \in uri)
      OBVIOUS
    <2>0. TypeOK /\ JobOwners /\ Stages
      BY <1>1 DEF IInv
    <2>1. CASE UNCHANGED db
      BY <2>1 DEF db
    <2>2. CASE \E r \in Requests, k \in Jobs : CreateExport(r, k)
      BY <2>0, <2>2 DEF CreateExport, TypeOK
    <2>3. CASE \E r \in Requests : SetExportFailed(r) \/ SetExportCompleted(r) \/ CallLost(r)
      <3>1. PICK r \in Requests : SetExportFailed(r) \/ SetExportCompleted(r) \/ CallLost(r)
        BY <2>3
      <3>2. CASE UNCHANGED db
        BY <3>2 DEF db
      <3>3. CASE ~ UNCHANGED db
        <4>1. \E o \in {"failed", "completed"} :
                 /\ status' = [status EXCEPT ![job[r]] = o]
                 /\ uri' = uri \/ uri' = uri \cup {job[r]}
                 /\ step[r] \in {"failing", "complete"}
          BY <3>1, <3>3 DEF SetExportFailed, SetExportCompleted, CallLost
        <4>2. status[job[r]] = "pending"
          BY <2>0, <4>1 DEF Stages, Steps
        <4> QED BY <2>0, <4>1, <4>2 DEF TypeOK
      <3> QED BY <3>2, <3>3
    <2> QED
      <3>1. CASE UNCHANGED vars
        BY <2>1, <3>1 DEF vars, db
      <3>2. CASE Next
        BY <2>1, <2>2, <2>3, <3>2
        DEF Next, Progress, CreateExportFails, Created, exportItemsForJob, exportItemsFails, OpenPack,
            WritePack, PackFails, ReadBack, Cancel, Crash, GetExport, ReadArtifact
      <3> QED BY <1>1, <3>1, <3>2
  <1> QED BY <1>1, Invariance, PTL DEF Spec, OutcomeFinal
===============================================================================
