------------------------------- MODULE ExportJob ------------------------------
(***************************************************************************)
(* Evidence exports: POST /v1/exports runs Service.CreateExport in the     *)
(* goroutine and with the context of its HTTP request - insert the job,    *)
(* select its events, write the pack, mark the job completed or failed,    *)
(* read it back - while other requests look the job up and download its    *)
(* artifact.  The client may hang up, a database call may fail and the     *)
(* process may die between any two of these steps.                         *)
(***************************************************************************)
EXTENDS Naturals

CONSTANTS Requests,     \* POST /v1/exports
          Readers,      \* GET /v1/exports/{id}/download
          Jobs,         \* values of the nanosecond clock in exp_<n>
          NoJob,
          MaxCuts       \* bound on cancelled requests, failing database calls and crashes

ASSUME ExportJobAssumption == NoJob \notin Jobs /\ MaxCuts \in Nat

VARIABLES status,       \* status[j]: row of table exports, "absent" before its INSERT
          uri,          \* jobs whose artifact_uri is set
          artifact,     \* artifact[j]: the pack on disk: "none", "part", "whole"
          step,         \* step[r]: where the request stands
          job,          \* job[r]: the job it created
          reply,        \* reply[r]: "none", "ok", "error"
          cut,          \* requests that failed in a call or died (history)
          cancelled,    \* requests whose every further database call fails
          look,         \* look[d]: the job a download has found ready, or NoJob
          got,          \* got[d]: what the download returned
          cuts

vars == <<status, uri, artifact, step, job, reply, cut, cancelled, look, got, cuts>>
db == <<status, uri>>
readers == <<look, got>>

Steps == {"idle", "created", "items", "pack", "writing", "complete", "readback", "failing", "done"}

TypeOK ==
    /\ status \in [Jobs -> {"absent", "pending", "completed", "failed"}]
    /\ uri \subseteq Jobs
    /\ artifact \in [Jobs -> {"none", "part", "whole"}]
    /\ step \in [Requests -> Steps]
    /\ job \in [Requests -> Jobs \cup {NoJob}]
    /\ reply \in [Requests -> {"none", "ok", "error"}]
    /\ cut \subseteq Requests /\ cancelled \subseteq Requests
    /\ look \in [Readers -> Jobs \cup {NoJob}]
    /\ got \in [Readers -> {"none", "not ready", "not found", "whole", "part"}]
    /\ cuts \in 0..MaxCuts

Init ==
    /\ status = [j \in Jobs |-> "absent"] /\ uri = {}
    /\ artifact = [j \in Jobs |-> "none"]
    /\ step = [r \in Requests |-> "idle"] /\ job = [r \in Requests |-> NoJob]
    /\ reply = [r \in Requests |-> "none"]
    /\ cut = {} /\ cancelled = {}
    /\ look = [d \in Readers |-> NoJob] /\ got = [d \in Readers |-> "none"]
    /\ cuts = 0

Goto(r, s) == step' = [step EXCEPT ![r] = s]
Reply(r, a) == reply' = [reply EXCEPT ![r] = a]
Running(r) == step[r] \notin {"idle", "done"}

\* A database call of r fails: because the context is gone, or on its own.
CallFails(r) ==
    /\ cut' = cut \cup {r}
    /\ IF r \in cancelled THEN UNCHANGED cuts ELSE cuts < MaxCuts /\ cuts' = cuts + 1

\* repo.CreateExport, INSERT: a row with the same nanosecond is a PRIMARY KEY violation.
CreateExport(r, j) ==
    /\ step[r] = "idle"
    /\ IF status[j] = "absent"
       THEN /\ status' = [status EXCEPT ![j] = "pending"]
            /\ job' = [job EXCEPT ![r] = j]
            /\ Goto(r, "created") /\ UNCHANGED reply
       ELSE Goto(r, "done") /\ Reply(r, "error") /\ UNCHANGED <<status, job>>
    /\ UNCHANGED <<uri, artifact, cut, cancelled, readers, cuts>>

\* The INSERT fails without a row.
CreateExportFails(r) ==
    /\ step[r] = "idle"
    /\ CallFails(r)
    /\ Goto(r, "done") /\ Reply(r, "error")
    /\ UNCHANGED <<db, artifact, job, cancelled, readers>>

\* The rest of repo.CreateExport reads the row back.
Created(r) ==
    /\ step[r] = "created" /\ r \notin cancelled
    /\ Goto(r, "items")
    /\ UNCHANGED <<db, artifact, job, reply, cut, cancelled, readers, cuts>>

\* exportItemsForJob: the filter is well formed or not.
exportItemsForJob(r) ==
    /\ step[r] = "items" /\ r \notin cancelled
    /\ Goto(r, "pack") \/ Goto(r, "failing")
    /\ UNCHANGED <<db, artifact, job, reply, cut, cancelled, readers, cuts>>

exportItemsFails(r) ==
    /\ step[r] = "items"
    /\ CallFails(r)
    /\ Goto(r, "failing")
    /\ UNCHANGED <<db, artifact, job, reply, cancelled, readers>>

\* CreateEvidencePack: os.WriteFile creates the file, then fills it; it ignores the context.
OpenPack(r) ==
    /\ step[r] = "pack"
    /\ artifact' = [artifact EXCEPT ![job[r]] = "part"]
    /\ Goto(r, "writing")
    /\ UNCHANGED <<db, job, reply, cut, cancelled, readers, cuts>>

\* Mutant of WritePack: the pack is not flushed before the job goes on.
WritePackUnflushed(r) ==
    /\ step[r] = "writing"
    /\ Goto(r, "complete")
    /\ UNCHANGED <<db, artifact, job, reply, cut, cancelled, readers, cuts>>

WritePack(r) ==
    /\ step[r] = "writing"
    /\ artifact' = [artifact EXCEPT ![job[r]] = "whole"]
    /\ Goto(r, "complete")
    /\ UNCHANGED <<db, job, reply, cut, cancelled, readers, cuts>>

\* Mutant of PackFails: the error is returned without marking the job failed.
PackFailsSilently(r) ==
    /\ step[r] \in {"pack", "writing"}
    /\ Goto(r, "done") /\ Reply(r, "error")
    /\ UNCHANGED <<db, artifact, job, cut, cancelled, readers, cuts>>

PackFails(r) ==
    /\ step[r] \in {"pack", "writing"}
    /\ Goto(r, "failing")
    /\ UNCHANGED <<db, artifact, job, reply, cut, cancelled, readers, cuts>>

SetExportFailed(r) ==
    /\ step[r] = "failing" /\ r \notin cancelled
    /\ status' = [status EXCEPT ![job[r]] = "failed"]
    /\ Goto(r, "done") /\ Reply(r, "error")
    /\ UNCHANGED <<uri, artifact, job, cut, cancelled, readers, cuts>>

SetExportCompleted(r) ==
    /\ step[r] = "complete" /\ r \notin cancelled
    /\ status' = [status EXCEPT ![job[r]] = "completed"]
    /\ uri' = uri \cup {job[r]}
    /\ Goto(r, "readback")
    /\ UNCHANGED <<artifact, job, reply, cut, cancelled, readers, cuts>>

ReadBack(r) ==
    /\ step[r] = "readback" /\ r \notin cancelled
    /\ Goto(r, "done") /\ Reply(r, "ok")
    /\ UNCHANGED <<db, artifact, job, cut, cancelled, readers, cuts>>

\* Mutant of CallLost: whatever call fails, the job is marked failed.
CallLostMarksFailed(r) ==
    /\ step[r] \in {"created", "failing", "complete", "readback"}
    /\ CallFails(r)
    /\ status' = [status EXCEPT ![job[r]] = "failed"]
    /\ Goto(r, "done") /\ Reply(r, "error")
    /\ UNCHANGED <<uri, artifact, job, cancelled, readers>>

\* Any other database call of the request fails; the error of SetExportFailed is ignored.
\* The UPDATE to completed may have taken effect although its answer is an error.
CallLost(r) ==
    /\ step[r] \in {"created", "failing", "complete", "readback"}
    /\ CallFails(r)
    /\ \/ UNCHANGED db
       \/ /\ step[r] = "complete" /\ r \notin cancelled
          /\ status' = [status EXCEPT ![job[r]] = "completed"]
          /\ uri' = uri \cup {job[r]}
    /\ Goto(r, "done") /\ Reply(r, "error")
    /\ UNCHANGED <<artifact, job, cancelled, readers>>

\* The client hangs up.
Cancel(r) ==
    /\ Running(r) /\ r \notin cancelled
    /\ cuts < MaxCuts /\ cuts' = cuts + 1
    /\ cancelled' = cancelled \cup {r}
    /\ UNCHANGED <<db, artifact, step, job, reply, cut, readers>>

\* The process dies; rows and files stay as they are and nothing resumes a job.
Crash ==
    /\ cuts < MaxCuts /\ cuts' = cuts + 1
    /\ step' = [r \in Requests |-> IF Running(r) THEN "done" ELSE step[r]]
    /\ reply' = [r \in Requests |-> IF Running(r) THEN "error" ELSE reply[r]]
    /\ cut' = cut \cup {r \in Requests : Running(r)}
    /\ look' = [d \in Readers |-> NoJob]
    /\ UNCHANGED <<db, artifact, job, cancelled, got>>

\* Mutant of GetExport: any job with a file is offered for download.
GetExportAnyFile(d, j) ==
    /\ look[d] = NoJob
    /\ IF artifact[j] # "none"
       THEN look' = [look EXCEPT ![d] = j] /\ UNCHANGED got
       ELSE got' = [got EXCEPT ![d] = "not ready"] /\ UNCHANGED look
    /\ UNCHANGED <<db, artifact, step, job, reply, cut, cancelled, cuts>>

\* handleExportDownload, first half: EXPORT_NOT_READY without an artifact URI.
GetExport(d, j) ==
    /\ look[d] = NoJob
    /\ CASE status[j] = "absent"            -> got' = [got EXCEPT ![d] = "not found"] /\ UNCHANGED look
         [] status[j] # "absent" /\ j \notin uri -> got' = [got EXCEPT ![d] = "not ready"] /\ UNCHANGED look
         [] status[j] # "absent" /\ j \in uri -> look' = [look EXCEPT ![d] = j] /\ UNCHANGED got
    /\ UNCHANGED <<db, artifact, step, job, reply, cut, cancelled, cuts>>

\* Second half: ReadArtifact.
ReadArtifact(d) ==
    /\ look[d] # NoJob
    /\ got' = [got EXCEPT ![d] = artifact[look[d]]]
    /\ look' = [look EXCEPT ![d] = NoJob]
    /\ UNCHANGED <<db, artifact, step, job, reply, cut, cancelled, cuts>>

Progress(r) ==
    \/ Created(r) \/ exportItemsForJob(r) \/ exportItemsFails(r)
    \/ OpenPack(r) \/ WritePack(r) \/ PackFails(r)
    \/ SetExportFailed(r) \/ SetExportCompleted(r) \/ ReadBack(r) \/ CallLost(r)

Next ==
    \/ \E r \in Requests, j \in Jobs : CreateExport(r, j)
    \/ \E r \in Requests : CreateExportFails(r) \/ Progress(r) \/ Cancel(r)
    \/ Crash
    \/ \E d \in Readers, j \in Jobs : GetExport(d, j)
    \/ \E d \in Readers : ReadArtifact(d)

Spec == Init /\ [][Next]_vars

\* The goroutine of a request that has begun goes on to its end.
FairSpec == Spec /\ \A r \in Requests : WF_vars(Progress(r))

-------------------------------------------------------------------------------
(* The parts of the inductive invariant that are not properties of their own. *)

\* A job belongs to the one request that inserted its row.
JobOwners ==
    /\ \A r \in Requests : Running(r) \/ reply[r] = "ok" => job[r] \in Jobs
    /\ \A r \in Requests : step[r] = "idle" => job[r] = NoJob
    /\ \A r \in Requests : job[r] \in Jobs => status[job[r]] # "absent"
    /\ \A r, s \in Requests : job[r] \in Jobs /\ job[r] = job[s] => r = s

\* What a request knows of its own row and pack from where it stands.
Stages ==
    \A r \in Requests :
        /\ step[r] \in Steps \ {"idle", "readback", "done"} => status[job[r]] = "pending"
        /\ step[r] \in {"complete", "readback"} => artifact[job[r]] = "whole"
        /\ step[r] = "readback" => status[job[r]] = "completed"
        /\ step[r] # "done" => reply[r] = "none"

\* The URI is set for completed jobs only, and their packs are whole; a download looks at
\* such a job only.
Published ==
    /\ \A j \in Jobs : j \in uri <=> status[j] = "completed"
    /\ \A j \in Jobs : status[j] = "completed" => artifact[j] = "whole"
    /\ \A d \in Readers : look[d] \in Jobs => status[look[d]] = "completed"

-------------------------------------------------------------------------------
(* Properties. *)

\* A download never returns a half-written pack: the URI is published after the write, and
\* nothing writes the file of a published job again (service.go 144-150, handlers_exports.go 71-87).
DownloadsWhole == \A d \in Readers : got[d] # "part"

\* A job is left pending by nobody but a cut request: it hung up, lost its database or died.
\* Every other failure ends in SetExportFailed (service.go 138-153).
PendingHasOwner ==
    \A j \in Jobs : status[j] = "pending" =>
        \E r \in Requests : job[r] = j /\ (Running(r) \/ r \in cut)

\* What the caller of POST /v1/exports is told holds: a returned job is completed and its
\* pack is whole; after an error of an uncut request the job is failed or was never created.
AnswersTruthful ==
    \A r \in Requests :
        /\ reply[r] = "ok" => status[job[r]] = "completed" /\ job[r] \in uri /\ artifact[job[r]] = "whole"
        /\ reply[r] = "error" /\ r \notin cut => job[r] = NoJob \/ status[job[r]] = "failed"

IInv ==
    /\ TypeOK
    /\ JobOwners
    /\ Stages
    /\ Published
    /\ DownloadsWhole
    /\ PendingHasOwner
    /\ AnswersTruthful

\* completed and failed are final: no late failure of a request overwrites the outcome.
OutcomeFinal ==
    [][\A j \in Jobs : status[j] \in {"completed", "failed"} => status'[j] = status[j] /\ (j \in uri' <=> j \in uri)]_vars

\* Every job is decided, unless its request was cut.
JobDecided ==
    \A r \in Requests :
        Running(r) ~> (r \in cut \/ job[r] = NoJob \/ status[job[r]] \in {"completed", "failed"})
===============================================================================
