------------------------------- MODULE SqlStore -------------------------------
(***************************************************************************)
(* SQLRepository.IngestEvent as the database sees it: every call is a      *)
(* transaction of separate statements, and calls of several goroutines     *)
(* interleave between them.  The SELECT of one transaction may be stale    *)
(* when its INSERT runs; the PRIMARY KEY of the events table and the row   *)
(* lock an uncommitted INSERT holds are what is left to keep the promises  *)
(* of EventStore, which this module implements.                            *)
(***************************************************************************)
EXTENDS Naturals

CONSTANTS Clients, Ids, Hashes, NoHash, BlankId, NoReq,
          NoClient,     \* nobody holds an uncommitted row
          MaxFaults     \* how many cancelled contexts, database errors and crashes happen

VARIABLES events,       \* committed rows of table events
          req, reply, accepts,
          phase,        \* phase[c]: where the call's transaction stands
          seen,         \* seen[c]: what getEventTx returned
          owner,        \* owner[id]: transaction with an uncommitted row for id
          faults        \* faults so far

vars == <<events, req, reply, accepts, phase, seen, owner, faults>>

Contract == INSTANCE EventStore
    WITH events <- events, req <- req, reply <- reply, accepts <- accepts

ASSUME ConstantsDistinct ==
    /\ NoHash \notin Hashes
    /\ BlankId \notin Ids
    /\ NoReq \notin Contract!Requests
    /\ NoClient \notin Clients
    /\ MaxFaults \in Nat

Phases == {"out", "begun", "selected", "inserted"}

TypeOK ==
    /\ Contract!TypeOK
    /\ phase \in [Clients -> Phases]
    /\ seen \in [Clients -> Hashes \cup {NoHash}]
    /\ owner \in [Ids -> Clients \cup {NoClient}]
    /\ faults \in 0..MaxFaults

Init ==
    /\ Contract!Init
    /\ phase = [c \in Clients |-> "out"]
    /\ seen = [c \in Clients |-> NoHash]
    /\ owner = [id \in Ids |-> NoClient]
    /\ faults = 0

Pending(c) == Contract!Pending(c)

\* One more fault of the environment.
Fault ==
    /\ faults < MaxFaults
    /\ faults' = faults + 1

Call(c, r) == Contract!Call(c, r) /\ UNCHANGED <<phase, seen, owner, faults>>

\* The call ends with answer a; its transaction is over.
Answer(c, a) ==
    /\ reply' = [reply EXCEPT ![c] = a]
    /\ phase' = [phase EXCEPT ![c] = "out"]

\* Mutant of Released: the rollback is forgotten, a failed transaction keeps its row lock.
ReleasedNever(S) == owner

\* tx.Rollback, deferred: an uncommitted row of the transaction disappears.
Released(S) == [id \in Ids |-> IF owner[id] \in S THEN NoClient ELSE owner[id]]

Reject(c) ==
    /\ Contract!Reject(c)
    /\ UNCHANGED <<phase, seen, owner, faults>>

BeginTx(c) ==
    /\ Pending(c) /\ phase[c] = "out"
    /\ Contract!validateStoredEvent(req[c])
    /\ phase' = [phase EXCEPT ![c] = "begun"]
    /\ UNCHANGED <<events, req, reply, accepts, seen, owner, faults>>

\* SELECT ... WHERE id: committed rows only.
getEventTx(c) ==
    /\ phase[c] = "begun"
    /\ seen' = [seen EXCEPT ![c] = events[req[c].id]]
    /\ phase' = [phase EXCEPT ![c] = "selected"]
    /\ UNCHANGED <<events, req, reply, accepts, owner, faults>>

AnswerDuplicate(c) ==
    /\ phase[c] = "selected"
    /\ seen[c] = req[c].hash
    /\ Answer(c, "duplicate")
    /\ UNCHANGED <<events, req, accepts, seen, owner, faults>>

AnswerConflict(c) ==
    /\ phase[c] = "selected"
    /\ seen[c] \notin {NoHash, req[c].hash}
    /\ Answer(c, "conflict")
    /\ UNCHANGED <<events, req, accepts, seen, owner, faults>>

\* INSERT waits for a transaction that holds an uncommitted row with this key.
CanInsert(c) ==
    /\ phase[c] = "selected"
    /\ seen[c] = NoHash
    /\ owner[req[c].id] = NoClient

\* Mutant of Insert: INSERT ... ON CONFLICT DO UPDATE, so that the key no longer protects the row.
InsertUpsert(c) ==
    /\ CanInsert(c)
    /\ owner' = [owner EXCEPT ![req[c].id] = c]
    /\ phase' = [phase EXCEPT ![c] = "inserted"]
    /\ UNCHANGED <<events, req, reply, accepts, seen, faults>>

Insert(c) ==
    /\ CanInsert(c)
    /\ events[req[c].id] = NoHash
    /\ owner' = [owner EXCEPT ![req[c].id] = c]
    /\ phase' = [phase EXCEPT ![c] = "inserted"]
    /\ UNCHANGED <<events, req, reply, accepts, seen, faults>>

\* Mutant of InsertViolatesKey: any key violation is taken for a duplicate of the same event.
InsertViolatesKeyIsDuplicate(c) ==
    /\ CanInsert(c)
    /\ events[req[c].id] # NoHash
    /\ Answer(c, "duplicate")
    /\ UNCHANGED <<events, req, accepts, seen, owner, faults>>

\* The row appeared since the SELECT: PRIMARY KEY violation, returned as it is.
InsertViolatesKey(c) ==
    /\ CanInsert(c)
    /\ events[req[c].id] # NoHash
    /\ Answer(c, "error")
    /\ UNCHANGED <<events, req, accepts, seen, owner, faults>>

Store(c) ==
    /\ phase[c] = "inserted"
    /\ events' = [events EXCEPT ![req[c].id] = req[c].hash]
    /\ owner' = Released({c})
    /\ UNCHANGED <<req, seen>>

Commit(c) ==
    /\ Store(c)
    /\ accepts' = [accepts EXCEPT ![req[c].id] = @ + 1]
    /\ UNCHANGED faults
    /\ Answer(c, "accepted")

\* The commit took effect, but the connection or the context broke before its answer.
CommitAckLost(c) ==
    /\ Fault
    /\ Store(c)
    /\ Answer(c, "error")
    /\ UNCHANGED accepts

\* Mutant of Abort: the error of tx.Commit is dropped and the lost row is answered as accepted.
AbortAnswersAccepted(c) ==
    /\ Fault
    /\ Pending(c) /\ Contract!validateStoredEvent(req[c])
    /\ Answer(c, IF phase[c] = "inserted" THEN "accepted" ELSE "error")
    /\ owner' = Released({c})
    /\ UNCHANGED <<events, req, accepts, seen>>

\* A statement fails or the context is cancelled: error, rollback.
Abort(c) ==
    /\ Fault
    /\ Pending(c) /\ Contract!validateStoredEvent(req[c])
    /\ Answer(c, "error")
    /\ owner' = Released({c})
    /\ UNCHANGED <<events, req, accepts, seen>>

\* The server process dies: callers lose their connection, the database rolls back.
Crash ==
    /\ Fault
    /\ reply' = [c \in Clients |-> IF Pending(c) THEN "error" ELSE reply[c]]
    /\ phase' = [c \in Clients |-> "out"]
    /\ owner' = Released(Clients)
    /\ UNCHANGED <<events, req, accepts, seen>>

IngestEvent(c) ==
    \/ Reject(c) \/ BeginTx(c) \/ getEventTx(c)
    \/ AnswerDuplicate(c) \/ AnswerConflict(c)
    \/ Insert(c) \/ InsertViolatesKey(c) \/ Commit(c)

Next ==
    \/ \E c \in Clients, r \in Contract!Requests : Call(c, r)
    \/ \E c \in Clients : IngestEvent(c) \/ CommitAckLost(c) \/ Abort(c)
    \/ Crash

Spec == Init /\ [][Next]_vars

\* The goroutine of a running call is scheduled and the database answers it.
FairSpec == Spec /\ \A c \in Clients : WF_vars(IngestEvent(c))

-------------------------------------------------------------------------------
(* The inductive invariant: what the interleaved transactions know of the table. *)

\* Only a running call with a valid request is inside a transaction.
InTransaction ==
    \A c \in Clients : phase[c] # "out" =>
        Pending(c) /\ Contract!validateStoredEvent(req[c])

\* An uncommitted row belongs to a transaction past its INSERT, and its key is still free.
RowLocks ==
    /\ \A id \in Ids : owner[id] # NoClient =>
           /\ phase[owner[id]] = "inserted"
           /\ req[owner[id]].id = id
           /\ events[id] = NoHash
    /\ \A c \in Clients : phase[c] = "inserted" => owner[req[c].id] = c

\* A row the SELECT found is still there.
SeenStays ==
    \A c \in Clients :
        phase[c] = "selected" /\ seen[c] # NoHash => events[req[c].id] = seen[c]

\* An answer other than an error or a rejection is given to a valid request.
AnsweredValid ==
    \A c \in Clients : reply[c] \in {"accepted", "duplicate", "conflict"} =>
        req[c] # NoReq /\ Contract!validateStoredEvent(req[c])

-------------------------------------------------------------------------------
(* Properties. *)

\* An answer stays true of the table for as long as it is the client's last one, whatever
\* other transactions and crashes do after it: "accepted" and "duplicate" mean the row of
\* this very event is committed, "conflict" means another event has the id (sql.go 57-65, 101).
RepliesTruthful ==
    \A c \in Clients :
        /\ reply[c] \in {"accepted", "duplicate"} => events[req[c].id] = req[c].hash
        /\ reply[c] = "conflict" => events[req[c].id] \notin {NoHash, req[c].hash}

\* However SELECT and INSERT of concurrent calls interleave, IngestAccepted is answered at
\* most once for an id, and only for a committed row (sql.go 53-101 and the PRIMARY KEY).
AcceptedOnce ==
    \A id \in Ids :
        /\ accepts[id] <= 1
        /\ events[id] = NoHash => accepts[id] = 0

IInv ==
    /\ TypeOK
    /\ InTransaction
    /\ RowLocks
    /\ SeenStays
    /\ AnsweredValid
    /\ RepliesTruthful
    /\ AcceptedOnce

\* No step of IngestEvent, of a rollback or of a crash changes or removes a committed row.
AppendOnly ==
    [][\A id \in Ids : events[id] # NoHash => events'[id] = events[id]]_vars

\* The transactions implement the atomic check-and-insert of EventStore (MemoryRepository):
\* SELECT and INSERT look like one step to every caller, or the call is an error.
ImplementsContract == Contract!Spec

\* A call of IngestEvent is answered: no transaction waits for ever for the row of another
\* one, and no schedule of the fair goroutines leaves a caller hanging.
CallsAnswered == \A c \in Clients : Pending(c) ~> ~Pending(c)

===============================================================================
