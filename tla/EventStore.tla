------------------------------ MODULE EventStore ------------------------------
(***************************************************************************)
(* What store.Repository promises of IngestEvent: an append-only map from  *)
(* event id to integrity hash with one atomic check-and-insert.  This is   *)
(* MemoryRepository.IngestEvent, whose mutex makes the whole check one     *)
(* step, together with the failures a caller has to expect of a database   *)
(* behind the same interface: a call that fails without effect, and a call *)
(* whose effect is durable although its answer is an error.                *)
(***************************************************************************)
EXTENDS Naturals

CONSTANTS Clients,      \* goroutines calling IngestEvent: HTTP handlers, the Argo collector
          Ids,          \* event ids
          Hashes,       \* integrity hashes (SHA-256 of the canonical event)
          NoHash,       \* no event stored under an id
          BlankId,      \* an id validateStoredEvent rejects
          NoReq         \* the client has made no call yet

VARIABLES events,       \* events[id]: hash of the stored event, or NoHash
          req,          \* req[c]: the client's last request
          reply,        \* reply[c]: its answer, "none" while the call is running
          accepts       \* accepts[id]: how often IngestAccepted was answered (history)

vars == <<events, req, reply, accepts>>

Requests == [id : Ids \cup {BlankId}, hash : Hashes]
Replies == {"none", "accepted", "duplicate", "conflict", "invalid", "error"}

\* validateStoredEvent: every reason for ErrInvalidInput is a blank id here
validateStoredEvent(r) == r.id # BlankId

Pending(c) == req[c] # NoReq /\ reply[c] = "none"

TypeOK ==
    /\ events \in [Ids -> Hashes \cup {NoHash}]
    /\ req \in [Clients -> Requests \cup {NoReq}]
    /\ reply \in [Clients -> Replies]
    /\ accepts \in [Ids -> Nat]

Init ==
    /\ events = [id \in Ids |-> NoHash]
    /\ req = [c \in Clients |-> NoReq]
    /\ reply = [c \in Clients |-> "none"]
    /\ accepts = [id \in Ids |-> 0]

\* A client calls IngestEvent with a new request, or retries an old one.
Call(c, r) ==
    /\ ~Pending(c)
    /\ req' = [req EXCEPT ![c] = r]
    /\ reply' = [reply EXCEPT ![c] = "none"]
    /\ UNCHANGED <<events, accepts>>

\* The check-and-insert under the mutex.
Reject(c) ==
    /\ Pending(c)
    /\ ~validateStoredEvent(req[c])
    /\ reply' = [reply EXCEPT ![c] = "invalid"]
    /\ UNCHANGED <<events, req, accepts>>

AnswerDuplicate(c) ==
    /\ Pending(c) /\ validateStoredEvent(req[c])
    /\ events[req[c].id] = req[c].hash
    /\ reply' = [reply EXCEPT ![c] = "duplicate"]
    /\ UNCHANGED <<events, req, accepts>>

AnswerConflict(c) ==
    /\ Pending(c) /\ validateStoredEvent(req[c])
    /\ events[req[c].id] \notin {NoHash, req[c].hash}
    /\ reply' = [reply EXCEPT ![c] = "conflict"]
    /\ UNCHANGED <<events, req, accepts>>

Accept(c) ==
    /\ Pending(c) /\ validateStoredEvent(req[c])
    /\ events[req[c].id] = NoHash
    /\ events' = [events EXCEPT ![req[c].id] = req[c].hash]
    /\ accepts' = [accepts EXCEPT ![req[c].id] = @ + 1]
    /\ reply' = [reply EXCEPT ![c] = "accepted"]
    /\ UNCHANGED req

\* Calls fail without effect: one of them, or all of them when the process dies.
Fail(S) ==
    /\ \A c \in S : Pending(c)
    /\ reply' = [c \in Clients |-> IF c \in S THEN "error" ELSE reply[c]]
    /\ UNCHANGED <<events, req, accepts>>

\* The event is stored, the answer is an error.
AckLost(c) ==
    /\ Pending(c) /\ validateStoredEvent(req[c])
    /\ events[req[c].id] = NoHash
    /\ events' = [events EXCEPT ![req[c].id] = req[c].hash]
    /\ reply' = [reply EXCEPT ![c] = "error"]
    /\ UNCHANGED <<req, accepts>>

IngestEvent(c) == Reject(c) \/ AnswerDuplicate(c) \/ AnswerConflict(c) \/ Accept(c)

Next ==
    \/ \E c \in Clients, r \in Requests : Call(c, r)
    \/ \E c \in Clients : IngestEvent(c) \/ AckLost(c)
    \/ \E S \in SUBSET Clients : Fail(S)

Spec == Init /\ [][Next]_vars
===============================================================================
