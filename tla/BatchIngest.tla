------------------------------ MODULE BatchIngest -----------------------------
(***************************************************************************)
(* POST /v1/events over the event repository: the handler parses and       *)
(* validates a whole batch, then ingests its events one by one and stops   *)
(* at the first error, with the events before it stored.  A sender that    *)
(* gets no answer, or a retryable one, can only send the whole batch       *)
(* again.  The repository is EventStore: handlers of several senders, the  *)
(* failures of the database and a dying server interleave between any two  *)
(* of its calls.                                                           *)
(***************************************************************************)
EXTENDS Naturals, Sequences

CONSTANTS Senders,
          Batch,        \* Batch[s]: the events of a sender, a sequence of Items
          Ids, Bodies,  \* event ids; everything else the integrity hash covers
          BlankId,      \* a missing id, source, type or data
          NoHash, NoReq,
          MaxTime,      \* ticks of the server's clock
          MaxFaults     \* how many lost connections, database errors and crashes happen

\* timed: the event carries its own time, so that every delivery has the same hash.
Items == [id : Ids \cup {BlankId}, body : Bodies, timed : BOOLEAN]

\* time 0: the time of the event itself; otherwise the time of arrival.
Hashes == [body : Bodies, time : 0..MaxTime]

ASSUME BatchAssumption ==
    /\ Batch \in [Senders -> Seq(Items)]
    /\ BlankId \notin Ids /\ NoHash \notin Hashes
    /\ NoReq \notin [id : Ids \cup {BlankId}, hash : Hashes]
    /\ MaxTime \in Nat \ {0} /\ MaxFaults \in Nat

VARIABLES events, req, reply, accepts,      \* the repository
          phase,        \* phase[s]: "ready" to send, "handling", "waiting" for the
                        \* repository, "failed" and to be sent again, "over"
          parsed,       \* parsed[s]: the batch as this delivery parsed it
          done,         \* done[s]: how many of its events are ingested
          answer,       \* answer[s]: what the sender was told last
          deliveries,   \* deliveries[s]: how often the batch was sent (history)
          now, faults

storeVars == <<events, req, reply, accepts>>
handlerVars == <<phase, parsed, done, answer, deliveries>>
vars == <<storeVars, handlerVars, now, faults>>

Store == INSTANCE EventStore
    WITH Clients <- Senders, events <- events, req <- req, reply <- reply, accepts <- accepts

Phases == {"ready", "handling", "waiting", "failed", "over"}
Acks == {"200", "202"}
Answers == Acks \cup {"none", "400", "409", "500", "lost"}

TypeOK ==
    /\ Store!TypeOK
    /\ phase \in [Senders -> Phases]
    /\ parsed \in [Senders -> Seq(Store!Requests)]
    /\ done \in [Senders -> Nat]
    /\ answer \in [Senders -> Answers]
    /\ deliveries \in [Senders -> Nat]
    /\ now \in 1..MaxTime
    /\ faults \in 0..MaxFaults
    /\ \A s \in Senders : done[s] <= Len(parsed[s])

Init ==
    /\ Store!Init
    /\ phase = [s \in Senders |-> "ready"]
    /\ parsed = [s \in Senders |-> <<>>]
    /\ done = [s \in Senders |-> 0]
    /\ answer = [s \in Senders |-> "none"]
    /\ deliveries = [s \in Senders |-> 0]
    /\ now = 1 /\ faults = 0

Tick ==
    /\ now < MaxTime
    /\ now' = now + 1
    /\ UNCHANGED <<storeVars, handlerVars, faults>>

Fault ==
    /\ faults < MaxFaults
    /\ faults' = faults + 1

Valid(s) == \A i \in DOMAIN Batch[s] : Batch[s][i].id # BlankId

\* Mutant of rawToStoredEvent: the time of arrival is in every hash.
rawToStoredEventNow(item) == [id |-> item.id, hash |-> [body |-> item.body, time |-> now]]

\* Validate puts the time of arrival into an event that has none, then the hash is taken.
rawToStoredEvent(item) ==
    [id |-> item.id, hash |-> [body |-> item.body, time |-> IF item.timed THEN 0 ELSE now]]

\* The request ends with answer a; the sender is left in phase p.
End(s, p, a) ==
    /\ phase' = [phase EXCEPT ![s] = p]
    /\ answer' = [answer EXCEPT ![s] = a]

Refuse(s) ==
    /\ phase[s] = "ready"
    /\ ~Valid(s)
    /\ End(s, "over", "400")
    /\ UNCHANGED <<storeVars, parsed, done, deliveries, now, faults>>

ParseRequest(s) ==
    /\ phase[s] = "ready"
    /\ Valid(s)
    /\ parsed' = [parsed EXCEPT ![s] = [i \in 1..Len(Batch[s]) |-> rawToStoredEvent(Batch[s][i])]]
    /\ done' = [done EXCEPT ![s] = 0]
    /\ deliveries' = [deliveries EXCEPT ![s] = @ + 1]
    /\ phase' = [phase EXCEPT ![s] = "handling"]
    /\ UNCHANGED <<storeVars, answer, now, faults>>

CallNext(s) ==
    /\ phase[s] = "handling" /\ done[s] < Len(parsed[s])
    /\ Store!Call(s, parsed[s][done[s] + 1])
    /\ phase' = [phase EXCEPT ![s] = "waiting"]
    /\ UNCHANGED <<parsed, done, answer, deliveries, now, faults>>

IngestEvent(s) ==
    /\ Store!IngestEvent(s)
    /\ UNCHANGED <<handlerVars, now, faults>>

Ingested(s) ==
    /\ phase[s] = "waiting" /\ reply[s] \in {"accepted", "duplicate"}
    /\ done' = [done EXCEPT ![s] = @ + 1]
    /\ phase' = [phase EXCEPT ![s] = "handling"]
    /\ UNCHANGED <<storeVars, parsed, answer, deliveries, now, faults>>

\* Mutant of IngestFailed: the loop goes on with the next event of the batch.
IngestFailedGoesOn(s) ==
    /\ phase[s] = "waiting" /\ reply[s] \in {"conflict", "invalid", "error"}
    /\ done' = [done EXCEPT ![s] = @ + 1]
    /\ phase' = [phase EXCEPT ![s] = "handling"]
    /\ UNCHANGED <<storeVars, parsed, answer, deliveries, now, faults>>

\* Mutant of IngestFailed: a database error has no answer.
IngestFailedUnanswered(s) ==
    /\ phase[s] = "waiting" /\ reply[s] \in {"conflict", "invalid"}
    /\ End(s, "over", "409")
    /\ UNCHANGED <<storeVars, parsed, done, deliveries, now, faults>>

\* handleStoreErr: only the error of the database is marked retryable.
IngestFailed(s) ==
    /\ phase[s] = "waiting"
    /\ \/ reply[s] = "conflict" /\ End(s, "over", "409")
       \/ reply[s] = "invalid" /\ End(s, "over", "400")
       \/ reply[s] = "error" /\ End(s, "failed", "500")
    /\ UNCHANGED <<storeVars, parsed, done, deliveries, now, faults>>

\* 200 is for a single event that was there already.
Respond(s) ==
    /\ phase[s] = "handling" /\ done[s] = Len(parsed[s])
    /\ End(s, "over", IF Len(parsed[s]) = 1 /\ reply[s] = "duplicate" THEN "200" ELSE "202")
    /\ UNCHANGED <<storeVars, parsed, done, deliveries, now, faults>>

\* The database fails a call, with its effect or without.
StoreFails(s) ==
    /\ Fault
    /\ Store!Fail({s}) \/ Store!AckLost(s)
    /\ UNCHANGED <<handlerVars, now>>

\* The connection breaks: the context of the handler is cancelled and its call with it.
HangUp(s) ==
    /\ Fault
    /\ phase[s] \in {"handling", "waiting"}
    /\ IF Store!Pending(s) THEN Store!Fail({s}) \/ Store!AckLost(s) ELSE UNCHANGED storeVars
    /\ End(s, "failed", "lost")
    /\ UNCHANGED <<parsed, done, deliveries, now>>

\* The server dies with all its requests.
Crash ==
    /\ Fault
    /\ Store!Fail({s \in Senders : Store!Pending(s)})
    /\ LET cut == {s \in Senders : phase[s] \in {"handling", "waiting"}}
       IN  /\ phase' = [s \in Senders |-> IF s \in cut THEN "failed" ELSE phase[s]]
           /\ answer' = [s \in Senders |-> IF s \in cut THEN "lost" ELSE answer[s]]
    /\ UNCHANGED <<parsed, done, deliveries, now>>

\* The sender sends the batch again.
Resend(s) ==
    /\ phase[s] = "failed"
    /\ End(s, "ready", "none")
    /\ UNCHANGED <<storeVars, parsed, done, deliveries, now, faults>>

handleEvents(s) ==
    \/ Refuse(s) \/ ParseRequest(s) \/ CallNext(s) \/ IngestEvent(s)
    \/ Ingested(s) \/ IngestFailed(s) \/ Respond(s)

Next ==
    \/ Tick \/ Crash
    \/ \E s \in Senders : handleEvents(s) \/ StoreFails(s) \/ HangUp(s) \/ Resend(s)

Spec == Init /\ [][Next]_vars

\* Handlers are scheduled, the repository answers, and senders repeat what failed.
FairSpec == Spec /\ \A s \in Senders : WF_vars(handleEvents(s) \/ Resend(s))

-------------------------------------------------------------------------------
(* The inductive invariant: what a handler knows of the repository. *)

\* The events before done are stored as this delivery parsed them, for ever.
IngestedStored ==
    \A s \in Senders : \A i \in 1..done[s] :
        events[parsed[s][i].id] = parsed[s][i].hash

\* A handler that waits asked for the event after them, and its answer stays true.
CallMatches ==
    \A s \in Senders :
        /\ phase[s] = "waiting" =>
               /\ done[s] < Len(parsed[s])
               /\ req[s] = parsed[s][done[s] + 1]
               /\ reply[s] \in {"accepted", "duplicate"} => events[req[s].id] = req[s].hash
        /\ phase[s] # "waiting" => ~Store!Pending(s)

\* An acknowledged request came to the end of its batch.
AckedDone ==
    \A s \in Senders :
        answer[s] \in Acks => done[s] = Len(parsed[s]) /\ phase[s] = "over"

\* Only events with an id are parsed.
ParsedValid ==
    \A s \in Senders : \A i \in 1..Len(parsed[s]) : parsed[s][i].id \in Ids

IInv == TypeOK /\ IngestedStored /\ CallMatches /\ AckedDone /\ ParsedValid

-------------------------------------------------------------------------------
(* Properties. *)

\* 200 and 202 mean that every event of the batch is stored with the hash of this very
\* delivery, and they stay true whatever other batches, failures and crashes follow
\* (handlers_events.go 76-123).
AckMeansStored ==
    \A s \in Senders : answer[s] \in Acks =>
        \A i \in DOMAIN parsed[s] : events[parsed[s][i].id] = parsed[s][i].hash

IdsOf(s) == {Batch[s][i].id : i \in DOMAIN Batch[s]}

\* Two deliveries of these items have the same hash.
SameHash(m, n) == m.body = n.body /\ m.timed /\ n.timed

\* The item may be refused: its id stands for another event, in this or another batch, or
\* its time is that of its delivery and it was delivered before.
Contested(s, i) ==
    \/ \E t \in Senders : \E j \in DOMAIN Batch[t] :
           /\ <<t, j>> # <<s, i>> /\ Batch[t][j].id = Batch[s][i].id
           /\ ~SameHash(Batch[t][j], Batch[s][i])
    \/ ~Batch[s][i].timed /\ deliveries[s] > 1

\* A batch that is refused with 400 stores none of its events, however many are valid: an id
\* that no other sender uses stays free (ParseRequest before the first IngestEvent).  And
\* sending a batch again, or twice at a time, is never what makes it a conflict, as long as
\* its events carry their time: what other deliveries stored is a duplicate now.  An event
\* without time is a conflict with itself (validate.go 23-25).
RefusalsJustified ==
    \A s \in Senders :
        /\ answer[s] = "400" =>
               \A id \in IdsOf(s) \cap Ids :
                   (\A t \in Senders \ {s} : id \notin IdsOf(t)) => events[id] = NoHash
        /\ answer[s] = "409" => \E i \in DOMAIN Batch[s] : Contested(s, i)

Uncontested(s) ==
    /\ Valid(s)
    /\ \A i \in DOMAIN Batch[s] : Batch[s][i].timed
    /\ \A t \in Senders : \A i \in DOMAIN Batch[s], j \in DOMAIN Batch[t] :
           Batch[s][i].id = Batch[t][j].id => SameHash(Batch[s][i], Batch[t][j])

\* Every batch comes to a final answer, and one whose ids are its own and whose events carry
\* their time is acknowledged in the end: a batch that failed half stored does not get stuck,
\* nor do two deliveries of one batch that run at the same time.
BatchSettles ==
    <>(\A s \in Senders : phase[s] = "over" /\ (Uncontested(s) => answer[s] \in Acks))

-------------------------------------------------------------------------------
(* The inductive invariant of the refusals: where a stored hash comes from. *)

\* The hash is one a delivery of the item may have.
HashOf(hash, item) == hash.body = item.body /\ (item.timed => hash.time = 0)

\* What is parsed is the batch, item by item; only valid batches get that far.
ParsedBatches ==
    \A s \in Senders :
        IF deliveries[s] = 0 THEN phase[s] \in {"ready", "over"}
        ELSE /\ Valid(s) /\ Len(parsed[s]) = Len(Batch[s])
             /\ \A i \in DOMAIN Batch[s] :
                    parsed[s][i].id = Batch[s][i].id /\ HashOf(parsed[s][i].hash, Batch[s][i])

\* The event stored under id is item j of the batch of t, from its only delivery so far or
\* from one of several.
ComesFrom(id, t, j) ==
    /\ Batch[t][j].id = id /\ HashOf(events[id], Batch[t][j])
    /\ deliveries[t] > 0
    /\ deliveries[t] = 1 => events[id] = parsed[t][j].hash

StoredDelivered ==
    \A id \in Ids : events[id] # NoHash => \E t \in Senders : \E j \in DOMAIN Batch[t] : ComesFrom(id, t, j)

\* A refusal has its reason, before and after it is answered.
RefusalsFounded ==
    \A s \in Senders :
        /\ phase[s] = "waiting" => reply[s] # "invalid"
        /\ phase[s] = "waiting" /\ reply[s] = "conflict" => events[req[s].id] \notin {NoHash, req[s].hash}
        /\ answer[s] = "400" => ~Valid(s)
        /\ answer[s] = "409" => \E i \in DOMAIN Batch[s] : Contested(s, i)

RInv == IInv /\ ParsedBatches /\ StoredDelivered /\ RefusalsFounded
===============================================================================
