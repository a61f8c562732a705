--------------------------- MODULE BatchIngestProofs --------------------------
(***************************************************************************)
(* What an acknowledgement of POST /v1/events is worth, for any number of  *)
(* senders, batches, failures and deliveries.                              *)
(***************************************************************************)
EXTENDS BatchIngest, TLAPS

\* The parsed batch is a sequence of requests to the repository, one for each item.
LEMMA ParsedBatch ==
    ASSUME TypeOK, NEW s \in Senders
    PROVE  LET p == [i \in 1..Len(Batch[s]) |-> rawToStoredEvent(Batch[s][i])]
           IN  /\ p \in Seq(Store!Requests)
               /\ Len(p) = Len(Batch[s])
               /\ Valid(s) => \A i \in 1..Len(p) : p[i].id \in Ids
PROOF
<1> DEFINE p == [i \in 1..Len(Batch[s]) |-> rawToStoredEvent(Batch[s][i])]
<1>1. Batch[s] \in Seq(Items)
  BY BatchAssumption
<1>2. \A i \in 1..Len(Batch[s]) : Batch[s][i] \in Items
  BY <1>1
<1>3. \A i \in 1..Len(Batch[s]) : rawToStoredEvent(Batch[s][i]) \in Store!Requests
  BY <1>2, BatchAssumption DEF rawToStoredEvent, Store!Requests, Items, Hashes, TypeOK
<1>4. Len(Batch[s]) \in Nat
  BY <1>1
<1>5. p \in Seq(Store!Requests) /\ Len(p) = Len(Batch[s])
  BY <1>3, <1>4
<1>6. ASSUME Valid(s), NEW i \in 1..Len(p) PROVE p[i].id \in Ids
  <2>1. i \in 1..Len(Batch[s]) /\ i \in DOMAIN Batch[s]
    BY <1>1, <1>5
  <2>2. Batch[s][i].id \in Ids
    BY <2>1, <1>2, <1>6 DEF Valid, Items
  <2> QED
    BY <2>1, <2>2 DEF rawToStoredEvent
<1> QED
  BY <1>5, <1>6

\* Whatever happens, the repository keeps what it has stored.
LEMMA EventsKept ==
    ASSUME TypeOK, [Next]_vars, NEW id \in Ids, events[id] # NoHash
    PROVE  events'[id] = events[id]
PROOF
<1> USE DEF TypeOK, Store!TypeOK
<1>1. CASE UNCHANGED events
  BY <1>1
<1>2. ASSUME NEW s \in Senders, Store!IngestEvent(s) \/ Store!AckLost(s)
      PROVE  events'[id] = events[id]
  BY <1>2 DEF Store!IngestEvent, Store!Reject, Store!AnswerDuplicate, Store!AnswerConflict,
              Store!Accept, Store!AckLost
<1>3. CASE Tick
  BY <1>3, <1>1 DEF Tick, storeVars
<1>4. CASE Crash
  BY <1>4, <1>1 DEF Crash, Store!Fail
<1>5. ASSUME NEW s \in Senders, handleEvents(s) PROVE events'[id] = events[id]
  BY <1>5, <1>1, <1>2 DEF handleEvents, Refuse, ParseRequest, CallNext, Store!Call,
       IngestEvent, Ingested, IngestFailed, Respond, storeVars
<1>6. ASSUME NEW s \in Senders, StoreFails(s) PROVE events'[id] = events[id]
  BY <1>6, <1>1, <1>2 DEF StoreFails, Store!Fail
<1>7. ASSUME NEW s \in Senders, HangUp(s) PROVE events'[id] = events[id]
  BY <1>7, <1>1, <1>2 DEF HangUp, Store!Fail, storeVars
<1>8. ASSUME NEW s \in Senders, Resend(s) PROVE events'[id] = events[id]
  BY <1>8, <1>1 DEF Resend, storeVars
<1>9. CASE UNCHANGED vars
  BY <1>9, <1>1 DEF vars, storeVars
<1> QED
  BY <1>3, <1>4, <1>5, <1>6, <1>7, <1>8, <1>9 DEF Next

\* An event that is stored as a delivery parsed it stays so.
LEMMA StoredStays ==
    ASSUME IInv, [Next]_vars, NEW s \in Senders, NEW i \in 1..Len(parsed[s]),
           events[parsed[s][i].id] = parsed[s][i].hash
    PROVE  events'[parsed[s][i].id] = parsed[s][i].hash
PROOF
<1>1. parsed[s] \in Seq(Store!Requests)
  BY DEF IInv, TypeOK
<1>2. parsed[s][i] \in Store!Requests
  BY <1>1
<1>3. parsed[s][i].hash \in Hashes
  BY <1>2 DEF Store!Requests
<1>4. parsed[s][i].id \in Ids /\ events[parsed[s][i].id] # NoHash
  BY <1>3, BatchAssumption DEF IInv, ParsedValid
<1> QED
  BY <1>4, EventsKept DEF IInv

\* The state the inductive invariant starts in.
LEMMA InitIInv == Init => IInv
PROOF
<1> SUFFICES ASSUME Init PROVE IInv
  OBVIOUS
<1> USE DEF Init, Store!Init
<1>1. Store!TypeOK
  BY DEF Store!TypeOK, Store!Replies
<1>a. \A s \in Senders : parsed[s] = << >>
  BY Zenon
<1>b. << >> \in Seq(Store!Requests) /\ Len(<< >>) = 0
  OBVIOUS
<1>2. \A s \in Senders : Len(parsed[s]) = 0 /\ parsed[s] \in Seq(Store!Requests)
  BY <1>a, <1>b
<1>3. TypeOK
  BY <1>1, <1>2, BatchAssumption DEF TypeOK, Phases, Answers, Acks
<1>4. IngestedStored /\ ParsedValid
  BY <1>2 DEF IngestedStored, ParsedValid
<1>5. CallMatches
  BY DEF CallMatches, Store!Pending
<1>6. AckedDone
  BY DEF AckedDone, Acks
<1> QED
  BY <1>3, <1>4, <1>5, <1>6 DEF IInv

\* The repository keeps its types, and a call is answered or stays as it is.
LEMMA StoreStep ==
    ASSUME IInv, NEW s \in Senders,
           Store!IngestEvent(s) \/ Store!AckLost(s) \/ Store!Fail({s})
    PROVE  /\ Store!TypeOK'
           /\ req' = req
           /\ \A t \in Senders : t # s => reply'[t] = reply[t]
           /\ Store!Pending(s)
           /\ reply'[s] # "none"
           /\ reply'[s] \in {"accepted", "duplicate"} => events'[req[s].id] = req[s].hash
PROOF
<1> USE DEF IInv, TypeOK, Store!TypeOK, Store!Replies, Store!Pending
<1>0. Store!Pending(s) => req[s] \in Store!Requests
  OBVIOUS
<1>1. CASE Store!Reject(s)
  BY <1>1 DEF Store!Reject
<1>2. CASE Store!AnswerDuplicate(s)
  BY <1>2 DEF Store!AnswerDuplicate
<1>3. CASE Store!AnswerConflict(s)
  BY <1>3 DEF Store!AnswerConflict
<1>4. CASE Store!Accept(s)
  BY <1>4, <1>0 DEF Store!Accept, Store!Requests, Store!validateStoredEvent
<1>5. CASE Store!AckLost(s)
  BY <1>5, <1>0 DEF Store!AckLost, Store!Requests, Store!validateStoredEvent
<1>6. CASE Store!Fail({s})
  BY <1>6 DEF Store!Fail
<1> QED
  BY <1>1, <1>2, <1>3, <1>4, <1>5, <1>6 DEF Store!IngestEvent

\* Steps that touch neither what is parsed nor how far a delivery has come.
LEMMA KeptParts ==
    ASSUME IInv, [Next]_vars, UNCHANGED <<parsed, done>>
    PROVE  IngestedStored' /\ ParsedValid'
PROOF
<1>1. ASSUME NEW s \in Senders, NEW i \in 1..done[s]
      PROVE  events'[parsed[s][i].id] = parsed[s][i].hash
  <2>1. done[s] \in Nat /\ Len(parsed[s]) \in Nat /\ done[s] <= Len(parsed[s])
    BY DEF IInv, TypeOK
  <2>2. i \in 1..Len(parsed[s])
    BY <2>1
  <2>3. events[parsed[s][i].id] = parsed[s][i].hash
    BY DEF IInv, IngestedStored
  <2> QED
    BY <2>2, <2>3, StoredStays
<1>2. IngestedStored'
  BY <1>1 DEF IngestedStored
<1>3. ParsedValid'
  BY DEF IInv, ParsedValid
<1> QED
  BY <1>2, <1>3

\* A waiting handler is not misled by what others do.
LEMMA OthersWait ==
    ASSUME IInv, [Next]_vars, NEW t \in Senders,
           phase'[t] = phase[t], parsed'[t] = parsed[t], done'[t] = done[t],
           req'[t] = req[t], reply'[t] = reply[t]
    PROVE  /\ phase'[t] = "waiting" =>
                  /\ done'[t] < Len(parsed'[t])
                  /\ req'[t] = parsed'[t][done'[t] + 1]
                  /\ reply'[t] \in {"accepted", "duplicate"} => events'[req'[t].id] = req'[t].hash
           /\ phase'[t] # "waiting" => ~Store!Pending(t)'
PROOF
<1>1. done[t] \in Nat /\ Len(parsed[t]) \in Nat
  BY DEF IInv, TypeOK
<1>2. CASE phase[t] = "waiting"
  <2>1. done[t] < Len(parsed[t]) /\ req[t] = parsed[t][done[t] + 1]
    BY <1>2 DEF IInv, CallMatches
  <2>2. done[t] + 1 \in 1..Len(parsed[t])
    BY <1>1, <2>1
  <2>3. reply[t] \in {"accepted", "duplicate"} => events'[req[t].id] = req[t].hash
    BY <1>2, <2>1, <2>2, StoredStays DEF IInv, CallMatches
  <2> QED
    BY <1>2, <2>1, <2>3
<1>3. CASE phase[t] # "waiting"
  BY <1>3 DEF IInv, CallMatches, Store!Pending
<1> QED
  BY <1>2, <1>3

\* One case for each action; the parts an action cannot disturb come from KeptParts and
\* OthersWait.
LEMMA NextIInv == IInv /\ [Next]_vars => IInv'
PROOF
<1> SUFFICES ASSUME IInv, [Next]_vars PROVE IInv'
  OBVIOUS
<1> USE DEF storeVars, handlerVars
<1>t. TypeOK /\ Store!TypeOK
  BY DEF IInv, TypeOK
<1>1. CASE Tick
  <2>1. TypeOK'
    BY <1>1, <1>t, BatchAssumption DEF Tick, TypeOK, Store!TypeOK
  <2>2. CallMatches'
    BY <1>1, OthersWait DEF Tick, CallMatches
  <2>3. AckedDone'
    BY <1>1 DEF Tick, IInv, AckedDone
  <2> QED
    BY <1>1, <2>1, <2>2, <2>3, KeptParts DEF Tick, IInv
<1>2. CASE Crash
  <2>1. TypeOK'
    <3>1. Store!TypeOK'
      BY <1>2, <1>t DEF Crash, Store!Fail, Store!TypeOK, Store!Replies
    <3>2. phase' \in [Senders -> Phases] /\ answer' \in [Senders -> Answers]
      BY <1>2, <1>t DEF Crash, TypeOK, Phases, Answers
    <3>3. faults' \in 0..MaxFaults
      BY <1>2, <1>t, BatchAssumption DEF Crash, Fault, TypeOK
    <3> QED
      BY <1>2, <1>t, <3>1, <3>2, <3>3 DEF Crash, TypeOK
  <2>2. \A t \in Senders : phase'[t] # "waiting" /\ ~Store!Pending(t)'
    BY <1>2, <1>t DEF Crash, Store!Fail, Store!Pending, TypeOK, Store!TypeOK
  <2>3. CallMatches'
    BY <2>2 DEF CallMatches
  <2>4. AckedDone'
    BY <1>2 DEF Crash, IInv, AckedDone, Acks
  <2> QED
    BY <1>2, <2>1, <2>3, <2>4, KeptParts DEF Crash, IInv
<1>3. ASSUME NEW s \in Senders, Refuse(s) PROVE IInv'
  <2>1. TypeOK'
    BY <1>3, <1>t DEF Refuse, End, TypeOK, Store!TypeOK, Phases, Answers
  <2>2. CallMatches'
    BY <1>3, <1>t, OthersWait DEF Refuse, End, IInv, CallMatches, Store!Pending, TypeOK
  <2>3. AckedDone'
    BY <1>3, <1>t DEF Refuse, End, IInv, AckedDone, Acks, TypeOK
  <2> QED
    BY <1>3, <2>1, <2>2, <2>3, KeptParts DEF Refuse, IInv
<1>4. ASSUME NEW s \in Senders, ParseRequest(s) PROVE IInv'
  <2> DEFINE p == [i \in 1..Len(Batch[s]) |-> rawToStoredEvent(Batch[s][i])]
  <2>1. p \in Seq(Store!Requests) /\ Len(p) \in Nat /\ \A i \in 1..Len(p) : p[i].id \in Ids
    <3>1. Batch[s] \in Seq(Items) /\ Valid(s)
      BY <1>4, BatchAssumption DEF ParseRequest
    <3>2. /\ p \in Seq(Store!Requests)
          /\ Len(p) = Len(Batch[s])
          /\ Valid(s) => \A i \in 1..Len(p) : p[i].id \in Ids
      BY <1>t, ParsedBatch, Zenon
    <3>3. Len(Batch[s]) \in Nat
      BY <3>1
    <3> HIDE DEF p
    <3> QED
      BY <3>1, <3>2, <3>3
  <2> HIDE DEF p
  <2>2. /\ parsed' = [parsed EXCEPT ![s] = p]
        /\ done' = [done EXCEPT ![s] = 0]
        /\ deliveries' = [deliveries EXCEPT ![s] = @ + 1]
        /\ phase' = [phase EXCEPT ![s] = "handling"]
        /\ UNCHANGED <<events, req, reply, accepts, answer, now, faults>>
        /\ phase[s] = "ready"
    BY <1>4 DEF ParseRequest, p
  <2>3. /\ parsed'[s] = p /\ done'[s] = 0 /\ phase'[s] = "handling"
        /\ \A t \in Senders : t # s =>
               parsed'[t] = parsed[t] /\ done'[t] = done[t] /\ phase'[t] = phase[t]
    BY <2>2, <1>t DEF TypeOK
  <2>4. TypeOK'
    <3>1. parsed' \in [Senders -> Seq(Store!Requests)]
      BY <2>1, <2>2, <1>t DEF TypeOK
    <3>2. done' \in [Senders -> Nat] /\ deliveries' \in [Senders -> Nat]
      BY <2>2, <1>t DEF TypeOK
    <3>3. \A t \in Senders : done'[t] <= Len(parsed'[t])
      BY <2>1, <2>3, <1>t DEF TypeOK
    <3>4. phase' \in [Senders -> Phases]
      BY <2>2, <1>t DEF TypeOK, Phases
    <3> QED
      BY <3>1, <3>2, <3>3, <3>4, <2>2, <1>t DEF TypeOK, Store!TypeOK
  <2>5. IngestedStored'
    <3> SUFFICES ASSUME NEW t \in Senders, NEW i \in 1..done'[t]
                 PROVE  events'[parsed'[t][i].id] = parsed'[t][i].hash
      BY DEF IngestedStored
    <3>1. t # s
      BY <2>3
    <3> QED
      BY <3>1, <2>2, <2>3 DEF IInv, IngestedStored
  <2>6. CallMatches'
    <3>1. phase'[s] # "waiting" /\ ~Store!Pending(s)'
      BY <2>2, <2>3 DEF IInv, CallMatches, Store!Pending
    <3> QED
      BY <3>1, <2>2, <2>3, OthersWait DEF CallMatches
  <2>7. answer[s] \notin Acks
    BY <2>2 DEF IInv, AckedDone
  <2>8. AckedDone'
    BY <2>7, <2>2, <2>3 DEF IInv, AckedDone
  <2>9. ParsedValid'
    <3> SUFFICES ASSUME NEW t \in Senders, NEW i \in 1..Len(parsed'[t])
                 PROVE  parsed'[t][i].id \in Ids
      BY DEF ParsedValid
    <3> QED
      BY <2>1, <2>3 DEF IInv, ParsedValid
  <2> QED
    BY <2>4, <2>5, <2>6, <2>8, <2>9 DEF IInv
<1>5. ASSUME NEW s \in Senders, CallNext(s) PROVE IInv'
  <2> DEFINE r == parsed[s][done[s] + 1]
  <2>1. done[s] \in Nat /\ Len(parsed[s]) \in Nat /\ done[s] + 1 \in 1..Len(parsed[s])
    BY <1>5, <1>t DEF CallNext, TypeOK
  <2>2. r \in Store!Requests
    BY <2>1, <1>t DEF TypeOK
  <2> HIDE DEF r
  <2>3. /\ req' = [req EXCEPT ![s] = r]
        /\ reply' = [reply EXCEPT ![s] = "none"]
        /\ phase' = [phase EXCEPT ![s] = "waiting"]
        /\ UNCHANGED <<events, accepts, parsed, done, answer, deliveries, now, faults>>
        /\ phase[s] = "handling"
    BY <1>5 DEF CallNext, Store!Call, r
  <2>4. TypeOK'
    BY <2>2, <2>3, <1>t DEF TypeOK, Store!TypeOK, Store!Replies, Phases
  <2>5. /\ phase'[s] = "waiting" /\ req'[s] = r /\ reply'[s] = "none"
        /\ \A t \in Senders : t # s =>
               phase'[t] = phase[t] /\ req'[t] = req[t] /\ reply'[t] = reply[t]
    BY <2>3, <1>t DEF TypeOK, Store!TypeOK
  <2>6. CallMatches'
    <3> SUFFICES ASSUME NEW t \in Senders
                 PROVE  /\ phase'[t] = "waiting" =>
                            /\ done'[t] < Len(parsed'[t])
                            /\ req'[t] = parsed'[t][done'[t] + 1]
                            /\ reply'[t] \in {"accepted", "duplicate"} => events'[req'[t].id] = req'[t].hash
                        /\ phase'[t] # "waiting" => ~Store!Pending(t)'
      BY DEF CallMatches
    <3>1. CASE t = s
      BY <3>1, <2>1, <2>3, <2>5 DEF r
    <3>2. CASE t # s
      BY <3>2, <2>3, <2>5, OthersWait
    <3> QED
      BY <3>1, <3>2
  <2>7. AckedDone'
    BY <2>3, <1>t DEF IInv, AckedDone, TypeOK
  <2> QED
    BY <2>3, <2>4, <2>6, <2>7, KeptParts DEF IInv
<1>6. ASSUME NEW s \in Senders, IngestEvent(s) \/ StoreFails(s) PROVE IInv'
  <2>1. /\ Store!IngestEvent(s) \/ Store!AckLost(s) \/ Store!Fail({s})
        /\ UNCHANGED <<phase, parsed, done, answer, deliveries, now>>
        /\ faults' \in 0..MaxFaults
    BY <1>6, <1>t, BatchAssumption DEF IngestEvent, StoreFails, Fault, TypeOK
  <2>2. Store!TypeOK' /\ req' = req /\ Store!Pending(s) /\ reply'[s] # "none"
    BY <2>1, StoreStep
  <2>3. \A t \in Senders : t # s => reply'[t] = reply[t]
    BY <2>1, StoreStep
  <2>4. reply'[s] \in {"accepted", "duplicate"} => events'[req[s].id] = req[s].hash
    BY <2>1, StoreStep
  <2>5. TypeOK'
    BY <2>1, <2>2, <1>t DEF TypeOK
  <2>6. phase[s] = "waiting"
    BY <2>2 DEF IInv, CallMatches
  <2>7. CallMatches'
    <3> SUFFICES ASSUME NEW t \in Senders
                 PROVE  /\ phase'[t] = "waiting" =>
                            /\ done'[t] < Len(parsed'[t])
                            /\ req'[t] = parsed'[t][done'[t] + 1]
                            /\ reply'[t] \in {"accepted", "duplicate"} => events'[req'[t].id] = req'[t].hash
                        /\ phase'[t] # "waiting" => ~Store!Pending(t)'
      BY DEF CallMatches
    <3>1. CASE t = s
      BY <3>1, <2>1, <2>2, <2>4, <2>6 DEF IInv, CallMatches
    <3>2. CASE t # s
      BY <3>2, <2>1, <2>2, <2>3, OthersWait
    <3> QED
      BY <3>1, <3>2
  <2>8. AckedDone'
    BY <2>1 DEF IInv, AckedDone
  <2> QED
    BY <2>1, <2>5, <2>7, <2>8, KeptParts DEF IInv
<1>7. ASSUME NEW s \in Senders, Ingested(s) PROVE IInv'
  <2>1. /\ done' = [done EXCEPT ![s] = done[s] + 1]
        /\ phase' = [phase EXCEPT ![s] = "handling"]
        /\ UNCHANGED <<events, req, reply, accepts, parsed, answer, deliveries, now, faults>>
        /\ phase[s] = "waiting" /\ reply[s] \in {"accepted", "duplicate"}
    BY <1>7 DEF Ingested
  <2>2. /\ done'[s] = done[s] + 1 /\ phase'[s] = "handling"
        /\ \A t \in Senders : t # s => done'[t] = done[t] /\ phase'[t] = phase[t]
    BY <2>1, <1>t DEF TypeOK
  <2>3. /\ done[s] < Len(parsed[s]) /\ done[s] \in Nat /\ Len(parsed[s]) \in Nat
        /\ events[parsed[s][done[s] + 1].id] = parsed[s][done[s] + 1].hash
    <3>1. done[s] \in Nat /\ Len(parsed[s]) \in Nat
      BY <1>t DEF TypeOK
    <3> QED
      BY <3>1, <2>1 DEF IInv, CallMatches
  <2>4. TypeOK'
    <3>1. done' \in [Senders -> Nat] /\ phase' \in [Senders -> Phases]
      BY <2>1, <2>3, <1>t DEF TypeOK, Phases
    <3>2. \A t \in Senders : done'[t] <= Len(parsed'[t])
      BY <2>1, <2>2, <2>3, <1>t DEF TypeOK
    <3> QED
      BY <3>1, <3>2, <2>1, <1>t DEF TypeOK, Store!TypeOK
  <2>5. IngestedStored'
    <3> SUFFICES ASSUME NEW t \in Senders, NEW i \in 1..done'[t]
                 PROVE  events[parsed[t][i].id] = parsed[t][i].hash
      BY <2>1 DEF IngestedStored
    <3>1. CASE t = s /\ i = done[s] + 1
      BY <3>1, <2>3
    <3>2. CASE t # s \/ i # done[s] + 1
      <4>1. i \in 1..done[t]
        BY <3>2, <2>2, <2>3
      <4> QED
        BY <4>1 DEF IInv, IngestedStored
    <3> QED
      BY <3>1, <3>2
  <2>6. CallMatches'
    <3>1. phase'[s] # "waiting" /\ ~Store!Pending(s)'
      BY <2>1, <2>2 DEF Store!Pending
    <3> QED
      BY <3>1, <2>1, <2>2, OthersWait DEF CallMatches
  <2>7. answer[s] \notin Acks
    BY <2>1 DEF IInv, AckedDone
  <2>8. AckedDone'
    BY <2>7, <2>1, <2>2 DEF IInv, AckedDone
  <2>9. ParsedValid'
    BY <2>1 DEF IInv, ParsedValid
  <2> QED
    BY <2>4, <2>5, <2>6, <2>8, <2>9 DEF IInv
\* The request ends: nothing of the repository moves but the call of the one who hangs up.
<1>8. ASSUME NEW s \in Senders, NEW f \in 0..MaxFaults, NEW q \in {"over", "failed", "ready"},
             NEW a \in Answers,
             End(s, q, a), faults' = f, UNCHANGED <<parsed, done, deliveries, now>>,
             (UNCHANGED storeVars /\ ~Store!Pending(s)) \/ Store!Fail({s}) \/ Store!AckLost(s),
             a \in Acks => q = "over" /\ done[s] = Len(parsed[s])
      PROVE  IInv'
  <2>1. /\ Store!TypeOK' /\ req' = req
        /\ \A t \in Senders : t # s => reply'[t] = reply[t]
        /\ ~Store!Pending(s)'
    <3>1. CASE UNCHANGED storeVars /\ ~Store!Pending(s)
      BY <3>1, <1>t DEF Store!TypeOK, Store!Pending
    <3>2. CASE Store!Fail({s}) \/ Store!AckLost(s)
      BY <3>2, StoreStep DEF Store!Pending
    <3> QED
      BY <1>8, <3>1, <3>2
  <2>2. /\ phase' = [phase EXCEPT ![s] = q] /\ answer' = [answer EXCEPT ![s] = a]
        /\ UNCHANGED <<parsed, done, deliveries, now>> /\ faults' \in 0..MaxFaults
    BY <1>8 DEF End
  <2>3. TypeOK'
    BY <2>1, <2>2, <1>t DEF TypeOK, Phases
  <2>4. /\ phase'[s] = q /\ answer'[s] = a
        /\ \A t \in Senders : t # s => phase'[t] = phase[t] /\ answer'[t] = answer[t]
    BY <2>2, <1>t DEF TypeOK
  <2>5. CallMatches'
    <3>1. phase'[s] # "waiting"
      BY <2>4
    <3> QED
      BY <3>1, <2>1, <2>2, <2>4, OthersWait DEF CallMatches
  <2>6. AckedDone'
    BY <1>8, <2>2, <2>4 DEF IInv, AckedDone
  <2> QED
    BY <2>2, <2>3, <2>5, <2>6, KeptParts DEF IInv
<1>9. ASSUME NEW s \in Senders, IngestFailed(s) \/ Respond(s) \/ Resend(s) PROVE IInv'
  <2>1. ~Store!Pending(s) /\ faults \in 0..MaxFaults
    BY <1>9, <1>t DEF IngestFailed, Respond, Resend, IInv, CallMatches, Store!Pending, TypeOK
  <2>2. CASE IngestFailed(s)
    BY <2>1, <2>2, <1>8 DEF IngestFailed, Answers, Acks
  <2>3. CASE Respond(s)
    BY <2>1, <2>3, <1>8 DEF Respond, Answers, Acks
  <2>4. CASE Resend(s)
    BY <2>1, <2>4, <1>8 DEF Resend, Answers, Acks
  <2> QED
    BY <1>9, <2>2, <2>3, <2>4
<1>10. ASSUME NEW s \in Senders, HangUp(s) PROVE IInv'
  <2>1. faults' \in 0..MaxFaults
    BY <1>10, <1>t, BatchAssumption DEF HangUp, Fault, TypeOK
  <2> QED
    BY <2>1, <1>10, <1>8 DEF HangUp, Answers, Acks
<1>11. CASE UNCHANGED vars
  <2>1. TypeOK'
    BY <1>11, <1>t DEF vars, TypeOK, Store!TypeOK
  <2>2. CallMatches'
    BY <1>11, OthersWait DEF vars, CallMatches
  <2>3. AckedDone'
    BY <1>11 DEF vars, IInv, AckedDone
  <2> QED
    BY <1>11, <2>1, <2>2, <2>3, KeptParts DEF vars, IInv
<1> QED
  BY <1>1, <1>2, <1>3, <1>4, <1>5, <1>6, <1>7, <1>9, <1>10, <1>11 DEF Next, handleEvents

\* The state of handlers, senders and repository is well-formed.
THEOREM BatchTypeOK == Spec => []TypeOK
PROOF
<1>1. IInv => TypeOK
  BY DEF IInv
<1> QED
  BY <1>1, InitIInv, NextIInv, PTL DEF Spec

\* An acknowledged batch is stored, whole and as it was parsed, and stays so.
THEOREM BatchAcksTrue == Spec => []AckMeansStored
PROOF
<1>1. IInv => AckMeansStored
  <2> SUFFICES ASSUME IInv, NEW s \in Senders, answer[s] \in Acks, NEW i \in DOMAIN parsed[s]
               PROVE  events[parsed[s][i].id] = parsed[s][i].hash
    BY DEF AckMeansStored
  <2>1. parsed[s] \in Seq(Store!Requests) /\ done[s] = Len(parsed[s])
    BY DEF IInv, TypeOK, AckedDone
  <2>2. i \in 1..done[s]
    BY <2>1
  <2> QED
    BY <2>2 DEF IInv, IngestedStored
<1> QED
  BY <1>1, InitIInv, NextIInv, PTL DEF Spec
-------------------------------------------------------------------------------
(* The refusals. *)

\* A delivery is parsed once: what it parsed changes only with a delivery more.
LEMMA ParsedStays ==
    ASSUME TypeOK, [Next]_vars, NEW t \in Senders
    PROVE  \/ parsed'[t] = parsed[t] /\ deliveries'[t] = deliveries[t]
           \/ ParseRequest(t) /\ deliveries'[t] = deliveries[t] + 1
PROOF
<1> USE DEF handlerVars
<1>1. CASE UNCHANGED <<parsed, deliveries>>
  BY <1>1
<1>2. ASSUME NEW s \in Senders, ParseRequest(s)
      PROVE  \/ parsed'[t] = parsed[t] /\ deliveries'[t] = deliveries[t]
             \/ ParseRequest(t) /\ deliveries'[t] = deliveries[t] + 1
  <2>1. CASE t = s
    <3>1. deliveries'[t] = deliveries[t] + 1
      BY <2>1, <1>2 DEF ParseRequest, TypeOK
    <3> QED
      BY <3>1, <2>1, <1>2
  <2>2. CASE t # s
    BY <2>2, <1>2 DEF ParseRequest, TypeOK
  <2> QED
    BY <2>1, <2>2
<1>3. CASE Tick \/ Crash \/ UNCHANGED vars
  BY <1>1, <1>3 DEF Tick, Crash, vars
<1>4. ASSUME NEW s \in Senders,
             \/ Refuse(s) \/ CallNext(s) \/ IngestEvent(s) \/ Ingested(s) \/ IngestFailed(s)
             \/ Respond(s) \/ StoreFails(s) \/ HangUp(s) \/ Resend(s)
      PROVE  UNCHANGED <<parsed, deliveries>>
  BY <1>4 DEF Refuse, CallNext, IngestEvent, Ingested, IngestFailed, Respond, StoreFails, HangUp, Resend
<1> QED
  BY <1>1, <1>2, <1>3, <1>4 DEF Next, handleEvents

\* Only the call of a waiting handler stores an event, and it stores what was parsed.
LEMMA EventsCome ==
    ASSUME IInv, [Next]_vars, NEW id \in Ids, events'[id] # events[id]
    PROVE  \E s \in Senders : /\ Store!Pending(s) /\ req[s].id = id
                              /\ events'[id] = req[s].hash
                              /\ UNCHANGED <<parsed, deliveries>>
PROOF
<1> USE DEF handlerVars, storeVars
<1>t. TypeOK /\ Store!TypeOK
  BY DEF IInv, TypeOK
<1>1. ASSUME NEW s \in Senders, Store!IngestEvent(s) \/ Store!AckLost(s)
      PROVE  Store!Pending(s) /\ req[s].id = id /\ events'[id] = req[s].hash
  BY <1>1, <1>t DEF Store!TypeOK, Store!IngestEvent, Store!Reject, Store!AnswerDuplicate,
                    Store!AnswerConflict, Store!Accept, Store!AckLost
<1>2. ~(Tick \/ Crash \/ UNCHANGED vars)
  BY DEF Tick, Crash, vars, Store!Fail
<1>3. PICK s \in Senders : handleEvents(s) \/ StoreFails(s) \/ HangUp(s) \/ Resend(s)
  BY <1>2 DEF Next
<1>4. /\ ~(Refuse(s) \/ ParseRequest(s) \/ CallNext(s) \/ Ingested(s) \/ IngestFailed(s))
      /\ ~(Respond(s) \/ Resend(s))
  BY DEF Refuse, ParseRequest, CallNext, Store!Call, Ingested, IngestFailed, Respond, Resend
<1>5. IngestEvent(s) \/ StoreFails(s) \/ HangUp(s)
  BY <1>3, <1>4 DEF handleEvents
<1>6. UNCHANGED <<parsed, deliveries>>
  BY <1>5 DEF IngestEvent, StoreFails, HangUp
<1>7. Store!IngestEvent(s) \/ Store!AckLost(s)
  BY <1>5 DEF IngestEvent, StoreFails, HangUp, Store!Fail
<1> QED
  BY <1>1, <1>6, <1>7

\* A waiting handler asks for an item of its batch, with a hash this delivery gave it.
LEMMA AskedItem ==
    ASSUME RInv, NEW s \in Senders, phase[s] = "waiting"
    PROVE  /\ done[s] + 1 \in DOMAIN Batch[s] /\ deliveries[s] \in Nat \ {0} /\ Valid(s)
           /\ req[s] = parsed[s][done[s] + 1] /\ req[s].id \in Ids /\ req[s].hash \in Hashes
           /\ req[s].id = Batch[s][done[s] + 1].id
           /\ HashOf(req[s].hash, Batch[s][done[s] + 1])
PROOF
<1>1. /\ done[s] \in Nat /\ parsed[s] \in Seq(Store!Requests) /\ Len(parsed[s]) \in Nat
      /\ Batch[s] \in Seq(Items) /\ deliveries[s] \in Nat
  BY BatchAssumption DEF RInv, IInv, TypeOK
<1>2. done[s] < Len(parsed[s]) /\ req[s] = parsed[s][done[s] + 1]
  BY DEF RInv, IInv, CallMatches
<1>3. deliveries[s] # 0
  BY DEF RInv, ParsedBatches
<1>4. /\ Valid(s) /\ Len(parsed[s]) = Len(Batch[s])
      /\ \A i \in DOMAIN Batch[s] :
             parsed[s][i].id = Batch[s][i].id /\ HashOf(parsed[s][i].hash, Batch[s][i])
  BY <1>3 DEF RInv, ParsedBatches
<1>5. done[s] + 1 \in DOMAIN Batch[s] /\ done[s] + 1 \in 1..Len(parsed[s])
  BY <1>1, <1>2, <1>4
<1>6. parsed[s][done[s] + 1] \in Store!Requests /\ parsed[s][done[s] + 1].id \in Ids
  BY <1>1, <1>5 DEF RInv, IInv, ParsedValid
<1> QED
  BY <1>1, <1>2, <1>3, <1>4, <1>5, <1>6 DEF Store!Requests

\* A conflict has another event to blame, or an earlier delivery of an event without time.
LEMMA ConflictContested ==
    ASSUME RInv, NEW s \in Senders, phase[s] = "waiting", reply[s] = "conflict"
    PROVE  \E i \in DOMAIN Batch[s] : Contested(s, i)
PROOF
<1>1. events[req[s].id] \notin {NoHash, req[s].hash}
  BY DEF RInv, RefusalsFounded
<1> DEFINE i == done[s] + 1
<1>2. /\ i \in DOMAIN Batch[s] /\ deliveries[s] \in Nat \ {0}
      /\ req[s] = parsed[s][i] /\ req[s].id \in Ids /\ req[s].hash \in Hashes
      /\ req[s].id = Batch[s][i].id /\ HashOf(req[s].hash, Batch[s][i])
  BY AskedItem
<1> HIDE DEF i
<1>3. PICK t \in Senders : \E j \in DOMAIN Batch[t] : ComesFrom(req[s].id, t, j)
  BY <1>1, <1>2 DEF RInv, StoredDelivered
<1>4. PICK j \in DOMAIN Batch[t] : ComesFrom(req[s].id, t, j)
  BY <1>3
<1>5. events[req[s].id] \in Hashes
  BY <1>1, <1>2 DEF RInv, IInv, TypeOK, Store!TypeOK
<1>6. ~SameHash(Batch[t][j], Batch[s][i])
  <2> SUFFICES ASSUME SameHash(Batch[t][j], Batch[s][i]) PROVE FALSE
    OBVIOUS
  <2>1. events[req[s].id].body = req[s].hash.body /\ events[req[s].id].time = 0 /\ req[s].hash.time = 0
    BY <1>2, <1>4 DEF SameHash, ComesFrom, HashOf
  <2> QED
    BY <2>1, <1>1, <1>2, <1>5 DEF Hashes
<1>7. Batch[t][j].id = Batch[s][i].id
  BY <1>2, <1>4 DEF ComesFrom
<1>8. CASE <<t, j>> # <<s, i>>
  BY <1>2, <1>6, <1>7, <1>8 DEF Contested
<1>9. CASE t = s /\ j = i
  <2>1. ~Batch[s][i].timed
    BY <1>6, <1>9 DEF SameHash
  <2>2. deliveries[s] # 1
    BY <1>1, <1>2, <1>4, <1>9 DEF ComesFrom
  <2>3. deliveries[s] > 1
    BY <2>2, <1>2
  <2> QED
    BY <1>2, <2>1, <2>3 DEF Contested
<1> QED
  BY <1>8, <1>9

\* The state the invariant of the refusals starts in.
LEMMA InitRInv == Init => RInv
PROOF
<1> SUFFICES ASSUME Init PROVE RInv
  OBVIOUS
<1>1. IInv
  BY InitIInv
<1>2. ParsedBatches
  BY DEF Init, ParsedBatches
<1>3. StoredDelivered
  BY DEF Init, Store!Init, StoredDelivered
<1>4. RefusalsFounded
  BY DEF Init, RefusalsFounded
<1> QED
  BY <1>1, <1>2, <1>3, <1>4 DEF RInv

\* What a delivery has parsed are the items of its batch.
LEMMA ParsedBatchesKept == RInv /\ [Next]_vars => ParsedBatches'
PROOF
<1> SUFFICES ASSUME RInv, [Next]_vars, NEW t \in Senders
             PROVE  IF deliveries'[t] = 0 THEN phase'[t] \in {"ready", "over"}
                    ELSE /\ Valid(t) /\ Len(parsed'[t]) = Len(Batch[t])
                         /\ \A i \in DOMAIN Batch[t] :
                                /\ parsed'[t][i].id = Batch[t][i].id
                                /\ HashOf(parsed'[t][i].hash, Batch[t][i])
  BY DEF ParsedBatches, Valid, HashOf
<1> USE DEF handlerVars
<1>t. TypeOK /\ deliveries[t] \in Nat
  BY DEF RInv, IInv, TypeOK
<1>1. CASE ParseRequest(t) /\ deliveries'[t] = deliveries[t] + 1
  <2> DEFINE p == [i \in 1..Len(Batch[t]) |-> rawToStoredEvent(Batch[t][i])]
  <2>1. Valid(t) /\ parsed' = [parsed EXCEPT ![t] = p]
    BY <1>1 DEF ParseRequest
  <2>2. parsed'[t] = p
    BY <2>1, <1>t DEF TypeOK
  <2>3. Batch[t] \in Seq(Items)
    BY BatchAssumption
  <2>4. Len(Batch[t]) \in Nat /\ DOMAIN Batch[t] = 1..Len(Batch[t])
    BY <2>3
  <2>5. Len(p) = Len(Batch[t])
    BY <2>4
  <2>6. \A i \in DOMAIN Batch[t] : p[i] = rawToStoredEvent(Batch[t][i])
    BY <2>4
  <2>7. \A i \in DOMAIN Batch[t] :
            p[i].id = Batch[t][i].id /\ HashOf(p[i].hash, Batch[t][i])
    BY <2>6 DEF rawToStoredEvent, HashOf
  <2> HIDE DEF p
  <2> QED
    BY <1>1, <1>t, <2>1, <2>2, <2>5, <2>7
<1>2. CASE parsed'[t] = parsed[t] /\ deliveries'[t] = deliveries[t]
  <2>1. ASSUME deliveries[t] = 0 PROVE phase'[t] \in {"ready", "over"}
    <3>1. phase[t] \in {"ready", "over"}
      BY <2>1 DEF RInv, ParsedBatches
    <3>2. CASE Tick \/ UNCHANGED vars
      BY <3>1, <3>2 DEF Tick, vars
    <3>3. CASE Crash
      BY <3>1, <3>3, <1>t DEF Crash, TypeOK
    <3>4. ASSUME NEW s \in Senders, handleEvents(s) \/ StoreFails(s) \/ HangUp(s) \/ Resend(s),
                 s # t
          PROVE  phase'[t] = phase[t]
      BY <3>4, <1>t DEF TypeOK, handleEvents, Refuse, ParseRequest, CallNext, IngestEvent, Ingested,
                        IngestFailed, Respond, StoreFails, HangUp, Resend, End
    <3>5. ASSUME handleEvents(t) \/ StoreFails(t) \/ HangUp(t) \/ Resend(t)
          PROVE  phase'[t] \in {"ready", "over"}
      <4>1. ~ParseRequest(t)
        BY <1>2, <2>1, <1>t DEF ParseRequest, TypeOK
      <4> QED
        BY <3>1, <3>5, <4>1, <1>t DEF TypeOK, handleEvents, Refuse, CallNext, IngestEvent,
             Ingested, IngestFailed, Respond, StoreFails, HangUp, Resend, End
    <3> QED
      BY <3>1, <3>2, <3>3, <3>4, <3>5 DEF Next
  <2> QED
    BY <1>2, <2>1 DEF RInv, ParsedBatches
<1> QED
  BY <1>1, <1>2, <1>t, ParsedStays

\* Every stored event keeps its origin, and a new one has the call that stored it.
LEMMA StoredDeliveredKept == RInv /\ [Next]_vars => StoredDelivered'
PROOF
<1> SUFFICES ASSUME RInv, [Next]_vars, NEW id \in Ids, events'[id] # NoHash
             PROVE  \E t \in Senders : \E j \in DOMAIN Batch[t] : ComesFrom(id, t, j)'
  BY DEF StoredDelivered
<1>t. IInv /\ TypeOK
  BY DEF RInv, IInv
<1>1. CASE events[id] # NoHash
  <2>1. events'[id] = events[id]
    BY <1>1, <1>t, EventsKept
  <2>2. PICK t \in Senders : \E j \in DOMAIN Batch[t] : ComesFrom(id, t, j)
    BY <1>1 DEF RInv, StoredDelivered
  <2>3. PICK j \in DOMAIN Batch[t] : ComesFrom(id, t, j)
    BY <2>2
  <2>4. deliveries[t] \in Nat
    BY <1>t DEF TypeOK
  <2>5. ComesFrom(id, t, j)'
    <3>1. CASE parsed'[t] = parsed[t] /\ deliveries'[t] = deliveries[t]
      BY <2>1, <2>3, <3>1 DEF ComesFrom, HashOf
    <3>2. CASE deliveries'[t] = deliveries[t] + 1
      BY <2>1, <2>3, <2>4, <3>2 DEF ComesFrom, HashOf
    <3> QED
      BY <3>1, <3>2, <1>t, ParsedStays
  <2> QED
    BY <2>5
<1>2. CASE events[id] = NoHash
  <2>1. PICK s \in Senders : /\ Store!Pending(s) /\ req[s].id = id
                             /\ events'[id] = req[s].hash
                             /\ UNCHANGED <<parsed, deliveries>>
    BY <1>2, <1>t, EventsCome
  <2>2. phase[s] = "waiting"
    BY <2>1, <1>t DEF IInv, CallMatches
  <2>3. PICK j \in DOMAIN Batch[s] : j = done[s] + 1
    BY <2>2, AskedItem
  <2>4. /\ deliveries[s] > 0 /\ req[s] = parsed[s][j] /\ req[s].id = Batch[s][j].id
        /\ HashOf(req[s].hash, Batch[s][j])
    BY <2>2, <2>3, AskedItem
  <2>5. ComesFrom(id, s, j)'
    BY <2>1, <2>4 DEF ComesFrom, HashOf
  <2> QED
    BY <2>5
<1> QED
  BY <1>1, <1>2

\* A contested item stays contested.
LEMMA ContestedStays ==
    ASSUME TypeOK, [Next]_vars, NEW s \in Senders, NEW i, Contested(s, i)
    PROVE  Contested(s, i)'
PROOF
<1>1. deliveries[s] \in Nat /\ (deliveries'[s] = deliveries[s] \/ deliveries'[s] = deliveries[s] + 1)
  BY ParsedStays DEF TypeOK
<1>2. deliveries[s] > 1 => deliveries'[s] > 1
  BY <1>1
<1> QED
  BY <1>2 DEF Contested, SameHash

\* The reasons of refusals under way stay true, the answers keep their reasons.
LEMMA RefusalsFoundedKept == RInv /\ [Next]_vars => RefusalsFounded'
PROOF
<1> SUFFICES ASSUME RInv, [Next]_vars PROVE RefusalsFounded'
  OBVIOUS
<1> USE DEF handlerVars, storeVars
<1>t. IInv /\ TypeOK /\ Store!TypeOK
  BY DEF RInv, IInv, TypeOK
<1>w. ASSUME NEW s \in Senders, phase[s] = "waiting", req'[s] = req[s], reply'[s] = reply[s]
      PROVE  /\ reply'[s] # "invalid"
             /\ reply'[s] = "conflict" => events'[req'[s].id] \notin {NoHash, req'[s].hash}
  BY <1>w, <1>t, AskedItem, EventsKept DEF RInv, RefusalsFounded
<1>a. ASSUME NEW s \in Senders, answer'[s] = answer[s]
      PROVE  /\ answer'[s] = "400" => ~Valid(s)
             /\ answer'[s] = "409" => \E i \in DOMAIN Batch[s] : Contested(s, i)'
  BY <1>a, <1>t, ContestedStays DEF RInv, RefusalsFounded
<1> DEFINE Q(s) == /\ phase'[s] = "waiting" => reply'[s] # "invalid"
                   /\ phase'[s] = "waiting" /\ reply'[s] = "conflict" =>
                          events'[req'[s].id] \notin {NoHash, req'[s].hash}
                   /\ answer'[s] = "400" => ~Valid(s)
                   /\ answer'[s] = "409" => \E i \in DOMAIN Batch[s] : Contested(s, i)'
<1>o. ASSUME NEW s \in Senders, phase'[s] = phase[s], req'[s] = req[s], reply'[s] = reply[s],
             answer'[s] = answer[s]
      PROVE  Q(s)
  BY <1>o, <1>w, <1>a
<1>1. CASE Tick \/ UNCHANGED vars
  BY <1>1, <1>o DEF Tick, vars, RefusalsFounded, Valid
<1>2. CASE Crash
  <2> SUFFICES ASSUME NEW s \in Senders PROVE Q(s)
    BY DEF RefusalsFounded, Valid
  <2>1. phase'[s] # "waiting"
    BY <1>2, <1>t DEF Crash, TypeOK
  <2>2. answer'[s] = "lost" \/ answer'[s] = answer[s]
    BY <1>2, <1>t DEF Crash, TypeOK
  <2> QED
    BY <2>1, <2>2, <1>a
<1>3. ASSUME NEW s \in Senders, handleEvents(s) \/ StoreFails(s) \/ HangUp(s) \/ Resend(s)
      PROVE  RefusalsFounded'
  <2>1. ASSUME NEW t \in Senders, t # s PROVE Q(t)
    <3>1. phase'[t] = phase[t] /\ answer'[t] = answer[t]
      BY <1>3, <2>1, <1>t DEF TypeOK, handleEvents, Refuse, ParseRequest, CallNext, IngestEvent,
           Ingested, IngestFailed, Respond, StoreFails, HangUp, Resend, End
    <3>2. req'[t] = req[t] /\ reply'[t] = reply[t]
      <4>1. CASE UNCHANGED <<req, reply>>
        BY <4>1
      <4>2. CASE Store!IngestEvent(s) \/ Store!AckLost(s) \/ Store!Fail({s})
        BY <4>2, <2>1, <1>t, StoreStep
      <4>3. CASE CallNext(s)
        BY <4>3, <2>1, <1>t DEF CallNext, Store!Call, Store!TypeOK
      <4> QED
        BY <1>3, <4>1, <4>2, <4>3 DEF handleEvents, Refuse, ParseRequest, IngestEvent, Ingested,
             IngestFailed, Respond, StoreFails, HangUp, Resend
    <3> QED
      BY <3>1, <3>2, <1>o
  <2>2. Q(s)
    <3>1. CASE Refuse(s)
      <4>1. phase'[s] = "over" /\ answer'[s] = "400" /\ ~Valid(s)
        BY <3>1, <1>t DEF Refuse, End, TypeOK
      <4> QED
        BY <4>1
    <3>2. CASE ParseRequest(s) \/ Ingested(s)
      <4>1. phase'[s] = "handling" /\ answer'[s] = answer[s]
        BY <3>2, <1>t DEF ParseRequest, Ingested, TypeOK
      <4> QED
        BY <4>1, <1>a
    <3>3. CASE CallNext(s)
      <4>1. reply'[s] = "none" /\ answer'[s] = answer[s]
        BY <3>3, <1>t DEF CallNext, Store!Call, Store!TypeOK
      <4> QED
        BY <4>1, <1>a
    <3>4. CASE IngestFailed(s)
      <4>1. phase[s] = "waiting" /\ reply[s] # "invalid"
        BY <3>4 DEF IngestFailed, RInv, RefusalsFounded
      <4>2. \/ reply[s] = "conflict" /\ phase'[s] = "over" /\ answer'[s] = "409"
            \/ phase'[s] = "failed" /\ answer'[s] = "500"
        BY <3>4, <4>1, <1>t DEF IngestFailed, End, TypeOK
      <4>3. reply[s] = "conflict" => \E i \in DOMAIN Batch[s] : Contested(s, i)
        BY <4>1, ConflictContested
      <4>4. reply[s] = "conflict" => \E i \in DOMAIN Batch[s] : Contested(s, i)'
        BY <4>3, <1>t, ContestedStays
      <4> QED
        BY <4>2, <4>4
    <3>5. CASE Respond(s) \/ Resend(s) \/ HangUp(s)
      <4>1. phase'[s] # "waiting" /\ answer'[s] \in {"200", "202", "none", "lost"}
        BY <3>5, <1>t DEF Respond, Resend, HangUp, End, TypeOK
      <4> QED
        BY <4>1
    <3>6. CASE IngestEvent(s) \/ StoreFails(s)
      <4>1. /\ phase'[s] = phase[s] /\ answer'[s] = answer[s]
            /\ Store!IngestEvent(s) \/ Store!AckLost(s) \/ Store!Fail({s})
        BY <3>6 DEF IngestEvent, StoreFails
      <4>2. Store!Pending(s) /\ req' = req
        BY <4>1, <1>t, StoreStep
      <4>3. phase[s] = "waiting"
        BY <4>2, <1>t DEF IInv, CallMatches
      <4>4. req[s].id \in Ids
        BY <4>3, AskedItem
      <4>5. ~Store!Reject(s)
        BY <4>4, BatchAssumption DEF Store!Reject, Store!validateStoredEvent
      <4>6. /\ reply'[s] # "invalid"
            /\ reply'[s] = "conflict" => events'[req[s].id] \notin {NoHash, req[s].hash}
        BY <4>1, <4>5, <1>t DEF Store!IngestEvent, Store!AnswerDuplicate, Store!AnswerConflict,
             Store!Accept, Store!AckLost, Store!Fail, Store!TypeOK
      <4> QED
        BY <4>1, <4>2, <4>6, <1>a
    <3> QED
      BY <1>3, <3>1, <3>2, <3>3, <3>4, <3>5, <3>6 DEF handleEvents
  <2>3. \A t \in Senders : Q(t)
    BY <2>1, <2>2
  <2> QED
    BY <2>3 DEF RefusalsFounded, Valid
<1> QED
  BY <1>1, <1>2, <1>3 DEF Next

\* The three parts together.
LEMMA NextRInv == RInv /\ [Next]_vars => RInv'
PROOF
  BY NextIInv, ParsedBatchesKept, StoredDeliveredKept, RefusalsFoundedKept DEF RInv

\* A refused batch left nothing behind, and a conflict is never the fault of a retry: for any
\* batches, any number of deliveries and whatever fails between them.
THEOREM BatchRefusalsJustified == Spec => []RefusalsJustified
PROOF
<1>1. RInv => RefusalsJustified
  <2> SUFFICES ASSUME RInv, NEW s \in Senders
               PROVE  /\ answer[s] = "400" =>
                             \A id \in IdsOf(s) \cap Ids :
                                 (\A t \in Senders \ {s} : id \notin IdsOf(t)) => events[id] = NoHash
                      /\ answer[s] = "409" => \E i \in DOMAIN Batch[s] : Contested(s, i)
    BY DEF RefusalsJustified
  <2>1. ASSUME answer[s] = "400", NEW id \in Ids, \A t \in Senders \ {s} : id \notin IdsOf(t),
               events[id] # NoHash
        PROVE  FALSE
    <3>1. PICK t \in Senders : \E j \in DOMAIN Batch[t] : ComesFrom(id, t, j)
      BY <2>1 DEF RInv, StoredDelivered
    <3>2. PICK j \in DOMAIN Batch[t] : ComesFrom(id, t, j)
      BY <3>1
    <3>3. id \in IdsOf(t) /\ deliveries[t] # 0
      BY <3>2 DEF ComesFrom, IdsOf, RInv, IInv, TypeOK
    <3>4. t = s
      BY <3>3, <2>1
    <3> QED
      BY <3>3, <3>4, <2>1 DEF RInv, ParsedBatches, RefusalsFounded
  <2> QED
    BY <2>1 DEF RInv, RefusalsFounded
<1> QED
  BY <1>1, InitRInv, NextRInv, PTL DEF Spec
===============================================================================
