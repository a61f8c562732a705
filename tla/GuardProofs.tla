----------------------------- MODULE GuardProofs ------------------------------
(***************************************************************************)
(* What stands between a request and its handler.  RateLimit, for any      *)
(* requests, clients, actions, limits and minutes: the counters stay       *)
(* within the requests made, a refusal means that the limit was used up by *)
(* the same client in the same minute, and a client gets its limit once,   *)
(* and once more for each time a late request moves the window back.       *)
(* Access, for any number of requests, keys, rotations and failing         *)
(* fetches: how old an accepted key may be, that a published key is found, *)
(* that no valid configuration leaves an action open, and that none locks  *)
(* everybody out of one by accident.  Guards asks one before the other and *)
(* implements both.                                                        *)
(***************************************************************************)
EXTENDS Guards, FiniteSetTheorems, TLAPS

-------------------------------------------------------------------------------
(* The rate limiter. *)

\* The requests are finitely many.
LEMMA RequestsFinite == IsFiniteSet(Requests) /\ Cardinality(Requests) \in Nat
BY RateLimitAssumption, FS_CardinalityType

\* What went through in a minute is a finite set, in this state and in the next.
LEMMA PassedFinite ==
    ASSUME NEW k, NEW m
    PROVE  /\ IsFiniteSet(Passed(k, m)) /\ Cardinality(Passed(k, m)) \in Nat
           /\ IsFiniteSet(Passed(k, m)') /\ Cardinality(Passed(k, m)') \in Nat
<1>1. Passed(k, m) \in SUBSET Requests /\ Passed(k, m)' \in SUBSET Requests
    BY DEF Passed
<1> QED
    BY <1>1, RequestsFinite, FS_Subset, FS_CardinalityType

\* So is what was answered, and it is no more than the requests.
LEMMA AnsweredFinite ==
    ASSUME NEW k
    PROVE  /\ IsFiniteSet(Answered(k)) /\ Cardinality(Answered(k)) \in Nat
           /\ IsFiniteSet(Answered(k)') /\ Cardinality(Answered(k)') \in Nat
           /\ Cardinality(Answered(k)') <= Cardinality(Requests)
<1>1. Answered(k) \in SUBSET Requests /\ Answered(k)' \in SUBSET Requests
    BY DEF Answered
<1> QED
    BY <1>1, RequestsFinite, FS_Subset, FS_CardinalityType

\* A limit for one more step back.
LEMMA OneMoreLimit ==
    ASSUME NEW l \in Int, NEW b \in Nat
    PROVE  /\ l * b \in Int
           /\ l * (b + 1) = l * b + l
           /\ l * (1 + b) = l * b + l
OBVIOUS

\* The limiter starts empty.
LEMMA LimiterInitInv == LimiterInit => LimiterIInv
<1> SUFFICES ASSUME LimiterInit PROVE LimiterIInv
    OBVIOUS
<1>1. \A k, m : Passed(k, m) = {} /\ Answered(k) = {}
    BY DEF LimiterInit, Passed, Answered
<1>2. \A k, m : Cardinality(Passed(k, m)) = 0 /\ Cardinality(Answered(k)) = 0
    BY <1>1, FS_EmptySet
<1>3. Cardinality(Requests) \in Nat
    BY RequestsFinite
<1>4. LimiterTypeOK
    BY <1>3, RateLimitAssumption DEF LimiterInit, LimiterTypeOK, Minutes
<1>5. CountsAnswered /\ LockingLimited /\ CountsPassed /\ RefusedOverLimit
    BY <1>2 DEF LimiterInit, CountsAnswered, LockingLimited, CountsPassed, RefusedOverLimit
<1>6. Spent
    <2> SUFFICES ASSUME NEW k \in Keys, NEW m \in Minutes, Limits[k[1]] > 0
                 PROVE  /\ Cardinality(Passed(k, m)) <= Limits[k[1]] * backs + Limits[k[1]]
                        /\ m > window => Cardinality(Passed(k, m)) <= Limits[k[1]] * backs
                        /\ m = window => Cardinality(Passed(k, m)) <= Limits[k[1]] * backs + counters[k]
        BY DEF Spent
    <2>1. Limits[k[1]] \in Int
        BY RateLimitAssumption DEF Keys
    <2>2. backs = 0 /\ counters[k] = 0 /\ Limits[k[1]] * 0 = 0
        BY <2>1 DEF LimiterInit
    <2> QED
        BY <1>2, <2>1, <2>2
<1> QED
    BY <1>4, <1>5, <1>6 DEF LimiterIInv

\* A step that takes nobody's answer away, counts nothing and lets nobody with a limit pass
\* keeps the invariant: a minute, an arrival, a stutter.
LEMMA QuietStep ==
    ASSUME LimiterIInv, LimiterTypeOK', LockingLimited', UNCHANGED <<window, counters, bucket, backs>>,
           \A k \in Keys : Answered(k) \subseteq Answered(k)',
           \A k \in Keys, m \in Minutes : Limits[k[1]] > 0 => Passed(k, m)' = Passed(k, m),
           \A r \in Requests : place'[r] = "refused" => place[r] = "refused" /\ seen'[r] = seen[r]
    PROVE  LimiterIInv'
<1> USE DEF LimiterIInv
<1>1. CountsAnswered'
    <2> SUFFICES ASSUME NEW k \in Keys PROVE counters'[k] <= Cardinality(Answered(k)')
        BY DEF CountsAnswered
    <2>1. counters[k] <= Cardinality(Answered(k)) /\ counters[k] \in Int
        BY DEF CountsAnswered, LimiterTypeOK
    <2>2. Cardinality(Answered(k)) <= Cardinality(Answered(k)')
        BY AnsweredFinite, FS_Subset
    <2> QED
        BY <2>1, <2>2, AnsweredFinite
<1>2. CountsPassed'
    <2> SUFFICES ASSUME NEW k \in Keys
                 PROVE  \/ counters'[k] <= Cardinality(Passed(k, window)')
                        \/ Limits[k[1]] <= Cardinality(Passed(k, window)')
        BY DEF CountsPassed
    <2>1. CASE Limits[k[1]] > 0
        BY <2>1 DEF CountsPassed, LimiterTypeOK
    <2>2. CASE ~(Limits[k[1]] > 0)
        <3>1. Limits[k[1]] \in Int
            BY RateLimitAssumption DEF Keys
        <3>2. Cardinality(Passed(k, window)') \in Nat
            BY PassedFinite
        <3> QED
            BY <2>2, <3>1, <3>2
    <2> QED
        BY <2>1, <2>2
<1>3. Spent'
    BY DEF Spent, LimiterTypeOK
<1>4. RefusedOverLimit'
    <2> SUFFICES ASSUME NEW r \in Requests, place'[r] = "refused"
                 PROVE  Cardinality(Passed(bucket[r], seen[r])') >= LimitOf(r)
        BY DEF RefusedOverLimit, LimitOf, Passed
    <2>1. bucket[r] \in Keys /\ seen[r] \in Minutes /\ LimitOf(r) \in Int
        BY RateLimitAssumption DEF LimiterTypeOK, Keys, LimitOf
    <2>2. CASE LimitOf(r) > 0
        BY <2>1, <2>2 DEF RefusedOverLimit, LimitOf
    <2>3. CASE ~(LimitOf(r) > 0)
        BY <2>1, <2>3, PassedFinite
    <2> QED
        BY <2>2, <2>3
<1> QED
    BY <1>1, <1>2, <1>3, <1>4

\* Time passes, or nothing happens.
LEMMA MinuteInv ==
    ASSUME LimiterIInv, NextMinute \/ UNCHANGED limiterVars
    PROVE  LimiterIInv'
<1>1. LimiterTypeOK'
    BY RateLimitAssumption DEF LimiterIInv, LimiterTypeOK, NextMinute, limiterVars, Minutes
<1>2. UNCHANGED <<window, counters, bucket, backs, place, seen>>
    BY DEF NextMinute, limiterVars
<1>3. LockingLimited'
    BY <1>2 DEF LimiterIInv, LockingLimited, LimitOf
<1> QED
    BY <1>1, <1>2, <1>3, QuietStep DEF Passed, Answered

\* A request arrives: it waits for the mutex, or passes because its action has no limit.
LEMMA ReadClockInv ==
    ASSUME LimiterIInv, NEW r \in Requests, ReadClock(r)
    PROVE  LimiterIInv'
<1>1. LimiterTypeOK'
    BY DEF LimiterIInv, LimiterTypeOK, ReadClock
<1>2. UNCHANGED <<window, counters, bucket, backs>>
    BY DEF ReadClock
<1>3. LockingLimited'
    BY RateLimitAssumption DEF LimiterIInv, LimiterTypeOK, Keys, LockingLimited, LimitOf, ReadClock
<1>4. \A k \in Keys : Answered(k) \subseteq Answered(k)'
    BY DEF LimiterIInv, LimiterTypeOK, Answered, ReadClock
<1>5. \A k \in Keys, m \in Minutes : Limits[k[1]] > 0 => Passed(k, m)' = Passed(k, m)
    BY RateLimitAssumption DEF LimiterIInv, LimiterTypeOK, Keys, Passed, ReadClock, LimitOf
<1>6. \A q \in Requests : place'[q] = "refused" => place[q] = "refused" /\ seen'[q] = seen[q]
    BY DEF LimiterIInv, LimiterTypeOK, ReadClock
<1> QED
    BY <1>1, <1>2, <1>3, <1>4, <1>5, <1>6, QuietStep

\* A request is counted under the mutex and passes or is refused.
LEMMA AllowInv ==
    ASSUME LimiterIInv, NEW r \in Requests, Allow(r)
    PROVE  LimiterIInv'
<1> USE DEF LimiterIInv
<1>a. PICK K \in Keys : K = bucket[r]
    BY DEF LimiterTypeOK
<1>b. PICK M \in Minutes : M = seen[r]
    BY DEF LimiterTypeOK
<1> DEFINE L == LimitOf(r)
           n == counters'[K]
<1>1. /\ K \in Keys /\ M \in Minutes /\ window \in Minutes /\ backs \in Nat
      /\ L = Limits[K[1]] /\ L \in Int /\ L > 0
      /\ window' = M /\ bucket' = bucket /\ seen' = seen /\ minute' = minute
      /\ place[r] = "locking"
    BY <1>a, <1>b, RateLimitAssumption DEF LimiterTypeOK, Keys, LimitOf, LockingLimited, Allow
<1>2. /\ counters \in [Keys -> Nat]
      /\ counters' \in [Keys -> Nat]
      /\ n = IF M # window THEN 1 ELSE counters[K] + 1
      /\ \A k \in Keys : k # K => counters'[k] = IF M # window THEN 0 ELSE counters[k]
    <2>1. counters \in [Keys -> Nat]
        BY RequestsFinite DEF LimiterTypeOK
    <2>2. Base(r) \in [Keys -> Nat]
        BY <2>1 DEF Base
    <2>3. counters' = [Base(r) EXCEPT ![K] = @ + 1]
        BY <1>a DEF Allow
    <2> QED
        BY <1>1, <1>b, <2>1, <2>2, <2>3 DEF Base
<1>3. place' = [place EXCEPT ![r] = IF n <= L THEN "allowed" ELSE "refused"]
    BY <1>a DEF Allow
<1>4. backs' = IF M < window THEN backs + 1 ELSE backs
    BY <1>b DEF Allow
<1> HIDE DEF L, n
<1>5. \A k \in Keys, m \in Minutes : ~(k = K /\ m = M) => Passed(k, m)' = Passed(k, m)
    BY <1>1, <1>3, <1>a, <1>b DEF Passed, LimiterTypeOK
<1>6. Cardinality(Passed(K, M)') =
          IF n <= L THEN Cardinality(Passed(K, M)) + 1 ELSE Cardinality(Passed(K, M))
    <2>1. CASE n <= L
        <3>1. Passed(K, M)' = Passed(K, M) \cup {r} /\ r \notin Passed(K, M)
            BY <1>1, <1>3, <1>a, <1>b, <2>1 DEF Passed, LimiterTypeOK
        <3> QED
            BY <2>1, <3>1, PassedFinite, FS_AddElement
    <2>2. CASE ~(n <= L)
        <3>1. Passed(K, M)' = Passed(K, M)
            BY <1>1, <1>3, <2>2 DEF Passed, LimiterTypeOK
        <3> QED
            BY <2>2, <3>1
    <2> QED
        BY <2>1, <2>2
<1>7. \A k \in Keys, m \in Minutes :
          /\ Cardinality(Passed(k, m)) \in Nat /\ Cardinality(Passed(k, m)') \in Nat
          /\ Cardinality(Passed(k, m)) <= Cardinality(Passed(k, m)')
    BY <1>1, <1>5, <1>6, PassedFinite
<1>8. \A k \in Keys :
          /\ Cardinality(Answered(k)) <= Cardinality(Answered(k)')
          /\ k = K => Cardinality(Answered(k)') = Cardinality(Answered(k)) + 1
    <2> SUFFICES ASSUME NEW k \in Keys
                 PROVE  /\ Cardinality(Answered(k)) <= Cardinality(Answered(k)')
                        /\ k = K => Cardinality(Answered(k)') = Cardinality(Answered(k)) + 1
        OBVIOUS
    <2>1. r \notin Answered(k)
        BY <1>1 DEF Answered
    <2>2. k = K => Answered(k)' = Answered(k) \cup {r}
        BY <1>1, <1>3, <1>a DEF Answered, LimiterTypeOK
    <2>3. k # K => Answered(k)' = Answered(k)
        BY <1>1, <1>3, <1>a DEF Answered, LimiterTypeOK
    <2> QED
        BY <2>1, <2>2, <2>3, AnsweredFinite, FS_AddElement
<1>9. CountsAnswered'
    <2> SUFFICES ASSUME NEW k \in Keys PROVE counters'[k] <= Cardinality(Answered(k)')
        BY DEF CountsAnswered
    <2>1. counters[k] <= Cardinality(Answered(k)) /\ Cardinality(Answered(k)) \in Nat
        BY AnsweredFinite DEF CountsAnswered
    <2>2. Cardinality(Answered(k)') \in Nat
        BY AnsweredFinite
    <2>3. CASE k = K
        BY <1>1, <1>2, <1>8, <2>1, <2>2, <2>3 DEF n
    <2>4. CASE k # K
        BY <1>1, <1>2, <1>8, <2>1, <2>2, <2>4
    <2> QED
        BY <2>3, <2>4
<1>10. LimiterTypeOK'
    <2>1. \A k \in Keys : counters'[k] \in 0..Cardinality(Requests)
        <3> SUFFICES ASSUME NEW k \in Keys PROVE counters'[k] \in 0..Cardinality(Requests)
            OBVIOUS
        <3>1. counters'[k] <= Cardinality(Answered(k)') /\ counters'[k] \in Nat
            BY <1>2, <1>9 DEF CountsAnswered
        <3> QED
            BY <3>1, RequestsFinite, AnsweredFinite
    <2>2. counters' \in [Keys -> 0..Cardinality(Requests)]
        BY <1>2, <2>1
    <2>3. backs' \in Nat
        BY <1>1, <1>4
    <2> QED
        BY <1>1, <1>3, <2>2, <2>3 DEF LimiterTypeOK
<1>11. LockingLimited'
    BY <1>1, <1>3 DEF LockingLimited, LimitOf, LimiterTypeOK
<1>12. CountsPassed'
    <2> SUFFICES ASSUME NEW k \in Keys
                 PROVE  \/ counters'[k] <= Cardinality(Passed(k, M)')
                        \/ Limits[k[1]] <= Cardinality(Passed(k, M)')
        BY <1>1 DEF CountsPassed, Passed
    <2>1. Limits[k[1]] \in Int
        BY RateLimitAssumption DEF Keys
    <2>2. CASE M # window
        BY <1>1, <1>2, <1>6, <1>7, <2>1, <2>2 DEF n
    <2>3. CASE M = window
        <3>1. \/ counters[k] <= Cardinality(Passed(k, M))
              \/ Limits[k[1]] <= Cardinality(Passed(k, M))
            BY <2>3 DEF CountsPassed
        <3>2. CASE k = K
            BY <1>1, <1>2, <1>6, <1>7, <2>1, <2>3, <3>1, <3>2 DEF n
        <3>3. CASE k # K
            BY <1>1, <1>2, <1>5, <1>7, <2>1, <2>3, <3>1, <3>3
        <3> QED
            BY <3>2, <3>3
    <2> QED
        BY <2>2, <2>3
<1>13. Spent'
    <2> SUFFICES ASSUME NEW k \in Keys, NEW m \in Minutes, Limits[k[1]] > 0
                 PROVE  /\ Cardinality(Passed(k, m)') <= Limits[k[1]] * backs' + Limits[k[1]]
                        /\ m > M => Cardinality(Passed(k, m)') <= Limits[k[1]] * backs'
                        /\ m = M => Cardinality(Passed(k, m)') <= Limits[k[1]] * backs' + counters'[k]
        BY <1>1 DEF Spent
    <2> DEFINE l == Limits[k[1]]
               p == Cardinality(Passed(k, m))
               q == Cardinality(Passed(k, m)')
               s == l * backs
               t == l * backs'
    <2>1. l \in Int /\ l > 0 /\ p \in Nat /\ q \in Nat /\ s \in Int
        BY <1>1, <1>7, RateLimitAssumption, OneMoreLimit DEF Keys
    <2>2. t = IF M < window THEN s + l ELSE s
        BY <1>1, <1>4, <2>1, OneMoreLimit
    <2>3. /\ p <= s + l
          /\ m > window => p <= s
          /\ m = window => p <= s + counters[k]
        BY DEF Spent
    <2>4. m \in Int /\ M \in Int /\ window \in Int /\ counters[k] \in Nat /\ counters'[k] \in Nat
        BY <1>1, <1>2 DEF Minutes
    <2>5. CASE k = K /\ m = M
        <3>1. q = (IF n <= L THEN p + 1 ELSE p) /\ L = l /\ n = counters'[k]
            BY <1>1, <1>6, <2>5 DEF n
        <3>2. n = IF M # window THEN 1 ELSE counters[k] + 1
            BY <1>2, <2>5
        <3> HIDE DEF l, p, q, s, t
        <3>3. q <= t + n
            BY <2>1, <2>2, <2>3, <2>4, <2>5, <3>1, <3>2
        <3>4. q <= t + l
            BY <2>1, <2>2, <2>3, <2>4, <2>5, <3>1, <3>2, <3>3
        <3>5. q <= t + l /\ (m > M => q <= t) /\ (m = M => q <= t + counters'[k])
            BY <2>4, <2>5, <3>1, <3>3, <3>4
        <3> QED
            BY <3>5 DEF l, q, t
    <2>6. CASE ~(k = K /\ m = M)
        <3>1. q = p
            BY <1>5, <2>6
        <3>2. m = M => counters'[k] = IF M # window THEN 0 ELSE counters[k]
            BY <1>2, <2>6
        <3> HIDE DEF l, p, q, s, t
        <3>3. q <= t + l /\ (m > M => q <= t) /\ (m = M => q <= t + counters'[k])
            BY <2>1, <2>2, <2>3, <2>4, <3>1, <3>2
        <3> QED
            BY <3>3 DEF l, q, t
    <2> QED
        BY <2>5, <2>6
<1>14. RefusedOverLimit'
    <2> SUFFICES ASSUME NEW q \in Requests, place'[q] = "refused"
                 PROVE  Cardinality(Passed(bucket[q], seen[q])') >= LimitOf(q)'
        BY DEF RefusedOverLimit
    <2>a. PICK k \in Keys : k = bucket[q]
        BY DEF LimiterTypeOK
    <2>b. PICK m \in Minutes : m = seen[q]
        BY DEF LimiterTypeOK
    <2>1. LimitOf(q) = Limits[k[1]] /\ LimitOf(q)' = Limits[k[1]] /\ Limits[k[1]] \in Int
        BY <1>1, <2>a, RateLimitAssumption DEF Keys, LimitOf
    <2>2. ASSUME q = r PROVE Cardinality(Passed(k, m)') >= Limits[k[1]]
        <3>1. ~(n <= L)
            BY <1>3, <2>2 DEF LimiterTypeOK
        <3>2. M = window /\ counters[K] >= L
            BY <1>1, <1>2, <3>1 DEF n
        <3>3. Cardinality(Passed(K, M)) >= L
            BY <1>1, <1>2, <1>7, <3>2 DEF CountsPassed
        <3>4. k = K /\ m = M /\ L = Limits[k[1]]
            BY <1>1, <1>a, <1>b, <2>a, <2>b, <2>2
        <3> QED
            BY <1>7, <2>1, <3>3, <3>4
    <2>3. ASSUME q # r PROVE Cardinality(Passed(k, m)') >= Limits[k[1]]
        <3>1. Cardinality(Passed(k, m)) >= LimitOf(q)
            BY <1>3, <2>a, <2>b, <2>3 DEF RefusedOverLimit, LimiterTypeOK
        <3> QED
            BY <1>7, <2>1, <3>1
    <2>4. Cardinality(Passed(k, m)') >= Limits[k[1]]
        BY <2>2, <2>3
    <2> QED
        BY <1>1, <2>a, <2>b, <2>1, <2>4
<1> QED
    BY <1>9, <1>10, <1>11, <1>12, <1>13, <1>14

\* The invariant holds in every reachable state.
LEMMA LimiterInvariance == LimiterSpec => []LimiterIInv
<1>1. LimiterIInv /\ [LimiterNext]_limiterVars => LimiterIInv'
    BY MinuteInv, ReadClockInv, AllowInv DEF LimiterNext
<1> QED
    BY LimiterInitInv, <1>1, PTL DEF LimiterSpec

\* The counters never exceed the requests made, so the map cannot count a request twice
\* (ratelimit.go 44-48).
THEOREM RateLimitTypeOK == LimiterSpec => []LimiterTypeOK
<1>1. LimiterIInv => LimiterTypeOK
    BY DEF LimiterIInv
<1> QED
    BY LimiterInvariance, <1>1, PTL

\* Nobody is refused before the limit of the same client, action and minute is used up,
\* whichever way late requests move the window (ratelimit.go 39-48).
THEOREM RefusalsEarned == LimiterSpec => []RefusedOverLimit
<1>1. LimiterIInv => RefusedOverLimit
    BY DEF LimiterIInv
<1> QED
    BY LimiterInvariance, <1>1, PTL

\* A client gets the limit once in a minute, and once more for each step back of the window
\* (ratelimit.go 39-48).
THEOREM LimitKept == LimiterSpec => []LimitPerReset
<1>1. LimiterIInv => LimitPerReset
    <2> SUFFICES ASSUME LimiterIInv, NEW k \in Keys, NEW m \in Minutes, Limits[k[1]] > 0
                 PROVE  Cardinality(Passed(k, m)) <= Limits[k[1]] * (1 + backs)
        BY DEF LimitPerReset
    <2>1. Cardinality(Passed(k, m)) <= Limits[k[1]] * backs + Limits[k[1]]
        BY DEF LimiterIInv, Spent
    <2>2. Limits[k[1]] \in Int /\ backs \in Nat
        BY RateLimitAssumption DEF LimiterIInv, LimiterTypeOK, Keys
    <2> QED
        BY <2>1, <2>2, OneMoreLimit
<1> QED
    BY LimiterInvariance, <1>1, PTL

-------------------------------------------------------------------------------
(* Access. *)

\* A configuration that Validate accepts asks every allowed request for a credential.
LEMMA DecisionNeedsCredential ==
    ASSUME NEW f \in Config, NEW q, NEW k, Validate(f), ~f.insecure, authorize(f, q, k)
    PROVE  ShowsCredential(f, q, k)
PROOF
<1>1. \A S : authorizeRoles(f, q, k, S) => f.roles = "off" \/ resolveRoles(f, q, k) # {}
  BY DEF authorizeRoles
<1>2. CASE f.roles # "off"
  BY <1>1, <1>2 DEF authorize, authorizeRead, authorizeExport, authorizeIngest, ShowsCredential
<1>3. CASE f.roles = "off"
  BY <1>3 DEF authorize, authorizeRead, authorizeExport, authorizeIngest, authorizeReadToken,
              IngestToken, Validate, ShowsCredential, Config
<1> QED
  BY <1>2, <1>3

\* Somebody passes under a valid configuration, unless a JWT and a static token are wanted in
\* the one header or no JWT can be verified: the witness shows what the configuration asks
\* for; in the other cases the bearer would have to be two things at once, or no token is a
\* verified one.
LEMMA SomebodyPasses ==
    ASSUME NEW f \in Config, Validate(f), NEW kid \in Kids, NEW action \in Actions
    PROVE  (\E q \in Request : q.action = action /\ authorize(f, q, "found"))
               <=> /\ ~(f.roles = "jwt" /\ (f.read \/ (action = "ingest" /\ f.ingest)))
                   /\ ~(f.roles = "jwt" /\ f.jwt = {"pem"} /\ ~f.parses)
PROOF
<1> DEFINE Both == f.roles = "jwt" /\ (f.read \/ (action = "ingest" /\ f.ingest))
           NoKey == f.roles = "jwt" /\ f.jwt = {"pem"} /\ ~f.parses
           jwt == IF "secret" \in f.jwt THEN "hs256" ELSE "rs256"
           token == IF action = "ingest" /\ f.ingest THEN "ingest" ELSE "read"
           bearer == IF f.roles = "jwt" THEN jwt ELSE token
           w == [action |-> action, bearer |-> bearer, kid |-> kid, good |-> TRUE,
                 roles |-> {"admin"}, signed |-> TRUE]
<1>1. w \in Request
  BY DEF Request, Roles
<1>2. /\ w.action = action /\ w.bearer = bearer /\ w.good = TRUE
      /\ w.roles = {"admin"} /\ w.signed = TRUE
  OBVIOUS
<1>3. ASSUME ~Both, ~NoKey PROVE authorize(f, w, "found")
  <2> HIDE DEF w
  <2>1. ASSUME f.roles = "jwt" PROVE Verified(f, w, "found")
    <3>1. f.jwt # {} /\ f.jwt \subseteq {"secret", "pem", "jwks"}
      BY <2>1 DEF Validate, Config
    <3>2. CASE "secret" \in f.jwt
      BY <2>1, <3>2, <1>2 DEF Verified
    <3>3. CASE "secret" \notin f.jwt /\ "jwks" \in f.jwt
      BY <2>1, <3>3, <1>2 DEF Verified
    <3>4. CASE "secret" \notin f.jwt /\ "jwks" \notin f.jwt
      <4>1. f.jwt = {"pem"}
        BY <3>1, <3>4
      <4>2. f.parses
        BY <2>1, <4>1, <1>3
      <4> QED
        BY <2>1, <3>4, <4>1, <4>2, <1>2 DEF Verified
    <3> QED
      BY <3>2, <3>3, <3>4
  <2>2. "admin" \in resolveRoles(f, w, "found")
    BY <2>1, <1>2 DEF resolveRoles
  <2>3. \A S : "admin" \in S => authorizeRoles(f, w, "found", S)
    BY <2>2 DEF authorizeRoles
  <2>4. (action # "ingest" => authorizeReadToken(f, w)) /\ (action = "ingest" => IngestToken(f, w))
    BY <1>2, <1>3 DEF authorizeReadToken, IngestToken, Config
  <2> QED
    BY <2>3, <2>4, <1>2 DEF authorize, authorizeRead, authorizeExport, authorizeIngest, Roles, Actions
<1>4. ASSUME f.roles = "jwt", NEW q \in Request, q.action = action, authorize(f, q, "found")
      PROVE  Verified(f, q, "found")
  <2>1. \A S : authorizeRoles(f, q, "found", S) => Verified(f, q, "found")
    BY <1>4 DEF authorizeRoles, resolveRoles
  <2> QED
    BY <2>1, <1>4 DEF authorize, authorizeRead, authorizeExport, authorizeIngest
<1>5. ASSUME Both, NEW q \in Request, q.action = action, authorize(f, q, "found") PROVE FALSE
  <2>1. q.bearer \in {"hs256", "rs256"}
    BY <1>4, <1>5 DEF Verified
  <2>2. IF action = "ingest" THEN IngestToken(f, q) ELSE authorizeReadToken(f, q)
    BY <1>5 DEF authorize, authorizeRead, authorizeExport, authorizeIngest
  <2> QED
    BY <2>1, <2>2, <1>5 DEF authorizeReadToken, IngestToken
<1>6. ASSUME NoKey, NEW q \in Request, q.action = action, authorize(f, q, "found") PROVE FALSE
  BY <1>4, <1>6 DEF Verified
<1> QED
  BY <1>1, <1>2, <1>3, <1>5, <1>6

\* The fetching request is the holder of the mutex, and there is no other.
LEMMA OneFetcher ==
    ASSUME IInv, NEW c \in Clients
    PROVE  /\ pc[c] \in {"fetch", "refetch"} <=> lock = c
           /\ lock = NoClient => ~Fetching
PROOF
  BY AccessAssumption DEF IInv, TypeOK, HolderFetches, Fetching

\* The state the inductive invariant starts in.
LEMMA InitIInv == Init => IInv
PROOF
<1> SUFFICES ASSUME Init PROVE IInv
  OBVIOUS
<1> USE AccessAssumption DEF Init
<1>1. Request # {}
  <2>1. PICK k : k \in published
    OBVIOUS
  <2>a. k \in Kids
    BY <2>1
  <2>2. [action |-> "read", bearer |-> "none", kid |-> k, good |-> FALSE,
         roles |-> {}, signed |-> FALSE] \in Request
    BY <2>a DEF Request, Actions
  <2> QED
    BY <2>2
<1>2. (CHOOSE q \in Request : TRUE) \in Request
  BY <1>1
<1>3. TypeOK
  BY <1>2 DEF TypeOK
<1>4. IssuerSeen /\ CacheSeen /\ DocSeen /\ HolderFetches /\ SteadyKept
  BY DEF IssuerSeen, CacheSeen, DocSeen, Fetching, HolderFetches, SteadyKept
<1>5. OutcomesFounded /\ KeysFresh /\ PublishedKeyFound
  BY DEF OutcomesFounded, KeysFresh, PublishedKeyFound
<1> QED
  BY <1>3, <1>4, <1>5 DEF IInv

\* The keys of a document that arrives were published when its fetch began or later.
LEMMA CacheKept ==
    ASSUME IInv, NEW c \in Clients, UNCHANGED issuerVars,
           \/ UNCHANGED <<keys, lastRefresh>>
           \/ keys' = doc /\ lastRefresh' = now /\ pc[c] \in {"fetch", "refetch"}
    PROVE  CacheSeen'
PROOF
<1> USE AccessAssumption DEF issuerVars
<1>1. CASE UNCHANGED <<keys, lastRefresh>>
  BY <1>1 DEF IInv, CacheSeen
<1>2. CASE keys' = doc /\ lastRefresh' = now /\ pc[c] \in {"fetch", "refetch"}
  <2>1. Fetching
    BY <1>2 DEF Fetching
  <2>2. now <= fetchStart + FetchTimeout /\ \A x \in doc : fetchStart <= lastSeen[x]
    BY <2>1 DEF IInv, DocSeen
  <2>3. now \in Nat /\ fetchStart \in Nat /\ \A x \in doc : lastSeen[x] \in Nat
    BY DEF IInv, TypeOK
  <2> QED
    BY <1>2, <2>2, <2>3 DEF CacheSeen
<1> QED
  BY <1>1, <1>2

\* resolveKey returns: the cache is as it was, or what the fetched document holds.
LEMMA SettleStep ==
    ASSUME IInv, NEW c \in Clients, NEW k \in {"found", "missing", "error"},
           Settle(c, k),
           \/ pc[c] = "locking" /\ lock = NoClient
           \/ pc[c] \in {"fetch", "refetch"},
           UNCHANGED <<cfg, issuerVars, req, steady>>,
           \/ UNCHANGED <<keys, lastRefresh>>
           \/ keys' = doc /\ lastRefresh' = now /\ pc[c] # "locking",
           stale' \in [Clients -> BOOLEAN], \A d \in Clients : d # c => stale'[d] = stale[d],
           k = "found" /\ ~stale'[c] => now - lastSeen[req[c].kid] < RefreshEvery + FetchTimeout,
           k = "missing" => req[c].kid \notin steady[c] \ Padded
    PROVE  IInv'
PROOF
<1> USE AccessAssumption DEF issuerVars
<1>t. TypeOK
  BY DEF IInv
<1>1. /\ pc'[c] = "done" /\ key'[c] = k /\ keyAge'[c] = now - lastSeen[req[c].kid]
      /\ outcome'[c] = Verdict(cfg, req[c], k)
      /\ \A d \in Clients : d # c =>
             pc'[d] = pc[d] /\ key'[d] = key[d] /\ keyAge'[d] = keyAge[d] /\ outcome'[d] = outcome[d]
  BY <1>t DEF Settle, TypeOK
<1>2. \A d \in Clients : d # c => pc[d] \notin {"fetch", "refetch"}
  BY OneFetcher, <1>t DEF TypeOK
<1>3. ~Fetching'
  BY <1>1, <1>2 DEF Fetching
<1>4. req[c].kid \in Kids /\ lastSeen[req[c].kid] \in 0..MaxTime /\ now \in 0..MaxTime
      /\ lastSeen[req[c].kid] <= now
  BY <1>t DEF TypeOK, Request, IInv, IssuerSeen
<1>5. TypeOK'
  <2>1. keyAge' \in [Clients -> 0..MaxTime]
    BY <1>4, <1>t DEF Settle, TypeOK
  <2>2. /\ pc' \in [Clients -> {"new", "locking", "fetch", "refetch", "done"}]
        /\ key' \in [Clients -> {"unused", "found", "missing", "error"}]
        /\ outcome' \in [Clients -> {"none", "allow", "deny"}]
    BY <1>t DEF Settle, TypeOK, Verdict
  <2>3. /\ lock' \in Clients \cup {NoClient} /\ doc' \subseteq Kids /\ fetchStart' \in 0..MaxTime
        /\ keys' \subseteq Kids /\ lastRefresh' \in 0..MaxTime
    BY <1>t DEF Settle, TypeOK
  <2>4. \A d \in Clients : pc'[d] \in {"fetch", "refetch"} => lock' = d
    BY <1>1, <1>2
  <2> QED
    BY <2>1, <2>2, <2>3, <2>4, <1>t DEF TypeOK
<1>6. IssuerSeen'
  BY DEF IInv, IssuerSeen
<1>7. CacheSeen'
  BY CacheKept
<1>8. DocSeen'
  BY <1>3 DEF Settle, DocSeen
<1>9. HolderFetches'
  BY DEF Settle, HolderFetches
<1>10. SteadyKept'
  BY DEF Settle, IInv, SteadyKept
<1>11. OutcomesFounded'
  BY <1>1 DEF IInv, OutcomesFounded, Verdict
<1>12. KeysFresh'
  BY <1>1 DEF IInv, KeysFresh
<1>13. PublishedKeyFound'
  BY <1>1 DEF IInv, PublishedKeyFound
<1> QED
  BY <1>5, <1>6, <1>7, <1>8, <1>9, <1>10, <1>11, <1>12, <1>13 DEF IInv

\* A fetch begins: the holder's first, or one for a key that is not in the cache.
LEMMA FetchStep ==
    ASSUME IInv, NEW c \in Clients, NEW step \in {"fetch", "refetch"},
           Fetch(c, step),
           \/ pc[c] = "locking" /\ lock = NoClient
           \/ pc[c] \in {"fetch", "refetch"},
           UNCHANGED <<cfg, issuerVars, req, steady>>,
           \/ UNCHANGED <<keys, lastRefresh>>
           \/ keys' = doc /\ lastRefresh' = now /\ pc[c] # "locking",
           stale' \in [Clients -> BOOLEAN], \A d \in Clients : d # c => stale'[d] = stale[d]
    PROVE  IInv'
PROOF
<1> USE AccessAssumption DEF issuerVars
<1>t. TypeOK
  BY DEF IInv
<1>1. pc'[c] = step /\ \A d \in Clients : d # c => pc'[d] = pc[d]
  BY <1>t DEF Fetch, TypeOK
<1>2. \A d \in Clients : d # c => pc[d] \notin {"fetch", "refetch"}
  BY OneFetcher, <1>t DEF TypeOK
<1>3. now \in Nat /\ fetchStart \in Nat
  BY <1>t DEF TypeOK
<1>5. TypeOK'
  <2>2. pc' \in [Clients -> {"new", "locking", "fetch", "refetch", "done"}]
    BY <1>t DEF Fetch, TypeOK
  <2>3. /\ lock' \in Clients \cup {NoClient} /\ doc' \subseteq Kids /\ fetchStart' \in 0..MaxTime
        /\ keys' \subseteq Kids /\ lastRefresh' \in 0..MaxTime
    BY <1>t DEF Fetch, TypeOK
  <2>4. \A d \in Clients : pc'[d] \in {"fetch", "refetch"} => lock' = d
    BY <1>1, <1>2 DEF Fetch
  <2> QED
    BY <2>2, <2>3, <2>4, <1>t DEF Fetch, TypeOK
<1>6. IssuerSeen'
  BY DEF IInv, IssuerSeen
<1>7. CacheSeen'
  BY CacheKept
<1>8. DocSeen'
  BY <1>3 DEF Fetch, DocSeen
<1>9. HolderFetches'
  BY <1>1 DEF Fetch, HolderFetches
<1>10. SteadyKept'
  BY DEF Fetch, IInv, SteadyKept
<1>11. OutcomesFounded'
  BY <1>1 DEF Fetch, IInv, OutcomesFounded
<1>12. KeysFresh'
  <2>1. key[c] = "unused"
    BY DEF IInv, OutcomesFounded
  <2> QED
    BY <2>1 DEF Fetch, IInv, KeysFresh
<1>13. PublishedKeyFound'
  BY DEF Fetch, IInv, PublishedKeyFound
<1> QED
  BY <1>5, <1>6, <1>7, <1>8, <1>9, <1>10, <1>11, <1>12, <1>13 DEF IInv

\* One case for each action.
LEMMA NextIInv == IInv /\ [Next]_vars => IInv'
PROOF
<1> SUFFICES ASSUME IInv, [Next]_vars PROVE IInv'
  OBVIOUS
<1> USE AccessAssumption
<1>t. TypeOK
  BY DEF IInv
<1>n. /\ now \in Nat /\ fetchStart \in Nat /\ lastRefresh \in Nat
      /\ \A k \in Kids : lastSeen[k] \in Nat /\ lastSeen[k] <= now
  BY <1>t DEF TypeOK, IInv, IssuerSeen
<1>1. CASE Tick
  <2>1. /\ now < MaxTime /\ now' = now + 1 /\ (Fetching => now - fetchStart < FetchTimeout)
        /\ lastSeen' = [k \in Kids |-> IF k \in published THEN now + 1 ELSE lastSeen[k]]
        /\ UNCHANGED <<cfg, published, rotations, cacheVars, requestVars>>
    BY <1>1 DEF Tick
  <2>2. \A k \in Kids : lastSeen'[k] \in 0..MaxTime /\ lastSeen[k] <= lastSeen'[k] /\ lastSeen'[k] <= now'
    BY <2>1, <1>n, <1>t DEF TypeOK
  <2>3. TypeOK'
    BY <2>1, <2>2, <1>t DEF TypeOK, cacheVars, requestVars
  <2>4. IssuerSeen'
    BY <2>1, <2>2, <1>t DEF IssuerSeen, TypeOK
  <2>5. CacheSeen'
    <3>1. \A k \in keys : k \in Kids /\ lastRefresh <= lastSeen[k] + FetchTimeout
      BY <1>t DEF IInv, CacheSeen, TypeOK
    <3>2. lastRefresh <= now
      BY DEF IInv, CacheSeen
    <3> QED
      BY <2>1, <2>2, <1>n, <3>1, <3>2 DEF CacheSeen, cacheVars
  <2>6. DocSeen'
    <3>1. \A k \in doc : k \in Kids /\ fetchStart <= lastSeen[k]
      BY <1>t DEF IInv, DocSeen, TypeOK
    <3>2. Fetching => fetchStart <= now /\ now <= fetchStart + FetchTimeout
      BY DEF IInv, DocSeen
    <3>3. Fetching' = Fetching
      BY <2>1 DEF Fetching, requestVars
    <3> QED
      BY <2>1, <2>2, <1>n, <3>1, <3>2, <3>3 DEF DocSeen, cacheVars
  <2>7. HolderFetches' /\ SteadyKept' /\ OutcomesFounded' /\ KeysFresh' /\ PublishedKeyFound'
    BY <2>1 DEF IInv, HolderFetches, SteadyKept, OutcomesFounded, KeysFresh, PublishedKeyFound,
                cacheVars, requestVars
  <2> QED
    BY <2>3, <2>4, <2>5, <2>6, <2>7 DEF IInv
<1>2. ASSUME NEW k \in Kids, Rotate(k) PROVE IInv'
  <2>1. /\ rotations < MaxRotations /\ rotations' = rotations + 1
        /\ published' = IF k \in published THEN published \ {k} ELSE published \cup {k}
        /\ lastSeen' = [lastSeen EXCEPT ![k] = now]
        /\ steady' = [c \in Clients |-> steady[c] \ {k}]
        /\ UNCHANGED <<cfg, now, cacheVars, pc, req, stale, key, keyAge, outcome>>
    BY <1>2 DEF Rotate
  <2>2. \A x \in Kids : lastSeen'[x] \in 0..MaxTime /\ lastSeen[x] <= lastSeen'[x] /\ lastSeen'[x] <= now
    BY <2>1, <1>n, <1>t DEF TypeOK
  <2>3. TypeOK'
    BY <2>1, <2>2, <1>t DEF TypeOK, cacheVars
  <2>4. IssuerSeen'
    BY <2>1, <2>2, <1>t DEF IInv, IssuerSeen, TypeOK
  <2>5. CacheSeen'
    <3>1. \A x \in keys : x \in Kids /\ lastRefresh <= lastSeen[x] + FetchTimeout
      BY <1>t DEF IInv, CacheSeen, TypeOK
    <3> QED
      BY <2>1, <2>2, <1>n, <3>1 DEF IInv, CacheSeen, cacheVars
  <2>6. DocSeen'
    <3>1. \A x \in doc : x \in Kids /\ fetchStart <= lastSeen[x]
      BY <1>t DEF IInv, DocSeen, TypeOK
    <3>2. Fetching' = Fetching
      BY <2>1 DEF Fetching
    <3> QED
      BY <2>1, <2>2, <1>n, <3>1, <3>2 DEF IInv, DocSeen, cacheVars
  <2>7. SteadyKept'
    BY <2>1 DEF IInv, SteadyKept, cacheVars
  <2>8. HolderFetches' /\ OutcomesFounded' /\ KeysFresh' /\ PublishedKeyFound'
    BY <2>1 DEF IInv, HolderFetches, OutcomesFounded, KeysFresh, PublishedKeyFound, cacheVars
  <2> QED
    BY <2>3, <2>4, <2>5, <2>6, <2>7, <2>8 DEF IInv
<1>3. CASE Serve
  <2>1. /\ Fetching /\ doc' = published
        /\ UNCHANGED <<cfg, issuerVars, keys, lastRefresh, lock, fetchStart, requestVars>>
    BY <1>3 DEF Serve
  <2>2. TypeOK'
    BY <2>1, <1>t DEF TypeOK, issuerVars, requestVars
  <2>3. DocSeen'
    <3>1. fetchStart <= now /\ \A k \in published : lastSeen[k] = now
      BY <2>1 DEF IInv, DocSeen, IssuerSeen
    <3>2. Fetching' = Fetching
      BY <2>1 DEF Fetching, requestVars
    <3> QED
      BY <2>1, <3>1, <3>2 DEF IInv, DocSeen, issuerVars
  <2>4. SteadyKept'
    BY <2>1 DEF IInv, SteadyKept, issuerVars, requestVars
  <2>5. IssuerSeen' /\ CacheSeen' /\ HolderFetches' /\ OutcomesFounded' /\ KeysFresh' /\ PublishedKeyFound'
    BY <2>1 DEF IInv, IssuerSeen, CacheSeen, HolderFetches, OutcomesFounded, KeysFresh,
                PublishedKeyFound, issuerVars, requestVars
  <2> QED
    BY <2>2, <2>3, <2>4, <2>5 DEF IInv
<1>4. ASSUME NEW c \in Clients, NEW q \in Offers[cfg][c], Arrive(c, q) PROVE IInv'
  <2>1. /\ pc[c] = "new" /\ req' = [req EXCEPT ![c] = q] /\ steady' = [steady EXCEPT ![c] = published]
        /\ UNCHANGED <<cfg, issuerVars, cacheVars, stale, key, keyAge>>
        /\ \/ pc' = [pc EXCEPT ![c] = "locking"] /\ UNCHANGED outcome
           \/ /\ pc' = [pc EXCEPT ![c] = "done"]
              /\ outcome' = [outcome EXCEPT ![c] = Verdict(cfg, q, "unused")]
    BY <1>4 DEF Arrive
  <2>2. q \in Request
    BY <1>t DEF TypeOK
  <2>3. lock # c /\ key[c] = "unused" /\ outcome[c] = "none"
    BY <2>1 DEF IInv, HolderFetches, OutcomesFounded
  <2>4. /\ pc'[c] \in {"locking", "done"} /\ req'[c] = q /\ steady'[c] = published
        /\ \A d \in Clients : d # c =>
               pc'[d] = pc[d] /\ req'[d] = req[d] /\ steady'[d] = steady[d] /\ outcome'[d] = outcome[d]
    BY <2>1, <1>t DEF TypeOK
  <2>5. TypeOK'
    <3>1. /\ pc' \in [Clients -> {"new", "locking", "fetch", "refetch", "done"}]
          /\ outcome' \in [Clients -> {"none", "allow", "deny"}]
      BY <2>1, <1>t DEF TypeOK, Verdict
    <3>2. req' \in [Clients -> Request] /\ steady' \in [Clients -> SUBSET Kids]
      BY <2>1, <2>2, <1>t DEF TypeOK
    <3>3. \A d \in Clients : pc'[d] \in {"fetch", "refetch"} => lock' = d
      BY <2>1, <2>4, <1>t DEF TypeOK, cacheVars
    <3> QED
      BY <2>1, <3>1, <3>2, <3>3, <1>t DEF TypeOK, issuerVars, cacheVars
  <2>6. DocSeen'
    <3>1. Fetching' => Fetching
      BY <2>4 DEF Fetching
    <3> QED
      BY <3>1, <2>1 DEF IInv, DocSeen, issuerVars, cacheVars
  <2>7. HolderFetches' /\ SteadyKept'
    BY <2>1, <2>3, <2>4, <1>t DEF IInv, HolderFetches, SteadyKept, issuerVars, cacheVars, TypeOK
  <2>8. OutcomesFounded'
    <3>1. outcome'[c] = "allow" => authorize(cfg, q, "unused")
      BY <2>1, <2>3, <1>t DEF Verdict, TypeOK
    <3>2. pc'[c] # "done" => outcome'[c] = "none"
      BY <2>1, <2>3, <1>t DEF TypeOK
    <3> QED
      BY <3>1, <3>2, <2>1, <2>3, <2>4 DEF IInv, OutcomesFounded
  <2>9. IssuerSeen' /\ CacheSeen' /\ KeysFresh'
    BY <2>1 DEF IInv, IssuerSeen, CacheSeen, KeysFresh, issuerVars, cacheVars
  <2>10. PublishedKeyFound'
    BY <2>1, <2>3, <2>4 DEF IInv, PublishedKeyFound
  <2> QED
    BY <2>5, <2>6, <2>7, <2>8, <2>9, <2>10 DEF IInv
<1>5. ASSUME NEW c \in Clients, resolveKey(c) PROVE IInv'
  <2>1. /\ pc[c] = "locking" /\ lock = NoClient
        /\ UNCHANGED <<cfg, issuerVars, keys, lastRefresh, req, steady, stale>>
        /\ stale' \in [Clients -> BOOLEAN]
    BY <1>5, <1>t DEF resolveKey, TypeOK
  <2>2. CASE Fetch(c, "fetch") \/ Fetch(c, "refetch")
    BY <2>1, <2>2, FetchStep
  <2>3. CASE ~Due /\ Cached(req[c].kid, keys) /\ Settle(c, "found")
    <3>1. now - lastRefresh < RefreshEvery
      BY <2>3, <1>n DEF Due
    <3>2. req[c].kid \in Kids /\ lastRefresh <= lastSeen[req[c].kid] + FetchTimeout
      BY <2>3, <1>t DEF Cached, TypeOK, IInv, CacheSeen
    <3>3. now - lastSeen[req[c].kid] < RefreshEvery + FetchTimeout
      BY <3>1, <3>2, <1>n
    <3> QED
      BY <2>1, <2>3, <3>3, SettleStep
  <2> QED
    BY <1>5, <2>2, <2>3 DEF resolveKey, Lookup
<1>6. ASSUME NEW c \in Clients, refresh(c) PROVE IInv'
  <2>1. /\ pc[c] \in {"fetch", "refetch"} /\ doc # {}
        /\ keys' = doc /\ lastRefresh' = now
        /\ UNCHANGED <<cfg, issuerVars, req, steady, stale>>
        /\ stale' \in [Clients -> BOOLEAN] /\ pc[c] # "locking"
    BY <1>6, <1>t DEF refresh, TypeOK
  <2>2. CASE Fetch(c, "refetch")
    BY <2>1, <2>2, FetchStep
  <2>3. CASE Cached(req[c].kid, doc) /\ Settle(c, "found")
    <3>1. Fetching
      BY <2>1 DEF Fetching
    <3>2. now <= fetchStart + FetchTimeout /\ fetchStart <= lastSeen[req[c].kid] /\ req[c].kid \in Kids
      BY <2>3, <3>1, <1>t DEF Cached, IInv, DocSeen, TypeOK
    <3>3. now - lastSeen[req[c].kid] < RefreshEvery + FetchTimeout
      BY <3>2, <1>n
    <3> QED
      BY <2>1, <2>3, <3>3, SettleStep
  <2>4. CASE ~Cached(req[c].kid, doc) /\ Settle(c, "missing")
    <3>1. steady[c] \subseteq doc
      BY <2>1, OneFetcher DEF IInv, SteadyKept
    <3>2. req[c].kid \notin steady[c] \ Padded
      BY <2>4, <3>1 DEF Cached
    <3> QED
      BY <2>1, <2>4, <3>2, SettleStep
  <2> QED
    BY <1>6, <2>2, <2>3, <2>4 DEF refresh, Lookup
<1>7. ASSUME NEW c \in Clients, refreshFails(c) PROVE IInv'
  <2>1. /\ pc[c] \in {"fetch", "refetch"}
        /\ UNCHANGED <<cfg, issuerVars, keys, lastRefresh, req, steady>>
        /\ stale' \in [Clients -> BOOLEAN] /\ \A d \in Clients : d # c => stale'[d] = stale[d]
    BY <1>7, <1>t DEF refreshFails, TypeOK
  <2>2. CASE Fetch(c, "refetch")
    BY <2>1, <2>2, FetchStep
  <2>3. CASE stale' = [stale EXCEPT ![c] = TRUE] /\ Settle(c, "found")
    <3>1. stale'[c]
      BY <2>3, <1>t DEF TypeOK
    <3> QED
      BY <2>1, <2>3, <3>1, SettleStep
  <2>4. CASE Settle(c, "error")
    BY <2>1, <2>4, SettleStep
  <2> QED
    BY <1>7, <2>2, <2>3, <2>4 DEF refreshFails, Lookup
<1>8. CASE UNCHANGED vars
  <2>1. TypeOK'
    BY <1>8, <1>t DEF vars, issuerVars, cacheVars, requestVars, TypeOK
  <2>2. /\ IssuerSeen' /\ CacheSeen' /\ DocSeen' /\ HolderFetches' /\ SteadyKept'
        /\ OutcomesFounded' /\ KeysFresh' /\ PublishedKeyFound'
    BY <1>8 DEF vars, issuerVars, cacheVars, requestVars, IInv, IssuerSeen, CacheSeen, DocSeen,
                Fetching, HolderFetches, SteadyKept, OutcomesFounded, KeysFresh, PublishedKeyFound
  <2> QED
    BY <2>1, <2>2 DEF IInv
<1> QED
  BY <1>1, <1>2, <1>3, <1>4, <1>5, <1>6, <1>7, <1>8 DEF Next, handle

\* The state of issuer, cache and requests is well-formed, and only the holder fetches.
THEOREM AccessTypeOK == Spec => []TypeOK
PROOF
<1>1. IInv => TypeOK
  BY DEF IInv
<1> QED
  BY <1>1, InitIInv, NextIInv, PTL DEF Spec

\* No accepted key is older than a refresh interval and a fetch, unless a refresh failed.
THEOREM AcceptedKeysFresh == Spec => []KeysFresh
PROOF
<1>1. IInv => KeysFresh
  BY DEF IInv
<1> QED
  BY <1>1, InitIInv, NextIInv, PTL DEF Spec

\* A key published throughout the request is not missing.
THEOREM PublishedKeysFound == Spec => []PublishedKeyFound
PROOF
<1>1. IInv => PublishedKeyFound
  BY DEF IInv
<1> QED
  BY <1>1, InitIInv, NextIInv, PTL DEF Spec

\* Every allowed request showed a credential, under any configuration that Validate accepts.
THEOREM ActionsGuarded == Spec => []NothingOpen
PROOF
<1>1. IInv => NothingOpen
  <2> SUFFICES ASSUME IInv, NEW c \in Clients, outcome[c] = "allow", ~cfg.insecure
               PROVE  ShowsCredential(cfg, req[c], key[c])
    BY DEF NothingOpen
  <2>1. cfg \in Config /\ Validate(cfg) /\ authorize(cfg, req[c], key[c])
    BY AccessAssumption DEF IInv, TypeOK, OutcomesFounded
  <2> QED
    BY <2>1, DecisionNeedsCredential
<1> QED
  BY <1>1, InitIInv, NextIInv, PTL DEF Spec

-------------------------------------------------------------------------------
(* Both together. *)

\* The limiter before the decision leaves each of them what it is alone, so that what is
\* proved of one holds of every request that passes both (auth.go 12-20, 38-53, 66-73).
THEOREM GuardsImplement == GuardSpec => LimiterSpec /\ Spec
PROOF
<1>1. GuardInit => LimiterInit /\ Init
  BY DEF GuardInit
<1>2. [GuardNext]_guardVars => [LimiterNext]_limiterVars
  BY GuardsAssumption DEF GuardNext, guardVars, Minute, Issuer, Limit, Authorize, LimiterNext
<1>3. [GuardNext]_guardVars => [Next]_vars
  BY DEF GuardNext, guardVars, Minute, Issuer, Limit, Authorize, Next, handle
<1> QED
  BY <1>1, <1>2, <1>3, PTL DEF GuardSpec, LimiterSpec, Spec

\* Every action of a valid configuration can be called by somebody, but for two cases: a JWT
\* together with a static token, and a JWT for which there is only a PEM that does not parse;
\* whatever the tokens, keys and secrets are (config.go 400-411, roles.go 53 and 73-76).
THEOREM NoActionLockedOut == GuardSpec => []NobodyLockedOut
PROOF
<1> DEFINE KeyInv == IInv /\ Kids # {}
<1>1. Init => KeyInv
  BY InitIInv DEF Init
<1>2. KeyInv /\ [Next]_vars => KeyInv'
  BY NextIInv
<1>3. KeyInv => NobodyLockedOut
  <2> SUFFICES ASSUME KeyInv, NEW action \in Actions
               PROVE  Callable(action) <=> ~BothInOneHeader(action) /\ ~NoKeyForJWT
    BY DEF NobodyLockedOut
  <2>1. PICK kid : kid \in Kids
    OBVIOUS
  <2>2. cfg \in Config /\ Validate(cfg)
    BY AccessAssumption DEF IInv, TypeOK
  <2> QED
    BY <2>1, <2>2, SomebodyPasses DEF Callable, BothInOneHeader, NoKeyForJWT
<1> HIDE DEF KeyInv
<1> QED
  BY <1>1, <1>2, <1>3, GuardsImplement, PTL DEF Spec
===============================================================================
