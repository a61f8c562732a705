------------------------------ MODULE RateLimit -------------------------------
(***************************************************************************)
(* authRateLimiter.Allow: a request reads the minute it is in, then takes  *)
(* the mutex, resets all counters if the limiter's window is another one,  *)
(* and counts itself under "<action>|<remote IP>".  The clock is read      *)
(* outside the mutex, so a request may be counted after requests of a      *)
(* later minute.                                                           *)
(***************************************************************************)
EXTENDS Integers, FiniteSets

CONSTANTS Requests,
          LimitedActions,   \* "read", "export", "ingest"
          IPs,
          Limits,       \* Limits[a]: requests per minute, <= 0 for no limit
          MaxMinute     \* bound on the clock

ASSUME RateLimitAssumption ==
    /\ Limits \in [LimitedActions -> Int]
    /\ MaxMinute \in Nat
    /\ IsFiniteSet(Requests)

Keys == LimitedActions \X IPs
Minutes == 0..MaxMinute

VARIABLES minute,       \* currentMinuteWindow()
          window,       \* l.window
          counters,     \* l.counters, 0 where the map has no entry
          place,        \* place[r]: "idle", "locking", "allowed", "refused"
          bucket,       \* bucket[r]: action and remote IP of r
          seen,         \* seen[r]: nowWindow, the minute r read
          backs         \* how often the window moved back (history)

limiterVars == <<minute, window, counters, place, bucket, seen, backs>>

\* Besides the types: a key never counts more than the requests that were made.
LimiterTypeOK ==
    /\ minute \in Minutes /\ window \in Minutes
    /\ counters \in [Keys -> 0..Cardinality(Requests)]
    /\ place \in [Requests -> {"idle", "locking", "allowed", "refused"}]
    /\ bucket \in [Requests -> Keys]
    /\ seen \in [Requests -> Minutes]
    /\ backs \in Nat

LimiterInit ==
    /\ minute = 0 /\ window = 0
    /\ counters = [k \in Keys |-> 0]
    /\ place = [r \in Requests |-> "idle"]
    /\ bucket \in [Requests -> Keys]
    /\ seen = [r \in Requests |-> 0]
    /\ backs = 0

LimitOf(r) == Limits[bucket[r][1]]

\* Allow up to the mutex: an action without a limit passes, any other reads the clock.
ReadClock(r) ==
    /\ place[r] = "idle"
    /\ IF LimitOf(r) <= 0
       THEN place' = [place EXCEPT ![r] = "allowed"] /\ UNCHANGED seen
       ELSE place' = [place EXCEPT ![r] = "locking"] /\ seen' = [seen EXCEPT ![r] = minute]
    /\ UNCHANGED <<minute, window, counters, bucket, backs>>

\* The counters r finds: none, if its minute is not the limiter's window.
Base(r) == IF seen[r] # window THEN [k \in Keys |-> 0] ELSE counters

\* Mutant of Allow: refusals start one request too late.
AllowOneMore(r) ==
    /\ place[r] = "locking"
    /\ window' = seen[r]
    /\ counters' = [Base(r) EXCEPT ![bucket[r]] = @ + 1]
    /\ place' = [place EXCEPT ![r] = IF counters'[bucket[r]] <= LimitOf(r) + 1 THEN "allowed" ELSE "refused"]
    /\ backs' = IF seen[r] < window THEN backs + 1 ELSE backs
    /\ UNCHANGED <<minute, bucket, seen>>

\* Mutant of Allow: the remote IP is left out of the key.
AllowByAction(r) ==
    /\ place[r] = "locking"
    /\ window' = seen[r]
    /\ counters' = [k \in Keys |-> IF k[1] = bucket[r][1] THEN Base(r)[k] + 1 ELSE Base(r)[k]]
    /\ place' = [place EXCEPT ![r] = IF counters'[bucket[r]] <= LimitOf(r) THEN "allowed" ELSE "refused"]
    /\ backs' = IF seen[r] < window THEN backs + 1 ELSE backs
    /\ UNCHANGED <<minute, bucket, seen>>

\* Allow under the mutex.
Allow(r) ==
    /\ place[r] = "locking"
    /\ window' = seen[r]
    /\ counters' = [Base(r) EXCEPT ![bucket[r]] = @ + 1]
    /\ place' = [place EXCEPT ![r] = IF counters'[bucket[r]] <= LimitOf(r) THEN "allowed" ELSE "refused"]
    /\ backs' = IF seen[r] < window THEN backs + 1 ELSE backs
    /\ UNCHANGED <<minute, bucket, seen>>

NextMinute ==
    /\ minute < MaxMinute
    /\ minute' = minute + 1
    /\ UNCHANGED <<window, counters, place, bucket, seen, backs>>

LimiterNext == NextMinute \/ \E r \in Requests : ReadClock(r) \/ Allow(r)

LimiterSpec == LimiterInit /\ [][LimiterNext]_limiterVars

-------------------------------------------------------------------------------
\* The requests of key k that read minute m and went through.
Passed(k, m) == {r \in Requests : place[r] = "allowed" /\ bucket[r] = k /\ seen[r] = m}

\* The requests of key k that have their answer.
Answered(k) == {r \in Requests : place[r] \in {"allowed", "refused"} /\ bucket[r] = k}

(* The inductive invariant: what the counters stand for. *)

\* Every count is a request that was answered.
CountsAnswered == \A k \in Keys : counters[k] <= Cardinality(Answered(k))

\* Only requests with a limit wait for the mutex.
LockingLimited == \A r \in Requests : place[r] = "locking" => LimitOf(r) > 0

\* Up to the limit a count of the window is a request that went through in it.
CountsPassed ==
    \A k \in Keys :
        \/ counters[k] <= Cardinality(Passed(k, window))
        \/ Limits[k[1]] <= Cardinality(Passed(k, window))

\* What went through in minute m: one limit for each step back, and one more for the visit of
\* the window that needed no step back, unless the window has yet to move forward to m.
Spent ==
    \A k \in Keys, m \in Minutes : Limits[k[1]] > 0 =>
        /\ Cardinality(Passed(k, m)) <= Limits[k[1]] * backs + Limits[k[1]]
        /\ m > window => Cardinality(Passed(k, m)) <= Limits[k[1]] * backs
        /\ m = window => Cardinality(Passed(k, m)) <= Limits[k[1]] * backs + counters[k]

-------------------------------------------------------------------------------
(* Properties. *)

\* The limit holds for each client, action and minute, times one more for every time a late
\* request took the window back (ratelimit.go 39-48).
LimitPerReset ==
    \A k \in Keys, m \in Minutes : Limits[k[1]] > 0 =>
        Cardinality(Passed(k, m)) <= Limits[k[1]] * (1 + backs)

\* Nobody is refused for somebody else's requests or for an earlier minute's: a refusal
\* means that the limit of the same key has been used up in the same minute.
RefusedOverLimit ==
    \A r \in Requests : place[r] = "refused" =>
        Cardinality(Passed(bucket[r], seen[r])) >= LimitOf(r)

LimiterIInv == LimiterTypeOK /\ CountsAnswered /\ LockingLimited /\ CountsPassed /\ Spent /\ RefusedOverLimit
===============================================================================
