-------------------------------- MODULE Guards --------------------------------
(***************************************************************************)
(* What a request passes before its handler: authorizeRead, Export and     *)
(* Ingest ask the rate limiter first and refuse with 429, then the roles   *)
(* and tokens of Access, which may wait for a key.                         *)
(***************************************************************************)
EXTENDS RateLimit, Access

\* One handler for each request, which has one action.
ASSUME GuardsAssumption == Requests = Clients /\ LimitedActions \subseteq Actions

guardVars == <<limiterVars, vars>>

\* The action and address of a request matter where the limiter is enabled, the issuer's keys
\* where they are fetched.
GuardInit ==
    /\ Init
    /\ "jwks" \notin cfg.jwt => published = Kids
    /\ ~cfg.limited => bucket = [r \in Requests |-> CHOOSE k \in Keys : TRUE]
    /\ LimiterInit
    /\ cfg.limited => \A c \in Clients : \E q \in Offers[cfg][c] : bucket[c][1] = q.action

\* Allow comes before anything else.
Admitted(c, q) == cfg.limited => place[c] = "allowed" /\ bucket[c][1] = q.action

Minute == cfg.limited /\ NextMinute /\ UNCHANGED vars

Limit(c) == cfg.limited /\ (ReadClock(c) \/ Allow(c)) /\ UNCHANGED vars

Authorize(c) ==
    /\ \/ \E q \in Offers[cfg][c] : Admitted(c, q) /\ Arrive(c, q)
       \/ resolveKey(c) \/ refresh(c) \/ refreshFails(c)
    /\ UNCHANGED limiterVars

Issuer == (Tick \/ Serve \/ \E k \in Kids : Rotate(k)) /\ UNCHANGED limiterVars

GuardNext ==
    \/ Minute \/ Issuer
    \/ \E c \in Clients : Limit(c) \/ Authorize(c)

GuardSpec == GuardInit /\ [][GuardNext]_guardVars

\* The mutexes are handed on, and the http.Client ends a fetch after its timeout.
GuardFairSpec ==
    GuardSpec /\ \A c \in Clients : WF_guardVars(Limit(c) \/ Authorize(c))

-------------------------------------------------------------------------------
(* Properties. *)

\* Every action of a configuration that passes Validate can be called by somebody whose key,
\* if the issuer's, is found.  Validate lets exactly two exceptions through: a JWT together
\* with a static token, which is the production setup of config-modes.md 38-52 with direct
\* JWT mode, and a JWT for which the only key is a PEM that does not parse (config.go
\* 400-411, roles.go 53 and 73-76, auth.go 29 and 50).
NobodyLockedOut ==
    (\A c \in Clients : pc[c] = "new" /\ place[c] = "idle") =>
        \A action \in Actions : Callable(action) <=> ~BothInOneHeader(action) /\ ~NoKeyForJWT

\* Every request is answered, by the limiter or by the decision, also when the issuer never
\* answers: nobody waits for a mutex for ever (ratelimit.go 42-43, roles.go 117-119).
EveryoneAnswered ==
    <>(\A c \in Clients : Offers[cfg][c] # {} => pc[c] = "done" \/ place[c] = "refused")
===============================================================================
