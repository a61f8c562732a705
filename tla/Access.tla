-------------------------------- MODULE Access --------------------------------
(***************************************************************************)
(* Who may call the API.  A request that passed the rate limiter shows a   *)
(* role (in a JWT or a header), a static bearer token, a signature of its  *)
(* body, or whatever of these the configuration asks for.  The keys of     *)
(* RS256 tokens are cached from a JWKS document: every request that needs  *)
(* one holds jwksMu while it looks it up and while it fetches the          *)
(* document, so the requests queue up behind a slow issuer, and a failing  *)
(* issuer leaves the keys of its last answer in use.                       *)
(***************************************************************************)
EXTENDS Naturals

CONSTANTS Clients,          \* requests, one handler each
          Offers,           \* Offers[f][c]: what the request c may show under configuration f
          Configs,          \* configurations the operator may write
          Kids,             \* key ids
          Padded,           \* those the issuer's document writes with blanks around them
          NoClient,
          RefreshEvery,     \* JWKSRefresh
          FetchTimeout,     \* Timeout of the http.Client
          MaxTime, MaxRotations

Roles == {"reader", "exporter", "admin"}
Actions == {"read", "export", "ingest"}

\* bearer: what the Authorization header carries: nothing, a static token, or a JWT;
\* good: its signature fits its key, and issuer, audience and expiry are in order.
Request == [action : Actions, bearer : {"none", "read", "ingest", "hs256", "rs256"},
            kid : Kids, good : BOOLEAN, roles : SUBSET Roles, signed : BOOLEAN]

\* roles: where they come from; jwt: the settings for verifying a JWT that are not blank;
\* parses: the PEM is that of an RSA public key; the static tokens and the secret of the
\* signature, where set; limited: the rate limiter is enabled; insecure: EVIDRA_DEV_INSECURE.
Config == [roles : {"off", "header", "jwt"}, jwt : SUBSET {"secret", "pem", "jwks"}, parses : BOOLEAN,
           read : BOOLEAN, ingest : BOOLEAN, signature : BOOLEAN, limited : BOOLEAN,
           insecure : BOOLEAN]

ASSUME AccessAssumption ==
    /\ Configs \subseteq Config
    /\ Offers \in [Configs -> [Clients -> SUBSET Request]]
    /\ NoClient \notin Clients /\ Padded \subseteq Kids
    /\ RefreshEvery \in Nat \ {0} /\ FetchTimeout \in Nat \ {0}
    /\ MaxTime \in Nat /\ MaxRotations \in Nat

VARIABLES cfg,
          published,    \* the keys in the issuer's document
          lastSeen,     \* lastSeen[k]: when k was last published (history)
          rotations, now,
          keys, lastRefresh,    \* jwksKeyCache
          lock,         \* who holds jwksMu
          doc,          \* the document on its way to the holder, empty before the issuer answers
          fetchStart,   \* when the holder sent its request
          pc,           \* pc[c]: "new", "locking", "fetch", "refetch", "done"
          req,          \* req[c]: the request
          steady,       \* steady[c]: keys published ever since it came (history)
          stale,        \* stale[c]: it uses the cache although a refresh failed
          key,          \* key[c]: "unused", "found", "missing" or "error"
          keyAge,       \* keyAge[c]: time since its key was last published (history)
          outcome       \* outcome[c]: "none", "allow" or "deny"

issuerVars == <<published, lastSeen, rotations, now>>
cacheVars == <<keys, lastRefresh, lock, doc, fetchStart>>
requestVars == <<pc, req, steady, stale, key, keyAge, outcome>>
vars == <<cfg, issuerVars, cacheVars, requestVars>>

-------------------------------------------------------------------------------
(* The decision under configuration f, once the key of a token is known. *)

\* A PEM is only asked not to be blank.
Validate(f) ==
    /\ f.insecure \/ f.read \/ f.roles # "off"
    /\ f.roles = "jwt" => f.jwt # {}

\* rolesFromJWT takes the secret for HS256, the JWKS document before the PEM for RS256.  The PEM
\* is parsed for every token anew.
NeedsJWKS(f, q) == f.roles = "jwt" /\ "jwks" \in f.jwt /\ q.bearer = "rs256"

Verified(f, q, k) ==
    /\ q.good
    /\ \/ q.bearer = "hs256" /\ "secret" \in f.jwt
       \/ q.bearer = "rs256" /\ IF "jwks" \in f.jwt THEN k = "found" ELSE "pem" \in f.jwt /\ f.parses

\* resolveRoles: the roles of a verified JWT or of the header; an error shows none.
resolveRoles(f, q, k) == IF f.roles = "jwt" /\ ~Verified(f, q, k) THEN {} ELSE q.roles

authorizeRoles(f, q, k, allowed) == f.roles = "off" \/ resolveRoles(f, q, k) \cap allowed # {}

authorizeReadToken(f, q) == f.read => q.bearer = "read"

\* Mutant of IngestToken: without a token of its own the ingest asks for none.
IngestTokenAlone(f, q) == f.ingest => q.bearer = "ingest"

\* Mutant of IngestToken: both tokens are asked for.
IngestTokenBoth(f, q) == (f.ingest => q.bearer = "ingest") /\ (f.read => q.bearer = "read")

\* The token for the ingest falls back to the one for reading.
IngestToken(f, q) == IF f.ingest THEN q.bearer = "ingest" ELSE f.read => q.bearer = "read"

authorizeRead(f, q, k) == authorizeRoles(f, q, k, Roles) /\ authorizeReadToken(f, q)

authorizeExport(f, q, k) == authorizeRoles(f, q, k, {"exporter", "admin"}) /\ authorizeReadToken(f, q)

authorizeIngest(f, q, k) ==
    /\ authorizeRoles(f, q, k, {"admin"})
    /\ IngestToken(f, q)
    /\ f.signature => q.signed

authorize(f, q, k) ==
    \/ q.action = "read" /\ authorizeRead(f, q, k)
    \/ q.action = "export" /\ authorizeExport(f, q, k)
    \/ q.action = "ingest" /\ authorizeIngest(f, q, k)

Verdict(f, q, k) == IF authorize(f, q, k) THEN "allow" ELSE "deny"

-------------------------------------------------------------------------------
TypeOK ==
    /\ cfg \in Configs /\ Validate(cfg)
    /\ published \subseteq Kids /\ keys \subseteq Kids
    /\ lastSeen \in [Kids -> 0..MaxTime]
    /\ rotations \in 0..MaxRotations /\ now \in 0..MaxTime
    /\ lastRefresh \in 0..MaxTime /\ fetchStart \in 0..MaxTime
    /\ lock \in Clients \cup {NoClient}
    /\ doc \subseteq Kids
    /\ pc \in [Clients -> {"new", "locking", "fetch", "refetch", "done"}]
    /\ req \in [Clients -> Request]
    /\ steady \in [Clients -> SUBSET Kids]
    /\ stale \in [Clients -> BOOLEAN]
    /\ key \in [Clients -> {"unused", "found", "missing", "error"}]
    /\ keyAge \in [Clients -> 0..MaxTime]
    /\ outcome \in [Clients -> {"none", "allow", "deny"}]
    /\ \A c \in Clients : pc[c] \in {"fetch", "refetch"} => lock = c

Init ==
    /\ cfg \in {f \in Configs : Validate(f)}
    /\ published \in (SUBSET Kids) \ {{}}
    /\ lastSeen = [k \in Kids |-> 0]
    /\ rotations = 0 /\ now = 0
    /\ keys = {} /\ lastRefresh = 0
    /\ lock = NoClient /\ doc = {} /\ fetchStart = 0
    /\ pc = [c \in Clients |-> "new"]
    /\ req = [c \in Clients |-> CHOOSE q \in Request : TRUE]
    /\ steady = [c \in Clients |-> {}]
    /\ stale = [c \in Clients |-> FALSE]
    /\ key = [c \in Clients |-> "unused"]
    /\ keyAge = [c \in Clients |-> 0]
    /\ outcome = [c \in Clients |-> "none"]

-------------------------------------------------------------------------------
(* The issuer of the tokens; without it time does not matter. *)

Fetching == \E c \in Clients : pc[c] \in {"fetch", "refetch"}

\* A fetch does not outlive the timeout of the client.
Tick ==
    /\ "jwks" \in cfg.jwt /\ now < MaxTime
    /\ Fetching => now - fetchStart < FetchTimeout
    /\ now' = now + 1
    /\ lastSeen' = [k \in Kids |-> IF k \in published THEN now + 1 ELSE lastSeen[k]]
    /\ UNCHANGED <<cfg, published, rotations, cacheVars, requestVars>>

\* The issuer publishes a key or withdraws one.
Rotate(k) ==
    /\ "jwks" \in cfg.jwt /\ rotations < MaxRotations
    /\ rotations' = rotations + 1
    /\ published' = IF k \in published THEN published \ {k} ELSE published \cup {k}
    /\ lastSeen' = [lastSeen EXCEPT ![k] = now]
    /\ steady' = [c \in Clients |-> steady[c] \ {k}]
    /\ UNCHANGED <<cfg, now, cacheVars, pc, req, stale, key, keyAge, outcome>>

\* The issuer answers the holder's request; a document without keys is a failure.
Serve ==
    /\ Fetching /\ doc = {} /\ published # {}
    /\ doc' = published
    /\ UNCHANGED <<cfg, issuerVars, keys, lastRefresh, lock, fetchStart, requestVars>>

-------------------------------------------------------------------------------
(* A request. *)

\* Mutant of Settle: an error returns without giving the mutex back.
SettleKeepsLock(c, k) ==
    /\ lock' = IF k = "error" THEN lock ELSE NoClient
    /\ doc' = {} /\ fetchStart' = 0
    /\ pc' = [pc EXCEPT ![c] = "done"]
    /\ key' = [key EXCEPT ![c] = k]
    /\ keyAge' = [keyAge EXCEPT ![c] = now - lastSeen[req[c].kid]]
    /\ outcome' = [outcome EXCEPT ![c] = Verdict(cfg, req[c], k)]

\* resolveKey returns, jwksMu is released, and the decision falls.
Settle(c, k) ==
    /\ lock' = NoClient
    /\ doc' = {} /\ fetchStart' = 0
    /\ pc' = [pc EXCEPT ![c] = "done"]
    /\ key' = [key EXCEPT ![c] = k]
    /\ keyAge' = [keyAge EXCEPT ![c] = now - lastSeen[req[c].kid]]
    /\ outcome' = [outcome EXCEPT ![c] = Verdict(cfg, req[c], k)]

Fetch(c, step) ==
    /\ lock' = c /\ doc' = {} /\ fetchStart' = now
    /\ pc' = [pc EXCEPT ![c] = step]
    /\ UNCHANGED <<key, keyAge, outcome>>

\* The kid of a token is trimmed, that of the document is the key of the map as it stands.
Cached(kid, ks) == kid \in ks \ Padded

\* Look the key up in ks, and fetch the document for a key that is not there.
Lookup(c, ks) == IF Cached(req[c].kid, ks) THEN Settle(c, "found") ELSE Fetch(c, "refetch")

\* Mutant of Due: the cache is refreshed for unknown keys only.
DueWhenEmpty == keys = {}

Due == now - lastRefresh >= RefreshEvery \/ keys = {}

Arrive(c, q) ==
    /\ pc[c] = "new"
    /\ req' = [req EXCEPT ![c] = q]
    /\ steady' = [steady EXCEPT ![c] = published]
    /\ IF NeedsJWKS(cfg, q)
       THEN /\ pc' = [pc EXCEPT ![c] = "locking"]
            /\ UNCHANGED outcome
       ELSE /\ pc' = [pc EXCEPT ![c] = "done"]
            /\ outcome' = [outcome EXCEPT ![c] = Verdict(cfg, q, "unused")]
    /\ UNCHANGED <<cfg, issuerVars, cacheVars, stale, key, keyAge>>

resolveKey(c) ==
    /\ pc[c] = "locking" /\ lock = NoClient
    /\ IF Due THEN Fetch(c, "fetch") ELSE Lookup(c, keys)
    /\ UNCHANGED <<cfg, issuerVars, keys, lastRefresh, req, steady, stale>>

\* Mutant of refresh: the key is looked up in the keys from before it.
refreshFirst(c) ==
    /\ pc[c] \in {"fetch", "refetch"} /\ doc # {}
    /\ keys' = keys \cup doc /\ lastRefresh' = now
    /\ Settle(c, IF Cached(req[c].kid, keys) THEN "found" ELSE "missing")
    /\ UNCHANGED <<cfg, issuerVars, req, steady, stale>>

\* refresh: the document replaces all the keys.
refresh(c) ==
    /\ pc[c] \in {"fetch", "refetch"} /\ doc # {}
    /\ keys' = doc /\ lastRefresh' = now
    /\ IF pc[c] = "fetch" THEN Lookup(c, doc)
       ELSE Settle(c, IF Cached(req[c].kid, doc) THEN "found" ELSE "missing")
    /\ UNCHANGED <<cfg, issuerVars, req, steady, stale>>

\* No answer in time, an error, a document without keys: only the first fetch may fail, and
\* only while there are keys.
refreshFails(c) ==
    /\ pc[c] \in {"fetch", "refetch"}
    /\ IF pc[c] = "fetch" /\ keys # {}
       THEN Lookup(c, keys) /\ stale' = [stale EXCEPT ![c] = TRUE]
       ELSE Settle(c, "error") /\ UNCHANGED stale
    /\ UNCHANGED <<cfg, issuerVars, keys, lastRefresh, req, steady>>

handle(c) ==
    \/ \E q \in Offers[cfg][c] : Arrive(c, q)
    \/ resolveKey(c) \/ refresh(c) \/ refreshFails(c)

Next ==
    \/ Tick \/ Serve
    \/ \E k \in Kids : Rotate(k)
    \/ \E c \in Clients : handle(c)

Spec == Init /\ [][Next]_vars

-------------------------------------------------------------------------------
(* The inductive invariant. *)

\* The history of the issuer: what is published was last seen now.
IssuerSeen ==
    /\ \A k \in published : lastSeen[k] = now
    /\ \A k \in Kids : lastSeen[k] <= now

\* The cached keys were published when their document was sent, at most a fetch before
\* they were taken over.
CacheSeen ==
    /\ lastRefresh <= now
    /\ \A k \in keys : lastRefresh <= lastSeen[k] + FetchTimeout

\* A document under way is as young as its fetch, and the fetch is in its time.
DocSeen ==
    /\ \A k \in doc : fetchStart <= lastSeen[k]
    /\ Fetching => fetchStart <= now /\ now <= fetchStart + FetchTimeout

\* The mutex is held during a fetch and no longer.
HolderFetches == lock # NoClient => pc[lock] \in {"fetch", "refetch"}

\* A key published all the time since the request came is in any document fetched for it.
SteadyKept ==
    \A c \in Clients :
        /\ steady[c] \subseteq published
        /\ lock = c /\ doc # {} => steady[c] \subseteq doc

\* A decision is that of the request and its key, which stay what they are.
OutcomesFounded ==
    \A c \in Clients :
        /\ outcome[c] = "allow" => authorize(cfg, req[c], key[c])
        /\ pc[c] # "done" => key[c] = "unused" /\ outcome[c] = "none"

-------------------------------------------------------------------------------
(* Properties. *)

\* A token is accepted at most RefreshEvery and one fetch after its key was withdrawn, even
\* if the document changed on its way; only a request that saw a refresh fail may take an
\* older key (jwks.go 56-64, 106-110).
KeysFresh ==
    \A c \in Clients : key[c] = "found" /\ ~stale[c] => keyAge[c] < RefreshEvery + FetchTimeout

\* A key that is published all the time from the arrival of the request to its answer is
\* never missing, however old the cache and however many requests are ahead of it, unless
\* the document writes its id with blanks around it (jwks.go 65-72 and 104, roles.go 113).
PublishedKeyFound ==
    \A c \in Clients : key[c] = "missing" => req[c].kid \notin steady[c] \ Padded

ShowsCredential(f, q, k) ==
    \/ f.read /\ q.bearer = "read"
    \/ f.ingest /\ q.bearer = "ingest"
    \/ f.roles # "off" /\ resolveRoles(f, q, k) # {}

\* Without EVIDRA_DEV_INSECURE no configuration that passes Validate leaves an action open:
\* also the ingest, whose token Validate does not ask for (config.go 393-398, auth.go 46-53).
NothingOpen ==
    \A c \in Clients : outcome[c] = "allow" /\ ~cfg.insecure => ShowsCredential(cfg, req[c], key[c])

\* A static token and a JWT are wanted in one header.
BothInOneHeader(action) ==
    cfg.roles = "jwt" /\ (cfg.read \/ (action = "ingest" /\ cfg.ingest))

\* All there is to verify a JWT with is a PEM that does not parse.
NoKeyForJWT == cfg.roles = "jwt" /\ cfg.jwt = {"pem"} /\ ~cfg.parses

Callable(action) == \E q \in Request : q.action = action /\ authorize(cfg, q, "found")

IInv ==
    /\ TypeOK /\ IssuerSeen /\ CacheSeen /\ DocSeen /\ HolderFetches /\ SteadyKept
    /\ OutcomesFounded /\ KeysFresh /\ PublishedKeyFound
===============================================================================
