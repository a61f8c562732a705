------------------------------- MODULE MCGuards -------------------------------
(* Requests and configurations for the run of Guards. *)
EXTENDS Guards

CONSTANTS c1, c2, c3, c4, k1, k2

MCClients == {c1, c2, c3, c4}
MCKids == {k1, k2}
MCPadded == {k2}

\* Readers with a token of the issuer: they need the JWKS document.
Tokens == [action : {"read"}, bearer : {"rs256"}, kid : MCKids, good : {TRUE},
           roles : {{"reader"}}, signed : {FALSE}]

\* All that a client may try where no key is fetched.
Anything == {q \in Request :
    /\ q.kid = k1
    /\ Cardinality(q.roles) <= 1
    /\ q.signed => q.action = "ingest"
    /\ ~q.good => q.bearer \in {"hs256", "rs256"}}

\* The limiter sees two actions of two clients; withAuthDefaults gives each action a limit.
MCActions == {"read", "ingest"}
MCIPs == {"a", "b"}
MCLimits == [read |-> 1, ingest |-> 1]

\* With the limiter, holders of the static token.
Holders == [action : MCActions, bearer : {"read"}, kid : {k1}, good : {TRUE}, roles : {{}}, signed : {FALSE}]

\* All configurations without a JWKS document, a plain one with it, and a plain one with the
\* limiter.
MCConfigs == {c \in Config :
    /\ c.roles # "jwt" => c.jwt = {}
    /\ "pem" \notin c.jwt => c.parses
    /\ "jwks" \in c.jwt => c.jwt = {"jwks"} /\ ~c.read /\ ~c.ingest /\ ~c.signature /\ ~c.insecure
    /\ c.limited => c.roles = "off" /\ c.read /\ ~c.ingest /\ ~c.signature /\ ~c.insecure}

\* The document is fetched for three requests, four pass the limiter; elsewhere one request
\* is all there is to see.
MCOffers == [f \in MCConfigs |-> [c \in MCClients |->
    CASE f.limited -> {q \in Holders : c # c4 => q.action = "read"}
      [] "jwks" \in f.jwt -> IF c = c4 THEN {} ELSE {q \in Tokens : q.kid = IF c = c3 THEN k2 ELSE k1}
      [] ~f.limited /\ "jwks" \notin f.jwt -> IF c = c1 THEN Anything ELSE {}]]
===============================================================================
