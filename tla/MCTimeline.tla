------------------------------ MODULE MCTimeline ------------------------------
(* Events and requests for the run of Timeline. *)
EXTENDS Timeline, TLC

T(s, f) == [sec |-> s, frac |-> f]

\* Strings, with blanks around them or ":" inside, and the texts of two JSON literals.
MCText == {"", "app", "c1", " c1 ", "prod", "c1:prod", "prod:eu", "eu", "op1", " op1 ",
           "true", "1"}

MCTrim == [t \in MCText |-> CASE t = " c1 " -> "c1" [] t = " op1 " -> "op1" [] OTHER -> t]

\* SQLite shows true as 1.
MCJsonText ==
    [postgres |-> [t \in MCText |-> t],
     sqlite   |-> [t \in MCText |-> IF t = "true" THEN "1" ELSE t]]

MCJoined(s) == s[1] \o ":" \o s[2] \o ":" \o s[3]

Str(t) == [kind |-> "string", text |-> t]
Absent == [kind |-> "absent", text |-> Blank]
Literal(t) == [kind |-> "scalar", text |-> t]

\* "odd key" is one that isValidExtensionKey refuses.
Event(id, t, subject, obs, corr) ==
    [id |-> id, time |-> t, subject |-> subject, source |-> "argocd", type |-> "sync", obs |-> obs,
     ext |-> [cluster |-> Str("c1"), namespace |-> Str("prod"), op |-> corr]
                 @@ ("odd key" :> Str("op1"))]

Placed(e, cluster, namespace) ==
    [e EXCEPT !.ext["cluster"] = cluster, !.ext["namespace"] = namespace]

\* A second with several precisions, two events of one time, a blank subject, other scopes,
\* values that are no strings or have blanks around them, and two subjects with one joined name.
MCCatalog ==
    {Event(8, T(1, <<>>),     "app", "number",     Str("op1")),
     Placed(Event(2, T(1, <<5>>), "app", "false", Absent), Str("c1"), Str("prod:eu")),
     Event(3, T(2, <<5>>),    "app", "true",       Str("op1")),
     Placed(Event(4, T(2, <<5>>), "app", "text false", Str(" op1 ")), Str(" c1 "), Absent),
     Placed(Event(5, T(2, <<5, 1>>), "app", "text yes", Literal("1")), Literal("true"), Absent),
     Placed(Event(6, T(3, <<5>>), "app", "absent", Absent), Str("c1:prod"), Str("eu")),
     Event(7, T(3, <<5>>),    Blank, "absent",     Str("op1"))}

Request(from, to, subject, corr, supporting, limit) ==
    [from |-> from, to |-> to, subject |-> subject, cluster |-> "c1", namespace |-> Blank,
     source |-> Blank, type |-> "sync", key |-> IF corr = Blank THEN Blank ELSE "op",
     value |-> corr, supporting |-> supporting, limit |-> limit]

MCQueries ==
    {Request(T(1, <<>>), T(3, <<>>), "app", Blank, TRUE, 1),
     Request(T(1, <<5>>), T(3, <<5>>), "app", Blank, FALSE, 0),
     Request(T(1, <<5>>), T(3, <<5>>), Blank, "op1", FALSE, 1),
     [Request(T(1, <<>>), T(2, <<5>>), "app", Blank, TRUE, 9) EXCEPT !.cluster = Blank],
     Request(T(1, <<>>), T(3, <<>>), Blank, Blank, TRUE, 1)}
===============================================================================
