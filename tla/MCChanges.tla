------------------------------- MODULE MCChanges ------------------------------
(* Events and requests for the run of Changes. *)
EXTENDS Changes

NoNotes == [k \in MetaKeys \ {"initiator"} |-> Blank]

Plain(id, t, ext) ==
    [id |-> id, time |-> t, source |-> "argocd", type |-> "sync", status |-> "other",
     obs |-> FALSE, ext |-> ext, annotations |-> NoNotes, approvals |-> <<>>,
     words |-> {"app"}]

Approval(who, spelling) == [who |-> who, spelling |-> spelling]

\* Two operations, the second with a number for its history id, a Kubernetes observation of
\* the first one, and a deployment known by its revision and its second only.
MCCatalog ==
    {[Plain(1, 1, [operation_id |-> "op1", health_status |-> "healthy"])
         EXCEPT !.approvals = <<Approval("ann", 1), Approval(Blank, 1)>>],
     [Plain(2, 3, [operation_id |-> "op1", ticket_id |-> "t1", health_status |-> "healthy"])
         EXCEPT !.type = "failed", !.approvals = <<Approval("ann", 2)>>],
     [Plain(3, 2, [operation_id |-> "op1", health |-> "degraded"])
         EXCEPT !.source = "kubernetes", !.obs = TRUE, !.words = {"k8s"}],
     [Plain(4, 2, [history_id |-> NotText, sync_revision |-> "r1",
                   health_status |-> "progressing"])
         EXCEPT !.status = "succeeded", !.annotations["external_change_id"] = "x1"],
     [Plain(5, 3, [primary_reference |-> "p1", primary_provider |-> "gha",
                   health_status |-> "missing"]) EXCEPT !.status = "completed"],
     Plain(6, 1, [operation_id |-> "op1", health |-> "progressing"])}

MCHash(k) == CASE k[2] = "op1" -> 2 [] k[2] = "p1" -> 1 [] OTHER -> 3

Request(result, health, ticketState, approvals, limit) ==
    [result |-> result, health |-> health, externalState |-> "any", ticketState |-> ticketState,
     meta |-> [k \in MetaKeys \ {"initiator"} |-> Blank], hasApprovals |-> approvals,
     text |-> Blank, limit |-> limit]

MCQueries ==
    {Request(Blank, Blank, "any", "any", 1),
     Request("succeeded", Blank, "unset", "any", 1),
     Request(Blank, "degraded", "any", "yes", 9),
     [Request(Blank, Blank, "any", "no", 0) EXCEPT !.externalState = "unset"],
     [Request(Blank, Blank, "any", "any", 1) EXCEPT !.text = "app"]}

MCSearches == {"app", "k8s"}
===============================================================================
