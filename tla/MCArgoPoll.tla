------------------------------ MODULE MCArgoPoll ------------------------------
(* Values for the runs of ArgoPoll. *)
EXTENDS ArgoPoll

MCRevs == {"r1", "r2"}
MCActors == {"alice", "bob"}
MCOneActor == {"alice"}
MCHealths == {"Healthy", "Degraded"}
MCOneHealth == {"Healthy"}
===============================================================================
