------------------------------ MODULE MCSqlStore ------------------------------
(* Model values for the runs of SqlStore. *)
EXTENDS SqlStore

CONSTANTS c1, c2, c3, id1, h1, h2

MCClients2 == {c1, c2}
MCClients3 == {c1, c2, c3}
MCIds1 == {id1}
MCHashes == {h1, h2}
===============================================================================
