----------------------------- MODULE MCBatchIngest ----------------------------
(* Batches for the run of BatchIngest. *)
EXTENDS BatchIngest, TLC

CONSTANTS s1, s2, s3, s4

Item(id, body, timed) == [id |-> id, body |-> body, timed |-> timed]

MCSenders == {s1, s2, s3, s4}

\* Two events with their own time, and one of them again on a second connection; one
\* without time; a valid event before one that is not.
MCBatch ==
    (s1 :> <<Item("a", "x", TRUE), Item("b", "x", TRUE)>>) @@
    (s2 :> <<Item("b", "x", TRUE)>>) @@
    (s3 :> <<Item("c", "x", FALSE)>>) @@
    (s4 :> <<Item("d", "x", TRUE), Item(BlankId, "x", TRUE)>>)
===============================================================================
