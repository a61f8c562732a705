---------------------------- MODULE MCChangeCache -----------------------------
(* Values for the runs of ChangeCache. *)
EXTENDS ChangeCache, TLC

CONSTANTS k1, k2, r1, r2, w1

MCWriters == {w1}
MCReaders == {r1, r2}
MCKeys == {k1, k2}
MCEvents == {1, 2}

\* k2 searches the window of k1 for a text that only the newer event has.
MCWindow == (k1 :> {1, 2}) @@ (k2 :> {1, 2})
MCFound == (k1 :> {1, 2}) @@ (k2 :> {2})

Symmetry == Permutations(MCReaders)
===============================================================================
