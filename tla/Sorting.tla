------------------------------- MODULE Sorting --------------------------------
(***************************************************************************)
(* What sort.Slice and ORDER BY give for a finite set.  The order is the   *)
(* function that gives every member those that come before it: the i-th    *)
(* member of the result is the one that i - 1 members come before.         *)
(***************************************************************************)
EXTENDS Naturals, FiniteSets

SortedBy(before) ==
    [i \in 1..Cardinality(DOMAIN before) |->
        CHOOSE x \in DOMAIN before : Cardinality(before[x]) = i - 1]
===============================================================================
