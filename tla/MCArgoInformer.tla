---------------------------- MODULE MCArgoInformer ----------------------------
(* Values for the runs of ArgoInformer. *)
EXTENDS ArgoInformer

MCRevs == {"r1", "r2"}
MCActors == {"alice"}
MCHealths == {"Healthy"}
===============================================================================
