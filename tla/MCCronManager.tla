--------------------------- MODULE MCCronManager ---------------------------
(* Small instance of CronManager for TLC: the constants come from the cfg. *)
EXTENDS CronManager

(* One meta-job m1 with one named member job c1. *)
MCChildrenOf == [m \in MetaNames |-> ChildNames]

=============================================================================
