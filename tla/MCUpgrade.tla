----------------------------- MODULE MCUpgrade ------------------------------
(***************************************************************************)
(* Upgrade for TLC, with the plan of billing.DefaultQuota.                 *)
(***************************************************************************)
EXTENDS Upgrade

BasicPlan == [users |-> 10, storage |-> 5, seats |-> 10]

=============================================================================
