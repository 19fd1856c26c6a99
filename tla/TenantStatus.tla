---------------------------- MODULE TenantStatus ----------------------------
(***************************************************************************)
(* What the platform promises about one tenant's status column and its     *)
(* soft delete, without workflows, retries, workers or API requests.       *)
(*                                                                         *)
(*   none -> provisioning -> active | failed                               *)
(*   failed -> active,  active | failed -> deleting                        *)
(*   deleting -> active    only while nothing of the tenant was torn down  *)
(*   deleting -> deleted   only after the tenant was torn down             *)
(*                                                                         *)
(* deleted has no successor.  TenantLifecycle implements this module.      *)
(***************************************************************************)

VARIABLES
  status,   \* the tenants.status column, "none" while there is no row
  torn      \* has the teardown of a deleting tenant begun?

vars == <<status, torn>>

Init == status = "none" /\ torn = FALSE

Move(from, to) == status \in from /\ status' = to /\ UNCHANGED torn

Create   == Move({"none"}, "provisioning")
Activate == Move({"provisioning", "failed"}, "active")
Fail     == Move({"provisioning", "failed"}, "failed")
Delete   == Move({"active", "failed"}, "deleting")
Cancel   == ~torn /\ Move({"deleting"}, "active")
Finish   == torn /\ Move({"deleting"}, "deleted")

TearDown == status = "deleting" /\ torn' = TRUE /\ UNCHANGED status

Next == Create \/ Activate \/ Fail \/ Delete \/ Cancel \/ Finish \/ TearDown

Spec == Init /\ [][Next]_vars

=============================================================================
