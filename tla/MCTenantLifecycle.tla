-------------------------- MODULE MCTenantLifecycle --------------------------
(***************************************************************************)
(* TLC instances of TenantLifecycle.                                       *)
(***************************************************************************)
EXTENDS TenantLifecycle, TLC

\* Clients are interchangeable: no definition names one.
ClientSymmetry == Permutations(Clients)

=============================================================================
