-------------------------- MODULE MCReconcileSweep --------------------------
(***************************************************************************)
(* TLC instances of ReconcileSweep.                                        *)
(***************************************************************************)
EXTENDS ReconcileSweep

=============================================================================
