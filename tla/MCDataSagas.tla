---------------------------- MODULE MCDataSagas -----------------------------
(***************************************************************************)
(* DataSagas for TLC: the scenarios that the configurations select.  Each  *)
(* is a set of sagas that run against each other.                          *)
(***************************************************************************)
EXTENDS DataSagas

AllSagas == {"migrate", "backup", "restore", "delete", "reconcile"}

Of(sagas, initial) ==
  [sagas |-> sagas, initial |-> initial, sameSecond |-> FALSE, maxDrifts |-> 0]

Migration == Of({"migrate"}, {"empty", "v1"})
Drift == [Of({"reconcile"}, {"v1"}) EXCEPT !.maxDrifts = 2]
BackupAndRestore == Of({"backup", "restore"}, {"empty", "v1"})
BackupAndDelete == Of({"backup", "delete"}, {"v1"})

Supported == {Migration, Drift, BackupAndRestore, BackupAndDelete}

\* A restore in place against the sagas that replace its database, and a deletion.
Overlapping ==
  {Of({"restore", w}, {"v1"}) : w \in {"migrate", "reconcile"}} \cup {Of({"delete"}, {"v1"})}

\* The scenarios of the claims that the code refutes.
MigrationAlone == {Of({"migrate"}, {"v1"})}
RestoreAlone == {Of({"restore"}, {"v1"})}
DeleteAlone == {Of({"delete"}, {"v1"})}
ReconcileAlone == {[Of({"reconcile"}, {"v1"}) EXCEPT !.maxDrifts = 1]}

=============================================================================
