--------------------------- MODULE ReconcileSweep ---------------------------
(***************************************************************************)
(* The scheduled driver of reconciliation: a workflow that lists the       *)
(* active tenants at every tick and starts reconcile-<id> for each, as a   *)
(* child under the ID that the manual endpoint uses too.  What a reconcile *)
(* run does is in DataSagas; here it is open or not.  The worker starts a  *)
(* sweep only for a positive interval.                                     *)
(***************************************************************************)
EXTENDS Naturals, FiniteSets

CONSTANTS
  Tenants,
  Limits,          \* the values of ReconcileSweepInput.MaxSweeps
  ContinueAfter,   \* sweeps before ContinueAsNew (100 by default)
  MaxTicks         \* bound: ticks counted

ASSUME SweepAssumption ==
  /\ Limits \subseteq Nat /\ Limits # {} /\ ContinueAfter \in Nat \ {0} /\ MaxTicks \in Nat

VARIABLES
  active,   \* the tenants whose status is active
  phase,    \* where the sweep is; "none" before it is started, "finished" after it
  limit,    \* the sweep's MaxSweeps, 0 for a loop without end
  ids,      \* what ListActiveTenantIDs returned
  sweeps,   \* the workflow's counter
  run,      \* per tenant: who started the open run reconcile-<id>, or "none"
  batch,    \* the tenants whose child a one-shot sweep waits for
  killed,   \* history: the tenants whose last run was terminated by Temporal
  slept,    \* history: the interval has passed since the last tick
  ticks     \* history: ticks since the worker started the sweep, up to MaxTicks

sweep == <<phase, limit, ids, sweeps, batch>>
history == <<killed, slept, ticks>>
vars == <<active, sweep, run, history>>

Children == {t \in Tenants : run[t] = "sweep"}

\* A worker boots.  The fixed workflow ID makes a second start collide while a
\* sweep is open, and allows one after it has closed.
startReconcileSweep ==
  /\ phase \in {"none", "finished"}
  /\ phase' = "list"
  /\ limit' \in Limits
  /\ sweeps' = 0 /\ ids' = {} /\ batch' = {}
  /\ slept' = TRUE /\ ticks' = 0
  /\ UNCHANGED <<active, run, killed>>

\* Retried without a limit: it ends with the list.
ListActiveTenantIDs ==
  /\ phase = "list"
  /\ ids' = active
  /\ phase' = "tick"
  /\ UNCHANGED <<active, limit, sweeps, run, batch, history>>

\* ExecuteChildWorkflow for every listed tenant: a child whose ID has an open run
\* is refused (AlreadyStarted), which the sweep takes for a skip.
StartChildren ==
  run' = [t \in Tenants |-> IF t \in ids /\ run[t] = "none" THEN "sweep" ELSE run[t]]

\* Temporal closes the sweep's run.  The children have the default policy: those
\* that run are terminated, those requested in the closing task never start.
CloseRun ==
  /\ run' = [t \in Tenants |-> IF run[t] = "sweep" THEN "none" ELSE run[t]]
  /\ killed' = killed \cup Children

Counted == /\ ticks' = IF ticks < MaxTicks THEN ticks + 1 ELSE ticks
           /\ slept' = FALSE

\* Mutant: the history is reset after every sweep.
ContinuesAlways == TRUE

\* Mutant: the run continues as new only after the limit is exceeded.
ContinuesLate == sweeps > ContinueAfter

ContinuesAsNew == (sweeps + 1) % ContinueAfter = 0

LastSweep == limit > 0 /\ sweeps + 1 >= limit

\* One workflow task: request the children, count the sweep, go on in one of three
\* ways.  A new run starts with its counter at 0 and lists at once.
Tick ==
  /\ phase = "tick"
  /\ Counted
  /\ \/ /\ LastSweep
        /\ phase' = "wait"
        /\ batch' = {t \in ids : run[t] = "none"}
        /\ sweeps' = sweeps + 1
        /\ StartChildren /\ UNCHANGED killed
     \/ /\ ~LastSweep /\ ContinuesAsNew
        /\ phase' = "list"
        /\ sweeps' = 0
        /\ CloseRun /\ UNCHANGED batch
     \/ /\ ~LastSweep /\ ~ContinuesAsNew
        /\ phase' = "sleep"
        /\ sweeps' = sweeps + 1
        /\ StartChildren /\ UNCHANGED <<batch, killed>>
  /\ ids' = {}
  /\ UNCHANGED <<active, limit>>

\* The interval has passed.
Wake ==
  /\ phase = "sleep"
  /\ phase' = "list"
  /\ slept' = TRUE
  /\ UNCHANGED <<active, limit, ids, sweeps, batch, run, killed, ticks>>

\* Mutant: the result is returned without waiting for the batch.
FinishesEarly ==
  /\ phase = "wait"
  /\ phase' = "finished"
  /\ CloseRun
  /\ UNCHANGED <<active, limit, ids, sweeps, batch, slept, ticks>>

\* Every child of the batch has ended: the run returns its result and closes.
Finish ==
  /\ phase = "wait"
  /\ batch \cap Children = {}
  /\ phase' = "finished"
  /\ CloseRun
  /\ UNCHANGED <<active, limit, ids, sweeps, batch, slept, ticks>>

\* POST /reconcile, refused while a run of that tenant is open.
ReconcileTenant(t) ==
  /\ run[t] = "none"
  /\ run' = [run EXCEPT ![t] = "manual"]
  /\ UNCHANGED <<active, sweep, history>>

\* The run of tenant t comes to its own end.
ReconcileEnds(t) ==
  /\ run[t] # "none"
  /\ run' = [run EXCEPT ![t] = "none"]
  /\ killed' = killed \ {t}
  /\ UNCHANGED <<active, sweep, slept, ticks>>

\* The lifecycle sagas bring a tenant to, or out of, the active status.
StatusChanges(t) ==
  /\ active' = IF t \in active THEN active \ {t} ELSE active \cup {t}
  /\ UNCHANGED <<sweep, run, history>>

Init ==
  /\ active \in SUBSET Tenants
  /\ phase = "none" /\ limit = 0 /\ ids = {} /\ sweeps = 0 /\ batch = {}
  /\ run = [t \in Tenants |-> "none"]
  /\ killed = {} /\ slept = TRUE /\ ticks = 0

Next ==
  \/ startReconcileSweep \/ ListActiveTenantIDs \/ Tick \/ Wake \/ Finish
  \/ \E t \in Tenants : ReconcileTenant(t) \/ ReconcileEnds(t) \/ StatusChanges(t)

Spec == Init /\ [][Next]_vars

\* A worker has booted once, Temporal fires timers and dispatches tasks, and every
\* reconcile run closes (DataSagas).  Nobody has to call the endpoint, or to start a
\* sweep after one that has finished.
Fairness ==
  /\ WF_vars(phase = "none" /\ startReconcileSweep) /\ WF_vars(ListActiveTenantIDs)
  /\ WF_vars(Tick) /\ WF_vars(Wake) /\ WF_vars(Finish)
  /\ \A t \in Tenants : WF_vars(ReconcileEnds(t))

FairSpec == Spec /\ Fairness

-----------------------------------------------------------------------------

\* Every variable has its type; the counter, and with it the history of a run, is
\* bounded.
SweepTypeOK ==
  /\ active \subseteq Tenants /\ ids \subseteq Tenants
  /\ batch \subseteq Tenants /\ killed \subseteq Tenants
  /\ phase \in {"none", "list", "tick", "sleep", "wait", "finished"}
  /\ run \in [Tenants -> {"none", "sweep", "manual"}]
  /\ limit \in Limits \cup {0}
  /\ sweeps \in 0 .. ContinueAfter /\ ticks \in 0 .. MaxTicks /\ slept \in BOOLEAN

\* Under a sweep without a limit whose interval is longer than its reconcile runs
\* take, a tenant that stays active is reconciled again and again, although the
\* children of the sweep that continues as new never run, and however often manual
\* runs make the sweep skip it.
KeepsReconciling ==
  <>[][Wake => Children = {}]_vars =>
    \A t \in Tenants :
      <>[](t \in active /\ limit = 0) => []<><<ReconcileEnds(t)>>_vars

\* A one-shot sweep that reports its result has waited for its own batch.
FinishedBatchIsDone ==
  phase = "finished" => killed \cap batch = {}

\* A one-shot sweep leaves no run that it cut off.
FinishKillsNothing == phase = "finished" => killed = {}

\* A sweep with a limit stops after that many ticks.
StopsAfterMaxSweeps == limit > 0 => ticks <= limit

\* The sweep sleeps between two ticks.
TicksAreSpaced == phase = "tick" => slept

=============================================================================
