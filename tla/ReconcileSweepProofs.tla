------------------------ MODULE ReconcileSweepProofs ------------------------
(***************************************************************************)
(* Proofs about ReconcileSweep, for any set of tenants and any limits.     *)
(***************************************************************************)
EXTENDS ReconcileSweep, TLAPS

\* A run counts fewer sweeps than ContinueAfter while it has another one to do.
CountInv ==
  /\ phase \in {"list", "tick", "sleep"} => sweeps < ContinueAfter
  /\ phase = "none" => sweeps = 0

\* While a one-shot sweep waits, each child of its batch still runs or has come to
\* its own end.
BatchInv ==
  /\ phase = "wait" => \A t \in batch : run[t] = "sweep" \/ t \notin killed
  /\ phase = "finished" => killed \cap batch = {}

SweepInv == SweepTypeOK /\ CountInv /\ BatchInv

LEMMA WrapsAround == ContinueAfter % ContinueAfter = 0
BY SweepAssumption

LEMMA SweepCases ==
  ASSUME [Next]_vars
  PROVE  \/ startReconcileSweep \/ ListActiveTenantIDs \/ Tick \/ Wake \/ Finish
         \/ \E t \in Tenants : ReconcileTenant(t) \/ ReconcileEnds(t) \/ StatusChanges(t)
         \/ UNCHANGED vars
BY DEF Next

LEMMA SleptStep ==
  ASSUME slept \in BOOLEAN, [Next]_vars
  PROVE  slept' \in BOOLEAN
<1>1. slept' = slept \/ slept' = TRUE \/ slept' = FALSE
  BY SweepCases, Zenon DEF startReconcileSweep, ListActiveTenantIDs, Tick, Counted, Wake, Finish,
     ReconcileTenant, ReconcileEnds, StatusChanges, vars, history
<1> QED
  BY <1>1, Zenon

\* The counters of a tick: either the run continues as new, or it stays below the
\* limit, or it was the last sweep.
LEMMA TickCounts ==
  ASSUME SweepTypeOK, CountInv, Tick
  PROVE  /\ sweeps' \in 0 .. ContinueAfter /\ ticks' \in 0 .. MaxTicks
         /\ phase' \in {"list", "sleep"} => sweeps' < ContinueAfter
         /\ phase' \in {"list", "sleep", "wait"}
<1> USE SweepAssumption DEF SweepTypeOK, CountInv, Tick
<1>1. ticks' \in 0 .. MaxTicks
  BY DEF Counted
<1>2. sweeps \in 0 .. ContinueAfter /\ sweeps < ContinueAfter
  OBVIOUS
<1>3. ~ContinuesAsNew => sweeps + 1 < ContinueAfter
  BY <1>2, WrapsAround DEF ContinuesAsNew
<1> QED
  BY <1>1, <1>2, <1>3

LEMMA SweepTypeStep == SweepTypeOK /\ CountInv /\ [Next]_vars => SweepTypeOK' /\ CountInv'
<1> SUFFICES ASSUME SweepTypeOK, CountInv, [Next]_vars
             PROVE  SweepTypeOK' /\ CountInv'
  OBVIOUS
<1>0. slept' \in BOOLEAN
  BY SleptStep DEF SweepTypeOK
<1> USE SweepAssumption, <1>0 DEF SweepTypeOK, CountInv
<1>1. CASE startReconcileSweep
  BY <1>1 DEF startReconcileSweep
<1>2. CASE ListActiveTenantIDs
  BY <1>2 DEF ListActiveTenantIDs, history
<1>3. CASE Tick
  <2>1. run' \in [Tenants -> {"none", "sweep", "manual"}]
    BY <1>3 DEF Tick, StartChildren, CloseRun
  <2>2. /\ active' \subseteq Tenants /\ ids' \subseteq Tenants
        /\ batch' \subseteq Tenants /\ killed' \subseteq Tenants
        /\ limit' = limit
    BY <1>3 DEF Tick, CloseRun, Children
  <2> QED BY <1>3, <2>1, <2>2, TickCounts
<1>4. CASE Wake
  BY <1>4 DEF Wake
<1>5. CASE Finish
  BY <1>5 DEF Finish, CloseRun, Children
<1>6. ASSUME NEW t \in Tenants, ReconcileTenant(t) \/ ReconcileEnds(t) \/ StatusChanges(t)
      PROVE  SweepTypeOK' /\ CountInv'
  BY <1>6 DEF ReconcileTenant, ReconcileEnds, StatusChanges, sweep, history
<1>7. CASE UNCHANGED vars
  BY <1>7 DEF vars, sweep, history
<1> QED
  BY <1>1, <1>2, <1>3, <1>4, <1>5, <1>6, <1>7, SweepCases

LEMMA BatchStep == SweepTypeOK /\ BatchInv /\ [Next]_vars => BatchInv'
<1> SUFFICES ASSUME SweepTypeOK, BatchInv, [Next]_vars
             PROVE  BatchInv'
  OBVIOUS
<1> USE DEF SweepTypeOK, BatchInv
<1>1. CASE startReconcileSweep \/ ListActiveTenantIDs \/ Wake
  BY <1>1 DEF startReconcileSweep, ListActiveTenantIDs, Wake
<1>2. CASE Tick
  BY <1>2 DEF Tick, StartChildren
<1>3. CASE Finish
  BY <1>3 DEF Finish, CloseRun, Children
<1>4. ASSUME NEW t \in Tenants, ReconcileTenant(t) \/ ReconcileEnds(t) \/ StatusChanges(t)
      PROVE  BatchInv'
  BY <1>4 DEF ReconcileTenant, ReconcileEnds, StatusChanges, sweep, history
<1>5. CASE UNCHANGED vars
  BY <1>5 DEF vars, sweep, history
<1> QED
  BY <1>1, <1>2, <1>3, <1>4, <1>5, SweepCases

\* The inductive invariant.
THEOREM SweepInvariant == Spec => []SweepInv
<1>1. Init => SweepInv
  <2> SUFFICES ASSUME Init PROVE SweepInv
    OBVIOUS
  <2>1. slept \in BOOLEAN
    BY Zenon DEF Init
  <2>2. SweepTypeOK
    BY <2>1, SweepAssumption DEF Init, SweepTypeOK
  <2>3. CountInv /\ BatchInv
    BY SweepAssumption DEF Init, CountInv, BatchInv
  <2> QED BY <2>2, <2>3 DEF SweepInv
<1>2. SweepInv /\ [Next]_vars => SweepInv'
  BY SweepTypeStep, BatchStep DEF SweepInv
<1> QED
  BY <1>1, <1>2, PTL DEF Spec

\* ReconcileSweepWorkflow's counter, and with it the history of one run, is bounded by
\* ContinueAfter, however many sweeps there are.
THEOREM HistoryIsBounded == Spec => []SweepTypeOK
<1>1. SweepInv => SweepTypeOK
  BY DEF SweepInv
<1> QED
  BY <1>1, SweepInvariant, PTL

\* A one-shot sweep that reports its result has waited for its own batch: the closing
\* of its run terminates none of them.
THEOREM BatchIsDone == Spec => []FinishedBatchIsDone
<1>1. SweepInv => FinishedBatchIsDone
  BY DEF SweepInv, BatchInv, FinishedBatchIsDone
<1> QED
  BY <1>1, SweepInvariant, PTL

=============================================================================
