------------------------------ MODULE SagaRuns ------------------------------
(***************************************************************************)
(* How Temporal drives the activities of a saga, shared by the modules of  *)
(* the data sagas, the upgrade and the identity.  An activity is a sequence*)
(* of numbered effects: step[w] = k means that the running attempt is about*)
(* to perform effect k of act[w].  An attempt may end badly before any of  *)
(* them, the last one (which reports success) included, with the earlier   *)
(* ones committed: an error, a timeout and a worker that died all look     *)
(* like that to the workflow.                                              *)
(***************************************************************************)
EXTENDS Naturals

CONSTANTS
  Sagas,            \* the sagas that may run
  MaximumAttempts   \* RetryPolicy.MaximumAttempts of every activity

ASSUME AttemptsAssumption == MaximumAttempts \in Nat \ {0}

VARIABLES
  act,      \* per saga: the activity to execute, or how the run closed
  step,     \* per saga: the effect the executing attempt performs next
  attempt   \* per saga: the number of the attempt

control == <<act, step, attempt>>

At(w, a, k) == act[w] = a /\ step[w] = k

\* The workflow goes on with activity a, or closes as a.
Goto(w, a) ==
  /\ act' = [act EXCEPT ![w] = a]
  /\ step' = [step EXCEPT ![w] = 1]
  /\ attempt' = [attempt EXCEPT ![w] = 1]

\* The attempt goes on with effect k.
Then(w, k) ==
  /\ step' = [step EXCEPT ![w] = k]
  /\ UNCHANGED <<act, attempt>>

\* Mutant: a retry policy without a limit.
RetriesForever(w, next) ==
  /\ step' = [step EXCEPT ![w] = 1]
  /\ UNCHANGED <<act, attempt>>

\* Mutant: an attempt too many.
RetriesOnceMore(w, next) ==
  IF attempt[w] <= MaximumAttempts
    THEN /\ attempt' = [attempt EXCEPT ![w] = attempt[w] + 1]
         /\ step' = [step EXCEPT ![w] = 1]
         /\ UNCHANGED act
    ELSE Goto(w, next)

\* The attempt ends without success: it is retried from its first effect, and
\* after MaximumAttempts the activity is given up and the saga goes on with next.
EndAttempt(w, next) ==
  IF attempt[w] < MaximumAttempts
    THEN /\ attempt' = [attempt EXCEPT ![w] = attempt[w] + 1]
         /\ step' = [step EXCEPT ![w] = 1]
         /\ UNCHANGED act
    ELSE Goto(w, next)

NoRuns ==
  /\ act = [w \in Sagas |-> "none"]
  /\ step = [w \in Sagas |-> 1]
  /\ attempt = [w \in Sagas |-> 1]

=============================================================================
