----------------------------- MODULE RunLedger -----------------------------
(***************************************************************************)
(* What the metadata schema promises its readers (the API, Grafana, the    *)
(* next run's incident detection): each DAG run's operational record grows *)
(* in a fixed order, one committed stage at a time, is never taken back,   *)
(* and is complete by the time Airflow reports the run as successful.  How *)
(* many attempts, crashes or repeated jobs that takes is not visible.      *)
(***************************************************************************)
EXTENDS Naturals

CONSTANT Runs

VARIABLES
  stage,   \* how much of each run's record is committed
  outcome  \* what Airflow reports of each run

\* A record that is absent, then has the run and its node results, then its
\* health measurements, then the result of incident detection.
Stages == 0 .. 3
Evaluated == 3

Outcomes == {"pending", "success", "failed"}

Init ==
  /\ stage = [r \in Runs |-> 0]
  /\ outcome = [r \in Runs |-> "pending"]

Grow(r) ==
  /\ stage[r] < Evaluated
  /\ stage' = [stage EXCEPT ![r] = @ + 1]
  /\ UNCHANGED outcome

Succeed(r) ==
  /\ outcome[r] = "pending"
  /\ stage[r] = Evaluated
  /\ outcome' = [outcome EXCEPT ![r] = "success"]
  /\ UNCHANGED stage

\* A run may fail with any part of its record committed.
Fail(r) ==
  /\ outcome[r] = "pending"
  /\ outcome' = [outcome EXCEPT ![r] = "failed"]
  /\ UNCHANGED stage

Next == \E r \in Runs : Grow(r) \/ Succeed(r) \/ Fail(r)

Spec == Init /\ [][Next]_<<stage, outcome>>
=============================================================================
