---------------------------- MODULE MCMonitoring ----------------------------
(***************************************************************************)
(* Two pipelines that read one source, for the API's whole scope and for   *)
(* one pipeline.                                                           *)
(***************************************************************************)
EXTENDS Monitoring

MCSourceOf == [p \in Pipelines |-> 1]
MCScopes == {NoScope, [pipeline |-> 1, source |-> 0]}
MCOutcomes == {[result |-> "PASSED", severity |-> "BLOCKING"],
               [result |-> "FAILED", severity |-> "WARNING"],
               [result |-> "FAILED", severity |-> "BLOCKING"]}
MCAlertKinds == {[severity |-> "CRITICAL", vendor |-> FALSE],
                 [severity |-> "WARNING", vendor |-> FALSE],
                 [severity |-> "WARNING", vendor |-> TRUE]}

Rows == Cardinality(runs) + Cardinality(executions) + Cardinality(alerts)
Fewer == Rows < MaxRows - 1
StandsForOther == \E a \in alerts : a.execution \notin {a.run, NoExecution}

Untroubled == FALSE \notin Range(enabled) /\ sourceStatus[1] = "HEALTHY"

\* Three rows tell most answers apart; the fourth is for an alert that stands
\* for an execution of another run, since each of the runs and the execution
\* take one. With three rows a pipeline's answer is like that of the API where
\* no other is registered.
ExploredRows ==
  /\ 2 \in Registered => enabled[2]
  /\ Rows < MaxRows \/ (StandsForOther /\ Untroubled)
  /\ request.scope # NoScope => Rows # MaxRows - 1

\* Time passes over runs and executions alone, before the requests.
ExploredTimes ==
  /\ clock = 0 \/ (Fewer /\ alerts = {} /\ Untroubled)
  /\ request.kind # "none" => request.end \in {0, MaxTime}

\* Records change during a request while there are few: the second and the
\* third change are for a run of a pipeline registered since the request began.
\* The dashboard reads all that the monitoring answer does, in the same order.
ExploredWrites ==
  /\ request.writes > 0 =>
       Fewer /\ Untroubled /\ ~(request.kind = "monitoring" /\ request.scope = NoScope)
  /\ request.writes > 1 => \E r \in runs : r.pipeline \in request.since
  /\ request.writes > 2 => \E r \in runs : r.pipeline \in request.since /\ r.status # "RUNNING"

Explored == ExploredRows /\ ExploredTimes /\ ExploredWrites
=============================================================================
