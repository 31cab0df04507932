------------------------- MODULE OperationalRecords -------------------------
(***************************************************************************)
(* The canonical operational tables, as their schema lets them be written. *)
(* The API only reads them: the writers stand for whatever ingestion or    *)
(* operator keeps them. They add rows and change what the API shows of     *)
(* them; they delete none, and the sources are there from the start. A run *)
(* starts when it is written or before, an execution and an alert have the *)
(* time they are written. Each pipeline has one validation check, which    *)
(* its own runs execute, so that an execution is known by its run. Rows    *)
(* without a Corvetra run id belong to no pipeline and are left out.       *)
(***************************************************************************)
EXTENDS Integers, FiniteSets, Sequences

CONSTANTS
  Pipelines,  \* pipelines that may be registered, in the order of their names
  Sources,    \* data sources, in the order of their names
  SourceOf,   \* the source of each pipeline
  RunIds,     \* row identifiers of runs, 1..n, taken in their order
  AlertKeys,  \* keys of alerts, 1..n, taken in their order
  Outcomes,   \* results of an execution, with the severity in effect
  AlertKinds, \* severities of alerts, with whether they carry a vendor code
  MaxTime,    \* bound of the clock
  MaxRows,    \* bound of the rows written
  NoRun,
  NoExecution

ASSUME ReferencesAssumption ==
  /\ IsFiniteSet(Pipelines) /\ Pipelines \subseteq Int
  /\ IsFiniteSet(Sources) /\ Sources \subseteq Int
  /\ SourceOf \in [Pipelines -> Sources]
  /\ MaxTime \in Nat

VARIABLES clock, sourceStatus, enabled, runs, executions, alerts

\* The rows of metadata.pipelines: enabled is a function on them.
Registered == DOMAIN enabled

records == <<clock, sourceStatus, enabled, runs, executions, alerts>>

SourceStatuses == {"HEALTHY", "WARNING", "DISCONNECTED", "DISABLED"}
Run == [id : RunIds, pipeline : Pipelines, status : {"RUNNING", "SUCCESS", "FAILED"},
        started : 0..MaxTime]
Outcome == [result : {"PASSED", "FAILED", "NOT_EVALUATED"}, severity : {"WARNING", "BLOCKING"}]
Execution == [run : RunIds, outcome : Outcomes, at : 0..MaxTime]
\* An alert that is open or acknowledged is active.
Alert == [key : AlertKeys, run : RunIds, execution : RunIds \cup {NoExecution},
          kind : AlertKinds, active : BOOLEAN, seen : 0..MaxTime]
AlertKind == [severity : {"CRITICAL", "WARNING"}, vendor : BOOLEAN]

ASSUME KindsAssumption == Outcomes \subseteq Outcome /\ AlertKinds \subseteq AlertKind

\* A null is no identifier.
ASSUME NullAssumption == NoRun \notin Nat \cup {"RUNNING", "SUCCESS", "FAILED"} /\ NoExecution \notin Nat

RecordsInit ==
  /\ clock = 0
  /\ sourceStatus \in [Sources -> SourceStatuses]
  /\ \E registered \in SUBSET Pipelines : enabled \in [registered -> BOOLEAN]
  /\ runs = {} /\ executions = {} /\ alerts = {}

RoomForRow == Cardinality(runs) + Cardinality(executions) + Cardinality(alerts) < MaxRows

\* A run may be written down later than it started.
StartRun(id, p, at) ==
  /\ RoomForRow
  /\ p \in Registered
  /\ id = Cardinality(runs) + 1
  /\ runs' = runs \cup {[id |-> id, pipeline |-> p, status |-> "RUNNING", started |-> at]}
  /\ UNCHANGED <<clock, sourceStatus, enabled, executions, alerts>>

FinishRun(r, status) ==
  /\ r.status = "RUNNING"
  /\ runs' = (runs \ {r}) \cup {[r EXCEPT !.status = status]}
  /\ UNCHANGED <<clock, sourceStatus, enabled, executions, alerts>>

\* One execution of a check in a run.
Evaluate(r, outcome) ==
  /\ RoomForRow
  /\ \A x \in executions : x.run # r.id
  /\ executions' = executions \cup
       {[run |-> r.id, outcome |-> outcome, at |-> clock]}
  /\ UNCHANGED <<clock, sourceStatus, enabled, runs, alerts>>

\* An alert belongs to a run and may represent an execution, of whichever run
\* that is; an execution is represented by one alert at most.
RaiseAlert(key, r, execution, kind) ==
  /\ RoomForRow
  /\ key = Cardinality(alerts) + 1
  /\ execution # NoExecution =>
       /\ \E x \in executions : x.run = execution
       /\ \A a \in alerts : a.execution # execution
  /\ alerts' = alerts \cup
       {[key |-> key, run |-> r.id, execution |-> execution, kind |-> kind,
         active |-> TRUE, seen |-> clock]}
  /\ UNCHANGED <<clock, sourceStatus, enabled, runs, executions>>

ResolveAlert(a) ==
  /\ a.active
  /\ alerts' = (alerts \ {a}) \cup {[a EXCEPT !.active = FALSE]}
  /\ UNCHANGED <<clock, sourceStatus, enabled, runs, executions>>

ChangeSource(s, status) ==
  /\ sourceStatus[s] # status
  /\ sourceStatus' = [sourceStatus EXCEPT ![s] = status]
  /\ UNCHANGED <<clock, enabled, runs, executions, alerts>>

RegisterPipeline(p, on) ==
  /\ p \notin Registered
  /\ enabled' = [q \in Registered \cup {p} |-> IF q = p THEN on ELSE enabled[q]]
  /\ UNCHANGED <<clock, sourceStatus, runs, executions, alerts>>

SwitchPipeline(p) ==
  /\ p \in Registered
  /\ enabled' = [enabled EXCEPT ![p] = ~@]
  /\ UNCHANGED <<clock, sourceStatus, runs, executions, alerts>>

WriteKinds ==
  {"start", "success", "failure", "execution", "alert", "source", "register", "switch"}

Written(kind) ==
  \/ /\ kind = "start"
     /\ \E id \in RunIds, p \in Pipelines, at \in 0..clock : StartRun(id, p, at)
  \/ /\ kind = "success"
     /\ \E r \in runs : FinishRun(r, "SUCCESS")
  \/ /\ kind = "failure"
     /\ \E r \in runs : FinishRun(r, "FAILED")
  \/ /\ kind = "execution"
     /\ \E r \in runs, outcome \in Outcomes : Evaluate(r, outcome)
  \/ /\ kind = "alert"
     /\ \/ \E key \in AlertKeys, r \in runs, alertKind \in AlertKinds :
             \E execution \in RunIds \cup {NoExecution} : RaiseAlert(key, r, execution, alertKind)
        \/ \E a \in alerts : ResolveAlert(a)
  \/ /\ kind = "source"
     /\ \E s \in Sources, status \in SourceStatuses : ChangeSource(s, status)
  \/ /\ kind = "register"
     /\ \E p \in Pipelines, on \in BOOLEAN : RegisterPipeline(p, on)
  \/ /\ kind = "switch"
     /\ \E p \in Pipelines : SwitchPipeline(p)

RecordsWritten == \E kind \in WriteKinds : Written(kind)

TimePasses ==
  /\ clock < MaxTime
  /\ clock' = clock + 1
  /\ UNCHANGED <<sourceStatus, enabled, runs, executions, alerts>>
-----------------------------------------------------------------------------
(* What every reader derives from the records, most of it by the           *)
(* pipeline_state query.                                                   *)

\* The rows in the order of a query: each is where as many rows come before it.
InOrder(rows, Before(_, _)) ==
  [i \in 1..Cardinality(rows) |->
     CHOOSE r \in rows : Cardinality({q \in rows : Before(q, r)}) = i - 1]

RunOf(id) == CHOOSE r \in runs : r.id = id
Later(r, q) == r.started > q.started \/ (r.started = q.started /\ r.id > q.id)
LatestRun(p) ==
  LET own == {r \in runs : r.pipeline = p}
  IN IF own = {} THEN [id |-> NoRun, status |-> NoRun, started |-> 0]
     ELSE CHOOSE r \in own : \A q \in own \ {r} : Later(r, q)

ActiveAlerts(p) == {a \in alerts : a.active /\ RunOf(a.run).pipeline = p}
Warned(run) == \E x \in executions :
  x.run = run.id /\ x.outcome = [result |-> "FAILED", severity |-> "WARNING"]

\* The cases of the status, in the order they are tried.
StatusRules(p) ==
  LET latest == LatestRun(p)
      severities == {a.kind.severity : a \in ActiveAlerts(p)}
      source == sourceStatus[SourceOf[p]]
  IN << <<~enabled[p], "DISABLED">>,
        <<latest.status = "RUNNING", "RUNNING">>,
        <<"CRITICAL" \in severities, "FAILED">>,
        <<"WARNING" \in severities, "WARNING">>,
        <<latest.status = "FAILED", "FAILED">>,
        <<source = "DISCONNECTED", "FAILED">>,
        <<source \in {"WARNING", "DISABLED"}, "WARNING">>,
        <<latest.status = "SUCCESS" /\ Warned(latest), "WARNING">>,
        <<latest.status = "SUCCESS", "HEALTHY">>,
        <<TRUE, "WARNING">> >>

FirstRule(rules) ==
  rules[CHOOSE i \in DOMAIN rules : rules[i][1] /\ \A j \in 1..(i - 1) : ~rules[j][1]][2]

\* Mutant: a failed run is looked at before the alerts.
StatusRunFirst(p) ==
  LET rules == StatusRules(p)
  IN FirstRule(<<rules[1], rules[2], rules[5]>> \o rules)

OperationalStatus(p) == FirstRule(StatusRules(p))
=============================================================================
