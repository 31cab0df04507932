--------------------------- MODULE ResourceQueries --------------------------
(***************************************************************************)
(* What the repositories of the read-only resources return: the rows of a  *)
(* list that pass its filter, in their order, and the parts of a detail.   *)
(* A row keeps what orders it and what the properties tell apart. A filter *)
(* is one pipeline or all, and the list's own condition or none; the other *)
(* filters are conditions of the same kind. Technical events are left out. *)
(***************************************************************************)
EXTENDS OperationalRecords, SequencesExt

CONSTANTS
  PageSize,    \* rows of a page
  RecentLimit, \* runs or executions a detail shows
  NoRow        \* what a query of one row returns when there is none

ASSUME PagesAssumption == PageSize \in Nat \ {0} /\ RecentLimit \in Nat \ {0}

Lists == {"runs", "alerts", "validation", "pipelines", "sources"}
AllRows == [pipeline |-> 0, narrow |-> FALSE]

Concerns(filter, p) == filter.pipeline \in {0, p}
PassesIf(filter, condition) == filter.narrow => condition

RunRows(filter) ==
  {r \in runs : Concerns(filter, r.pipeline) /\ PassesIf(filter, r.status = "RUNNING")}

\* The list is opened on the active alerts.
AlertRows(filter) ==
  {a \in alerts : Concerns(filter, RunOf(a.run).pipeline) /\ PassesIf(filter, a.active)}

\* Each check of a pipeline by its latest execution.
Eligible(filter) == {x \in executions : Concerns(filter, RunOf(x.run).pipeline)}
SameCheck(x, y) == RunOf(x.run).pipeline = RunOf(y.run).pipeline
NewerExecution(x, y) == x.at > y.at \/ (x.at = y.at /\ x.run > y.run)
Ranked(rows) == {x \in rows : \A y \in rows : SameCheck(x, y) => ~NewerExecution(y, x)}
Failed(x) == x.outcome.result = "FAILED"

ValidationRows(filter) == {x \in Ranked(Eligible(filter)) : PassesIf(filter, Failed(x))}

PipelineRows(filter) ==
  {[pipeline |-> p, status |-> OperationalStatus(p), latest |-> LatestRun(p).id] :
     p \in {p \in Registered : Concerns(filter, p) /\
                               PassesIf(filter, OperationalStatus(p) = "FAILED")}}

SourceRows(filter) ==
  {[source |-> s, status |-> sourceStatus[s],
    connected |-> Cardinality({p \in Registered : SourceOf[p] = s})] :
     s \in {s \in Sources : PassesIf(filter, sourceStatus[s] = "HEALTHY")}}

RowsOf(list, filter) ==
  CASE list = "runs" -> RunRows(filter)
    [] list = "alerts" -> AlertRows(filter)
    [] list = "validation" -> ValidationRows(filter)
    [] list = "pipelines" -> PipelineRows(filter)
    [] list = "sources" -> SourceRows(filter)

LaterAlert(a, b) == a.seen > b.seen \/ (a.seen = b.seen /\ a.key > b.key)
LaterEvaluated(x, y) ==
  x.at > y.at \/ (x.at = y.at /\ RunOf(x.run).pipeline < RunOf(y.run).pipeline)

Listed(list, filter) ==
  CASE list = "runs" -> InOrder(RunRows(filter), Later)
    [] list = "alerts" -> InOrder(AlertRows(filter), LaterAlert)
    [] list = "validation" -> InOrder(ValidationRows(filter), LaterEvaluated)
    [] list = "pipelines" -> InOrder(PipelineRows(filter), LAMBDA a, b : a.pipeline < b.pipeline)
    [] list = "sources" -> InOrder(SourceRows(filter), LAMBDA a, b : a.source < b.source)

Cut(rows, from, limit) ==
  SubSeq(rows, from + 1, IF Len(rows) < from + limit THEN Len(rows) ELSE from + limit)

\* The query of a page; a count with the same conditions is run before it.
PageOf(list, filter, offset) == Cut(Listed(list, filter), offset, PageSize)

-----------------------------------------------------------------------------
(* The parts of a detail, each read by a query of its own.                 *)

ActiveOf(rows) == {a \in rows : a.active}
RunAlerts(id) == {a \in alerts : a.run = id}
RunExecutions(id) == {x \in executions : x.run = id}
Summary(rows) == [total |-> Cardinality(rows), failed |-> Cardinality({x \in rows : Failed(x)})]

GetPipelineRun(id) ==
  IF \E r \in runs : r.id = id
  THEN [id |-> id, status |-> RunOf(id).status,
        activeAlerts |-> Cardinality(ActiveOf(RunAlerts(id)))]
  ELSE NoRow

GetPipeline(p) ==
  IF p \in Registered
  THEN [pipeline |-> p, status |-> OperationalStatus(p), latest |-> LatestRun(p).id]
  ELSE NoRow

\* Mutant: the first runs of the pipeline.
EarliestRuns(p) ==
  Cut(InOrder({r \in runs : r.pipeline = p}, LAMBDA r, q : Later(q, r)), 0, RecentLimit)

RecentRuns(p) == Cut(InOrder({r \in runs : r.pipeline = p}, Later), 0, RecentLimit)
PipelineExecutions(p) == {x \in executions : RunOf(x.run).pipeline = p}

GetExecution(id) ==
  IF \E x \in executions : x.run = id THEN CHOOSE x \in executions : x.run = id ELSE NoRow
ExecutionAlerts(id) == {a \in alerts : a.execution = id}
History(id) == Cut(InOrder(PipelineExecutions(RunOf(id).pipeline), NewerExecution),
                   0, RecentLimit)

ReadersOf(s) == {p \in Registered : SourceOf[p] = s}
GetSource(s) ==
  [source |-> s, status |-> sourceStatus[s],
   connected |-> Cardinality(ReadersOf(s))]
ConnectedPipelines(s) ==
  {[pipeline |-> p, status |-> OperationalStatus(p), latest |-> LatestRun(p).id] : p \in ReadersOf(s)}
SourceActiveAlerts(s) == Cardinality(UNION {ActiveAlerts(p) : p \in ReadersOf(s)})
=============================================================================
