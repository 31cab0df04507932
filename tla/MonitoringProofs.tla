-------------------------- MODULE MonitoringProofs --------------------------
(***************************************************************************)
(* What the monitoring, dashboard and health-metrics answers promise,      *)
(* proved for any pipelines, sources, alerts and limits. An answer that    *)
(* nothing disturbed is computed from the records as they are: the parts   *)
(* read so far are what their queries would return now.                    *)
(***************************************************************************)
EXTENDS Monitoring, OperationalRecordsProofs, FunctionTheorems

\* The queries of a kind of answer, and those that are still to be run.
PartsOf(kind) ==
  IF kind \in DOMAIN ReadsOf THEN {ReadsOf[kind][i] : i \in 1..Len(ReadsOf[kind])} ELSE {}
Pending == {request.todo[i] : i \in 1..Len(request.todo)}

RequestType ==
  /\ request \in [kind : {"none"} \cup DOMAIN ReadsOf, scope : {request.scope}, end : Nat,
                  todo : Seq(Names), rows : [Names -> {request.rows[n] : n \in Names}],
                  writes : Nat, since : SUBSET Pipelines]
  /\ request.kind = "none" => request.todo = <<>>

\* What was read is as if it were read now, unless something was written.
ReadsStand ==
  request.kind # "none" /\ request.writes = 0 =>
    \A name \in PartsOf(request.kind) \ Pending : request.rows[name] = Query(name)

\* What an answer does not read is left empty.
OthersEmpty ==
  /\ Pending \subseteq PartsOf(request.kind)
  /\ \A name \in Names : name \notin PartsOf(request.kind) => request.rows[name] = {}

RequestInv == RecordsInv /\ RequestType /\ ReadsStand /\ OthersEmpty

-----------------------------------------------------------------------------
LEMMA ReadsAreNames ==
  ASSUME NEW kind \in DOMAIN ReadsOf
  PROVE  /\ kind \in {"monitoring", "dashboard", "health"}
         /\ ReadsOf[kind] \in Seq(Names) /\ PartsOf(kind) \subseteq Names
<1>1. DOMAIN ReadsOf = {"monitoring", "dashboard", "health"}
  BY DEF ReadsOf
<1>2. /\ ReadsOf["dashboard"] = DashboardReads /\ ReadsOf["health"] = HealthReads
      /\ ReadsOf["monitoring"] = MonitoringReads
  BY DEF ReadsOf
<1>3. {"pipelines", "sources", "alerts", "validations", "runs", "history", "alerts2"} \subseteq Names
  BY DEF Names, DashboardReads
<1>4. MonitoringReads \in Seq(Names) /\ HealthReads \in Seq(Names)
  BY <1>3 DEF HealthReads, MonitoringReads
<1>5. DashboardReads \in Seq(Names)
  BY <1>3 DEF DashboardReads
<1>6. ReadsOf[kind] \in Seq(Names)
  BY <1>1, <1>2, <1>4, <1>5
<1> QED
  BY <1>1, <1>6 DEF PartsOf

\* A query returns the same while the records stay.
LEMMA QueriesStand ==
  ASSUME UNCHANGED records, request'.scope = request.scope, request'.end = request.end, NEW name
  PROVE  Query(name)' = Query(name)
BY DEF Query, records, GetPipelines, GetSources, GetActiveAlerts, GetLatestFailedValidations, GetRuns,
       GetValidationHistory, OperationalStatus, StatusRules, FirstRule, LatestRun, ActiveAlerts,
       Warned, RunOf, Registered

THEOREM InitRequest == Init => RequestInv
<1> SUFFICES ASSUME Init PROVE RequestInv
  OBVIOUS
<1>1. RecordsInv
  BY RecordsStart DEF Init
<1>2. request = Idle
  BY DEF Init
<1>3. RequestType /\ ReadsStand /\ OthersEmpty
  BY <1>2 DEF Idle, RequestType, ReadsStand, OthersEmpty, Pending
<1> QED
  BY <1>1, <1>3 DEF RequestInv

\* A request that ends leaves nothing.
LEMMA IdleHolds ==
  ASSUME RequestInv, request' = Idle, RecordsInv'
  PROVE  RequestInv'
BY DEF Idle, RequestInv, RequestType, ReadsStand, OthersEmpty, Pending

\* A read runs the first of the queries to come and keeps what it returns.
LEMMA ReadTakesAPart ==
  ASSUME RequestInv, Read, NEW name, name = Head(request.todo)
  PROVE  /\ name \in Names /\ request.kind # "none" /\ UNCHANGED records
         /\ request'.kind = request.kind /\ request'.scope = request.scope
         /\ request'.end = request.end /\ request'.writes = request.writes
         /\ request'.since = IF name = "pipelines" THEN {} ELSE request.since
         /\ \A n \in Names : request'.rows[n] = IF n = name THEN Query(name) ELSE request.rows[n]
         /\ RequestType'
         /\ Pending \subseteq Pending' \cup {name} /\ name \in Pending /\ Pending' \subseteq Pending
<1> DEFINE answer == Query(name)
<1>1. /\ request.todo # <<>> /\ UNCHANGED records
      /\ request' = [request EXCEPT !.rows[name] = answer, !.todo = Tail(@),
                                    !.since = IF name = "pipelines" THEN {} ELSE @]
  BY DEF Read
<1>2. name \in Names /\ Tail(request.todo) \in Seq(Names) /\ request.kind # "none"
  BY <1>1 DEF RequestInv, RequestType
<1> HIDE DEF answer
<1>3. /\ request'.kind = request.kind /\ request'.scope = request.scope
      /\ request'.end = request.end /\ request'.writes = request.writes
      /\ request'.todo = Tail(request.todo)
      /\ request'.rows = [request.rows EXCEPT ![name] = answer]
      /\ request'.since = IF name = "pipelines" THEN {} ELSE request.since
  BY <1>1 DEF RequestInv, RequestType
<1>4. RequestType'
  BY <1>1, <1>2, <1>3 DEF RequestInv, RequestType
<1>5. Pending \subseteq Pending' \cup {name} /\ name \in Pending /\ Pending' \subseteq Pending
  <2> DEFINE todo == request.todo
  <2>1. todo \in Seq(Names) /\ todo # <<>>
    BY <1>1 DEF RequestInv, RequestType
  <2>2. /\ Len(todo) \in Nat \ {0} /\ Len(Tail(todo)) = Len(todo) - 1 /\ name = todo[1]
        /\ \A i \in 1..Len(Tail(todo)) : Tail(todo)[i] = todo[i + 1]
    BY <2>1
  <2>3. ASSUME NEW i \in 1..Len(todo), i # 1 PROVE todo[i] \in Pending'
    <3>1. i - 1 \in 1..Len(Tail(todo)) /\ (i - 1) + 1 = i
      BY <2>2, <2>3
    <3>2. Tail(todo)[i - 1] = todo[i]
      BY <2>2, <3>1
    <3> QED
      BY <1>3, <3>1, <3>2 DEF Pending
  <2>4. 1 \in 1..Len(todo)
    BY <2>2
  <2>5. ASSUME NEW i \in 1..Len(Tail(todo)) PROVE Tail(todo)[i] \in Pending
    <3>1. i + 1 \in 1..Len(todo)
      BY <2>2
    <3> QED
      BY <2>2, <3>1 DEF Pending
  <2>6. Pending' \subseteq Pending
    BY <1>3, <2>5 DEF Pending
  <2> QED
    BY <2>2, <2>3, <2>4, <2>6 DEF Pending
<1>6. \A n \in Names : request'.rows[n] = IF n = name THEN Query(name) ELSE request.rows[n]
  BY <1>2, <1>3 DEF RequestInv, RequestType, answer
<1> QED
  BY <1>1, <1>2, <1>3, <1>4, <1>5, <1>6

THEOREM StepRequest == RequestInv /\ [Next]_vars => RequestInv'
<1> SUFFICES ASSUME RequestInv, [Next]_vars PROVE RequestInv'
  OBVIOUS
<1>0. RequestType /\ RecordsInv
  BY DEF RequestInv
<1>1. RecordsInv'
  <2>1. RecordsWritten \/ TimePasses \/ UNCHANGED records
    BY DEF Next, Ask, Read, Respond, Fail, Write, Tick, vars
  <2> QED
    BY <1>0, <2>1, WritesKeepRecords, TimeKeepsRecords, ReadersKeepRecords DEF RecordsWritten
<1>2. ASSUME NEW kind \in DOMAIN ReadsOf, NEW scope \in Scopes, Ask(kind, scope)
      PROVE  RequestInv'
  <2>1. request' = [Idle EXCEPT !.kind = kind, !.scope = scope, !.end = clock,
                                !.todo = ReadsOf[kind]]
    BY <1>2 DEF Ask
  <2>2. ReadsOf[kind] \in Seq(Names) /\ kind # "none"
    BY ReadsAreNames
  <2>3. /\ request'.kind = kind /\ request'.todo = ReadsOf[kind] /\ request'.writes = 0
        /\ request'.rows = [n \in Names |-> {}]
    BY <2>1 DEF Idle
  <2>4. RequestType'
    BY <1>0, <2>1, <2>2 DEF Idle, RequestType, RecordsInv, StateTyped
  <2>5. Pending' = PartsOf(kind)
    BY <2>3 DEF Pending, PartsOf
  <2>6. ReadsStand' /\ OthersEmpty'
    BY <2>3, <2>5 DEF ReadsStand, OthersEmpty
  <2> QED
    BY <1>1, <2>4, <2>6 DEF RequestInv
<1>3. CASE Read
  <2> DEFINE name == Head(request.todo)
  <2>1. /\ name \in Names /\ request.kind # "none" /\ UNCHANGED records
        /\ request'.kind = request.kind /\ request'.scope = request.scope
        /\ request'.end = request.end /\ request'.writes = request.writes
        /\ \A n \in Names : request'.rows[n] = IF n = name THEN Query(name) ELSE request.rows[n]
        /\ RequestType'
        /\ Pending \subseteq Pending' \cup {name} /\ name \in Pending /\ Pending' \subseteq Pending
    BY <1>3, ReadTakesAPart
  <2> HIDE DEF name
  <2>2. \A n : Query(n)' = Query(n)
    BY <2>1, QueriesStand
  <2>3. name \in PartsOf(request.kind)
    BY <2>1 DEF RequestInv, OthersEmpty
  <2>4. ReadsStand'
    <3> SUFFICES ASSUME request.writes = 0, NEW n \in PartsOf(request.kind) \ Pending'
                 PROVE  request'.rows[n] = Query(n)
      BY <2>1, <2>2 DEF ReadsStand
    <3>1. n \in Names
      BY <1>0, <2>1, ReadsAreNames DEF RequestType
    <3>2. n # name => request.rows[n] = Query(n)
      BY <2>1 DEF RequestInv, ReadsStand
    <3> QED
      BY <2>1, <3>1, <3>2
  <2>5. OthersEmpty'
    BY <2>1, <2>3 DEF RequestInv, OthersEmpty
  <2> QED
    BY <1>1, <2>1, <2>4, <2>5 DEF RequestInv
<1>4. CASE Respond \/ Fail
  BY <1>1, <1>4, IdleHolds DEF Respond, Fail
<1>5. CASE Write
  <2>1. request.kind = "none" => request' = request
    BY <1>5 DEF Write
  <2>2. PICK new \in SUBSET Pipelines : new = Registered' \ Registered
    BY <1>1 DEF RecordsInv, StateTyped
  <2>3. request.kind # "none" =>
          request' = [request EXCEPT !.writes = @ + 1, !.since = @ \cup new]
    BY <1>5, <2>2 DEF Write
  <2>4. /\ RequestType'
        /\ request'.kind = request.kind /\ request'.rows = request.rows
        /\ request'.todo = request.todo
        /\ request.kind # "none" => request'.writes # 0
    <3>1. CASE request.kind = "none"
      <4>1. request' = request
        BY <2>1, <3>1
      <4> QED
        BY <1>0, <3>1, <4>1 DEF RequestType
    <3>2. CASE request.kind # "none"
      <4>1. PICK more \in SUBSET Pipelines : more = request.since \cup new
        BY <1>0 DEF RequestType
      <4>2. PICK count \in Nat \ {0} : count = request.writes + 1
        BY <1>0 DEF RequestType
      <4>3. request' = [request EXCEPT !.writes = count, !.since = more]
        BY <2>3, <3>2, <4>1, <4>2
      <4>4. /\ request'.kind = request.kind /\ request'.rows = request.rows
            /\ request'.todo = request.todo /\ request'.scope = request.scope
            /\ request'.writes = count
        BY <1>0, <4>3 DEF RequestType
      <4>5. RequestType'
        BY <1>0, <3>2, <4>3, <4>4 DEF RequestType
      <4> QED
        BY <4>4, <4>5
    <3> QED
      BY <3>1, <3>2
  <2>5. ReadsStand' /\ OthersEmpty'
    BY <2>4 DEF RequestInv, ReadsStand, OthersEmpty, Pending
  <2> QED
    BY <1>1, <2>4, <2>5 DEF RequestInv
<1>6. CASE Tick
  BY <1>1, <1>6 DEF Tick, RequestInv, RequestType, ReadsStand, OthersEmpty, Pending
<1>7. CASE UNCHANGED vars
  <2>1. UNCHANGED <<records, request>>
    BY <1>7 DEF vars
  <2>2. \A name : Query(name)' = Query(name)
    BY <2>1, QueriesStand
  <2> QED
    BY <1>1, <2>1, <2>2 DEF RequestInv, RequestType, ReadsStand, OthersEmpty, Pending
<1> QED
  BY <1>2, <1>3, <1>4, <1>5, <1>6, <1>7 DEF Next

-----------------------------------------------------------------------------
(* An answer from the records as they are.                                 *)

Current(rows, scope) ==
  /\ rows.pipelines = GetPipelines(scope) /\ rows.sources = GetSources(scope)
  /\ rows.alerts = GetActiveAlerts(scope)
  /\ rows.validations = GetLatestFailedValidations(scope)

LEMMA UndisturbedIsCurrent ==
  ASSUME RequestInv, Undisturbed
  PROVE  /\ Current(request.rows, request.scope)
         /\ request.rows.alerts2 = {} \/ request.rows.alerts2 = request.rows.alerts
<1>1. /\ request.todo = <<>> /\ request.kind \in {"monitoring", "dashboard"}
      /\ request.writes = 0
  BY DEF Undisturbed, Monitored, Answered
<1>2. Pending = {}
  BY <1>1 DEF Pending
<1>3. \A name \in PartsOf(request.kind) : request.rows[name] = Query(name)
  BY <1>1, <1>2 DEF RequestInv, ReadsStand
<1>4. /\ PartsOf("monitoring") = {MonitoringReads[i] : i \in 1..5}
      /\ PartsOf("dashboard") = {DashboardReads[i] : i \in 1..7}
  BY DEF PartsOf, ReadsOf, MonitoringReads, DashboardReads
<1>5. {"pipelines", "sources", "alerts", "validations"} \subseteq PartsOf(request.kind)
  <2>1. /\ MonitoringReads[1] = "pipelines" /\ MonitoringReads[2] = "sources"
        /\ MonitoringReads[3] = "alerts" /\ MonitoringReads[4] = "validations"
        /\ DashboardReads[1] = "pipelines" /\ DashboardReads[2] = "sources"
        /\ DashboardReads[3] = "alerts" /\ DashboardReads[4] = "validations"
    BY DEF MonitoringReads, DashboardReads
  <2> QED
    BY <1>1, <1>4, <2>1
<1>6. Current(request.rows, request.scope)
  BY <1>3, <1>5 DEF Query, Current
<1>7. request.rows.alerts2 = {} \/ request.rows.alerts2 = request.rows.alerts
  <2>1. "alerts2" \in Names
    BY DEF Names, DashboardReads
  <2>2. CASE "alerts2" \in PartsOf(request.kind)
    BY <1>3, <1>5, <2>2 DEF Query
  <2>3. CASE "alerts2" \notin PartsOf(request.kind)
    BY <2>1, <2>3 DEF RequestInv, OthersEmpty
  <2> QED
    BY <2>2, <2>3
<1> QED
  BY <1>6, <1>7

\* The rows of the active alerts are the alerts of the pipelines in scope.
LEMMA AlertRows ==
  ASSUME RecordsInv, NEW scope, NEW row \in GetActiveAlerts(scope)
  PROVE  \E a \in alerts :
           /\ row.key = a.key /\ row.run = a.run /\ row.execution = a.execution /\ a.active
           /\ row.severity = a.kind.severity /\ row.seen = a.seen
           /\ row.pipeline = RunOf(a.run).pipeline /\ row.pipeline \in Pipelines
           /\ InScope(row.pipeline, scope)
<1> DEFINE Shape(a) ==
             [key |-> a.key, severity |-> a.kind.severity, run |-> a.run,
              execution |-> a.execution, vendor |-> a.kind.vendor, seen |-> a.seen,
              pipeline |-> RunOf(a.run).pipeline,
              source |-> SourceOf[RunOf(a.run).pipeline],
              sourceStatus |-> sourceStatus[SourceOf[RunOf(a.run).pipeline]]]
<1>1. PICK p \in Pipelines : InScope(p, scope) /\ \E a \in ActiveAlerts(p) : row = Shape(a)
  BY DEF GetActiveAlerts
<1>2. PICK a \in ActiveAlerts(p) : row = Shape(a)
  BY <1>1
<1> QED
  BY <1>1, <1>2 DEF ActiveAlerts

\* An active alert of a pipeline in scope is an issue of the pipeline.
LEMMA AlertIsIssue ==
  ASSUME NEW rows, NEW scope, rows.alerts = GetActiveAlerts(scope),
         NEW p \in Pipelines, InScope(p, scope), NEW a \in ActiveAlerts(p)
  PROVE  \E i \in Issues(rows) : i.pipeline = p /\ i.severity = a.kind.severity
<1> DEFINE row == [key |-> a.key, severity |-> a.kind.severity, run |-> a.run,
                   execution |-> a.execution, vendor |-> a.kind.vendor, seen |-> a.seen,
                   pipeline |-> RunOf(a.run).pipeline,
                   source |-> SourceOf[RunOf(a.run).pipeline],
                   sourceStatus |-> sourceStatus[SourceOf[RunOf(a.run).pipeline]]]
<1>1. row \in rows.alerts
  BY DEF GetActiveAlerts
<1>2. row.pipeline = p /\ row.severity = a.kind.severity
  BY DEF ActiveAlerts
<1> HIDE DEF row
<1>3. Issue("ALERT", row.key, row.severity, row.pipeline, row.seen) \in Issues(rows)
  BY <1>1 DEF Issues, AlertIssues
<1> QED
  BY <1>2, <1>3 DEF Issue

\* A run of a pipeline that an alert row covers has an issue of the pipeline.
LEMMA CoveredRunIsNamed ==
  ASSUME RecordsInv, NEW rows, NEW scope, rows.alerts = GetActiveAlerts(scope),
         NEW r \in runs, r.id \in CoveredRuns(rows)
  PROVE  /\ \E a \in ActiveAlerts(r.pipeline) : TRUE
         /\ \E i \in Issues(rows) : i.pipeline = r.pipeline
<1>1. PICK row \in rows.alerts : row.run = r.id
  BY DEF CoveredRuns
<1>2. PICK a \in alerts :
        /\ row.run = a.run /\ a.active /\ row.pipeline = RunOf(a.run).pipeline
        /\ row.severity = a.kind.severity /\ row.pipeline \in Pipelines
        /\ InScope(row.pipeline, scope)
  BY AlertRows
<1>3. RunOf(a.run) = r
  BY <1>1, <1>2, RunIsFound DEF RecordsInv
<1>4. a \in ActiveAlerts(r.pipeline)
  BY <1>2, <1>3 DEF ActiveAlerts
<1> QED
  BY <1>2, <1>3, <1>4, AlertIsIssue

LEMMA LatestHasPipeline ==
  ASSUME RecordsInv, NEW p
  PROVE  \/ /\ LatestRun(p) \in runs /\ LatestRun(p).pipeline = p /\ LatestRun(p).id \in Nat
            /\ RunOf(LatestRun(p).id) = LatestRun(p)
         \/ /\ LatestRun(p).id = NoRun /\ LatestRun(p).status = NoRun
            /\ \A r \in runs : r.pipeline # p
<1> DEFINE own == {r \in runs : r.pipeline = p}
<1>1. CASE own = {}
  BY <1>1 DEF LatestRun
<1>2. CASE own # {}
  <2>1. LatestRun(p) \in own
    BY <1>2, LatestIsLatest DEF RecordsInv
  <2> QED
    BY <2>1, RunIsFound DEF RecordsInv, RunsKept, RunRow
<1> QED
  BY <1>1, <1>2

\* What speaks for a pipeline in trouble is its own issue, an alert of its
\* latest run, or the issue of its source.
LEMMA TroubleSpeaks ==
  ASSUME RecordsInv, NEW rows, NEW scope, Current(rows, scope),
         NEW p \in Registered, InScope(p, scope), NEW status, status = OperationalStatus(p),
         status \in {"FAILED", "WARNING"}
  PROVE  \/ \E i \in Issues(rows) : i.pipeline = p /\ i.severity = Critical(status = "FAILED")
         \/ (\E a \in ActiveAlerts(p) : TRUE) /\ (\E i \in Issues(rows) : i.pipeline = p)
         \/ \E i \in Issues(rows) :
              /\ i.origin = "SOURCE" /\ i.thing = SourceOf[p]
              /\ i.severity = Critical(sourceStatus[SourceOf[p]] = "DISCONNECTED")
              /\ sourceStatus[SourceOf[p]] \in {"DISCONNECTED", "WARNING"}
<1> DEFINE row == [pipeline |-> p, source |-> SourceOf[p], enabled |-> enabled[p],
                   status |-> OperationalStatus(p), latest |-> LatestRun(p).id,
                   seen |-> LatestRun(p).started]
<1>1. row \in rows.pipelines
  BY DEF Current, GetPipelines
<1>2. /\ row.pipeline = p /\ row.source = SourceOf[p] /\ row.latest = LatestRun(p).id
      /\ row.status = status
  OBVIOUS
<1> HIDE DEF row
<1>3. CASE ~StandsFor(rows, row)
  <2>1. Issue("PIPELINE", row.pipeline, Critical(row.status = "FAILED"), row.pipeline, row.seen)
          \in Issues(rows)
    BY <1>1, <1>2, <1>3 DEF Issues, PipelineIssues
  <2> QED
    BY <1>2, <2>1 DEF Issue
<1>4. CASE row.latest \in CoveredRuns(rows)
  <2>1. PICK a \in rows.alerts : row.latest = a.run
    BY <1>4 DEF CoveredRuns
  <2>2. row.latest \in Nat
    BY <2>1, AlertRows DEF Current, RecordsInv, AlertsKept, AlertRow
  <2>3. LatestRun(p) \in runs /\ LatestRun(p).pipeline = p /\ LatestRun(p).id \in CoveredRuns(rows)
    BY <1>2, <1>4, <2>2, LatestHasPipeline, NullAssumption
  <2> QED
    BY <2>3, CoveredRunIsNamed DEF Current
<1>5. ASSUME NEW s \in IssueSources(rows), s.source = row.source
      PROVE  \E i \in Issues(rows) :
               /\ i.origin = "SOURCE" /\ i.thing = SourceOf[p]
               /\ i.severity = Critical(sourceStatus[SourceOf[p]] = "DISCONNECTED")
               /\ sourceStatus[SourceOf[p]] \in {"DISCONNECTED", "WARNING"}
  <2>1. s.status = sourceStatus[s.source] /\ s.status \in {"DISCONNECTED", "WARNING"}
    BY <1>5 DEF IssueSources, Current, GetSources
  <2>2. Issue("SOURCE", s.source, Critical(s.status = "DISCONNECTED"), 0, 0) \in Issues(rows)
    BY <1>5 DEF Issues, SourceIssues
  <2> QED
    BY <1>2, <1>5, <2>1, <2>2 DEF Issue
<1> QED
  BY <1>3, <1>4, <1>5 DEF StandsFor

\* A failed check of a latest run is read, and carried by its own issue or by
\* that of the alert that represents it, of whichever pipeline the alert is.
LEMMA FailedCheckIsCarried ==
  ASSUME RecordsInv, NEW rows, NEW scope, Current(rows, scope),
         NEW p \in Pipelines, InScope(p, scope),
         NEW x \in executions, x.run = LatestRun(p).id, x.outcome.result = "FAILED"
  PROVE  \E i \in Issues(rows), v \in rows.validations : v.run = x.run /\ Carries(rows, i, v)
<1> DEFINE Represented(y) == {a.key : a \in {a \in alerts : a.execution = y.run /\ a.active}}
           row == [run |-> x.run, pipeline |-> RunOf(x.run).pipeline, severity |-> x.outcome.severity,
                   seen |-> x.at, alerts |-> Represented(x)]
<1>1. row \in rows.validations /\ row.run = x.run
  BY DEF Current, GetLatestFailedValidations
<1> HIDE DEF row
<1>2. CASE row.run \notin CoveredValidations(rows)
  <2> DEFINE issue == Issue("VALIDATION", row.run, Critical(row.severity = "BLOCKING"),
                            row.pipeline, row.seen)
  <2>1. issue \in Issues(rows)
    BY <1>1, <1>2 DEF Issues, ValidationIssues
  <2>2. issue.origin = "VALIDATION" /\ issue.thing = row.run
    BY DEF Issue
  <2> QED
    BY <1>1, <2>1, <2>2 DEF Carries
<1>3. CASE row.run \in CoveredValidations(rows)
  <2>1. PICK a \in rows.alerts : a.execution = row.run
    BY <1>3 DEF CoveredValidations
  <2> DEFINE issue == Issue("ALERT", a.key, a.severity, a.pipeline, a.seen)
  <2>2. issue \in Issues(rows)
    BY <2>1 DEF Issues, AlertIssues
  <2>3. issue.origin = "ALERT" /\ issue.thing = a.key
    BY DEF Issue
  <2> HIDE DEF issue
  <2>4. Carries(rows, issue, row)
    BY <2>1, <2>3 DEF Carries
  <2> QED
    BY <1>1, <2>2, <2>4
<1> QED
  BY <1>2, <1>3

-----------------------------------------------------------------------------
\* No problem is left out because another one stands for it: whatever the
\* records are, a pipeline in trouble is named by an issue of its own or of its
\* source, and a failed check of a latest run is carried by an issue
\* (AggregationService._issues).
THEOREM ProblemsReportedSafe == Spec => []ProblemsReported
<1>1. RequestInv => ProblemsReported
  <2> SUFFICES ASSUME RequestInv, Undisturbed, NEW p \in ScopedPipelines
               PROVE  LET named == \E i \in Issues(request.rows) :
                            i.pipeline = p \/ (i.origin = "SOURCE" /\ i.thing = SourceOf[p])
                      IN /\ enabled[p] /\ LatestRun(p).status = "FAILED" => named
                         /\ enabled[p] /\ sourceStatus[SourceOf[p]] = "DISCONNECTED"
                              /\ LatestRun(p).status # "RUNNING" => named
                         /\ \A x \in executions :
                              x.run = LatestRun(p).id /\ x.outcome.result = "FAILED" =>
                                \E i \in Issues(request.rows), v \in request.rows.validations :
                                  v.run = x.run /\ Carries(request.rows, i, v)
    BY DEF ProblemsReported
  <2>1. Current(request.rows, request.scope) /\ RecordsInv
    BY UndisturbedIsCurrent DEF RequestInv
  <2>2. p \in Registered /\ p \in Pipelines /\ InScope(p, request.scope)
    BY <2>1 DEF ScopedPipelines, RecordsInv, StateTyped
  <2>3. ASSUME enabled[p], LatestRun(p).status # "RUNNING",
               LatestRun(p).status = "FAILED" \/ sourceStatus[SourceOf[p]] = "DISCONNECTED"
        PROVE  OperationalStatus(p) \in {"FAILED", "WARNING"}
    BY <2>3, StatusIs
  <2>4. OperationalStatus(p) \in {"FAILED", "WARNING"} =>
          \E i \in Issues(request.rows) :
            i.pipeline = p \/ (i.origin = "SOURCE" /\ i.thing = SourceOf[p])
    BY <2>1, <2>2, TroubleSpeaks
  <2>5. \A x \in executions : x.run = LatestRun(p).id /\ x.outcome.result = "FAILED" =>
          \E i \in Issues(request.rows), v \in request.rows.validations :
            v.run = x.run /\ Carries(request.rows, i, v)
    BY <2>1, <2>2, FailedCheckIsCarried
  <2> QED
    BY <2>3, <2>4, <2>5
<1> QED
  BY InitRequest, StepRequest, <1>1, PTL DEF Spec

\* A failed pipeline makes the overall state critical: the cases of its status
\* and what the issues stand for agree, whatever alerts there are.
THEOREM FailedIsCriticalSafe == Spec => []FailedIsCritical
<1>1. RequestInv => FailedIsCritical
  <2> SUFFICES ASSUME RequestInv, Undisturbed, NEW p \in ScopedPipelines,
                      OperationalStatus(p) = "FAILED", sourceStatus[SourceOf[p]] # "WARNING"
               PROVE  OverallState(request.rows) = "CRITICAL"
    BY DEF FailedIsCritical
  <2> DEFINE rows == request.rows
             severities == {a.kind.severity : a \in ActiveAlerts(p)}
  <2>1. Current(rows, request.scope) /\ RecordsInv
    BY UndisturbedIsCurrent DEF RequestInv
  <2>2. p \in Registered /\ p \in Pipelines /\ InScope(p, request.scope)
    BY <2>1 DEF ScopedPipelines, RecordsInv, StateTyped
  <2>3. /\ enabled[p]
        /\ "CRITICAL" \in severities \/ ("CRITICAL" \notin severities /\ "WARNING" \notin severities)
    BY StatusIs
  <2>4. \E i \in Issues(rows) : i.severity = "CRITICAL"
    <3>1. CASE "CRITICAL" \in severities
      BY <2>1, <2>2, <3>1, AlertIsIssue DEF Current
    <3>2. CASE "CRITICAL" \notin severities /\ "WARNING" \notin severities
      <4>1. \A a \in ActiveAlerts(p) : a.kind.severity \in {"CRITICAL", "WARNING"}
        BY <2>1, KindsAssumption
        DEF ActiveAlerts, RecordsInv, AlertsKept, AlertRow, AlertKind
      <4>2. ActiveAlerts(p) = {}
        BY <3>2, <4>1
      <4>3. Critical(TRUE) = "CRITICAL"
        BY DEF Critical
      <4>4. PICK status : status = OperationalStatus(p)
        OBVIOUS
      <4> QED
        BY <2>1, <2>2, <4>2, <4>3, <4>4, TroubleSpeaks DEF Critical
    <3> QED
      BY <2>3, <3>1, <3>2
  <2>5. \E row \in rows.pipelines : row.enabled
    <3> DEFINE row == [pipeline |-> p, source |-> SourceOf[p], enabled |-> enabled[p],
                       status |-> OperationalStatus(p), latest |-> LatestRun(p).id,
                       seen |-> LatestRun(p).started]
    <3>1. row \in rows.pipelines
      BY <2>1, <2>2 DEF Current, GetPipelines
    <3>2. row.enabled
      BY <2>3
    <3> QED
      BY <3>1, <3>2
  <2> QED
    BY <2>4, <2>5 DEF OverallState
<1> QED
  BY InitRequest, StepRequest, <1>1, PTL DEF Spec

\* An overall state that is healthy hides no trouble of any kind.
THEOREM HealthyHidesNothingSafe == Spec => []HealthyHidesNothing
<1>1. RequestInv => HealthyHidesNothing
  <2> SUFFICES ASSUME RequestInv, Undisturbed, OverallState(request.rows) = "HEALTHY"
               PROVE  HealthyHidesNothing
    BY DEF HealthyHidesNothing
  <2> DEFINE rows == request.rows
             scope == request.scope
  <2>1. Current(rows, scope) /\ RecordsInv /\ (rows.alerts2 = {} \/ rows.alerts2 = rows.alerts)
    BY UndisturbedIsCurrent DEF RequestInv
  <2>2. Issues(rows) = {}
    BY DEF OverallState
  <2>3. rows.alerts = {}
    BY <2>2 DEF Issues, AlertIssues
  <2>4. IssueSources(rows) = {}
    BY <2>2 DEF Issues, SourceIssues
  <2>5. ASSUME NEW p \in ScopedPipelines
        PROVE  /\ ActiveAlerts(p) = {}
               /\ OperationalStatus(p) \in {"HEALTHY", "RUNNING", "DISABLED"}
               /\ enabled[p] => sourceStatus[SourceOf[p]] \notin {"DISCONNECTED", "WARNING"}
               /\ \A x \in executions : x.run = LatestRun(p).id => x.outcome.result # "FAILED"
    <3>1. p \in Registered /\ p \in Pipelines /\ InScope(p, scope)
      BY <2>1 DEF ScopedPipelines, RecordsInv, StateTyped
    <3>2. ActiveAlerts(p) = {}
      BY <2>1, <2>2, <3>1, AlertIsIssue DEF Current
    <3>3. OperationalStatus(p) \in {"HEALTHY", "RUNNING", "DISABLED"}
      <4>1. OperationalStatus(p) \notin {"FAILED", "WARNING"}
        BY <2>1, <2>2, <3>1, TroubleSpeaks
      <4> QED
        BY <4>1, StatusIs
    <3>4. sourceStatus[SourceOf[p]] \notin {"DISCONNECTED", "WARNING"}
      <4>1. SourceOf[p] \in Sources
        BY <3>1, ReferencesAssumption
      <4>2. [source |-> SourceOf[p], status |-> sourceStatus[SourceOf[p]]] \in rows.sources
        BY <2>1, <3>1, <4>1 DEF Current, GetSources, InScope
      <4>3. SourceOf[p] \notin CoveredSources(rows)
        BY <2>3 DEF CoveredSources
      <4> QED
        BY <2>4, <4>2, <4>3 DEF IssueSources
    <3>5. \A x \in executions : x.run = LatestRun(p).id => x.outcome.result # "FAILED"
      BY <2>1, <2>2, <3>1, FailedCheckIsCarried
    <3> QED
      BY <3>2, <3>3, <3>4, <3>5
  <2> QED
    BY <2>1, <2>3, <2>5 DEF HealthyHidesNothing
<1> QED
  BY InitRequest, StepRequest, <1>1, PTL DEF Spec

-----------------------------------------------------------------------------
(* The shape of what was read, whatever has been written since.            *)

PipelinesShaped(rows) ==
  /\ IsFiniteSet(rows)
  /\ \A p \in rows : /\ p.pipeline \in Int /\ p.seen \in Int
                     /\ p.status \in {"FAILED", "WARNING", "RUNNING", "HEALTHY", "DISABLED"}
  /\ \A p, q \in rows : p.pipeline = q.pipeline => p = q
SourcesShaped(rows) ==
  /\ IsFiniteSet(rows)
  /\ \A s \in rows : s.source \in Int
  /\ \A s, r \in rows : s.source = r.source => s = r
AlertsShaped(rows) ==
  /\ IsFiniteSet(rows)
  /\ \A a \in rows : a.key \in Int /\ a.seen \in Int /\ a.severity \in {"CRITICAL", "WARNING"}
  /\ \A a, b \in rows : a.key = b.key => a = b
ValidationsShaped(rows) ==
  /\ IsFiniteSet(rows)
  /\ \A v \in rows : v.run \in Int /\ v.seen \in Int
  /\ \A v, w \in rows : v.run = w.run => v = w
RunsShaped(rows, scope) ==
  IsFiniteSet(rows) /\ \A r \in rows : r.pipeline \in Pipelines /\ InScope(r.pipeline, scope)
\* Runs and validations lie in the two periods of a request.
RunsTimed(rows, end) ==
  \A r \in rows : r.started \in Int /\ end - 2 * Window <= r.started /\ r.started < end
HistoryShaped(rows, end) ==
  \A x \in rows : x.at \in Int /\ end - 2 * Window <= x.at /\ x.at < end

Shaped(rows, end, scope) ==
  /\ PipelinesShaped(rows.pipelines) /\ SourcesShaped(rows.sources)
  /\ AlertsShaped(rows.alerts) /\ ValidationsShaped(rows.validations)
  /\ RunsShaped(rows.runs, scope) /\ RunsTimed(rows.runs, end)
  /\ HistoryShaped(rows.history, end)

ShapedInv == RequestInv /\ Shaped(request.rows, request.end, request.scope)

LEMMA PipelinesAreShaped ==
  ASSUME RecordsInv, NEW scope
  PROVE  PipelinesShaped(GetPipelines(scope))
<1> DEFINE own == {p \in Registered : InScope(p, scope)}
           row == [p \in own |->
                     [pipeline |-> p, source |-> SourceOf[p], enabled |-> enabled[p],
                      status |-> OperationalStatus(p), latest |-> LatestRun(p).id,
                      seen |-> LatestRun(p).started]]
<1>1. GetPipelines(scope) = {row[p] : p \in own}
  BY DEF GetPipelines
<1>2. own \in SUBSET Pipelines /\ IsFiniteSet(own)
  <2>1. own \in SUBSET Pipelines
    BY DEF RecordsInv, StateTyped
  <2> QED
    BY <2>1, ReferencesAssumption, FS_Subset
<1>3. IsFiniteSet(GetPipelines(scope))
  <2> HIDE DEF row, own
  <2> QED
    BY <1>1, <1>2, ImageIsFinite
<1>4. ASSUME NEW p \in own
      PROVE  /\ row[p].pipeline = p /\ p \in Int /\ row[p].seen \in Int
             /\ row[p].status \in {"FAILED", "WARNING", "RUNNING", "HEALTHY", "DISABLED"}
  <2>1. row[p].pipeline = p /\ row[p].seen = LatestRun(p).started /\ row[p].status = OperationalStatus(p)
    OBVIOUS
  <2>2. LatestRun(p).started \in Int
    <3>1. CASE LatestRun(p) \in runs
      BY <3>1 DEF RecordsInv, RunsKept, RunRow
    <3>2. CASE {r \in runs : r.pipeline = p} = {}
      BY <3>2 DEF LatestRun
    <3> QED
      BY <3>1, <3>2, LatestHasPipeline
  <2>3. OperationalStatus(p) \in {"FAILED", "WARNING", "RUNNING", "HEALTHY", "DISABLED"}
    BY StatusIs
  <2> QED
    BY <1>2, <2>1, <2>2, <2>3, ReferencesAssumption
<1> HIDE DEF row
<1> QED
  BY <1>1, <1>3, <1>4 DEF PipelinesShaped

LEMMA SourcesAreShaped ==
  ASSUME RecordsInv, NEW scope
  PROVE  SourcesShaped(GetSources(scope))
<1> DEFINE own == {s \in Sources : /\ scope.source \in {0, s}
                                   /\ scope.pipeline # 0 => /\ scope.pipeline \in Registered
                                                           /\ SourceOf[scope.pipeline] = s}
           row == [s \in own |-> [source |-> s, status |-> sourceStatus[s]]]
<1>1. GetSources(scope) = {row[s] : s \in own}
  BY DEF GetSources
<1>2. IsFiniteSet(own)
  BY ReferencesAssumption, FS_Subset
<1>3. IsFiniteSet(GetSources(scope))
  <2> HIDE DEF row, own
  <2> QED
    BY <1>1, <1>2, ImageIsFinite
<1>4. \A s \in own : row[s].source = s /\ s \in Int
  BY ReferencesAssumption
<1> HIDE DEF row
<1> QED
  BY <1>1, <1>3, <1>4 DEF SourcesShaped

LEMMA AlertsAreShaped ==
  ASSUME RecordsInv, NEW scope
  PROVE  AlertsShaped(GetActiveAlerts(scope))
<1> DEFINE own == UNION {ActiveAlerts(p) : p \in {p \in Pipelines : InScope(p, scope)}}
           row == [a \in own |->
                     [key |-> a.key, severity |-> a.kind.severity, run |-> a.run,
                      execution |-> a.execution, vendor |-> a.kind.vendor, seen |-> a.seen,
                      pipeline |-> RunOf(a.run).pipeline,
                      source |-> SourceOf[RunOf(a.run).pipeline],
                      sourceStatus |-> sourceStatus[SourceOf[RunOf(a.run).pipeline]]]]
<1>1. GetActiveAlerts(scope) = {row[a] : a \in own}
  BY DEF GetActiveAlerts
<1>2. own \subseteq alerts
  BY DEF ActiveAlerts
<1>3. IsFiniteSet(own)
  BY <1>2, FS_Subset DEF RecordsInv, AlertsKept
<1>4. IsFiniteSet(GetActiveAlerts(scope))
  <2> HIDE DEF row, own
  <2> QED
    BY <1>1, <1>3, ImageIsFinite
<1>5. ASSUME NEW a \in own
      PROVE  /\ row[a].key = a.key /\ a.key \in Int /\ row[a].seen \in Int
             /\ row[a].severity \in {"CRITICAL", "WARNING"}
  <2>1. row[a].key = a.key /\ row[a].seen = a.seen /\ row[a].severity = a.kind.severity
    OBVIOUS
  <2>2. a \in AlertRow
    BY <1>2 DEF RecordsInv, AlertsKept
  <2> QED
    BY <2>1, <2>2, KindsAssumption DEF AlertRow, AlertKind
<1>6. \A a, b \in own : a.key = b.key => a = b
  BY <1>2 DEF RecordsInv, AlertsKept
<1> HIDE DEF row, own
<1> QED
  BY <1>1, <1>4, <1>5, <1>6 DEF AlertsShaped

LEMMA ValidationsAreShaped ==
  ASSUME RecordsInv, NEW scope
  PROVE  ValidationsShaped(GetLatestFailedValidations(scope))
<1> DEFINE own == {x \in executions : x.outcome.result = "FAILED" /\
                     \E p \in Pipelines : InScope(p, scope) /\ LatestRun(p).id = x.run}
           Represented(x) == {a.key : a \in {a \in alerts : a.execution = x.run /\ a.active}}
           row == [x \in own |->
                     [run |-> x.run, pipeline |-> RunOf(x.run).pipeline,
                      severity |-> x.outcome.severity, seen |-> x.at, alerts |-> Represented(x)]]
<1>1. GetLatestFailedValidations(scope) = {row[x] : x \in own}
  BY DEF GetLatestFailedValidations
<1>2. own \subseteq executions
  OBVIOUS
<1>3. IsFiniteSet(own)
  BY <1>2, FS_Subset DEF RecordsInv, ExecutionsKept
<1>4. IsFiniteSet(GetLatestFailedValidations(scope))
  <2> HIDE DEF row, own
  <2> QED
    BY <1>1, <1>3, ImageIsFinite
<1>5. \A x \in own : row[x].run = x.run /\ row[x].seen = x.at
  OBVIOUS
<1>6. \A x, y \in own : x.run \in Int /\ x.at \in Int /\ (x.run = y.run => x = y)
  BY <1>2 DEF RecordsInv, ExecutionsKept, ExecutionRow
<1> HIDE DEF row, own
<1> QED
  BY <1>1, <1>4, <1>5, <1>6 DEF ValidationsShaped

LEMMA RunsAreShaped ==
  ASSUME RecordsInv, NEW scope, NEW from, NEW to
  PROVE  RunsShaped(GetRuns(scope, from, to), scope)
<1>1. GetRuns(scope, from, to) \in SUBSET runs /\ IsFiniteSet(runs)
  BY DEF GetRuns, RecordsInv, RunsKept
<1>2. IsFiniteSet(GetRuns(scope, from, to))
  BY <1>1, FS_Subset
<1> QED
  BY <1>1, <1>2 DEF RunsShaped, GetRuns, RecordsInv, RunsKept, RunRow

\* The runs of a request lie between the times it asks for.
LEMMA RunsAreTimed ==
  ASSUME RecordsInv, NEW scope, NEW from, NEW to, NEW r \in GetRuns(scope, from, to)
  PROVE  r.started \in Int /\ from <= r.started /\ r.started < to
BY DEF GetRuns, RecordsInv, RunsKept, RunRow

\* The validation history lies in the two periods of the request.
LEMMA HistoryIsShaped ==
  ASSUME RecordsInv, NEW scope, NEW from, NEW to,
         NEW x \in GetValidationHistory(scope, from, to)
  PROVE  x.at \in Int /\ from <= x.at /\ x.at < to
<1>1. PICK y \in executions :
        /\ from <= y.at /\ y.at < to
        /\ x = [pipeline |-> RunOf(y.run).pipeline, outcome |-> y.outcome, at |-> y.at, run |-> y.run]
  BY DEF GetValidationHistory
<1>2. y.at \in Int
  BY DEF RecordsInv, ExecutionsKept, ExecutionRow
<1> QED
  BY <1>1, <1>2

\* An empty part has every shape, and each part gets its own from its query.
LEMMA EmptyIsShaped ==
  ASSUME NEW rows, rows = [n \in Names |-> {}], NEW end, NEW scope
  PROVE  Shaped(rows, end, scope)
<1>1. {"pipelines", "sources", "alerts", "validations", "runs", "history"} \subseteq Names
  BY DEF Names, DashboardReads
<1>2. /\ rows.pipelines = {} /\ rows.sources = {} /\ rows.alerts = {}
      /\ rows.validations = {} /\ rows.runs = {} /\ rows.history = {}
  BY <1>1
<1> QED
  BY <1>2, FS_EmptySet
  DEF Shaped, PipelinesShaped, SourcesShaped, AlertsShaped, ValidationsShaped, RunsShaped,
      RunsTimed, HistoryShaped

LEMMA ReadIsShaped ==
  ASSUME RecordsInv, NEW rows, Shaped(rows, request.end, request.scope), NEW name \in Names,
         NEW read, \A n \in Names : read[n] = IF n = name THEN Query(name) ELSE rows[n]
  PROVE  Shaped(read, request.end, request.scope)
<1>1. {"pipelines", "sources", "alerts", "validations", "runs", "history"} \subseteq Names
  BY DEF Names, DashboardReads
<1>2. /\ PipelinesShaped(Query("pipelines")) /\ SourcesShaped(Query("sources"))
      /\ AlertsShaped(Query("alerts")) /\ ValidationsShaped(Query("validations"))
      /\ RunsShaped(Query("runs"), request.scope)
  BY PipelinesAreShaped, SourcesAreShaped, AlertsAreShaped, ValidationsAreShaped, RunsAreShaped
  DEF Query
<1>3. HistoryShaped(Query("history"), request.end)
  <2>1. Query("history") =
          GetValidationHistory(request.scope, request.end - 2 * Window, request.end)
    BY DEF Query
  <2> QED
    BY <2>1, HistoryIsShaped DEF HistoryShaped
<1>3a. RunsTimed(Query("runs"), request.end)
  <2>1. Query("runs") = GetRuns(request.scope, request.end - 2 * Window, request.end)
    BY DEF Query
  <2> QED
    BY <2>1, RunsAreTimed DEF RunsTimed
<1>4. /\ PipelinesShaped(read.pipelines) /\ SourcesShaped(read.sources)
      /\ AlertsShaped(read.alerts) /\ ValidationsShaped(read.validations)
      /\ RunsShaped(read.runs, request.scope)
  BY <1>1, <1>2 DEF Shaped
<1>5. HistoryShaped(read.history, request.end) /\ RunsTimed(read.runs, request.end)
  BY <1>1, <1>3, <1>3a DEF Shaped
<1> QED
  BY <1>4, <1>5 DEF Shaped

THEOREM InitShaped == Init => ShapedInv
<1>1. Init => request.rows = [n \in Names |-> {}]
  BY DEF Init, Idle
<1> QED
  BY <1>1, InitRequest, EmptyIsShaped DEF ShapedInv

THEOREM StepShaped == ShapedInv /\ [Next]_vars => ShapedInv'
<1> SUFFICES ASSUME ShapedInv, [Next]_vars PROVE ShapedInv'
  OBVIOUS
<1>1. RequestInv /\ RequestInv'
  BY StepRequest DEF ShapedInv
<1>2. ASSUME request'.rows = [n \in Names |-> {}] PROVE Shaped(request'.rows, request'.end, request'.scope)
  BY <1>2, EmptyIsShaped
<1>3. ASSUME NEW kind \in DOMAIN ReadsOf, NEW scope \in Scopes, Ask(kind, scope)
      PROVE  Shaped(request'.rows, request'.end, request'.scope)
  BY <1>2, <1>3 DEF Ask, Idle
<1>4. ASSUME Respond \/ Fail PROVE Shaped(request'.rows, request'.end, request'.scope)
  <2>1. request' = Idle /\ Idle.rows = [n \in Names |-> {}]
    BY <1>4 DEF Respond, Fail, Idle
  <2> QED
    BY <1>2, <2>1
<1>5. CASE Read
  <2> DEFINE name == Head(request.todo)
  <2>1. /\ name \in Names /\ request'.end = request.end /\ request'.scope = request.scope
        /\ \A n \in Names : request'.rows[n] = IF n = name THEN Query(name) ELSE request.rows[n]
    BY <1>1, <1>5, ReadTakesAPart
  <2> HIDE DEF name
  <2>2. Shaped(request'.rows, request.end, request.scope)
    BY <1>1, <2>1, ReadIsShaped DEF ShapedInv, RequestInv
  <2> QED
    BY <1>1, <2>1, <2>2 DEF ShapedInv
<1>6. CASE Write
  <2>1. /\ request'.rows = request.rows /\ request'.end = request.end
        /\ request'.scope = request.scope
    BY <1>1, <1>6 DEF Write, RequestInv, RequestType
  <2> QED
    BY <1>1, <2>1 DEF ShapedInv
<1>7. CASE Tick \/ UNCHANGED vars
  BY <1>1, <1>7 DEF Tick, vars, ShapedInv
<1> QED
  BY <1>1, <1>3, <1>4, <1>5, <1>6, <1>7 DEF Next, ShapedInv

-----------------------------------------------------------------------------
\* Whatever was written while the answer was read, a check with a validation in
\* the history has a sample in one of the two periods.
THEOREM HistoryRepresentedSafe == Spec => []HistoryRepresented
<1>1. ShapedInv => HistoryRepresented
  <2> SUFFICES ASSUME ShapedInv, NEW x \in request.rows.history
               PROVE  Representatives(x.pipeline) # {}
    BY DEF HistoryRepresented
  <2> DEFINE middle == request.end - Window
             first == request.end - 2 * Window
             current == Of(HistoryWithin(middle, request.end), x.pipeline)
             previous == Of(HistoryWithin(first, middle), x.pipeline)
  <2>1. x.at \in Int /\ first <= x.at /\ x.at < request.end
    BY DEF ShapedInv, Shaped, HistoryShaped
  <2>2. middle \in Int
    BY MonitoringAssumption DEF ShapedInv, RequestInv, RequestType
  <2>3. x \in HistoryWithin(middle, request.end) \/ x \in HistoryWithin(first, middle)
    <3> HIDE DEF middle, first
    <3> QED
      BY <2>1, <2>2 DEF HistoryWithin
  <2>4. x \in current \/ x \in previous
    BY <2>3 DEF Of
  <2>5. Representatives(x.pipeline) = IF current # {} THEN current ELSE previous
    BY DEF Representatives
  <2> HIDE DEF current, previous
  <2> QED
    BY <2>4, <2>5
<1> QED
  BY InitShaped, StepShaped, <1>1, PTL DEF Spec

-----------------------------------------------------------------------------
(* Sums.                                                                   *)

\* Rows that are counted apart by a key, each once, are counted in full: each
\* part is numbered from one, and the numbered keys are as many as the rows.
LEMMA PartsAddUp ==
  ASSUME NEW rows, IsFiniteSet(rows), NEW S, NEW key, \A r \in rows : key[r] \in S,
         NEW f, DOMAIN f = S, \A x \in S : f[x] = Cardinality({r \in rows : key[r] = x})
  PROVE  SumOf(f) = Cardinality(rows)
<1> DEFINE part == [x \in S |-> {r \in rows : key[r] = x}]
           number == [x \in S |-> CHOOSE g : g \in Bijection(1..f[x], part[x])]
           numbered == UNION {{x} \X (1..f[x]) : x \in S}
           place == [u \in numbered |-> number[u[1]][u[2]]]
<1>1. ASSUME NEW x \in S
      PROVE  f[x] \in Nat /\ number[x] \in Bijection(1..f[x], part[x])
  <2>1. IsFiniteSet(part[x]) /\ f[x] = Cardinality(part[x])
    BY FS_Subset
  <2>2. f[x] \in Nat /\ ExistsBijection(1..f[x], part[x])
    BY <2>1, FS_CardinalityType
  <2> QED
    BY <2>2 DEF ExistsBijection
<1> HIDE DEF number
<1>2. ASSUME NEW x \in S
      PROVE  /\ \A n \in 1..f[x] : number[x][n] \in rows /\ key[number[x][n]] = x
             /\ \A m, n \in 1..f[x] : number[x][m] = number[x][n] => m = n
             /\ \A r \in rows : key[r] = x => \E n \in 1..f[x] : number[x][n] = r
  <2>1. /\ number[x] \in [1..f[x] -> part[x]]
        /\ \A m, n \in 1..f[x] : number[x][m] = number[x][n] => m = n
        /\ \A r \in part[x] : \E n \in 1..f[x] : number[x][n] = r
    BY <1>1 DEF Bijection, Injection, Surjection, IsInjective
  <2> QED
    BY <2>1
<1>3. /\ \A u \in numbered : u[1] \in S /\ u[2] \in 1..f[u[1]] /\ u = <<u[1], u[2]>>
      /\ \A x \in S : \A n \in 1..f[x] : <<x, n>> \in numbered
  OBVIOUS
<1> HIDE DEF numbered
<1>4. place \in [numbered -> rows]
  BY <1>2, <1>3
<1>5. ASSUME NEW u \in numbered, NEW w \in numbered, place[u] = place[w]
      PROVE  u = w
  BY <1>2, <1>3, <1>5
<1>6. ASSUME NEW r \in rows
      PROVE  \E u \in numbered : place[u] = r
  <2>1. PICK n \in 1..f[key[r]] : number[key[r]][n] = r
    BY <1>2
  <2>2. <<key[r], n>> \in numbered
    BY <1>3
  <2>3. place[<<key[r], n>>] = r
    BY <2>1, <2>2
  <2> QED
    BY <2>2, <2>3
<1>7. place \in Bijection(numbered, rows)
  BY <1>4, <1>5, <1>6, Fun_IsBij
<1>8. ExistsBijection(rows, numbered)
  BY <1>7, Fun_ExistsBijSymmetric DEF ExistsBijection
<1>9. Cardinality(numbered) = Cardinality(rows)
  BY <1>8, FS_Bijection
<1> QED
  BY <1>9 DEF SumOf, numbered

-----------------------------------------------------------------------------
(* The periods and their buckets.                                          *)

\* The bucket of a time holds it, and a later bucket begins after it.
LEMMA BucketHolds ==
  ASSUME NEW n \in Int
  PROVE  /\ n \div Bucket \in Int
         /\ Bucket * (n \div Bucket) <= n /\ n < Bucket * (n \div Bucket) + Bucket
BY MonitoringAssumption

LEMMA BucketsFollow ==
  ASSUME NEW i \in Int, NEW j \in Int, i < j
  PROVE  Bucket * i + Bucket <= Bucket * j
<1>1. Bucket \in Nat
  BY MonitoringAssumption
<1>2. PICK d \in Nat : j = i + 1 + d
  <2>1. j - i - 1 \in Nat /\ j = i + 1 + (j - i - 1)
    OBVIOUS
  <2> QED
    BY <2>1
<1>3. Bucket * j = Bucket * i + Bucket + Bucket * d
  BY <1>1, <1>2
<1>4. Bucket * d \in Nat /\ Bucket * i \in Int
  BY <1>1, <1>2
<1> QED
  BY <1>1, <1>3, <1>4

PeriodStart == request.end - Window
Samples == Completed(CurrentRuns)
BucketOf(r) == (r.started - PeriodStart) \div Bucket
Buckets == {BucketOf(r) : r \in Samples}
BucketStart(i) == PeriodStart + Bucket * i
BucketEnd(i) ==
  IF BucketStart(i) + Bucket < request.end THEN BucketStart(i) + Bucket ELSE request.end
BucketPoint(i) == [start |-> BucketStart(i), end |-> BucketEnd(i),
                   samples |-> Cardinality({r \in Samples : BucketOf(r) = i})]

LEMMA RunsInPeriods ==
  ASSUME ShapedInv
  PROVE  /\ PeriodStart \in Int /\ request.end \in Int /\ PeriodStart < request.end
         /\ \A r \in request.rows.runs :
              /\ r.started \in Int
              /\ PeriodStart - Window <= r.started /\ r.started < request.end
         /\ \A r \in Samples :
              r.started \in Int /\ PeriodStart <= r.started /\ r.started < request.end
<1>1. /\ PeriodStart \in Int /\ request.end \in Int /\ PeriodStart < request.end
      /\ \A r \in request.rows.runs :
           /\ r.started \in Int
           /\ PeriodStart - Window <= r.started /\ r.started < request.end
  BY MonitoringAssumption DEF PeriodStart, ShapedInv, Shaped, RunsTimed, RequestInv, RequestType
<1> QED
  BY <1>1 DEF Samples, CurrentRuns, Within, Completed, PeriodStart

\* Each run that was read counts in one of the two periods.
LEMMA RunsArePartitioned ==
  ASSUME ShapedInv
  PROVE  PeriodsPartitionRuns
<1>1. /\ CurrentRuns = {r \in request.rows.runs :
                          PeriodStart <= r.started /\ r.started < request.end}
      /\ PreviousRuns = {r \in request.rows.runs :
                           PeriodStart - Window <= r.started /\ r.started < PeriodStart}
  BY RunsInPeriods, MonitoringAssumption DEF CurrentRuns, PreviousRuns, Within, PeriodStart
<1> QED
  BY <1>1, RunsInPeriods DEF PeriodsPartitionRuns

\* The points are those of the buckets with a sample, which lie in the period
\* one after the other.
LEMMA BucketsApart ==
  ASSUME ShapedInv
  PROVE  /\ CurrentPoints = {BucketPoint(i) : i \in Buckets}
         /\ \A i \in Buckets :
              /\ BucketStart(i) \in Int /\ BucketEnd(i) \in Int
              /\ PeriodStart <= BucketStart(i) /\ BucketStart(i) < BucketEnd(i)
              /\ BucketEnd(i) <= request.end
         /\ \A i, j \in Buckets :
              i = j \/ BucketEnd(i) <= BucketStart(j) \/ BucketEnd(j) <= BucketStart(i)
<1>1. CurrentPoints = {BucketPoint(i) : i \in Buckets}
  BY DEF CurrentPoints, Points, BucketPoint, BucketStart, BucketEnd, Buckets, BucketOf, Samples,
         PeriodStart
<1>2. ASSUME NEW i \in Buckets
      PROVE  /\ i \in Nat /\ BucketStart(i) \in Int
             /\ PeriodStart <= BucketStart(i) /\ BucketStart(i) < request.end
  <2>1. PICK r \in Samples : i = BucketOf(r)
    BY DEF Buckets
  <2>2. r.started - PeriodStart \in Nat
    BY RunsInPeriods
  <2>3. /\ i \in Int /\ Bucket * i <= r.started - PeriodStart
        /\ r.started - PeriodStart < Bucket * i + Bucket
    BY <2>1, <2>2, BucketHolds DEF BucketOf
  <2>4. Bucket \in Nat /\ i \in Nat
    <3>1. ~(i < 0)
      BY <2>2, <2>3, BucketsFollow, MonitoringAssumption
    <3> QED
      BY <2>3, <3>1, MonitoringAssumption
  <2>5. Bucket * i \in Nat
    BY <2>4
  <2> QED
    BY <2>3, <2>4, <2>5, RunsInPeriods DEF BucketStart
<1>3. ASSUME NEW i \in Buckets
      PROVE  BucketStart(i) < BucketEnd(i) /\ BucketEnd(i) <= request.end /\ BucketEnd(i) \in Int
  BY <1>2, RunsInPeriods, MonitoringAssumption DEF BucketEnd
<1>4. ASSUME NEW i \in Buckets, NEW j \in Buckets, i < j
      PROVE  BucketEnd(i) <= BucketStart(j)
  <2>1. Bucket * i + Bucket <= Bucket * j
    BY <1>2, <1>4, BucketsFollow
  <2>2. Bucket * i \in Int /\ Bucket * j \in Int /\ Bucket \in Int
    BY <1>2, MonitoringAssumption
  <2>3. BucketStart(i) + Bucket <= BucketStart(j)
    BY <2>1, <2>2, RunsInPeriods DEF BucketStart
  <2> QED
    BY <1>2, <2>2, <2>3, RunsInPeriods DEF BucketEnd
<1> QED
  BY <1>1, <1>2, <1>3, <1>4

LEMMA PointsAreApart ==
  ASSUME ShapedInv
  PROVE  PointsApart
<1>1. \A i \in Buckets : /\ BucketPoint(i).start = BucketStart(i)
                         /\ BucketPoint(i).end = BucketEnd(i)
  BY DEF BucketPoint
<1> QED
  BY <1>1, BucketsApart DEF PointsApart, PeriodStart

\* The points hold each sample once.
LEMMA PointsAddUp ==
  ASSUME ShapedInv
  PROVE  SumOf([x \in CurrentPoints |-> x.samples]) = Cardinality(Samples)
<1> DEFINE key == [r \in Samples |-> BucketPoint(BucketOf(r))]
           samples == [x \in CurrentPoints |-> x.samples]
<1>1. IsFiniteSet(Samples)
  <2>1. Samples \in SUBSET request.rows.runs
    BY DEF Samples, Completed, CurrentRuns, Within
  <2> QED
    BY <2>1, FS_Subset DEF ShapedInv, Shaped, RunsShaped
<1>2. \A r \in Samples : key[r] \in CurrentPoints
  BY BucketsApart DEF Buckets
<1>3. ASSUME NEW x \in CurrentPoints
      PROVE  x.samples = Cardinality({r \in Samples : key[r] = x})
  <2>1. PICK i \in Buckets : x = BucketPoint(i)
    BY BucketsApart
  <2>2. /\ x.samples = Cardinality({r \in Samples : BucketOf(r) = i})
        /\ \A j \in Buckets : BucketPoint(j).start = BucketStart(j)
    BY <2>1 DEF BucketPoint
  <2>3. \A j \in Buckets : BucketPoint(j) = x => j = i
    <3>1. \A j \in Buckets : BucketPoint(j) = x => BucketStart(j) = BucketStart(i)
      BY <2>1, <2>2
    <3> QED
      BY <3>1, BucketsApart
  <2>4. \A r \in Samples : BucketOf(r) \in Buckets
    BY DEF Buckets
  <2>5. {r \in Samples : key[r] = x} = {r \in Samples : BucketOf(r) = i}
    BY <2>1, <2>3, <2>4
  <2> QED
    BY <2>2, <2>5
<1> HIDE DEF key
<1>4. DOMAIN samples = CurrentPoints
      /\ \A x \in CurrentPoints : samples[x] = Cardinality({r \in Samples : key[r] = x})
  BY <1>3
<1> HIDE DEF samples
<1>5. SumOf(samples) = Cardinality(Samples)
  BY <1>1, <1>2, <1>4, PartsAddUp
<1> QED
  BY <1>5 DEF samples

-----------------------------------------------------------------------------
(* The pipelines of an answer.                                             *)

\* Once the pipelines were read, each that is registered and in scope is listed
\* or was registered since.
PipelinesKnown ==
  request.kind # "none" /\ "pipelines" \notin Pending =>
    /\ ListedPipelines \cup MissedPipelines = ScopedPipelines
    /\ ListedPipelines \cap MissedPipelines = {}

\* The runs that were read are of registered pipelines.
RunsKnown == \A r \in request.rows.runs : r.pipeline \in Registered

KnownInv == ShapedInv /\ PipelinesKnown /\ RunsKnown

THEOREM InitKnown == Init => KnownInv
<1>1. Init => PipelinesKnown /\ RunsKnown
  BY DEF Init, Idle, PipelinesKnown, RunsKnown, Names, DashboardReads
<1> QED
  BY <1>1, InitShaped DEF KnownInv

LEMMA PipelinesAreReadByAll ==
  ASSUME NEW kind \in DOMAIN ReadsOf
  PROVE  "pipelines" \in PartsOf(kind)
<1>1. /\ PartsOf("monitoring") = {MonitoringReads[i] : i \in 1..5}
      /\ PartsOf("dashboard") = {DashboardReads[i] : i \in 1..7}
      /\ PartsOf("health") = {HealthReads[i] : i \in 1..4}
  BY DEF PartsOf, ReadsOf, MonitoringReads, DashboardReads, HealthReads
<1>2. MonitoringReads[1] = "pipelines" /\ DashboardReads[1] = "pipelines" /\ HealthReads[1] = "pipelines"
  BY DEF MonitoringReads, DashboardReads, HealthReads
<1> QED
  BY <1>1, <1>2, ReadsAreNames

THEOREM StepKnown == KnownInv /\ [Next]_vars => KnownInv'
<1> SUFFICES ASSUME KnownInv, [Next]_vars PROVE PipelinesKnown' /\ RunsKnown'
  BY StepShaped DEF KnownInv
<1>0. RequestInv /\ RequestInv' /\ RecordsInv /\ {"pipelines", "runs"} \subseteq Names
  BY StepRequest DEF KnownInv, ShapedInv, RequestInv, Names, DashboardReads
<1>1. ASSUME request'.kind = "none", request'.rows = [n \in Names |-> {}]
      PROVE  PipelinesKnown' /\ RunsKnown'
  BY <1>0, <1>1 DEF PipelinesKnown, RunsKnown
<1>2. ASSUME NEW kind \in DOMAIN ReadsOf, NEW scope \in Scopes, Ask(kind, scope)
      PROVE  PipelinesKnown' /\ RunsKnown'
  <2>1. request'.todo = ReadsOf[kind] /\ request'.rows = [n \in Names |-> {}]
    BY <1>2 DEF Ask, Idle
  <2>2. "pipelines" \in Pending'
    BY <2>1, PipelinesAreReadByAll DEF Pending, PartsOf
  <2> QED
    BY <1>0, <2>1, <2>2 DEF PipelinesKnown, RunsKnown
<1>3. CASE Read
  <2> DEFINE name == Head(request.todo)
  <2>1. /\ request.kind # "none" /\ UNCHANGED records
        /\ request'.scope = request.scope
        /\ request'.since = IF name = "pipelines" THEN {} ELSE request.since
        /\ \A n \in Names : request'.rows[n] = IF n = name THEN Query(name) ELSE request.rows[n]
        /\ Pending \subseteq Pending' \cup {name}
    BY <1>0, <1>3, ReadTakesAPart
  <2>2. Registered' = Registered
    BY <2>1 DEF records, Registered
  <2> HIDE DEF name
  <2>3. PipelinesKnown'
    <3>1. CASE name = "pipelines"
      <4>1. request'.rows["pipelines"] = GetPipelines(request.scope)
        BY <1>0, <2>1, <3>1 DEF Query
      <4>2. ListedPipelines' = {p \in Registered : InScope(p, request.scope)}
        <5> DEFINE own == {p \in Registered : InScope(p, request.scope)}
                   row(p) == [pipeline |-> p, source |-> SourceOf[p], enabled |-> enabled[p],
                              status |-> OperationalStatus(p), latest |-> LatestRun(p).id,
                              seen |-> LatestRun(p).started]
        <5>1. GetPipelines(request.scope) = {row(p) : p \in own}
          BY DEF GetPipelines
        <5>2. \A p : row(p).pipeline = p
          OBVIOUS
        <5> HIDE DEF row, own
        <5>3. ListedPipelines' = {row(p).pipeline : p \in own}
          BY <4>1, <5>1 DEF ListedPipelines
        <5>4. ListedPipelines' = own
          BY <5>2, <5>3
        <5> QED
          BY <5>4 DEF own
      <4>3. MissedPipelines' = {}
        BY <2>1, <3>1 DEF MissedPipelines
      <4> QED
        BY <2>1, <2>2, <4>2, <4>3 DEF PipelinesKnown, ScopedPipelines
    <3>2. CASE name # "pipelines"
      <4>1. /\ request'.rows["pipelines"] = request.rows["pipelines"]
            /\ request'.since = request.since
        BY <1>0, <2>1, <3>2
      <4>2. ListedPipelines' = ListedPipelines /\ MissedPipelines' = MissedPipelines
            /\ ScopedPipelines' = ScopedPipelines
        BY <2>1, <2>2, <4>1 DEF ListedPipelines, MissedPipelines, ScopedPipelines
      <4>3. "pipelines" \notin Pending' => "pipelines" \notin Pending
        BY <2>1, <3>2
      <4> QED
        BY <2>1, <4>2, <4>3 DEF PipelinesKnown, KnownInv
    <3> QED
      BY <3>1, <3>2
  <2>4. RunsKnown'
    <3>1. CASE name = "runs"
      <4>1. request'.rows["runs"] = Query("runs") /\ Query("runs") \subseteq runs
        BY <1>0, <2>1, <3>1 DEF Query, GetRuns
      <4> QED
        BY <1>0, <2>2, <4>1 DEF RunsKnown, RecordsInv, RunsRegistered
    <3>2. CASE name # "runs"
      BY <1>0, <2>1, <2>2, <3>2 DEF RunsKnown, KnownInv
    <3> QED
      BY <3>1, <3>2
  <2> QED
    BY <2>3, <2>4
<1>4. CASE Respond \/ Fail
  <2>1. request' = Idle
    BY <1>4 DEF Respond, Fail
  <2> QED
    BY <1>1, <2>1 DEF Idle
<1>5. CASE Write
  <2>1. Registered \subseteq Registered'
    BY <1>0, <1>5, RegisteredStay DEF Write, RecordsWritten
  <2>2. CASE request.kind = "none"
    <3>1. request' = request
      BY <1>5, <2>2 DEF Write
    <3> QED
      BY <2>1, <2>2, <3>1 DEF PipelinesKnown, RunsKnown, KnownInv
  <2>3. CASE request.kind # "none"
    <3>1. PICK new : new = Registered' \ Registered
      OBVIOUS
    <3>2. request' = [request EXCEPT !.writes = @ + 1, !.since = @ \cup new]
      BY <1>5, <2>3, <3>1 DEF Write
    <3>3. /\ request'.rows = request.rows /\ request'.scope = request.scope
          /\ request'.kind = request.kind /\ request'.todo = request.todo
          /\ request'.since = request.since \cup new
      BY <1>0, <3>2 DEF RequestInv, RequestType
    <3>4. ListedPipelines' = ListedPipelines /\ Pending' = Pending
      BY <3>3 DEF ListedPipelines, Pending
    <3>5. /\ MissedPipelines' = MissedPipelines \cup {p \in new : InScope(p, request.scope)}
          /\ ScopedPipelines' = ScopedPipelines \cup {p \in new : InScope(p, request.scope)}
      BY <2>1, <3>1, <3>3 DEF MissedPipelines, ScopedPipelines
    <3>6. PipelinesKnown'
      <4> SUFFICES ASSUME "pipelines" \notin Pending
                   PROVE  /\ (ListedPipelines \cup MissedPipelines)' = ScopedPipelines'
                          /\ (ListedPipelines \cap MissedPipelines)' = {}
        BY <3>4 DEF PipelinesKnown
      <4>1. /\ ListedPipelines \cup MissedPipelines = ScopedPipelines
            /\ ListedPipelines \cap MissedPipelines = {}
        BY <2>3 DEF PipelinesKnown, KnownInv
      <4>2. ListedPipelines \cap new = {}
        BY <3>1, <4>1 DEF ScopedPipelines
      <4> QED
        BY <3>4, <3>5, <4>1, <4>2
    <3> QED
      BY <2>1, <3>3, <3>6 DEF RunsKnown, KnownInv
  <2> QED
    BY <2>2, <2>3
<1>6. CASE Tick \/ UNCHANGED vars
  <2>1. request' = request /\ enabled' = enabled
    BY <1>6 DEF Tick, TimePasses, vars, records
  <2> QED
    BY <2>1 DEF KnownInv, PipelinesKnown, RunsKnown, ListedPipelines, MissedPipelines, ScopedPipelines,
                Registered, Pending
<1> QED
  BY <1>2, <1>3, <1>4, <1>5, <1>6 DEF Next

\* f counts the rows of each pipeline in S.
CountsRows(f, S, rows) == DOMAIN f = S /\ \A p \in S : f[p] = Cardinality(Of(rows, p))

\* What is counted of some pipelines is their part of the rows.
LEMMA PipelinesAddUp ==
  ASSUME ShapedInv, NEW rows \in SUBSET request.rows.runs, NEW S, NEW f, CountsRows(f, S, rows)
  PROVE  SumOf(f) = Cardinality({r \in rows : r.pipeline \in S})
<1> DEFINE own == {r \in rows : r.pipeline \in S}
           key == [r \in own |-> r.pipeline]
<1>1. own \in SUBSET request.rows.runs /\ IsFiniteSet(own)
  BY FS_Subset DEF ShapedInv, Shaped, RunsShaped
<1>2. \A r \in own : key[r] \in S
  OBVIOUS
<1>3. \A p \in S : Of(rows, p) = {r \in own : key[r] = p}
  BY DEF Of
<1>4. DOMAIN f = S /\ \A p \in S : f[p] = Cardinality({r \in own : key[r] = p})
  BY <1>3 DEF CountsRows
<1> HIDE DEF own, key
<1>5. SumOf(f) = Cardinality(own)
  BY <1>1, <1>2, <1>4, PartsAddUp
<1> QED
  BY <1>5 DEF own

\* Rows of two kinds of pipelines, and of no others, are counted in two parts.
LEMMA TwoPartsAddUp ==
  ASSUME ShapedInv, NEW rows \in SUBSET request.rows.runs, NEW S, NEW T, S \cap T = {},
         \A r \in rows : r.pipeline \in S \cup T,
         NEW f, CountsRows(f, S, rows), NEW g, CountsRows(g, T, rows)
  PROVE  Cardinality(rows) = SumOf(f) + SumOf(g)
<1> DEFINE first == {r \in rows : r.pipeline \in S}
           second == {r \in rows : r.pipeline \in T}
<1>1. SumOf(f) = Cardinality(first) /\ SumOf(g) = Cardinality(second)
  BY PipelinesAddUp
<1>2. /\ first \in SUBSET request.rows.runs /\ second \in SUBSET request.rows.runs
      /\ first \cup second = rows /\ first \cap second = {}
  OBVIOUS
<1>3. IsFiniteSet(first) /\ IsFiniteSet(second)
  BY <1>2, FS_Subset DEF ShapedInv, Shaped, RunsShaped
<1> HIDE DEF first, second
<1>4. Cardinality(first \cup second) =
        Cardinality(first) + Cardinality(second) - Cardinality(first \cap second)
  BY <1>3, FS_Union
<1>5. Cardinality(first) \in Nat /\ Cardinality(second) \in Nat /\ Cardinality({}) = 0
  BY <1>3, FS_CardinalityType, FS_EmptySet
<1>6. Cardinality(first \cup second) = Cardinality(rows) /\ Cardinality(first \cap second) = 0
  BY <1>2, <1>5, Zenon
<1>7. Cardinality(rows) = Cardinality(first) + Cardinality(second)
  BY <1>4, <1>5, <1>6
<1> QED
  BY <1>1, <1>7

LEMMA SamplesDoAddUp ==
  ASSUME KnownInv, request.kind # "none", request.todo = <<>>
  PROVE  SamplesAddUp
<1> DEFINE total == RateMetric(CurrentRuns, PreviousRuns)
           counted == [numerator   |-> WithStatus(Completed(CurrentRuns), "SUCCESS"),
                       denominator |-> Completed(CurrentRuns),
                       previous    |-> Completed(PreviousRuns)]
           figures(S, figure) ==
             [p \in S |-> RateMetric(Of(CurrentRuns, p), Of(PreviousRuns, p))[figure]]
<1>0. ShapedInv
  BY DEF KnownInv
<1>1. /\ DOMAIN total = {"numerator", "denominator", "previous"}
      /\ \A figure \in DOMAIN total : total[figure] = Cardinality(counted[figure])
  BY DEF RateMetric
<1>2. \A figure \in DOMAIN total : counted[figure] \in SUBSET request.rows.runs
  BY <1>1 DEF WithStatus, Completed, CurrentRuns, PreviousRuns, Within
<1>3. ASSUME NEW p
      PROVE  /\ WithStatus(Completed(Of(CurrentRuns, p)), "SUCCESS") = Of(counted.numerator, p)
             /\ Completed(Of(CurrentRuns, p)) = Of(counted.denominator, p)
             /\ Completed(Of(PreviousRuns, p)) = Of(counted.previous, p)
  BY DEF WithStatus, Completed, Of
<1>4. ASSUME NEW S, NEW figure \in DOMAIN total, NEW p \in S
      PROVE  figures(S, figure)[p] = Cardinality(Of(counted[figure], p))
  BY <1>1, <1>3 DEF RateMetric
<1>5. \A S, figure : DOMAIN figures(S, figure) = S
  OBVIOUS
<1>6. total.denominator = SumOf([x \in CurrentPoints |-> x.samples])
  BY <1>0, <1>1, PointsAddUp DEF Samples
<1>7. /\ ListedPipelines \cup MissedPipelines = ScopedPipelines
      /\ ListedPipelines \cap MissedPipelines = {}
  <2>1. Pending = {}
    BY DEF Pending
  <2> QED
    BY <2>1 DEF KnownInv, PipelinesKnown
<1>8. \A r \in request.rows.runs : r.pipeline \in ScopedPipelines
  BY <1>0 DEF KnownInv, RunsKnown, ShapedInv, Shaped, RunsShaped, ScopedPipelines
<1> HIDE DEF total, figures, counted
<1>9. ASSUME NEW figure \in DOMAIN total
      PROVE  total[figure] = SumOf(figures(ListedPipelines, figure))
                             + SumOf(figures(MissedPipelines, figure))
  <2>1. PICK rows \in SUBSET request.rows.runs : rows = counted[figure]
    BY <1>2
  <2>2. PICK S, T : S = ListedPipelines /\ T = MissedPipelines
    OBVIOUS
  <2>3. PICK f, g : f = figures(S, figure) /\ g = figures(T, figure)
    OBVIOUS
  <2>4. CountsRows(f, S, rows) /\ CountsRows(g, T, rows)
    BY <1>4, <1>5, <2>1, <2>3 DEF CountsRows
  <2>5. S \cap T = {} /\ \A r \in rows : r.pipeline \in S \cup T
    BY <1>7, <1>8, <2>2
  <2>6. Cardinality(rows) = SumOf(f) + SumOf(g)
    BY <1>0, <2>4, <2>5, TwoPartsAddUp
  <2> QED
    BY <1>1, <2>1, <2>2, <2>3, <2>6
<1>10. \A S, figure : SumOver(S, figure) = SumOf(figures(S, figure))
  BY DEF SumOver, figures
<1>11. \A figure \in DOMAIN total :
         total[figure] = SumOver(ListedPipelines, figure) + SumOver(MissedPipelines, figure)
  BY <1>9, <1>10
<1> QED
  BY <1>6, <1>11 DEF SamplesAddUp, total

\* Whatever was written while the answer was read, its figures add up: each
\* run that was read counts in one of the two periods, the points of the
\* current one lie in it one after the other and hold each sample once, and
\* the samples and successes of the listed pipelines fall short of the totals
\* by those of the pipelines registered too late to be listed, and only those
\* (AggregationService._rate_metric, its buckets and the pipeline items).
THEOREM FiguresAddUpSafe == Spec => []FiguresAddUp
<1>1. KnownInv => FiguresAddUp
  <2> SUFFICES ASSUME KnownInv, Monitored \/ Answered("health")
               PROVE  PeriodsPartitionRuns /\ PointsApart /\ SamplesAddUp
    BY DEF FiguresAddUp
  <2>1. ShapedInv /\ request.kind # "none" /\ request.todo = <<>>
    BY DEF KnownInv, Monitored, Answered
  <2> QED
    BY <2>1, RunsArePartitioned, PointsAreApart, SamplesDoAddUp
<1> QED
  BY InitKnown, StepKnown, <1>1, PTL DEF Spec

-----------------------------------------------------------------------------
(* What an order puts first.                                               *)

\* A list shown is its first rows, up to the limit.
LEMMA ShownIs ==
  ASSUME NEW rows, NEW items \in Seq(rows), NEW limit \in Nat \ {0}
  PROVE  /\ Shown(items, limit) \in Seq(rows)
         /\ Len(Shown(items, limit)) = IF Len(items) < limit THEN Len(items) ELSE limit
         /\ \A i \in 1..Len(Shown(items, limit)) :
              Shown(items, limit)[i] = items[i] /\ i \in 1..Len(items)
BY DEF Shown

\* An issue has its severity, and its origin and thing are its own.
IssuesKept(issues) ==
  /\ IsFiniteSet(issues)
  /\ \A i \in issues : /\ i.severity \in {"CRITICAL", "WARNING"} /\ i.seen \in Int
                       /\ i.origin \in DOMAIN OriginOrder /\ i.thing \in Int
  /\ \A i, j \in issues : i.origin = j.origin /\ i.thing = j.thing => i = j

Ahead(issues) == [i \in issues |-> {j \in issues : IssueBefore(j, i)}]

\* One rank after the other.
LEMMA IssueBeforeIs ==
  ASSUME NEW i, NEW j, i.seen \in Int, j.seen \in Int
  PROVE  IssueBefore(i, j) <=>
           LET sameSeverity == (i.severity = "CRITICAL") = (j.severity = "CRITICAL")
               origin(issue) == OriginOrder[issue.origin]
           IN \/ i.severity = "CRITICAL" /\ j.severity # "CRITICAL"
              \/ sameSeverity /\ i.seen > j.seen
              \/ sameSeverity /\ i.seen = j.seen /\ origin(i) < origin(j)
              \/ sameSeverity /\ i.seen = j.seen /\ origin(i) = origin(j) /\ i.thing < j.thing
<1> DEFINE rank(issue) == <<IF issue.severity = "CRITICAL" THEN 0 ELSE 1, MaxTime - issue.seen,
                            OriginOrder[issue.origin], issue.thing>>
           First(n) == rank(i)[n] < rank(j)[n] /\ \A m \in 1..(n - 1) : rank(i)[m] = rank(j)[m]
<1>1. IssueBefore(i, j) <=> \E n \in 1..4 : First(n)
  BY DEF IssueBefore
<1>2. \A issue \in {i, j} :
        /\ rank(issue)[1] = IF issue.severity = "CRITICAL" THEN 0 ELSE 1
        /\ rank(issue)[2] = MaxTime - issue.seen
        /\ rank(issue)[3] = OriginOrder[issue.origin] /\ rank(issue)[4] = issue.thing
  OBVIOUS
<1> HIDE DEF rank
<1>3. (\E n \in 1..4 : First(n)) <=> First(1) \/ First(2) \/ First(3) \/ First(4)
  BY Z3
<1>4. /\ First(1) <=> i.severity = "CRITICAL" /\ j.severity # "CRITICAL"
      /\ rank(i)[1] = rank(j)[1] <=> ((i.severity = "CRITICAL") = (j.severity = "CRITICAL"))
      /\ rank(i)[2] = rank(j)[2] <=> i.seen = j.seen
      /\ rank(i)[2] < rank(j)[2] <=> i.seen > j.seen
  BY <1>2, ReferencesAssumption
<1> QED
  BY <1>1, <1>2, <1>3, <1>4

LEMMA IssuesOrdered ==
  ASSUME NEW issues, IssuesKept(issues)
  PROVE  OrdersRows(Ahead(issues), issues)
<1>1. \A i \in DOMAIN OriginOrder : OriginOrder[i] \in Int
  BY DEF OriginOrder
<1>2. \A i, j \in DOMAIN OriginOrder : OriginOrder[i] = OriginOrder[j] => i = j
  BY DEF OriginOrder
<1>3. Ahead(issues) \in [issues -> SUBSET issues]
  BY DEF Ahead
<1>4. \A i, j \in issues : j \in Ahead(issues)[i] <=> IssueBefore(j, i)
  BY DEF Ahead
<1>5. ASSUME NEW i \in issues PROVE ~IssueBefore(i, i)
  BY <1>1, IssueBeforeIs DEF IssuesKept
<1>6. ASSUME NEW i \in issues, NEW j \in issues, NEW k \in issues,
             IssueBefore(i, j), IssueBefore(j, k)
      PROVE  IssueBefore(i, k)
  BY <1>1, <1>6, IssueBeforeIs DEF IssuesKept
<1>7. ASSUME NEW i \in issues, NEW j \in issues
      PROVE  i = j \/ IssueBefore(i, j) \/ IssueBefore(j, i)
  BY <1>1, <1>2, IssueBeforeIs DEF IssuesKept
<1> QED
  BY <1>3, <1>4, <1>5, <1>6, <1>7 DEF OrdersRows

LEMMA IssuesSort ==
  ASSUME NEW issues, IssuesKept(issues)
  PROVE  Sorts(InOrder(issues, IssueBefore), issues, Ahead(issues))
<1>1. \A i \in issues : Ahead(issues)[i] = {j \in issues : IssueBefore(j, i)}
  BY DEF Ahead
<1> DEFINE place(n) == CHOOSE i \in issues : Cardinality({j \in issues : IssueBefore(j, i)}) = n - 1
<1>2. ASSUME NEW n \in 1..Cardinality(issues),
             \E i \in issues : Cardinality(Ahead(issues)[i]) = n - 1
      PROVE  place(n) \in issues /\ Cardinality(Ahead(issues)[place(n)]) = n - 1
  <2>1. \E i \in issues : Cardinality({j \in issues : IssueBefore(j, i)}) = n - 1
    BY <1>1, <1>2
  <2>2. place(n) \in issues /\ Cardinality({j \in issues : IssueBefore(j, place(n))}) = n - 1
    BY <2>1
  <2> QED
    BY <1>1, <2>2
<1>3. InOrder(issues, IssueBefore) = [n \in 1..Cardinality(issues) |-> place(n)]
  BY DEF InOrder
<1> HIDE DEF place
<1>4. InOrder(issues, IssueBefore) =
        [n \in 1..Cardinality(issues) |-> InOrder(issues, IssueBefore)[n]]
  BY <1>3
<1> QED
  BY <1>2, <1>3, <1>4, IssuesOrdered, PlacesSort DEF IssuesKept

\* A warning is shown only when all critical issues are.
LEMMA CriticalsAreKept ==
  ASSUME NEW issues, IssuesKept(issues),
         NEW shown, shown = Shown(InOrder(issues, IssueBefore), IssueLimit),
         NEW n \in DOMAIN shown, shown[n].severity = "WARNING",
         NEW i \in issues, i.severity = "CRITICAL"
  PROVE  \E m \in DOMAIN shown : shown[m] = i
<1> DEFINE sorted == InOrder(issues, IssueBefore)
<1>1. Sorts(sorted, issues, Ahead(issues))
  BY IssuesSort
<1> HIDE DEF sorted
<1>2. sorted \in Seq(issues)
  BY <1>1 DEF Sorts
<1>3. /\ shown \in Seq(issues)
      /\ \A m \in 1..Len(shown) : shown[m] = sorted[m] /\ m \in 1..Len(sorted)
      /\ Len(shown) = IF Len(sorted) < IssueLimit THEN Len(sorted) ELSE IssueLimit
  BY <1>2, ShownIs, MonitoringAssumption DEF sorted
<1>4. n \in 1..Len(shown) /\ DOMAIN shown = 1..Len(shown) /\ Len(shown) \in Nat
  BY <1>3
<1>5. sorted[n] \in issues /\ sorted[n].severity = "WARNING" /\ n \in 1..Len(sorted)
  BY <1>2, <1>3, <1>4
<1>6. i \in Ahead(issues)[sorted[n]]
  <2>1. IssueBefore(i, sorted[n])
    BY <1>5, IssueBeforeIs DEF IssuesKept
  <2> QED
    BY <1>5, <2>1 DEF Ahead
<1>7. PICK m \in 1..Len(sorted) : sorted[m] = i
  BY <1>1 DEF Sorts
<1>8. m < n
  BY <1>1, <1>5, <1>6, <1>7 DEF Sorts
<1>9. m \in 1..Len(shown)
  BY <1>4, <1>7, <1>8
<1> QED
  BY <1>3, <1>4, <1>7, <1>9

-----------------------------------------------------------------------------
\* The issues of an answer.
LEMMA IssueFields ==
  ASSUME NEW origin, NEW thing, NEW severity, NEW pipeline, NEW seen,
         NEW i, i = Issue(origin, thing, severity, pipeline, seen)
  PROVE  /\ i.origin = origin /\ i.thing = thing /\ i.severity = severity
         /\ i.pipeline = pipeline /\ i.seen = seen
BY DEF Issue

\* Issues made of rows, one for each row, are kept apart by their rows.
OneForEach(issues, rows, issue, thing, origin) ==
  /\ IsFiniteSet(rows) /\ issues = {issue[r] : r \in rows}
  /\ \A r \in rows : /\ issue[r].origin = origin /\ issue[r].thing = thing[r]
                     /\ issue[r].severity \in {"CRITICAL", "WARNING"} /\ issue[r].seen \in Int
                     /\ thing[r] \in Int
  /\ \A q, r \in rows : thing[q] = thing[r] => issue[q] = issue[r]
  /\ origin \in DOMAIN OriginOrder

OfOrigin(issues, origin) == IssuesKept(issues) /\ \A i \in issues : i.origin = origin

LEMMA RowsMakeIssues ==
  ASSUME NEW issues, NEW rows, NEW issue, NEW thing, NEW origin,
         OneForEach(issues, rows, issue, thing, origin)
  PROVE  OfOrigin(issues, origin)
<1>1. IsFiniteSet(issues)
  BY ImageIsFinite DEF OneForEach
<1> QED
  BY <1>1 DEF OfOrigin, IssuesKept, OneForEach

\* Issues of different origins are kept apart by their origins.
LEMMA OriginsApart ==
  ASSUME NEW some, IssuesKept(some), NEW more, NEW origin, OfOrigin(more, origin),
         \A i \in some : i.origin # origin
  PROVE  IssuesKept(some \cup more)
<1>1. IsFiniteSet(some \cup more)
  BY FS_Union DEF IssuesKept, OfOrigin
<1> QED
  BY <1>1 DEF IssuesKept, OfOrigin

LEMMA OriginsAre ==
  /\ {"ALERT", "SOURCE", "PIPELINE", "VALIDATION"} \subseteq DOMAIN OriginOrder
  /\ \A condition : Critical(condition) \in {"CRITICAL", "WARNING"}
BY DEF OriginOrder, Critical

LEMMA AlertIssuesKept ==
  ASSUME NEW rows, AlertsShaped(rows.alerts)
  PROVE  OfOrigin(AlertIssues(rows), "ALERT")
<1> DEFINE issue == [a \in rows.alerts |-> Issue("ALERT", a.key, a.severity, a.pipeline, a.seen)]
           thing == [a \in rows.alerts |-> a.key]
<1>1. AlertIssues(rows) = {issue[a] : a \in rows.alerts}
  BY DEF AlertIssues
<1>2. ASSUME NEW a \in rows.alerts
      PROVE  /\ issue[a].origin = "ALERT" /\ issue[a].thing = thing[a] /\ thing[a] = a.key
             /\ issue[a].severity = a.severity /\ issue[a].seen = a.seen
  BY DEF Issue
<1> HIDE DEF issue, thing
<1>3. OneForEach(AlertIssues(rows), rows.alerts, issue, thing, "ALERT")
  BY <1>1, <1>2, OriginsAre DEF OneForEach, AlertsShaped
<1> QED
  BY <1>3, RowsMakeIssues

LEMMA SourceIssuesKept ==
  ASSUME NEW sources, SourcesShaped(sources), NEW rows \in SUBSET sources,
         NEW issues,
         issues = {Issue("SOURCE", s.source, Critical(s.status = "DISCONNECTED"), 0, 0) : s \in rows}
  PROVE  OfOrigin(issues, "SOURCE")
<1> DEFINE issue == [s \in rows |-> Issue("SOURCE", s.source, Critical(s.status = "DISCONNECTED"), 0, 0)]
           thing == [s \in rows |-> s.source]
<1>1. issues = {issue[s] : s \in rows}
  OBVIOUS
<1>2. ASSUME NEW s \in rows
      PROVE  /\ issue[s].origin = "SOURCE" /\ issue[s].thing = thing[s] /\ thing[s] = s.source
             /\ issue[s].severity = Critical(s.status = "DISCONNECTED") /\ issue[s].seen = 0
  BY DEF Issue
<1>3. IsFiniteSet(rows)
  BY FS_Subset DEF SourcesShaped
<1> HIDE DEF issue, thing
<1>4. OneForEach(issues, rows, issue, thing, "SOURCE")
  BY <1>1, <1>2, <1>3, OriginsAre DEF OneForEach, SourcesShaped
<1> QED
  BY <1>4, RowsMakeIssues

LEMMA PipelineIssuesKept ==
  ASSUME NEW rows, PipelinesShaped(rows.pipelines)
  PROVE  OfOrigin(PipelineIssues(rows), "PIPELINE")
<1> DEFINE own == {p \in rows.pipelines : p.status \in {"FAILED", "WARNING"} /\ ~StandsFor(rows, p)}
           issue == [p \in own |->
                       Issue("PIPELINE", p.pipeline, Critical(p.status = "FAILED"), p.pipeline, p.seen)]
           thing == [p \in own |-> p.pipeline]
<1>1. PipelineIssues(rows) = {issue[p] : p \in own}
  BY DEF PipelineIssues
<1>2. ASSUME NEW p \in own
      PROVE  /\ issue[p].origin = "PIPELINE" /\ issue[p].thing = thing[p] /\ thing[p] = p.pipeline
             /\ issue[p].severity = Critical(p.status = "FAILED") /\ issue[p].seen = p.seen
  BY DEF Issue
<1>3. own \in SUBSET rows.pipelines
  OBVIOUS
<1>4. IsFiniteSet(own)
  BY <1>3, FS_Subset DEF PipelinesShaped
<1> HIDE DEF issue, thing, own
<1>5. OneForEach(PipelineIssues(rows), own, issue, thing, "PIPELINE")
  BY <1>1, <1>2, <1>3, <1>4, OriginsAre DEF OneForEach, PipelinesShaped
<1> QED
  BY <1>5, RowsMakeIssues

LEMMA ValidationIssuesKept ==
  ASSUME NEW rows, ValidationsShaped(rows.validations)
  PROVE  OfOrigin(ValidationIssues(rows), "VALIDATION")
<1> DEFINE own == {v \in rows.validations : v.run \notin CoveredValidations(rows)}
           issue == [v \in own |-> Issue("VALIDATION", v.run, Critical(v.severity = "BLOCKING"),
                                         v.pipeline, v.seen)]
           thing == [v \in own |-> v.run]
<1>1. ValidationIssues(rows) = {issue[v] : v \in own}
  BY DEF ValidationIssues
<1>2. ASSUME NEW v \in own
      PROVE  /\ issue[v].origin = "VALIDATION" /\ issue[v].thing = thing[v] /\ thing[v] = v.run
             /\ issue[v].severity = Critical(v.severity = "BLOCKING") /\ issue[v].seen = v.seen
  BY DEF Issue
<1>3. own \in SUBSET rows.validations
  OBVIOUS
<1>4. IsFiniteSet(own)
  BY <1>3, FS_Subset DEF ValidationsShaped
<1> HIDE DEF issue, thing, own
<1>5. OneForEach(ValidationIssues(rows), own, issue, thing, "VALIDATION")
  BY <1>1, <1>2, <1>3, <1>4, OriginsAre DEF OneForEach, ValidationsShaped
<1> QED
  BY <1>5, RowsMakeIssues

LEMMA IssuesAreKept ==
  ASSUME NEW rows, NEW end, NEW scope, Shaped(rows, end, scope)
  PROVE  IssuesKept(Issues(rows))
<1>1. OfOrigin(AlertIssues(rows), "ALERT")
  BY AlertIssuesKept DEF Shaped
<1>2. OfOrigin(SourceIssues(rows), "SOURCE")
  <2>1. IssueSources(rows) \in SUBSET rows.sources
    BY DEF IssueSources
  <2> QED
    BY <2>1, SourceIssuesKept DEF Shaped, SourceIssues
<1>3. OfOrigin(PipelineIssues(rows), "PIPELINE")
  BY PipelineIssuesKept DEF Shaped
<1>4. OfOrigin(ValidationIssues(rows), "VALIDATION")
  BY ValidationIssuesKept DEF Shaped
<1>5. IssuesKept(AlertIssues(rows) \cup SourceIssues(rows))
  BY <1>1, <1>2, OriginsApart DEF OfOrigin
<1>6. IssuesKept((AlertIssues(rows) \cup SourceIssues(rows)) \cup PipelineIssues(rows))
  BY <1>1, <1>2, <1>3, <1>5, OriginsApart DEF OfOrigin
<1>7. IssuesKept(((AlertIssues(rows) \cup SourceIssues(rows)) \cup PipelineIssues(rows))
                   \cup ValidationIssues(rows))
  BY <1>1, <1>2, <1>3, <1>4, <1>6, OriginsApart DEF OfOrigin
<1> QED
  BY <1>7 DEF Issues

LEMMA ReviewsAreKept ==
  ASSUME ShapedInv
  PROVE  IssuesKept(Reviews(request.rows))
<1> DEFINE failing(p) == {x \in Of(HistoryWithin(request.end - Window, request.end), p) :
                            x.outcome.result = "FAILED"}
           failed == WithStatus(CurrentRuns, "FAILED")
           checked == {p \in Pipelines : failing(p) # {}}
           critical(p) == Critical(\E x \in failing(p) : x.outcome.severity = "BLOCKING")
           troubled == {s \in request.rows.sources : s.status \in {"DISCONNECTED", "WARNING"}}
           ofRun == [r \in failed |-> Issue("PIPELINE", r.pipeline, "CRITICAL", r.pipeline, 0)]
           ofCheck == [p \in checked |-> Issue("VALIDATION", p, critical(p), p, 0)]
           pipelineOf == [r \in failed |-> r.pipeline]
           itself == [p \in checked |-> p]
           runIssues == {ofRun[r] : r \in failed}
           checkIssues == {ofCheck[p] : p \in checked}
           sourceIssues == {Issue("SOURCE", s.source, Critical(s.status = "DISCONNECTED"), 0, 0) :
                              s \in troubled}
<1>1. Reviews(request.rows) = runIssues \cup checkIssues \cup sourceIssues
  BY DEF Reviews
<1>2. OfOrigin(runIssues, "PIPELINE")
  <2>1. failed \in SUBSET request.rows.runs
    BY DEF WithStatus, CurrentRuns, Within
  <2>2. IsFiniteSet(failed)
    BY <2>1, FS_Subset DEF ShapedInv, Shaped, RunsShaped
  <2>3. \A r \in failed : r.pipeline \in Int
    BY <2>1, ReferencesAssumption DEF ShapedInv, Shaped, RunsShaped
  <2>4. \A r \in failed :
          /\ ofRun[r].origin = "PIPELINE" /\ ofRun[r].thing = pipelineOf[r]
          /\ ofRun[r].severity = "CRITICAL" /\ ofRun[r].seen = 0 /\ pipelineOf[r] = r.pipeline
    BY DEF Issue
  <2>5. \A q, r \in failed : q.pipeline = r.pipeline => ofRun[q] = ofRun[r]
    OBVIOUS
  <2> HIDE DEF failed, ofRun, pipelineOf
  <2>6. OneForEach(runIssues, failed, ofRun, pipelineOf, "PIPELINE")
    BY <2>2, <2>3, <2>4, <2>5, OriginsAre DEF OneForEach
  <2> HIDE DEF runIssues
  <2> QED
    BY <2>6, RowsMakeIssues
<1>3. OfOrigin(checkIssues, "VALIDATION")
  <2>1. checked \in SUBSET Pipelines
    OBVIOUS
  <2>2. IsFiniteSet(checked)
    BY <2>1, FS_Subset, ReferencesAssumption
  <2>3. \A p \in checked :
          /\ ofCheck[p].origin = "VALIDATION" /\ ofCheck[p].thing = itself[p]
          /\ ofCheck[p].severity = critical(p) /\ ofCheck[p].seen = 0 /\ itself[p] = p
    BY DEF Issue
  <2>4. \A p \in checked : critical(p) \in {"CRITICAL", "WARNING"} /\ p \in Int
    BY <2>1, OriginsAre, ReferencesAssumption
  <2> HIDE DEF checked, ofCheck, itself, critical
  <2>5. OneForEach(checkIssues, checked, ofCheck, itself, "VALIDATION")
    BY <2>2, <2>3, <2>4, OriginsAre DEF OneForEach
  <2> HIDE DEF checkIssues
  <2> QED
    BY <2>5, RowsMakeIssues
<1>4. OfOrigin(sourceIssues, "SOURCE")
  <2>1. troubled \in SUBSET request.rows.sources
    OBVIOUS
  <2> HIDE DEF troubled
  <2> QED
    BY <2>1, SourceIssuesKept DEF ShapedInv, Shaped
<1> HIDE DEF runIssues, checkIssues, sourceIssues
<1>5. IssuesKept(runIssues \cup checkIssues)
  BY <1>2, <1>3, OriginsApart DEF OfOrigin
<1>6. IssuesKept((runIssues \cup checkIssues) \cup sourceIssues)
  BY <1>2, <1>3, <1>4, <1>5, OriginsApart DEF OfOrigin
<1> QED
  BY <1>1, <1>6

-----------------------------------------------------------------------------
\* The pipelines of the monitoring answer: those in trouble come first.
HealthAhead(rows) == [p \in rows |-> {q \in rows : HealthBefore(q, p)}]

LEMMA HealthOrdered ==
  ASSUME NEW rows, PipelinesShaped(rows)
  PROVE  OrdersRows(HealthAhead(rows), rows)
<1>1. /\ PipelineOrder["FAILED"] = 0 /\ PipelineOrder["WARNING"] = 1 /\ PipelineOrder["RUNNING"] = 2
      /\ PipelineOrder["HEALTHY"] = 3 /\ PipelineOrder["DISABLED"] = 4
  BY DEF PipelineOrder
<1>2. /\ \A p \in rows : PipelineOrder[p.status] \in Int /\ p.pipeline \in Int
      /\ \A p, q \in rows : PipelineOrder[p.status] = PipelineOrder[q.status] => p.status = q.status
      /\ \A p, q \in rows : p.pipeline = q.pipeline => p = q
  BY <1>1 DEF PipelinesShaped
<1> QED
  BY <1>2 DEF OrdersRows, HealthAhead, HealthBefore

LEMMA HealthSorts ==
  ASSUME NEW rows, PipelinesShaped(rows)
  PROVE  Sorts(InOrder(rows, HealthBefore), rows, HealthAhead(rows))
<1>1. \A p \in rows : HealthAhead(rows)[p] = {q \in rows : HealthBefore(q, p)}
  BY DEF HealthAhead
<1> DEFINE place(n) == CHOOSE p \in rows : Cardinality({q \in rows : HealthBefore(q, p)}) = n - 1
<1>2. ASSUME NEW n \in 1..Cardinality(rows),
             \E p \in rows : Cardinality(HealthAhead(rows)[p]) = n - 1
      PROVE  place(n) \in rows /\ Cardinality(HealthAhead(rows)[place(n)]) = n - 1
  <2>1. \E p \in rows : Cardinality({q \in rows : HealthBefore(q, p)}) = n - 1
    BY <1>1, <1>2
  <2>2. place(n) \in rows /\ Cardinality({q \in rows : HealthBefore(q, place(n))}) = n - 1
    BY <2>1
  <2> QED
    BY <1>1, <2>2
<1>3. InOrder(rows, HealthBefore) = [n \in 1..Cardinality(rows) |-> place(n)]
  BY DEF InOrder
<1> HIDE DEF place
<1>4. InOrder(rows, HealthBefore) =
        [n \in 1..Cardinality(rows) |-> InOrder(rows, HealthBefore)[n]]
  BY <1>3
<1> QED
  BY <1>2, <1>3, <1>4, HealthOrdered, PlacesSort DEF PipelinesShaped

\* Rows that come before all others take the first places.
LEMMA FirstPlaces ==
  ASSUME NEW rows, IsFiniteSet(rows), NEW below, NEW sorted, OrdersRows(below, rows),
         Sorts(sorted, rows, below), NEW first \in SUBSET rows,
         \A p \in first, q \in rows \ first : p \in below[q],
         NEW i \in 1..Len(sorted)
  PROVE  sorted[i] \in first <=> i <= Cardinality(first)
<1>1. IsFiniteSet(first) /\ Cardinality(first) \in Nat
  BY FS_Subset, FS_CardinalityType
<1>2. sorted[i] \in rows /\ Cardinality(below[sorted[i]]) = i - 1
  BY DEF Sorts
<1>3. IsFiniteSet(below[sorted[i]])
  BY <1>2, FS_Subset DEF OrdersRows
<1>4. ASSUME sorted[i] \in first PROVE i <= Cardinality(first)
  <2>1. below[sorted[i]] \in SUBSET first /\ below[sorted[i]] # first
    BY <1>2, <1>4 DEF OrdersRows
  <2>2. Cardinality(below[sorted[i]]) <= Cardinality(first) /\ Cardinality(below[sorted[i]]) # Cardinality(first)
    BY <1>1, <2>1, FS_Subset, Zenon
  <2> QED
    BY <1>1, <1>2, <2>2
<1>5. ASSUME sorted[i] \notin first PROVE Cardinality(first) < i
  <2>1. first \subseteq below[sorted[i]]
    BY <1>2, <1>5
  <2>2. Cardinality(first) <= Cardinality(below[sorted[i]])
    BY <1>3, <2>1, PartIsNotMore, Zenon
  <2> QED
    BY <1>1, <1>2, <2>2
<1> QED
  BY <1>1, <1>4, <1>5

\* As many of them are among the first rows as there are, or as fit.
LEMMA FirstAreCounted ==
  ASSUME NEW rows, IsFiniteSet(rows), NEW below, NEW sorted, OrdersRows(below, rows),
         Sorts(sorted, rows, below), NEW first \in SUBSET rows,
         \A p \in first, q \in rows \ first : p \in below[q],
         NEW limit \in Nat,
         NEW taken, taken = {sorted[i] : i \in {i \in 1..Len(sorted) : i <= limit /\ sorted[i] \in first}}
  PROVE  Cardinality(taken) =
           IF Cardinality(first) < limit THEN Cardinality(first) ELSE limit
<1> DEFINE n == Cardinality(first)
           size == IF n < limit THEN n ELSE limit
           place == [i \in 1..size |-> sorted[i]]
<1>1. n \in Nat /\ IsFiniteSet(first)
  BY FS_Subset, FS_CardinalityType
<1>2. n <= Len(sorted) /\ Len(sorted) \in Nat
  <2>1. n <= Cardinality(rows)
    BY PartIsNotMore
  <2> QED
    BY <2>1, FS_CardinalityType DEF Sorts
<1>3. \A i \in 1..Len(sorted) : sorted[i] \in first <=> i <= n
  BY FirstPlaces
<1>4. size \in Nat /\ \A i \in Int : i \in 1..size <=> i \in 1..Len(sorted) /\ i <= limit /\ i <= n
  BY <1>1, <1>2
<1>5. {i \in 1..Len(sorted) : i <= limit /\ sorted[i] \in first} = 1..size
  BY <1>1, <1>3, <1>4
<1> HIDE DEF size
<1>6. taken = {place[i] : i \in 1..size}
  BY <1>5
<1>7. ASSUME NEW i \in 1..size, NEW j \in 1..size, sorted[i] = sorted[j] PROVE i = j
  <2>1. i \in 1..Len(sorted) /\ j \in 1..Len(sorted)
    BY <1>4
  <2>2. ~(i < j) /\ ~(j < i)
    BY <1>7, <2>1 DEF Sorts, OrdersRows
  <2> QED
    BY <2>2
<1>8. place \in Bijection(1..size, taken)
  BY <1>6, <1>7 DEF Bijection, Injection, IsInjective, Surjection
<1>9. IsFiniteSet(1..size) /\ Cardinality(1..size) = size
  <2>1. PICK one \in Int : one = 1
    OBVIOUS
  <2>2. IsFiniteSet(one..size) /\ Cardinality(one..size) = IF one > size THEN 0 ELSE size - one + 1
    BY <1>4, FS_Interval
  <2> QED
    BY <1>4, <2>1, <2>2
<1>10. Cardinality(taken) = Cardinality(1..size)
  <2>1. ExistsBijection(1..size, taken)
    BY <1>8 DEF ExistsBijection
  <2> QED
    BY <1>9, <2>1, FS_Bijection, Zenon
<1> QED
  BY <1>9, <1>10 DEF size

LEMMA TroubleComesFirst ==
  ASSUME NEW rows, PipelinesShaped(rows), NEW p \in rows, NeedsAttention(p),
         NEW q \in rows, ~NeedsAttention(q)
  PROVE  HealthBefore(p, q)
BY DEF PipelinesShaped, NeedsAttention, HealthBefore, PipelineOrder

LEMMA AttentionIsCounted ==
  ASSUME NEW rows, PipelinesShaped(rows.pipelines),
         NEW needing, needing = {p \in rows.pipelines : NeedsAttention(p)}
  PROVE  Cardinality(Attention(rows)) =
           IF Cardinality(needing) < HealthLimit THEN Cardinality(needing) ELSE HealthLimit
<1> DEFINE sorted == PipelineHealth(rows)
           below == HealthAhead(rows.pipelines)
           shown == Shown(sorted, HealthLimit)
           taken == {sorted[i] : i \in {i \in 1..Len(sorted) : i <= HealthLimit /\ sorted[i] \in needing}}
<1>1. OrdersRows(below, rows.pipelines) /\ Sorts(sorted, rows.pipelines, below)
  BY HealthOrdered, HealthSorts DEF PipelineHealth
<1>2. \A p \in needing, q \in rows.pipelines \ needing : p \in below[q]
  BY TroubleComesFirst DEF HealthAhead
<1>3. IsFiniteSet(rows.pipelines) /\ needing \in SUBSET rows.pipelines /\ HealthLimit \in Nat \ {0}
  BY MonitoringAssumption DEF PipelinesShaped
<1> HIDE DEF sorted, below
<1>4. sorted \in Seq(rows.pipelines)
  BY <1>1 DEF Sorts
<1>5. /\ shown \in Seq(rows.pipelines)
      /\ Len(shown) = IF Len(sorted) < HealthLimit THEN Len(sorted) ELSE HealthLimit
      /\ \A i \in 1..Len(shown) : shown[i] = sorted[i] /\ i \in 1..Len(sorted)
  BY <1>3, <1>4, ShownIs
<1>6. Attention(rows) = {p \in {shown[i] : i \in 1..Len(shown)} : NeedsAttention(p)}
  BY <1>5 DEF Attention, Range, sorted
<1> HIDE DEF shown
<1>7. \A i \in 1..Len(sorted) : i \in 1..Len(shown) <=> i <= HealthLimit
  BY <1>3, <1>4, <1>5
<1>8. \A i \in 1..Len(sorted) : sorted[i] \in rows.pipelines
  BY <1>4
<1>9. Attention(rows) = taken
  BY <1>5, <1>6, <1>7, <1>8
<1> HIDE DEF taken
<1>10. Cardinality(taken) =
         IF Cardinality(needing) < HealthLimit THEN Cardinality(needing) ELSE HealthLimit
  BY <1>1, <1>2, <1>3, FirstAreCounted DEF taken
<1> QED
  BY <1>9, <1>10

-----------------------------------------------------------------------------
\* The lists keep the worst of what was read, for any limits: the critical
\* before the warnings, and the pipelines in trouble before the others.
THEOREM CutKeepsWorstSafe == Spec => []CutKeepsWorst
<1>1. ShapedInv => CutKeepsWorst
  <2> SUFFICES ASSUME ShapedInv PROVE CutKeepsWorst
    OBVIOUS
  <2> DEFINE KeepsCritical(issues) ==
               LET shown == Shown(InOrder(issues, IssueBefore), IssueLimit)
               IN (\E i \in DOMAIN shown : shown[i].severity = "WARNING") =>
                    \A i \in issues : i.severity = "CRITICAL" => \E n \in DOMAIN shown : shown[n] = i
             needing == {p \in request.rows.pipelines : NeedsAttention(p)}
  <2>1. ASSUME NEW issues, IssuesKept(issues) PROVE KeepsCritical(issues)
    <3> DEFINE shown == Shown(InOrder(issues, IssueBefore), IssueLimit)
    <3>1. ASSUME NEW n \in DOMAIN shown, shown[n].severity = "WARNING",
                 NEW i \in issues, i.severity = "CRITICAL"
          PROVE  \E m \in DOMAIN shown : shown[m] = i
      BY <2>1, <3>1, CriticalsAreKept
    <3> QED
      BY <3>1
  <2>2. KeepsCritical(Reviews(request.rows))
    BY <2>1, ReviewsAreKept
  <2>3. KeepsCritical(Issues(request.rows))
    BY <2>1, IssuesAreKept DEF ShapedInv
  <2>4. Cardinality(Attention(request.rows)) =
          (IF Cardinality(needing) < HealthLimit THEN Cardinality(needing) ELSE HealthLimit)
    BY AttentionIsCounted DEF ShapedInv, Shaped
  <2> QED
    BY <2>2, <2>3, <2>4 DEF CutKeepsWorst
<1> QED
  BY InitShaped, StepShaped, <1>1, PTL DEF Spec
=============================================================================
