----------------------------- MODULE Monitoring -----------------------------
(***************************************************************************)
(* The monitoring, dashboard and health-metrics answers: each is computed  *)
(* from several queries, each in a transaction of its own, over records    *)
(* that may change between two of them. Figures are the samples they       *)
(* count; percentages, names, messages and the activity list are left out. *)
(***************************************************************************)
EXTENDS OperationalRecords, SequencesExt

CONSTANTS
  Window,          \* length of the requested window
  Bucket,          \* length of the buckets of its points
  IssueLimit,      \* issues and reviews shown
  HealthLimit,     \* pipelines shown by the monitoring answer
  MaxDisturbances, \* writes that may fall between two queries of a request
  Scopes           \* filters of a request: a pipeline, a source, or neither

ASSUME MonitoringAssumption ==
  /\ Window \in Nat \ {0} /\ Bucket \in Nat \ {0}
  /\ IssueLimit \in Nat \ {0} /\ HealthLimit \in Nat \ {0}

VARIABLE request

vars == <<records, request>>

-----------------------------------------------------------------------------
(* What the queries return.                                                *)

NoScope == [pipeline |-> 0, source |-> 0]
InScope(p, scope) ==
  /\ scope.pipeline \in {0, p}
  /\ scope.source \in {0, SourceOf[p]}

GetPipelines(scope) ==
  {[pipeline |-> p, source |-> SourceOf[p], enabled |-> enabled[p],
    status |-> OperationalStatus(p), latest |-> LatestRun(p).id,
    seen |-> LatestRun(p).started] :
     p \in {p \in Registered : InScope(p, scope)}}

GetSources(scope) ==
  {[source |-> s, status |-> sourceStatus[s]] :
     s \in {s \in Sources :
              /\ scope.source \in {0, s}
              /\ scope.pipeline # 0 => /\ scope.pipeline \in Registered
                                      /\ SourceOf[scope.pipeline] = s}}

GetActiveAlerts(scope) ==
  {[key |-> a.key, severity |-> a.kind.severity, run |-> a.run, execution |-> a.execution,
    vendor |-> a.kind.vendor, seen |-> a.seen, pipeline |-> RunOf(a.run).pipeline,
    source |-> SourceOf[RunOf(a.run).pipeline],
    sourceStatus |-> sourceStatus[SourceOf[RunOf(a.run).pipeline]]] :
     a \in UNION {ActiveAlerts(p) : p \in {p \in Pipelines : InScope(p, scope)}}}

\* Each row is joined with the active alert that represents it.
GetLatestFailedValidations(scope) ==
  LET failed == {x \in executions : x.outcome.result = "FAILED" /\
                   \E p \in Pipelines : InScope(p, scope) /\ LatestRun(p).id = x.run}
      Represented(x) == {a.key : a \in {a \in alerts :
                           a.execution = x.run /\ a.active}}
  IN {[run |-> x.run, pipeline |-> RunOf(x.run).pipeline, severity |-> x.outcome.severity,
       seen |-> x.at, alerts |-> Represented(x)] : x \in failed}

GetRuns(scope, from, to) ==
  {r \in runs : InScope(r.pipeline, scope) /\ from <= r.started /\ r.started < to}

\* Mutant: the end of the window is included.
HistoryInclusive(scope, from, to) ==
  {[pipeline |-> RunOf(x.run).pipeline, outcome |-> x.outcome,
    at |-> x.at, run |-> x.run] :
     x \in {x \in executions : InScope(RunOf(x.run).pipeline, scope)
                               /\ from <= x.at /\ x.at <= to}}

GetValidationHistory(scope, from, to) ==
  {[pipeline |-> RunOf(x.run).pipeline, outcome |-> x.outcome,
    at |-> x.at, run |-> x.run] :
     x \in {x \in executions : InScope(RunOf(x.run).pipeline, scope)
                               /\ from <= x.at /\ x.at < to}}

-----------------------------------------------------------------------------
(* The issues: an alert stands for its run, its validation and, when it    *)
(* tells why, for its disconnected source; a source issue stands for the   *)
(* pipelines that read the source.                                         *)

CoveredRuns(rows) == {a.run : a \in rows.alerts}
CoveredValidations(rows) == {a.execution : a \in rows.alerts}
CoveredSources(rows) ==
  {a.source : a \in {a \in rows.alerts : a.sourceStatus = "DISCONNECTED" /\ a.vendor}}

Critical(condition) == IF condition THEN "CRITICAL" ELSE "WARNING"
Issue(origin, thing, severity, pipeline, seen) ==
  [origin |-> origin, thing |-> thing, severity |-> severity, pipeline |-> pipeline,
   seen |-> seen]

AlertIssues(rows) ==
  {Issue("ALERT", a.key, a.severity, a.pipeline, a.seen) : a \in rows.alerts}

IssueSources(rows) ==
  {s \in rows.sources : s.status \in {"DISCONNECTED", "WARNING"}
                        /\ s.source \notin CoveredSources(rows)}
SourceIssues(rows) ==
  {Issue("SOURCE", s.source, Critical(s.status = "DISCONNECTED"), 0, 0) :
     s \in IssueSources(rows)}

\* Mutant: any alert of the pipeline covers it.
CoversPipeline(rows, p) ==
  \/ \E a \in rows.alerts : a.pipeline = p.pipeline \/ a.source = p.source
  \/ \E s \in IssueSources(rows) : s.source = p.source

StandsFor(rows, p) ==
  \/ p.latest \in CoveredRuns(rows)
  \/ \E s \in IssueSources(rows) : s.source = p.source

PipelineIssues(rows) ==
  {Issue("PIPELINE", p.pipeline, Critical(p.status = "FAILED"), p.pipeline, p.seen) :
     p \in {p \in rows.pipelines : p.status \in {"FAILED", "WARNING"} /\ ~StandsFor(rows, p)}}

ValidationIssues(rows) ==
  {Issue("VALIDATION", v.run, Critical(v.severity = "BLOCKING"), v.pipeline, v.seen) :
     v \in {v \in rows.validations : v.run \notin CoveredValidations(rows)}}

\* The failed validation an issue carries: of a check it is the check's, of an
\* alert the one that the alert represents, whatever pipeline that belongs to.
Carries(rows, issue, v) ==
  \/ issue.origin = "VALIDATION" /\ issue.thing = v.run
  \/ /\ issue.origin = "ALERT"
     /\ \E a \in rows.alerts : a.key = issue.thing /\ a.execution = v.run

\* Mutant: a pipeline speaks for its checks.
IssuesWithoutChecks(rows) == AlertIssues(rows) \cup SourceIssues(rows) \cup PipelineIssues(rows)

Issues(rows) ==
  AlertIssues(rows) \cup SourceIssues(rows) \cup PipelineIssues(rows) \cup ValidationIssues(rows)

OriginOrder == [ALERT |-> 0, PIPELINE |-> 1, SOURCE |-> 2, VALIDATION |-> 3]

\* Mutant: the latest first, whatever its severity.
LatestFirst(i, j) ==
  \/ i.seen > j.seen
  \/ i.seen = j.seen /\ OriginOrder[i.origin] < OriginOrder[j.origin]
  \/ i.seen = j.seen /\ i.origin = j.origin /\ i.thing < j.thing

\* Severity, then the latest, then the key, which begins with the origin.
IssueBefore(i, j) ==
  LET rank(issue) == <<IF issue.severity = "CRITICAL" THEN 0 ELSE 1, MaxTime - issue.seen,
                       OriginOrder[issue.origin], issue.thing>>
      a == rank(i)
      b == rank(j)
  IN \E n \in 1..4 : a[n] < b[n] /\ \A m \in 1..(n - 1) : a[m] = b[m]

Shown(items, limit) == SubSeq(items, 1, IF Len(items) < limit THEN Len(items) ELSE limit)

OverallState(rows) ==
  LET severities == {i.severity : i \in Issues(rows)}
  IN IF /\ \A p \in rows.pipelines : ~p.enabled
        /\ \A s \in rows.sources : s.status = "DISABLED"
     THEN "NO_DATA"
     ELSE IF "CRITICAL" \in severities THEN "CRITICAL"
     ELSE IF severities # {} THEN "WARNING" ELSE "HEALTHY"

-----------------------------------------------------------------------------
(* Figures over the current window and the one before.                     *)

\* Mutant: both ends belong to the window.
WithinClosed(rows, from, to) == {r \in rows : from <= r.started /\ r.started <= to}

Within(rows, from, to) == {r \in rows : from <= r.started /\ r.started < to}
Completed(rows) == {r \in rows : r.status \in {"SUCCESS", "FAILED"}}
WithStatus(rows, status) == {r \in rows : r.status = status}

RateMetric(current, previous) ==
  [numerator |-> Cardinality(WithStatus(Completed(current), "SUCCESS")),
   denominator |-> Cardinality(Completed(current)),
   previous |-> Cardinality(Completed(previous))]

\* A point for each bucket with a sample; the last is cut at the end.
Points(rows, start, end) ==
  {LET from == start + Bucket * i
       until == IF from + Bucket < end THEN from + Bucket ELSE end
   IN [start |-> from, end |-> until,
       samples |-> Cardinality({r \in rows : (r.started - start) \div Bucket = i})] :
     i \in {(r.started - start) \div Bucket : r \in rows}}

CurrentRuns == Within(request.rows.runs, request.end - Window, request.end)
PreviousRuns == Within(request.rows.runs, request.end - 2 * Window, request.end - Window)
Of(rows, p) == {r \in rows : r.pipeline = p}

\* The samples of the check of a pipeline that describe it: those of the
\* current window, or else those of the one before.
HistoryWithin(from, to) == {x \in request.rows.history : from <= x.at /\ x.at < to}
Representatives(p) ==
  LET current == Of(HistoryWithin(request.end - Window, request.end), p)
      previous == Of(HistoryWithin(request.end - 2 * Window, request.end - Window), p)
  IN IF current # {} THEN current ELSE previous

\* What the health-metrics answer wants reviewed.
Reviews(rows) ==
  LET failing(p) == {x \in Of(HistoryWithin(request.end - Window, request.end), p) :
                       x.outcome.result = "FAILED"}
  IN {Issue("PIPELINE", r.pipeline, "CRITICAL", r.pipeline, 0) :
        r \in WithStatus(CurrentRuns, "FAILED")}
     \cup {Issue("VALIDATION", p,
                 Critical(\E x \in failing(p) : x.outcome.severity = "BLOCKING"), p, 0) :
             p \in {p \in Pipelines : failing(p) # {}}}
     \cup {Issue("SOURCE", s.source, Critical(s.status = "DISCONNECTED"), 0, 0) :
             s \in {s \in rows.sources : s.status \in {"DISCONNECTED", "WARNING"}}}

PipelineOrder == [FAILED |-> 0, WARNING |-> 1, RUNNING |-> 2, HEALTHY |-> 3, DISABLED |-> 4]

\* Mutant: by name alone.
ByName(p, q) == p.pipeline < q.pipeline

HealthBefore(p, q) ==
  \/ PipelineOrder[p.status] < PipelineOrder[q.status]
  \/ p.status = q.status /\ p.pipeline < q.pipeline

PipelineHealth(rows) == InOrder(rows.pipelines, HealthBefore)
NeedsAttention(p) == p.status \in {"FAILED", "WARNING"}
Attention(rows) == {p \in Range(Shown(PipelineHealth(rows), HealthLimit)) : NeedsAttention(p)}

-----------------------------------------------------------------------------
(* A request reads one query after the other.                              *)

MonitoringReads == <<"pipelines", "sources", "alerts", "validations", "runs">>
\* The dashboard reads the same, the history and the alerts again.
DashboardReads ==
  <<"pipelines", "sources", "alerts", "validations", "runs", "history", "alerts2">>
HealthReads == <<"pipelines", "sources", "runs", "history">>
ReadsOf == [monitoring |-> MonitoringReads,
            dashboard |-> DashboardReads,
            health |-> HealthReads]
Names == {DashboardReads[i] : i \in 1..Len(DashboardReads)}

Idle == [kind |-> "none", scope |-> NoScope, end |-> 0, todo |-> <<>>,
         rows |-> [n \in Names |-> {}], writes |-> 0,
         since |-> {}] \* pipelines registered since they were read: bookkeeping

Query(name) ==
  CASE name = "pipelines" -> GetPipelines(request.scope)
    [] name = "sources" -> GetSources(request.scope)
    [] name \in {"alerts", "alerts2"} -> GetActiveAlerts(request.scope)
    [] name = "validations" -> GetLatestFailedValidations(request.scope)
    [] name = "runs" -> GetRuns(request.scope, request.end - 2 * Window, request.end)
    [] name = "history" ->
         GetValidationHistory(request.scope, request.end - 2 * Window, request.end)

Ask(kind, scope) ==
  /\ request.kind = "none"
  /\ kind = "dashboard" => scope = NoScope
  /\ request' = [Idle EXCEPT !.kind = kind, !.scope = scope, !.end = clock,
                             !.todo = ReadsOf[kind]]
  /\ UNCHANGED records

Read ==
  /\ request.todo # <<>>
  /\ request' = [request EXCEPT !.rows[Head(request.todo)] = Query(Head(request.todo)),
                                !.todo = Tail(@),
                                !.since = IF Head(request.todo) = "pipelines" THEN {} ELSE @]
  /\ UNCHANGED records

Respond ==
  /\ request.kind # "none" /\ request.todo = <<>>
  /\ request' = Idle
  /\ UNCHANGED records

\* A query that fails is answered 503 and nothing else.
Fail ==
  /\ request.todo # <<>>
  /\ request' = Idle
  /\ UNCHANGED records

Write ==
  /\ RecordsWritten
  /\ request.kind # "none" =>
       request.todo # <<>> /\ request.writes < MaxDisturbances
  /\ request' = IF request.kind = "none" THEN request
                ELSE [request EXCEPT !.writes = @ + 1,
                                     !.since = @ \cup (Registered' \ Registered)]

Tick == TimePasses /\ request.kind = "none" /\ UNCHANGED request

Init == RecordsInit /\ request = Idle

Next ==
  \/ \E kind \in DOMAIN ReadsOf, scope \in Scopes : Ask(kind, scope)
  \/ Read
  \/ Respond
  \/ Fail
  \/ Write
  \/ Tick

Spec == Init /\ [][Next]_vars
-----------------------------------------------------------------------------
(* What the answers promise.                                               *)

Answered(kind) == request.kind = kind /\ request.todo = <<>>
Monitored == Answered("monitoring") \/ Answered("dashboard")
Undisturbed == Monitored /\ request.writes = 0
ScopedPipelines == {p \in Registered : InScope(p, request.scope)}

\* The issues leave nothing out by representing one problem by another: an
\* enabled pipeline whose latest run failed, or that reads a disconnected
\* source, is named by an issue or its source is; and each failed check of a
\* latest run is carried by an issue, be it the one of an alert of another
\* pipeline. It concerns AggregationService._issues, which leaves out what an
\* alert or a source issue covers.
ProblemsReported ==
  Undisturbed => \A p \in ScopedPipelines :
    LET named == \E i \in Issues(request.rows) :
          i.pipeline = p \/ (i.origin = "SOURCE" /\ i.thing = SourceOf[p])
    IN /\ enabled[p] /\ LatestRun(p).status = "FAILED" => named
       /\ enabled[p] /\ sourceStatus[SourceOf[p]] = "DISCONNECTED"
            /\ LatestRun(p).status # "RUNNING" => named
       /\ \A x \in executions : x.run = LatestRun(p).id /\ x.outcome.result = "FAILED" =>
            \E i \in Issues(request.rows), v \in request.rows.validations :
              v.run = x.run /\ Carries(request.rows, i, v)

\* A failed pipeline makes the overall state critical, unless its source is
\* in warning and speaks for it. The order of the cases in the pipelines'
\* status query and what the issues cover must agree for this.
FailedIsCritical ==
  Undisturbed => \A p \in ScopedPipelines :
    OperationalStatus(p) = "FAILED" =>
      OverallState(request.rows) = "CRITICAL" \/ sourceStatus[SourceOf[p]] = "WARNING"

\* A healthy overall state hides nothing: no active alert, no source in
\* trouble, no failed check of a latest run, no pipeline in trouble; and the
\* dashboard, which reads the alerts again, counts none.
HealthyHidesNothing ==
  Undisturbed /\ OverallState(request.rows) = "HEALTHY" =>
    /\ \A p \in ScopedPipelines :
         /\ ActiveAlerts(p) = {}
         /\ OperationalStatus(p) \in {"HEALTHY", "RUNNING", "DISABLED"}
         /\ enabled[p] => sourceStatus[SourceOf[p]] \notin {"DISCONNECTED", "WARNING"}
         /\ \A x \in executions : x.run = LatestRun(p).id => x.outcome.result # "FAILED"
    /\ request.rows.alerts2 = {}

\* Lists cut at their limits keep the worst: an issue or a review that is a
\* warning is shown only when all critical ones are, and the dashboard's
\* pipelines requiring attention, which it takes from the monitoring answer
\* after the cut, miss one only when there are more than the answer shows.
CutKeepsWorst ==
  LET KeepsCritical(issues) ==
        LET shown == Shown(InOrder(issues, IssueBefore), IssueLimit)
        IN (\E i \in DOMAIN shown : shown[i].severity = "WARNING") =>
             \A i \in issues : i.severity = "CRITICAL" => \E n \in DOMAIN shown : shown[n] = i
      needing == {p \in request.rows.pipelines : NeedsAttention(p)}
  IN /\ Answered("health") => KeepsCritical(Reviews(request.rows))
     /\ Monitored =>
          /\ KeepsCritical(Issues(request.rows))
          /\ Cardinality(Attention(request.rows)) =
               (IF Cardinality(needing) < HealthLimit THEN Cardinality(needing) ELSE HealthLimit)

\* Each run read counts in one of the two periods.
PeriodsPartitionRuns ==
  /\ CurrentRuns \cap PreviousRuns = {}
  /\ CurrentRuns \cup PreviousRuns = request.rows.runs

\* The points of the current period lie inside it, one after the other.
CurrentPoints == Points(Completed(CurrentRuns), request.end - Window, request.end)
PointsApart == \A x \in CurrentPoints :
  /\ request.end - Window <= x.start /\ x.start < x.end /\ x.end <= request.end
  /\ \A y \in CurrentPoints : x = y \/ x.end <= y.start \/ y.end <= x.start

\* The sum of the naturals that f holds: the size of their disjoint union.
SumOf(f) == Cardinality(UNION {{x} \X (1..f[x]) : x \in DOMAIN f})

ListedPipelines == {row.pipeline : row \in request.rows.pipelines}
MissedPipelines == {p \in request.since : InScope(p, request.scope)}
SumOver(pipelines, figure) ==
  SumOf([p \in pipelines |-> RateMetric(Of(CurrentRuns, p), Of(PreviousRuns, p))[figure]])

\* The points hold each sample once, and the samples and successes of the
\* pipelines listed make up the totals, but for those of pipelines that were
\* registered after the pipelines had been read and before the runs were.
SamplesAddUp ==
  LET total == RateMetric(CurrentRuns, PreviousRuns)
  IN /\ total.denominator = SumOf([x \in CurrentPoints |-> x.samples])
     /\ \A figure \in DOMAIN total :
          total[figure] = SumOver(ListedPipelines, figure) + SumOver(MissedPipelines, figure)

\* The figures of a period add up, however the records change meanwhile: each
\* run read counts in one of the two periods, the points hold each sample
\* once, inside the period, and what the listed pipelines' samples fall short
\* of the totals is that of pipelines too new to be listed, no more, no less.
FiguresAddUp ==
  Monitored \/ Answered("health") => PeriodsPartitionRuns /\ PointsApart /\ SamplesAddUp

\* Each check with a validation in the answer's history is described by a
\* sample of one of the two periods: get_health_metrics takes the last of
\* (current or previous), which fails when both are empty.
HistoryRepresented ==
  Answered("health") => \A x \in request.rows.history : Representatives(x.pipeline) # {}
=============================================================================
