------------------------- MODULE EcommercePipeline -------------------------
(***************************************************************************)
(* The ecommerce pipeline: the Airflow DAG that bootstraps the raw tables, *)
(* runs and tests dbt, collects dbt metadata, measures data health and     *)
(* detects incidents; the jobs its six tasks execute; and the state they   *)
(* share: the warehouse tables, the dbt artifact files and the metadata    *)
(* schema.                                                                 *)
(*                                                                         *)
(* A job is a process that acts for one DAG run.  The process of a DAG     *)
(* run's current task attempt is named after the run; an operator's        *)
(* command line is a process of its own.  A job's statements on the        *)
(* database are READ COMMITTED, so each is a step; what a transaction      *)
(* writes becomes visible in one step, its commit.  A process that dies or *)
(* exits with an error loses what it had not committed.                    *)
(***************************************************************************)
EXTENDS IncidentRules, FiniteSets

CONSTANTS
  Runs,          \* DAG runs that may be triggered
  Operators,     \* operators who run a job from a command line
  Retries,       \* default_args["retries"]
  MaxActiveRuns, \* DAG runs Airflow executes at the same time
  RawContents,   \* contents the sample CSV files may have
  StagingOf,     \* [RawContents -> Contents]: the staging view of raw data
  MartBuilds,    \* [RawContents -> SUBSET Contents]: marts a build may produce
  GivenRows,     \* --started-at and --run-status an operator may give
  MaxClock,      \* bound: time passes by itself until then
  MaxManual,     \* bound: jobs operators start
  NoRun, NoContent, NoArtifact, NoRow, NoHealth, Unread

\* metadata.pipeline_runs: started_at, and whether run_status is SUCCESS.
RunRows == [started : Nat, succeeded : BOOLEAN]

\* A table's rows, as far as measurement and detection can tell them apart.
Contents == [metric : Metrics, schema : Schemas, nulls : [Columns -> Nat]]

ASSUME PipelineAssumption ==
  /\ Runs \cap Operators = {}
  /\ Retries \in Nat
  /\ MaxActiveRuns \in Nat \ {0}
  /\ GivenRows \subseteq RunRows
  /\ RawContents \subseteq Contents /\ RawContents # {}
  /\ StagingOf \in [RawContents -> Contents]
  /\ MartBuilds \in [RawContents -> SUBSET Contents]
  /\ MaxClock \in Nat
  /\ MaxManual \in Nat
  /\ NoRun \notin Runs
  /\ NoContent \notin Contents
  /\ NoRow \notin RunRows

Tasks == {"bootstrap_raw_data", "run_dbt", "test_dbt", "collect_dbt_metadata",
          "collect_data_health_metrics", "detect_data_incidents"}

\* Mutant: collection does not wait for dbt test.
UntestedDownstream ==
  [bootstrap_raw_data          |-> "run_dbt",
   run_dbt                     |-> "collect_dbt_metadata",
   test_dbt                    |-> "collect_dbt_metadata",
   collect_dbt_metadata        |-> "collect_data_health_metrics",
   collect_data_health_metrics |-> "detect_data_incidents"]

\* The chain bootstrap >> run_dbt >> ... of the DAG file.
Downstream == [bootstrap_raw_data          |-> "run_dbt",
               run_dbt                     |-> "test_dbt",
               test_dbt                    |-> "collect_dbt_metadata",
               collect_dbt_metadata        |-> "collect_data_health_metrics",
               collect_data_health_metrics |-> "detect_data_incidents"]

FirstTask == "bootstrap_raw_data"
LastTask  == "detect_data_incidents"

\* The jobs that are told which DAG run they are about.
MetadataJobs == {"collect_dbt_metadata", "collect_data_health_metrics",
               "detect_data_incidents"}

Processes   == Runs \cup Operators
Attempts    == 1 .. Retries + 1
Invocations == [by : Processes, attempt : Nat]
Commands    == {"run", "test"}
NodeResults == [invocation : Invocations, command : Commands]

\* The bootstrap a table's rows come from: bookkeeping, stored nowhere.
NoLoad == [by |-> NoRun, attempt |-> 0]
Loads  == Invocations \cup {NoLoad}

\* metadata.table_health_metrics and metadata.table_schema_snapshots of one
\* run and table, written by one transaction; load is bookkeeping.
Measurements == [metric : Metrics, schema : Schemas, load : Loads]
HealthRows   == [Tables -> Measurements]

ASSUME RecordAssumption ==
  /\ NoArtifact \notin Invocations
  /\ NoHealth \notin HealthRows

VARIABLES
  clock,        \* the time of day, in hours
  dagState,     \* Airflow's state of each DAG run
  startedAt,    \* dag_run.start_date
  tries,        \* attempts started of the run's current task
  beside,       \* who had to do with a run besides itself: bookkeeping
  task,         \* the task each process works on
  step,         \* how far each process got
  target,       \* the DAG run a process acts for
  memory,       \* what the running job has read
  manual,       \* jobs operators have started
  raw,          \* the six raw tables
  marts,        \* the tables dbt builds
  artifacts,    \* run_results.json of dbt run and dbt test
  pipelineRuns, \* metadata.pipeline_runs
  nodeResults,  \* metadata.dbt_node_results
  health,       \* metadata.table_health_metrics, table_schema_snapshots
  incidents,    \* metadata.data_incidents
  evaluated     \* runs whose detection has committed: bookkeeping

airflowVars  == <<dagState, startedAt, tries, beside>>
processVars  == <<task, target, manual>>
warehouse    == <<raw, marts, artifacts>>
metadata     == <<pipelineRuns, nodeResults, health, incidents, evaluated>>
vars == <<clock, airflowVars, processVars, step, memory, warehouse, metadata>>

Steps == {"idle", "started", "loading", "built", "failed", "parsedRun", "parsedTest",
          "resolved", "currentMetrics", "current", "based", "baseMetrics",
          "reading", "finished"}

\* Local variables of the running job; all are lost with the process.
Blank == [given       |-> [started |-> 0, succeeded |-> TRUE], \* arguments
          parsed      |-> {},                        \* node results
          schemas     |-> [t \in Tables |-> Unread], \* information_schema rows
          seen        |-> [t \in Tables |-> Unread], \* measurements
          nulls       |-> [t \in Tables |-> Unread], \* NULL counts
          metrics     |-> NoHealth,                  \* current_metrics
          schema      |-> NoHealth,                  \* current_schema
          base        |-> NoRun,                     \* previous_id
          baseMetrics |-> NoHealth,                  \* previous_metrics
          baseSchemas |-> NoHealth,                  \* previous_schema
          detectedAt  |-> 0]

-----------------------------------------------------------------------------
(***************************************************************************)
(* Locks.  TRUNCATE holds ACCESS EXCLUSIVE on the raw tables until its     *)
(* transaction ends; a table that was counted stays share-locked until the *)
(* counting transaction ends, and reading a staging view locks raw too.    *)
(***************************************************************************)
RawExclusive == \E p \in Processes : step[p] = "loading"

HasRead(p, t) == memory[p].seen[t] # Unread \/ memory[p].nulls[t] # Unread

ShareLocked(t) == \E p \in Processes : HasRead(p, t)

\* A statement waits for the lock of another transaction.
Readable(t) == t \in {"raw", "staging"} => ~RawExclusive

\* What a statement on a table finds: rows, and the load they come from.
Visible(t) ==
  CASE t = "raw"     -> raw
    [] t = "marts"   -> marts
    [] t = "staging" ->
         IF raw.content = NoContent
         THEN raw
         ELSE [raw EXCEPT !.content = StagingOf[raw.content]]

Active(r) == dagState[r] = "running"

NoIncidents == [key \in {} |-> NoValue]

-----------------------------------------------------------------------------
Init ==
  /\ clock = 0
  /\ dagState = [r \in Runs |-> "none"]
  /\ startedAt = [r \in Runs |-> 0]
  /\ tries = [r \in Runs |-> 0]
  /\ beside = [r \in Runs |-> {}]
  /\ task = [p \in Processes |-> FirstTask]
  /\ step = [p \in Processes |-> "idle"]
  /\ target = [p \in Processes |-> IF p \in Runs THEN p ELSE NoRun]
  /\ memory = [p \in Processes |-> Blank]
  /\ manual = 0
  /\ raw = [load |-> NoLoad, content |-> NoContent]
  /\ marts = [load |-> NoLoad, content |-> NoContent]
  /\ artifacts = [c \in Commands |-> NoArtifact]
  /\ pipelineRuns = [r \in Runs |-> NoRow]
  /\ nodeResults = [r \in Runs |-> {}]
  /\ health = [r \in Runs |-> NoHealth]
  /\ incidents = [r \in Runs |-> NoIncidents]
  /\ evaluated = {}

-----------------------------------------------------------------------------
(***************************************************************************)
(* Airflow: DAG runs are triggered, start when there is room, and execute  *)
(* their tasks in order, each with 1 + Retries attempts.                   *)
(***************************************************************************)
Tick ==
  /\ clock < MaxClock
  /\ clock' = clock + 1
  /\ UNCHANGED <<airflowVars, processVars, step, memory, warehouse, metadata>>

Trigger(r) ==
  /\ dagState[r] = "none"
  /\ dagState' = [dagState EXCEPT ![r] = "queued"]
  /\ UNCHANGED <<clock, startedAt, tries, beside, processVars, step, memory,
                 warehouse, metadata>>

AtWork(p) == step[p] # "idle"

\* Who is at it while a run is in progress: other DAG runs, and operators.
InProgress == {q \in Runs : Active(q)} \cup {o \in Operators : AtWork(o)}

\* No two runs start at the same microsecond.
StartDagRun(r) ==
  /\ dagState[r] = "queued"
  /\ Cardinality({q \in Runs : Active(q)}) < MaxActiveRuns
  /\ dagState' = [dagState EXCEPT ![r] = "running"]
  /\ clock' = clock + 1
  /\ startedAt' = [startedAt EXCEPT ![r] = clock']
  /\ beside' = [q \in Runs |-> IF q = r THEN beside[q] \cup InProgress
                              ELSE IF Active(q) THEN beside[q] \cup {r}
                              ELSE beside[q]]
  /\ UNCHANGED <<tries, processVars, step, memory, warehouse, metadata>>

\* Collection is given what to record; detection takes its own time of day
\* before it opens its transaction.
JobStarts(p, job, row) ==
  /\ step' = [step EXCEPT ![p] = "started"]
  /\ memory' = [memory EXCEPT
       ![p].given = IF job = "collect_dbt_metadata" THEN row ELSE Blank.given,
       ![p].detectedAt = IF job = "detect_data_incidents" THEN clock ELSE 0]

\* What the DAG gives: dag_run.start_date and the literal "success".
OwnRow(r) == [started |-> startedAt[r], succeeded |-> TRUE]

StartAttempt(r) ==
  /\ Active(r)
  /\ step[r] = "idle"
  /\ tries[r] < Retries + 1
  /\ tries' = [tries EXCEPT ![r] = @ + 1]
  /\ JobStarts(r, task[r], OwnRow(r))
  /\ UNCHANGED <<clock, dagState, startedAt, beside, processVars, warehouse,
                 metadata>>

\* Mutant: collection is taken for the final task.
SucceedsAtCollection(r) ==
  /\ step[r] = "finished"
  /\ step' = [step EXCEPT ![r] = "idle"]
  /\ \/ /\ task[r] # "collect_dbt_metadata"
        /\ task' = [task EXCEPT ![r] = Downstream[@]]
        /\ tries' = [tries EXCEPT ![r] = 0]
        /\ UNCHANGED dagState
     \/ /\ task[r] = "collect_dbt_metadata"
        /\ dagState' = [dagState EXCEPT ![r] = "success"]
        /\ UNCHANGED <<task, tries>>
  /\ UNCHANGED <<clock, startedAt, beside, target, manual, memory, warehouse,
                 metadata>>

TaskSucceeds(r) ==
  /\ step[r] = "finished"
  /\ step' = [step EXCEPT ![r] = "idle"]
  /\ \/ /\ task[r] # LastTask
        /\ task' = [task EXCEPT ![r] = Downstream[@]]
        /\ tries' = [tries EXCEPT ![r] = 0]
        /\ UNCHANGED dagState
     \/ /\ task[r] = LastTask
        /\ dagState' = [dagState EXCEPT ![r] = "success"]
        /\ UNCHANGED <<task, tries>>
  /\ UNCHANGED <<clock, startedAt, beside, target, manual, memory, warehouse,
                 metadata>>

\* Mutant: the run is failed one attempt too late.
ExitOffByOne(p) ==
  /\ step' = [step EXCEPT ![p] = "idle"]
  /\ memory' = [memory EXCEPT ![p] = Blank]
  /\ dagState' = IF p \in Runs /\ tries[p] > Retries + 1
                 THEN [dagState EXCEPT ![p] = "failed"]
                 ELSE dagState
  /\ target' = IF p \in Operators
               THEN [target EXCEPT ![p] = NoRun]
               ELSE target
  /\ UNCHANGED <<clock, startedAt, tries, beside, task, manual, warehouse,
                 metadata>>

(***************************************************************************)
(* A process ends without success: the transaction rolls back, locks are   *)
(* released, and a task attempt is followed by a retry while one is left.  *)
(***************************************************************************)
Exit(p) ==
  /\ step' = [step EXCEPT ![p] = "idle"]
  /\ memory' = [memory EXCEPT ![p] = Blank]
  /\ dagState' = IF p \in Runs /\ tries[p] = Retries + 1
                 THEN [dagState EXCEPT ![p] = "failed"]
                 ELSE dagState
  /\ target' = IF p \in Operators
               THEN [target EXCEPT ![p] = NoRun]
               ELSE target
  /\ UNCHANGED <<clock, startedAt, tries, beside, task, manual, warehouse,
                 metadata>>

\* Worker or server failure, execution_timeout, invalid CSV data, a failing
\* dbt test, or an exit status lost after the work was committed.
JobCrashes(p) ==
  /\ AtWork(p)
  /\ Exit(p)

-----------------------------------------------------------------------------
(***************************************************************************)
(* Operators run any job by hand.  The metadata jobs are about a DAG run,  *)
(* which need not be recorded, nor ever have started; collection records   *)
(* it with the start and the status the operator gives.                    *)
(***************************************************************************)
OperatorStarts(o, job, r, row) ==
  /\ step[o] = "idle"
  /\ manual < MaxManual
  /\ r \in Runs <=> job \in MetadataJobs
  /\ manual' = manual + 1
  /\ task' = [task EXCEPT ![o] = job]
  /\ target' = [target EXCEPT ![o] = r]
  /\ JobStarts(o, job, row)
  /\ beside' = [q \in Runs |-> IF Active(q) \/ q = r THEN beside[q] \cup {o}
                              ELSE beside[q]]
  /\ UNCHANGED <<clock, dagState, startedAt, tries, warehouse, metadata>>

OperatorReturns(o) ==
  /\ step[o] = "finished"
  /\ step' = [step EXCEPT ![o] = "idle"]
  /\ target' = [target EXCEPT ![o] = NoRun]
  /\ UNCHANGED <<clock, airflowVars, task, manual, memory, warehouse, metadata>>

-----------------------------------------------------------------------------
(***************************************************************************)
(* bootstrap_raw_data: one transaction that truncates and reloads.         *)
(***************************************************************************)
At(p, job, label) == task[p] = job /\ step[p] = label

Advance(p, label) ==
  /\ step' = [step EXCEPT ![p] = label]
  /\ UNCHANGED <<clock, airflowVars, processVars>>

Invocation(p) ==
  [by |-> p, attempt |-> IF p \in Runs THEN tries[p] ELSE manual]

\* Mutant: DELETE instead of TRUNCATE, which waits for no reader.
DeleteRaw(p) ==
  /\ At(p, "bootstrap_raw_data", "started")
  /\ ~RawExclusive
  /\ Advance(p, "loading")
  /\ UNCHANGED <<memory, warehouse, metadata>>

TruncateRaw(p) ==
  /\ At(p, "bootstrap_raw_data", "started")
  /\ ~RawExclusive
  /\ ~ShareLocked("raw")
  /\ Advance(p, "loading")
  /\ UNCHANGED <<memory, warehouse, metadata>>

CommitRaw(p) ==
  /\ At(p, "bootstrap_raw_data", "loading")
  /\ \E c \in RawContents : raw' = [load |-> Invocation(p), content |-> c]
  /\ Advance(p, "finished")
  /\ UNCHANGED <<memory, marts, artifacts, metadata>>

(***************************************************************************)
(* run_dbt and test_dbt.  A build replaces views and tables, which needs   *)
(* them unlocked; each command then overwrites its run_results.json, also  *)
(* when a model fails and the command with it.                             *)
(***************************************************************************)
Buildable(p) ==
  /\ At(p, "run_dbt", "started")
  /\ Readable("raw")
  /\ ~ShareLocked("staging")
  /\ ~ShareLocked("marts")

BuildFails(p) ==
  /\ Buildable(p)
  /\ artifacts' = [artifacts EXCEPT !["run"] = Invocation(p)]
  /\ Advance(p, "failed")
  /\ UNCHANGED <<memory, raw, marts, metadata>>

BuildMarts(p) ==
  /\ Buildable(p)
  /\ raw.content # NoContent
  /\ \E c \in MartBuilds[raw.content] :
       marts' = [load |-> raw.load, content |-> c]
  /\ Advance(p, "built")
  /\ UNCHANGED <<memory, raw, artifacts, metadata>>

\* Mutant: an artifact that exists is kept.
KeepArtifact(p, command) ==
  /\ \/ command = "run" /\ At(p, "run_dbt", "built")
     \/ command = "test" /\ At(p, "test_dbt", "started")
  /\ artifacts' = IF artifacts[command] = NoArtifact
                  THEN [artifacts EXCEPT ![command] = Invocation(p)]
                  ELSE artifacts
  /\ Advance(p, "finished")
  /\ UNCHANGED <<memory, raw, marts, metadata>>

WriteArtifact(p, command) ==
  /\ \/ command = "run" /\ At(p, "run_dbt", "built")
     \/ command = "test" /\ At(p, "test_dbt", "started")
  /\ artifacts' = [artifacts EXCEPT ![command] = Invocation(p)]
  /\ Advance(p, "finished")
  /\ UNCHANGED <<memory, raw, marts, metadata>>

(***************************************************************************)
(* collect_dbt_metadata: parse both artifacts, then upsert the run's row   *)
(* and its node results in one transaction.                                *)
(***************************************************************************)
\* Mutant: every collection attempt makes up new identifiers.
ParseWithFreshIds(p, command) ==
  /\ \/ command = "run" /\ At(p, "collect_dbt_metadata", "started")
     \/ command = "test" /\ At(p, "collect_dbt_metadata", "parsedRun")
  /\ artifacts[command] # NoArtifact
  /\ memory' = [memory EXCEPT ![p].parsed =
                   @ \cup {[invocation |-> Invocation(p),
                           command    |-> command]}]
  /\ Advance(p, IF command = "run" THEN "parsedRun" ELSE "parsedTest")
  /\ UNCHANGED <<warehouse, metadata>>

ParseArtifact(p, command) ==
  /\ \/ command = "run" /\ At(p, "collect_dbt_metadata", "started")
     \/ command = "test" /\ At(p, "collect_dbt_metadata", "parsedRun")
  /\ artifacts[command] # NoArtifact
  /\ memory' = [memory EXCEPT ![p].parsed =
                   @ \cup {[invocation |-> artifacts[command],
                           command    |-> command]}]
  /\ Advance(p, IF command = "run" THEN "parsedRun" ELSE "parsedTest")
  /\ UNCHANGED <<warehouse, metadata>>

\* Mutant: the row is deleted and inserted, and ON DELETE CASCADE applies.
ReplaceMetadata(p) ==
  LET r == target[p] IN
  /\ At(p, "collect_dbt_metadata", "parsedTest")
  /\ pipelineRuns' = [pipelineRuns EXCEPT ![r] = memory[p].given]
  /\ nodeResults' = [nodeResults EXCEPT ![r] = memory[p].parsed]
  /\ health' = [health EXCEPT ![r] = NoHealth]
  /\ incidents' = [incidents EXCEPT ![r] = NoIncidents]
  /\ memory' = [memory EXCEPT ![p] = Blank]
  /\ Advance(p, "finished")
  /\ UNCHANGED <<warehouse, evaluated>>

PersistMetadata(p) ==
  LET r == target[p] IN
  /\ At(p, "collect_dbt_metadata", "parsedTest")
  /\ pipelineRuns' = [pipelineRuns EXCEPT ![r] = memory[p].given]
  /\ nodeResults' = [nodeResults EXCEPT ![r] = @ \cup memory[p].parsed]
  /\ memory' = [memory EXCEPT ![p] = Blank]
  /\ Advance(p, "finished")
  /\ UNCHANGED <<warehouse, health, incidents, evaluated>>

(***************************************************************************)
(* collect_data_health_metrics: resolve the run, measure every table in    *)
(* order, replace the run's metrics and snapshots.                         *)
(***************************************************************************)
ResolveForHealth(p) ==
  /\ At(p, "collect_data_health_metrics", "started")
  /\ pipelineRuns[target[p]] # NoRow
  /\ Advance(p, "reading")
  /\ UNCHANGED <<memory, warehouse, metadata>>

\* The tables listed before t have been read, t has not.
NextToRead(p, t) ==
  /\ ~HasRead(p, t)
  /\ \A u \in Earlier[t] : HasRead(p, u)

Measurable(t) ==
  /\ Visible(t).content # NoContent
  /\ FreshnessColumn[t] \in DOMAIN Visible(t).content.schema

MeasureSchema(p, t) ==
  /\ At(p, "collect_data_health_metrics", "reading")
  /\ NextToRead(p, t)
  /\ memory[p].schemas[t] = Unread
  /\ Measurable(t)
  /\ memory' = [memory EXCEPT ![p].schemas[t] = Visible(t).content.schema]
  /\ Advance(p, "reading")
  /\ UNCHANGED <<warehouse, metadata>>

MeasureRows(p, t) ==
  /\ At(p, "collect_data_health_metrics", "reading")
  /\ NextToRead(p, t)
  /\ memory[p].schemas[t] # Unread
  /\ Readable(t)
  /\ Measurable(t)
  /\ memory' = [memory EXCEPT ![p].seen[t] =
                   [metric |-> Visible(t).content.metric,
                    schema |-> memory[p].schemas[t],
                    load   |-> Visible(t).load]]
  /\ Advance(p, "reading")
  /\ UNCHANGED <<warehouse, metadata>>

PersistMeasurements(p) ==
  /\ At(p, "collect_data_health_metrics", "reading")
  /\ \A t \in Tables : memory[p].seen[t] # Unread
  /\ health' = [health EXCEPT ![target[p]] = memory[p].seen]
  /\ memory' = [memory EXCEPT ![p] = Blank]
  /\ Advance(p, "finished")
  /\ UNCHANGED <<warehouse, pipelineRuns, nodeResults, incidents, evaluated>>

-----------------------------------------------------------------------------
(***************************************************************************)
(* detect_data_incidents: load the run's health, choose a baseline, load   *)
(* its health, count NULLs in the live tables, upsert what was found.      *)
(***************************************************************************)

\* The successful runs that are recorded with an earlier start than r is.
Candidates(r) ==
  {q \in Runs : /\ pipelineRuns[q] # NoRow /\ pipelineRuns[q].succeeded
                /\ pipelineRuns[q].started < pipelineRuns[r].started}

\* find_previous_successful_run; among equal starts any may come first.
Baselines(r) ==
  IF Candidates(r) = {}
  THEN {NoRun}
  ELSE {q \in Candidates(r) : \A c \in Candidates(r) :
          pipelineRuns[c].started <= pipelineRuns[q].started}

ResolveForDetection(p) ==
  /\ At(p, "detect_data_incidents", "started")
  /\ pipelineRuns[target[p]] # NoRow
  /\ Advance(p, "resolved")
  /\ UNCHANGED <<memory, warehouse, metadata>>

\* Mutant: the metrics of any measured run are loaded.
LoadAnyMetrics(p) ==
  /\ At(p, "detect_data_incidents", "resolved")
  /\ \E r \in Runs : /\ health[r] # NoHealth \/ r = target[p]
                     /\ memory' = [memory EXCEPT ![p].metrics = health[r]]
  /\ Advance(p, "currentMetrics")
  /\ UNCHANGED <<warehouse, metadata>>

LoadMetrics(p) ==
  /\ At(p, "detect_data_incidents", "resolved")
  /\ memory' = [memory EXCEPT ![p].metrics = health[target[p]]]
  /\ Advance(p, "currentMetrics")
  /\ UNCHANGED <<warehouse, metadata>>

LoadSchema(p) ==
  /\ At(p, "detect_data_incidents", "currentMetrics")
  /\ memory' = [memory EXCEPT ![p].schema = health[target[p]]]
  /\ Advance(p, "current")
  /\ UNCHANGED <<warehouse, metadata>>

\* Mutant: any recorded run may be the baseline, also a later one.
ChooseAny(p) ==
  /\ At(p, "detect_data_incidents", "current")
  /\ memory[p].metrics # NoHealth
  /\ \E q \in {q \in Runs : pipelineRuns[q] # NoRow} :
       memory' = [memory EXCEPT ![p].base = q]
  /\ Advance(p, "based")
  /\ UNCHANGED <<warehouse, metadata>>

\* No table of the run lacks its metrics.
ChooseBaseline(p) ==
  /\ At(p, "detect_data_incidents", "current")
  /\ memory[p].metrics # NoHealth
  /\ \E q \in Baselines(target[p]) : memory' = [memory EXCEPT ![p].base = q]
  /\ Advance(p, "based")
  /\ UNCHANGED <<warehouse, metadata>>

\* What a job loads of its baseline's health.
BaseHealth(p) ==
  IF memory[p].base = NoRun THEN NoHealth ELSE health[memory[p].base]

\* Mutant: the run's own metrics are loaded as its baseline's.
LoadOwnMetrics(p) ==
  /\ At(p, "detect_data_incidents", "based")
  /\ memory' = [memory EXCEPT ![p].baseMetrics = memory[p].metrics]
  /\ Advance(p, "baseMetrics")
  /\ UNCHANGED <<warehouse, metadata>>

LoadBaseMetrics(p) ==
  /\ At(p, "detect_data_incidents", "based")
  /\ memory' = [memory EXCEPT ![p].baseMetrics = BaseHealth(p)]
  /\ Advance(p, "baseMetrics")
  /\ UNCHANGED <<warehouse, metadata>>

LoadBaseSchemas(p) ==
  /\ At(p, "detect_data_incidents", "baseMetrics")
  /\ memory' = [memory EXCEPT ![p].baseSchemas = BaseHealth(p)]
  /\ Advance(p, "reading")
  /\ UNCHANGED <<warehouse, metadata>>

\* The contract columns exist in the run's snapshot and in the live table.
Countable(p, t) ==
  /\ NullContract[t] \subseteq DOMAIN memory[p].schema[t].schema
  /\ Visible(t).content # NoContent
  /\ NullContract[t] \subseteq DOMAIN Visible(t).content.schema

CountNulls(p, t) ==
  /\ At(p, "detect_data_incidents", "reading")
  /\ NextToRead(p, t)
  /\ Readable(t)
  /\ Countable(p, t)
  /\ memory' = [memory EXCEPT ![p].nulls[t] = Visible(t).content.nulls]
  /\ Advance(p, "reading")
  /\ UNCHANGED <<warehouse, metadata>>

\* The evidence job p has gathered of table t.
Gathered(p, t) ==
  LET m == memory[p] IN
  [metric     |-> m.metrics[t].metric,
   schema     |-> m.schema[t].schema,
   baseMetric |-> IF m.baseMetrics = NoHealth THEN NoValue
                  ELSE m.baseMetrics[t].metric,
   baseSchema |-> IF m.baseSchemas = NoHealth THEN NoValue
                  ELSE m.baseSchemas[t].schema,
   now        |-> m.detectedAt,
   nulls      |-> m.nulls[t]]

Found(p) == UNION {DetectForTable(t, Gathered(p, t)) : t \in Tables}

\* INSERT ... ON CONFLICT (incident_id) DO UPDATE: rows found again are
\* refreshed, rows not found again stay.
Upserted(p, rows) ==
  [key \in DOMAIN rows \cup Found(p) |->
     IF key \in Found(p) THEN Evidence(key, Gathered(p, key.table))
                         ELSE rows[key]]

PersistIncidents(p) ==
  LET r == target[p] IN
  /\ At(p, "detect_data_incidents", "reading")
  /\ \A t \in Tables : memory[p].nulls[t] # Unread
  /\ incidents' = [incidents EXCEPT ![r] = Upserted(p, @)]
  /\ evaluated' = evaluated \cup {r}
  /\ memory' = [memory EXCEPT ![p] = Blank]
  /\ Advance(p, "finished")
  /\ UNCHANGED <<warehouse, pipelineRuns, nodeResults, health>>

-----------------------------------------------------------------------------
(***************************************************************************)
(* The errors the jobs raise themselves.                                   *)
(***************************************************************************)
ArtifactMissing(p) ==
  \/ At(p, "collect_dbt_metadata", "started") /\ artifacts["run"] = NoArtifact
  \/ At(p, "collect_dbt_metadata", "parsedRun") /\ artifacts["test"] = NoArtifact

\* "No matching metadata.pipeline_runs record was found", or no metrics.
RunNotReady(p) ==
  \/ /\ step[p] = "started"
     /\ task[p] \in {"collect_data_health_metrics", "detect_data_incidents"}
     /\ pipelineRuns[target[p]] = NoRow
  \/ /\ At(p, "detect_data_incidents", "current")
     /\ memory[p].metrics = NoHealth

TableUnfit(p) ==
  /\ step[p] = "reading"
  /\ \E t \in Tables :
       /\ NextToRead(p, t)
       /\ \/ task[p] = "collect_data_health_metrics" /\ ~Measurable(t)
          \/ /\ task[p] = "detect_data_incidents"
             /\ Readable(t)
             /\ ~Countable(p, t)

JobRaises(p) ==
  /\ ArtifactMissing(p) \/ RunNotReady(p) \/ TableUnfit(p) \/ step[p] = "failed"
  /\ Exit(p)

-----------------------------------------------------------------------------
JobStep(p) ==
  \/ TruncateRaw(p) \/ CommitRaw(p) \/ BuildFails(p) \/ BuildMarts(p)
  \/ \E c \in Commands : WriteArtifact(p, c) \/ ParseArtifact(p, c)
  \/ PersistMetadata(p)
  \/ ResolveForHealth(p) \/ ResolveForDetection(p)
  \/ LoadMetrics(p) \/ LoadSchema(p)
  \/ ChooseBaseline(p) \/ LoadBaseMetrics(p) \/ LoadBaseSchemas(p)
  \/ \E t \in Tables : MeasureSchema(p, t) \/ MeasureRows(p, t)
                         \/ CountNulls(p, t)
  \/ PersistMeasurements(p) \/ PersistIncidents(p)

Airflow(r) ==
  Trigger(r) \/ StartDagRun(r) \/ StartAttempt(r) \/ TaskSucceeds(r)

Manual(o) ==
  \/ \E job \in Tasks, r \in Runs \cup {NoRun}, row \in GivenRows :
       OperatorStarts(o, job, r, row)
  \/ OperatorReturns(o)

Next ==
  \/ Tick
  \/ \E r \in Runs : Airflow(r)
  \/ \E o \in Operators : Manual(o)
  \/ \E p \in Processes : JobStep(p) \/ JobRaises(p) \/ JobCrashes(p)

Spec == Init /\ [][Next]_vars

\* The scheduler keeps scheduling and a process keeps executing its job.
\* Triggers, operators, the clock and failures are not promised.
Fairness ==
  /\ \A r \in Runs : /\ WF_vars(StartDagRun(r))
                     /\ WF_vars(StartAttempt(r))
                     /\ WF_vars(TaskSucceeds(r))
  /\ \A p \in Processes : WF_vars(JobStep(p)) /\ WF_vars(JobRaises(p))
  /\ \A o \in Operators : WF_vars(OperatorReturns(o))

FairSpec == Spec /\ Fairness

-----------------------------------------------------------------------------
(***************************************************************************)
(* Properties.                                                             *)
(***************************************************************************)

Memories ==
  [given       : RunRows,
   parsed      : SUBSET NodeResults,
   schemas     : [Tables -> Schemas \cup {Unread}],
   seen        : [Tables -> Measurements \cup {Unread}],
   nulls       : [Tables -> [Columns -> Nat] \cup {Unread}],
   metrics     : HealthRows \cup {NoHealth},
   schema      : HealthRows \cup {NoHealth},
   base        : Runs \cup {NoRun},
   baseMetrics : HealthRows \cup {NoHealth},
   baseSchemas : HealthRows \cup {NoHealth},
   detectedAt  : Nat]

\* The type of every variable.
TypeOK ==
  /\ clock \in Nat
  /\ dagState \in [Runs -> {"none", "queued", "running", "success", "failed"}]
  /\ startedAt \in [Runs -> Nat]
  /\ tries \in [Runs -> 0 .. Retries + 1]
  /\ beside \in [Runs -> SUBSET Processes]
  /\ task \in [Processes -> Tasks]
  /\ step \in [Processes -> Steps]
  /\ target \in [Processes -> Runs \cup {NoRun}]
  /\ memory \in [Processes -> Memories]
  /\ manual \in Nat
  /\ raw \in [load : Loads, content : RawContents \cup {NoContent}]
  /\ marts \in [load : Loads, content : Contents \cup {NoContent}]
  /\ artifacts \in [Commands -> Invocations \cup {NoArtifact}]
  /\ pipelineRuns \in [Runs -> RunRows \cup {NoRow}]
  /\ nodeResults \in [Runs -> SUBSET NodeResults]
  /\ health \in [Runs -> HealthRows \cup {NoHealth}]
  /\ DOMAIN incidents = Runs
  /\ \A r \in Runs : DOMAIN incidents[r] \subseteq IncidentKeys
  /\ evaluated \subseteq Runs

\* Whatever crashes, is retried or is repeated by an operator, a run's
\* measurements exist only with its pipeline_runs row, and its incidents only
\* with measurements, so every foreign key and every baseline lookup resolves.
LayersInOrder ==
  \A r \in Runs :
    /\ nodeResults[r] # {} <=> pipelineRuns[r] # NoRow
    /\ health[r] # NoHealth => pipelineRuns[r] # NoRow
    /\ r \in evaluated => health[r] # NoHealth
    /\ DOMAIN incidents[r] # {} => r \in evaluated

\* A DAG run's own task never finds its input missing: the artifacts exist
\* when collection parses them, the row when health collection resolves it,
\* the metrics when detection loads them.
InputsReady ==
  \A r \in Runs : ~ArtifactMissing(r) /\ ~RunNotReady(r)

\* ADR-008: each successful run has volume, freshness and schema evidence
\* connected to its row, and its incidents have been evaluated.
SuccessIsComplete ==
  \A r \in Runs : dagState[r] = "success" =>
    /\ pipelineRuns[r] # NoRow
    /\ \A c \in Commands : \E n \in nodeResults[r] : n.command = c
    /\ health[r] # NoHealth
    /\ r \in evaluated

\* One health collection measures the raw tables and the staging views over
\* them at the same load, even while other runs bootstrap: TRUNCATE cannot
\* get between two statements of a transaction that has read a raw table.
StagingMatchesRaw ==
  \A r \in Runs : health[r] # NoHealth =>
    health[r]["staging"].load = health[r]["raw"].load

(***************************************************************************)
(* Runs in progress at the same time.  Nothing in the DAG keeps two runs   *)
(* apart, so what follows says what a run owes to whom it overlapped with. *)
(* An operator's job can do anything to what a run relies on.              *)
(***************************************************************************)

\* No operator had to do with r, or was at work while r was in progress.
HandsOff(r) == beside[r] \subseteq Runs

\* ADR-007: a run is linked to the models and tests executed within it.  Its
\* node results come from one invocation of its own per dbt command, whatever
\* earlier runs and failed attempts left in the shared artifact files; others
\* can only be of runs that were in progress at the same time.
OwnNodeResults ==
  \A r \in Runs : HandsOff(r) => \A m, n \in nodeResults[r] :
    /\ n.invocation.by \in {r} \cup beside[r]
    /\ m.command = n.command /\ m.invocation.by = r /\ n.invocation.by = r => m = n

\* README: collecting again for the same run is idempotent.  No attempt checks
\* for what an earlier one has committed; yet it adds nothing but what a run in
\* progress at the same time wrote into the artifact files in between.
NodeResultsSettle ==
  [][\A r \in Runs : nodeResults[r] # {} /\ HandsOff(r) =>
       \A n \in nodeResults'[r] \ nodeResults[r] : n.invocation.by \in beside[r]]_vars

Detecting(p) ==
  /\ task[p] = "detect_data_incidents"
  /\ step[p] \in {"based", "baseMetrics", "reading"}

\* Runs that would be a later baseline than the one p has chosen.
Missed(p) ==
  {q \in Candidates(p) : memory[p].base # NoRun =>
     pipelineRuns[memory[p].base].started < pipelineRuns[q].started}

\* The baseline is chosen in one statement, its health is loaded in two more,
\* and they are used at the end.  Unless its run was in progress too, what was
\* chosen and loaded stays what a fresh detection would load; and a later
\* baseline can only be missed if its run was in progress too.
BaselineStillLatest ==
  \A p \in Runs : Detecting(p) /\ HandsOff(p) /\ memory[p].base \notin beside[p] =>
    /\ Missed(p) \subseteq beside[p]
    /\ memory[p].base \in Candidates(p) \cup {NoRun}
    /\ step[p] # "based" => memory[p].baseMetrics = BaseHealth(p)
    /\ step[p] = "reading" => memory[p].baseSchemas = BaseHealth(p)

\* Detection counts NULLs in live tables that still hold the load its run
\* measured in an earlier task, unless a run in progress at the same time has
\* loaded what they hold.
DetectsWhatWasMeasured ==
  \A p \in Runs : \A t \in Tables :
    Detecting(p) /\ HandsOff(p) /\ memory[p].nulls[t] # Unread =>
      \/ Visible(t).load = memory[p].metrics[t].load
      \/ Visible(t).load.by \in beside[p]

ComparisonTypes ==
  {"ROW_COUNT_INCREASE", "ROW_COUNT_DECREASE", "COLUMN_ADDED",
   "COLUMN_REMOVED", "DATA_TYPE_CHANGED", "NULLABILITY_CHANGED"}

\* What comparing the stored health of r with that of q raises.
Comparison(r, q) ==
  LET Base(t)     == IF q = NoRun THEN NoHealth ELSE health[q]
      Stored(t)   == [metric     |-> health[r][t].metric,
                      schema     |-> health[r][t].schema,
                      baseMetric |-> IF Base(t) = NoHealth THEN NoValue
                                     ELSE Base(t)[t].metric,
                      baseSchema |-> IF Base(t) = NoHealth THEN NoValue
                                     ELSE Base(t)[t].schema]
  IN  {key \in IncidentKeys :
         key.type \in ComparisonTypes /\ Raised(key, Stored(key.table))}

\* The comparison incidents of a run are exactly those its stored health and
\* its baseline's justify, although detection never deletes an incident: no
\* crash, no retry and no run that starts later, however they overlap, leaves
\* one behind that a fresh detection would not raise.  Only a run that started
\* earlier and is still in progress can.
IncidentsMatchHealth ==
  (\A q \in Runs : HandsOff(q)) =>
    \A r \in evaluated : (\A q \in beside[r] : startedAt[r] < startedAt[q]) =>
      \E q \in Baselines(r) :
        {key \in DOMAIN incidents[r] : key.type \in ComparisonTypes}
          = Comparison(r, q)

(***************************************************************************)
(* What documents say of the pipeline and runs can contradict.             *)
(***************************************************************************)

\* ADR-007: only successful end-to-end runs are recorded.
RecordedRunsSucceed ==
  \A r \in Runs : pipelineRuns[r] # NoRow => dagState[r] # "failed"

(***************************************************************************)
(* Liveness.                                                               *)
(***************************************************************************)

\* Every triggered DAG run ends: attempts are limited, no job waits for a
\* lock forever, and no task waits for input that never comes.
EveryRunEnds ==
  \A r \in Runs : dagState[r] = "queued" ~> dagState[r] \in {"success", "failed"}

(***************************************************************************)
(* Refinement: the ledger of run records the metadata schema promises.     *)
(***************************************************************************)
LedgerStage ==
  [r \in Runs |-> IF pipelineRuns[r] = NoRow THEN 0
                  ELSE IF health[r] = NoHealth THEN 1
                  ELSE IF r \notin evaluated THEN 2 ELSE 3]

LedgerOutcome ==
  [r \in Runs |-> IF dagState[r] \in {"success", "failed"}
                  THEN dagState[r] ELSE "pending"]

Ledger == INSTANCE RunLedger WITH stage <- LedgerStage, outcome <- LedgerOutcome

\* Each commit moves one run's record one stage on, none is taken back, and
\* a run succeeds only with a complete record.
KeepsLedger == Ledger!Spec
=============================================================================
