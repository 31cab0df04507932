# A specification of the Open DataOps Platform

TLA+ modules that model the platform's code, TLC configurations that check
them on small instances, and TLAPS proofs of what holds for every instance.
Source paths are relative to the repository.

## 1. The system

### 1.1 Parts and state

| Part | Code | State it keeps | Operations |
|---|---|---|---|
| Ecommerce DAG | `platform/airflow/dags/ecommerce_pipeline.py` | Airflow's DAG run and task states | trigger, schedule, retry, succeed, fail |
| Bootstrap | `platform/jobs/bootstrap_raw_data.py` | schema `raw` | create, truncate, reload, in one transaction |
| dbt commands | `platform/jobs/run_dbt.py`, `test_dbt.py` | schemas `staging`, `marts`; `run_results.json` of each command | run, test |
| Metadata collection | `platform/jobs/collect_dbt_metadata.py` | `metadata.pipeline_runs`, `dbt_node_results` | parse artifacts, upsert |
| Health collection | `platform/jobs/collect_data_health_metrics.py` | `metadata.table_health_metrics`, `table_schema_snapshots` | measure tables, replace |
| Incident detection | `platform/jobs/detect_data_incidents.py`, `data_health_config.py` | `metadata.data_incidents` | compare with a baseline, upsert |
| Incident context | `platform/jobs/generate_incident_context.py`, `incident_context_rules.py`, `warehouse/init/07`-`09` | `metadata.incident_context` | derive, upsert, migrate |
| Workspace settings | `platform/api/{routes,services,repositories}/settings.py`, `warehouse/init/13` | `metadata.workspace_settings`, `environments` | read, update, create, delete |
| Workflow operations | `platform/api/orchestrators`, `services/pipeline_operations.py`, `routes/operations.py` | none (Airflow's) | trigger, list, read logs |
| Authentication | `platform/api/services/authentication.py`, `auth_dependencies.py`, `cli/` | `security.users`, roles | log in, authorize, create user, rotate password |
| Aggregation | `platform/api/services/aggregations.py` | none | classify, group, summarise |
| Operational records | `warehouse/init/03`, `11` | runs, executions, alerts, sources, pipelines | written by ingestion, read by the API |
| Read-only resources | other `platform/api` routes | none | filter, page, detail |
| Query hook and client | `platform/web/lib/use-api-query.ts`, `api-client.ts`, the list screens | React state of one screen, its current request | ask, supersede, retry, turn pages, log in again |
| Rest of the web client | `platform/web/lib`, `components` | cookie, storage, drafts | select an environment, edit, display |
| Validation scenarios | `scripts/validation/scenarios`, `framework` | local variables of a script; a deployment | interrupt, wait, restore, report |
| Canonical model | `warehouse/init/11`, `12` | demo metadata | create, seed |

The DAG runs one job after another; the jobs interact through the warehouse
and, for dbt, through two artifact files.  No job passes data to the next one.
The API and Grafana read the `metadata` schema at any time, so what matters to
them is what is committed.  The web client reaches the API through a proxy
that adds the session's token.

### 1.2 What is hard here

* **Interleaving.**  The DAG sets no `max_active_runs`, jobs may also be
  started from a command line, and all of them share the raw tables and the
  artifact directory.
* **Failure and retry.**  Every task has three attempts.  An attempt may die
  between any two statements, also after its commit and before its exit
  status is recorded.  Every job must therefore be repeatable, and each is so
  in its own way: reload, upsert by derived identifiers, upsert and replace.
* **Staleness.**  Detection reads in one transaction, but with a fresh
  snapshot per statement, what other transactions may change in between; it
  compares measurements stored by an earlier task with live tables.
* **Partial success.**  A run is recorded as successful by its fourth task of
  six.
* **Locks.**  Truncation waits for readers and readers for it.  The settings
  endpoints lock the environment's row and the settings row in both orders;
  context batches lock one row after another.
* **Checks and use.**  The settings endpoints check, wait for locks, and act;
  the context job reads incidents that detection refreshes before it commits.
* **Rules in several places.**  Context types are listed in a query, in the
  rules and in a constraint; staleness is decided twice, at two precisions.
* **An unreliable middle.**  The API forwards triggers to Airflow over HTTP with
  timeouts: a message may be handled after the API stopped waiting, and the
  client repeats a request whose outcome it does not know.
* **Many queries for one answer.**  A dashboard answer is put together from
  seven queries in as many transactions, a detail from four, a page from a
  count and its rows.
* **Deduplication.**  An alert, a source or a pipeline speaks for others in the
  list of issues; whatever it speaks for wrongly disappears.
* **The browser.**  A request that was superseded may still answer, fail or be
  aborted after the next one.
* **Scripts that break things.**  A validation scenario stops services and
  configures invalid data; its commands fail with or without their effect, and
  it has to leave the deployment as it found it or say so.

`PROJECT.json` lists each hazard at its line.

### 1.3 What makes it correct

* Pipeline: a run's record owes nothing to runs that were over when it started,
  and to those in progress beside it no more than the shared files and tables
  bring with them; it grows in order and is complete when the run succeeds;
  repeating a task adds nothing of the run's own; every triggered run ends.
* Incident rules: what is reported follows from the evidence, and is enough to
  reconstruct what changed.
* Workspace settings: the default environment exists and is never deleted,
  resources keep their environment, and concurrent requests act as if one at a
  time; every request is answered.
* Incident context: batches do not deadlock and leave nothing out, and a
  context's date says which incident row it describes.
* Workflow operations: repeated triggers start one run, each answer is true of
  its request, nothing is forwarded without the account's permission, and
  every attempt ends.
* Aggregation: no problem is lost to deduplication or to a limit, and figures
  add up although records change between the queries.
* Screens: what is shown at rest is what was asked for last; paging skips no
  run; a detail's parts agree as far as the order of its queries makes them.
* Validation scenarios: success means that everything is restored; damage is
  always reported as an error.

## 2. Modules

| Module | Content |
|---|---|
| `IncidentRules` | `detect_for_table` and its policy, as operators |
| `EcommercePipeline` | the DAG, its jobs, operators, and the shared state |
| `RunLedger` | abstract: what readers of the metadata schema may rely on |
| `PipelineInvariant` | the inductive invariants of `EcommercePipeline`: of every instance, and of runs that overlap |
| `EcommercePipelineProofs` | its proofs, the refinement proof, and what successive incidents tell |
| `SuccessiveMeasurements` | one table measured again and again: what its incidents tell |
| `WorkspaceSettings` | the six settings endpoints, their tables and row locks |
| `WorkspaceRegistry` | abstract: requests handled one at a time |
| `WorkspaceSettingsProofs` | the settings' invariant and the refinement proof |
| `IncidentContext` | the context job, detection's upsert, the migrations, the rules |
| `IncidentContextProofs` | its invariant and what follows |
| `TriggerContract` | abstract: what a caller of the trigger endpoint may rely on |
| `Accounts` | accounts, provisioning, password rotation, logins and tokens |
| `PipelineOperations` | the operations endpoints, authorization, the HTTP client of Airflow, Airflow; extends `Accounts` |
| `PipelineOperationsProofs` | its invariant, the refinement of `TriggerContract`, tokens, existing runs |
| `OperationalRecords` | the canonical tables, what their constraints let be written, and the status derived from them |
| `OperationalRecordsProofs` | what the constraints keep, which run is the latest, and what the order of a query is |
| `Monitoring` | monitoring, dashboard and health-metrics answers; extends `OperationalRecords` |
| `MonitoringProofs` | that the aggregation loses no problem and its figures add up |
| `ResourceQueries` | what the list and detail queries return; extends `OperationalRecords` |
| `ResourceScreens` | the query hook, filters and pages, and the API answering; extends `ResourceQueries` |
| `ResourceScreensProofs` | that a screen at rest is current, pages skip no run, details add up |
| `ValidationScenarios` | four scenario scripts over a deployment |
| `ValidationScenariosProofs` | that damage is repaired or reported, whatever fails |
| `MCPipeline`, `MCMeasurements`, `MCSettings`, `MCContext`, `MCOperations`, `MCMonitoring`, `MCResources`, `MCScenarios` | small instances |

### 2.1 `EcommercePipeline` and the code

State.  `dagState`, `startedAt`, `tries` are Airflow's; `raw`, `marts` the
warehouse; `artifacts` the two `run_results.json` files; `pipelineRuns`,
`nodeResults`, `health`, `incidents` the metadata tables.  `task`, `step`,
`target` and `memory` are a process: its job, how far it got, the run it acts
for, and its local variables.  The process of a DAG run's task is named after
the run; operators have processes of their own.

| Actions | Code |
|---|---|
| `Trigger`, `StartDagRun`, `StartAttempt`, `TaskSucceeds`, `Exit` | Airflow with the DAG's `default_args` and chain |
| `TruncateRaw`, `CommitRaw` | `bootstrap_raw_data` |
| `BuildMarts`, `BuildFails`, `WriteArtifact` | `run_dbt.main`, `test_dbt.main` |
| `ParseArtifact`, `PersistMetadata` | `collect_metadata`, `persist_metadata` |
| `ResolveForHealth`, `MeasureSchema`, `MeasureRows`, `PersistMeasurements` | `collect_data_health_metrics` |
| `ResolveForDetection`, `LoadMetrics`, `LoadSchema`, `ChooseBaseline`, `LoadBaseMetrics`, `LoadBaseSchemas`, `CountNulls`, `PersistIncidents` | `detect_data_incidents` |
| `JobRaises` | the errors the jobs raise |
| `JobCrashes` | everything else that ends a process |
| `OperatorStarts`, `OperatorReturns` | the jobs' command lines |

A job's statements are READ COMMITTED, hence one step each; a transaction's
writes appear at its commit, in one step.  Statements whose order no other
process can notice are joined (the CSV loads after the truncation; the writes
before a commit).

Abstractions.

* One table stands for each layer.  `raw.customers` is the first table that
  measurement reads and the first that truncation locks, so the locks on the
  six raw tables act as one.
* A table's rows are its row count, its latest freshness value, its columns
  and its NULL counts: all that measurement and detection look at.
* A dbt artifact is the invocation that wrote it, and contains one node.
* Both dbt commands write their results and then exit with an error when a model
  or test has failed.  `BuildFails` is a failing `dbt run`, which leaves the
  marts as they were, and is the only outcome when there are no raw tables; the
  job then raises its error.  A failing `dbt test` is an artifact followed by a
  crash (`WriteArtifact` then `JobCrashes`).
* Operators run each of the six jobs.  The metadata jobs are given any run, one
  that is not recorded or never started included, and collection any start and
  status (`GivenRows`).  A run recorded under another DAG id or an unknown run
  id is no baseline of a DAG run before it has such a row, so it stands beside
  those of the model and is left out.
* `load` of a table's rows, `beside` and `evaluated` are bookkeeping for the
  properties; no guard reads them.  `beside[r]` is whom `r` overlapped with: the
  other runs in progress between its start and its end, and the operators who
  were at work meanwhile or worked on `r` at any time.
* Left out: `retry_delay`, formatting, logging, the `--manual` development mode
  (it invents a run of its own, with DAG id `manual`), and the optional
  `--pipeline-run-id`, which names the same row.
* External, modelled from how the jobs use them: Airflow's scheduler, dbt's
  output files, PostgreSQL's locks.

### 2.2 `IncidentRules` and the code

`Raised(key, e)` says when the evidence `e` of a table raises the incident
`key`; a key is the part of a `data_incidents` row its identifier is derived
from.  Percentages are compared by cross-multiplication; for counts below 2^50
that is what the float comparison decides at the default threshold of 25.

### 2.3 `RunLedger`

A run's record has no part, then the run and its node results, then its health
measurements, then the result of detection; it grows by one stage at a time and
success is reported only of complete records.  `KeepsLedger` substitutes
`LedgerStage` and `LedgerOutcome`, functions of the tables and of Airflow's
state.

### 2.4 `WorkspaceSettings` and `WorkspaceRegistry`

State.  `environments`, `inUse`, `default`, `name`, `sections` are the rows of
`metadata.environments`, of the resources that refer to them, and of
`metadata.workspace_settings`.  `request`, `phase`, `found`, `busy`, `general`
are a request being handled: what was asked, how far its statements got, and
the local variables.  `answer` is what the administrator sees.

| Actions | Code |
|---|---|
| `ReadGeneral`, `ReadEnvironments` | `get_settings`, two statements with a snapshot each; also the end of `create` and `general` |
| `UpdateSection` | `update_notifications`, `update_operational_defaults` |
| `FindDefault`, `UpdateGeneral`, `ReferenceEnvironment`, `CommitGeneral` | `update_general`: look up, UPDATE, the foreign key check, commit |
| `CreateEnvironment` | `create_environment` |
| `FindDoomed`, `LockEnvironment`, `CheckDoomed`, `DeleteEnvironment`, `Confirm` | `delete_environment`: SELECT ... FOR UPDATE of two rows, one after the other, the two checks, DELETE with commit, 204 |
| `Fail` | any other error, at any point, answered by the route's handler |
| `BreakDeadlock` | PostgreSQL aborts one transaction of a cycle |
| `AddResource` | external: a source, pipeline or event of an environment |

Locks are not variables: which rows a transaction holds follows from its
phase.  A statement that waited for a row sees its new version, but the
resource counts of the same statement are of the snapshot taken before the
wait (`busy`).  A statement and its commit are one step where no other
transaction can tell (INSERT, DELETE, and single-row updates).  An identifier
is not used again while a request remembers it, since `gen_random_uuid` makes
new ones.  The contents of the notification and default sections are one value
each.  Authorization is left out.

### 2.5 `IncidentContext`

State.  `incidents` and `contexts` are tables, `allowed` the constraint on
action codes, `job` the runs of the job with what they loaded and what they
have upserted and not committed.  `changedAt` and `finished` are history, read
by properties only.

| Actions | Code |
|---|---|
| `Detects` | `persist_incidents`: insert, or refresh all but `detected_at` |
| `StartJob`, `LoadIncidents` | `generated_at` is taken, then `load_incidents` |
| `PersistContext`, `Commit` | `generate_contexts`, `persist_context`, the end of the transaction |
| `JobRaises` | no such incident, no rules for it, a constraint or table that is missing |
| `JobCrashes` | everything else that ends a process |
| `CreateContexts`, `AddSchemaChange`, `AddNullValues` | migrations 07, 08 and 09, in any order and any number of times |

Abstractions.  A context's version follows from the type of its incident, so
the unique key is the incident.  A detection is one step with any earlier
start, which stands for any number of detections at once; `EcommercePipeline`
has its statements.  Severities and table names are constants of an incident.
The filter on `OPEN` is true of every row: nothing in the repository resolves
an incident.  Ages count units of 12 seconds, of which 300 are an hour and
three a hundredth of it, so rounding to hundredths has no ties.  Left out: the
renderer, log files and the backfill of contexts that were stored as prose.

### 2.6 `PipelineOperations`, `Accounts` and `TriggerContract`

State.  `account` is `security.users` with the roles, `session` a user's login
and token.  `want` is what each client asks for; `phase` and `answer` how far
the API is with each attempt and what it said; `wire` the messages that Airflow
has not handled, `reply` its replies, `runs` what it has started.  `verified`,
`warranted` and `existed` are history.

| Actions | Code |
|---|---|
| `ProvisionUser`, `RotatePassword` | the commands under `platform/api/cli` |
| `Administer` | external: roles and activity are changed by SQL |
| `Authenticate`, `CheckCredentials`, `RefuseLogin`, `IssueToken`, `TokenExpires` | `AuthenticationService.authenticate` statement by statement; the token's expiry |
| `Arrive` | a request reaches the API; a client repeats one whose outcome is unknown |
| `Authorize` | `get_current_user`, `require_roles`: the account is read again |
| `ForwardTrigger`, `ForwardRead`, `Unsupported` | `PipelineOperationsService` and `AirflowOrchestrator` |
| `AirflowHandles` | external: start a run, conflict, refuse, read, at any time after the message was sent |
| `Answer`, `TransportFails`, `Disconnected` | `_raise_for_status`, the payload's mapping, `_raise_safe`; timeouts and network errors; errors that are neither |
| `ApiStops` | the process ends, and with it every attempt |

A message is lost by never being handled, and a reply by `TransportFails`.  A
client that stops waiting for the API is one client more with the same wish.
Reading a run stands for the other reads, which differ in what they return.

`TriggerContract` knows requests, the runs they started and what each was
told.  A run may start late, but only for a request whose outcome is still
open or unknown.

### 2.7 `OperationalRecords` and `Monitoring`

State.  `clock`, `sourceStatus`, `enabled`, `runs`, `executions`, `alerts` are
the tables; the rows of `metadata.pipelines` are the domain of `enabled`.  No
code of the repository but the seed writes them, so the writes are what the
constraints admit: pipelines are registered and switched, runs are written down
with any start before now, and an alert may represent the execution of any run,
also of another pipeline's.  `request` is an answer in the making: its scope,
the queries left, the rows read, how many writes came between, and the pipelines
registered since the list of pipelines was read (bookkeeping).

| Definitions | Code |
|---|---|
| `OperationalStatus` | the CASE of `pipeline_state` |
| `GetPipelines` ... `GetValidationHistory` | the queries of `AggregationRepository` |
| `AlertIssues` ... `Issues`, `IssueBefore`, `OverallState` | `_issues`, its order and the overall state |
| `Carries` | the validation an issue is given: its own, or that of its alert's execution |
| `Within`, `RateMetric`, `Points`, `Representatives`, `Reviews` | periods, buckets, samples and reviews |
| `PipelineHealth`, `Attention` | the list and what the dashboard takes from it after the cut |
| `Ask`, `Read`, `Respond`, `Fail` | `get_monitoring`, `get_dashboard`, `get_health_metrics`, one query a step |

`ProblemsReported` asks that a failed check is carried by some issue, not that
the issue is its pipeline's: an alert of another pipeline that represents it is
shown with it.  `SamplesAddUp` compares the totals with the pipelines that were
listed (`ListedPipelines`) and those that came too late to be
(`MissedPipelines`).

Each pipeline has one validation check.  Percentages, average durations, names,
messages and the dashboard's activity list are left out.

### 2.8 `ResourceQueries` and `ResourceScreens`

State.  `page` is the screen, its filter and offset, and whether it gave way to
the login page; `hook` the state of `useApiQuery` with the queries its current
request has left; `late` the superseded requests on their way; `reader` the
runs that somebody who pages through their list has seen (history).

| Actions | Code |
|---|---|
| `TimerFires` | the debounced start of a request: loading, no error |
| `Read`, `NotFound`, `Answer`, `Fail` | one query of the service after the other, a missing row, the answer, a 503 or no answer |
| `LateAnswer` | a superseded request answers, fails or is aborted |
| `Unauthorized`, `SignIn` | a 401 sends the browser to the login page, which returns |
| `ChangeFilter`, `NextPage`, `PreviousPage`, `Retry` | the controls, as far as they are in sight |
| `Write`, `Tick` | the records change under the screen |

`Settle` is what the end of a request does to the hook.  Its test of the
request's number is an operator of its own, `IsCurrent`.  The other filters of
the lists are conditions of the same kind as the one modelled; search,
technical events and most columns are left out, and so is a path that becomes
null, which no screen asks for.

### 2.9 `ValidationScenarios`

A script is a sequence of steps, each a command and its subject, translated in
order from `execute`; its `finally` is a second part.  `flagged` is the local
variable that decides whether that part runs.  `up`, `dataset`, `warehouse` and
`runs` are the deployment.

| Actions | Code |
|---|---|
| `StepSucceeds`, `StepFails` | a command of the docker, Airflow, PostgreSQL or API client, or a wait that times out |
| `EvidenceMissing`, `SkipStep` | evidence that cannot be collected; branches not taken |
| `PostTrigger` | the two equal triggers of the retry scenario |
| `Call` | the invalid-data scenario within the retry scenario |
| `Report`, `Escape` | the report and the exit code; an exception after the last handler |
| `LoadRawData`, `RunEnds` | external: Airflow executes the runs |

`keeping` is the runner's option `--keep-work-directory`.  It reaches the
invalid-data scenario only when that is the one asked for; within the retry
scenario the configuration has its default, and `Report` removes the copies.

A failing command has its effect, none, or, when it recreates containers, half
of it.  The verdicts' comparisons of counts and metadata follow from the runs'
outcomes and are not modelled, nor are timings and excerpts.

## 3. Runs

All configurations but `Measurements` and `Monitoring` allow deadlock: finitely
many DAG runs, requests, jobs or steps are started, and when the last has ended
nothing is left to do.

| Run | Instance | Shows |
|---|---|---|
| `PipelineOverlap` | 2 active runs; 1 retry in collection and in detection; two contents, one with a changed dbt project | node results, baseline, NULL counts and incidents are the run's own or of a run beside it; repeated collection settles |
| `PipelineConcurrent` | 2 active runs, no retry; fairness | inputs are ready, success is complete, staging and raw are measured at one load; every queued run ends |
| `PipelineOperator` | 1 active run of 2 and 1 operator who starts any job, with any run and status; the clock ticks | the ledger refinement: records grow stage by stage, whoever runs what |
| `Measurements` | all schemas of 2 columns and 2 types; counts 0..13 | drift incidents rebuild either schema from the other; a reported fall has a reported recovery |
| `Contexts` | 4 incidents, 2 jobs; fairness | waiting is ordered, dates are honest, batches cover, the constraint is met; every job ends |
| `SettingsAdmins` | 2 administrators, 2 requests; fairness | what is checked is still so when used, the registry refinement; every request is answered |
| `Operations` | 2 clients of one account, 3 attempts, 3 plans, 2 passwords; fairness | tokens are earned, writes warranted, the trigger contract is refined; every attempt ends |
| `Monitoring` | 2 pipelines of 1 source, 3 rows (4 with an alert for another run's execution), 5 times, 1 write during an answer (3 about a new pipeline) | no problem is lost to deduplication or limits, a failed pipeline is critical, figures add up, no history is without a period |
| `Screens` | 9 screens, 2 or 3 requests each, pages of one row; fairness | what rests on the screen is current, pages skip no run, details add up, every request ends |
| `Scenarios` | 4 scenarios, with and without retaining copied data, 3 failing commands; fairness | nothing is forgotten, success and the report are true, damage is an error, every scenario ends |
| `FailedRunRecorded`, `ConnectivityFailure` | violated | see section 6 |

Bounds.  Two runs are enough for every relation between a run and its baseline
or its rival; a third run would be a second baseline, which the query orders
by start time.  In `PipelineOverlap` every task may crash at every statement,
and what it leaves behind is met by the other run.  Collection and detection,
which add to what an earlier attempt has committed, are retried by one run at a
time (`Explored`); the other tasks replace what they find, and their retries
are left to the theorems of section 5, which have none of these bounds.  Runs
are symmetric, since nothing orders their names.  Two contents (4 rows and 8,
with and without NULLs, older and newer) raise every row count, freshness and
NULL incident; staging casts a column and marts drift, which raises the schema
incidents; marts without their optional, contract or freshness column raise
the rest or make a job fail.  `MaxClock`, `MaxManual` and `MaxRequests` are
bounds of the model only.

Two requests are enough for every pair of statements of two transactions, and
the deadlock needs no third.  The invariant they leave is proved inductive, so
longer histories add nothing.  Two jobs are enough for every pair, and
`JobsWaitForward` covers longer chains.  The four incidents are one of each
rule and one without; detection finds them together, or refreshes the stale
one alone with a second age.  The job is given no argument or the incident
without rules: a single supported incident is a batch of one.

In `Operations` the plans are a trigger by run id with a read of that run, a
trigger by date with one by id and date, and an unsupported operation with a
DAG that Airflow does not know; one client may repeat its request, so there
are both two clients and two attempts of one.  `Explored` keeps what a login
does with passwords, and logins between requests, to the last plan: what
follows a login looks at the account and never at the password.

In `Monitoring` a window of 3 has a bucket of 2 and one that is cut, and 5 times
are more than a window with both its ends. `Explored` leaves out what adds
nothing to the answers. Three rows tell most answers apart; a fourth is an alert
for the execution of another run, which needs two runs and that execution. Time
passes over runs and executions alone, since alerts' times only break ties.
Records change during an answer while there are few and nothing is in trouble,
since what concerns troubles is stated of undisturbed answers; a second and a
third change are the start and the end of a run of a pipeline registered during
the answer. Properties of problems are stated of answers that no write
disturbed, since an answer made of two states may miss what was never there in
either; the figures and the cuts are stated of all, and proved for all.

In `Screens` each screen is checked with the records it shows, up to three
rows, which are three pages; a third request of the run list makes two
superseded ones.  `NothingSkipped` is stated of runs, whose order by start
never changes; alerts and validation results move to the head of their lists
when they are seen again, and a reader may miss one (a hazard without a
property).

Three failing commands are one for a step, one for its restoration and one for
the report.

Nothing in the DAG keeps two runs apart, and the shared files and tables then
mix what they do.  The properties of `PipelineOverlap` therefore say what a run
owes to whom it overlapped with (`beside`), and that it owes nothing to anybody
else: not to runs that were over, nor to later ones, nor to its own failed
attempts.  A run that overlaps with none has its own results, by the same
properties.  An operator can rewrite every table and file at any time, and
collection records whatever start and status it is given, so these properties
are about runs that no operator had to do with (`HandsOff`); the refinement of
the ledger and the properties of `PipelineConcurrent` are proved with operators.

## 4. Fairness

`FairSpec` has weak fairness of the scheduler's actions and of each process's
next step or error.  Airflow's scheduler loop and a running process justify
that.  Strong fairness is not needed: a waiting TRUNCATE queues its lock
request, and here finitely many readers come before it.  Nothing is promised
about triggers, operators, the clock or failures.

`WorkspaceSettings`: each request's handler goes on (`Handle`), which includes
that PostgreSQL breaks deadlocks, as its `deadlock_timeout` does; requests,
resources and failures are not promised.  `IncidentContext`: each job goes on
to its next statement or its error.  There are finitely many requests and jobs.
With ever more jobs a waiting one could starve, as each new job may take the
row first.

`PipelineOperations`: each attempt that arrived is handled, which includes that
the client's timeouts end every wait (`AIRFLOW_TIMEOUT`); nothing is promised
about Airflow, about messages or about clients.  `ResourceScreens`: the browser
fires its timers, and a request under way is answered or fails.  The proxy sets
no timeout of its own, so that a connection comes to an end is an assumption
about the network and the server; nothing is promised about users, writes or
the login page.  `ValidationScenarios`: the script goes on, since every command
and every wait has a timeout; runs may take for ever.

## 5. Proofs

`EcommercePipelineProofs`, for any sets of runs and operators, any retry limit,
any number of active runs and any contents, assuming only
`PipelineAssumption`, `RecordAssumption` and `RulesAssumption`:

* `TypeInvariant`, `TypeCorrect`.
* `MeasurementsAreOfOneLoad`.  `StagingMatchesRaw` alone is not inductive:
  `LockInv` adds that nobody is loading while somebody holds a share lock, and
  that what an open transaction has measured of raw and staging tables is the
  load they still hold.
* `CommitsOnlyAdd`: an action property, by cases on the statements that commit.
* `PipelineIsInvariant`, and from it `RecordsAreLayered`, `TasksFindInputs`,
  `SuccessIsRecorded`.  `RecordInv` is the strengthening: what a job has
  checked stays true until it commits (`Backed`), because commits only add; and
  each task a run has completed left behind what it is there for
  (`TasksLeaveResults`).
* `PipelineKeepsLedger`: the refinement, step by step.
* `WaitsNeverChain`, from `WaitInv`: who loads waits for nothing, and who has
  read any table has read the raw ones first (`ReadsInOrder`), which nobody
  loads while that lock is held.  So nobody who is waited for waits.
* `JobsAreNeverStuck`: a job at work can go on or waits for one that can.
  `CanGoOn` restates the conditions under which an action of `JobStep` or
  `JobRaises` is enabled.  A reader always has a next table (`ReaderHasNext`),
  and a detection finds a baseline, the latest of finitely many or none
  (`BaselineExists`, by the library's facts on well-founded orders), and a build
  of nothing fails (`BuildFails`).  This is the safety half of `EveryRunEnds`;
  that a job which can go on does so is fairness.

For runs that overlap, from the same assumptions alone, `OverlapIsInvariant`
with `NodeResultsAreOwn`, `ResultsSettle`, `DetectionIsOfTheLoad`,
`BaselinesAreLatest` and `IncidentsAreJustified`.  `OverlapInv` extends
`PipelineInv`:

* `OverlapsAreKnown`: whoever is at it while a run is in progress is beside it,
  and a run that started earlier and is not beside a later one is over.
* `RowsAreOwn`, `CommitsInTurn`: without operators a run is recorded with its own
  start, and what an active run has committed, it committed in tasks it is past
  or at.  So later runs leave an earlier one its baseline, a run whose health is
  stored loads and builds no more, and one that was evaluated measures no more.
* `ArtifactsAreKnown`, `ParsedAgain`, `LoadsAreKnown`, `LoadedIsStored`,
  `BaselineIsEarlier`: what a run has read, or an earlier attempt of it has
  committed, is what a statement would find now, or somebody beside it has
  written since.  This is what a crash after a commit needs.
* `OwnNodeResults`, `BaselineStillLatest`, `IncidentsMatchHealth` themselves: the
  last two depend on the others' parts and on what they said of the step before.

A second run that starts enters `beside` of all that are in progress, and so
weakens what they are promised in the same step; an operator's job makes
`HandsOff` false for whom it meets, and `IncidentsMatchHealth`, which follows a
run's baseline through its whole life, is stated while there was none.

The last section of `EcommercePipelineProofs` is about `SuccessiveMeasurements`,
whose behaviours (`Measuring`) are its own: `RecoveriesAreReported`, for every
threshold and every count, and `DriftsReconstruct`, for any columns and types.
The second needs that the mark of an absent snapshot is no schema
(`RulesAssumption`).

`WorkspaceSettingsProofs`, for any administrators, environments, names and
number of requests, from `SettingsAssumption`:

* `SettingsAreInvariant`.  `ReferencesHold` and `ChecksHold` need each other
  and the locks: an environment about to be deleted is not the default because
  whoever would make it so needs the settings row, which the deletion holds;
  one about to become the default exists because its row is shared.
* `SettingsKeepRegistry`: each step is a registry operation or a stutter.
* `DeadlocksAreBroken`: the settings row has one holder, and all it may wait for
  is an environment whose locker in turn waits for the settings row, which is
  what `Deadlocked` describes; whoever else waits holds no lock that closes a
  circle.  So aborting one of two such requests, as PostgreSQL does, is enough.

`IncidentContextProofs`, for any incidents, jobs, ages and migrations, from
`ContextAssumption` and `RecordAssumption`:

* `ContextIsInvariant`.  A job's loaded rows keep the order of detection that
  the table still has (`LoadedExists`, `WrittenInOrder`); each is current
  unless its incident changed since the job began (`LoadedIsCurrent`); nothing
  is dated in the future (`DatesArePast`), so that a change makes every claim
  about its incident void; and a migration, which waits for writers, finds no
  uncommitted context (`StoredAllowed`).
* From it `JobsWaitForward`, `DatesAreHonest`, `NothingIsLeftOut` and
  `ContextsMeetConstraint`.
* `JobsNeverAllWait`, for a finite set of incidents: of the incidents that the
  jobs are to write next, one comes last; a job that had to wait for it would
  wait for one whose next incident comes later still (`WaitsGoForward`).
* `StalenessIsTold`, from `ObservationsKept`: what a detection has observed, and
  the digits it stores, are all that any context is made of.  The two
  comparisons of an age disagree one unit of the model above the threshold,
  which is less than half of the last digit, and nowhere else
  (`RoundingMisleadsAtTheEdgeOnly`).

`PipelineOperationsProofs`, for any clients, users, DAGs, wishes and numbers of
attempts, from `PlansAssumption` and `WishesAssumption`:

* `OperationsAreInvariant`.  `Traffic`: a message is on the wire or a run, never
  both, and an attempt that was answered with certainty has none on the wire;
  `ReplyTells` and `AnswerTells`: a reply or an answer that is certain agrees
  with the runs; `Warrants`: an attempt that the account permits now is
  warranted, so that authorizing it is.
* `WritesAreWarranted` follows, and `TriggersAreIdempotent`: every step is one
  of `TriggerContract` or a stutter.  Without `Traffic` a late message could
  start a run for a request that was refused.
* `TokensAreEarned`, with `LoginsInvariant`: what a login has checked was true
  at some moment of it.
* `ExistingRunsAreFound`: a run that was there when it was asked for is never
  answered 404.

`OperationalRecordsProofs` serves the next two: what the tables' constraints
keep (`RecordsInv`: sets are finite, keys unique, references resolve, runs are
of registered pipelines), and what
`InOrder` is for any finite set and any strict total order of it: as long as
the set, with each row where as many rows come before it.  Finiteness comes from
`ReferencesAssumption`.

`ResourceScreensProofs`, for any records, screens, filters and numbers of
requests, from `ScreensAssumption`:

* `SettledSafe`.  `SettledIsCurrent` needs that whatever is on its way has a
  smaller number than the current request (`LateIsOlder`), and that a request
  being read starts without an error (`QueriesBelong`); what the queries return
  plays no part.
* `DetailAddsUpSafe`, `LatestIsRecentSafe`.  `RunDetailInv` and
  `PipelineDetailInv` compare what each query has returned with the records as
  they are now: rows are only added and an alert stays with its run, so that an
  earlier query's count is not more than a later query's list.
* `NothingSkippedSafe`.  `PagesInv`: what a reader has still to see lies behind
  the page that is asked for (`Beyond`), since runs that are written meanwhile
  only move earlier ones on; and a page that is the last one leaves nothing.

`MonitoringProofs`, for any records, windows, limits and times, from
`ReferencesAssumption`, `KindsAssumption`, `NullAssumption` (the mark of an
absent value is none of the values) and `MonitoringAssumption`.  `ShapedInv`
says that each part an answer has read has the keys and types its query
returns, and `RequestInv` that it is what the query returns now, while no write
has disturbed the answer:

* `ProblemsReportedSafe`, `FailedIsCriticalSafe`, `HealthyHidesNothingSafe`: by
  cases on what covers an issue in `_issues`, and on the order of the cases of
  the status query.  A failed check is an issue or is covered by an alert in the
  answer, which then carries it (`FailedCheckIsCarried`).
* `HistoryRepresentedSafe`: whatever is in the history lies in one of the two
  periods (`HistoryShaped`), so that there is a last sample.
* `CutKeepsWorstSafe`: in a sorted list every critical issue precedes every
  warning, so a cut that leaves a warning has left all critical ones; and the
  pipelines that need attention come first, so a cut leaves as many as it can.
* `FiguresAddUpSafe`: the periods are apart and cover the runs that were read,
  from the times of these (`RunsTimed`) and from what division by any bucket
  gives (`BucketHolds`, `BucketsFollow`). `KnownInv` follows the queries: once
  the pipelines are read, each that is registered is listed or in `since`, and
  none in both; and every run that was read is of a registered one. The sums
  need no induction: `SumOf` is the size of a disjoint union, and when the rows
  are counted apart by a key, each part numbered from one, the numbered keys
  and the rows are as many (`PartsAddUp`, by a bijection).

`ValidationScenariosProofs`, for any number of failing commands, from
`ScenariosAssumption` and `FaultsAssumption`.  The scripts are finite, so the
lemmas `SchedulerSteps` to `RetrySteps` list their steps; what a step does when
it goes on (`GoesOn`) and when it fails (`Raise`) is said once for all scripts,
and each part of `ScenarioInv` is then proved for both:

* `Control`: an exception waits only while the standard data is restored.
* `DataKept`: data is untouched up to the recreation, remembered until the
  restoration, and standard after it; whoever is told of a restoration or of a
  recovery run is told of standard data.
* `ServicesKept`: the restart scenario of a service reaches no other, and the
  scheduler's forgets its interruption once it was started again.
* `VerdictKept`: a verdict is given by a last step that found everything
  running (`LastStepIsWell`), and by an evaluation that looks at what makes it
  true (`VerdictsAreEarned`); a step that fails leaves none (`VerdictRaises`).
* `WorkdirKept`: copied data is there only while its scenario is executing, or
  without a report, or because it was asked for.

From it `NothingForgottenSafe`, `RestoredIsStandardSafe`, `PassIsEarnedSafe` and
`DamageReportedSafe`.

Only model-checked: liveness (`EveryRunEnds`, `EveryRequestIsAnswered`,
`EveryJobEnds`, `EveryAttemptEnds`, `RequestEnds`, `EveryScenarioEnds`), which
is out of the prover's reach.  Each other property of the passing runs is
stated by a theorem.

Proved and not checked by a run, beside the refinements' steps: the type and
inductive invariants (`TypeOK`, `TypeInv`, `PipelineInv`, `OverlapInv`,
`WaitInv`, `SettingsInvariant`, `OperationsInvariant`, `IInv`,
`ObservationsKept`, `RequestInv`, `ShapedInv`, `KnownInv`, `ScenarioInv`), and
what follows from them about waiting and rounding (`NobodyWaitsForAWaiter`,
`NoJobIsStuck`, `SomeJobGoesOn`, `EveryCircleIsBroken`,
`RoundingMisleadsAtTheEdgeOnly`).

## 6. Where the code and its documents disagree

| Run | The code | What says otherwise |
|---|---|---|
| `FailedRunRecorded` | a run that fails after collection stays recorded as successful, and serves as baseline | ADR-007: a failure before collection is not recorded, because collection is the final task; ADR-009: failed runs are poor baselines |
| `ConnectivityFailure` | a connection that Airflow closes without a reply is answered 500 | `docs/architecture/platform_api.md`: connectivity failures return a safe 503 |

`PROJECT.json` quotes the lines.  Others are visible in the models and have no
run of their own:

* Two active runs share the artifact directory, so one may record the other's
  node results.  ADR-007 wants a durable link between a run and what it
  executed; `OwnNodeResults` says what remains of it: nothing but the run's own
  results and those of runs in progress beside it.
* Collecting metadata again after another run's dbt commands adds that run's
  results, while the README says that "Re-running it for the same Airflow run is
  idempotent".  `NodeResultsSettle` says what remains: nothing of the run's own
  is added, and nothing of a run that was not in progress at the same time.
* A pipeline registered while an answer is being put together may have runs in
  the totals and no item of its own (`MissedPipelines`).
* Every failure of an environment's creation is answered as a conflict
  (`CreateEnvironment` and `Fail` answer alike), whatever the text says.
* A settings answer may flag another environment than it names as the default:
  `ReadGeneral` and `ReadEnvironments` read two snapshots.
* An age over the threshold by less than half of a hundredth of an hour is a
  stale-data incident whose context says that the age is within the threshold;
  `StalenessIsTold` shows that no other age is told wrongly.
* A stop of the scheduler that takes effect and yet times out leaves it
  stopped: the flag for the restoration is set after the command returned.  The
  scenario ends as an error (`DamageReported`), but no restart is attempted,
  while `scripts/validation/README.md` says that "If the scheduler scenario
  errors while the service is stopped, it makes and records a safety restart
  attempt."
* `platform/web/README.md` says that Settings remains demo-only, while the
  screen calls the API.

## 7. What is not modelled

* `--manual` collection, `retry_delay`, log files, wording and layout, and so
  the renderer of incident contexts (`platform/context`).
* Airflow, dbt and PostgreSQL themselves, beyond what the jobs and endpoints
  rely on; these definitions are marked external in `PROJECT.json`.
* Of the aggregation: percentages, average durations, the activity list and
  wording.  Of the resources: search, technical events, most columns; logs,
  metrics, schema snapshots, incidents and dbt metadata, which are lists of one
  query over tables that `EcommercePipeline` writes.
* Of the scenarios: the two that the runner lists as not implemented, the load
  test and the data generators.
* Environment selection and the session cookie (`environment-context.ts`,
  `auth-session.ts`, `middleware.ts`), and the drafts of the settings screen:
  what the browser keeps besides one screen's request.
* The seed and its reapplication; the canonical model is modelled by the
  constraints that readers rely on.
* Grafana dashboards, the seed's contents, styles and static pages have no
  behaviour to check.

## 8. What could follow

In this order; each is a module, its instance, and what is worth proving.

1. `SettingsScreen` (`platform/web/components/settings.tsx`): drafts and saved
   values of three sections, requests in flight, answers that overwrite drafts,
   a save that completes after its changes were discarded.  Composed with
   `WorkspaceRegistry` as its server.
2. `EnvironmentContext` (`environment-context.ts` and the pages): selection in
   the URL, in storage and in the cookie; an environment that was deleted.
3. `SeedReapplied` (`docker-compose.yml`, `init/11`-`13`): scripts applied again
   to a volume in use; what users changed must survive.

The proofs of what is modelled are complete but for what section 5 leaves to TLC.
