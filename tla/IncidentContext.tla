--------------------------- MODULE IncidentContext ---------------------------
(***************************************************************************)
(* The job that explains stored incidents (generate_incident_context.py,   *)
(* with the rules of incident_context_rules.py), the detections that store *)
(* and refresh those incidents meanwhile, and the migrations that widen    *)
(* the table it writes (warehouse/init/07 to 09).                          *)
(*                                                                         *)
(* A job is one transaction of READ COMMITTED statements: it loads one     *)
(* incident, or all of the supported types, and upserts one context after  *)
(* another.  An uncommitted upsert makes every other job that reaches the  *)
(* same incident wait for the end of the transaction.  A context's version *)
(* follows from the incident's type, so (incident, version) is the         *)
(* incident.  Nothing in the repository resolves or deletes incidents.     *)
(*                                                                         *)
(* Ages are in units of 12 seconds, 300 to the hour.                       *)
(***************************************************************************)
EXTENDS Integers

CONSTANTS
  Jobs,            \* runs of the job
  Incidents,       \* incident identifiers: run, type, table and column
  Type,            \* [Incidents -> IncidentTypes]
  Rank,            \* [Incidents -> Nat]: the order of identifiers
  Reports,         \* the sets of incidents a detection may find
  Targets,         \* the arguments the job may be given, All for none
  Ages,            \* the ages of stale tables
  ThresholdHours,  \* freshness_threshold_hours
  MaxClock,        \* bound on the clock
  All,
  NoValue, NoRow, NoContext, NotStarted, Ended

SchemaChangeTypes ==
  {"COLUMN_ADDED", "COLUMN_REMOVED", "COLUMN_TYPE_CHANGED", "DATA_TYPE_CHANGED"}

SupportedTypes == {"STALE_DATA", "NULL_VALUES"} \cup SchemaChangeTypes

IncidentTypes ==
  SupportedTypes
    \cup {"ROW_COUNT_INCREASE", "ROW_COUNT_DECREASE", "NULLABILITY_CHANGED"}

\* INVESTIGATE_UPSTREAM_INGESTION_AND_VERIFY_THRESHOLD and the two codes that
\* migrations 08 and 09 add.
ActionCodes == {"INVESTIGATE_UPSTREAM", "REVIEW_SCHEMA_CHANGE", "REVIEW_NULL_VALUES"}

Exceeding(age) == age > 300 * ThresholdHours

ASSUME ContextAssumption ==
  /\ Type \in [Incidents -> IncidentTypes]
  /\ Rank \in [Incidents -> Nat]
  /\ \A i, o \in Incidents : Rank[i] = Rank[o] => i = o
  /\ Reports \subseteq SUBSET Incidents
  /\ Targets \subseteq Incidents \cup {All}
  /\ Ages \subseteq Nat
  /\ ThresholdHours \in Nat
  /\ \A age \in Ages : Exceeding(age)  \* only these raise STALE_DATA
  /\ MaxClock \in Nat
  /\ All \notin Incidents
  /\ NoValue \notin Nat
  /\ NotStarted # Ended

VARIABLES
  clock,      \* the time, on one host
  incidents,  \* metadata.data_incidents
  changedAt,  \* when each of its rows was last committed (history)
  contexts,   \* metadata.incident_context
  allowed,    \* what its action code constraint allows; {}: no such table
  job,        \* the runs of the job
  finished    \* generated_at of the latest batch that committed (history)

vars == <<clock, incidents, changedAt, contexts, allowed, job, finished>>

-----------------------------------------------------------------------------
(***************************************************************************)
(* The rules.                                                              *)
(***************************************************************************)

\* f"{age_hours:.2f} hours", in hundredths of an hour.
Displayed(age) == (age + 1) \div 3

\* evaluate_freshness, of the values that were displayed.
EvaluateFreshness(observed) ==
  IF observed > 100 * ThresholdHours THEN "EXCEEDED_THRESHOLD"
                                     ELSE "WITHIN_THRESHOLD"

ActionOf(i) ==
  CASE Type[i] = "STALE_DATA"  -> "INVESTIGATE_UPSTREAM"
    [] Type[i] = "NULL_VALUES" -> "REVIEW_NULL_VALUES"
    [] OTHER                   -> "REVIEW_SCHEMA_CHANGE"

\* change_type: the SCHEMA_CHANGE_TYPES names.
ChangeOf(i) ==
  IF Type[i] = "DATA_TYPE_CHANGED" THEN "COLUMN_TYPE_CHANGED"
  ELSE IF Type[i] \in SchemaChangeTypes THEN Type[i] ELSE NoValue

\* The context of an incident whose observed_value was loaded.
ContextOf(i, observed, generatedAt) ==
  [action      |-> ActionOf(i),
   change      |-> ChangeOf(i),
   observed    |-> observed,
   evaluation  |-> IF Type[i] = "STALE_DATA" THEN EvaluateFreshness(observed)
                                             ELSE "UNKNOWN",
   generatedAt |-> generatedAt]

Times == 0 .. MaxClock

\* observed is what the context rules make of observed_value.
Rows == [observed : Nat \cup {NoValue}, detectedAt : Times]

Contexts ==
  [action : ActionCodes,
   change : {"COLUMN_ADDED", "COLUMN_REMOVED", "COLUMN_TYPE_CHANGED", NoValue},
   observed : Nat \cup {NoValue},
   evaluation : {"EXCEEDED_THRESHOLD", "WITHIN_THRESHOLD", "UNKNOWN"},
   generatedAt : Times]

\* A job before and after its SELECT; what that returned; what is upserted.
RunningJobs ==
  [phase : {"starting", "writing"}, target : Targets,
   generatedAt : Times, loaded : [Incidents -> Rows \cup {NoRow}],
   written : SUBSET Incidents]

ASSUME RecordAssumption ==
  /\ NoRow \notin Rows
  /\ NoContext \notin Contexts

Init ==
  /\ clock = 0
  /\ incidents = [i \in Incidents |-> NoRow]
  /\ changedAt = [i \in Incidents |-> 0]
  /\ contexts = [i \in Incidents |-> NoContext]
  /\ allowed \in {{}, ActionCodes}  \* an existing or a fresh database volume
  /\ job = [j \in Jobs |-> NotStarted]
  /\ finished = 0

Tick ==
  /\ clock < MaxClock
  /\ clock' = clock + 1
  /\ UNCHANGED <<incidents, changedAt, contexts, allowed, job, finished>>

-----------------------------------------------------------------------------
(***************************************************************************)
(* Detection: a new incident, or what the conflict clause refreshes.       *)
(***************************************************************************)

\* What is stored of a stale table's age.
ObservedOf(i, age) == IF Type[i] = "STALE_DATA" THEN Displayed(age) ELSE NoValue

\* Mutant: the conflict clause also refreshes detected_at.
Redetected(i, began, age) ==
  [observed |-> ObservedOf(i, age), detectedAt |-> began]

\* detected_at stays what it was.
Upserted(i, began, age) ==
  [observed   |-> ObservedOf(i, age),
   detectedAt |-> IF incidents[i] = NoRow THEN began ELSE incidents[i].detectedAt]

\* A detection that began earlier, or one of several, commits.
PersistIncidents(found, began, age) ==
  /\ incidents' = [i \in Incidents |-> IF i \in found THEN Upserted(i, began, age)
                                                      ELSE incidents[i]]
  /\ changedAt' = [i \in Incidents |-> IF i \in found THEN clock ELSE changedAt[i]]
  /\ UNCHANGED <<clock, contexts, allowed, job, finished>>

-----------------------------------------------------------------------------
(***************************************************************************)
(* The job.                                                                *)
(***************************************************************************)

StartJob(j, target) ==
  /\ job[j] = NotStarted
  /\ job' = [job EXCEPT ![j] =
       [phase |-> "starting", target |-> target, generatedAt |-> clock,
        loaded |-> [i \in Incidents |-> NoRow], written |-> {}]]
  /\ UNCHANGED <<clock, incidents, changedAt, contexts, allowed, finished>>

Running(j) == job[j] \notin {NotStarted, Ended}

Starting(j) == Running(j) /\ job[j].phase = "starting"
Writing(j)  == Running(j) /\ job[j].phase = "writing"

\* Mutant: the batch is not extended to the rules added last.
SelectedBefore(target, i) ==
  \/ i = target
  \/ target = All /\ Type[i] \in SupportedTypes \ {"NULL_VALUES"}

Selected(target, i) ==
  \/ i = target
  \/ target = All /\ Type[i] \in SupportedTypes

\* load_incidents.
LoadIncidents(j) ==
  /\ Starting(j)
  /\ job' = [job EXCEPT ![j].phase = "writing",
                        ![j].loaded =
       [i \in Incidents |-> IF Selected(job[j].target, i) THEN incidents[i]
                                                          ELSE NoRow]]
  /\ UNCHANGED <<clock, incidents, changedAt, contexts, allowed, finished>>

Loaded(j) == {i \in Incidents : job[j].loaded[i] # NoRow}

\* ORDER BY detected_at, incident_id.
Precedes(i, o, rows) ==
  \/ rows[i].detectedAt < rows[o].detectedAt
  \/ rows[i].detectedAt = rows[o].detectedAt /\ Rank[i] < Rank[o]

\* Mutant: no ORDER BY.
IsAnyNext(j, i) ==
  /\ Writing(j)
  /\ i \in Loaded(j) \ job[j].written

\* The incident a job processes now.
IsNext(j, i) ==
  /\ Writing(j)
  /\ i \in Loaded(j) \ job[j].written
  /\ \A o \in (Loaded(j) \ job[j].written) \ {i} : Precedes(i, o, job[j].loaded)

\* An upsert of the same row is not committed yet.
WaitsFor(j, k, i) ==
  /\ k # j
  /\ Writing(k)
  /\ IsNext(j, i)
  /\ i \in job[k].written

\* persist_context.
PersistContext(j, i) ==
  /\ IsNext(j, i)
  /\ Type[i] \in SupportedTypes
  /\ ActionOf(i) \in allowed
  /\ \A k \in Jobs : ~WaitsFor(j, k, i)
  /\ job' = [job EXCEPT ![j].written = @ \cup {i}]
  /\ UNCHANGED <<clock, incidents, changedAt, contexts, allowed, finished>>

Later(a, b) == IF a > b THEN a ELSE b

\* Mutant: generated_at is the time of the commit.
CommitDated(j) ==
  /\ Writing(j)
  /\ Loaded(j) = job[j].written
  /\ job[j].target = All \/ Loaded(j) # {}
  /\ contexts' = [i \in Incidents |->
       IF i \in job[j].written
       THEN ContextOf(i, job[j].loaded[i].observed, clock)
       ELSE contexts[i]]
  /\ finished' = IF job[j].target = All THEN Later(finished, job[j].generatedAt)
                                        ELSE finished
  /\ job' = [job EXCEPT ![j] = Ended]
  /\ UNCHANGED <<clock, incidents, changedAt, allowed>>

Commit(j) ==
  /\ Writing(j)
  /\ Loaded(j) = job[j].written
  /\ job[j].target = All \/ Loaded(j) # {}
  /\ contexts' = [i \in Incidents |->
       IF i \in job[j].written
       THEN ContextOf(i, job[j].loaded[i].observed, job[j].generatedAt)
       ELSE contexts[i]]
  /\ finished' = IF job[j].target = All THEN Later(finished, job[j].generatedAt)
                                        ELSE finished
  /\ job' = [job EXCEPT ![j] = Ended]
  /\ UNCHANGED <<clock, incidents, changedAt, allowed>>

\* No such incident, no rules for its type, or a constraint (or the table)
\* that a migration has yet to add.
Rejected(j) ==
  \/ Writing(j) /\ Loaded(j) = {} /\ job[j].target # All
  \/ \E i \in Incidents :
       IsNext(j, i) /\ (Type[i] \notin SupportedTypes \/ ActionOf(i) \notin allowed)

Rollback(j) ==
  /\ job' = [job EXCEPT ![j] = Ended]
  /\ UNCHANGED <<clock, incidents, changedAt, contexts, allowed, finished>>

JobRaises(j) == Rejected(j) /\ Rollback(j)

\* The process or its connection is lost.
JobCrashes(j) == Running(j) /\ Rollback(j)

-----------------------------------------------------------------------------
(***************************************************************************)
(* Migrations.  ALTER TABLE waits for every transaction that has written   *)
(* to the table.                                                           *)
(***************************************************************************)

Unwritten == \A j \in Jobs : Running(j) => job[j].written = {}

Constrain(codes) ==
  /\ allowed' = codes
  /\ UNCHANGED <<clock, incidents, changedAt, contexts, job, finished>>

\* 07: an existing table keeps its constraint.
CreateContexts ==
  /\ allowed = {}
  /\ Constrain({"INVESTIGATE_UPSTREAM"})

\* Mutant: the constraint is added NOT VALID.
AddSchemaChangeUnchecked ==
  /\ allowed # {}
  /\ Unwritten
  /\ Constrain({"INVESTIGATE_UPSTREAM", "REVIEW_SCHEMA_CHANGE"})

\* 08: fails if stored rows do not meet the new constraint.
AddSchemaChange ==
  /\ allowed # {}
  /\ Unwritten
  /\ \A i \in Incidents :
       contexts[i] # NoContext => contexts[i].action # "REVIEW_NULL_VALUES"
  /\ Constrain({"INVESTIGATE_UPSTREAM", "REVIEW_SCHEMA_CHANGE"})

\* 09.
AddNullValues ==
  /\ allowed # {}
  /\ Unwritten
  /\ Constrain(ActionCodes)

-----------------------------------------------------------------------------
JobStep(j) ==
  LoadIncidents(j) \/ (\E i \in Incidents : PersistContext(j, i)) \/ Commit(j)

Detects ==
  \E found \in Reports, began \in 0 .. clock, age \in Ages :
    PersistIncidents(found, began, age)

Migrates == CreateContexts \/ AddSchemaChange \/ AddNullValues

Next ==
  \/ Tick
  \/ Detects
  \/ \E j \in Jobs, target \in Targets : StartJob(j, target)
  \/ \E j \in Jobs : JobStep(j) \/ JobRaises(j) \/ JobCrashes(j)
  \/ Migrates

Spec == Init /\ [][Next]_vars

\* A running job goes on: to its next statement or to its error.
FairSpec == Spec /\ \A j \in Jobs : WF_vars(JobStep(j) \/ JobRaises(j))

-----------------------------------------------------------------------------
(***************************************************************************)
(* Properties.                                                             *)
(***************************************************************************)

\* The type of every variable.
TypeOK ==
  /\ clock \in Times
  /\ incidents \in [Incidents -> Rows \cup {NoRow}]
  /\ changedAt \in [Incidents -> Times]
  /\ contexts \in [Incidents -> Contexts \cup {NoContext}]
  /\ allowed \subseteq ActionCodes
  /\ job \in [Jobs -> RunningJobs \cup {NotStarted, Ended}]
  /\ finished \in Times

\* Concurrent jobs cannot deadlock: whoever is waited for is itself at a later
\* incident of one order common to all jobs, so no chain of waiting jobs
\* closes.  It is the ORDER BY of load_incidents that gives the order, and
\* detection's conflict clause, which leaves detected_at alone, that keeps it.
WaitsGoForward ==
  \A j, k \in Jobs : \A i, o \in Incidents :
    WaitsFor(j, k, i) /\ IsNext(k, o) => Precedes(i, o, incidents)

\* generated_at is honest: a context dated after its incident last changed
\* describes the incident as it is, whichever job wrote last.
DatedContextsAreCurrent ==
  \A i \in Incidents :
    contexts[i] # NoContext /\ changedAt[i] < contexts[i].generatedAt
      => contexts[i].observed = incidents[i].observed

\* A batch that has committed left no open supported incident without a
\* context that was there before it began (README, "Omit the incident ID to
\* process all open ... incidents").
BatchesCover ==
  \A i \in Incidents :
    /\ Type[i] \in SupportedTypes
    /\ incidents[i] # NoRow
    /\ changedAt[i] < finished
    => contexts[i] # NoContext

\* Stored contexts, and those about to be committed, meet the constraint that
\* is in force, though migrations may narrow it between the jobs; and once all
\* migrations are applied, a batch has nothing that would make it fail.
ContextsConform ==
  /\ \A i \in Incidents : contexts[i] # NoContext => contexts[i].action \in allowed
  /\ \A j \in Jobs :
       /\ Running(j) => \A i \in job[j].written : ActionOf(i) \in allowed
       /\ Running(j) /\ job[j].target = All /\ allowed = ActionCodes
            => ~Rejected(j)

\* Every job ends, although jobs wait for each other's rows.
EveryJobEnds == \A j \in Jobs : Running(j) ~> job[j] = Ended
=============================================================================
