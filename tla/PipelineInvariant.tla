-------------------------- MODULE PipelineInvariant --------------------------
(***************************************************************************)
(* The inductive invariants of EcommercePipeline, in named parts: why its  *)
(* invariants hold of every instance, concurrent runs, operators and       *)
(* crashes included, and why what is said of runs that overlap does.       *)
(***************************************************************************)
EXTENDS EcommercePipeline

\* Airflow's processes work for running DAG runs, within the attempts allowed;
\* an operator has a run to work for in metadata jobs, and only there.
ProcessesInOrder ==
  \A p \in Processes :
    /\ p \in Runs => target[p] = p
    /\ step[p] # "idle" =>
         /\ p \in Runs => Active(p) /\ tries[p] \in Attempts
         /\ task[p] \in MetadataJobs => target[p] \in Runs

\* Only a job that is still reading holds measurements or NULL counts.
MemoryOfReaders ==
  \A p \in Processes : \A t \in Tables :
    /\ memory[p].seen[t] # Unread =>
         At(p, "collect_data_health_metrics", "reading")
    /\ memory[p].nulls[t] # Unread =>
         At(p, "detect_data_incidents", "reading")

\* While raw tables are being loaded no open transaction has read them, so
\* what a transaction has measured of raw tables and of the views over them
\* is the load they still hold.
ReadsAreCurrent ==
  /\ RawExclusive => ~ShareLocked("raw")
  /\ \A p \in Processes :
       /\ memory[p].seen["raw"] # Unread => memory[p].seen["raw"].load = raw.load
       /\ memory[p].seen["staging"] # Unread =>
            /\ memory[p].seen["raw"] # Unread
            /\ memory[p].seen["staging"].load = raw.load

\* A transaction reads the tables in the order that MONITORED_TABLES lists them.
ReadsInOrder ==
  \A p \in Processes : \A t \in Tables :
    HasRead(p, t) => \A u \in Earlier[t] : HasRead(p, u)

\* The next statement of p needs a lock that the transaction of q holds.
WaitsFor(p, q) ==
  \/ /\ At(p, "bootstrap_raw_data", "started")
     /\ step[q] = "loading" \/ HasRead(q, "raw")
  \/ /\ At(p, "run_dbt", "started")
     /\ step[q] = "loading" \/ HasRead(q, "staging") \/ HasRead(q, "marts")
  \/ /\ step[p] = "reading"
     /\ \E t \in {"raw", "staging"} : NextToRead(p, t)
     /\ step[q] = "loading"

\* No transaction that another one waits for waits itself, so that no circle
\* of waits can close: a loader waits for nothing, and who has read any table
\* has read the raw tables, which nobody loads meanwhile.
NobodyWaitsForAWaiter ==
  \A p, q, r \in Processes : WaitsFor(p, q) => ~WaitsFor(q, r)

\* The steps of each task, between its start and its end.
StepsOf ==
  [bootstrap_raw_data          |-> {"started", "loading"},
   run_dbt                     |-> {"started", "failed", "built"},
   test_dbt                    |-> {"started"},
   collect_dbt_metadata        |-> {"started", "parsedRun", "parsedTest"},
   collect_data_health_metrics |-> {"started", "reading"},
   detect_data_incidents       |-> {"started", "resolved", "currentMetrics", "current",
                                    "based", "baseMetrics", "reading"}]

StepsFitTasks ==
  \A p \in Processes : step[p] \in StepsOf[task[p]] \cup {"idle", "finished"}

Working(p) == step[p] \notin {"idle", "finished"}

\* p has a statement that waits for no lock and finds its input, or an error
\* to raise: the conditions of the actions of JobStep and of JobRaises.
CanGoOn(p) ==
  \/ At(p, "bootstrap_raw_data", "started") /\ ~RawExclusive /\ ~ShareLocked("raw")
  \/ At(p, "bootstrap_raw_data", "loading") 
  \/ Buildable(p)
  \/ At(p, "run_dbt", "failed") \/ At(p, "run_dbt", "built") \/ At(p, "test_dbt", "started")
  \/ At(p, "collect_dbt_metadata", "started") \/ At(p, "collect_dbt_metadata", "parsedRun")
  \/ At(p, "collect_dbt_metadata", "parsedTest")
  \/ At(p, "collect_data_health_metrics", "started")
  \/ /\ At(p, "collect_data_health_metrics", "reading")
     /\ \/ \A t \in Tables : memory[p].seen[t] # Unread
        \/ \E t \in Tables :
             /\ NextToRead(p, t)
             /\ memory[p].schemas[t] = Unread \/ Readable(t) \/ ~Measurable(t)
  \/ /\ task[p] = "detect_data_incidents"
     /\ step[p] \in {"started", "resolved", "currentMetrics", "based", "baseMetrics"}
  \/ /\ At(p, "detect_data_incidents", "current")
     /\ memory[p].metrics = NoHealth \/ Baselines(target[p]) # {}
  \/ /\ At(p, "detect_data_incidents", "reading")
     /\ \/ \A t \in Tables : memory[p].nulls[t] # Unread
        \/ \E t \in Tables : NextToRead(p, t) /\ Readable(t)

\* A job at work can go on, or waits for one that can: no job is left waiting
\* for a lock, for input or for a state nobody brings about.
NoJobIsStuck ==
  \A p \in Processes : Working(p) =>
    CanGoOn(p) \/ \E q \in Processes : WaitsFor(p, q) /\ CanGoOn(q)

\* Node results of both dbt commands.
OfBothCommands(results) == \A c \in Commands : \E n \in results : n.command = c

\* What a job has checked or gathered stays true until it commits.
Backed(p) ==
  /\ At(p, "collect_dbt_metadata", "parsedRun") =>
       \E n \in memory[p].parsed : n.command = "run"
  /\ At(p, "collect_dbt_metadata", "parsedTest") =>
       OfBothCommands(memory[p].parsed)
  /\ At(p, "collect_data_health_metrics", "reading") =>
       pipelineRuns[target[p]] # NoRow
  /\ task[p] = "detect_data_incidents" /\ step[p] \in {"currentMetrics", "current"} =>
       /\ memory[p].metrics # NoHealth => health[target[p]] # NoHealth
       /\ p \in Runs => memory[p].metrics # NoHealth
  /\ Detecting(p) => health[target[p]] # NoHealth

JobsAreBacked == \A p \in Processes : Backed(p)

RecordedWithResults ==
  \A r \in Runs : pipelineRuns[r] # NoRow => OfBothCommands(nodeResults[r])

\* The tasks before a task in the chain of the DAG.
Upstream ==
  [bootstrap_raw_data          |-> {},
   run_dbt                     |-> {"bootstrap_raw_data"},
   test_dbt                    |-> {"bootstrap_raw_data", "run_dbt"},
   collect_dbt_metadata        |-> {"bootstrap_raw_data", "run_dbt", "test_dbt"},
   collect_data_health_metrics |-> {"bootstrap_raw_data", "run_dbt", "test_dbt",
                                    "collect_dbt_metadata"},
   detect_data_incidents       |-> Tasks \ {"detect_data_incidents"}]

Completed(r) ==
  Upstream[task[r]] \cup (IF step[r] = "finished" THEN {task[r]} ELSE {})

\* Each task a run has completed left behind what it is there for.
LeavesResults(r) ==
  /\ "run_dbt" \in Completed(r) => artifacts["run"] # NoArtifact
  /\ "test_dbt" \in Completed(r) => artifacts["test"] # NoArtifact
  /\ "collect_dbt_metadata" \in Completed(r) => pipelineRuns[r] # NoRow
  /\ "collect_data_health_metrics" \in Completed(r) => health[r] # NoHealth
  /\ "detect_data_incidents" \in Completed(r) => r \in evaluated
  /\ dagState[r] = "success" => r \in evaluated

TasksLeaveResults == \A r \in Runs : LeavesResults(r)

\* No commit is taken back by a later one.
RecordsGrow ==
  /\ \A r \in Runs :
       /\ pipelineRuns[r] # NoRow => pipelineRuns'[r] # NoRow
       /\ health[r] # NoHealth => health'[r] # NoHealth
       /\ nodeResults[r] \subseteq nodeResults'[r]
       /\ DOMAIN incidents[r] \subseteq DOMAIN incidents'[r]
       /\ r \in evaluated => r \in evaluated'
  /\ \A c \in Commands : artifacts[c] # NoArtifact => artifacts'[c] # NoArtifact

TypeInv == TypeOK /\ ProcessesInOrder

LockInv == MemoryOfReaders /\ ReadsAreCurrent /\ StagingMatchesRaw

RecordInv ==
  JobsAreBacked /\ RecordedWithResults /\ LayersInOrder /\ TasksLeaveResults

\* The inductive invariant of waiting, with PipelineInv.
WaitInv == ReadsInOrder /\ StepsFitTasks

\* The inductive invariant.
PipelineInv == TypeInv /\ LockInv /\ RecordInv
-----------------------------------------------------------------------------
(***************************************************************************)
(* Runs that overlap: who can have written what, by who was in progress.   *)
(***************************************************************************)
Begun == {r \in Runs : dagState[r] \notin {"none", "queued"}}

\* Whose work a run may meet in the tables and files that all share.
Around(r) == {r} \cup beside[r]

\* Whoever is at it while a run is in progress is known to be beside it, and
\* who is not was over when the run started.
OverlapsAreKnown ==
  /\ \A r \in Runs : Active(r) => InProgress \subseteq Around(r)
  /\ \A o \in Operators : AtWork(o) /\ target[o] \in Runs => o \in beside[target[o]]
  /\ \A r \in Runs : beside[r] \cap Runs \subseteq Begun
  /\ \A r \in Begun : startedAt[r] <= clock
  /\ \A r, q \in Begun : startedAt[r] = startedAt[q] => r = q
  /\ \A r, q \in Begun :
       startedAt[q] < startedAt[r] /\ q \notin beside[r] => ~Active(q)

\* The DAG's own collection records a run as started when it started.
RowsAreOwn ==
  \A r \in Runs :
    /\ /\ task[r] = "collect_dbt_metadata"
       /\ step[r] \in {"started", "parsedRun", "parsedTest"}
       => memory[r].given = OwnRow(r)
    /\ HandsOff(r) /\ pipelineRuns[r] # NoRow =>
         r \in Begun /\ pipelineRuns[r] = OwnRow(r)

\* What an active run has committed, it committed in tasks it is past or at.
CommitsInTurn ==
  \A r \in Runs :
    /\ r \notin Begun => task[r] = FirstTask
    /\ Active(r) /\ HandsOff(r) =>
         /\ pipelineRuns[r] # NoRow => task[r] \in MetadataJobs
         /\ health[r] # NoHealth => task[r] \in MetadataJobs \ {"collect_dbt_metadata"}
         /\ r \in evaluated => task[r] = LastTask

\* Once its dbt tasks are over, an active run finds in the artifact files what
\* it or somebody beside it wrote; what it has taken from there is that, and
\* as long as a file is still its own, what is in the file.
ArtifactsAreKnown ==
  \A r \in Runs :
    /\ Active(r) =>
         /\ "run_dbt" \in Completed(r) => artifacts["run"].by \in Around(r)
         /\ "test_dbt" \in Completed(r) => artifacts["test"].by \in Around(r)
    /\ HandsOff(r) => \A n \in nodeResults[r] \cup memory[r].parsed :
         /\ n.invocation.by \in Around(r)
         /\ artifacts[n.command].by = r => n.invocation = artifacts[n.command]

\* A collection that comes again has parsed nothing of its own anew.
ParsedAgain ==
  \A r \in Runs : \A n \in memory[r].parsed :
    /\ \E label \in {"parsedRun", "parsedTest"} : At(r, "collect_dbt_metadata", label)
    /\ HandsOff(r) /\ n.invocation.by = r =>
         /\ nodeResults[r] # {} => n \in nodeResults[r]
         /\ \A m \in memory[r].parsed :
              m.command = n.command /\ m.invocation.by = r => m = n

\* The table still holds the load, or one of somebody beside r.
Same(r, t, load) == Visible(t).load = load \/ Visible(t).load.by \in beside[r]

\* Once an active run has built, the marts hold the load of the raw tables, or
\* those hold one of somebody beside it; and so it is with what it measures.
LoadsAreKnown ==
  \A r \in Runs : Active(r) =>
    /\ "run_dbt" \in Completed(r) \/ At(r, "run_dbt", "built") =>
         Same(r, "raw", marts.load)
    /\ HandsOff(r) => \A t \in Tables :
         /\ memory[r].seen[t] # Unread => Same(r, t, memory[r].seen[t].load)
         /\ health[r] # NoHealth => Same(r, t, health[r][t].load)

\* Detection holds the health its run has stored.
LoadedIsStored ==
  \A r \in Runs : task[r] = LastTask /\ HandsOff(r) =>
    /\ step[r] \in {"currentMetrics", "current"} \/ Detecting(r) =>
         memory[r].metrics = health[r]
    /\ step[r] = "current" \/ Detecting(r) => memory[r].schema = health[r]

\* A baseline started before the run it is chosen for, and is recorded so.
BaselineIsEarlier ==
  \A r \in Runs : Detecting(r) /\ HandsOff(r) =>
    \A q \in {memory[r].base} \cap Runs : HandsOff(q) => q \in Candidates(r)

\* The inductive invariant of runs that overlap, with PipelineInv.
OverlapInv ==
  /\ OverlapsAreKnown
  /\ RowsAreOwn
  /\ CommitsInTurn
  /\ ArtifactsAreKnown
  /\ ParsedAgain
  /\ LoadsAreKnown
  /\ LoadedIsStored
  /\ BaselineIsEarlier
  /\ OwnNodeResults
  /\ BaselineStillLatest
  /\ IncidentsMatchHealth
=============================================================================
