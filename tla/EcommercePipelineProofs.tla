----------------------- MODULE EcommercePipelineProofs -----------------------
(***************************************************************************)
(* Proofs, for any number of runs, operators, retries and table contents,  *)
(* of the invariants of EcommercePipeline that no interleaving, crash,     *)
(* retry or repeated job can break; of what a run owes to whom it overlaps *)
(* with; and, in the last section, of what the incidents of one table      *)
(* measured again and again tell.                                          *)
(***************************************************************************)
EXTENDS PipelineInvariant, SuccessiveMeasurements, FiniteSetTheorems,
        WellFoundedInduction, TLAPS

-----------------------------------------------------------------------------
(***************************************************************************)
(* Type correctness.                                                       *)
(***************************************************************************)

\* The memory a new process starts with is well-typed.
LEMMA BlankType == Blank \in Memories
BY DEF Blank, Memories, RunRows

\* A statement on a table finds rows of some load, or no table.
LEMMA VisibleType ==
  ASSUME TypeOK, NEW t \in Tables
  PROVE  Visible(t) \in [load : Loads, content : Contents \cup {NoContent}]
BY PipelineAssumption DEF TypeOK, Visible, Tables

\* Detection finds incidents that have an identifier.
LEMMA FoundType == \A p : Found(p) \subseteq IncidentKeys
BY DEF Found, DetectForTable

\* A task that is not the last has a next one.
LEMMA DownstreamType == \A j \in Tasks \ {LastTask} : Downstream[j] \in Tasks
BY DEF Tasks, LastTask, Downstream

LEMMA InitTypeInv == Init => TypeInv
<1> SUFFICES ASSUME Init PROVE TypeInv
  OBVIOUS
<1>1. NoLoad \in Loads
  BY DEF Loads
<1>2. TypeOK
  BY <1>1, BlankType, PipelineAssumption DEF Init, TypeOK, Processes, Tasks, FirstTask, Steps,
     NoIncidents
<1>3. ProcessesInOrder
  BY DEF Init, ProcessesInOrder
<1> QED
  BY <1>2, <1>3 DEF TypeInv

\* Replacing one local variable of a job keeps its memory well-typed.
LEMMA MemoryUpdate ==
  ASSUME NEW m \in Memories
  PROVE  /\ \A v \in RunRows : [m EXCEPT !.given = v] \in Memories
         /\ \A v \in SUBSET NodeResults : [m EXCEPT !.parsed = v] \in Memories
         /\ \A t \in Tables : \A v \in Schemas :
              [m EXCEPT !.schemas[t] = v] \in Memories
         /\ \A t \in Tables : \A v \in Measurements :
              [m EXCEPT !.seen[t] = v] \in Memories
         /\ \A t \in Tables : \A v \in [Columns -> Nat] :
              [m EXCEPT !.nulls[t] = v] \in Memories
         /\ \A q \in Runs \cup {NoRun} : [m EXCEPT !.base = q] \in Memories
         /\ \A v \in HealthRows \cup {NoHealth} :
              /\ [m EXCEPT !.metrics = v] \in Memories
              /\ [m EXCEPT !.schema = v] \in Memories
              /\ [m EXCEPT !.baseMetrics = v] \in Memories
              /\ [m EXCEPT !.baseSchemas = v] \in Memories
         /\ \A v \in Nat : [m EXCEPT !.detectedAt = v] \in Memories
BY DEF Memories

\* A job starts with a well-typed memory.
LEMMA JobStartsType ==
  ASSUME TypeOK, NEW p \in Processes, NEW job, NEW row \in RunRows,
         JobStarts(p, job, row)
  PROVE  /\ step' \in [Processes -> Steps]
         /\ memory' \in [Processes -> Memories]
<1> DEFINE began == IF job = "detect_data_incidents" THEN clock ELSE 0
           given == IF job = "collect_dbt_metadata" THEN row ELSE Blank.given
           told == [memory[p] EXCEPT !.given = given]
           started == [told EXCEPT !.detectedAt = began]
<1>1. began \in Nat /\ memory[p] \in Memories /\ given \in RunRows
  BY BlankType DEF TypeOK, Memories
<1>2. started \in Memories
  BY <1>1, MemoryUpdate
<1>3. memory' = [memory EXCEPT ![p] = started]
  BY DEF JobStarts
<1> QED
  BY <1>2, <1>3 DEF TypeOK, JobStarts, Steps

\* Airflow, the clock and the operators' command lines preserve the types.
LEMMA SchedulingType ==
  ASSUME TypeInv
  PROVE  /\ Tick => TypeOK'
         /\ \A r \in Runs : Airflow(r) => TypeOK'
         /\ \A o \in Operators : Manual(o) => TypeOK'
<1> USE PipelineAssumption DEF TypeInv, TypeOK, Processes, airflowVars,
      processVars, warehouse, metadata
<1>1. Tick => TypeOK'
  BY DEF Tick
<1>2. ASSUME NEW r \in Runs, Airflow(r) PROVE TypeOK'
  <2>1. CASE Trigger(r)
    BY <2>1 DEF Trigger
  <2>2. CASE StartDagRun(r)
    <3>1. beside' \in [Runs -> SUBSET Processes]
      BY <2>2 DEF StartDagRun, InProgress
    <3> QED
      BY <2>2, <3>1 DEF StartDagRun
  <2>3. CASE StartAttempt(r)
    <3>1. OwnRow(r) \in RunRows
      BY DEF OwnRow, RunRows
    <3> QED
      BY <2>3, <3>1, JobStartsType DEF StartAttempt
  <2>4. CASE TaskSucceeds(r)
    BY <2>4, DownstreamType DEF TaskSucceeds, Steps
  <2> QED
    BY <1>2, <2>1, <2>2, <2>3, <2>4 DEF Airflow
<1>3. ASSUME NEW o \in Operators, Manual(o) PROVE TypeOK'
  <2>1. ASSUME NEW job \in Tasks, NEW r \in Runs \cup {NoRun}, NEW row \in GivenRows,
               OperatorStarts(o, job, r, row)
        PROVE  TypeOK'
    <3>1. beside' \in [Runs -> SUBSET Processes]
      BY <2>1 DEF OperatorStarts
    <3> QED
      BY <2>1, <3>1, JobStartsType DEF OperatorStarts
  <2>2. CASE OperatorReturns(o)
    BY <2>2 DEF OperatorReturns, Steps
  <2> QED
    BY <1>3, <2>1, <2>2 DEF Manual
<1> QED
  BY <1>1, <1>2, <1>3

\* Whoever runs dbt or the bootstrap does so by an invocation.
LEMMA InvocationType ==
  ASSUME TypeOK, NEW p \in Processes
  PROVE  Invocation(p) \in Invocations
BY DEF TypeOK, Invocation, Invocations

\* So do the steps of every job.
LEMMA JobStepType ==
  ASSUME TypeInv, NEW p \in Processes, JobStep(p)
  PROVE  TypeOK'
<1> USE PipelineAssumption DEF TypeInv, At, Advance, airflowVars, processVars,
      warehouse, metadata
<1>1. memory[p] \in Memories /\ target[p] \in Runs \cup {NoRun}
  BY DEF TypeOK
<1>2. step[p] # "idle" /\ task[p] \in MetadataJobs => target[p] \in Runs
  BY DEF ProcessesInOrder
<1>3. Invocation(p) \in Invocations
  BY InvocationType
<1>4. \A l \in Steps : [step EXCEPT ![p] = l] \in [Processes -> Steps]
  BY DEF TypeOK
<1>5. \A m \in Memories :
        [memory EXCEPT ![p] = m] \in [Processes -> Memories]
  BY DEF TypeOK
<1>6. CASE TruncateRaw(p)
  BY <1>6, <1>4 DEF TruncateRaw, TypeOK, Steps
<1>7. CASE CommitRaw(p)
  <2>1. raw' \in [load : Loads, content : RawContents \cup {NoContent}]
    BY <1>7, <1>3 DEF CommitRaw, Loads
  <2> QED
    BY <1>7, <2>1, <1>4 DEF CommitRaw, TypeOK, Steps
<1>8. CASE BuildMarts(p)
  <2>1. marts' \in [load : Loads, content : Contents \cup {NoContent}]
    BY <1>8 DEF BuildMarts, TypeOK
  <2> QED
    BY <1>8, <2>1, <1>4 DEF BuildMarts, TypeOK, Steps
<1>25. CASE BuildFails(p)
  BY <1>25, <1>3, <1>4 DEF BuildFails, TypeOK, Steps, Commands
<1>9. ASSUME NEW c \in Commands, WriteArtifact(p, c) PROVE TypeOK'
  BY <1>9, <1>3, <1>4 DEF WriteArtifact, TypeOK, Steps
<1>10. ASSUME NEW c \in Commands, ParseArtifact(p, c) PROVE TypeOK'
  <2> DEFINE node == [invocation |-> artifacts[c], command |-> c]
             m == [memory[p] EXCEPT !.parsed = @ \cup {node}]
  <2>1. node \in NodeResults
    BY <1>10 DEF ParseArtifact, TypeOK, NodeResults
  <2>2. memory[p].parsed \cup {node} \in SUBSET NodeResults
    BY <1>1, <2>1 DEF Memories
  <2>3. m \in Memories
    BY <1>1, <2>2, MemoryUpdate
  <2>4. memory' = [memory EXCEPT ![p] = m]
    BY <1>10 DEF ParseArtifact
  <2> QED
    BY <1>10, <2>3, <2>4, <1>4, <1>5 DEF ParseArtifact, TypeOK, Steps
<1>11. CASE PersistMetadata(p)
  <2>1. memory[p].parsed \in SUBSET NodeResults /\ memory[p].given \in RunRows
    BY <1>1 DEF Memories
  <2> QED
    BY <1>11, <2>1, <1>2, <1>4, <1>5, BlankType
    DEF PersistMetadata, MetadataJobs, TypeOK, Steps
<1>12. CASE ResolveForHealth(p)
  BY <1>12, <1>4 DEF ResolveForHealth, TypeOK, Steps
<1>13. CASE ResolveForDetection(p)
  BY <1>13, <1>4 DEF ResolveForDetection, TypeOK, Steps
<1>22. CASE LoadMetrics(p)
  <2> DEFINE m == [memory[p] EXCEPT !.metrics = health[target[p]]]
  <2>1. health[target[p]] \in HealthRows \cup {NoHealth}
    BY <1>22, <1>2 DEF LoadMetrics, MetadataJobs, TypeOK
  <2>2. m \in Memories
    BY <1>1, <2>1, MemoryUpdate
  <2>3. memory' = [memory EXCEPT ![p] = m]
    BY <1>22 DEF LoadMetrics
  <2> QED
    BY <1>22, <2>2, <2>3, <1>4, <1>5 DEF LoadMetrics, TypeOK, Steps
<1>23. CASE LoadSchema(p)
  <2> DEFINE m == [memory[p] EXCEPT !.schema = health[target[p]]]
  <2>1. health[target[p]] \in HealthRows \cup {NoHealth}
    BY <1>23, <1>2 DEF LoadSchema, MetadataJobs, TypeOK
  <2>2. m \in Memories
    BY <1>1, <2>1, MemoryUpdate
  <2>3. memory' = [memory EXCEPT ![p] = m]
    BY <1>23 DEF LoadSchema
  <2> QED
    BY <1>23, <2>2, <2>3, <1>4, <1>5 DEF LoadSchema, TypeOK, Steps
<1>24. CASE ChooseBaseline(p)
  <2>1. PICK q \in Baselines(target[p]) : memory' = [memory EXCEPT ![p].base = q]
    BY <1>24 DEF ChooseBaseline
  <2> DEFINE m == [memory[p] EXCEPT !.base = q]
  <2>2. q \in Runs \cup {NoRun}
    BY <2>1 DEF Baselines, Candidates
  <2>3. m \in Memories
    BY <1>1, <2>2, MemoryUpdate
  <2>4. memory' = [memory EXCEPT ![p] = m]
    BY <2>1
  <2> QED
    BY <1>24, <2>3, <2>4, <1>4, <1>5 DEF ChooseBaseline, TypeOK, Steps
<1>14. BaseHealth(p) \in HealthRows \cup {NoHealth}
  BY <1>1 DEF BaseHealth, TypeOK, Memories
<1>15. CASE LoadBaseMetrics(p)
  <2> DEFINE m == [memory[p] EXCEPT !.baseMetrics = BaseHealth(p)]
  <2>1. m \in Memories
    BY <1>1, <1>14, MemoryUpdate
  <2>2. memory' = [memory EXCEPT ![p] = m]
    BY <1>15 DEF LoadBaseMetrics
  <2> QED
    BY <1>15, <2>1, <2>2, <1>4, <1>5 DEF LoadBaseMetrics, TypeOK, Steps
<1>16. CASE LoadBaseSchemas(p)
  <2> DEFINE m == [memory[p] EXCEPT !.baseSchemas = BaseHealth(p)]
  <2>1. m \in Memories
    BY <1>1, <1>14, MemoryUpdate
  <2>2. memory' = [memory EXCEPT ![p] = m]
    BY <1>16 DEF LoadBaseSchemas
  <2> QED
    BY <1>16, <2>1, <2>2, <1>4, <1>5 DEF LoadBaseSchemas, TypeOK, Steps
<1>17. ASSUME NEW t \in Tables, MeasureSchema(p, t) PROVE TypeOK'
  <2> DEFINE m == [memory[p] EXCEPT !.schemas[t] = Visible(t).content.schema]
  <2>1. Visible(t).content.schema \in Schemas
    BY <1>17, VisibleType DEF MeasureSchema, Measurable, Contents
  <2>2. m \in Memories
    BY <1>1, <2>1, MemoryUpdate
  <2>3. memory' = [memory EXCEPT ![p] = m]
    BY <1>17 DEF MeasureSchema
  <2> QED
    BY <1>17, <2>2, <2>3, <1>4, <1>5 DEF MeasureSchema, TypeOK, Steps
<1>18. ASSUME NEW t \in Tables, MeasureRows(p, t) PROVE TypeOK'
  <2> DEFINE row == [metric |-> Visible(t).content.metric,
                     schema |-> memory[p].schemas[t],
                     load   |-> Visible(t).load]
             m == [memory[p] EXCEPT !.seen[t] = row]
  <2>1. memory[p].schemas[t] \in Schemas
    BY <1>18, <1>1 DEF MeasureRows, Memories
  <2>2. row \in Measurements
    BY <1>18, <2>1, VisibleType DEF MeasureRows, Measurable, Contents, Measurements
  <2>3. m \in Memories
    BY <1>1, <2>2, MemoryUpdate
  <2>4. memory' = [memory EXCEPT ![p] = m]
    BY <1>18 DEF MeasureRows
  <2> QED
    BY <1>18, <2>3, <2>4, <1>4, <1>5 DEF MeasureRows, TypeOK, Steps
<1>19. ASSUME NEW t \in Tables, CountNulls(p, t) PROVE TypeOK'
  <2> DEFINE m == [memory[p] EXCEPT !.nulls[t] = Visible(t).content.nulls]
  <2>1. Visible(t).content.nulls \in [Columns -> Nat]
    BY <1>19, VisibleType DEF CountNulls, Countable, Contents
  <2>2. m \in Memories
    BY <1>1, <2>1, MemoryUpdate
  <2>3. memory' = [memory EXCEPT ![p] = m]
    BY <1>19 DEF CountNulls
  <2> QED
    BY <1>19, <2>2, <2>3, <1>4, <1>5 DEF CountNulls, TypeOK, Steps
<1>20. CASE PersistMeasurements(p)
  <2>1. memory[p].seen \in HealthRows
    BY <1>1, <1>20 DEF PersistMeasurements, Memories, HealthRows
  <2> QED
    BY <1>20, <2>1, <1>2, <1>4, <1>5, BlankType
    DEF PersistMeasurements, MetadataJobs, TypeOK, Steps
<1>21. CASE PersistIncidents(p)
  <2>1. ASSUME NEW rows, DOMAIN rows \subseteq IncidentKeys
        PROVE  DOMAIN Upserted(p, rows) \subseteq IncidentKeys
    BY <2>1, FoundType DEF Upserted
  <2>2. incidents' = [incidents EXCEPT ![target[p]] =
                        Upserted(p, incidents[target[p]])]
    BY <1>21 DEF PersistIncidents
  <2>3. /\ DOMAIN incidents' = Runs
        /\ \A r \in Runs : DOMAIN incidents'[r] \subseteq IncidentKeys
    BY <2>1, <2>2 DEF TypeOK
  <2> QED
    BY <1>21, <2>3, <1>2, <1>4, <1>5, BlankType
    DEF PersistIncidents, MetadataJobs, TypeOK, Steps
<1> QED
  BY <1>6, <1>7, <1>8, <1>9, <1>10, <1>11, <1>12, <1>13, <1>15, <1>16, <1>17,
     <1>18, <1>19, <1>20, <1>21, <1>22, <1>23, <1>24, <1>25 DEF JobStep

\* So does the end of a process, whether it raised an error or died.
LEMMA ExitType ==
  ASSUME TypeInv, NEW p \in Processes, JobRaises(p) \/ JobCrashes(p)
  PROVE  TypeOK'
<1>1. Exit(p)
  BY DEF JobRaises, JobCrashes
<1>2. /\ [step EXCEPT ![p] = "idle"] \in [Processes -> Steps]
      /\ [memory EXCEPT ![p] = Blank] \in [Processes -> Memories]
      /\ [target EXCEPT ![p] = NoRun] \in [Processes -> Runs \cup {NoRun}]
  BY BlankType DEF TypeInv, TypeOK, Steps
<1>3. [dagState EXCEPT ![p] = "failed"] \in
        [Runs -> {"none", "queued", "running", "success", "failed"}]
  BY DEF TypeInv, TypeOK
<1> QED
  BY <1>1, <1>2, <1>3 DEF Exit, TypeInv, TypeOK, warehouse, metadata

\* What every step of a job leaves alone.
LEMMA JobStepFrame ==
  ASSUME NEW p \in Processes, JobStep(p)
  PROVE  /\ UNCHANGED <<clock, airflowVars, processVars>>
         /\ step[p] # "idle"
         /\ \E l \in Steps \ {"idle"} : step' = [step EXCEPT ![p] = l]
<1> USE DEF At, Advance, Steps
<1>1. CASE TruncateRaw(p) \/ CommitRaw(p) \/ BuildFails(p) \/ BuildMarts(p)
  BY <1>1 DEF TruncateRaw, CommitRaw, BuildFails, Buildable, BuildMarts
<1>2. ASSUME NEW c \in Commands, WriteArtifact(p, c) \/ ParseArtifact(p, c)
      PROVE  /\ UNCHANGED <<clock, airflowVars, processVars>>
             /\ step[p] # "idle"
             /\ \E l \in Steps \ {"idle"} : step' = [step EXCEPT ![p] = l]
  BY <1>2 DEF WriteArtifact, ParseArtifact
<1>3. CASE PersistMetadata(p) \/ ResolveForHealth(p) \/ ResolveForDetection(p)
  BY <1>3 DEF PersistMetadata, ResolveForHealth, ResolveForDetection
<1>4. CASE \/ LoadMetrics(p) \/ LoadSchema(p) \/ ChooseBaseline(p)
         \/ LoadBaseMetrics(p) \/ LoadBaseSchemas(p)
  BY <1>4
  DEF LoadMetrics, LoadSchema, ChooseBaseline, LoadBaseMetrics, LoadBaseSchemas
<1>5. ASSUME NEW t \in Tables,
             MeasureSchema(p, t) \/ MeasureRows(p, t) \/ CountNulls(p, t)
      PROVE  /\ UNCHANGED <<clock, airflowVars, processVars>>
             /\ step[p] # "idle"
             /\ \E l \in Steps \ {"idle"} : step' = [step EXCEPT ![p] = l]
  BY <1>5 DEF MeasureSchema, MeasureRows, CountNulls
<1>6. CASE PersistMeasurements(p) \/ PersistIncidents(p)
  BY <1>6 DEF PersistMeasurements, PersistIncidents
<1> QED
  BY <1>1, <1>2, <1>3, <1>4, <1>5, <1>6 DEF JobStep

LEMMA StepProcessesInOrder ==
  ASSUME TypeInv, [Next]_vars
  PROVE  ProcessesInOrder'
<1> USE PipelineAssumption DEF TypeInv, TypeOK, ProcessesInOrder, Processes,
      Active, Attempts
<1>1. CASE UNCHANGED vars
  BY <1>1 DEF vars, airflowVars, processVars
<1>2. CASE Tick
  BY <1>2 DEF Tick, airflowVars, processVars
<1>3. ASSUME NEW r \in Runs, Airflow(r) PROVE ProcessesInOrder'
  <2>1. CASE Trigger(r)
    BY <2>1 DEF Trigger, processVars
  <2>2. CASE StartDagRun(r)
    BY <2>2 DEF StartDagRun, processVars
  <2>3. CASE StartAttempt(r)
    BY <2>3 DEF StartAttempt, JobStarts, processVars
  <2>4. CASE TaskSucceeds(r)
    BY <2>4 DEF TaskSucceeds
  <2> QED
    BY <1>3, <2>1, <2>2, <2>3, <2>4 DEF Airflow
<1>4. ASSUME NEW o \in Operators, Manual(o) PROVE ProcessesInOrder'
  <2>1. ASSUME NEW job \in Tasks, NEW r \in Runs \cup {NoRun}, NEW row \in GivenRows,
               OperatorStarts(o, job, r, row)
        PROVE  ProcessesInOrder'
    BY <2>1 DEF OperatorStarts, JobStarts
  <2>2. CASE OperatorReturns(o)
    BY <2>2 DEF OperatorReturns, airflowVars
  <2> QED
    BY <1>4, <2>1, <2>2 DEF Manual
<1>5. ASSUME NEW p \in Processes, JobStep(p) PROVE ProcessesInOrder'
  BY <1>5, JobStepFrame DEF airflowVars, processVars
<1>6. ASSUME NEW p \in Processes, JobRaises(p) \/ JobCrashes(p)
      PROVE  ProcessesInOrder'
  <2>1. Exit(p)
    BY <1>6 DEF JobRaises, JobCrashes
  <2> QED
    BY <2>1 DEF Exit
<1> QED
  BY <1>1, <1>2, <1>3, <1>4, <1>5, <1>6 DEF Next

LEMMA StepTypeInv == TypeInv /\ [Next]_vars => TypeInv'
<1> SUFFICES ASSUME TypeInv, [Next]_vars PROVE TypeOK'
  BY StepProcessesInOrder DEF TypeInv
<1>1. CASE UNCHANGED vars
  BY <1>1 DEF vars, airflowVars, processVars, warehouse, metadata, TypeInv, TypeOK
<1>2. CASE Next
  BY <1>2, SchedulingType, JobStepType, ExitType DEF Next
<1> QED
  BY <1>1, <1>2

\* Every variable keeps its type, and every process its role.
THEOREM TypeInvariant == Spec => []TypeInv
BY InitTypeInv, StepTypeInv, PTL DEF Spec

THEOREM TypeCorrect == Spec => []TypeOK
BY TypeInvariant, PTL DEF TypeInv

-----------------------------------------------------------------------------
(***************************************************************************)
(* Health collection and the bootstrap of other runs.  The argument: a     *)
(* loader and a reader of the raw tables exclude each other, so what an    *)
(* open transaction has measured of them is what they still hold.          *)
(***************************************************************************)

\* A process that is about to take another job holds no measurements.
LEMMA NothingHeld ==
  ASSUME MemoryOfReaders, NEW p \in Processes,
         ~At(p, "collect_data_health_metrics", "reading"),
         ~At(p, "detect_data_incidents", "reading")
  PROVE  \A t \in Tables : memory[p].seen[t] = Unread /\ memory[p].nulls[t] = Unread
BY DEF MemoryOfReaders

\* Blank memory holds nothing.
LEMMA BlankHolds ==
  \A t \in Tables : Blank.seen[t] = Unread /\ Blank.nulls[t] = Unread
BY DEF Blank

\* The names of the raw and staging layers are tables.
LEMMA LayerNames == "raw" \in Tables /\ "staging" \in Tables /\ "marts" \in Tables
BY DEF Tables

\* A step that changes neither what p has read nor the raw tables, and after
\* which no new process loads them, keeps the locking invariant.
LEMMA LockFrame ==
  ASSUME TypeInv, LockInv,
         raw' = raw, health' = health,
         \A p \in Processes : step'[p] = "loading" => step[p] = "loading",
         \A p \in Processes : \A t \in Tables :
           /\ memory'[p].seen[t] # Unread =>
                /\ memory'[p].seen = memory[p].seen
                /\ At(p, "collect_data_health_metrics", "reading")'
           /\ memory'[p].nulls[t] # Unread =>
                /\ memory'[p].nulls = memory[p].nulls
                /\ At(p, "detect_data_incidents", "reading")'
  PROVE  LockInv'
<1> USE LayerNames DEF LockInv
<1>1. MemoryOfReaders'
  BY DEF MemoryOfReaders
<1>2. RawExclusive' => RawExclusive
  BY DEF RawExclusive
<1>3. ShareLocked("raw")' => ShareLocked("raw")
  BY DEF ShareLocked, HasRead
<1>4. ReadsAreCurrent'
  BY <1>2, <1>3 DEF ReadsAreCurrent
<1>5. StagingMatchesRaw'
  BY DEF StagingMatchesRaw
<1> QED
  BY <1>1, <1>4, <1>5

LEMMA InitLockInv == Init => LockInv
<1> SUFFICES ASSUME Init PROVE LockInv
  OBVIOUS
<1>1. \A p \in Processes : memory[p] = Blank /\ step[p] = "idle"
  BY DEF Init
<1>2. MemoryOfReaders
  BY <1>1, BlankHolds DEF MemoryOfReaders
<1>3. ReadsAreCurrent
  BY <1>1, BlankHolds, LayerNames DEF ReadsAreCurrent, RawExclusive
<1>4. StagingMatchesRaw
  BY DEF Init, StagingMatchesRaw
<1> QED
  BY <1>2, <1>3, <1>4 DEF LockInv

\* Steps outside the jobs read and load nothing.
LEMMA SchedulingKeepsLocks ==
  ASSUME TypeInv, LockInv
  PROVE  /\ Tick => LockInv'
         /\ \A r \in Runs : Airflow(r) => LockInv'
         /\ \A o \in Operators : Manual(o) => LockInv'
<1> USE DEF TypeInv, TypeOK, LockInv, MemoryOfReaders, At, Processes, warehouse,
      metadata
<1>1. Tick => LockInv'
  BY LockFrame DEF Tick, processVars
<1>2. ASSUME NEW r \in Runs, Airflow(r) PROVE LockInv'
  <2>1. CASE Trigger(r)
    BY <2>1, LockFrame DEF Trigger, processVars
  <2>2. CASE StartDagRun(r)
    BY <2>2, LockFrame DEF StartDagRun, processVars
  <2>3. CASE StartAttempt(r)
    BY <2>3, LockFrame DEF StartAttempt, JobStarts, processVars, Memories
  <2>4. CASE TaskSucceeds(r)
    BY <2>4, LockFrame DEF TaskSucceeds
  <2> QED
    BY <1>2, <2>1, <2>2, <2>3, <2>4 DEF Airflow
<1>3. ASSUME NEW o \in Operators, Manual(o) PROVE LockInv'
  <2>1. ASSUME NEW job \in Tasks, NEW r \in Runs \cup {NoRun}, NEW row \in GivenRows,
               OperatorStarts(o, job, r, row)
        PROVE  LockInv'
    BY <2>1, LockFrame DEF OperatorStarts, JobStarts, Memories
  <2>2. CASE OperatorReturns(o)
    BY <2>2, LockFrame DEF OperatorReturns
  <2> QED
    BY <1>3, <2>1, <2>2 DEF Manual
<1> QED
  BY <1>1, <1>2, <1>3

\* A process that ends releases its locks and forgets what it has read.
LEMMA ExitKeepsLocks ==
  ASSUME TypeInv, LockInv, NEW p \in Processes, JobRaises(p) \/ JobCrashes(p)
  PROVE  LockInv'
<1>1. Exit(p)
  BY DEF JobRaises, JobCrashes
<1> QED
  BY <1>1, BlankHolds, LockFrame DEF Exit, TypeInv, TypeOK, LockInv,
     MemoryOfReaders, At, warehouse, metadata

LEMMA JobStepKeepsLocks ==
  ASSUME TypeInv, LockInv, NEW p \in Processes, JobStep(p)
  PROVE  LockInv'
<1> USE LayerNames DEF TypeInv, TypeOK, At, Advance, processVars, warehouse, metadata
<1>1. CASE TruncateRaw(p)
  <2>1. \A q \in Processes : ~HasRead(q, "raw")
    BY <1>1 DEF TruncateRaw, ShareLocked
  <2>2. MemoryOfReaders'
    BY <1>1 DEF TruncateRaw, LockInv, MemoryOfReaders
  <2>3. ReadsAreCurrent'
    BY <1>1, <2>1 DEF TruncateRaw, LockInv, ReadsAreCurrent, ShareLocked, HasRead
  <2>4. StagingMatchesRaw'
    BY <1>1 DEF TruncateRaw, LockInv, StagingMatchesRaw
  <2> QED
    BY <2>2, <2>3, <2>4 DEF LockInv
<1>2. CASE CommitRaw(p)
  <2>1. RawExclusive
    BY <1>2 DEF CommitRaw, RawExclusive
  <2>2. \A q \in Processes : ~HasRead(q, "raw")
    BY <2>1 DEF LockInv, ReadsAreCurrent, ShareLocked
  <2>3. \A q \in Processes : memory[q].seen["staging"] = Unread
    BY <2>2 DEF LockInv, ReadsAreCurrent, HasRead
  <2>4. MemoryOfReaders'
    BY <1>2 DEF CommitRaw, LockInv, MemoryOfReaders
  <2>5. ReadsAreCurrent'
    BY <1>2, <2>2, <2>3 DEF CommitRaw, ReadsAreCurrent, ShareLocked, HasRead
  <2>6. StagingMatchesRaw'
    BY <1>2 DEF CommitRaw, LockInv, StagingMatchesRaw
  <2> QED
    BY <2>4, <2>5, <2>6 DEF LockInv
<1>3. CASE BuildFails(p) \/ BuildMarts(p)
  BY <1>3, LockFrame DEF BuildFails, BuildMarts, Buildable, LockInv, MemoryOfReaders
<1>4. ASSUME NEW c \in Commands, WriteArtifact(p, c) PROVE LockInv'
  BY <1>4, LockFrame DEF WriteArtifact, LockInv, MemoryOfReaders
<1>5. ASSUME NEW c \in Commands, ParseArtifact(p, c) PROVE LockInv'
  BY <1>5, LockFrame DEF ParseArtifact, LockInv, MemoryOfReaders, Memories
<1>6. CASE PersistMetadata(p)
  BY <1>6, BlankHolds, LockFrame DEF PersistMetadata, LockInv, MemoryOfReaders
<1>7. CASE ResolveForHealth(p)
  BY <1>7, LockFrame DEF ResolveForHealth, LockInv, MemoryOfReaders
<1>8. CASE ResolveForDetection(p)
  BY <1>8, LockFrame DEF ResolveForDetection, LockInv, MemoryOfReaders
<1>16. CASE LoadMetrics(p)
  BY <1>16, LockFrame DEF LoadMetrics, LockInv, MemoryOfReaders, Memories
<1>17. CASE LoadSchema(p)
  BY <1>17, LockFrame DEF LoadSchema, LockInv, MemoryOfReaders, Memories
<1>18. CASE ChooseBaseline(p)
  BY <1>18, LockFrame DEF ChooseBaseline, LockInv, MemoryOfReaders, Memories
<1>9. CASE LoadBaseMetrics(p)
  BY <1>9, LockFrame DEF LoadBaseMetrics, LockInv, MemoryOfReaders, Memories
<1>10. CASE LoadBaseSchemas(p)
  BY <1>10, LockFrame DEF LoadBaseSchemas, LockInv, MemoryOfReaders, Memories
<1>11. ASSUME NEW t \in Tables, MeasureSchema(p, t) PROVE LockInv'
  BY <1>11, LockFrame DEF MeasureSchema, LockInv, MemoryOfReaders, Memories
<1>12. ASSUME NEW t \in Tables, MeasureRows(p, t) PROVE LockInv'
  <2> DEFINE row == [metric |-> Visible(t).content.metric,
                     schema |-> memory[p].schemas[t],
                     load   |-> Visible(t).load]
  <2>1. /\ memory'[p].seen = [memory[p].seen EXCEPT ![t] = row]
        /\ memory'[p].nulls = memory[p].nulls
        /\ \A q \in Processes \ {p} : memory'[q] = memory[q]
    BY <1>12 DEF MeasureRows, Memories
  <2>2. MemoryOfReaders'
    BY <1>12, <2>1 DEF MeasureRows, LockInv, MemoryOfReaders, Memories
  <2>3. RawExclusive' => ~ShareLocked("raw")'
    <3>1. CASE t = "marts"
      BY <1>12, <2>1, <3>1
      DEF MeasureRows, LockInv, ReadsAreCurrent, RawExclusive, ShareLocked,
          HasRead, Memories
    <3>2. CASE t # "marts"
      BY <1>12, <3>2 DEF MeasureRows, Readable, RawExclusive, Tables
    <3> QED
      BY <3>1, <3>2
  <2>4. memory[p].seen["raw"] = Unread <=> t = "raw"
    BY <1>12
    DEF MeasureRows, NextToRead, HasRead, Earlier, LockInv, MemoryOfReaders, Tables
  <2>5. t # "marts" => row.load = raw.load
    BY DEF Visible, Tables
  <2>6. memory[p].seen \in [Tables -> Measurements \cup {Unread}]
    BY DEF Memories
  <2>7. \A q \in Processes :
          /\ memory'[q].seen["raw"] # Unread => memory'[q].seen["raw"].load = raw.load
          /\ memory'[q].seen["staging"] # Unread =>
               /\ memory'[q].seen["raw"] # Unread
               /\ memory'[q].seen["staging"].load = raw.load
    <3> SUFFICES ASSUME NEW q \in Processes
                 PROVE  /\ memory'[q].seen["raw"] # Unread =>
                             memory'[q].seen["raw"].load = raw.load
                        /\ memory'[q].seen["staging"] # Unread =>
                             /\ memory'[q].seen["raw"] # Unread
                             /\ memory'[q].seen["staging"].load = raw.load
      OBVIOUS
    <3>1. CASE q # p
      BY <2>1, <3>1 DEF LockInv, ReadsAreCurrent
    <3>2. CASE q = p
      BY <2>1, <2>4, <2>5, <2>6, <3>2 DEF LockInv, ReadsAreCurrent
    <3> QED
      BY <3>1, <3>2
  <2>8. raw' = raw /\ health' = health
    BY <1>12 DEF MeasureRows
  <2> QED
    BY <2>2, <2>3, <2>7, <2>8 DEF LockInv, ReadsAreCurrent, StagingMatchesRaw
<1>13. ASSUME NEW t \in Tables, CountNulls(p, t) PROVE LockInv'
  <2>1. /\ memory'[p].seen = memory[p].seen
        /\ memory'[p].nulls =
             [memory[p].nulls EXCEPT ![t] = Visible(t).content.nulls]
        /\ \A q \in Processes \ {p} : memory'[q] = memory[q]
    BY <1>13 DEF CountNulls, Memories
  <2>2. MemoryOfReaders'
    BY <1>13, <2>1 DEF CountNulls, LockInv, MemoryOfReaders, Memories
  <2>3. RawExclusive' => ~ShareLocked("raw")'
    <3>1. CASE t = "marts"
      BY <1>13, <2>1, <3>1
      DEF CountNulls, LockInv, ReadsAreCurrent, RawExclusive, ShareLocked,
          HasRead, Memories
    <3>2. CASE t # "marts"
      BY <1>13, <3>2 DEF CountNulls, Readable, RawExclusive, Tables
    <3> QED
      BY <3>1, <3>2
  <2>4. raw' = raw /\ health' = health
    BY <1>13 DEF CountNulls
  <2> QED
    BY <2>1, <2>2, <2>3, <2>4 DEF LockInv, ReadsAreCurrent, StagingMatchesRaw
<1>14. CASE PersistMeasurements(p)
  <2>1. memory[p].seen["staging"].load = memory[p].seen["raw"].load
    BY <1>14 DEF PersistMeasurements, LockInv, ReadsAreCurrent
  <2>2. memory' = [memory EXCEPT ![p] = Blank]
    BY <1>14 DEF PersistMeasurements
  <2>3. MemoryOfReaders'
    BY <1>14, <2>2, BlankHolds DEF PersistMeasurements, LockInv, MemoryOfReaders
  <2>4. ReadsAreCurrent'
    BY <1>14, <2>2, BlankHolds
    DEF PersistMeasurements, LockInv, ReadsAreCurrent, RawExclusive, ShareLocked,
        HasRead
  <2>5. StagingMatchesRaw'
    BY <1>14, <2>1 DEF PersistMeasurements, LockInv, StagingMatchesRaw
  <2> QED
    BY <2>3, <2>4, <2>5 DEF LockInv
<1>15. CASE PersistIncidents(p)
  BY <1>15, BlankHolds, LockFrame DEF PersistIncidents, LockInv, MemoryOfReaders
<1> QED
  BY <1>1, <1>2, <1>3, <1>4, <1>5, <1>6, <1>7, <1>8, <1>9, <1>10, <1>11, <1>12,
     <1>13, <1>14, <1>15, <1>16, <1>17, <1>18 DEF JobStep

LEMMA StepLockInv == TypeInv /\ LockInv /\ [Next]_vars => LockInv'
<1> SUFFICES ASSUME TypeInv, LockInv, [Next]_vars PROVE LockInv'
  OBVIOUS
<1>1. CASE UNCHANGED vars
  BY <1>1, LockFrame
  DEF vars, processVars, warehouse, metadata, LockInv, MemoryOfReaders, At
<1>2. CASE Next
  BY <1>2, SchedulingKeepsLocks, JobStepKeepsLocks, ExitKeepsLocks DEF Next
<1> QED
  BY <1>1, <1>2

\* However many runs bootstrap at the same time, one health collection sees
\* one load of the raw tables, directly and through the staging views.
THEOREM MeasurementsAreOfOneLoad == Spec => []StagingMatchesRaw
<1>1. Spec => []LockInv
  BY TypeInvariant, InitLockInv, StepLockInv, PTL DEF Spec
<1> QED
  BY <1>1, PTL DEF LockInv

-----------------------------------------------------------------------------
(***************************************************************************)
(* The records of a run.  The argument: commits only add, so what a job    *)
(* has checked stays true until it commits, and what a task left behind    *)
(* is still there when the next task looks for it.                         *)
(***************************************************************************)

LEMMA JobStepRecordsGrow ==
  ASSUME TypeInv, NEW p \in Processes, JobStep(p)
  PROVE  RecordsGrow
<1> USE PipelineAssumption, RecordAssumption DEF TypeInv, TypeOK, RecordsGrow,
      At, Advance, warehouse, metadata
<1>1. task[p] \in MetadataJobs => target[p] \in Runs
  BY JobStepFrame DEF ProcessesInOrder
<1>11. Invocation(p) \in Invocations
  BY InvocationType
<1>2. CASE TruncateRaw(p) \/ CommitRaw(p) \/ BuildFails(p) \/ BuildMarts(p)
  BY <1>2, <1>11 DEF TruncateRaw, CommitRaw, BuildFails, BuildMarts
<1>3. ASSUME NEW c \in Commands, WriteArtifact(p, c) PROVE RecordsGrow
  BY <1>3, <1>11 DEF WriteArtifact
<1>4. ASSUME NEW c \in Commands, ParseArtifact(p, c) PROVE RecordsGrow
  BY <1>4 DEF ParseArtifact
<1>5. CASE PersistMetadata(p)
  <2>1. memory[p].given \in RunRows
    BY DEF Memories
  <2> QED
    BY <1>1, <1>5, <2>1 DEF PersistMetadata, MetadataJobs
<1>6. CASE ResolveForHealth(p) \/ ResolveForDetection(p)
  BY <1>6 DEF ResolveForHealth, ResolveForDetection
<1>7. CASE \/ LoadMetrics(p) \/ LoadSchema(p) \/ ChooseBaseline(p)
         \/ LoadBaseMetrics(p) \/ LoadBaseSchemas(p)
  BY <1>7
  DEF LoadMetrics, LoadSchema, ChooseBaseline, LoadBaseMetrics, LoadBaseSchemas
<1>8. ASSUME NEW t \in Tables,
             MeasureSchema(p, t) \/ MeasureRows(p, t) \/ CountNulls(p, t)
      PROVE  RecordsGrow
  BY <1>8 DEF MeasureSchema, MeasureRows, CountNulls
<1>9. CASE PersistMeasurements(p)
  <2>1. memory[p].seen \in HealthRows
    BY <1>9 DEF PersistMeasurements, Memories, HealthRows
  <2> QED
    BY <1>1, <1>9, <2>1 DEF PersistMeasurements, MetadataJobs
<1>10. CASE PersistIncidents(p)
  <2>1. \A rows : DOMAIN rows \subseteq DOMAIN Upserted(p, rows)
    BY DEF Upserted
  <2>2. incidents' = [incidents EXCEPT ![target[p]] =
                        Upserted(p, incidents[target[p]])]
    BY <1>10 DEF PersistIncidents
  <2>3. \A r \in Runs : DOMAIN incidents[r] \subseteq DOMAIN incidents'[r]
    BY <2>1, <2>2
  <2> QED
    BY <1>1, <1>10, <2>3 DEF PersistIncidents, MetadataJobs
<1> QED
  BY <1>2, <1>3, <1>4, <1>5, <1>6, <1>7, <1>8, <1>9, <1>10 DEF JobStep

\* Nothing but the steps of jobs writes to the database or the artifacts.
LEMMA OthersWriteNothing ==
  ASSUME \/ Tick
         \/ \E r \in Runs : Airflow(r)
         \/ \E o \in Operators : Manual(o)
         \/ \E p \in Processes : JobRaises(p) \/ JobCrashes(p)
         \/ UNCHANGED vars
  PROVE  UNCHANGED <<warehouse, metadata>>
<1>1. CASE Tick \/ UNCHANGED vars
  BY <1>1 DEF Tick, vars
<1>2. ASSUME NEW r \in Runs, Airflow(r) PROVE UNCHANGED <<warehouse, metadata>>
  BY <1>2 DEF Airflow, Trigger, StartDagRun, StartAttempt, TaskSucceeds
<1>3. ASSUME NEW o \in Operators, Manual(o)
      PROVE  UNCHANGED <<warehouse, metadata>>
  BY <1>3 DEF Manual, OperatorStarts, OperatorReturns
<1>4. ASSUME NEW p \in Processes, JobRaises(p) \/ JobCrashes(p)
      PROVE  UNCHANGED <<warehouse, metadata>>
  BY <1>4 DEF JobRaises, JobCrashes, Exit
<1> QED
  BY <1>1, <1>2, <1>3, <1>4

LEMMA StepRecordsGrow == TypeInv /\ [Next]_vars => RecordsGrow
<1> SUFFICES ASSUME TypeInv, [Next]_vars PROVE RecordsGrow
  OBVIOUS
<1>1. CASE UNCHANGED <<warehouse, metadata>>
  BY <1>1 DEF RecordsGrow, warehouse, metadata
<1>2. CASE \E p \in Processes : JobStep(p)
  BY <1>2, JobStepRecordsGrow
<1> QED
  BY <1>1, <1>2, OthersWriteNothing DEF Next

\* No crash, retry, repeated job or other run takes back what was committed.
THEOREM CommitsOnlyAdd == Spec => [][RecordsGrow]_vars
BY TypeInvariant, StepRecordsGrow, PTL DEF Spec

LEMMA CommandNames == Commands = {"run", "test"}
BY DEF Commands

\* The layers of a run's record are committed in order.
LEMMA JobStepKeepsLayers ==
  ASSUME TypeInv, RecordInv, NEW p \in Processes, JobStep(p)
  PROVE  RecordedWithResults' /\ LayersInOrder'
<1> USE PipelineAssumption, RecordAssumption, CommandNames
    DEF TypeInv, TypeOK, RecordInv, LayersInOrder, RecordedWithResults, At,
      Advance, MetadataJobs, warehouse, metadata
<1>1. task[p] \in MetadataJobs => target[p] \in Runs
  BY JobStepFrame DEF ProcessesInOrder
<1>2. CASE UNCHANGED metadata
  BY <1>2 DEF OfBothCommands
<1>3. CASE PersistMetadata(p)
  <2>1. OfBothCommands(memory[p].parsed)
    BY <1>3 DEF PersistMetadata, JobsAreBacked, Backed
  <2>2. \A r \in Runs :
          nodeResults'[r] = IF r = target[p]
                            THEN nodeResults[r] \cup memory[p].parsed
                            ELSE nodeResults[r]
    BY <1>3 DEF PersistMetadata
  <2>3. \A r \in Runs :
          pipelineRuns'[r] = IF r = target[p] THEN memory[p].given ELSE pipelineRuns[r]
    BY <1>3 DEF PersistMetadata
  <2>4. memory[p].given # NoRow
    BY DEF Memories
  <2>5. ASSUME NEW r \in Runs, pipelineRuns'[r] # NoRow
        PROVE  OfBothCommands(nodeResults'[r])
    <3>1. CASE r = target[p]
      BY <2>1, <2>2, <3>1 DEF OfBothCommands
    <3>2. CASE r # target[p]
      BY <2>2, <2>3, <2>5, <3>2
    <3> QED
      BY <3>1, <3>2
  <2>6. PICK n : n \in memory[p].parsed
    BY <2>1 DEF OfBothCommands
  <2>7. ASSUME NEW r \in Runs
        PROVE  nodeResults'[r] # {} <=> pipelineRuns'[r] # NoRow
    <3>1. CASE r = target[p]
      <4>1. n \in nodeResults'[r]
        BY <2>2, <2>6, <3>1
      <4> QED
        BY <2>3, <2>4, <3>1, <4>1
    <3>2. CASE r # target[p]
      BY <2>2, <2>3, <3>2
    <3> QED
      BY <3>1, <3>2
  <2>8. LayersInOrder'
    BY <1>3, <2>3, <2>4, <2>7 DEF PersistMetadata
  <2> QED
    BY <2>5, <2>8 DEF OfBothCommands
<1>4. CASE PersistMeasurements(p)
  <2>1. pipelineRuns[target[p]] # NoRow
    BY <1>4 DEF PersistMeasurements, JobsAreBacked, Backed
  <2>2. memory[p].seen \in HealthRows
    BY <1>4 DEF PersistMeasurements, Memories, HealthRows
  <2> QED
    BY <1>1, <1>4, <2>1, <2>2 DEF PersistMeasurements, OfBothCommands
<1>5. CASE PersistIncidents(p)
  <2>1. health[target[p]] # NoHealth
    BY <1>5 DEF PersistIncidents, JobsAreBacked, Backed, Detecting
  <2>2. incidents' = [incidents EXCEPT ![target[p]] =
                        Upserted(p, incidents[target[p]])]
    BY <1>5 DEF PersistIncidents
  <2> QED
    BY <1>1, <1>5, <2>1, <2>2 DEF PersistIncidents, OfBothCommands
<1> QED
  BY <1>2, <1>3, <1>4, <1>5
  DEF JobStep, TruncateRaw, CommitRaw, BuildFails, BuildMarts, WriteArtifact,
      ParseArtifact, ResolveForHealth, ResolveForDetection, LoadMetrics, LoadSchema,
      ChooseBaseline, LoadBaseMetrics, LoadBaseSchemas, MeasureSchema,
      MeasureRows, CountNulls

LEMMA StepKeepsLayers ==
  TypeInv /\ RecordInv /\ [Next]_vars => RecordedWithResults' /\ LayersInOrder'
<1> SUFFICES ASSUME TypeInv, RecordInv, [Next]_vars
             PROVE  RecordedWithResults' /\ LayersInOrder'
  OBVIOUS
<1>1. CASE UNCHANGED <<warehouse, metadata>>
  BY <1>1 DEF RecordInv, RecordedWithResults, LayersInOrder, OfBothCommands, metadata
<1>2. CASE \E p \in Processes : JobStep(p)
  BY <1>2, JobStepKeepsLayers
<1> QED
  BY <1>1, <1>2, OthersWriteNothing DEF Next

\* A process whose own state stays the same keeps its backing.
LEMMA BackingLasts ==
  ASSUME RecordsGrow, NEW p \in Processes, Backed(p),
         step[p] # "idle" /\ task[p] \in MetadataJobs => target[p] \in Runs,
         task'[p] = task[p], step'[p] = step[p], target'[p] = target[p],
         memory'[p] = memory[p]
  PROVE  Backed(p)'
BY DEF RecordsGrow, Backed, At, Detecting, OfBothCommands, MetadataJobs

\* A process that starts, ends or is between two jobs needs none.
LEMMA NoBackingNeeded ==
  ASSUME NEW p,
         step[p]' \in {"idle", "started", "loading", "failed", "built", "finished"}
  PROVE  Backed(p)'
BY DEF Backed, At, Detecting

\* A step changes the state of at most one process.
Alone(p) ==
  \A q \in Processes \ {p} :
    /\ task'[q] = task[q]
    /\ step'[q] = step[q]
    /\ target'[q] = target[q]
    /\ memory'[q] = memory[q]

LEMMA JobStepAlone ==
  ASSUME TypeInv, NEW p \in Processes, JobStep(p)
  PROVE  Alone(p)
<1> USE DEF TypeInv, TypeOK, Alone
<1>1. \A q \in Processes \ {p} : memory'[q] = memory[q]
  BY DEF JobStep, TruncateRaw, CommitRaw, BuildFails, BuildMarts, WriteArtifact,
     ParseArtifact, PersistMetadata, ResolveForHealth, ResolveForDetection,
     LoadMetrics, LoadSchema, ChooseBaseline, LoadBaseMetrics, LoadBaseSchemas,
     MeasureSchema, MeasureRows, CountNulls, PersistMeasurements, PersistIncidents
<1> QED
  BY <1>1, JobStepFrame DEF processVars

LEMMA OthersAlone ==
  ASSUME TypeInv
  PROVE  /\ \A r \in Runs : Airflow(r) => Alone(r)
         /\ \A o \in Operators : Manual(o) => Alone(o)
         /\ \A p \in Processes : JobRaises(p) \/ JobCrashes(p) => Alone(p)
<1> USE DEF TypeInv, TypeOK, Processes, Alone, processVars
<1>1. ASSUME NEW r \in Runs, Airflow(r) PROVE Alone(r)
  BY <1>1 DEF Airflow, Trigger, StartDagRun, StartAttempt, JobStarts, TaskSucceeds
<1>2. ASSUME NEW o \in Operators, Manual(o) PROVE Alone(o)
  BY <1>2 DEF Manual, OperatorStarts, JobStarts, OperatorReturns
<1>3. ASSUME NEW p \in Processes, JobRaises(p) \/ JobCrashes(p) PROVE Alone(p)
  BY <1>3 DEF JobRaises, JobCrashes, Exit
<1> QED
  BY <1>1, <1>2, <1>3

\* The step of a job leaves the job backed.
LEMMA JobStepBacked ==
  ASSUME TypeInv, RecordInv, NEW p \in Processes, JobStep(p)
  PROVE  Backed(p)'
<1> USE DEF TypeInv, TypeOK, RecordInv, At, Advance, processVars, MetadataJobs
<1>1. /\ RecordsGrow /\ Backed(p)
      /\ task[p] \in MetadataJobs => target[p] \in Runs
  BY JobStepRecordsGrow, JobStepFrame DEF JobsAreBacked, ProcessesInOrder
<1>2. CASE TruncateRaw(p) \/ CommitRaw(p) \/ BuildFails(p) \/ BuildMarts(p)
  BY <1>2, NoBackingNeeded DEF TruncateRaw, CommitRaw, BuildFails, Buildable, BuildMarts
<1>3. ASSUME NEW c \in Commands, WriteArtifact(p, c) PROVE Backed(p)'
  BY <1>3, NoBackingNeeded DEF WriteArtifact
<1>4. ASSUME NEW c \in Commands, ParseArtifact(p, c) PROVE Backed(p)'
  <2> DEFINE node == [invocation |-> artifacts[c], command |-> c]
  <2>1. memory'[p].parsed = memory[p].parsed \cup {node}
    BY <1>4 DEF ParseArtifact, Memories
  <2>2. \E n \in memory'[p].parsed : n.command = c
    <3>1. node.command = c
      OBVIOUS
    <3> HIDE DEF node
    <3> QED
      BY <2>1, <3>1
  <2>3. CASE c = "run"
    BY <1>4, <2>2, <2>3 DEF ParseArtifact, Backed, Detecting
  <2>4. CASE c = "test"
    <3>1. \E n \in memory[p].parsed : n.command = "run"
      BY <1>1, <1>4, <2>4 DEF ParseArtifact, Backed
    <3>2. OfBothCommands(memory'[p].parsed)
      BY <2>1, <2>2, <2>4, <3>1, CommandNames DEF OfBothCommands
    <3> QED
      BY <1>4, <2>4, <3>2 DEF ParseArtifact, Backed, Detecting
  <2> QED
    BY <2>3, <2>4, CommandNames
<1>5. CASE PersistMetadata(p) \/ PersistMeasurements(p) \/ PersistIncidents(p)
  BY <1>5, NoBackingNeeded
  DEF PersistMetadata, PersistMeasurements, PersistIncidents
<1>6. CASE ResolveForHealth(p)
  BY <1>1, <1>6 DEF ResolveForHealth, Backed, Detecting, RecordsGrow
<1>7. CASE ResolveForDetection(p)
  BY <1>7 DEF ResolveForDetection, Backed, Detecting
<1>11. CASE LoadMetrics(p)
  <2>1. p \in Runs => health[target[p]] # NoHealth
    BY <1>11
    DEF LoadMetrics, ProcessesInOrder, TasksLeaveResults, LeavesResults, Completed,
        Upstream, Tasks
  <2>2. memory'[p].metrics = health[target[p]]
    BY <1>11 DEF LoadMetrics, Memories
  <2> QED
    BY <1>11, <2>1, <2>2 DEF LoadMetrics, Backed, Detecting, metadata
<1>12. CASE LoadSchema(p)
  <2>1. memory'[p].metrics = memory[p].metrics
    BY <1>12 DEF LoadSchema, Memories
  <2> QED
    BY <1>1, <1>12, <2>1 DEF LoadSchema, Backed, Detecting, metadata
<1>13. CASE ChooseBaseline(p)
  BY <1>1, <1>13 DEF ChooseBaseline, Backed, Detecting, RecordsGrow
<1>8. CASE LoadBaseMetrics(p)
  BY <1>1, <1>8 DEF LoadBaseMetrics, Backed, Detecting, RecordsGrow
<1>9. CASE LoadBaseSchemas(p)
  BY <1>1, <1>9 DEF LoadBaseSchemas, Backed, Detecting, RecordsGrow
<1>10. ASSUME NEW t \in Tables,
              MeasureSchema(p, t) \/ MeasureRows(p, t) \/ CountNulls(p, t)
       PROVE  Backed(p)'
  BY <1>1, <1>10
  DEF MeasureSchema, MeasureRows, CountNulls, Backed, Detecting, RecordsGrow
<1> QED
  BY <1>2, <1>3, <1>4, <1>5, <1>6, <1>7, <1>8, <1>9, <1>10, <1>11, <1>12,
     <1>13 DEF JobStep

LEMMA StepKeepsBacking == TypeInv /\ RecordInv /\ [Next]_vars => JobsAreBacked'
<1> SUFFICES ASSUME TypeInv, RecordInv, [Next]_vars, NEW q \in Processes
             PROVE  Backed(q)'
  BY DEF JobsAreBacked, Processes
<1>1. /\ RecordsGrow /\ Backed(q)
      /\ step[q] # "idle" /\ task[q] \in MetadataJobs => target[q] \in Runs
  BY StepRecordsGrow DEF RecordInv, JobsAreBacked, TypeInv, ProcessesInOrder
<1>2. ASSUME NEW p \in Processes, Alone(p), q # p PROVE Backed(q)'
  BY <1>1, <1>2, BackingLasts DEF Alone
<1>3. CASE UNCHANGED vars \/ Tick
  BY <1>1, <1>3, BackingLasts DEF vars, Tick, processVars
<1>4. ASSUME NEW r \in Runs, Airflow(r) PROVE Backed(q)'
  <2>1. CASE Trigger(r) \/ StartDagRun(r)
    BY <1>1, <2>1, BackingLasts DEF Trigger, StartDagRun, processVars
  <2>2. CASE (StartAttempt(r) \/ TaskSucceeds(r)) /\ q = r
    BY <2>2, NoBackingNeeded
    DEF StartAttempt, JobStarts, TaskSucceeds, TypeInv, TypeOK
  <2>3. CASE q # r
    BY <1>2, <1>4, <2>3, OthersAlone DEF Processes
  <2> QED
    BY <1>4, <2>1, <2>2, <2>3 DEF Airflow
<1>5. ASSUME NEW o \in Operators, Manual(o) PROVE Backed(q)'
  <2>1. CASE q = o
    <3>1. ASSUME NEW job, NEW r, NEW row, OperatorStarts(o, job, r, row)
          PROVE  step'[q] = "started"
      BY <2>1, <3>1 DEF OperatorStarts, JobStarts, TypeInv, TypeOK
    <3>2. OperatorReturns(o) => step'[q] = "idle"
      BY <2>1 DEF OperatorReturns, TypeInv, TypeOK
    <3> QED
      BY <1>5, <3>1, <3>2, NoBackingNeeded DEF Manual
  <2>2. CASE q # o
    BY <1>2, <1>5, <2>2, OthersAlone DEF Processes
  <2> QED
    BY <2>1, <2>2
<1>6. ASSUME NEW p \in Processes, JobRaises(p) \/ JobCrashes(p) PROVE Backed(q)'
  <2>1. CASE q = p
    BY <1>6, <2>1, NoBackingNeeded
    DEF JobRaises, JobCrashes, Exit, TypeInv, TypeOK
  <2>2. CASE q # p
    BY <1>2, <1>6, <2>2, OthersAlone
  <2> QED
    BY <2>1, <2>2
<1>7. ASSUME NEW p \in Processes, JobStep(p) PROVE Backed(q)'
  BY <1>2, <1>7, JobStepAlone, JobStepBacked
<1> QED
  BY <1>3, <1>4, <1>5, <1>6, <1>7 DEF Next

\* A run that has completed no more tasks still has their results.
LEMMA ResultsLast ==
  ASSUME RecordsGrow, NEW r \in Runs, LeavesResults(r),
         Completed(r)' \subseteq Completed(r),
         dagState'[r] = "success" => dagState[r] = "success"
  PROVE  LeavesResults(r)'
BY CommandNames DEF RecordsGrow, LeavesResults

\* Completing a task adds it to what is upstream of the next.
LEMMA UpstreamOfNext ==
  \A j \in Tasks \ {LastTask} : Upstream[Downstream[j]] = Upstream[j] \cup {j}
BY DEF Tasks, LastTask, Upstream, Downstream

LEMMA TaskSuccessKeepsResults ==
  ASSUME TypeInv, RecordsGrow, NEW r \in Runs, LeavesResults(r), TaskSucceeds(r)
  PROVE  LeavesResults(r)'
<1> USE DEF TypeInv, TypeOK, Processes
<1>1. Completed(r) = Upstream[task[r]] \cup {task[r]}
  BY DEF TaskSucceeds, Completed
<1>2. step'[r] = "idle"
  BY DEF TaskSucceeds
<1>3. CASE task[r] # LastTask
  <2>1. task'[r] = Downstream[task[r]] /\ dagState' = dagState
    BY <1>3 DEF TaskSucceeds
  <2>2. Completed(r)' = Upstream[Downstream[task[r]]]
    BY <1>2, <2>1 DEF Completed
  <2> QED
    BY <1>1, <1>3, <2>1, <2>2, UpstreamOfNext, ResultsLast
<1>4. CASE task[r] = LastTask
  <2>1. task' = task
    BY <1>4 DEF TaskSucceeds
  <2>2. Completed(r)' = Upstream[task[r]]
    BY <1>2, <2>1 DEF Completed
  <2>3. r \in evaluated
    BY <1>1, <1>4 DEF LeavesResults, LastTask
  <2> QED
    BY <1>1, <2>2, <2>3, CommandNames DEF LeavesResults, RecordsGrow
<1> QED
  BY <1>3, <1>4

LEMMA JobStepLeavesResults ==
  ASSUME TypeInv, RecordInv, NEW r \in Runs, JobStep(r)
  PROVE  LeavesResults(r)'
<1> USE PipelineAssumption, RecordAssumption, CommandNames
    DEF TypeInv, TypeOK, Processes, At, Advance
<1>1. /\ RecordsGrow /\ LeavesResults(r)
      /\ target[r] = r
      /\ task' = task /\ dagState' = dagState
      /\ step[r] # "idle"
  BY JobStepRecordsGrow, JobStepFrame
  DEF RecordInv, TasksLeaveResults, ProcessesInOrder, airflowVars, processVars
<1>2. CASE step'[r] # "finished"
  BY <1>1, <1>2, ResultsLast DEF Completed
<1>3. ASSUME step'[r] = "finished",
             task[r] = "run_dbt" => artifacts'["run"] # NoArtifact,
             task[r] = "test_dbt" => artifacts'["test"] # NoArtifact,
             task[r] = "collect_dbt_metadata" => pipelineRuns'[r] # NoRow,
             task[r] = "collect_data_health_metrics" => health'[r] # NoHealth,
             task[r] = "detect_data_incidents" => r \in evaluated'
      PROVE  LeavesResults(r)'
  <2>1. Completed(r)' = Upstream[task[r]] \cup {task[r]}
    BY <1>1, <1>3 DEF Completed
  <2>2. Upstream[task[r]] \subseteq Completed(r)
    BY DEF Completed
  <2> QED
    BY <1>1, <1>3, <2>1, <2>2 DEF LeavesResults, RecordsGrow
<1>4. CASE CommitRaw(r)
  BY <1>3, <1>4 DEF CommitRaw
<1>5. ASSUME NEW c \in Commands, WriteArtifact(r, c) PROVE LeavesResults(r)'
  <2>1. Invocation(r) \in Invocations
    BY InvocationType
  <2> QED
    BY <1>3, <1>5, <2>1 DEF WriteArtifact
<1>6. CASE PersistMetadata(r)
  <2>1. memory[r].given \in RunRows
    BY DEF Memories
  <2> QED
    BY <1>1, <1>3, <1>6, <2>1 DEF PersistMetadata
<1>7. CASE PersistMeasurements(r)
  <2>1. memory[r].seen \in HealthRows
    BY <1>7 DEF PersistMeasurements, Memories, HealthRows
  <2> QED
    BY <1>1, <1>3, <1>7, <2>1 DEF PersistMeasurements
<1>8. CASE PersistIncidents(r)
  BY <1>1, <1>3, <1>8 DEF PersistIncidents
<1>9. CASE step'[r] = "finished"
  BY <1>4, <1>5, <1>6, <1>7, <1>8, <1>9
  DEF JobStep, TruncateRaw, BuildFails, BuildMarts, ParseArtifact, ResolveForHealth,
      ResolveForDetection, LoadMetrics, LoadSchema, ChooseBaseline,
      LoadBaseMetrics, LoadBaseSchemas, MeasureSchema, MeasureRows, CountNulls
<1> QED
  BY <1>2, <1>9

LEMMA StepLeavesResults ==
  TypeInv /\ RecordInv /\ [Next]_vars => TasksLeaveResults'
<1> SUFFICES ASSUME TypeInv, RecordInv, [Next]_vars, NEW r \in Runs
             PROVE  LeavesResults(r)'
  BY DEF TasksLeaveResults
<1> USE DEF TypeInv, TypeOK, Processes
<1>1. RecordsGrow /\ LeavesResults(r)
  BY StepRecordsGrow DEF RecordInv, TasksLeaveResults
<1>2. ASSUME NEW p \in Processes, Alone(p), r # p, dagState'[r] = dagState[r]
      PROVE  LeavesResults(r)'
  BY <1>1, <1>2, ResultsLast DEF Alone, Completed
<1>3. CASE UNCHANGED vars \/ Tick
  BY <1>1, <1>3, ResultsLast DEF vars, Tick, airflowVars, processVars, Completed
<1>4. ASSUME NEW q \in Runs, Airflow(q) PROVE LeavesResults(r)'
  <2>1. CASE Trigger(q) \/ StartDagRun(q)
    BY <1>1, <2>1, ResultsLast DEF Trigger, StartDagRun, processVars, Completed
  <2>2. CASE StartAttempt(q) /\ q = r
    BY <1>1, <2>2, ResultsLast DEF StartAttempt, JobStarts, processVars, Completed
  <2>3. CASE TaskSucceeds(q) /\ q = r
    BY <1>1, <2>3, TaskSuccessKeepsResults
  <2>4. CASE (StartAttempt(q) \/ TaskSucceeds(q)) /\ q # r
    BY <1>2, <1>4, <2>4, OthersAlone DEF StartAttempt, TaskSucceeds
  <2> QED
    BY <1>4, <2>1, <2>2, <2>3, <2>4 DEF Airflow
<1>5. ASSUME NEW o \in Operators, Manual(o) PROVE LeavesResults(r)'
  <2>1. r # o
    BY PipelineAssumption
  <2>2. dagState' = dagState
    BY <1>5 DEF Manual, OperatorStarts, OperatorReturns, airflowVars
  <2> QED
    BY <1>2, <1>5, <2>1, <2>2, OthersAlone
<1>6. ASSUME NEW p \in Processes, JobRaises(p) \/ JobCrashes(p)
      PROVE  LeavesResults(r)'
  <2>1. Exit(p)
    BY <1>6 DEF JobRaises, JobCrashes
  <2>2. CASE p = r
    BY <1>1, <2>1, <2>2, ResultsLast DEF Exit, Completed
  <2>3. CASE p # r
    BY <1>2, <1>6, <2>1, <2>3, OthersAlone DEF Exit
  <2> QED
    BY <2>2, <2>3
<1>7. ASSUME NEW p \in Processes, JobStep(p) PROVE LeavesResults(r)'
  <2>1. CASE p = r
    BY <1>7, <2>1, JobStepLeavesResults
  <2>2. CASE p # r
    BY <1>2, <1>7, <2>2, JobStepAlone, JobStepFrame DEF airflowVars
  <2> QED
    BY <2>1, <2>2
<1> QED
  BY <1>3, <1>4, <1>5, <1>6, <1>7 DEF Next

LEMMA InitRecordInv == Init => RecordInv
<1> SUFFICES ASSUME Init PROVE RecordInv
  OBVIOUS
<1>1. JobsAreBacked
  BY NoBackingNeeded DEF Init, JobsAreBacked, Backed, At, Detecting
<1>2. RecordedWithResults
  BY DEF Init, RecordedWithResults
<1>3. LayersInOrder
  BY DEF Init, LayersInOrder, NoIncidents
<1>4. TasksLeaveResults
  BY DEF Init, TasksLeaveResults, LeavesResults, Completed, Upstream, FirstTask,
     Processes
<1> QED
  BY <1>1, <1>2, <1>3, <1>4 DEF RecordInv

\* The inductive invariant holds of every instance.
THEOREM PipelineIsInvariant == Spec => []PipelineInv
<1>1. Init => PipelineInv
  BY InitTypeInv, InitLockInv, InitRecordInv DEF PipelineInv
<1>2. PipelineInv /\ [Next]_vars => PipelineInv'
  BY StepTypeInv, StepLockInv, StepKeepsLayers, StepKeepsBacking,
     StepLeavesResults DEF PipelineInv, RecordInv
<1> QED
  BY <1>1, <1>2, PTL DEF Spec

\* Whatever crashes, is retried, repeated or runs concurrently, a run's node
\* results, measurements and incidents are committed in that order.
THEOREM RecordsAreLayered == Spec => []LayersInOrder
BY PipelineIsInvariant, PTL DEF PipelineInv, RecordInv

\* No task of a DAG run ever finds its input missing.
THEOREM TasksFindInputs == Spec => []InputsReady
<1>1. ASSUME PipelineInv, NEW r \in Runs PROVE ~ArtifactMissing(r) /\ ~RunNotReady(r)
  <2>1. LeavesResults(r) /\ Backed(r) /\ target[r] = r
    BY <1>1
    DEF PipelineInv, TypeInv, RecordInv, JobsAreBacked, TasksLeaveResults,
        ProcessesInOrder, Processes
  <2> QED
    BY <2>1
    DEF Backed, ArtifactMissing, RunNotReady, At, LeavesResults, Completed, Upstream, Tasks
<1>2. PipelineInv => InputsReady
  BY <1>1 DEF InputsReady
<1> QED
  BY <1>2, PipelineIsInvariant, PTL

\* A run that Airflow reports as successful has its complete record.
THEOREM SuccessIsRecorded == Spec => []SuccessIsComplete
<1>1. PipelineInv => SuccessIsComplete
  BY DEF PipelineInv, RecordInv, TasksLeaveResults, LeavesResults, LayersInOrder,
     RecordedWithResults, OfBothCommands, SuccessIsComplete
<1> QED
  BY <1>1, PipelineIsInvariant, PTL

-----------------------------------------------------------------------------
(***************************************************************************)
(* The pipeline implements the ledger of run records.                      *)
(***************************************************************************)

\* The stage of one run's record.
LEMMA StageOf ==
  ASSUME NEW r \in Runs
  PROVE  /\ LedgerStage[r] = IF pipelineRuns[r] = NoRow THEN 0
                             ELSE IF health[r] = NoHealth THEN 1
                             ELSE IF r \notin evaluated THEN 2 ELSE 3
         /\ LedgerOutcome[r] = IF dagState[r] \in {"success", "failed"}
                               THEN dagState[r] ELSE "pending"
BY DEF LedgerStage, LedgerOutcome

\* A commit that adds one layer to one run's record is Grow.
LEMMA LedgerGrows ==
  ASSUME NEW r \in Runs, dagState' = dagState,
         LedgerStage[r] \in 0 .. 2, LedgerStage'[r] = LedgerStage[r] + 1,
         \A q \in Runs \ {r} : LedgerStage'[q] = LedgerStage[q]
  PROVE  Ledger!Next
<1>1. LedgerStage' = [LedgerStage EXCEPT ![r] = @ + 1]
  BY DEF LedgerStage
<1>2. LedgerOutcome' = LedgerOutcome
  BY DEF LedgerOutcome
<1>3. Ledger!Grow(r)
  BY <1>1, <1>2 DEF Ledger!Grow, Ledger!Evaluated
<1> QED
  BY <1>3 DEF Ledger!Next

LEMMA LedgerStageKept ==
  ASSUME \A q \in Runs : LedgerStage'[q] = LedgerStage[q]
  PROVE  LedgerStage' = LedgerStage
BY DEF LedgerStage

LEMMA JobStepGrowsLedger ==
  ASSUME PipelineInv, PipelineInv', NEW p \in Processes, JobStep(p)
  PROVE  Ledger!Next \/ UNCHANGED <<LedgerStage, LedgerOutcome>>
<1> USE PipelineAssumption, RecordAssumption
    DEF PipelineInv, TypeInv, TypeOK, RecordInv, LayersInOrder
<1> DEFINE r == target[p]
<1>1. /\ task[p] \in MetadataJobs => r \in Runs
      /\ dagState' = dagState /\ LedgerOutcome' = LedgerOutcome
  BY JobStepFrame DEF ProcessesInOrder, airflowVars, LedgerOutcome
<1>2. CASE UNCHANGED metadata
  BY <1>1, <1>2 DEF metadata, LedgerStage
<1>3. ASSUME r \in Runs, \A q \in Runs \ {r} : LedgerStage'[q] = LedgerStage[q],
             \/ LedgerStage'[r] = LedgerStage[r]
             \/ LedgerStage[r] \in 0 .. 2 /\ LedgerStage'[r] = LedgerStage[r] + 1
      PROVE  Ledger!Next \/ UNCHANGED <<LedgerStage, LedgerOutcome>>
  BY <1>1, <1>3, LedgerGrows, LedgerStageKept
<1>4. CASE PersistMetadata(p)
  <2>1. /\ pipelineRuns' = [pipelineRuns EXCEPT ![r] = memory[p].given]
        /\ health' = health /\ evaluated' = evaluated /\ r \in Runs
    BY <1>1, <1>4 DEF PersistMetadata, At, MetadataJobs
  <2>2. memory[p].given # NoRow
    BY DEF Memories
  <2>3. pipelineRuns[r] = NoRow => LedgerStage'[r] = 1
    BY <2>1, <2>2 DEF LedgerStage
  <2>4. pipelineRuns[r] # NoRow => LedgerStage'[r] = LedgerStage[r]
    BY <2>1, <2>2 DEF LedgerStage
  <2>5. \A q \in Runs \ {r} : LedgerStage'[q] = LedgerStage[q]
    BY <2>1 DEF LedgerStage
  <2> QED
    BY <1>3, <2>1, <2>3, <2>4, <2>5, StageOf
<1>5. CASE PersistMeasurements(p)
  <2>1. /\ health' = [health EXCEPT ![r] = memory[p].seen]
        /\ pipelineRuns' = pipelineRuns /\ evaluated' = evaluated /\ r \in Runs
    BY <1>1, <1>5 DEF PersistMeasurements, At, MetadataJobs
  <2>2. memory[p].seen # NoHealth
    BY <1>5 DEF PersistMeasurements, Memories, HealthRows
  <2>3. pipelineRuns[r] # NoRow
    BY <1>5 DEF PersistMeasurements, JobsAreBacked, Backed
  <2>4. health[r] = NoHealth => LedgerStage'[r] = 2 /\ LedgerStage[r] = 1
    BY <2>1, <2>2, <2>3 DEF LedgerStage
  <2>5. health[r] # NoHealth => LedgerStage'[r] = LedgerStage[r]
    BY <2>1, <2>2 DEF LedgerStage
  <2>6. \A q \in Runs \ {r} : LedgerStage'[q] = LedgerStage[q]
    BY <2>1 DEF LedgerStage
  <2> QED
    BY <1>3, <2>1, <2>4, <2>5, <2>6
<1>6. CASE PersistIncidents(p)
  <2>1. /\ evaluated' = evaluated \cup {r}
        /\ pipelineRuns' = pipelineRuns /\ health' = health /\ r \in Runs
    BY <1>1, <1>6 DEF PersistIncidents, At, MetadataJobs
  <2>2. health[r] # NoHealth
    BY <1>6 DEF PersistIncidents, JobsAreBacked, Backed, Detecting
  <2>3. r \notin evaluated => LedgerStage'[r] = 3 /\ LedgerStage[r] = 2
    BY <2>1, <2>2 DEF LedgerStage
  <2>4. r \in evaluated => LedgerStage'[r] = LedgerStage[r]
    BY <2>1 DEF LedgerStage
  <2>5. \A q \in Runs \ {r} : LedgerStage'[q] = LedgerStage[q]
    BY <2>1 DEF LedgerStage
  <2> QED
    BY <1>3, <2>1, <2>3, <2>4, <2>5
<1> QED
  BY <1>2, <1>4, <1>5, <1>6
  DEF JobStep, TruncateRaw, CommitRaw, BuildFails, BuildMarts, WriteArtifact,
      ParseArtifact, ResolveForHealth, ResolveForDetection, LoadMetrics, LoadSchema,
      ChooseBaseline, LoadBaseMetrics, LoadBaseSchemas, MeasureSchema,
      MeasureRows, CountNulls

LEMMA RunsEndInLedger ==
  ASSUME PipelineInv
  PROVE  /\ \A r \in Runs : TaskSucceeds(r) =>
              Ledger!Next \/ UNCHANGED <<LedgerStage, LedgerOutcome>>
         /\ \A p \in Processes : JobRaises(p) \/ JobCrashes(p) =>
              Ledger!Next \/ UNCHANGED <<LedgerStage, LedgerOutcome>>
<1> USE DEF PipelineInv, TypeInv, TypeOK
<1>1. ASSUME NEW r \in Runs, TaskSucceeds(r)
      PROVE  Ledger!Next \/ UNCHANGED <<LedgerStage, LedgerOutcome>>
  <2>1. LedgerStage' = LedgerStage
    BY <1>1 DEF TaskSucceeds, LedgerStage, metadata
  <2>2. CASE task[r] # LastTask
    BY <1>1, <2>1, <2>2 DEF TaskSucceeds, LedgerOutcome
  <2>3. CASE task[r] = LastTask
    <3>1. dagState[r] = "running" /\ dagState' = [dagState EXCEPT ![r] = "success"]
      BY <1>1, <2>3 DEF TaskSucceeds, ProcessesInOrder, Active, Processes
    <3>2. r \in evaluated
      BY <1>1, <2>3
      DEF TaskSucceeds, RecordInv, TasksLeaveResults, LeavesResults, Completed, LastTask
    <3>3. LedgerStage[r] = 3
      BY <3>2 DEF RecordInv, LayersInOrder, LedgerStage
    <3>4. LedgerOutcome' = [LedgerOutcome EXCEPT ![r] = "success"]
      BY <3>1 DEF LedgerOutcome
    <3>5. LedgerOutcome[r] = "pending"
      BY <3>1 DEF LedgerOutcome
    <3> QED
      BY <2>1, <3>3, <3>4, <3>5 DEF Ledger!Next, Ledger!Succeed, Ledger!Evaluated
  <2> QED
    BY <2>2, <2>3
<1>2. ASSUME NEW p \in Processes, JobRaises(p) \/ JobCrashes(p)
      PROVE  Ledger!Next \/ UNCHANGED <<LedgerStage, LedgerOutcome>>
  <2>1. Exit(p)
    BY <1>2 DEF JobRaises, JobCrashes
  <2>2. LedgerStage' = LedgerStage
    BY <2>1 DEF Exit, LedgerStage, metadata
  <2>3. CASE dagState' = dagState
    BY <2>2, <2>3 DEF LedgerOutcome
  <2>4. CASE p \in Runs /\ dagState' = [dagState EXCEPT ![p] = "failed"]
    <3>1. step[p] # "idle"
      BY <1>2
      DEF JobRaises, JobCrashes, AtWork, ArtifactMissing, RunNotReady, TableUnfit, At
    <3>2. dagState[p] = "running"
      BY <2>4, <3>1 DEF ProcessesInOrder, Active
    <3>3. LedgerOutcome' = [LedgerOutcome EXCEPT ![p] = "failed"]
      BY <2>4 DEF LedgerOutcome
    <3>4. LedgerOutcome[p] = "pending"
      BY <2>4, <3>2 DEF LedgerOutcome
    <3> QED
      BY <2>2, <2>4, <3>3, <3>4 DEF Ledger!Next, Ledger!Fail
  <2> QED
    BY <2>1, <2>3, <2>4 DEF Exit
<1> QED
  BY <1>1, <1>2

LEMMA StepImplementsLedger ==
  PipelineInv /\ PipelineInv' /\ [Next]_vars =>
    [Ledger!Next]_<<LedgerStage, LedgerOutcome>>
<1> SUFFICES ASSUME PipelineInv, PipelineInv', [Next]_vars
             PROVE  Ledger!Next \/ UNCHANGED <<LedgerStage, LedgerOutcome>>
  OBVIOUS
<1>1. CASE UNCHANGED vars \/ Tick
  BY <1>1 DEF vars, Tick, airflowVars, metadata, LedgerStage, LedgerOutcome
<1>2. ASSUME NEW r \in Runs, Trigger(r) \/ StartDagRun(r) \/ StartAttempt(r)
      PROVE  UNCHANGED <<LedgerStage, LedgerOutcome>>
  BY <1>2
  DEF Trigger, StartDagRun, StartAttempt, metadata, LedgerStage, LedgerOutcome,
      PipelineInv, TypeInv, TypeOK
<1>3. ASSUME NEW o \in Operators, Manual(o)
      PROVE  UNCHANGED <<LedgerStage, LedgerOutcome>>
  BY <1>3
  DEF Manual, OperatorStarts, OperatorReturns, airflowVars, metadata, LedgerStage,
      LedgerOutcome
<1> QED
  BY <1>1, <1>2, <1>3, JobStepGrowsLedger, RunsEndInLedger DEF Next, Airflow

\* Every behaviour of the pipeline, seen through its committed records and
\* Airflow's verdicts, is a behaviour of the ledger.
THEOREM PipelineKeepsLedger == Spec => KeepsLedger
<1>1. Init => Ledger!Init
  BY DEF Init, Ledger!Init, LedgerStage, LedgerOutcome
<1> QED
  BY <1>1, PipelineIsInvariant, StepImplementsLedger, PTL
  DEF Spec, KeepsLedger, Ledger!Spec

-----------------------------------------------------------------------------
(***************************************************************************)
(* Runs that overlap.  The argument: whoever writes while a run is active  *)
(* is the run itself or somebody beside it; a run that no operator has to  *)
(* do with writes its records alone, in tasks that it is past when it uses *)
(* them; and a run that starts later is recorded with a later time, so     *)
(* that it is no baseline of an earlier one.                               *)
(***************************************************************************)

\* What a job's step can write, and in which statement.
LEMMA JobWrites ==
  ASSUME NEW p \in Processes, JobStep(p)
  PROVE  /\ PersistMetadata(p) \/ UNCHANGED <<pipelineRuns, nodeResults>>
         /\ PersistMeasurements(p) \/ UNCHANGED health
         /\ PersistIncidents(p) \/ UNCHANGED <<incidents, evaluated>>
         /\ CommitRaw(p) \/ UNCHANGED raw
         /\ BuildMarts(p) \/ UNCHANGED marts
         /\ \/ BuildFails(p) \/ \E c \in Commands : WriteArtifact(p, c)
            \/ UNCHANGED artifacts
<1> USE DEF warehouse, metadata
<1>1. CASE TruncateRaw(p) \/ CommitRaw(p) \/ BuildFails(p) \/ BuildMarts(p)
  BY <1>1 DEF TruncateRaw, CommitRaw, BuildFails, BuildMarts
<1>2. CASE \E c \in Commands : WriteArtifact(p, c) \/ ParseArtifact(p, c)
  BY <1>2 DEF WriteArtifact, ParseArtifact
<1>3. CASE PersistMetadata(p) \/ ResolveForHealth(p) \/ ResolveForDetection(p)
             \/ PersistMeasurements(p) \/ PersistIncidents(p)
  BY <1>3 DEF PersistMetadata, ResolveForHealth, ResolveForDetection,
       PersistMeasurements, PersistIncidents
<1>4. CASE LoadMetrics(p) \/ LoadSchema(p) \/ ChooseBaseline(p)
             \/ LoadBaseMetrics(p) \/ LoadBaseSchemas(p)
  BY <1>4 DEF LoadMetrics, LoadSchema, ChooseBaseline, LoadBaseMetrics, LoadBaseSchemas
<1>5. CASE \E t \in Tables : MeasureSchema(p, t) \/ MeasureRows(p, t) \/ CountNulls(p, t)
  BY <1>5 DEF MeasureSchema, MeasureRows, CountNulls
<1> QED
  BY <1>1, <1>2, <1>3, <1>4, <1>5 DEF JobStep

\* The steps of each task.
LEMMA JobStepsOfTask ==
  ASSUME NEW p \in Processes, JobStep(p)
  PROVE  /\ task[p] = "bootstrap_raw_data" => TruncateRaw(p) \/ CommitRaw(p)
         /\ task[p] \in {"run_dbt", "test_dbt"} =>
              BuildFails(p) \/ BuildMarts(p) \/ \E c \in Commands : WriteArtifact(p, c)
         /\ task[p] = "collect_dbt_metadata" =>
              PersistMetadata(p) \/ \E c \in Commands : ParseArtifact(p, c)
         /\ task[p] = "collect_data_health_metrics" =>
              \/ ResolveForHealth(p) \/ PersistMeasurements(p)
              \/ \E t \in Tables : MeasureSchema(p, t) \/ MeasureRows(p, t)
         /\ task[p] = "detect_data_incidents" =>
              \/ ResolveForDetection(p) \/ LoadMetrics(p) \/ LoadSchema(p)
              \/ ChooseBaseline(p) \/ LoadBaseMetrics(p) \/ LoadBaseSchemas(p)
              \/ PersistIncidents(p) \/ \E t \in Tables : CountNulls(p, t)
<1> USE DEF At
<1>1. TruncateRaw(p) \/ CommitRaw(p) => task[p] = "bootstrap_raw_data"
  BY DEF TruncateRaw, CommitRaw
<1>2. BuildFails(p) \/ BuildMarts(p) \/ (\E c \in Commands : WriteArtifact(p, c)) =>
        task[p] \in {"run_dbt", "test_dbt"}
  BY DEF BuildFails, BuildMarts, Buildable, WriteArtifact
<1>3. PersistMetadata(p) \/ (\E c \in Commands : ParseArtifact(p, c)) =>
        task[p] = "collect_dbt_metadata"
  BY DEF PersistMetadata, ParseArtifact
<1>4. ResolveForHealth(p) \/ PersistMeasurements(p) =>
        task[p] = "collect_data_health_metrics"
  BY DEF ResolveForHealth, PersistMeasurements
<1>5. \A t \in Tables : MeasureSchema(p, t) \/ MeasureRows(p, t) =>
        task[p] = "collect_data_health_metrics"
  BY DEF MeasureSchema, MeasureRows
<1>6. ResolveForDetection(p) \/ LoadMetrics(p) \/ LoadSchema(p) \/ ChooseBaseline(p)
        \/ LoadBaseMetrics(p) \/ LoadBaseSchemas(p) \/ PersistIncidents(p)
        => task[p] = "detect_data_incidents"
  BY DEF ResolveForDetection, LoadMetrics, LoadSchema, ChooseBaseline,
     LoadBaseMetrics, LoadBaseSchemas, PersistIncidents
<1>7. \A t \in Tables : CountNulls(p, t) => task[p] = "detect_data_incidents"
  BY DEF CountNulls
<1> HIDE DEF At
<1> QED
  BY <1>1, <1>2, <1>3, <1>4, <1>5, <1>6, <1>7 DEF JobStep

\* A job finishes with what it commits or writes.
LEMMA JobFinishes ==
  ASSUME TypeInv, NEW p \in Processes, JobStep(p), step'[p] = "finished"
  PROVE  \/ CommitRaw(p) \/ \E c \in Commands : WriteArtifact(p, c)
         \/ PersistMetadata(p) \/ PersistMeasurements(p) \/ PersistIncidents(p)
<1> USE DEF TypeInv, TypeOK, Advance
<1>1. ~TruncateRaw(p) /\ ~BuildFails(p) /\ ~BuildMarts(p)
  BY DEF TruncateRaw, BuildFails, BuildMarts
<1>2. \A c \in Commands : ~ParseArtifact(p, c)
  BY DEF ParseArtifact
<1>3. ~ResolveForHealth(p) /\ ~ResolveForDetection(p)
  BY DEF ResolveForHealth, ResolveForDetection
<1>4. /\ ~LoadMetrics(p) /\ ~LoadSchema(p) /\ ~ChooseBaseline(p)
      /\ ~LoadBaseMetrics(p) /\ ~LoadBaseSchemas(p)
  BY DEF LoadMetrics, LoadSchema, ChooseBaseline, LoadBaseMetrics, LoadBaseSchemas
<1>5. \A t \in Tables : ~MeasureSchema(p, t) /\ ~MeasureRows(p, t) /\ ~CountNulls(p, t)
  BY DEF MeasureSchema, MeasureRows, CountNulls
<1> QED
  BY <1>1, <1>2, <1>3, <1>4, <1>5 DEF JobStep

\* Where the dbt tasks stand in the chain.
LEMMA CompletedBefore ==
  /\ Upstream["bootstrap_raw_data"] = {}
  /\ Upstream["run_dbt"] = {"bootstrap_raw_data"}
  /\ Upstream["test_dbt"] = {"bootstrap_raw_data", "run_dbt"}
  /\ \A j \in MetadataJobs : "run_dbt" \in Upstream[j] /\ "test_dbt" \in Upstream[j]
  /\ "run_dbt" \notin MetadataJobs /\ "test_dbt" \notin MetadataJobs
  /\ "bootstrap_raw_data" \notin MetadataJobs
BY DEF Upstream, MetadataJobs, Tasks

\* What a step of job p means for the runs: p belongs to each active run or is
\* beside it, and writes no records but those of the run it works for, which
\* is p's own if no operator had to do with it.
LEMMA JobFrame ==
  ASSUME TypeInv, OverlapsAreKnown, NEW p \in Processes, JobStep(p)
  PROVE  /\ UNCHANGED <<clock, dagState, startedAt, tries, beside, task, target>>
         /\ step[p] # "idle" /\ step'[p] # "idle"
         /\ Alone(p)
         /\ \A r \in Runs : Active(r) => p \in Around(r)
         /\ p \in Runs => Active(p) /\ target[p] = p
         /\ \A r \in Runs \ {p} : HandsOff(r) \/ p \in Runs =>
              /\ pipelineRuns'[r] = pipelineRuns[r]
              /\ nodeResults'[r] = nodeResults[r]
              /\ health'[r] = health[r]
              /\ incidents'[r] = incidents[r]
              /\ r \in evaluated' <=> r \in evaluated
<1>1. /\ UNCHANGED <<clock, dagState, startedAt, tries, beside, task, target>>
      /\ step[p] # "idle"
  BY JobStepFrame DEF airflowVars, processVars
<1>2. step'[p] # "idle"
  <2>1. PICK l \in Steps \ {"idle"} : step' = [step EXCEPT ![p] = l]
    BY JobStepFrame
  <2> QED
    BY <2>1 DEF TypeInv, TypeOK
<1>3. p \in Runs => Active(p) /\ target[p] = p
  BY <1>1 DEF TypeInv, ProcessesInOrder
<1>4. \A r \in Runs : Active(r) => p \in Around(r)
  BY <1>1, <1>3 DEF OverlapsAreKnown, InProgress, AtWork, Processes
<1>5. \A r \in Runs \ {p} : HandsOff(r) \/ p \in Runs => r # target[p]
  BY <1>1, <1>3, PipelineAssumption DEF OverlapsAreKnown, AtWork, Processes, HandsOff
<1>6. \A r \in Runs : r # target[p] =>
        /\ pipelineRuns'[r] = pipelineRuns[r]
        /\ nodeResults'[r] = nodeResults[r]
  BY JobWrites DEF PersistMetadata, TypeInv, TypeOK
<1>7. \A r \in Runs : r # target[p] => health'[r] = health[r]
  BY JobWrites DEF PersistMeasurements, TypeInv, TypeOK
<1>8. \A r \in Runs : r # target[p] =>
        /\ incidents'[r] = incidents[r]
        /\ r \in evaluated' <=> r \in evaluated
  BY JobWrites DEF PersistIncidents, TypeInv, TypeOK
<1> QED
  BY <1>1, <1>2, <1>3, <1>4, <1>5, <1>6, <1>7, <1>8, JobStepAlone

\* What a step that is no job's does to a run: its process keeps what it does,
\* or begins or ends an attempt; and who is beside it stays so.
ScheduledStep(r) ==
  /\ \/ task'[r] = task[r] /\ step'[r] = step[r] /\ memory'[r] = memory[r]
     \/ /\ step'[r] \in {"idle", "started"}
        /\ \/ memory'[r] = Blank
           \/ /\ step[r] \in {"idle", "finished"}
              /\ memory'[r].parsed = memory[r].parsed
              /\ memory'[r].seen = memory[r].seen
        /\ step'[r] = "started" /\ task'[r] = "collect_dbt_metadata" =>
             r \in Begun /\ memory'[r].given = OwnRow(r)
  /\ Completed(r)' \subseteq Completed(r)
  /\ Active(r)' => Active(r) \/ r \notin Begun
  /\ beside[r] \subseteq beside'[r]
  /\ r \in Begun => r \in Begun' /\ startedAt'[r] = startedAt[r]

Scheduled == UNCHANGED <<warehouse, metadata>> /\ \A r \in Runs : ScheduledStep(r)

LEMMA StepsAreScheduled ==
  ASSUME TypeInv, [Next]_vars, \A p \in Processes : ~JobStep(p)
  PROVE  Scheduled
<1> USE PipelineAssumption DEF TypeInv, TypeOK, Active, Begun, Processes
<1>0. UNCHANGED <<warehouse, metadata>>
  BY OthersWriteNothing DEF Next
<1>1. CASE Tick \/ UNCHANGED vars
  BY <1>0, <1>1
  DEF Scheduled, ScheduledStep, Tick, vars, airflowVars, processVars, Completed
<1>2. ASSUME NEW r \in Runs, Trigger(r) \/ StartDagRun(r) PROVE Scheduled
  <2>1. UNCHANGED <<task, step, memory>>
    BY <1>2 DEF Trigger, StartDagRun, processVars
  <2>2. \A q \in Runs :
          /\ Active(q)' => Active(q) \/ q \notin Begun
          /\ beside[q] \subseteq beside'[q]
          /\ q \in Begun => q \in Begun' /\ startedAt'[q] = startedAt[q]
    BY <1>2 DEF Trigger, StartDagRun
  <2> QED
    BY <1>0, <2>1, <2>2 DEF Scheduled, ScheduledStep, Completed
<1>3. ASSUME NEW r \in Runs, StartAttempt(r) PROVE Scheduled
  <2>1. /\ UNCHANGED <<task, dagState, startedAt, beside>> /\ Active(r)
        /\ step[r] = "idle" /\ step' = [step EXCEPT ![r] = "started"]
        /\ \A q \in Runs \ {r} : memory'[q] = memory[q]
        /\ memory[r] \in Memories
    BY <1>3 DEF StartAttempt, JobStarts, processVars
  <2>2. /\ memory'[r].parsed = memory[r].parsed /\ memory'[r].seen = memory[r].seen
        /\ task[r] = "collect_dbt_metadata" => memory'[r].given = OwnRow(r)
    BY <1>3, <2>1 DEF StartAttempt, JobStarts, Memories
  <2> QED
    BY <1>0, <2>1, <2>2 DEF Scheduled, ScheduledStep, Completed
<1>4. ASSUME NEW r \in Runs, TaskSucceeds(r) PROVE Scheduled
  <2>1. /\ UNCHANGED <<memory, startedAt, beside>>
        /\ step[r] = "finished" /\ step' = [step EXCEPT ![r] = "idle"]
        /\ \A q \in Runs \ {r} : task'[q] = task[q] /\ dagState'[q] = dagState[q]
        /\ Active(r)
    BY <1>4 DEF TaskSucceeds, ProcessesInOrder
  <2>2. Completed(r)' \subseteq Completed(r) /\ r \in Begun'
    <3>1. CASE task[r] # LastTask
      <4>1. task'[r] = Downstream[task[r]] /\ task[r] \in Tasks /\ dagState' = dagState
        BY <1>4, <3>1 DEF TaskSucceeds
      <4> QED
        BY <2>1, <3>1, <4>1, UpstreamOfNext DEF Completed
    <3>2. CASE task[r] = LastTask
      BY <1>4, <2>1, <3>2 DEF TaskSucceeds, Completed
    <3> QED
      BY <3>1, <3>2
  <2> QED
    BY <1>0, <2>1, <2>2 DEF Scheduled, ScheduledStep, Completed
<1>5. ASSUME NEW o \in Operators, Manual(o) PROVE Scheduled
  <2>1. Alone(o) /\ o \notin Runs
    BY <1>5, OthersAlone
  <2>2. /\ UNCHANGED <<dagState, startedAt>>
        /\ \A q \in Runs : beside[q] \subseteq beside'[q]
    BY <1>5 DEF Manual, OperatorStarts, OperatorReturns, airflowVars
  <2> QED
    BY <1>0, <2>1, <2>2 DEF Scheduled, ScheduledStep, Completed, Alone
<1>6. ASSUME NEW p \in Processes, JobRaises(p) \/ JobCrashes(p) PROVE Scheduled
  <2>1. Exit(p)
    BY <1>6 DEF JobRaises, JobCrashes
  <2>2. /\ UNCHANGED <<task, startedAt, beside>>
        /\ step' = [step EXCEPT ![p] = "idle"]
        /\ memory' = [memory EXCEPT ![p] = Blank]
        /\ \A q \in Runs : dagState'[q] \in {dagState[q], "failed"}
    BY <2>1 DEF Exit
  <2> QED
    BY <1>0, <2>2 DEF Scheduled, ScheduledStep, Completed
<1> QED
  BY <1>1, <1>2, <1>3, <1>4, <1>5, <1>6 DEF Next, Airflow


\* The steps that leave alone what is known of overlaps.
LEMMA OverlapFrame ==
  ASSUME TypeInv, [Next]_vars, \A r \in Runs : ~StartDagRun(r),
         \A o \in Operators, job \in Tasks, r \in Runs \cup {NoRun}, row \in GivenRows :
           ~OperatorStarts(o, job, r, row)
  PROVE  /\ clock <= clock' /\ UNCHANGED <<startedAt, beside>> /\ Begun' = Begun
         /\ \A r \in Runs : Active(r)' => Active(r)
         /\ \A o \in Operators : AtWork(o)' => AtWork(o) /\ target'[o] = target[o]
<1> DEFINE Kept == /\ clock <= clock' /\ UNCHANGED <<startedAt, beside>>
                   /\ \A r \in Runs : /\ Active(r)' => Active(r)
                                      /\ r \in Begun' <=> r \in Begun
                   /\ \A o \in Operators : AtWork(o)' => AtWork(o) /\ target'[o] = target[o]
<1> USE PipelineAssumption DEF TypeInv, TypeOK, Active, Begun, AtWork, Processes,
      ProcessesInOrder
<1>1. CASE Tick \/ UNCHANGED vars
  BY <1>1 DEF Tick, vars, airflowVars, processVars
<1>2. ASSUME NEW r \in Runs, Trigger(r) \/ StartAttempt(r) PROVE Kept
  BY <1>2 DEF Trigger, StartAttempt, JobStarts, processVars
<1>3. ASSUME NEW r \in Runs, TaskSucceeds(r) PROVE Kept
  BY <1>3 DEF TaskSucceeds
<1>4. ASSUME NEW o \in Operators, OperatorReturns(o) PROVE Kept
  BY <1>4 DEF OperatorReturns, airflowVars
<1>5. ASSUME NEW p \in Processes, JobStep(p) PROVE Kept
  BY <1>5, JobStepFrame DEF airflowVars, processVars
<1>6. ASSUME NEW p \in Processes, JobRaises(p) \/ JobCrashes(p) PROVE Kept
  <2>1. Exit(p) /\ step[p] # "idle"
    BY <1>6 DEF JobRaises, JobCrashes, ArtifactMissing, RunNotReady, TableUnfit, At
  <2>2. \A o \in Operators : AtWork(o)' => AtWork(o) /\ target'[o] = target[o]
    BY <2>1 DEF Exit
  <2>3. /\ UNCHANGED <<clock, startedAt, beside>>
        /\ \A r \in Runs : \/ dagState'[r] = dagState[r]
                           \/ r = p /\ dagState'[r] = "failed"
    BY <2>1 DEF Exit
  <2> QED
    BY <2>1, <2>2, <2>3
<1>7. Kept
  BY <1>1, <1>2, <1>3, <1>4, <1>5, <1>6 DEF Next, Airflow, Manual
<1>8. Begun \subseteq Runs /\ Begun' \subseteq Runs
  BY DEF Begun
<1> QED
  BY <1>7, <1>8

\* Whoever comes while a run is in progress becomes known to be beside it.
LEMMA StepOverlapsAreKnown ==
  ASSUME TypeInv, OverlapsAreKnown, [Next]_vars
  PROVE  OverlapsAreKnown'
<1>0. /\ clock \in Nat /\ startedAt \in [Runs -> Nat] /\ Begun \subseteq Runs
      /\ dagState \in [Runs -> {"none", "queued", "running", "success", "failed"}]
      /\ step \in [Processes -> Steps] /\ target \in [Processes -> Runs \cup {NoRun}]
  BY DEF TypeInv, TypeOK, Begun
<1>1. /\ \A r \in Runs : Active(r) => InProgress \subseteq {r} \cup beside[r]
      /\ \A o \in Operators : AtWork(o) /\ target[o] \in Runs => o \in beside[target[o]]
      /\ \A r \in Runs : beside[r] \cap Runs \subseteq Begun
  BY DEF OverlapsAreKnown, Around
<1>2. /\ \A r \in Begun : startedAt[r] <= clock
      /\ \A r, q \in Begun : startedAt[r] = startedAt[q] => r = q
      /\ \A r, q \in Begun :
           startedAt[q] < startedAt[r] /\ q \notin beside[r] => ~Active(q)
  BY DEF OverlapsAreKnown
<1>3. CASE /\ \A r \in Runs : ~StartDagRun(r)
           /\ \A o \in Operators, job \in Tasks, r \in Runs \cup {NoRun}, row \in GivenRows :
                ~OperatorStarts(o, job, r, row)
  <2>1. /\ clock <= clock' /\ UNCHANGED <<startedAt, beside>> /\ Begun' = Begun
        /\ \A r \in Runs : Active(r)' => Active(r)
        /\ \A o \in Operators : AtWork(o)' => AtWork(o) /\ target'[o] = target[o]
    BY <1>3, OverlapFrame
  <2>2. InProgress' \subseteq InProgress
    BY <2>1 DEF InProgress
  <2>3. clock' \in Nat
    BY StepTypeInv DEF TypeInv, TypeOK
  <2>4. \A r \in Begun : startedAt'[r] <= clock'
    BY <1>0, <1>2, <2>1, <2>3
  <2>5. \A r \in Runs : Active(r)' => InProgress' \subseteq {r} \cup beside'[r]
    BY <1>1, <2>1, <2>2
  <2> QED
    BY <1>0, <1>1, <1>2, <2>1, <2>4, <2>5 DEF OverlapsAreKnown, Around
<1>4. ASSUME NEW r \in Runs, StartDagRun(r) PROVE OverlapsAreKnown'
  <2>1. /\ clock' = clock + 1
        /\ startedAt' = [startedAt EXCEPT ![r] = clock']
        /\ r \notin Begun /\ Begun' = Begun \cup {r} /\ ~Active(r)
        /\ \A q \in Runs : Active(q)' <=> Active(q) \/ q = r
        /\ UNCHANGED <<step, target>>
    BY <1>0, <1>4 DEF StartDagRun, Begun, Active, processVars
  <2>2. /\ beside'[r] = beside[r] \cup InProgress
        /\ \A q \in Runs \ {r} :
             beside'[q] = IF Active(q) THEN beside[q] \cup {r} ELSE beside[q]
    BY <1>4 DEF StartDagRun
  <2>3. InProgress' = InProgress \cup {r} /\ InProgress \cap Runs \subseteq Begun
    <3>1. InProgress \cap Runs = {q \in Runs : Active(q)}
      BY PipelineAssumption DEF InProgress
    <3>2. \A o \in Operators : AtWork(o)' <=> AtWork(o)
      BY <2>1 DEF AtWork
    <3>3. {q \in Runs : Active(q)'} = {q \in Runs : Active(q)} \cup {r}
      BY <2>1
    <3>4. {o \in Operators : AtWork(o)'} = {o \in Operators : AtWork(o)}
      BY <3>2
    <3>5. \A q \in Runs : Active(q) => q \in Begun
      BY DEF Active, Begun
    <3> QED
      BY <3>1, <3>3, <3>4, <3>5 DEF InProgress
  <2>4. ASSUME NEW q \in Runs, Active(q)' PROVE InProgress' \subseteq {q} \cup beside'[q]
    <3>1. CASE q = r
      BY <2>2, <2>3, <3>1
    <3>2. CASE q # r
      <4>1. Active(q) /\ InProgress \subseteq {q} \cup beside[q]
        BY <1>1, <2>1, <2>4, <3>2
      <4>2. beside'[q] = beside[q] \cup {r}
        BY <2>2, <3>2, <4>1
      <4> QED
        BY <2>3, <4>1, <4>2
    <3> QED
      BY <3>1, <3>2
  <2>5. \A q \in Runs : beside[q] \subseteq beside'[q] /\ beside'[q] \cap Runs \subseteq Begun'
    <3>1. /\ beside[r] \subseteq beside'[r]
          /\ beside'[r] \cap Runs = (beside[r] \cap Runs) \cup (InProgress \cap Runs)
      BY <2>2
    <3>2. \A q \in Runs \ {r} :
            /\ beside[q] \subseteq beside'[q]
            /\ beside'[q] \cap Runs \subseteq (beside[q] \cap Runs) \cup {r}
      BY <2>2
    <3>3. \A q \in Runs : beside'[q] \cap Runs \subseteq Begun'
      BY <1>1, <2>1, <2>3, <3>1, <3>2
    <3> QED
      BY <3>1, <3>2, <3>3
  <2>6. \A o \in Operators : AtWork(o)' /\ target'[o] \in Runs => o \in beside'[target'[o]]
    BY <1>1, <2>1, <2>5 DEF AtWork
  <2>7. /\ startedAt'[r] = clock + 1
        /\ \A q \in Begun : startedAt'[q] = startedAt[q] /\ startedAt[q] \in Nat
                              /\ startedAt[q] <= clock
    BY <1>0, <1>2, <2>1
  <2>8. /\ \A q \in Begun' : startedAt'[q] <= clock'
        /\ \A q, x \in Begun' : startedAt'[q] = startedAt'[x] => q = x
    BY <1>0, <1>2, <2>1, <2>7
  <2>9. ASSUME NEW q \in Begun', NEW x \in Begun', startedAt'[q] < startedAt'[x],
               q \notin beside'[x]
        PROVE  ~Active(q)'
    <3>1. q # r /\ q \in Begun /\ q \in Runs /\ x \in Runs
      BY <1>0, <2>1, <2>7, <2>9
    <3>2. CASE x = r
      <4>1. q \notin InProgress
        BY <2>2, <2>9, <3>2
      <4> QED
        BY <2>1, <3>1, <4>1 DEF InProgress
    <3>3. CASE x # r
      <4>1. x \in Begun /\ startedAt[q] < startedAt[x] /\ q \notin beside[x]
        BY <2>1, <2>5, <2>7, <2>9, <3>1, <3>3
      <4> QED
        BY <1>2, <2>1, <3>1, <4>1
    <3> QED
      BY <3>2, <3>3
  <2> QED
    BY <2>4, <2>5, <2>6, <2>8, <2>9 DEF OverlapsAreKnown, Around
<1>5. ASSUME NEW o \in Operators, NEW job \in Tasks, NEW r \in Runs \cup {NoRun},
             NEW row \in GivenRows, OperatorStarts(o, job, r, row)
      PROVE  OverlapsAreKnown'
  <2>1. /\ UNCHANGED <<clock, dagState, startedAt>> /\ Begun' = Begun
        /\ step' = [step EXCEPT ![o] = "started"] /\ target' = [target EXCEPT ![o] = r]
        /\ \A q \in Runs : Active(q)' <=> Active(q)
        /\ o \notin Runs /\ o \in Processes
    BY <1>5, PipelineAssumption DEF OperatorStarts, JobStarts, Begun, Active, Processes
  <2>2. \A q \in Runs : beside'[q] = IF Active(q) \/ q = r THEN beside[q] \cup {o}
                                     ELSE beside[q]
    BY <1>5 DEF OperatorStarts
  <2>3. InProgress' \subseteq InProgress \cup {o}
    BY <1>0, <2>1 DEF InProgress, AtWork, Processes
  <2>4. ASSUME NEW q \in Operators, AtWork(q)', target'[q] \in Runs
        PROVE  q \in beside'[target'[q]]
    <3>1. CASE q = o
      BY <1>0, <2>1, <2>2, <2>4, <3>1
    <3>2. CASE q # o
      <4>1. AtWork(q) /\ target'[q] = target[q]
        BY <1>0, <2>1, <2>4, <3>2 DEF AtWork, Processes
      <4> QED
        BY <1>1, <2>2, <2>4, <4>1
    <3> QED
      BY <3>1, <3>2
  <2>5. \A q \in Runs : Active(q)' => InProgress' \subseteq {q} \cup beside'[q]
    BY <1>1, <2>1, <2>2, <2>3
  <2>6. \A q \in Runs : beside[q] \subseteq beside'[q]
                        /\ beside'[q] \cap Runs = beside[q] \cap Runs
    BY <2>1, <2>2
  <2>7. \A q, x \in Begun :
          startedAt[x] < startedAt[q] /\ x \notin beside'[q] => ~Active(x)
    BY <1>0, <1>2, <2>6
  <2> QED
    BY <1>0, <1>1, <1>2, <2>1, <2>4, <2>5, <2>6, <2>7 DEF OverlapsAreKnown, Around
<1> QED
  BY <1>3, <1>4, <1>5

\* A DAG run's own collection records what the DAG gives it.
LEMMA StepRowsAreOwn ==
  ASSUME TypeInv, OverlapsAreKnown, RowsAreOwn, [Next]_vars
  PROVE  RowsAreOwn'
<1> USE DEF OwnRow, HandsOff
<1>1. CASE \A p \in Processes : ~JobStep(p)
  <2>1. Scheduled
    BY <1>1, StepsAreScheduled
  <2>2. ASSUME NEW r \in Runs, task'[r] = "collect_dbt_metadata",
               step'[r] \in {"started", "parsedRun", "parsedTest"}
        PROVE  memory'[r].given = OwnRow(r)'
    <3>1. CASE task'[r] = task[r] /\ step'[r] = step[r] /\ memory'[r] = memory[r]
      <4>1. r \in Begun
        BY <2>2, <3>1 DEF TypeInv, ProcessesInOrder, Processes, Active, Begun
      <4> QED
        BY <2>1, <2>2, <3>1, <4>1 DEF Scheduled, ScheduledStep, RowsAreOwn
    <3>2. CASE r \in Begun /\ memory'[r].given = OwnRow(r)
      BY <2>1, <3>2 DEF Scheduled, ScheduledStep
    <3> QED
      BY <2>1, <2>2, <3>1, <3>2 DEF Scheduled, ScheduledStep
  <2>3. ASSUME NEW r \in Runs, HandsOff(r)', pipelineRuns'[r] # NoRow
        PROVE  r \in Begun' /\ pipelineRuns'[r] = OwnRow(r)'
    BY <2>1, <2>3 DEF Scheduled, ScheduledStep, RowsAreOwn, metadata
  <2> QED
    BY <2>2, <2>3 DEF RowsAreOwn
<1>2. ASSUME NEW p \in Processes, JobStep(p) PROVE RowsAreOwn'
  <2>0. /\ memory \in [Processes -> Memories] /\ memory[p] \in Memories
        /\ step \in [Processes -> Steps] /\ pipelineRuns \in [Runs -> RunRows \cup {NoRow}]
    BY DEF TypeInv, TypeOK
  <2>1. /\ UNCHANGED <<dagState, startedAt, beside, task>> /\ Begun' = Begun
        /\ \A r \in Runs \ {p} : step'[r] = step[r] /\ memory'[r] = memory[r]
        /\ \A r \in Runs \ {p} : HandsOff(r) => pipelineRuns'[r] = pipelineRuns[r]
        /\ p \in Runs => Active(p) /\ target[p] = p
    BY <1>2, JobFrame DEF Alone, Begun, Processes
  <2>2. \A r \in Runs : OwnRow(r)' = OwnRow(r) /\ (HandsOff(r)' <=> HandsOff(r))
    BY <2>1
  <2>3. CASE p \notin Runs
    BY <2>1, <2>2, <2>3 DEF RowsAreOwn
  <2>4. ASSUME p \in Runs, NEW c \in Commands, ParseArtifact(p, c)
        PROVE  RowsAreOwn'
    <3>1. /\ memory'[p].given = memory[p].given /\ pipelineRuns' = pipelineRuns
          /\ task[p] = "collect_dbt_metadata"
          /\ step[p] \in {"started", "parsedRun", "parsedTest"}
      BY <2>0, <2>4 DEF ParseArtifact, At, Memories, metadata
    <3> QED
      BY <2>1, <2>2, <3>1 DEF RowsAreOwn
  <2>5. CASE p \in Runs /\ PersistMetadata(p)
    <3>1. /\ task[p] = "collect_dbt_metadata" /\ step[p] = "parsedTest"
          /\ step'[p] = "finished" /\ pipelineRuns'[p] = memory[p].given
      BY <2>0, <2>1, <2>5 DEF PersistMetadata, At, Advance
    <3>2. memory[p].given = OwnRow(p) /\ p \in Begun
      BY <2>1, <2>5, <3>1 DEF RowsAreOwn, Active, Begun
    <3> QED
      BY <2>1, <2>2, <3>1, <3>2 DEF RowsAreOwn
  <2>6. CASE p \in Runs /\ task[p] # "collect_dbt_metadata"
    <3>1. pipelineRuns' = pipelineRuns
      BY <1>2, <2>6, JobWrites DEF PersistMetadata, At
    <3> QED
      BY <2>1, <2>2, <2>6, <3>1 DEF RowsAreOwn
  <2> QED
    BY <1>2, <2>3, <2>4, <2>5, <2>6, JobStepsOfTask
<1> QED
  BY <1>1, <1>2

\* What is recorded of a run that no operator has to do with stays.
LEMMA RowsStay ==
  ASSUME TypeInv, RowsAreOwn, RowsAreOwn', NEW p \in Processes, JobStep(p),
         NEW q \in Runs, HandsOff(q), pipelineRuns[q] # NoRow
  PROVE  pipelineRuns'[q] = pipelineRuns[q]
<1>1. UNCHANGED <<startedAt, beside>>
  BY JobStepFrame DEF airflowVars
<1>2. pipelineRuns'[q] # NoRow
  BY JobStepRecordsGrow DEF RecordsGrow
<1> QED
  BY <1>1, <1>2 DEF RowsAreOwn, HandsOff, OwnRow

\* Only success moves a run on to its next task.
LEMMA TasksFollow ==
  ASSUME TypeInv, [Next]_vars, NEW r \in Runs, ~TaskSucceeds(r)
  PROVE  task'[r] = task[r]
<1> USE PipelineAssumption DEF TypeInv, TypeOK, Processes
<1>1. CASE Tick \/ UNCHANGED vars
  BY <1>1 DEF Tick, vars, processVars
<1>2. ASSUME NEW q \in Runs, Airflow(q) PROVE task'[r] = task[r]
  <2>1. CASE q # r
    BY <1>2, <2>1, OthersAlone DEF Alone
  <2>2. CASE q = r
    BY <1>2, <2>2 DEF Airflow, Trigger, StartDagRun, StartAttempt, processVars
  <2> QED
    BY <2>1, <2>2
<1>3. ASSUME NEW o \in Operators, Manual(o) PROVE task'[r] = task[r]
  BY <1>3, OthersAlone DEF Alone
<1>4. ASSUME NEW p \in Processes, JobStep(p) PROVE task'[r] = task[r]
  BY <1>4, JobStepFrame DEF processVars
<1>5. ASSUME NEW p \in Processes, JobRaises(p) \/ JobCrashes(p) PROVE task'[r] = task[r]
  BY <1>5 DEF JobRaises, JobCrashes, Exit
<1> QED
  BY <1>1, <1>2, <1>3, <1>4, <1>5 DEF Next

\* Nothing is recorded of a run that has not begun, and its process is idle.
LEMMA NothingBefore ==
  ASSUME TypeInv, RecordInv, RowsAreOwn, CommitsInTurn, NEW r \in Runs, r \notin Begun
  PROVE  /\ ~Active(r) /\ step[r] = "idle" /\ task[r] = FirstTask /\ Completed(r) = {}
         /\ HandsOff(r) => pipelineRuns[r] = NoRow /\ nodeResults[r] = {}
                           /\ health[r] = NoHealth /\ r \notin evaluated
<1>1. ~Active(r) /\ step[r] = "idle" /\ task[r] = FirstTask
  BY DEF Active, Begun, TypeInv, ProcessesInOrder, Processes, CommitsInTurn
<1>2. Completed(r) = {}
  BY <1>1, CompletedBefore DEF Completed, FirstTask
<1> QED
  BY <1>1, <1>2 DEF RowsAreOwn, RecordInv, LayersInOrder

\* A task that succeeds leads to one that may find what its run has committed.
LEMMA StepCommitsInTurn ==
  ASSUME TypeInv, RecordInv, OverlapsAreKnown, RowsAreOwn, CommitsInTurn, [Next]_vars
  PROVE  CommitsInTurn'
<1> USE DEF CommitsInTurn
<1>1. ASSUME \A p \in Processes : ~JobStep(p), NEW r \in Runs
      PROVE  /\ r \notin Begun' => task'[r] = FirstTask
             /\ Active(r)' /\ HandsOff(r)' =>
                  /\ pipelineRuns'[r] # NoRow => task'[r] \in MetadataJobs
                  /\ health'[r] # NoHealth =>
                       task'[r] \in MetadataJobs \ {"collect_dbt_metadata"}
                  /\ r \in evaluated' => task'[r] = LastTask
  <2>1. /\ UNCHANGED <<pipelineRuns, health, evaluated>>
        /\ Active(r)' => Active(r) \/ r \notin Begun
        /\ HandsOff(r)' => HandsOff(r)
        /\ r \in Begun => r \in Begun'
    BY <1>1, StepsAreScheduled DEF Scheduled, ScheduledStep, metadata, HandsOff
  <2>2. CASE ~TaskSucceeds(r)
    <3>1. task'[r] = task[r]
      BY <2>2, TasksFollow
    <3>2. CASE r \in Begun
      BY <2>1, <3>1, <3>2
    <3>3. CASE r \notin Begun
      BY <2>1, <3>1, <3>3, NothingBefore
    <3> QED
      BY <3>2, <3>3
  <2>3. CASE TaskSucceeds(r)
    <3>1. r \in Processes /\ Active(r) /\ task[r] \in Tasks /\ r \in Begun
      BY <2>3 DEF TaskSucceeds, TypeInv, TypeOK, ProcessesInOrder, Processes, Active, Begun
    <3>2. CASE task[r] = LastTask
      BY <2>1, <2>3, <3>1, <3>2 DEF TaskSucceeds, TypeInv, TypeOK, Active
    <3>3. CASE task[r] # LastTask
      <4>1. /\ task[r] \in MetadataJobs =>
                 Downstream[task[r]] \in MetadataJobs \ {"collect_dbt_metadata"}
            /\ task[r] \in MetadataJobs \ {"collect_dbt_metadata"} =>
                 Downstream[task[r]] = LastTask
        BY <3>1, <3>3 DEF Tasks, LastTask, MetadataJobs, Downstream
      <4>2. task'[r] = Downstream[task[r]]
        BY <2>3, <3>1, <3>3 DEF TaskSucceeds, TypeInv, TypeOK
      <4>3. LastTask \in MetadataJobs \ {"collect_dbt_metadata"}
        BY DEF LastTask, MetadataJobs
      <4> QED
        BY <2>1, <3>1, <3>3, <4>1, <4>2, <4>3
    <3> QED
      BY <3>2, <3>3
  <2> QED
    BY <2>2, <2>3
<1>2. ASSUME NEW p \in Processes, JobStep(p) PROVE CommitsInTurn'
  <2>1. /\ UNCHANGED <<dagState, startedAt, beside, task>>
        /\ p \in Runs => Active(p) /\ target[p] = p
        /\ \A r \in Runs \ {p} : HandsOff(r) =>
             /\ pipelineRuns'[r] = pipelineRuns[r] /\ health'[r] = health[r]
             /\ r \in evaluated' <=> r \in evaluated
    BY <1>2, JobFrame
  <2>2. /\ Begun' = Begun
        /\ \A r \in Runs : (HandsOff(r)' <=> HandsOff(r)) /\ (Active(r)' <=> Active(r))
    BY <2>1 DEF Begun, HandsOff, Active
  <2>3. p \in Runs =>
          /\ pipelineRuns'[p] = pipelineRuns[p] \/ task[p] = "collect_dbt_metadata"
          /\ health'[p] = health[p] \/ task[p] = "collect_data_health_metrics"
          /\ (p \in evaluated' <=> p \in evaluated) \/ task[p] = LastTask
    BY <1>2, <2>1, JobWrites DEF PersistMetadata, PersistMeasurements,
       PersistIncidents, At, LastTask
  <2>4. /\ "collect_dbt_metadata" \in MetadataJobs
        /\ "collect_data_health_metrics" \in MetadataJobs \ {"collect_dbt_metadata"}
    BY DEF MetadataJobs
  <2>5. p \in Runs /\ Active(p) /\ HandsOff(p) =>
          /\ pipelineRuns'[p] # NoRow => task[p] \in MetadataJobs
          /\ health'[p] # NoHealth => task[p] \in MetadataJobs \ {"collect_dbt_metadata"}
          /\ p \in evaluated' => task[p] = LastTask
    BY <2>3, <2>4
  <2>6. \A r \in Runs \ {p} : Active(r) /\ HandsOff(r) =>
          /\ pipelineRuns'[r] # NoRow => task[r] \in MetadataJobs
          /\ health'[r] # NoHealth => task[r] \in MetadataJobs \ {"collect_dbt_metadata"}
          /\ r \in evaluated' => task[r] = LastTask
    BY <2>1
  <2> QED
    BY <2>1, <2>2, <2>5, <2>6
<1> QED
  BY <1>1, <1>2
\* Only collection adds to what a job has parsed.
LEMMA JobKeepsParsed ==
  ASSUME TypeInv, NEW p \in Processes, JobStep(p), task[p] # "collect_dbt_metadata"
  PROVE  memory'[p].parsed \in {memory[p].parsed, {}}
<1> USE DEF TypeInv, TypeOK
<1>1. CASE task[p] \in {"bootstrap_raw_data", "run_dbt", "test_dbt"}
  BY <1>1, JobStepsOfTask DEF TruncateRaw, CommitRaw, BuildFails, BuildMarts,
     WriteArtifact
<1>2. CASE task[p] = "collect_data_health_metrics"
  <2>1. CASE ResolveForHealth(p) \/ PersistMeasurements(p)
    BY <2>1 DEF ResolveForHealth, PersistMeasurements, Blank
  <2>2. ASSUME NEW t \in Tables, MeasureSchema(p, t) \/ MeasureRows(p, t)
        PROVE  memory'[p].parsed = memory[p].parsed
    BY <2>2 DEF MeasureSchema, MeasureRows, Memories
  <2> QED
    BY <1>2, <2>1, <2>2, JobStepsOfTask
<1>3. CASE task[p] = "detect_data_incidents"
  <2>1. CASE ResolveForDetection(p) \/ PersistIncidents(p)
    BY <2>1 DEF ResolveForDetection, PersistIncidents, Blank
  <2>2. CASE \/ LoadMetrics(p) \/ LoadSchema(p) \/ ChooseBaseline(p)
             \/ LoadBaseMetrics(p) \/ LoadBaseSchemas(p)
    BY <2>2 DEF LoadMetrics, LoadSchema, ChooseBaseline, LoadBaseMetrics,
       LoadBaseSchemas, Memories
  <2>3. ASSUME NEW t \in Tables, CountNulls(p, t)
        PROVE  memory'[p].parsed = memory[p].parsed
    BY <2>3 DEF CountNulls, Memories
  <2> QED
    BY <1>3, <2>1, <2>2, <2>3, JobStepsOfTask
<1> QED
  BY <1>1, <1>2, <1>3 DEF Tasks

\* Whatever a job writes into an artifact file is its own.
LEMMA WrittenIsOwn ==
  ASSUME TypeInv, NEW p \in Processes, JobStep(p), NEW c \in Commands
  PROVE  artifacts'[c] = artifacts[c] \/ artifacts'[c].by = p
<1>1. artifacts \in [Commands -> Invocations \cup {NoArtifact}] /\ Invocation(p).by = p
  BY DEF TypeInv, TypeOK, Invocation
<1>2. CASE BuildFails(p) \/ \E d \in Commands : WriteArtifact(p, d)
  BY <1>1, <1>2, CommandNames DEF BuildFails, WriteArtifact
<1> QED
  BY <1>2, JobWrites

\* A job completes a dbt task only by writing the task's artifact.
LEMMA ArtifactCompletes ==
  ASSUME TypeInv, NEW p \in Runs, JobStep(p), task' = task, NEW c \in Commands,
         NEW j, j = (IF c = "run" THEN "run_dbt" ELSE "test_dbt"), j \in Completed(p)'
  PROVE  \/ artifacts'[c].by = p
         \/ j \in Completed(p) /\ artifacts'[c] = artifacts[c]
<1>0. p \in Processes /\ step \in [Processes -> Steps] /\ task[p] \in Tasks
      /\ artifacts \in [Commands -> Invocations \cup {NoArtifact}]
      /\ Invocation(p).by = p
  BY DEF TypeInv, TypeOK, Processes, Invocation
<1>1. ASSUME NEW d \in Commands, WriteArtifact(p, d)
      PROVE  artifacts'[c].by = p \/ (j \in Completed(p) /\ artifacts'[c] = artifacts[c])
  <2>1. /\ artifacts' = [artifacts EXCEPT ![d] = Invocation(p)]
        /\ (d = "run" /\ task[p] = "run_dbt") \/ (d = "test" /\ task[p] = "test_dbt")
    BY <1>1 DEF WriteArtifact, At
  <2>2. CASE c = d
    BY <1>0, <2>1, <2>2
  <2>3. CASE c # d
    <3>1. artifacts'[c] = artifacts[c] /\ j # task[p]
      BY <1>0, <2>1, <2>3, CommandNames
    <3> QED
      BY <3>1 DEF Completed
  <2> QED
    BY <2>2, <2>3
<1>2. CASE \A d \in Commands : ~WriteArtifact(p, d)
  <2>1. j \in Completed(p)
    <3>1. CASE step'[p] = "finished"
      <4>1. task[p] \in {"bootstrap_raw_data"} \cup MetadataJobs
        BY <1>0, <1>2, <3>1, JobFinishes
        DEF CommitRaw, PersistMetadata, PersistMeasurements, PersistIncidents, At,
            MetadataJobs
      <4> QED
        BY <4>1, CompletedBefore DEF Completed
    <3>2. CASE step'[p] # "finished"
      BY <3>2 DEF Completed
    <3> QED
      BY <3>1, <3>2
  <2>2. CASE BuildFails(p)
    <3>1. task[p] = "run_dbt" /\ step[p] = "started"
      BY <2>2 DEF BuildFails, Buildable, At
    <3>2. j \notin Completed(p)
      BY <3>1, CompletedBefore DEF Completed
    <3> QED
      BY <2>1, <3>2
  <2> QED
    BY <1>0, <1>2, <2>1, <2>2, JobWrites
<1> QED
  BY <1>1, <1>2

\* What a run finds in the artifact files once its dbt tasks are over.
LEMMA StepArtifactsAreKnown ==
  ASSUME TypeInv, RecordInv, OverlapsAreKnown, RowsAreOwn, CommitsInTurn,
         ArtifactsAreKnown, ParsedAgain, [Next]_vars
  PROVE  ArtifactsAreKnown'
<1> DEFINE Done(r, c) == (IF c = "run" THEN "run_dbt" ELSE "test_dbt") \in Completed(r)
           Knows(r) == Active(r) => \A c \in Commands : Done(r, c) => artifacts[c].by \in Around(r)
           Keeps(r) == HandsOff(r) => \A n \in nodeResults[r] \cup memory[r].parsed :
                         /\ n.invocation.by \in Around(r)
                         /\ artifacts[n.command].by = r => n.invocation = artifacts[n.command]
<1>0. /\ ArtifactsAreKnown <=> \A r \in Runs : Knows(r) /\ Keeps(r)
      /\ ArtifactsAreKnown' <=> \A r \in Runs : Knows(r)' /\ Keeps(r)'
  BY CommandNames DEF ArtifactsAreKnown
<1>1. CASE \A p \in Processes : ~JobStep(p)
  <2>1. SUFFICES ASSUME NEW r \in Runs PROVE Knows(r)' /\ Keeps(r)'
    BY <1>0
  <2>2. /\ UNCHANGED <<artifacts, nodeResults>>
        /\ Completed(r)' \subseteq Completed(r)
        /\ Active(r)' => Active(r) \/ r \notin Begun
        /\ Around(r) \subseteq Around(r)'
        /\ HandsOff(r)' => HandsOff(r)
        /\ memory'[r].parsed \in {memory[r].parsed, {}}
    BY <1>1, StepsAreScheduled
    DEF Scheduled, ScheduledStep, warehouse, metadata, Around, HandsOff, Blank
  <2>3. Knows(r)'
    BY <1>0, <2>2, NothingBefore
  <2>4. Keeps(r)'
    BY <1>0, <2>2
  <2> QED
    BY <2>3, <2>4
<1>2. ASSUME NEW p \in Processes, JobStep(p) PROVE ArtifactsAreKnown'
  <2>0. /\ memory \in [Processes -> Memories] /\ memory[p] \in Memories
        /\ step \in [Processes -> Steps] /\ task[p] \in Tasks
        /\ nodeResults \in [Runs -> SUBSET NodeResults]
    BY DEF TypeInv, TypeOK
  <2>1. /\ UNCHANGED <<dagState, beside, task>>
        /\ \A r \in Runs \ {p} : step'[r] = step[r] /\ memory'[r] = memory[r]
        /\ \A r \in Runs \ {p} : HandsOff(r) => nodeResults'[r] = nodeResults[r]
        /\ \A r \in Runs : Active(r) => p \in Around(r)
        /\ p \in Runs => Active(p) /\ target[p] = p
    BY <1>2, JobFrame DEF Alone, Processes
  <2>2. \A r \in Runs : /\ HandsOff(r)' <=> HandsOff(r)
                        /\ Active(r)' <=> Active(r)
                        /\ Around(r)' = Around(r)
    BY <2>1 DEF HandsOff, Active, Around
  <2>3. \A c \in Commands : artifacts'[c] = artifacts[c] \/ artifacts'[c].by = p
    BY <1>2, WrittenIsOwn
  <2>4. ASSUME NEW r \in Runs \ {p} PROVE Knows(r)' /\ Keeps(r)'
    <3>1. Completed(r)' = Completed(r)
      BY <2>1 DEF Completed
    <3>2. Knows(r)'
      BY <1>0, <2>1, <2>2, <2>3, <3>1
    <3>3. ASSUME HandsOff(r), NEW n \in nodeResults[r] \cup memory[r].parsed
          PROVE  /\ n.invocation.by \in Around(r)
                 /\ artifacts'[n.command].by = r => n.invocation = artifacts'[n.command]
      <4>1. memory[r].parsed \subseteq NodeResults /\ nodeResults[r] \subseteq NodeResults
        BY <2>0 DEF Memories, Processes
      <4>2. n.command \in Commands
        BY <3>3, <4>1 DEF NodeResults
      <4> QED
        BY <1>0, <2>3, <3>3, <4>2
    <3> QED
      BY <2>1, <2>2, <3>2, <3>3
  <2>5. ASSUME p \in Runs PROVE Knows(p)' /\ Keeps(p)'
    <3>1. Knows(p)'
      <4>1. ASSUME NEW c \in Commands, Done(p, c)' PROVE artifacts'[c].by \in Around(p)
        <5>1. artifacts'[c].by = p \/ (Done(p, c) /\ artifacts'[c] = artifacts[c])
          BY <1>2, <2>1, <2>5, <4>1, ArtifactCompletes
        <5> QED
          BY <1>0, <2>1, <2>5, <5>1 DEF Around
      <4> QED
        BY <2>2, <2>5, <4>1
    <3>2. CASE task[p] \in {"run_dbt", "test_dbt"}
      <4>1. nodeResults'[p] = nodeResults[p] /\ memory'[p] = memory[p]
        BY <1>2, <3>2, JobStepsOfTask DEF BuildFails, BuildMarts, WriteArtifact, metadata
      <4>2. memory[p].parsed = {}
        BY <2>5, <3>2 DEF ParsedAgain, At
      <4>3. HandsOff(p) => nodeResults[p] = {}
        BY <2>1, <2>5, <3>2, CompletedBefore DEF CommitsInTurn, RecordInv, LayersInOrder
      <4> QED
        BY <2>2, <2>5, <3>1, <4>1, <4>2, <4>3
    <3>3. ASSUME NEW c \in Commands, ParseArtifact(p, c) PROVE Keeps(p)'
      <4>1. /\ memory'[p].parsed = memory[p].parsed \cup
                 {[invocation |-> artifacts[c], command |-> c]}
            /\ UNCHANGED <<artifacts, nodeResults>> /\ task[p] = "collect_dbt_metadata"
        BY <2>0, <3>3 DEF ParseArtifact, At, Memories, warehouse, metadata
      <4>2. Done(p, c)
        BY <4>1, CompletedBefore DEF Completed, MetadataJobs
      <4>3. artifacts[c].by \in Around(p)
        BY <1>0, <2>1, <2>5, <4>2
      <4> QED
        BY <1>0, <2>2, <2>5, <4>1, <4>3
    <3>4. CASE PersistMetadata(p)
      <4>1. /\ nodeResults'[p] = nodeResults[p] \cup memory[p].parsed
            /\ memory'[p].parsed = {} /\ artifacts' = artifacts
        BY <2>0, <2>1, <2>5, <3>4 DEF PersistMetadata, Blank, warehouse
      <4> QED
        BY <1>0, <2>2, <2>5, <3>1, <4>1
    <3>5. CASE task[p] \notin {"run_dbt", "test_dbt", "collect_dbt_metadata"}
      <4>1. memory'[p].parsed \in {memory[p].parsed, {}}
        BY <1>2, <3>5, JobKeepsParsed
      <4>2. UNCHANGED <<artifacts, nodeResults>>
        BY <1>2, <3>5, JobWrites DEF PersistMetadata, BuildFails, Buildable, WriteArtifact, At
      <4> QED
        BY <1>0, <2>2, <2>5, <3>1, <4>1, <4>2
    <3> QED
      BY <1>2, <3>1, <3>2, <3>3, <3>4, <3>5, JobStepsOfTask
  <2> QED
    BY <1>0, <2>4, <2>5
<1> QED
  BY <1>1, <1>2

\* While one of the two files is a run's own, it is parsed as it was before.
LEMMA StepParsedAgain ==
  ASSUME TypeInv, RecordInv, OverlapsAreKnown, ArtifactsAreKnown, ParsedAgain, [Next]_vars
  PROVE  ParsedAgain'
<1>1. CASE \A p \in Processes : ~JobStep(p)
  <2>1. SUFFICES ASSUME NEW r \in Runs, NEW n \in memory'[r].parsed
                 PROVE  /\ task'[r] = task[r] /\ step'[r] = step[r]
                        /\ memory'[r] = memory[r] /\ nodeResults' = nodeResults
                        /\ HandsOff(r)' => HandsOff(r)
    BY DEF ParsedAgain, At
  <2>2. ScheduledStep(r) /\ nodeResults' = nodeResults
    BY <1>1, StepsAreScheduled DEF Scheduled, metadata
  <2>3. step[r] \in {"idle", "finished"} => memory[r].parsed = {}
    BY DEF ParsedAgain, At
  <2>4. Blank.parsed = {}
    BY DEF Blank
  <2> QED
    BY <2>2, <2>3, <2>4 DEF ScheduledStep, HandsOff
<1>2. ASSUME NEW p \in Processes, JobStep(p) PROVE ParsedAgain'
  <2> DEFINE Again(r) == \A n \in memory[r].parsed :
        /\ \E label \in {"parsedRun", "parsedTest"} : At(r, "collect_dbt_metadata", label)
        /\ HandsOff(r) /\ n.invocation.by = r =>
             /\ nodeResults[r] # {} => n \in nodeResults[r]
             /\ \A m \in memory[r].parsed :
                  m.command = n.command /\ m.invocation.by = r => m = n
  <2>0. /\ memory \in [Processes -> Memories] /\ memory[p] \in Memories
        /\ step \in [Processes -> Steps] /\ task[p] \in Tasks
        /\ nodeResults \in [Runs -> SUBSET NodeResults]
    BY DEF TypeInv, TypeOK
  <2>1. /\ UNCHANGED <<dagState, beside, task>>
        /\ \A r \in Runs \ {p} : step'[r] = step[r] /\ memory'[r] = memory[r]
        /\ \A r \in Runs \ {p} : HandsOff(r) => nodeResults'[r] = nodeResults[r]
    BY <1>2, JobFrame DEF Alone, Processes
  <2>2. \A r \in Runs : HandsOff(r)' <=> HandsOff(r)
    BY <2>1 DEF HandsOff
  <2>3. \A r \in Runs \ {p} : Again(r)'
    BY <2>1, <2>2 DEF ParsedAgain, At
  <2>4. ASSUME p \in Runs PROVE Again(p)'
    <3>1. ASSUME NEW c \in Commands, ParseArtifact(p, c) PROVE Again(p)'
      <4> DEFINE new == [invocation |-> artifacts[c], command |-> c]
      <4>1. /\ memory'[p].parsed = memory[p].parsed \cup {new}
            /\ nodeResults' = nodeResults
            /\ \E label \in {"parsedRun", "parsedTest"} : At(p, "collect_dbt_metadata", label)'
        BY <2>0, <2>1, <3>1 DEF ParseArtifact, At, Advance, Memories, metadata
      <4>2. memory[p].parsed \subseteq NodeResults /\ nodeResults[p] \subseteq NodeResults
        BY <2>0, <2>4 DEF Memories
      <4>3. ASSUME HandsOff(p), artifacts[c].by = p
            PROVE  \A n \in nodeResults[p] \cup memory[p].parsed : n.command = c => n = new
        BY <2>4, <4>2, <4>3 DEF ArtifactsAreKnown, NodeResults
      <4>4. nodeResults[p] # {} => \E n \in nodeResults[p] : n.command = c
        BY <2>4 DEF RecordInv, RecordedWithResults, LayersInOrder, OfBothCommands
      <4>5. new.invocation = artifacts[c] /\ new.command = c
        OBVIOUS
      <4>6. ASSUME HandsOff(p), artifacts[c].by = p, nodeResults[p] # {}
            PROVE  new \in nodeResults[p]
        BY <4>3, <4>4, <4>6
      <4> HIDE DEF new
      <4>7. ASSUME NEW n \in memory'[p].parsed, HandsOff(p), n.invocation.by = p
            PROVE  /\ nodeResults[p] # {} => n \in nodeResults[p]
                   /\ \A m \in memory'[p].parsed :
                        m.command = n.command /\ m.invocation.by = p => m = n
        <5>1. CASE n = new
          BY <4>1, <4>3, <4>5, <4>6, <4>7, <5>1
        <5>2. CASE n \in memory[p].parsed
          BY <2>4, <4>1, <4>3, <4>5, <4>7, <5>2 DEF ParsedAgain
        <5> QED
          BY <4>1, <4>7, <5>1, <5>2
      <4> QED
        BY <2>2, <2>4, <4>1, <4>7
    <3>2. CASE PersistMetadata(p)
      <4>1. memory'[p].parsed = {}
        BY <2>0, <3>2 DEF PersistMetadata, Blank
      <4> QED
        BY <4>1
    <3>3. CASE task[p] # "collect_dbt_metadata"
      <4>1. memory'[p].parsed = {}
        BY <1>2, <2>4, <3>3, JobKeepsParsed DEF ParsedAgain, At
      <4> QED
        BY <4>1
    <3> QED
      BY <1>2, <3>1, <3>2, <3>3, JobStepsOfTask
  <2> QED
    BY <2>3, <2>4 DEF ParsedAgain
<1> QED
  BY <1>1, <1>2

\* Only the statements that measure rows add to what a job has measured.
LEMMA JobKeepsSeen ==
  ASSUME TypeInv, NEW p \in Processes, JobStep(p), NEW t \in Tables,
         \A u \in Tables : ~MeasureRows(p, u), memory'[p].seen[t] # Unread
  PROVE  memory'[p].seen = memory[p].seen
<1> USE BlankHolds DEF TypeInv, TypeOK
<1>1. CASE task[p] \in {"bootstrap_raw_data", "run_dbt", "test_dbt"}
  BY <1>1, JobStepsOfTask DEF TruncateRaw, CommitRaw, BuildFails, BuildMarts,
     WriteArtifact
<1>2. CASE task[p] = "collect_dbt_metadata"
  BY <1>2, JobStepsOfTask DEF PersistMetadata, ParseArtifact, Memories
<1>3. CASE task[p] = "collect_data_health_metrics"
  <2>1. CASE ResolveForHealth(p) \/ PersistMeasurements(p)
    BY <2>1 DEF ResolveForHealth, PersistMeasurements
  <2>2. ASSUME NEW u \in Tables, MeasureSchema(p, u)
        PROVE  memory'[p].seen = memory[p].seen
    BY <2>2 DEF MeasureSchema, Memories
  <2> QED
    BY <1>3, <2>1, <2>2, JobStepsOfTask
<1>4. CASE task[p] = "detect_data_incidents"
  <2>1. CASE ResolveForDetection(p) \/ PersistIncidents(p)
    BY <2>1 DEF ResolveForDetection, PersistIncidents
  <2>2. CASE \/ LoadMetrics(p) \/ LoadSchema(p) \/ ChooseBaseline(p)
             \/ LoadBaseMetrics(p) \/ LoadBaseSchemas(p)
    BY <2>2 DEF LoadMetrics, LoadSchema, ChooseBaseline, LoadBaseMetrics,
       LoadBaseSchemas, Memories
  <2>3. ASSUME NEW u \in Tables, CountNulls(p, u)
        PROVE  memory'[p].seen = memory[p].seen
    BY <2>3 DEF CountNulls, Memories
  <2> QED
    BY <1>4, <2>1, <2>2, <2>3, JobStepsOfTask
<1> QED
  BY <1>1, <1>2, <1>3, <1>4 DEF Tasks

\* Where nothing is written, a table holds what it held.
LEMMA VisibleKept ==
  ASSUME raw' = raw, marts' = marts
  PROVE  \A t : Visible(t)' = Visible(t)
BY DEF Visible

\* What a table holds changes by a bootstrap, which is p's own, or by a build,
\* which takes the load of the raw tables.
LEMMA VisibleChanges ==
  ASSUME TypeInv, NEW p \in Processes, JobStep(p)
  PROVE  \/ UNCHANGED <<raw, marts>>
         \/ CommitRaw(p) /\ marts' = marts /\ raw'.load.by = p
         \/ BuildMarts(p) /\ raw' = raw /\ marts'.load = raw.load
<1>1. CASE CommitRaw(p)
  <2>1. PICK c \in RawContents : raw' = [load |-> Invocation(p), content |-> c]
    BY <1>1 DEF CommitRaw
  <2> QED
    BY <1>1, <2>1 DEF CommitRaw, Invocation
<1>2. CASE BuildMarts(p)
  <2>1. PICK c \in MartBuilds[raw.content] : marts' = [load |-> raw.load, content |-> c]
    BY <1>2 DEF BuildMarts
  <2> QED
    BY <1>2, <2>1 DEF BuildMarts
<1> QED
  BY <1>1, <1>2, JobWrites

\* The raw tables and the views over them are of one load.
LEMMA LoadsOfTables ==
  /\ TypeInv => Visible("raw").load = raw.load /\ Visible("staging").load = raw.load
  /\ TypeInv' => Visible("raw")'.load = raw'.load /\ Visible("staging")'.load = raw'.load
  /\ Visible("marts").load = marts.load /\ Visible("marts")'.load = marts'.load
  /\ Tables = {"raw", "staging", "marts"}
BY DEF Visible, TypeInv, TypeOK, Tables

\* Whatever is loaded or built while a run is active is of somebody beside it.
LEMMA OthersLoads ==
  ASSUME TypeInv, TypeInv', OverlapsAreKnown, LoadsAreKnown,
         NEW p \in Processes, JobStep(p), NEW r \in Runs \ {p}, Active(r),
         NEW t \in Tables, NEW load, Same(r, t, load),
         t = "marts" => "run_dbt" \in Completed(r)
  PROVE  Same(r, t, load)'
<1>1. beside' = beside /\ p \in beside[r]
  BY JobFrame DEF Around
<1>2. CASE UNCHANGED <<raw, marts>>
  BY <1>1, <1>2, VisibleKept DEF Same
<1>3. CASE CommitRaw(p) /\ marts' = marts /\ raw'.load.by = p
  BY <1>1, <1>3, LoadsOfTables DEF Same
<1>4. CASE BuildMarts(p) /\ raw' = raw /\ marts'.load = raw.load
  <2>1. CASE t = "marts"
    <3>1. raw.load = marts.load \/ raw.load.by \in beside[r]
      BY <2>1, LoadsOfTables DEF LoadsAreKnown, Same
    <3>2. marts.load = load \/ marts.load.by \in beside[r]
      BY <2>1, LoadsOfTables DEF Same
    <3> QED
      BY <1>1, <1>4, <2>1, <3>1, <3>2, LoadsOfTables DEF Same
  <2>2. CASE t # "marts"
    BY <1>1, <1>4, <2>2, LoadsOfTables DEF Same
  <2> QED
    BY <2>1, <2>2
<1> QED
  BY <1>2, <1>3, <1>4, VisibleChanges

\* A run measures, and finds again, what it has built from, or what somebody
\* beside it has loaded since.
LEMMA StepLoadsAreKnown ==
  ASSUME TypeInv, TypeInv', LockInv, RecordInv, OverlapsAreKnown, RowsAreOwn,
         CommitsInTurn, LoadsAreKnown, [Next]_vars
  PROVE  LoadsAreKnown'
<1> DEFINE Built(r) == "run_dbt" \in Completed(r) \/ At(r, "run_dbt", "built")
           Knows(r) == /\ Built(r) => Same(r, "raw", marts.load)
                       /\ HandsOff(r) => \A t \in Tables :
                            /\ memory[r].seen[t] # Unread => Same(r, t, memory[r].seen[t].load)
                            /\ health[r] # NoHealth => Same(r, t, health[r][t].load)
<1>0. /\ LoadsAreKnown <=> \A r \in Runs : Active(r) => Knows(r)
      /\ LoadsAreKnown' <=> \A r \in Runs : Active(r)' => Knows(r)'
  BY DEF LoadsAreKnown
<1>1. CASE \A p \in Processes : ~JobStep(p)
  <2>1. SUFFICES ASSUME NEW r \in Runs, Active(r)' PROVE Knows(r)'
    BY <1>0
  <2>2. /\ UNCHANGED <<health, marts>> /\ \A t : Visible(t)' = Visible(t)
        /\ Active(r) \/ r \notin Begun
        /\ HandsOff(r)' => HandsOff(r)
        /\ beside[r] \subseteq beside'[r]
        /\ \/ memory'[r].seen = memory[r].seen
           \/ \A t \in Tables : memory'[r].seen[t] = Unread
    BY <1>1, <2>1, StepsAreScheduled, VisibleKept, BlankHolds
    DEF Scheduled, ScheduledStep, warehouse, metadata, HandsOff
  <2>3. Built(r)' => Built(r)
    BY <1>1, StepsAreScheduled DEF Scheduled, ScheduledStep, At
  <2>4. \A t, load : Same(r, t, load) => Same(r, t, load)'
    BY <2>2 DEF Same
  <2>5. CASE Active(r)
    BY <1>0, <2>2, <2>3, <2>4, <2>5
  <2>6. CASE r \notin Begun
    <3>1. ~Built(r) /\ (HandsOff(r) => health[r] = NoHealth) /\ step[r] = "idle"
      BY <2>6, NothingBefore DEF At
    <3>2. \A t \in Tables : memory[r].seen[t] = Unread
      BY <3>1, NothingHeld DEF LockInv, At, Processes
    <3> QED
      BY <2>2, <2>3, <3>1, <3>2
  <2> QED
    BY <2>2, <2>5, <2>6
<1>2. ASSUME NEW p \in Processes, JobStep(p) PROVE LoadsAreKnown'
  <2>0. /\ memory \in [Processes -> Memories] /\ memory[p] \in Memories
        /\ step \in [Processes -> Steps] /\ task[p] \in Tasks
        /\ health \in [Runs -> HealthRows \cup {NoHealth}]
    BY DEF TypeInv, TypeOK
  <2>1. /\ UNCHANGED <<dagState, beside, task>>
        /\ \A r \in Runs \ {p} : step'[r] = step[r] /\ memory'[r] = memory[r]
        /\ \A r \in Runs \ {p} : HandsOff(r) => health'[r] = health[r]
        /\ p \in Runs => Active(p) /\ target[p] = p
    BY <1>2, JobFrame DEF Alone, Processes
  <2>2. \A r \in Runs : (HandsOff(r)' <=> HandsOff(r)) /\ (Active(r)' <=> Active(r))
    BY <2>1 DEF HandsOff, Active
  <2>3. ASSUME NEW r \in Runs \ {p}, Active(r) PROVE Knows(r)'
    <3>1. Built(r)' <=> Built(r)
      BY <2>1 DEF Completed, At
    <3>2. ASSUME Built(r) PROVE Same(r, "raw", marts.load)'
      <4>1. Same(r, "raw", marts.load)
        BY <1>0, <2>3, <3>2
      <4>2. beside' = beside /\ p \in beside[r]
        BY <1>2, <2>3, JobFrame DEF Around
      <4> QED
        BY <1>2, <4>1, <4>2, VisibleChanges, LoadsOfTables DEF Same
    <3>3. ASSUME HandsOff(r), NEW t \in Tables, memory[r].seen[t] # Unread
          PROVE  Same(r, t, memory[r].seen[t].load)'
      <4>1. task[r] \in MetadataJobs
        BY <3>3 DEF LockInv, MemoryOfReaders, At, MetadataJobs, Processes
      <4>2. Same(r, t, memory[r].seen[t].load)
        BY <1>0, <2>3, <3>3
      <4>3. "run_dbt" \in Completed(r)
        BY <4>1, CompletedBefore DEF Completed
      <4> DEFINE load == memory[r].seen[t].load
      <4>4. load' = load
        BY <2>1
      <4> HIDE DEF load
      <4>5. Same(r, t, load)
        BY <4>2 DEF load
      <4>6. Visible(t)'.load = load \/ Visible(t)'.load.by \in beside'[r]
        BY <1>2, <2>3, <4>3, <4>5, OthersLoads DEF Same
      <4> QED
        BY <4>4, <4>6 DEF Same, load
    <3>4. ASSUME HandsOff(r), NEW t \in Tables, health[r] # NoHealth
          PROVE  Same(r, t, health[r][t].load)'
      <4>1. task[r] \in MetadataJobs
        BY <2>3, <3>4 DEF CommitsInTurn
      <4>2. Same(r, t, health[r][t].load)
        BY <1>0, <2>3, <3>4
      <4>3. "run_dbt" \in Completed(r)
        BY <4>1, CompletedBefore DEF Completed
      <4> DEFINE load == health[r][t].load
      <4>4. load' = load
        BY <2>1, <3>4
      <4> HIDE DEF load
      <4>5. Same(r, t, load)
        BY <4>2 DEF load
      <4>6. Visible(t)'.load = load \/ Visible(t)'.load.by \in beside'[r]
        BY <1>2, <2>3, <4>3, <4>5, OthersLoads DEF Same
      <4> QED
        BY <4>4, <4>6 DEF Same, load
    <3> QED
      BY <2>1, <2>2, <3>1, <3>2, <3>3, <3>4
  <2>4. ASSUME p \in Runs PROVE Knows(p)'
    <3> DEFINE Live(t) ==
           /\ memory[p].seen[t] # Unread => Same(p, t, memory[p].seen[t].load)
           /\ health[p] # NoHealth => Same(p, t, health[p][t].load)
    <3>1. Built(p)' => Same(p, "raw", marts.load)'
      <4>1. CASE BuildMarts(p)
        BY <1>2, <4>1, VisibleChanges, LoadsOfTables DEF Same, CommitRaw, BuildMarts, Buildable, At
      <4>2. CASE CommitRaw(p)
        <5>1. task[p] = "bootstrap_raw_data" /\ task' = task
          BY <2>1, <4>2 DEF CommitRaw, At
        <5> QED
          BY <5>1, CompletedBefore DEF Completed, At
      <4>3. CASE ~BuildMarts(p) /\ ~CommitRaw(p)
        <5>1. UNCHANGED <<raw, marts>>
          BY <1>2, <4>3, JobWrites
        <5>2. Built(p)' => Built(p)
          <6>1. ASSUME NEW c \in Commands, WriteArtifact(p, c) PROVE Built(p)' => Built(p)
            BY <2>0, <2>1, <6>1, CompletedBefore DEF WriteArtifact, At, Completed
          <6>2. CASE task[p] \in MetadataJobs
            BY <6>2, CompletedBefore DEF Completed
          <6>3. CASE /\ \A c \in Commands : ~WriteArtifact(p, c)
                     /\ task[p] \notin MetadataJobs
            <7>1. step'[p] # "finished"
              BY <1>2, <4>3, <6>3, JobFinishes
              DEF PersistMetadata, PersistMeasurements, PersistIncidents, At, MetadataJobs
            <7>2. task[p] = "run_dbt" => step'[p] # "built"
              BY <1>2, <2>0, <4>3, <6>3, JobStepsOfTask DEF BuildFails, Advance
            <7> QED
              BY <2>1, <7>1, <7>2 DEF Completed, At
          <6> QED
            BY <6>1, <6>2, <6>3
        <5> QED
          BY <1>0, <2>1, <2>4, <5>1, <5>2, VisibleKept DEF Same
      <4> QED
        BY <4>1, <4>2, <4>3
    <3>2. SUFFICES ASSUME HandsOff(p), NEW t \in Tables PROVE Live(t)'
      BY <2>2, <2>4, <3>1
    <3>3. CASE task[p] \in {"bootstrap_raw_data", "run_dbt", "test_dbt"}
      <4>1. health[p] = NoHealth
        BY <2>1, <2>4, <3>2, <3>3, CompletedBefore DEF CommitsInTurn
      <4>2. memory[p].seen[t] = Unread
        BY <3>3, NothingHeld DEF LockInv, At
      <4>3. memory' = memory /\ health' = health
        BY <1>2, <3>3, JobStepsOfTask
        DEF TruncateRaw, CommitRaw, BuildFails, BuildMarts, WriteArtifact, metadata
      <4> QED
        BY <4>1, <4>2, <4>3
    <3>4. CASE task[p] \in MetadataJobs
      <4>0. \A u \in Tables :
              /\ memory[p].seen[u] # Unread => Same(p, u, memory[p].seen[u].load)
              /\ health[p] # NoHealth => Same(p, u, health[p][u].load)
        BY <1>0, <2>1, <2>4, <3>2
      <4>1. raw' = raw /\ marts' = marts
        BY <1>2, <3>4, JobWrites DEF CommitRaw, BuildMarts, Buildable, At, MetadataJobs
      <4>2. Visible(t)' = Visible(t)
        BY <4>1, VisibleKept
      <4>3. CASE memory'[p].seen = memory[p].seen /\ health' = health
        BY <2>1, <4>0, <4>2, <4>3 DEF Same
      <4>4. CASE PersistMeasurements(p)
        <5>1. memory'[p] = Blank /\ health'[p] = memory[p].seen /\ memory[p].seen[t] # Unread
          BY <2>0, <2>1, <2>4, <4>4 DEF PersistMeasurements
        <5> QED
          BY <2>1, <4>0, <4>2, <5>1, BlankHolds DEF Same
      <4>5. ASSUME NEW u \in Tables, MeasureRows(p, u)
            PROVE  Live(t)'
        <5>1. /\ health' = health
              /\ memory'[p].seen[t] =
                   IF t = u THEN [metric |-> Visible(u).content.metric,
                                  schema |-> memory[p].schemas[u],
                                  load   |-> Visible(u).load]
                   ELSE memory[p].seen[t]
          BY <2>0, <4>5 DEF MeasureRows, Memories, metadata
        <5> QED
          BY <2>1, <4>0, <4>2, <5>1 DEF Same
      <4>6. CASE ~PersistMeasurements(p) /\ \A u \in Tables : ~MeasureRows(p, u)
        <5>1. health' = health
          BY <1>2, <4>6, JobWrites
        <5>2. memory'[p].seen[t] # Unread => memory'[p].seen = memory[p].seen
          BY <1>2, <4>6, JobKeepsSeen
        <5> QED
          BY <2>1, <4>0, <4>2, <5>1, <5>2 DEF Same
      <4> QED
        BY <4>4, <4>5, <4>6
    <3> QED
      BY <2>0, <3>3, <3>4 DEF Tasks, MetadataJobs
  <2> QED
    BY <1>0, <2>2, <2>3, <2>4
<1> QED
  BY <1>1, <1>2

\* A step that is no job's keeps an overlapping run's detection as it is.
LEMMA DetectionKept ==
  ASSUME TypeInv, [Next]_vars, \A p \in Processes : ~JobStep(p), NEW r \in Runs,
         step'[r] \notin {"idle", "started"}
  PROVE  /\ task'[r] = task[r] /\ step'[r] = step[r] /\ memory'[r] = memory[r]
         /\ UNCHANGED <<pipelineRuns, nodeResults, health, incidents, evaluated>>
BY StepsAreScheduled DEF Scheduled, ScheduledStep, metadata

\* Who was beside a run stays so.
LEMMA BesideGrows ==
  ASSUME TypeInv, [Next]_vars, NEW r \in Runs
  PROVE  beside[r] \subseteq beside'[r] /\ (HandsOff(r)' => HandsOff(r))
<1>1. CASE \A p \in Processes : ~JobStep(p)
  BY <1>1, StepsAreScheduled DEF Scheduled, ScheduledStep, HandsOff
<1>2. ASSUME NEW p \in Processes, JobStep(p)
      PROVE  beside[r] \subseteq beside'[r] /\ (HandsOff(r)' => HandsOff(r))
  BY <1>2, JobStepFrame DEF airflowVars, HandsOff
<1> QED
  BY <1>1, <1>2

\* While detection is under way nobody else stores its run's health.
LEMMA StepLoadedIsStored ==
  ASSUME TypeInv, OverlapsAreKnown, LoadedIsStored, [Next]_vars
  PROVE  LoadedIsStored'
<1> USE DEF Detecting, LastTask
<1>1. CASE \A p \in Processes : ~JobStep(p)
  BY <1>1, DetectionKept, BesideGrows DEF LoadedIsStored
<1>2. ASSUME NEW p \in Processes, JobStep(p) PROVE LoadedIsStored'
  <2>0. /\ memory \in [Processes -> Memories] /\ memory[p] \in Memories
        /\ step \in [Processes -> Steps]
    BY DEF TypeInv, TypeOK
  <2>1. /\ task' = task
        /\ \A r \in Runs : HandsOff(r)' => HandsOff(r)
        /\ \A r \in Runs \ {p} : step'[r] = step[r] /\ memory'[r] = memory[r]
        /\ \A r \in Runs \ {p} : HandsOff(r) => health'[r] = health[r]
        /\ p \in Runs => target[p] = p
    BY <1>2, JobFrame, BesideGrows DEF Alone, Processes
  <2> DEFINE Holds(r) == task[r] = LastTask /\ HandsOff(r) =>
        /\ step[r] \in {"currentMetrics", "current"} \/ Detecting(r) =>
             memory[r].metrics = health[r]
        /\ step[r] = "current" \/ Detecting(r) => memory[r].schema = health[r]
  <2>2. \A r \in Runs \ {p} : Holds(r)'
    BY <2>1 DEF LoadedIsStored
  <2>3. ASSUME p \in Runs PROVE Holds(p)'
    <3>1. CASE task[p] # LastTask
      BY <2>1, <3>1
    <3>2. CASE task[p] = LastTask
      <4>1. health' = health
        BY <1>2, <3>2, JobWrites DEF PersistMeasurements, At
      <4>2. CASE ResolveForDetection(p) \/ PersistIncidents(p)
        BY <2>0, <4>2 DEF ResolveForDetection, PersistIncidents, Advance
      <4>3. CASE LoadMetrics(p) \/ LoadSchema(p)
        BY <2>0, <2>1, <2>3, <4>1, <4>3
        DEF LoadMetrics, LoadSchema, At, Advance, LoadedIsStored, Memories
      <4>4. CASE ChooseBaseline(p) \/ LoadBaseMetrics(p) \/ LoadBaseSchemas(p)
        BY <2>0, <2>1, <2>3, <4>1, <4>4
        DEF ChooseBaseline, LoadBaseMetrics, LoadBaseSchemas, At, Advance,
            LoadedIsStored, Memories
      <4>5. ASSUME NEW u \in Tables, CountNulls(p, u) PROVE Holds(p)'
        BY <2>0, <2>1, <2>3, <4>1, <4>5 DEF CountNulls, At, Advance, LoadedIsStored, Memories
      <4> QED
        BY <1>2, <3>2, <4>2, <4>3, <4>4, <4>5, JobStepsOfTask
    <3> QED
      BY <3>1, <3>2
  <2> QED
    BY <2>2, <2>3 DEF LoadedIsStored
<1> QED
  BY <1>1, <1>2

\* What a run's detection does to its memory and to the records.
LEMMA DetectionSteps ==
  ASSUME TypeInv, NEW p \in Runs, JobStep(p), target[p] = p, Detecting(p)'
  PROVE  /\ UNCHANGED <<pipelineRuns, health>>
         /\ \/ /\ ChooseBaseline(p) /\ step'[p] = "based"
               /\ memory'[p].base \in Baselines(p)
            \/ /\ Detecting(p) /\ memory'[p].base = memory[p].base
               /\ \/ /\ step[p] = "based" /\ step'[p] = "baseMetrics"
                     /\ memory'[p].baseMetrics = BaseHealth(p)
                  \/ /\ step[p] = "baseMetrics" /\ step'[p] = "reading"
                     /\ memory'[p].baseMetrics = memory[p].baseMetrics
                     /\ memory'[p].baseSchemas = BaseHealth(p)
                  \/ /\ step[p] = "reading" /\ step'[p] = "reading"
                     /\ memory'[p].baseMetrics = memory[p].baseMetrics
                     /\ memory'[p].baseSchemas = memory[p].baseSchemas
<1>0. /\ p \in Processes /\ memory \in [Processes -> Memories] /\ memory[p] \in Memories
      /\ step \in [Processes -> Steps] /\ task' = task
      /\ task[p] = "detect_data_incidents"
  BY JobStepFrame DEF TypeInv, TypeOK, Processes, processVars, Detecting
<1>1. UNCHANGED <<pipelineRuns, health>>
  BY <1>0, JobWrites DEF PersistMeasurements, PersistMetadata, At
<1>2. ~(ResolveForDetection(p) \/ PersistIncidents(p) \/ LoadMetrics(p) \/ LoadSchema(p))
  BY <1>0 DEF ResolveForDetection, PersistIncidents, LoadMetrics, LoadSchema, Advance,
     Detecting
<1>3. ChooseBaseline(p) => step'[p] = "based" /\ memory'[p].base \in Baselines(p)
  BY <1>0 DEF ChooseBaseline, Advance, Memories
<1>4. LoadBaseMetrics(p) =>
        /\ Detecting(p) /\ step[p] = "based" /\ step'[p] = "baseMetrics"
        /\ memory'[p].base = memory[p].base /\ memory'[p].baseMetrics = BaseHealth(p)
  BY <1>0 DEF LoadBaseMetrics, At, Advance, Memories, Detecting
<1>5. LoadBaseSchemas(p) =>
        /\ Detecting(p) /\ step[p] = "baseMetrics" /\ step'[p] = "reading"
        /\ memory'[p].base = memory[p].base
        /\ memory'[p].baseMetrics = memory[p].baseMetrics
        /\ memory'[p].baseSchemas = BaseHealth(p)
  BY <1>0 DEF LoadBaseSchemas, At, Advance, Memories, Detecting
<1>6. ASSUME NEW u \in Tables, CountNulls(p, u)
      PROVE  /\ Detecting(p) /\ step[p] = "reading" /\ step'[p] = "reading"
             /\ memory'[p].base = memory[p].base
             /\ memory'[p].baseMetrics = memory[p].baseMetrics
             /\ memory'[p].baseSchemas = memory[p].baseSchemas
  BY <1>0, <1>6 DEF CountNulls, At, Advance, Memories, Detecting
<1> QED
  BY <1>0, <1>1, <1>2, <1>3, <1>4, <1>5, <1>6, JobStepsOfTask

\* A baseline that no operator had to do with stays a candidate.
LEMMA StepBaselineIsEarlier ==
  ASSUME TypeInv, OverlapsAreKnown, RowsAreOwn, RowsAreOwn', BaselineIsEarlier, [Next]_vars
  PROVE  BaselineIsEarlier'
<1>1. CASE \A p \in Processes : ~JobStep(p)
  <2>1. ASSUME NEW r \in Runs, Detecting(r)'
        PROVE  /\ task'[r] = task[r] /\ step'[r] = step[r] /\ memory'[r] = memory[r]
               /\ pipelineRuns' = pipelineRuns
    BY <1>1, <2>1, DetectionKept DEF Detecting
  <2> QED
    BY <2>1, BesideGrows DEF BaselineIsEarlier, Detecting, Candidates
<1>2. ASSUME NEW p \in Processes, JobStep(p), NEW r \in Runs, Detecting(r)', HandsOff(r)',
             NEW q \in {memory'[r].base} \cap Runs, HandsOff(q)'
      PROVE  q \in Candidates(r)'
  <2>1. /\ task' = task /\ HandsOff(r) /\ HandsOff(q)
        /\ r # p => /\ step'[r] = step[r] /\ memory'[r] = memory[r]
                    /\ pipelineRuns'[r] = pipelineRuns[r]
        /\ p \in Runs => target[p] = p
    BY <1>2, JobFrame, BesideGrows DEF Alone, Processes
  <2>2. CASE r = p
    <3>1. /\ pipelineRuns' = pipelineRuns
          /\ \/ memory'[r].base \in Baselines(r)
             \/ Detecting(r) /\ memory'[r].base = memory[r].base
      BY <1>2, <2>1, <2>2, DetectionSteps
    <3>2. q \in Candidates(r)
      BY <1>2, <2>1, <3>1, PipelineAssumption DEF Baselines, BaselineIsEarlier
    <3> QED
      BY <3>1, <3>2 DEF Candidates
  <2>3. CASE r # p
    <3>1. q \in Candidates(r)
      BY <1>2, <2>1, <2>3 DEF BaselineIsEarlier, Detecting
    <3>2. pipelineRuns'[q] = pipelineRuns[q]
      BY <1>2, <2>1, <3>1, RowsStay DEF Candidates
    <3> QED
      BY <2>1, <2>3, <3>1, <3>2 DEF Candidates
  <2> QED
    BY <2>2, <2>3
<1> QED
  BY <1>1, <1>2 DEF BaselineIsEarlier

\* What a collection commits is of its run, or of runs beside it.
LEMMA StepOwnNodeResults ==
  ASSUME TypeInv, OverlapsAreKnown, ArtifactsAreKnown, ParsedAgain, OwnNodeResults,
         [Next]_vars
  PROVE  OwnNodeResults'
<1> DEFINE Own(r) == HandsOff(r) => \A m, n \in nodeResults[r] :
        /\ n.invocation.by \in {r} \cup beside[r]
        /\ m.command = n.command /\ m.invocation.by = r /\ n.invocation.by = r => m = n
<1>1. ASSUME NEW r \in Runs, nodeResults'[r] = nodeResults[r] PROVE Own(r)'
  BY <1>1, BesideGrows DEF OwnNodeResults
<1>2. ASSUME NEW p \in Runs, JobStep(p), PersistMetadata(p), HandsOff(p) PROVE Own(p)'
  <2>1. target[p] = p /\ beside' = beside
    BY <1>2, JobFrame DEF Processes
  <2>2. nodeResults'[p] = nodeResults[p] \cup memory[p].parsed
    BY <2>1, <1>2 DEF PersistMetadata, TypeInv, TypeOK
  <2>3. \A n \in nodeResults'[p] : n.invocation.by \in {p} \cup beside[p]
    BY <1>2, <2>2 DEF ArtifactsAreKnown, Around
  <2>4. \A n \in memory[p].parsed : n.invocation.by = p =>
          /\ nodeResults[p] # {} => n \in nodeResults[p]
          /\ \A m \in memory[p].parsed : m.command = n.command /\ m.invocation.by = p => m = n
    BY <1>2 DEF ParsedAgain
  <2>5. ASSUME NEW m \in nodeResults'[p], NEW n \in nodeResults'[p], m.command = n.command,
               m.invocation.by = p, n.invocation.by = p
        PROVE  m = n
    <3>1. CASE nodeResults[p] = {}
      BY <2>2, <2>4, <2>5, <3>1
    <3>2. CASE nodeResults[p] # {}
      <4>1. m \in nodeResults[p] /\ n \in nodeResults[p]
        BY <2>2, <2>4, <2>5, <3>2
      <4> QED
        BY <1>2, <2>5, <4>1 DEF OwnNodeResults
    <3> QED
      BY <3>1, <3>2
  <2> QED
    BY <2>1, <2>3, <2>5
<1>3. ASSUME NEW p \in Processes, JobStep(p), NEW r \in Runs PROVE Own(r)'
  <2>1. CASE r # p \/ ~PersistMetadata(p)
    <3>1. HandsOff(r) => nodeResults'[r] = nodeResults[r]
      BY <1>3, <2>1, JobFrame, JobWrites
    <3> QED
      BY <1>1, <3>1, BesideGrows
  <2>2. CASE r = p /\ PersistMetadata(p)
    BY <1>2, <1>3, <2>2, BesideGrows
  <2> QED
    BY <2>1, <2>2
<1>4. CASE \A p \in Processes : ~JobStep(p)
  BY <1>1, <1>4, StepsAreScheduled DEF Scheduled, metadata, OwnNodeResults
<1> QED
  BY <1>3, <1>4 DEF OwnNodeResults

\* The chosen baseline is the latest but for runs beside the run; and unless it
\* is beside, nobody changes its records.
LEMMA StepBaselineStillLatest ==
  ASSUME TypeInv, OverlapsAreKnown, BaselineStillLatest, [Next]_vars
  PROVE  BaselineStillLatest'
<1> DEFINE Latest(r) == Detecting(r) /\ HandsOff(r) /\ memory[r].base \notin beside[r] =>
        /\ Missed(r) \subseteq beside[r]
        /\ memory[r].base \in Candidates(r) \cup {NoRun}
        /\ step[r] # "based" => memory[r].baseMetrics = BaseHealth(r)
        /\ step[r] = "reading" => memory[r].baseSchemas = BaseHealth(r)
<1>1. ASSUME \A p \in Processes : ~JobStep(p), NEW r \in Runs PROVE Latest(r)'
  <2>1. SUFFICES ASSUME Detecting(r)' PROVE Latest(r)'
    OBVIOUS
  <2>2. /\ task'[r] = task[r] /\ step'[r] = step[r] /\ memory'[r] = memory[r]
        /\ UNCHANGED <<pipelineRuns, health>>
    BY <1>1, <2>1, DetectionKept DEF Detecting
  <2>3. /\ Missed(r)' = Missed(r) /\ Candidates(r)' = Candidates(r)
        /\ BaseHealth(r)' = BaseHealth(r) /\ Detecting(r)
    BY <2>1, <2>2 DEF Missed, Candidates, BaseHealth, Detecting
  <2>4. Latest(r)
    BY DEF BaselineStillLatest
  <2> QED
    BY <2>2, <2>3, <2>4, BesideGrows
<1>2. ASSUME NEW p \in Processes, JobStep(p), NEW r \in Runs, Detecting(r)', HandsOff(r)',
             memory'[r].base \notin beside'[r]
      PROVE  Latest(r)'
  <2>1. /\ task' = task /\ beside' = beside /\ HandsOff(r)
        /\ p \in Runs => target[p] = p
        /\ Active(r) => p \in Around(r)
    BY <1>2, JobFrame, BesideGrows
  <2>2. Latest(r)
    BY DEF BaselineStillLatest
  <2>3. CASE r = p
    <3>1. UNCHANGED <<pipelineRuns, health>>
      BY <1>2, <2>1, <2>3, DetectionSteps
    <3>2. /\ Candidates(r)' = Candidates(r)
          /\ memory'[r].base = memory[r].base =>
               Missed(r)' = Missed(r) /\ BaseHealth(r)' = BaseHealth(r)
      BY <3>1 DEF Missed, Candidates, BaseHealth
    <3>3. CASE step'[r] = "based" /\ memory'[r].base \in Baselines(r)
      <4>1. memory'[r].base \in Candidates(r) \cup {NoRun}
        BY <3>3 DEF Baselines
      <4>2. Missed(r)' = {}
        <5>1. SUFFICES ASSUME NEW q \in Candidates(r),
                              memory'[r].base # NoRun =>
                                pipelineRuns[memory'[r].base].started < pipelineRuns[q].started
                       PROVE  FALSE
          BY <3>1, <3>2 DEF Missed
        <5>2. /\ Candidates(r) # {} /\ memory'[r].base \in Candidates(r)
              /\ pipelineRuns[q].started <= pipelineRuns[memory'[r].base].started
          BY <3>3, <5>1 DEF Baselines
        <5>3. \A c \in Candidates(r) : pipelineRuns[c].started \in Nat
          BY DEF Candidates, TypeInv, TypeOK, RunRows
        <5> QED
          BY <5>1, <5>2, <5>3, PipelineAssumption DEF Candidates
      <4> QED
        BY <3>2, <3>3, <4>1, <4>2
    <3>4. CASE Detecting(r) /\ memory'[r].base = memory[r].base
      BY <1>2, <2>1, <2>2, <2>3, <3>2, <3>4, DetectionSteps
    <3> QED
      BY <1>2, <2>1, <2>3, <3>3, <3>4, DetectionSteps
  <2>4. CASE r # p
    <3>1. /\ step'[r] = step[r] /\ memory'[r] = memory[r] /\ Detecting(r)
          /\ step[r] # "idle"
      BY <1>2, <2>1, <2>4, JobFrame DEF Alone, Detecting, Processes
    <3>2. p \in beside[r] /\ p \in Runs
      BY <2>1, <2>4, <3>1 DEF TypeInv, ProcessesInOrder, Processes, Around, HandsOff
    <3>3. \A q \in Runs \ {p} : pipelineRuns'[q] = pipelineRuns[q] /\ health'[q] = health[q]
      BY <1>2, <3>2, JobFrame
    <3>4. /\ Missed(r) \subseteq beside[r]
          /\ memory[r].base \in Candidates(r) \cup {NoRun} /\ memory[r].base # p
      BY <1>2, <2>1, <2>2, <3>1, <3>2
    <3>5. \A q \in Runs \ {p} : q \in Candidates(r)' <=> q \in Candidates(r)
      BY <2>4, <3>3 DEF Candidates
    <3>6. memory[r].base # NoRun => memory[r].base \in Runs \ {p}
      BY <3>4 DEF Candidates
    <3>7. Missed(r)' \subseteq Missed(r) \cup {p}
      <4>1. SUFFICES ASSUME NEW q \in Missed(r)', q # p PROVE q \in Missed(r)
        OBVIOUS
      <4>2. q \in Candidates(r)' /\ q \in Runs
        BY <4>1 DEF Missed, Candidates
      <4> QED
        BY <3>1, <3>3, <3>5, <3>6, <4>1, <4>2 DEF Missed
    <3>8. BaseHealth(r)' = BaseHealth(r)
      BY <3>1, <3>3, <3>6 DEF BaseHealth
    <3>9. memory'[r].base \in Candidates(r)' \cup {NoRun}
      BY <3>1, <3>4, <3>5, <3>6
    <3> QED
      BY <1>2, <2>1, <2>2, <3>1, <3>2, <3>4, <3>7, <3>8, <3>9
  <2> QED
    BY <2>3, <2>4
<1>3. ASSUME NEW p \in Processes, JobStep(p), NEW r \in Runs PROVE Latest(r)'
  BY <1>2, <1>3
<1> QED
  BY <1>1, <1>3 DEF BaselineStillLatest

\* What of an incident's evidence the comparison with a baseline looks at.
LEMMA ComparisonEvidence ==
  ASSUME NEW key, key.type \in ComparisonTypes, NEW e, NEW f,
         e.metric = f.metric, e.schema = f.schema,
         e.baseMetric = f.baseMetric, e.baseSchema = f.baseSchema
  PROVE  Raised(key, e) <=> Raised(key, f)
BY DEF Raised, ComparisonTypes

\* Detection finds the comparison incidents that the stored health justifies.
LEMMA FoundIsComparison ==
  ASSUME NEW p \in Runs, target[p] = p,
         memory[p].metrics = health[p], memory[p].schema = health[p],
         memory[p].baseMetrics = BaseHealth(p), memory[p].baseSchemas = BaseHealth(p)
  PROVE  {key \in Found(p) : key.type \in ComparisonTypes} = Comparison(p, memory[p].base)
<1> DEFINE Base == IF memory[p].base = NoRun THEN NoHealth ELSE health[memory[p].base]
           Stored(t) == [metric     |-> health[p][t].metric,
                         schema     |-> health[p][t].schema,
                         baseMetric |-> IF Base = NoHealth THEN NoValue ELSE Base[t].metric,
                         baseSchema |-> IF Base = NoHealth THEN NoValue ELSE Base[t].schema]
<1>1. \A t : /\ Gathered(p, t).metric = Stored(t).metric
             /\ Gathered(p, t).schema = Stored(t).schema
             /\ Gathered(p, t).baseMetric = Stored(t).baseMetric
             /\ Gathered(p, t).baseSchema = Stored(t).baseSchema
  BY DEF Gathered, BaseHealth
<1>2. \A key \in IncidentKeys : key.type \in ComparisonTypes =>
        (Raised(key, Gathered(p, key.table)) <=> Raised(key, Stored(key.table)))
  BY <1>1, ComparisonEvidence
<1>3. Found(p) = {key \in IncidentKeys : Raised(key, Gathered(p, key.table))}
  BY DEF Found, DetectForTable, IncidentKeys
<1>4. Comparison(p, memory[p].base) =
        {key \in IncidentKeys : key.type \in ComparisonTypes /\ Raised(key, Stored(key.table))}
  BY DEF Comparison
<1> QED
  BY <1>2, <1>3, <1>4

\* The comparison of two runs depends on their health alone.
LEMMA ComparisonKept ==
  ASSUME NEW r \in Runs, NEW q \in Runs \cup {NoRun}, health'[r] = health[r],
         q # NoRun => health'[q] = health[q]
  PROVE  Comparison(r, q)' = Comparison(r, q)
BY DEF Comparison

\* Runs start at different times, so each has one baseline.
LEMMA OneBaseline ==
  ASSUME TypeInv, OverlapsAreKnown, RowsAreOwn, \A q \in Runs : HandsOff(q),
         NEW r \in Runs, NEW a \in Baselines(r), NEW b \in Baselines(r)
  PROVE  a = b
<1>1. CASE Candidates(r) = {}
  BY <1>1 DEF Baselines
<1>2. CASE Candidates(r) # {}
  <2>1. /\ a \in Candidates(r) /\ b \in Candidates(r)
        /\ pipelineRuns[a].started <= pipelineRuns[b].started
        /\ pipelineRuns[b].started <= pipelineRuns[a].started
    BY <1>2 DEF Baselines
  <2>2. /\ a \in Begun /\ b \in Begun /\ a \in Runs /\ b \in Runs
        /\ pipelineRuns[a].started = startedAt[a] /\ pipelineRuns[b].started = startedAt[b]
    <3>1. \A q \in Candidates(r) : q \in Runs /\ pipelineRuns[q] # NoRow
      BY DEF Candidates
    <3>2. \A q \in Candidates(r) : q \in Begun /\ pipelineRuns[q] = OwnRow(q)
      BY <3>1 DEF RowsAreOwn
    <3>3. \A q \in Runs : OwnRow(q).started = startedAt[q]
      BY DEF OwnRow
    <3> QED
      BY <2>1, <3>1, <3>2, <3>3
  <2>3. startedAt[a] \in Nat /\ startedAt[b] \in Nat
    BY <2>2 DEF TypeInv, TypeOK
  <2> QED
    BY <2>1, <2>2, <2>3 DEF OverlapsAreKnown
<1> QED
  BY <1>1, <1>2

\* What an active run commits leaves a run that started earlier its baseline.
LEMMA EarlierKeepsBaseline ==
  ASSUME TypeInv, OverlapsAreKnown, RowsAreOwn, RowsAreOwn', \A q \in Runs : HandsOff(q),
         NEW p \in Runs, JobStep(p), NEW r \in Runs \ {p}, pipelineRuns[r] # NoRow,
         \A q \in beside[r] : startedAt[r] < startedAt[q]
  PROVE  /\ Baselines(r)' = Baselines(r)
         /\ p \notin Baselines(r)
<1>1. /\ UNCHANGED <<startedAt, beside>> /\ Active(p) /\ p \in Begun /\ p # NoRun
      /\ \A q \in Runs \ {p} : pipelineRuns'[q] = pipelineRuns[q]
  BY JobFrame, PipelineAssumption DEF Active, Begun, Processes
<1>2. r \in Begun /\ pipelineRuns[r] = OwnRow(r)
  BY DEF RowsAreOwn
<1>3. startedAt[r] \in Nat /\ startedAt[p] \in Nat
  BY DEF TypeInv, TypeOK
<1>4. ~(startedAt[p] < startedAt[r])
  <2>1. CASE p \in beside[r]
    BY <1>3, <2>1
  <2>2. CASE p \notin beside[r]
    BY <1>1, <1>2, <2>2 DEF OverlapsAreKnown
  <2> QED
    BY <2>1, <2>2
<1>5. /\ pipelineRuns[p] # NoRow => pipelineRuns[p] = OwnRow(p)
      /\ pipelineRuns'[p] # NoRow => pipelineRuns'[p] = OwnRow(p)
  BY <1>1 DEF RowsAreOwn, HandsOff, OwnRow
<1>6. p \notin Candidates(r) /\ p \notin Candidates(r)'
  BY <1>1, <1>2, <1>4, <1>5 DEF Candidates, OwnRow
<1>7. Candidates(r)' = Candidates(r)
  BY <1>1, <1>6 DEF Candidates
<1>8. \A q \in Candidates(r) : pipelineRuns'[q] = pipelineRuns[q] /\ q # p
  BY <1>1, <1>6 DEF Candidates
<1>9. Baselines(r)' =
        IF Candidates(r) = {} THEN {NoRun}
        ELSE {q \in Candidates(r) : \A c \in Candidates(r) :
                pipelineRuns'[c].started <= pipelineRuns'[q].started}
  BY <1>7 DEF Baselines
<1> QED
  BY <1>1, <1>8, <1>9 DEF Baselines

\* At its commit a detection compares with the baseline of its run, if no run
\* that started earlier is beside it.
LEMMA ComparesWithBaseline ==
  ASSUME TypeInv, RecordInv, OverlapInv, \A q \in Runs : HandsOff(q), NEW p \in Runs,
         Detecting(p), step[p] = "reading", \A q \in beside[p] : startedAt[p] < startedAt[q]
  PROVE  /\ memory[p].base \in Baselines(p)
         /\ memory[p].baseMetrics = BaseHealth(p) /\ memory[p].baseSchemas = BaseHealth(p)
<1> USE DEF OverlapInv
<1>0. /\ memory[p].base \in Runs \cup {NoRun} /\ beside[p] \subseteq Runs
      /\ startedAt[p] \in Nat /\ \A q \in Runs : startedAt[q] \in Nat
  BY DEF TypeInv, TypeOK, Memories, Processes, HandsOff
<1>1. \A q \in Candidates(p) :
        /\ q \in Runs /\ q \notin beside[p] /\ pipelineRuns[q].started = startedAt[q]
  <2>1. SUFFICES ASSUME NEW q \in Candidates(p)
                 PROVE  q \in Runs /\ q \notin beside[p]
                        /\ pipelineRuns[q].started = startedAt[q]
    OBVIOUS
  <2>2. q \in Runs /\ pipelineRuns[q] # NoRow /\ pipelineRuns[q].started < pipelineRuns[p].started
    BY DEF Candidates
  <2>3. pipelineRuns[p] # NoRow
    BY DEF RecordInv, JobsAreBacked, Backed, LayersInOrder, TypeInv, ProcessesInOrder, Processes
  <2>4. pipelineRuns[q] = OwnRow(q) /\ pipelineRuns[p] = OwnRow(p)
    BY <2>2, <2>3 DEF RowsAreOwn
  <2>5. startedAt[q] < startedAt[p]
    BY <2>2, <2>4 DEF OwnRow
  <2> QED
    BY <1>0, <2>2, <2>4, <2>5 DEF OwnRow
<1>2. memory[p].base \in Candidates(p) \cup {NoRun}
  BY <1>0 DEF BaselineIsEarlier
<1>3. memory[p].base \notin beside[p]
  BY <1>0, <1>1, <1>2, PipelineAssumption
<1>4. /\ Missed(p) \subseteq beside[p]
      /\ memory[p].baseMetrics = BaseHealth(p) /\ memory[p].baseSchemas = BaseHealth(p)
  BY <1>3 DEF BaselineStillLatest
<1>5. Missed(p) = {}
  BY <1>1, <1>4 DEF Missed
<1>6. memory[p].base \in Baselines(p)
  <2>1. CASE memory[p].base = NoRun
    BY <1>5, <2>1 DEF Missed, Baselines
  <2>2. CASE memory[p].base # NoRun
    BY <1>0, <1>1, <1>2, <1>5, <2>2 DEF Missed, Baselines
  <2> QED
    BY <2>1, <2>2
<1> QED
  BY <1>4, <1>6

\* Detection adds what the stored health justifies to what it justified before;
\* what later runs store plays no part.
LEMMA StepIncidentsMatchHealth ==
  ASSUME TypeInv, RecordInv, OverlapInv, RowsAreOwn', [Next]_vars
  PROVE  IncidentsMatchHealth'
<1> USE DEF OverlapInv
<1> DEFINE Alike(r, q) ==
      {key \in DOMAIN incidents[r] : key.type \in ComparisonTypes} = Comparison(r, q)
<1>1. SUFFICES ASSUME \A q \in Runs : HandsOff(q)', NEW r \in evaluated',
                      \A q \in beside'[r] : startedAt'[r] < startedAt'[q]
               PROVE  \E q \in Baselines(r)' : Alike(r, q)'
  BY DEF IncidentsMatchHealth
<1>2. \A q \in Runs : HandsOff(q) /\ beside[q] \subseteq beside'[q]
  BY <1>1, BesideGrows
<1>3. evaluated \subseteq Runs /\ evaluated' \subseteq Runs
  BY StepTypeInv DEF TypeInv, TypeOK
<1>4. ASSUME UNCHANGED <<pipelineRuns, health, incidents, evaluated>>,
             startedAt'[r] = startedAt[r], \A q \in beside[r] : startedAt'[q] = startedAt[q]
      PROVE  \E q \in Baselines(r)' : Alike(r, q)'
  <2>1. \A q \in beside[r] : startedAt[r] < startedAt[q]
    BY <1>1, <1>2, <1>3, <1>4
  <2>2. PICK q \in Baselines(r) : Alike(r, q)
    BY <1>2, <1>4, <2>1 DEF IncidentsMatchHealth
  <2>3. Baselines(r)' = Baselines(r) /\ Comparison(r, q)' = Comparison(r, q)
    BY <1>4 DEF Baselines, Candidates, Comparison
  <2> QED
    BY <1>4, <2>2, <2>3
<1>5. CASE \A p \in Processes : ~JobStep(p)
  <2>1. /\ UNCHANGED <<pipelineRuns, health, incidents, evaluated>>
        /\ \A q \in Begun : startedAt'[q] = startedAt[q]
    BY <1>5, StepsAreScheduled DEF Scheduled, ScheduledStep, metadata, Begun
  <2>2. r \in Begun
    BY <1>1, <1>2, <1>3, <2>1 DEF RowsAreOwn, RecordInv, LayersInOrder
  <2>3. beside[r] \subseteq Begun
    BY <1>2, <1>3, <2>1, <1>1 DEF OverlapsAreKnown, HandsOff
  <2> QED
    BY <1>4, <2>1, <2>2, <2>3
<1>6. ASSUME NEW p \in Processes, JobStep(p)
      PROVE  \E q \in Baselines(r)' : Alike(r, q)'
  <2>0. UNCHANGED <<startedAt, beside>>
    BY <1>6, JobFrame
  <2>1. CASE p \notin Runs
    <3>1. task[p] \notin MetadataJobs
      BY <1>2, <1>6, <2>1, JobFrame
      DEF TypeInv, ProcessesInOrder, OverlapsAreKnown, AtWork, Processes, HandsOff
    <3>2. UNCHANGED <<pipelineRuns, health, incidents, evaluated>>
      BY <1>6, <3>1, JobWrites
      DEF PersistMetadata, PersistMeasurements, PersistIncidents, At, MetadataJobs
    <3> QED
      BY <1>4, <2>0, <3>2
  <2>2. CASE p \in Runs /\ r # p
    <3>1. /\ r \in evaluated /\ incidents'[r] = incidents[r]
          /\ \A q \in Runs \ {p} : health'[q] = health[q]
      BY <1>1, <1>3, <1>6, <2>2, JobFrame
    <3>2. pipelineRuns[r] # NoRow
      BY <1>3, <3>1 DEF RecordInv, LayersInOrder
    <3>3. \A q \in beside[r] : startedAt[r] < startedAt[q]
      BY <1>1, <2>0
    <3>4. Baselines(r)' = Baselines(r) /\ p \notin Baselines(r)
      BY <1>2, <1>3, <1>6, <2>2, <3>1, <3>2, <3>3, EarlierKeepsBaseline
    <3>5. PICK q \in Baselines(r) : Alike(r, q)
      BY <1>2, <3>1, <3>3 DEF IncidentsMatchHealth
    <3>6. q \in Runs \cup {NoRun}
      BY DEF Baselines, Candidates
    <3>7. Comparison(r, q)' = Comparison(r, q)
      BY <1>3, <2>2, <3>1, <3>4, <3>6, ComparisonKept
    <3> QED
      BY <3>1, <3>4, <3>5, <3>7
  <2>3. CASE r = p /\ p \in Runs /\ PersistIncidents(p)
    <3>0. target[p] = p
      BY <1>6, <2>3, JobFrame
    <3>1. /\ UNCHANGED <<pipelineRuns, health>>
          /\ incidents'[p] = Upserted(p, incidents[p])
          /\ Detecting(p) /\ step[p] = "reading"
      BY <2>3, <3>0 DEF PersistIncidents, Detecting, At, TypeInv, TypeOK
    <3>2. \A q \in beside[p] : startedAt[p] < startedAt[q]
      BY <1>1, <2>0, <2>3
    <3>3. /\ memory[p].base \in Baselines(p)
          /\ memory[p].metrics = health[p] /\ memory[p].schema = health[p]
          /\ memory[p].baseMetrics = BaseHealth(p)
          /\ memory[p].baseSchemas = BaseHealth(p)
      BY <1>2, <2>3, <3>1, <3>2, ComparesWithBaseline DEF LoadedIsStored, Detecting, LastTask
    <3>4. {key \in Found(p) : key.type \in ComparisonTypes} = Comparison(p, memory[p].base)
      BY <2>3, <3>0, <3>3, FoundIsComparison
    <3>5. DOMAIN incidents'[p] = DOMAIN incidents[p] \cup Found(p)
      BY <3>1 DEF Upserted
    <3>6. DOMAIN incidents[p] = {} \/ Alike(p, memory[p].base)
      <4>1. CASE p \notin evaluated
        BY <2>3, <4>1 DEF RecordInv, LayersInOrder
      <4>2. CASE p \in evaluated
        <5>1. PICK q \in Baselines(p) : Alike(p, q)
          BY <1>2, <3>2, <4>2 DEF IncidentsMatchHealth
        <5>2. q = memory[p].base
          BY <1>2, <2>3, <3>3, OneBaseline
        <5> QED
          BY <5>1, <5>2
      <4> QED
        BY <4>1, <4>2
    <3>7. /\ Baselines(p)' = Baselines(p)
          /\ \A q : Comparison(p, q)' = Comparison(p, q)
      BY <3>1 DEF Baselines, Candidates, Comparison
    <3>8. {key \in DOMAIN incidents'[p] : key.type \in ComparisonTypes}
            = Comparison(p, memory[p].base)
      BY <3>4, <3>5, <3>6
    <3> QED
      BY <2>3, <3>3, <3>7, <3>8
  <2>4. CASE r = p /\ p \in Runs /\ ~PersistIncidents(p)
    <3>1. evaluated' = evaluated /\ incidents' = incidents
      BY <1>6, <2>4, JobWrites
    <3>2. task[p] = LastTask
      BY <1>1, <1>2, <1>6, <2>4, <3>1, JobFrame DEF CommitsInTurn
    <3>3. UNCHANGED <<pipelineRuns, health>>
      BY <1>6, <3>2, JobWrites DEF PersistMetadata, PersistMeasurements, At, LastTask
    <3> QED
      BY <1>4, <2>0, <3>1, <3>3
  <2> QED
    BY <2>1, <2>2, <2>3, <2>4
<1> QED
  BY <1>5, <1>6

\* Nothing has run yet.
LEMMA InitOverlapInv == Init => OverlapInv
<1> SUFFICES ASSUME Init PROVE OverlapInv
  OBVIOUS
<1>0. /\ \A r \in Runs : ~Active(r) /\ r \notin Begun /\ beside[r] = {}
      /\ \A p \in Processes : step[p] = "idle" /\ memory[p] = Blank
      /\ \A r \in Runs : pipelineRuns[r] = NoRow /\ nodeResults[r] = {} /\ r \in Processes
      /\ \A o \in Operators : ~AtWork(o)
      /\ Begun = {} /\ evaluated = {} /\ \A r \in Runs : task[r] = FirstTask
  BY DEF Init, Active, Begun, AtWork, Processes
<1>1. OverlapsAreKnown
  BY <1>0 DEF OverlapsAreKnown
<1>2. RowsAreOwn /\ CommitsInTurn /\ LoadsAreKnown
  BY <1>0 DEF RowsAreOwn, CommitsInTurn, LoadsAreKnown
<1>3. ArtifactsAreKnown /\ ParsedAgain /\ OwnNodeResults
  BY <1>0 DEF ArtifactsAreKnown, ParsedAgain, OwnNodeResults, Blank
<1>4. LoadedIsStored /\ BaselineStillLatest /\ BaselineIsEarlier
  BY <1>0 DEF LoadedIsStored, BaselineStillLatest, BaselineIsEarlier, Detecting
<1>5. IncidentsMatchHealth
  BY <1>0 DEF IncidentsMatchHealth
<1> QED
  BY <1>1, <1>2, <1>3, <1>4, <1>5 DEF OverlapInv

\* No step breaks the invariant of runs that overlap.
LEMMA StepOverlapInv == PipelineInv /\ OverlapInv /\ [Next]_vars => OverlapInv'
<1> SUFFICES ASSUME PipelineInv, OverlapInv, [Next]_vars PROVE OverlapInv'
  OBVIOUS
<1> USE DEF PipelineInv, OverlapInv
<1>1. TypeInv' /\ OverlapsAreKnown' /\ RowsAreOwn'
  BY StepTypeInv, StepOverlapsAreKnown, StepRowsAreOwn
<1>2. CommitsInTurn' /\ ArtifactsAreKnown' /\ ParsedAgain'
  BY StepCommitsInTurn, StepArtifactsAreKnown, StepParsedAgain
<1>3. LoadsAreKnown' /\ LoadedIsStored' /\ BaselineIsEarlier'
  BY <1>1, StepLoadsAreKnown, StepLoadedIsStored, StepBaselineIsEarlier
<1>4. OwnNodeResults' /\ BaselineStillLatest'
  BY StepOwnNodeResults, StepBaselineStillLatest
<1>5. IncidentsMatchHealth'
  BY <1>1, StepIncidentsMatchHealth
<1> QED
  BY <1>1, <1>2, <1>3, <1>4, <1>5

\* The inductive invariant of runs that overlap, however many are active and
\* whatever operators do.
THEOREM OverlapIsInvariant == Spec => []OverlapInv
BY InitOverlapInv, StepOverlapInv, PipelineIsInvariant, PTL DEF Spec

\* A run's node results are one invocation of its own per dbt command, and
\* what runs in progress at the same time left in the artifact files.
THEOREM NodeResultsAreOwn == Spec => []OwnNodeResults
BY OverlapIsInvariant, PTL DEF OverlapInv

\* While a run's detection is under way, only runs that are in progress at the
\* same time can become a later baseline or change the one it has loaded.
THEOREM BaselinesAreLatest == Spec => []BaselineStillLatest
BY OverlapIsInvariant, PTL DEF OverlapInv

\* A run's comparison incidents are those its stored health justifies, however
\* often detection was repeated and whichever later runs overlapped with it.
THEOREM IncidentsAreJustified == Spec => []IncidentsMatchHealth
BY OverlapIsInvariant, PTL DEF OverlapInv

\* Detection counts NULLs in the load its run has measured, or in one that a
\* run in progress at the same time has put in its place.
THEOREM DetectionIsOfTheLoad == Spec => []DetectsWhatWasMeasured
<1>1. ASSUME PipelineInv, OverlapInv PROVE DetectsWhatWasMeasured
  <2> USE DEF PipelineInv, OverlapInv
  <2>1. SUFFICES ASSUME NEW p \in Runs, NEW t \in Tables, Detecting(p), HandsOff(p)
                 PROVE  \/ Visible(t).load = memory[p].metrics[t].load
                        \/ Visible(t).load.by \in beside[p]
    BY <1>1 DEF DetectsWhatWasMeasured
  <2>2. target[p] = p /\ Active(p) /\ p \in Processes
    BY <1>1, <2>1 DEF TypeInv, ProcessesInOrder, Processes, Detecting
  <2>3. health[p] # NoHealth
    BY <1>1, <2>1, <2>2 DEF RecordInv, JobsAreBacked, Backed
  <2>4. memory[p].metrics = health[p]
    BY <1>1, <2>1 DEF LoadedIsStored, Detecting, LastTask
  <2> QED
    BY <1>1, <2>1, <2>2, <2>3, <2>4 DEF LoadsAreKnown, Same
<1> QED
  BY <1>1, OverlapIsInvariant, PipelineIsInvariant, PTL

\* A collection that is repeated adds nothing but what runs in progress at the
\* same time wrote into the artifact files.
THEOREM ResultsSettle == Spec => NodeResultsSettle
<1>1. ASSUME PipelineInv, OverlapInv, [Next]_vars, NEW r \in Runs, nodeResults[r] # {},
             HandsOff(r), NEW n \in nodeResults'[r] \ nodeResults[r]
      PROVE  n.invocation.by \in beside[r]
  <2> USE DEF PipelineInv, OverlapInv
  <2>1. CASE \A p \in Processes : ~JobStep(p)
    BY <1>1, <2>1, StepsAreScheduled DEF Scheduled, metadata
  <2>2. ASSUME NEW p \in Processes, JobStep(p)
        PROVE  n.invocation.by \in beside[r]
    <3>1. p = r /\ PersistMetadata(p)
      BY <1>1, <2>2, JobFrame, JobWrites
    <3>2. nodeResults'[r] = nodeResults[r] \cup memory[r].parsed
      BY <1>1, <2>2, <3>1, JobFrame DEF PersistMetadata, TypeInv, TypeOK
    <3>3. n \in memory[r].parsed
      BY <1>1, <3>2
    <3>4. n.invocation.by \in {r} \cup beside[r]
      BY <1>1, <3>3 DEF ArtifactsAreKnown, Around
    <3>5. n.invocation.by = r => n \in nodeResults[r]
      BY <1>1, <3>3 DEF ParsedAgain
    <3> QED
      BY <1>1, <3>4, <3>5
  <2> QED
    BY <2>1, <2>2
<1>2. PipelineInv /\ OverlapInv /\ [Next]_vars =>
        [\A r \in Runs : nodeResults[r] # {} /\ HandsOff(r) =>
           \A n \in nodeResults'[r] \ nodeResults[r] : n.invocation.by \in beside[r]]_vars
  BY <1>1
<1> QED
  BY <1>2, OverlapIsInvariant, PipelineIsInvariant, PTL DEF Spec, NodeResultsSettle

-----------------------------------------------------------------------------
(***************************************************************************)
(* Jobs wait for the locks of others.  The argument: a loader waits for    *)
(* nothing; who has read any table has read the raw tables, which nobody   *)
(* can load meanwhile, so that it waits for nothing either; and whatever   *)
(* else a job finds missing, it has an error to raise.                     *)
(***************************************************************************)

\* A step that lets every process keep what it has read, or forget it all,
\* keeps the order of reading.
LEMMA ReadFrame ==
  ASSUME ReadsInOrder,
         \A p \in Processes :
           \/ \A t \in Tables : HasRead(p, t)' <=> HasRead(p, t)
           \/ \A t \in Tables : ~HasRead(p, t)'
  PROVE  ReadsInOrder'
BY DEF ReadsInOrder, Earlier, Tables

\* p holds what it has read.
KeepsReads(p) ==
  memory'[p].seen = memory[p].seen /\ memory'[p].nulls = memory[p].nulls

\* What a job's step does to what the job has read.
LEMMA JobReads ==
  ASSUME TypeInv, NEW p \in Processes, JobStep(p)
  PROVE  \/ KeepsReads(p)
         \/ memory'[p] = Blank
         \/ \E t \in Tables : MeasureRows(p, t) \/ CountNulls(p, t)
<1> USE DEF TypeInv, TypeOK, Memories, KeepsReads
<1>1. CASE task[p] \in {"bootstrap_raw_data", "run_dbt", "test_dbt"}
  BY <1>1, JobStepsOfTask
  DEF TruncateRaw, CommitRaw, BuildFails, BuildMarts, WriteArtifact
<1>2. CASE task[p] = "collect_dbt_metadata"
  BY <1>2, JobStepsOfTask DEF PersistMetadata, ParseArtifact
<1>3. CASE task[p] = "collect_data_health_metrics"
  <2>1. CASE ResolveForHealth(p) \/ PersistMeasurements(p)
    BY <2>1 DEF ResolveForHealth, PersistMeasurements
  <2>2. ASSUME NEW u \in Tables, MeasureSchema(p, u)
        PROVE  KeepsReads(p)
    BY <2>2 DEF MeasureSchema
  <2> QED
    BY <1>3, <2>1, <2>2, JobStepsOfTask
<1>4. CASE task[p] = "detect_data_incidents"
  <2>1. CASE ResolveForDetection(p) \/ PersistIncidents(p)
    BY <2>1 DEF ResolveForDetection, PersistIncidents
  <2>2. CASE \/ LoadMetrics(p) \/ LoadSchema(p) \/ ChooseBaseline(p)
             \/ LoadBaseMetrics(p) \/ LoadBaseSchemas(p)
    BY <2>2 DEF LoadMetrics, LoadSchema, ChooseBaseline, LoadBaseMetrics,
       LoadBaseSchemas
  <2> QED
    BY <1>4, <2>1, <2>2, JobStepsOfTask
<1> QED
  BY <1>1, <1>2, <1>3, <1>4 DEF Tasks

\* Reading one more table, the next one, keeps the order of reading.
LEMMA ReadsNext ==
  ASSUME TypeInv, MemoryOfReaders, ReadsInOrder, NEW p \in Processes, NEW t \in Tables,
         MeasureRows(p, t) \/ CountNulls(p, t)
  PROVE  ReadsInOrder'
<1>1. NextToRead(p, t)
  BY DEF MeasureRows, CountNulls
<1>2. \A u \in Tables \ {t} : HasRead(p, u)' <=> HasRead(p, u)
  <2>1. CASE MeasureRows(p, t)
    BY <2>1 DEF MeasureRows, HasRead, TypeInv, TypeOK, Memories
  <2>2. CASE CountNulls(p, t)
    BY <2>2 DEF CountNulls, HasRead, TypeInv, TypeOK, Memories
  <2> QED
    BY <2>1, <2>2
<1>3. ~HasRead(p, t)
  BY <1>1 DEF NextToRead
<1>4. \A q \in Processes \ {p} : memory'[q] = memory[q]
  BY DEF MeasureRows, CountNulls, TypeInv, TypeOK
<1>5. \A u \in Tables : Earlier[u] \subseteq Tables
  BY DEF Earlier, Tables
<1>6. ASSUME NEW q \in Processes, NEW u \in Tables, NEW v \in Earlier[u], HasRead(q, u)'
      PROVE  HasRead(q, v)'
  <2>1. CASE q # p
    BY <1>4, <1>6, <2>1 DEF ReadsInOrder, HasRead
  <2>2. CASE q = p
    BY <1>1, <1>2, <1>3, <1>5, <1>6, <2>2 DEF ReadsInOrder, NextToRead
  <2> QED
    BY <2>1, <2>2
<1> QED
  BY <1>6 DEF ReadsInOrder

LEMMA StepReadsInOrder ==
  ASSUME TypeInv, MemoryOfReaders, ReadsInOrder, [Next]_vars
  PROVE  ReadsInOrder'
<1> USE DEF TypeInv, TypeOK
<1>1. CASE Tick \/ UNCHANGED vars
  BY <1>1, ReadFrame DEF Tick, vars, HasRead
<1>2. ASSUME NEW r \in Runs, Airflow(r) PROVE ReadsInOrder'
  <2>1. \A p \in Processes : KeepsReads(p)
    <3>1. CASE StartAttempt(r)
      BY <3>1 DEF StartAttempt, JobStarts, Memories, KeepsReads
    <3>2. CASE ~StartAttempt(r)
      BY <1>2, <3>2 DEF Airflow, Trigger, StartDagRun, TaskSucceeds, KeepsReads
    <3> QED
      BY <3>1, <3>2
  <2> QED
    BY <2>1, ReadFrame DEF HasRead, KeepsReads
<1>3. ASSUME NEW o \in Operators, Manual(o) PROVE ReadsInOrder'
  <2>1. \A p \in Processes : KeepsReads(p)
    <3>1. ASSUME NEW job \in Tasks, NEW r \in Runs \cup {NoRun},
                 NEW row \in GivenRows, OperatorStarts(o, job, r, row)
          PROVE  \A p \in Processes : KeepsReads(p)
      BY <3>1 DEF OperatorStarts, JobStarts, Memories, KeepsReads
    <3>2. CASE OperatorReturns(o)
      BY <3>2 DEF OperatorReturns, KeepsReads
    <3> QED
      BY <1>3, <3>1, <3>2 DEF Manual
  <2> QED
    BY <2>1, ReadFrame DEF HasRead, KeepsReads
<1>4. ASSUME NEW p \in Processes, JobStep(p) PROVE ReadsInOrder'
  <2>1. \A q \in Processes \ {p} : memory'[q] = memory[q]
    BY <1>4, JobStepAlone DEF Alone
  <2>2. CASE KeepsReads(p)
    BY <2>1, <2>2, ReadFrame DEF HasRead, KeepsReads
  <2>3. CASE memory'[p] = Blank
    BY <2>1, <2>3, ReadFrame, BlankHolds DEF HasRead
  <2> QED
    BY <1>4, <2>2, <2>3, JobReads, ReadsNext
<1>5. ASSUME NEW p \in Processes, JobRaises(p) \/ JobCrashes(p) PROVE ReadsInOrder'
  <2>1. memory' = [memory EXCEPT ![p] = Blank]
    BY <1>5 DEF JobRaises, JobCrashes, Exit
  <2> QED
    BY <2>1, ReadFrame, BlankHolds DEF HasRead
<1> QED
  BY <1>1, <1>2, <1>3, <1>4, <1>5 DEF Next

LEMMA StepStepsFitTasks ==
  ASSUME TypeInv, StepsFitTasks, [Next]_vars
  PROVE  StepsFitTasks'
<1> USE DEF TypeInv, TypeOK, Processes, StepsFitTasks, StepsOf, Tasks
<1>1. CASE Tick \/ UNCHANGED vars
  BY <1>1 DEF Tick, vars, processVars
<1>2. ASSUME NEW r \in Runs, Airflow(r) PROVE StepsFitTasks'
  <2>1. CASE Trigger(r) \/ StartDagRun(r)
    BY <2>1 DEF Trigger, StartDagRun, processVars
  <2>2. CASE StartAttempt(r)
    BY <2>2 DEF StartAttempt, JobStarts, processVars
  <2>3. CASE TaskSucceeds(r)
    BY <2>3 DEF TaskSucceeds, Downstream, LastTask
  <2> QED
    BY <1>2, <2>1, <2>2, <2>3 DEF Airflow
<1>3. ASSUME NEW o \in Operators, Manual(o) PROVE StepsFitTasks'
  <2>1. ASSUME NEW job \in Tasks, NEW r \in Runs \cup {NoRun},
               NEW row \in GivenRows, OperatorStarts(o, job, r, row)
        PROVE  StepsFitTasks'
    BY <2>1 DEF OperatorStarts, JobStarts
  <2>2. CASE OperatorReturns(o)
    BY <2>2 DEF OperatorReturns
  <2> QED
    BY <1>3, <2>1, <2>2 DEF Manual
<1>4. ASSUME NEW p \in Processes, JobStep(p) PROVE StepsFitTasks'
  <2>1. /\ task' = task
        /\ \A q \in Processes \ {p} : step'[q] = step[q]
    BY <1>4, JobStepFrame DEF processVars
  <2>2. step'[p] \in StepsOf[task[p]] \cup {"finished"}
    <3> USE DEF At, Advance
    <3>1. CASE task[p] \in {"bootstrap_raw_data", "run_dbt", "test_dbt"}
      BY <1>4, <3>1, JobStepsOfTask
      DEF TruncateRaw, CommitRaw, BuildFails, Buildable, BuildMarts, WriteArtifact
    <3>2. CASE task[p] = "collect_dbt_metadata"
      BY <1>4, <3>2, JobStepsOfTask DEF PersistMetadata, ParseArtifact
    <3>3. CASE task[p] = "collect_data_health_metrics"
      BY <1>4, <3>3, JobStepsOfTask
      DEF ResolveForHealth, PersistMeasurements, MeasureSchema, MeasureRows
    <3>4. CASE task[p] = "detect_data_incidents"
      BY <1>4, <3>4, JobStepsOfTask
      DEF ResolveForDetection, LoadMetrics, LoadSchema, ChooseBaseline, LoadBaseMetrics,
          LoadBaseSchemas, PersistIncidents, CountNulls
    <3> QED
      BY <3>1, <3>2, <3>3, <3>4
  <2> QED
    BY <2>1, <2>2
<1>5. ASSUME NEW p \in Processes, JobRaises(p) \/ JobCrashes(p) PROVE StepsFitTasks'
  BY <1>5 DEF JobRaises, JobCrashes, Exit
<1> QED
  BY <1>1, <1>2, <1>3, <1>4, <1>5 DEF Next

LEMMA WaitsInvariant == Spec => [](PipelineInv /\ WaitInv)
<1>1. Init => WaitInv
  <2> SUFFICES ASSUME Init PROVE WaitInv
    OBVIOUS
  <2>1. ReadsInOrder
    BY BlankHolds DEF Init, ReadsInOrder, HasRead
  <2>2. StepsFitTasks
    BY DEF Init, StepsFitTasks
  <2> QED
    BY <2>1, <2>2 DEF WaitInv
<1>2. PipelineInv /\ WaitInv /\ [Next]_vars => WaitInv'
  BY StepReadsInOrder, StepStepsFitTasks DEF PipelineInv, LockInv, WaitInv
<1> QED
  BY <1>1, <1>2, PipelineIsInvariant, PTL DEF Spec

\* Who has read a table is still reading, has read the raw tables, and nobody
\* is loading them.
LEMMA ReadersHoldRaw ==
  ASSUME PipelineInv, WaitInv, NEW q \in Processes, NEW t \in Tables, HasRead(q, t)
  PROVE  /\ ~RawExclusive
         /\ HasRead(q, "raw")
         /\ \/ At(q, "collect_data_health_metrics", "reading")
            \/ At(q, "detect_data_incidents", "reading")
<1>1. HasRead(q, "raw")
  BY DEF WaitInv, ReadsInOrder, Earlier, Tables
<1>2. ~RawExclusive
  BY <1>1 DEF PipelineInv, LockInv, ReadsAreCurrent, ShareLocked
<1> QED
  BY <1>1, <1>2 DEF PipelineInv, LockInv, MemoryOfReaders, HasRead

\* Whoever loads is a bootstrap.
LEMMA LoadersBootstrap ==
  ASSUME TypeInv, StepsFitTasks, NEW q \in Processes, step[q] = "loading"
  PROVE  At(q, "bootstrap_raw_data", "loading")
<1>1. task[q] \in Tasks /\ "loading" \in StepsOf[task[q]]
  BY DEF TypeInv, TypeOK, StepsFitTasks
<1> QED
  BY <1>1 DEF Tasks, StepsOf, At

\* No circle of waiting transactions can form: whoever holds a lock that
\* another one waits for waits for nothing, whatever runs, retries and
\* operators do at the same time.
THEOREM WaitsNeverChain == Spec => []NobodyWaitsForAWaiter
<1>1. ASSUME PipelineInv, WaitInv PROVE NobodyWaitsForAWaiter
  <2> SUFFICES ASSUME NEW p \in Processes, NEW q \in Processes, NEW r \in Processes,
                      WaitsFor(p, q), WaitsFor(q, r)
               PROVE  FALSE
    BY DEF NobodyWaitsForAWaiter
  <2>1. CASE step[q] = "loading"
    BY <2>1 DEF WaitsFor, At
  <2>2. CASE \E t \in Tables : HasRead(q, t)
    <3>1. step[q] = "reading" /\ HasRead(q, "raw") /\ ~RawExclusive
      BY <1>1, <2>2, ReadersHoldRaw DEF At
    <3> QED
      BY <3>1 DEF WaitsFor, At, RawExclusive
  <2> QED
    BY <2>1, <2>2, LayerNames DEF WaitsFor
<1> QED
  BY <1>1, WaitsInvariant, PTL

\* The pairs of natural numbers in ascending order.
Ascending == {pair \in Nat \X Nat : pair[1] < pair[2]}

LEMMA AscendingWellFounded == IsWellFoundedOn(Ascending, Nat)
<1>1. Ascending = OpToRel(<, Nat)
  BY Zenon DEF Ascending, OpToRel
<1> QED
  BY <1>1, NatLessThanWellFounded, Zenon

\* A bounded set of numbers that is not empty has a largest member.
LEMMA LargestMember ==
  ASSUME NEW S \in SUBSET Nat, S # {}, NEW b \in Nat, \A x \in S : x <= b
  PROVE  \E m \in S : \A x \in S : x <= m
<1> DEFINE Gaps == {k \in Nat : \E x \in S : k = b - x}
<1>1. PICK x \in S : TRUE
  OBVIOUS
<1>2. \A y \in S : b - y \in Gaps
  OBVIOUS
<1>3. Gaps \subseteq Nat /\ Gaps # {}
  BY <1>1, <1>2
<1>4. PICK k \in Gaps : \A y \in Gaps : ~(<<y, k>> \in Ascending)
  <2> HIDE DEF Gaps
  <2> QED
    BY <1>3, WFMin, AscendingWellFounded
<1>5. \A y \in Gaps : ~(y < k)
  BY <1>3, <1>4 DEF Ascending
<1>6. PICK m \in S : k = b - m
  OBVIOUS
<1> QED
  BY <1>2, <1>5, <1>6

\* A recorded run has a baseline, be it none at all.
LEMMA BaselineExists ==
  ASSUME TypeInv, NEW r \in Runs, pipelineRuns[r] # NoRow
  PROVE  Baselines(r) # {}
<1> DEFINE Times == {pipelineRuns[q].started : q \in Candidates(r)}
<1>1. CASE Candidates(r) = {}
  BY <1>1 DEF Baselines
<1>2. CASE Candidates(r) # {}
  <2>1. \A q \in Runs : pipelineRuns[q] # NoRow => pipelineRuns[q].started \in Nat
    BY DEF TypeInv, TypeOK, RunRows
  <2>2. /\ Times \in SUBSET Nat /\ Times # {}
        /\ \A x \in Times : x <= pipelineRuns[r].started
    BY <1>2, <2>1 DEF Candidates
  <2>3. PICK m \in Times : \A x \in Times : x <= m
    <3> HIDE DEF Times
    <3> QED
      BY <2>1, <2>2, LargestMember
  <2>4. PICK q \in Candidates(r) : m = pipelineRuns[q].started
    OBVIOUS
  <2>5. \A c \in Candidates(r) : pipelineRuns[c].started <= pipelineRuns[q].started
    BY <2>3, <2>4
  <2> QED
    BY <1>2, <2>4, <2>5 DEF Baselines
<1> QED
  BY <1>1, <1>2

\* A reader that is not through yet has a table to read next.
LEMMA ReaderHasNext ==
  ASSUME NEW p \in Processes, NEW t \in Tables, ~HasRead(p, t)
  PROVE  \E u \in Tables : NextToRead(p, u)
BY DEF NextToRead, Earlier, Tables

\* A reader goes on while nobody loads the raw tables.
LEMMA ReadersGoOn ==
  ASSUME PipelineInv, NEW p \in Processes, ~RawExclusive,
         \/ At(p, "collect_data_health_metrics", "reading")
         \/ At(p, "detect_data_incidents", "reading")
  PROVE  CanGoOn(p)
<1>1. \A t \in Tables : Readable(t)
  BY DEF Readable
<1>2. CASE At(p, "collect_data_health_metrics", "reading")
  <2>1. \A t \in Tables : memory[p].nulls[t] = Unread
    BY <1>2 DEF PipelineInv, LockInv, MemoryOfReaders, At
  <2>2. \/ \A t \in Tables : memory[p].seen[t] # Unread
        \/ \E u \in Tables : NextToRead(p, u)
    BY <2>1, ReaderHasNext DEF HasRead
  <2> QED
    BY <1>1, <1>2, <2>2 DEF CanGoOn
<1>3. CASE At(p, "detect_data_incidents", "reading")
  <2>1. \A t \in Tables : memory[p].seen[t] = Unread
    BY <1>3 DEF PipelineInv, LockInv, MemoryOfReaders, At
  <2>2. \/ \A t \in Tables : memory[p].nulls[t] # Unread
        \/ \E u \in Tables : NextToRead(p, u)
    BY <2>1, ReaderHasNext DEF HasRead
  <2> QED
    BY <1>1, <1>3, <2>2 DEF CanGoOn
<1> QED
  BY <1>2, <1>3

\* Whatever runs, retries and operators do at the same time, a job at work can
\* go on or waits for one that can: the DAG never hangs.
THEOREM JobsAreNeverStuck == Spec => []NoJobIsStuck
<1>1. ASSUME PipelineInv, WaitInv PROVE NoJobIsStuck
  <2> DEFINE WaitsForOneThatCan(p) == \E q \in Processes : WaitsFor(p, q) /\ CanGoOn(q)
  <2> SUFFICES ASSUME NEW p \in Processes, Working(p)
               PROVE  CanGoOn(p) \/ WaitsForOneThatCan(p)
    BY DEF NoJobIsStuck
  <2>0. /\ task[p] \in Tasks
        /\ step[p] \in StepsOf[task[p]]
        /\ task[p] \in MetadataJobs => target[p] \in Runs
        /\ Backed(p)
    BY <1>1 DEF PipelineInv, TypeInv, TypeOK, WaitInv, StepsFitTasks, Working,
       ProcessesInOrder, RecordInv, JobsAreBacked
  <2>1. ASSUME NEW q \in Processes, step[q] = "loading" PROVE CanGoOn(q)
    BY <1>1, <2>1, LoadersBootstrap DEF PipelineInv, WaitInv, CanGoOn
  <2>2. ASSUME NEW q \in Processes, NEW t \in Tables, HasRead(q, t) PROVE CanGoOn(q)
    BY <1>1, <2>2, ReadersHoldRaw, ReadersGoOn
  <2>3. CASE task[p] = "bootstrap_raw_data"
    <3>1. step[p] \in {"started", "loading"}
      BY <2>0, <2>3 DEF StepsOf
    <3>2. RawExclusive => step[p] = "loading" \/ WaitsForOneThatCan(p)
      BY <2>1, <2>3, <3>1 DEF RawExclusive, WaitsFor, At
    <3>3. ShareLocked("raw") => step[p] = "loading" \/ WaitsForOneThatCan(p)
      BY <2>2, <2>3, <3>1, LayerNames DEF ShareLocked, WaitsFor, At
    <3> QED
      BY <2>3, <3>1, <3>2, <3>3 DEF CanGoOn, At
  <2>4. CASE At(p, "run_dbt", "started")
    <3>1. RawExclusive => WaitsForOneThatCan(p)
      BY <2>1, <2>4 DEF RawExclusive, WaitsFor
    <3>2. ShareLocked("staging") \/ ShareLocked("marts") => WaitsForOneThatCan(p)
      BY <2>2, <2>4, LayerNames DEF ShareLocked, WaitsFor
    <3> QED
      BY <2>4, <3>1, <3>2 DEF CanGoOn, Buildable, Readable
  <2>5. CASE step[p] = "reading"
    <3>1. \/ At(p, "collect_data_health_metrics", "reading")
          \/ At(p, "detect_data_incidents", "reading")
      BY <2>0, <2>5 DEF StepsOf, Tasks, At
    <3>2. CASE ~RawExclusive
      BY <1>1, <3>1, <3>2, ReadersGoOn
    <3>3. CASE RawExclusive
      <4>1. \A t \in Tables : ~HasRead(p, t)
        BY <1>1, <3>3, ReadersHoldRaw
      <4>2. NextToRead(p, "raw")
        BY <4>1, LayerNames DEF NextToRead, Earlier
      <4> QED
        BY <2>1, <2>5, <3>3, <4>2 DEF RawExclusive, WaitsFor
    <3> QED
      BY <3>2, <3>3
  <2>6. CASE At(p, "detect_data_incidents", "current")
    <3>1. target[p] \in Runs
      BY <2>0, <2>6 DEF At, MetadataJobs
    <3>2. memory[p].metrics # NoHealth => pipelineRuns[target[p]] # NoRow
      BY <1>1, <2>0, <2>6, <3>1 DEF Backed, At, PipelineInv, RecordInv, LayersInOrder
    <3> QED
      BY <1>1, <2>6, <3>1, <3>2, BaselineExists DEF CanGoOn, PipelineInv
  <2>7. CASE /\ task[p] # "bootstrap_raw_data"
             /\ ~At(p, "run_dbt", "started")
             /\ step[p] # "reading"
             /\ ~At(p, "detect_data_incidents", "current")
    BY <2>0, <2>7 DEF CanGoOn, StepsOf, Tasks, At
  <2> QED
    BY <2>3, <2>4, <2>5, <2>6, <2>7
<1> QED
  BY <1>1, WaitsInvariant, PTL

-----------------------------------------------------------------------------
(***************************************************************************)
(* SuccessiveMeasurements: row count incidents for all counts and all      *)
(* thresholds, drift incidents for all columns and types.                  *)
(***************************************************************************)

\* A share of a smaller count is not more than the same share of a larger one.
LEMMA ShareMonotone ==
  ASSUME NEW share \in Nat, NEW small \in Nat, NEW large \in Nat, small <= large
  PROVE  share * small <= share * large
<1>1. PICK d \in Nat : large = small + d
  <2>1. large - small \in Nat /\ large = small + (large - small)
    OBVIOUS
  <2> QED
    BY <2>1
<1>2. share * large = share * small + share * d
  BY <1>1
<1>3. share * d \in Nat /\ share * small \in Nat
  BY <1>1
<1> QED
  BY <1>2, <1>3

\* A fall beyond the threshold is, seen from below, a rise beyond it.
LEMMA FallIsRiseBack ==
  ASSUME NEW now \in Nat, NEW base \in Nat, Shrank(now, base)
  PROVE  Grew(base, now)
<1>1. ChangeThreshold \in Nat
  BY RulesAssumption
<1>2. base # 0 /\ now < base
  BY <1>1 DEF Shrank, CountExceeds
<1>3. 100 * (base - now) > ChangeThreshold * base
  <2>1. ~(100 * (now - base) > ChangeThreshold * base)
    <3>1. 100 * (now - base) < 0
      BY <1>2
    <3>2. ChangeThreshold * base \in Nat
      BY <1>1
    <3> QED
      BY <3>1, <3>2
  <2> QED
    BY <1>2, <2>1 DEF Shrank, CountExceeds
<1>4. ChangeThreshold * now <= ChangeThreshold * base
  BY <1>1, <1>2, ShareMonotone
<1>5. ChangeThreshold * now \in Int /\ ChangeThreshold * base \in Int
  BY <1>1
<1>6. 100 * (base - now) > ChangeThreshold * now
  BY <1>3, <1>4, <1>5
<1> QED
  BY <1>2, <1>6 DEF Grew, CountExceeds

\* Both measurements are always ones the table may have.
BothObserved == before \in Observations /\ after \in Observations

LEMMA Measured == Measuring => []BothObserved
<1>1. FirstMeasurements => BothObserved
  BY DEF FirstMeasurements, BothObserved
<1>2. BothObserved /\ [MeasureAgain]_measurements => BothObserved'
  BY DEF MeasureAgain, measurements, BothObserved
<1> QED
  BY <1>1, <1>2, PTL DEF Measuring

\* Whoever was told of a fall in row count is told when it is made good,
\* whatever the counts and whatever the threshold.
THEOREM RecoveriesAreReported == Measuring => []RecoveryIsReported
<1>1. BothObserved => RecoveryIsReported
  BY FallIsRiseBack, ObservationsAssumption
  DEF BothObserved, RecoveryIsReported, Metrics
<1> QED
  BY <1>1, Measured, PTL

\* Incidents of columns that appear, disappear or change type.
DriftTypes == {"COLUMN_ADDED", "COLUMN_REMOVED", "DATA_TYPE_CHANGED"}

\* What detection compares: two snapshots, of which the earlier is not absent.
LEMMA ObservedSchemas ==
  ASSUME BothObserved
  PROVE  /\ DOMAIN before.schema \subseteq Columns /\ DOMAIN after.schema \subseteq Columns
         /\ before.schema # NoValue
         /\ Compared(after, before).schema = after.schema
         /\ Compared(after, before).baseSchema = before.schema
<1>1. before.schema \in Schemas /\ after.schema \in Schemas
  BY ObservationsAssumption DEF BothObserved
<1>2. DOMAIN before.schema \subseteq Columns /\ DOMAIN after.schema \subseteq Columns
  BY <1>1 DEF Schemas
<1>3. before.schema # NoValue
  BY <1>1, RulesAssumption
<1> QED
  BY <1>2, <1>3 DEF Compared

\* A drift incident is reported exactly where there is drift.
LEMMA DriftKeys ==
  ASSUME BothObserved, NEW key \in Reports, key.type \in DriftTypes
  PROVE  Drifted(key.type, key.column, after.schema, before.schema)
<1>1. Raised(key, Compared(after, before))
  BY DEF Reports, DetectForTable
<1> QED
  BY <1>1, ObservedSchemas DEF Raised, DriftTypes

LEMMA DriftReported ==
  ASSUME BothObserved, NEW type \in DriftTypes, NEW c,
         Drifted(type, c, after.schema, before.schema)
  PROVE  \E key \in Reports : key.type = type /\ key.column = c
<1> DEFINE key == [type |-> type, table |-> Table, column |-> c]
<1>1. c \in Columns
  BY ObservedSchemas DEF Drifted
<1>2. key \in IncidentKeys
  BY <1>1, ObservationsAssumption DEF IncidentKeys, ColumnTypes, DriftTypes
<1>3. Raised(key, Compared(after, before))
  BY ObservedSchemas DEF Raised
<1>4. key \in Reports
  BY <1>2, <1>3 DEF Reports, DetectForTable
<1> QED
  BY <1>4

\* Columns whose type changed.
Changed ==
  {c \in DOMAIN after.schema \cap DOMAIN before.schema :
     after.schema[c].dataType # before.schema[c].dataType}

\* The columns that the incidents of some types name.
LEMMA ColumnsReported ==
  ASSUME BothObserved
  PROVE  /\ ColumnsOf(Reported({"COLUMN_ADDED"})) = DOMAIN after.schema \ DOMAIN before.schema
         /\ ColumnsOf(Reported({"COLUMN_REMOVED"})) = DOMAIN before.schema \ DOMAIN after.schema
         /\ ColumnsOf(Reported({"COLUMN_ADDED", "DATA_TYPE_CHANGED"}))
              = (DOMAIN after.schema \ DOMAIN before.schema) \cup Changed
         /\ ColumnsOf(Reported({"COLUMN_REMOVED", "DATA_TYPE_CHANGED"}))
              = (DOMAIN before.schema \ DOMAIN after.schema) \cup Changed
<1>1. \A types \in SUBSET DriftTypes : \A c :
        c \in ColumnsOf(Reported(types))
          <=> \E type \in types : Drifted(type, c, after.schema, before.schema)
  <2> SUFFICES ASSUME NEW types \in SUBSET DriftTypes, NEW c
               PROVE  c \in ColumnsOf(Reported(types))
                        <=> \E type \in types : Drifted(type, c, after.schema, before.schema)
    OBVIOUS
  <2>1. c \in ColumnsOf(Reported(types)) <=> \E key \in Reports : key.type \in types /\ key.column = c
    BY DEF ColumnsOf, Reported
  <2>2. ASSUME NEW key \in Reports, key.type \in types, key.column = c
        PROVE  \E type \in types : Drifted(type, c, after.schema, before.schema)
    BY <2>2, DriftKeys
  <2>3. ASSUME NEW type \in types, Drifted(type, c, after.schema, before.schema)
        PROVE  \E key \in Reports : key.type \in types /\ key.column = c
    BY <2>3, DriftReported
  <2> QED
    BY <2>1, <2>2, <2>3
<1>2. \A c : /\ Drifted("COLUMN_ADDED", c, after.schema, before.schema)
                  <=> c \in DOMAIN after.schema \ DOMAIN before.schema
             /\ Drifted("COLUMN_REMOVED", c, after.schema, before.schema)
                  <=> c \in DOMAIN before.schema \ DOMAIN after.schema
             /\ Drifted("DATA_TYPE_CHANGED", c, after.schema, before.schema) <=> c \in Changed
  BY DEF Drifted, Changed
<1> QED
  BY <1>1, <1>2 DEF DriftTypes

\* What an incident says the column's type was, and is.
LEMMA DriftEvidence ==
  ASSUME BothObserved, NEW key
  PROVE  /\ key.type \in {"COLUMN_ADDED", "DATA_TYPE_CHANGED"} =>
              Evidence(key, Compared(after, before))[2] = after.schema[key.column].dataType
         /\ key.type \in {"COLUMN_REMOVED", "DATA_TYPE_CHANGED"} =>
              Evidence(key, Compared(after, before))[1] = before.schema[key.column].dataType
BY ObservedSchemas DEF Evidence

\* The incident a column is rebuilt from is one that names it.
LEMMA ToldColumns ==
  ASSUME NEW types, NEW c \in ColumnsOf(Reported(types))
  PROVE  LET told == CHOOSE key \in Reported(types) : key.column = c
         IN  told.type \in types /\ told.column = c
<1>1. \E key \in Reported(types) : key.column = c
  BY DEF ColumnsOf
<1>2. (CHOOSE key \in Reported(types) : key.column = c) \in Reported(types)
      /\ (CHOOSE key \in Reported(types) : key.column = c).column = c
  BY <1>1
<1> QED
  BY <1>2 DEF Reported

\* The drift incidents of any two measurements, of any columns and types,
\* rebuild either's columns and types from the other's.
THEOREM DriftsReconstruct == Measuring => []DriftReconstructs
<1>1. ASSUME BothObserved
      PROVE  Rebuilt(TypesOf(before.schema), 2, "COLUMN_ADDED", "COLUMN_REMOVED")
               = TypesOf(after.schema)
  <2> DEFINE told == ColumnsOf(Reported({"COLUMN_ADDED", "DATA_TYPE_CHANGED"}))
             Told(c) == CHOOSE key \in Reported({"COLUMN_ADDED", "DATA_TYPE_CHANGED"}) :
                          key.column = c
             Type(c) == IF c \in told THEN Evidence(Told(c), Compared(after, before))[2]
                                      ELSE TypesOf(before.schema)[c]
  <2>1. ASSUME NEW c \in DOMAIN after.schema
        PROVE  Type(c) = after.schema[c].dataType
    <3>1. CASE c \in told
      <4>1. Told(c).type \in {"COLUMN_ADDED", "DATA_TYPE_CHANGED"} /\ Told(c).column = c
        BY <3>1, ToldColumns
      <4> QED
        BY <1>1, <3>1, <4>1, DriftEvidence
    <3>2. CASE c \notin told
      <4>1. c \in DOMAIN before.schema /\ after.schema[c].dataType = before.schema[c].dataType
        BY <1>1, <2>1, <3>2, ColumnsReported DEF Changed
      <4> QED
        BY <3>2, <4>1 DEF TypesOf
    <3> QED
      BY <3>1, <3>2
  <2>2. ((DOMAIN TypesOf(before.schema) \cup ColumnsOf(Reported({"COLUMN_ADDED"})))
           \ ColumnsOf(Reported({"COLUMN_REMOVED"}))) = DOMAIN after.schema
    BY <1>1, ColumnsReported DEF TypesOf
  <2>3. Rebuilt(TypesOf(before.schema), 2, "COLUMN_ADDED", "COLUMN_REMOVED")
          = [c \in (DOMAIN TypesOf(before.schema) \cup ColumnsOf(Reported({"COLUMN_ADDED"})))
                     \ ColumnsOf(Reported({"COLUMN_REMOVED"})) |-> Type(c)]
    BY DEF Rebuilt
  <2> HIDE DEF Type
  <2>4. [c \in DOMAIN after.schema |-> Type(c)]
          = [c \in DOMAIN after.schema |-> after.schema[c].dataType]
    BY <2>1
  <2> QED
    BY <2>2, <2>3, <2>4 DEF TypesOf
<1>2. ASSUME BothObserved
      PROVE  Rebuilt(TypesOf(after.schema), 1, "COLUMN_REMOVED", "COLUMN_ADDED")
               = TypesOf(before.schema)
  <2> DEFINE told == ColumnsOf(Reported({"COLUMN_REMOVED", "DATA_TYPE_CHANGED"}))
             Told(c) == CHOOSE key \in Reported({"COLUMN_REMOVED", "DATA_TYPE_CHANGED"}) :
                          key.column = c
             Type(c) == IF c \in told THEN Evidence(Told(c), Compared(after, before))[1]
                                      ELSE TypesOf(after.schema)[c]
  <2>1. ASSUME NEW c \in DOMAIN before.schema
        PROVE  Type(c) = before.schema[c].dataType
    <3>1. CASE c \in told
      <4>1. Told(c).type \in {"COLUMN_REMOVED", "DATA_TYPE_CHANGED"} /\ Told(c).column = c
        BY <3>1, ToldColumns
      <4> QED
        BY <1>2, <3>1, <4>1, DriftEvidence
    <3>2. CASE c \notin told
      <4>1. c \in DOMAIN after.schema /\ after.schema[c].dataType = before.schema[c].dataType
        BY <1>2, <2>1, <3>2, ColumnsReported DEF Changed
      <4> QED
        BY <3>2, <4>1 DEF TypesOf
    <3> QED
      BY <3>1, <3>2
  <2>2. ((DOMAIN TypesOf(after.schema) \cup ColumnsOf(Reported({"COLUMN_REMOVED"})))
           \ ColumnsOf(Reported({"COLUMN_ADDED"}))) = DOMAIN before.schema
    BY <1>2, ColumnsReported DEF TypesOf
  <2>3. Rebuilt(TypesOf(after.schema), 1, "COLUMN_REMOVED", "COLUMN_ADDED")
          = [c \in (DOMAIN TypesOf(after.schema) \cup ColumnsOf(Reported({"COLUMN_REMOVED"})))
                     \ ColumnsOf(Reported({"COLUMN_ADDED"})) |-> Type(c)]
    BY DEF Rebuilt
  <2> HIDE DEF Type
  <2>4. [c \in DOMAIN before.schema |-> Type(c)]
          = [c \in DOMAIN before.schema |-> before.schema[c].dataType]
    BY <2>1
  <2> QED
    BY <2>2, <2>3, <2>4 DEF TypesOf
<1>3. BothObserved => DriftReconstructs
  BY <1>1, <1>2 DEF DriftReconstructs
<1> QED
  BY <1>3, Measured, PTL
=============================================================================
