----------------------- MODULE IncidentContextProofs -----------------------
(***************************************************************************)
(* Proofs about IncidentContext, for any incidents, jobs, ages and any     *)
(* length of time.                                                         *)
(***************************************************************************)
EXTENDS IncidentContext, FiniteSetTheorems, WellFoundedInduction, TLAPS

\* What a job has loaded is of incidents that exist and keep their date of
\* detection, and of nothing else that was asked for.
LoadedExists ==
  \A j \in Jobs : Running(j) =>
    \A i \in Loaded(j) :
      /\ incidents[i] # NoRow
      /\ job[j].loaded[i].detectedAt = incidents[i].detectedAt
      /\ Selected(job[j].target, i)

\* What is written was loaded, comes before what is not, and is allowed.
WrittenInOrder ==
  \A j \in Jobs : Running(j) =>
    \A i \in job[j].written :
      /\ i \in Loaded(j)
      /\ Type[i] \in SupportedTypes
      /\ ActionOf(i) \in allowed
      /\ \A o \in Loaded(j) \ job[j].written : Precedes(i, o, job[j].loaded)

NotYetLoaded ==
  \A j \in Jobs : Starting(j) => Loaded(j) = {} /\ job[j].written = {}

\* What a job has loaded is current unless the incident changed since the
\* job began, and a batch has loaded what was there when it began.
LoadedIsCurrent ==
  \A j \in Jobs : Writing(j) =>
    \A i \in Incidents :
      changedAt[i] < job[j].generatedAt =>
        /\ i \in Loaded(j) => job[j].loaded[i].observed = incidents[i].observed
        /\ /\ job[j].target = All
           /\ Type[i] \in SupportedTypes
           /\ incidents[i] # NoRow
           => i \in Loaded(j)

\* Nothing is dated in the future.
DatesArePast ==
  /\ \A i \in Incidents : contexts[i] # NoContext => contexts[i].generatedAt <= clock
  /\ \A j \in Jobs : Running(j) => job[j].generatedAt <= clock
  /\ finished <= clock

StoredAllowed ==
  \A i \in Incidents : contexts[i] # NoContext => contexts[i].action \in allowed

\* The inductive invariant.
ContextInvariant ==
  /\ TypeOK
  /\ LoadedExists
  /\ WrittenInOrder
  /\ NotYetLoaded
  /\ LoadedIsCurrent
  /\ DatesArePast
  /\ StoredAllowed
  /\ DatedContextsAreCurrent
  /\ BatchesCover

-----------------------------------------------------------------------------
(***************************************************************************)
(* Types.                                                                  *)
(***************************************************************************)

\* A context that the rules make is one the table holds.
LEMMA ContextsAreTyped ==
  ASSUME NEW i \in Incidents, NEW observed \in Nat \cup {NoValue},
         NEW at \in Times
  PROVE  ContextOf(i, observed, at) \in Contexts
<1>1. ActionOf(i) \in ActionCodes
  BY DEF ActionOf, ActionCodes
<1>2. Type[i] \in IncidentTypes
  BY ContextAssumption
<1>3. ChangeOf(i) \in {"COLUMN_ADDED", "COLUMN_REMOVED", "COLUMN_TYPE_CHANGED", NoValue}
  BY <1>2 DEF ChangeOf, IncidentTypes, SupportedTypes, SchemaChangeTypes
<1>4. QED
  BY <1>1, <1>3 DEF ContextOf, Contexts, EvaluateFreshness

\* Every variable keeps its type.
LEMMA TypeStep ==
  ASSUME TypeOK, [Next]_vars
  PROVE  TypeOK'
<1> USE DEF TypeOK
<1>1. CASE Tick
  BY <1>1, ContextAssumption DEF Tick, Times
<1>2. CASE Detects
  <2> PICK found \in Reports, began \in 0 .. clock, age \in Ages :
        PersistIncidents(found, began, age)
    BY <1>2 DEF Detects
  <2>1. \A i \in Incidents : Upserted(i, began, age) \in Rows
    BY ContextAssumption DEF Upserted, ObservedOf, Displayed, Rows, Times
  <2> QED
    BY <2>1 DEF PersistIncidents
<1>3. ASSUME NEW j \in Jobs, NEW target \in Targets, StartJob(j, target)
      PROVE  TypeOK'
  BY <1>3 DEF StartJob, RunningJobs
<1>4. ASSUME NEW j \in Jobs, LoadIncidents(j)
      PROVE  TypeOK'
  BY <1>4 DEF LoadIncidents, Starting, Running, RunningJobs
<1>5. ASSUME NEW j \in Jobs, NEW i \in Incidents, PersistContext(j, i)
      PROVE  TypeOK'
  BY <1>5 DEF PersistContext, IsNext, Writing, Running, RunningJobs
<1>6. ASSUME NEW j \in Jobs, Commit(j)
      PROVE  TypeOK'
  <2>1. job[j] \in RunningJobs
    BY <1>6 DEF Commit, Writing, Running
  <2>2. \A i \in job[j].written : job[j].loaded[i] \in Rows /\ i \in Incidents
    BY <1>6, <2>1 DEF Commit, Loaded, RunningJobs
  <2>3. \A i \in job[j].written :
          ContextOf(i, job[j].loaded[i].observed, job[j].generatedAt) \in Contexts
    BY <2>1, <2>2, ContextsAreTyped DEF RunningJobs, Rows
  <2>4. contexts' \in [Incidents -> Contexts \cup {NoContext}]
    BY <1>6, <2>3 DEF Commit
  <2>5. finished' \in Times
    BY <1>6, <2>1 DEF Commit, Later, RunningJobs
  <2> QED
    BY <1>6, <2>4, <2>5 DEF Commit
<1>7. ASSUME NEW j \in Jobs, Rollback(j)
      PROVE  TypeOK'
  BY <1>7 DEF Rollback
<1>8. CASE Migrates
  BY <1>8 DEF Migrates, CreateContexts, AddSchemaChange, AddNullValues, Constrain,
     ActionCodes
<1>9. CASE UNCHANGED vars
  BY <1>9 DEF vars
<1> QED
  BY <1>1, <1>2, <1>3, <1>4, <1>5, <1>6, <1>7, <1>8, <1>9
  DEF Next, JobStep, JobRaises, JobCrashes

-----------------------------------------------------------------------------
(***************************************************************************)
(* The invariant, action by action.                                        *)
(***************************************************************************)

LEMMA InitInvariant == Init => ContextInvariant
<1> SUFFICES ASSUME Init PROVE ContextInvariant
  OBVIOUS
<1>1. \A j \in Jobs : ~Running(j)
  BY DEF Init, Running
<1>2. TypeOK
  BY ContextAssumption DEF Init, TypeOK, Times
<1> QED
  BY <1>1, <1>2, ContextAssumption
  DEF Init, ContextInvariant, LoadedExists, WrittenInOrder, NotYetLoaded, Starting,
      Writing, LoadedIsCurrent, DatesArePast, StoredAllowed, DatedContextsAreCurrent,
      BatchesCover, Times

\* Steps that leave the jobs alone leave what is said of them alone.
LEMMA SameJobs ==
  ASSUME UNCHANGED job
  PROVE  \A j \in Jobs :
           /\ Running(j)' = Running(j)
           /\ Starting(j)' = Starting(j)
           /\ Writing(j)' = Writing(j)
           /\ Loaded(j)' = Loaded(j)
  BY DEF Running, Starting, Writing, Loaded

\* Time passes.
LEMMA TickKeeps ==
  ASSUME ContextInvariant, TypeOK', Tick
  PROVE  ContextInvariant'
<1> USE DEF ContextInvariant, Tick
<1>1. clock \in Nat /\ clock' = clock + 1
  BY DEF TypeOK, Times
<1>2. DatesArePast'
  <2>1. \A i \in Incidents : contexts[i] # NoContext => contexts[i].generatedAt \in Int
    BY DEF TypeOK, Contexts, Times
  <2>2. \A j \in Jobs : Running(j) => job[j].generatedAt \in Int
    BY DEF TypeOK, Running, RunningJobs, Times
  <2>3. finished \in Int
    BY DEF TypeOK, Times
  <2> QED
    BY <1>1, <2>1, <2>2, <2>3, SameJobs DEF DatesArePast
<1>3. LoadedExists' /\ WrittenInOrder' /\ NotYetLoaded' /\ LoadedIsCurrent'
  BY SameJobs DEF LoadedExists, WrittenInOrder, NotYetLoaded, LoadedIsCurrent
<1>4. StoredAllowed' /\ DatedContextsAreCurrent' /\ BatchesCover'
  BY DEF StoredAllowed, DatedContextsAreCurrent, BatchesCover
<1> QED
  BY <1>2, <1>3, <1>4

\* Detection changes rows and dates the change, but keeps their place in the
\* order; nothing that is dated earlier is said to be current any more.
LEMMA DetectsKeeps ==
  ASSUME ContextInvariant, TypeOK', Detects
  PROVE  ContextInvariant'
<1> USE DEF ContextInvariant
<1> PICK found \in Reports, began \in 0 .. clock, age \in Ages :
      PersistIncidents(found, began, age)
  BY DEF Detects
<1> USE DEF PersistIncidents
<1>1. clock \in Int /\ finished \in Int
  BY DEF TypeOK, Times
<1>2. \A i \in Incidents :
        /\ incidents[i] # NoRow => incidents'[i] # NoRow
        /\ incidents[i] # NoRow => incidents'[i].detectedAt = incidents[i].detectedAt
        /\ i \notin found => incidents'[i] = incidents[i] /\ changedAt'[i] = changedAt[i]
        /\ i \in found => changedAt'[i] = clock
  <2>1. \A i \in Incidents : Upserted(i, began, age) \in Rows
    BY ContextAssumption DEF Upserted, ObservedOf, Displayed, Rows, Times, TypeOK
  <2> QED
    BY <2>1, RecordAssumption DEF Upserted
<1>3. LoadedExists'
  BY <1>2, SameJobs DEF LoadedExists, Loaded
<1>4. WrittenInOrder' /\ NotYetLoaded' /\ StoredAllowed'
  BY SameJobs DEF WrittenInOrder, NotYetLoaded, StoredAllowed
<1>5. DatesArePast'
  BY SameJobs DEF DatesArePast
<1>6. LoadedIsCurrent'
  <2> SUFFICES ASSUME NEW j \in Jobs, Writing(j), NEW i \in Incidents,
                      changedAt'[i] < job[j].generatedAt
               PROVE  i \notin found
    BY <1>2, SameJobs DEF LoadedIsCurrent
  <2>1. job[j].generatedAt \in Int /\ job[j].generatedAt <= clock
    BY DEF DatesArePast, Writing, Running, TypeOK, RunningJobs, Times
  <2> QED
    BY <1>1, <1>2, <2>1
<1>7. DatedContextsAreCurrent'
  <2> SUFFICES ASSUME NEW i \in Incidents, contexts[i] # NoContext,
                      changedAt'[i] < contexts[i].generatedAt
               PROVE  i \notin found
    BY <1>2 DEF DatedContextsAreCurrent
  <2>1. contexts[i].generatedAt \in Int /\ contexts[i].generatedAt <= clock
    BY DEF DatesArePast, TypeOK, Contexts, Times
  <2> QED
    BY <1>1, <1>2, <2>1
<1>8. BatchesCover'
  <2> SUFFICES ASSUME NEW i \in Incidents, changedAt'[i] < finished
               PROVE  i \notin found
    BY <1>2 DEF BatchesCover
  <2> QED
    BY <1>1, <1>2 DEF DatesArePast
<1> QED
  BY <1>3, <1>4, <1>5, <1>6, <1>7, <1>8

\* A job begins and has loaded nothing.
LEMMA StartKeeps ==
  ASSUME ContextInvariant, TypeOK', NEW j \in Jobs, NEW target \in Targets,
         StartJob(j, target)
  PROVE  ContextInvariant'
<1> USE DEF ContextInvariant, StartJob
<1>1. job'[j].phase = "starting" /\ job'[j].generatedAt = clock
        /\ job'[j].written = {} /\ \A i \in Incidents : job'[j].loaded[i] = NoRow
  BY DEF TypeOK
<1>2. \A k \in Jobs \ {j} : job'[k] = job[k]
  BY DEF TypeOK
<1>3. Loaded(j)' = {} /\ ~Writing(j)'
  BY <1>1 DEF Loaded, Writing
<1>4. \A k \in Jobs \ {j} : /\ Running(k)' = Running(k)
                             /\ Starting(k)' = Starting(k)
                             /\ Writing(k)' = Writing(k)
                             /\ Loaded(k)' = Loaded(k)
  BY <1>2 DEF Running, Starting, Writing, Loaded
<1>5. clock \in Int
  BY DEF TypeOK, Times
<1>6. LoadedExists'
  BY <1>2, <1>3, <1>4 DEF LoadedExists
<1>7. WrittenInOrder'
  BY <1>1, <1>2, <1>4 DEF WrittenInOrder
<1>8. NotYetLoaded'
  BY <1>1, <1>2, <1>3, <1>4 DEF NotYetLoaded
<1>9. LoadedIsCurrent'
  BY <1>2, <1>3, <1>4 DEF LoadedIsCurrent
<1>10. DatesArePast'
  BY <1>1, <1>2, <1>4, <1>5 DEF DatesArePast
<1>11. StoredAllowed' /\ DatedContextsAreCurrent' /\ BatchesCover'
  BY DEF StoredAllowed, DatedContextsAreCurrent, BatchesCover
<1> QED
  BY <1>6, <1>7, <1>8, <1>9, <1>10, <1>11

\* A job loads rows as they are now: its date is no later, and a batch finds
\* every supported incident.
LEMMA LoadKeeps ==
  ASSUME ContextInvariant, TypeOK', NEW j \in Jobs, LoadIncidents(j)
  PROVE  ContextInvariant'
<1> USE DEF ContextInvariant, LoadIncidents
<1>1. job[j] \in RunningJobs /\ Starting(j) /\ Running(j)
  BY DEF TypeOK, Starting, Running
<1>2. /\ job'[j].phase = "writing" /\ job'[j].generatedAt = job[j].generatedAt
      /\ job'[j].written = {} /\ job'[j].target = job[j].target
      /\ \A i \in Incidents :
           job'[j].loaded[i] =
             IF Selected(job[j].target, i) THEN incidents[i] ELSE NoRow
  BY <1>1 DEF TypeOK, RunningJobs, NotYetLoaded
<1>3. \A k \in Jobs \ {j} : job'[k] = job[k]
  BY DEF TypeOK
<1>4. \A k \in Jobs \ {j} : /\ Running(k)' = Running(k)
                             /\ Starting(k)' = Starting(k)
                             /\ Writing(k)' = Writing(k)
                             /\ Loaded(k)' = Loaded(k)
  BY <1>3 DEF Running, Starting, Writing, Loaded
<1>5. Loaded(j)' = {i \in Incidents : Selected(job[j].target, i) /\ incidents[i] # NoRow}
  BY <1>2 DEF Loaded
<1>6. ~Starting(j)'
  BY <1>2 DEF Starting
<1>7. LoadedExists'
  <2>1. \A i \in Loaded(j)' : /\ incidents'[i] # NoRow
                              /\ job'[j].loaded[i].detectedAt = incidents'[i].detectedAt
                              /\ Selected(job'[j].target, i)
    BY <1>2, <1>5
  <2>2. ASSUME NEW k \in Jobs \ {j}, Running(k)'
        PROVE  \A i \in Loaded(k)' :
                 /\ incidents'[i] # NoRow
                 /\ job'[k].loaded[i].detectedAt = incidents'[i].detectedAt
                 /\ Selected(job'[k].target, i)
    <3>1. Running(k) /\ Loaded(k)' = Loaded(k) /\ job'[k] = job[k]
      BY <1>3, <1>4, <2>2
    <3>2. \A i \in Loaded(k) :
            /\ incidents[i] # NoRow
            /\ job[k].loaded[i].detectedAt = incidents[i].detectedAt
            /\ Selected(job[k].target, i)
      BY <3>1 DEF LoadedExists
    <3> QED
      BY <3>1, <3>2
  <2> QED
    BY <2>1, <2>2 DEF LoadedExists, Selected
<1>8. WrittenInOrder'
  BY <1>2, <1>3, <1>4 DEF WrittenInOrder
<1>9. NotYetLoaded'
  BY <1>3, <1>4, <1>6 DEF NotYetLoaded
<1>10. LoadedIsCurrent'
  <2>1. \A i \in Incidents :
          /\ i \in Loaded(j)' => job'[j].loaded[i].observed = incidents[i].observed
          /\ /\ job'[j].target = All
             /\ Type[i] \in SupportedTypes
             /\ incidents[i] # NoRow
             => i \in Loaded(j)'
    BY <1>2, <1>5 DEF Selected
  <2>2. \A k \in Jobs \ {j} : Writing(k)' =>
          \A i \in Incidents :
            changedAt[i] < job'[k].generatedAt =>
              /\ i \in Loaded(k)' => job'[k].loaded[i].observed = incidents[i].observed
              /\ /\ job'[k].target = All
                 /\ Type[i] \in SupportedTypes
                 /\ incidents[i] # NoRow
                 => i \in Loaded(k)'
    BY <1>3, <1>4 DEF LoadedIsCurrent
  <2> QED
    BY <2>1, <2>2 DEF LoadedIsCurrent
<1>11. DatesArePast'
  BY <1>1, <1>2, <1>3, <1>4 DEF DatesArePast
<1>12. StoredAllowed' /\ DatedContextsAreCurrent' /\ BatchesCover'
  BY DEF StoredAllowed, DatedContextsAreCurrent, BatchesCover
<1> QED
  BY <1>7, <1>8, <1>9, <1>10, <1>11, <1>12

\* A job upserts the earliest of what it has left.
LEMMA PersistKeeps ==
  ASSUME ContextInvariant, TypeOK', NEW j \in Jobs, NEW i \in Incidents,
         PersistContext(j, i)
  PROVE  ContextInvariant'
<1> USE DEF ContextInvariant, PersistContext
<1>1. job[j] \in RunningJobs /\ Writing(j) /\ Running(j) /\ ~Starting(j)
  BY DEF TypeOK, IsNext, Writing, Running, Starting
<1>2. /\ job'[j].phase = job[j].phase /\ job'[j].generatedAt = job[j].generatedAt
      /\ job'[j].written = job[j].written \cup {i} /\ job'[j].target = job[j].target
      /\ job'[j].loaded = job[j].loaded
  BY <1>1 DEF TypeOK, RunningJobs
<1>3. \A k \in Jobs \ {j} : job'[k] = job[k]
  BY DEF TypeOK
<1>4. \A k \in Jobs : Loaded(k)' = Loaded(k)
  BY <1>2, <1>3 DEF Loaded
<1>5. \A k \in Jobs \ {j} : /\ Running(k)' = Running(k)
                             /\ Starting(k)' = Starting(k)
                             /\ Writing(k)' = Writing(k)
  BY <1>3 DEF Running, Starting, Writing
<1>6. ~Starting(j)'
  BY <1>1, <1>2 DEF Starting, Writing
<1>7. LoadedExists'
  BY <1>1, <1>2, <1>3, <1>4, <1>5 DEF LoadedExists, Selected
<1>8. WrittenInOrder'
  <2>1. \A n \in job'[j].written :
          /\ n \in Loaded(j)'
          /\ Type[n] \in SupportedTypes
          /\ ActionOf(n) \in allowed
    BY <1>1, <1>2, <1>4 DEF WrittenInOrder, IsNext
  <2>2. \A o \in Loaded(j) \ (job[j].written \cup {i}) : Precedes(i, o, job[j].loaded)
    BY DEF IsNext
  <2>3. \A n \in job'[j].written : \A o \in Loaded(j)' \ job'[j].written :
          Precedes(n, o, job'[j].loaded)
    BY <1>1, <1>2, <1>4, <2>2 DEF WrittenInOrder
  <2> QED
    BY <1>3, <1>4, <1>5, <2>1, <2>3 DEF WrittenInOrder
<1>9. NotYetLoaded'
  BY <1>3, <1>4, <1>5, <1>6 DEF NotYetLoaded
<1>10. LoadedIsCurrent'
  BY <1>1, <1>2, <1>3, <1>4, <1>5 DEF LoadedIsCurrent
<1>11. DatesArePast'
  BY <1>1, <1>2, <1>3, <1>5 DEF DatesArePast
<1>12. StoredAllowed' /\ DatedContextsAreCurrent' /\ BatchesCover'
  BY DEF StoredAllowed, DatedContextsAreCurrent, BatchesCover
<1> QED
  BY <1>7, <1>8, <1>9, <1>10, <1>11, <1>12

\* When a job ends, what is said of the other jobs stays.
LEMMA EndKeeps ==
  ASSUME LoadedExists, WrittenInOrder, NotYetLoaded, LoadedIsCurrent, TypeOK,
         NEW j \in Jobs, job' = [job EXCEPT ![j] = Ended],
         UNCHANGED <<clock, incidents, changedAt, allowed>>
  PROVE  /\ LoadedExists' /\ WrittenInOrder' /\ NotYetLoaded' /\ LoadedIsCurrent'
         /\ \A k \in Jobs : Running(k)' => Running(k) /\ job'[k] = job[k]
<1>1. job'[j] = Ended /\ \A k \in Jobs \ {j} : job'[k] = job[k]
  BY DEF TypeOK
<1>2. ~Running(j)' /\ ~Starting(j)' /\ ~Writing(j)'
  BY <1>1 DEF Running, Starting, Writing
<1>3. \A k \in Jobs \ {j} : /\ Running(k)' = Running(k)
                             /\ Starting(k)' = Starting(k)
                             /\ Writing(k)' = Writing(k)
                             /\ Loaded(k)' = Loaded(k)
  BY <1>1 DEF Running, Starting, Writing, Loaded
<1>4. LoadedExists' /\ NotYetLoaded'
  BY <1>1, <1>2, <1>3 DEF LoadedExists, NotYetLoaded
<1>5. WrittenInOrder'
  BY <1>1, <1>2, <1>3 DEF WrittenInOrder
<1>6. LoadedIsCurrent'
  BY <1>1, <1>2, <1>3 DEF LoadedIsCurrent
<1> QED
  BY <1>1, <1>2, <1>3, <1>4, <1>5, <1>6

\* A job's contexts are stored.
LEMMA CommitKeeps ==
  ASSUME ContextInvariant, TypeOK', NEW j \in Jobs, Commit(j)
  PROVE  ContextInvariant'
<1> USE DEF ContextInvariant, Commit
<1>1. job[j] \in RunningJobs /\ Writing(j) /\ Running(j)
  BY DEF TypeOK, Writing, Running
<1>2. job[j].generatedAt \in Int /\ job[j].generatedAt <= clock /\ finished \in Int
  BY <1>1 DEF DatesArePast, RunningJobs, Times, TypeOK
<1>3. /\ LoadedExists' /\ WrittenInOrder' /\ NotYetLoaded' /\ LoadedIsCurrent'
      /\ \A k \in Jobs : Running(k)' => Running(k) /\ job'[k] = job[k]
  BY EndKeeps
<1>4. \A i \in Incidents :
        /\ i \in job[j].written =>
             /\ contexts'[i].action = ActionOf(i)
             /\ contexts'[i].observed = job[j].loaded[i].observed
             /\ contexts'[i].generatedAt = job[j].generatedAt
             /\ contexts'[i] # NoContext
        /\ i \notin job[j].written => contexts'[i] = contexts[i]
  <2>1. \A i \in job[j].written :
          ContextOf(i, job[j].loaded[i].observed, job[j].generatedAt) \in Contexts
    BY <1>1, ContextsAreTyped DEF RunningJobs, Rows, Loaded
  <2> QED
    BY <2>1, RecordAssumption DEF ContextOf
<1>5. DatesArePast'
  BY <1>2, <1>3, <1>4 DEF DatesArePast, Later
<1>6. StoredAllowed'
  BY <1>1, <1>4 DEF StoredAllowed, WrittenInOrder
<1>7. DatedContextsAreCurrent'
  BY <1>1, <1>4 DEF DatedContextsAreCurrent, LoadedIsCurrent
<1>8. BatchesCover'
  <2> SUFFICES ASSUME NEW i \in Incidents, Type[i] \in SupportedTypes,
                      incidents[i] # NoRow, changedAt[i] < finished'
               PROVE  contexts'[i] # NoContext
    BY DEF BatchesCover
  <2>1. CASE changedAt[i] < finished
    BY <1>4, <2>1 DEF BatchesCover
  <2>2. CASE job[j].target = All /\ changedAt[i] < job[j].generatedAt
    <3>1. i \in Loaded(j)
      BY <1>1, <2>2 DEF LoadedIsCurrent
    <3> QED
      BY <1>4, <3>1
  <2> QED
    BY <2>1, <2>2 DEF Later
<1> QED
  BY <1>3, <1>5, <1>6, <1>7, <1>8

\* A job that fails leaves the tables as they were.
LEMMA RollbackKeeps ==
  ASSUME ContextInvariant, TypeOK', NEW j \in Jobs, Rollback(j)
  PROVE  ContextInvariant'
<1> USE DEF ContextInvariant, Rollback
<1>1. /\ LoadedExists' /\ WrittenInOrder' /\ NotYetLoaded' /\ LoadedIsCurrent'
      /\ \A k \in Jobs : Running(k)' => Running(k) /\ job'[k] = job[k]
  BY EndKeeps
<1>2. DatesArePast'
  BY <1>1 DEF DatesArePast
<1>3. StoredAllowed' /\ DatedContextsAreCurrent' /\ BatchesCover'
  BY DEF StoredAllowed, DatedContextsAreCurrent, BatchesCover
<1> QED
  BY <1>1, <1>2, <1>3

\* A migration finds no uncommitted context, and stored ones meet what it adds.
LEMMA MigratesKeeps ==
  ASSUME ContextInvariant, TypeOK', Migrates
  PROVE  ContextInvariant'
<1> USE DEF ContextInvariant
<1>1. UNCHANGED <<clock, incidents, changedAt, contexts, job, finished>>
  BY DEF Migrates, CreateContexts, AddSchemaChange, AddNullValues, Constrain
<1>2. StoredAllowed'
  <2>1. \A i \in Incidents : contexts[i] # NoContext => contexts[i].action \in ActionCodes
    BY DEF TypeOK, Contexts
  <2>2. CASE CreateContexts
    BY <2>2 DEF CreateContexts, Constrain, StoredAllowed
  <2>3. CASE AddSchemaChange
    BY <2>1, <2>3 DEF AddSchemaChange, Constrain, StoredAllowed, ActionCodes
  <2>4. CASE AddNullValues
    BY <2>1, <2>4 DEF AddNullValues, Constrain, StoredAllowed
  <2> QED
    BY <2>2, <2>3, <2>4 DEF Migrates
<1>3. \A j \in Jobs : Running(j) => job[j].written = {}
  BY DEF Migrates, CreateContexts, AddSchemaChange, AddNullValues, Unwritten,
     WrittenInOrder
<1>4. WrittenInOrder'
  BY <1>1, <1>3, SameJobs DEF WrittenInOrder
<1>5. LoadedExists' /\ NotYetLoaded' /\ LoadedIsCurrent'
  BY <1>1, SameJobs DEF LoadedExists, NotYetLoaded, LoadedIsCurrent
<1>6. DatesArePast' /\ DatedContextsAreCurrent' /\ BatchesCover'
  BY <1>1, SameJobs DEF DatesArePast, DatedContextsAreCurrent, BatchesCover
<1> QED
  BY <1>2, <1>4, <1>5, <1>6

-----------------------------------------------------------------------------
(***************************************************************************)
(* The theorems.                                                           *)
(***************************************************************************)

\* Every step keeps the invariant.
LEMMA NextKeeps == ContextInvariant /\ [Next]_vars => ContextInvariant'
<1> SUFFICES ASSUME ContextInvariant, [Next]_vars PROVE ContextInvariant'
  OBVIOUS
<1>0. TypeOK'
  BY TypeStep DEF ContextInvariant
<1>1. CASE Tick
  BY <1>0, <1>1, TickKeeps
<1>2. CASE Detects
  BY <1>0, <1>2, DetectsKeeps
<1>3. ASSUME NEW j \in Jobs, NEW target \in Targets, StartJob(j, target)
      PROVE  ContextInvariant'
  BY <1>0, <1>3, StartKeeps
<1>4. ASSUME NEW j \in Jobs, JobStep(j)
      PROVE  ContextInvariant'
  BY <1>0, <1>4, LoadKeeps, PersistKeeps, CommitKeeps DEF JobStep
<1>5. ASSUME NEW j \in Jobs, JobRaises(j) \/ JobCrashes(j)
      PROVE  ContextInvariant'
  BY <1>0, <1>5, RollbackKeeps DEF JobRaises, JobCrashes
<1>6. CASE Migrates
  BY <1>0, <1>6, MigratesKeeps
<1>7. CASE UNCHANGED vars
  <2>1. UNCHANGED job
    BY <1>7 DEF vars
  <2> QED
    BY <1>0, <1>7, <2>1, SameJobs
    DEF vars, ContextInvariant, LoadedExists, WrittenInOrder, NotYetLoaded,
        LoadedIsCurrent, DatesArePast, StoredAllowed, DatedContextsAreCurrent,
        BatchesCover
<1> QED
  BY <1>1, <1>2, <1>3, <1>4, <1>5, <1>6, <1>7 DEF Next

\* What jobs have loaded and written stays true of the tables until they
\* commit, whatever detections, migrations and other jobs do meanwhile.
THEOREM ContextIsInvariant == Spec => []ContextInvariant
  BY InitInvariant, NextKeeps, PTL DEF Spec

\* Concurrent jobs wait for each other only along one order of the incidents,
\* so that they cannot deadlock.
THEOREM JobsWaitForward == Spec => []WaitsGoForward
<1>1. ContextInvariant => WaitsGoForward
  <2> SUFFICES ASSUME ContextInvariant, NEW j \in Jobs, NEW k \in Jobs,
                      NEW i \in Incidents, NEW o \in Incidents,
                      WaitsFor(j, k, i), IsNext(k, o)
               PROVE  Precedes(i, o, incidents)
    BY DEF WaitsGoForward
  <2>1. Running(k) /\ i \in job[k].written /\ o \in Loaded(k) \ job[k].written
    BY DEF WaitsFor, IsNext, Writing
  <2>2. Precedes(i, o, job[k].loaded) /\ i \in Loaded(k)
    BY <2>1 DEF ContextInvariant, WrittenInOrder
  <2>3. /\ job[k].loaded[i].detectedAt = incidents[i].detectedAt
        /\ job[k].loaded[o].detectedAt = incidents[o].detectedAt
    BY <2>1, <2>2 DEF ContextInvariant, LoadedExists
  <2> QED
    BY <2>2, <2>3 DEF Precedes
<1> QED
  BY <1>1, ContextIsInvariant, PTL

\* A context dated after its incident last changed describes it as it is.
THEOREM DatesAreHonest == Spec => []DatedContextsAreCurrent
<1>1. ContextInvariant => DatedContextsAreCurrent
  BY DEF ContextInvariant
<1> QED
  BY <1>1, ContextIsInvariant, PTL

\* A committed batch left out no supported incident that was there before.
THEOREM NothingIsLeftOut == Spec => []BatchesCover
<1>1. ContextInvariant => BatchesCover
  BY DEF ContextInvariant
<1> QED
  BY <1>1, ContextIsInvariant, PTL

\* Contexts meet the constraint in force, and a fully migrated table rejects
\* no batch.
THEOREM ContextsMeetConstraint == Spec => []ContextsConform
<1>1. ContextInvariant => ContextsConform
  <2> SUFFICES ASSUME ContextInvariant PROVE ContextsConform
    OBVIOUS
  <2>1. \A i \in Incidents : contexts[i] # NoContext => contexts[i].action \in allowed
    BY DEF ContextInvariant, StoredAllowed
  <2>2. \A j \in Jobs : Running(j) => \A i \in job[j].written : ActionOf(i) \in allowed
    BY DEF ContextInvariant, WrittenInOrder
  <2>3. ASSUME NEW j \in Jobs, Running(j), job[j].target = All, allowed = ActionCodes
        PROVE  ~Rejected(j)
    <3>1. ASSUME NEW i \in Incidents, IsNext(j, i)
          PROVE  Type[i] \in SupportedTypes /\ ActionOf(i) \in allowed
      <4>1. Selected(All, i)
        BY <2>3, <3>1 DEF ContextInvariant, LoadedExists, IsNext
      <4> QED
        BY <2>3, <4>1, ContextAssumption DEF Selected, ActionOf, ActionCodes
    <3> QED
      BY <2>3, <3>1 DEF Rejected
  <2> QED
    BY <2>1, <2>2, <2>3 DEF ContextsConform
<1> QED
  BY <1>1, ContextIsInvariant, PTL

-----------------------------------------------------------------------------
(***************************************************************************)
(* An age is compared with the threshold twice: exactly by detection, and  *)
(* as displayed, in hundredths of an hour, by the context rules.           *)
(***************************************************************************)

\* What detection can store as observed_value of an incident.
Observable(i) ==
  IF Type[i] = "STALE_DATA" THEN {Displayed(age) : age \in Ages} ELSE {NoValue}

\* Rows, what jobs have loaded of them, and contexts hold what a detection
\* observed, and a context what the rules make of it.
ObservationsKept ==
  /\ \A i \in Incidents : incidents[i] # NoRow => incidents[i].observed \in Observable(i)
  /\ \A j \in Jobs : Running(j) =>
       \A i \in Loaded(j) : job[j].loaded[i].observed \in Observable(i)
  /\ \A i \in Incidents : contexts[i] # NoContext =>
       \E observed \in Observable(i), at \in Times :
         contexts[i] = ContextOf(i, observed, at)

\* A context says that a table which detection found too old is within its
\* threshold only if the age exceeds it by one unit of time, which is less
\* than half of the last digit displayed.
RoundingMisleadsAtTheEdgeOnly ==
  \A i \in Incidents :
    contexts[i] # NoContext /\ contexts[i].evaluation = "WITHIN_THRESHOLD" =>
      \E age \in Ages :
        contexts[i].observed = Displayed(age) /\ age = 300 * ThresholdHours + 1

\* A detection stores what it observed.
LEMMA DetectsObserved ==
  ASSUME TypeOK, ObservationsKept, Detects
  PROVE  ObservationsKept'
<1> PICK found \in Reports, began \in 0 .. clock, age \in Ages :
      PersistIncidents(found, began, age)
  BY DEF Detects
<1>1. \A i \in Incidents : Upserted(i, began, age).observed \in Observable(i)
  BY DEF Upserted, ObservedOf, Observable
<1>2. \A i \in Incidents : incidents'[i] # NoRow => incidents'[i].observed \in Observable(i)
  BY <1>1 DEF PersistIncidents, ObservationsKept
<1> QED
  BY <1>2, SameJobs DEF PersistIncidents, ObservationsKept

\* A job stores contexts of what it has loaded.
LEMMA CommitObserved ==
  ASSUME ContextInvariant, ObservationsKept, NEW j \in Jobs, Commit(j)
  PROVE  ObservationsKept'
<1>1. /\ job[j] \in RunningJobs /\ Running(j)
      /\ job'[j] = Ended /\ \A k \in Jobs \ {j} : job'[k] = job[k]
  BY DEF ContextInvariant, TypeOK, Commit, Writing, Running
<1>2. \A i \in job[j].written : job[j].loaded[i].observed \in Observable(i)
  BY <1>1 DEF ObservationsKept, ContextInvariant, WrittenInOrder
<1>3. ASSUME NEW i \in Incidents, contexts'[i] # NoContext
      PROVE  \E observed \in Observable(i), at \in Times :
               contexts'[i] = ContextOf(i, observed, at)
  <2>1. CASE i \in job[j].written
    <3>1. contexts'[i] = ContextOf(i, job[j].loaded[i].observed, job[j].generatedAt)
      BY <2>1 DEF Commit
    <3>2. job[j].generatedAt \in Times
      BY <1>1 DEF RunningJobs
    <3> QED
      BY <1>2, <2>1, <3>1, <3>2
  <2>2. CASE i \notin job[j].written
    <3>1. contexts'[i] = contexts[i]
      BY <2>2 DEF Commit
    <3> QED
      BY <1>3, <3>1 DEF ObservationsKept
  <2> QED
    BY <2>1, <2>2
<1>4. \A k \in Jobs : Running(k)' => Running(k) /\ job'[k] = job[k]
  BY <1>1 DEF Running
<1> QED
  BY <1>3, <1>4 DEF Commit, ObservationsKept, Loaded

LEMMA StepObserved ==
  ContextInvariant /\ ObservationsKept /\ [Next]_vars => ObservationsKept'
<1> SUFFICES ASSUME ContextInvariant, ObservationsKept, [Next]_vars
             PROVE  ObservationsKept'
  OBVIOUS
<1>0. TypeOK
  BY DEF ContextInvariant
<1>1. CASE Tick \/ Migrates \/ UNCHANGED vars
  <2>1. UNCHANGED <<incidents, contexts, job>>
    BY <1>1 DEF Tick, Migrates, CreateContexts, AddSchemaChange, AddNullValues,
       Constrain, vars
  <2> QED
    BY <2>1, SameJobs DEF ObservationsKept
<1>2. CASE Detects
  BY <1>0, <1>2, DetectsObserved
<1>3. ASSUME NEW j \in Jobs, NEW target \in Targets, StartJob(j, target)
      PROVE  ObservationsKept'
  <2>1. /\ \A i \in Incidents : job'[j].loaded[i] = NoRow
        /\ \A k \in Jobs \ {j} : job'[k] = job[k]
    BY <1>0, <1>3 DEF StartJob, TypeOK
  <2> QED
    BY <1>3, <2>1 DEF StartJob, ObservationsKept, Loaded, Running
<1>4. ASSUME NEW j \in Jobs, LoadIncidents(j)
      PROVE  ObservationsKept'
  <2>1. /\ \A i \in Incidents : job'[j].loaded[i] \in {incidents[i], NoRow}
        /\ \A k \in Jobs \ {j} : job'[k] = job[k]
    BY <1>0, <1>4 DEF LoadIncidents, TypeOK, Starting, Running, RunningJobs
  <2> QED
    BY <1>4, <2>1 DEF LoadIncidents, ObservationsKept, Loaded, Running
<1>5. ASSUME NEW j \in Jobs, NEW i \in Incidents, PersistContext(j, i)
      PROVE  ObservationsKept'
  <2>1. /\ job'[j].loaded = job[j].loaded /\ Running(j)
        /\ \A k \in Jobs \ {j} : job'[k] = job[k]
    BY <1>0, <1>5 DEF PersistContext, IsNext, TypeOK, Writing, Running, RunningJobs
  <2> QED
    BY <1>5, <2>1 DEF PersistContext, ObservationsKept, Loaded, Running
<1>6. ASSUME NEW j \in Jobs, Commit(j) PROVE ObservationsKept'
  BY <1>6, CommitObserved
<1>7. ASSUME NEW j \in Jobs, JobRaises(j) \/ JobCrashes(j) PROVE ObservationsKept'
  <2>1. /\ UNCHANGED <<incidents, contexts>>
        /\ \A k \in Jobs : Running(k)' => Running(k) /\ job'[k] = job[k]
    BY <1>0, <1>7 DEF JobRaises, JobCrashes, Rollback, TypeOK, Running
  <2> QED
    BY <2>1 DEF ObservationsKept, Loaded
<1> QED
  BY <1>1, <1>2, <1>3, <1>4, <1>5, <1>6, <1>7 DEF Next, JobStep

\* Whatever ages detections find, whichever job stores the context: it tells
\* a table too old wherever the displayed digits can tell it.
THEOREM StalenessIsTold == Spec => []RoundingMisleadsAtTheEdgeOnly
<1>1. Init => ObservationsKept
  BY DEF Init, ObservationsKept, Running
<1>2. ASSUME ObservationsKept PROVE RoundingMisleadsAtTheEdgeOnly
  <2> SUFFICES ASSUME NEW i \in Incidents, contexts[i] # NoContext,
                      contexts[i].evaluation = "WITHIN_THRESHOLD"
               PROVE  \E age \in Ages :
                        /\ contexts[i].observed = Displayed(age)
                        /\ age = 300 * ThresholdHours + 1
    BY DEF RoundingMisleadsAtTheEdgeOnly
  <2>1. PICK observed \in Observable(i), at \in Times :
          contexts[i] = ContextOf(i, observed, at)
    BY <1>2 DEF ObservationsKept
  <2>2. /\ contexts[i].observed = observed
        /\ Type[i] = "STALE_DATA" /\ EvaluateFreshness(observed) = "WITHIN_THRESHOLD"
    BY <2>1 DEF ContextOf
  <2>3. PICK age \in Ages : observed = Displayed(age)
    BY <2>2 DEF Observable
  <2>4. age \in Nat /\ Exceeding(age) /\ ThresholdHours \in Nat
    BY ContextAssumption
  <2>5. (age + 1) \div 3 <= 100 * ThresholdHours
    BY <2>2, <2>3, <2>4 DEF EvaluateFreshness, Displayed
  <2>6. age = 300 * ThresholdHours + 1
    BY <2>4, <2>5 DEF Exceeding
  <2> QED
    BY <2>2, <2>3, <2>4, <2>6
<1> QED
  BY <1>1, <1>2, StepObserved, ContextIsInvariant, PTL DEF Spec

-----------------------------------------------------------------------------
(***************************************************************************)
(* Waiting jobs.  The argument: a job waits only for one that is at a      *)
(* later incident, and there are finitely many, so that a job at the last  *)
(* of the incidents that are waited for does not wait.                     *)
(***************************************************************************)

Waits(j) == \E i \in Incidents, k \in Jobs : WaitsFor(j, k, i)

\* j has a statement that waits for no lock, or an error to raise: the
\* conditions of the actions of JobStep and of JobRaises.
CanGoOn(j) ==
  \/ Starting(j)
  \/ Writing(j) /\ Loaded(j) = job[j].written
  \/ (\E i \in Incidents : IsNext(j, i)) /\ (Rejected(j) \/ ~Waits(j))

\* While jobs run, one of them can go on.
SomeJobGoesOn ==
  (\E j \in Jobs : Running(j)) => \E j \in Jobs : Running(j) /\ CanGoOn(j)

\* Of finitely many things in an order, one is followed by none.
LEMMA LastMember ==
  ASSUME NEW S, IsFiniteSet(S), NEW T \in SUBSET S, T # {},
         NEW After \in [S -> SUBSET S],
         \A x, y \in T : y \in After[x] => After[y] \subseteq After[x] /\ y \notin After[y]
  PROVE  \E x \in T : T \cap After[x] = {}
<1> DEFINE Sets == {After[x] : x \in T}
<1>1. Sets \subseteq SUBSET S /\ Sets # {}
  OBVIOUS
<1>2. IsWellFoundedOn(StrictSubsetOrdering(S), SUBSET S)
  BY FS_StrictSubsetOrderingWellFounded, FS_FiniteSubsetsOfFinite
<1>3. PICK A \in Sets : \A B \in Sets : ~(<<B, A>> \in StrictSubsetOrdering(S))
  <2> HIDE DEF Sets
  <2> QED
    BY <1>1, <1>2, WFMin
<1>4. PICK x \in T : A = After[x]
  OBVIOUS
<1>5. \A y \in T : ~(After[y] \subseteq After[x] /\ After[y] # After[x])
  BY <1>3, <1>4 DEF StrictSubsetOrdering
<1> QED
  BY <1>5

\* The order of incidents is total and strict.
LEMMA PrecedesOrders ==
  ASSUME NEW S \in SUBSET Incidents, NEW rows, \A i \in S : rows[i].detectedAt \in Int
  PROVE  /\ \A i \in S : ~Precedes(i, i, rows)
         /\ \A i, o, n \in S :
              Precedes(i, o, rows) /\ Precedes(o, n, rows) => Precedes(i, n, rows)
         /\ \A i, o \in S : i = o \/ Precedes(i, o, rows) \/ Precedes(o, i, rows)
<1>1. \A i \in S : Rank[i] \in Int
  BY ContextAssumption
<1>2. \A i, o \in S : Rank[i] = Rank[o] => i = o
  BY ContextAssumption
<1> QED
  BY <1>1, <1>2 DEF Precedes

\* What a job has loaded, and the incidents it is about, have dates.
LEMMA LoadedHasDates ==
  ASSUME ContextInvariant, NEW j \in Jobs, Running(j)
  PROVE  /\ job[j].written \subseteq Loaded(j) /\ Loaded(j) \subseteq Incidents
         /\ \A i \in Loaded(j) :
              /\ job[j].loaded[i].detectedAt \in Int
              /\ incidents[i] # NoRow /\ incidents[i].detectedAt \in Int
<1>1. job[j] \in RunningJobs
  BY DEF ContextInvariant, TypeOK, Running
<1>2. \A i \in Loaded(j) :
        /\ job[j].loaded[i] \in Rows
        /\ incidents[i] # NoRow /\ incidents[i] \in Rows
  BY <1>1 DEF ContextInvariant, TypeOK, LoadedExists, Loaded, RunningJobs
<1>3. job[j].written \subseteq Loaded(j)
  BY DEF ContextInvariant, WrittenInOrder
<1> QED
  BY <1>2, <1>3 DEF Loaded, Rows, Times

\* A job that has not written all it has loaded has a next incident.
LEMMA NextExists ==
  ASSUME IsFiniteSet(Incidents), ContextInvariant, NEW j \in Jobs,
         Writing(j), Loaded(j) # job[j].written
  PROVE  \E i \in Incidents : IsNext(j, i)
<1> DEFINE Left == Loaded(j) \ job[j].written
           rows == job[j].loaded
           Before == [i \in Incidents |-> {o \in Left : Precedes(o, i, rows)}]
<1>1. /\ job[j].written \subseteq Loaded(j) /\ Loaded(j) \subseteq Incidents
      /\ \A i \in Loaded(j) : rows[i].detectedAt \in Int
  BY LoadedHasDates DEF Writing
<1>2. Left \in SUBSET Incidents /\ Left # {} /\ \A i \in Left : rows[i].detectedAt \in Int
  BY <1>1
<1> HIDE DEF Left, rows
<1>3. Before \in [Incidents -> SUBSET Incidents]
  BY <1>2
<1>4. \A x, y \in Left : y \in Before[x] => Before[y] \subseteq Before[x] /\ y \notin Before[y]
  BY <1>2, PrecedesOrders
<1>5. PICK i \in Left : Left \cap Before[i] = {}
  <2> HIDE DEF Before
  <2> QED
    BY <1>2, <1>3, <1>4, LastMember
<1>6. \A o \in Left \ {i} : Precedes(i, o, rows)
  BY <1>2, <1>5, PrecedesOrders
<1> QED
  BY <1>2, <1>6 DEF IsNext, Left, rows

\* However many jobs run, and whatever detections and migrations do meanwhile,
\* they never all wait for each other.
THEOREM JobsNeverAllWait ==
  ASSUME IsFiniteSet(Incidents) PROVE Spec => []SomeJobGoesOn
<1>1. ASSUME ContextInvariant, WaitsGoForward PROVE SomeJobGoesOn
  <2> SUFFICES ASSUME NEW j0 \in Jobs, Running(j0),
                      \A j \in Jobs : Running(j) => ~CanGoOn(j)
               PROVE  FALSE
    BY DEF SomeJobGoesOn
  <2>1. ASSUME NEW j \in Jobs, Running(j)
        PROVE  /\ \E i \in Incidents : IsNext(j, i)
               /\ Waits(j)
    <3>1. job[j] \in RunningJobs
      BY <1>1, <2>1 DEF ContextInvariant, TypeOK, Running
    <3>2. Writing(j) /\ Loaded(j) # job[j].written
      BY <2>1, <3>1 DEF CanGoOn, Starting, Writing, RunningJobs
    <3>3. \E i \in Incidents : IsNext(j, i)
      BY <1>1, <3>2, NextExists
    <3> QED
      BY <2>1, <3>3 DEF CanGoOn
  <2> DEFINE Awaited == {i \in Incidents : \E j \in Jobs : Running(j) /\ IsNext(j, i)}
             After == [i \in Incidents |-> {o \in Awaited : Precedes(i, o, incidents)}]
  <2>2. Awaited \in SUBSET Incidents /\ Awaited # {}
    BY <2>1
  <2>3. \A i \in Awaited : incidents[i].detectedAt \in Int
    BY <1>1, LoadedHasDates DEF IsNext
  <2>4. ASSUME NEW i \in Awaited PROVE \E o \in Awaited : Precedes(i, o, incidents)
    <3>1. PICK j \in Jobs : Running(j) /\ IsNext(j, i)
      OBVIOUS
    <3>2. PICK n \in Incidents, k \in Jobs : WaitsFor(j, k, n)
      BY <2>1, <3>1 DEF Waits
    <3>3. n \in Awaited /\ Running(k)
      BY <3>1, <3>2 DEF WaitsFor, Writing
    <3>4. PICK o \in Incidents : IsNext(k, o)
      BY <2>1, <3>3
    <3>5. Precedes(n, o, incidents) /\ o \in Awaited
      BY <1>1, <3>2, <3>3, <3>4 DEF WaitsGoForward
    <3>6. n = i
      <4>1. Running(j) /\ IsNext(j, n)
        BY <3>1, <3>2 DEF WaitsFor
      <4>2. \A x \in Loaded(j) : job[j].loaded[x].detectedAt \in Int
        BY <1>1, <4>1, LoadedHasDates
      <4>3. {i, n} \in SUBSET Incidents /\ {i, n} \subseteq Loaded(j) \ job[j].written
        BY <3>1, <4>1 DEF IsNext
      <4>4. i # n => Precedes(i, n, job[j].loaded) /\ Precedes(n, i, job[j].loaded)
        BY <3>1, <4>1, <4>3 DEF IsNext
      <4> QED
        BY <4>2, <4>3, <4>4, PrecedesOrders
    <3> QED
      BY <3>5, <3>6
  <2> HIDE DEF Awaited
  <2>5. After \in [Incidents -> SUBSET Incidents]
    BY <2>2
  <2>6. \A x, y \in Awaited : y \in After[x] => After[y] \subseteq After[x] /\ y \notin After[y]
    BY <2>2, <2>3, PrecedesOrders
  <2>7. PICK i \in Awaited : Awaited \cap After[i] = {}
    <3> HIDE DEF After
    <3> QED
      BY <2>2, <2>5, <2>6, LastMember
  <2> QED
    BY <2>2, <2>4, <2>7
<1> QED
  BY <1>1, ContextIsInvariant, JobsWaitForward, PTL
=============================================================================
