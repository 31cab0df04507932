------------------------- MODULE ValidationScenarios -------------------------
(***************************************************************************)
(* The validation scenarios: scripts that interrupt or mislead a           *)
(* deployment through the docker, Airflow and API clients, watch how it    *)
(* recovers, and must leave it as they found it. A command may fail with   *)
(* its effect, without it or, when it recreates containers, halfway; every *)
(* wait may time out. A script is a sequence of steps, a step a command    *)
(* and its subject; "safety" is the part of a script in its finally.       *)
(***************************************************************************)
EXTENDS Naturals, Sequences

CONSTANTS
  Scenarios,  \* the scenarios an operator may run
  MaxFaults   \* bound on commands that fail though the platform is well

Frames == {"scheduler", "postgres", "invalid", "retry"}

ASSUME ScenariosAssumption == Scenarios \subseteq Frames
ASSUME FaultsAssumption == MaxFaults \in Nat

VARIABLES
  top,        \* the scenario asked for
  keeping,    \* the operator asked to retain the copied data
  frame,      \* the one executing: "retry" executes "invalid" within
  mode,       \* the part executing: "main", "safety", "closing" or "done"
  at,         \* the position in that part
  pending,    \* an exception waits for the restoration to end
  flagged,    \* the script remembers that it has something to restore
  known,      \* the runs whose id the script has
  said,       \* what the API told of the two equal triggers
  status, failed,  \* result of each scenario and whether it has errors
  restored,   \* "tier_b_restored" of the report
  exit,       \* exit code of the runner
  faults,
  up, dataset, runs, warehouse, \* the platform
  workdir     \* the copied data and the override exist

script == <<top, keeping, frame, mode, at, pending, flagged, known, said, status,
            failed, restored, exit>>
platform == <<up, dataset, runs, warehouse, workdir>>
vars == <<script, faults, platform>>

Services == {"scheduler", "postgres"}
Datasets == {"standard", "invalid"}
Roles == {"first", "second", "api", "invalid", "recovery"}
Terminal == {"success", "testFailed", "otherFailed"}
RunStates == {"none", "queued", "loaded"} \cup Terminal
Codes == {0, 201, 409, 503}
NoExit == 9
-----------------------------------------------------------------------------
Health == <<"health", "all">>

SchedulerScript ==
  <<Health, <<"trigger", "first">>, <<"active", "first">>,
    <<"stop", "scheduler">>, <<"start", "scheduler">>, <<"await", "scheduler">>,
    <<"terminal", "first">>>>

PostgresScript ==
  <<Health, <<"trigger", "first">>, <<"active", "first">>,
    <<"stop", "postgres">>, <<"start", "postgres">>, <<"await", "postgres">>, Health,
    <<"terminal", "first">>, <<"trigger", "recovery">>, <<"terminal", "recovery">>,
    <<"counts", "all">>>>

\* Mutant: the recovery run comes before the restoration.
RecoveryFirst ==
  <<Health, <<"copy", "dataset">>,
    <<"recreate", "invalid">>, <<"expect", "invalid">>, <<"trigger", "invalid">>,
    <<"terminal", "invalid">>, <<"evidence", "invalid">>, <<"trigger", "recovery">>,
    <<"recreate", "standard">>, <<"expect", "standard">>,
    <<"terminal", "recovery">>, <<"counts", "all">>, Health>>

InvalidScript ==
  <<Health, <<"copy", "dataset">>,
    <<"recreate", "invalid">>, <<"expect", "invalid">>, <<"trigger", "invalid">>,
    <<"terminal", "invalid">>, <<"evidence", "invalid">>,
    <<"recreate", "standard">>, <<"expect", "standard">>,
    <<"trigger", "recovery">>, <<"terminal", "recovery">>, <<"counts", "all">>, Health>>

RetryScript ==
  <<Health, <<"expect", "standard">>, <<"counts", "all">>,
    <<"trigger", "first">>, <<"terminal", "first">>, <<"counts", "all">>,
    <<"trigger", "second">>, <<"terminal", "second">>, <<"counts", "all">>,
    <<"post", 1>>, <<"post", 2>>, <<"list", "api">>, <<"terminal", "api">>,
    <<"call", "invalid">>, <<"find", "invalid">>, <<"find", "recovery">>,
    <<"counts", "all">>, Health>>

SchedulerSafety == <<<<"start", "scheduler">>>>
PostgresSafety == <<<<"start", "postgres">>, <<"await", "postgres">>>>
InvalidSafety == <<<<"recreate", "standard">>, <<"expect", "standard">>>>

MainPart(f) ==
  CASE f = "scheduler" -> SchedulerScript
    [] f = "postgres" -> PostgresScript
    [] f = "invalid" -> InvalidScript
    [] f = "retry" -> RetryScript

SafetyPart(f) ==
  CASE f = "scheduler" -> SchedulerSafety
    [] f = "postgres" -> PostgresSafety
    [] f = "invalid" -> InvalidSafety
    [] f = "retry" -> <<>>

Part == IF mode = "main" THEN MainPart(frame) ELSE SafetyPart(frame)
Position(f, step) == CHOOSE i \in DOMAIN MainPart(f) : MainPart(f)[i] = step
AtStep == mode \in {"main", "safety"} /\ at \in DOMAIN Part
Verb == Part[at][1]
Subject == Part[at][2]

\* Steps between the two recreations run under a finally of their own.
Guarded ==
  /\ frame = "invalid" /\ mode = "main"
  /\ at \in 3..(Position("invalid", <<"recreate", "standard">>) - 1)

Init ==
  /\ top \in Scenarios /\ frame = top /\ keeping \in BOOLEAN
  /\ mode = "main" /\ at = 1 /\ pending = FALSE /\ flagged = FALSE
  /\ known = {} /\ said = <<0, 0>>
  /\ status = [f \in Frames |-> "ERROR"]
  /\ failed = [f \in Frames |-> FALSE]
  /\ restored = FALSE /\ exit = NoExit /\ faults = 0
  /\ up = [s \in Services |-> TRUE] /\ dataset = "standard"
  /\ runs = [r \in Roles |-> "none"] /\ warehouse = "standard"
  /\ workdir = FALSE
-----------------------------------------------------------------------------
\* The platform. A run loads the data its scheduler is configured with.
AllUp == \A s \in Services : up[s]

LoadRawData(r) ==
  /\ AllUp /\ runs[r] = "queued"
  /\ runs' = [runs EXCEPT ![r] = "loaded"]
  /\ warehouse' = dataset
  /\ UNCHANGED <<script, faults, up, dataset, workdir>>

RunEnds(r) ==
  /\ AllUp
  /\ \E outcome \in Terminal :
       /\ outcome # "otherFailed" =>
            runs[r] = "loaded" /\ (outcome = "success" <=> warehouse = "standard")
       /\ runs[r] \in {"queued", "loaded"}
       /\ runs' = [runs EXCEPT ![r] = outcome]
  /\ UNCHANGED <<script, faults, up, dataset, warehouse, workdir>>

\* What the clients can see: the commands of Airflow run in the scheduler's
\* container and need its database.
AirflowAnswers == AllUp
ServiceHealthy(s) == up[s]
TargetRunning(r) == AirflowAnswers /\ runs[r] = "loaded"
RunTerminal(r) == AirflowAnswers /\ runs[r] \in Terminal
RunFound(r) == AirflowAnswers /\ r \in known
Environment(value) == up["scheduler"] /\ dataset = value
QueriesAnswered == up["postgres"]

\* What a step needs to succeed; a wait needs what it waits for.
Able ==
  CASE Verb \in {"health", "post"} -> AllUp
    [] Verb \in {"trigger", "list"} -> AirflowAnswers
    [] Verb = "active" -> TargetRunning(Subject)
    [] Verb = "terminal" -> RunTerminal(Subject)
    [] Verb = "find" -> RunFound(Subject)
    [] Verb = "await" -> ServiceHealthy(Subject)
    [] Verb = "expect" -> Environment(Subject)
    [] Verb = "counts" -> QueriesAnswered
    [] OTHER -> TRUE

\* What the command of a step does to the platform.
Starts(r) == (Verb = "trigger" /\ r = Subject) \/ (Verb = "post" /\ r = "api")
CopiesDataset == Verb = "copy"

Effect ==
  /\ runs' = [r \in Roles |->
       IF Starts(r) /\ runs[r] = "none" THEN "queued" ELSE runs[r]]
  /\ up' = [s \in Services |->
       CASE Verb = "stop" /\ Subject = s -> FALSE
         [] Verb = "start" /\ Subject = s -> TRUE
         [] Verb = "recreate" /\ s = "scheduler" -> TRUE
         [] OTHER -> up[s]]
  /\ dataset' = IF Verb = "recreate" THEN Subject ELSE dataset
  /\ workdir' = (workdir \/ CopiesDataset)
  /\ UNCHANGED warehouse

\* Containers are removed before they are created again.
HalfEffect ==
  /\ Verb = "recreate"
  /\ up' = [up EXCEPT !["scheduler"] = FALSE]
  /\ UNCHANGED <<dataset, runs, warehouse, workdir>>
-----------------------------------------------------------------------------
\* A step is left out when what came before it made it unnecessary.
Skipped ==
  \/ /\ frame = "postgres" /\ mode = "main" /\ Subject = "recovery"
     /\ runs["first"] = "success"
  \/ Verb = "terminal" /\ Subject = "api" /\ said[1] # 201

SchedulerVerdict == IF runs["first"] = "success" THEN "PASS" ELSE "FAIL"

PostgresVerdict == IF runs["first"] = "success" THEN "PASS" ELSE "FAIL"

InvalidVerdict ==
  IF failed["invalid"] THEN "ERROR"
  ELSE IF runs["invalid"] = "testFailed" /\ runs["recovery"] = "success"
    THEN "PASS" ELSE "FAIL"

\* Mutant: the outcome of the controlled failure is not looked at.
RetryLenient ==
  IF /\ runs["first"] = "success" /\ runs["second"] = "success"
     /\ said = <<201, 409>>
    THEN "PASS" ELSE "FAIL"

RetryVerdict ==
  IF /\ runs["first"] = "success" /\ runs["second"] = "success"
     /\ said = <<201, 409>> /\ runs["api"] = "success"
     /\ status["invalid"] = "PASS"
    THEN "PASS" ELSE "FAIL"

Verdict ==
  CASE frame = "scheduler" -> SchedulerVerdict
    [] frame = "postgres" -> PostgresVerdict
    [] frame = "invalid" -> InvalidVerdict
    [] frame = "retry" -> RetryVerdict

\* The finally of a script restores what the script remembers.
ToSafety(flag) ==
  /\ mode' = IF flag /\ SafetyPart(frame) # <<>> THEN "safety" ELSE "closing"
  /\ at' = 1
  /\ pending' = FALSE

\* After its last step a part ends; so does a main part that an exception has
\* left, once the restoration is done.
LastStep == at = Len(Part) \/ (pending /\ Verb = "expect")

Advance(flag) ==
  \/ /\ ~LastStep
     /\ at' = at + 1
     /\ UNCHANGED <<mode, pending, status>>
  \/ /\ LastStep /\ mode = "safety"
     /\ mode' = "closing"
     /\ at' = 1
     /\ UNCHANGED <<pending, status>>
  \/ /\ LastStep /\ mode = "main"
     /\ ToSafety(flag)
     /\ status' = IF pending THEN status ELSE [status EXCEPT ![frame] = Verdict]

\* Mutant: only interruptions are remembered.
FlagInterruptions == flagged

\* When a flag is set or cleared: an interruption is remembered once its
\* command has returned, a recreation before its command is issued.
FlagBefore ==
  flagged \/ (mode = "main" /\ Verb = "recreate" /\ Subject = "invalid")
FlagAfter ==
  \/ mode = "main" /\ Verb = "stop"
  \/ /\ FlagBefore
     /\ <<mode, Verb, frame>> # <<"main", "start", "scheduler">>
     /\ <<Verb, Subject>> # <<"expect", "standard">>

\* Mutant: an exception is recorded and the script goes on.
RaiseRecorded ==
  /\ failed' = [failed EXCEPT ![frame] = TRUE]
  /\ Advance(flagged)
  /\ UNCHANGED <<top, keeping, frame, flagged, known, said, restored, exit>>

Raise ==
  /\ failed' = [failed EXCEPT ![frame] = TRUE]
  /\ IF Guarded
       THEN /\ at' = Position("invalid", <<"recreate", "standard">>)
            /\ pending' = TRUE
            /\ UNCHANGED <<mode, status>>
       ELSE /\ status' = [status EXCEPT ![frame] =
                 IF mode = "safety" /\ frame = "scheduler" THEN @ ELSE "ERROR"]
            /\ IF mode = "main" THEN ToSafety(FlagBefore)
                 ELSE mode' = "closing" /\ at' = 1 /\ pending' = FALSE
  /\ flagged' = FlagBefore
  /\ restored' = (restored /\ mode # "safety")
  /\ UNCHANGED <<top, keeping, frame, known, said, exit>>

SkipStep ==
  /\ AtStep /\ Skipped
  /\ Advance(flagged)
  /\ UNCHANGED <<top, keeping, frame, flagged, known, said, failed, restored, exit, faults,
                 platform>>

StepSucceeds ==
  /\ AtStep /\ ~Skipped /\ Able /\ Verb \notin {"post", "call"}
  /\ Effect
  /\ flagged' = FlagAfter
  /\ Advance(FlagAfter)
  /\ known' = IF Verb = "trigger" THEN known \cup {Subject} ELSE known
  /\ restored' = (restored \/ (frame = "invalid" /\ Verb = "expect" /\ Subject = "standard"))
  /\ UNCHANGED <<top, keeping, frame, said, failed, exit, faults>>

\* The evidence of a failure is collected in a try of its own.
EvidenceMissing ==
  /\ AtStep /\ Verb = "evidence" /\ faults < MaxFaults
  /\ failed' = [failed EXCEPT ![frame] = TRUE]
  /\ Advance(flagged)
  /\ faults' = faults + 1
  /\ UNCHANGED <<top, keeping, frame, flagged, known, said, restored, exit, platform>>

\* Mutant: waits without a timeout.
StepFailsOnFault ==
  /\ AtStep /\ ~Skipped /\ Verb \notin {"evidence", "call"}
  /\ Able /\ faults < MaxFaults
  /\ faults' = faults + 1
  /\ Effect \/ HalfEffect \/ UNCHANGED platform
  /\ Raise

\* A command fails, or a wait times out.
StepFails ==
  /\ AtStep /\ ~Skipped /\ Verb \notin {"evidence", "call"}
  /\ \/ ~Able /\ UNCHANGED <<faults, platform>>
     \/ /\ Able /\ faults < MaxFaults
        /\ faults' = faults + 1
        /\ Effect \/ HalfEffect \/ UNCHANGED platform
  /\ Raise

\* The API answers two triggers with the same run id. A failure that is an
\* answer is recorded, with or without the run.
PostTrigger ==
  /\ AtStep /\ Verb = "post"
  /\ \E code \in Codes \ {0}, starts \in BOOLEAN :
       /\ code = 201 => starts
       /\ code \in {201, 409} => AllUp
       /\ starts => AllUp /\ runs["api"] = "none"
       /\ code = 409 => runs["api"] # "none" /\ ~starts
       /\ code = 503 => ~AllUp \/ faults < MaxFaults
       /\ faults' = IF code = 503 /\ AllUp THEN faults + 1 ELSE faults
       /\ said' = [said EXCEPT ![Subject] = code]
       /\ runs' = IF starts THEN [runs EXCEPT !["api"] = "queued"] ELSE runs
  /\ Advance(flagged)
  /\ UNCHANGED <<top, keeping, frame, flagged, known, failed, restored, exit, up, dataset,
                 warehouse, workdir>>

Call ==
  /\ AtStep /\ Verb = "call"
  /\ frame' = Subject /\ at' = 1
  /\ UNCHANGED <<top, keeping, mode, pending, flagged, known, said, status, failed, restored,
                 exit, faults, platform>>

ExitCode(s) == CASE s = "PASS" -> 0 [] s = "FAIL" -> 1 [] s = "ERROR" -> 2

\* The option reaches only a scenario that was itself asked for: within the
\* retry scenario it has its default.
KeepWorkDirectory == keeping /\ top = "invalid"
RemovesCopies == frame = "invalid" /\ ~KeepWorkDirectory

\* The report is written; a scenario within another returns its result.
Report ==
  /\ mode = "closing"
  /\ IF frame = top
       THEN mode' = "done" /\ exit' = ExitCode(status[top]) /\ UNCHANGED <<frame, at, flagged>>
       ELSE /\ frame' = top /\ mode' = "main" /\ flagged' = FALSE
            /\ at' = Position(top, <<"call", frame>>) + 1
            /\ UNCHANGED exit
  /\ workdir' = (workdir /\ ~RemovesCopies)
  /\ UNCHANGED <<top, keeping, pending, known, said, status, failed, restored, faults, up,
                 dataset, runs, warehouse>>

\* The work directory cannot be removed or the report not be written: the
\* exception leaves the scenario, and the runner unless a scenario catches it.
Escape ==
  /\ mode = "closing" /\ faults < MaxFaults
  /\ faults' = faults + 1
  /\ IF frame = top
       THEN mode' = "done" /\ exit' = 1 /\ UNCHANGED <<frame, flagged, failed>>
       ELSE /\ frame' = top /\ flagged' = FALSE /\ UNCHANGED <<mode, exit>>
            /\ failed' = [failed EXCEPT ![top] = TRUE]
  /\ status' = [status EXCEPT ![frame] = "NONE"]
  /\ workdir' \in {workdir, workdir /\ ~RemovesCopies}
  /\ UNCHANGED <<top, keeping, at, pending, known, said, restored, up, dataset, runs,
                 warehouse>>

ScriptStep ==
  SkipStep \/ StepSucceeds \/ EvidenceMissing \/ StepFails \/ PostTrigger \/ Call \/ Report
PlatformStep == \E r \in Roles : LoadRawData(r) \/ RunEnds(r)

Next == ScriptStep \/ Escape \/ PlatformStep

Spec == Init /\ [][Next]_vars

\* Scripts run on: commands and waits have timeouts.
FairSpec == Spec /\ WF_vars(ScriptStep)
-----------------------------------------------------------------------------
TypeOK ==
  /\ top \in Scenarios /\ keeping \in BOOLEAN /\ frame \in Frames
  /\ mode \in {"main", "safety", "closing", "done"}
  /\ at \in Nat \ {0}
  /\ pending \in BOOLEAN /\ flagged \in BOOLEAN /\ restored \in BOOLEAN
  /\ known \subseteq Roles /\ said \in Codes \X Codes
  /\ status \in [Frames -> {"PASS", "FAIL", "ERROR", "NONE"}]
  /\ failed \in [Frames -> BOOLEAN]
  /\ exit \in {0, 1, 2, NoExit} /\ faults \in 0..MaxFaults
  /\ up \in [Services -> BOOLEAN] /\ dataset \in Datasets /\ warehouse \in Datasets
  /\ runs \in [Roles -> RunStates] /\ workdir \in BOOLEAN

\* While containers may have been given invalid data, the scenario remembers
\* that it has to restore them, wherever an exception takes it.
NothingForgotten ==
  frame = "invalid" /\ mode \in {"main", "safety"} /\ dataset = "invalid" => flagged

\* A report that says the data was restored is right, and the recovery run
\* never starts on invalid data.
RestoredIsStandard ==
  restored \/ "recovery" \in known => dataset = "standard"

\* A scenario that exits with success leaves every service running, the
\* standard data configured and the standard data in the warehouse, and what
\* it ran within itself succeeded too.
PassIsEarned ==
  exit = 0 => /\ AllUp
              /\ dataset = "standard" /\ warehouse = "standard"
              /\ frame = top /\ ~failed[top]
              /\ top = "retry" => status["invalid"] = "PASS" /\ restored

\* A scenario that leaves a service stopped or invalid data configured never
\* ends as PASS or FAIL, only as ERROR or without a report; the copied data
\* stays only if the invalid scenario was asked to retain it, or if there is no
\* report: never because a step failed, nor behind the report of a retry
\* scenario, which cannot ask for it.
DamageReported ==
  mode = "done" =>
    /\ ~AllUp \/ dataset = "invalid" => status[top] \in {"ERROR", "NONE"}
    /\ workdir => KeepWorkDirectory \/ "NONE" \in {status[f] : f \in Frames}

\* Every scenario ends, whatever commands fail and however long runs take.
EveryScenarioEnds == <>(mode = "done")
=============================================================================
