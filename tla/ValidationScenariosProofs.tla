---------------------- MODULE ValidationScenariosProofs ----------------------
(***************************************************************************)
(* What the validation scenarios promise, proved for any number of failing *)
(* commands: wherever an exception takes a script, invalid data is         *)
(* remembered until it is restored, and a verdict is about a platform that *)
(* is as it was found.                                                     *)
(***************************************************************************)
EXTENDS ValidationScenarios, TLAPS

\* Only the retry scenario calls another, the one with the invalid data. An
\* exception waits only while the standard data is restored.
Control ==
  /\ frame = top \/ (frame = "invalid" /\ top = "retry")
  /\ mode = "done" => frame = top
  /\ mode = "main" => at \in 1..Len(MainPart(frame))
  /\ mode = "safety" => at \in 1..Len(SafetyPart(frame))
  /\ mode \in {"closing", "done"} => at = 1
  /\ pending => frame = "invalid" /\ mode = "main" /\ at \in {8, 9}

\* The scenarios that never configure other data, and the others before they
\* do.
Untouched ==
  \/ top \in {"scheduler", "postgres"}
  \/ frame = "invalid" /\ mode = "main" /\ at <= 3
  \/ frame = "retry" /\ mode = "main" /\ at <= 14

Trusted == restored \/ "recovery" \in known \/ runs["recovery"] # "none"

\* Invalid data is remembered, and what was restored stays so.
DataKept ==
  /\ Untouched => dataset = "standard"
  /\ Untouched /\ top \notin {"scheduler", "postgres"} => ~Trusted
  /\ Trusted => dataset = "standard"
  /\ top \in {"scheduler", "postgres"} => warehouse = "standard"
  /\ runs["recovery"] = "success" => warehouse = "standard"
  /\ frame = "invalid" /\ mode \in {"main", "safety"} /\ dataset = "invalid" => flagged
  /\ frame = "invalid" /\ mode = "main" /\ at >= 9 => dataset = "standard"
  /\ frame = "invalid" /\ mode = "main" /\ at >= 10 => restored /\ ~flagged
  /\ frame = "retry" /\ mode = "main" /\ at >= 17 => "recovery" \in known

\* Which services a script may have stopped while it is unflagged.
ServicesKept ==
  /\ top = "postgres" => up["scheduler"]
  /\ top = "scheduler" /\ mode = "main" /\ at >= 6 => ~flagged

Judged(f) == status[f] \in {"PASS", "FAIL"}

\* A verdict is given at the end of the main part, on a platform that is as it
\* was found.
VerdictKept ==
  /\ mode = "main" => ~Judged(frame)
  /\ mode = "safety" /\ frame # "postgres" => ~Judged(frame)
  /\ frame # top => ~Judged(top) /\ ~failed[top]
  /\ Judged(top) => AllUp /\ dataset = "standard"
  /\ status["invalid"] = "PASS" => restored /\ runs["recovery"] = "success"
  /\ status[top] = "PASS" =>
       /\ warehouse = "standard" /\ ~failed[top]
       /\ top = "retry" => status["invalid"] = "PASS"
  /\ mode = "main" /\ failed[frame] => frame = "invalid"
  /\ top \in {"scheduler", "postgres"} => status["invalid"] = "ERROR"
  /\ exit = 0 => mode = "done" /\ status[top] = "PASS"

\* The copied data is there while its scenario is running, or it was asked for,
\* or there is no report of it; only an exception that leaves a scenario leaves
\* no report.
WorkdirKept ==
  /\ status[top] = "NONE" => mode = "done"
  /\ workdir => \/ frame = "invalid" /\ mode # "done"
                \/ KeepWorkDirectory
                \/ status["invalid"] = "NONE"
  /\ status["invalid"] = "NONE" => frame # "invalid" \/ mode = "done"
  /\ frame = "retry" /\ mode = "main" /\ at <= 14 => status["invalid"] = "ERROR"

ScenarioInv == TypeOK /\ Control /\ DataKept /\ ServicesKept /\ VerdictKept /\ WorkdirKept

-----------------------------------------------------------------------------
(* The steps of the scripts.                                               *)

LEMMA SchedulerSteps ==
  ASSUME AtStep, frame = "scheduler"
  PROVE  \/ mode = "safety" /\ at = 1 /\ Verb = "start" /\ Subject = "scheduler" /\ Len(Part) = 1
         \/ /\ mode = "main" /\ Len(Part) = 7
            /\ \/ at = 1 /\ Verb = "health" /\ Subject = "all"
               \/ at = 2 /\ Verb = "trigger" /\ Subject = "first"
               \/ at = 3 /\ Verb = "active" /\ Subject = "first"
               \/ at = 4 /\ Verb = "stop" /\ Subject = "scheduler"
               \/ at = 5 /\ Verb = "start" /\ Subject = "scheduler"
               \/ at = 6 /\ Verb = "await" /\ Subject = "scheduler"
               \/ at = 7 /\ Verb = "terminal" /\ Subject = "first"
BY DEF AtStep, Part, Verb, Subject, MainPart, SafetyPart, SchedulerScript, SchedulerSafety, Health

LEMMA PostgresSteps ==
  ASSUME AtStep, frame = "postgres"
  PROVE  \/ /\ mode = "safety" /\ Len(Part) = 2
            /\ \/ at = 1 /\ Verb = "start" /\ Subject = "postgres"
               \/ at = 2 /\ Verb = "await" /\ Subject = "postgres"
         \/ /\ mode = "main" /\ Len(Part) = 11
            /\ \/ at = 1 /\ Verb = "health" /\ Subject = "all"
               \/ at = 2 /\ Verb = "trigger" /\ Subject = "first"
               \/ at = 3 /\ Verb = "active" /\ Subject = "first"
               \/ at = 4 /\ Verb = "stop" /\ Subject = "postgres"
               \/ at = 5 /\ Verb = "start" /\ Subject = "postgres"
               \/ at = 6 /\ Verb = "await" /\ Subject = "postgres"
               \/ at = 7 /\ Verb = "health" /\ Subject = "all"
               \/ at = 8 /\ Verb = "terminal" /\ Subject = "first"
               \/ at = 9 /\ Verb = "trigger" /\ Subject = "recovery"
               \/ at = 10 /\ Verb = "terminal" /\ Subject = "recovery"
               \/ at = 11 /\ Verb = "counts" /\ Subject = "all"
BY DEF AtStep, Part, Verb, Subject, MainPart, SafetyPart, PostgresScript, PostgresSafety, Health

LEMMA InvalidSteps ==
  ASSUME AtStep, frame = "invalid"
  PROVE  \/ /\ mode = "safety" /\ Len(Part) = 2
            /\ \/ at = 1 /\ Verb = "recreate" /\ Subject = "standard"
               \/ at = 2 /\ Verb = "expect" /\ Subject = "standard"
         \/ /\ mode = "main" /\ Len(Part) = 13
            /\ \/ at = 1 /\ Verb = "health" /\ Subject = "all"
               \/ at = 2 /\ Verb = "copy" /\ Subject = "dataset"
               \/ at = 3 /\ Verb = "recreate" /\ Subject = "invalid"
               \/ at = 4 /\ Verb = "expect" /\ Subject = "invalid"
               \/ at = 5 /\ Verb = "trigger" /\ Subject = "invalid"
               \/ at = 6 /\ Verb = "terminal" /\ Subject = "invalid"
               \/ at = 7 /\ Verb = "evidence" /\ Subject = "invalid"
               \/ at = 8 /\ Verb = "recreate" /\ Subject = "standard"
               \/ at = 9 /\ Verb = "expect" /\ Subject = "standard"
               \/ at = 10 /\ Verb = "trigger" /\ Subject = "recovery"
               \/ at = 11 /\ Verb = "terminal" /\ Subject = "recovery"
               \/ at = 12 /\ Verb = "counts" /\ Subject = "all"
               \/ at = 13 /\ Verb = "health" /\ Subject = "all"
BY DEF AtStep, Part, Verb, Subject, MainPart, SafetyPart, InvalidScript, InvalidSafety, Health

LEMMA RetrySteps ==
  ASSUME AtStep, frame = "retry"
  PROVE  /\ mode = "main" /\ Len(Part) = 18
         /\ \/ at = 1 /\ Verb = "health" /\ Subject = "all"
            \/ at = 2 /\ Verb = "expect" /\ Subject = "standard"
            \/ (at = 3 \/ at = 6 \/ at = 9 \/ at = 17) /\ Verb = "counts" /\ Subject = "all"
            \/ at = 4 /\ Verb = "trigger" /\ Subject = "first"
            \/ at = 5 /\ Verb = "terminal" /\ Subject = "first"
            \/ at = 7 /\ Verb = "trigger" /\ Subject = "second"
            \/ at = 8 /\ Verb = "terminal" /\ Subject = "second"
            \/ (at = 10 \/ at = 11) /\ Verb = "post"
            \/ at = 12 /\ Verb = "list" /\ Subject = "api"
            \/ at = 13 /\ Verb = "terminal" /\ Subject = "api"
            \/ at = 14 /\ Verb = "call" /\ Subject = "invalid"
            \/ at = 15 /\ Verb = "find" /\ Subject = "invalid"
            \/ at = 16 /\ Verb = "find" /\ Subject = "recovery"
            \/ at = 18 /\ Verb = "health" /\ Subject = "all"
BY DEF AtStep, Part, Verb, Subject, MainPart, SafetyPart, RetryScript, Health

LEMMA PostsAreTwo ==
  ASSUME AtStep, frame = "retry", Verb = "post"
  PROVE  Subject \in {1, 2}
BY DEF AtStep, Part, Verb, Subject, MainPart, SafetyPart, RetryScript, Health

LEMMA PartsAre ==
  /\ Len(MainPart("scheduler")) = 7 /\ Len(MainPart("postgres")) = 11
  /\ Len(MainPart("invalid")) = 13 /\ Len(MainPart("retry")) = 18
  /\ Len(SafetyPart("scheduler")) = 1 /\ Len(SafetyPart("postgres")) = 2
  /\ Len(SafetyPart("invalid")) = 2 /\ Len(SafetyPart("retry")) = 0
  /\ \A f \in Frames : SafetyPart(f) = <<>> <=> f = "retry"
BY DEF Frames, MainPart, SafetyPart, SchedulerScript, PostgresScript, InvalidScript, RetryScript, Health,
       SchedulerSafety, PostgresSafety, InvalidSafety

LEMMA PositionsAre ==
  /\ Position("invalid", <<"recreate", "standard">>) = 8
  /\ Position("retry", <<"call", "invalid">>) = 14
<1>1. Position("invalid", <<"recreate", "standard">>) = 8
  <2>1. DOMAIN InvalidScript = 1..13
    BY DEF InvalidScript
  <2>2. \A i \in 1..13 : InvalidScript[i] = <<"recreate", "standard">> <=> i = 8
    BY DEF InvalidScript, Health
  <2>3. (CHOOSE i \in 1..13 : InvalidScript[i] = <<"recreate", "standard">>) = 8
    BY <2>2
  <2> QED
    BY <2>1, <2>3 DEF Position, MainPart
<1>2. Position("retry", <<"call", "invalid">>) = 14
  <2>1. DOMAIN RetryScript = 1..18
    BY DEF RetryScript
  <2>2. \A i \in 1..18 : RetryScript[i] = <<"call", "invalid">> <=> i = 14
    BY DEF RetryScript, Health
  <2>3. (CHOOSE i \in 1..18 : RetryScript[i] = <<"call", "invalid">>) = 14
    BY <2>2
  <2> QED
    BY <2>1, <2>3 DEF Position, MainPart
<1> QED
  BY <1>1, <1>2

-----------------------------------------------------------------------------
\* What a command leaves of the platform, done or not.
Moved == Effect \/ HalfEffect \/ UNCHANGED platform

LEMMA CommandsMove ==
  ASSUME TypeOK, Moved, Verb = "recreate" => Subject \in Datasets
  PROVE  /\ up' \in [Services -> BOOLEAN] /\ dataset' \in Datasets /\ warehouse' = warehouse
         /\ runs' \in [Roles -> RunStates] /\ workdir' \in BOOLEAN
         /\ Verb # "recreate" => dataset' = dataset
         /\ Verb = "recreate" => dataset' \in {dataset, Subject}
         /\ workdir' => workdir \/ Verb = "copy"
         /\ \A r \in Roles :
              runs'[r] # runs[r] => Starts(r) /\ runs[r] = "none" /\ runs'[r] = "queued"
         /\ \A s \in Services : up'[s] # up[s] => Verb \in {"stop", "start", "recreate"}
         /\ \A s \in Services :
              Verb \in {"stop", "start"} => (up'[s] # up[s] => s = Subject)
         /\ \A s \in Services : Verb = "start" /\ up[s] => up'[s]
<1>1. CASE UNCHANGED platform
  BY <1>1 DEF TypeOK, platform
<1>2. CASE HalfEffect
  <2>1. /\ Verb = "recreate" /\ up' = [up EXCEPT !["scheduler"] = FALSE]
        /\ UNCHANGED <<dataset, runs, warehouse, workdir>>
    BY <1>2 DEF HalfEffect
  <2> QED
    BY <2>1 DEF TypeOK
<1>3. CASE Effect
  <2>1. /\ runs' \in [Roles -> RunStates]
        /\ \A r \in Roles :
             runs'[r] # runs[r] => Starts(r) /\ runs[r] = "none" /\ runs'[r] = "queued"
    BY <1>3 DEF Effect, TypeOK, RunStates
  <2>2. up' = [s \in Services |->
                 CASE Verb = "stop" /\ Subject = s -> FALSE
                   [] Verb = "start" /\ Subject = s -> TRUE
                   [] Verb = "recreate" /\ s = "scheduler" -> TRUE
                   [] OTHER -> up[s]]
    BY <1>3 DEF Effect
  <2>3. \A s \in Services :
          /\ up'[s] \in BOOLEAN
          /\ up'[s] # up[s] => \/ Verb \in {"stop", "start"} /\ s = Subject
                               \/ Verb = "recreate"
          /\ Verb = "start" /\ up[s] => up'[s]
    BY <2>2 DEF TypeOK
  <2>4. up' \in [Services -> BOOLEAN]
    BY <2>2, <2>3
  <2>5. /\ dataset' = IF Verb = "recreate" THEN Subject ELSE dataset
        /\ workdir' = (workdir \/ Verb = "copy") /\ warehouse' = warehouse
    BY <1>3 DEF Effect, CopiesDataset
  <2> QED
    BY <2>1, <2>3, <2>4, <2>5 DEF TypeOK
<1> QED
  BY <1>1, <1>2, <1>3 DEF Moved

\* What a step leads to.
LEMMA AdvanceLeads ==
  ASSUME TypeOK, Control, AtStep, NEW flag \in BOOLEAN, Advance(flag)
  PROVE  \/ mode' = mode /\ at' = at + 1 /\ at < Len(Part) /\ pending' = pending /\ status' = status
            /\ ~(pending /\ Verb = "expect")
         \/ /\ mode = "safety" /\ at = Len(Part) /\ mode' = "closing" /\ at' = 1
            /\ pending' = pending /\ status' = status
         \/ /\ mode = "main" /\ pending /\ Verb = "expect" /\ mode' \in {"safety", "closing"}
            /\ mode' = "safety" => flag /\ frame # "retry"
            /\ at' = 1 /\ pending' = FALSE /\ status' = status
         \/ /\ mode = "main" /\ ~pending /\ at = Len(Part) /\ mode' \in {"safety", "closing"}
            /\ mode' = "safety" => flag /\ frame # "retry"
            /\ at' = 1 /\ pending' = FALSE /\ status' = [status EXCEPT ![frame] = Verdict]
<1> PICK length : length = Len(Part)
  OBVIOUS
<1>1. at \in 1..length /\ length \in Nat
  <2>1. frame \in {"scheduler", "postgres", "invalid", "retry"}
    BY DEF TypeOK, Frames
  <2>2. CASE frame = "scheduler"
    BY <2>2, SchedulerSteps
  <2>3. CASE frame = "postgres"
    BY <2>3, PostgresSteps
  <2>4. CASE frame = "invalid"
    <3>1. (mode = "safety" /\ at \in {1, 2} /\ length = 2) \/ (at \in 1..13 /\ length = 13)
      BY <2>4, InvalidSteps
    <3> QED
      BY <3>1
  <2>5. CASE frame = "retry"
    <3>1. at \in 1..18
      BY <2>5, RetrySteps
    <3>2. length = 18
      BY <2>5, RetrySteps
    <3> QED
      BY <3>1, <3>2
  <2> QED
    BY <2>1, <2>2, <2>3, <2>4, <2>5
<1>2. SafetyPart(frame) = <<>> <=> frame = "retry"
  BY PartsAre DEF TypeOK
<1>3. /\ mode \in {"main", "safety"} /\ pending \in BOOLEAN
      /\ pending => mode = "main" /\ at \in {8, 9} /\ frame = "invalid"
  BY DEF AtStep, Control, TypeOK
<1>4. pending => length = 13
  BY <1>3, InvalidSteps
<1>5. CASE ~LastStep
  <2>1. at # length /\ ~(pending /\ Verb = "expect")
    BY <1>5 DEF LastStep
  <2>2. at' = at + 1 /\ UNCHANGED <<mode, pending, status>>
    BY <1>5 DEF Advance
  <2> QED
    BY <1>1, <2>1, <2>2
<1>6. CASE LastStep /\ mode = "safety"
  <2>1. mode' = "closing" /\ at' = 1 /\ UNCHANGED <<pending, status>>
    BY <1>6 DEF Advance
  <2>2. at = length
    BY <1>3, <1>6 DEF LastStep
  <2> QED
    BY <1>6, <2>1, <2>2
<1>7. CASE LastStep /\ mode = "main"
  <2>1. /\ mode' = IF flag /\ SafetyPart(frame) # <<>> THEN "safety" ELSE "closing"
        /\ at' = 1 /\ pending' = FALSE
        /\ status' = IF pending THEN status ELSE [status EXCEPT ![frame] = Verdict]
    BY <1>7 DEF Advance, ToSafety
  <2>2. IF pending THEN Verb = "expect" ELSE at = length
    <3>1. at = length \/ (pending /\ Verb = "expect")
      BY <1>7 DEF LastStep
    <3>2. ASSUME pending PROVE at # length
      <4>1. (at = 8 \/ at = 9) /\ length = 13
        BY <1>3, <1>4, <3>2
      <4> QED
        BY <4>1
    <3> QED
      BY <1>3, <3>1, <3>2
  <2> QED
    BY <1>2, <1>3, <1>7, <2>1, <2>2
<1> QED
  BY <1>3, <1>5, <1>6, <1>7

LEMMA VerdictIs == ASSUME frame \in Frames PROVE Verdict \in {"PASS", "FAIL", "ERROR"}
BY DEF Frames, Verdict, SchedulerVerdict, PostgresVerdict, InvalidVerdict, RetryVerdict

\* What the verbs of the scripts are used on, and where.
LEMMA SubjectsAre ==
  ASSUME TypeOK, AtStep
  PROVE  /\ Verb = "recreate" => frame = "invalid" /\ Subject \in Datasets
         /\ Verb = "trigger" => Subject \in Roles
         /\ Verb = "post" => frame = "retry" /\ mode = "main" /\ (at = 10 \/ at = 11)
         /\ Verb = "call" => frame = "retry" /\ mode = "main" /\ at = 14 /\ Subject = "invalid"
         /\ Verb = "evidence" => frame = "invalid" /\ mode = "main" /\ at = 7
         /\ Verb = "copy" => frame = "invalid"
<1>1. frame \in {"scheduler", "postgres", "invalid", "retry"}
  BY DEF TypeOK, Frames
<1>2. CASE frame = "scheduler"
  BY <1>2, SchedulerSteps DEF Roles
<1>3. CASE frame = "postgres"
  BY <1>3, PostgresSteps DEF Roles
<1>4. CASE frame = "invalid"
  BY <1>4, InvalidSteps DEF Roles, Datasets
<1>5. CASE frame = "retry"
  BY <1>5, RetrySteps DEF Roles
<1> QED
  BY <1>1, <1>2, <1>3, <1>4, <1>5

\* A part is left at its end, or when an exception waits for the restoration.
LEMMA ControlGoesOn ==
  ASSUME TypeOK, Control, AtStep, flagged' \in BOOLEAN, Advance(flagged'), UNCHANGED <<top, keeping, frame>>
  PROVE  Control' /\ mode' \in {"main", "safety", "closing"} /\ at' \in Nat \ {0} /\ pending' \in BOOLEAN
<1> PICK length : length = Len(Part)
  OBVIOUS
<1>1. \/ mode = "main" /\ length = Len(MainPart(frame))
      \/ mode = "safety" /\ length = Len(SafetyPart(frame))
  BY DEF AtStep, Part
<1>2. at \in Nat \ {0} /\ frame \in Frames /\ pending \in BOOLEAN
  BY DEF TypeOK
<1>3. PICK flag \in BOOLEAN : flag = flagged'
  OBVIOUS
<1>4. frame' = top' \/ (frame' = "invalid" /\ top' = "retry")
  BY DEF Control
<1>5. CASE mode' = mode /\ at' = at + 1 /\ at < length /\ pending' = pending
           /\ ~(pending /\ Verb = "expect")
  <2>1. pending => at = 8 /\ frame = "invalid" /\ mode = "main"
    <3>1. ASSUME pending, at = 9 PROVE FALSE
      <4>1. Verb = "expect"
        BY <3>1, InvalidSteps DEF Control
      <4> QED
        BY <1>5, <3>1, <4>1
    <3> QED
      BY <3>1 DEF Control
  <2>2. length \in Nat
    BY <1>1, <1>2, PartsAre DEF Frames
  <2>3. at + 1 \in 1..length
    BY <1>2, <1>5, <2>2
  <2>4. /\ mode' = "main" => at' \in 1..Len(MainPart(frame'))
        /\ mode' = "safety" => at' \in 1..Len(SafetyPart(frame'))
    BY <1>1, <1>5, <2>3
  <2>5. mode' \in {"main", "safety"}
    BY <1>1, <1>5
  <2>6. pending' => frame' = "invalid" /\ mode' = "main" /\ at' \in {8, 9}
    BY <1>5, <2>1
  <2>7. at' \in Nat \ {0}
    BY <1>2, <1>5
  <2> QED
    BY <1>2, <1>4, <1>5, <2>4, <2>5, <2>6, <2>7 DEF Control
<1>6. CASE /\ at' = 1 /\ pending' = FALSE /\ mode' \in {"safety", "closing"}
           /\ mode' = "safety" => frame # "retry"
  <2>1. mode' = "safety" => Len(SafetyPart(frame)) \in {1, 2}
    BY <1>2, <1>6, PartsAre DEF Frames
  <2>2. mode' = "safety" => at' \in 1..Len(SafetyPart(frame'))
    BY <1>6, <2>1
  <2>3. mode' \notin {"main", "done"} /\ (mode' \in {"closing", "done"} => at' = 1) /\ ~pending'
    BY <1>6
  <2>4. Control'
    BY <1>4, <2>2, <2>3 DEF Control
  <2>5. mode' \in {"main", "safety", "closing"} /\ at' \in Nat \ {0} /\ pending' \in BOOLEAN
    <3>1. at' \in Nat \ {0}
      BY <1>6
    <3>2. mode' \in {"main", "safety", "closing"}
      BY <1>6
    <3>3. pending' \in BOOLEAN
      BY <1>6
    <3> QED
      BY <3>1, <3>2, <3>3
  <2> QED
    BY <2>4, <2>5
<1>7. mode = "safety" => pending = FALSE
  BY <1>2 DEF Control
<1>8. \/ mode' = mode /\ at' = at + 1 /\ at < length /\ pending' = pending /\ ~(pending /\ Verb = "expect")
      \/ mode = "safety" /\ mode' = "closing" /\ at' = 1 /\ pending' = pending
      \/ /\ at' = 1 /\ pending' = FALSE /\ mode' \in {"safety", "closing"}
         /\ mode' = "safety" => frame # "retry"
  BY <1>3, AdvanceLeads
<1> QED
  BY <1>5, <1>6, <1>7, <1>8

LEMMA ControlRaises ==
  ASSUME TypeOK, Control, AtStep, Raise
  PROVE  Control' /\ mode' \in {"main", "safety", "closing"} /\ at' \in Nat \ {0} /\ pending' \in BOOLEAN
<1>1. UNCHANGED <<top, keeping, frame>> /\ frame \in Frames
  BY DEF Raise, TypeOK
<1>2. frame' = top' \/ (frame' = "invalid" /\ top' = "retry")
  BY <1>1 DEF Control
<1>3. CASE Guarded
  <2>1. at' = 8 /\ pending' = TRUE /\ mode' = "main" /\ frame = "invalid"
    BY <1>3, PositionsAre DEF Raise, Guarded
  <2>2. Len(MainPart(frame')) = 13
    BY <1>1, <2>1, PartsAre
  <2>3. at' \in 1..Len(MainPart(frame'))
    BY <2>1, <2>2
  <2> QED
    BY <1>1, <1>2, <2>1, <2>3 DEF Control
<1>4. CASE ~Guarded
  <2>1. /\ at' = 1 /\ pending' = FALSE /\ mode' \in {"safety", "closing"}
        /\ mode' = "safety" => frame # "retry"
    BY <1>1, <1>4, PartsAre DEF Raise, ToSafety
  <2>2. mode' = "safety" => Len(SafetyPart(frame)) \in {1, 2}
    BY <1>1, <2>1, PartsAre DEF Frames
  <2>3. mode' = "safety" => at' \in 1..Len(SafetyPart(frame'))
    BY <1>1, <2>1, <2>2
  <2>4. mode' \notin {"main", "done"} /\ (mode' \in {"closing", "done"} => at' = 1) /\ ~pending'
    BY <2>1
  <2>5. Control'
    BY <1>2, <2>3, <2>4 DEF Control
  <2>6. mode' \in {"main", "safety", "closing"} /\ at' \in Nat \ {0} /\ pending' \in BOOLEAN
    <3>1. at' \in Nat \ {0}
      BY <2>1
    <3>2. mode' \in {"main", "safety", "closing"}
      BY <2>1
    <3>3. pending' \in BOOLEAN
      BY <2>1
    <3> QED
      BY <3>1, <3>2, <3>3
  <2> QED
    BY <2>5, <2>6
<1> QED
  BY <1>3, <1>4

\* The statuses and flags of the scenarios keep their types.
LEMMA StatusGoesOn ==
  ASSUME TypeOK, Control, AtStep, flagged' \in BOOLEAN, Advance(flagged')
  PROVE  status' \in [Frames -> {"PASS", "FAIL", "ERROR", "NONE"}]
<1>1. frame \in Frames
  BY DEF TypeOK
<1>2. Verdict \in {"PASS", "FAIL", "ERROR"}
  BY <1>1, VerdictIs
<1>3. status' = status \/ status' = [status EXCEPT ![frame] = Verdict]
  BY DEF Advance, ToSafety
<1> QED
  BY <1>1, <1>2, <1>3 DEF TypeOK

-----------------------------------------------------------------------------
(* A step that goes on to the next one.                                    *)

GoesOn == SkipStep \/ StepSucceeds \/ EvidenceMissing \/ PostTrigger

LEMMA GoingOn ==
  ASSUME GoesOn
  PROVE  AtStep /\ Verb # "call" /\ UNCHANGED <<top, keeping, frame, exit, warehouse>>
<1>1. ASSUME SkipStep PROVE AtStep /\ Verb # "call" /\ UNCHANGED <<top, keeping, frame, exit, warehouse>>
  <2>1. AtStep /\ UNCHANGED <<top, keeping, frame, exit, warehouse>>
    BY <1>1 DEF SkipStep, platform
  <2>2. Skipped
    BY <1>1 DEF SkipStep
  <2>3. Verb = "terminal" \/ (frame = "postgres" /\ mode = "main" /\ Subject = "recovery")
    BY <2>2 DEF Skipped
  <2> QED
    BY <2>1, <2>3, PostgresSteps
<1>2. ASSUME StepSucceeds PROVE AtStep /\ Verb # "call" /\ UNCHANGED <<top, keeping, frame, exit, warehouse>>
  BY <1>2 DEF StepSucceeds, Effect
<1>3. ASSUME EvidenceMissing
      PROVE  AtStep /\ Verb # "call" /\ UNCHANGED <<top, keeping, frame, exit, warehouse>>
  BY <1>3 DEF EvidenceMissing, platform
<1>4. ASSUME PostTrigger PROVE AtStep /\ Verb # "call" /\ UNCHANGED <<top, keeping, frame, exit, warehouse>>
  BY <1>4 DEF PostTrigger
<1> QED
  BY <1>1, <1>2, <1>3, <1>4 DEF GoesOn

\* Only triggers and waits for runs are left out.
LEMMA SkippedVerbs ==
  ASSUME AtStep, Skipped
  PROVE  Verb \in {"trigger", "terminal"}
<1>1. Verb = "terminal" \/ (frame = "postgres" /\ mode = "main" /\ Subject = "recovery")
  BY DEF Skipped
<1> QED
  BY <1>1, PostgresSteps

\* The flag of the script after a step that goes on.
LEMMA FlagGoesOn ==
  ASSUME TypeOK, GoesOn
  PROVE  flagged' = FlagAfter /\ flagged' \in BOOLEAN /\ Advance(flagged')
<1>1. ASSUME Verb \notin {"stop", "start", "recreate", "expect"}
      PROVE  FlagAfter = flagged
  BY <1>1 DEF FlagAfter, FlagBefore, TypeOK
<1>2. FlagAfter \in BOOLEAN /\ flagged \in BOOLEAN
  BY DEF FlagAfter, FlagBefore, TypeOK
<1>3. CASE SkipStep
  <2>1. Verb \in {"trigger", "terminal"} /\ flagged' = flagged /\ Advance(flagged)
    BY <1>3, SkippedVerbs DEF SkipStep
  <2> QED
    BY <1>1, <1>2, <2>1
<1>4. CASE StepSucceeds
  <2>1. flagged' = FlagAfter /\ Advance(FlagAfter)
    BY <1>4 DEF StepSucceeds
  <2> QED
    BY <1>2, <2>1
<1>5. CASE EvidenceMissing
  <2>1. Verb = "evidence" /\ flagged' = flagged /\ Advance(flagged)
    BY <1>5 DEF EvidenceMissing
  <2> QED
    BY <1>1, <1>2, <2>1
<1>6. CASE PostTrigger
  <2>1. Verb = "post" /\ flagged' = flagged /\ Advance(flagged)
    BY <1>6 DEF PostTrigger
  <2> QED
    BY <1>1, <1>2, <2>1
<1> QED
  BY <1>3, <1>4, <1>5, <1>6 DEF GoesOn

\* What it leaves of the platform.
LEMMA PlatformGoesOn ==
  ASSUME TypeOK, GoesOn
  PROVE  /\ up' \in [Services -> BOOLEAN] /\ dataset' \in Datasets
         /\ runs' \in [Roles -> RunStates] /\ workdir' \in BOOLEAN
         /\ dataset' = IF Verb = "recreate" THEN Subject ELSE dataset
         /\ workdir' => workdir \/ Verb = "copy"
         /\ \A r \in Roles : runs'[r] # runs[r] =>
              /\ runs[r] = "none" /\ runs'[r] = "queued"
              /\ (Verb = "trigger" /\ r = Subject) \/ (Verb = "post" /\ r = "api")
         /\ \A s \in Services : up'[s] # up[s] => Verb \in {"stop", "start", "recreate"}
         /\ \A s \in Services :
              Verb \in {"stop", "start"} => (up'[s] # up[s] => s = Subject)
         /\ \A s \in Services : Verb = "start" /\ up[s] => up'[s]
<1>1. AtStep
  BY GoingOn
<1>2. ASSUME UNCHANGED platform, Verb # "recreate"
      PROVE  /\ up' = up /\ dataset' = dataset /\ runs' = runs /\ workdir' = workdir
             /\ Verb # "recreate"
  BY <1>2 DEF platform
<1>3. CASE UNCHANGED platform /\ Verb # "recreate"
  BY <1>2, <1>3 DEF TypeOK
<1>4. CASE SkipStep
  <2>1. UNCHANGED platform /\ Verb \in {"trigger", "terminal"}
    BY <1>4, SkippedVerbs DEF SkipStep
  <2> QED
    BY <1>3, <2>1
<1>5. CASE EvidenceMissing
  <2>1. UNCHANGED platform /\ Verb = "evidence"
    BY <1>5 DEF EvidenceMissing
  <2> QED
    BY <1>3, <2>1
<1>6. CASE StepSucceeds
  <2>1. Effect /\ Moved /\ Verb \notin {"post", "call"}
    BY <1>6 DEF StepSucceeds, Moved
  <2>2. Verb = "recreate" => Subject \in Datasets
    BY <1>1, SubjectsAre
  <2>3. dataset' = IF Verb = "recreate" THEN Subject ELSE dataset
    BY <2>1 DEF Effect
  <2>4. \A r \in Roles : Starts(r) => Verb = "trigger" /\ r = Subject
    BY <2>1 DEF Starts
  <2> QED
    BY <2>1, <2>2, <2>3, <2>4, CommandsMove
<1>7. CASE PostTrigger
  <2>1. Verb = "post" /\ UNCHANGED <<up, dataset, workdir>>
    BY <1>7 DEF PostTrigger
  <2>2. PICK starts \in BOOLEAN :
          /\ starts => runs["api"] = "none"
          /\ runs' = IF starts THEN [runs EXCEPT !["api"] = "queued"] ELSE runs
    BY <1>7 DEF PostTrigger
  <2>3. /\ runs' \in [Roles -> RunStates]
        /\ \A r \in Roles : runs'[r] # runs[r] =>
             runs[r] = "none" /\ runs'[r] = "queued" /\ r = "api"
    BY <2>2 DEF TypeOK, RunStates, Roles
  <2> QED
    BY <2>1, <2>3 DEF TypeOK
<1> QED
  BY <1>4, <1>5, <1>6, <1>7 DEF GoesOn

\* What it leaves of the report.
LEMMA ReportGoesOn ==
  ASSUME TypeOK, GoesOn
  PROVE  /\ known' = known \/ (Verb = "trigger" /\ known' = known \cup {Subject})
         /\ restored' = restored
              \/ (restored' = TRUE /\ frame = "invalid" /\ Verb = "expect" /\ Subject = "standard"
                  /\ dataset = "standard")
         /\ frame = "invalid" /\ Verb = "expect" /\ Subject = "standard" => restored' = TRUE
         /\ failed' = failed
              \/ (Verb = "evidence" /\ frame = "invalid" /\ mode = "main"
                  /\ failed' = [failed EXCEPT ![frame] = TRUE])
         /\ Verb \in {"expect", "counts", "health", "find"} => Able
         /\ Verb = "terminal" /\ frame = "scheduler" => Able
<1>1. AtStep
  BY GoingOn
<1>2. frame = "scheduler" => Subject # "api"
  BY <1>1, SchedulerSteps
<1>3. CASE SkipStep
  <2>1. /\ Verb \in {"trigger", "terminal"} /\ UNCHANGED <<known, restored, failed>>
        /\ Skipped
    BY <1>3, SkippedVerbs DEF SkipStep
  <2>2. frame = "scheduler" => FALSE
    BY <1>2, <2>1 DEF Skipped
  <2> QED
    BY <2>1, <2>2
<1>4. CASE StepSucceeds
  <2>1. /\ known' = IF Verb = "trigger" THEN known \cup {Subject} ELSE known
        /\ restored' = (restored \/ (frame = "invalid" /\ Verb = "expect" /\ Subject = "standard"))
        /\ failed' = failed /\ Able
    BY <1>4 DEF StepSucceeds
  <2>2. Verb = "expect" /\ Subject = "standard" => dataset = "standard"
    BY <2>1 DEF Able, Environment
  <2>3. restored \in BOOLEAN
    BY DEF TypeOK
  <2> QED
    BY <2>1, <2>2, <2>3
<1>5. CASE EvidenceMissing
  <2>1. /\ Verb = "evidence" /\ UNCHANGED <<known, restored>>
        /\ failed' = [failed EXCEPT ![frame] = TRUE]
    BY <1>5 DEF EvidenceMissing
  <2>2. frame = "invalid" /\ mode = "main"
    BY <1>1, <2>1, SubjectsAre
  <2> QED
    BY <2>1, <2>2
<1>6. CASE PostTrigger
  <2>1. Verb = "post" /\ UNCHANGED <<known, restored, failed>>
    BY <1>6 DEF PostTrigger
  <2> QED
    BY <2>1
<1> QED
  BY <1>3, <1>4, <1>5, <1>6 DEF GoesOn

-----------------------------------------------------------------------------
(* What a failing step does: its command may have moved the platform.      *)

LEMMA FailingMoves ==
  ASSUME StepFails
  PROVE  AtStep /\ Moved /\ Raise /\ ~Skipped /\ Verb # "call" /\ UNCHANGED <<top, keeping, frame, known, said, exit>>
BY DEF StepFails, Raise, Moved

LEMMA Raising ==
  ASSUME TypeOK, Control, AtStep, Raise
  PROVE  /\ flagged' \in BOOLEAN /\ restored' \in BOOLEAN
         /\ Verb # "recreate" \/ Subject # "invalid" => flagged' = flagged
         /\ frame = "invalid" /\ mode = "main" /\ Verb = "recreate" /\ Subject = "invalid"
              => flagged' = TRUE
         /\ restored' => restored /\ mode # "safety"
         /\ mode # "safety" => restored' = restored
         /\ failed' = [failed EXCEPT ![frame] = TRUE]
         /\ \/ /\ mode = "main" /\ frame = "invalid" /\ at \in 3..7
               /\ mode' = "main" /\ at' = 8 /\ status' = status
            \/ /\ mode' = "closing"
               /\ mode = "main" => status' = [status EXCEPT ![frame] = "ERROR"]
               /\ mode = "safety" /\ frame # "scheduler" => status' = [status EXCEPT ![frame] = "ERROR"]
               /\ mode = "safety" /\ frame = "scheduler" => status' = status
            \/ /\ mode = "main" /\ mode' = "safety" /\ flagged' = TRUE /\ frame # "retry"
               /\ status' = [status EXCEPT ![frame] = "ERROR"]
<1>1. flagged' = FlagBefore /\ flagged \in BOOLEAN /\ restored \in BOOLEAN
  BY DEF Raise, TypeOK
<1>2. FlagBefore \in BOOLEAN
  BY DEF FlagBefore, TypeOK
<1>3. /\ Verb # "recreate" \/ Subject # "invalid" => flagged' = flagged
      /\ mode = "main" /\ Verb = "recreate" /\ Subject = "invalid" => flagged' = TRUE
  BY <1>1 DEF FlagBefore
<1>4. restored' = (restored /\ mode # "safety") /\ failed' = [failed EXCEPT ![frame] = TRUE]
  BY DEF Raise
<1>5. frame \in Frames /\ status \in [Frames -> {"PASS", "FAIL", "ERROR", "NONE"}]
  BY DEF TypeOK
<1>6. [status EXCEPT ![frame] = status[frame]] = status
  BY <1>5
<1>7. CASE Guarded
  <2>1. mode = "main" /\ frame = "invalid" /\ at \in 3..7
    BY <1>7, PositionsAre DEF Guarded
  <2>2. mode' = "main" /\ at' = 8 /\ status' = status
    BY <1>7, <2>1, PositionsAre DEF Raise
  <2> QED
    BY <1>1, <1>2, <1>3, <1>4, <2>1, <2>2
<1>8. CASE ~Guarded
  <2>1. status' = [status EXCEPT ![frame] =
                     IF mode = "safety" /\ frame = "scheduler" THEN @ ELSE "ERROR"]
    BY <1>8 DEF Raise
  <2>2. /\ mode = "safety" /\ frame = "scheduler" => status' = status
        /\ ~(mode = "safety" /\ frame = "scheduler") => status' = [status EXCEPT ![frame] = "ERROR"]
    BY <1>6, <2>1
  <2>3. mode = "main" \/ mode = "safety"
    BY DEF AtStep
  <2>4. mode # "main" => mode' = "closing"
    BY <1>8 DEF Raise
  <2>5. mode = "main" => mode' = IF FlagBefore /\ SafetyPart(frame) # <<>> THEN "safety" ELSE "closing"
    BY <1>8 DEF Raise, ToSafety
  <2>6. SafetyPart(frame) = <<>> <=> frame = "retry"
    BY <1>5, PartsAre
  <2> QED
    BY <1>1, <1>2, <1>3, <1>4, <2>2, <2>3, <2>4, <2>5, <2>6
<1> QED
  BY <1>7, <1>8

\* Steps keep the types.
LEMMA TypeGoesOn == ASSUME TypeOK, Control, GoesOn PROVE TypeOK' /\ Control'
<1>1. AtStep /\ UNCHANGED <<top, keeping, frame, exit, warehouse>>
  BY GoingOn
<1>2. flagged' \in BOOLEAN /\ Advance(flagged')
  BY FlagGoesOn
<1>3. Control' /\ mode' \in {"main", "safety", "closing"} /\ at' \in Nat \ {0} /\ pending' \in BOOLEAN
  BY <1>1, <1>2, ControlGoesOn
<1>4. status' \in [Frames -> {"PASS", "FAIL", "ERROR", "NONE"}]
  BY <1>1, <1>2, StatusGoesOn
<1>5. /\ up' \in [Services -> BOOLEAN] /\ dataset' \in Datasets
      /\ runs' \in [Roles -> RunStates] /\ workdir' \in BOOLEAN
  BY PlatformGoesOn
<1>6. failed' \in [Frames -> BOOLEAN]
  BY ReportGoesOn DEF TypeOK
<1>7. restored' \in BOOLEAN
  BY ReportGoesOn DEF TypeOK
<1>8. known' \subseteq Roles
  BY <1>1, ReportGoesOn, SubjectsAre DEF TypeOK
<1>9. faults' \in 0..MaxFaults /\ said' \in Codes \X Codes
  <2>1. CASE SkipStep
    BY <2>1 DEF SkipStep, TypeOK
  <2>2. CASE StepSucceeds
    BY <2>2 DEF StepSucceeds, TypeOK
  <2>3. CASE EvidenceMissing
    BY <2>3, FaultsAssumption DEF EvidenceMissing, TypeOK
  <2>4. CASE PostTrigger
    <3>1. Subject \in {1, 2}
      BY <1>1, <2>4, PostsAreTwo, SubjectsAre DEF PostTrigger
    <3>2. PICK code \in Codes \ {0} :
            /\ code = 503 => ~AllUp \/ faults < MaxFaults
            /\ faults' = IF code = 503 /\ AllUp THEN faults + 1 ELSE faults
            /\ said' = [said EXCEPT ![Subject] = code]
      BY <2>4 DEF PostTrigger
    <3>3. faults' \in 0..MaxFaults
      BY <3>2, FaultsAssumption DEF TypeOK
    <3>4. said' \in Codes \X Codes
      BY <3>1, <3>2 DEF TypeOK
    <3> QED
      BY <3>3, <3>4
  <2> QED
    BY <2>1, <2>2, <2>3, <2>4 DEF GoesOn
<1> QED
  BY <1>1, <1>2, <1>3, <1>4, <1>5, <1>6, <1>7, <1>8, <1>9 DEF TypeOK

LEMMA TypeRaises == ASSUME TypeOK, Control, StepFails PROVE TypeOK' /\ Control'
<1>1. AtStep /\ Moved /\ Raise /\ UNCHANGED <<top, keeping, frame, known, said, exit>>
  BY FailingMoves
<1>2. Control' /\ mode' \in {"main", "safety", "closing"} /\ at' \in Nat \ {0} /\ pending' \in BOOLEAN
  BY <1>1, ControlRaises
<1>3. Verb = "recreate" => Subject \in Datasets
  BY <1>1, SubjectsAre
<1>4. /\ up' \in [Services -> BOOLEAN] /\ dataset' \in Datasets /\ warehouse' = warehouse
      /\ runs' \in [Roles -> RunStates] /\ workdir' \in BOOLEAN
  BY <1>1, <1>3, CommandsMove
<1>5. flagged' \in BOOLEAN /\ restored' \in BOOLEAN
  BY <1>1, Raising
<1>6. failed' \in [Frames -> BOOLEAN]
  BY <1>1, Raising DEF TypeOK
<1>7. status' = status \/ status' = [status EXCEPT ![frame] = "ERROR"]
  BY <1>1, Raising DEF AtStep
<1>8. status' \in [Frames -> {"PASS", "FAIL", "ERROR", "NONE"}]
  BY <1>7 DEF TypeOK
<1>9. faults' \in 0..MaxFaults
  BY FaultsAssumption DEF StepFails, TypeOK
<1> QED
  BY <1>1, <1>2, <1>4, <1>5, <1>6, <1>8, <1>9 DEF TypeOK

-----------------------------------------------------------------------------
(* Invalid data is remembered: a step that goes on.                        *)

LEMMA DataGoesOnInvalid ==
  ASSUME ScenarioInv, GoesOn, frame = "invalid"
  PROVE  DataKept'
<1>1. /\ TypeOK /\ Control /\ DataKept /\ AtStep
      /\ UNCHANGED <<top, keeping, frame, exit, warehouse>>
  BY GoingOn DEF ScenarioInv
<1>2. flagged' = FlagAfter /\ flagged' \in BOOLEAN /\ Advance(flagged')
  BY <1>1, FlagGoesOn
<1>3. /\ dataset' = IF Verb = "recreate" THEN Subject ELSE dataset
      /\ runs'["recovery"] # runs["recovery"] =>
           /\ runs["recovery"] = "none" /\ runs'["recovery"] = "queued"
           /\ Verb = "trigger" /\ Subject = "recovery"
  BY <1>1, PlatformGoesOn DEF Roles
<1>4. /\ "recovery" \in known' => "recovery" \in known \/ (Verb = "trigger" /\ Subject = "recovery")
      /\ restored' = restored
           \/ (restored' = TRUE /\ Verb = "expect" /\ Subject = "standard" /\ dataset = "standard")
      /\ Verb = "expect" /\ Subject = "standard" => restored' = TRUE
  BY <1>1, ReportGoesOn
<1>5. \/ mode' = mode /\ at' = at + 1
      \/ mode' \in {"safety", "closing"} /\ (mode' = "safety" => flagged' /\ mode = "main")
  <2>1. PICK flag \in BOOLEAN : flag = flagged'
    BY <1>2
  <2> QED
    BY <1>1, <1>2, <2>1, AdvanceLeads
<1>6. /\ mode = "main" /\ Verb = "recreate" /\ Subject = "invalid" => flagged' = TRUE
      /\ Verb \notin {"stop", "start", "recreate", "expect"} => flagged' = flagged
      /\ Verb = "expect" /\ Subject = "standard" => flagged' = FALSE
      /\ Verb = "expect" /\ Subject = "invalid" => flagged' = flagged
      /\ Verb = "recreate" /\ Subject = "standard" => flagged' = flagged
  BY <1>1, <1>2, InvalidSteps DEF FlagAfter, FlagBefore, TypeOK
<1> QED
  BY <1>1, <1>3, <1>4, <1>5, <1>6, InvalidSteps DEF DataKept, Untouched, Trusted, Control

LEMMA DataGoesOnRetry ==
  ASSUME ScenarioInv, GoesOn, frame = "retry"
  PROVE  DataKept'
<1>1. /\ TypeOK /\ Control /\ DataKept /\ AtStep
      /\ UNCHANGED <<top, keeping, frame, exit, warehouse>>
  BY GoingOn DEF ScenarioInv
<1>2. flagged' \in BOOLEAN /\ Advance(flagged')
  BY <1>1, FlagGoesOn
<1>3. Verb # "recreate" /\ (Verb = "trigger" => Subject # "recovery") /\ mode = "main" /\ Verb # "call"
  BY <1>1, GoingOn, RetrySteps
<1>4. dataset' = dataset /\ runs'["recovery"] = runs["recovery"]
  BY <1>1, <1>3, PlatformGoesOn DEF Roles
<1>5. ("recovery" \in known' => "recovery" \in known) /\ restored' = restored /\ known \subseteq known'
  BY <1>1, <1>3, ReportGoesOn
<1>6. (mode' = mode /\ at' = at + 1) \/ mode' \in {"safety", "closing"}
  <2>1. PICK flag \in BOOLEAN : flag = flagged'
    BY <1>2
  <2> QED
    BY <1>1, <1>2, <2>1, AdvanceLeads
<1>7. at = 16 => "recovery" \in known
  <2>1. at = 16 => Verb = "find" /\ Subject = "recovery"
    BY <1>1, RetrySteps
  <2>2. Verb = "find" => Able
    BY <1>1, ReportGoesOn
  <2> QED
    BY <2>1, <2>2 DEF Able, RunFound
<1>8. top = "retry"
  BY <1>1 DEF Control
<1>9. at \in Nat /\ at # 14
  BY <1>1, <1>3, RetrySteps DEF TypeOK
<1> QED
  BY <1>1, <1>3, <1>4, <1>5, <1>6, <1>7, <1>8, <1>9 DEF DataKept, Untouched, Trusted

\* The scenarios that only interrupt services never configure other data.
LEMMA DataInterrupted ==
  ASSUME ScenarioInv, AtStep, frame \in {"scheduler", "postgres"}, UNCHANGED <<top, keeping, frame, warehouse>>,
         Verb # "recreate" => dataset' = dataset
  PROVE  DataKept'
<1>1. /\ Control /\ DataKept
      /\ UNCHANGED <<top, keeping, frame, warehouse>>
  BY DEF ScenarioInv
<1>2. Verb # "recreate"
  BY SubjectsAre DEF ScenarioInv
<1>3. dataset' = dataset
  BY <1>2
<1>4. top \in {"scheduler", "postgres"}
  BY <1>1 DEF Control
<1> QED
  BY <1>1, <1>3, <1>4 DEF DataKept, Untouched, Trusted

LEMMA DataGoesOn == ASSUME ScenarioInv, GoesOn PROVE DataKept'
<1>1. frame \in {"scheduler", "postgres", "invalid", "retry"}
  BY DEF ScenarioInv, TypeOK, Frames
<1>2. CASE frame \in {"scheduler", "postgres"}
  <2>1. AtStep /\ UNCHANGED <<top, keeping, frame, warehouse>>
    BY GoingOn
  <2>2. Verb # "recreate" => dataset' = dataset
    BY PlatformGoesOn DEF ScenarioInv
  <2> QED
    BY <1>2, <2>1, <2>2, DataInterrupted
<1> QED
  BY <1>1, <1>2, DataGoesOnInvalid, DataGoesOnRetry

\* Invalid data is remembered: a step that fails.
LEMMA DataRaisesInvalid ==
  ASSUME ScenarioInv, StepFails, frame = "invalid"
  PROVE  DataKept'
<1>1. /\ TypeOK /\ Control /\ DataKept /\ AtStep /\ Moved /\ Raise
      /\ UNCHANGED <<top, keeping, frame, known, exit>>
  BY FailingMoves DEF ScenarioInv
<1>2. Verb = "recreate" => Subject \in Datasets
  BY <1>1, SubjectsAre
<1>3. /\ Verb # "recreate" => dataset' = dataset
      /\ Verb = "recreate" => dataset' \in {dataset, Subject}
      /\ warehouse' = warehouse
      /\ runs'["recovery"] # runs["recovery"] =>
           /\ runs["recovery"] = "none" /\ runs'["recovery"] = "queued" /\ Starts("recovery")
  BY <1>1, <1>2, CommandsMove DEF Roles
<1>4. Starts("recovery") => Verb = "trigger" /\ Subject = "recovery"
  BY DEF Starts
<1>5. /\ Verb # "recreate" \/ Subject # "invalid" => flagged' = flagged
      /\ mode = "main" /\ Verb = "recreate" /\ Subject = "invalid" => flagged' = TRUE
      /\ restored' => restored
      /\ \/ mode = "main" /\ at \in 3..7 /\ mode' = "main" /\ at' = 8
         \/ mode' = "closing"
         \/ mode = "main" /\ mode' = "safety" /\ flagged' = TRUE
  BY <1>1, Raising
<1>6. at \in Nat
  BY <1>1 DEF TypeOK
<1> QED
  BY <1>1, <1>3, <1>4, <1>5, <1>6, InvalidSteps DEF DataKept, Untouched, Trusted, Control

LEMMA DataRaisesRetry ==
  ASSUME ScenarioInv, StepFails, frame = "retry"
  PROVE  DataKept'
<1>1. /\ TypeOK /\ Control /\ DataKept /\ AtStep /\ Moved /\ Raise
      /\ UNCHANGED <<top, keeping, frame, known, exit>>
  BY FailingMoves DEF ScenarioInv
<1>2. Verb # "recreate" /\ (Verb = "trigger" => Subject # "recovery") /\ mode = "main"
  BY <1>1, RetrySteps
<1>3. ~Starts("recovery")
  BY <1>2 DEF Starts
<1>4. dataset' = dataset /\ runs'["recovery"] = runs["recovery"] /\ warehouse' = warehouse
  BY <1>1, <1>2, <1>3, CommandsMove DEF Roles
<1>5. restored' = restored /\ mode' = "closing"
  BY <1>1, <1>2, Raising
<1>6. top = "retry"
  BY <1>1 DEF Control
<1> QED
  BY <1>1, <1>2, <1>4, <1>5, <1>6 DEF DataKept, Untouched, Trusted

LEMMA DataRaises == ASSUME ScenarioInv, StepFails PROVE DataKept'
<1>1. frame \in {"scheduler", "postgres", "invalid", "retry"}
  BY DEF ScenarioInv, TypeOK, Frames
<1>2. CASE frame \in {"scheduler", "postgres"}
  <2>1. AtStep /\ Moved /\ UNCHANGED <<top, keeping, frame>>
    BY FailingMoves
  <2>2. Verb = "recreate" => Subject \in Datasets
    BY <2>1, SubjectsAre DEF ScenarioInv
  <2>3. (Verb # "recreate" => dataset' = dataset) /\ warehouse' = warehouse
    BY <2>1, <2>2, CommandsMove DEF ScenarioInv
  <2> QED
    BY <1>2, <2>1, <2>3, DataInterrupted
<1> QED
  BY <1>1, <1>2, DataRaisesInvalid, DataRaisesRetry

-----------------------------------------------------------------------------
(* Services, verdicts and the work directory: a step that goes on.         *)

\* The commands of the restart scenarios reach one service only.
LEMMA ServicesGoOn == ASSUME ScenarioInv, GoesOn PROVE ServicesKept'
<1>1. TypeOK /\ Control /\ ServicesKept /\ AtStep /\ UNCHANGED <<top, keeping, frame>>
  BY GoingOn DEF ScenarioInv
<1>2. flagged' = FlagAfter /\ flagged' \in BOOLEAN /\ Advance(flagged')
  BY <1>1, FlagGoesOn
<1>3. ASSUME top = "postgres" PROVE up'["scheduler"]
  <2>1. frame = "postgres"
    BY <1>1, <1>3 DEF Control
  <2>2. Verb # "recreate" /\ (Verb = "stop" \/ Verb = "start" => Subject = "postgres")
    BY <1>1, <2>1, PostgresSteps
  <2>3. up'["scheduler"] = up["scheduler"]
    BY <1>1, <2>2, PlatformGoesOn DEF Services
  <2> QED
    BY <1>1, <1>3, <2>3 DEF ServicesKept
<1>4. ASSUME top = "scheduler", mode' = "main", at' >= 6 PROVE flagged' = FALSE
  <2>1. frame = "scheduler"
    BY <1>1, <1>4 DEF Control
  <2>2. mode = "main" /\ at' = at + 1
    <3>1. PICK flag \in BOOLEAN : flag = flagged'
      BY <1>2
    <3> QED
      BY <1>1, <1>2, <1>4, <3>1, AdvanceLeads
  <2>3. at = 5 \/ at = 6 \/ at = 7
    BY <1>1, <1>4, <2>1, <2>2, SchedulerSteps
  <2>4. CASE at = 5
    <3>1. Verb = "start"
      BY <1>1, <2>1, <2>2, <2>4, SchedulerSteps
    <3> QED
      BY <1>2, <2>1, <2>2, <3>1 DEF FlagAfter
  <2>5. CASE at = 6 \/ at = 7
    <3>1. Verb \notin {"stop", "recreate"}
      BY <1>1, <2>1, <2>2, <2>5, SchedulerSteps
    <3>2. flagged = FALSE
      BY <1>1, <1>4, <2>2, <2>5 DEF ServicesKept, TypeOK
    <3> QED
      BY <1>2, <3>1, <3>2 DEF FlagAfter, FlagBefore
  <2> QED
    BY <2>3, <2>4, <2>5
<1> QED
  BY <1>1, <1>3, <1>4 DEF ServicesKept

LEMMA ServicesRaise == ASSUME ScenarioInv, StepFails PROVE ServicesKept'
<1>1. /\ TypeOK /\ Control /\ ServicesKept /\ AtStep /\ Moved /\ Raise
      /\ UNCHANGED <<top, keeping, frame>>
  BY FailingMoves DEF ScenarioInv
<1>2. ASSUME top = "postgres" PROVE up'["scheduler"]
  <2>1. frame = "postgres"
    BY <1>1, <1>2 DEF Control
  <2>2. Verb # "recreate" /\ (Verb = "stop" \/ Verb = "start" => Subject = "postgres")
    BY <1>1, <2>1, PostgresSteps
  <2>3. up'["scheduler"] = up["scheduler"]
    BY <1>1, <2>2, CommandsMove DEF Services
  <2> QED
    BY <1>1, <1>2, <2>3 DEF ServicesKept
<1>3. mode' = "main" => frame = "invalid"
  BY <1>1, Raising
<1> QED
  BY <1>1, <1>2, <1>3 DEF ServicesKept, Control

\* A verdict is given where the last step has found the platform well.
LEMMA LastStepIsWell ==
  ASSUME ScenarioInv, GoesOn, mode = "main", at = Len(Part)
  PROVE  /\ AllUp /\ up' = up /\ dataset = "standard" /\ dataset' = dataset
         /\ runs' = runs /\ restored' = restored /\ failed' = failed
         /\ frame \notin {"postgres", "retry"} => flagged' = FALSE
<1>1. /\ TypeOK /\ Control /\ DataKept /\ ServicesKept /\ AtStep
  BY GoingOn DEF ScenarioInv
<1>2. PICK length : length = Len(Part)
  OBVIOUS
<1>3. frame \in {"scheduler", "postgres", "invalid", "retry"}
  BY <1>1 DEF TypeOK, Frames
<1>4. at = length
  BY <1>2
<1>5. ASSUME frame = "scheduler"
      PROVE  /\ Verb \in {"terminal", "counts", "health"} /\ AllUp /\ dataset = "standard"
             /\ frame \notin {"postgres", "retry"} => flagged = FALSE
  <2>1. length = 7
    BY <1>1, <1>2, <1>5, SchedulerSteps
  <2>2. at = 7
    BY <1>4, <2>1
  <2>3. Verb = "terminal"
    BY <1>1, <1>5, <2>2, SchedulerSteps
  <2>4. Able
    BY <1>1, <1>5, <2>3, ReportGoesOn
  <2>5. AllUp
    BY <2>3, <2>4 DEF Able, RunTerminal, AirflowAnswers
  <2>6. top = "scheduler" /\ dataset = "standard"
    BY <1>1, <1>5 DEF Control, DataKept, Untouched
  <2>7. flagged = FALSE
    BY <1>1, <2>2, <2>6 DEF ServicesKept, TypeOK
  <2> QED
    BY <2>2, <2>3, <2>5, <2>6, <2>7
<1>6. ASSUME frame = "postgres"
      PROVE  /\ Verb \in {"terminal", "counts", "health"} /\ AllUp /\ dataset = "standard"
             /\ frame \notin {"postgres", "retry"} => flagged = FALSE
  <2>1. length = 11
    BY <1>1, <1>2, <1>6, PostgresSteps
  <2>2. at = 11
    BY <1>4, <2>1
  <2>3. Verb = "counts"
    BY <1>1, <1>6, <2>2, PostgresSteps
  <2>4. Able
    BY <1>1, <2>3, ReportGoesOn
  <2>5. top = "postgres" /\ dataset = "standard"
    BY <1>1, <1>6 DEF Control, DataKept, Untouched
  <2>6. AllUp
    BY <1>1, <2>3, <2>4, <2>5 DEF Able, QueriesAnswered, ServicesKept, AllUp, Services
  <2> QED
    BY <1>6, <2>3, <2>5, <2>6
<1>7. ASSUME frame = "invalid"
      PROVE  /\ Verb \in {"terminal", "counts", "health"} /\ AllUp /\ dataset = "standard"
             /\ frame \notin {"postgres", "retry"} => flagged = FALSE
  <2>1. length = 13
    BY <1>1, <1>2, <1>7, InvalidSteps
  <2>2. at = 13
    BY <1>4, <2>1
  <2>3. Verb = "health"
    BY <1>1, <1>7, <2>2, InvalidSteps
  <2>4. Able
    BY <1>1, <2>3, ReportGoesOn
  <2>5. AllUp
    BY <2>3, <2>4 DEF Able
  <2>6. dataset = "standard" /\ flagged = FALSE
    BY <1>1, <1>7, <2>2 DEF DataKept, TypeOK
  <2> QED
    BY <1>7, <2>3, <2>5, <2>6
<1>8. ASSUME frame = "retry"
      PROVE  /\ Verb \in {"terminal", "counts", "health"} /\ AllUp /\ dataset = "standard"
             /\ frame \notin {"postgres", "retry"} => flagged = FALSE
  <2>1. length = 18
    BY <1>1, <1>2, <1>8, RetrySteps
  <2>2. at = 18
    BY <1>4, <2>1
  <2>3. Verb = "health"
    BY <1>1, <1>8, <2>2, RetrySteps
  <2>4. Able
    BY <1>1, <2>3, ReportGoesOn
  <2>5. AllUp
    BY <2>3, <2>4 DEF Able
  <2>6. dataset = "standard"
    BY <1>1, <1>8, <2>2 DEF DataKept, Trusted
  <2> QED
    BY <1>8, <2>3, <2>5, <2>6
<1>9. Verb \in {"terminal", "counts", "health"} /\ AllUp /\ dataset = "standard"
      /\ (frame \notin {"postgres", "retry"} => flagged = FALSE)
  BY <1>3, <1>5, <1>6, <1>7, <1>8
<1>10. up' = up /\ dataset' = dataset /\ runs' = runs
  <2>1. \A s \in Services : up'[s] = up[s]
    BY <1>1, <1>9, PlatformGoesOn
  <2>2. \A r \in Roles : runs'[r] = runs[r]
    BY <1>1, <1>9, PlatformGoesOn
  <2>3. up' \in [Services -> BOOLEAN] /\ up \in [Services -> BOOLEAN]
    BY <1>1, PlatformGoesOn DEF TypeOK
  <2>4. runs' \in [Roles -> RunStates] /\ runs \in [Roles -> RunStates]
    BY <1>1, PlatformGoesOn DEF TypeOK
  <2>5. dataset' = dataset
    BY <1>1, <1>9, PlatformGoesOn
  <2>6. up' = up
    BY <2>1, <2>3
  <2>7. runs' = runs
    BY <2>2, <2>4
  <2> QED
    BY <2>5, <2>6, <2>7
<1>11. restored' = restored /\ failed' = failed
  BY <1>1, <1>9, ReportGoesOn
<1>12. flagged' = flagged
  BY <1>1, <1>9, FlagGoesOn DEF FlagAfter, FlagBefore, TypeOK
<1> QED
  BY <1>9, <1>10, <1>11, <1>12

\* A verdict earned: what the evaluation of a scenario looks at.
LEMMA VerdictsAreEarned ==
  ASSUME ScenarioInv, GoesOn, mode = "main", at = Len(Part), Verdict = "PASS"
  PROVE  /\ warehouse = "standard" /\ ~failed[frame]
         /\ frame = "retry" => status["invalid"] = "PASS"
         /\ frame = "invalid" => restored /\ runs["recovery"] = "success"
<1>1. /\ TypeOK /\ Control /\ DataKept /\ VerdictKept /\ AtStep
  BY GoingOn DEF ScenarioInv
<1>2. frame \in {"scheduler", "postgres", "invalid", "retry"}
  BY <1>1 DEF TypeOK, Frames
<1>3. failed[frame] => frame = "invalid"
  BY <1>1 DEF VerdictKept
<1>4. CASE frame \in {"scheduler", "postgres"}
  <2>1. warehouse = "standard"
    BY <1>1, <1>4 DEF Control, DataKept
  <2> QED
    BY <1>3, <1>4, <2>1
<1>5. CASE frame = "invalid"
  <2>1. ~failed["invalid"] /\ runs["recovery"] = "success"
    BY <1>5 DEF Verdict, InvalidVerdict
  <2>2. at >= 10
    <3>1. PICK length : length = Len(Part)
      OBVIOUS
    <3>2. length = 13
      BY <1>1, <1>5, <3>1, InvalidSteps
    <3> QED
      BY <3>1, <3>2
  <2> QED
    BY <1>1, <1>5, <2>1, <2>2 DEF DataKept
<1>6. CASE frame = "retry"
  <2>1. status["invalid"] = "PASS"
    BY <1>6 DEF Verdict, RetryVerdict
  <2>2. warehouse = "standard"
    BY <1>1, <2>1 DEF VerdictKept, DataKept
  <2> QED
    BY <1>3, <1>6, <2>1, <2>2
<1> QED
  BY <1>2, <1>4, <1>5, <1>6

LEMMA VerdictGoesOn == ASSUME ScenarioInv, GoesOn PROVE VerdictKept'
<1>1. /\ TypeOK /\ Control /\ VerdictKept /\ AtStep /\ UNCHANGED <<top, keeping, frame, exit, warehouse>>
  BY GoingOn DEF ScenarioInv
<1>2. flagged' \in BOOLEAN /\ Advance(flagged')
  BY <1>1, FlagGoesOn
<1>3. exit' # 0 /\ mode \in {"main", "safety"}
  BY <1>1 DEF AtStep, VerdictKept
<1>4. runs["recovery"] = "success" => runs'["recovery"] = "success"
  BY <1>1, PlatformGoesOn DEF Roles
<1>5. /\ restored => restored'
      /\ failed' = failed \/ (frame = "invalid" /\ mode = "main"
                                /\ failed' = [failed EXCEPT ![frame] = TRUE])
  <2>1. restored' = restored \/ restored' = TRUE
    BY <1>1, ReportGoesOn
  <2>2. failed' = failed \/ (frame = "invalid" /\ mode = "main"
                              /\ failed' = [failed EXCEPT ![frame] = TRUE])
    BY <1>1, ReportGoesOn
  <2> QED
    BY <2>1, <2>2
<1>6. frame \in Frames /\ top \in Frames /\ status \in [Frames -> {"PASS", "FAIL", "ERROR", "NONE"}]
      /\ failed \in [Frames -> BOOLEAN] /\ "invalid" \in Frames
  BY <1>1, ScenariosAssumption DEF TypeOK, Frames
<1>7. mode = "safety" => frame \in {"scheduler", "postgres", "invalid"}
  BY <1>1, RetrySteps DEF TypeOK, Frames
<1>8. ASSUME status' = status,
             mode' = mode \/ mode' = "closing" \/ (mode = "main" /\ mode' = "safety")
      PROVE  VerdictKept'
  <2>1. Judged(top) => frame = top /\ frame = "postgres" /\ mode = "safety"
    BY <1>1, <1>3 DEF VerdictKept
  <2>2. Judged(top) => AllUp' /\ dataset' = "standard"
    <3>1. SUFFICES ASSUME Judged(top) PROVE AllUp' /\ dataset' = "standard"
      OBVIOUS
    <3>2. AllUp /\ dataset = "standard"
      BY <1>1, <3>1 DEF VerdictKept
    <3>3. Verb = "start" \/ Verb = "await"
      BY <1>1, <2>1, <3>1, PostgresSteps
    <3>4. dataset' = "standard"
      BY <1>1, <3>2, <3>3, PlatformGoesOn
    <3>5. \A s \in Services : up[s] => up'[s]
      BY <1>1, <3>3, PlatformGoesOn
    <3> QED
      BY <3>2, <3>4, <3>5 DEF AllUp
  <2>3. status[top] = "PASS" => failed' = failed
    BY <1>5, <2>1 DEF Judged
  <2>4. frame # top => failed'[top] = failed[top]
    BY <1>5, <1>6
  <2>5. mode' = "main" => (failed'[frame] => frame = "invalid")
    BY <1>1, <1>3, <1>5, <1>8 DEF VerdictKept
  <2>6. \A f \in Frames : Judged(f)' <=> Judged(f)
    BY <1>8 DEF Judged
  <2>7. /\ mode' = "main" => ~Judged(frame)
        /\ mode' = "safety" /\ frame # "postgres" => ~Judged(frame)
        /\ frame # top => ~Judged(top) /\ ~failed'[top]
    BY <1>1, <1>3, <1>8, <2>4 DEF VerdictKept
  <2> QED
    BY <1>1, <1>3, <1>4, <1>5, <1>8, <2>2, <2>3, <2>5, <2>7 DEF VerdictKept, Judged
<1>9. ASSUME mode = "main", at = Len(Part), mode' \in {"safety", "closing"},
             mode' = "safety" => flagged' /\ frame # "retry",
             status' = [status EXCEPT ![frame] = Verdict]
      PROVE  VerdictKept'
  <2>1. /\ AllUp /\ up' = up /\ dataset = "standard" /\ dataset' = dataset
        /\ runs' = runs /\ restored' = restored /\ failed' = failed
        /\ frame \notin {"postgres", "retry"} => flagged' = FALSE
    BY <1>9, LastStepIsWell
  <2>2. Verdict = "PASS" =>
          /\ warehouse = "standard" /\ ~failed[frame]
          /\ frame = "retry" => status["invalid"] = "PASS"
          /\ frame = "invalid" => restored /\ runs["recovery"] = "success"
    BY <1>9, VerdictsAreEarned
  <2>3. \A f \in Frames : status'[f] = IF f = frame THEN Verdict ELSE status[f]
    BY <1>6, <1>9
  <2>4. AllUp' /\ dataset' = "standard"
    BY <2>1 DEF AllUp
  <2>5. mode' # "main" /\ (mode' = "safety" => frame = "postgres")
    BY <1>9, <2>1
  <2>6. frame # top => ~Judged(top)' /\ ~failed'[top]
    BY <1>1, <1>6, <2>1, <2>3 DEF VerdictKept, Judged
  <2>7. status'["invalid"] = "PASS" => restored' /\ runs'["recovery"] = "success"
    BY <1>1, <1>6, <2>1, <2>2, <2>3 DEF VerdictKept
  <2>8. status'[top] = "PASS" =>
          warehouse' = "standard" /\ ~failed'[top] /\ (top = "retry" => status'["invalid"] = "PASS")
    <3>1. CASE frame # top
      BY <2>6, <3>1, <1>1 DEF Judged
    <3>2. CASE frame = top
      BY <1>1, <1>6, <2>1, <2>2, <2>3, <3>2
    <3> QED
      BY <3>1, <3>2
  <2>9. top \in {"scheduler", "postgres"} => status'["invalid"] = "ERROR"
    BY <1>1, <1>6, <2>3 DEF VerdictKept, Control
  <2> QED
    BY <1>1, <1>3, <2>4, <2>5, <2>6, <2>7, <2>8, <2>9 DEF VerdictKept, Judged
<1> QED
  <2>1. PICK flag \in BOOLEAN : flag = flagged'
    BY <1>2
  <2> QED
    BY <1>1, <1>2, <1>8, <1>9, <2>1, AdvanceLeads

\* A step that fails leaves no verdict of the scenario asked for.
LEMMA VerdictRaises == ASSUME ScenarioInv, StepFails PROVE VerdictKept'
<1>1. /\ TypeOK /\ Control /\ VerdictKept /\ AtStep /\ Moved /\ Raise
      /\ UNCHANGED <<top, keeping, frame, exit>>
  BY FailingMoves DEF ScenarioInv
<1>2. exit' # 0 /\ mode \in {"main", "safety"}
  BY <1>1 DEF AtStep, VerdictKept
<1>3. frame \in Frames /\ top \in Frames /\ status \in [Frames -> {"PASS", "FAIL", "ERROR", "NONE"}]
      /\ failed \in [Frames -> BOOLEAN] /\ "invalid" \in Frames
  BY <1>1, ScenariosAssumption DEF TypeOK, Frames
<1>4. mode = "safety" => frame \in {"scheduler", "postgres", "invalid"}
  BY <1>1, RetrySteps DEF TypeOK, Frames
<1>5. Verb = "recreate" => Subject \in Datasets
  BY <1>1, SubjectsAre
<1>6. runs["recovery"] = "success" => runs'["recovery"] = "success"
  BY <1>1, <1>5, CommandsMove DEF Roles
<1>7. failed' = [failed EXCEPT ![frame] = TRUE] /\ (mode # "safety" => restored' = restored)
  BY <1>1, Raising
<1>8. \/ mode = "main" /\ frame = "invalid" /\ status' = status
      \/ mode' # "main" /\ status' = [status EXCEPT ![frame] = "ERROR"]
      \/ mode' = "closing" /\ mode = "safety" /\ frame = "scheduler" /\ status' = status
  BY <1>1, <1>2, Raising
<1>9. \A f \in Frames : f # frame => status'[f] = status[f] /\ failed'[f] = failed[f]
  BY <1>3, <1>7, <1>8
<1>10. status'[frame] \notin {"PASS", "FAIL"}
  <2>1. CASE status' = [status EXCEPT ![frame] = "ERROR"]
    BY <1>3, <2>1
  <2>2. CASE status' = status /\ (mode = "main" \/ (mode = "safety" /\ frame = "scheduler"))
    BY <1>1, <2>2 DEF VerdictKept, Judged
  <2> QED
    BY <1>8, <2>1, <2>2
<1>11. frame # top => status'[top] \notin {"PASS", "FAIL"} /\ ~failed'[top]
  BY <1>1, <1>3, <1>9 DEF VerdictKept, Judged
<1>12. status'[top] \notin {"PASS", "FAIL"}
  BY <1>10, <1>11
<1>13. status'["invalid"] = "PASS" => restored' /\ runs'["recovery"] = "success"
  <2>1. SUFFICES ASSUME status'["invalid"] = "PASS" PROVE restored' /\ runs'["recovery"] = "success"
    OBVIOUS
  <2>2. frame # "invalid" /\ status["invalid"] = "PASS"
    BY <1>3, <1>9, <1>10, <2>1
  <2>3. restored /\ runs["recovery"] = "success"
    BY <1>1, <2>2 DEF VerdictKept
  <2>4. mode # "safety"
    BY <1>1, <1>4, <2>2 DEF VerdictKept, Control
  <2> QED
    BY <1>6, <1>7, <2>3, <2>4
<1>14. mode' = "main" => frame = "invalid"
  BY <1>8, <1>1, Raising
<1>15. top \in {"scheduler", "postgres"} => status'["invalid"] = "ERROR"
  BY <1>1, <1>3, <1>9 DEF VerdictKept, Control
<1> QED
  BY <1>1, <1>2, <1>10, <1>11, <1>12, <1>13, <1>14, <1>15 DEF VerdictKept, Judged

LEMMA WorkdirGoesOn == ASSUME ScenarioInv, GoesOn PROVE WorkdirKept'
<1>1. /\ TypeOK /\ Control /\ WorkdirKept /\ AtStep /\ UNCHANGED <<top, keeping, frame>>
  BY GoingOn DEF ScenarioInv
<1>2. flagged' \in BOOLEAN /\ Advance(flagged')
  BY <1>1, FlagGoesOn
<1>3. PICK flag \in BOOLEAN : flag = flagged'
  BY <1>2
<1>4. (workdir' => workdir \/ Verb = "copy") /\ (Verb = "copy" => frame = "invalid")
  BY <1>1, PlatformGoesOn, SubjectsAre
<1>5. /\ frame \in Frames /\ "invalid" \in Frames
      /\ status \in [Frames -> {"PASS", "FAIL", "ERROR", "NONE"}]
  BY <1>1 DEF TypeOK, Frames
<1>6. \/ status' = status /\ mode' = mode /\ at' = at + 1
      \/ status' = status /\ mode' \in {"safety", "closing"}
      \/ status' = [status EXCEPT ![frame] = Verdict] /\ mode' \in {"safety", "closing"}
  BY <1>1, <1>2, <1>3, AdvanceLeads
<1>7. Verdict # "NONE"
  BY <1>5, VerdictIs
<1>8. mode \in {"main", "safety"} /\ mode' # "done" /\ at \in Nat
  BY <1>1, <1>6 DEF AtStep, TypeOK
<1>9. frame = "invalid" => status'["invalid"] # "NONE"
  BY <1>1, <1>5, <1>6, <1>7, <1>8 DEF WorkdirKept
<1>10. frame # "invalid" => status'["invalid"] = status["invalid"]
  BY <1>5, <1>6
<1>11. /\ workdir' => frame = "invalid" \/ KeepWorkDirectory' \/ status'["invalid"] = "NONE"
       /\ status'["invalid"] = "NONE" => frame # "invalid"
  BY <1>1, <1>4, <1>9, <1>10 DEF WorkdirKept, KeepWorkDirectory
<1>12. frame = "retry" /\ mode' = "main" /\ at' <= 14 => status'["invalid"] = "ERROR"
  BY <1>1, <1>6, <1>8, <1>10 DEF WorkdirKept
<1>13. status'[top] # "NONE"
  <2>1. status[top] # "NONE" /\ top \in Frames
    BY <1>1, <1>8, ScenariosAssumption DEF WorkdirKept, TypeOK
  <2> QED
    BY <1>5, <1>6, <1>7, <2>1
<1> QED
  BY <1>1, <1>8, <1>11, <1>12, <1>13 DEF WorkdirKept

LEMMA WorkdirRaises == ASSUME ScenarioInv, StepFails PROVE WorkdirKept'
<1>1. /\ TypeOK /\ Control /\ WorkdirKept /\ AtStep /\ Moved /\ Raise /\ UNCHANGED <<top, keeping, frame>>
  BY FailingMoves DEF ScenarioInv
<1>2. Verb = "recreate" => Subject \in Datasets
  BY <1>1, SubjectsAre
<1>3. (workdir' => workdir \/ Verb = "copy") /\ (Verb = "copy" => frame = "invalid")
  BY <1>1, <1>2, CommandsMove, SubjectsAre
<1>4. /\ frame \in Frames /\ "invalid" \in Frames
      /\ status \in [Frames -> {"PASS", "FAIL", "ERROR", "NONE"}]
  BY <1>1 DEF TypeOK, Frames
<1>5. /\ status' = status \/ status' = [status EXCEPT ![frame] = "ERROR"]
      /\ mode' = "main" => frame = "invalid"
      /\ mode' # "done"
  BY <1>1, Raising DEF AtStep
<1>6. mode # "done"
  BY <1>1 DEF AtStep
<1>7. frame = "invalid" => status'["invalid"] # "NONE"
  BY <1>1, <1>4, <1>5, <1>6 DEF WorkdirKept
<1>8. frame # "invalid" => status'["invalid"] = status["invalid"]
  BY <1>4, <1>5
<1>9. /\ workdir' => frame = "invalid" \/ KeepWorkDirectory' \/ status'["invalid"] = "NONE"
      /\ status'["invalid"] = "NONE" => frame # "invalid"
  BY <1>1, <1>3, <1>7, <1>8 DEF WorkdirKept, KeepWorkDirectory
<1>10. status'[top] # "NONE"
  <2>1. status[top] # "NONE" /\ top \in Frames
    BY <1>1, <1>6, ScenariosAssumption DEF WorkdirKept, TypeOK
  <2> QED
    BY <1>4, <1>5, <2>1
<1> QED
  BY <1>1, <1>5, <1>9, <1>10 DEF WorkdirKept

-----------------------------------------------------------------------------
(* Steps between the scripts, and those of the platform.                   *)

\* The retry scenario runs the one with the invalid data from its start.
LEMMA CallKeeps == ASSUME ScenarioInv, Call PROVE ScenarioInv'
<1>1. TypeOK /\ Control /\ DataKept /\ ServicesKept /\ VerdictKept /\ WorkdirKept /\ AtStep
  BY DEF ScenarioInv, Call
<1>2. frame = "retry" /\ mode = "main" /\ at = 14 /\ Subject = "invalid"
  BY <1>1, SubjectsAre DEF Call
<1>3. /\ frame' = "invalid" /\ at' = 1
      /\ UNCHANGED <<top, keeping, mode, pending, flagged, known, said, status, failed, restored, exit,
                     faults, up, dataset, runs, warehouse, workdir>>
  BY <1>2 DEF Call, platform
<1>4. top = "retry" /\ pending = FALSE
  BY <1>1, <1>2 DEF Control, TypeOK
<1>5. TypeOK'
  BY <1>1, <1>3 DEF TypeOK, Frames
<1>6. Control'
  <2>1. Len(MainPart(frame')) = 13
    BY <1>3, PartsAre
  <2>2. at' \in 1..Len(MainPart(frame'))
    BY <1>3, <2>1
  <2> QED
    BY <1>2, <1>3, <1>4, <2>2 DEF Control
<1>7. DataKept'
  BY <1>1, <1>2, <1>3, <1>4 DEF DataKept, Untouched, Trusted
<1>8. ServicesKept'
  BY <1>1, <1>3, <1>4 DEF ServicesKept
<1>9. status["invalid"] = "ERROR"
  BY <1>1, <1>2 DEF WorkdirKept, KeepWorkDirectory
<1>10. VerdictKept'
  BY <1>1, <1>2, <1>3, <1>4, <1>9 DEF VerdictKept, Judged, AllUp
<1>11. WorkdirKept'
  BY <1>1, <1>2, <1>3, <1>9 DEF WorkdirKept, KeepWorkDirectory
<1> QED
  BY <1>5, <1>6, <1>7, <1>8, <1>10, <1>11 DEF ScenarioInv

\* A report is written, and a scenario within another returns.
LEMMA ReportKeeps == ASSUME ScenarioInv, Report PROVE ScenarioInv'
<1>1. /\ TypeOK /\ Control /\ DataKept /\ ServicesKept /\ VerdictKept /\ WorkdirKept
      /\ mode = "closing"
  BY DEF ScenarioInv, Report
<1>2. /\ UNCHANGED <<top, keeping, pending, known, said, status, failed, restored, faults, up, dataset,
                     runs, warehouse>>
      /\ workdir' = (workdir /\ ~RemovesCopies)
  BY DEF Report
<1>3. /\ pending = FALSE /\ at = 1 /\ exit # 0
      /\ top \in Frames /\ frame \in Frames /\ workdir' \in BOOLEAN
  BY <1>1, <1>2, ScenariosAssumption DEF Control, TypeOK, VerdictKept
<1>4. ASSUME frame = top PROVE ScenarioInv'
  <2>1. mode' = "done" /\ exit' = ExitCode(status[top]) /\ UNCHANGED <<frame, at, flagged>>
    BY <1>4 DEF Report
  <2>2. status[top] \in {"PASS", "FAIL", "ERROR"}
    BY <1>1, <1>3 DEF WorkdirKept, TypeOK
  <2>3. exit' \in {0, 1, 2} /\ (exit' = 0 => status[top] = "PASS")
    BY <2>1, <2>2 DEF ExitCode
  <2>4. TypeOK'
    BY <1>1, <1>2, <1>3, <2>1, <2>3 DEF TypeOK
  <2>5. Control'
    BY <1>2, <1>3, <1>4, <2>1 DEF Control
  <2>6. DataKept'
    BY <1>1, <1>2, <2>1 DEF DataKept, Untouched, Trusted
  <2>7. ServicesKept'
    BY <1>1, <1>2, <2>1 DEF ServicesKept
  <2>8. VerdictKept'
    BY <1>1, <1>2, <1>4, <2>1, <2>3 DEF VerdictKept, Judged, AllUp
  <2>9. WorkdirKept'
    BY <1>1, <1>2, <1>4, <2>1 DEF WorkdirKept, KeepWorkDirectory, RemovesCopies
  <2> QED
    BY <2>4, <2>5, <2>6, <2>7, <2>8, <2>9 DEF ScenarioInv
<1>5. ASSUME frame # top PROVE ScenarioInv'
  <2>1. frame = "invalid" /\ top = "retry"
    BY <1>1, <1>5 DEF Control
  <2>2. frame' = "retry" /\ mode' = "main" /\ flagged' = FALSE /\ exit' = exit
    BY <1>5, <2>1 DEF Report
  <2>3. at' = 15
    BY <1>5, <2>1, PositionsAre DEF Report
  <2>4. TypeOK'
    <3>1. at' \in Nat \ {0} /\ frame' \in Frames /\ mode' \in {"main", "safety", "closing", "done"}
      BY <2>2, <2>3 DEF Frames
    <3>2. UNCHANGED <<top, keeping, pending, known, said, status, failed, restored, exit, faults, up,
                      dataset, runs, warehouse>>
      BY <1>2, <2>2
    <3>3. flagged' \in BOOLEAN /\ workdir' \in BOOLEAN
      BY <1>3, <2>2
    <3> QED
      BY <1>1, <3>1, <3>2, <3>3 DEF TypeOK
  <2>5. Control'
    <3>1. Len(MainPart(frame')) = 18
      BY <2>2, PartsAre
    <3>2. at' \in 1..Len(MainPart(frame'))
      BY <2>3, <3>1
    <3> QED
      BY <1>2, <1>3, <2>1, <2>2, <3>2 DEF Control
  <2>6. DataKept'
    BY <1>1, <1>2, <2>1, <2>2, <2>3 DEF DataKept, Untouched, Trusted
  <2>7. ServicesKept'
    BY <1>2, <2>1 DEF ServicesKept
  <2>8. VerdictKept'
    BY <1>1, <1>2, <1>3, <1>5, <2>1, <2>2 DEF VerdictKept, Judged, AllUp
  <2>9. WorkdirKept'
    <3>1. ~(at' <= 14)
      BY <2>3
    <3>2. ~workdir'
      BY <1>2, <2>1 DEF RemovesCopies, KeepWorkDirectory
    <3>3. status'[top'] # "NONE" /\ frame' # "invalid"
      BY <1>1, <1>2, <2>2 DEF WorkdirKept, KeepWorkDirectory
    <3> QED
      BY <3>1, <3>2, <3>3 DEF WorkdirKept, KeepWorkDirectory
  <2> QED
    BY <2>4, <2>5, <2>6, <2>7, <2>8, <2>9 DEF ScenarioInv
<1> QED
  BY <1>4, <1>5

\* An exception leaves the scenario, and the runner or the scenario around it.
LEMMA EscapeKeeps == ASSUME ScenarioInv, Escape PROVE ScenarioInv'
<1>1. /\ TypeOK /\ Control /\ DataKept /\ ServicesKept /\ VerdictKept /\ WorkdirKept
      /\ mode = "closing" /\ faults < MaxFaults
  BY DEF ScenarioInv, Escape
<1>2. /\ UNCHANGED <<top, keeping, at, pending, known, said, restored, up, dataset, runs, warehouse>>
      /\ status' = [status EXCEPT ![frame] = "NONE"] /\ faults' = faults + 1
      /\ workdir' \in {workdir, workdir /\ ~RemovesCopies}
  BY DEF Escape
<1>3. /\ pending = FALSE /\ at = 1 /\ exit # 0
      /\ top \in Frames /\ frame \in Frames /\ workdir' \in BOOLEAN /\ (workdir' => workdir)
  BY <1>1, <1>2, ScenariosAssumption DEF Control, TypeOK, VerdictKept
<1>4. /\ \A f \in Frames : status'[f] = IF f = frame THEN "NONE" ELSE status[f]
      /\ status' \in [Frames -> {"PASS", "FAIL", "ERROR", "NONE"}]
      /\ faults' \in 0..MaxFaults /\ "invalid" \in Frames
  BY <1>1, <1>2, FaultsAssumption DEF TypeOK, Frames
<1>5. ASSUME frame = top PROVE ScenarioInv'
  <2>1. mode' = "done" /\ exit' = 1 /\ UNCHANGED <<frame, flagged, failed>>
    BY <1>5 DEF Escape
  <2>2. TypeOK'
    BY <1>1, <1>2, <1>3, <1>4, <2>1 DEF TypeOK
  <2>3. Control'
    BY <1>2, <1>3, <1>5, <2>1 DEF Control
  <2>4. DataKept'
    BY <1>1, <1>2, <2>1 DEF DataKept, Untouched, Trusted
  <2>5. ServicesKept'
    BY <1>1, <1>2, <2>1 DEF ServicesKept
  <2>6. VerdictKept'
    BY <1>1, <1>2, <1>3, <1>4, <1>5, <2>1 DEF VerdictKept, Judged, AllUp
  <2>7. WorkdirKept'
    BY <1>1, <1>2, <1>3, <1>4, <1>5, <2>1 DEF WorkdirKept, KeepWorkDirectory
  <2> QED
    BY <2>2, <2>3, <2>4, <2>5, <2>6, <2>7 DEF ScenarioInv
<1>6. ASSUME frame # top PROVE ScenarioInv'
  <2>1. frame = "invalid" /\ top = "retry"
    BY <1>1, <1>6 DEF Control
  <2>2. /\ frame' = "retry" /\ flagged' = FALSE /\ mode' = mode /\ exit' = exit
        /\ failed' = [failed EXCEPT !["retry"] = TRUE]
    BY <1>6, <2>1 DEF Escape
  <2>3. TypeOK'
    BY <1>1, <1>2, <1>3, <1>4, <2>2 DEF TypeOK, Frames
  <2>4. Control'
    BY <1>1, <1>2, <1>3, <2>1, <2>2 DEF Control
  <2>5. DataKept'
    BY <1>1, <1>2, <2>1, <2>2 DEF DataKept, Untouched, Trusted
  <2>6. ServicesKept'
    BY <1>2, <2>1 DEF ServicesKept
  <2>7. VerdictKept'
    BY <1>1, <1>2, <1>3, <1>4, <1>6, <2>1, <2>2 DEF VerdictKept, Judged, AllUp
  <2>8. WorkdirKept'
    BY <1>1, <1>2, <1>3, <1>4, <2>1, <2>2 DEF WorkdirKept, KeepWorkDirectory
  <2> QED
    BY <2>3, <2>4, <2>5, <2>6, <2>7, <2>8 DEF ScenarioInv
<1> QED
  BY <1>5, <1>6

\* A run loads data and ends.
LEMMA PlatformKeeps ==
  ASSUME ScenarioInv, NEW r \in Roles, LoadRawData(r) \/ RunEnds(r)
  PROVE  ScenarioInv'
<1>1. TypeOK /\ Control /\ DataKept /\ ServicesKept /\ VerdictKept /\ WorkdirKept
  BY DEF ScenarioInv
<1>2. UNCHANGED <<script, faults, up, dataset, workdir>>
  BY DEF LoadRawData, RunEnds
<1>3. runs[r] \in {"queued", "loaded"}
  BY DEF LoadRawData, RunEnds
<1>4. /\ \E outcome \in RunStates \ {"none"} :
           /\ runs' = [runs EXCEPT ![r] = outcome]
           /\ outcome = "success" => warehouse = "standard" /\ warehouse' = warehouse
      /\ warehouse' \in {warehouse, dataset}
  BY DEF LoadRawData, RunEnds, RunStates, Terminal
<1>5. PICK outcome \in RunStates \ {"none"} :
        /\ runs' = [runs EXCEPT ![r] = outcome]
        /\ outcome = "success" => warehouse = "standard" /\ warehouse' = warehouse
  BY <1>4
<1>6. /\ runs' \in [Roles -> RunStates]
      /\ runs["recovery"] = "none" <=> runs'["recovery"] = "none"
      /\ runs["recovery"] = "success" => runs'["recovery"] = "success"
      /\ runs'["recovery"] = "success" =>
           runs["recovery"] = "success" \/ (warehouse = "standard" /\ warehouse' = warehouse)
  BY <1>1, <1>3, <1>5 DEF TypeOK, Roles
<1>7. warehouse' \in Datasets
  BY <1>1, <1>4 DEF TypeOK
<1>8. UNCHANGED <<top, keeping, frame, mode, at, pending, flagged, known, said, status, failed,
                  restored, exit, faults, up, dataset, workdir>>
  BY <1>2 DEF script
<1>9. TypeOK'
  BY <1>1, <1>6, <1>7, <1>8 DEF TypeOK
<1>10. Control'
  BY <1>1, <1>8 DEF Control
<1>11. Trusted' <=> Trusted
  BY <1>6, <1>8 DEF Trusted
<1>12. DataKept'
  <2>1. (Untouched' <=> Untouched) /\ (runs["recovery"] = "success" => Trusted)
    BY <1>8 DEF Untouched, Trusted
  <2> QED
    BY <1>1, <1>4, <1>6, <1>8, <1>11, <2>1 DEF DataKept, Untouched
<1>13. ServicesKept'
  BY <1>1, <1>8 DEF ServicesKept
<1>14. VerdictKept'
  BY <1>1, <1>4, <1>6, <1>8 DEF VerdictKept, Judged, AllUp
<1>15. WorkdirKept'
  BY <1>1, <1>8 DEF WorkdirKept, KeepWorkDirectory
<1> QED
  BY <1>9, <1>10, <1>12, <1>13, <1>14, <1>15 DEF ScenarioInv

-----------------------------------------------------------------------------
(* The invariant, and what it promises.                                    *)

LEMMA InitScenario == Init => ScenarioInv
<1> SUFFICES ASSUME Init PROVE ScenarioInv
  OBVIOUS
<1>1. /\ top \in Frames /\ frame = top /\ mode = "main" /\ at = 1 /\ pending = FALSE
      /\ flagged = FALSE /\ restored = FALSE /\ known = {} /\ exit = NoExit /\ workdir = FALSE
      /\ dataset = "standard" /\ warehouse = "standard"
      /\ \A f \in Frames : status[f] = "ERROR" /\ failed[f] = FALSE
      /\ \A r \in Roles : runs[r] = "none"
      /\ \A s \in Services : up[s] = TRUE
  BY ScenariosAssumption DEF Init
<1>2. TypeOK
  <2>1. status \in [Frames -> {"PASS", "FAIL", "ERROR", "NONE"}] /\ failed \in [Frames -> BOOLEAN]
    BY DEF Init
  <2>2. up \in [Services -> BOOLEAN] /\ runs \in [Roles -> RunStates]
    BY DEF Init, RunStates
  <2>3. /\ said \in Codes \X Codes /\ faults \in 0..MaxFaults /\ top \in Scenarios
        /\ keeping \in BOOLEAN
    BY FaultsAssumption DEF Init, Codes
  <2>4. pending \in BOOLEAN /\ flagged \in BOOLEAN /\ restored \in BOOLEAN /\ workdir \in BOOLEAN
    BY <1>1
  <2>5. at \in Nat \ {0} /\ mode \in {"main", "safety", "closing", "done"} /\ known \subseteq Roles
    BY <1>1
  <2>6. dataset \in Datasets /\ warehouse \in Datasets /\ frame \in Frames /\ exit \in {0, 1, 2, NoExit}
    BY <1>1 DEF Datasets
  <2> QED
    BY <2>1, <2>2, <2>3, <2>4, <2>5, <2>6 DEF TypeOK
<1>3. Control
  <2>1. PICK length : length = Len(MainPart(frame))
    OBVIOUS
  <2>2. length = 7 \/ length = 11 \/ length = 13 \/ length = 18
    BY <1>1, <2>1, PartsAre DEF Frames
  <2>3. at \in 1..length
    BY <1>1, <2>2
  <2> QED
    BY <1>1, <2>1, <2>3 DEF Control
<1>4. DataKept
  BY <1>1 DEF DataKept, Untouched, Trusted, Roles, Frames
<1>5. ServicesKept
  BY <1>1 DEF ServicesKept, Services
<1>6. VerdictKept
  BY <1>1 DEF VerdictKept, Judged, Frames, NoExit
<1>7. WorkdirKept
  BY <1>1 DEF WorkdirKept, Frames
<1> QED
  BY <1>2, <1>3, <1>4, <1>5, <1>6, <1>7 DEF ScenarioInv

LEMMA StepScenario == ScenarioInv /\ [Next]_vars => ScenarioInv'
<1> SUFFICES ASSUME ScenarioInv, [Next]_vars PROVE ScenarioInv'
  OBVIOUS
<1>1. CASE GoesOn
  <2>1. TypeOK' /\ Control'
    BY <1>1, TypeGoesOn DEF ScenarioInv
  <2> QED
    BY <1>1, <2>1, DataGoesOn, ServicesGoOn, VerdictGoesOn, WorkdirGoesOn DEF ScenarioInv
<1>2. CASE StepFails
  <2>1. TypeOK' /\ Control'
    BY <1>2, TypeRaises DEF ScenarioInv
  <2> QED
    BY <1>2, <2>1, DataRaises, ServicesRaise, VerdictRaises, WorkdirRaises DEF ScenarioInv
<1>3. CASE Call
  BY <1>3, CallKeeps
<1>4. CASE Report
  BY <1>4, ReportKeeps
<1>5. CASE Escape
  BY <1>5, EscapeKeeps
<1>6. CASE PlatformStep
  BY <1>6, PlatformKeeps DEF PlatformStep
<1>7. CASE UNCHANGED vars
  <2>1. UNCHANGED <<top, keeping, frame, mode, at, pending, flagged, known, said, status, failed,
                    restored, exit, faults, up, dataset, runs, warehouse, workdir>>
    BY <1>7 DEF vars, script, platform
  <2> QED
    BY <2>1 DEF ScenarioInv, TypeOK, Control, DataKept, Untouched, Trusted, ServicesKept,
                VerdictKept, Judged, AllUp, WorkdirKept, KeepWorkDirectory
<1> QED
  BY <1>1, <1>2, <1>3, <1>4, <1>5, <1>6, <1>7 DEF Next, ScriptStep, GoesOn

LEMMA AlwaysScenario == Spec => []ScenarioInv
BY InitScenario, StepScenario, PTL DEF Spec

\* Whatever fails and wherever, the scenario that configures invalid data
\* remembers it as long as it may still be configured (the flags and the
\* finally of run_invalid_data_scenario).
THEOREM NothingForgottenSafe == Spec => []NothingForgotten
<1>1. ScenarioInv => NothingForgotten
  BY DEF ScenarioInv, DataKept, NothingForgotten
<1> QED
  BY <1>1, AlwaysScenario, PTL

\* A report that says the data was restored is right, and the recovery run of a
\* scenario starts on restored data.
THEOREM RestoredIsStandardSafe == Spec => []RestoredIsStandard
<1>1. ScenarioInv => RestoredIsStandard
  BY DEF ScenarioInv, DataKept, Trusted, RestoredIsStandard
<1> QED
  BY <1>1, AlwaysScenario, PTL

\* Exit code 0 means services running, standard data configured and loaded, and
\* every scenario within passed, however many commands failed on the way.
THEOREM PassIsEarnedSafe == Spec => []PassIsEarned
<1>1. ScenarioInv => PassIsEarned
  <2> SUFFICES ASSUME ScenarioInv, exit = 0 PROVE PassIsEarned
    BY DEF PassIsEarned
  <2>1. Control /\ VerdictKept
    BY DEF ScenarioInv
  <2>2. mode = "done" /\ status[top] = "PASS"
    BY <2>1 DEF VerdictKept
  <2> QED
    BY <2>1, <2>2 DEF Control, VerdictKept, Judged, PassIsEarned
<1> QED
  BY <1>1, AlwaysScenario, PTL

\* What a scenario damages and does not repair is never reported as a verdict,
\* and copied data is left behind only when it was asked for or without a
\* report.
THEOREM DamageReportedSafe == Spec => []DamageReported
<1>1. ScenarioInv => DamageReported
  <2> SUFFICES ASSUME ScenarioInv, mode = "done" PROVE DamageReported
    BY DEF DamageReported
  <2>1. TypeOK /\ VerdictKept /\ WorkdirKept
    BY DEF ScenarioInv
  <2>2. status[top] \in {"PASS", "FAIL", "ERROR", "NONE"} /\ "invalid" \in Frames
    BY <2>1, ScenariosAssumption DEF TypeOK, Frames
  <2>3. dataset \in Datasets
    BY <2>1 DEF TypeOK
  <2>4. ~AllUp \/ dataset = "invalid" => status[top] \in {"ERROR", "NONE"}
    BY <2>1, <2>2 DEF VerdictKept, Judged
  <2>5. workdir => KeepWorkDirectory \/ "NONE" \in {status[f] : f \in Frames}
    BY <2>1, <2>2 DEF WorkdirKept, KeepWorkDirectory
  <2> QED
    BY <2>4, <2>5 DEF DamageReported
<1> QED
  BY <1>1, AlwaysScenario, PTL
=============================================================================
