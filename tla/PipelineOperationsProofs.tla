----------------------- MODULE PipelineOperationsProofs -----------------------
(***************************************************************************)
(* Proofs about PipelineOperations, for any clients, wishes and numbers of *)
(* attempts: its invariant, that nothing is written without the account's  *)
(* permission, and that triggers keep TriggerContract.                     *)
(***************************************************************************)
EXTENDS PipelineOperations, TLAPS

LEMMA AttemptsType ==
  ASSUME NEW a \in Attempts
  PROVE  a[1] \in Clients /\ AccountOf(a) \in Users
<1>1. PICK c \in Clients : a \in {c} \X (1..MaxAttempts[c])
  BY DEF Attempts
<1> QED BY <1>1, PlansAssumption DEF AccountOf

LEMMA MessageFields ==
  ASSUME NEW a \in Attempts
  PROVE  /\ Message(a).from = a
         /\ Message(a).op = Wish(a).op
         /\ Message(a).dag = Wish(a).dag
         /\ Message(a).id = EffectiveRunId(a)
         /\ Message(a).date = Wish(a).date
  BY DEF Message

\* What a client asks for never changes, so neither does an attempt's message.
LEMMA MessagesStay ==
  ASSUME want' = want, NEW a \in Attempts
  PROVE  Message(a)' = Message(a) /\ Wish(a)' = Wish(a)
  BY DEF Message, Wish, EffectiveRunId

LEMMA MessageFrom ==
  ASSUME TypeOK, NEW m \in wire \cup runs
  PROVE  m.from \in Attempts /\ m = Message(m.from)
  BY MessageFields DEF TypeOK

LEMMA InitEstablishes == Init => OperationsInvariant
<1> SUFFICES ASSUME Init PROVE OperationsInvariant
  OBVIOUS
<1>1. TypeOK
  BY PlansAssumption
  DEF Init, AccountsInit, TypeOK, Sessions, Phases, Answers, Replies
<1>2. Traffic /\ Warrants
  BY DEF Init, Traffic, Warrants, WritesWarranted
<1>3. \A a \in Attempts : ReplyTells(a) /\ AnswerTells(a)
  BY DEF Init, ReplyTells, AnswerTells
<1> QED BY <1>1, <1>2, <1>3 DEF OperationsInvariant

\* An attempt is done: it is not on the wire, or its answer leaves that open.
LEMMA FinishKeeps ==
  ASSUME OperationsInvariant, NEW a \in Attempts, NEW told \in Answers \ {"pending"},
         phase[a] \in {"arrived", "authorized", "sent"}, Finish(a, told),
         \/ told \in Ambiguous
         \/ Message(a) \notin wire /\ (told = "ok" \/ Message(a) \notin runs)
  PROVE  OperationsInvariant'
<1> USE DEF Finish, accounts
<1>1. TypeOK'
  BY DEF OperationsInvariant, TypeOK, Phases, Replies, Message, Wish, EffectiveRunId
<1>2. \A b \in Attempts : Message(b)' = Message(b) /\ Wish(b)' = Wish(b)
  BY MessagesStay
<1>3. Traffic'
  BY MessageFrom DEF OperationsInvariant, TypeOK, Traffic
<1>4. \A b \in Attempts : ReplyTells(b)' /\ AnswerTells(b)'
  BY <1>2 DEF OperationsInvariant, TypeOK, ReplyTells, AnswerTells, Ambiguous, SameRun, SameDate
<1>5. Warrants'
  BY DEF OperationsInvariant, TypeOK, Warrants, WritesWarranted, AccountOf, Wish
<1> QED BY <1>1, <1>3, <1>4, <1>5 DEF OperationsInvariant

LEMMA ArriveKeeps ==
  ASSUME OperationsInvariant, NEW a \in Attempts, Arrive(a)
  PROVE  OperationsInvariant'
<1> USE DEF Arrive, accounts
<1>1. TypeOK'
  BY DEF OperationsInvariant, TypeOK, Phases, Permits, Message, Wish, EffectiveRunId
<1>2. \A b \in Attempts : Message(b)' = Message(b) /\ Wish(b)' = Wish(b)
  BY MessagesStay
<1>3. Traffic'
  BY MessageFrom DEF OperationsInvariant, TypeOK, Traffic
<1>4. \A b \in Attempts : ReplyTells(b)' /\ AnswerTells(b)'
  BY <1>2 DEF OperationsInvariant, TypeOK, ReplyTells, AnswerTells, SameRun, SameDate
<1>5. Warrants'
  <2>1. \A m \in wire \cup runs : warranted'[m.from]
    BY MessageFrom DEF OperationsInvariant, TypeOK, Warrants, WritesWarranted, Traffic
  <2>2. \A b \in Attempts : phase'[b] \in {"authorized", "sent"} => warranted'[b]
    BY DEF OperationsInvariant, TypeOK, Warrants, WritesWarranted
  <2>3. \A b \in Attempts :
          phase'[b] = "arrived" /\ Permits(account[AccountOf(b)], Writes(Wish(b)))
            => warranted'[b]
    BY DEF OperationsInvariant, TypeOK, Warrants
  <2> QED BY <2>1, <2>2, <2>3, <1>2 DEF Warrants, WritesWarranted, AccountOf, Permits
<1> QED BY <1>1, <1>3, <1>4, <1>5 DEF OperationsInvariant

\* Permission is a property of the row read now, which is what warrants it.
LEMMA AuthorizeKeeps ==
  ASSUME OperationsInvariant, NEW a \in Attempts, Authorize(a)
  PROVE  OperationsInvariant'
<1>1. phase[a] = "arrived"
  BY DEF Authorize
<1>2. Message(a) \notin wire \cup runs
  BY <1>1, MessageFields DEF OperationsInvariant, Traffic
<1>3. CASE \E told \in {"401", "403", "503"} : Finish(a, told)
  BY <1>1, <1>2, <1>3, FinishKeeps DEF Answers, Ambiguous
<1>4. CASE /\ Permits(account[AccountOf(a)], Writes(Wish(a)))
           /\ phase' = [phase EXCEPT ![a] = "authorized"]
           /\ UNCHANGED <<accounts, want, answer, wire, reply, runs, warranted, existed>>
  <2> USE <1>1, <1>4 DEF accounts
  <2>1. TypeOK'
    BY DEF OperationsInvariant, TypeOK, Phases, Message, Wish, EffectiveRunId
  <2>2. \A b \in Attempts : Message(b)' = Message(b) /\ Wish(b)' = Wish(b)
    BY MessagesStay
  <2>3. Traffic'
    BY MessageFrom DEF OperationsInvariant, TypeOK, Traffic
  <2>4. \A b \in Attempts : ReplyTells(b)' /\ AnswerTells(b)'
    BY <2>2 DEF OperationsInvariant, TypeOK, ReplyTells, AnswerTells, SameRun, SameDate
  <2>5. Warrants'
    <3>1. warranted[a]
      BY DEF OperationsInvariant, Warrants
    <3>2. \A m \in wire \cup runs : warranted[m.from]
      BY DEF OperationsInvariant, Warrants, WritesWarranted
    <3>3. \A b \in Attempts : phase'[b] \in {"authorized", "sent"} => warranted[b]
      BY <3>1 DEF OperationsInvariant, TypeOK, Warrants, WritesWarranted
    <3>4. \A b \in Attempts :
            phase'[b] = "arrived" /\ Permits(account[AccountOf(b)], Writes(Wish(b)))
              => warranted[b]
      BY DEF OperationsInvariant, TypeOK, Warrants
    <3> QED BY <3>2, <3>3, <3>4, <2>2 DEF Warrants, WritesWarranted, AccountOf, Permits
  <2> QED BY <2>1, <2>3, <2>4, <2>5 DEF OperationsInvariant
<1> QED BY <1>3, <1>4 DEF Authorize, RefusalOf

\* The message of an authorized attempt is new: the wire had none of it.
LEMMA SendKeeps ==
  ASSUME OperationsInvariant, NEW a \in Attempts, phase[a] = "authorized", Send(a)
  PROVE  OperationsInvariant'
<1> USE DEF Send, accounts
<1>1. TypeOK'
  BY DEF OperationsInvariant, TypeOK, Phases, Message, Wish, EffectiveRunId
<1>2. \A b \in Attempts : Message(b)' = Message(b) /\ Wish(b)' = Wish(b)
  BY MessagesStay
<1>3. Message(a) \notin wire \cup runs /\ Message(a).from = a
  BY MessageFields DEF OperationsInvariant, Traffic
<1>4. answer[a] = "pending" /\ reply[a] = "none"
  BY DEF OperationsInvariant, ReplyTells, AnswerTells
<1>5. Traffic'
  BY <1>3, <1>4, MessageFrom DEF OperationsInvariant, TypeOK, Traffic
<1>6. \A b \in Attempts : ReplyTells(b)' /\ AnswerTells(b)'
  <2> TAKE b \in Attempts
  <2>1. b # a => Message(b) # Message(a)
    BY MessageFields
  <2>2. ReplyTells(b)'
    BY <1>2, <1>4, <2>1 DEF OperationsInvariant, TypeOK, ReplyTells, SameRun, SameDate
  <2>3. AnswerTells(b)'
    BY <1>2, <1>4, <2>1 DEF OperationsInvariant, TypeOK, AnswerTells
  <2> QED BY <2>2, <2>3
<1>7. Warrants'
  <2>1. \A m \in wire' \cup runs : warranted[m.from]
    BY <1>3 DEF OperationsInvariant, Warrants, WritesWarranted
  <2>2. \A b \in Attempts : phase'[b] \in {"authorized", "sent"} => warranted[b]
    BY DEF OperationsInvariant, TypeOK, Warrants, WritesWarranted
  <2>3. \A b \in Attempts :
          phase'[b] = "arrived" /\ Permits(account[AccountOf(b)], Writes(Wish(b)))
            => warranted[b]
    BY DEF OperationsInvariant, TypeOK, Warrants
  <2> QED BY <2>1, <2>2, <2>3, <1>2 DEF Warrants, WritesWarranted, AccountOf, Permits
<1> QED BY <1>1, <1>5, <1>6, <1>7 DEF OperationsInvariant

\* What Airflow makes of a message: it stays what it was or becomes a run, and
\* the reply, if anyone still waits for it, says which.
LEMMA HandlingTells ==
  ASSUME OperationsInvariant, NEW m \in wire, AirflowHandles(m)
  PROVE  \E status \in Replies \ {"none"} :
           /\ Deliver(m, status)
           /\ runs' = runs \/ (runs' = runs \cup {m} /\ m.op = "trigger")
           /\ status = "ok" /\ m.op = "trigger" => runs' = runs \cup {m}
           /\ status \in {"404", "409"} => runs' = runs
           /\ status = "409" => \E r \in runs : SameRun(r, m) \/ SameDate(r, m)
  BY DEF AirflowHandles, AirflowRefuses, AirflowTriggers, AirflowReads, Replies

LEMMA AirflowKeeps ==
  ASSUME OperationsInvariant, NEW m \in wire, AirflowHandles(m)
  PROVE  OperationsInvariant'
<1> DEFINE a == m.from
<1>1. a \in Attempts /\ m = Message(a)
  BY MessageFrom DEF OperationsInvariant
<1>2. PICK status \in Replies \ {"none"} :
           /\ Deliver(m, status)
           /\ runs' = runs \/ (runs' = runs \cup {m} /\ m.op = "trigger")
           /\ status = "ok" /\ m.op = "trigger" => runs' = runs \cup {m}
           /\ status \in {"404", "409"} => runs' = runs
           /\ status = "409" => \E r \in runs : SameRun(r, m) \/ SameDate(r, m)
  BY HandlingTells
<1>3. /\ wire' = wire \ {m}
      /\ UNCHANGED <<accounts, want, phase, answer, warranted, existed>>
  BY DEF AirflowHandles
<1>4. reply' = [reply EXCEPT ![a] = IF phase[a] = "sent" THEN status ELSE @]
  BY <1>2 DEF Deliver
<1>5. \A b \in Attempts : Message(b)' = Message(b) /\ Wish(b)' = Wish(b)
  BY <1>3, MessagesStay
<1>6. m \notin runs /\ Wish(a).op = m.op
  BY <1>1, MessageFields DEF OperationsInvariant, Traffic
<1>7. TypeOK'
  <2>1. wire' \cup runs' \subseteq {Message(b) : b \in Attempts}
    BY <1>2, <1>3 DEF OperationsInvariant, TypeOK
  <2>2. {Message(b) : b \in Attempts}' = {Message(b) : b \in Attempts}
    BY <1>5
  <2> QED BY <2>1, <2>2, <1>3, <1>4 DEF OperationsInvariant, TypeOK, accounts
<1>8. Traffic'
  BY <1>1, <1>2, <1>3, <1>6 DEF OperationsInvariant, Traffic
<1>9. \A b \in Attempts : ReplyTells(b)' /\ AnswerTells(b)'
  <2> TAKE b \in Attempts
  <2>1. Message(b) \in wire' => Message(b) \in wire /\ b # a
    BY <1>1, <1>3
  <2>2. b # a => (Message(b) \in runs' <=> Message(b) \in runs) /\ reply'[b] = reply[b]
    BY <1>1, <1>2, <1>4, MessageFields DEF OperationsInvariant, TypeOK
  <2>3. runs \subseteq runs'
    BY <1>2
  <2>4. CASE b # a
    BY <2>1, <2>2, <2>3, <2>4, <1>3, <1>5
    DEF OperationsInvariant, ReplyTells, AnswerTells, SameRun, SameDate
  <2>5. CASE b = a
    <3>1. reply'[a] # "none" => phase[a] = "sent" /\ reply'[a] \in {status, reply[a]}
      BY <1>1, <1>4 DEF OperationsInvariant, TypeOK, ReplyTells
    <3>2. reply[a] = "none"
      BY <1>1 DEF OperationsInvariant, ReplyTells
    <3>3. ReplyTells(a)'
      BY <3>1, <3>2, <2>1, <2>5, <1>1, <1>2, <1>3, <1>5, <1>6
      DEF ReplyTells, SameRun, SameDate
    <3>4. AnswerTells(a)'
      <4>1. answer[a] \in {"pending"} \cup Ambiguous
        BY <1>1 DEF OperationsInvariant, Traffic
      <4> QED BY <4>1, <1>1, <1>3, <1>5 DEF OperationsInvariant, AnswerTells, Ambiguous
    <3> QED BY <3>3, <3>4, <2>5
  <2> QED BY <2>4, <2>5
<1>10. Warrants'
  <2>1. warranted[m.from]
    BY DEF OperationsInvariant, Warrants, WritesWarranted
  <2>2. \A n \in wire' \cup runs' : warranted[n.from]
    BY <2>1, <1>2, <1>3 DEF OperationsInvariant, Warrants, WritesWarranted
  <2> QED BY <2>2, <1>3, <1>5
      DEF OperationsInvariant, Warrants, WritesWarranted, AccountOf, Permits, accounts
<1> QED BY <1>7, <1>8, <1>9, <1>10 DEF OperationsInvariant

LEMMA AnswerKeeps ==
  ASSUME OperationsInvariant, NEW a \in Attempts, Answer(a)
  PROVE  OperationsInvariant'
<1> DEFINE told == RaiseSafe(MapPayload(RaiseForStatus(reply[a])))
<1>1. phase[a] = "sent" /\ reply[a] \in Replies \ {"none"} /\ Finish(a, told)
  BY DEF Answer, OperationsInvariant, TypeOK
<1>2. /\ told \in {"ok", "404", "409", "503"}
      /\ told = "404" => reply[a] = "404"
      /\ told = "409" => reply[a] = "409"
  BY <1>1 DEF RaiseSafe, MapPayload, RaiseForStatus, Replies
<1>3. Message(a) \notin wire
  BY <1>1 DEF OperationsInvariant, ReplyTells
<1>4. told \in {"404", "409"} => Message(a) \notin runs
  <2>1. CASE Wish(a).op = "trigger"
    BY <2>1, <1>2 DEF OperationsInvariant, ReplyTells
  <2>2. CASE Wish(a).op # "trigger"
    BY <2>2, MessageFields DEF OperationsInvariant, Traffic
  <2> QED BY <2>1, <2>2
<1> HIDE DEF told
<1> QED BY <1>1, <1>2, <1>3, <1>4, FinishKeeps DEF Answers, Ambiguous

LEMMA ApiStopsKeeps ==
  ASSUME OperationsInvariant, ApiStops
  PROVE  OperationsInvariant'
<1> USE DEF ApiStops, accounts
<1>1. TypeOK'
  BY DEF OperationsInvariant, TypeOK, Phases, Replies, Answers, Ambiguous,
         Message, Wish, EffectiveRunId
<1>2. \A b \in Attempts : Message(b)' = Message(b) /\ Wish(b)' = Wish(b)
  BY MessagesStay
<1>3. Traffic'
  BY MessageFrom DEF OperationsInvariant, TypeOK, Traffic, Ambiguous
<1>4. \A b \in Attempts : ReplyTells(b)' /\ AnswerTells(b)'
  BY <1>2 DEF OperationsInvariant, TypeOK, ReplyTells, AnswerTells, Phases
<1>5. Warrants'
  <2>1. \A b \in Attempts : phase'[b] \in {"unsent", "done"}
    BY DEF OperationsInvariant, TypeOK
  <2> QED BY <2>1, <1>2 DEF OperationsInvariant, TypeOK, Warrants, WritesWarranted
<1> QED BY <1>1, <1>3, <1>4, <1>5 DEF OperationsInvariant

LEMMA SetAccountTypes ==
  ASSUME TypeOK, NEW u \in Users, NEW row \in Row, SetAccount(u, row)
  PROVE  /\ account' \in [Users -> Row \cup {NoAccount}]
         /\ session' \in [Users -> Sessions]
         /\ verified' \in [Users -> BOOLEAN]
  BY DEF TypeOK, SetAccount, Credentials, IsAccount

LEMMA AccountRows ==
  ASSUME TypeOK, AccountStep
  PROVE  \E u \in Users, row \in Row : SetAccount(u, row)
<1>1. ASSUME NEW u \in Users, NEW password \in Passwords, NEW roles \in RoleSets,
             ProvisionUser(u, password, roles)
      PROVE  \E row \in Row : SetAccount(u, row)
  BY <1>1 DEF ProvisionUser, Row
<1>2. ASSUME NEW u \in Users, NEW password \in Passwords, RotatePassword(u, password)
      PROVE  \E row \in Row : SetAccount(u, row)
  <2>1. account[u] \in Row
    BY <1>2 DEF RotatePassword, IsAccount, TypeOK
  <2>2. [account[u] EXCEPT !.password = password] \in Row
    BY <2>1 DEF Row
  <2> QED BY <1>2, <2>2 DEF RotatePassword
<1>3. ASSUME NEW u \in Users, NEW roles \in RoleSets, NEW active \in BOOLEAN,
             Administer(u, active, roles)
      PROVE  \E row \in Row : SetAccount(u, row)
  <2>1. account[u] \in Row
    BY <1>3 DEF Administer, IsAccount, TypeOK
  <2>2. [account[u] EXCEPT !.active = active, !.roles = roles] \in Row
    BY <2>1 DEF Row
  <2> QED BY <1>3, <2>2 DEF Administer
<1> QED BY <1>1, <1>2, <1>3 DEF AccountStep

LEMMA AccountsChangeKeeps ==
  ASSUME OperationsInvariant, AccountsChange
  PROVE  OperationsInvariant'
<1>1. PICK u \in Users, row \in Row : SetAccount(u, row)
  BY AccountRows DEF AccountsChange, OperationsInvariant
<1>2. /\ UNCHANGED <<want, phase, answer, wire, reply, runs, existed>>
      /\ warranted' = [a \in Attempts |->
           \/ warranted[a]
           \/ phase[a] = "arrived" /\ Permits(account'[AccountOf(a)], Writes(Wish(a)))]
  BY DEF AccountsChange
<1>3. \A b \in Attempts : Message(b)' = Message(b) /\ Wish(b)' = Wish(b)
  BY <1>2, MessagesStay
<1>4. {Message(b) : b \in Attempts}' = {Message(b) : b \in Attempts}
  BY <1>3
<1>5. warranted' \in [Attempts -> BOOLEAN]
  BY <1>2 DEF OperationsInvariant, TypeOK, Permits, IsAccount
<1>6. TypeOK'
  BY <1>1, <1>2, <1>4, <1>5, SetAccountTypes DEF OperationsInvariant, TypeOK
<1>7. Traffic' /\ \A a \in Attempts : ReplyTells(a)' /\ AnswerTells(a)'
  BY <1>2, <1>3
  DEF OperationsInvariant, Traffic, ReplyTells, AnswerTells, SameRun, SameDate
<1>8. \A a \in Attempts : warranted[a] => warranted'[a]
  BY <1>2
<1>9. Warrants'
  <2>1. \A m \in wire \cup runs : warranted'[m.from]
    BY <1>8, MessageFrom DEF OperationsInvariant, Warrants, WritesWarranted
  <2>2. \A b \in Attempts : phase[b] \in {"authorized", "sent"} => warranted'[b]
    BY <1>8 DEF OperationsInvariant, Warrants, WritesWarranted
  <2>3. \A b \in Attempts :
          phase[b] = "arrived" /\ Permits(account'[AccountOf(b)], Writes(Wish(b)))
            => warranted'[b]
    BY <1>2
  <2> QED BY <2>1, <2>2, <2>3, <1>2, <1>3 DEF Warrants, WritesWarranted, AccountOf, Permits, IsAccount
<1> QED BY <1>6, <1>7, <1>9 DEF OperationsInvariant

LEMMA LoginKeeps ==
  ASSUME OperationsInvariant, LoginStep, UNCHANGED requests
  PROVE  OperationsInvariant'
<1> USE DEF requests
<1>1. account' = account
  BY DEF LoginStep, Authenticate, CheckCredentials, RefuseLogin, IssueToken, TokenExpires
<1>2. session' \in [Users -> Sessions] /\ verified' \in [Users -> BOOLEAN]
  <2>1. PICK u \in Users :
          \/ \E password \in Passwords : Authenticate(u, password)
          \/ CheckCredentials(u)
          \/ RefuseLogin(u)
          \/ IssueToken(u)
          \/ TokenExpires(u)
    BY DEF LoginStep
  <2>2. /\ session \in [Users -> Sessions] /\ verified \in [Users -> BOOLEAN]
        /\ session[u] \in Sessions
    BY DEF OperationsInvariant, TypeOK
  <2>3. CASE \E password \in Passwords : Authenticate(u, password)
    BY <2>2, <2>3 DEF Authenticate, Sessions, Credentials, IsAccount
  <2>4. CASE CheckCredentials(u) \/ IssueToken(u)
    BY <2>2, <2>4 DEF CheckCredentials, IssueToken, Sessions, NoSession
  <2>5. CASE RefuseLogin(u) \/ TokenExpires(u)
    BY <2>2, <2>5 DEF RefuseLogin, TokenExpires, Sessions
  <2> QED BY <2>1, <2>3, <2>4, <2>5
<1>3. TypeOK'
  BY <1>1, <1>2 DEF OperationsInvariant, TypeOK, Message, Wish, EffectiveRunId
<1> QED BY <1>1, <1>3 DEF OperationsInvariant, Traffic, ReplyTells, AnswerTells, Warrants,
        WritesWarranted, Message, Wish, EffectiveRunId, AccountOf, Permits, IsAccount, SameRun, SameDate

LEMMA StepKeeps == OperationsInvariant /\ [Next]_vars => OperationsInvariant'
<1> SUFFICES ASSUME OperationsInvariant, [Next]_vars PROVE OperationsInvariant'
  OBVIOUS
<1>1. CASE AccountsChange
  BY <1>1, AccountsChangeKeeps
<1>2. CASE LoginStep /\ UNCHANGED requests
  BY <1>2, LoginKeeps
<1>3. ASSUME NEW a \in Attempts, Arrive(a)
      PROVE  OperationsInvariant'
  BY <1>3, ArriveKeeps
<1>4. ASSUME NEW a \in Attempts, Handle(a) \/ Disconnected(a)
      PROVE  OperationsInvariant'
  <2>1. CASE Authorize(a)
    BY <2>1, AuthorizeKeeps
  <2>2. CASE ForwardTrigger(a) \/ ForwardRead(a)
    BY <2>2, SendKeeps DEF ForwardTrigger, ForwardRead
  <2>3. CASE Unsupported(a)
    <3>1. Message(a) \notin wire \cup runs
      BY <2>3, MessageFields DEF Unsupported, OperationsInvariant, Traffic
    <3> QED BY <2>3, <3>1, FinishKeeps DEF Unsupported, Answers
  <2>4. CASE Answer(a)
    BY <2>4, AnswerKeeps
  <2>5. CASE TransportFails(a) \/ Disconnected(a)
    BY <2>5, FinishKeeps DEF TransportFails, Disconnected, Answers, Ambiguous
  <2> QED BY <1>4, <2>1, <2>2, <2>3, <2>4, <2>5 DEF Handle
<1>5. ASSUME NEW m \in wire, AirflowHandles(m)
      PROVE  OperationsInvariant'
  BY <1>5, AirflowKeeps
<1>6. CASE ApiStops
  BY <1>6, ApiStopsKeeps
<1>7. CASE UNCHANGED vars
  BY <1>7 DEF vars, accounts, requests, OperationsInvariant, TypeOK, Traffic, ReplyTells,
      AnswerTells, Warrants, WritesWarranted, Message, Wish, EffectiveRunId, AccountOf,
      Permits, IsAccount, SameRun, SameDate
<1> QED BY <1>1, <1>2, <1>3, <1>4, <1>5, <1>6, <1>7 DEF Next

\* The invariant of the operations: what messages, replies and answers tell of
\* each other at every moment.
THEOREM OperationsAreInvariant == Spec => []OperationsInvariant
<1>1. Init => OperationsInvariant
  BY InitEstablishes
<1>2. OperationsInvariant /\ [Next]_vars => OperationsInvariant'
  BY StepKeeps
<1> QED BY <1>1, <1>2, PTL DEF Spec

\* Whatever a token said when it was issued, nothing is forwarded for a user
\* whose account did not allow it after the request arrived.
THEOREM WritesAreWarranted == Spec => []WritesWarranted
<1>1. OperationsInvariant => WritesWarranted
  BY DEF OperationsInvariant, Warrants
<1> QED BY <1>1, OperationsAreInvariant, PTL
-----------------------------------------------------------------------------

LEMMA ContractBegins == Init => Contract!Begin
<1> SUFFICES ASSUME Init PROVE Contract!Begin
  OBVIOUS
<1>1. AskedKeys \in [Attempts -> [dag : {w.dag : w \in Wishes},
                                  id : {w.id : w \in Wishes} \cup Attempts,
                                  date : {w.date : w \in Wishes}]]
  <2>1. \A a \in Attempts : Wish(a) \in Wishes
    BY AttemptsType, PlansAssumption DEF Init, Wish
  <2> QED BY <2>1 DEF AskedKeys, AskedId
<1>2. Started = {} /\ Heard = [a \in Attempts |-> "open"]
  BY DEF Init, Started, Heard, Told, Ambiguous
<1> QED BY <1>1, <1>2 DEF Contract!Begin

LEMMA KeysStay == want' = want => AskedKeys' = AskedKeys
  BY DEF AskedKeys, AskedId, Wish

\* Where neither answers nor runs change, nothing happens to the contract.
LEMMA QuietStep ==
  ASSUME want' = want, answer' = answer, runs' = runs
  PROVE  UNCHANGED Contract!contract
  BY KeysStay DEF Contract!contract, Started, Heard, Told, Wish

\* An answer tells the caller what the contract lets it say.
LEMMA FinishTells ==
  ASSUME OperationsInvariant, NEW a \in Attempts, NEW told \in Answers \ {"pending"},
         phase[a] \in {"arrived", "authorized", "sent"}, Finish(a, told),
         told = "ok" /\ Wish(a).op = "trigger" => Message(a) \in runs,
         told \in {"401", "403", "404", "501"} => Message(a) \notin runs,
         told = "409" /\ Wish(a).op = "trigger" =>
           /\ Message(a) \notin runs
           /\ \E r \in runs : SameRun(r, Message(a)) \/ SameDate(r, Message(a))
  PROVE  [Contract!Advance]_(Contract!contract)
<1>1. /\ want' = want /\ runs' = runs
      /\ answer' = [answer EXCEPT ![a] = told]
      /\ AskedKeys' = AskedKeys /\ Started' = Started
  BY KeysStay DEF Finish, Started
<1>2. answer[a] = "pending"
  BY DEF OperationsInvariant, AnswerTells
<1>3. CASE Wish(a).op # "trigger"
  <2>1. Heard' = Heard
    BY <1>1, <1>3 DEF Heard, Wish, OperationsInvariant, TypeOK
  <2> QED BY <1>1, <2>1 DEF Contract!contract
<1>4. CASE Wish(a).op = "trigger"
  <2>1. Heard' = [Heard EXCEPT ![a] = Told(told)] /\ Heard[a] = "open"
    BY <1>1, <1>2, <1>4 DEF Heard, Told, Ambiguous, Wish, OperationsInvariant, TypeOK
  <2>2. a \in Started <=> Message(a) \in runs
    BY MessageFields, MessageFrom DEF Started, OperationsInvariant
  <2>3. CASE told \in Ambiguous
    <3>1. Told(told) = "unknown"
      BY <2>3 DEF Told, Ambiguous
    <3>2. Contract!LoseTrack({a})
      BY <2>1, <3>1, <1>1 DEF Contract!LoseTrack, Heard
    <3> QED BY <3>2 DEF Contract!Advance
  <2>4. CASE told = "ok"
    <3>1. Told(told) = "started"
      BY <2>4 DEF Told, Ambiguous
    <3>2. Contract!Tell(a, "started")
      BY <2>1, <2>2, <2>4, <3>1, <1>1, <1>4 DEF Contract!Tell
    <3> QED BY <3>2 DEF Contract!Advance, Contract!Verdicts
  <2>5. CASE told = "409"
    <3>1. Told(told) = "conflict"
      BY <2>5 DEF Told, Ambiguous
    <3>2. Contract!InTheWay(a)
      <4>1. PICK r \in runs : SameRun(r, Message(a)) \/ SameDate(r, Message(a))
        BY <2>5, <1>4
      <4>2. r.from \in Attempts /\ r = Message(r.from) /\ r.from # a /\ r.from \in Started
        BY MessageFrom, <2>5, <1>4 DEF OperationsInvariant, Started
      <4>3. Contract!Clash(AskedKeys[a], AskedKeys[r.from])
        BY <4>1, <4>2, MessageFields
        DEF Contract!Clash, AskedKeys, AskedId, EffectiveRunId, SameRun, SameDate
      <4> QED BY <4>2, <4>3 DEF Contract!InTheWay
    <3>3. Contract!Tell(a, "conflict")
      BY <2>1, <2>2, <2>5, <3>1, <3>2, <1>1, <1>4 DEF Contract!Tell
    <3> QED BY <3>3 DEF Contract!Advance, Contract!Verdicts
  <2>6. CASE told \in {"401", "403", "404", "501"}
    <3>1. Told(told) = "refused"
      BY <2>6 DEF Told, Ambiguous
    <3>2. Contract!Tell(a, "refused")
      BY <2>1, <2>2, <2>6, <3>1, <1>1 DEF Contract!Tell
    <3> QED BY <3>2 DEF Contract!Advance, Contract!Verdicts
  <2> QED BY <2>3, <2>4, <2>5, <2>6 DEF Answers
<1> QED BY <1>3, <1>4

\* Airflow starts a run only for a caller who may still expect one, and only
\* when no other run is in the way.
LEMMA AirflowStarts ==
  ASSUME OperationsInvariant, NEW m \in wire, AirflowHandles(m)
  PROVE  [Contract!Advance]_(Contract!contract)
<1>1. /\ want' = want /\ answer' = answer
      /\ AskedKeys' = AskedKeys /\ Heard' = Heard
  BY KeysStay DEF AirflowHandles, Heard, Wish
<1>2. CASE runs' = runs
  BY <1>1, <1>2, QuietStep
<1>3. CASE runs' # runs
  <2> DEFINE a == m.from
  <2>1. /\ runs' = runs \cup {m} /\ m.op = "trigger"
        /\ ~\E r \in runs : SameRun(r, m) \/ SameDate(r, m)
    BY <1>3 DEF AirflowHandles, AirflowRefuses, AirflowTriggers, AirflowReads
  <2>2. a \in Attempts /\ m = Message(a) /\ Wish(a).op = "trigger"
    BY <2>1, MessageFrom, MessageFields DEF OperationsInvariant
  <2>3. answer[a] \in {"pending"} \cup Ambiguous /\ m \notin runs
    BY DEF OperationsInvariant, Traffic
  <2>4. Heard[a] \in {"open", "unknown"}
    BY <2>2, <2>3 DEF Heard, Told, Ambiguous
  <2>5. a \notin Started
    BY <2>2, <2>3, MessageFrom DEF Started, OperationsInvariant
  <2>6. ~Contract!InTheWay(a)
    <3> SUFFICES ASSUME NEW b \in Started \ {a},
                        Contract!Clash(AskedKeys[a], AskedKeys[b])
                 PROVE  FALSE
      BY DEF Contract!InTheWay
    <3>1. PICK r \in runs : r.from = b
      BY DEF Started
    <3>2. b \in Attempts /\ r = Message(b)
      BY <3>1, MessageFrom DEF OperationsInvariant
    <3>3. SameRun(r, m) \/ SameDate(r, m)
      BY <2>2, <3>2, MessageFields
      DEF Contract!Clash, AskedKeys, AskedId, EffectiveRunId, SameRun, SameDate
    <3> QED BY <2>1, <3>3
  <2>7. Started' = Started \cup {a}
    BY <2>1 DEF Started
  <2>8. Contract!StartRun(a)
    BY <1>1, <2>4, <2>5, <2>6, <2>7 DEF Contract!StartRun
  <2> QED BY <2>2, <2>8 DEF Contract!Advance
<1> QED BY <1>2, <1>3

LEMMA ApiStopLosesTrack ==
  ASSUME OperationsInvariant, ApiStops
  PROVE  [Contract!Advance]_(Contract!contract)
<1> DEFINE lost == {a \in Attempts :
                      phase[a] \notin {"unsent", "done"} /\ Wish(a).op = "trigger"}
<1>1. AskedKeys' = AskedKeys /\ Started' = Started /\ want' = want
  BY KeysStay DEF ApiStops, Started
<1>2. \A a \in Attempts :
        Heard'[a] = IF a \in lost /\ Heard[a] = "open" THEN "unknown" ELSE Heard[a]
  <2> TAKE a \in Attempts
  <2>1. answer'[a] = IF phase[a] \in {"unsent", "done"} THEN answer[a] ELSE "lost"
    BY DEF ApiStops
  <2>2. answer[a] = "pending" <=> phase[a] # "done"
    BY DEF OperationsInvariant, AnswerTells
  <2> QED BY <1>1, <2>1, <2>2 DEF Heard, Told, Ambiguous, Wish
<1>3. Contract!LoseTrack(lost)
  BY <1>1, <1>2 DEF Contract!LoseTrack, Heard
<1> QED BY <1>3 DEF Contract!Advance

LEMMA StepKeepsContract ==
  OperationsInvariant /\ [Next]_vars => [Contract!Advance]_(Contract!contract)
<1> SUFFICES ASSUME OperationsInvariant, [Next]_vars
             PROVE  [Contract!Advance]_(Contract!contract)
  OBVIOUS
<1>1. CASE AccountsChange \/ (LoginStep /\ UNCHANGED requests) \/ UNCHANGED vars
  BY <1>1, QuietStep DEF AccountsChange, requests, vars
<1>2. ASSUME NEW a \in Attempts, Arrive(a)
      PROVE  [Contract!Advance]_(Contract!contract)
  BY <1>2, QuietStep DEF Arrive
<1>3. ASSUME NEW a \in Attempts, Handle(a) \/ Disconnected(a)
      PROVE  [Contract!Advance]_(Contract!contract)
  <2>1. CASE Authorize(a)
    <3>1. phase[a] = "arrived" /\ Message(a) \notin runs
      BY <2>1, MessageFields DEF Authorize, OperationsInvariant, Traffic
    <3>2. CASE \E told \in {"401", "403", "503"} : Finish(a, told)
      BY <3>1, <3>2, FinishTells DEF Answers, Ambiguous
    <3>3. CASE UNCHANGED <<accounts, want, answer, wire, reply, runs, warranted, existed>>
      BY <3>3, QuietStep
    <3> QED BY <2>1, <3>2, <3>3 DEF Authorize, RefusalOf
  <2>2. CASE ForwardTrigger(a) \/ ForwardRead(a)
    BY <2>2, QuietStep DEF ForwardTrigger, ForwardRead, Send
  <2>3. CASE Unsupported(a)
    <3>1. Message(a) \notin wire \cup runs
      BY <2>3, MessageFields DEF Unsupported, OperationsInvariant, Traffic
    <3> QED BY <2>3, <3>1, FinishTells DEF Unsupported, Answers
  <2>4. CASE Answer(a)
    <3> DEFINE told == RaiseSafe(MapPayload(RaiseForStatus(reply[a])))
    <3>1. phase[a] = "sent" /\ reply[a] \in Replies \ {"none"} /\ Finish(a, told)
      BY <2>4 DEF Answer, OperationsInvariant, TypeOK
    <3>2. /\ told \in {"ok", "404", "409", "503"}
          /\ told \in {"ok", "404", "409"} => reply[a] = told
      BY <3>1 DEF RaiseSafe, MapPayload, RaiseForStatus, Replies
    <3>3. told = "404" => Message(a) \notin runs
      BY <3>2, MessageFields DEF OperationsInvariant, ReplyTells, Traffic
    <3>4. Wish(a).op = "trigger" =>
            /\ reply[a] = "ok" => Message(a) \in runs
            /\ reply[a] = "409" =>
                 /\ Message(a) \notin runs
                 /\ \E r \in runs : SameRun(r, Message(a)) \/ SameDate(r, Message(a))
      BY DEF OperationsInvariant, ReplyTells
    <3>5. told \in Answers \ {"pending"}
      BY <3>2 DEF Answers, Ambiguous
    <3> HIDE DEF told
    <3> QED BY <3>1, <3>2, <3>3, <3>4, <3>5, FinishTells
  <2>5. CASE TransportFails(a) \/ Disconnected(a)
    BY <2>5, FinishTells DEF TransportFails, Disconnected, Answers, Ambiguous
  <2> QED BY <1>3, <2>1, <2>2, <2>3, <2>4, <2>5 DEF Handle
<1>4. ASSUME NEW m \in wire, AirflowHandles(m)
      PROVE  [Contract!Advance]_(Contract!contract)
  BY <1>4, AirflowStarts
<1>5. CASE ApiStops
  BY <1>5, ApiStopLosesTrack
<1> QED BY <1>1, <1>2, <1>3, <1>4, <1>5 DEF Next

\* However messages and replies are lost, whatever is sent again and whenever
\* the API stops, the trigger endpoint keeps its contract.
THEOREM TriggersAreIdempotent == Spec => TriggersKeepContract
<1>1. Init => Contract!Begin
  BY ContractBegins
<1>2. OperationsInvariant /\ [Next]_vars => [Contract!Advance]_(Contract!contract)
  BY StepKeepsContract
<1> QED BY <1>1, <1>2, OperationsAreInvariant, PTL
      DEF Spec, TriggersKeepContract, Contract!ContractSpec
-----------------------------------------------------------------------------

LEMMA LoginsKept ==
  OperationsInvariant /\ LoginsInvariant /\ [Next]_vars => LoginsInvariant'
<1> SUFFICES ASSUME OperationsInvariant, LoginsInvariant, [Next]_vars
             PROVE  LoginsInvariant'
  OBVIOUS
<1> USE DEF LoginsInvariant, TokensEarned
<1>1. /\ session \in [Users -> Sessions]
      /\ verified \in [Users -> BOOLEAN]
      /\ account \in [Users -> Row \cup {NoAccount}]
  BY DEF OperationsInvariant, TypeOK
<1>2. CASE AccountsChange
  <2>1. PICK u \in Users, row \in Row : SetAccount(u, row)
    BY <1>2, AccountRows DEF AccountsChange, OperationsInvariant
  <2>2. session' = session /\ \A v \in Users \ {u} : account'[v] = account[v] /\ verified'[v] = verified[v]
    BY <2>1, <1>1 DEF SetAccount
  <2>3. /\ account'[u] = row
        /\ verified'[u] <=> verified[u] \/ (~IsOut(u) /\ Credentials(row, session[u].password))
    BY <2>1, <1>1 DEF SetAccount
  <2>4. session[u].state = "asked" => ~IsOut(u)
    BY DEF IsOut
  <2> QED BY <2>2, <2>3, <2>4
<1>3. CASE LoginStep /\ UNCHANGED requests
  <2>1. PICK u \in Users :
          \/ \E password \in Passwords : Authenticate(u, password)
          \/ CheckCredentials(u)
          \/ RefuseLogin(u)
          \/ IssueToken(u)
          \/ TokenExpires(u)
    BY <1>3 DEF LoginStep
  <2>2. CASE \E password \in Passwords : Authenticate(u, password)
    BY <2>2, <1>1 DEF Authenticate
  <2>3. CASE CheckCredentials(u)
    <3>1. verified[u]
      BY <2>3 DEF CheckCredentials
    <3>2. \A v \in Users \ {u} : session'[v] = session[v]
      BY <2>3, <1>1 DEF CheckCredentials
    <3> QED BY <2>3, <3>1, <3>2 DEF CheckCredentials
  <2>4. CASE RefuseLogin(u) \/ TokenExpires(u)
    BY <2>4, <1>1 DEF RefuseLogin, TokenExpires, NoSession
  <2>5. CASE IssueToken(u)
    <3>1. verified[u]
      BY <2>5 DEF IssueToken
    <3>2. \A v \in Users \ {u} : session'[v] = session[v]
      BY <2>5, <1>1 DEF IssueToken
    <3>3. account' = account /\ verified' = verified
      BY <2>5 DEF IssueToken
    <3>4. session'[u].state = "in"
      BY <2>5, <1>1 DEF IssueToken, Sessions, NoSession
    <3> QED BY <3>1, <3>2, <3>3, <3>4
  <2> QED BY <2>1, <2>2, <2>3, <2>4, <2>5
<1>4. CASE UNCHANGED accounts
  BY <1>4 DEF accounts
<1>5. CASE AccountsChange \/ (LoginStep /\ UNCHANGED requests) \/ UNCHANGED accounts
  BY <1>2, <1>3, <1>4, <1>5
<1> QED BY <1>5 DEF Next, vars, Arrive, Handle, Authorize, ForwardTrigger, ForwardRead, Send,
        Unsupported, Answer, TransportFails, Disconnected, Finish, AirflowHandles, ApiStops

\* No account that changes between the check of a password and the token
\* makes the login give a token to someone who never had valid credentials.
THEOREM TokensAreEarned == Spec => []TokensEarned
<1>1. Init => LoginsInvariant
  BY DEF Init, AccountsInit, LoginsInvariant, TokensEarned, NoSession
<1>2. OperationsInvariant /\ LoginsInvariant /\ [Next]_vars => LoginsInvariant'
  BY LoginsKept
<1>3. LoginsInvariant => TokensEarned
  BY DEF LoginsInvariant
<1> QED BY <1>1, <1>2, <1>3, OperationsAreInvariant, PTL DEF Spec

\* Runs are never removed, so what existed at the arrival does at the reply.
ExistenceTells ==
  \A a \in Attempts : existed[a] =>
    /\ Wish(a).op = "get"
    /\ \E r \in runs : SameRun(r, Message(a))
    /\ reply[a] # "404"
    /\ answer[a] # "404"

LEMMA ExistenceKept ==
  OperationsInvariant /\ ExistenceTells /\ [Next]_vars => ExistenceTells'
<1> SUFFICES ASSUME OperationsInvariant, ExistenceTells, [Next]_vars
             PROVE  ExistenceTells'
  OBVIOUS
<1>1. want' = want /\ runs \subseteq runs'
  BY DEF Next, vars, requests, AccountsChange, Arrive, Handle, Authorize, ForwardTrigger,
         ForwardRead, Send, Unsupported, Answer, TransportFails, Disconnected, Finish,
         AirflowHandles, AirflowRefuses, AirflowTriggers, AirflowReads, ApiStops
<1>2. \A b \in Attempts : Message(b)' = Message(b) /\ Wish(b)' = Wish(b)
  BY <1>1, MessagesStay
<1>3. SUFFICES ASSUME NEW b \in Attempts, existed'[b]
               PROVE  /\ Wish(b).op = "get"
                      /\ \E r \in runs : SameRun(r, Message(b))
                      /\ reply'[b] # "404"
                      /\ answer'[b] # "404"
  BY <1>1, <1>2 DEF ExistenceTells, SameRun
<1> USE DEF OperationsInvariant, TypeOK
<1>4. ASSUME NEW a \in Attempts, Arrive(a)
      PROVE  /\ Wish(b).op = "get"
             /\ \E r \in runs : SameRun(r, Message(b))
             /\ reply'[b] # "404" /\ answer'[b] # "404"
  <2>1. CASE b = a
    <3>1. reply[a] = "none" /\ answer[a] = "pending"
      BY <1>4 DEF Arrive, ReplyTells, AnswerTells
    <3> QED BY <1>3, <1>4, <2>1, <3>1 DEF Arrive
  <2>2. CASE b # a
    BY <1>3, <1>4, <2>2 DEF Arrive, ExistenceTells
  <2> QED BY <2>1, <2>2
<1>5. ASSUME existed' = existed
      PROVE  /\ Wish(b).op = "get"
             /\ \E r \in runs : SameRun(r, Message(b))
             /\ reply[b] # "404" /\ answer[b] # "404"
  BY <1>3, <1>5 DEF ExistenceTells
<1>6. ASSUME NEW a \in Attempts, NEW told, Finish(a, told), told = "404" => reply[a] = "404"
      PROVE  existed' = existed /\ reply'[b] # "404" /\ answer'[b] # "404"
  BY <1>5, <1>6 DEF Finish
<1>7. ASSUME NEW a \in Attempts, Handle(a) \/ Disconnected(a)
      PROVE  existed' = existed /\ reply'[b] # "404" /\ answer'[b] # "404"
  <2>1. CASE Answer(a)
    <3>1. reply[a] \in Replies
      OBVIOUS
    <3>2. RaiseSafe(MapPayload(RaiseForStatus(reply[a]))) = "404" => reply[a] = "404"
      BY <3>1 DEF RaiseSafe, MapPayload, RaiseForStatus, Replies
    <3> QED BY <2>1, <3>2, <1>6 DEF Answer
  <2>2. CASE \E told \in {"401", "403", "500", "501", "503"} : Finish(a, told)
    BY <2>2, <1>6
  <2>3. CASE UNCHANGED <<existed, reply, answer>>
    BY <2>3, <1>5
  <2> QED BY <1>7, <2>1, <2>2, <2>3
      DEF Handle, Authorize, RefusalOf, ForwardTrigger, ForwardRead, Send, Unsupported,
          TransportFails, Disconnected
<1>8. ASSUME NEW m \in wire, AirflowHandles(m)
      PROVE  existed' = existed /\ reply'[b] # "404" /\ answer'[b] # "404"
  <2>1. existed' = existed /\ answer' = answer
    BY <1>8 DEF AirflowHandles
  <2>2. m.from \in Attempts /\ m = Message(m.from) /\ m.op = Wish(m.from).op
    BY MessageFrom, MessageFields
  <2>3. CASE b = m.from
    <3>1. \E r \in runs : SameRun(r, m)
      BY <2>1, <2>2, <2>3, <1>5
    <3>2. \E status \in Replies \ {"404"} : Deliver(m, status)
      BY <2>1, <2>2, <2>3, <3>1, <1>5, <1>8
      DEF AirflowHandles, AirflowRefuses, AirflowTriggers, AirflowReads, Replies
    <3> QED BY <2>1, <2>3, <3>2, <1>5 DEF Deliver
  <2>4. CASE b # m.from
    <3>1. \E status : Deliver(m, status)
      BY <1>8 DEF AirflowHandles, AirflowRefuses, AirflowTriggers, AirflowReads
    <3> QED BY <2>1, <2>4, <3>1, <1>5 DEF Deliver
  <2> QED BY <2>3, <2>4
<1>9. CASE ApiStops
  BY <1>3, <1>5, <1>9 DEF ApiStops
<1>10. CASE AccountsChange \/ (LoginStep /\ UNCHANGED requests) \/ UNCHANGED vars
  BY <1>5, <1>10 DEF AccountsChange, requests, vars
<1> QED BY <1>4, <1>5, <1>7, <1>8, <1>9, <1>10 DEF Next

\* A run that was there when a read of it arrived is not reported missing.
THEOREM ExistingRunsAreFound == Spec => []ExistingRunsFound
<1>1. Init => ExistenceTells
  BY DEF Init, ExistenceTells
<1>2. OperationsInvariant /\ ExistenceTells /\ [Next]_vars => ExistenceTells'
  BY ExistenceKept
<1>3. ExistenceTells => ExistingRunsFound
  BY DEF ExistenceTells, ExistingRunsFound
<1> QED BY <1>1, <1>2, <1>3, OperationsAreInvariant, PTL DEF Spec
=============================================================================
