------------------------- MODULE PipelineOperations -------------------------
(***************************************************************************)
(* Requests of the workflow operations: a client with a token asks to      *)
(* start, read, retry or cancel a run; the API authorizes the request from *)
(* the account as it is now, forwards it to Airflow over HTTP and answers  *)
(* from Airflow's reply, or from its absence. Messages and replies may be  *)
(* lost, Airflow may handle a message after the API stopped waiting, the   *)
(* API may stop, and the client may send its request again. A client that  *)
(* stops waiting for the API is one client more with the same request.     *)
(***************************************************************************)
EXTENDS Accounts, Naturals

CONSTANTS
  Clients,      \* programs that send requests
  UserOf,       \* the user whose token each client sends
  Dags,         \* the DAGs Airflow knows
  Wishes,       \* what a client may ask: [op, dag, id, date]
  Plans,        \* which clients ask for what
  NoId,         \* no run id given
  NoDate,       \* no logical date given
  MaxAttempts   \* how often each client sends its request

Attempts == UNION {{c} \X (1..MaxAttempts[c]) : c \in Clients}

VARIABLES
  want,       \* what each client asks for
  phase,      \* how far the API is with each attempt
  answer,     \* what the client was told
  wire,       \* messages to Airflow, not handled yet; a lost one never is
  reply,      \* Airflow's reply to an attempt
  runs,       \* the runs Airflow has started, with the attempt each is from
  warranted,  \* history: the account allowed the attempt since it arrived
  existed     \* history: the run asked for was there when the attempt arrived

requests == <<want, phase, answer, wire, reply, runs, warranted, existed>>
vars == <<accounts, requests>>

Ops == {"trigger", "get", "retry", "cancel"}
Writes(wish) == wish.op # "get"
Phases == {"unsent", "arrived", "authorized", "sent", "done"}
Replies == {"none", "ok", "malformed", "404", "409", "failed"}
Ambiguous == {"500", "503", "lost"}
Answers == {"pending", "ok", "401", "403", "404", "409", "501"} \cup Ambiguous

ASSUME PlansAssumption ==
  /\ UserOf \in [Clients -> Users]
  /\ Plans \subseteq [Clients -> Wishes]
  /\ MaxAttempts \in [Clients -> Nat]
ASSUME WishesAssumption ==
  \A wish \in Wishes : wish.op \in Ops /\ (wish.id = NoId => wish.op = "trigger")

Wish(a) == want[a[1]]
AccountOf(a) == UserOf[a[1]]

\* Mutant: a fresh run id whatever the caller gave.
FreshRunId(a) == a

\* The caller's run id, or a fresh one for each attempt.
EffectiveRunId(a) == IF Wish(a).id # NoId THEN Wish(a).id ELSE a

Message(a) ==
  [from |-> a, op |-> Wish(a).op, dag |-> Wish(a).dag,
   id |-> EffectiveRunId(a), date |-> Wish(a).date]

SameRun(m, n) == m.dag = n.dag /\ m.id = n.id
SameDate(m, n) == m.dag = n.dag /\ m.date = n.date /\ m.date # NoDate

Init ==
  /\ AccountsInit
  /\ want \in Plans
  /\ phase = [a \in Attempts |-> "unsent"]
  /\ answer = [a \in Attempts |-> "pending"]
  /\ wire = {}
  /\ reply = [a \in Attempts |-> "none"]
  /\ runs = {}
  /\ warranted = [a \in Attempts |-> FALSE]
  /\ existed = [a \in Attempts |-> FALSE]

\* A client sends its request again when the answer left open what happened.
Arrive(a) ==
  /\ phase[a] = "unsent"
  /\ a[2] > 1 => answer[<<a[1], a[2] - 1>>] \in Ambiguous
  /\ phase' = [phase EXCEPT ![a] = "arrived"]
  /\ warranted' = [warranted EXCEPT
                     ![a] = Permits(account[AccountOf(a)], Writes(Wish(a)))]
  /\ existed' = [existed EXCEPT ![a] =
       Wish(a).op = "get" /\ \E r \in runs : SameRun(r, Message(a))]
  /\ UNCHANGED <<accounts, want, answer, wire, reply, runs>>

Finish(a, told) ==
  /\ phase' = [phase EXCEPT ![a] = "done"]
  /\ answer' = [answer EXCEPT ![a] = told]
  /\ reply' = [reply EXCEPT ![a] = "none"]
  /\ UNCHANGED <<accounts, want, wire, runs, warranted, existed>>

RefusalOf(row) == IF IsAccount(row) /\ row.active THEN "403" ELSE "401"

\* Mutant: a token is enough.
AuthorizeByToken(a) ==
  /\ phase[a] = "arrived"
  /\ \/ session[AccountOf(a)].state # "in" /\ Finish(a, "401")
     \/ /\ session[AccountOf(a)].state = "in"
        /\ phase' = [phase EXCEPT ![a] = "authorized"]
        /\ UNCHANGED <<accounts, want, answer, wire, reply, runs, warranted, existed>>

Authorize(a) ==
  LET row == account[AccountOf(a)] IN
  /\ phase[a] = "arrived"
  /\ \/ session[AccountOf(a)].state # "in" /\ Finish(a, "401")
     \/ /\ session[AccountOf(a)].state = "in"
        /\ \/ Finish(a, "503")
           \/ ~Permits(row, Writes(Wish(a))) /\ Finish(a, RefusalOf(row))
           \/ /\ Permits(row, Writes(Wish(a)))
              /\ phase' = [phase EXCEPT ![a] = "authorized"]
              /\ UNCHANGED <<accounts, want, answer, wire, reply, runs, warranted, existed>>

Send(a) ==
  /\ phase' = [phase EXCEPT ![a] = "sent"]
  /\ wire' = wire \cup {Message(a)}
  /\ UNCHANGED <<accounts, want, answer, reply, runs, warranted, existed>>

ForwardTrigger(a) ==
  /\ phase[a] = "authorized"
  /\ Wish(a).op = "trigger"
  /\ Send(a)

\* One read, of a run, stands for all: they differ in what they return.
ForwardRead(a) ==
  /\ phase[a] = "authorized"
  /\ Wish(a).op = "get"
  /\ Send(a)

\* Retrying and cancelling a run are not supported and reach nothing.
Unsupported(a) ==
  /\ phase[a] = "authorized"
  /\ Wish(a).op \in {"retry", "cancel"}
  /\ Finish(a, "501")

Deliver(m, status) ==
  reply' = [reply EXCEPT ![m.from] = IF phase[m.from] = "sent" THEN status ELSE @]

\* Airflow replies with an error before it looks at the message: it is busy,
\* or does not accept the API's credentials. A run it has started may be
\* reported as a failure too, or in a body that the API cannot read.
AirflowRefuses(m) ==
  /\ Deliver(m, "failed")
  /\ UNCHANGED runs

AirflowTriggers(m) ==
  /\ m.op = "trigger"
  /\ \/ m.dag \notin Dags /\ Deliver(m, "404") /\ UNCHANGED runs
     \/ /\ m.dag \in Dags
        /\ \E r \in runs : SameRun(r, m) \/ SameDate(r, m)
        /\ Deliver(m, "409")
        /\ UNCHANGED runs
     \/ /\ m.dag \in Dags
        /\ ~\E r \in runs : SameRun(r, m) \/ SameDate(r, m)
        /\ runs' = runs \cup {m}
        /\ \E status \in {"ok", "malformed", "failed"} : Deliver(m, status)

AirflowReads(m) ==
  /\ m.op = "get"
  /\ IF \E r \in runs : SameRun(r, m)
       THEN \E status \in {"ok", "malformed"} : Deliver(m, status)
       ELSE Deliver(m, "404")
  /\ UNCHANGED runs

AirflowHandles(m) ==
  /\ m \in wire
  /\ wire' = wire \ {m}
  /\ AirflowRefuses(m) \/ AirflowTriggers(m) \/ AirflowReads(m)
  /\ UNCHANGED <<accounts, want, phase, answer, warranted, existed>>

\* The error of the orchestrator interface that a reply is, or the reply.
RaiseForStatus(status) ==
  CASE status = "404" -> "NotFound"
    [] status = "409" -> "Conflict"
    [] status = "failed" -> "Unavailable"
    [] OTHER -> status

MapPayload(result) == IF result = "malformed" THEN "InvalidResponse" ELSE result

\* The answer to the client for each error.
RaiseSafe(result) ==
  CASE result = "ok" -> "ok"
    [] result = "NotFound" -> "404"
    [] result = "Conflict" -> "409"
    [] OTHER -> "503"

Answer(a) ==
  /\ phase[a] = "sent"
  /\ reply[a] # "none"
  /\ Finish(a, RaiseSafe(MapPayload(RaiseForStatus(reply[a]))))

\* Mutant: no timeout.
AwaitReply(a) == phase[a] = "sent" /\ reply[a] # "none" /\ Finish(a, "503")

\* A timeout or a network error, whether or not Airflow has the message.
TransportFails(a) ==
  /\ phase[a] = "sent"
  /\ Finish(a, "503")

\* Airflow closes the connection without a reply: an error of the protocol,
\* which is neither, and which the route raises again.
Disconnected(a) ==
  /\ phase[a] = "sent"
  /\ Finish(a, "500")

\* The process of the API ends and its attempts with it.
ApiStops ==
  /\ \E a \in Attempts : phase[a] \in {"arrived", "authorized", "sent"}
  /\ phase' = [a \in Attempts |-> IF phase[a] = "unsent" THEN "unsent" ELSE "done"]
  /\ answer' = [a \in Attempts |->
       IF phase[a] \in {"unsent", "done"} THEN answer[a] ELSE "lost"]
  /\ reply' = [a \in Attempts |-> "none"]
  /\ UNCHANGED <<accounts, want, wire, runs, warranted, existed>>

AccountsChange ==
  /\ AccountStep
  /\ warranted' = [a \in Attempts |->
       \/ warranted[a]
       \/ phase[a] = "arrived" /\ Permits(account'[AccountOf(a)], Writes(Wish(a)))]
  /\ UNCHANGED <<want, phase, answer, wire, reply, runs, existed>>

Handle(a) ==
  \/ Authorize(a)
  \/ ForwardTrigger(a)
  \/ ForwardRead(a)
  \/ Unsupported(a)
  \/ Answer(a)
  \/ TransportFails(a)

Next ==
  \/ AccountsChange
  \/ LoginStep /\ UNCHANGED requests
  \/ \E a \in Attempts : Arrive(a) \/ Handle(a) \/ Disconnected(a)
  \/ \E m \in wire : AirflowHandles(m)
  \/ ApiStops

Spec == Init /\ [][Next]_vars

\* The API handles what arrived, and its timeouts end every wait.
FairSpec == Spec /\ \A a \in Attempts : WF_vars(Handle(a))
-----------------------------------------------------------------------------
TypeOK ==
  /\ account \in [Users -> Row \cup {NoAccount}]
  /\ session \in [Users -> Sessions]
  /\ verified \in [Users -> BOOLEAN]
  /\ want \in [Clients -> Wishes]
  /\ phase \in [Attempts -> Phases]
  /\ answer \in [Attempts -> Answers]
  /\ reply \in [Attempts -> Replies]
  /\ warranted \in [Attempts -> BOOLEAN]
  /\ existed \in [Attempts -> BOOLEAN]
  /\ wire \subseteq {Message(a) : a \in Attempts}
  /\ runs \subseteq {Message(a) : a \in Attempts}

\* Nothing is forwarded and no run is started for an attempt that the account
\* did not allow at some moment after the attempt arrived: roles and activity
\* are those of the account, not of the token.
WritesWarranted ==
  /\ \A m \in wire \cup runs : warranted[m.from]
  /\ \A a \in Attempts : phase[a] \in {"authorized", "sent"} => warranted[a]

\* A run that was there when it was asked for is not reported as missing,
\* whatever Airflow replies.
ExistingRunsFound ==
  \A a \in Attempts : answer[a] = "404" /\ Wish(a).op = "get" => ~existed[a]

\* The API ends every attempt, whatever happens to messages and replies.
EveryAttemptEnds ==
  \A a \in Attempts : (phase[a] = "arrived") ~> (phase[a] = "done")

\* Triggers, repeated by clients over a network that loses messages and
\* replies, keep the contract of the endpoint.
Told(said) ==
  CASE said = "pending" -> "open"
    [] said = "ok" -> "started"
    [] said = "409" -> "conflict"
    [] said \in Ambiguous -> "unknown"
    [] OTHER -> "refused"

AskedId(a) == IF Wish(a).id = NoId THEN a ELSE Wish(a).id
AskedKeys ==
  [a \in Attempts |-> [dag |-> Wish(a).dag, id |-> AskedId(a), date |-> Wish(a).date]]
Started == {m.from : m \in runs}
Heard ==
  [a \in Attempts |-> IF Wish(a).op = "trigger" THEN Told(answer[a]) ELSE "open"]

Contract == INSTANCE TriggerContract WITH
  Keys <- [dag : {w.dag : w \in Wishes},
           id : {w.id : w \in Wishes} \cup Attempts,
           date : {w.date : w \in Wishes}],
  key <- AskedKeys, started <- Started, outcome <- Heard
TriggersKeepContract == Contract!ContractSpec

\* Why the contract and the warrants are kept: a message is on the wire or a
\* run, never both; a reply tells what became of its message; an attempt that
\* was refused has no message left.
Traffic ==
  /\ \A m \in wire \cup runs : phase[m.from] \in {"sent", "done"}
  /\ \A m \in wire : answer[m.from] \in {"pending"} \cup Ambiguous
  /\ wire \cap runs = {}
  /\ \A m \in runs : m.op = "trigger"

ReplyTells(a) ==
  /\ reply[a] # "none" => phase[a] = "sent" /\ Message(a) \notin wire
  /\ Wish(a).op = "trigger" =>
       /\ reply[a] = "ok" => Message(a) \in runs
       /\ reply[a] \in {"404", "409"} => Message(a) \notin runs
       /\ reply[a] = "409" =>
            \E r \in runs : SameRun(r, Message(a)) \/ SameDate(r, Message(a))

AnswerTells(a) ==
  /\ answer[a] = "pending" <=> phase[a] # "done"
  /\ answer[a] \in {"401", "403", "404", "501"} => Message(a) \notin wire \cup runs

Warrants ==
  /\ WritesWarranted
  /\ \A a \in Attempts :
       phase[a] = "arrived" /\ Permits(account[AccountOf(a)], Writes(Wish(a)))
         => warranted[a]

OperationsInvariant ==
  /\ TypeOK
  /\ Traffic
  /\ \A a \in Attempts : ReplyTells(a) /\ AnswerTells(a)
  /\ Warrants

\* The documentation says that failures of connectivity are answered as 503.
ConnectivityIs503 == \A a \in Attempts : answer[a] # "500"
=============================================================================
