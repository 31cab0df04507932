------------------------ MODULE ResourceScreensProofs -----------------------
(***************************************************************************)
(* That a screen at rest shows the answer to what it asks for, for any     *)
(* filters and any number of requests, whatever the queries return; and    *)
(* that what an answer puts together from several queries belongs          *)
(* together, whatever is written between them.                             *)
(***************************************************************************)
EXTENDS ResourceScreens, OperationalRecordsProofs

\* The fields of the page and of the hook; what the proof does not look into
\* is whatever it is.
PageType ==
  page \in [view : {page.view}, subject : {page.subject}, filter : {page.filter},
            offset : {page.offset}, login : BOOLEAN]
HookType ==
  hook \in [number : Nat, stage : Stages, todo : {hook.todo}, rows : {hook.rows},
            writes : {hook.writes}, data : {hook.data}, error : Failures \cup {Nothing},
            loading : BOOLEAN]

\* What is on its way was asked for before the current request.
LateIsOlder == \A request \in late : request.number \in Nat /\ request.number < hook.number

\* Queries are left only while the current request is being read, which no
\* error of a former one outlives.
QueriesBelong ==
  /\ hook.todo # <<>> => hook.stage = "reading"
  /\ hook.stage = "reading" => hook.error = Nothing

\* Behind the login page nothing is asked for.
LoginIsIdle == page.login => hook.stage = "debounce"

IInv ==
  PageType /\ HookType /\ LateIsOlder /\ QueriesBelong /\ LoginIsIdle /\ SettledIsCurrent

THEOREM InitInvariant == Init => IInv
<1> SUFFICES ASSUME Init PROVE IInv
  OBVIOUS
<1>1. PageType
  <2>1. PICK place \in Places : page = FreshPage(place)
    BY DEF Init
  <2> QED
    BY <2>1 DEF PageType, FreshPage
<1>2. HookType
  BY DEF Init, HookType, FreshHook, Stages
<1>3. LateIsOlder /\ QueriesBelong /\ LoginIsIdle /\ SettledIsCurrent
  BY DEF Init, LateIsOlder, QueriesBelong, LoginIsIdle, SettledIsCurrent, FreshHook
<1> QED
  BY <1>1, <1>2, <1>3 DEF IInv

\* A request that was superseded changes nothing when it comes back.
LEMMA OldSettlesNothing ==
  ASSUME HookType, NEW number \in Nat, number < hook.number, NEW answer, NEW outcome
  PROVE  Settle(number, answer, outcome) = hook
BY DEF Settle, IsCurrent, HookType

\* The current request settles with the answer, or with an error and no data.
LEMMA CurrentSettles ==
  ASSUME HookType, NEW answer, NEW outcome \in {"data"} \cup Failures,
         hook' = Settle(hook.number, answer, outcome)
  PROVE  /\ HookType'
         /\ hook'.number = hook.number /\ hook'.stage = "settled" /\ hook'.todo = <<>>
         /\ ~hook'.loading
         /\ outcome = "data" => hook'.data = {answer}
         /\ outcome # "data" => hook'.data = {} /\ hook'.error = outcome
         /\ outcome = "data" => hook'.error = hook.error
BY DEF Settle, IsCurrent, HookType, Failures, Stages

\* What the cleanup of the effect and its new timer do to the hook.
LEMMA RequestSupersedes ==
  ASSUME IInv, Request, PageType'
  PROVE  IInv'
<1>1. HookType' /\ hook'.number = hook.number + 1 /\ hook'.stage = "debounce" /\ hook'.todo = <<>>
  <2>1. hook' = [hook EXCEPT !.number = @ + 1, !.stage = "debounce", !.todo = <<>>,
                             !.rows = <<>>, !.writes = 0]
    BY DEF Request
  <2>2. "debounce" \in Stages
    BY DEF Stages
  <2>3. HookType
    BY DEF IInv
  <2>4. hook'.number = hook.number + 1 /\ hook'.stage = "debounce" /\ hook'.todo = <<>>
    BY <2>1, <2>3 DEF HookType
  <2>5. hook.number + 1 \in Nat
    BY <2>3 DEF HookType
  <2>6. HookType'
    BY <2>1, <2>2, <2>3, <2>5 DEF HookType
  <2> QED
    BY <2>4, <2>6
<1>2. LateIsOlder'
  <2> SUFFICES ASSUME NEW request \in late' PROVE request.number \in Nat /\ request.number < hook'.number
    BY DEF LateIsOlder
  <2>1. CASE request \in late
    BY <1>1, <2>1 DEF IInv, LateIsOlder, HookType
  <2>2. CASE request \notin late
    BY <1>1, <2>2 DEF IInv, Request, HookType
  <2> QED
    BY <2>1, <2>2
<1>3. QueriesBelong' /\ LoginIsIdle' /\ SettledIsCurrent'
  BY <1>1 DEF QueriesBelong, LoginIsIdle, SettledIsCurrent
<1> QED
  BY <1>1, <1>2, <1>3 DEF IInv

\* An answer of the current request leaves the screen at rest on it.
LEMMA SettledWell ==
  ASSUME IInv, NEW answer, NEW outcome \in {"data"} \cup Failures,
         hook' = Settle(hook.number, answer, outcome), hook.stage = "reading", ~page.login,
         outcome = "data" => answer.asked = Asked,
         UNCHANGED <<page, late>>
  PROVE  IInv'
<1>1. HookType
  BY DEF IInv
<1>2. /\ HookType'
      /\ hook'.number = hook.number /\ hook'.stage = "settled" /\ hook'.todo = <<>>
      /\ ~hook'.loading
      /\ outcome = "data" => hook'.data = {answer}
      /\ outcome # "data" => hook'.data = {} /\ hook'.error = outcome
      /\ outcome = "data" => hook'.error = hook.error
  BY <1>1, CurrentSettles
<1>3. PageType' /\ LateIsOlder'
  BY <1>2 DEF IInv, PageType, LateIsOlder
<1>4. QueriesBelong' /\ LoginIsIdle'
  BY <1>2 DEF QueriesBelong, LoginIsIdle
<1>5. SettledIsCurrent'
  <2>1. CASE outcome = "data"
    <3>1. hook'.error = Nothing
      BY <1>2, <2>1 DEF IInv, QueriesBelong
    <3>2. Asked' = Asked
      BY DEF Asked
    <3> QED
      BY <1>2, <2>1, <3>1, <3>2 DEF SettledIsCurrent
  <2>2. CASE outcome # "data"
    BY <1>2, <2>2, ScreensAssumption DEF SettledIsCurrent
  <2> QED
    BY <2>1, <2>2
<1> QED
  BY <1>2, <1>3, <1>4, <1>5 DEF IInv

\* Nothing that the invariant looks at changes.
LEMMA Untouched ==
  ASSUME IInv, HookType', UNCHANGED <<page, late>>,
         hook'.number = hook.number, hook'.stage = hook.stage, hook'.data = hook.data,
         hook'.error = hook.error, hook'.loading = hook.loading,
         hook'.todo # <<>> => hook.todo # <<>>
  PROVE  IInv'
BY DEF IInv, PageType, LateIsOlder, QueriesBelong, LoginIsIdle, SettledIsCurrent, Asked

THEOREM StepInvariant == IInv /\ [Next]_vars => IInv'
<1> SUFFICES ASSUME IInv, [Next]_vars PROVE IInv'
  OBVIOUS
<1>0. HookType /\ PageType
  BY DEF IInv
<1>1. CASE TimerFires
  <2>1. /\ HookType' /\ hook'.number = hook.number /\ hook'.stage = "reading"
        /\ hook'.error = Nothing
    BY <1>0, <1>1 DEF TimerFires, HookType, Stages
  <2>2. PageType' /\ LateIsOlder'
    BY <1>1, <2>1 DEF IInv, TimerFires, PageType, LateIsOlder
  <2> QED
    BY <1>1, <2>1, <2>2 DEF IInv, TimerFires, Open, QueriesBelong, LoginIsIdle, SettledIsCurrent
<1>2. CASE Read
  <2>1. hook.todo # <<>> /\ UNCHANGED <<page, late>>
    BY <1>2 DEF Read
  <2>2. PICK todo, rows : hook' = [hook EXCEPT !.todo = todo, !.rows = rows]
    BY <1>2 DEF Read
  <2>3. /\ HookType' /\ hook'.number = hook.number /\ hook'.stage = hook.stage
        /\ hook'.data = hook.data /\ hook'.error = hook.error /\ hook'.loading = hook.loading
    BY <1>0, <2>2 DEF HookType
  <2> QED
    BY <2>1, <2>3, Untouched
<1>3. CASE NotFound
  BY <1>3, SettledWell DEF NotFound, Open, IInv, QueriesBelong, Failures
<1>4. CASE Answer
  BY <1>4, SettledWell DEF Answer, Open
<1>5. CASE Fail
  BY <1>5, SettledWell DEF Fail, Open, Failures
<1>6. CASE Late
  <2>1. PICK request \in late, outcome \in {"data", "cancelled", "retryable"} :
          LateAnswer(request, outcome)
    BY <1>6 DEF Late
  <2>2. hook' = hook
    BY <1>0, <2>1, OldSettlesNothing DEF LateAnswer, IInv, LateIsOlder
  <2>3. late' \subseteq late /\ UNCHANGED page
    BY <2>1 DEF LateAnswer
  <2> QED
    BY <2>2, <2>3 DEF IInv, PageType, HookType, LateIsOlder, QueriesBelong, LoginIsIdle,
                      SettledIsCurrent, Asked
<1>7. CASE Unauthorized
  <2>1. HookType' /\ QueriesBelong' /\ SettledIsCurrent' /\ LateIsOlder'
    BY <1>7 DEF Unauthorized, FreshHook, HookType, Stages, QueriesBelong, SettledIsCurrent,
                LateIsOlder
  <2>2. PageType'
    BY <1>0, <1>7 DEF Unauthorized, PageType
  <2>3. LoginIsIdle'
    BY <1>7 DEF Unauthorized, FreshHook, LoginIsIdle
  <2> QED
    BY <2>1, <2>2, <2>3 DEF IInv
<1>8. CASE SignIn
  <2>1. PageType'
    BY <1>8 DEF SignIn, PageType, FreshPage
  <2>2. hook.stage = "debounce" /\ UNCHANGED <<hook, late>>
    BY <1>8 DEF SignIn, IInv, LoginIsIdle
  <2> QED
    BY <2>1, <2>2 DEF IInv, HookType, LateIsOlder, QueriesBelong, LoginIsIdle, SettledIsCurrent
<1>9. CASE User
  <2>1. Request
    BY <1>9 DEF User, ChangeFilter, NextPage, PreviousPage, Retry
  <2>2. PageType'
    BY <1>0, <1>9 DEF User, ChangeFilter, NextPage, PreviousPage, Retry, PageType
  <2> QED
    BY <2>1, <2>2, RequestSupersedes
<1>10. CASE Write
  <2>1. UNCHANGED <<page, late>>
    BY <1>10 DEF Write
  <2>2. /\ HookType' /\ hook'.number = hook.number /\ hook'.stage = hook.stage
        /\ hook'.data = hook.data /\ hook'.error = hook.error /\ hook'.loading = hook.loading
        /\ hook'.todo = hook.todo
    BY <1>0, <1>10 DEF Write, HookType
  <2> QED
    BY <2>1, <2>2, Untouched
<1>11. CASE Tick \/ UNCHANGED vars
  BY <1>11 DEF Tick, screen, vars, IInv, PageType, HookType, LateIsOlder, QueriesBelong,
               LoginIsIdle, SettledIsCurrent, Asked
<1> QED
  BY <1>1, <1>2, <1>3, <1>4, <1>5, <1>6, <1>7, <1>8, <1>9, <1>10, <1>11 DEF Next, Api

\* A screen at rest shows the answer to what it asks for now, or the error of
\* that request, however many were superseded and come back late.
THEOREM SettledSafe == Spec => []SettledIsCurrent
<1>1. IInv => SettledIsCurrent
  BY DEF IInv
<1> QED
  BY InitInvariant, StepInvariant, <1>1, PTL DEF Spec

-----------------------------------------------------------------------------
(* The parts of an answer.                                                 *)

\* What a step may do to the parts read so far and to the data shown: drop
\* them, begin to read, read one part more, show what was read, or let the
\* records change under it.
Drops == hook'.stage # "reading" /\ hook'.data \subseteq hook.data /\ UNCHANGED records
Begins ==
  /\ hook'.stage = "reading" /\ hook'.todo = ReadsOf[page.view] /\ hook'.data = hook.data
  /\ UNCHANGED <<records, page>>
ShowsAnswer ==
  /\ hook.stage = "reading" /\ hook.todo = <<>>
  /\ hook'.stage = "settled" /\ hook'.data = {[asked |-> Asked, rows |-> hook.rows]}
  /\ UNCHANGED <<records, page>>
Reads ==
  /\ hook.stage = "reading" /\ hook.todo # <<>> /\ UNCHANGED <<records, page>>
  /\ Head(hook.todo) = "row" => Query("row") # NoRow
  /\ hook'.rows = WithPart(hook.rows, Head(hook.todo), Query(Head(hook.todo)))
  /\ hook'.todo = Tail(hook.todo) /\ hook'.stage = "reading" /\ hook'.data = hook.data
Waits ==
  /\ UNCHANGED page
  /\ hook'.stage = hook.stage /\ hook'.todo = hook.todo /\ hook'.rows = hook.rows
  /\ hook'.data = hook.data

LEMMA StepsOfAnAnswer ==
  ASSUME IInv, [Next]_vars
  PROVE  /\ page'.view = page.view /\ page'.subject = page.subject
         /\ \/ Drops \/ Begins \/ ShowsAnswer \/ Reads
            \/ Waits /\ \/ \E kind \in WriteKinds : Written(kind)
                        \/ TimePasses
                        \/ UNCHANGED records
<1>0. HookType /\ PageType /\ (hook.todo # <<>> => hook.stage = "reading")
  BY DEF IInv, QueriesBelong
<1>1. CASE TimerFires
  BY <1>0, <1>1 DEF TimerFires, HookType, Begins
<1>2. CASE Read
  <2> DEFINE name == Head(hook.todo)
  <2>1. /\ hook.todo # <<>> /\ UNCHANGED <<records, page>>
        /\ name = "row" => Query(name) # NoRow
        /\ hook' = [hook EXCEPT !.todo = Tail(@), !.rows = WithPart(@, name, Query(name))]
    BY <1>2 DEF Read
  <2>2. /\ hook'.rows = WithPart(hook.rows, name, Query(name)) /\ hook'.todo = Tail(hook.todo)
        /\ hook'.stage = hook.stage /\ hook'.data = hook.data
    BY <1>0, <2>1 DEF HookType
  <2> QED
    BY <1>0, <2>1, <2>2 DEF Reads
<1>3. CASE NotFound
  <2>1. hook'.stage = "settled" /\ hook'.data = {}
    BY <1>0, <1>3, CurrentSettles DEF NotFound, Failures
  <2> QED
    BY <1>3, <2>1 DEF NotFound, Drops
<1>4. CASE Answer
  <2> DEFINE answer == [asked |-> Asked, rows |-> hook.rows]
  <2>1. hook' = Settle(hook.number, answer, "data") /\ hook.stage = "reading" /\ hook.todo = <<>>
        /\ UNCHANGED <<records, page>>
    BY <1>4 DEF Answer
  <2> HIDE DEF answer
  <2>2. hook'.stage = "settled" /\ hook'.data = {answer}
    BY <1>0, <2>1, CurrentSettles
  <2> QED
    BY <2>1, <2>2 DEF ShowsAnswer, answer
<1>5. CASE Fail
  <2>1. hook'.stage = "settled" /\ hook'.data = {}
    BY <1>0, <1>5, CurrentSettles DEF Fail, Failures
  <2> QED
    BY <1>5, <2>1 DEF Fail, Drops
<1>6. CASE Late
  <2>1. PICK request \in late, outcome \in {"data", "cancelled", "retryable"} :
          LateAnswer(request, outcome)
    BY <1>6 DEF Late
  <2>2. hook' = hook
    BY <1>0, <2>1, OldSettlesNothing DEF LateAnswer, IInv, LateIsOlder
  <2> QED
    BY <2>1, <2>2 DEF LateAnswer, Waits
<1>7. CASE Unauthorized
  <2>1. hook'.stage = "debounce" /\ hook'.data = {}
    BY <1>7 DEF Unauthorized, FreshHook
  <2>2. page'.view = page.view /\ page'.subject = page.subject
    BY <1>0, <1>7 DEF Unauthorized, PageType
  <2> QED
    BY <1>7, <2>1, <2>2 DEF Unauthorized, Drops
<1>8. CASE SignIn
  <2>1. hook' = hook /\ hook.stage = "debounce"
    BY <1>8 DEF SignIn, IInv, LoginIsIdle
  <2>2. page'.view = page.view /\ page'.subject = page.subject
    BY <1>8 DEF SignIn, FreshPage
  <2> QED
    BY <1>8, <2>1, <2>2 DEF SignIn, Drops
<1>9. CASE User
  <2>1. Request
    BY <1>9 DEF User, ChangeFilter, NextPage, PreviousPage, Retry
  <2>2. hook'.stage = "debounce" /\ hook'.data = hook.data
    BY <1>0, <2>1 DEF Request, HookType
  <2>3. page'.view = page.view /\ page'.subject = page.subject
    BY <1>0, <1>9 DEF User, ChangeFilter, NextPage, PreviousPage, Retry, PageType
  <2>4. UNCHANGED records
    BY <1>9 DEF User, ChangeFilter, NextPage, PreviousPage, Retry
  <2> QED
    BY <2>2, <2>3, <2>4 DEF Drops
<1>10. CASE Write
  <2>1. UNCHANGED page /\ \E kind \in WritesUnder[page.view] : Written(kind)
    BY <1>10 DEF Write
  <2>2. Waits
    BY <1>0, <1>10 DEF Write, HookType, Waits
  <2>3. \E kind \in WriteKinds : Written(kind)
    BY <2>1 DEF Written, WriteKinds
  <2> QED
    BY <2>1, <2>2, <2>3
<1>11. CASE Tick \/ UNCHANGED vars
  BY <1>11 DEF Tick, screen, vars, Waits
<1> QED
  BY <1>1, <1>2, <1>3, <1>4, <1>5, <1>6, <1>7, <1>8, <1>9, <1>10, <1>11 DEF Next, Api

-----------------------------------------------------------------------------
(* The detail of a run.                                                    *)

\* Each part once it is read: what it counted is not more than there is now,
\* and what was counted before it is not more than it lists.
RowStands(rows) ==
  /\ "row" \in DOMAIN rows /\ rows["row"].activeAlerts \in Nat
  /\ rows["row"].activeAlerts <= Cardinality(RunAlerts(page.subject))
AlertsAddUp(rows) ==
  /\ {"row", "alerts"} \subseteq DOMAIN rows
  /\ rows["row"].activeAlerts <= Cardinality(rows["alerts"])
SummaryStands(rows) ==
  /\ "summary" \in DOMAIN rows /\ rows["summary"].total \in Nat
  /\ rows["summary"].failed <= rows["summary"].total
  /\ rows["summary"].total <= Cardinality(RunExecutions(page.subject))
ExecutionsAddUp(rows) ==
  /\ {"summary", "executions"} \subseteq DOMAIN rows
  /\ rows["summary"].failed <= rows["summary"].total
  /\ rows["summary"].total <= Cardinality(rows["executions"])

RunDetailRead ==
  LET todo == hook.todo
      rows == hook.rows
  IN \/ todo = <<"row", "alerts", "summary", "executions">>
     \/ todo = <<"alerts", "summary", "executions">> /\ RowStands(rows)
     \/ todo = <<"summary", "executions">> /\ AlertsAddUp(rows)
     \/ todo = <<"executions">> /\ AlertsAddUp(rows) /\ SummaryStands(rows)
     \/ todo = <<>> /\ AlertsAddUp(rows) /\ ExecutionsAddUp(rows)

RunDetailInv ==
  page.view = "run" =>
    /\ hook.stage = "reading" => RunDetailRead
    /\ \A d \in hook.data : AlertsAddUp(d.rows) /\ ExecutionsAddUp(d.rows)

\* A part that is read takes its place, and the others keep theirs.
LEMMA ReadsPlaceAPart ==
  ASSUME Reads, NEW name, name = Head(hook.todo)
  PROVE  /\ DOMAIN hook'.rows = DOMAIN hook.rows \cup {name} /\ hook'.rows[name] = Query(name)
         /\ \A part \in DOMAIN hook.rows \ {name} : hook'.rows[part] = hook.rows[part]
<1>1. hook'.rows = WithPart(hook.rows, name, Query(name))
  BY DEF Reads
<1>2. PICK answer : answer = Query(name)
  OBVIOUS
<1>3. hook'.rows = WithPart(hook.rows, name, answer)
  BY <1>1, <1>2
<1> QED
  BY <1>2, <1>3 DEF WithPart

LEMMA RunCounts ==
  ASSUME RecordsInv, NEW id
  PROVE  /\ IsFiniteSet(RunAlerts(id)) /\ Cardinality(RunAlerts(id)) \in Nat
         /\ Cardinality(ActiveOf(RunAlerts(id))) \in Nat
         /\ Cardinality(ActiveOf(RunAlerts(id))) <= Cardinality(RunAlerts(id))
         /\ IsFiniteSet(RunExecutions(id)) /\ Cardinality(RunExecutions(id)) \in Nat
         /\ Summary(RunExecutions(id)).total = Cardinality(RunExecutions(id))
         /\ Summary(RunExecutions(id)).failed <= Cardinality(RunExecutions(id))
<1>1. IsFiniteSet(RunAlerts(id)) /\ IsFiniteSet(RunExecutions(id))
  BY FS_Subset DEF RecordsInv, AlertsKept, ExecutionsKept, RunAlerts, RunExecutions
<1> DEFINE failing == {x \in RunExecutions(id) : Failed(x)}
<1>2. ActiveOf(RunAlerts(id)) \subseteq RunAlerts(id) /\ failing \subseteq RunExecutions(id)
  BY DEF ActiveOf
<1>3. /\ IsFiniteSet(ActiveOf(RunAlerts(id)))
      /\ Cardinality(ActiveOf(RunAlerts(id))) <= Cardinality(RunAlerts(id))
      /\ Cardinality(failing) <= Cardinality(RunExecutions(id))
  BY <1>1, <1>2, FS_Subset
<1>4. /\ Cardinality(RunAlerts(id)) \in Nat /\ Cardinality(RunExecutions(id)) \in Nat
      /\ Cardinality(ActiveOf(RunAlerts(id))) \in Nat
  BY <1>1, <1>3, FS_CardinalityType
<1>5. Summary(RunExecutions(id)) = [total |-> Cardinality(RunExecutions(id)),
                                    failed |-> Cardinality(failing)]
  BY DEF Summary
<1> QED
  BY <1>1, <1>3, <1>4, <1>5

\* What belongs to a run does not become less.
LEMMA RunCountsGrow ==
  ASSUME RecordsInv, NEW id, UNCHANGED <<executions, alerts>> \/ \E kind \in WriteKinds : Written(kind)
  PROVE  /\ Cardinality(RunAlerts(id)) <= Cardinality(RunAlerts(id)')
         /\ Cardinality(RunExecutions(id)) <= Cardinality(RunExecutions(id)')
         /\ Cardinality(RunAlerts(id)') \in Nat /\ Cardinality(RunExecutions(id)') \in Nat
<1>1. CASE UNCHANGED <<executions, alerts>>
  <2>1. RunAlerts(id)' = RunAlerts(id) /\ RunExecutions(id)' = RunExecutions(id)
    BY <1>1 DEF RunAlerts, RunExecutions
  <2> QED
    BY <2>1, RunCounts
<1>2. CASE \E kind \in WriteKinds : Written(kind)
  <2>1. PICK kind : Written(kind)
    BY <1>2
  <2>2. Cardinality(RunAlerts(id)) <= Cardinality(RunAlerts(id)')
    BY <2>1, AlertsStay DEF RunAlerts
  <2>3. RecordsInv'
    BY <1>2, WritesKeepRecords
  <2>4. IsFiniteSet(alerts') /\ IsFiniteSet(executions')
    BY <2>3 DEF RecordsInv, AlertsKept, ExecutionsKept
  <2>5. RunExecutions(id) \subseteq RunExecutions(id)'
    BY <1>2, ExecutionsStay DEF RunExecutions
  <2>6. IsFiniteSet(RunExecutions(id)') /\ IsFiniteSet(RunAlerts(id)')
    BY <2>4, FS_Subset DEF RunExecutions, RunAlerts
  <2> QED
    BY <2>2, <2>5, <2>6, FS_Subset, FS_CardinalityType
<1> QED
  BY <1>1, <1>2

LEMMA RunDetailStep ==
  ASSUME IInv, RecordsInv, RunDetailInv, [Next]_vars
  PROVE  RunDetailInv'
<1> SUFFICES ASSUME page'.view = "run" PROVE RunDetailInv'
  BY DEF RunDetailInv
<1>0. /\ page.view = "run" /\ page'.subject = page.subject
      /\ hook.stage = "reading" => RunDetailRead
      /\ \A d \in hook.data : AlertsAddUp(d.rows) /\ ExecutionsAddUp(d.rows)
  BY StepsOfAnAnswer DEF RunDetailInv
<1> DEFINE id == page.subject
<1>1. CASE Drops
  BY <1>0, <1>1 DEF Drops, RunDetailInv, AlertsAddUp, ExecutionsAddUp
<1>2. CASE Begins
  <2>1. hook'.todo = <<"row", "alerts", "summary", "executions">>
    BY <1>0, <1>2 DEF Begins, ReadsOf, Views
  <2> QED
    BY <1>0, <1>2, <2>1 DEF Begins, RunDetailInv, RunDetailRead, AlertsAddUp, ExecutionsAddUp
<1>3. CASE ShowsAnswer
  <2>1. AlertsAddUp(hook.rows) /\ ExecutionsAddUp(hook.rows)
    BY <1>0, <1>3 DEF ShowsAnswer, RunDetailRead
  <2>2. \A d \in hook'.data : d.rows = hook.rows
    BY <1>3 DEF ShowsAnswer
  <2> QED
    BY <1>3, <2>1, <2>2 DEF ShowsAnswer, RunDetailInv, AlertsAddUp, ExecutionsAddUp
<1>4. CASE Reads
  <2> DEFINE name == Head(hook.todo)
             rows == hook.rows
  <2>1. /\ hook'.todo = Tail(hook.todo)
        /\ hook'.stage = "reading" /\ hook'.data = hook.data
        /\ name = "row" => Query(name) # NoRow
        /\ UNCHANGED <<page, executions, alerts>>
    BY <1>4 DEF Reads, records
  <2>2. RunDetailRead /\ hook.todo # <<>>
    BY <1>0, <1>4 DEF Reads
  <2>3. /\ DOMAIN hook'.rows = DOMAIN rows \cup {name} /\ hook'.rows[name] = Query(name)
        /\ \A part \in DOMAIN rows \ {name} : hook'.rows[part] = rows[part]
    BY <1>4, ReadsPlaceAPart
  <2>4. ASSUME hook.todo = <<"row", "alerts", "summary", "executions">>
        PROVE  RunDetailRead'
    <3>1. name = "row" /\ Query(name) = GetPipelineRun(id) /\ Query(name) # NoRow
      BY <1>0, <2>1, <2>4 DEF Query, Row
    <3>2. Query(name).activeAlerts = Cardinality(ActiveOf(RunAlerts(id)))
      BY <3>1 DEF GetPipelineRun
    <3>3. RowStands(hook'.rows)
      BY <2>3, <3>1, <3>2, RunCounts DEF RowStands
    <3>4. RowStands(hook.rows)' /\ hook'.todo = <<"alerts", "summary", "executions">>
      BY <2>1, <2>4, <3>3 DEF RowStands, RunAlerts
    <3> QED
      BY <3>4 DEF RunDetailRead
  <2>5. ASSUME hook.todo = <<"alerts", "summary", "executions">> /\ RowStands(rows)
        PROVE  RunDetailRead'
    <3>1. name = "alerts" /\ Query(name) = RunAlerts(id)
      BY <1>0, <2>5 DEF Query
    <3>2. AlertsAddUp(hook'.rows) /\ hook'.todo = <<"summary", "executions">>
      BY <2>1, <2>3, <2>5, <3>1 DEF RowStands, AlertsAddUp
    <3> QED
      BY <3>2 DEF RunDetailRead, AlertsAddUp
  <2>6. ASSUME hook.todo = <<"summary", "executions">> /\ AlertsAddUp(rows)
        PROVE  RunDetailRead'
    <3>1. name = "summary" /\ Query(name) = Summary(RunExecutions(id))
      BY <1>0, <2>6 DEF Query, Checked
    <3>2. AlertsAddUp(hook'.rows) /\ hook'.todo = <<"executions">>
      BY <2>1, <2>3, <2>6, <3>1 DEF AlertsAddUp
    <3>3. SummaryStands(hook'.rows)
      BY <2>3, <3>1, RunCounts DEF SummaryStands
    <3>4. SummaryStands(hook.rows)'
      BY <2>1, <3>3 DEF SummaryStands, RunExecutions
    <3> QED
      BY <3>2, <3>4 DEF RunDetailRead, AlertsAddUp
  <2>7. ASSUME hook.todo = <<"executions">> /\ AlertsAddUp(rows) /\ SummaryStands(rows)
        PROVE  RunDetailRead'
    <3>1. name = "executions" /\ Query(name) = RunExecutions(id)
      BY <1>0, <2>7 DEF Query
    <3>2. AlertsAddUp(hook'.rows) /\ ExecutionsAddUp(hook'.rows) /\ hook'.todo = <<>>
      BY <2>1, <2>3, <2>7, <3>1 DEF AlertsAddUp, SummaryStands, ExecutionsAddUp
    <3> QED
      BY <3>2 DEF RunDetailRead, AlertsAddUp, ExecutionsAddUp
  <2>8. RunDetailRead'
    BY <2>2, <2>4, <2>5, <2>6, <2>7 DEF RunDetailRead
  <2> QED
    BY <1>0, <2>1, <2>8 DEF RunDetailInv, AlertsAddUp, ExecutionsAddUp
<1>5. ASSUME Waits, UNCHANGED <<executions, alerts>> \/ \E kind \in WriteKinds : Written(kind)
      PROVE  RunDetailInv'
  <2>1. /\ hook'.stage = hook.stage /\ hook'.todo = hook.todo /\ hook'.rows = hook.rows
        /\ hook'.data = hook.data
    BY <1>5 DEF Waits
  <2> DEFINE n == Cardinality(RunAlerts(id))
             m == Cardinality(RunExecutions(id))
  <2>2. /\ n \in Nat /\ m \in Nat
        /\ n <= Cardinality(RunAlerts(page.subject))' /\ m <= Cardinality(RunExecutions(page.subject))'
        /\ Cardinality(RunAlerts(page.subject))' \in Nat
        /\ Cardinality(RunExecutions(page.subject))' \in Nat
    <3> HIDE DEF id
    <3>1. PICK c : c = id
      OBVIOUS
    <3>2. /\ Cardinality(RunAlerts(c)) <= Cardinality(RunAlerts(c)')
          /\ Cardinality(RunExecutions(c)) <= Cardinality(RunExecutions(c)')
          /\ Cardinality(RunAlerts(c)') \in Nat /\ Cardinality(RunExecutions(c)') \in Nat
          /\ Cardinality(RunAlerts(c)) \in Nat /\ Cardinality(RunExecutions(c)) \in Nat
      BY <1>5, RunCountsGrow, RunCounts
    <3>3. page.subject = c /\ page'.subject = c
      BY <1>0, <3>1 DEF id
    <3> QED
      BY <3>1, <3>2, <3>3 DEF RunAlerts, RunExecutions
  <2>3. RowStands(hook.rows) => RowStands(hook.rows)'
    BY <2>1, <2>2 DEF RowStands
  <2>4. SummaryStands(hook.rows) => SummaryStands(hook.rows)'
    BY <2>1, <2>2 DEF SummaryStands
  <2>5. RunDetailRead => RunDetailRead'
    BY <2>1, <2>3, <2>4 DEF RunDetailRead, AlertsAddUp, ExecutionsAddUp
  <2> QED
    BY <1>0, <2>1, <2>5 DEF RunDetailInv, AlertsAddUp, ExecutionsAddUp
<1>6. UNCHANGED records \/ TimePasses => UNCHANGED <<executions, alerts>>
  BY DEF records, TimePasses
<1> QED
  BY <1>1, <1>2, <1>3, <1>4, <1>5, <1>6, StepsOfAnAnswer

-----------------------------------------------------------------------------
(* The detail of a pipeline.                                               *)

\* A cut takes up to limit rows, after the first ones.
LEMMA CutLength ==
  ASSUME NEW S, NEW rows \in Seq(S), NEW from \in Nat, NEW limit \in Nat \ {0},
         NEW cut, cut = Cut(rows, from, limit)
  PROVE  /\ Len(rows) <= from => Len(cut) = 0
         /\ from < Len(rows) /\ Len(rows) < from + limit => Len(cut) = Len(rows) - from
         /\ from + limit <= Len(rows) => Len(cut) = limit
BY DEF Cut

LEMMA CutIsSeq ==
  ASSUME NEW S, NEW rows \in Seq(S), NEW from \in Nat, NEW limit \in Nat \ {0},
         NEW cut, cut = Cut(rows, from, limit)
  PROVE  cut \in Seq(S)
<1> DEFINE last == IF Len(rows) < from + limit THEN Len(rows) ELSE from + limit
<1>1. last \in 0..Len(rows) /\ Len(rows) \in Nat
  OBVIOUS
<1>2. cut = SubSeq(rows, from + 1, last)
  BY DEF Cut
<1> HIDE DEF last
<1>3. \A i \in (from + 1)..last : rows[i] \in S
  BY <1>1
<1> QED
  BY <1>1, <1>2, <1>3

LEMMA CutRows ==
  ASSUME NEW S, NEW rows \in Seq(S), NEW from \in Nat, NEW limit \in Nat \ {0},
         NEW cut, cut = Cut(rows, from, limit), NEW i \in 1..Len(cut)
  PROVE  cut[i] = rows[from + i]
BY DEF Cut

\* A run of the pipeline is among the recent ones, or they are all later.
LEMMA RecentAreLatest ==
  ASSUME RunsKept, NEW p, NEW r \in runs, r.pipeline = p
  PROVE  LET recent == RecentRuns(p)
         IN /\ recent \in Seq(runs)
            /\ \/ \E i \in 1..Len(recent) : recent[i] = r
               \/ Len(recent) = RecentLimit /\ \A i \in 1..Len(recent) : Later(recent[i], r)
<1> DEFINE own == {q \in runs : q.pipeline = p}
           sorted == InOrder(own, Later)
           recent == Cut(sorted, 0, RecentLimit)
<1>0. RecentRuns(p) = recent
  BY DEF RecentRuns
<1>1. own \in SUBSET runs /\ IsFiniteSet(own) /\ r \in own
  BY FS_Subset DEF RunsKept
<1>2. Sorts(sorted, own, Newer(own))
  BY <1>1, LaterSorts DEF RunsKept, RunRow
<1> HIDE DEF sorted
<1>3. PICK j \in 1..Len(sorted) : sorted[j] = r
  BY <1>1, <1>2 DEF Sorts
<1>4. sorted \in Seq(runs) /\ Len(sorted) \in Nat
  BY <1>1, <1>2 DEF Sorts
<1>5. /\ recent \in Seq(runs)
      /\ 0 < Len(sorted) /\ Len(sorted) < RecentLimit => Len(recent) = Len(sorted)
      /\ RecentLimit <= Len(sorted) => Len(recent) = RecentLimit
      /\ \A i \in 1..Len(recent) : recent[i] = sorted[i]
  <2>1. RecentLimit \in Nat \ {0}
    BY PagesAssumption
  <2>2. PICK first \in Nat : first = 0
    OBVIOUS
  <2>3. recent = Cut(sorted, first, RecentLimit)
    BY <2>2
  <2> HIDE DEF recent
  <2>4. recent \in Seq(runs)
    BY <1>4, <2>1, <2>3, CutIsSeq
  <2>5. /\ first < Len(sorted) /\ Len(sorted) < first + RecentLimit => Len(recent) = Len(sorted) - first
        /\ first + RecentLimit <= Len(sorted) => Len(recent) = RecentLimit
    BY <1>4, <2>1, <2>3, CutLength
  <2>6. \A i \in 1..Len(recent) : recent[i] = sorted[first + i]
    BY <1>4, <2>1, <2>3, CutRows
  <2>7. Len(recent) \in Nat
    BY <2>4
  <2> QED
    BY <1>4, <2>1, <2>2, <2>4, <2>5, <2>6, <2>7
<1> HIDE DEF recent
<1>6. CASE j <= RecentLimit
  <2>1. j \in 1..Len(recent)
    BY <1>3, <1>4, <1>5, <1>6, PagesAssumption
  <2> QED
    BY <1>0, <1>3, <1>5, <2>1
<1>7. CASE RecentLimit < j
  <2>1. Len(recent) = RecentLimit
    BY <1>3, <1>4, <1>5, <1>7, PagesAssumption
  <2>2. ASSUME NEW i \in 1..Len(recent) PROVE Later(recent[i], r)
    <3>1. i \in 1..Len(sorted) /\ i < j /\ recent[i] = sorted[i]
      BY <1>3, <1>4, <1>5, <1>7, <2>1, PagesAssumption
    <3>2. sorted[i] \in Newer(own)[sorted[j]]
      BY <1>2, <1>3, <3>1 DEF Sorts
    <3> QED
      BY <1>1, <1>3, <3>1, <3>2 DEF Newer
  <2> QED
    BY <1>0, <1>5, <2>1, <2>2
<1> QED
  BY <1>3, <1>4, <1>6, <1>7, PagesAssumption

\* The latest run of the row is a run of the pipeline, and once the recent
\* ones are read it is among them unless they are all later.
LatestStands(rows) ==
  /\ "row" \in DOMAIN rows
  /\ rows["row"].latest = NoRun \/ \E r \in runs : r.id = rows["row"].latest /\ r.pipeline = page.subject
LatestAmong(rows) ==
  /\ {"row", "recent"} \subseteq DOMAIN rows
  /\ \/ rows["row"].latest = NoRun
     \/ rows["row"].latest \in Ids(Range(rows["recent"]))
     \/ /\ Len(rows["recent"]) = RecentLimit
        /\ \E r \in runs : /\ r.id = rows["row"].latest
                           /\ \A i \in DOMAIN rows["recent"] : Later(rows["recent"][i], r)

PipelineDetailRead ==
  LET todo == hook.todo
      rows == hook.rows
  IN \/ todo = <<"row", "recent", "summary", "active">>
     \/ todo = <<"recent", "summary", "active">> /\ LatestStands(rows)
     \/ todo = <<"summary", "active">> /\ LatestAmong(rows)
     \/ todo = <<"active">> /\ LatestAmong(rows)
     \/ todo = <<>> /\ LatestAmong(rows)

PipelineDetailInv ==
  page.view = "pipeline" =>
    /\ hook.stage = "reading" => PipelineDetailRead
    /\ \A d \in hook.data : LatestAmong(d.rows)

\* Writes leave the runs that a detail refers to.
LEMMA LatestOutlasts ==
  ASSUME RecordsInv, NEW rows, UNCHANGED <<runs>> \/ \E kind \in WriteKinds : Written(kind),
         UNCHANGED page
  PROVE  /\ LatestStands(rows) => LatestStands(rows)'
         /\ LatestAmong(rows) => LatestAmong(rows)'
<1>1. \A r \in runs : \E q \in runs' : SameRun(q, r)
  BY RunsStay DEF SameRun
<1>2. LatestStands(rows) => LatestStands(rows)'
  BY <1>1 DEF LatestStands, SameRun
<1>3. LatestAmong(rows) => LatestAmong(rows)'
  BY <1>1 DEF LatestAmong, SameRun, Later
<1> QED
  BY <1>2, <1>3

LEMMA PipelineDetailStep ==
  ASSUME IInv, RecordsInv, PipelineDetailInv, [Next]_vars
  PROVE  PipelineDetailInv'
<1> SUFFICES ASSUME page'.view = "pipeline" PROVE PipelineDetailInv'
  BY DEF PipelineDetailInv
<1>0. /\ page.view = "pipeline" /\ page'.subject = page.subject
      /\ hook.stage = "reading" => PipelineDetailRead
      /\ \A d \in hook.data : LatestAmong(d.rows)
  BY StepsOfAnAnswer DEF PipelineDetailInv
<1> DEFINE p == page.subject
<1>1. CASE Drops
  BY <1>0, <1>1 DEF Drops, PipelineDetailInv, LatestAmong, records
<1>2. CASE Begins
  <2>1. hook'.todo = <<"row", "recent", "summary", "active">>
    BY <1>0, <1>2 DEF Begins, ReadsOf, Views
  <2> QED
    BY <1>0, <1>2, <2>1 DEF Begins, PipelineDetailInv, PipelineDetailRead, LatestAmong, records
<1>3. CASE ShowsAnswer
  <2>1. LatestAmong(hook.rows)
    BY <1>0, <1>3 DEF ShowsAnswer, PipelineDetailRead
  <2>2. \A d \in hook'.data : d.rows = hook.rows
    BY <1>3 DEF ShowsAnswer
  <2> QED
    BY <1>3, <2>1, <2>2 DEF ShowsAnswer, PipelineDetailInv, LatestAmong, records
<1>4. CASE Reads
  <2> DEFINE name == Head(hook.todo)
             rows == hook.rows
  <2>1. /\ hook'.todo = Tail(hook.todo)
        /\ hook'.stage = "reading" /\ hook'.data = hook.data
        /\ UNCHANGED <<page, runs>>
    BY <1>4 DEF Reads, records
  <2>2. PipelineDetailRead /\ hook.todo # <<>>
    BY <1>0, <1>4 DEF Reads
  <2>3. /\ DOMAIN hook'.rows = DOMAIN rows \cup {name} /\ hook'.rows[name] = Query(name)
        /\ \A part \in DOMAIN rows \ {name} : hook'.rows[part] = rows[part]
    BY <1>4, ReadsPlaceAPart
  <2>4. ASSUME hook.todo = <<"row", "recent", "summary", "active">>
        PROVE  PipelineDetailRead'
    <3>1. name = "row" /\ Query(name) = GetPipeline(p) /\ Query(name) # NoRow
      BY <1>0, <1>4, <2>4 DEF Query, Row, Reads
    <3>2. Query(name).latest = LatestRun(p).id
      BY <3>1 DEF GetPipeline
    <3>3. LatestRun(p).id = NoRun \/ \E r \in runs : r.id = LatestRun(p).id /\ r.pipeline = p
      <4> DEFINE own == {r \in runs : r.pipeline = p}
      <4>1. CASE own = {}
        BY <4>1 DEF LatestRun
      <4>2. CASE own # {}
        BY <4>2, LatestIsLatest DEF RecordsInv
      <4> QED
        BY <4>1, <4>2
    <3>4. LatestStands(hook.rows)' /\ hook'.todo = <<"recent", "summary", "active">>
      BY <2>1, <2>3, <2>4, <3>1, <3>2, <3>3 DEF LatestStands
    <3> QED
      BY <3>4 DEF PipelineDetailRead
  <2>5. ASSUME hook.todo = <<"recent", "summary", "active">>, LatestStands(rows)
        PROVE  PipelineDetailRead'
    <3> DEFINE recent == RecentRuns(p)
               latest == rows["row"].latest
    <3>1. name = "recent" /\ Query(name) = recent
      BY <1>0, <2>5 DEF Query
    <3>2. \/ latest = NoRun
          \/ latest \in Ids(Range(recent))
          \/ /\ Len(recent) = RecentLimit
             /\ \E r \in runs : r.id = latest /\ \A i \in DOMAIN recent : Later(recent[i], r)
      <4>1. CASE latest = NoRun
        BY <4>1
      <4>2. CASE latest # NoRun
        <5>1. PICK r \in runs : r.id = latest /\ r.pipeline = p
          BY <2>5, <4>2 DEF LatestStands
        <5>2. /\ recent \in Seq(runs)
              /\ \/ \E i \in 1..Len(recent) : recent[i] = r
                 \/ Len(recent) = RecentLimit /\ \A i \in 1..Len(recent) : Later(recent[i], r)
          BY <5>1, RecentAreLatest DEF RecordsInv
        <5> HIDE DEF recent
        <5>3. DOMAIN recent = 1..Len(recent)
          BY <5>2
        <5> QED
          BY <5>1, <5>2, <5>3 DEF Ids, Range
      <4> QED
        BY <4>1, <4>2
    <3>3. LatestAmong(hook.rows)' /\ hook'.todo = <<"summary", "active">>
      BY <2>1, <2>3, <2>5, <3>1, <3>2 DEF LatestStands, LatestAmong
    <3> QED
      BY <3>3 DEF PipelineDetailRead
  <2>6. ASSUME hook.todo \in {<<"summary", "active">>, <<"active">>}, LatestAmong(rows)
        PROVE  PipelineDetailRead'
    <3>1. name \in {"summary", "active"} /\ hook'.todo \in {<<"active">>, <<>>}
      <4>1. CASE hook.todo = <<"summary", "active">>
        BY <2>1, <4>1
      <4>2. CASE hook.todo = <<"active">>
        BY <2>1, <4>2
      <4> QED
        BY <2>6, <4>1, <4>2
    <3>2. LatestAmong(hook.rows)'
      BY <2>1, <2>3, <2>6, <3>1 DEF LatestAmong
    <3> QED
      BY <3>1, <3>2 DEF PipelineDetailRead
  <2>7. PipelineDetailRead'
    BY <2>2, <2>4, <2>5, <2>6 DEF PipelineDetailRead
  <2> QED
    BY <1>0, <2>1, <2>7 DEF PipelineDetailInv, LatestAmong
<1>5. ASSUME Waits, UNCHANGED <<runs>> \/ \E kind \in WriteKinds : Written(kind)
      PROVE  PipelineDetailInv'
  <2>1. /\ hook'.stage = hook.stage /\ hook'.todo = hook.todo /\ hook'.rows = hook.rows
        /\ hook'.data = hook.data /\ UNCHANGED page
    BY <1>5 DEF Waits
  <2>2. \A rows : (LatestStands(rows) => LatestStands(rows)') /\ (LatestAmong(rows) => LatestAmong(rows)')
    BY <1>5, <2>1, LatestOutlasts
  <2>3. LatestStands(hook.rows) => LatestStands(hook.rows)'
    BY <2>1, <2>2 DEF LatestStands
  <2>4. LatestAmong(hook.rows) => LatestAmong(hook.rows)'
    BY <2>1, <2>2 DEF LatestAmong
  <2>5. PipelineDetailRead => PipelineDetailRead'
    BY <2>1, <2>3, <2>4 DEF PipelineDetailRead
  <2> QED
    BY <1>0, <2>1, <2>2, <2>5 DEF PipelineDetailInv
<1>6. UNCHANGED records \/ TimePasses => UNCHANGED <<runs>>
  BY DEF records, TimePasses
<1> QED
  BY <1>1, <1>2, <1>3, <1>4, <1>5, <1>6, StepsOfAnAnswer

-----------------------------------------------------------------------------
(* The pages of the list of runs.                                          *)

\* How many runs of the list come before r.
Ahead(filter, r) == Cardinality({q \in RunRows(filter) : Later(q, r)})

\* What the reader has still to see lies behind the first n runs.
Beyond(n) ==
  \A id \in reader.expected \ reader.seen :
    \E r \in RunRows(page.filter) : r.id = id /\ n <= Ahead(page.filter, r)
AllSeen == reader.expected \subseteq reader.seen

\* Unless something was written since the count, the count and the rows of a
\* page are those of the list as it is.
PageRead ==
  LET todo == hook.todo
      rows == hook.rows
      counted == hook.writes = 0 => rows["count"] = Cardinality(RunRows(page.filter))
  IN \/ todo = <<"count", "rows">>
     \/ todo = <<"rows">> /\ "count" \in DOMAIN rows /\ counted
     \/ /\ todo = <<>> /\ {"count", "rows"} \subseteq DOMAIN rows /\ counted
        /\ hook.writes = 0 => rows["rows"] = PageOf("runs", page.filter, page.offset)

\* A page that is the last one leaves nothing to see, any other only what
\* lies behind it.
PageShown(rows) ==
  /\ rows["count"] \in Nat /\ Len(rows["rows"]) \in Nat
  /\ Len(rows["rows"]) = 0 \/ rows["count"] <= page.offset + Len(rows["rows"]) => AllSeen
  /\ Len(rows["rows"]) # 0 /\ page.offset + Len(rows["rows"]) < rows["count"]
       => Beyond(page.offset + PageSize)

ReaderType ==
  /\ reader \in [expected : {reader.expected}, seen : {reader.seen}, whole : BOOLEAN]
  /\ page.offset \in Nat
  /\ page.login => ~reader.whole
  /\ hook.writes \in {0, 1}

PagesInv ==
  page.view = "runs" /\ ~page.filter.narrow =>
    /\ hook.stage = "reading" => PageRead
    /\ reader.whole => Beyond(page.offset)
    /\ reader.whole /\ hook.stage = "settled" => \A d \in hook.data : PageShown(d.rows)

LEMMA RunRowsKept ==
  ASSUME RunsKept, NEW filter
  PROVE  /\ RunRows(filter) \in SUBSET runs /\ IsFiniteSet(RunRows(filter))
         /\ Cardinality(RunRows(filter)) \in Nat
         /\ \A r \in RunRows(filter) : Ahead(filter, r) \in Nat
<1>1. RunRows(filter) \in SUBSET runs /\ IsFiniteSet(RunRows(filter))
  BY FS_Subset DEF RunsKept, RunRows
<1>2. ASSUME NEW r \in RunRows(filter) PROVE Ahead(filter, r) \in Nat
  <2>1. {q \in RunRows(filter) : Later(q, r)} \subseteq RunRows(filter)
    OBVIOUS
  <2> QED
    BY <1>1, <2>1, FS_Subset, FS_CardinalityType DEF Ahead
<1> QED
  BY <1>1, <1>2, FS_CardinalityType

\* A run that a full page does not reach.
Follows(filter, offset, rows, r) ==
  /\ Len(rows) = PageSize /\ offset + PageSize <= Ahead(filter, r)
  /\ offset + PageSize < Cardinality(RunRows(filter))

\* A page takes the runs from its offset on; what it does not reach has a
\* full page more before it.
LEMMA PageTakes ==
  ASSUME RunsKept, NEW filter, NEW offset \in Nat, NEW rows, rows = PageOf("runs", filter, offset)
  PROVE  /\ rows \in Seq(RunRows(filter))
         /\ \A r \in RunRows(filter) :
              Ahead(filter, r) < offset \/ (\E i \in 1..Len(rows) : rows[i] = r) \/ Follows(filter, offset, rows, r)
<1> DEFINE own == RunRows(filter)
           sorted == InOrder(own, Later)
<1>1. own \in SUBSET runs /\ IsFiniteSet(own)
  BY RunRowsKept
<1>2. Sorts(sorted, own, Newer(own))
  BY <1>1, LaterSorts DEF RunsKept, RunRow
<1>3. rows = Cut(sorted, offset, PageSize)
  BY DEF PageOf, Listed, Lists
<1> HIDE DEF sorted
<1>4. sorted \in Seq(own) /\ Len(sorted) \in Nat /\ PageSize \in Nat \ {0}
  BY <1>2, PagesAssumption DEF Sorts
<1>5. rows \in Seq(own)
  BY <1>3, <1>4, CutIsSeq
<1>6. /\ Len(sorted) <= offset => Len(rows) = 0
      /\ offset < Len(sorted) /\ Len(sorted) < offset + PageSize => Len(rows) = Len(sorted) - offset
      /\ offset + PageSize <= Len(sorted) => Len(rows) = PageSize
  BY <1>3, <1>4, CutLength
<1>7. \A i \in 1..Len(rows) : rows[i] = sorted[offset + i]
  BY <1>3, <1>4, CutRows
<1>8. ASSUME NEW r \in own, offset <= Ahead(filter, r), ~\E i \in 1..Len(rows) : rows[i] = r
      PROVE  /\ Len(rows) = PageSize /\ offset + PageSize <= Ahead(filter, r)
             /\ offset + PageSize < Cardinality(own)
  <2>1. PICK j \in 1..Len(sorted) : sorted[j] = r
    BY <1>2 DEF Sorts
  <2>2. Ahead(filter, r) = j - 1
    BY <1>2, <2>1 DEF Sorts, Newer, Ahead
  <2>3. offset < j
    BY <1>4, <1>8, <2>2
  <2>4. Len(rows) \in Nat
    BY <1>5
  <2>5. ~(j - offset \in 1..Len(rows))
    <3>1. j - offset \in 1..Len(rows) => rows[j - offset] = sorted[offset + (j - offset)]
      BY <1>7
    <3>2. offset + (j - offset) = j
      BY <1>4
    <3> QED
      BY <1>8, <2>1, <3>1, <3>2
  <2>6. offset + Len(rows) < j
    BY <1>4, <2>3, <2>4, <2>5
  <2>7. offset + PageSize <= Len(sorted)
    BY <1>4, <1>6, <2>3, <2>4, <2>6
  <2>8. Len(rows) = PageSize
    BY <1>6, <2>7
  <2>9. Len(sorted) = Cardinality(own)
    BY <1>2 DEF Sorts
  <2> QED
    BY <1>4, <2>1, <2>2, <2>6, <2>8, <2>9
<1>9. \A r \in own : Ahead(filter, r) \in Nat
  BY RunRowsKept
<1> QED
  BY <1>5, <1>8, <1>9 DEF Follows

\* Whatever is written, a run of the list keeps as many runs before it.
LEMMA AheadGrows ==
  ASSUME RecordsInv, NEW kind, Written(kind), NEW filter, ~filter.narrow, NEW r \in RunRows(filter)
  PROVE  \E q \in RunRows(filter)' : /\ q.id = r.id /\ Ahead(filter, q)' \in Nat
                                     /\ Ahead(filter, r) <= Ahead(filter, q)'
<1> DEFINE front == {q \in RunRows(filter) : Later(q, r)}
<1>0. RunsKept /\ RunsKept'
  BY WritesKeepRecords DEF RecordsInv
<1>1. IsFiniteSet(front) /\ Cardinality(front) \in Nat
  BY <1>0, RunRowsKept, FS_Subset, FS_CardinalityType
<1>2. CASE runs \subseteq runs'
  <2> DEFINE new == {q \in RunRows(filter)' : Later(q, r)}
  <2>1. RunRows(filter) \subseteq RunRows(filter)' /\ IsFiniteSet(runs')
    BY <1>0, <1>2 DEF RunRows, PassesIf, RunsKept
  <2>2. front \subseteq new /\ new \subseteq runs'
    BY <2>1 DEF RunRows
  <2>3. Cardinality(front) <= Cardinality(new) /\ Cardinality(new) \in Nat
    BY <2>1, <2>2, FS_Subset, FS_CardinalityType
  <2> QED
    BY <2>1, <2>3 DEF Ahead
<1>3. ASSUME NEW f \in runs, NEW status, FinishRun(f, status)
      PROVE  \E q \in RunRows(filter)' : /\ q.id = r.id /\ Ahead(filter, q)' \in Nat
                                         /\ Ahead(filter, r) <= Ahead(filter, q)'
  <2> DEFINE row == [f EXCEPT !.status = status]
  <2>1. SameRun(row, f)
    BY <1>0 DEF SameRun, RunsKept, RunRow
  <2>2. runs' = (runs \ {f}) \cup {row}
    BY <1>3 DEF FinishRun
  <2> HIDE DEF row
  <2>3. PICK q : q = IF r = f THEN row ELSE r
    OBVIOUS
  <2>4. SameRun(q, r) /\ q \in RunRows(filter)'
    BY <2>1, <2>2, <2>3 DEF SameRun, RunRows, PassesIf, Concerns
  <2> DEFINE new == {x \in RunRows(filter)' : Later(x, q)}
  <2>5. Cardinality(new) = Cardinality(front)
    <3>1. CASE f \in front
      <4>1. new = (front \ {f}) \cup {row}
        BY <2>1, <2>2, <2>4, <3>1 DEF SameRun, RunRows, PassesIf, Concerns, Later
      <4>2. row \notin front \ {f}
        BY <1>0, <2>1 DEF SameRun, RunsKept, RunRows
      <4>3. Cardinality((front \ {f}) \cup {row}) = Cardinality(front)
        BY <1>1, <3>1, <4>2, RowReplaced
      <4> QED
        BY <4>1, <4>3, Zenon
    <3>2. CASE f \notin front
      <4>1. new = front
        BY <2>1, <2>2, <2>4, <3>2 DEF SameRun, RunRows, PassesIf, Concerns, Later
      <4> QED
        BY <4>1, Zenon
    <3> QED
      BY <3>1, <3>2
  <2>6. Ahead(filter, r) = Cardinality(front) /\ Ahead(filter, q)' = Cardinality(new)
    BY DEF Ahead
  <2> HIDE DEF front, new
  <2>7. Ahead(filter, r) <= Ahead(filter, q)' /\ Ahead(filter, q)' \in Nat
    BY <1>1, <2>5, <2>6
  <2> QED
    BY <2>4, <2>7 DEF SameRun
<1>4. runs \subseteq runs' \/ \E f \in runs, status \in {"SUCCESS", "FAILED"} : FinishRun(f, status)
  BY DEF Written, StartRun, Evaluate, RaiseAlert, ResolveAlert, ChangeSource, RegisterPipeline,
         SwitchPipeline
<1> QED
  BY <1>2, <1>3, <1>4

LEMMA BeyondStays ==
  ASSUME RecordsInv, ~page.filter.narrow, UNCHANGED <<page, reader>>, NEW n \in Nat, Beyond(n),
         UNCHANGED <<runs>> \/ \E kind \in WriteKinds : Written(kind)
  PROVE  Beyond(n)'
<1>1. CASE UNCHANGED <<runs>>
  BY <1>1 DEF Beyond, RunRows, Ahead
<1>2. CASE \E kind \in WriteKinds : Written(kind)
  <2>1. PICK kind : Written(kind)
    BY <1>2
  <2>2. PICK filter : filter = page.filter
    OBVIOUS
  <2>3. RunsKept
    BY DEF RecordsInv
  <2>4. ASSUME NEW id \in reader.expected \ reader.seen
        PROVE  \E q \in RunRows(filter)' : q.id = id /\ n <= Ahead(filter, q)'
    <3>1. PICK r \in RunRows(filter) : r.id = id /\ n <= Ahead(filter, r)
      BY <2>2 DEF Beyond
    <3>2. PICK q \in RunRows(filter)' : /\ q.id = r.id /\ Ahead(filter, q)' \in Nat
                                        /\ Ahead(filter, r) <= Ahead(filter, q)'
      BY <2>1, <2>2, AheadGrows
    <3>3. Ahead(filter, r) \in Nat
      BY <2>3, RunRowsKept
    <3> QED
      BY <3>1, <3>2, <3>3
  <2>5. RunRows(page.filter)' = RunRows(filter)'
    BY <2>2 DEF RunRows
  <2>6. \A q : Ahead(page.filter, q)' = Ahead(filter, q)'
    BY <2>2, <2>5 DEF Ahead
  <2> QED
    BY <2>4, <2>5, <2>6 DEF Beyond
<1> QED
  BY <1>1, <1>2

\* An earlier page leaves less behind it.
LEMMA BeyondEarlier ==
  ASSUME RunsKept, NEW n \in Nat, NEW m \in Nat, m <= n, Beyond(n)
  PROVE  Beyond(m)
<1> SUFFICES ASSUME NEW id \in reader.expected \ reader.seen
             PROVE  \E r \in RunRows(page.filter) : r.id = id /\ m <= Ahead(page.filter, r)
  BY DEF Beyond
<1>1. PICK r \in RunRows(page.filter) : r.id = id /\ n <= Ahead(page.filter, r)
  BY DEF Beyond
<1>2. Ahead(page.filter, r) \in Nat
  BY RunRowsKept
<1> QED
  BY <1>1, <1>2

\* A page read whole shows the reader all of the list up to its end.
LEMMA PageIsSeen ==
  ASSUME RunsKept, ReaderType, Beyond(page.offset), NEW rows,
         rows["count"] = Cardinality(RunRows(page.filter)),
         rows["rows"] = PageOf("runs", page.filter, page.offset),
         UNCHANGED <<page, runs>>, reader'.expected = reader.expected,
         reader'.seen = reader.seen \cup Ids(Range(rows["rows"]))
  PROVE  Beyond(page.offset)' /\ PageShown(rows)'
<1> DEFINE own == RunRows(page.filter)
           offset == page.offset
<1>1. offset \in Nat /\ PageSize \in Nat \ {0}
  BY PagesAssumption DEF ReaderType
<1>2. PICK list : list = rows["rows"]
  OBVIOUS
<1>3. PICK filter : filter = page.filter
  OBVIOUS
<1>4. list = PageOf("runs", filter, offset)
  BY <1>2, <1>3
<1>5. /\ list \in Seq(RunRows(filter))
      /\ \A r \in RunRows(filter) :
           Ahead(filter, r) < offset \/ (\E i \in 1..Len(list) : list[i] = r) \/ Follows(filter, offset, list, r)
  BY <1>1, <1>4, PageTakes
<1>6. Len(list) \in Nat /\ DOMAIN list = 1..Len(list)
  BY <1>5
<1>7. ASSUME NEW id \in reader'.expected \ reader'.seen
      PROVE  /\ Len(list) = PageSize /\ offset + PageSize < Cardinality(own)
             /\ \E r \in own : r.id = id /\ offset <= Ahead(page.filter, r)
                                         /\ offset + PageSize <= Ahead(page.filter, r)
  <2>1. id \in reader.expected \ reader.seen /\ id \notin Ids(Range(list))
    BY <1>2
  <2>2. PICK r \in own : r.id = id /\ offset <= Ahead(page.filter, r)
    BY <2>1 DEF Beyond
  <2>3. ~\E i \in 1..Len(list) : list[i] = r
    BY <1>6, <2>1, <2>2 DEF Ids, Range
  <2> QED
    BY <1>1, <1>3, <1>5, <2>2, <2>3, RunRowsKept DEF Follows
<1>8. own' = own /\ \A r : Ahead(page.filter, r)' = Ahead(page.filter, r)
  BY DEF RunRows, Ahead
<1>9. Beyond(page.offset)' /\ Beyond(page.offset + PageSize)'
  BY <1>7, <1>8 DEF Beyond
<1>10. Cardinality(own) \in Nat
  BY RunRowsKept
<1>11. AllSeen' \/ (Len(list) = PageSize /\ offset + PageSize < Cardinality(own))
  BY <1>7 DEF AllSeen
<1> HIDE DEF own, offset
<1>12. rows["count"] = Cardinality(own) /\ page'.offset = offset /\ page.offset = offset
  BY DEF own, offset
<1> QED
  BY <1>1, <1>2, <1>6, <1>9, <1>10, <1>11, <1>12 DEF PageShown

\* The reader's page is asked for again or given up, and nothing is written.
LEMMA PageAsked ==
  ASSUME IInv, RecordsInv, ReaderType, PagesInv, UNCHANGED records,
         page'.view = page.view, page'.offset \in Nat, page'.login => ~reader'.whole,
         hook'.writes \in {0, 1}, hook'.stage # "reading", hook'.stage = "settled" => hook'.data = {},
         reader' \in [expected : {reader.expected}, seen : {reader.seen}, whole : BOOLEAN],
         reader'.whole => /\ reader.whole /\ page'.filter = page.filter
                          /\ page.view = "runs" /\ ~page.filter.narrow =>
                               \E n \in Nat : page'.offset <= n /\ Beyond(n)
  PROVE  ReaderType' /\ PagesInv'
<1>1. ReaderType'
  BY DEF ReaderType
<1>2. ASSUME page'.view = "runs", ~page'.filter.narrow, reader'.whole
      PROVE  Beyond(page.offset)'
  <2>1. PICK n \in Nat : page'.offset <= n /\ Beyond(n)
    BY <1>2
  <2>2. PICK m \in Nat : m = page'.offset
    OBVIOUS
  <2>3. Beyond(m)
    BY <2>1, <2>2, BeyondEarlier DEF RecordsInv
  <2>4. page'.filter = page.filter /\ runs' = runs
        /\ reader'.expected = reader.expected /\ reader'.seen = reader.seen
    BY <1>2 DEF records
  <2> QED
    BY <2>2, <2>3, <2>4 DEF Beyond, RunRows, Ahead
<1>3. PagesInv'
  BY <1>2 DEF PagesInv
<1> QED
  BY <1>1, <1>3

LEMMA PagesUntouched ==
  ASSUME ReaderType, PagesInv, UNCHANGED <<runs, page, reader, hook>>
  PROVE  ReaderType' /\ PagesInv'
BY DEF ReaderType, PagesInv, PageRead, PageShown, Beyond, AllSeen, RunRows, Ahead,
       PageOf, Listed, InOrder

LEMMA PagesStep ==
  ASSUME IInv, RecordsInv, ReaderType, PagesInv, [Next]_vars
  PROVE  ReaderType' /\ PagesInv'
<1>0. HookType /\ PageType /\ (hook.todo # <<>> => hook.stage = "reading") /\ RunsKept
  BY DEF IInv, QueriesBelong, RecordsInv
<1>1. CASE TimerFires
  <2>1. /\ UNCHANGED <<records, page, reader>> /\ hook'.stage = "reading"
        /\ hook'.todo = ReadsOf[page.view] /\ hook'.writes = hook.writes
    BY <1>0, <1>1 DEF TimerFires, HookType
  <2>2. ReaderType'
    BY <2>1 DEF ReaderType
  <2>3. page.view = "runs" => hook'.todo = <<"count", "rows">>
    BY <2>1 DEF ReadsOf, Views, Lists
  <2>4. page.view = "runs" => PageRead'
    BY <2>3 DEF PageRead
  <2>5. Beyond(page.offset) => Beyond(page.offset)'
    BY <2>1 DEF Beyond, RunRows, Ahead, records
  <2> QED
    BY <2>1, <2>2, <2>4, <2>5 DEF PagesInv
<1>2. CASE Read
  <2> DEFINE name == Head(hook.todo)
             rows == hook.rows
             own == RunRows(page.filter)
  <2>1. Reads
    <3>1. hook' = [hook EXCEPT !.todo = Tail(@), !.rows = WithPart(@, name, Query(name))]
      BY <1>2 DEF Read
    <3> QED
      BY <1>0, <1>2, <3>1 DEF Read, Reads, HookType
  <2>2. /\ hook'.todo = Tail(hook.todo) /\ hook'.stage = "reading" /\ hook'.writes = hook.writes
        /\ UNCHANGED <<runs, page>> /\ hook.stage = "reading" /\ hook.todo # <<>>
        /\ reader' = Counted(name)
    BY <1>0, <1>2, <2>1 DEF Reads, Read, HookType, records
  <2>3. /\ DOMAIN hook'.rows = DOMAIN rows \cup {name} /\ hook'.rows[name] = Query(name)
        /\ \A part \in DOMAIN rows \ {name} : hook'.rows[part] = rows[part]
    BY <2>1, ReadsPlaceAPart
  <2>4. ReaderType'
    BY <2>2 DEF ReaderType, Counted, IInv, LoginIsIdle
  <2>5. own' = own /\ \A n : Beyond(n)' = (\A id \in reader'.expected \ reader'.seen :
                                \E r \in own : r.id = id /\ n <= Ahead(page.filter, r))
    BY <2>2 DEF Beyond, RunRows, Ahead
  <2>6. ASSUME page.view = "runs", ~page.filter.narrow
        PROVE  PageRead' /\ (reader'.whole => Beyond(page.offset)')
    <3>0. PageRead
      BY <2>2, <2>6 DEF PagesInv
    <3>1. CASE hook.todo = <<"count", "rows">>
      <4>1. name = "count" /\ hook'.todo = <<"rows">> /\ Query(name) = Cardinality(own)
        BY <2>2, <2>6, <3>1 DEF Query, RowsOf
      <4>2. PageRead'
        BY <2>2, <2>3, <2>5, <4>1 DEF PageRead
      <4>3. CASE page.offset = 0
        <5>1. reader'.expected = Ids(own)
          BY <2>2, <2>6, <4>1, <4>3 DEF Counted
        <5>2. \A r \in own : 0 <= Ahead(page.filter, r)
          BY <1>0, RunRowsKept
        <5> QED
          BY <2>2, <2>5, <4>2, <4>3, <5>1, <5>2 DEF Ids
      <4>4. CASE page.offset # 0
        BY <2>2, <2>5, <2>6, <4>2, <4>4 DEF Counted, PagesInv, Beyond
      <4> QED
        BY <4>3, <4>4
    <3>2. CASE hook.todo = <<"rows">>
      <4>1. name = "rows" /\ hook'.todo = <<>> /\ reader' = reader
            /\ Query(name) = PageOf("runs", page.filter, page.offset)
        BY <2>2, <2>6, <3>2 DEF Query, Counted
      <4>2. PageOf("runs", page.filter, page.offset)' = PageOf("runs", page.filter, page.offset)
        BY <2>2 DEF PageOf, Listed, RunRows, InOrder
      <4>3. "count" \in DOMAIN rows /\ (hook.writes = 0 => rows["count"] = Cardinality(own))
        BY <3>0, <3>2 DEF PageRead
      <4>4. hook'.rows["count"] = rows["count"]
        BY <2>3, <4>1, <4>3
      <4>5. PageRead'
        BY <2>2, <2>3, <2>5, <4>1, <4>2, <4>3, <4>4 DEF PageRead
      <4> QED
        BY <2>2, <2>5, <2>6, <4>1, <4>5 DEF PagesInv, Beyond
    <3>3. hook.todo = <<"count", "rows">> \/ hook.todo = <<"rows">>
      BY <2>2, <3>0 DEF PageRead
    <3> QED
      BY <3>1, <3>2, <3>3
  <2> QED
    BY <2>2, <2>4, <2>6 DEF PagesInv
<1>3. CASE NotFound
  <2>1. hook'.stage = "settled" /\ hook'.data = {} /\ hook'.writes = 0
    BY <1>0, <1>3 DEF NotFound, Settle, IsCurrent, HookType, Failures
  <2>2. UNCHANGED <<records, page, reader>>
    BY <1>3 DEF NotFound
  <2> QED
    BY <2>1, <2>2, PageAsked DEF ReaderType, PagesInv
<1>4. CASE Answer
  <2> DEFINE answer == [asked |-> Asked, rows |-> hook.rows]
  <2>1. /\ hook' = Settle(hook.number, answer, "data") /\ hook.stage = "reading" /\ hook.todo = <<>>
        /\ UNCHANGED <<records, page>>
    BY <1>4 DEF Answer
  <2>2. hook'.stage = "settled" /\ hook'.data = {answer} /\ hook'.writes = 0
    BY <1>0, <2>1 DEF Settle, IsCurrent, HookType
  <2>3. ReaderType' /\ (page.view = "runs" =>
          /\ reader'.whole = (reader.whole /\ hook.writes = 0) /\ reader'.expected = reader.expected
          /\ reader'.seen = reader.seen \cup Ids(Range(hook.rows["rows"])))
    BY <1>4, <2>1, <2>2 DEF Answer, ReaderType
  <2>4. ASSUME page.view = "runs", ~page.filter.narrow, reader'.whole
        PROVE  Beyond(page.offset)' /\ \A d \in hook'.data : PageShown(d.rows)'
    <3>1. PageRead /\ hook.writes = 0 /\ reader.whole
      BY <2>1, <2>3, <2>4 DEF PagesInv
    <3>2. /\ hook.rows["count"] = Cardinality(RunRows(page.filter))
          /\ hook.rows["rows"] = PageOf("runs", page.filter, page.offset)
      BY <2>1, <3>1 DEF PageRead
    <3>3. Beyond(page.offset) /\ UNCHANGED <<page, runs>>
      BY <2>1, <2>4, <3>1 DEF PagesInv, records
    <3>4. PICK rows : rows = hook.rows
      OBVIOUS
    <3>5. Beyond(page.offset)' /\ PageShown(rows)'
      BY <1>0, <2>3, <2>4, <3>2, <3>3, <3>4, PageIsSeen
    <3>6. \A d \in hook'.data : d.rows = rows
      BY <2>2, <3>4
    <3> QED
      BY <3>5, <3>6
  <2> QED
    BY <2>1, <2>2, <2>3, <2>4 DEF PagesInv
<1>6. CASE Late
  <2>1. PICK request \in late, outcome \in {"data", "cancelled", "retryable"} :
          LateAnswer(request, outcome)
    BY <1>6 DEF Late
  <2>2. hook' = hook
    BY <1>0, <2>1, OldSettlesNothing DEF LateAnswer, IInv, LateIsOlder
  <2>3. UNCHANGED <<runs, page, reader, hook>>
    BY <2>1, <2>2 DEF LateAnswer, records
  <2> QED
    BY <2>3, PagesUntouched
<1>5. CASE Fail
  <2>1. hook'.stage = "settled" /\ hook'.data = {} /\ hook'.writes = 0
    BY <1>0, <1>5 DEF Fail, Settle, IsCurrent, HookType, Failures
  <2>2. UNCHANGED <<records, page, reader>>
    BY <1>5 DEF Fail
  <2> QED
    BY <2>1, <2>2, PageAsked DEF ReaderType, PagesInv
<1>7. CASE Unauthorized
  <2>1. hook'.stage = "debounce" /\ hook'.writes = 0 /\ reader' = FreshReader
    BY <1>7 DEF Unauthorized, FreshHook
  <2>2. ~reader'.whole /\ page'.view = page.view /\ page'.offset = page.offset
    BY <1>0, <1>7, <2>1 DEF Unauthorized, FreshReader, PageType
  <2>3. ReaderType'
    BY <2>1, <2>2 DEF ReaderType, FreshReader
  <2> QED
    BY <2>1, <2>2, <2>3 DEF PagesInv
<1>8. CASE SignIn
  <2>1. /\ UNCHANGED <<records, hook, reader>> /\ hook.stage = "debounce" /\ ~reader.whole
        /\ page'.view = page.view /\ page'.offset = 0 /\ ~page'.login
    BY <1>8 DEF SignIn, FreshPage, IInv, LoginIsIdle, ReaderType
  <2> QED
    BY <2>1 DEF ReaderType, PagesInv
<1>9. CASE User
  <2>1. Request /\ UNCHANGED records
    BY <1>9 DEF User, ChangeFilter, NextPage, PreviousPage, Retry
  <2>2. hook'.stage = "debounce" /\ hook'.writes = 0
    BY <1>0, <2>1 DEF Request, HookType
  <2>3. CASE \E filter \in Filters : ChangeFilter(filter)
    <3>1. /\ page'.view = page.view /\ page'.offset = 0 /\ ~reader'.whole
          /\ reader' \in [expected : {reader.expected}, seen : {reader.seen}, whole : BOOLEAN]
      BY <1>0, <2>3 DEF ChangeFilter, PageType, ReaderType
    <3> QED
      BY <2>1, <2>2, <3>1, PageAsked
  <2>4. CASE NextPage
    <3>1. /\ page'.view = page.view /\ page'.filter = page.filter /\ page'.login = page.login
          /\ page'.offset = page.offset + PageSize
          /\ reader' \in [expected : {reader.expected}, seen : {reader.seen}, whole : BOOLEAN]
          /\ reader'.whole => reader.whole /\ hook.stage = "settled"
      BY <1>0, <2>4 DEF NextPage, PageType, ReaderType
    <3>2. page'.offset \in Nat
      BY <3>1, PagesAssumption DEF ReaderType
    <3>3. ASSUME reader'.whole, page.view = "runs", ~page.filter.narrow PROVE Beyond(page'.offset)
      <4>1. PICK d \in hook.data : Shown = d.rows
        BY <2>4 DEF NextPage, CanGoOn, ListShown, Shown
      <4>2. PageShown(d.rows)
        BY <3>1, <3>3 DEF PagesInv
      <4>3. Returned = Len(d.rows["rows"]) /\ Total = d.rows["count"]
        BY <4>1 DEF Returned, Total
      <4>4. 0 < Returned /\ page.offset + Returned < Total
        BY <2>4 DEF NextPage, CanGoOn
      <4>5. Beyond(page.offset + PageSize)
        BY <4>2, <4>3, <4>4 DEF PageShown
      <4> QED
        BY <3>1, <4>5
    <3> QED
      BY <2>1, <2>2, <3>1, <3>2, <3>3, PageAsked DEF ReaderType
  <2>5. CASE PreviousPage
    <3>1. /\ page'.view = page.view /\ page'.filter = page.filter /\ page'.login = page.login
          /\ page'.offset = IF page.offset < PageSize THEN 0 ELSE page.offset - PageSize
          /\ reader' \in [expected : {reader.expected}, seen : {reader.seen}, whole : BOOLEAN]
          /\ reader'.whole => reader.whole
      BY <1>0, <2>5 DEF PreviousPage, PageType, ReaderType
    <3>2. page'.offset \in Nat /\ page'.offset <= page.offset /\ page.offset \in Nat
      BY <3>1, PagesAssumption DEF ReaderType
    <3> QED
      BY <2>1, <2>2, <3>1, <3>2, PageAsked DEF ReaderType, PagesInv
  <2>6. CASE Retry
    <3>1. UNCHANGED <<page, reader>>
      BY <2>6 DEF Retry
    <3> QED
      BY <2>1, <2>2, <3>1, PageAsked DEF ReaderType, PagesInv
  <2> QED
    BY <1>9, <2>3, <2>4, <2>5, <2>6 DEF User
<1>10. CASE Write
  <2>1. UNCHANGED <<page, reader>> /\ \E kind \in WritesUnder[page.view] : Written(kind)
    BY <1>10 DEF Write
  <2>2. \E kind \in WriteKinds : Written(kind)
    BY <2>1 DEF Written, WriteKinds
  <2>3. /\ hook'.stage = hook.stage /\ hook'.todo = hook.todo /\ hook'.rows = hook.rows
        /\ hook'.data = hook.data /\ hook'.writes \in {0, 1}
        /\ hook.rows # <<>> => hook'.writes = 1
    BY <1>0, <1>10 DEF Write, HookType, ReaderType
  <2>4. ReaderType'
    BY <2>1, <2>3 DEF ReaderType
  <2>5. ASSUME page.view = "runs", ~page.filter.narrow PROVE PagesInv'
    <3>1. \A n \in Nat : Beyond(n) => Beyond(n)'
      BY <2>1, <2>2, <2>5, BeyondStays
    <3>2. PICK offset \in Nat, next \in Nat : offset = page.offset /\ next = page.offset + PageSize
      BY PagesAssumption DEF ReaderType
    <3>3. Beyond(page.offset) => Beyond(page.offset)'
      BY <2>1, <3>1, <3>2 DEF Beyond
    <3>4. Beyond(page.offset + PageSize) => Beyond(page.offset + PageSize)'
      BY <2>1, <3>1, <3>2 DEF Beyond
    <3>5. \A rows : PageShown(rows) => PageShown(rows)'
      BY <2>1, <3>4 DEF PageShown, AllSeen
    <3>6. PageRead => PageRead'
      <4>1. "count" \in DOMAIN hook.rows => hook.rows # <<>>
        OBVIOUS
      <4> QED
        BY <2>3, <4>1 DEF PageRead
    <3> QED
      BY <2>1, <2>3, <2>5, <3>3, <3>5, <3>6 DEF PagesInv
  <2> QED
    BY <2>1, <2>4, <2>5 DEF PagesInv
<1>11. CASE Tick \/ UNCHANGED vars
  <2>1. UNCHANGED <<runs, page, reader, hook>>
    BY <1>11 DEF Tick, TimePasses, screen, vars, records
  <2> QED
    BY <2>1, PagesUntouched
<1> QED
  BY <1>1, <1>2, <1>3, <1>4, <1>5, <1>6, <1>7, <1>8, <1>9, <1>10, <1>11 DEF Next, Api

-----------------------------------------------------------------------------
(* Together.                                                               *)

AnswersInv ==
  IInv /\ RecordsInv /\ RunDetailInv /\ PipelineDetailInv /\ ReaderType /\ PagesInv

THEOREM InitAnswers == Init => AnswersInv
<1> SUFFICES ASSUME Init PROVE AnswersInv
  OBVIOUS
<1>1. IInv /\ RecordsInv
  BY InitInvariant, RecordsStart DEF Init
<1>2. hook.stage = "debounce" /\ hook.data = {} /\ hook.writes = 0 /\ reader = FreshReader
  BY DEF Init, FreshHook
<1>3. PICK place \in Places : page = FreshPage(place)
  BY DEF Init
<1>4. ReaderType
  BY <1>2, <1>3 DEF ReaderType, FreshPage, FreshReader
<1> QED
  BY <1>1, <1>2, <1>4 DEF AnswersInv, RunDetailInv, PipelineDetailInv, PagesInv, FreshReader

THEOREM StepAnswers == AnswersInv /\ [Next]_vars => AnswersInv'
<1> SUFFICES ASSUME AnswersInv, [Next]_vars PROVE AnswersInv'
  OBVIOUS
<1>1. IInv'
  BY StepInvariant DEF AnswersInv
<1>2. RecordsInv'
  <2>1. UNCHANGED records \/ TimePasses \/ \E kind \in WriteKinds : Written(kind)
    BY StepsOfAnAnswer DEF AnswersInv, Drops, Begins, ShowsAnswer, Reads
  <2> QED
    BY <2>1, WritesKeepRecords, TimeKeepsRecords, ReadersKeepRecords DEF AnswersInv
<1>3. RunDetailInv' /\ PipelineDetailInv'
  BY RunDetailStep, PipelineDetailStep DEF AnswersInv
<1>4. ReaderType' /\ PagesInv'
  BY PagesStep DEF AnswersInv
<1> QED
  BY <1>1, <1>2, <1>3, <1>4 DEF AnswersInv

\* What is shown is one of the answers that arrived.
LEMMA ShownIsData ==
  ASSUME hook.data # {}
  PROVE  \E d \in hook.data : Shown = d.rows
BY DEF Shown

\* The detail of a run adds up, whatever alerts and executions are written
\* between its four queries.
THEOREM DetailAddsUpSafe == Spec => []DetailAddsUp
<1>1. AnswersInv => DetailAddsUp
  BY ShownIsData DEF AnswersInv, RunDetailInv, AlertsAddUp, ExecutionsAddUp, DetailAddsUp, Shows
<1> QED
  BY InitAnswers, StepAnswers, <1>1, PTL DEF Spec

\* The latest run of a pipeline's detail is among its recent runs, or they
\* are all later, whatever runs are written between its queries.
THEOREM LatestIsRecentSafe == Spec => []LatestIsRecent
<1>1. AnswersInv => LatestIsRecent
  <2> SUFFICES ASSUME AnswersInv, Shows("pipeline") PROVE LatestIsRecent
    BY DEF LatestIsRecent
  <2>1. PICK d \in hook.data : Shown = d.rows
    BY ShownIsData DEF Shows
  <2>2. LatestAmong(d.rows)
    BY DEF AnswersInv, PipelineDetailInv, Shows
  <2>3. \A r \in runs : RunOf(r.id) = r
    BY RunIsFound DEF AnswersInv, RecordsInv
  <2> QED
    BY <2>1, <2>2, <2>3 DEF LatestAmong, LatestIsRecent
<1> QED
  BY InitAnswers, StepAnswers, <1>1, PTL DEF Spec

\* Who pages through all runs has seen every run there was at the first page,
\* for any size of a page and any writes between two pages.
THEOREM NothingSkippedSafe == Spec => []NothingSkipped
<1>1. AnswersInv => NothingSkipped
  <2> SUFFICES ASSUME AnswersInv, page.view = "runs", ~page.filter.narrow,
                      hook.stage = "settled", ListShown, reader.whole, ~CanGoOn
               PROVE  reader.expected \subseteq reader.seen
    BY DEF NothingSkipped
  <2>1. PICK d \in hook.data : Shown = d.rows
    BY ShownIsData DEF ListShown
  <2>2. PageShown(d.rows) /\ page.offset \in Nat
    BY DEF AnswersInv, PagesInv, ReaderType
  <2>3. Returned = Len(d.rows["rows"]) /\ Total = d.rows["count"]
    BY <2>1 DEF Returned, Total
  <2>4. ~hook.loading
    BY DEF AnswersInv, IInv, SettledIsCurrent
  <2>5. Returned = 0 \/ Total <= page.offset + Returned
    BY <2>2, <2>3, <2>4 DEF CanGoOn, PageShown
  <2> QED
    BY <2>2, <2>3, <2>5 DEF PageShown, AllSeen
<1> QED
  BY InitAnswers, StepAnswers, <1>1, PTL DEF Spec
=============================================================================
