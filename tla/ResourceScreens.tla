--------------------------- MODULE ResourceScreens --------------------------
(***************************************************************************)
(* A screen of the web application over one resource: the hook useApiQuery *)
(* with its debounce, its number of the current request and its abort, the *)
(* filters and pages of a list, and the API answering a request with one   *)
(* query after the other while the records are written. A request that was *)
(* superseded may still come back. Its rows no longer matter: it is kept   *)
(* with what it asked for. The layout and the URL of the page are left     *)
(* out, and so is a path that becomes null, which no screen asks for.      *)
(***************************************************************************)
EXTENDS ResourceQueries

CONSTANTS
  Places,      \* the screens, each with the subject of a detail, 0 for a list
  Filters,     \* what the user may filter by
  WritesUnder, \* what happens under each screen: kinds of writes, "time"
  RowsUnder,   \* bounds of the rows written under each screen
  MaxRequests, \* bounds of the requests of each screen
  Nothing      \* no error

Failures == {"retryable", "final"}

Views == Lists \cup {"run", "pipeline", "execution", "source"}

ASSUME ScreensAssumption ==
  /\ \A place \in Places : place[1] \in Views
  /\ MaxRequests \in [{place[1] : place \in Places} -> Nat \ {0}]
  /\ AllRows \in Filters
  /\ Nothing \notin Failures
  /\ WritesUnder \in [{place[1] : place \in Places} -> SUBSET (WriteKinds \cup {"time"})]
  /\ RowsUnder \in [{place[1] : place \in Places} -> 0..MaxRows]

VARIABLES
  page,   \* the screen, its filter and offset, and whether it gave way to the login page
  hook,   \* the state of the hook and of its current request
  late,   \* superseded requests that are on their way
  reader  \* the runs seen by who pages through their list, since its first page (history)

vars == <<records, page, hook, late, reader>>
screen == <<page, hook, late, reader>>

\* Mutant: the row of a run is read after its parts.
RowReadLast ==
  [view \in Views |->
     CASE view = "run" -> <<"alerts", "summary", "executions", "row">>
       [] view = "pipeline" -> <<"row", "recent", "summary", "active">>
       [] view = "execution" -> <<"row", "alerts", "history">>
       [] view = "source" -> <<"row", "pipelines", "summary", "active">>
       [] OTHER -> <<"count", "rows">>]

\* The queries of an answer, in the order of the services.
ReadsOf ==
  [view \in Views |->
     CASE view = "run" -> <<"row", "alerts", "summary", "executions">>
       [] view = "pipeline" -> <<"row", "recent", "summary", "active">>
       [] view = "execution" -> <<"row", "alerts", "history">>
       [] view = "source" -> <<"row", "pipelines", "summary", "active">>
       [] OTHER -> <<"count", "rows">>]

Asked == [filter |-> page.filter, offset |-> page.offset]
IsList == page.view \in Lists

Row(id) ==
  CASE page.view = "run" -> GetPipelineRun(id)
    [] page.view = "pipeline" -> GetPipeline(id)
    [] page.view = "execution" -> GetExecution(id)
    [] page.view = "source" -> GetSource(id)

Checked(id) ==
  CASE page.view = "run" -> RunExecutions(id)
    [] page.view = "pipeline" -> PipelineExecutions(id)
    [] page.view = "source" -> UNION {PipelineExecutions(p) : p \in ReadersOf(id)}

Query(name) ==
  LET id == page.subject
  IN CASE name = "count" -> Cardinality(RowsOf(page.view, page.filter))
       [] name = "rows" -> PageOf(page.view, page.filter, page.offset)
       [] name = "row" -> Row(id)
       [] name = "alerts" -> IF page.view = "run" THEN RunAlerts(id) ELSE ExecutionAlerts(id)
       [] name = "summary" -> Summary(Checked(id))
       [] name = "executions" -> RunExecutions(id)
       [] name = "recent" -> RecentRuns(id)
       [] name = "active" -> IF page.view = "pipeline" THEN ActiveAlerts(id)
                             ELSE SourceActiveAlerts(id)
       [] name = "history" -> History(id)
       [] name = "pipelines" -> ConnectedPipelines(id)

FreshPage(place) ==
  [view |-> place[1], subject |-> place[2], filter |-> AllRows, offset |-> 0, login |-> FALSE]
FreshHook ==
  [number |-> 1, stage |-> "debounce", todo |-> <<>>, rows |-> <<>>, writes |-> 0,
   data |-> {}, error |-> Nothing, loading |-> TRUE]
FreshReader == [expected |-> {}, seen |-> {}, whole |-> FALSE]

Init ==
  /\ RecordsInit
  /\ page \in {FreshPage(place) : place \in Places}
  /\ hook = FreshHook
  /\ late = {}
  /\ reader = FreshReader

-----------------------------------------------------------------------------
(* The hook.                                                               *)

Open == ~page.login

\* What a change of the request does: the effect of the former one is cleaned
\* up, which drops its timer or aborts its fetch, and a new timer starts. The
\* data, the error and the loading flag stay until it fires.
Request ==
  /\ hook.number < MaxRequests[page.view]
  /\ hook' = [hook EXCEPT !.number = @ + 1, !.stage = "debounce", !.todo = <<>>,
                          !.rows = <<>>, !.writes = 0]
  /\ late' = IF hook.stage = "reading"
             THEN late \cup {[number |-> hook.number, asked |-> Asked]} ELSE late

TimerFires ==
  /\ Open /\ hook.stage = "debounce"
  /\ hook' = [hook EXCEPT !.stage = "reading", !.loading = TRUE, !.error = Nothing,
                          !.todo = ReadsOf[page.view]]
  /\ UNCHANGED <<records, page, late, reader>>

\* Mutant: whichever request comes back is taken for the current one.
AnyRequest(number) == number > 0

IsCurrent(number) == number = hook.number

\* Mutant: the loading flag is cleared only when data arrived.
SettleOnData(number, answer, outcome) ==
  IF ~IsCurrent(number) THEN hook
  ELSE [hook EXCEPT
          !.stage = IF number = hook.number THEN "settled" ELSE @,
          !.todo = <<>>, !.rows = <<>>, !.writes = 0,
          !.data = IF outcome = "data" THEN {answer} ELSE {},
          !.error = IF outcome \in Failures THEN outcome ELSE @,
          !.loading = IF outcome = "data" THEN FALSE ELSE @]

\* How a request ends: an error empties the data, a cancelled one changes
\* nothing but the loading flag, and one that is not current nothing at all.
Settle(number, answer, outcome) ==
  IF ~IsCurrent(number) THEN hook
  ELSE [hook EXCEPT
          !.stage = IF number = hook.number THEN "settled" ELSE @,
          !.todo = IF number = hook.number THEN <<>> ELSE @,
          !.rows = IF number = hook.number THEN <<>> ELSE @,
          !.writes = IF number = hook.number THEN 0 ELSE @,
          !.data = IF outcome = "data" THEN {answer}
                   ELSE IF outcome \in Failures THEN {} ELSE @,
          !.error = IF outcome \in Failures THEN outcome ELSE @,
          !.loading = FALSE]

-----------------------------------------------------------------------------
(* The API answers.                                                        *)

Ids(rows) == {r.id : r \in rows}

\* The first page tells the reader how much there is.
Counted(name) ==
  IF page.view = "runs" /\ name = "count" /\ page.offset = 0
  THEN [expected |-> Ids(RunRows(page.filter)), seen |-> {}, whole |-> TRUE]
  ELSE reader

\* The answer so far, with one part more.
WithPart(rows, name, answer) ==
  [part \in DOMAIN rows \cup {name} |-> IF part = name THEN answer ELSE rows[part]]

Read ==
  /\ Open /\ hook.todo # <<>>
  /\ LET name == Head(hook.todo)
         answer == Query(name)
     IN /\ name = "row" => answer # NoRow
        /\ hook' = [hook EXCEPT !.todo = Tail(@), !.rows = WithPart(@, name, answer)]
        /\ reader' = Counted(name)
  /\ UNCHANGED <<records, page, late>>

\* A detail without its row ends in a 404, which the hook does not retry.
NotFound ==
  /\ Open /\ hook.todo # <<>> /\ Head(hook.todo) = "row" /\ Query("row") = NoRow
  /\ hook' = Settle(hook.number, <<>>, "final")
  /\ UNCHANGED <<records, page, late, reader>>

Answer ==
  /\ Open /\ hook.stage = "reading" /\ hook.todo = <<>>
  /\ hook' = Settle(hook.number, [asked |-> Asked, rows |-> hook.rows], "data")
  /\ reader' = IF page.view # "runs" THEN reader
               ELSE [reader EXCEPT !.seen = @ \cup Ids(Range(hook.rows["rows"])),
                                   !.whole = @ /\ hook.writes = 0]
  /\ UNCHANGED <<records, page, late>>

\* A query fails and is answered 503, the service is out of reach, or its
\* answer cannot be read.
Fail ==
  /\ Open /\ hook.stage = "reading"
  /\ hook' = Settle(hook.number, <<>>, "retryable")
  /\ UNCHANGED <<records, page, late, reader>>

\* A superseded request comes back: its fetch rejects, the abort breaks the
\* body it was reading, or it had been read before.
LateAnswer(request, outcome) ==
  /\ Open
  /\ late' = late \ {request}
  /\ hook' = Settle(request.number, [asked |-> request.asked, rows |-> [count |-> 0, rows |-> <<>>]],
                     outcome)
  /\ UNCHANGED <<records, page, reader>>

\* The session has expired: a 401, even of a superseded request, whose error
\* body may be cut short, sends the browser to the login page.
Unauthorized ==
  /\ Open
  /\ hook.stage = "reading" \/ late # {}
  /\ page' = [page EXCEPT !.login = TRUE]
  /\ hook' = FreshHook /\ late' = {} /\ reader' = FreshReader
  /\ UNCHANGED records

\* The login page returns to the path of the screen, which starts anew.
SignIn ==
  /\ page.login
  /\ page' = FreshPage(<<page.view, page.subject>>)
  /\ UNCHANGED <<records, hook, late, reader>>

-----------------------------------------------------------------------------
(* The user. Until the first answer there is a skeleton without controls.  *)

Skeleton == hook.loading /\ hook.data = {}
Shown == (CHOOSE d \in hook.data : TRUE).rows
ListShown == Open /\ IsList /\ ~Skeleton /\ hook.error = Nothing /\ hook.data # {}
Returned == Len(Shown["rows"])
Total == Shown["count"]

\* The filters stay in sight of an error; the page is the first one again.
ChangeFilter(filter) ==
  /\ Open /\ IsList /\ ~Skeleton
  /\ filter # page.filter
  /\ page' = [page EXCEPT !.filter = filter, !.offset = 0]
  /\ Request
  /\ reader' = [reader EXCEPT !.whole = FALSE]
  /\ UNCHANGED records

\* Mutant: one row short of the end is taken for the end.
NextStopsShort == ListShown /\ Returned > 0 /\ ~hook.loading /\ page.offset + Returned < Total - 1

\* An empty page has no buttons.
CanGoOn == ListShown /\ Returned > 0 /\ ~hook.loading /\ page.offset + Returned < Total

\* The buttons work until the timer of the new page fires; who uses them then
\* does not read every page.
NextPage ==
  /\ CanGoOn
  /\ page' = [page EXCEPT !.offset = @ + PageSize]
  /\ Request
  /\ reader' = [reader EXCEPT !.whole = @ /\ hook.stage = "settled"]
  /\ UNCHANGED records

PreviousPage ==
  /\ ListShown /\ Returned > 0 /\ ~hook.loading /\ page.offset > 0
  /\ page' = [page EXCEPT !.offset = IF @ < PageSize THEN 0 ELSE @ - PageSize]
  /\ Request
  /\ reader' = [reader EXCEPT !.whole = @ /\ hook.stage = "settled"]
  /\ UNCHANGED records

\* Trying again is offered for a service error only.
Retry ==
  /\ Open /\ hook.error = "retryable"
  /\ Request
  /\ UNCHANGED <<records, page, reader>>

-----------------------------------------------------------------------------
Write ==
  /\ \E kind \in WritesUnder[page.view] : Written(kind)
  /\ Cardinality(runs') + Cardinality(executions') + Cardinality(alerts') <= RowsUnder[page.view]
  /\ hook' = IF hook.rows # <<>> THEN [hook EXCEPT !.writes = 1] ELSE hook
  /\ UNCHANGED <<page, late, reader>>

Tick ==
  /\ "time" \in WritesUnder[page.view]
  /\ TimePasses
  /\ UNCHANGED screen

Api == Read \/ NotFound \/ Answer \/ Fail
Late == \E request \in late, outcome \in {"data", "cancelled", "retryable"} :
          LateAnswer(request, outcome)
User ==
  \/ \E filter \in Filters : ChangeFilter(filter)
  \/ NextPage
  \/ PreviousPage
  \/ Retry

Next == TimerFires \/ Api \/ Late \/ Unauthorized \/ SignIn \/ User \/ Write \/ Tick

Spec == Init /\ [][Next]_vars

\* The browser fires its timers, and the service answers or fails.
FairSpec == Spec /\ WF_vars(TimerFires) /\ WF_vars(Api)
-----------------------------------------------------------------------------
(* Properties.                                                             *)

Stages == {"debounce", "reading", "settled"}

\* Types: the page and the hook have their shape, and every request that is
\* on its way was made before the current one.
TypeOK ==
  /\ page.view \in {place[1] : place \in Places} /\ page.filter \in Filters
  /\ page.offset \in Nat /\ page.login \in BOOLEAN
  /\ hook.number \in 1..MaxRequests[page.view] /\ hook.stage \in Stages
  /\ hook.loading \in BOOLEAN /\ hook.error \in Failures \cup {Nothing}
  /\ \A request \in late : request.number \in 1..MaxRequests[page.view]

\* useApiQuery: when nothing is under way, the screen shows either the answer
\* to what it asks for now or an error, and no spinner; an answer or an error
\* of a former filter or page never takes its place.
SettledIsCurrent ==
  hook.stage = "settled" =>
    /\ ~hook.loading
    /\ IF hook.error = Nothing
       THEN hook.data # {} /\ \A d \in hook.data : d.asked = Asked
       ELSE hook.data = {}

\* PipelineRunsPage over list_pipeline_runs: who pages through all runs, waits
\* for each page and reaches the end of the list has seen every run there was
\* at the first page, although runs were started and ended meanwhile, unless
\* one was written between the count and the rows of a page.
NothingSkipped ==
  (page.view = "runs" /\ ~page.filter.narrow /\ hook.stage = "settled" /\ ListShown
     /\ reader.whole /\ ~CanGoOn)
  => reader.expected \subseteq reader.seen

Shows(view) == Open /\ page.view = view /\ hook.data # {}

\* get_pipeline_run: the detail of a run reads the run first and its alerts
\* and executions in later transactions, so that a run never counts more
\* active alerts, or its summary more failures, than the lists beside them.
DetailAddsUp ==
  Shows("run") =>
    LET d == Shown
    IN /\ d["row"].activeAlerts <= Cardinality(d["alerts"])
       /\ d["summary"].total <= Cardinality(d["executions"])
       /\ d["summary"].failed <= d["summary"].total

\* get_pipeline: the latest run of a pipeline's detail is among its recent
\* runs, read in a later transaction, unless newer runs filled that list.
LatestIsRecent ==
  Shows("pipeline") =>
    LET d == Shown
        recent == d["recent"]
        latest == d["row"].latest
    IN \/ latest = NoRun
       \/ latest \in Ids(Range(recent))
       \/ Len(recent) = RecentLimit /\ \A i \in DOMAIN recent : Later(recent[i], RunOf(latest))

\* useApiQuery: a screen that asked for something is answered, shows an error
\* or gives way to the login page; it does not load forever.
RequestEnds ==
  (Open /\ hook.stage # "settled") ~> ((hook.stage = "settled" /\ ~hook.loading) \/ page.login)
=============================================================================
