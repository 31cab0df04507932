---------------------------- MODULE MCResources -----------------------------
(***************************************************************************)
(* One screen of each list and of the details of a run and a pipeline. The *)
(* records written under a screen are those it shows; a page has one row,  *)
(* so that three rows are three pages.                                     *)
(***************************************************************************)
EXTENDS ResourceScreens

MCSourceOf == [p \in Pipelines |-> 1]
MCPlaces == {<<"runs", 0>>, <<"alerts", 0>>, <<"validation", 0>>, <<"pipelines", 0>>,
             <<"sources", 0>>, <<"run", 1>>, <<"pipeline", 1>>, <<"execution", 1>>, <<"source", 1>>}
MCFilters == {AllRows, [pipeline |-> 1, narrow |-> TRUE]}
MCWritesUnder ==
  [runs |-> {"start", "success"}, alerts |-> {"start", "alert"},
   validation |-> {"start", "execution", "time"}, pipelines |-> {"start", "failure"},
   sources |-> {"source"}, run |-> {"start", "execution", "alert"},
   pipeline |-> {"start", "success"}, execution |-> {"start", "execution"},
   source |-> {"start", "alert"}]
MCRowsUnder == [view \in {place[1] : place \in MCPlaces} |-> IF view = "validation" THEN 4 ELSE 3]
MCMaxRequests == [view \in {place[1] : place \in MCPlaces} |-> IF view = "runs" THEN 3 ELSE 2]
MCOutcomes == {[result |-> "PASSED", severity |-> "BLOCKING"],
               [result |-> "FAILED", severity |-> "BLOCKING"]}
MCAlertKinds == {[severity |-> "WARNING", vendor |-> FALSE]}

\* At first every pipeline is on and the source healthy.
MCInit ==
  /\ Init
  /\ enabled = [p \in Pipelines |-> TRUE]
  /\ sourceStatus = [s \in Sources |-> "HEALTHY"]
MCSpec == MCInit /\ [][Next]_vars /\ WF_vars(TimerFires) /\ WF_vars(Api)
=============================================================================
