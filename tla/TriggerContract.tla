-------------------------- MODULE TriggerContract --------------------------
(***************************************************************************)
(* What a caller of the trigger endpoint may rely on. A request names a    *)
(* run by its DAG and run id, and may name a logical date. However often   *)
(* it is repeated and whatever happens to the answers, no two requests     *)
(* that clash both start a run; "started" tells the request that started   *)
(* it; a conflict tells that another run stands in the way; a refusal      *)
(* tells that this request has started nothing and never will. Only an     *)
(* unknown outcome leaves the question open.                               *)
(***************************************************************************)
CONSTANTS
  Attempts,  \* requests to start a run, each repetition one of its own
  Keys,      \* [dag, id, date] that a request may name
  NoDate     \* a request without a logical date

VARIABLES
  key,      \* what each request asks for
  started,  \* the requests that started a run
  outcome   \* what each request was told

contract == <<key, started, outcome>>

Verdicts == {"started", "conflict", "refused"}

Clash(k, l) ==
  /\ k.dag = l.dag
  /\ k.id = l.id \/ (k.date = l.date /\ k.date # NoDate)

InTheWay(a) == \E b \in started \ {a} : Clash(key[a], key[b])

Begin ==
  /\ key \in [Attempts -> Keys]
  /\ started = {}
  /\ outcome = [a \in Attempts |-> "open"]

\* A run may start late, after its request was told that nobody knows.
StartRun(a) ==
  /\ outcome[a] \in {"open", "unknown"}
  /\ a \notin started
  /\ ~InTheWay(a)
  /\ started' = started \cup {a}
  /\ UNCHANGED <<key, outcome>>

Tell(a, told) ==
  /\ outcome[a] = "open"
  /\ told = "started" => a \in started
  /\ told = "conflict" => a \notin started /\ InTheWay(a)
  /\ told = "refused" => a \notin started
  /\ outcome' = [outcome EXCEPT ![a] = told]
  /\ UNCHANGED <<key, started>>

\* The outcome of any number of requests may get lost at once.
LoseTrack(lost) ==
  /\ outcome' = [a \in Attempts |->
       IF a \in lost /\ outcome[a] = "open" THEN "unknown" ELSE outcome[a]]
  /\ UNCHANGED <<key, started>>

Advance ==
  \/ \E a \in Attempts : StartRun(a) \/ \E told \in Verdicts : Tell(a, told)
  \/ \E lost \in SUBSET Attempts : LoseTrack(lost)

ContractSpec == Begin /\ [][Advance]_contract
=============================================================================
