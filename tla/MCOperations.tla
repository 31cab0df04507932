---------------------------- MODULE MCOperations ----------------------------
(***************************************************************************)
(* Two clients of one account ask for one run by its id, by its date, or   *)
(* leave the id to the API; one DAG is known to Airflow and one is not.    *)
(***************************************************************************)
EXTENDS PipelineOperations

CONSTANTS alice, c1, c2, old, new, dag, absent, k1, day

MCUserOf == [c \in Clients |-> alice]
MCRoleSets == {{"Operator"}, {"ReadOnly"}}
Wish4(op, d, id, date) == [op |-> op, dag |-> d, id |-> id, date |-> date]
ByName == Wish4("trigger", dag, k1, NoDate)
ByDate == Wish4("trigger", dag, NoId, day)
Both == Wish4("trigger", dag, k1, day)
Unknown == Wish4("trigger", absent, k1, NoDate)
Look == Wish4("get", dag, k1, NoDate)
Cancel == Wish4("cancel", dag, k1, NoDate)
MCWishes == {ByName, ByDate, Both, Unknown, Look, Cancel}
MCPlans ==
  {[c \in Clients |-> IF c = c1 THEN p[1] ELSE p[2]] :
     p \in {<<ByName, Look>>, <<ByDate, Both>>, <<Cancel, Unknown>>}}
MCMaxAttempts == [c \in Clients |-> IF c = c1 THEN 2 ELSE 1]

\* Passwords change under one of the plans and before the first request, since
\* what follows a login never looks at a password; and users log in again
\* between requests under that plan alone.
Unused == \A a \in Attempts : phase[a] = "unsent"
PasswordsAreOld ==
  \A u \in Users :
    /\ IsAccount(account[u]) => account[u].password = old
    /\ ~IsOut(u) => session[u].password = old
LoginsAreOver == \A u \in Users : session[u].state \in {"out", "in"}
Explored ==
  /\ (Unused /\ want[c1] = Cancel) \/ PasswordsAreOld
  /\ Unused \/ want[c1] = Cancel \/ LoginsAreOver
=============================================================================
