---------------------- MODULE OperationalRecordsProofs ----------------------
(***************************************************************************)
(* What the constraints of the canonical tables keep true, whoever writes  *)
(* them, and what the queries over them return: which run is the latest,   *)
(* and where a row is in the order of a query.                             *)
(***************************************************************************)
EXTENDS OperationalRecords, FiniteSetTheorems, TLAPS

-----------------------------------------------------------------------------
(* What a finite set is made into is finite.                               *)
LEMMA ImageIsFinite ==
  ASSUME NEW S, IsFiniteSet(S), NEW f, NEW T, T = {f[x] : x \in S}
  PROVE  IsFiniteSet(T)
<1> DEFINE g == [x \in S |-> f[x]]
<1>1. g \in Surjection(S, T)
  BY DEF Surjection
<1> QED
  BY <1>1, FS_Surjection

-----------------------------------------------------------------------------
(* Places in an order. below[r] is the set of rows that come before r.     *)

\* below is a strict total order on the rows.
OrdersRows(below, rows) ==
  /\ below \in [rows -> SUBSET rows]
  /\ \A r \in rows : r \notin below[r]
  /\ \A q, r \in rows : q \in below[r] => below[q] \subseteq below[r]
  /\ \A q, r \in rows : q = r \/ q \in below[r] \/ r \in below[q]

\* The rows before a row are fewer than those before a later one, so that
\* each place is taken by one row.
LEMMA PlacesAreTaken ==
  ASSUME NEW rows, IsFiniteSet(rows), NEW below, OrdersRows(below, rows)
  PROVE  /\ Cardinality(rows) \in Nat
         /\ \A r \in rows : Cardinality(below[r]) \in 0..(Cardinality(rows) - 1)
         /\ \A q, r \in rows : q \in below[r] => Cardinality(below[q]) < Cardinality(below[r])
         /\ \A i \in 1..Cardinality(rows) : \E r \in rows : Cardinality(below[r]) = i - 1
<1> DEFINE place == [r \in rows |-> Cardinality(below[r])]
           n == Cardinality(rows)
<1> USE DEF OrdersRows
<1>1. n \in Nat
  BY FS_CardinalityType
<1>2. ASSUME NEW r \in rows
      PROVE  IsFiniteSet(below[r]) /\ Cardinality(below[r]) \in 0..(n - 1)
  <2>1. below[r] \in SUBSET rows /\ below[r] # rows
    OBVIOUS
  <2>2. IsFiniteSet(below[r]) /\ Cardinality(below[r]) <= n /\ Cardinality(below[r]) # n
    BY <2>1, FS_Subset, Zenon
  <2>3. Cardinality(below[r]) \in Nat
    BY <2>2, FS_CardinalityType
  <2> QED
    BY <1>1, <2>2, <2>3
<1>3. ASSUME NEW q \in rows, NEW r \in rows, q \in below[r]
      PROVE  Cardinality(below[q]) < Cardinality(below[r])
  <2>1. below[q] \in SUBSET below[r] /\ below[q] # below[r]
    BY <1>3
  <2>2. IsFiniteSet(below[r])
    BY <1>2
  <2>3. Cardinality(below[q]) <= Cardinality(below[r]) /\ Cardinality(below[q]) # Cardinality(below[r])
    BY <2>1, <2>2, FS_Subset, Zenon
  <2> QED
    BY <1>2, <2>3
<1>4. \A i \in 0..(n - 1) : \E r \in rows : Cardinality(below[r]) = i
  <2>1. place \in [rows -> 0..(n - 1)]
    BY <1>2
  <2>2. ASSUME NEW q \in rows, NEW r \in rows, place[q] = place[r] PROVE q = r
    <3>1. Cardinality(below[q]) \in Int /\ Cardinality(below[r]) \in Int
      BY <1>2
    <3>2. q \notin below[r] /\ r \notin below[q]
      BY <1>3, <2>2, <3>1
    <3> QED
      BY <3>2
  <2>3. place \in Injection(rows, 0..(n - 1))
    BY <2>1, <2>2 DEF Injection, IsInjective
  <2>4. IsFiniteSet(0..(n - 1)) /\ Cardinality(0..(n - 1)) = n
    BY <1>1, FS_Interval
  <2>5. place \in Surjection(rows, 0..(n - 1))
    BY <2>3, <2>4, FS_Injection
  <2> QED
    BY <2>5 DEF Surjection
<1>5. ASSUME NEW i \in 1..n PROVE \E r \in rows : Cardinality(below[r]) = i - 1
  <2>1. i - 1 \in 0..(n - 1)
    BY <1>1
  <2> QED
    BY <1>4, <2>1
<1> QED
  BY <1>1, <1>2, <1>3, <1>5

\* sorted has each row once, at the place the order gives it.
Sorts(sorted, rows, below) ==
  /\ sorted \in Seq(rows) /\ Len(sorted) = Cardinality(rows)
  /\ \A r \in rows : \E i \in 1..Len(sorted) : sorted[i] = r
  /\ \A i, j \in 1..Len(sorted) : i < j <=> sorted[i] \in below[sorted[j]]
  /\ \A i \in 1..Len(sorted) : Cardinality(below[sorted[i]]) = i - 1

LEMMA PlacesSort ==
  ASSUME NEW rows, IsFiniteSet(rows), NEW below, OrdersRows(below, rows),
         NEW sorted, sorted = [i \in 1..Cardinality(rows) |-> sorted[i]],
         \A i \in 1..Cardinality(rows) :
           (\E r \in rows : Cardinality(below[r]) = i - 1) =>
             sorted[i] \in rows /\ Cardinality(below[sorted[i]]) = i - 1
  PROVE  Sorts(sorted, rows, below)
<1> DEFINE n == Cardinality(rows)
<1>1. /\ n \in Nat
      /\ \A r \in rows : Cardinality(below[r]) \in 0..(n - 1)
      /\ \A q, r \in rows : q \in below[r] => Cardinality(below[q]) < Cardinality(below[r])
      /\ \A i \in 1..n : \E r \in rows : Cardinality(below[r]) = i - 1
  BY PlacesAreTaken
<1>2. \A i \in 1..n : sorted[i] \in rows /\ Cardinality(below[sorted[i]]) = i - 1
  BY <1>1
<1>3. sorted \in [1..n -> rows]
  BY <1>2
<1>4. sorted \in Seq(rows) /\ Len(sorted) = n
  BY <1>1, <1>3
<1>5. ASSUME NEW q \in rows, NEW r \in rows
      PROVE  q \in below[r] <=> Cardinality(below[q]) < Cardinality(below[r])
  <2>1. Cardinality(below[q]) \in Int /\ Cardinality(below[r]) \in Int
    BY <1>1
  <2>2. q = r \/ q \in below[r] \/ r \in below[q]
    BY DEF OrdersRows
  <2> QED
    BY <1>1, <2>1, <2>2
<1>6. ASSUME NEW r \in rows PROVE \E i \in 1..n : sorted[i] = r
  <2>1. PICK i \in 1..n : Cardinality(below[r]) = i - 1
    <3>1. Cardinality(below[r]) + 1 \in 1..n /\ Cardinality(below[r]) = (Cardinality(below[r]) + 1) - 1
      BY <1>1
    <3> QED
      BY <3>1
  <2>2. sorted[i] \in rows /\ Cardinality(below[sorted[i]]) = i - 1
    BY <1>2
  <2>3. sorted[i] \notin below[r] /\ r \notin below[sorted[i]]
    BY <1>5, <2>1, <2>2
  <2> QED
    BY <2>2, <2>3 DEF OrdersRows
<1>7. ASSUME NEW i \in 1..n, NEW j \in 1..n PROVE i < j <=> sorted[i] \in below[sorted[j]]
  BY <1>2, <1>5
<1> QED
  BY <1>2, <1>4, <1>6, <1>7 DEF Sorts

-----------------------------------------------------------------------------
\* A run is before another when it is later.
Newer(rows) == [r \in rows |-> {q \in rows : Later(q, r)}]

LEMMA LaterSorts ==
  ASSUME NEW rows, IsFiniteSet(rows),
         \A r \in rows : r.id \in Int /\ r.started \in Int,
         \A q, r \in rows : q.id = r.id => q = r
  PROVE  Sorts(InOrder(rows, Later), rows, Newer(rows))
<1>1. OrdersRows(Newer(rows), rows)
  BY DEF OrdersRows, Newer, Later
<1>2. \A r \in rows : Newer(rows)[r] = {q \in rows : Later(q, r)}
  BY DEF Newer
<1> DEFINE place(i) == CHOOSE r \in rows : Cardinality({q \in rows : Later(q, r)}) = i - 1
<1>3. ASSUME NEW i \in 1..Cardinality(rows), \E r \in rows : Cardinality(Newer(rows)[r]) = i - 1
      PROVE  place(i) \in rows /\ Cardinality(Newer(rows)[place(i)]) = i - 1
  <2>1. \E r \in rows : Cardinality({q \in rows : Later(q, r)}) = i - 1
    BY <1>2, <1>3
  <2>2. place(i) \in rows /\ Cardinality({q \in rows : Later(q, place(i))}) = i - 1
    BY <2>1
  <2> QED
    BY <1>2, <2>2
<1>4. InOrder(rows, Later) = [i \in 1..Cardinality(rows) |-> place(i)]
  BY DEF InOrder
<1> HIDE DEF place
<1>5. InOrder(rows, Later) = [i \in 1..Cardinality(rows) |-> InOrder(rows, Later)[i]]
  BY <1>4
<1> QED
  BY <1>1, <1>3, <1>4, <1>5, PlacesSort

-----------------------------------------------------------------------------
(* What the constraints keep.                                              *)

RunRow == [id : Nat, pipeline : Pipelines, status : {"RUNNING", "SUCCESS", "FAILED"},
           started : Nat]
ExecutionRow == [run : Nat, outcome : Outcomes, at : Nat]
AlertRow == [key : Nat, run : Nat, execution : Nat \cup {NoExecution}, kind : AlertKinds,
             active : BOOLEAN, seen : Nat]

StateTyped ==
  /\ clock \in Nat
  /\ sourceStatus \in [Sources -> SourceStatuses]
  /\ enabled \in [Registered -> BOOLEAN] /\ Registered \subseteq Pipelines

RunsKept ==
  /\ IsFiniteSet(runs)
  /\ \A r \in runs : r \in RunRow /\ r.id <= Cardinality(runs)
  /\ \A q, r \in runs : q.id = r.id => q = r

\* Runs belong to pipelines that are registered.
RunsRegistered == \A r \in runs : r.pipeline \in Registered

\* Executions belong to runs, one of the check of a run.
ExecutionsKept ==
  /\ IsFiniteSet(executions)
  /\ \A x \in executions : x \in ExecutionRow /\ \E r \in runs : r.id = x.run
  /\ \A x, y \in executions : x.run = y.run => x = y

\* Alerts belong to runs, and an execution is represented by one at most.
AlertsKept ==
  /\ IsFiniteSet(alerts)
  /\ \A a \in alerts : a \in AlertRow /\ a.key <= Cardinality(alerts)
  /\ \A a, b \in alerts : a.key = b.key => a = b
  /\ \A a \in alerts : \E r \in runs : r.id = a.run
  /\ \A a \in alerts : a.execution # NoExecution =>
       \E x \in executions : x.run = a.execution
  /\ \A a, b \in alerts : a.execution = b.execution => a = b \/ a.execution = NoExecution

RecordsInv == StateTyped /\ RunsKept /\ RunsRegistered /\ ExecutionsKept /\ AlertsKept

LEMMA RecordsStart == RecordsInit => RecordsInv
<1> SUFFICES ASSUME RecordsInit PROVE RecordsInv
  OBVIOUS
<1>1. StateTyped
  BY DEF RecordsInit, StateTyped, Registered
<1>2. RunsKept /\ RunsRegistered /\ ExecutionsKept /\ AlertsKept
  BY FS_EmptySet DEF RecordsInit, RunsKept, RunsRegistered, ExecutionsKept, AlertsKept
<1> QED
  BY <1>1, <1>2 DEF RecordsInv

\* Adding a row makes one more; replacing one leaves as many.
LEMMA RowAdded ==
  ASSUME NEW rows, IsFiniteSet(rows), NEW row, row \notin rows
  PROVE  /\ IsFiniteSet(rows \cup {row})
         /\ Cardinality(rows \cup {row}) = Cardinality(rows) + 1
         /\ Cardinality(rows) \in Nat
BY FS_AddElement, FS_CardinalityType

LEMMA RowReplaced ==
  ASSUME NEW rows, IsFiniteSet(rows), NEW old \in rows, NEW new, new \notin rows \ {old}
  PROVE  /\ IsFiniteSet((rows \ {old}) \cup {new})
         /\ Cardinality((rows \ {old}) \cup {new}) = Cardinality(rows)
<1>1. IsFiniteSet(rows \ {old}) /\ Cardinality(rows \ {old}) = Cardinality(rows) - 1
  BY FS_RemoveElement
<1>2. Cardinality(rows) \in Nat
  BY FS_CardinalityType
<1>3. /\ IsFiniteSet((rows \ {old}) \cup {new})
      /\ Cardinality((rows \ {old}) \cup {new}) = Cardinality(rows \ {old}) + 1
  BY <1>1, FS_AddElement
<1> QED
  BY <1>1, <1>2, <1>3

LEMMA StartRunKeeps ==
  ASSUME RecordsInv, NEW id \in RunIds, NEW p \in Pipelines, NEW at \in 0..clock,
         StartRun(id, p, at)
  PROVE  RecordsInv'
<1> DEFINE row == [id |-> id, pipeline |-> p, status |-> "RUNNING", started |-> at]
<1> USE DEF RecordsInv
<1>1. /\ p \in Registered /\ id = Cardinality(runs) + 1 /\ runs' = runs \cup {row}
      /\ UNCHANGED <<clock, sourceStatus, enabled, executions, alerts>>
  BY DEF StartRun
<1>2. Cardinality(runs) \in Nat
  BY FS_CardinalityType DEF RunsKept
<1>3. row \in RunRow
  BY <1>1, <1>2 DEF RunRow, StateTyped
<1>4. \A r \in runs : r.id \in Nat /\ r.id # id
  BY <1>1, <1>2 DEF RunsKept, RunRow
<1>5. IsFiniteSet(runs') /\ Cardinality(runs') = Cardinality(runs) + 1
  BY <1>1, <1>4, RowAdded DEF RunsKept
<1>6. RunsKept'
  <2> HIDE DEF row
  <2>1. row.id = id
    BY DEF row
  <2>2. \A r \in runs' : r \in RunRow /\ r.id <= Cardinality(runs')
    BY <1>1, <1>2, <1>3, <1>4, <1>5, <2>1 DEF RunsKept
  <2>3. \A q, r \in runs' : q.id = r.id => q = r
    BY <1>1, <1>4, <2>1 DEF RunsKept
  <2> QED
    BY <1>5, <2>2, <2>3 DEF RunsKept
<1>7. StateTyped' /\ RunsRegistered' /\ ExecutionsKept' /\ AlertsKept'
  BY <1>1 DEF StateTyped, Registered, RunsRegistered, ExecutionsKept, AlertsKept
<1> QED
  BY <1>6, <1>7

LEMMA FinishRunKeeps ==
  ASSUME RecordsInv, NEW r \in runs, NEW status \in {"SUCCESS", "FAILED"}, FinishRun(r, status)
  PROVE  RecordsInv'
<1> DEFINE row == [r EXCEPT !.status = status]
<1> USE DEF RecordsInv
<1>1. /\ runs' = (runs \ {r}) \cup {row}
      /\ UNCHANGED <<clock, sourceStatus, enabled, executions, alerts>>
  BY DEF FinishRun
<1>2. row \in RunRow /\ row.id = r.id /\ row.pipeline = r.pipeline
  BY DEF RunsKept, RunRow
<1> HIDE DEF row
<1>3. row \notin runs \ {r}
  BY <1>2 DEF RunsKept
<1>4. IsFiniteSet(runs') /\ Cardinality(runs') = Cardinality(runs)
  BY <1>1, <1>3, RowReplaced DEF RunsKept
<1>5. RunsKept'
  <2>1. \A q \in runs' : q \in RunRow /\ q.id <= Cardinality(runs')
    BY <1>1, <1>2, <1>4 DEF RunsKept
  <2>2. \A q, s \in runs' : q.id = s.id => q = s
    BY <1>1, <1>2 DEF RunsKept
  <2> QED
    BY <1>4, <2>1, <2>2 DEF RunsKept
<1>6. \A id : (\E q \in runs : q.id = id) => \E q \in runs' : q.id = id
  BY <1>1, <1>2
<1>7. StateTyped' /\ RunsRegistered' /\ ExecutionsKept' /\ AlertsKept'
  BY <1>1, <1>2, <1>6 DEF StateTyped, Registered, RunsRegistered, ExecutionsKept, AlertsKept
<1> QED
  BY <1>5, <1>7

LEMMA EvaluateKeeps ==
  ASSUME RecordsInv, NEW r \in runs, NEW outcome \in Outcomes, Evaluate(r, outcome)
  PROVE  RecordsInv'
<1> DEFINE row == [run |-> r.id, outcome |-> outcome, at |-> clock]
<1> USE DEF RecordsInv
<1>1. /\ \A x \in executions : x.run # r.id
      /\ executions' = executions \cup {row}
      /\ UNCHANGED <<clock, sourceStatus, enabled, runs, alerts>>
  BY DEF Evaluate
<1>2. row \in ExecutionRow
  BY DEF ExecutionRow, StateTyped, RunsKept, RunRow
<1>3. IsFiniteSet(executions')
  BY <1>1, RowAdded DEF ExecutionsKept
<1>4. ExecutionsKept'
  BY <1>1, <1>2, <1>3 DEF ExecutionsKept
<1>5. StateTyped' /\ RunsKept' /\ RunsRegistered' /\ AlertsKept'
  BY <1>1 DEF StateTyped, Registered, RunsKept, RunsRegistered, AlertsKept
<1> QED
  BY <1>4, <1>5

LEMMA RaiseAlertKeeps ==
  ASSUME RecordsInv, NEW key \in AlertKeys, NEW r \in runs, NEW kind \in AlertKinds,
         NEW execution \in RunIds \cup {NoExecution}, RaiseAlert(key, r, execution, kind)
  PROVE  RecordsInv'
<1> DEFINE row == [key |-> key, run |-> r.id, execution |-> execution, kind |-> kind,
                   active |-> TRUE, seen |-> clock]
<1> USE DEF RecordsInv
<1>1. /\ key = Cardinality(alerts) + 1 /\ alerts' = alerts \cup {row}
      /\ execution # NoExecution =>
           /\ \E x \in executions : x.run = execution
           /\ \A a \in alerts : a.execution # execution
      /\ UNCHANGED <<clock, sourceStatus, enabled, runs, executions>>
  BY DEF RaiseAlert
<1>2. Cardinality(alerts) \in Nat
  BY FS_CardinalityType DEF AlertsKept
<1>3. /\ row \in AlertRow /\ row.key = key /\ row.run = r.id /\ row.execution = execution
  <2>1. execution \in Nat \cup {NoExecution}
    BY <1>1 DEF ExecutionsKept, ExecutionRow
  <2> QED
    BY <1>1, <1>2, <2>1 DEF AlertRow, StateTyped, RunsKept, RunRow
<1> HIDE DEF row
<1>4. \A a \in alerts : a.key \in Nat /\ a.key # key
  BY <1>1, <1>2 DEF AlertsKept, AlertRow
<1>5. IsFiniteSet(alerts') /\ Cardinality(alerts') = Cardinality(alerts) + 1
  BY <1>1, <1>3, <1>4, RowAdded DEF AlertsKept
<1>6. AlertsKept'
  <2>1. \A a \in alerts' : a \in AlertRow /\ a.key <= Cardinality(alerts')
    BY <1>1, <1>2, <1>3, <1>4, <1>5 DEF AlertsKept
  <2>2. \A a, b \in alerts' : a.key = b.key => a = b
    BY <1>1, <1>3, <1>4 DEF AlertsKept
  <2>3. \A a \in alerts' : \E q \in runs' : q.id = a.run
    BY <1>1, <1>3 DEF AlertsKept
  <2>4. \A a \in alerts' : a.execution # NoExecution =>
          \E x \in executions' : x.run = a.execution
    BY <1>1, <1>3 DEF AlertsKept
  <2>5. \A a, b \in alerts' : a.execution = b.execution => a = b \/ a.execution = NoExecution
    BY <1>1, <1>3 DEF AlertsKept
  <2> QED
    BY <1>5, <2>1, <2>2, <2>3, <2>4, <2>5 DEF AlertsKept
<1>7. StateTyped' /\ RunsKept' /\ RunsRegistered' /\ ExecutionsKept'
  BY <1>1 DEF StateTyped, Registered, RunsKept, RunsRegistered, ExecutionsKept
<1> QED
  BY <1>6, <1>7

LEMMA ResolveAlertKeeps ==
  ASSUME RecordsInv, NEW a \in alerts, ResolveAlert(a)
  PROVE  RecordsInv'
<1> DEFINE row == [a EXCEPT !.active = FALSE]
<1> USE DEF RecordsInv
<1>1. /\ alerts' = (alerts \ {a}) \cup {row}
      /\ UNCHANGED <<clock, sourceStatus, enabled, runs, executions>>
  BY DEF ResolveAlert
<1>2. /\ row \in AlertRow /\ row.key = a.key /\ row.run = a.run
      /\ row.execution = a.execution
  BY DEF AlertsKept, AlertRow
<1> HIDE DEF row
<1>3. row \notin alerts \ {a}
  BY <1>2 DEF AlertsKept
<1>4. IsFiniteSet(alerts') /\ Cardinality(alerts') = Cardinality(alerts)
  BY <1>1, <1>3, RowReplaced DEF AlertsKept
<1>5. AlertsKept'
  <2>1. \A b \in alerts' : b \in AlertRow /\ b.key <= Cardinality(alerts')
    BY <1>1, <1>2, <1>4 DEF AlertsKept
  <2>2. \A b, c \in alerts' : b.key = c.key => b = c
    BY <1>1, <1>2 DEF AlertsKept
  <2>3. \A b \in alerts' : \E q \in runs' : q.id = b.run
    BY <1>1, <1>2 DEF AlertsKept
  <2>4. \A b \in alerts' : b.execution # NoExecution =>
          \E x \in executions' : x.run = b.execution
    BY <1>1, <1>2 DEF AlertsKept
  <2>5. \A b, c \in alerts' : b.execution = c.execution => b = c \/ b.execution = NoExecution
    BY <1>1, <1>2 DEF AlertsKept
  <2> QED
    BY <1>4, <2>1, <2>2, <2>3, <2>4, <2>5 DEF AlertsKept
<1>6. StateTyped' /\ RunsKept' /\ RunsRegistered' /\ ExecutionsKept'
  BY <1>1 DEF StateTyped, Registered, RunsKept, RunsRegistered, ExecutionsKept
<1> QED
  BY <1>5, <1>6

LEMMA RegisterPipelineKeeps ==
  ASSUME RecordsInv, NEW p \in Pipelines, NEW on \in BOOLEAN, RegisterPipeline(p, on)
  PROVE  RecordsInv'
<1> USE DEF RecordsInv
<1>1. /\ enabled' = [q \in Registered \cup {p} |-> IF q = p THEN on ELSE enabled[q]]
      /\ UNCHANGED <<clock, sourceStatus, runs, executions, alerts>>
  BY DEF RegisterPipeline
<1>2. Registered' = Registered \cup {p}
  BY <1>1 DEF Registered
<1>3. StateTyped'
  <2>1. \A q \in Registered : enabled[q] \in BOOLEAN
    BY DEF StateTyped
  <2>2. enabled' \in [Registered \cup {p} -> BOOLEAN]
    BY <1>1, <2>1
  <2> QED
    BY <1>1, <1>2, <2>2 DEF StateTyped
<1>4. RunsKept' /\ RunsRegistered' /\ ExecutionsKept' /\ AlertsKept'
  BY <1>1, <1>2 DEF RunsKept, RunsRegistered, ExecutionsKept, AlertsKept
<1> QED
  BY <1>3, <1>4

LEMMA SwitchPipelineKeeps ==
  ASSUME RecordsInv, NEW p \in Pipelines, SwitchPipeline(p)
  PROVE  RecordsInv'
<1> USE DEF RecordsInv
<1>1. /\ p \in Registered /\ enabled' = [enabled EXCEPT ![p] = ~@]
      /\ UNCHANGED <<clock, sourceStatus, runs, executions, alerts>>
  BY DEF SwitchPipeline
<1>2. Registered' = Registered /\ enabled' \in [Registered -> BOOLEAN]
  BY <1>1 DEF Registered, StateTyped
<1>3. StateTyped' /\ RunsKept' /\ RunsRegistered' /\ ExecutionsKept' /\ AlertsKept'
  BY <1>1, <1>2 DEF StateTyped, RunsKept, RunsRegistered, ExecutionsKept, AlertsKept
<1> QED
  BY <1>3

LEMMA WritesKeepRecords ==
  ASSUME RecordsInv, NEW kind, Written(kind)
  PROVE  RecordsInv'
<1>1. ASSUME NEW id \in RunIds, NEW p \in Pipelines, NEW at \in 0..clock, StartRun(id, p, at)
      PROVE  RecordsInv'
  BY <1>1, StartRunKeeps
<1>2. ASSUME NEW r \in runs, FinishRun(r, "SUCCESS") \/ FinishRun(r, "FAILED") PROVE RecordsInv'
  BY <1>2, FinishRunKeeps
<1>3. ASSUME NEW r \in runs, NEW outcome \in Outcomes, Evaluate(r, outcome) PROVE RecordsInv'
  BY <1>3, EvaluateKeeps
<1>4. ASSUME NEW key \in AlertKeys, NEW r \in runs, NEW alertKind \in AlertKinds,
             NEW execution \in RunIds \cup {NoExecution}, RaiseAlert(key, r, execution, alertKind)
      PROVE  RecordsInv'
  BY <1>4, RaiseAlertKeeps
<1>5. ASSUME NEW a \in alerts, ResolveAlert(a) PROVE RecordsInv'
  BY <1>5, ResolveAlertKeeps
<1>6. ASSUME NEW s \in Sources, NEW status \in SourceStatuses, ChangeSource(s, status)
      PROVE  RecordsInv'
  BY <1>6
  DEF ChangeSource, RecordsInv, StateTyped, Registered, RunsKept, RunsRegistered, ExecutionsKept,
      AlertsKept
<1>7. ASSUME NEW p \in Pipelines, NEW on \in BOOLEAN, RegisterPipeline(p, on)
      PROVE  RecordsInv'
  BY <1>7, RegisterPipelineKeeps
<1>8. ASSUME NEW p \in Pipelines, SwitchPipeline(p) PROVE RecordsInv'
  BY <1>8, SwitchPipelineKeeps
<1> QED
  BY <1>1, <1>2, <1>3, <1>4, <1>5, <1>6, <1>7, <1>8 DEF Written

LEMMA TimeKeepsRecords ==
  ASSUME RecordsInv, TimePasses
  PROVE  RecordsInv'
BY DEF TimePasses, RecordsInv, StateTyped, Registered, RunsKept, RunsRegistered, ExecutionsKept,
       AlertsKept

LEMMA ReadersKeepRecords ==
  ASSUME RecordsInv, UNCHANGED records
  PROVE  RecordsInv'
BY DEF records, RecordsInv, StateTyped, Registered, RunsKept, RunsRegistered, ExecutionsKept,
       AlertsKept

\* A pipeline once registered stays so.
LEMMA RegisteredStay ==
  ASSUME RecordsInv, NEW kind, Written(kind)
  PROVE  Registered \subseteq Registered'
<1>1. CASE enabled' = enabled
  BY <1>1 DEF Registered
<1>2. ASSUME NEW p, NEW on, RegisterPipeline(p, on) PROVE Registered \subseteq Registered'
  BY <1>2 DEF RegisterPipeline, Registered
<1>3. ASSUME NEW p, SwitchPipeline(p) PROVE Registered \subseteq Registered'
  BY <1>3 DEF SwitchPipeline, Registered
<1>4. \/ enabled' = enabled
      \/ \E p \in Pipelines, on \in BOOLEAN : RegisterPipeline(p, on)
      \/ \E p \in Pipelines : SwitchPipeline(p)
  BY DEF Written, StartRun, FinishRun, Evaluate, RaiseAlert, ResolveAlert, ChangeSource
<1> QED
  BY <1>1, <1>2, <1>3, <1>4

-----------------------------------------------------------------------------
\* A run is found by its identifier.
LEMMA RunIsFound ==
  ASSUME RunsKept, NEW r \in runs
  PROVE  RunOf(r.id) = r
BY DEF RunsKept, RunOf

\* A pipeline with runs has a latest one, and no other is later.
LEMMA LatestIsLatest ==
  ASSUME RunsKept, NEW p, NEW own, own = {r \in runs : r.pipeline = p}, own # {}
  PROVE  LatestRun(p) \in own /\ \A q \in own \ {LatestRun(p)} : Later(LatestRun(p), q)
<1> DEFINE sorted == InOrder(own, Later)
<1>1. own \in SUBSET runs /\ IsFiniteSet(own)
  BY FS_Subset DEF RunsKept
<1>2. Sorts(sorted, own, Newer(own))
  BY <1>1, LaterSorts DEF RunsKept, RunRow
<1> HIDE DEF sorted
<1>3. Cardinality(own) \in Nat \ {0}
  BY <1>1, FS_CardinalityType, FS_EmptySet
<1>4. 1 \in 1..Len(sorted) /\ sorted[1] \in own
  BY <1>2, <1>3 DEF Sorts
<1>5. ASSUME NEW q \in own \ {sorted[1]} PROVE Later(sorted[1], q)
  <2>1. PICK j \in 1..Len(sorted) : sorted[j] = q
    BY <1>2 DEF Sorts
  <2>2. 1 < j
    BY <2>1, <1>3, <1>2 DEF Sorts
  <2>3. sorted[1] \in Newer(own)[q]
    BY <1>2, <1>4, <2>1, <2>2 DEF Sorts
  <2> QED
    BY <2>3 DEF Newer
<1>6. \E r \in own : \A q \in own \ {r} : Later(r, q)
  BY <1>4, <1>5
<1>7. LatestRun(p) = CHOOSE r \in own : \A q \in own \ {r} : Later(r, q)
  BY DEF LatestRun
<1> QED
  BY <1>6, <1>7

\* The first rule that holds decides.
LEMMA FirstRuleIs ==
  ASSUME NEW rules, DOMAIN rules \subseteq Nat \ {0}, NEW i \in DOMAIN rules,
         rules[i][1], \A j \in 1..(i - 1) : ~rules[j][1]
  PROVE  FirstRule(rules) = rules[i][2]
<1> DEFINE First(n) == rules[n][1] /\ \A j \in 1..(n - 1) : ~rules[j][1]
<1>1. ASSUME NEW n \in DOMAIN rules, First(n) PROVE n = i
  <2>1. n \in Nat /\ i \in Nat /\ n >= 1 /\ i >= 1
    OBVIOUS
  <2>2. ~(n < i) /\ ~(i < n)
    BY <1>1, <2>1
  <2> QED
    BY <2>1, <2>2
<1>2. (CHOOSE n \in DOMAIN rules : First(n)) = i
  BY <1>1
<1> QED
  BY <1>2 DEF FirstRule

\* The status of a pipeline, one case after the other.
LEMMA StatusIs ==
  ASSUME NEW p
  PROVE  LET latest == LatestRun(p)
             severities == {a.kind.severity : a \in ActiveAlerts(p)}
             source == sourceStatus[SourceOf[p]]
         IN OperationalStatus(p) =
              IF ~enabled[p] THEN "DISABLED"
              ELSE IF latest.status = "RUNNING" THEN "RUNNING"
              ELSE IF "CRITICAL" \in severities THEN "FAILED"
              ELSE IF "WARNING" \in severities THEN "WARNING"
              ELSE IF latest.status = "FAILED" \/ source = "DISCONNECTED" THEN "FAILED"
              ELSE IF source \in {"WARNING", "DISABLED"} THEN "WARNING"
              ELSE IF latest.status = "SUCCESS" /\ ~Warned(latest) THEN "HEALTHY" ELSE "WARNING"
<1> DEFINE rules == StatusRules(p)
           latest == LatestRun(p)
           severities == {a.kind.severity : a \in ActiveAlerts(p)}
           source == sourceStatus[SourceOf[p]]
<1>1. DOMAIN rules = 1..10 /\ Len(rules) = 10
  BY DEF StatusRules
<1>2. OperationalStatus(p) = FirstRule(rules)
  BY DEF OperationalStatus
<1>3. /\ rules[1][1] <=> ~enabled[p]
      /\ rules[2][1] <=> latest.status = "RUNNING"
      /\ rules[3][1] <=> "CRITICAL" \in severities
      /\ rules[4][1] <=> "WARNING" \in severities
      /\ rules[5][1] <=> latest.status = "FAILED"
      /\ rules[6][1] <=> source = "DISCONNECTED"
      /\ rules[7][1] <=> source \in {"WARNING", "DISABLED"}
      /\ rules[8][1] <=> latest.status = "SUCCESS" /\ Warned(latest)
      /\ rules[9][1] <=> latest.status = "SUCCESS"
      /\ rules[10][1]
  BY DEF StatusRules
<1>4. /\ rules[1][2] = "DISABLED" /\ rules[2][2] = "RUNNING" /\ rules[3][2] = "FAILED"
      /\ rules[4][2] = "WARNING" /\ rules[5][2] = "FAILED" /\ rules[6][2] = "FAILED"
      /\ rules[7][2] = "WARNING" /\ rules[8][2] = "WARNING" /\ rules[9][2] = "HEALTHY"
      /\ rules[10][2] = "WARNING"
  BY DEF StatusRules
<1> HIDE DEF rules, latest, severities, source
<1>5. PICK i \in 1..10 : rules[i][1] /\ \A j \in 1..(i - 1) : ~rules[j][1]
  BY <1>3
<1>6. OperationalStatus(p) = rules[i][2]
  BY <1>1, <1>2, <1>5, FirstRuleIs
<1> QED
  BY <1>3, <1>4, <1>5, <1>6 DEF latest, severities, source

-----------------------------------------------------------------------------
(* What a write leaves of what was there.                                  *)

\* A run keeps its identifier, its pipeline and its start.
SameRun(q, r) == q.id = r.id /\ q.pipeline = r.pipeline /\ q.started = r.started

LEMMA RunsStay ==
  ASSUME RecordsInv, NEW kind, Written(kind), NEW r \in runs
  PROVE  \E q \in runs' : SameRun(q, r)
<1>1. CASE runs \subseteq runs'
  BY <1>1 DEF SameRun
<1>2. ASSUME NEW f \in runs, NEW status, FinishRun(f, status)
      PROVE  \E q \in runs' : SameRun(q, r)
  <2>1. [f EXCEPT !.status = status] \in runs' /\ runs \ {f} \subseteq runs'
    BY <1>2 DEF FinishRun
  <2>2. SameRun([f EXCEPT !.status = status], f)
    BY DEF SameRun, RecordsInv, RunsKept, RunRow
  <2> QED
    BY <2>1, <2>2 DEF SameRun
<1>3. runs \subseteq runs' \/ \E f \in runs, status \in {"SUCCESS", "FAILED"} : FinishRun(f, status)
  BY DEF Written, StartRun, Evaluate, RaiseAlert, ResolveAlert, ChangeSource, RegisterPipeline,
         SwitchPipeline
<1> QED
  BY <1>1, <1>2, <1>3

\* An execution is never changed.
LEMMA ExecutionsStay ==
  ASSUME NEW kind, Written(kind)
  PROVE  executions \subseteq executions'
BY DEF Written, StartRun, FinishRun, Evaluate, RaiseAlert, ResolveAlert, ChangeSource,
       RegisterPipeline, SwitchPipeline

LEMMA PartIsNotMore ==
  ASSUME NEW part, NEW rows, IsFiniteSet(rows), part \subseteq rows
  PROVE  Cardinality(part) <= Cardinality(rows)
BY FS_Subset

\* A run never has fewer alerts than before, though one may be resolved.
LEMMA AlertsStay ==
  ASSUME RecordsInv, NEW kind, Written(kind), NEW id
  PROVE  Cardinality({a \in alerts : a.run = id}) <= Cardinality({a \in alerts : a.run = id}')
<1> DEFINE Own == {a \in alerts : a.run = id}
<1>1. IsFiniteSet(Own) /\ IsFiniteSet(Own')
  BY FS_Subset, WritesKeepRecords DEF RecordsInv, AlertsKept
<1>2. CASE alerts \subseteq alerts'
  <2>1. Own \subseteq Own'
    BY <1>2
  <2> QED
    BY <1>1, <2>1, PartIsNotMore, Zenon
<1>3. ASSUME NEW a \in alerts, ResolveAlert(a)
      PROVE  Cardinality(Own) <= Cardinality(Own')
  <2> DEFINE row == [a EXCEPT !.active = FALSE]
  <2>1. row.run = a.run /\ row.key = a.key
    BY DEF RecordsInv, AlertsKept, AlertRow
  <2>2. alerts' = (alerts \ {a}) \cup {row}
    BY <1>3 DEF ResolveAlert
  <2> HIDE DEF row
  <2>3. CASE a \in Own
    <3>1. Own' = (Own \ {a}) \cup {row}
      BY <2>1, <2>2, <2>3
    <3>2. row \notin Own \ {a}
      BY <2>1 DEF RecordsInv, AlertsKept
    <3>3. Cardinality((Own \ {a}) \cup {row}) = Cardinality(Own)
      BY <1>1, <2>3, <3>2, RowReplaced
    <3>4. Cardinality(Own) \in Nat
      BY <1>1, FS_CardinalityType
    <3>5. Cardinality(Own') = Cardinality(Own)
      BY <3>1, <3>3, Zenon
    <3> HIDE DEF Own
    <3> QED
      BY <3>4, <3>5
  <2>4. CASE a \notin Own
    <3>1. Own' = Own
      BY <2>1, <2>2, <2>4
    <3>2. Cardinality(Own) \in Nat
      BY <1>1, FS_CardinalityType
    <3> QED
      BY <3>1, <3>2
  <2> QED
    BY <2>3, <2>4
<1>4. alerts \subseteq alerts' \/ \E a \in alerts : ResolveAlert(a)
  BY DEF Written, StartRun, FinishRun, Evaluate, RaiseAlert, ChangeSource, RegisterPipeline,
         SwitchPipeline
<1> QED
  BY <1>2, <1>3, <1>4
=============================================================================
