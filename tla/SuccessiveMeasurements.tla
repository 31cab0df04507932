----------------------- MODULE SuccessiveMeasurements -----------------------
(***************************************************************************)
(* One monitored table measured by one run after another, each compared    *)
(* with the measurement before it: what the incidents of detect_for_table  *)
(* tell someone who reads only them.  Any observation may follow any       *)
(* other, since the table's rows and columns come from outside.            *)
(***************************************************************************)
EXTENDS IncidentRules

CONSTANTS
  Table,        \* the monitored table
  Observations  \* what one measurement of it may be

ASSUME ObservationsAssumption ==
  /\ Table \in Tables
  /\ Observations \subseteq [metric : Metrics, schema : Schemas]

VARIABLES
  before,  \* the baseline run's measurement
  after    \* the current run's measurement

measurements == <<before, after>>

FirstMeasurements ==
  /\ before \in Observations
  /\ after \in Observations

MeasureAgain ==
  /\ before' = after
  /\ after' \in Observations

Measuring == FirstMeasurements /\ [][MeasureAgain]_measurements

-----------------------------------------------------------------------------
\* The evidence of a fresh table without NULLs.
Compared(now, base) ==
  [metric     |-> [now.metric EXCEPT !.maxFreshness = NoValue],
   schema     |-> now.schema,
   baseMetric |-> base.metric,
   baseSchema |-> base.schema,
   now        |-> 0,
   nulls      |-> [c \in Columns |-> 0]]

Reports == DetectForTable(Table, Compared(after, before))

Reported(types) == {key \in Reports : key.type \in types}

ColumnsOf(keys) == {key.column : key \in keys}

\* What the report says the table looked like before (side 1) or looks like
\* now (side 2), given the types it has on the other side.
Rebuilt(types, side, appearing, disappearing) ==
  LET appeared == ColumnsOf(Reported({appearing}))
      gone     == ColumnsOf(Reported({disappearing}))
      Told(c)  == CHOOSE key \in Reported({appearing, "DATA_TYPE_CHANGED"}) :
                    key.column = c
      told     == ColumnsOf(Reported({appearing, "DATA_TYPE_CHANGED"}))
  IN  [c \in (DOMAIN types \cup appeared) \ gone |->
         IF c \in told
         THEN Evidence(Told(c), Compared(after, before))[side]
         ELSE types[c]]

TypesOf(schema) == [c \in DOMAIN schema |-> schema[c].dataType]

\* The drift incidents of a run, with their expected and observed values, are
\* complete in both directions: applied to the earlier columns and types they
\* yield the later ones, and undone from the later ones the earlier.
DriftReconstructs ==
  /\ Rebuilt(TypesOf(before.schema), 2, "COLUMN_ADDED", "COLUMN_REMOVED")
       = TypesOf(after.schema)
  /\ Rebuilt(TypesOf(after.schema), 1, "COLUMN_REMOVED", "COLUMN_ADDED")
       = TypesOf(before.schema)

\* Whoever was alarmed by a fall is told of the recovery: if going from one
\* count to another is reported as a decrease, going back is reported as an
\* increase.  (The converse fails: 10 to 13 rows is +30%, 13 to 10 only -23%.)
RecoveryIsReported ==
  Shrank(after.metric.rowCount, before.metric.rowCount) =>
    Grew(before.metric.rowCount, after.metric.rowCount)
=============================================================================
