--------------------------- MODULE IncidentRules ---------------------------
(***************************************************************************)
(* The pure part of incident detection: what one monitored table's stored  *)
(* measurement, compared with the baseline run's measurement, is reported  *)
(* for (detect_for_table in platform/jobs/detect_data_incidents.py, with   *)
(* the policy of platform/jobs/data_health_config.py).                     *)
(*                                                                         *)
(* The twelve monitored tables are three layers measured in a fixed order: *)
(* raw tables, staging views over them, and marts built by dbt.  One table *)
(* stands for each layer.  Counts and hours are integers; a percentage is  *)
(* compared by cross-multiplication, which is what the float comparison of *)
(* the code decides for row counts below 2^50.                             *)
(***************************************************************************)
EXTENDS Integers

CONSTANTS
  Columns,            \* column names
  DataTypes,          \* column data types
  FreshnessColumn,    \* [Tables -> Columns]: MonitoredTable.freshness_column
  NullContract,       \* [Tables -> SUBSET Columns]: NULL_VALUE_COLUMNS_BY_TABLE
  FreshnessThreshold, \* freshness_threshold_hours
  ChangeThreshold,    \* row_count_change_threshold_percent
  NoColumn,           \* column_name IS NULL
  NoValue             \* MAX(...) of no rows, or an absent metric or snapshot

Tables == {"raw", "staging", "marts"}

\* The tables MONITORED_TABLES lists before a table.
Earlier == [raw |-> {}, staging |-> {"raw"}, marts |-> {"raw", "staging"}]

TableTypes == {"STALE_DATA", "ROW_COUNT_INCREASE", "ROW_COUNT_DECREASE"}

ColumnTypes == {"COLUMN_ADDED", "COLUMN_REMOVED", "DATA_TYPE_CHANGED",
                "NULLABILITY_CHANGED", "NULL_VALUES"}

\* HealthMetric and ColumnShape.
Metrics == [rowCount : Nat, maxFreshness : Nat \cup {NoValue}]
Shapes  == [dataType : DataTypes, nullable : BOOLEAN]
Schemas == UNION {[S -> Shapes] : S \in SUBSET Columns}

\* The columns of a data_incidents row that its identifier is derived from,
\* besides the run.
IncidentKeys ==
  [type : TableTypes, table : Tables, column : {NoColumn}]
    \cup [type : ColumnTypes, table : Tables, column : Columns]

ASSUME RulesAssumption ==
  /\ FreshnessColumn \in [Tables -> Columns]
  /\ NullContract \in [Tables -> (SUBSET Columns) \ {{}}]
  /\ FreshnessThreshold \in Nat
  /\ ChangeThreshold \in Nat
  /\ NoColumn \notin Columns
  /\ NoValue \notin Nat /\ NoValue \notin Schemas

-----------------------------------------------------------------------------
(***************************************************************************)
(* What is wrong with one table.                                           *)
(***************************************************************************)

Stale(metric, now) ==
  /\ metric.maxFreshness # NoValue
  /\ now - metric.maxFreshness > FreshnessThreshold

\* Mutant: the change in percent of the current count.
ExceedsOfCurrent(now, before) ==
  IF now = 0
  THEN before # 0
  ELSE \/ 100 * (now - before) > ChangeThreshold * now
       \/ 100 * (before - now) > ChangeThreshold * now

\* |change_percent| > threshold.  From zero rows any growth is infinite.
CountExceeds(now, before) ==
  IF before = 0
  THEN now # 0
  ELSE \/ 100 * (now - before) > ChangeThreshold * before
       \/ 100 * (before - now) > ChangeThreshold * before

Grew(now, before) == CountExceeds(now, before) /\ now > before

Shrank(now, before) == CountExceeds(now, before) /\ ~(now > before)

\* Mutant: a column is reported either for its type or for its nullability.
DriftedOnce(type, column, schema, before) ==
  \/ /\ type = "COLUMN_ADDED"
     /\ column \in DOMAIN schema \ DOMAIN before
  \/ /\ type = "COLUMN_REMOVED"
     /\ column \in DOMAIN before \ DOMAIN schema
  \/ /\ type = "DATA_TYPE_CHANGED"
     /\ column \in DOMAIN before \cap DOMAIN schema
     /\ before[column].dataType # schema[column].dataType
     /\ before[column].nullable = schema[column].nullable
  \/ /\ type = "NULLABILITY_CHANGED"
     /\ column \in DOMAIN before \cap DOMAIN schema
     /\ before[column].nullable # schema[column].nullable

\* schema is the current snapshot, before the baseline's.
Drifted(type, column, schema, before) ==
  \/ /\ type = "COLUMN_ADDED"
     /\ column \in DOMAIN schema \ DOMAIN before
  \/ /\ type = "COLUMN_REMOVED"
     /\ column \in DOMAIN before \ DOMAIN schema
  \/ /\ type = "DATA_TYPE_CHANGED"
     /\ column \in DOMAIN before \cap DOMAIN schema
     /\ before[column].dataType # schema[column].dataType
  \/ /\ type = "NULLABILITY_CHANGED"
     /\ column \in DOMAIN before \cap DOMAIN schema
     /\ before[column].nullable # schema[column].nullable

(***************************************************************************)
(* The evidence detection has of one table: its own metric and snapshot,   *)
(* the baseline's (NoValue when there is none), the time detection began,  *)
(* and the live NULL counts of the contract columns.                       *)
(***************************************************************************)
Raised(key, e) ==
  \/ key.type = "STALE_DATA" /\ Stale(e.metric, e.now)
  \/ /\ e.baseMetric # NoValue
     /\ \/ /\ key.type = "ROW_COUNT_INCREASE"
           /\ Grew(e.metric.rowCount, e.baseMetric.rowCount)
        \/ /\ key.type = "ROW_COUNT_DECREASE"
           /\ Shrank(e.metric.rowCount, e.baseMetric.rowCount)
  \/ /\ e.baseSchema # NoValue
     /\ Drifted(key.type, key.column, e.schema, e.baseSchema)
  \/ /\ key.type = "NULL_VALUES"
     /\ key.column \in NullContract[key.table]
     /\ e.nulls[key.column] > 0

\* detect_for_table: the incidents of one table.
DetectForTable(table, e) ==
  {key \in IncidentKeys : key.table = table /\ Raised(key, e)}

\* The expected_value and observed_value stored with an incident; NoValue
\* stands for a column that is absent.
Evidence(key, e) ==
  CASE key.type = "STALE_DATA" ->
         <<FreshnessThreshold, e.now - e.metric.maxFreshness>>
    [] key.type \in {"ROW_COUNT_INCREASE", "ROW_COUNT_DECREASE"} ->
         <<e.baseMetric.rowCount, e.metric.rowCount>>
    [] key.type = "COLUMN_ADDED" ->
         <<NoValue, e.schema[key.column].dataType>>
    [] key.type = "COLUMN_REMOVED" ->
         <<e.baseSchema[key.column].dataType, NoValue>>
    [] key.type = "DATA_TYPE_CHANGED" ->
         <<e.baseSchema[key.column].dataType, e.schema[key.column].dataType>>
    [] key.type = "NULLABILITY_CHANGED" ->
         <<e.baseSchema[key.column].nullable, e.schema[key.column].nullable>>
    [] key.type = "NULL_VALUES" -> <<0, e.nulls[key.column]>>
=============================================================================
