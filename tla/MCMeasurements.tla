---------------------------- MODULE MCMeasurements ----------------------------
(***************************************************************************)
(* Small instances of SuccessiveMeasurements: every schema of two columns, *)
(* two types and either nullability, and row counts 0 to 13 around the 25% *)
(* threshold, of which 13 to 10 is a fall of less than a quarter.          *)
(***************************************************************************)
EXTENDS SuccessiveMeasurements

MCColumns         == {"id", "note"}
MCDataTypes       == {"text", "int"}
MCFreshnessColumn == [t \in Tables |-> "id"]
MCNullContract    == [t \in Tables |-> {"id"}]

Counted(rows) == [rowCount |-> rows, maxFreshness |-> 0]

MCAllSchemas == [metric : {Counted(4)}, schema : Schemas]

MCAllCounts ==
  [metric : {Counted(n) : n \in 0 .. 13},
   schema : {[c \in {"id"} |-> [dataType |-> "int", nullable |-> FALSE]]}]

MCObservations == MCAllSchemas \cup MCAllCounts
=============================================================================
