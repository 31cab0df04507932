----------------------------- MODULE MCContext -----------------------------
(***************************************************************************)
(* Incidents of every kind of context and of a type without rules.         *)
(***************************************************************************)
EXTENDS IncidentContext

CONSTANTS stale, drift, nulls, growth

MCType == [i \in Incidents |->
  CASE i = stale -> "STALE_DATA"
    [] i = drift -> "DATA_TYPE_CHANGED"
    [] i = nulls -> "NULL_VALUES"
    [] i = growth -> "ROW_COUNT_INCREASE"]

MCRank == [i \in Incidents |->
  CASE i = stale -> 1 [] i = drift -> 2 [] i = nulls -> 3 [] i = growth -> 4]

MCReports == {{stale}, {stale, drift, nulls, growth}}

\* 302 is displayed as 1.01 hours; 301, also more than an hour, as 1.00.
MCAges == {302, 450}
=============================================================================
