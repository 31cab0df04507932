---------------------------- MODULE MCPipeline ----------------------------
(***************************************************************************)
(* Small instances of EcommercePipeline.  Three columns: the freshness     *)
(* column, a contract column and an optional one.  Counts 4 and 8 are 100% *)
(* apart, 4 and 5 are exactly 25%.                                         *)
(***************************************************************************)
EXTENDS PipelineInvariant, TLC

MCColumns         == {"ts", "id", "note"}
MCDataTypes       == {"text", "int"}
MCFreshnessColumn == [t \in Tables |-> "ts"]
MCNullContract    == [t \in Tables |-> {"id"}]

Shape(type)  == [dataType |-> type, nullable |-> TRUE]
FullSchema   == [c \in MCColumns |-> Shape("text")]
CastSchema   == [FullSchema EXCEPT !["note"] = Shape("int")]
Without(column) == [c \in MCColumns \ {column} |-> Shape("text")]

Holding(rows, fresh, schema, missing) ==
  [metric |-> [rowCount |-> rows, maxFreshness |-> fresh],
   schema |-> schema,
   nulls  |-> [c \in MCColumns |-> IF c = "id" THEN missing ELSE 0]]

Small == Holding(4, 0, FullSchema, 0)
Large == Holding(8, 1, FullSchema, 1)

MCOneContent  == {Small}
MCTwoContents == {Small, Large}

\* A staging view keeps the rows and casts a column.
Staged(contents) == [c \in contents |-> [c EXCEPT !.schema = CastSchema]]
MCStagingOne == Staged(MCOneContent)
MCStagingTwo == Staged(MCTwoContents)

\* A mart as its schema.yml describes it; and builds of a project that was
\* changed along with the contents, and lacks the optional, the contract, or
\* the freshness column.
MCMartsOne == [c \in MCOneContent |-> {c}]
MCMartsTwo ==
  [c \in MCTwoContents |->
     IF c = Small
     THEN {c}
     ELSE {[c EXCEPT !.schema = Without(lost)] : lost \in MCColumns}]

\* An operator may say that a run started before all others, and how it ended.
MCGivenRows == [started : {0}, succeeded : BOOLEAN]

MCRunSymmetry == Permutations(Runs)

\* Of two overlapping runs one is retried at a time, in the tasks that add to
\* what an earlier attempt has committed.
Explored ==
  \A r \in Runs : tries[r] > 1 =>
    /\ task[r] \in {"collect_dbt_metadata", "detect_data_incidents"}
    /\ \A q \in Runs : tries[q] > 1 => q = r
=============================================================================
