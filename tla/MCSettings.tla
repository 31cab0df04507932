----------------------------- MODULE MCSettings -----------------------------
(***************************************************************************)
(* A workspace with two environments, one of them its default and in use.  *)
(***************************************************************************)
EXTENDS WorkspaceSettings

CONSTANTS Production, Staging, Corvetra, Warehouse, p, s

TwoEnvironments ==
  [i \in {p, s} |-> IF i = p
                    THEN [key |-> Production, name |-> Corvetra]
                    ELSE [key |-> Staging, name |-> Warehouse]]
ProductionInUse == {p}
=============================================================================
