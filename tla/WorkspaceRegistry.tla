------------------------- MODULE WorkspaceRegistry -------------------------
(***************************************************************************)
(* What the settings endpoints promise about the stored workspace: its     *)
(* environments, its default environment, its name and its other sections. *)
(* Whatever administrators do at the same time, the stored state changes   *)
(* as if each of their requests were one step, and a step that deletes an  *)
(* environment deletes one that is neither the default nor in use.         *)
(***************************************************************************)
CONSTANTS Ids, Keys, Names, BlankNames, Sections, Seeded, SeededDefault,
          SeededInUse, SeededName

VARIABLES
  environments, \* identifier -> key and name of each environment
  inUse,        \* environments that contain resources
  default,      \* the default environment
  name,         \* the workspace's name
  sections      \* notifications, operational defaults

registry == <<environments, inUse, default, name, sections>>

Created(id, key, label) ==
  [i \in DOMAIN environments \cup {id} |->
     IF i = id THEN [key |-> key, name |-> label] ELSE environments[i]]

Without(id) == [i \in DOMAIN environments \ {id} |-> environments[i]]

Start ==
  /\ environments = Seeded
  /\ inUse = SeededInUse
  /\ default = SeededDefault
  /\ name = SeededName
  /\ sections = [s \in Sections |-> SeededName]

\* Keys and names are unique.
Create(id, key, label) ==
  /\ id \notin DOMAIN environments
  /\ \A i \in DOMAIN environments :
       environments[i].key # key /\ environments[i].name # label
  /\ environments' = Created(id, key, label)
  /\ UNCHANGED <<inUse, default, name, sections>>

Delete(id) ==
  /\ id \in DOMAIN environments
  /\ id # default
  /\ id \notin inUse
  /\ environments' = Without(id)
  /\ UNCHANGED <<inUse, default, name, sections>>

Rename(id, label) ==
  /\ id \in DOMAIN environments
  /\ default' = id
  /\ name' = label
  /\ UNCHANGED <<environments, inUse, sections>>

Replace(section, value) ==
  /\ sections' = [sections EXCEPT ![section] = value]
  /\ UNCHANGED <<environments, inUse, default, name>>

Occupy(id) ==
  /\ id \in DOMAIN environments
  /\ inUse' = inUse \cup {id}
  /\ UNCHANGED <<environments, default, name, sections>>

Change ==
  \/ \E id \in Ids, key \in Keys, label \in Names \ BlankNames :
       Create(id, key, label)
  \/ \E id \in Ids : Delete(id) \/ Occupy(id)
  \/ \E id \in Ids, label \in Names \ BlankNames : Rename(id, label)
  \/ \E section \in Sections, value \in Names : Replace(section, value)

RegistrySpec == Start /\ [][Change]_registry
=============================================================================
