------------------------- MODULE WorkspaceSettings -------------------------
(***************************************************************************)
(* The workspace settings endpoints (routes, services and repositories of  *)
(* settings in platform/api) and the two tables they share in PostgreSQL:  *)
(* metadata.environments and the single row of metadata.workspace_settings.*)
(*                                                                         *)
(* Several administrators send requests at the same time.  A request's     *)
(* statements are READ COMMITTED and each is a step, as is its commit      *)
(* where another transaction can notice the difference.  What a            *)
(* transaction locks follows from how far it got: deletion locks the       *)
(* environment's row, then the settings row; a change of the default locks *)
(* the settings row, then shares the row of the environment it refers to.  *)
(***************************************************************************)
EXTENDS Naturals, FiniteSets

CONSTANTS
  Admins,        \* sessions of administrators
  Ids,           \* environment_id values
  Keys,          \* environment_key values
  Names,         \* names of environments and of the workspace, other values
  BlankNames,    \* names the schemas accept and the CHECK constraints do not
  Sections,      \* notifications, operational-defaults
  Seeded,        \* environments of the seed: [Ids -> key and name], partial
  SeededDefault, \* its default environment
  SeededInUse,   \* its environments with resources
  SeededName,    \* its workspace name, and content of the other sections
  MaxRequests,   \* bound: requests
  NoId, NoKey, NoName, NoRequest, NoAnswer

Environments == UNION {[S -> [key : Keys, name : Names]] : S \in SUBSET Ids}

ASSUME SettingsAssumption ==
  /\ BlankNames \subseteq Names
  /\ Seeded \in Environments
  /\ SeededDefault \in DOMAIN Seeded
  /\ SeededInUse \subseteq DOMAIN Seeded
  /\ \A i, j \in DOMAIN Seeded :
       i # j => Seeded[i].key # Seeded[j].key /\ Seeded[i].name # Seeded[j].name
  /\ SeededName \in Names \ BlankNames
  /\ Sections \cap {"get", "general", "create", "delete"} = {}
  /\ MaxRequests \in Nat
  /\ NoId \notin Ids
  /\ NoKey \notin Keys

\* What the endpoints receive; value is the name or the section's content.
Requests ==
  [kind : {"get"}, key : {NoKey}, value : {NoName}]
    \cup [kind : {"general", "create"}, key : Keys, value : Names]
    \cup [kind : {"delete"}, key : Keys, value : {NoName}]
    \cup [kind : Sections, key : {NoKey}, value : Names]

\* What they answer: the code of an error or "ok", and of the settings in the
\* body the default environment and the environments listed and flagged.
Codes == {"ok", "ENVIRONMENT_NOT_FOUND", "DEFAULT_ENVIRONMENT_REQUIRED",
          "ENVIRONMENT_IN_USE", "ENVIRONMENT_ALREADY_EXISTS", "UNAVAILABLE"}
Answers == [code : Codes, default : Keys \cup {NoKey}, listed : SUBSET Keys,
            flagged : SUBSET Keys]

VARIABLES
  environments, \* metadata.environments: [Ids -> key and name], partial
  inUse,        \* environments some data source, pipeline or event refers to
  default,      \* workspace_settings.default_environment_id
  name,         \* workspace_settings.workspace_name
  sections,     \* its columns for notifications and operational defaults
  request,      \* the request each administrator waits for
  phase,        \* how far it got
  found,        \* the environment it is about
  busy,         \* whether its statement's snapshot counts resources
  general,      \* the default environment its first query read
  answer,       \* the answer to the administrator's last request
  received      \* requests so far: bookkeeping

stored   == <<environments, inUse, default, name, sections>>
handler  == <<found, busy, general>>
vars     == <<stored, handler, request, phase, answer, received>>

Phases == {"idle", "received", "found", "locked", "deleting", "updated",
           "referenced", "committed", "halfRead", "done"}

\* Unique over keys and over names.
Taken(key, label) ==
  \E i \in DOMAIN environments :
    environments[i].key = key \/ environments[i].name = label

Holding(key) == {i \in DOMAIN environments : environments[i].key = key}

-----------------------------------------------------------------------------
(***************************************************************************)
(* Row locks, held until the transaction ends.                             *)
(***************************************************************************)
\* Mutant: the deletion's statements are transactions of their own.
AutocommitTransaction(a) == phase[a] \in {"locked", "updated", "referenced"}

InTransaction(a) == phase[a] \in {"locked", "deleting", "updated", "referenced"}

LocksEnvironment(a, id) ==
  InTransaction(a) /\ phase[a] \in {"locked", "deleting"} /\ found[a] = id

\* The foreign key check of a new default locks the row FOR KEY SHARE.
SharesEnvironment(a, id) ==
  phase[a] = "referenced" /\ found[a] = id /\ id # default

LocksSettings(a) == InTransaction(a) /\ phase[a] # "locked"

EnvironmentFree(a, id) ==
  \A b \in Admins \ {a} : ~LocksEnvironment(b, id) /\ ~SharesEnvironment(b, id)

SettingsFree(a) == \A b \in Admins \ {a} : ~LocksSettings(b)

\* Mutant: resources go with their environment, ON DELETE CASCADE.
ReferencedByDefault(id) == id = default

\* The foreign keys: ON DELETE RESTRICT.
Referenced(id) == id = default \/ id \in inUse

-----------------------------------------------------------------------------
Init ==
  /\ environments = Seeded
  /\ inUse = SeededInUse
  /\ default = SeededDefault
  /\ name = SeededName
  /\ sections = [s \in Sections |-> SeededName]
  /\ request = [a \in Admins |-> NoRequest]
  /\ phase = [a \in Admins |-> "idle"]
  /\ found = [a \in Admins |-> NoId]
  /\ busy = [a \in Admins |-> FALSE]
  /\ general = [a \in Admins |-> NoKey]
  /\ answer = [a \in Admins |-> NoAnswer]
  /\ received = 0

At(a, kinds, label) == phase[a] = label /\ request[a].kind \in kinds

Advance(a, label) ==
  /\ phase' = [phase EXCEPT ![a] = label]
  /\ UNCHANGED <<request, answer, received>>

\* The transaction, if one is open, has ended and the client gets its answer.
Respond(a, response) ==
  /\ phase' = [phase EXCEPT ![a] = "idle"]
  /\ request' = [request EXCEPT ![a] = NoRequest]
  /\ found' = [found EXCEPT ![a] = NoId]
  /\ busy' = [busy EXCEPT ![a] = FALSE]
  /\ general' = [general EXCEPT ![a] = NoKey]
  /\ answer' = [answer EXCEPT ![a] = response]
  /\ UNCHANGED received

Bare(code) == [code |-> code, default |-> NoKey, listed |-> {}, flagged |-> {}]

Receive(a, r) ==
  /\ phase[a] = "idle"
  /\ received < MaxRequests
  /\ received' = received + 1
  /\ request' = [request EXCEPT ![a] = r]
  /\ phase' = [phase EXCEPT ![a] = IF r.kind = "get" THEN "committed" ELSE "received"]
  /\ answer' = [answer EXCEPT ![a] = NoAnswer]
  /\ UNCHANGED <<stored, handler>>

-----------------------------------------------------------------------------
(***************************************************************************)
(* get_settings: two statements, each with a snapshot of its own.          *)
(***************************************************************************)
ReadGeneral(a) ==
  /\ phase[a] = "committed"
  /\ general' = [general EXCEPT ![a] = environments[default].key]
  /\ Advance(a, "halfRead")
  /\ UNCHANGED <<stored, found, busy>>

ReadEnvironments(a) ==
  /\ phase[a] = "halfRead"
  /\ Respond(a, [code    |-> "ok",
                 default |-> general[a],
                 listed  |-> {environments[i].key : i \in DOMAIN environments},
                 flagged |-> {environments[i].key :
                                i \in DOMAIN environments \cap {default}}])
  /\ UNCHANGED stored

(***************************************************************************)
(* update_notifications, update_operational_defaults: one statement that   *)
(* takes one lock; the answer repeats the request.                         *)
(***************************************************************************)
UpdateSection(a) ==
  /\ At(a, Sections, "received")
  /\ SettingsFree(a)
  /\ sections' = [sections EXCEPT ![request[a].kind] = request[a].value]
  /\ Advance(a, "done")
  /\ UNCHANGED <<environments, inUse, default, name, handler>>

(***************************************************************************)
(* update_general: one statement that finds the environment in its         *)
(* snapshot, locks the settings row, and then checks the foreign key.      *)
(***************************************************************************)
FindDefault(a) ==
  /\ At(a, {"general"}, "received")
  /\ IF Holding(request[a].key) = {}
     THEN Respond(a, Bare("ENVIRONMENT_NOT_FOUND"))
     ELSE /\ \E id \in Holding(request[a].key) : found' = [found EXCEPT ![a] = id]
          /\ Advance(a, "found")
          /\ UNCHANGED <<busy, general>>
  /\ UNCHANGED stored

UpdateGeneral(a) ==
  /\ At(a, {"general"}, "found")
  /\ SettingsFree(a)
  /\ IF request[a].value \in BlankNames
     THEN Respond(a, Bare("UNAVAILABLE"))
     ELSE Advance(a, "updated") /\ UNCHANGED handler
  /\ UNCHANGED stored

\* The check needs no lock when the default stays what it was.
ReferenceEnvironment(a) ==
  /\ phase[a] = "updated"
  /\ found[a] = default \/ EnvironmentFree(a, found[a])
  /\ IF found[a] \in DOMAIN environments
     THEN Advance(a, "referenced") /\ UNCHANGED handler
     ELSE Respond(a, Bare("UNAVAILABLE"))
  /\ UNCHANGED stored

CommitGeneral(a) ==
  /\ phase[a] = "referenced"
  /\ default' = found[a]
  /\ name' = request[a].value
  /\ Advance(a, "committed")
  /\ UNCHANGED <<environments, inUse, sections, handler>>

(***************************************************************************)
(* create_environment: an identifier no request has met, unique and CHECK  *)
(* constraints; the route answers every error alike.                       *)
(***************************************************************************)
CreateEnvironment(a) ==
  /\ At(a, {"create"}, "received")
  /\ IF \/ Taken(request[a].key, request[a].value)
        \/ request[a].value \in BlankNames
     THEN /\ Respond(a, Bare("ENVIRONMENT_ALREADY_EXISTS"))
          /\ UNCHANGED environments
     ELSE /\ \E id \in Ids \ DOMAIN environments :
               /\ \A b \in Admins : found[b] # id
               /\ environments' =
                    [i \in DOMAIN environments \cup {id} |->
                       IF i = id
                       THEN [key |-> request[a].key, name |-> request[a].value]
                       ELSE environments[i]]
          /\ Advance(a, "committed")
          /\ UNCHANGED handler
  /\ UNCHANGED <<inUse, default, name, sections>>

(***************************************************************************)
(* delete_environment: SELECT ... FOR UPDATE OF e, w evaluates its         *)
(* snapshot, waits for the two rows in turn, and reads them again; the     *)
(* resource counts stay those of the snapshot.  Then DELETE and commit.    *)
(***************************************************************************)
FindDoomed(a) ==
  /\ At(a, {"delete"}, "received")
  /\ IF Holding(request[a].key) = {}
     THEN Respond(a, Bare("ENVIRONMENT_NOT_FOUND"))
     ELSE /\ \E id \in Holding(request[a].key) :
               /\ found' = [found EXCEPT ![a] = id]
               /\ busy' = [busy EXCEPT ![a] = id \in inUse]
          /\ Advance(a, "found")
          /\ UNCHANGED general
  /\ UNCHANGED stored

LockEnvironment(a) ==
  /\ At(a, {"delete"}, "found")
  /\ EnvironmentFree(a, found[a])
  /\ IF found[a] \in DOMAIN environments
     THEN Advance(a, "locked") /\ UNCHANGED handler
     ELSE Respond(a, Bare("ENVIRONMENT_NOT_FOUND"))
  /\ UNCHANGED stored

CheckDoomed(a) ==
  /\ phase[a] = "locked"
  /\ SettingsFree(a)
  /\ IF found[a] = default
     THEN Respond(a, Bare("DEFAULT_ENVIRONMENT_REQUIRED"))
     ELSE IF busy[a]
     THEN Respond(a, Bare("ENVIRONMENT_IN_USE"))
     ELSE Advance(a, "deleting") /\ UNCHANGED handler
  /\ UNCHANGED stored

DeleteEnvironment(a) ==
  /\ phase[a] = "deleting"
  /\ IF Referenced(found[a])
     THEN Respond(a, Bare("UNAVAILABLE")) /\ UNCHANGED environments
     ELSE /\ environments' = [i \in DOMAIN environments \ {found[a]} |->
                                environments[i]]
          /\ Advance(a, "done")
          /\ UNCHANGED handler
  /\ UNCHANGED <<inUse, default, name, sections>>

\* 204, or the values of the request.
Confirm(a) ==
  /\ phase[a] = "done"
  /\ Respond(a, Bare("ok"))
  /\ UNCHANGED stored

-----------------------------------------------------------------------------
(***************************************************************************)
(* Errors: the pool has no connection in time, the connection is lost, or  *)
(* PostgreSQL aborts a transaction to break a cycle of waiting ones.  An   *)
(* open transaction rolls back; a committed one stays committed.           *)
(***************************************************************************)
ErrorAnswer(a) ==
  Bare(IF request[a].kind = "create"
       THEN "ENVIRONMENT_ALREADY_EXISTS"
       ELSE "UNAVAILABLE")

Fail(a) ==
  /\ phase[a] # "idle"
  /\ Respond(a, ErrorAnswer(a))
  /\ UNCHANGED stored

\* Mutant: nobody breaks a cycle.
NeverDeadlocked(a, b) == FALSE

\* b deletes the environment that a makes the default, and each waits for
\* the row the other one has locked.
Deadlocked(a, b) ==
  /\ phase[a] = "updated"
  /\ found[a] # default
  /\ LocksEnvironment(b, found[a])
  /\ phase[b] = "locked"

BreakDeadlock(a) ==
  /\ \E b \in Admins : Deadlocked(a, b) \/ Deadlocked(b, a)
  /\ Respond(a, ErrorAnswer(a))
  /\ UNCHANGED stored

\* A data source, pipeline or event is added by SQL; its foreign key waits for
\* a row that is being deleted.
AddResource(id) ==
  /\ id \in DOMAIN environments \ inUse
  /\ \A a \in Admins : ~LocksEnvironment(a, id)
  /\ inUse' = inUse \cup {id}
  /\ UNCHANGED <<environments, default, name, sections, handler, request, phase,
                 answer, received>>

Handle(a) ==
  \/ ReadGeneral(a) \/ ReadEnvironments(a)
  \/ UpdateSection(a)
  \/ FindDefault(a) \/ UpdateGeneral(a) \/ ReferenceEnvironment(a)
  \/ CommitGeneral(a)
  \/ CreateEnvironment(a)
  \/ FindDoomed(a) \/ LockEnvironment(a) \/ CheckDoomed(a)
  \/ DeleteEnvironment(a)
  \/ Confirm(a)
  \/ BreakDeadlock(a)

Next ==
  \/ \E a \in Admins, r \in Requests : Receive(a, r)
  \/ \E a \in Admins : Handle(a) \/ Fail(a)
  \/ \E id \in Ids : AddResource(id)

Spec == Init /\ [][Next]_vars

FairSpec == Spec /\ \A a \in Admins : WF_vars(Handle(a))

-----------------------------------------------------------------------------
TypeInvariant ==
  /\ environments \in Environments
  /\ inUse \subseteq Ids
  /\ default \in Ids
  /\ name \in Names
  /\ sections \in [Sections -> Names]
  /\ request \in [Admins -> Requests \cup {NoRequest}]
  /\ phase \in [Admins -> Phases]
  /\ found \in [Admins -> Ids \cup {NoId}]
  /\ busy \in [Admins -> BOOLEAN]
  /\ general \in [Admins -> Keys \cup {NoKey}]
  /\ answer \in [Admins -> Answers \cup {NoAnswer}]
  /\ received \in Nat

\* The stored default and every resource refer to an environment that exists,
\* and no two environments share a key or a name: between any two statements
\* of any requests, so get_settings always finds its row.
ReferencesHold ==
  /\ default \in DOMAIN environments
  /\ inUse \subseteq DOMAIN environments
  /\ \A i, j \in DOMAIN environments :
       i # j => /\ environments[i].key # environments[j].key
                /\ environments[i].name # environments[j].name

\* What delete_environment and update_general have checked is still so when
\* they act on it: an environment about to be deleted exists and is not the
\* default, and one about to become the default exists.
ChecksHold ==
  \A a \in Admins :
    /\ phase[a] = "deleting" => /\ found[a] \in DOMAIN environments
                                /\ found[a] # default
    /\ phase[a] = "referenced" => found[a] \in DOMAIN environments

\* Two requests never hold the settings row, or the same environment's row for
\* update; a request that is being handled is well-formed; and the row a
\* deletion has locked exists.  With the two invariants above it is inductive.
SettingsInvariant ==
  /\ TypeInvariant
  /\ ReferencesHold
  /\ ChecksHold
  /\ \A a, b \in Admins :
       a # b => /\ ~(LocksSettings(a) /\ LocksSettings(b))
                /\ \A id \in Ids :
                     ~(LocksEnvironment(a, id) /\ LocksEnvironment(b, id))
  /\ \A a \in Admins :
       /\ phase[a] # "idle" => request[a] \in Requests
       /\ phase[a] = "locked" => found[a] \in DOMAIN environments
       /\ phase[a] = "updated" => found[a] \in Ids
       /\ phase[a] = "found" => found[a] \in Ids
       /\ phase[a] \in {"updated", "referenced"} =>
            /\ request[a].kind = "general"
            /\ request[a].value \notin BlankNames

\* The stored workspace changes as the registry allows, one request at a time,
\* however the statements of concurrent requests are ordered.
Registry == INSTANCE WorkspaceRegistry
KeepsRegistry == Registry!RegistrySpec

\* Every request is answered: no set of requests waits for each other's rows
\* for ever.
EveryRequestIsAnswered ==
  \A a \in Admins : phase[a] # "idle" ~> phase[a] = "idle"
=============================================================================
