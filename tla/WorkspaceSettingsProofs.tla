---------------------- MODULE WorkspaceSettingsProofs ----------------------
(***************************************************************************)
(* Proofs about WorkspaceSettings, for any administrators, environments    *)
(* and seeds: its invariant, and that it implements WorkspaceRegistry.     *)
(***************************************************************************)
EXTENDS WorkspaceSettings, TLAPS

\* The state in which Spec starts satisfies the invariant: the seed's default
\* and resources refer to the seed's environments.
LEMMA InitEstablishes == Init => SettingsInvariant
  BY SettingsAssumption, SMTT(30)
  DEF Init, SettingsInvariant, TypeInvariant, ReferencesHold, ChecksHold,
      Environments, LocksSettings, LocksEnvironment, InTransaction, Phases

LEMMA EnvironmentsAreRows ==
  \A f : f \in Environments <=>
          /\ f = [i \in DOMAIN f |-> f[i]]
          /\ DOMAIN f \subseteq Ids
          /\ \A i \in DOMAIN f : f[i] \in [key : Keys, name : Names]
<1>1. ASSUME NEW f \in Environments
      PROVE  /\ f = [i \in DOMAIN f |-> f[i]]
             /\ DOMAIN f \subseteq Ids
             /\ \A i \in DOMAIN f : f[i] \in [key : Keys, name : Names]
  BY DEF Environments
<1>2. ASSUME NEW f, f = [i \in DOMAIN f |-> f[i]], DOMAIN f \subseteq Ids,
             \A i \in DOMAIN f : f[i] \in [key : Keys, name : Names]
      PROVE  f \in Environments
  <2>1. f \in [DOMAIN f -> [key : Keys, name : Names]]
    BY <1>2
  <2> QED BY <1>2, <2>1 DEF Environments
<1> QED BY <1>1, <1>2

\* An answer ends the request: nothing of it is left that could be wrong.
LEMMA RespondKeeps ==
  ASSUME SettingsInvariant, NEW a \in Admins, NEW response \in Answers,
         Respond(a, response), UNCHANGED stored
  PROVE  SettingsInvariant'
  BY SettingsAssumption, SMTT(30)
  DEF Respond, stored, SettingsInvariant, TypeInvariant, ReferencesHold,
      ChecksHold, LocksSettings, LocksEnvironment, InTransaction, Phases

LEMMA BareIsAnswer ==
  ASSUME NEW code \in Codes
  PROVE  Bare(code) \in Answers
  BY DEF Bare, Answers

LEMMA ErrorIsAnswer ==
  ASSUME NEW a \in Admins
  PROVE  ErrorAnswer(a) \in Answers
  BY BareIsAnswer DEF ErrorAnswer, Codes

\* A step of a handler that reads, locks or waits changes only how far it got.
LEMMA AdvanceKeeps ==
  ASSUME SettingsInvariant, NEW a \in Admins, UNCHANGED stored,
         NEW label \in Phases \ {"locked", "deleting", "updated", "referenced"},
         Advance(a, label), phase[a] # "idle",
         label = "found" => found'[a] \in Ids,
         \/ UNCHANGED handler
         \/ /\ \E id \in Ids : found' = [found EXCEPT ![a] = id]
            /\ busy' \in [Admins -> BOOLEAN]
            /\ UNCHANGED general
         \/ /\ UNCHANGED <<found, busy>>
            /\ general' \in [Admins -> Keys \cup {NoKey}]
  PROVE  SettingsInvariant'
  BY SettingsAssumption, SMTT(60)
  DEF Advance, stored, handler, SettingsInvariant, TypeInvariant,
      ReferencesHold, ChecksHold, LocksSettings, LocksEnvironment,
      InTransaction, Phases

LEMMA ReceiveKeeps ==
  ASSUME SettingsInvariant, NEW a \in Admins, NEW r \in Requests, Receive(a, r)
  PROVE  SettingsInvariant'
  BY SettingsAssumption, SMTT(60)
  DEF Receive, stored, handler, SettingsInvariant, TypeInvariant,
      ReferencesHold, ChecksHold, LocksSettings, LocksEnvironment,
      InTransaction, Phases

-----------------------------------------------------------------------------
LEMMA UpdateGeneralKeeps ==
  ASSUME SettingsInvariant, NEW a \in Admins, UpdateGeneral(a)
  PROVE  SettingsInvariant'
<1>1. CASE request[a].value \in BlankNames
  BY <1>1, RespondKeeps, BareIsAnswer DEF UpdateGeneral, Codes
<1>2. CASE request[a].value \notin BlankNames
  BY <1>2, SettingsAssumption, SMTT(60)
  DEF UpdateGeneral, At, SettingsFree, Advance, stored, handler,
      SettingsInvariant, TypeInvariant, ReferencesHold, ChecksHold,
      LocksSettings, LocksEnvironment, InTransaction, Phases
<1> QED BY <1>1, <1>2

LEMMA ReferenceEnvironmentKeeps ==
  ASSUME SettingsInvariant, NEW a \in Admins, ReferenceEnvironment(a)
  PROVE  SettingsInvariant'
<1>1. CASE found[a] \notin DOMAIN environments
  BY <1>1, RespondKeeps, BareIsAnswer DEF ReferenceEnvironment, Codes
<1>2. CASE found[a] \in DOMAIN environments
  BY <1>2, SettingsAssumption, SMTT(60)
  DEF ReferenceEnvironment, Advance, stored, handler,
      SettingsInvariant, TypeInvariant, ReferencesHold, ChecksHold,
      LocksSettings, LocksEnvironment, InTransaction, Phases
<1> QED BY <1>1, <1>2

\* Nobody else is about to delete an environment: that takes the same lock.
LEMMA CommitGeneralKeeps ==
  ASSUME SettingsInvariant, NEW a \in Admins, CommitGeneral(a)
  PROVE  SettingsInvariant'
<1>1. request[a] \in Requests /\ request[a].kind = "general"
  BY DEF SettingsInvariant, CommitGeneral
<1>2. request[a].value \in Names
  BY <1>1, SettingsAssumption DEF Requests
<1>3. /\ phase[a] = "referenced"
      /\ phase' = [phase EXCEPT ![a] = "committed"]
      /\ default' = found[a]
      /\ name' = request[a].value
      /\ found[a] \in DOMAIN environments
      /\ LocksSettings(a)
      /\ UNCHANGED <<environments, inUse, sections, handler, request, answer,
                     received>>
  BY DEF CommitGeneral, Advance, SettingsInvariant, ChecksHold, LocksSettings,
         InTransaction
<1>4. found[a] \in Ids
  BY <1>3 DEF SettingsInvariant, TypeInvariant, Environments
<1>5. \A b \in Admins \ {a} : phase[b] \notin {"deleting", "updated", "referenced"}
  BY <1>3 DEF SettingsInvariant, LocksSettings, InTransaction
<1>6. TypeInvariant'
  BY <1>2, <1>3, <1>4 DEF SettingsInvariant, TypeInvariant, handler, Phases
<1>7. ReferencesHold'
  BY <1>3 DEF SettingsInvariant, ReferencesHold
<1>8. ChecksHold'
  BY <1>3, <1>5 DEF SettingsInvariant, TypeInvariant, ChecksHold, handler
<1> QED
  BY <1>3, <1>6, <1>7, <1>8, SMTT(30)
  DEF SettingsInvariant, TypeInvariant, handler, LocksSettings,
      LocksEnvironment, InTransaction

LEMMA FindDefaultKeeps ==
  ASSUME SettingsInvariant, NEW a \in Admins, FindDefault(a)
  PROVE  SettingsInvariant'
<1>1. CASE Holding(request[a].key) = {}
  BY <1>1, RespondKeeps, BareIsAnswer DEF FindDefault, Codes
<1>2. CASE Holding(request[a].key) # {}
  <2>1. PICK id \in Holding(request[a].key) : found' = [found EXCEPT ![a] = id]
    BY <1>2 DEF FindDefault
  <2>2. id \in Ids
    BY <2>1 DEF Holding, SettingsInvariant, TypeInvariant, Environments
  <2> QED
    BY <1>2, <2>1, <2>2, AdvanceKeeps
    DEF FindDefault, At, Phases, SettingsInvariant, TypeInvariant
<1> QED BY <1>1, <1>2

LEMMA FindDoomedKeeps ==
  ASSUME SettingsInvariant, NEW a \in Admins, FindDoomed(a)
  PROVE  SettingsInvariant'
<1>1. CASE Holding(request[a].key) = {}
  BY <1>1, RespondKeeps, BareIsAnswer DEF FindDoomed, Codes
<1>2. CASE Holding(request[a].key) # {}
  <2>1. PICK id \in Holding(request[a].key) :
          /\ found' = [found EXCEPT ![a] = id]
          /\ busy' = [busy EXCEPT ![a] = id \in inUse]
    BY <1>2 DEF FindDoomed
  <2>2. id \in Ids
    BY <2>1 DEF Holding, SettingsInvariant, TypeInvariant, Environments
  <2>3. found'[a] \in Ids /\ busy' \in [Admins -> BOOLEAN]
    BY <2>1, <2>2 DEF SettingsInvariant, TypeInvariant
  <2> QED
    BY <1>2, <2>1, <2>2, <2>3, AdvanceKeeps
    DEF FindDoomed, At, Phases
<1> QED BY <1>1, <1>2

\* A row is locked by one deletion at a time.
LEMMA LockEnvironmentKeeps ==
  ASSUME SettingsInvariant, NEW a \in Admins, LockEnvironment(a)
  PROVE  SettingsInvariant'
<1>1. CASE found[a] \notin DOMAIN environments
  BY <1>1, RespondKeeps, BareIsAnswer DEF LockEnvironment, Codes
<1>2. CASE found[a] \in DOMAIN environments
  BY <1>2, SettingsAssumption, SMTT(60)
  DEF LockEnvironment, EnvironmentFree, At, Advance, stored, handler,
      SettingsInvariant, TypeInvariant, ReferencesHold, ChecksHold,
      LocksSettings, LocksEnvironment, InTransaction, Phases
<1> QED BY <1>1, <1>2

LEMMA CheckDoomedKeeps ==
  ASSUME SettingsInvariant, NEW a \in Admins, CheckDoomed(a)
  PROVE  SettingsInvariant'
<1>1. CASE found[a] = default \/ busy[a]
  BY <1>1, RespondKeeps, BareIsAnswer DEF CheckDoomed, Codes
<1>2. CASE found[a] # default /\ ~busy[a]
  BY <1>2, SettingsAssumption, SMTT(60)
  DEF CheckDoomed, SettingsFree, Advance, stored, handler, SettingsInvariant,
      TypeInvariant, ReferencesHold, ChecksHold, LocksSettings,
      LocksEnvironment, InTransaction, Phases
<1> QED BY <1>1, <1>2

\* The environment that disappears is nobody's default and nobody else's to
\* delete, and whoever wants to make it the default has not checked it yet.
LEMMA DeleteEnvironmentKeeps ==
  ASSUME SettingsInvariant, NEW a \in Admins, DeleteEnvironment(a)
  PROVE  SettingsInvariant'
<1>1. CASE Referenced(found[a])
  BY <1>1, RespondKeeps, BareIsAnswer DEF DeleteEnvironment, Codes, stored
<1>2. CASE ~Referenced(found[a])
  <2>1. /\ phase[a] = "deleting"
        /\ phase' = [phase EXCEPT ![a] = "done"]
        /\ environments' = [i \in DOMAIN environments \ {found[a]} |->
                              environments[i]]
        /\ found[a] \in DOMAIN environments
        /\ found[a] # default /\ found[a] \notin inUse
        /\ UNCHANGED <<inUse, default, name, sections, handler, request, answer,
                       received>>
    BY <1>2 DEF DeleteEnvironment, Advance, SettingsInvariant, ChecksHold,
                Referenced
  <2>2. environments' \in Environments /\ found[a] \in Ids
    BY <2>1, EnvironmentsAreRows DEF SettingsInvariant, TypeInvariant
  <2>3. \A b \in Admins \ {a} :
          /\ phase[b] \notin {"deleting", "updated", "referenced"}
          /\ phase[b] = "locked" => found[b] # found[a]
    BY <2>1, <2>2 DEF SettingsInvariant, LocksSettings, LocksEnvironment,
                      InTransaction
  <2>4. TypeInvariant'
    BY <2>1, <2>2 DEF SettingsInvariant, TypeInvariant, handler, Phases
  <2>5. ReferencesHold'
    BY <2>1 DEF SettingsInvariant, ReferencesHold
  <2>6. ChecksHold'
    BY <2>1, <2>3 DEF SettingsInvariant, TypeInvariant, ChecksHold, handler
  <2> QED
    BY <2>1, <2>3, <2>4, <2>5, <2>6, SMTT(30)
    DEF SettingsInvariant, TypeInvariant, handler, LocksSettings,
        LocksEnvironment, InTransaction
<1> QED BY <1>1, <1>2

LEMMA CreateEnvironmentKeeps ==
  ASSUME SettingsInvariant, NEW a \in Admins, CreateEnvironment(a)
  PROVE  SettingsInvariant'
<1>1. CASE Taken(request[a].key, request[a].value)
           \/ request[a].value \in BlankNames
  BY <1>1, RespondKeeps, BareIsAnswer DEF CreateEnvironment, Codes, stored
<1>2. CASE ~( Taken(request[a].key, request[a].value)
              \/ request[a].value \in BlankNames )
  <2>1. PICK id \in Ids \ DOMAIN environments :
          environments' =
            [i \in DOMAIN environments \cup {id} |->
               IF i = id
               THEN [key |-> request[a].key, name |-> request[a].value]
               ELSE environments[i]]
    BY <1>2 DEF CreateEnvironment
  <2>2. request[a].key \in Keys /\ request[a].value \in Names
    BY SettingsAssumption
    DEF CreateEnvironment, At, SettingsInvariant, Requests
  <2>3. environments' \in Environments
    BY <2>1, <2>2, EnvironmentsAreRows DEF SettingsInvariant, TypeInvariant
  <2>4. DOMAIN environments \subseteq DOMAIN environments'
    BY <2>1
  <2>5. ReferencesHold'
    BY <1>2, <2>1, <2>4
    DEF CreateEnvironment, SettingsInvariant, ReferencesHold, Taken
  <2> QED
    BY <1>2, <2>3, <2>4, <2>5, SMTT(60)
    DEF CreateEnvironment, At, Advance, handler, SettingsInvariant,
        TypeInvariant, ChecksHold, LocksSettings, LocksEnvironment,
        InTransaction, Phases
<1> QED BY <1>1, <1>2
-----------------------------------------------------------------------------
\* Every step of Next leaves the invariant true.
LEMMA StepKeeps == SettingsInvariant /\ [Next]_vars => SettingsInvariant'
<1> SUFFICES ASSUME SettingsInvariant, [Next]_vars
             PROVE  SettingsInvariant'
  OBVIOUS
<1>1. ASSUME NEW a \in Admins, Handle(a)
      PROVE  SettingsInvariant'
  <2>1. CASE ReadGeneral(a)
    <3>1. general' \in [Admins -> Keys \cup {NoKey}]
      BY <2>1 DEF ReadGeneral, SettingsInvariant, TypeInvariant, ReferencesHold,
                  Environments
    <3> QED BY <2>1, <3>1, AdvanceKeeps DEF ReadGeneral, Phases
  <2>2. CASE ReadEnvironments(a)
    <3> DEFINE response ==
          [code    |-> "ok",
           default |-> general[a],
           listed  |-> {environments[i].key : i \in DOMAIN environments},
           flagged |-> {environments[i].key :
                          i \in DOMAIN environments \cap {default}}]
    <3>1. response \in Answers
      BY DEF Answers, Codes, SettingsInvariant, TypeInvariant, Environments
    <3> QED BY <2>2, <3>1, RespondKeeps DEF ReadEnvironments
  <2>3. CASE UpdateSection(a)
    <3>1. request[a].value \in Names /\ request[a].kind \in Sections
      BY <2>3, SettingsAssumption
      DEF UpdateSection, At, SettingsInvariant, Requests
    <3> QED
      BY <2>3, <3>1, SMTT(60)
      DEF UpdateSection, At, Advance, handler, SettingsInvariant, TypeInvariant,
          ReferencesHold, ChecksHold, LocksSettings, LocksEnvironment,
          InTransaction, Phases
  <2>4. CASE FindDefault(a)          BY <2>4, FindDefaultKeeps
  <2>5. CASE UpdateGeneral(a)        BY <2>5, UpdateGeneralKeeps
  <2>6. CASE ReferenceEnvironment(a) BY <2>6, ReferenceEnvironmentKeeps
  <2>7. CASE CommitGeneral(a)        BY <2>7, CommitGeneralKeeps
  <2>8. CASE CreateEnvironment(a)    BY <2>8, CreateEnvironmentKeeps
  <2>9. CASE FindDoomed(a)           BY <2>9, FindDoomedKeeps
  <2>10. CASE LockEnvironment(a)     BY <2>10, LockEnvironmentKeeps
  <2>11. CASE CheckDoomed(a)         BY <2>11, CheckDoomedKeeps
  <2>12. CASE DeleteEnvironment(a)   BY <2>12, DeleteEnvironmentKeeps
  <2>13. CASE Confirm(a)
    BY <2>13, RespondKeeps, BareIsAnswer DEF Confirm, Codes
  <2>14. CASE BreakDeadlock(a)
    BY <2>14, RespondKeeps, ErrorIsAnswer DEF BreakDeadlock
  <2> QED
    BY <1>1, <2>1, <2>2, <2>3, <2>4, <2>5, <2>6, <2>7, <2>8, <2>9, <2>10,
       <2>11, <2>12, <2>13, <2>14
    DEF Handle
<1>2. ASSUME NEW a \in Admins, Fail(a)
      PROVE  SettingsInvariant'
  BY <1>2, RespondKeeps, ErrorIsAnswer DEF Fail
<1>3. ASSUME NEW id \in Ids, AddResource(id)
      PROVE  SettingsInvariant'
  BY <1>3, SMTT(60)
  DEF AddResource, handler, SettingsInvariant, TypeInvariant, ReferencesHold,
      ChecksHold, LocksSettings, LocksEnvironment, InTransaction
<1>4. CASE UNCHANGED vars
  BY <1>4, SMTT(60)
  DEF vars, stored, handler, SettingsInvariant, TypeInvariant, ReferencesHold,
      ChecksHold, LocksSettings, LocksEnvironment, InTransaction
<1> QED BY <1>1, <1>2, <1>3, <1>4, ReceiveKeeps DEF Next

\* For any number of administrators, environments and requests: the locks of
\* delete_environment and update_general exclude each other, and what they
\* have checked is still so when they act on it.
THEOREM SettingsAreInvariant == Spec => []SettingsInvariant
  BY InitEstablishes, StepKeeps, PTL DEF Spec

\* The stored default and resources refer to environments that exist.
THEOREM ReferencesAlwaysHold == Spec => []ReferencesHold
<1>1. SettingsInvariant => ReferencesHold
  BY DEF SettingsInvariant
<1> QED BY <1>1, SettingsAreInvariant, PTL

\* A deletion never meets the foreign key of the default environment.
THEOREM ChecksAlwaysHold == Spec => []ChecksHold
<1>1. SettingsInvariant => ChecksHold
  BY DEF SettingsInvariant
<1> QED BY <1>1, SettingsAreInvariant, PTL

-----------------------------------------------------------------------------
(***************************************************************************)
(* Refinement: only four kinds of step change what is stored, and each is  *)
(* a change the registry allows.                                           *)
(***************************************************************************)
LEMMA StepIsChange ==
  ASSUME SettingsInvariant, [Next]_vars
  PROVE  [Registry!Change]_(Registry!registry)
<1> USE DEF Registry!Change, Registry!registry
<1>1. ASSUME NEW a \in Admins, Handle(a)
      PROVE  [Registry!Change]_(Registry!registry)
  <2>1. CASE UNCHANGED stored
    BY <2>1 DEF stored
  <2>2. CASE UpdateSection(a)
    <3>1. request[a].value \in Names /\ request[a].kind \in Sections
      BY <2>2, SettingsAssumption
      DEF UpdateSection, At, SettingsInvariant, Requests
    <3>2. Registry!Replace(request[a].kind, request[a].value)
      BY <2>2 DEF UpdateSection, Registry!Replace
    <3> QED BY <3>1, <3>2
  <2>3. CASE CommitGeneral(a)
    <3>1. /\ request[a].value \in Names \ BlankNames
          /\ found[a] \in DOMAIN environments
          /\ found[a] \in Ids
      BY <2>3, SettingsAssumption
      DEF CommitGeneral, SettingsInvariant, ChecksHold, TypeInvariant,
          Environments, Requests
    <3>2. Registry!Rename(found[a], request[a].value)
      BY <2>3, <3>1 DEF CommitGeneral, Registry!Rename
    <3> QED BY <3>1, <3>2
  <2>4. CASE CreateEnvironment(a) /\ ~UNCHANGED stored
    <3>1. /\ ~Taken(request[a].key, request[a].value)
          /\ request[a].value \notin BlankNames
          /\ request[a].key \in Keys /\ request[a].value \in Names
      BY <2>4, SettingsAssumption
      DEF CreateEnvironment, At, SettingsInvariant, Requests, stored
    <3>2. PICK id \in Ids \ DOMAIN environments :
            environments' =
              [i \in DOMAIN environments \cup {id} |->
                 IF i = id
                 THEN [key |-> request[a].key, name |-> request[a].value]
                 ELSE environments[i]]
      BY <2>4, <3>1 DEF CreateEnvironment
    <3>3. Registry!Create(id, request[a].key, request[a].value)
      BY <2>4, <3>1, <3>2
      DEF CreateEnvironment, Taken, Registry!Create, Registry!Created
    <3> QED BY <3>1, <3>3
  <2>5. CASE DeleteEnvironment(a) /\ ~UNCHANGED stored
    <3>1. /\ ~Referenced(found[a])
          /\ found[a] \in DOMAIN environments
          /\ found[a] \in Ids
      BY <2>5 DEF DeleteEnvironment, SettingsInvariant, ChecksHold,
                  TypeInvariant, Environments, stored
    <3>2. Registry!Delete(found[a])
      BY <2>5, <3>1
      DEF DeleteEnvironment, Referenced, Registry!Delete, Registry!Without
    <3> QED BY <3>1, <3>2
  <2> QED
    BY <1>1, <2>1, <2>2, <2>3, <2>4, <2>5
    DEF Handle, ReadGeneral, ReadEnvironments, FindDefault, UpdateGeneral,
        ReferenceEnvironment, FindDoomed, LockEnvironment, CheckDoomed,
        Confirm, BreakDeadlock
<1>2. ASSUME NEW id \in Ids, AddResource(id)
      PROVE  Registry!Change
  BY <1>2 DEF AddResource, Registry!Occupy
<1>3. ASSUME NEW a \in Admins, Fail(a)
      PROVE  UNCHANGED stored
  BY <1>3 DEF Fail
<1>4. ASSUME NEW a \in Admins, NEW r \in Requests, Receive(a, r)
      PROVE  UNCHANGED stored
  BY <1>4 DEF Receive
<1>5. UNCHANGED vars => UNCHANGED stored
  BY DEF vars
<1> QED BY <1>1, <1>2, <1>3, <1>4, <1>5 DEF Next, stored

\* The stored workspace of any number of concurrent administrators changes as
\* if their requests were handled one at a time.
THEOREM SettingsKeepRegistry == Spec => KeepsRegistry
<1>1. Init => Registry!Start
  BY DEF Init, Registry!Start
<1>2. SettingsInvariant /\ [Next]_vars => [Registry!Change]_(Registry!registry)
  BY StepIsChange
<1> QED
  BY <1>1, <1>2, SettingsAreInvariant, PTL
  DEF Spec, KeepsRegistry, Registry!RegistrySpec

-----------------------------------------------------------------------------
(***************************************************************************)
(* Waiting requests.  The argument: the settings row has one holder, which *)
(* waits only to make an environment the default; the one that has locked  *)
(* that environment waits only for the settings row.  So a circle of waits *)
(* consists of these two.                                                  *)
(***************************************************************************)

\* The next statement of a needs a row that the transaction of b has locked.
WaitsFor(a, b) ==
  /\ a # b
  /\ \/ /\ \/ At(a, Sections, "received")
           \/ At(a, {"general"}, "found")
           \/ phase[a] = "locked"
        /\ LocksSettings(b)
     \/ /\ \/ At(a, {"delete"}, "found")
           \/ phase[a] = "updated" /\ found[a] # default
        /\ LocksEnvironment(b, found[a]) \/ SharesEnvironment(b, found[a])

\* a goes on, be it because PostgreSQL aborts it.
GoesOn(a) ==
  \/ \A b \in Admins : ~WaitsFor(a, b)
  \/ \E b \in Admins : Deadlocked(a, b) \/ Deadlocked(b, a)

\* Whoever is waited for goes on, or waits for one that goes on: there is no
\* circle of waits but those that are broken.
EveryCircleIsBroken ==
  \A a, b \in Admins : WaitsFor(a, b) =>
    GoesOn(b) \/ \E c \in Admins : WaitsFor(b, c) /\ GoesOn(c)

\* A holder of the settings row goes on.
LEMMA SettingsHolderGoesOn ==
  ASSUME SettingsInvariant, NEW b \in Admins, LocksSettings(b)
  PROVE  GoesOn(b)
<1> SUFFICES ASSUME NEW c \in Admins, WaitsFor(b, c) PROVE Deadlocked(b, c)
  BY DEF GoesOn
<1>1. phase[b] = "updated" /\ found[b] # default
  BY DEF WaitsFor, LocksSettings, InTransaction, At
<1>2. LocksEnvironment(c, found[b]) \/ SharesEnvironment(c, found[b])
  BY <1>1 DEF WaitsFor, At
<1>3. ~LocksSettings(c)
  BY DEF SettingsInvariant, WaitsFor
<1>4. LocksEnvironment(c, found[b]) /\ phase[c] = "locked"
  BY <1>2, <1>3 DEF LocksEnvironment, SharesEnvironment, LocksSettings, InTransaction
<1> QED
  BY <1>1, <1>4 DEF Deadlocked

\* Only two requests can wait for each other, and PostgreSQL aborts one of
\* them: whatever administrators ask for, waiting comes to an end.
THEOREM DeadlocksAreBroken == Spec => []EveryCircleIsBroken
<1>1. ASSUME SettingsInvariant PROVE EveryCircleIsBroken
  <2> SUFFICES ASSUME NEW a \in Admins, NEW b \in Admins, WaitsFor(a, b)
               PROVE  GoesOn(b) \/ \E c \in Admins : WaitsFor(b, c) /\ GoesOn(c)
    BY DEF EveryCircleIsBroken
  <2>1. CASE LocksSettings(b)
    BY <1>1, <2>1, SettingsHolderGoesOn
  <2>2. CASE ~LocksSettings(b)
    <3>1. phase[b] = "locked"
      BY <2>2
      DEF WaitsFor, LocksEnvironment, SharesEnvironment, LocksSettings, InTransaction
    <3>2. \A c \in Admins : WaitsFor(b, c) => LocksSettings(c)
      BY <3>1 DEF WaitsFor, At
    <3> QED
      BY <1>1, <3>2, SettingsHolderGoesOn DEF GoesOn
  <2> QED
    BY <2>1, <2>2
<1> QED
  BY <1>1, SettingsAreInvariant, PTL
=============================================================================
