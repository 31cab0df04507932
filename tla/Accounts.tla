------------------------------ MODULE Accounts ------------------------------
(***************************************************************************)
(* The accounts of the API and the logins that turn a password into a      *)
(* token. A token names its account and nothing else: each request reads   *)
(* the account anew. Token expiry is a step that may come at any time.     *)
(* One login of each user at a time is modelled.                           *)
(***************************************************************************)
CONSTANTS
  Users,
  Passwords,
  RoleSets   \* the sets of roles an account may be given

VARIABLES
  account,   \* row of security.users with its roles, per user
  session,   \* what each user's login has reached, and its password
  verified   \* history: credentials held at some moment of the login

accounts == <<account, session, verified>>

DeclaredRoles == {"Admin", "Operator", "ReadOnly"}
WriteRoles == {"Admin", "Operator"}

Row == [active : BOOLEAN, password : Passwords, roles : RoleSets]
NoAccount == [active |-> FALSE]
IsAccount(row) == row # NoAccount

Credentials(row, password) ==
  IsAccount(row) /\ row.active /\ row.password = password

\* Roles and activity are read together, once for each request.
Permits(row, write) ==
  /\ IsAccount(row)
  /\ row.active
  /\ row.roles \cap (IF write THEN WriteRoles ELSE DeclaredRoles) # {}

NoSession == [state |-> "out"]
Sessions == {NoSession} \cup [state : {"asked", "checked", "in"}, password : Passwords]
IsOut(u) == session[u].state = "out"

AccountsInit ==
  /\ account \in [Users -> Row \cup {NoAccount}]
  /\ session = [u \in Users |-> NoSession]
  /\ verified = [u \in Users |-> FALSE]

\* Whatever is waiting for an answer lives through the change of an account.
SetAccount(u, row) ==
  /\ account' = [account EXCEPT ![u] = row]
  /\ verified' = [verified EXCEPT ![u] =
       @ \/ (~IsOut(u) /\ Credentials(row, session[u].password))]
  /\ UNCHANGED session

\* The user and the roles are inserted in one transaction; a name that is
\* taken is refused.
ProvisionUser(u, password, roles) ==
  /\ ~IsAccount(account[u])
  /\ SetAccount(u, [active |-> TRUE, password |-> password, roles |-> roles])

RotatePassword(u, password) ==
  /\ IsAccount(account[u])
  /\ SetAccount(u, [account[u] EXCEPT !.password = password])

\* Activity and roles are changed in the database by hand.
Administer(u, active, roles) ==
  /\ IsAccount(account[u])
  /\ SetAccount(u, [account[u] EXCEPT !.active = active, !.roles = roles])

Authenticate(u, password) ==
  /\ IsOut(u)
  /\ session' = [session EXCEPT ![u] = [state |-> "asked", password |-> password]]
  /\ verified' = [verified EXCEPT ![u] = Credentials(account[u], password)]
  /\ UNCHANGED account

\* Mutant: the password alone.
CheckPassword(u) ==
  /\ session[u].state = "asked"
  /\ IsAccount(account[u])
  /\ account[u].password = session[u].password
  /\ session' = [session EXCEPT ![u].state = "checked"]
  /\ UNCHANGED <<account, verified>>

CheckCredentials(u) ==
  /\ session[u].state = "asked"
  /\ Credentials(account[u], session[u].password)
  /\ session' = [session EXCEPT ![u].state = "checked"]
  /\ UNCHANGED <<account, verified>>

\* The check fails, or the database does: no token either way.
RefuseLogin(u) ==
  /\ session[u].state \in {"asked", "checked"}
  /\ session' = [session EXCEPT ![u] = NoSession]
  /\ verified' = [verified EXCEPT ![u] = FALSE]
  /\ UNCHANGED account

\* The date of the login is stored and the token made from the row read
\* before: the account may have changed since.
IssueToken(u) ==
  /\ session[u].state = "checked"
  /\ session' = [session EXCEPT ![u].state = "in"]
  /\ UNCHANGED <<account, verified>>

TokenExpires(u) ==
  /\ session[u].state = "in"
  /\ session' = [session EXCEPT ![u] = NoSession]
  /\ verified' = [verified EXCEPT ![u] = FALSE]
  /\ UNCHANGED account

AccountStep ==
  \E u \in Users :
    \/ \E password \in Passwords, roles \in RoleSets : ProvisionUser(u, password, roles)
    \/ \E password \in Passwords : RotatePassword(u, password)
    \/ \E roles \in RoleSets, active \in BOOLEAN : Administer(u, active, roles)

LoginStep ==
  \E u \in Users :
    \/ \E password \in Passwords : Authenticate(u, password)
    \/ CheckCredentials(u)
    \/ RefuseLogin(u)
    \/ IssueToken(u)
    \/ TokenExpires(u)

\* Whoever holds a token presented valid credentials of an active account at
\* some moment of its login, also when the account changed between the check
\* and the token.
TokensEarned ==
  \A u \in Users : session[u].state = "in" => verified[u]

\* Why: the check finds what has been true since the login began.
LoginsInvariant ==
  /\ TokensEarned
  /\ \A u \in Users : session[u].state = "checked" => verified[u]
  /\ \A u \in Users :
       session[u].state = "asked" /\ Credentials(account[u], session[u].password)
         => verified[u]
=============================================================================
