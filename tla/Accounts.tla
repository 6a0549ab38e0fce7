------------------------------- MODULE Accounts -------------------------------
(***************************************************************************)
(* The accounts (Security/UserStore.cs): changed by the requests of the    *)
(* administrators (Api/AdminEndpoints.cs), by each sign-in through a       *)
(* directory (Security/SsoProvisioning.cs) and by `wolflog reset-password` *)
(* (Hosting/Installer.cs).  A request reads the collection, decides, and   *)
(* writes; each of these is one call to the collection, hence one step.    *)
(*                                                                         *)
(* The names of two accounts that a rank puts apart are model values; a    *)
(* role that is not the administrator's counts as "viewer".                *)
(***************************************************************************)
EXTENDS Naturals, FiniteSets

CONSTANTS
    Requests,        \* the requests that may be in progress together
    Names,           \* the names of accounts
    FirstName,       \* the name of the account made at the first start
    DirectoryNames,  \* those of the form of a directory name: with "@" or "\"
    MaxAsked,        \* bound: requests
    Null             \* no account, no change

VARIABLES
    users,           \* the accounts: of each identifier, its record or Null
    gate,            \* the sign-in that holds SsoProvisioning.Gate
    request,         \* of each request: what it asks, what it has read, and its step
    asked,           \* the requests so far; the number of the one that makes an account is its identifier
    \* history
    crossed          \* an account was written while a request outside the gate was deciding

accountVars == <<users, gate, request, asked, crossed>>

UserIds == 0..MaxAsked
Role == {"admin", "viewer"}
User == [name : Names, role : Role, disabled : BOOLEAN, source : {"local", "directory"}]

RequestKinds == {"none", "create", "put", "delete", "reset", "unlock", "provision"}

TypeOK ==
    /\ users \in [UserIds -> User \cup {Null}]
    /\ gate \in Requests \cup {Null}
    /\ request \in [Requests ->
           [kind : RequestKinds, id : UserIds \cup {Null}, name : Names \cup {Null}, actor : UserIds \cup {Null},
            role : Role \cup {Null}, disabled : BOOLEAN \cup {Null}, method : {"ldap", "oidc", Null}, follow : BOOLEAN,
            read : User \cup {Null}, step : {"idle", "read", "count", "write"}]]
    /\ asked \in 0..MaxAsked
    /\ crossed \in BOOLEAN

NoRequest ==
    [kind |-> "none", id |-> Null, name |-> Null, actor |-> Null, role |-> Null, disabled |-> Null,
     method |-> Null, follow |-> FALSE, read |-> Null, step |-> "idle"]

\* The first start: one account, an administrator's.
Init ==
    /\ users = [i \in UserIds |->
           IF i = 0 THEN [name |-> FirstName, role |-> "admin", disabled |-> FALSE, source |-> "local"] ELSE Null]
    /\ gate = Null
    /\ request = [r \in Requests |-> NoRequest]
    /\ asked = 0 /\ crossed = FALSE

Accounts == {i \in UserIds : users[i] # Null}
Admins == {i \in Accounts : users[i].role = "admin" /\ ~users[i].disabled}
Named(name) == {i \in Accounts : users[i].name = name}

Set(r, record) == request' = [request EXCEPT ![r] = record]
Ends(r) == Set(r, NoRequest)

\* A write that another request does not expect: it has read the accounts and is still to write.
Crosses(r) ==
    \E s \in Requests \ {r} :
        /\ request[s].step \in {"count", "write"}
        /\ request[s].kind \notin {"reset"}
        /\ ~(request[s].kind = "provision" /\ request[r].kind = "provision")

-----------------------------------------------------------------------------
\* What is asked.  An administrator's request comes from an account that may make it.

Ask(r, record) ==
    /\ request[r].step = "idle" /\ asked < MaxAsked
    /\ asked' = asked + 1
    /\ Set(r, record)
    /\ UNCHANGED <<users, gate, crossed>>

AskCreate(r) ==
    \E name \in Names, role \in Role :
        Ask(r, [NoRequest EXCEPT !.kind = "create", !.id = asked + 1, !.name = name, !.role = role, !.step = "read"])

AskPut(r) ==
    \E actor \in Admins, id \in Accounts, role \in Role \cup {Null}, disabled \in BOOLEAN \cup {Null} :
        Ask(r, [NoRequest EXCEPT !.kind = "put", !.id = id, !.actor = actor, !.role = role, !.disabled = disabled, !.step = "read"])

AskDelete(r) ==
    \E actor \in Admins, id \in Accounts :
        Ask(r, [NoRequest EXCEPT !.kind = "delete", !.id = id, !.actor = actor, !.step = "read"])

AskReset(r) ==
    \E id \in Accounts : Ask(r, [NoRequest EXCEPT !.kind = "reset", !.id = id, !.step = "write"])

AskUnlock(r) ==
    \E name \in Names : Ask(r, [NoRequest EXCEPT !.kind = "unlock", !.name = name, !.step = "read"])

\* The directory has accepted an identity; role is what its groups give, and follow whether a
\* mapping gives roles that are recomputed at each sign-in.
AskProvision(r) ==
    \E name \in Names, role \in Role \cup {Null}, method \in {"ldap", "oidc"}, follow \in BOOLEAN :
        Ask(r, [NoRequest EXCEPT !.kind = "provision", !.id = asked + 1, !.name = name, !.role = role,
                                 !.method = method, !.follow = follow, !.step = "read"])

-----------------------------------------------------------------------------
\* POST, PUT and DELETE /admin/users, and the two resets of a password.

ReadForCreate(r) ==
    /\ request[r].kind = "create" /\ request[r].step = "read"
    /\ IF Named(request[r].name) # {} THEN Ends(r) ELSE Set(r, [request[r] EXCEPT !.step = "write"])
    /\ UNCHANGED <<users, gate, asked, crossed>>

ReadTarget(r) ==
    /\ request[r].kind \in {"put", "delete"} /\ request[r].step = "read"
    /\ LET target == users[request[r].id] IN
       IF \/ target = Null
          \/ request[r].kind = "delete" /\ request[r].id = request[r].actor
       THEN Ends(r)
       ELSE Set(r, [request[r] EXCEPT !.read = target, !.step = "count"])
    /\ UNCHANGED <<users, gate, asked, crossed>>

\* The request takes an administrator away.
Demotes(q) ==
    /\ q.read.role = "admin"
    /\ \/ q.kind = "delete"
       \/ q.role = "viewer"
       \/ q.disabled = TRUE

CountAdmins(r) ==
    /\ request[r].kind \in {"put", "delete"} /\ request[r].step = "count"
    /\ IF \/ Demotes(request[r]) /\ Cardinality(Admins) = 1
          \/ request[r].id = request[r].actor /\ request[r].disabled = TRUE
       THEN Ends(r) ELSE Set(r, [request[r] EXCEPT !.step = "write"])
    /\ UNCHANGED <<users, gate, asked, crossed>>

ReadForUnlock(r) ==
    /\ request[r].kind = "unlock" /\ request[r].step = "read"
    /\ IF Named(request[r].name) = {} THEN Ends(r)
       ELSE \E id \in Named(request[r].name) : Set(r, [request[r] EXCEPT !.id = id, !.step = "write"])
    /\ UNCHANGED <<users, gate, asked, crossed>>

Changed(user, q) ==
    CASE q.kind = "put" -> [user EXCEPT !.role = IF q.role = Null THEN @ ELSE q.role,
                                        !.disabled = IF q.disabled = Null THEN @ ELSE q.disabled]
      [] q.kind = "reset" -> [user EXCEPT !.source = "local"]
      [] q.kind = "unlock" -> [user EXCEPT !.source = "local", !.disabled = FALSE]
      [] OTHER -> Null

\* Upsert of a new account; Update and Delete of what is there, if it still is.
Write(r) ==
    /\ request[r].kind # "provision" /\ request[r].step = "write"
    /\ LET q == request[r] IN
       users' = [users EXCEPT ![q.id] =
           IF q.kind = "create" THEN [name |-> q.name, role |-> q.role, disabled |-> FALSE, source |-> "local"]
           ELSE IF @ = Null THEN Null ELSE Changed(@, q)]
    /\ crossed' = (crossed \/ Crosses(r))
    /\ Ends(r)
    /\ UNCHANGED <<gate, asked>>

-----------------------------------------------------------------------------
\* SsoProvisioning.Provision, under the gate.

\* Sign-ins that do not wait for each other.
ReadForProvision_noGate(r) ==
    /\ request[r].kind = "provision" /\ request[r].step = "read"
    /\ gate' = r
    /\ IF Named(request[r].name) = {} THEN Set(r, [request[r] EXCEPT !.step = "write"])
       ELSE \E id \in Named(request[r].name) :
                Set(r, [request[r] EXCEPT !.id = id, !.read = users[id], !.step = "count"])
    /\ UNCHANGED <<users, asked, crossed>>

ReadForProvision(r) ==
    /\ request[r].kind = "provision" /\ request[r].step = "read" /\ gate = Null
    /\ gate' = r
    /\ IF Named(request[r].name) = {} THEN Set(r, [request[r] EXCEPT !.step = "write"])
       ELSE \E id \in Named(request[r].name) :
                Set(r, [request[r] EXCEPT !.id = id, !.read = users[id], !.step = "count"])
    /\ UNCHANGED <<users, asked, crossed>>

\* Decide, for an account that exists.
Refused(q) ==
    \/ q.read.source = "local" /\ (q.method = "ldap" \/ q.name \notin DirectoryNames)
    \/ q.read.disabled

\* Only the groups give a role.
GivenRole_groupOnly(q) == q.role

GivenRole(q) == IF q.role # Null THEN q.role ELSE IF q.follow THEN "viewer" ELSE q.read.role

\* The groups decide, even for the last administrator.
Decide_lastAdmin(r) ==
    /\ request[r].kind = "provision" /\ request[r].step = "count"
    /\ LET q == request[r] IN
       IF Refused(q) THEN Ends(r) /\ gate' = Null
       ELSE Set(r, [q EXCEPT !.read.role = GivenRole(q), !.step = "write"]) /\ UNCHANGED gate
    /\ UNCHANGED <<users, asked, crossed>>

Decide(r) ==
    /\ request[r].kind = "provision" /\ request[r].step = "count"
    /\ LET q    == request[r]
           role == IF q.read.role = "admin" /\ GivenRole(q) # "admin" /\ Cardinality(Admins) <= 1
                   THEN "admin" ELSE GivenRole(q)
       IN  IF Refused(q) THEN Ends(r) /\ gate' = Null
           ELSE Set(r, [q EXCEPT !.read.role = role, !.step = "write"]) /\ UNCHANGED gate
    /\ UNCHANGED <<users, asked, crossed>>

\* Upsert of the whole record that was read.
WriteProvisioned(r) ==
    /\ request[r].kind = "provision" /\ request[r].step = "write"
    /\ LET q == request[r] IN
       users' = [users EXCEPT ![q.id] =
           IF q.read # Null THEN q.read
           ELSE [name |-> q.name, role |-> IF q.role = Null THEN "viewer" ELSE q.role,
                 disabled |-> FALSE, source |-> "directory"]]
    /\ crossed' = (crossed \/ Crosses(r))
    /\ gate' = Null
    /\ Ends(r)
    /\ UNCHANGED asked

Next ==
    \E r \in Requests :
        \/ AskCreate(r) \/ AskPut(r) \/ AskDelete(r) \/ AskReset(r) \/ AskUnlock(r) \/ AskProvision(r)
        \/ ReadForCreate(r) \/ ReadTarget(r) \/ CountAdmins(r) \/ ReadForUnlock(r) \/ Write(r)
        \/ ReadForProvision(r) \/ Decide(r) \/ WriteProvisioned(r)

-----------------------------------------------------------------------------
\* AdminEndpoints.cs:74: an active administrator is left, whatever the requests and the sign-ins
\* do, unless one wrote while another was between its count and its write.
AnAdminRemains == crossed \/ Admins # {}

\* SsoProvisioning.cs:18: two sign-ins of the same new account do not make two of them; and a name
\* belongs to one account, unless another request wrote while one was deciding.
OneAccountPerName == crossed \/ \A i, j \in Accounts : users[i].name = users[j].name => i = j

=============================================================================
