------------------------------ MODULE Accounts ------------------------------
(***************************************************************************)
(* Accounts and roles: the tables users, role_assignments,                 *)
(* user_sso_identities and sso_group_role_mappings                         *)
(* (backend/internal/store), and the AuthService of the control plane      *)
(* (internal/api/auth_service.go) with what it keeps in memory: the        *)
(* administrator guard (platform/admin.go) and the configured system       *)
(* administrators.                                                         *)
(*                                                                         *)
(* HTTP requests run concurrently.  A request is a handler that takes the  *)
(* steps of its service method one database statement, transaction or      *)
(* locked section at a time; job[h] is what it has read and what it does   *)
(* next.  A refused request is a handler that goes back to idle.           *)
(*                                                                         *)
(* An account is named by its e-mail address, which is unique.  There is   *)
(* one SSO provider with one group.  Whether an account must be approved   *)
(* is a setting (module SignIn) that may change at any time, so a new      *)
(* account may be active or pending.  Sessions are in module Sessions.     *)
(***************************************************************************)
EXTENDS Integers, FiniteSets

CONSTANTS
    Users,          \* e-mail addresses
    Subjects,       \* identities at the SSO provider
    Handlers,       \* requests that may be under way at once
    Grantable,      \* roles an administrator may grant or revoke
    DefaultRole,    \* DEFAULT_ROLE_ID
    MappingChoices, \* role sets the provider's group may map to
    SystemAdmins,   \* sets of addresses SYSTEM_ADMIN_EMAILS may hold
    Bootstrap       \* addresses of the bootstrap account: at most one

Roles == {"admin", DefaultRole} \cup Grantable

ASSUME AccountsAssumption ==
    /\ IsFiniteSet(Users)
    /\ MappingChoices \subseteq SUBSET Roles
    /\ SystemAdmins \subseteq SUBSET Users
    /\ Bootstrap \subseteq Users

VARIABLES
    status,     \* users.status; "none": no such account
    assigned,   \* role_assignments
    identity,   \* user_sso_identities: the accounts a subject is linked to, at most one
    mapping,    \* sso_group_role_mappings: roles of the provider's group
    up,         \* the control-plane process is running
    sysAdmins,  \* AuthService.systemAdminEmails
    guard,      \* AdministratorGuard.active
    job,        \* the requests under way
    drift       \* history: what has let the guard drift from the tables since the start

accountTables == <<status, assigned, identity, mapping>>
accountMemory == <<up, sysAdmins, guard>>
accountVars == <<accountTables, accountMemory, job, drift>>

-----------------------------------------------------------------------------
(* Rows *)

Sources == {"default", "manual", "system-admin", "sso"}
Assignment == [user : Users, role : Roles, source : Sources]
Ops == {"idle", "provision", "add", "grant", "revoke", "disable", "approve", "approved", "login", "sync"}
Job == [op : Ops,
        user : SUBSET Users,                      \* the account, when the request has one
        role : Roles, exact : BOOLEAN,            \* the role, and whether the request spells it as stored
        flag : BOOLEAN,                           \* what the request read: active, or administrator
        subject : SUBSET Subjects]                \* the SSO identity that signs in

Idle == [op |-> "idle", user |-> {}, role |-> DefaultRole, exact |-> TRUE, flag |-> FALSE, subject |-> {}]

Row(u, r, source) == [user |-> u, role |-> r, source |-> source]
HasRole(u, r) == \E source \in Sources : Row(u, r, source) \in assigned
Admin(u) == status[u] = "active" /\ HasRole(u, "admin")
\* systemAdminEmails[user.Email] || hasSystemAdminAssignment
Protected(u) == u \in sysAdmins \/ Row(u, "admin", "system-admin") \in assigned

Begin(h, next) == up /\ job[h] = Idle /\ job' = [job EXCEPT ![h] = next]
Continue(h, next) == job' = [job EXCEPT ![h] = next]
Done(h) == Continue(h, Idle)
AddNext(h, u) == Continue(h, [Idle EXCEPT !.op = "add", !.user = {u}])
At(h, op, u) == up /\ job[h].op = op /\ job[h].user = {u}

\* Another request is working on the account.
Shared(h, u) == \E k \in Handlers \ {h} : u \in job[k].user
\* What lets the guard drift: requests that overlap on an account, the SSO group
\* and claims, another spelling of the role, a changed configuration, a failed
\* LogoutAll.
Mark(cause) == drift' = (drift \/ cause)

InitAccounts ==
    /\ status = [u \in Users |-> "none"]
    /\ assigned = {}
    /\ identity = [p \in Subjects |-> {}]
    /\ mapping = {}
    /\ up = FALSE
    /\ sysAdmins = {}
    /\ guard = {}
    /\ job = [h \in Handlers |-> Idle]
    /\ drift = FALSE

-----------------------------------------------------------------------------
(* Tables *)

\* INSERT into users with the default role and, for a configured address, the
\* system-administrator assignment
NewAccountRows(u) ==
    {Row(u, DefaultRole, "default")} \cup (IF u \in sysAdmins THEN {Row(u, "admin", "system-admin")} ELSE {})

ProvisionLocal(u, s) ==
    /\ status' = [status EXCEPT ![u] = s]
    /\ assigned' = assigned \cup NewAccountRows(u)

\* UnassignSource(..., "manual")
Unassign(u, r) == assigned' = assigned \ {Row(u, r, "manual")}

\* rows of the role that come from the configuration are replaced by the
\* existing configured accounts
ReplaceSourceAssignments(configured) ==
    {a \in assigned : a.source # "system-admin"}
    \cup {Row(u, "admin", "system-admin") : u \in {u \in configured : status[u] # "none"}}

\* rows the provider gave to the account are replaced by the group's mapping
ReplaceSSOAssignments(u, granted) ==
    {a \in assigned : ~(a.user = u /\ a.source = "sso")} \cup {Row(u, r, "sso") : r \in granted}

\* the last step of saving the provider
ReplaceGroupRoleMappings(granted) ==
    /\ up
    /\ mapping' = granted
    /\ UNCHANGED <<status, assigned, identity, accountMemory, job, drift>>

-----------------------------------------------------------------------------
(* Start-up and crash *)

CrashAccounts ==
    /\ up
    /\ up' = FALSE
    /\ job' = [h \in Handlers |-> Idle]
    /\ UNCHANGED <<accountTables, sysAdmins, guard, drift>>

BootstrapRows(configured) ==
    UNION {{Row(u, "admin", "manual")}
           \cup (IF status[u] = "none" THEN {Row(u, DefaultRole, "default")} ELSE {})
           \cup (IF status[u] = "none" /\ u \in configured THEN {Row(u, "admin", "system-admin")} ELSE {}) :
             u \in Bootstrap}

\* EnsureBootstrap: the bootstrap account exists, is active and an administrator
EnsureBootstrap(configured) ==
    /\ status' = [u \in Users |-> IF u \in Bootstrap THEN "active" ELSE status[u]]
    /\ assigned' = ReplaceSourceAssignments(configured) \cup BootstrapRows(configured)
    /\ guard' = {u \in Users : Admin(u)} \cup Bootstrap

\* The guard is filled with the administrators found before the configured ones are
\* written, and the bootstrap account is ensured.
StartAccounts(configured) ==
    /\ ~up
    /\ up' = TRUE
    /\ sysAdmins' = configured
    /\ EnsureBootstrap(configured)
    /\ drift' = \E u \in Users \ configured : Row(u, "admin", "system-admin") \in assigned
    /\ UNCHANGED <<identity, mapping, job>>

-----------------------------------------------------------------------------
(* New accounts *)

\* registerWithStatus up to the transaction
Register(h, u) ==
    /\ status[u] = "none"
    /\ Begin(h, [Idle EXCEPT !.op = "provision", !.user = {u}])
    /\ Mark(Shared(h, u))
    /\ UNCHANGED <<accountTables, accountMemory>>

\* ProvisionLocal, or ProvisionOIDC with the identity: one transaction, which
\* fails when the address, the identity or the role is no longer there to use;
\* active is what the approval setting asked for
Provision(h, u, active) ==
    LET j == job[h] IN
    /\ At(h, "provision", u)
    /\ IF status[u] = "none" /\ \A p \in j.subject : identity[p] = {}
       THEN /\ ProvisionLocal(u, IF active THEN "active" ELSE "pending")
            /\ identity' = [p \in Subjects |-> IF p \in j.subject THEN {u} ELSE identity[p]]
            /\ IF j.subject # {} THEN Continue(h, [j EXCEPT !.op = "login"])
               ELSE IF active /\ u \in sysAdmins THEN AddNext(h, u)
               ELSE Done(h)
       ELSE Done(h) /\ UNCHANGED <<status, assigned, identity>>
    /\ UNCHANGED <<mapping, accountMemory, drift>>

\* adminGuard.Add as the last step of a request
AddAdministrator(h, u) ==
    /\ At(h, "add", u)
    /\ guard' = guard \cup {u}
    /\ Done(h)
    /\ UNCHANGED <<accountTables, up, sysAdmins, drift>>

-----------------------------------------------------------------------------
(* The guard and the requests that use it *)

GuardRemoveUnchecked(u, mutate) ==
    /\ u \in guard
    /\ mutate
    /\ guard' = guard \ {u}

\* adminGuard.Remove: mutate runs under the guard's lock
GuardRemove(u, mutate) ==
    /\ u \in guard
    /\ Cardinality(guard) > 1
    /\ mutate
    /\ guard' = guard \ {u}

\* adminGuard.Remove when mutate returns an error after its first write
LogoutAllFails(u, mutate) ==
    /\ u \in guard
    /\ Cardinality(guard) > 1
    /\ mutate
    /\ Mark(TRUE)
    /\ UNCHANGED guard

\* Grant: the account and the role are read, the assignment is inserted, the
\* account is added to the guard
GrantRole(h, u, r, exact) ==
    /\ status[u] # "none"
    /\ Begin(h, [Idle EXCEPT !.op = "grant", !.user = {u}, !.role = r, !.exact = exact,
                             !.flag = status[u] = "active"])
    /\ Mark(Shared(h, u))
    /\ UNCHANGED <<accountTables, accountMemory>>

AssignRole(h, u) ==
    LET j == job[h] IN
    /\ At(h, "grant", u)
    /\ assigned' = assigned \cup {Row(u, j.role, "manual")}
    /\ IF j.role = "admin" /\ j.exact /\ j.flag THEN AddNext(h, u) ELSE Done(h)
    /\ UNCHANGED <<status, identity, mapping, accountMemory, drift>>

RevokeRole(h, u, r, exact) ==
    /\ status[u] # "none"
    /\ ~(r = "admin" /\ exact /\ Protected(u))
    /\ HasRole(u, r)
    /\ Begin(h, [Idle EXCEPT !.op = "revoke", !.user = {u}, !.role = r, !.exact = exact])
    /\ Mark(Shared(h, u) \/ ~exact)
    /\ UNCHANGED <<accountTables, accountMemory>>

\* the assignment goes, under the guard's lock when the role is admin; a
\* system administrator or an account without a manual assignment is refused
UnassignRole(h, u) ==
    LET j == job[h]
        manual == Row(u, j.role, "manual") \in assigned IN
    /\ At(h, "revoke", u)
    /\ Done(h)
    /\ \/ /\ j.role = "admin" /\ j.exact /\ manual /\ u \notin sysAdmins
          /\ GuardRemove(u, Unassign(u, j.role))
       \/ /\ ~(j.role = "admin" /\ j.exact) /\ manual
          /\ Unassign(u, j.role)
          /\ UNCHANGED guard
       \/ /\ ~manual \/ (j.role = "admin" /\ j.exact /\ (u \in sysAdmins \/ u \notin guard \/ Cardinality(guard) <= 1))
          /\ UNCHANGED <<assigned, guard>>
    /\ UNCHANGED <<status, identity, mapping, up, sysAdmins, drift>>

\* a system administrator cannot be disabled
MayDisable(u) == status[u] # "none" /\ ~Protected(u)

DisableUser(h, u) ==
    /\ MayDisable(u)
    /\ Begin(h, [Idle EXCEPT !.op = "disable", !.user = {u}, !.flag = HasRole(u, "admin")])
    /\ Mark(Shared(h, u))
    /\ UNCHANGED <<accountTables, accountMemory>>

\* SetEnabled(false) and LogoutAll, under the guard's lock for an administrator.
\* When LogoutAll fails the account is disabled and Remove returns its error
\* before the account leaves the guard.
DisableAccount(h, u) ==
    LET disable == status' = [status EXCEPT ![u] = "disabled"] IN
    /\ At(h, "disable", u)
    /\ Done(h)
    /\ \/ job[h].flag /\ GuardRemove(u, disable) /\ UNCHANGED drift
       \/ job[h].flag /\ LogoutAllFails(u, disable)
       \/ ~job[h].flag /\ disable /\ UNCHANGED <<guard, drift>>
       \/ /\ job[h].flag /\ (u \notin guard \/ Cardinality(guard) <= 1)
          /\ UNCHANGED <<status, guard, drift>>
    /\ UNCHANGED <<assigned, identity, mapping, up, sysAdmins>>

\* ApproveUser: an active account is left alone; otherwise its status is set,
\* then its roles are read and an administrator joins the guard
ApproveUser(h, u) ==
    /\ status[u] \in {"pending", "disabled"}
    /\ Begin(h, [Idle EXCEPT !.op = "approve", !.user = {u}])
    /\ Mark(Shared(h, u))
    /\ UNCHANGED <<accountTables, accountMemory>>

ApproveAccount(h, u) ==
    /\ At(h, "approve", u)
    /\ status' = [status EXCEPT ![u] = "active"]
    /\ Continue(h, [job[h] EXCEPT !.op = "approved"])
    /\ UNCHANGED <<assigned, identity, mapping, accountMemory, drift>>

ApproveReadsRoles(h, u) ==
    /\ At(h, "approved", u)
    /\ IF HasRole(u, "admin") \/ (Protected(u) /\ \E r \in Roles : HasRole(u, r))
       THEN AddNext(h, u)
       ELSE Done(h)
    /\ UNCHANGED <<accountTables, accountMemory, drift>>

-----------------------------------------------------------------------------
(* Single sign-on *)

\* loginOIDC: the identity is looked up; an unknown one may be provisioned for
\* the address in its claims
LoginOIDC(h, p, claimed) ==
    LET signIn == [Idle EXCEPT !.op = "login", !.user = identity[p], !.subject = {p},
                               !.exact = claimed \in sysAdmins]
        create == [signIn EXCEPT !.op = "provision", !.user = {claimed}] IN
    /\ \/ identity[p] # {} /\ Begin(h, signIn)
       \/ identity[p] = {} /\ status[claimed] = "none" /\ Begin(h, create)
    /\ Mark(\/ \E u \in job'[h].user : Shared(h, u)
            \/ claimed \in sysAdmins /\ claimed \notin job'[h].user)
    /\ UNCHANGED <<accountTables, accountMemory>>

\* The account must be active; a configured address joins the guard.
AdmitOIDC(h, u) ==
    /\ At(h, "login", u)
    /\ IF status[u] = "active"
       THEN /\ guard' = IF job[h].exact THEN guard \cup {u} ELSE guard
            /\ Continue(h, [Idle EXCEPT !.op = "sync", !.user = {u}])
       ELSE Done(h) /\ UNCHANGED guard
    /\ UNCHANGED <<accountTables, up, sysAdmins, drift>>

\* syncOIDCRoleAssignments, for claims that name the group or not; the guard is
\* not told
SyncOIDC(h, u, group) ==
    /\ At(h, "sync", u)
    /\ assigned' = ReplaceSSOAssignments(u, IF group THEN mapping ELSE {})
    /\ Done(h)
    /\ Mark(Row(u, "admin", "sso") \in assigned \ assigned')
    /\ UNCHANGED <<status, identity, mapping, accountMemory>>

LinkAnyway(u, p) ==
    /\ up /\ status[u] # "none"
    /\ identity' = [identity EXCEPT ![p] = @ \cup {u}]
    /\ UNCHANGED <<status, assigned, mapping, accountMemory, job, drift>>

\* UNIQUE (provider_id, provider_subject) decides between concurrent links
LinkOIDC(u, p) ==
    /\ up /\ status[u] # "none"
    /\ identity[p] = {}
    /\ identity' = [identity EXCEPT ![p] = {u}]
    /\ UNCHANGED <<status, assigned, mapping, accountMemory, job, drift>>

UnlinkOIDC(u, p) ==
    /\ up
    /\ identity[p] = {u}
    /\ identity' = [identity EXCEPT ![p] = {}]
    /\ UNCHANGED <<status, assigned, mapping, accountMemory, job, drift>>

-----------------------------------------------------------------------------

NextAccounts ==
    \/ CrashAccounts
    \/ \E configured \in SystemAdmins : StartAccounts(configured)
    \/ \E granted \in MappingChoices : ReplaceGroupRoleMappings(granted)
    \/ \E u \in Users, p \in Subjects : LinkOIDC(u, p) \/ UnlinkOIDC(u, p)
    \/ \E h \in Handlers :
        \/ \E u \in Users :
            \/ Register(h, u)
            \/ \E active \in BOOLEAN : Provision(h, u, active)
            \/ AddAdministrator(h, u)
            \/ \E r \in Grantable, exact \in BOOLEAN : GrantRole(h, u, r, exact) \/ RevokeRole(h, u, r, exact)
            \/ AssignRole(h, u)
            \/ UnassignRole(h, u)
            \/ DisableUser(h, u)
            \/ DisableAccount(h, u)
            \/ ApproveUser(h, u)
            \/ ApproveAccount(h, u)
            \/ ApproveReadsRoles(h, u)
            \/ \E p \in Subjects : LoginOIDC(h, p, u)
            \/ AdmitOIDC(h, u)
            \/ \E group \in BOOLEAN : SyncOIDC(h, u, group)

SpecAccounts == InitAccounts /\ [][NextAccounts]_accountVars

-----------------------------------------------------------------------------
(* Properties *)

\* Every table and every field of the service has its type, and an SSO identity
\* belongs to one account at most.
AccountsTypeOK ==
    /\ status \in [Users -> {"none", "active", "pending", "disabled"}]
    /\ assigned \subseteq Assignment
    /\ identity \in [Subjects -> SUBSET Users]
    /\ \A p \in Subjects : Cardinality(identity[p]) <= 1
    /\ mapping \subseteq Roles
    /\ up \in BOOLEAN
    /\ sysAdmins \subseteq Users /\ guard \subseteq Users
    /\ job \in [Handlers -> Job]
    /\ drift \in BOOLEAN

\* The guard counts real administrators only: as long as no two requests were
\* under way for one account, no sessions of a disabled account failed to be
\* revoked (it then stays in the guard), and neither the SSO group, the claims,
\* another spelling of the role nor a changed configuration interfered since the
\* start, everyone in the guard is an active account with the admin role.
\* Requests for different accounts, crashes and restarts may interleave at will.
GuardCountsAdmins ==
    up /\ ~drift => \A u \in guard : Admin(u)

SomeAdministrator == \E u \in Users : Admin(u)

\* "The administrator guard prevents removing the last administrator": under
\* the same condition no step leaves an installation that has an active
\* administrator without one, also when two requests each remove one of two.
\* Without the condition one may: an account that was disabled while its sessions
\* could not be revoked still counts, and the last real administrator can go.
LastAdministratorStays ==
    [][up /\ up' /\ ~drift' /\ SomeAdministrator => SomeAdministrator']_accountVars

SystemAdminRow == \A u \in sysAdmins : status[u] # "none" => Row(u, "admin", "system-admin") \in assigned

\* A configured system administrator has the admin role from the moment the
\* account exists, whatever requests interleave, by which way it was created
\* and whatever is revoked, synchronised or deleted.
SystemAdminsKept == up => SystemAdminRow

\* An active system administrator is never disabled while it is configured.
SystemAdminsStayActive ==
    [][\A u \in sysAdmins \cap sysAdmins' : status[u] = "active" => status'[u] = "active"]_accountVars

\* What the guard and the configuration promise of administrators: an
\* installation keeps one, and a configured one keeps the role and the account.
AdministratorsRemain ==
    /\ [](GuardCountsAdmins /\ SystemAdminsKept)
    /\ LastAdministratorStays /\ SystemAdminsStayActive
=============================================================================
