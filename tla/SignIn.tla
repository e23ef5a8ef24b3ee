------------------------------- MODULE SignIn -------------------------------
(***************************************************************************)
(* The settings that decide how people sign in: the authentication rows of *)
(* config, the SSO provider with its group mapping and the role catalogue  *)
(* (backend/internal/store/config.go, sso.go, roles.go), the copy of the   *)
(* settings AuthService keeps in memory and the administration handlers    *)
(* that change them (internal/api/auth_admin.go, roles.go, oidc_auth.go).  *)
(*                                                                         *)
(* A handler reads and checks in one step and writes in later ones; several*)
(* run at once, and the process may stop between any two of them.          *)
(***************************************************************************)
EXTENDS Integers, FiniteSets

CONSTANTS
    Requests,     \* administration requests that may be under way at once
    CustomRoles,  \* roles that are not system roles
    MapChoices    \* role sets the provider's group may map to

SystemRoles == {"admin", "user", "operator"}
RoleNames == SystemRoles \cup CustomRoles
Settings == [password : BOOLEAN,       \* ENABLE_PASSWORD_LOGIN; registration is stored with it
             default : RoleNames]      \* DEFAULT_ROLE_ID

ASSUME SignInAssumption ==
    /\ CustomRoles \cap SystemRoles = {}
    /\ MapChoices \subseteq SUBSET RoleNames

VARIABLES
    stored,    \* the settings in config
    settings,  \* AuthService's copy
    provider,  \* sso_providers.enabled and sso_group_role_mappings
    roles,     \* the roles table
    serving,   \* the control-plane process is running
    change,    \* the requests under way: {} or the change still to be written
    clash      \* history: two changes were under way at once

signInVars == <<stored, settings, provider, roles, serving, change, clash>>

Provider == [on : BOOLEAN, map : SUBSET RoleNames]
\* the next write: the config rows, the copy in memory, the provider row, its mapping
SettingsChange == [step : {"store", "apply"}, value : Settings]
ProviderChange == [step : {"row", "map"}, value : Provider]

InitSignIn ==
    /\ stored = [password |-> TRUE, default |-> "user"]
    /\ settings = stored
    /\ provider = [on |-> FALSE, map |-> {}]
    /\ roles = SystemRoles
    /\ serving = TRUE
    /\ change = [q \in Requests |-> {}]
    /\ clash = FALSE

-----------------------------------------------------------------------------

\* a request passes its checks and goes on to its first write
Admit(q, c) ==
    /\ serving
    /\ change[q] = {}
    /\ change' = [change EXCEPT ![q] = {c}]
    /\ clash' = (clash \/ \E k \in Requests : change[k] # {})

HasLoginMethodAlways(password, enabledSSO) == TRUE

HasLoginMethod(password, enabledSSO) == password \/ enabledSSO

\* authSettingsHandler: turning passwords off needs an enabled provider
ChangeSettings(q, value) ==
    /\ value.default \in roles
    /\ HasLoginMethod(value.password, provider.on)
    /\ Admit(q, [step |-> "store", value |-> value])
    /\ UNCHANGED <<stored, settings, provider, roles, serving>>

\* SetAuthenticationSettings: one transaction, refused when the role is gone
StoreSettings(q) ==
    \E c \in change[q] :
        /\ serving /\ c.step = "store"
        /\ IF c.value.default \in roles
           THEN stored' = c.value /\ change' = [change EXCEPT ![q] = {[c EXCEPT !.step = "apply"]}]
           ELSE stored' = stored /\ change' = [change EXCEPT ![q] = {}]
        /\ UNCHANGED <<settings, provider, roles, serving, clash>>

\* the rest of UpdateAuthSettings: the copy in memory follows
ApplySettings(q) ==
    \E c \in change[q] :
        /\ serving /\ c.step = "apply"
        /\ settings' = c.value
        /\ change' = [change EXCEPT ![q] = {}]
        /\ UNCHANGED <<stored, provider, roles, serving, clash>>

\* addAuthProvider: the provider may not be turned off while passwords are off
ChangeProvider(q, value) ==
    /\ ~(provider.on /\ ~value.on /\ ~settings.password)
    /\ Admit(q, [step |-> "row", value |-> value])
    /\ UNCHANGED <<stored, settings, provider, roles, serving>>

\* saveProvider: the row, then the mapping in a transaction of its own
SaveProviderRow(q) ==
    \E c \in change[q] :
        /\ serving /\ c.step = "row"
        /\ provider' = [provider EXCEPT !.on = c.value.on]
        /\ change' = [change EXCEPT ![q] = {[c EXCEPT !.step = "map"]}]
        /\ UNCHANGED <<stored, settings, roles, serving, clash>>

\* ReplaceGroupRoleMappings fails as a whole when a role does not exist
SaveProviderMap(q) ==
    \E c \in change[q] :
        /\ serving /\ c.step = "map"
        /\ provider' = IF c.value.map \subseteq roles THEN [provider EXCEPT !.map = c.value.map] ELSE provider
        /\ change' = [change EXCEPT ![q] = {}]
        /\ UNCHANGED <<stored, settings, roles, serving, clash>>

-----------------------------------------------------------------------------
(* Roles *)

CreateRole(r) ==
    /\ serving
    /\ r \in CustomRoles \ roles
    /\ roles' = roles \cup {r}
    /\ UNCHANGED <<stored, settings, provider, serving, change, clash>>

\* not a system role, and no mapping may refer to it; assignments go with it
DeleteRole(r) ==
    /\ serving
    /\ r \in roles \cap CustomRoles
    /\ r \notin provider.map
    /\ roles' = roles \ {r}
    /\ UNCHANGED <<stored, settings, provider, serving, change, clash>>

-----------------------------------------------------------------------------
(* The process *)

StopSignIn ==
    /\ serving
    /\ serving' = FALSE
    /\ change' = [q \in Requests |-> {}]
    /\ UNCHANGED <<stored, settings, provider, roles, clash>>

\* The system roles are ensured; a default role that does not exist ends the start.
StartSignIn ==
    /\ ~serving
    /\ stored.default \in roles
    /\ serving' = TRUE
    /\ settings' = stored
    /\ roles' = roles \cup SystemRoles
    /\ UNCHANGED <<stored, provider, change, clash>>

NextSignIn ==
    \/ StopSignIn
    \/ StartSignIn
    \/ \E r \in RoleNames : CreateRole(r) \/ DeleteRole(r)
    \/ \E q \in Requests :
        \/ \E value \in Settings : ChangeSettings(q, value)
        \/ StoreSettings(q)
        \/ ApplySettings(q)
        \/ \E on \in BOOLEAN, map \in MapChoices : ChangeProvider(q, [on |-> on, map |-> map])
        \/ SaveProviderRow(q)
        \/ SaveProviderMap(q)

SpecSignIn == InitSignIn /\ [][NextSignIn]_signInVars

-----------------------------------------------------------------------------
(* Properties *)

\* Every variable has its type, and the system roles are always there.
SignInTypeOK ==
    /\ stored \in Settings /\ settings \in Settings
    /\ provider \in Provider
    /\ SystemRoles \subseteq roles /\ roles \subseteq RoleNames
    /\ serving \in BOOLEAN /\ clash \in BOOLEAN
    /\ change \in [Requests -> SUBSET (SettingsChange \cup ProviderChange)]

\* "The API rejects a change that would leave the installation with no login
\* method": unless two changes were under way at once, password login or the
\* provider is enabled, in the tables and as the running process sees it, also
\* after a stop between two writes of a change.
LoginMethodRemains ==
    ~clash => /\ stored.password \/ provider.on
              /\ settings.password \/ provider.on

Applying == \E q \in Requests : \E c \in change[q] : c.step = "apply"

\* A restart never brings back settings an administrator replaced: outside of
\* a change the running process works with the stored ones.
SettingsDurable == serving /\ ~clash /\ ~Applying => settings = stored

\* A group never maps to a role that was deleted, so a sign-in can always
\* assign what the mapping names.
MappedRolesExist == provider.map \subseteq roles

\* However settings, provider and roles are changed and the process restarted,
\* people can sign in by what is stored and get roles that exist.
SignInWorks == LoginMethodRemains /\ SettingsDurable /\ MappedRolesExist
=============================================================================
