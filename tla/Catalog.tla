------------------------------ MODULE Catalog -------------------------------
(***************************************************************************)
(* What a run is made from: tasks and their versions (store/tasks.go,      *)
(* api/operations.go), the global variables they mention                   *)
(* (store/global_variables.go) and the named secrets they refer to         *)
(* (store/encrypted_secrets.go, api/secrets.go), whose values are in       *)
(* SecretDelivery.                                                         *)
(*                                                                         *)
(* A version request is a transaction that holds the task's row; what it   *)
(* checked before and what it has not committed is what the others can     *)
(* disturb.  Of a definition only the names of variables in its command    *)
(* and environment and its secrets are kept.  A field that a request may   *)
(* leave out is a set with at most one member.                             *)
(***************************************************************************)
EXTENDS Integers, Sequences, FiniteSets

CONSTANTS
    Tasks,
    Variables,   \* rows of global_variables
    Names,       \* what they may be called
    Secrets,     \* rows of encrypted_secrets
    Edits,       \* requests to create a task or a version
    Definitions, \* the task definitions requests may carry
    MaxVersions  \* bound: versions of a task

ASSUME CatalogAssumption == MaxVersions \in Nat

VARIABLES
    task,        \* tasks, task_versions and global_variable_references
    variable,    \* global_variables: the variable's name; {}: no row
    named,       \* the rows of encrypted_secrets
    edit,        \* requests under way
    renamed,     \* history: variables renamed while a transaction referred to them
    removed      \* history: secrets deleted while a request that named them was under way

catalogVars == <<task, variable, named, edit, renamed, removed>>

-----------------------------------------------------------------------------
(* Rows *)

Definition == [command : SUBSET Names,                \* required
               environment : SUBSET (SUBSET Names),   \* {}: left out
               secrets : SUBSET (SUBSET Secrets)]     \* {}: left out
Version == [command : SUBSET Names, environment : SUBSET Names, secrets : SUBSET Secrets,
            references : SUBSET Variables]
ASSUME TaskDefinitionsAssumption == Definitions \subseteq Definition

TaskRow == [state : {"none", "live", "deleted"}, versions : Seq(Version)]

EditRow == [phase : {"idle", "checked", "open"}, task : SUBSET Tasks,
            definition : SUBSET Definition, version : SUBSET Version]
NoEdit == [phase |-> "idle", task |-> {}, definition |-> {}, version |-> {}]

LiveTask(t) == task[t].state = "live"
Newest(t) == task[t].versions[Len(task[t].versions)]
Mentions(d) == d.command \cup d.environment
Rows(t) == {task[t].versions[i] : i \in DOMAIN task[t].versions}
Referenced(v) == \E t \in Tasks : \E r \in Rows(t) : v \in r.references
OpenOn(t) == \E q \in Edits : edit[q].phase = "open" /\ t \in edit[q].task
PendingReference(v) == \E q \in Edits : \E r \in edit[q].version : v \in r.references
SetEdit(q, row) == edit' = [edit EXCEPT ![q] = row]

InitCatalog ==
    /\ task = [t \in Tasks |-> [state |-> "none", versions |-> << >>]]
    /\ variable = [v \in Variables |-> {}]
    /\ named = {}
    /\ edit = [q \in Edits |-> NoEdit]
    /\ renamed = {} /\ removed = {}

-----------------------------------------------------------------------------
(* Tasks *)

\* only the secrets the request itself names
ValidateTaskSecretIDs(d) == UNION d.secrets \subseteq named

\* taskCollection POST (a new task), taskVersionPath (a new version)
CheckDefinition(q, t, d) ==
    /\ edit[q].phase = "idle"
    /\ Len(task[t].versions) < MaxVersions
    /\ ValidateTaskSecretIDs(d)
    /\ SetEdit(q, [phase |-> "checked", task |-> {t}, definition |-> {d}, version |-> {}])
    /\ UNCHANGED <<task, variable, named, renamed, removed>>

\* loadPreviousTaskDefinition; normalizeTaskMaps for a new task
Previous(t) == IF task[t].versions = << >> THEN [environment |-> {}, secrets |-> {}]
               ELSE [environment |-> Newest(t).environment, secrets |-> Newest(t).secrets]

\* inheritTaskMaps
Inherit(asked, previous) == IF asked # {} THEN UNION asked ELSE previous

\* recordGlobalVariableReferences: every name mentioned must be defined
ReferencesOf(names) == {v \in Variables : variable[v] \cap names # {}}

NewVersion(t, d) ==
    LET environment == Inherit(d.environment, Previous(t).environment) IN
    [command |-> d.command, environment |-> environment,
     secrets |-> Inherit(d.secrets, Previous(t).secrets),
     references |-> ReferencesOf(d.command \cup environment)]

Defined(names) == names \subseteq UNION {variable[v] : v \in Variables}

\* The transaction up to its last insert: it waits for the task's row, and is
\* rolled back when the task is gone or a variable is not defined.
OpenVersion(q, t) ==
    /\ edit[q].phase = "checked" /\ edit[q].task = {t}
    /\ ~OpenOn(t)
    /\ \E d \in edit[q].definition :
        LET row == NewVersion(t, d) IN
        SetEdit(q, IF task[t].state # "deleted" /\ Len(task[t].versions) < MaxVersions /\ Defined(Mentions(row))
                   THEN [edit[q] EXCEPT !.phase = "open", !.version = {row}]
                   ELSE NoEdit)
    /\ UNCHANGED <<task, variable, named, renamed, removed>>

\* Create, CreateVersion: COMMIT; the new version is current
CommitVersion(q, t) ==
    /\ edit[q].phase = "open" /\ edit[q].task = {t}
    /\ \E row \in edit[q].version :
        task' = [task EXCEPT ![t] = [state |-> "live", versions |-> Append(@.versions, row)]]
    /\ SetEdit(q, NoEdit)
    /\ UNCHANGED <<variable, named, renamed, removed>>

\* any error: the pool is gone, the database or the process fails
AbandonEdit(q) ==
    /\ edit[q].phase # "idle"
    /\ SetEdit(q, NoEdit)
    /\ UNCHANGED <<task, variable, named, renamed, removed>>

\* TaskStore.Delete: versions and references stay, waiting runs are cancelled
DeleteTask(t) ==
    /\ LiveTask(t) /\ ~OpenOn(t)
    /\ task' = [task EXCEPT ![t].state = "deleted"]
    /\ UNCHANGED <<variable, named, edit, renamed, removed>>

-----------------------------------------------------------------------------
(* Global variables *)

\* the unique index on the name
NameFree(v, n) == \A w \in Variables \ {v} : n \notin variable[w]

CreateVariable(v, n) ==
    /\ variable[v] = {} /\ NameFree(v, n)
    /\ variable' = [variable EXCEPT ![v] = {n}]
    /\ UNCHANGED <<task, named, edit, renamed, removed>>

MayRenameAlways(v) == TRUE

\* NOT EXISTS (references): it sees committed rows only
MayRename(v) == ~Referenced(v)

\* The new name is in no key, so the update does not wait for a transaction
\* that has just referred to the row.
UpdateVariable(v, n) ==
    /\ variable[v] \notin {{}, {n}} /\ NameFree(v, n)
    /\ MayRename(v)
    /\ variable' = [variable EXCEPT ![v] = {n}]
    /\ renamed' = renamed \cup {w \in {v} : PendingReference(w)}
    /\ UNCHANGED <<task, named, edit, removed>>

\* The foreign key restricts, and waits for an uncommitted reference.
DeleteVariable(v) ==
    /\ variable[v] # {} /\ ~Referenced(v) /\ ~PendingReference(v)
    /\ variable' = [variable EXCEPT ![v] = {}]
    /\ UNCHANGED <<task, named, edit, renamed, removed>>

-----------------------------------------------------------------------------
(* Secrets *)

UpsertSecret(s) ==
    /\ s \notin named
    /\ named' = named \cup {s}
    /\ UNCHANGED <<task, variable, edit, renamed, removed>>

\* current versions of tasks that are not deleted
InUse(s) == \E t \in Tasks : LiveTask(t) /\ s \in Newest(t).secrets

DeleteSecret(s) ==
    /\ s \in named /\ ~InUse(s)
    /\ named' = named \ {s}
    /\ removed' = removed \cup {x \in {s} : \E q \in Edits : \E d \in edit[q].definition : x \in UNION d.secrets}
    /\ UNCHANGED <<task, variable, edit, renamed>>

-----------------------------------------------------------------------------

NextCatalog ==
    \/ \E q \in Edits, t \in Tasks : \/ \E d \in Definitions : CheckDefinition(q, t, d)
                                     \/ OpenVersion(q, t) \/ CommitVersion(q, t)
    \/ \E q \in Edits : AbandonEdit(q)
    \/ \E t \in Tasks : DeleteTask(t)
    \/ \E v \in Variables, n \in Names : CreateVariable(v, n) \/ UpdateVariable(v, n)
    \/ \E v \in Variables : DeleteVariable(v)
    \/ \E s \in Secrets : UpsertSecret(s) \/ DeleteSecret(s)

SpecCatalog == InitCatalog /\ [][NextCatalog]_catalogVars

-----------------------------------------------------------------------------
(* Properties *)

\* Every table and every request has its type; a task row is there once a
\* version of it is, and no two variables share a name.
CatalogTypeOK ==
    /\ task \in [Tasks -> TaskRow]
    /\ variable \in [Variables -> SUBSET Names]
    /\ named \subseteq Secrets
    /\ edit \in [Edits -> EditRow]
    /\ renamed \subseteq Variables /\ removed \subseteq Secrets
    /\ \A t \in Tasks : task[t].state = "none" <=> task[t].versions = << >>
    /\ \A v, w \in Variables : v # w => variable[v] \cap variable[w] = {}

\* Every $ENV:NAME in any version of any task is the name of a variable and the
\* version holds the reference that protects it, whatever renames, deletions
\* and version requests ran at once; the one exception is a variable renamed
\* while a version that mentions it was being inserted.
VariablesResolve ==
    \A t \in Tasks : \A r \in Rows(t) : \A n \in Mentions(r) :
        \/ \E v \in r.references : variable[v] = {n}
        \/ r.references \cap renamed # {}

\* The secrets of the version a task runs now exist, those inherited over
\* several versions included, unless one was deleted between the check of the
\* request that named it and its commit.
SecretsAvailable ==
    \A t \in Tasks : LiveTask(t) =>
        \A s \in Newest(t).secrets : s \in named \cup removed

\* Whatever is renamed, deleted and versioned at once, what a task names is there.
VersionsResolve == VariablesResolve /\ SecretsAvailable
=============================================================================
