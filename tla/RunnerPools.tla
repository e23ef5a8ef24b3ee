---------------------------- MODULE RunnerPools -----------------------------
(***************************************************************************)
(* The runner pools and what refers to them: the runners that are enrolled *)
(* into a pool and the task versions that name one (backend/internal/store *)
(* runners.go and tasks.go, internal/api/infrastructure.go).               *)
(*                                                                         *)
(* A deletion looks for runners, then for tasks, then marks the pool, in   *)
(* three statements without a transaction.  An enrollment looks the pool   *)
(* up and inserts the runner in another transaction; a task version looks  *)
(* the pool up and inserts in one that does not lock the pool.  What a     *)
(* runner does once it is enrolled is in Fleet.                            *)
(***************************************************************************)
EXTENDS FiniteSets

CONSTANTS Pools, Members, Workloads   \* Members: runners; Workloads: tasks

VARIABLES
    pool,       \* runner_pools
    member,     \* runners: their state and pool_id ({}: NULL)
    workload,   \* tasks: their state and the pools of their versions
    joining,    \* enrollments that found their pool
    naming,     \* task versions being inserted that found their pool
    deleting,   \* deletions under way: what they have looked for
    raced       \* history: pools of which a use and the deletion overlapped

poolUses == <<joining, naming, deleting>>
poolVars == <<pool, member, workload, poolUses, raced>>

PoolRow == [there : BOOLEAN, enabled : BOOLEAN, deleted : BOOLEAN]
MemberRow == [state : {"none", "live", "archived"}, pool : SUBSET Pools]
WorkloadRow == [state : {"none", "live", "deleted"}, pools : SUBSET Pools]
DeletionStage == {"idle", "no runners", "no tasks"}

Exists(p) == pool[p].there /\ ~pool[p].deleted
InUseByRunner(p) == \E m \in Members : member[m].state = "live" /\ p \in member[m].pool
InUseByTask(p) == \E t \in Workloads : workload[t].state = "live" /\ p \in workload[t].pools
MarkOverlap(p) == raced' = IF deleting[p] # "idle" THEN raced \cup {p} ELSE raced

InitPools ==
    /\ pool = [p \in Pools |-> [there |-> FALSE, enabled |-> FALSE, deleted |-> FALSE]]
    /\ member = [m \in Members |-> [state |-> "none", pool |-> {}]]
    /\ workload = [t \in Workloads |-> [state |-> "none", pools |-> {}]]
    /\ joining = {} /\ naming = {}
    /\ deleting = [p \in Pools |-> "idle"]
    /\ raced = {}

-----------------------------------------------------------------------------
(* Pools *)

CreatePool(p, enabled) ==
    /\ ~pool[p].there
    /\ pool' = [pool EXCEPT ![p] = [there |-> TRUE, enabled |-> enabled, deleted |-> FALSE]]
    /\ UNCHANGED <<member, workload, poolUses, raced>>

UpdatePool(p, enabled) ==
    /\ Exists(p)
    /\ pool' = [pool EXCEPT ![p].enabled = enabled]
    /\ UNCHANGED <<member, workload, poolUses, raced>>

\* DeletePool, its first query
CheckRunners(p) ==
    /\ pool[p].there /\ deleting[p] = "idle"
    /\ ~InUseByRunner(p)
    /\ deleting' = [deleting EXCEPT ![p] = "no runners"]
    /\ raced' = IF \E u \in joining \cup naming : u[2] = p THEN raced \cup {p} ELSE raced
    /\ UNCHANGED <<pool, member, workload, joining, naming>>

CheckTasksSkipped(p) ==
    /\ deleting[p] = "no runners"
    /\ deleting' = [deleting EXCEPT ![p] = "no tasks"]
    /\ UNCHANGED <<pool, member, workload, joining, naming, raced>>

\* DeletePool, its second query
CheckTasks(p) ==
    /\ deleting[p] = "no runners"
    /\ deleting' = [deleting EXCEPT ![p] = IF InUseByTask(p) THEN "idle" ELSE "no tasks"]
    /\ UNCHANGED <<pool, member, workload, joining, naming, raced>>

\* DeletePool, its update: the error when there is no row to update changes nothing
DeletePool(p) ==
    /\ deleting[p] = "no tasks"
    /\ deleting' = [deleting EXCEPT ![p] = "idle"]
    /\ pool' = IF Exists(p) THEN [pool EXCEPT ![p].deleted = TRUE, ![p].enabled = FALSE] ELSE pool
    /\ UNCHANGED <<member, workload, joining, naming, raced>>

-----------------------------------------------------------------------------
(* Runners *)

\* enrollDurable: FindPool; the pool exists and is enabled
FindPool(m, p) ==
    /\ Exists(p) /\ pool[p].enabled
    /\ <<m, p>> \notin joining
    /\ joining' = joining \cup {<<m, p>>}
    /\ MarkOverlap(p)
    /\ UNCHANGED <<pool, member, workload, naming, deleting>>

\* the pool is selected again by the INSERT; a runner that exists keeps its own
JoinedRow(m, p) ==
    IF member[m].state # "none" THEN member[m]
    ELSE [state |-> "live", pool |-> IF Exists(p) THEN {p} ELSE {}]

JoinPool(m, p) ==
    /\ <<m, p>> \in joining
    /\ joining' = joining \ {<<m, p>>}
    /\ member' = [member EXCEPT ![m] = JoinedRow(m, p)]
    /\ UNCHANGED <<pool, workload, naming, deleting, raced>>

\* Archive
LeavePool(m) ==
    /\ member[m].state = "live"
    /\ member' = [member EXCEPT ![m].state = "archived"]
    /\ UNCHANGED <<pool, workload, poolUses, raced>>

-----------------------------------------------------------------------------
(* Task versions *)

\* insertTaskVersion: SELECT EXISTS of the pool; it need not be enabled.
\* CreateVersion holds the task's row, so there is one for a task at a time.
NamePool(t, p) ==
    /\ workload[t].state # "deleted" /\ ~\E q \in Pools : <<t, q>> \in naming
    /\ Exists(p)
    /\ naming' = naming \cup {<<t, p>>}
    /\ MarkOverlap(p)
    /\ UNCHANGED <<pool, member, workload, joining, deleting>>

\* the INSERT of the version and the commit
InsertVersion(t, p) ==
    /\ <<t, p>> \in naming
    /\ naming' = naming \ {<<t, p>>}
    /\ workload' = [workload EXCEPT ![t] = [state |-> "live", pools |-> @.pools \cup {p}]]
    /\ UNCHANGED <<pool, member, joining, deleting, raced>>

\* Delete waits for the task's row
RemoveTask(t) ==
    /\ workload[t].state = "live" /\ ~\E p \in Pools : <<t, p>> \in naming
    /\ workload' = [workload EXCEPT ![t].state = "deleted"]
    /\ UNCHANGED <<pool, member, poolUses, raced>>

-----------------------------------------------------------------------------

NextPools ==
    \/ \E p \in Pools, on \in BOOLEAN : CreatePool(p, on) \/ UpdatePool(p, on)
    \/ \E p \in Pools : CheckRunners(p) \/ CheckTasks(p) \/ DeletePool(p)
    \/ \E m \in Members, p \in Pools : FindPool(m, p) \/ JoinPool(m, p)
    \/ \E m \in Members : LeavePool(m)
    \/ \E t \in Workloads, p \in Pools : NamePool(t, p) \/ InsertVersion(t, p)
    \/ \E t \in Workloads : RemoveTask(t)

SpecPools == InitPools /\ [][NextPools]_poolVars

-----------------------------------------------------------------------------
(* Properties *)

\* The tables and the requests under way have their types, and no update that
\* follows a deletion enables the pool again.
PoolsTypeOK ==
    /\ pool \in [Pools -> PoolRow]
    /\ member \in [Members -> MemberRow]
    /\ workload \in [Workloads -> WorkloadRow]
    /\ joining \subseteq Members \X Pools /\ naming \subseteq Workloads \X Pools
    /\ deleting \in [Pools -> DeletionStage]
    /\ raced \subseteq Pools
    /\ \A p \in Pools : pool[p].deleted => ~pool[p].enabled

\* A deleted pool has neither a live runner nor a version of a live task, and
\* a live runner has a pool, unless the deletion of a pool overlapped an
\* enrollment into it or the insertion of a version that names it.
DeletedPoolsUnused ==
    /\ \A p \in Pools \ raced : pool[p].deleted => ~InUseByRunner(p) /\ ~InUseByTask(p)
    /\ raced = {} => \A m \in Members : member[m].state = "live" => member[m].pool # {}
=============================================================================
