----------------------------- MODULE Projection -----------------------------
(***************************************************************************)
(* The seven-day projection of the schedules onto exclusive resources and  *)
(* the check that refuses a schedule that would overlap                    *)
(* (controlplane/projection.go, projection_service.go, the schedule        *)
(* handlers of api/operations.go).                                         *)
(*                                                                         *)
(* The clock stands still: the window is 0..Horizon-1 and a schedule's     *)
(* fire times in it are a set.  A task version is its duration and its     *)
(* exclusive resources; a schedule keeps the version that was current when *)
(* it was written.  One mutex (refreshMu) covers a refresh and a check; a  *)
(* handler reads the task, checks, writes and refreshes in separate steps, *)
(* and answers with an error, without refreshing, if the row it has        *)
(* written cannot be read back.                                            *)
(***************************************************************************)
EXTENDS Integers, FiniteSets, FiniteSetsExt

CONSTANTS
    Plans,          \* schedules
    Jobs,           \* tasks they run
    Exclusive,      \* exclusive resources
    FireTimes,      \* the sets of fire times a schedule may have
    JobChoices,     \* the definitions a task may have
    Planners,       \* requests that may be under way at once
    Horizon         \* the end of the window (7 days)

ASSUME ProjectionAssumption ==
    /\ IsFiniteSet(Plans) /\ Horizon \in Nat
    /\ \A times \in FireTimes : times \subseteq 0..(Horizon - 1)
    /\ JobChoices \subseteq [duration : Nat \ {0}, resources : SUBSET Exclusive]

VARIABLES
    plan,       \* schedules: their fire times and task
    job,        \* the current versions of the tasks
    planner,    \* requests under way
    mutex,      \* refreshMu and what was read under it
    snapshot,   \* the report readers get
    skipped,    \* history: since the schedules were last read a handler wrote without refreshing
    stale,      \* history: what the last refresh was to show is not in the snapshot
    unchecked   \* history: a schedule was enabled without a check, two were checked at once,
                \* or one was checked with a task version that was replaced

projectionVars == <<plan, job, planner, mutex, snapshot, skipped, stale, unchecked>>

-----------------------------------------------------------------------------
(* The report of a set of inputs *)

JobRow == [duration : Nat, resources : SUBSET Exclusive]

\* an enabled schedule with the duration and the resources of its task version
Input == [plan : Plans, times : SUBSET (0..(Horizon - 1)), job : JobRow]

\* projectScheduleInput: one occurrence for every fire time in the window
Occurrences(inputs, x) ==
    UNION {{[plan |-> i.plan, start |-> at, end |-> at + i.job.duration] : at \in i.times} :
           i \in {i \in inputs : x \in i.job.resources}}

EventTimes(occ) == {o.start : o \in occ} \cup {o.end : o \in occ}
LaterEvents(occ, at) == {t \in EventTimes(occ) : t > at}

\* updateActiveOccurrences: those that end at this time go before the others come
UpdateActive(active, occ, at) ==
    (active \ {o \in occ : o.end = at}) \cup {o \in occ : o.start = at}

\* conflictsForResource: one step of the sweep over the event times
SweepStep(s, occ, at) ==
    LET active == UpdateActive(s.active, occ, at)
        later == LaterEvents(occ, at) IN
    IF later = {} \/ Cardinality(active) < 2
    THEN [active |-> active, open |-> {}, closed |-> s.closed \cup s.open]
    ELSE [active |-> active, closed |-> s.closed,
          open |-> {IF s.open = {} THEN [start |-> at, end |-> Min(later), occurrences |-> active]
                    ELSE [CHOOSE c \in s.open : TRUE EXCEPT !.end = Min(later), !.occurrences = @ \cup active]}]

\* the sweep over the times from 0, for one resource
Sweep(occ) ==
    LET sweep[t \in -1..Max(EventTimes(occ))] ==
            IF t = -1 THEN [active |-> {}, open |-> {}, closed |-> {}]
            ELSE IF t \in EventTimes(occ) THEN SweepStep(sweep[t - 1], occ, t) ELSE sweep[t - 1] IN
    sweep

ConflictsForResource(occ) == IF occ = {} THEN {} ELSE Sweep(occ)[Max(EventTimes(occ))].closed

\* projectionConflicts
Conflicts(inputs) ==
    UNION {{[resource |-> x, conflict |-> c] : c \in ConflictsForResource(Occurrences(inputs, x))} : x \in Exclusive}

\* BuildScheduleProjection: conflicts, and the occurrences marked as conflicted
Build(inputs) ==
    [inputs |-> inputs, conflicts |-> Conflicts(inputs),
     conflicted |-> UNION {c.conflict.occurrences : c \in Conflicts(inputs)}]

NoReport == [inputs |-> {}, conflicts |-> {}, conflicted |-> {}]

-----------------------------------------------------------------------------
(* State *)

PlanRow == [state : {"none", "enabled", "disabled"}, times : SUBSET (0..(Horizon - 1)), job : SUBSET JobRow]
NoPlan == [state |-> "none", times |-> {}, job |-> {}]
PlannerRow == [phase : {"idle", "check", "write", "refresh"}, new : BOOLEAN, plan : SUBSET Plans,
               times : SUBSET (0..(Horizon - 1)), job : SUBSET Jobs,
               version : SUBSET JobRow]                \* of the task, as it was read for the check
NoPlanner == [phase |-> "idle", new |-> FALSE, plan |-> {}, times |-> {}, job |-> {}, version |-> {}]
ToRefresh == [NoPlanner EXCEPT !.phase = "refresh"]
Writing(h) == planner[h].phase = "write"
UnderWay(h) == planner[h].phase \in {"check", "write"}

\* ListScheduleProjection: the enabled schedules, in one statement
ListScheduleProjection ==
    UNION {{[plan |-> p, times |-> plan[p].times, job |-> j] : j \in plan[p].job} :
           p \in {p \in Plans : plan[p].state = "enabled"}}

InitProjection ==
    /\ plan = [p \in Plans |-> NoPlan]
    /\ job \in [Jobs -> JobChoices]
    /\ planner = [h \in Planners |-> NoPlanner]
    /\ mutex = {} /\ snapshot = NoReport /\ skipped = FALSE /\ stale = FALSE /\ unchecked = FALSE

-----------------------------------------------------------------------------
(* Handlers *)

MutexFree == mutex = {}

\* CheckScheduleConflicts: conflicts of the other schedules and the candidate
\* in which the candidate takes part
CandidateConflicts(p, inputs, candidate) ==
    {c \in Conflicts({i \in inputs : i.plan # p} \cup {candidate}) :
        \E o \in c.conflict.occurrences : o.plan = p}

\* scheduleCollection POST, scheduleUpdatePath: the candidate gets the task's
\* current version.  A new schedule has an identifier nobody else uses.
ReadTask(h, p, times, j) ==
    /\ planner[h].phase = "idle"
    /\ ~\E k \in Planners : UnderWay(k) /\ planner[k].new /\ planner[k].plan = {p}
    /\ planner' = [planner EXCEPT ![h] = [phase |-> "check", new |-> plan[p].state = "none", plan |-> {p},
                                         times |-> times, job |-> {j}, version |-> {job[j]}]]
    /\ UNCHANGED <<plan, job, mutex, snapshot, skipped, stale, unchecked>>

\* checkScheduleConflicts: a candidate without resources is not checked, one
\* with a conflict is refused; the check itself may fail.
CheckSchedule(h, p) ==
    /\ planner[h].phase = "check" /\ planner[h].plan = {p}
    /\ MutexFree \/ \A v \in planner[h].version : v.resources = {}
    /\ \/ /\ \A v \in planner[h].version :
                CandidateConflicts(p, ListScheduleProjection, [plan |-> p, times |-> planner[h].times, job |-> v]) = {}
          /\ planner' = [planner EXCEPT ![h].phase = "write", ![h].version = {}]
          /\ unchecked' = (unchecked \/ \E k \in Planners : Writing(k))
       \/ planner' = [planner EXCEPT ![h] = NoPlanner] /\ UNCHANGED unchecked
    /\ UNCHANGED <<plan, job, mutex, snapshot, skipped, stale>>

HandlerForgets(h) == planner' = [planner EXCEPT ![h] = NoPlanner] /\ UNCHANGED skipped

\* A handler that has written refreshes, unless the row cannot be read back.
HandlerGoesOn(h) ==
    \/ planner' = [planner EXCEPT ![h] = ToRefresh] /\ UNCHANGED skipped
    \/ planner' = [planner EXCEPT ![h] = NoPlanner] /\ skipped' = TRUE

\* ScheduleStore.Create and Update, with the task version that is current now:
\* the schedule is enabled, also one that was disabled; or nothing is written,
\* as when the schedule is gone
WriteSchedule(h, p) ==
    /\ Writing(h) /\ planner[h].plan = {p}
    /\ \/ planner' = [planner EXCEPT ![h] = NoPlanner] /\ UNCHANGED <<plan, skipped>>
       \/ /\ planner[h].new \/ plan[p].state # "none"
          /\ plan' = [plan EXCEPT ![p] = [state |-> "enabled", times |-> planner[h].times,
                                          job |-> {job[j] : j \in planner[h].job}]]
          /\ HandlerGoesOn(h)
    /\ UNCHANGED <<job, mutex, snapshot, stale, unchecked>>

\* scheduleStatePath: no check
SetScheduleEnabled(h, p, state) ==
    /\ planner[h].phase = "idle" /\ plan[p].state \notin {"none", state}
    /\ plan' = [plan EXCEPT ![p].state = state]
    /\ HandlerGoesOn(h)
    /\ unchecked' = (unchecked \/ state = "enabled")
    /\ UNCHANGED <<job, mutex, snapshot, stale>>

\* scheduleDeletePath
DeleteSchedule(h, p) ==
    /\ planner[h].phase = "idle" /\ plan[p].state # "none"
    /\ plan' = [plan EXCEPT ![p] = NoPlan]
    /\ planner' = [planner EXCEPT ![h] = ToRefresh]
    /\ UNCHANGED <<job, mutex, snapshot, skipped, stale, unchecked>>

\* taskVersionPath: schedules keep the version they have, so that nothing is
\* missed without the refresh
NewTaskVersion(h, j, row) ==
    /\ planner[h].phase = "idle" /\ row # job[j]
    /\ job' = [job EXCEPT ![j] = row]
    /\ \E next \in {ToRefresh, NoPlanner} : planner' = [planner EXCEPT ![h] = next]
    /\ unchecked' = (unchecked \/ \E k \in Planners : UnderWay(k))
    /\ UNCHANGED <<plan, mutex, snapshot, skipped, stale>>

-----------------------------------------------------------------------------
(* ProjectionService *)

\* Every handler refreshes when it has written; Run does at the start and
\* every thirty minutes (who = {}).
Refresh(who) ==
    /\ MutexFree
    /\ \A h \in who : planner[h].phase = "refresh"
    /\ mutex' = mutex \cup {[who |-> who, inputs |-> ListScheduleProjection]}
    /\ stale' = (stale \/ skipped) /\ skipped' = FALSE
    /\ UNCHANGED <<plan, job, planner, snapshot, unchecked>>

Finished(m) == planner' = [h \in Planners |-> IF h \in m.who THEN NoPlanner ELSE planner[h]]

\* the report is calculated and replaces the snapshot
SetSnapshot(m) ==
    /\ m \in mutex
    /\ snapshot' = Build(m.inputs) /\ stale' = FALSE
    /\ mutex' = mutex \ {m} /\ Finished(m)
    /\ UNCHANGED <<plan, job, skipped, unchecked>>

\* refreshFailed: the old snapshot stays
RefreshFailed(m) ==
    /\ m \in mutex
    /\ stale' = TRUE
    /\ mutex' = mutex \ {m} /\ Finished(m)
    /\ UNCHANGED <<plan, job, snapshot, skipped, unchecked>>

NextProjection ==
    \/ \E h \in Planners, p \in Plans :
        \/ \E times \in FireTimes, j \in Jobs : ReadTask(h, p, times, j)
        \/ CheckSchedule(h, p)
        \/ \E state \in {"enabled", "disabled"} : SetScheduleEnabled(h, p, state)
        \/ WriteSchedule(h, p) \/ DeleteSchedule(h, p)
    \/ \E h \in Planners, j \in Jobs, row \in JobChoices : NewTaskVersion(h, j, row)
    \/ \E h \in Planners : Refresh({h})
    \/ Refresh({})
    \/ \E m \in mutex : SetSnapshot(m) \/ RefreshFailed(m)

SpecProjection == InitProjection /\ [][NextProjection]_projectionVars

-----------------------------------------------------------------------------
(* Properties *)

\* Every variable has its type and the mutex has at most one holder.
ProjectionTypeOK ==
    /\ plan \in [Plans -> PlanRow]
    /\ job \in [Jobs -> JobRow]
    /\ planner \in [Planners -> PlannerRow]
    /\ Cardinality(mutex) <= 1 /\ \A m \in mutex : m.who \subseteq Planners /\ m.inputs \subseteq Input
    /\ snapshot.inputs \subseteq Input
    /\ skipped \in BOOLEAN /\ stale \in BOOLEAN /\ unchecked \in BOOLEAN

Overlap(o, p) == o # p /\ o.start < p.end /\ p.start < o.end

\* The sweep over sorted event times finds what the definition of an overlap
\* says: an occurrence is marked exactly when another one that needs the same
\* exclusive resource overlaps it, occurrences that only touch do not count,
\* and the times of the conflicts are the times with two or more of them.
SweepIsExact ==
    LET all(x) == Occurrences(snapshot.inputs, x) IN
    /\ snapshot.conflicted = UNION {{o \in all(x) : \E p \in all(x) : Overlap(o, p)} : x \in Exclusive}
    /\ \A x \in Exclusive : \A t \in UNION {o.start..o.end : o \in all(x)} :
        (\E c \in snapshot.conflicts : c.resource = x /\ c.conflict.start <= t /\ t < c.conflict.end)
            <=> Cardinality({o \in all(x) : o.start <= t /\ t < o.end}) > 1

\* The projection refreshes "immediately after a successful task or schedule
\* change": when no request is under way the snapshot is the report of the
\* schedules and tasks as they are, in whatever order the handlers' refreshes
\* ran, unless the last refresh failed, none has run, or since the last one read
\* the schedules a change was made whose handler answered with an error.
SnapshotCurrent ==
    (/\ \A h \in Planners : planner[h].phase = "idle"
     /\ mutex = {} /\ ~stale /\ ~skipped /\ snapshot # NoReport)
        => snapshot = Build(ListScheduleProjection)

\* "reject schedules that would overlap on exclusive resources": schedules
\* created and edited one at a time never conflict, and neither do they when
\* tasks are edited between such requests, as long as no disabled schedule is
\* enabled again, which nothing checks.
NoConflictAdmitted == ~unchecked => Conflicts(ListScheduleProjection) = {}

\* The conflicts shown and refused are those of the schedules as they are.
ConflictsFound == SweepIsExact /\ SnapshotCurrent /\ NoConflictAdmitted
=============================================================================
