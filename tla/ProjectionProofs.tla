-------------------------- MODULE ProjectionProofs --------------------------
(***************************************************************************)
(* Proofs about the projection (Projection), for any schedules, tasks,     *)
(* exclusive resources and requests: its refreshes, its sweep over the     *)
(* event times, and the check that admits a schedule.                      *)
(***************************************************************************)
EXTENDS Projection, TLAPS, FiniteSetTheorems, WellFoundedInduction

-----------------------------------------------------------------------------
(* Refreshes and the snapshot *)

\* A handler that has written but not refreshed.
Outdated(h) == planner[h].phase = "refresh"

\* There is one refresh at a time, the handlers that asked for it wait for it,
\* and whatever was written after it read the schedules has a handler that will
\* refresh again, or was left without; so has everything the snapshot does not
\* show.
RefreshOwed ==
    /\ \A m, n \in mutex : m = n
    /\ \A m \in mutex : \A h \in m.who : Outdated(h)
    /\ \A m \in mutex : m.inputs = ListScheduleProjection \/ skipped \/ \E h \in Planners \ m.who : Outdated(h)
    /\ ~stale /\ ~skipped /\ snapshot # NoReport =>
        snapshot = Build(ListScheduleProjection) \/ \E h \in Planners : Outdated(h)

ProjectionInv == ProjectionTypeOK /\ RefreshOwed

\* The schedules the projection reads are inputs of it.
LEMMA ListedAreInputs ==
    ASSUME plan \in [Plans -> PlanRow]
    PROVE  ListScheduleProjection \subseteq Input
<1> SUFFICES ASSUME NEW p \in Plans, NEW j \in plan[p].job
             PROVE  [plan |-> p, times |-> plan[p].times, job |-> j] \in Input
  BY DEF ListScheduleProjection
<1>1. plan[p].times \in SUBSET (0..(Horizon - 1)) /\ j \in JobRow
  BY DEF PlanRow
<1> QED BY <1>1 DEF Input

\* The first state.
LEMMA ProjectionInit == InitProjection => ProjectionInv
<1> SUFFICES ASSUME InitProjection PROVE ProjectionInv
  OBVIOUS
<1>1. NoPlan \in PlanRow /\ NoPlanner \in PlannerRow
  BY DEF NoPlan, PlanRow, NoPlanner, PlannerRow
<1>2. JobChoices \subseteq JobRow
  BY ProjectionAssumption DEF JobRow
<1>3. Cardinality({}) = 0
  BY FS_EmptySet
<1>4. plan \in [Plans -> PlanRow] /\ planner \in [Planners -> PlannerRow] /\ job \in [Jobs -> JobRow]
  BY <1>1, <1>2 DEF InitProjection
<1>5. Cardinality(mutex) <= 1 /\ mutex = {}
  BY <1>3 DEF InitProjection
<1>6. snapshot = NoReport /\ snapshot.inputs = {} /\ skipped = FALSE /\ stale = FALSE /\ unchecked = FALSE
  BY DEF InitProjection, NoReport
<1> QED BY <1>4, <1>5, <1>6 DEF ProjectionInv, ProjectionTypeOK, RefreshOwed

\* A handler h that nobody waits for moves on: the schedules change only if it
\* has to refresh from now on, or has skipped that.
LEMMA HandlerKeeps ==
    ASSUME ProjectionInv, NEW h \in Planners, ~Outdated(h), NEW row \in PlannerRow,
           planner' = [planner EXCEPT ![h] = row],
           plan' \in [Plans -> PlanRow], job' \in [Jobs -> JobRow], unchecked' \in BOOLEAN,
           skipped' \in BOOLEAN, skipped => skipped',
           plan' = plan \/ row.phase = "refresh" \/ skipped',
           UNCHANGED <<mutex, snapshot, stale>>
    PROVE  ProjectionInv'
<1>1. /\ planner' \in [Planners -> PlannerRow]
      /\ \A k \in Planners : Outdated(k) => Outdated(k)' /\ k # h
      /\ row.phase = "refresh" => Outdated(h)'
  BY DEF ProjectionInv, ProjectionTypeOK, Outdated
<1>2. ProjectionTypeOK'
  BY <1>1 DEF ProjectionInv, ProjectionTypeOK
<1>3. ListScheduleProjection' = ListScheduleProjection \/ Outdated(h)' \/ skipped'
  <2>1. CASE plan' = plan
    BY <2>1 DEF ListScheduleProjection
  <2> QED BY <1>1, <2>1
<1>4. \A m \in mutex : m.who \subseteq Planners /\ h \notin m.who
  BY DEF ProjectionInv, ProjectionTypeOK, RefreshOwed
<1>5. \A m \in mutex' : (\A n \in mutex' : m = n) /\ \A k \in m.who : Outdated(k)'
  BY <1>1, <1>4 DEF ProjectionInv, RefreshOwed
<1>6. \A m \in mutex' : m.inputs = ListScheduleProjection' \/ skipped' \/ \E k \in Planners \ m.who : Outdated(k)'
  BY <1>1, <1>3, <1>4 DEF ProjectionInv, RefreshOwed
<1>7. ~stale' /\ ~skipped' /\ snapshot' # NoReport =>
        snapshot' = Build(ListScheduleProjection)' \/ \E k \in Planners : Outdated(k)'
  <2> SUFFICES ASSUME ~stale, ~skipped', snapshot # NoReport, ~\E k \in Planners : Outdated(k)'
               PROVE  snapshot = Build(ListScheduleProjection)'
    OBVIOUS
  <2>1. snapshot = Build(ListScheduleProjection)
    BY <1>1 DEF ProjectionInv, RefreshOwed
  <2>2. ListScheduleProjection' = ListScheduleProjection
    BY <1>3
  <2>3. Build(ListScheduleProjection)' = Build(ListScheduleProjection')
    OBVIOUS
  <2> QED BY <2>1, <2>2, <2>3
<1> QED BY <1>2, <1>5, <1>6, <1>7 DEF ProjectionInv, RefreshOwed

\* The rows of a handler that is done, or has to refresh.
LEMMA EndRows ==
    /\ NoPlanner \in PlannerRow /\ ToRefresh \in PlannerRow
    /\ NoPlanner.phase = "idle" /\ ToRefresh.phase = "refresh"
BY DEF NoPlanner, ToRefresh, PlannerRow

\* A handler that has written goes on.
LEMMA WrittenKeeps ==
    ASSUME ProjectionInv, NEW h \in Planners, ~Outdated(h), HandlerGoesOn(h),
           plan' \in [Plans -> PlanRow], unchecked' \in BOOLEAN, UNCHANGED <<job, mutex, snapshot, stale>>
    PROVE  ProjectionInv'
<1>1. skipped \in BOOLEAN /\ job' \in [Jobs -> JobRow]
  BY DEF ProjectionInv, ProjectionTypeOK
<1>2. PICK row \in PlannerRow : /\ planner' = [planner EXCEPT ![h] = row]
                               /\ skipped' \in BOOLEAN /\ (skipped => skipped') /\ (row.phase = "refresh" \/ skipped')
  BY <1>1, EndRows DEF HandlerGoesOn
<1> QED BY <1>1, <1>2, HandlerKeeps

\* The handlers' steps.
LEMMA ScheduleSteps ==
    ASSUME ProjectionInv, NEW h \in Planners, NEW p \in Plans,
           \/ \E times \in FireTimes, j \in Jobs : ReadTask(h, p, times, j)
           \/ CheckSchedule(h, p)
           \/ \E state \in {"enabled", "disabled"} : SetScheduleEnabled(h, p, state)
           \/ WriteSchedule(h, p) \/ DeleteSchedule(h, p)
    PROVE  ProjectionInv'
<1>1. /\ plan \in [Plans -> PlanRow] /\ job \in [Jobs -> JobRow] /\ planner \in [Planners -> PlannerRow]
      /\ unchecked \in BOOLEAN /\ skipped \in BOOLEAN
  BY DEF ProjectionInv, ProjectionTypeOK
<1>2. NoPlanner \in PlannerRow /\ ToRefresh \in PlannerRow /\ ToRefresh.phase = "refresh"
  BY EndRows
<1>3. ASSUME NEW times \in FireTimes, NEW j \in Jobs, ReadTask(h, p, times, j)
      PROVE  ProjectionInv'
  <2> DEFINE row == [phase |-> "check", new |-> plan[p].state = "none", plan |-> {p},
                     times |-> times, job |-> {j}, version |-> {job[j]}]
  <2>1. row \in PlannerRow
    <3>1. times \in SUBSET (0..(Horizon - 1)) /\ job[j] \in JobRow
      BY <1>1, ProjectionAssumption
    <3> QED BY <3>1 DEF PlannerRow
  <2>2. planner' = [planner EXCEPT ![h] = row] /\ UNCHANGED <<plan, job, mutex, snapshot, skipped, stale, unchecked>> /\ ~Outdated(h)
    BY <1>3 DEF ReadTask, Outdated
  <2> HIDE DEF row
  <2> QED BY <1>1, <2>1, <2>2, HandlerKeeps
<1>7. CASE CheckSchedule(h, p)
  <2>1. /\ ~Outdated(h) /\ UNCHANGED <<plan, job, mutex, snapshot, skipped, stale>> /\ unchecked' \in BOOLEAN
    BY <1>1, <1>7 DEF CheckSchedule, Outdated
  <2>2. PICK row \in PlannerRow : planner' = [planner EXCEPT ![h] = row]
    <3> DEFINE checked == [planner[h] EXCEPT !.phase = "write", !.version = {}]
    <3>1. checked \in PlannerRow
      BY <1>1 DEF PlannerRow
    <3>2. planner' = [planner EXCEPT ![h] = checked] \/ planner' = [planner EXCEPT ![h] = NoPlanner]
      BY <1>1, <1>7 DEF CheckSchedule
    <3> HIDE DEF checked
    <3> QED BY <1>2, <3>1, <3>2
  <2> QED BY <1>1, <2>1, <2>2, HandlerKeeps
<1>4. ASSUME NEW state \in {"enabled", "disabled"}, SetScheduleEnabled(h, p, state)
      PROVE  ProjectionInv'
  <2>1. plan' \in [Plans -> PlanRow]
    BY <1>1, <1>4 DEF SetScheduleEnabled, PlanRow
  <2>2. HandlerGoesOn(h) /\ UNCHANGED <<job, mutex, snapshot, stale>> /\ ~Outdated(h)
    BY <1>4 DEF SetScheduleEnabled, Outdated
  <2>3. unchecked' \in BOOLEAN
    BY <1>1, <1>4 DEF SetScheduleEnabled
  <2> QED BY <2>1, <2>2, <2>3, WrittenKeeps
<1>5. CASE WriteSchedule(h, p)
  <2>1. ~Outdated(h) /\ UNCHANGED <<job, mutex, snapshot, stale, unchecked>>
    BY <1>5 DEF WriteSchedule, Writing, Outdated
  <2>2. CASE planner' = [planner EXCEPT ![h] = NoPlanner] /\ UNCHANGED <<plan, skipped>>
    BY <1>1, <1>2, <2>1, <2>2, HandlerKeeps
  <2> DEFINE new == [state |-> "enabled", times |-> planner[h].times, job |-> {job[j] : j \in planner[h].job}]
  <2>3. CASE plan' = [plan EXCEPT ![p] = new] /\ HandlerGoesOn(h)
    <3>1. new \in PlanRow
      BY <1>1 DEF PlanRow, PlannerRow
    <3> HIDE DEF new
    <3>3. plan' \in [Plans -> PlanRow]
      BY <1>1, <3>1, <2>3
    <3> QED BY <1>1, <2>1, <2>3, <3>3, WrittenKeeps
  <2> QED BY <1>5, <2>2, <2>3 DEF WriteSchedule
<1>6. CASE DeleteSchedule(h, p)
  <2>1. NoPlan \in PlanRow
    BY DEF NoPlan, PlanRow
  <2>2. plan' \in [Plans -> PlanRow]
    BY <1>1, <1>6, <2>1 DEF DeleteSchedule
  <2>3. planner' = [planner EXCEPT ![h] = ToRefresh] /\ ~Outdated(h) /\ UNCHANGED <<job, mutex, snapshot, skipped, stale, unchecked>>
    BY <1>6 DEF DeleteSchedule, Outdated
  <2> QED BY <1>1, <1>2, <2>2, <2>3, HandlerKeeps
<1> QED BY <1>3, <1>4, <1>5, <1>6, <1>7

\* A new version of a task.
LEMMA VersionStep ==
    ASSUME ProjectionInv, NEW h \in Planners, NEW j \in Jobs, NEW row \in JobChoices, NewTaskVersion(h, j, row)
    PROVE  ProjectionInv'
<1>1. /\ plan \in [Plans -> PlanRow] /\ job \in [Jobs -> JobRow] /\ unchecked \in BOOLEAN /\ skipped \in BOOLEAN
      /\ row \in JobRow
  BY ProjectionAssumption DEF ProjectionInv, ProjectionTypeOK, JobRow
<1>2. /\ job' \in [Jobs -> JobRow] /\ unchecked' \in BOOLEAN
      /\ ~Outdated(h) /\ UNCHANGED <<plan, mutex, snapshot, skipped, stale>>
  BY <1>1 DEF NewTaskVersion, Outdated
<1>3. PICK next \in PlannerRow : planner' = [planner EXCEPT ![h] = next]
  BY EndRows DEF NewTaskVersion
<1> QED BY <1>1, <1>2, <1>3, HandlerKeeps

\* A refresh begins when the mutex is free.
LEMMA RefreshStep ==
    ASSUME ProjectionInv, NEW who \in SUBSET Planners, Refresh(who)
    PROVE  ProjectionInv'
<1> DEFINE m == [who |-> who, inputs |-> ListScheduleProjection]
<1>1. m.who = who /\ m.inputs = ListScheduleProjection
  OBVIOUS
<1>2. /\ mutex' = {m} /\ UNCHANGED <<plan, job, planner, snapshot, unchecked>> /\ \A h \in who : Outdated(h)
      /\ stale' = (stale \/ skipped) /\ skipped' = FALSE
  BY DEF Refresh, MutexFree, Outdated
<1>b. stale' \in BOOLEAN /\ skipped' \in BOOLEAN
  BY <1>2 DEF ProjectionInv, ProjectionTypeOK
<1> HIDE DEF m
<1>3. Cardinality({m}) = 1
  BY FS_Singleton
<1>4. ListScheduleProjection \subseteq Input
  BY ListedAreInputs DEF ProjectionInv, ProjectionTypeOK
<1>5. ProjectionTypeOK'
  BY <1>1, <1>2, <1>b, <1>3, <1>4 DEF ProjectionInv, ProjectionTypeOK
<1>6. /\ ListScheduleProjection' = ListScheduleProjection
      /\ \A h \in Planners : Outdated(h)' <=> Outdated(h)
  BY <1>2 DEF ListScheduleProjection, Outdated
<1>7. Build(ListScheduleProjection)' = Build(ListScheduleProjection)
  BY <1>6
<1> QED BY <1>1, <1>2, <1>5, <1>6, <1>7 DEF ProjectionInv, RefreshOwed

\* A refresh ends: its handlers are done, and the others still wait.
LEMMA RefreshEnds ==
    ASSUME ProjectionInv, NEW m \in mutex, SetSnapshot(m) \/ RefreshFailed(m)
    PROVE  ProjectionInv'
<1>1. mutex' = {} /\ Cardinality(mutex') = 0
  <2>2. mutex' = mutex \ {m}
    BY DEF SetSnapshot, RefreshFailed
  <2>3. mutex = {m}
    BY DEF ProjectionInv, RefreshOwed
  <2> QED BY <2>2, <2>3, FS_EmptySet
<1>2. UNCHANGED <<plan, job, skipped, unchecked>> /\ Finished(m)
  BY DEF SetSnapshot, RefreshFailed
<1>3. planner' \in [Planners -> PlannerRow]
  <2>1. NoPlanner \in PlannerRow
    BY DEF NoPlanner, PlannerRow
  <2> QED BY <1>2, <2>1 DEF Finished, ProjectionInv, ProjectionTypeOK
<1>4. \A h \in Planners \ m.who : Outdated(h) => Outdated(h)'
  BY <1>2 DEF Finished, Outdated
<1>5. ListScheduleProjection' = ListScheduleProjection
  BY <1>2 DEF ListScheduleProjection
<1>6. CASE SetSnapshot(m)
  <2>1. snapshot' = Build(m.inputs) /\ stale' = FALSE
    BY <1>6 DEF SetSnapshot
  <2>2. snapshot'.inputs = m.inputs /\ m.inputs \subseteq Input
    BY <2>1 DEF Build, ProjectionInv, ProjectionTypeOK
  <2>3. ProjectionTypeOK'
    <3>1. Cardinality(mutex') <= 1
      BY <1>1
    <3>2. stale' \in BOOLEAN
      BY <2>1
    <3> QED BY <1>1, <1>2, <1>3, <2>2, <3>1, <3>2 DEF ProjectionInv, ProjectionTypeOK
  <2>4. m.inputs = ListScheduleProjection \/ skipped \/ \E h \in Planners \ m.who : Outdated(h)
    BY DEF ProjectionInv, RefreshOwed
  <2>5. Build(ListScheduleProjection)' = Build(ListScheduleProjection')
    OBVIOUS
  <2>6. snapshot' = Build(ListScheduleProjection)' \/ skipped' \/ \E h \in Planners : Outdated(h)'
    BY <1>2, <1>4, <1>5, <2>1, <2>4, <2>5
  <2> QED BY <1>1, <2>3, <2>6 DEF ProjectionInv, RefreshOwed
<1>7. CASE RefreshFailed(m)
  <2>1. snapshot' = snapshot /\ stale' = TRUE
    BY <1>7 DEF RefreshFailed
  <2> QED BY <1>1, <1>2, <1>3, <2>1 DEF ProjectionInv, ProjectionTypeOK, RefreshOwed
<1> QED BY <1>6, <1>7

\* Every step.
LEMMA ProjectionStep == ProjectionInv /\ [NextProjection]_projectionVars => ProjectionInv'
<1> SUFFICES ASSUME ProjectionInv, [NextProjection]_projectionVars PROVE ProjectionInv'
  OBVIOUS
<1>1. ASSUME NEW h \in Planners, Refresh({h}) PROVE ProjectionInv'
  BY <1>1, RefreshStep
<1>2. CASE Refresh({})
  <2> DEFINE nobody == {}
  <2>1. nobody \in SUBSET Planners /\ Refresh(nobody)
    BY <1>2
  <2> HIDE DEF nobody
  <2> QED BY <2>1, RefreshStep
<1>3. CASE UNCHANGED projectionVars
  <2>1. UNCHANGED <<plan, job, planner, mutex, snapshot, skipped, stale, unchecked>>
    BY <1>3 DEF projectionVars
  <2>2. /\ ListScheduleProjection' = ListScheduleProjection
        /\ \A h \in Planners : Outdated(h)' <=> Outdated(h)
    BY <2>1 DEF ListScheduleProjection, Outdated
  <2>3. \A m \in mutex : m.who \subseteq Planners
    BY DEF ProjectionInv, ProjectionTypeOK
  <2>4. Build(ListScheduleProjection)' = Build(ListScheduleProjection)
    BY <2>2
  <2>5. ProjectionTypeOK'
    BY <2>1 DEF ProjectionInv, ProjectionTypeOK
  <2>6. RefreshOwed'
    BY <2>1, <2>2, <2>3, <2>4 DEF ProjectionInv, RefreshOwed
  <2> QED BY <2>5, <2>6 DEF ProjectionInv
<1> QED BY <1>1, <1>2, <1>3, ScheduleSteps, VersionStep, RefreshEnds DEF NextProjection

\* In every state.
LEMMA ProjectionInvHolds == SpecProjection => []ProjectionInv
BY ProjectionInit, ProjectionStep, PTL DEF SpecProjection

\* The projection's tables, requests and snapshot keep their types, and one
\* refresh at a time holds the mutex (ProjectionTypeOK).
THEOREM ProjectionTypeCorrect == SpecProjection => []ProjectionTypeOK
<1>1. ProjectionInv => ProjectionTypeOK
  BY DEF ProjectionInv
<1> QED BY <1>1, ProjectionInvHolds, PTL

-----------------------------------------------------------------------------
(* The sweep *)

\* A set of natural numbers has a least one.
LEMMA LeastNumber ==
    ASSUME NEW S, S \subseteq Nat, S # {}
    PROVE  \E n \in S : \A m \in S : n <= m
<1> DEFINE R == OpToRel(<, Nat)
<1>1. IsWellFoundedOn(R, Nat)
  BY NatLessThanWellFounded
<1>2. \A m, n \in Nat : m < n => <<m, n>> \in R
  BY DEF OpToRel
<1> HIDE DEF R
<1>3. PICK n \in S : \A m \in S : ~(<<m, n>> \in R)
  BY <1>1, WFMin
<1>4. ASSUME NEW m \in S PROVE n <= m
  <2>1. m \in Nat /\ n \in Nat
    OBVIOUS
  <2>2. ~(m < n)
    BY <1>2, <1>3, <2>1
  <2> QED BY <2>1, <2>2
<1> QED BY <1>4

\* Induction over the numbers, for a set of them.
LEMMA AllNumbers ==
    ASSUME NEW S, S \subseteq Nat, 0 \in S, \A n \in S : n + 1 \in S
    PROVE  \A n \in Nat : n \in S
<1> DEFINE T == Nat \ S
<1>1. SUFFICES ASSUME T # {} PROVE FALSE
  OBVIOUS
<1>2. PICK n \in T : \A m \in T : n <= m
  BY <1>1, LeastNumber
<1>3. n \in Nat /\ n # 0 /\ n \notin S
  OBVIOUS
<1>4. PICK m \in Nat : n = m + 1
  <2>1. n - 1 \in Nat /\ n = (n - 1) + 1
    BY <1>3
  <2> QED BY <2>1
<1>5. m \in S
  <2>1. ~(n <= m)
    BY <1>4
  <2> QED BY <1>2, <2>1
<1> QED BY <1>3, <1>4, <1>5

\* Occurrences: finitely many, each ending after it starts.
Timed(occ) ==
    /\ IsFiniteSet(occ)
    /\ \A o \in occ : o.start \in Nat /\ o.end \in Nat /\ o.start < o.end

\* An event is the start or the end of an occurrence.
LEMMA EventsInTime ==
    ASSUME NEW occ, Timed(occ)
    PROVE  /\ EventTimes(occ) \subseteq Nat
           /\ \A o \in occ : o.start \in EventTimes(occ) /\ o.end \in EventTimes(occ)
           /\ \A t \in EventTimes(occ) : \E o \in occ : t = o.start \/ t = o.end
           /\ \A t : LaterEvents(occ, t) = {e \in EventTimes(occ) : e > t}
BY DEF Timed, EventTimes, LaterEvents

\* The last event.
LEMMA LastEvent ==
    ASSUME NEW occ, Timed(occ), occ # {}
    PROVE  /\ Max(EventTimes(occ)) \in EventTimes(occ) /\ Max(EventTimes(occ)) \in Nat
           /\ \A t \in EventTimes(occ) : t <= Max(EventTimes(occ))
<1> DEFINE Bounded(T) == \E b \in Nat : \A o \in T : o.end <= b
           S == {n \in Nat : \A T \in SUBSET occ : Cardinality(T) = n => Bounded(T)}
<1>1. IsFiniteSet(occ) /\ \A o \in occ : o.start \in Nat /\ o.end \in Nat /\ o.start < o.end
  BY DEF Timed
<1>2. \A T \in SUBSET occ : IsFiniteSet(T) /\ Cardinality(T) \in Nat
  BY <1>1, FS_Subset, FS_CardinalityType
<1>3. 0 \in S
  <2>1. ASSUME NEW T \in SUBSET occ, Cardinality(T) = 0 PROVE Bounded(T)
    <3>1. T = {}
      BY <1>2, <2>1, FS_EmptySet
    <3> QED BY <3>1
  <2> QED BY <2>1
<1>4. ASSUME NEW n \in S PROVE n + 1 \in S
  <2>1. n \in Nat
    OBVIOUS
  <2>2. ASSUME NEW T \in SUBSET occ, Cardinality(T) = n + 1 PROVE Bounded(T)
    <3>1. T # {}
      BY <2>1, <2>2, FS_EmptySet
    <3>2. PICK o \in T : TRUE
      BY <3>1
    <3>3. Cardinality(T \ {o}) = n
      <4>1. Cardinality(T \ {o}) = Cardinality(T) - 1
        BY <1>2, FS_RemoveElement
      <4> QED BY <2>1, <2>2, <4>1
    <3>4. Bounded(T \ {o})
      BY <3>3
    <3>5. PICK b \in Nat : \A p \in T \ {o} : p.end <= b
      BY <3>4
    <3>6. PICK d \in Nat : d >= b /\ d >= o.end
      <4>1. o.end \in Nat
        BY <1>1
      <4>2. CASE b >= o.end
        BY <4>1, <4>2
      <4>3. CASE ~(b >= o.end)
        BY <4>1, <4>3
      <4> QED BY <4>2, <4>3
    <3>7. ASSUME NEW p \in T PROVE p.end <= d
      <4>1. p.end \in Nat
        BY <1>1
      <4>2. CASE p = o
        BY <3>6, <4>1, <4>2
      <4>3. CASE p # o
        BY <3>5, <3>6, <4>1, <4>3
      <4> QED BY <4>2, <4>3
    <3> QED BY <3>7
  <2> QED BY <2>1, <2>2
<1>5. Bounded(occ)
  <2>1. S \subseteq Nat
    OBVIOUS
  <2> HIDE DEF S
  <2>2. Cardinality(occ) \in S
    BY <1>2, <1>3, <1>4, <2>1, AllNumbers
  <2> USE DEF S
  <2> QED BY <2>2
<1> DEFINE E == EventTimes(occ)
           U == {b \in Nat : \A t \in E : t <= b}
<1>6. E \subseteq Nat /\ E # {} /\ \A t \in E : \E o \in occ : t = o.start \/ t = o.end
  BY EventsInTime DEF EventTimes
<1>7. U # {}
  <2>1. PICK b \in Nat : \A o \in occ : o.end <= b
    BY <1>5
  <2>2. ASSUME NEW t \in E PROVE t <= b
    <3>1. PICK o \in occ : t = o.start \/ t = o.end
      BY <1>6
    <3>2. o.start \in Nat /\ o.end \in Nat /\ o.start < o.end /\ o.end <= b
      BY <1>1, <2>1
    <3> QED BY <3>1, <3>2
  <2> QED BY <2>2
<1>8. PICK b \in U : \A d \in U : b <= d
  <2>1. U \subseteq Nat
    OBVIOUS
  <2> HIDE DEF U
  <2> QED BY <1>7, <2>1, LeastNumber
<1> HIDE DEF E
<1>9. b \in E
  <2>1. SUFFICES ASSUME b \notin E PROVE FALSE
    OBVIOUS
  <2>2. PICK t \in E : TRUE
    BY <1>6
  <2>3. b \in Nat /\ t \in Nat /\ t <= b /\ t # b
    BY <1>6, <2>1
  <2>4. b - 1 \in Nat
    BY <2>3
  <2>5. ASSUME NEW u \in E PROVE u <= b - 1
    <3>1. u \in Nat /\ u <= b /\ u # b
      BY <1>6, <2>1
    <3> QED BY <2>3, <3>1
  <2>6. b - 1 \in U
    BY <2>4, <2>5
  <2>7. b <= b - 1
    BY <1>8, <2>6
  <2> QED BY <2>3, <2>7
<1>10. b \in Nat /\ \A t \in E : b >= t
  BY <1>6
<1>11. Max(E) = b
  <2>1. \A c \in E : (\A t \in E : c >= t) => c = b
    BY <1>6, <1>9, <1>10
  <2> QED BY <1>9, <1>10, <2>1 DEF Max
<1> QED BY <1>6, <1>9, <1>10, <1>11 DEF E

\* What the sweep has after time t, from what it had after the time before.
SweepAt(f, occ, t) ==
    IF t = -1 THEN [active |-> {}, open |-> {}, closed |-> {}]
    ELSE IF t \in EventTimes(occ) THEN SweepStep(f[t - 1], occ, t) ELSE f[t - 1]

\* A function with the sweep's recursion exists up to every time.
LEMMA SweepExists ==
    ASSUME NEW occ, NEW n \in Nat
    PROVE  \E f : f = [t \in -1..(n - 1) |-> SweepAt(f, occ, t)]
<1> DEFINE Upto(f, k) == f = [t \in -1..(k - 1) |-> SweepAt(f, occ, t)]
           S == {k \in Nat : \E f : Upto(f, k)}
<1>1. 0 \in S
  <2> DEFINE f == [t \in -1..(0 - 1) |-> [active |-> {}, open |-> {}, closed |-> {}]]
  <2>1. \A t \in -1..(0 - 1) : t = -1
    OBVIOUS
  <2>2. \A t \in -1..(0 - 1) : SweepAt(f, occ, t) = [active |-> {}, open |-> {}, closed |-> {}]
    BY <2>1 DEF SweepAt
  <2> HIDE DEF f
  <2>3. Upto(f, 0)
    BY <2>2 DEF f
  <2> QED BY <2>3
<1>2. ASSUME NEW k \in S PROVE k + 1 \in S
  <2>1. PICK g : Upto(g, k)
    OBVIOUS
  <2>2. k \in Nat
    OBVIOUS
  <2> DEFINE f == [t \in -1..k |-> IF t = k THEN SweepAt(g, occ, k) ELSE g[t]]
  <2>3. \A t \in -1..(k - 1) : g[t] = SweepAt(g, occ, t)
    BY <2>1
  <2>4. ASSUME NEW t \in -1..k PROVE f[t] = SweepAt(f, occ, t)
    <3>1. t = -1 \/ (t - 1 \in -1..(k - 1) /\ t - 1 \in -1..k /\ t - 1 # k)
      BY <2>2
    <3>2. t = -1 \/ f[t - 1] = g[t - 1]
      BY <3>1
    <3>3. SweepAt(f, occ, t) = SweepAt(g, occ, t)
      <4> HIDE DEF f
      <4> QED BY <3>2 DEF SweepAt
    <3>4. CASE t = k
      BY <3>3, <3>4
    <3>5. CASE t # k
      <4>1. t \in -1..(k - 1)
        BY <2>2, <3>5
      <4> QED BY <2>3, <3>3, <3>5, <4>1
    <3> QED BY <3>4, <3>5
  <2>5. f = [t \in -1..k |-> f[t]]
    OBVIOUS
  <2> HIDE DEF f
  <2>6. f = [t \in -1..k |-> SweepAt(f, occ, t)]
    BY <2>4, <2>5
  <2>7. (k + 1) - 1 = k /\ k + 1 \in Nat
    BY <2>2
  <2>8. Upto(f, k + 1)
    BY <2>6, <2>7
  <2> QED BY <2>7, <2>8
<1>3. S \subseteq Nat
  OBVIOUS
<1>4. n \in S
  <2> HIDE DEF S
  <2> QED BY <1>1, <1>2, <1>3, AllNumbers
<1> QED BY <1>4

\* The sweep is that function.
LEMMA SweepUnfolds ==
    ASSUME NEW occ, Timed(occ), occ # {}
    PROVE  \A t \in -1..Max(EventTimes(occ)) : Sweep(occ)[t] = SweepAt(Sweep(occ), occ, t)
<1> DEFINE last == Max(EventTimes(occ))
<1>1. last \in Nat
  BY LastEvent
<1> HIDE DEF last
<1>2. last + 1 \in Nat /\ (last + 1) - 1 = last
  BY <1>1
<1>3. PICK f : f = [t \in -1..((last + 1) - 1) |-> SweepAt(f, occ, t)]
  BY <1>2, SweepExists, Zenon
<1>4. f = [t \in -1..last |-> SweepAt(f, occ, t)]
  BY <1>2, <1>3
<1>5. f = [t \in -1..last |-> IF t = -1 THEN [active |-> {}, open |-> {}, closed |-> {}]
                              ELSE IF t \in EventTimes(occ) THEN SweepStep(f[t - 1], occ, t) ELSE f[t - 1]]
  BY <1>4 DEF SweepAt
<1>6. Sweep(occ) = [t \in -1..last |-> IF t = -1 THEN [active |-> {}, open |-> {}, closed |-> {}]
                              ELSE IF t \in EventTimes(occ) THEN SweepStep(Sweep(occ)[t - 1], occ, t)
                              ELSE Sweep(occ)[t - 1]]
  BY <1>5, Zenon DEF Sweep, last
<1>7. Sweep(occ) = [t \in -1..last |-> SweepAt(Sweep(occ), occ, t)]
  BY <1>6 DEF SweepAt
<1> QED BY <1>7 DEF last

\* The occurrences under way at a time, and the times with two or more.
ActiveAt(occ, t) == {o \in occ : o.start <= t /\ t < o.end}
Busy(occ, t) == \E o, p \in ActiveAt(occ, t) : o # p

\* Fewer than two occurrences are under way exactly when the time is not busy.
LEMMA BusyCounts ==
    ASSUME NEW occ, Timed(occ), NEW t
    PROVE  /\ IsFiniteSet(ActiveAt(occ, t)) /\ Cardinality(ActiveAt(occ, t)) \in Nat
           /\ Busy(occ, t) <=> Cardinality(ActiveAt(occ, t)) > 1
<1> DEFINE A == ActiveAt(occ, t)
<1>1. IsFiniteSet(A) /\ Cardinality(A) \in Nat
  <2>1. A \subseteq occ /\ IsFiniteSet(occ)
    BY DEF ActiveAt, Timed
  <2> QED BY <2>1, FS_Subset, FS_CardinalityType
<1>2. Busy(occ, t) <=> \E o, p \in A : o # p
  BY DEF Busy
<1> HIDE DEF A
<1>3. ASSUME NEW o \in A, NEW p \in A, o # p PROVE Cardinality(A) > 1
  <2>1. IsFiniteSet(A \ {o}) /\ Cardinality(A \ {o}) = Cardinality(A) - 1
    BY <1>1, FS_RemoveElement
  <2>2. Cardinality(A \ {o}) # 0
    <3>1. p \in A \ {o}
      BY <1>3
    <3> QED BY <2>1, <3>1, FS_EmptySet
  <2>3. Cardinality(A \ {o}) \in Nat
    BY <2>1, FS_CardinalityType
  <2> QED BY <1>1, <2>1, <2>2, <2>3
<1>4. ASSUME Cardinality(A) > 1 PROVE \E o, p \in A : o # p
  <2>1. A # {}
    BY <1>4, FS_EmptySet
  <2>2. PICK o \in A : TRUE
    BY <2>1
  <2>3. IsFiniteSet(A \ {o}) /\ Cardinality(A \ {o}) = Cardinality(A) - 1
    BY <1>1, FS_RemoveElement
  <2>4. A \ {o} # {}
    BY <1>1, <1>4, <2>3, FS_EmptySet
  <2> QED BY <2>4
<1>5. (\E o, p \in A : o # p) <=> Cardinality(A) > 1
  BY <1>3, <1>4
<1> QED BY <1>1, <1>2, <1>5 DEF A

FoundRow(occ) == [start : Nat, end : Nat, occurrences : SUBSET occ]

\* A conflict as found so far: every time in it is busy, and each of its
\* occurrences overlaps another.
RealConflict(c, occ) ==
    /\ c \in FoundRow(occ)
    /\ c.start \in Nat /\ c.end \in Nat /\ c.start < c.end
    /\ \A u \in Nat : c.start <= u /\ u < c.end => Busy(occ, u)
    /\ c.occurrences \subseteq occ
    /\ \A o \in c.occurrences : \E p \in occ : Overlap(o, p)

\* The conflict covers the time and has every occurrence under way then.
Covers(c, occ, u) == c.start <= u /\ u < c.end /\ ActiveAt(occ, u) \subseteq c.occurrences

\* The conflict that goes on ends at the next event.
GoesOn(c, occ, t) ==
    /\ Covers(c, occ, t)
    /\ c.end \in EventTimes(occ) /\ \A e \in EventTimes(occ) : t < e => c.end <= e

\* What the sweep knows after time t.
SweepSound(s, occ, t) ==
    /\ s.active = ActiveAt(occ, t)
    /\ \A c \in s.closed \cup s.open : RealConflict(c, occ)
    /\ \A u \in Nat : u <= t /\ Busy(occ, u) => \E c \in s.closed \cup s.open : Covers(c, occ, u)
    /\ s.open = {} \/ \E c : s.open = {c} /\ GoesOn(c, occ, t)
    /\ Busy(occ, t) => s.open # {}

\* Between two events nothing changes.
LEMMA QuietTime ==
    ASSUME NEW occ, Timed(occ), NEW t \in Nat, t \notin EventTimes(occ), NEW s, SweepSound(s, occ, t - 1)
    PROVE  SweepSound(s, occ, t)
<1>1. \A o \in occ : /\ o.start \in Nat /\ o.end \in Nat /\ o.start < o.end
                     /\ o.start \in EventTimes(occ) /\ o.end \in EventTimes(occ)
  BY EventsInTime DEF Timed
<1>2. ActiveAt(occ, t) = ActiveAt(occ, t - 1)
  <2>1. ASSUME NEW o \in occ PROVE (o.start <= t /\ t < o.end) <=> (o.start <= t - 1 /\ t - 1 < o.end)
    <3>1. o.start \in Nat /\ o.end \in Nat /\ o.start # t /\ o.end # t
      BY <1>1
    <3> QED BY <3>1
  <2> QED BY <2>1 DEF ActiveAt
<1>3. Busy(occ, t) <=> Busy(occ, t - 1)
  BY <1>2 DEF Busy
<1>4. EventTimes(occ) \subseteq Nat
  BY EventsInTime
<1>5. ASSUME NEW c, c \in s.open, GoesOn(c, occ, t - 1) PROVE GoesOn(c, occ, t)
  <2>1. c.end \in EventTimes(occ) /\ c.end \in Nat /\ c.end # t /\ c.start \in Nat /\ c.start <= t - 1 /\ t - 1 < c.end
    BY <1>4, <1>5 DEF GoesOn, Covers, SweepSound, RealConflict
  <2>2. c.start <= t /\ t < c.end
    BY <2>1
  <2>3. ASSUME NEW e \in EventTimes(occ), t < e PROVE c.end <= e
    <3>1. e \in Nat
      BY <1>4
    <3>2. t - 1 < e
      BY <2>3, <3>1
    <3> QED BY <1>5, <3>2 DEF GoesOn
  <2> QED BY <1>2, <1>5, <2>1, <2>2, <2>3 DEF GoesOn, Covers
<1>6. s.open = {} \/ \E c : s.open = {c} /\ GoesOn(c, occ, t)
  BY <1>5 DEF SweepSound
<1>7. ASSUME NEW u \in Nat, u <= t, Busy(occ, u) PROVE \E c \in s.closed \cup s.open : Covers(c, occ, u)
  <2>1. CASE u = t
    <3>1. s.open # {}
      BY <1>3, <1>7, <2>1 DEF SweepSound
    <3> QED BY <1>6, <2>1, <3>1 DEF GoesOn
  <2>2. CASE u # t
    <3>1. u <= t - 1
      BY <1>7, <2>2
    <3> QED BY <1>7, <3>1 DEF SweepSound
  <2> QED BY <2>1, <2>2
<1> QED BY <1>2, <1>3, <1>6, <1>7 DEF SweepSound

\* At an event the occurrences under way are those after updateActiveOccurrences.
LEMMA ActiveUpdated ==
    ASSUME NEW occ, Timed(occ), NEW t \in Nat
    PROVE  UpdateActive(ActiveAt(occ, t - 1), occ, t) = ActiveAt(occ, t)
<1>1. ASSUME NEW o \in occ
      PROVE  (o.start <= t /\ t < o.end) <=> (((o.start <= t - 1 /\ t - 1 < o.end) /\ o.end # t) \/ o.start = t)
  <2>1. o.start \in Nat /\ o.end \in Nat /\ o.start < o.end
    BY DEF Timed
  <2> QED BY <2>1
<1> QED BY <1>1 DEF UpdateActive, ActiveAt

\* What is under way at a time is under way until the next event.
LEMMA ActiveUntilEvent ==
    ASSUME NEW occ, Timed(occ), NEW t \in Nat, NEW m \in Nat, \A e \in EventTimes(occ) : t < e => m <= e,
           NEW u \in Nat, t <= u, u < m
    PROVE  ActiveAt(occ, t) \subseteq ActiveAt(occ, u) /\ (Busy(occ, t) => Busy(occ, u))
<1>1. ASSUME NEW o \in ActiveAt(occ, t) PROVE o \in ActiveAt(occ, u)
  <2>1. o \in occ /\ o.start <= t /\ t < o.end
    BY DEF ActiveAt
  <2>2. o.start \in Nat /\ o.end \in Nat /\ o.end \in EventTimes(occ)
    BY <2>1, EventsInTime DEF Timed
  <2>3. m <= o.end
    BY <2>1, <2>2
  <2>4. o.start <= u /\ u < o.end
    BY <2>1, <2>2, <2>3
  <2> QED BY <2>1, <2>4 DEF ActiveAt
<1> QED BY <1>1 DEF Busy

\* Two occurrences under way at the same time overlap.
LEMMA BusyOverlap ==
    ASSUME NEW occ, Timed(occ), NEW t \in Nat, Busy(occ, t), NEW o \in ActiveAt(occ, t)
    PROVE  \E p \in occ : Overlap(o, p)
<1>1. PICK p \in ActiveAt(occ, t) : p # o
  BY DEF Busy
<1>2. /\ o \in occ /\ p \in occ /\ o.start <= t /\ t < o.end /\ p.start <= t /\ t < p.end
  BY DEF ActiveAt
<1>3. o.start \in Nat /\ o.end \in Nat /\ p.start \in Nat /\ p.end \in Nat
  BY <1>2 DEF Timed
<1>4. Overlap(o, p)
  BY <1>1, <1>2, <1>3 DEF Overlap
<1> QED BY <1>2, <1>4

\* A step of the sweep at an event that leaves fewer than two under way closes
\* the conflict.
LEMMA StepCloses ==
    ASSUME NEW occ, Timed(occ), NEW t \in Nat, NEW s, SweepSound(s, occ, t - 1), ~Busy(occ, t), NEW r,
           r = [active |-> ActiveAt(occ, t), open |-> {}, closed |-> s.closed \cup s.open]
    PROVE  SweepSound(r, occ, t)
<1>1. r.active = ActiveAt(occ, t) /\ r.open = {} /\ r.closed \cup r.open = s.closed \cup s.open
  OBVIOUS
<1>2. ASSUME NEW u \in Nat, u <= t, Busy(occ, u) PROVE \E c \in s.closed \cup s.open : Covers(c, occ, u)
  <2>1. u # t
    BY <1>2
  <2>2. u <= t - 1
    BY <1>2, <2>1
  <2> QED BY <1>2, <2>2 DEF SweepSound
<1>3. \A c \in s.closed \cup s.open : RealConflict(c, occ)
  BY DEF SweepSound
<1> QED BY <1>1, <1>2, <1>3 DEF SweepSound

\* The conflict open after an event that leaves two or more under way: it goes
\* on from the one that was open, if there was one, to the next event.
Opened(c, s, occ, t, m) ==
    /\ c \in FoundRow(occ)
    /\ c.start \in Nat /\ c.start <= t /\ c.end = m /\ ActiveAt(occ, t) \subseteq c.occurrences
    /\ c.occurrences \subseteq occ
    /\ \A o \in c.occurrences : \E p \in occ : Overlap(o, p)
    /\ \A u \in Nat : c.start <= u /\ u < t => Busy(occ, u)
    /\ \A d \in s.open : \A u \in Nat : Covers(d, occ, u) => Covers(c, occ, u)

\* A new conflict, when none was open.
LEMMA ConflictStarts ==
    ASSUME NEW occ, Timed(occ), NEW t \in Nat, NEW s, s.open = {}, Busy(occ, t), NEW m, NEW c \in FoundRow(occ),
           c.start = t, c.end = m, c.occurrences = ActiveAt(occ, t)
    PROVE  Opened(c, s, occ, t, m)
<1>1. ActiveAt(occ, t) \subseteq occ /\ \A o \in ActiveAt(occ, t) : \E p \in occ : Overlap(o, p)
  BY BusyOverlap DEF ActiveAt
<1>2. \A u \in Nat : ~(t <= u /\ u < t)
  OBVIOUS
<1> QED BY <1>1, <1>2 DEF Opened

\* The open conflict ended at this event; it is extended to the next.
LEMMA ConflictGrows ==
    ASSUME NEW occ, Timed(occ), NEW t \in EventTimes(occ), t \in Nat, NEW s, SweepSound(s, occ, t - 1), Busy(occ, t),
           NEW m \in Nat, t < m, NEW d, s.open = {d}, NEW c \in FoundRow(occ),
           c.start = d.start, c.end = m, c.occurrences = d.occurrences \cup ActiveAt(occ, t)
    PROVE  Opened(c, s, occ, t, m)
<1>1. ActiveAt(occ, t) \subseteq occ /\ \A o \in ActiveAt(occ, t) : \E p \in occ : Overlap(o, p)
  BY BusyOverlap DEF ActiveAt
<1>2. GoesOn(d, occ, t - 1) /\ RealConflict(d, occ)
  BY DEF SweepSound
<1>3. d.start \in Nat /\ d.end \in Nat /\ d.start <= t - 1 /\ d.end <= t /\ t - 1 < d.end
  <2>1. t - 1 < t
    OBVIOUS
  <2> QED BY <1>2, <2>1 DEF GoesOn, Covers, RealConflict
<1>4. d.end = t /\ d.start <= t
  BY <1>3
<1>5. /\ d.occurrences \subseteq occ /\ \A o \in d.occurrences : \E p \in occ : Overlap(o, p)
      /\ \A u \in Nat : d.start <= u /\ u < t => Busy(occ, u)
  BY <1>2, <1>4 DEF RealConflict
<1>6. ASSUME NEW u \in Nat, Covers(d, occ, u) PROVE Covers(c, occ, u)
  <2>1. d.start <= u /\ u < t /\ ActiveAt(occ, u) \subseteq d.occurrences
    BY <1>4, <1>6 DEF Covers
  <2>2. u < m
    BY <2>1
  <2> QED BY <2>1, <2>2 DEF Covers
<1> QED BY <1>1, <1>3, <1>4, <1>5, <1>6 DEF Opened

\* A step at an event that leaves two or more under way opens a conflict or
\* extends the open one.
LEMMA StepOpens ==
    ASSUME NEW occ, Timed(occ), NEW t \in Nat, NEW s, SweepSound(s, occ, t - 1), Busy(occ, t),
           NEW m \in EventTimes(occ), t < m, \A e \in EventTimes(occ) : t < e => m <= e,
           NEW c, Opened(c, s, occ, t, m),
           NEW r, r.active = ActiveAt(occ, t), r.closed = s.closed, r.open = {c}
    PROVE  SweepSound(r, occ, t)
<1>1. m \in Nat
  BY EventsInTime
<1>2. RealConflict(c, occ)
  <2>1. c.start < m
    BY <1>1 DEF Opened
  <2>2. ASSUME NEW u \in Nat, c.start <= u, u < m PROVE Busy(occ, u)
    <3>1. CASE u < t
      BY <2>2, <3>1 DEF Opened
    <3>2. CASE ~(u < t)
      <4>1. t <= u
        BY <3>2
      <4> QED BY <1>1, <2>2, <4>1, ActiveUntilEvent
    <3> QED BY <3>1, <3>2
  <2> QED BY <1>1, <2>1, <2>2 DEF Opened, RealConflict
<1>3. GoesOn(c, occ, t)
  BY DEF Opened, GoesOn, Covers
<1>4. ASSUME NEW u \in Nat, u <= t, Busy(occ, u) PROVE \E d \in r.closed \cup r.open : Covers(d, occ, u)
  <2>1. CASE u = t
    BY <1>3, <2>1 DEF GoesOn
  <2>2. CASE u # t
    <3>1. u <= t - 1
      BY <1>4, <2>2
    <3>2. PICK d \in s.closed \cup s.open : Covers(d, occ, u)
      BY <1>4, <3>1 DEF SweepSound
    <3> QED BY <3>2 DEF Opened
  <2> QED BY <2>1, <2>2
<1>5. \A d \in r.closed \cup r.open : RealConflict(d, occ)
  BY <1>2 DEF SweepSound
<1> QED BY <1>3, <1>4, <1>5 DEF SweepSound

\* A step of the sweep at an event.
LEMMA EventStep ==
    ASSUME NEW occ, Timed(occ), NEW t \in EventTimes(occ), NEW s, SweepSound(s, occ, t - 1)
    PROVE  SweepSound(SweepStep(s, occ, t), occ, t)
<1> DEFINE later == LaterEvents(occ, t)
<1>1. t \in Nat /\ EventTimes(occ) \subseteq Nat /\ later = {e \in EventTimes(occ) : e > t}
  BY EventsInTime
<1>2. UpdateActive(s.active, occ, t) = ActiveAt(occ, t)
  BY <1>1, ActiveUpdated DEF SweepSound
<1>3. Busy(occ, t) <=> ~(Cardinality(ActiveAt(occ, t)) < 2)
  <2>1. Cardinality(ActiveAt(occ, t)) \in Nat /\ (Busy(occ, t) <=> Cardinality(ActiveAt(occ, t)) > 1)
    BY BusyCounts
  <2> QED BY <2>1
<1>4. ASSUME later = {} PROVE ~Busy(occ, t)
  <2>1. ASSUME NEW o \in ActiveAt(occ, t) PROVE FALSE
    <3>1. o \in occ /\ t < o.end
      BY DEF ActiveAt
    <3>2. o.end \in EventTimes(occ) /\ o.end \in Nat
      BY <1>1, <3>1, EventsInTime
    <3> QED BY <1>1, <1>4, <3>1, <3>2
  <2> QED BY <2>1 DEF Busy
<1>5. CASE ~Busy(occ, t)
  <2>1. SweepStep(s, occ, t) = [active |-> ActiveAt(occ, t), open |-> {}, closed |-> s.closed \cup s.open]
    BY <1>2, <1>3, <1>5 DEF SweepStep
  <2> QED BY <1>1, <1>5, <2>1, StepCloses
<1>6. CASE Busy(occ, t)
  <2>1. later # {} /\ ~(Cardinality(ActiveAt(occ, t)) < 2)
    BY <1>3, <1>4, <1>6
  <2>2. PICK m \in later : \A e \in later : m <= e
    <3>1. later \subseteq Nat
      BY <1>1
    <3> QED BY <2>1, <3>1, LeastNumber
  <2>3. Min(later) = m
    <3>1. \A n \in later : (\A e \in later : n <= e) => n = m
      BY <1>1, <2>2
    <3> QED BY <2>2, <3>1 DEF Min
  <2>4. m \in Nat /\ m \in EventTimes(occ) /\ t < m /\ \A e \in EventTimes(occ) : t < e => m <= e
    BY <1>1, <2>2
  <2> HIDE DEF later
  <2> DEFINE c == IF s.open = {} THEN [start |-> t, end |-> m, occurrences |-> ActiveAt(occ, t)]
                  ELSE [CHOOSE d \in s.open : TRUE EXCEPT !.end = m, !.occurrences = @ \cup ActiveAt(occ, t)]
  <2>5. SweepStep(s, occ, t) = [active |-> ActiveAt(occ, t), closed |-> s.closed, open |-> {c}]
    BY <1>2, <2>1, <2>3, Zenon DEF SweepStep, later
  <2>6. Opened(c, s, occ, t, m)
    <3>1. ActiveAt(occ, t) \subseteq occ
      BY DEF ActiveAt
    <3>2. CASE s.open = {}
      <4>1. c \in FoundRow(occ) /\ c.start = t /\ c.end = m /\ c.occurrences = ActiveAt(occ, t)
        BY <1>1, <2>4, <3>1, <3>2 DEF FoundRow
      <4> HIDE DEF c
      <4> QED BY <1>1, <1>6, <3>2, <4>1, ConflictStarts
    <3>3. CASE s.open # {}
      <4>1. PICK d : s.open = {d} /\ d \in FoundRow(occ)
        BY <3>3 DEF SweepSound, RealConflict
      <4>2. c = [d EXCEPT !.end = m, !.occurrences = @ \cup ActiveAt(occ, t)]
        BY <3>3, <4>1
      <4> HIDE DEF c
      <4>3. c \in FoundRow(occ) /\ c.start = d.start /\ c.end = m /\ c.occurrences = d.occurrences \cup ActiveAt(occ, t)
        BY <2>4, <3>1, <4>1, <4>2 DEF FoundRow
      <4> QED BY <1>1, <1>6, <2>4, <4>1, <4>3, ConflictGrows
    <3> QED BY <3>2, <3>3
  <2> HIDE DEF c
  <2>7. PICK r : r = SweepStep(s, occ, t)
    OBVIOUS
  <2>8. r.active = ActiveAt(occ, t) /\ r.closed = s.closed /\ r.open = {c}
    BY <2>5, <2>7
  <2>9. SweepSound(r, occ, t)
    BY <1>1, <1>6, <2>4, <2>6, <2>8, StepOpens
  <2> QED BY <2>7, <2>9
<1> QED BY <1>5, <1>6

\* After every time the sweep knows what it should.
LEMMA SweepIsSound ==
    ASSUME NEW occ, Timed(occ), occ # {}
    PROVE  SweepSound(Sweep(occ)[Max(EventTimes(occ))], occ, Max(EventTimes(occ)))
<1> DEFINE last == Max(EventTimes(occ))
           f == Sweep(occ)
           S == {n \in Nat : n - 1 <= last => SweepSound(f[n - 1], occ, n - 1)}
<1>1. last \in Nat
  BY LastEvent
<1>2. \A t \in -1..last : f[t] = SweepAt(f, occ, t)
  BY SweepUnfolds
<1> HIDE DEF last, f
<1>3. SweepSound(f[-1], occ, -1)
  <2>1. -1 \in -1..last
    BY <1>1
  <2>2. f[-1] = [active |-> {}, open |-> {}, closed |-> {}]
    BY <1>2, <2>1 DEF SweepAt
  <2>3. f[-1].active = {} /\ f[-1].open = {} /\ f[-1].closed = {}
    BY <2>2
  <2>4. ActiveAt(occ, -1) = {}
    <3>1. ASSUME NEW o \in occ PROVE ~(o.start <= -1)
      <4>1. o.start \in Nat
        BY DEF Timed
      <4> QED BY <4>1
    <3> QED BY <3>1 DEF ActiveAt
  <2>5. \A u \in Nat : ~(u <= -1)
    OBVIOUS
  <2>6. ~Busy(occ, -1)
    BY <2>4 DEF Busy
  <2> QED BY <2>3, <2>4, <2>5, <2>6 DEF SweepSound
<1>4. 0 \in S
  <2>1. 0 - 1 = -1
    OBVIOUS
  <2> QED BY <1>3, <2>1
<1>5. ASSUME NEW n \in S PROVE n + 1 \in S
  <2>1. n \in Nat /\ (n + 1) - 1 = n /\ n + 1 \in Nat
    OBVIOUS
  <2>2. ASSUME n <= last PROVE SweepSound(f[n], occ, n)
    <3>1. n - 1 <= last /\ n \in -1..last /\ n # -1
      BY <1>1, <2>1, <2>2
    <3>2. SweepSound(f[n - 1], occ, n - 1)
      BY <3>1
    <3>3. f[n] = IF n \in EventTimes(occ) THEN SweepStep(f[n - 1], occ, n) ELSE f[n - 1]
      BY <1>2, <3>1 DEF SweepAt
    <3> QED BY <2>1, <3>2, <3>3, EventStep, QuietTime
  <2> QED BY <2>1, <2>2
<1>6. S \subseteq Nat
  OBVIOUS
<1>7. last + 1 \in S
  <2>1. last + 1 \in Nat
    BY <1>1
  <2> HIDE DEF S
  <2> QED BY <1>4, <1>5, <1>6, <2>1, AllNumbers
<1>8. (last + 1) - 1 = last /\ last <= last
  BY <1>1
<1>9. SweepSound(f[last], occ, last)
  BY <1>7, <1>8
<1> QED BY <1>9 DEF last, f

\* conflictsForResource finds exactly the busy times and exactly the
\* occurrences that overlap another.
LEMMA SweepExact ==
    ASSUME NEW occ, Timed(occ)
    PROVE  /\ \A c \in ConflictsForResource(occ) : c.start \in Nat /\ c.end \in Nat /\ c.start < c.end
           /\ \A t \in Nat : (\E c \in ConflictsForResource(occ) : c.start <= t /\ t < c.end) <=> Busy(occ, t)
           /\ \A c \in ConflictsForResource(occ) : \A o \in c.occurrences : o \in occ /\ \E p \in occ : Overlap(o, p)
           /\ \A o, p \in occ : Overlap(o, p) => \E c \in ConflictsForResource(occ) : o \in c.occurrences
<1>1. CASE occ = {}
  BY <1>1 DEF ConflictsForResource, Busy, ActiveAt
<1>2. CASE occ # {}
  <2>1. PICK last : last = Max(EventTimes(occ))
    OBVIOUS
  <2>2. PICK s : s = Sweep(occ)[last]
    OBVIOUS
  <2>3. PICK C : C = ConflictsForResource(occ)
    OBVIOUS
  <2>4. C = s.closed
    BY <1>2, <2>1, <2>2, <2>3 DEF ConflictsForResource
  <2>5. SweepSound(s, occ, last)
    BY <1>2, <2>1, <2>2, SweepIsSound
  <2>6. last \in Nat /\ EventTimes(occ) \subseteq Nat /\ \A t \in EventTimes(occ) : t <= last
    BY <1>2, <2>1, LastEvent, EventsInTime
  <2>7. s.open = {}
    <3>1. SUFFICES ASSUME NEW c, GoesOn(c, occ, last) PROVE FALSE
      BY <2>5 DEF SweepSound
    <3>2. c.end \in EventTimes(occ) /\ last < c.end
      BY <3>1 DEF GoesOn, Covers
    <3>3. c.end \in Nat /\ c.end <= last
      BY <2>6, <3>2
    <3> QED BY <2>6, <3>2, <3>3
  <2>8. /\ \A c \in C : RealConflict(c, occ)
        /\ \A u \in Nat : u <= last /\ Busy(occ, u) => \E c \in C : Covers(c, occ, u)
    BY <2>4, <2>5, <2>7 DEF SweepSound
  <2>9. ASSUME NEW u \in Nat, Busy(occ, u) PROVE \E c \in C : Covers(c, occ, u)
    <3>1. PICK o \in ActiveAt(occ, u) : TRUE
      BY <2>9 DEF Busy
    <3>2. o \in occ /\ u < o.end
      BY DEF ActiveAt
    <3>3. o.end \in EventTimes(occ)
      BY <3>2, EventsInTime
    <3>4. o.end \in Nat /\ o.end <= last
      BY <2>6, <3>3
    <3>5. u <= last
      BY <2>6, <3>2, <3>4
    <3> QED BY <2>8, <2>9, <3>5
  <2>10. ASSUME NEW o \in occ, NEW p \in occ, Overlap(o, p) PROVE \E c \in C : o \in c.occurrences
    <3>1. /\ o.start \in Nat /\ o.end \in Nat /\ o.start < o.end
          /\ p.start \in Nat /\ p.end \in Nat /\ p.start < p.end
      BY DEF Timed
    <3>2. o # p /\ o.start < p.end /\ p.start < o.end
      BY <2>10 DEF Overlap
    <3>3. PICK u \in Nat : o.start <= u /\ u < o.end /\ p.start <= u /\ u < p.end
      <4>1. CASE o.start <= p.start
        BY <3>1, <3>2, <4>1
      <4>2. CASE ~(o.start <= p.start)
        BY <3>1, <3>2, <4>2
      <4> QED BY <4>1, <4>2
    <3>4. o \in ActiveAt(occ, u) /\ p \in ActiveAt(occ, u)
      BY <3>3 DEF ActiveAt
    <3>5. Busy(occ, u)
      BY <3>2, <3>4 DEF Busy
    <3>6. PICK c \in C : Covers(c, occ, u)
      BY <2>9, <3>5
    <3> QED BY <3>4, <3>6 DEF Covers
  <2>11. \A t \in Nat : (\E c \in C : c.start <= t /\ t < c.end) <=> Busy(occ, t)
    <3>1. \A t \in Nat : Busy(occ, t) => \E c \in C : c.start <= t /\ t < c.end
      BY <2>9 DEF Covers
    <3>2. \A t \in Nat : (\E c \in C : c.start <= t /\ t < c.end) => Busy(occ, t)
      BY <2>8 DEF RealConflict
    <3> QED BY <3>1, <3>2
  <2>12. /\ \A c \in C : c.start \in Nat /\ c.end \in Nat /\ c.start < c.end
         /\ \A c \in C : \A o \in c.occurrences : o \in occ /\ \E p \in occ : Overlap(o, p)
    BY <2>8 DEF RealConflict
  <2> QED BY <2>3, <2>10, <2>11, <2>12
<1> QED BY <1>1, <1>2

-----------------------------------------------------------------------------
(* The report *)

\* Inputs as the store returns them: one for a schedule, of a task version that
\* takes time.
Good(inputs) ==
    /\ inputs \subseteq Input
    /\ \A i \in inputs : i.job.duration > 0
    /\ \A i, k \in inputs : i.plan = k.plan => i = k

\* No two occurrences that need the same exclusive resource overlap.
Clear(inputs) == \A x \in Exclusive : \A o, q \in Occurrences(inputs, x) : ~Overlap(o, q)

\* projectScheduleInput: the occurrences are those of the inputs.
LEMMA OccurrenceOf ==
    ASSUME NEW inputs, NEW x, NEW o \in Occurrences(inputs, x)
    PROVE  \E i \in inputs : \E at \in i.times :
               x \in i.job.resources /\ o = [plan |-> i.plan, start |-> at, end |-> at + i.job.duration]
BY DEF Occurrences

\* More inputs have more occurrences.
LEMMA OccurrencesGrow ==
    ASSUME NEW inputs, NEW more, inputs \subseteq more, NEW x
    PROVE  Occurrences(inputs, x) \subseteq Occurrences(more, x)
BY DEF Occurrences

\* They are finitely many and each takes time.
LEMMA OccurrencesTimed ==
    ASSUME NEW inputs, Good(inputs), NEW x
    PROVE  Timed(Occurrences(inputs, x))
<1>1. PICK occ : occ = Occurrences(inputs, x)
  OBVIOUS
<1>2. ASSUME NEW o \in occ
      PROVE  \E i \in inputs : /\ o.plan = i.plan /\ o.start \in 0..(Horizon - 1) /\ o.plan \in Plans
                               /\ o = [plan |-> i.plan, start |-> o.start, end |-> o.start + i.job.duration]
                               /\ o.start \in Nat /\ o.end \in Nat /\ o.start < o.end
  <2>1. PICK i \in inputs : \E at \in i.times : o = [plan |-> i.plan, start |-> at, end |-> at + i.job.duration]
    BY <1>1, OccurrenceOf
  <2>2. PICK at \in i.times : o = [plan |-> i.plan, start |-> at, end |-> at + i.job.duration]
    BY <2>1
  <2>3. o.plan = i.plan /\ o.start = at /\ o.end = at + i.job.duration
    BY <2>2
  <2>4. i \in Input /\ i.job.duration > 0
    BY DEF Good
  <2>5. i.plan \in Plans /\ at \in 0..(Horizon - 1) /\ i.job.duration \in Nat
    BY <2>4 DEF Input, JobRow
  <2>6. at \in Nat /\ at + i.job.duration \in Nat /\ at < at + i.job.duration
    BY <2>4, <2>5, ProjectionAssumption
  <2> QED BY <2>2, <2>3, <2>5, <2>6
<1> DEFINE T == Plans \X (0..(Horizon - 1))
           f == [o \in occ |-> <<o.plan, o.start>>]
<1>3. IsFiniteSet(T)
  <2>1. IsFiniteSet(0..(Horizon - 1))
    BY ProjectionAssumption, FS_Interval
  <2> QED BY <2>1, ProjectionAssumption, FS_Product
<1>4. f \in [occ -> T]
  BY <1>2
<1>5. ASSUME NEW o \in occ, NEW q \in occ, f[o] = f[q] PROVE o = q
  <2>1. o.plan = q.plan /\ o.start = q.start
    BY <1>5
  <2>2. PICK i \in inputs : o.plan = i.plan /\ o = [plan |-> i.plan, start |-> o.start, end |-> o.start + i.job.duration]
    BY <1>2
  <2>3. PICK k \in inputs : q.plan = k.plan /\ q = [plan |-> k.plan, start |-> q.start, end |-> q.start + k.job.duration]
    BY <1>2
  <2>4. i = k
    BY <2>1, <2>2, <2>3 DEF Good
  <2> QED BY <2>1, <2>2, <2>3, <2>4
<1> HIDE DEF f, T
<1>6. f \in Injection(occ, T)
  BY <1>4, <1>5 DEF Injection, IsInjective
<1>7. IsFiniteSet(occ)
  BY <1>3, <1>6, FS_Injection
<1> QED BY <1>1, <1>2, <1>7 DEF Timed

\* The conflicts of a report are those of its resources.
LEMMA ConflictOf ==
    ASSUME NEW inputs
    PROVE  \A k : k \in Conflicts(inputs) <=>
               \E x \in Exclusive : \E c \in ConflictsForResource(Occurrences(inputs, x)) : k = [resource |-> x, conflict |-> c]
BY DEF Conflicts

\* Without an overlap there is no conflict.
LEMMA ConflictsClear ==
    ASSUME NEW inputs, Good(inputs)
    PROVE  Clear(inputs) => Conflicts(inputs) = {}
<1> SUFFICES ASSUME Clear(inputs), NEW x \in Exclusive, NEW c \in ConflictsForResource(Occurrences(inputs, x))
             PROVE  FALSE
  BY ConflictOf
<1>1. PICK occ : occ = Occurrences(inputs, x)
  OBVIOUS
<1>2. Timed(occ)
  BY <1>1, OccurrencesTimed
<1>3. c \in ConflictsForResource(occ)
  BY <1>1
<1>4. c.start \in Nat /\ c.start <= c.start /\ c.start < c.end
  BY <1>2, <1>3, SweepExact
<1>5. Busy(occ, c.start)
  BY <1>2, <1>3, <1>4, SweepExact
<1>6. PICK o \in ActiveAt(occ, c.start) : TRUE
  BY <1>5 DEF Busy
<1>7. o \in occ /\ \E q \in occ : Overlap(o, q)
  BY <1>2, <1>4, <1>5, BusyOverlap DEF ActiveAt
<1> QED BY <1>1, <1>7 DEF Clear

\* CheckScheduleConflicts: a candidate without conflicts leaves the schedules
\* clear when they were.
Without(inputs, p) == {i \in inputs : i.plan # p}

\* The conflicts it looks at, those the candidate takes part in, are enough.
LEMMA CandidateClear ==
    ASSUME NEW inputs, Clear(inputs), NEW p, NEW candidate, candidate.plan = p,
           Good(Without(inputs, p) \cup {candidate}), CandidateConflicts(p, inputs, candidate) = {}
    PROVE  Clear(Without(inputs, p) \cup {candidate})
<1>1. PICK all : all = Without(inputs, p) \cup {candidate}
  OBVIOUS
<1> SUFFICES ASSUME NEW x \in Exclusive, NEW o \in Occurrences(all, x), NEW q \in Occurrences(all, x), Overlap(o, q)
             PROVE  FALSE
  BY <1>1 DEF Clear
<1>2. PICK occ : occ = Occurrences(all, x)
  OBVIOUS
<1>3. Timed(occ) /\ o \in occ /\ q \in occ
  BY <1>1, <1>2, OccurrencesTimed
<1>4. Overlap(q, o)
  BY DEF Overlap
<1>5. ASSUME NEW r \in occ, r.plan # p PROVE r \in Occurrences(inputs, x)
  <2>1. PICK i \in all : \E at \in i.times :
          x \in i.job.resources /\ r = [plan |-> i.plan, start |-> at, end |-> at + i.job.duration]
    BY <1>2, OccurrenceOf
  <2>2. r.plan = i.plan
    BY <2>1
  <2>3. i \in inputs
    BY <1>1, <1>5, <2>2 DEF Without
  <2> QED BY <2>1, <2>3 DEF Occurrences
<1>6. ASSUME NEW r \in occ, NEW u \in occ, Overlap(r, u), r.plan = p PROVE FALSE
  <2>1. PICK c \in ConflictsForResource(occ) : r \in c.occurrences
    BY <1>3, <1>6, SweepExact
  <2>2. PICK k : k = [resource |-> x, conflict |-> c]
    OBVIOUS
  <2>3. k \in Conflicts(all) /\ k.conflict = c
    BY <1>2, <2>1, <2>2, ConflictOf
  <2>4. CandidateConflicts(p, inputs, candidate) = {d \in Conflicts(all) : \E e \in d.conflict.occurrences : e.plan = p}
    BY <1>1 DEF CandidateConflicts, Without
  <2> QED BY <1>6, <2>1, <2>3, <2>4
<1>7. CASE o.plan = p
  BY <1>3, <1>6, <1>7
<1>8. CASE q.plan = p
  BY <1>3, <1>4, <1>6, <1>8
<1>9. CASE o.plan # p /\ q.plan # p
  BY <1>3, <1>5, <1>9 DEF Clear
<1> QED BY <1>7, <1>8, <1>9

\* The report's marks and times are exact.
LEMMA ReportExact ==
    ASSUME NEW inputs, Good(inputs)
    PROVE  /\ Build(inputs).conflicted =
                UNION {{o \in Occurrences(inputs, x) : \E p \in Occurrences(inputs, x) : Overlap(o, p)} : x \in Exclusive}
           /\ \A x \in Exclusive : \A t \in UNION {o.start..o.end : o \in Occurrences(inputs, x)} :
                (\E c \in Build(inputs).conflicts : c.resource = x /\ c.conflict.start <= t /\ t < c.conflict.end)
                    <=> Cardinality({o \in Occurrences(inputs, x) : o.start <= t /\ t < o.end}) > 1
<1>1. /\ Build(inputs).conflicts = Conflicts(inputs)
      /\ Build(inputs).conflicted = UNION {c.conflict.occurrences : c \in Conflicts(inputs)}
  BY DEF Build
<1>2. ASSUME NEW o
      PROVE  (\E c \in Conflicts(inputs) : o \in c.conflict.occurrences) <=>
             (\E x \in Exclusive : o \in Occurrences(inputs, x) /\ \E p \in Occurrences(inputs, x) : Overlap(o, p))
  <2>1. ASSUME NEW c \in Conflicts(inputs), o \in c.conflict.occurrences
        PROVE  \E x \in Exclusive : o \in Occurrences(inputs, x) /\ \E p \in Occurrences(inputs, x) : Overlap(o, p)
    <3>1. PICK x \in Exclusive : \E e \in ConflictsForResource(Occurrences(inputs, x)) : c = [resource |-> x, conflict |-> e]
      BY ConflictOf
    <3>2. PICK d \in ConflictsForResource(Occurrences(inputs, x)) : c.conflict = d
      BY <3>1
    <3> QED BY <2>1, <3>2, OccurrencesTimed, SweepExact
  <2>2. ASSUME NEW x \in Exclusive, o \in Occurrences(inputs, x), NEW p \in Occurrences(inputs, x), Overlap(o, p)
        PROVE  \E c \in Conflicts(inputs) : o \in c.conflict.occurrences
    <3>1. PICK d \in ConflictsForResource(Occurrences(inputs, x)) : o \in d.occurrences
      BY <2>2, OccurrencesTimed, SweepExact
    <3>2. PICK c : c = [resource |-> x, conflict |-> d]
      OBVIOUS
    <3>3. c \in Conflicts(inputs) /\ c.conflict = d
      BY <3>2, ConflictOf
    <3> QED BY <3>1, <3>3
  <2> QED BY <2>1, <2>2
<1>3. Build(inputs).conflicted =
        UNION {{o \in Occurrences(inputs, x) : \E p \in Occurrences(inputs, x) : Overlap(o, p)} : x \in Exclusive}
  BY <1>1, <1>2
<1>4. ASSUME NEW x \in Exclusive, NEW t \in UNION {o.start..o.end : o \in Occurrences(inputs, x)}
      PROVE  (\E c \in Conflicts(inputs) : c.resource = x /\ c.conflict.start <= t /\ t < c.conflict.end)
                 <=> Cardinality({o \in Occurrences(inputs, x) : o.start <= t /\ t < o.end}) > 1
  <2>1. PICK occ : occ = Occurrences(inputs, x)
    OBVIOUS
  <2>2. Timed(occ)
    BY <2>1, OccurrencesTimed
  <2>3. t \in Nat
    <3>1. PICK o \in occ : t \in o.start..o.end
      BY <2>1
    <3>2. o.start \in Nat /\ o.end \in Nat
      BY <2>2 DEF Timed
    <3> QED BY <3>1, <3>2
  <2>4. (\E c \in ConflictsForResource(occ) : c.start <= t /\ t < c.end) <=> Busy(occ, t)
    BY <2>2, <2>3, SweepExact
  <2>5. Busy(occ, t) <=> Cardinality({o \in occ : o.start <= t /\ t < o.end}) > 1
    BY <2>2, BusyCounts DEF ActiveAt
  <2>6. ASSUME NEW c \in Conflicts(inputs), c.resource = x, c.conflict.start <= t, t < c.conflict.end
        PROVE  \E d \in ConflictsForResource(occ) : d.start <= t /\ t < d.end
    <3>1. PICK y \in Exclusive : \E e \in ConflictsForResource(Occurrences(inputs, y)) : c = [resource |-> y, conflict |-> e]
      BY ConflictOf
    <3>2. PICK d \in ConflictsForResource(Occurrences(inputs, y)) : c.conflict = d /\ c.resource = y
      BY <3>1
    <3> QED BY <2>1, <2>6, <3>2
  <2>7. ASSUME NEW d \in ConflictsForResource(occ), d.start <= t, t < d.end
        PROVE  \E c \in Conflicts(inputs) : c.resource = x /\ c.conflict.start <= t /\ t < c.conflict.end
    <3>1. PICK c : c = [resource |-> x, conflict |-> d]
      OBVIOUS
    <3>2. c \in Conflicts(inputs) /\ c.conflict = d /\ c.resource = x
      BY <2>1, <3>1, ConflictOf
    <3> QED BY <2>7, <3>2
  <2> QED BY <2>1, <2>4, <2>5, <2>6, <2>7
<1> QED BY <1>1, <1>3, <1>4

-----------------------------------------------------------------------------
(* Admission *)

\* The input a handler that has checked its schedule will write.
Candidate(row, p, j) == [plan |-> p, times |-> row.times, job |-> j]

Writes(row) == row.phase = "write"
Works(row) == row.phase \in {"check", "write"}

\* The schedules are clear; one handler at most is about to write, and they are
\* clear with its candidate in place of the schedule it writes; a handler that
\* is about to check has the versions the tasks have.
Admitted(list, rows, jobs) ==
    /\ Clear(list)
    /\ \A h \in Planners : Writes(rows[h]) =>
        /\ \A k \in Planners : Writes(rows[k]) => k = h
        /\ \A p \in rows[h].plan : \A j \in rows[h].job :
            Clear(Without(list, p) \cup {Candidate(rows[h], p, jobs[j])})
    /\ \A h \in Planners : rows[h].phase = "check" => rows[h].version = {jobs[j] : j \in rows[h].job}

\* Schedules and tasks have the versions the requests gave them, a handler under
\* way has one schedule and one task, what was read and what is shown is the
\* report of such inputs, and unless something went unchecked the schedules are
\* admitted.
Admission ==
    /\ job \in [Jobs -> JobChoices]
    /\ \A p \in Plans : plan[p].job = {} \/ \E row \in JobChoices : plan[p].job = {row}
    /\ \A h \in Planners : UnderWay(h) => \E p \in Plans : \E j \in Jobs : planner[h].plan = {p} /\ planner[h].job = {j}
    /\ \A m \in mutex : Good(m.inputs)
    /\ snapshot = Build(snapshot.inputs) /\ Good(snapshot.inputs)
    /\ ~unchecked => Admitted(ListScheduleProjection, planner, job)

\* Fewer inputs stay clear.
LEMMA FewerClear ==
    ASSUME NEW inputs, NEW more, inputs \subseteq more, Clear(more)
    PROVE  Clear(inputs)
<1> SUFFICES ASSUME NEW x \in Exclusive, NEW o \in Occurrences(inputs, x), NEW q \in Occurrences(inputs, x)
             PROVE  ~Overlap(o, q)
  BY DEF Clear
<1>1. Occurrences(inputs, x) \subseteq Occurrences(more, x)
  BY OccurrencesGrow
<1> QED BY <1>1 DEF Clear

\* What the store lists.
LEMMA Listed ==
    ASSUME plan \in [Plans -> PlanRow]
    PROVE  \A i : i \in ListScheduleProjection <=>
               \E p \in Plans : \E j \in plan[p].job :
                   plan[p].state = "enabled" /\ i = [plan |-> p, times |-> plan[p].times, job |-> j]
BY DEF ListScheduleProjection

\* A task version takes time.
LEMMA ChoicesTakeTime ==
    ASSUME NEW row \in JobChoices
    PROVE  row \in JobRow /\ row.duration > 0
<1>1. row \in [duration : Nat \ {0}, resources : SUBSET Exclusive]
  BY ProjectionAssumption
<1>2. row.duration \in Nat \ {0}
  BY <1>1
<1> QED BY <1>1, <1>2 DEF JobRow

\* It is good input, and stays so with a candidate.
LEMMA ListedGood ==
    ASSUME plan \in [Plans -> PlanRow],
           \A p \in Plans : plan[p].job = {} \/ \E row \in JobChoices : plan[p].job = {row}
    PROVE  Good(ListScheduleProjection)
<1>1. ListScheduleProjection \subseteq Input
  BY ListedAreInputs
<1>2. ASSUME NEW i \in ListScheduleProjection
      PROVE  \E p \in Plans : \E row \in JobChoices :
                 plan[p].job = {row} /\ i = [plan |-> p, times |-> plan[p].times, job |-> row]
  <2>1. PICK p \in Plans : \E j \in plan[p].job : i = [plan |-> p, times |-> plan[p].times, job |-> j]
    BY Listed
  <2>2. PICK j \in plan[p].job : i = [plan |-> p, times |-> plan[p].times, job |-> j]
    BY <2>1
  <2>3. plan[p].job = {j} /\ j \in JobChoices
    OBVIOUS
  <2> QED BY <2>2, <2>3
<1>3. ASSUME NEW i \in ListScheduleProjection PROVE i.job.duration > 0
  <2>1. PICK p \in Plans : \E row \in JobChoices : i = [plan |-> p, times |-> plan[p].times, job |-> row]
    BY <1>2
  <2>2. PICK row \in JobChoices : i = [plan |-> p, times |-> plan[p].times, job |-> row]
    BY <2>1
  <2>3. i.job = row
    BY <2>2
  <2> QED BY <2>3, ChoicesTakeTime
<1>4. ASSUME NEW i \in ListScheduleProjection, NEW k \in ListScheduleProjection, i.plan = k.plan PROVE i = k
  <2>1. PICK p \in Plans : \E row \in JobChoices :
          plan[p].job = {row} /\ i = [plan |-> p, times |-> plan[p].times, job |-> row]
    BY <1>2
  <2>2. PICK a \in JobChoices : plan[p].job = {a} /\ i = [plan |-> p, times |-> plan[p].times, job |-> a]
    BY <2>1
  <2>3. PICK q \in Plans : \E row \in JobChoices :
          plan[q].job = {row} /\ k = [plan |-> q, times |-> plan[q].times, job |-> row]
    BY <1>2
  <2>4. PICK b \in JobChoices : plan[q].job = {b} /\ k = [plan |-> q, times |-> plan[q].times, job |-> b]
    BY <2>3
  <2>5. p = q
    BY <1>4, <2>2, <2>4
  <2>6. a = b
    BY <2>2, <2>4, <2>5
  <2> QED BY <2>2, <2>4, <2>5, <2>6
<1> QED BY <1>1, <1>3, <1>4 DEF Good

\* The inputs the check builds are good too.
LEMMA CandidateGood ==
    ASSUME NEW inputs, Good(inputs), NEW p \in Plans, NEW times \in SUBSET (0..(Horizon - 1)), NEW row \in JobChoices
    PROVE  Good(Without(inputs, p) \cup {[plan |-> p, times |-> times, job |-> row]})
<1>1. PICK c : c = [plan |-> p, times |-> times, job |-> row]
  OBVIOUS
<1>2. c \in Input /\ c.job.duration > 0 /\ c.plan = p
  BY <1>1, ChoicesTakeTime DEF Input
<1>3. \A i \in Without(inputs, p) : i \in Input /\ i.job.duration > 0 /\ i.plan # p
  BY DEF Good, Without
<1>4. \A i, k \in Without(inputs, p) : i.plan = k.plan => i = k
  BY DEF Good, Without
<1>5. Good(Without(inputs, p) \cup {c})
  BY <1>2, <1>3, <1>4 DEF Good
<1> QED BY <1>1, <1>5

\* Writing fewer schedules, with no new writer, keeps them admitted.
LEMMA StillAdmitted ==
    ASSUME NEW list, NEW rows, NEW jobs, Admitted(list, rows, jobs),
           NEW less, less \subseteq list, NEW rows2, NEW jobs2,
           \A h \in Planners : Works(rows2[h]) => rows2[h] = rows[h],
           jobs2 = jobs \/ \A h \in Planners : ~Works(rows[h])
    PROVE  Admitted(less, rows2, jobs2)
<1>1. Clear(less)
  BY FewerClear DEF Admitted
<1>2. ASSUME NEW h \in Planners, Writes(rows2[h])
      PROVE  /\ \A k \in Planners : Writes(rows2[k]) => k = h
             /\ \A p \in rows2[h].plan : \A j \in rows2[h].job :
                 Clear(Without(less, p) \cup {Candidate(rows2[h], p, jobs2[j])})
  <2>1. Writes(rows[h]) /\ rows2[h] = rows[h] /\ jobs2 = jobs
    BY <1>2 DEF Works, Writes
  <2>2. \A k \in Planners : Writes(rows2[k]) => k = h
    BY <2>1 DEF Admitted, Works, Writes
  <2>3. ASSUME NEW p \in rows[h].plan, NEW j \in rows[h].job
        PROVE  Clear(Without(less, p) \cup {Candidate(rows[h], p, jobs[j])})
    <3>1. Clear(Without(list, p) \cup {Candidate(rows[h], p, jobs[j])})
      BY <2>1 DEF Admitted
    <3>2. Without(less, p) \cup {Candidate(rows[h], p, jobs[j])}
            \subseteq Without(list, p) \cup {Candidate(rows[h], p, jobs[j])}
      BY DEF Without
    <3> QED BY <3>1, <3>2, FewerClear
  <2> QED BY <2>1, <2>2, <2>3
<1>3. \A h \in Planners : rows2[h].phase = "check" => rows2[h].version = {jobs2[j] : j \in rows2[h].job}
  BY DEF Admitted, Works
<1> QED BY <1>1, <1>2, <1>3 DEF Admitted

\* The first state: nothing is scheduled.
LEMMA AdmissionInit == InitProjection => Admission
<1> SUFFICES ASSUME InitProjection PROVE Admission
  OBVIOUS
<1>1. /\ plan = [p \in Plans |-> NoPlan] /\ job \in [Jobs -> JobChoices]
      /\ planner = [h \in Planners |-> NoPlanner] /\ mutex = {} /\ snapshot = NoReport
  BY DEF InitProjection
<1>2. /\ \A p \in Plans : plan[p].job = {} /\ plan[p].state # "enabled"
      /\ \A h \in Planners : ~UnderWay(h) /\ ~Writes(planner[h]) /\ planner[h].phase = "idle"
  BY <1>1 DEF NoPlan, NoPlanner, UnderWay, Writes
<1>3. ListScheduleProjection = {}
  BY <1>2 DEF ListScheduleProjection
<1>4. PICK none : none = {}
  OBVIOUS
<1>5. \A x : Occurrences(none, x) = {}
  BY <1>4 DEF Occurrences
<1>6. Good(none) /\ Clear(none)
  BY <1>4, <1>5 DEF Good, Clear
<1>7. Conflicts(none) = {}
  BY <1>6, ConflictsClear
<1>8. snapshot = Build(none) /\ snapshot.inputs = none
  BY <1>1, <1>4, <1>7 DEF NoReport, Build
<1>9. Admitted(ListScheduleProjection, planner, job)
  BY <1>2, <1>3, <1>4, <1>6 DEF Admitted
<1> QED BY <1>1, <1>2, <1>6, <1>8, <1>9 DEF Admission

\* A step that lists no more schedules and lets no handler write keeps the
\* admission.
LEMMA LessKeepsAdmission ==
    ASSUME Admission, job' \in [Jobs -> JobChoices],
           \A p \in Plans : plan'[p].job = {} \/ plan'[p].job = plan[p].job,
           \A h \in Planners : Works(planner'[h]) => planner'[h] = planner[h],
           \A m \in mutex' : Good(m.inputs),
           snapshot' = Build(snapshot'.inputs), Good(snapshot'.inputs),
           ~unchecked' => /\ ~unchecked /\ ListScheduleProjection' \subseteq ListScheduleProjection
                          /\ job' = job \/ \A h \in Planners : ~Works(planner[h])
    PROVE  Admission'
<1>1. ASSUME ~unchecked' PROVE Admitted(ListScheduleProjection', planner', job')
  <2>1. Admitted(ListScheduleProjection, planner, job)
    BY <1>1 DEF Admission
  <2> QED BY <1>1, <2>1, StillAdmitted
<1>2. ASSUME NEW h \in Planners, UnderWay(h)'
      PROVE  \E p \in Plans : \E j \in Jobs : planner'[h].plan = {p} /\ planner'[h].job = {j}
  BY <1>2 DEF Admission, UnderWay, Works
<1>3. \A p \in Plans : plan'[p].job = {} \/ \E row \in JobChoices : plan'[p].job = {row}
  BY DEF Admission
<1>4. ~unchecked' => Admitted(ListScheduleProjection, planner, job)'
  BY <1>1
<1>5. (snapshot = Build(snapshot.inputs))' /\ Good(snapshot.inputs)'
  OBVIOUS
<1> QED BY <1>2, <1>3, <1>4, <1>5 DEF Admission

\* A handler reads the task.
LEMMA ReadAdmits ==
    ASSUME ProjectionInv, Admission, NEW h \in Planners, NEW p \in Plans, NEW times \in FireTimes, NEW j \in Jobs,
           ReadTask(h, p, times, j)
    PROVE  Admission'
<1>1. planner \in [Planners -> PlannerRow]
  BY DEF ProjectionInv, ProjectionTypeOK
<1>2. PICK row : row = [phase |-> "check", new |-> plan[p].state = "none", plan |-> {p},
                        times |-> times, job |-> {j}, version |-> {job[j]}]
  OBVIOUS
<1>3. row.phase = "check" /\ row.plan = {p} /\ row.job = {j} /\ row.version = {job[j]}
  BY <1>2
<1>4. planner' = [planner EXCEPT ![h] = row] /\ UNCHANGED <<plan, job, mutex, snapshot, unchecked>> /\ planner[h].phase = "idle"
  BY <1>2 DEF ReadTask
<1>5. planner'[h] = row /\ \A k \in Planners \ {h} : planner'[k] = planner[k]
  BY <1>1, <1>4
<1>6. ListScheduleProjection' = ListScheduleProjection
  BY <1>4 DEF ListScheduleProjection
<1>7. ASSUME ~unchecked PROVE Admitted(ListScheduleProjection, planner', job)
  <2>1. Admitted(ListScheduleProjection, planner, job)
    BY <1>7 DEF Admission
  <2>2. \A k \in Planners : Writes(planner'[k]) => Writes(planner[k]) /\ k # h /\ planner'[k] = planner[k]
    BY <1>3, <1>5 DEF Writes
  <2>3. {job[i] : i \in row.job} = row.version
    BY <1>3
  <2>4. \A k \in Planners : planner'[k].phase = "check" => planner'[k].version = {job[i] : i \in planner'[k].job}
    BY <1>5, <2>1, <2>3 DEF Admitted
  <2> QED BY <2>1, <2>2, <2>4 DEF Admitted
<1>8. ASSUME NEW k \in Planners, UnderWay(k)'
      PROVE  \E q \in Plans : \E i \in Jobs : planner'[k].plan = {q} /\ planner'[k].job = {i}
  BY <1>3, <1>5, <1>8 DEF Admission, UnderWay
<1>9. ~unchecked' => Admitted(ListScheduleProjection, planner, job)'
  BY <1>4, <1>6, <1>7
<1> QED BY <1>4, <1>8, <1>9 DEF Admission

\* A candidate passes the check, or is refused.
LEMMA CheckAdmits ==
    ASSUME ProjectionInv, Admission, NEW h \in Planners, NEW p \in Plans, CheckSchedule(h, p)
    PROVE  Admission'
<1>1. /\ plan \in [Plans -> PlanRow] /\ planner \in [Planners -> PlannerRow] /\ unchecked \in BOOLEAN
      /\ planner[h].phase = "check" /\ planner[h].plan = {p} /\ planner[h].times \in SUBSET (0..(Horizon - 1))
      /\ UNCHANGED <<plan, job, mutex, snapshot, stale>>
  <2>1. plan \in [Plans -> PlanRow] /\ planner \in [Planners -> PlannerRow] /\ unchecked \in BOOLEAN
    BY DEF ProjectionInv, ProjectionTypeOK
  <2> QED BY <2>1 DEF CheckSchedule, PlannerRow
<1>2. PICK j \in Jobs : planner[h].job = {j}
  BY <1>1 DEF Admission, UnderWay
<1>3. job[j] \in JobChoices
  BY DEF Admission
<1>6. ListScheduleProjection' = ListScheduleProjection
  BY <1>1 DEF ListScheduleProjection
<1>a. CASE planner' = [planner EXCEPT ![h] = NoPlanner] /\ UNCHANGED unchecked
  <2>1. planner'[h].phase = "idle" /\ \A k \in Planners \ {h} : planner'[k] = planner[k]
    BY <1>1, <1>a DEF NoPlanner
  <2>2. \A k \in Planners : Works(planner'[k]) => planner'[k] = planner[k]
    BY <2>1 DEF Works
  <2>3. /\ job' \in [Jobs -> JobChoices] /\ \A m \in mutex' : Good(m.inputs)
        /\ snapshot' = Build(snapshot'.inputs) /\ Good(snapshot'.inputs)
        /\ \A q \in Plans : plan'[q].job = {} \/ plan'[q].job = plan[q].job
    BY <1>1 DEF Admission
  <2> QED BY <1>1, <1>6, <1>a, <2>2, <2>3, LessKeepsAdmission
<1>b. CASE /\ \A v \in planner[h].version :
                CandidateConflicts(p, ListScheduleProjection, [plan |-> p, times |-> planner[h].times, job |-> v]) = {}
           /\ planner' = [planner EXCEPT ![h].phase = "write", ![h].version = {}]
           /\ unchecked' = (unchecked \/ \E k \in Planners : Writing(k))
  <2>1. PICK row : row = [planner[h] EXCEPT !.phase = "write", !.version = {}]
    OBVIOUS
  <2>2. row.phase = "write" /\ row.plan = {p} /\ row.times = planner[h].times /\ row.job = {j}
    BY <1>1, <1>2, <2>1 DEF PlannerRow
  <2>3. planner'[h] = row /\ \A k \in Planners \ {h} : planner'[k] = planner[k]
    BY <1>1, <1>b, <2>1
  <2>4. ASSUME ~unchecked' PROVE Admitted(ListScheduleProjection, planner', job)
    <3>1. ~unchecked /\ \A k \in Planners : ~Writes(planner[k])
      BY <1>b, <2>4 DEF Writing, Writes
    <3>2. Clear(ListScheduleProjection) /\ planner[h].version = {job[j]}
      <4>1. Clear(ListScheduleProjection) /\ planner[h].version = {job[i] : i \in planner[h].job}
        BY <1>1, <3>1 DEF Admission, Admitted
      <4> QED BY <1>2, <4>1
    <3>3. Good(ListScheduleProjection)
      BY <1>1, ListedGood DEF Admission
    <3>4. PICK c : c = [plan |-> p, times |-> planner[h].times, job |-> job[j]]
      OBVIOUS
    <3>5. c.plan = p /\ Candidate(row, p, job[j]) = c
      BY <2>2, <3>4 DEF Candidate
    <3>6. Good(Without(ListScheduleProjection, p) \cup {c})
      BY <1>1, <1>3, <3>3, <3>4, CandidateGood
    <3>7. Clear(Without(ListScheduleProjection, p) \cup {c})
      BY <1>b, <3>2, <3>4, <3>5, <3>6, CandidateClear
    <3>8. \A k \in Planners : Writes(planner'[k]) => k = h
      BY <2>3, <3>1
    <3>9. \A q \in row.plan : \A i \in row.job :
            Clear(Without(ListScheduleProjection, q) \cup {Candidate(row, q, job[i])})
      BY <2>2, <3>5, <3>7
    <3>10. \A k \in Planners : planner'[k].phase = "check" => planner'[k].version = {job[i] : i \in planner'[k].job}
      BY <2>2, <2>3, <3>1 DEF Admission, Admitted
    <3> QED BY <2>3, <3>2, <3>8, <3>9, <3>10 DEF Admitted
  <2>5. ASSUME NEW k \in Planners, UnderWay(k)'
        PROVE  \E q \in Plans : \E i \in Jobs : planner'[k].plan = {q} /\ planner'[k].job = {i}
    BY <2>2, <2>3, <2>5 DEF Admission, UnderWay
  <2>6. ~unchecked' => Admitted(ListScheduleProjection, planner, job)'
    BY <1>1, <1>6, <2>4
  <2> QED BY <1>1, <2>5, <2>6 DEF Admission
<1> QED BY <1>a, <1>b DEF CheckSchedule

\* What is written is what was checked.
LEMMA WriteAdmits ==
    ASSUME ProjectionInv, Admission, NEW h \in Planners, NEW p \in Plans, WriteSchedule(h, p)
    PROVE  Admission'
<1>1. /\ plan \in [Plans -> PlanRow] /\ planner \in [Planners -> PlannerRow] /\ unchecked \in BOOLEAN
      /\ Writing(h) /\ planner[h].plan = {p} /\ UNCHANGED <<job, mutex, snapshot, stale, unchecked>>
  BY DEF ProjectionInv, ProjectionTypeOK, WriteSchedule
<1>2. PICK j \in Jobs : planner[h].job = {j}
  BY <1>1 DEF Admission, Writing, UnderWay
<1>3. job[j] \in JobChoices
  BY DEF Admission
<1>4. PICK row : row \in {NoPlanner, ToRefresh} /\ planner' = [planner EXCEPT ![h] = row]
  BY DEF WriteSchedule, HandlerGoesOn
<1>5. ~Works(row) /\ planner'[h] = row /\ \A k \in Planners \ {h} : planner'[k] = planner[k]
  BY <1>1, <1>4 DEF NoPlanner, ToRefresh, Works
<1>6. ASSUME NEW k \in Planners, UnderWay(k)'
      PROVE  \E q \in Plans : \E i \in Jobs : planner'[k].plan = {q} /\ planner'[k].job = {i}
  BY <1>5, <1>6 DEF Admission, UnderWay, Works
<1>7. \A k \in Planners : Works(planner'[k]) => planner'[k] = planner[k]
  BY <1>5
<1>8. CASE plan' = plan
  <2>1. ListScheduleProjection' = ListScheduleProjection
    BY <1>8 DEF ListScheduleProjection
  <2>2. ASSUME ~unchecked PROVE Admitted(ListScheduleProjection, planner', job)
    BY <1>7, <2>2, StillAdmitted DEF Admission
  <2>3. ~unchecked' => Admitted(ListScheduleProjection, planner, job)'
    BY <1>1, <2>1, <2>2
  <2> QED BY <1>1, <1>6, <1>8, <2>3 DEF Admission
<1>9. CASE plan' # plan
  <2>1. PICK new : new = [state |-> "enabled", times |-> planner[h].times, job |-> {job[i] : i \in planner[h].job}]
    OBVIOUS
  <2>2. new.state = "enabled" /\ new.times = planner[h].times /\ new.job = {job[j]}
    BY <1>2, <2>1
  <2>3. plan' = [plan EXCEPT ![p] = new]
    BY <1>9, <2>1 DEF WriteSchedule
  <2>4. plan'[p] = new /\ \A q \in Plans \ {p} : plan'[q] = plan[q]
    BY <1>1, <2>3
  <2>5. new \in PlanRow
    <3>1. planner[h].times \in SUBSET (0..(Horizon - 1)) /\ {job[i] : i \in planner[h].job} \in SUBSET JobRow
      BY <1>1, <1>2, <1>3, ChoicesTakeTime DEF PlannerRow
    <3> QED BY <2>1, <3>1 DEF PlanRow
  <2>6. plan' \in [Plans -> PlanRow]
    BY <1>1, <2>3, <2>5
  <2>7. \A i : i \in ListScheduleProjection' <=>
            \E q \in Plans : \E a \in plan'[q].job :
                plan'[q].state = "enabled" /\ i = [plan |-> q, times |-> plan'[q].times, job |-> a]
    BY DEF ListScheduleProjection
  <2>8. PICK c : c = Candidate(planner[h], p, job[j])
    OBVIOUS
  <2>9. c = [plan |-> p, times |-> planner[h].times, job |-> job[j]]
    BY <2>8 DEF Candidate
  <2>10. ASSUME NEW i \in ListScheduleProjection' PROVE i \in Without(ListScheduleProjection, p) \cup {c}
    <3>1. PICK q \in Plans : \E a \in plan'[q].job :
            plan'[q].state = "enabled" /\ i = [plan |-> q, times |-> plan'[q].times, job |-> a]
      BY <2>7
    <3>2. PICK a \in plan'[q].job : plan'[q].state = "enabled" /\ i = [plan |-> q, times |-> plan'[q].times, job |-> a]
      BY <3>1
    <3>3. CASE q = p
      <4>1. a = job[j] /\ plan'[q].times = planner[h].times
        BY <2>2, <2>4, <3>3
      <4> QED BY <2>9, <3>2, <3>3, <4>1
    <3>4. CASE q # p
      <4>1. plan'[q] = plan[q] /\ i.plan # p
        BY <2>4, <3>2, <3>4
      <4> QED BY <1>1, <3>2, <4>1, Listed DEF Without
    <3> QED BY <3>3, <3>4
  <2>11. ASSUME ~unchecked PROVE Admitted(ListScheduleProjection', planner', job)
    <3>1. \A k \in Planners : ~Writes(planner'[k])
      BY <1>1, <1>5, <1>7, <2>11 DEF Admission, Admitted, Writing, Writes, Works
    <3>4. \A k \in Planners : planner'[k].phase = "check" => planner'[k].version = {job[i] : i \in planner'[k].job}
      BY <1>7, <2>11 DEF Admission, Admitted, Works
    <3>2. Clear(Without(ListScheduleProjection, p) \cup {c})
      BY <1>1, <1>2, <2>8, <2>11 DEF Admission, Admitted, Writing, Writes
    <3>3. Clear(ListScheduleProjection')
      BY <2>10, <3>2, FewerClear
    <3> QED BY <3>1, <3>3, <3>4 DEF Admitted
  <2>12. ~unchecked' => Admitted(ListScheduleProjection, planner, job)'
    BY <1>1, <2>11
  <2>13. \A q \in Plans : plan'[q].job = {} \/ \E a \in JobChoices : plan'[q].job = {a}
    BY <1>3, <2>2, <2>4 DEF Admission
  <2> QED BY <1>1, <1>6, <2>12, <2>13 DEF Admission
<1> QED BY <1>8, <1>9

\* A schedule is enabled or disabled, or goes.
LEMMA StateAdmits ==
    ASSUME ProjectionInv, Admission, NEW h \in Planners, NEW p \in Plans,
           \/ \E state \in {"enabled", "disabled"} : SetScheduleEnabled(h, p, state)
           \/ DeleteSchedule(h, p)
    PROVE  Admission'
<1>1. /\ plan \in [Plans -> PlanRow] /\ planner \in [Planners -> PlannerRow] /\ unchecked \in BOOLEAN
      /\ \E row \in {NoPlanner, ToRefresh} : planner' = [planner EXCEPT ![h] = row]
      /\ UNCHANGED <<job, mutex, snapshot, stale>>
  BY DEF ProjectionInv, ProjectionTypeOK, SetScheduleEnabled, DeleteSchedule, HandlerGoesOn
<1>2. \A k \in Planners : Works(planner'[k]) => planner'[k] = planner[k]
  BY <1>1 DEF ToRefresh, NoPlanner, Works
<1>3. /\ \A q \in Plans \ {p} : plan'[q] = plan[q]
      /\ plan'[p].job = {} \/ plan'[p].job = plan[p].job
      /\ ~unchecked' => ~unchecked /\ plan'[p].state # "enabled"
  <2>1. ASSUME NEW state \in {"enabled", "disabled"}, SetScheduleEnabled(h, p, state)
        PROVE  /\ \A q \in Plans \ {p} : plan'[q] = plan[q]
               /\ plan'[p].job = plan[p].job
               /\ ~unchecked' => ~unchecked /\ plan'[p].state # "enabled"
    <3>1. plan' = [plan EXCEPT ![p].state = state] /\ unchecked' = (unchecked \/ state = "enabled")
      BY <2>1 DEF SetScheduleEnabled
    <3>2. plan[p] \in PlanRow /\ plan'[p] = [plan[p] EXCEPT !.state = state] /\ \A q \in Plans \ {p} : plan'[q] = plan[q]
      BY <1>1, <3>1
    <3>3. plan'[p].job = plan[p].job /\ plan'[p].state = state
      BY <3>2 DEF PlanRow
    <3>4. ~unchecked' => ~unchecked /\ state # "enabled"
      BY <3>1
    <3> QED BY <3>2, <3>3, <3>4
  <2>2. CASE DeleteSchedule(h, p)
    <3>1. plan' = [plan EXCEPT ![p] = NoPlan] /\ unchecked' = unchecked
      BY <2>2 DEF DeleteSchedule
    <3>2. plan'[p] = NoPlan /\ \A q \in Plans \ {p} : plan'[q] = plan[q]
      BY <1>1, <3>1
    <3> QED BY <3>1, <3>2 DEF NoPlan
  <2> QED BY <2>1, <2>2
<1>4. ASSUME plan'[p].state # "enabled", NEW i \in ListScheduleProjection' PROVE i \in ListScheduleProjection
  <2>1. PICK q \in Plans : \E a \in plan'[q].job :
          plan'[q].state = "enabled" /\ i = [plan |-> q, times |-> plan'[q].times, job |-> a]
    BY DEF ListScheduleProjection
  <2>2. plan'[q] = plan[q]
    BY <1>3, <1>4, <2>1
  <2> QED BY <1>1, <2>1, <2>2, Listed
<1>5. ~unchecked' => ~unchecked /\ ListScheduleProjection' \subseteq ListScheduleProjection
  BY <1>3, <1>4
<1>6. \A q \in Plans : plan'[q].job = {} \/ plan'[q].job = plan[q].job
  BY <1>3
<1>7. /\ job' \in [Jobs -> JobChoices] /\ \A m \in mutex' : Good(m.inputs)
      /\ snapshot' = Build(snapshot'.inputs) /\ Good(snapshot'.inputs)
  BY <1>1 DEF Admission
<1> QED BY <1>1, <1>2, <1>5, <1>6, <1>7, LessKeepsAdmission

\* A new version of a task changes no schedule; a handler that was about to
\* write would use it unchecked.
LEMMA VersionAdmits ==
    ASSUME ProjectionInv, Admission, NEW h \in Planners, NEW j \in Jobs, NEW row \in JobChoices, NewTaskVersion(h, j, row)
    PROVE  Admission'
<1>1. /\ planner \in [Planners -> PlannerRow] /\ unchecked \in BOOLEAN /\ job \in [Jobs -> JobChoices]
      /\ \E next \in {ToRefresh, NoPlanner} : planner' = [planner EXCEPT ![h] = next]
      /\ job' = [job EXCEPT ![j] = row] /\ UNCHANGED <<plan, mutex, snapshot, stale>>
      /\ unchecked' = (unchecked \/ \E k \in Planners : UnderWay(k))
  BY DEF ProjectionInv, ProjectionTypeOK, Admission, NewTaskVersion
<1>2. \A k \in Planners : Works(planner'[k]) => planner'[k] = planner[k]
  BY <1>1 DEF ToRefresh, NoPlanner, Works
<1>3. ~unchecked' => ~unchecked /\ \A k \in Planners : ~Works(planner[k])
  BY <1>1 DEF UnderWay, Works
<1>4. ListScheduleProjection' = ListScheduleProjection
  BY <1>1 DEF ListScheduleProjection
<1>5. /\ job' \in [Jobs -> JobChoices] /\ \A m \in mutex' : Good(m.inputs)
      /\ snapshot' = Build(snapshot'.inputs) /\ Good(snapshot'.inputs)
      /\ \A p \in Plans : plan'[p].job = {} \/ plan'[p].job = plan[p].job
  BY <1>1 DEF Admission
<1> QED BY <1>2, <1>3, <1>4, <1>5, LessKeepsAdmission

\* A refresh reads good inputs.
LEMMA RefreshAdmits ==
    ASSUME ProjectionInv, Admission, NEW who \in SUBSET Planners, Refresh(who)
    PROVE  Admission'
<1>1. /\ mutex' = mutex \cup {[who |-> who, inputs |-> ListScheduleProjection]}
      /\ UNCHANGED <<plan, job, planner, snapshot, unchecked>>
  BY DEF Refresh
<1>2. Good(ListScheduleProjection)
  BY ListedGood DEF ProjectionInv, ProjectionTypeOK, Admission
<1>3. PICK n : n = [who |-> who, inputs |-> ListScheduleProjection]
  OBVIOUS
<1>4. Good(n.inputs) /\ mutex' = mutex \cup {n}
  BY <1>1, <1>2, <1>3
<1>5. \A m \in mutex' : Good(m.inputs)
  BY <1>4 DEF Admission
<1>6. ListScheduleProjection' = ListScheduleProjection
  BY <1>1 DEF ListScheduleProjection
<1>7. /\ job' \in [Jobs -> JobChoices]
      /\ snapshot' = Build(snapshot'.inputs) /\ Good(snapshot'.inputs)
      /\ \A p \in Plans : plan'[p].job = {} \/ plan'[p].job = plan[p].job
      /\ \A k \in Planners : Works(planner'[k]) => planner'[k] = planner[k]
  BY <1>1 DEF Admission
<1> QED BY <1>1, <1>5, <1>6, <1>7, LessKeepsAdmission

\* It shows their report, or the old one stays.
LEMMA RefreshEndAdmits ==
    ASSUME ProjectionInv, Admission, NEW m \in mutex, SetSnapshot(m) \/ RefreshFailed(m)
    PROVE  Admission'
<1>1. mutex' = mutex \ {m} /\ UNCHANGED <<plan, job, unchecked>> /\ Finished(m)
  BY DEF SetSnapshot, RefreshFailed
<1>2. \A k \in Planners : Works(planner'[k]) => planner'[k] = planner[k]
  BY <1>1 DEF Finished, NoPlanner, Works
<1>3. snapshot' = Build(snapshot'.inputs) /\ Good(snapshot'.inputs)
  <2>1. CASE SetSnapshot(m)
    <3>1. snapshot' = Build(m.inputs) /\ Good(m.inputs)
      BY <2>1 DEF SetSnapshot, Admission
    <3>2. snapshot'.inputs = m.inputs
      BY <3>1 DEF Build
    <3> QED BY <3>1, <3>2
  <2>2. CASE RefreshFailed(m)
    BY <2>2 DEF RefreshFailed, Admission
  <2> QED BY <2>1, <2>2
<1>4. ListScheduleProjection' = ListScheduleProjection
  BY <1>1 DEF ListScheduleProjection
<1>5. /\ job' \in [Jobs -> JobChoices] /\ \A n \in mutex' : Good(n.inputs)
      /\ \A p \in Plans : plan'[p].job = {} \/ plan'[p].job = plan[p].job
  BY <1>1 DEF Admission
<1> QED BY <1>1, <1>2, <1>3, <1>4, <1>5, LessKeepsAdmission

\* Every step.
LEMMA AdmissionStep == ProjectionInv /\ Admission /\ [NextProjection]_projectionVars => Admission'
<1> SUFFICES ASSUME ProjectionInv, Admission, [NextProjection]_projectionVars PROVE Admission'
  OBVIOUS
<1>1. ASSUME NEW h \in Planners, Refresh({h}) PROVE Admission'
  BY <1>1, RefreshAdmits
<1>2. CASE Refresh({})
  <2> DEFINE nobody == {}
  <2>1. nobody \in SUBSET Planners /\ Refresh(nobody)
    BY <1>2
  <2> HIDE DEF nobody
  <2> QED BY <2>1, RefreshAdmits
<1>3. CASE UNCHANGED projectionVars
  <2>1. UNCHANGED <<plan, job, planner, mutex, snapshot, skipped, stale, unchecked>>
    BY <1>3 DEF projectionVars
  <2>2. ListScheduleProjection' = ListScheduleProjection
    BY <2>1 DEF ListScheduleProjection
  <2>3. /\ job' \in [Jobs -> JobChoices] /\ \A m \in mutex' : Good(m.inputs)
        /\ snapshot' = Build(snapshot'.inputs) /\ Good(snapshot'.inputs)
        /\ \A p \in Plans : plan'[p].job = {} \/ plan'[p].job = plan[p].job
        /\ \A k \in Planners : Works(planner'[k]) => planner'[k] = planner[k]
    BY <2>1 DEF Admission
  <2> QED BY <2>1, <2>2, <2>3, LessKeepsAdmission
<1>4. ASSUME NEW h \in Planners, NEW p \in Plans,
             \/ \E times \in FireTimes, j \in Jobs : ReadTask(h, p, times, j)
             \/ CheckSchedule(h, p)
             \/ \E state \in {"enabled", "disabled"} : SetScheduleEnabled(h, p, state)
             \/ WriteSchedule(h, p) \/ DeleteSchedule(h, p)
      PROVE  Admission'
  BY <1>4, ReadAdmits, CheckAdmits, StateAdmits, WriteAdmits
<1> QED BY <1>1, <1>2, <1>3, <1>4, VersionAdmits, RefreshEndAdmits DEF NextProjection

\* What is shown is exact, what is shown is current, and what was admitted does
\* not overlap.
LEMMA AdmissionShows == ProjectionInv /\ Admission => ConflictsFound
<1> SUFFICES ASSUME ProjectionInv, Admission PROVE ConflictsFound
  OBVIOUS
<1>1. SweepIsExact
  <2>1. PICK inputs : inputs = snapshot.inputs
    OBVIOUS
  <2>2. snapshot = Build(inputs) /\ Good(inputs)
    BY <2>1 DEF Admission
  <2> QED BY <2>1, <2>2, ReportExact DEF SweepIsExact
<1>2. SnapshotCurrent
  BY DEF ProjectionInv, RefreshOwed, Outdated, SnapshotCurrent
<1>3. NoConflictAdmitted
  <2>1. Good(ListScheduleProjection)
    BY ListedGood DEF ProjectionInv, ProjectionTypeOK, Admission
  <2>2. ASSUME ~unchecked PROVE Conflicts(ListScheduleProjection) = {}
    <3>1. Clear(ListScheduleProjection)
      BY <2>2 DEF Admission, Admitted
    <3> QED BY <2>1, <3>1, ConflictsClear
  <2> QED BY <2>2 DEF NoConflictAdmitted
<1> QED BY <1>1, <1>2, <1>3 DEF ConflictsFound

\* The conflicts the projection shows are exactly the overlaps of the inputs it
\* read, a snapshot shows the schedules as they are once the handlers are done,
\* and schedules that were checked one at a time never overlap, for any
\* schedules, tasks, resources and requests (ConflictsFound).
THEOREM ConflictsAlwaysFound == SpecProjection => []ConflictsFound
BY AdmissionInit, AdmissionStep, AdmissionShows, ProjectionInvHolds, PTL DEF SpecProjection
=============================================================================
