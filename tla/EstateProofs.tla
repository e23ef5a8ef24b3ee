---------------------------- MODULE EstateProofs ----------------------------
(***************************************************************************)
(* Proofs about the parts around the runs: Capacity, RunnerPools, Leases,  *)
(* Catalog and SecretDelivery, each for any values of its constants.       *)
(***************************************************************************)
EXTENDS Capacity, RunnerPools, Leases, Catalog, SecretDelivery, TLAPS, SequenceTheorems, FiniteSetTheorems

-----------------------------------------------------------------------------
(* Capacity *)

\* What an undisturbed change is on its way through: nothing is under way, or
\* the request that wrote the capacity has still to publish it, or its command
\* is the only one in the stream.
ChangeOnItsWay ==
    /\ ~disturbed => size # {}
    /\ ~disturbed =>
         \/ Pending = {} /\ control = << >> /\ size = {stored}
         \/ control = << >> /\ \E h \in Updates : Pending = {h} /\ update[h].to = {stored}
         \/ Pending = {} /\ control = <<stored>>

CapacityInv == CapacityTypeOK /\ ChangeOnItsWay

\* The first state.
LEMMA CapacityInit == InitCapacity => CapacityInv
<1> SUFFICES ASSUME InitCapacity PROVE CapacityInv
  OBVIOUS
<1>1. Pending = {}
  BY DEF InitCapacity, Pending
<1>2. << >> \in Seq(Sizes)
  BY EmptySeq
<1>3. CapacityTypeOK
  <2>1. [phase |-> "new", to |-> {}] \in UpdateRow
    BY DEF UpdateRow
  <2>2. update \in [Updates -> UpdateRow]
    BY <2>1 DEF InitCapacity
  <2>3. \E n \in Sizes : 0 <= n
    BY CapacityAssumption
  <2>4. /\ stored \in Sizes /\ size \subseteq Sizes /\ slots \subseteq Sizes
        /\ control \in Seq(Sizes) /\ disturbed \in BOOLEAN
    BY <1>2, CapacityAssumption DEF InitCapacity
  <2>5. busy = 0 /\ executing = 0
    BY DEF InitCapacity
  <2> QED
    BY <2>2, <2>3, <2>4, <2>5 DEF CapacityTypeOK
<1>4. ChangeOnItsWay
  BY <1>1 DEF InitCapacity, ChangeOnItsWay
<1> QED
  BY <1>3, <1>4 DEF CapacityInv

\* A request writes the row and publishes its command, or fails to.
LEMMA CapacityRequestStep ==
    ASSUME CapacityInv, NEW h \in Updates,
           \/ PublishRunnerCapacity(h) \/ PublishFails(h)
           \/ \E c \in Sizes : UpdateCapacity(h, c)
    PROVE  CapacityInv'
<1>1. /\ update \in [Updates -> UpdateRow] /\ control \in Seq(Sizes) /\ stored \in Sizes
      /\ \A g \in Updates : update[g] \in UpdateRow /\ update[g].to \subseteq Sizes
  BY DEF CapacityInv, CapacityTypeOK, UpdateRow
<1>2. CASE \E c \in Sizes : UpdateCapacity(h, c)
  <2>1. PICK c \in Sizes : UpdateCapacity(h, c)
    BY <1>2
  <2>2. /\ stored' = c /\ UNCHANGED <<control, size, slots, busy, executing>>
        /\ update' = [update EXCEPT ![h] = [phase |-> "written", to |-> {c}]]
        /\ disturbed' = (Pending # {} \/ control # << >> \/ size = {})
    BY <2>1 DEF UpdateCapacity
  <2>3. [phase |-> "written", to |-> {c}] \in UpdateRow
    BY DEF UpdateRow
  <2>4. CapacityTypeOK'
    BY <1>1, <2>2, <2>3 DEF CapacityInv, CapacityTypeOK
  <2>5. Pending = {} => Pending' = {h} /\ update'[h].to = {c}
    BY <1>1, <2>2 DEF Pending
  <2>6. ChangeOnItsWay'
    BY <2>2, <2>5 DEF ChangeOnItsWay
  <2> QED
    BY <2>4, <2>6 DEF CapacityInv
<1>3. CASE PublishRunnerCapacity(h)
  <2>1. PICK c \in update[h].to : control' = Append(control, c)
    BY <1>3 DEF PublishRunnerCapacity
  <2>2. /\ UNCHANGED <<stored, size, slots, busy, executing, disturbed>>
        /\ update' = [update EXCEPT ![h].phase = "done"] /\ h \in Pending
    BY <1>3 DEF PublishRunnerCapacity, Pending
  <2>3. c \in Sizes /\ Append(control, c) \in Seq(Sizes)
    BY <1>1, <2>1, AppendProperties
  <2>4. update' \in [Updates -> UpdateRow]
    BY <1>1, <2>2 DEF UpdateRow
  <2>5. CapacityTypeOK'
    BY <2>1, <2>2, <2>3, <2>4 DEF CapacityInv, CapacityTypeOK
  <2>6. Pending' = Pending \ {h}
    BY <1>1, <2>2 DEF Pending, UpdateRow
  <2>7. ASSUME ~disturbed PROVE Pending' = {} /\ control' = <<stored>>
    <3>1. Pending = {h} /\ update[h].to = {stored} /\ control = << >>
      BY <2>2, <2>7 DEF CapacityInv, ChangeOnItsWay
    <3>2. Append(<< >>, stored) = <<stored>>
      OBVIOUS
    <3> QED
      BY <2>1, <2>6, <3>1, <3>2
  <2>8. ChangeOnItsWay'
    BY <2>2, <2>7 DEF CapacityInv, ChangeOnItsWay
  <2> QED
    BY <2>5, <2>8 DEF CapacityInv
<1>4. CASE PublishFails(h)
  <2>1. /\ UNCHANGED <<stored, control, size, slots, busy, executing>> /\ disturbed' = TRUE
        /\ update' = [update EXCEPT ![h].phase = "done"]
    BY <1>4 DEF PublishFails
  <2>2. update' \in [Updates -> UpdateRow]
    BY <1>1, <2>1 DEF UpdateRow
  <2> QED
    BY <2>1, <2>2 DEF CapacityInv, CapacityTypeOK, ChangeOnItsWay
<1> QED
  BY <1>2, <1>3, <1>4

\* The worker applies commands, stops and starts.
LEMMA CapacityWorkerStep ==
    ASSUME CapacityInv, ApplyRunnerControl \/ ApplyAgainLater \/ StopRunner \/ StartRunner
    PROVE  CapacityInv'
<1>1. /\ control \in Seq(Sizes) /\ stored \in Sizes /\ Enrolled \in Sizes
      /\ control # << >> => Head(control) \in Sizes /\ Tail(control) \in Seq(Sizes)
      /\ control # << >> => Append(Tail(control), Head(control)) \in Seq(Sizes)
  BY HeadTailProperties, AppendProperties, CapacityAssumption DEF CapacityInv, CapacityTypeOK
<1>2. CASE ApplyRunnerControl
  <2>1. /\ control # << >> /\ size' = {Head(control)} /\ control' = Tail(control)
        /\ UNCHANGED <<stored, update, slots, busy, executing, disturbed>> /\ Pending' = Pending
    BY <1>2 DEF ApplyRunnerControl, StoreControl, Pending
  <2>2. CapacityTypeOK'
    BY <1>1, <2>1 DEF CapacityInv, CapacityTypeOK
  <2>3. ASSUME ~disturbed PROVE Pending = {} /\ Tail(control) = << >> /\ Head(control) = stored
    <3>1. Head(<<stored>>) = stored /\ Tail(<<stored>>) = << >>
      OBVIOUS
    <3>2. Pending = {} /\ control = <<stored>>
      BY <2>1, <2>3 DEF CapacityInv, ChangeOnItsWay
    <3> QED
      BY <3>1, <3>2
  <2>4. ChangeOnItsWay'
    BY <2>1, <2>3 DEF ChangeOnItsWay
  <2> QED
    BY <2>2, <2>4 DEF CapacityInv
<1>3. CASE ApplyAgainLater
  <2>1. control # << >>
    BY <1>3 DEF ApplyAgainLater
  <2> QED
    BY <1>1, <1>3, <2>1 DEF ApplyAgainLater, StoreControl, CapacityInv, CapacityTypeOK, ChangeOnItsWay
<1>4. CASE StopRunner
  BY <1>4 DEF StopRunner, CapacityInv, CapacityTypeOK, ChangeOnItsWay
<1>5. CASE StartRunner
  <2>1. disturbed
    BY <1>5 DEF StartRunner, CapacityInv, ChangeOnItsWay
  <2> QED
    BY <1>1, <1>5, <2>1 DEF StartRunner, CapacityInv, CapacityTypeOK, ChangeOnItsWay
<1> QED
  BY <1>2, <1>3, <1>4, <1>5

\* Orders come and go: never more than the capacity at the time allows.
LEMMA CapacityOrderStep ==
    ASSUME CapacityInv, PlaceOrder \/ TakeSlot \/ FinishOrder \/ LoseOrder
    PROVE  CapacityInv'
<1>1. UNCHANGED <<stored, update, control, size, slots, disturbed>>
  BY DEF PlaceOrder, TakeSlot, FinishOrder, LoseOrder
<1>2. ChangeOnItsWay'
  BY <1>1 DEF CapacityInv, ChangeOnItsWay, Pending
<1>3. busy \in Nat /\ executing \in 0..busy /\ stored \in Nat /\ stored \in Sizes /\ Sizes \subseteq Nat
  BY CapacityAssumption DEF CapacityInv, CapacityTypeOK
<1>4. PICK n \in Sizes : busy <= n
  BY DEF CapacityInv, CapacityTypeOK
<1>5. busy' \in Nat /\ executing' \in 0..busy' /\ (busy' <= stored \/ busy' <= n)
  BY <1>3, <1>4 DEF PlaceOrder, MayPlace, TakeSlot, FinishOrder, LoseOrder
<1>6. CapacityTypeOK'
  BY <1>1, <1>3, <1>5 DEF CapacityInv, CapacityTypeOK
<1> QED
  BY <1>2, <1>6 DEF CapacityInv

\* CapacityInv is inductive.
LEMMA CapacityInvHolds == SpecCapacity => []CapacityInv
<1>1. CapacityInv /\ [NextCapacity]_capacityVars => CapacityInv'
  <2> SUFFICES ASSUME CapacityInv, [NextCapacity]_capacityVars PROVE CapacityInv'
    OBVIOUS
  <2>1. CASE UNCHANGED capacityVars
    BY <2>1 DEF capacityVars, CapacityInv, CapacityTypeOK, ChangeOnItsWay, Pending
  <2>2. CASE NextCapacity
    BY <2>2, CapacityRequestStep, CapacityWorkerStep, CapacityOrderStep DEF NextCapacity
  <2> QED
    BY <2>1, <2>2
<1> QED
  BY CapacityInit, <1>1, PTL DEF SpecCapacity

\* No more orders are placed on a runner than the largest capacity it ever had,
\* and every variable keeps its type.
THEOREM CapacityTypeCorrect == SpecCapacity => []CapacityTypeOK
BY CapacityInvHolds, PTL DEF CapacityInv

\* However many changes were made before, and whatever their commands did: when
\* the last one was made alone and its command was consumed, the worker works
\* with the capacity the dispatcher goes by.
THEOREM CapacitySettles == SpecCapacity => []CapacityAgrees
<1>1. CapacityInv => CapacityAgrees
  <2> SUFFICES ASSUME CapacityInv, Quiet PROVE size = {stored}
    BY DEF CapacityAgrees
  <2>1. <<stored>> # << >>
    OBVIOUS
  <2> QED
    BY <2>1 DEF CapacityInv, ChangeOnItsWay, Quiet
<1> QED
  BY <1>1, CapacityInvHolds, PTL

-----------------------------------------------------------------------------
(* RunnerPools *)

Awaited(p) == \E u \in joining \cup naming : u[2] = p
Unused(p) == ~InUseByRunner(p) /\ ~Awaited(p)

\* What a deletion that was not overlapped has established: no runner of the
\* pool and no request that found it from its first query on, no task from its
\* second one on, and neither ever after it.  Without any overlap a request
\* that found its pool will find it again.  A version is inserted only for a
\* task that nobody has removed meanwhile.
PoolGuarded ==
    /\ \A p \in Pools \ raced :
        /\ deleting[p] # "idle" => Unused(p)
        /\ deleting[p] = "no tasks" => ~InUseByTask(p)
        /\ pool[p].deleted => Unused(p) /\ ~InUseByTask(p)
    /\ raced = {} => /\ \A u \in joining : Exists(u[2])
                     /\ \A m \in Members : member[m].state = "live" => member[m].pool # {}
    /\ \A t \in Workloads : /\ workload[t].state = "none" => workload[t].pools = {}
                            /\ \A p \in Pools : <<t, p>> \in naming => workload[t].state # "deleted"

PoolsInv == PoolsTypeOK /\ PoolGuarded

\* The first state.
LEMMA PoolsInit == InitPools => PoolsInv
<1> SUFFICES ASSUME InitPools PROVE PoolsInv
  OBVIOUS
<1>1. PoolsTypeOK
  <2>1. /\ [there |-> FALSE, enabled |-> FALSE, deleted |-> FALSE] \in PoolRow
        /\ [state |-> "none", pool |-> {}] \in MemberRow
        /\ [state |-> "none", pools |-> {}] \in WorkloadRow
    BY DEF PoolRow, MemberRow, WorkloadRow
  <2> QED
    BY <2>1 DEF InitPools, PoolsTypeOK, DeletionStage
<1>2. PoolGuarded
  BY DEF InitPools, PoolGuarded
<1> QED
  BY <1>1, <1>2 DEF PoolsInv

\* A pool is created or updated.
LEMMA PoolAdminStep ==
    ASSUME PoolsInv, NEW p \in Pools, NEW on \in BOOLEAN, CreatePool(p, on) \/ UpdatePool(p, on)
    PROVE  PoolsInv'
<1>1. /\ pool \in [Pools -> PoolRow] /\ pool[p] \in PoolRow
      /\ UNCHANGED <<member, workload, joining, naming, deleting, raced>>
  BY DEF PoolsInv, PoolsTypeOK, CreatePool, UpdatePool, poolUses
<1>2. /\ pool' \in [Pools -> PoolRow]
      /\ \A q \in Pools : pool'[q].deleted => pool[q].deleted /\ pool'[q].enabled = pool[q].enabled
      /\ \A q \in Pools : Exists(q) => Exists(q)'
  <2>1. CASE CreatePool(p, on)
    <3>1. /\ pool' = [pool EXCEPT ![p] = [there |-> TRUE, enabled |-> on, deleted |-> FALSE]]
          /\ ~pool[p].there
      BY <2>1 DEF CreatePool
    <3>2. /\ pool' \in [Pools -> PoolRow] /\ ~pool'[p].deleted
          /\ \A q \in Pools \ {p} : pool'[q] = pool[q]
      BY <1>1, <3>1 DEF PoolRow
    <3> QED
      BY <3>1, <3>2 DEF Exists
  <2>2. CASE UpdatePool(p, on)
    <3>1. pool' = [pool EXCEPT ![p].enabled = on] /\ Exists(p)
      BY <2>2 DEF UpdatePool
    <3>2. /\ pool' \in [Pools -> PoolRow]
          /\ pool'[p].there = pool[p].there /\ pool'[p].deleted = pool[p].deleted
          /\ \A q \in Pools \ {p} : pool'[q] = pool[q]
      BY <1>1, <3>1 DEF PoolRow
    <3> QED
      BY <3>1, <3>2 DEF Exists
  <2> QED
    BY <2>1, <2>2
<1>3. PoolsTypeOK'
  BY <1>1, <1>2 DEF PoolsInv, PoolsTypeOK
<1>4. /\ \A q \in Pools : /\ InUseByRunner(q)' = InUseByRunner(q)
                          /\ InUseByTask(q)' = InUseByTask(q) /\ Unused(q)' = Unused(q)
      /\ \A u \in joining : u[2] \in Pools
  BY <1>1 DEF InUseByRunner, InUseByTask, Unused, Awaited, PoolsInv, PoolsTypeOK
<1>5. PoolGuarded'
  BY <1>1, <1>2, <1>4 DEF PoolsInv, PoolGuarded
<1> QED
  BY <1>3, <1>5 DEF PoolsInv

\* The three statements of a deletion.
LEMMA PoolDeletionStep ==
    ASSUME PoolsInv, NEW p \in Pools, CheckRunners(p) \/ CheckTasks(p) \/ DeletePool(p)
    PROVE  PoolsInv'
<1>1. /\ pool \in [Pools -> PoolRow] /\ deleting \in [Pools -> DeletionStage] /\ raced \subseteq Pools
      /\ UNCHANGED <<member, workload, joining, naming>>
      /\ \A u \in joining : u[2] \in Pools
  BY DEF PoolsInv, PoolsTypeOK, CheckRunners, CheckTasks, DeletePool
<1>2. \A q \in Pools : /\ InUseByRunner(q)' = InUseByRunner(q) /\ Awaited(q)' = Awaited(q)
                       /\ InUseByTask(q)' = InUseByTask(q) /\ Unused(q)' = Unused(q)
  BY <1>1 DEF InUseByRunner, InUseByTask, Unused, Awaited
<1>3. CASE CheckRunners(p)
  <2>1. /\ deleting' = [deleting EXCEPT ![p] = "no runners"] /\ pool' = pool
        /\ ~InUseByRunner(p) /\ raced \subseteq raced' /\ raced' \subseteq Pools
        /\ Awaited(p) => p \in raced'
    BY <1>1, <1>3 DEF CheckRunners, Awaited
  <2>2. PoolsTypeOK'
    BY <1>1, <2>1 DEF PoolsInv, PoolsTypeOK, DeletionStage
  <2>3. p \notin raced' => Unused(p)
    BY <2>1 DEF Unused
  <2>4. \A q \in Pools : Exists(q)' = Exists(q)
    BY <2>1 DEF Exists
  <2>5. PoolGuarded'
    BY <1>1, <1>2, <2>1, <2>3, <2>4 DEF PoolsInv, PoolGuarded
  <2> QED
    BY <2>2, <2>5 DEF PoolsInv
<1>4. CASE CheckTasks(p)
  <2>1. /\ deleting' = [deleting EXCEPT ![p] = IF InUseByTask(p) THEN "idle" ELSE "no tasks"]
        /\ pool' = pool /\ raced' = raced /\ deleting[p] = "no runners"
    BY <1>4 DEF CheckTasks
  <2>2. PoolsTypeOK'
    BY <1>1, <2>1 DEF PoolsInv, PoolsTypeOK, DeletionStage
  <2>3. \A q \in Pools : Exists(q)' = Exists(q)
    BY <2>1 DEF Exists
  <2>4. PoolGuarded'
    BY <1>1, <1>2, <2>1, <2>3 DEF PoolsInv, PoolGuarded
  <2> QED
    BY <2>2, <2>4 DEF PoolsInv
<1>5. CASE DeletePool(p)
  <2>1. /\ deleting' = [deleting EXCEPT ![p] = "idle"] /\ raced' = raced /\ deleting[p] = "no tasks"
        /\ pool' = IF Exists(p) THEN [pool EXCEPT ![p].deleted = TRUE, ![p].enabled = FALSE] ELSE pool
    BY <1>5 DEF DeletePool
  <2>2. /\ pool' \in [Pools -> PoolRow]
        /\ \A q \in Pools \ {p} : pool'[q] = pool[q]
        /\ pool'[p].deleted => ~pool'[p].enabled
    BY <1>1, <2>1, ZenonT(60) DEF PoolsInv, PoolsTypeOK, PoolRow
  <2>3. PoolsTypeOK'
    BY <1>1, <2>1, <2>2 DEF PoolsInv, PoolsTypeOK, DeletionStage
  <2>4. \A q \in Pools \ {p} : Exists(q)' = Exists(q)
    BY <2>2 DEF Exists
  <2>5. p \notin raced => Unused(p) /\ ~InUseByTask(p)
    BY <2>1 DEF PoolsInv, PoolGuarded
  <2>6. raced = {} => \A u \in joining : u[2] # p
    BY <2>5 DEF Unused, Awaited
  <2>7. PoolGuarded'
    BY <1>1, <1>2, <2>1, <2>2, <2>4, <2>5, <2>6 DEF PoolsInv, PoolGuarded
  <2> QED
    BY <2>3, <2>7 DEF PoolsInv
<1> QED
  BY <1>3, <1>4, <1>5

\* An enrollment finds the pool and joins it; a runner is archived.
LEMMA PoolRunnerStep ==
    ASSUME PoolsInv, NEW m \in Members,
           LeavePool(m) \/ \E p \in Pools : FindPool(m, p) \/ JoinPool(m, p)
    PROVE  PoolsInv'
<1>1. /\ pool \in [Pools -> PoolRow] /\ deleting \in [Pools -> DeletionStage] /\ raced \subseteq Pools
      /\ member \in [Members -> MemberRow] /\ joining \subseteq Members \X Pools
      /\ \A u \in joining : u[2] \in Pools
      /\ \A n \in Members : member[n] \in MemberRow
      /\ UNCHANGED <<pool, workload, naming, deleting>>
  BY DEF PoolsInv, PoolsTypeOK, FindPool, JoinPool, LeavePool, poolUses
<1>2. \A q \in Pools : Exists(q)' = Exists(q) /\ InUseByTask(q)' = InUseByTask(q)
  BY <1>1 DEF Exists, InUseByTask
<1>3. CASE LeavePool(m)
  <2>1. /\ member' = [member EXCEPT ![m].state = "archived"] /\ UNCHANGED <<joining, raced>>
    BY <1>3 DEF LeavePool, poolUses
  <2>2. /\ member' \in [Members -> MemberRow]
        /\ \A n \in Members : member'[n].pool = member[n].pool
                              /\ (member'[n].state = "live" => member[n].state = "live")
    BY <1>1, <2>1 DEF MemberRow
  <2>3. PoolsTypeOK'
    BY <1>1, <2>1, <2>2 DEF PoolsInv, PoolsTypeOK
  <2>4. \A q \in Pools : Unused(q) => Unused(q)'
    BY <1>1, <2>1, <2>2 DEF Unused, InUseByRunner, Awaited
  <2>5. PoolGuarded'
    BY <1>1, <1>2, <2>1, <2>2, <2>4 DEF PoolsInv, PoolGuarded
  <2> QED
    BY <2>3, <2>5 DEF PoolsInv
<1>4. ASSUME NEW p \in Pools, FindPool(m, p) PROVE PoolsInv'
  <2>1. /\ Exists(p) /\ joining' = joining \cup {<<m, p>>} /\ member' = member
        /\ raced' = IF deleting[p] # "idle" THEN raced \cup {p} ELSE raced
    BY <1>4 DEF FindPool, MarkOverlap
  <2>2. PoolsTypeOK'
    BY <1>1, <2>1 DEF PoolsInv, PoolsTypeOK
  <2>3. \A q \in Pools \ {p} : Unused(q)' = Unused(q)
    BY <1>1, <2>1 DEF Unused, InUseByRunner, Awaited
  <2>4. ~pool[p].deleted
    BY <2>1 DEF Exists
  <2>5. raced \subseteq raced' /\ (p \notin raced' => deleting[p] = "idle")
    BY <2>1
  <2>6. ASSUME raced = {}, NEW u \in joining' PROVE Exists(u[2])'
    <3>1. CASE u \in joining
      BY <1>1, <1>2, <2>6, <3>1 DEF PoolsInv, PoolGuarded
    <3>2. CASE u = <<m, p>>
      <4>1. u[2] = p
        BY <3>2
      <4> QED
        BY <1>2, <2>1, <4>1
    <3> QED
      BY <2>1, <3>1, <3>2
  <2>7. PoolGuarded'
    BY <1>1, <1>2, <2>1, <2>3, <2>4, <2>5, <2>6 DEF PoolsInv, PoolGuarded
  <2> QED
    BY <2>2, <2>7 DEF PoolsInv
<1>5. ASSUME NEW p \in Pools, JoinPool(m, p) PROVE PoolsInv'
  <2>1. /\ <<m, p>> \in joining /\ joining' = joining \ {<<m, p>>} /\ raced' = raced
        /\ member' = [member EXCEPT ![m] = JoinedRow(m, p)]
    BY <1>5 DEF JoinPool
  <2>2. /\ JoinedRow(m, p) \in MemberRow
        /\ \/ JoinedRow(m, p) = member[m]
           \/ JoinedRow(m, p).state = "live" /\ JoinedRow(m, p).pool \subseteq {p}
              /\ (Exists(p) => JoinedRow(m, p).pool # {})
    BY <1>1 DEF JoinedRow, MemberRow
  <2>3. /\ member' \in [Members -> MemberRow] /\ joining' \subseteq Members \X Pools
        /\ \A n \in Members : member'[n] = IF n = m THEN JoinedRow(m, p) ELSE member[n]
    BY <1>1, <2>1, <2>2
  <2>4. PoolsTypeOK'
    BY <1>1, <2>1, <2>3 DEF PoolsInv, PoolsTypeOK
  <2>5. Awaited(p)
    BY <2>1 DEF Awaited
  <2>6. \A q \in Pools : Unused(q) => Unused(q)'
    BY <1>1, <2>1, <2>2, <2>3, <2>5 DEF Unused, InUseByRunner, Awaited
  <2>7. raced = {} => Exists(p)
    BY <2>1 DEF PoolsInv, PoolGuarded
  <2>8. PoolGuarded'
    BY <1>1, <1>2, <2>1, <2>2, <2>3, <2>6, <2>7 DEF PoolsInv, PoolGuarded
  <2> QED
    BY <2>4, <2>8 DEF PoolsInv
<1> QED
  BY <1>3, <1>4, <1>5

\* A version finds its pool and is inserted; a task is removed.
LEMMA PoolTaskStep ==
    ASSUME PoolsInv, NEW t \in Workloads,
           RemoveTask(t) \/ \E p \in Pools : NamePool(t, p) \/ InsertVersion(t, p)
    PROVE  PoolsInv'
<1>1. /\ pool \in [Pools -> PoolRow] /\ deleting \in [Pools -> DeletionStage] /\ raced \subseteq Pools
      /\ workload \in [Workloads -> WorkloadRow] /\ naming \subseteq Workloads \X Pools
      /\ \A u \in joining : u[2] \in Pools
      /\ \A s \in Workloads : workload[s] \in WorkloadRow
      /\ UNCHANGED <<pool, member, joining, deleting>>
  BY DEF PoolsInv, PoolsTypeOK, RemoveTask, NamePool, InsertVersion, poolUses
<1>2. \A q \in Pools : Exists(q)' = Exists(q) /\ InUseByRunner(q)' = InUseByRunner(q)
  BY <1>1 DEF Exists, InUseByRunner
<1>3. CASE RemoveTask(t)
  <2>1. workload' = [workload EXCEPT ![t].state = "deleted"] /\ UNCHANGED <<naming, raced>>
    BY <1>3 DEF RemoveTask, poolUses
  <2>2. /\ workload' \in [Workloads -> WorkloadRow]
        /\ \A s \in Workloads : workload'[s].pools = workload[s].pools
                                /\ (workload'[s].state = "live" => workload[s].state = "live")
    BY <1>1, <2>1 DEF WorkloadRow
  <2>3. PoolsTypeOK'
    BY <1>1, <2>1, <2>2 DEF PoolsInv, PoolsTypeOK
  <2>4. \A q \in Pools : /\ Unused(q)' = Unused(q)
                         /\ InUseByTask(q)' => InUseByTask(q)
    BY <1>1, <1>2, <2>1, <2>2 DEF Unused, Awaited, InUseByTask
  <2>5. \A s \in Workloads : /\ workload'[s].state = "none" => workload[s].state = "none"
                             /\ workload'[s].state = "deleted" => s = t \/ workload[s].state = "deleted"
    BY <1>1, <2>1 DEF WorkloadRow
  <2>6. \A p \in Pools : <<t, p>> \notin naming
    BY <1>3 DEF RemoveTask
  <2>7. PoolGuarded'
    BY <1>1, <1>2, <2>1, <2>2, <2>4, <2>5, <2>6 DEF PoolsInv, PoolGuarded
  <2> QED
    BY <2>3, <2>7 DEF PoolsInv
<1>4. ASSUME NEW p \in Pools, NamePool(t, p) PROVE PoolsInv'
  <2>1. /\ Exists(p) /\ naming' = naming \cup {<<t, p>>} /\ workload' = workload
        /\ raced' = IF deleting[p] # "idle" THEN raced \cup {p} ELSE raced
    BY <1>4 DEF NamePool, MarkOverlap
  <2>2. PoolsTypeOK'
    BY <1>1, <2>1 DEF PoolsInv, PoolsTypeOK
  <2>3. /\ \A q \in Pools \ {p} : Unused(q)' = Unused(q)
        /\ \A q \in Pools : InUseByTask(q)' = InUseByTask(q)
    BY <1>1, <1>2, <2>1 DEF Unused, Awaited, InUseByTask
  <2>4. ~pool[p].deleted
    BY <2>1 DEF Exists
  <2>5. raced \subseteq raced' /\ (p \notin raced' => deleting[p] = "idle")
    BY <2>1
  <2>6. \A s \in Workloads, q \in Pools : <<s, q>> \in naming' => <<s, q>> \in naming \/ s = t
    BY <2>1
  <2>7. workload[t].state # "deleted"
    BY <1>4 DEF NamePool
  <2>8. PoolGuarded'
    BY <1>1, <1>2, <2>1, <2>3, <2>4, <2>5, <2>6, <2>7 DEF PoolsInv, PoolGuarded
  <2> QED
    BY <2>2, <2>8 DEF PoolsInv
<1>5. ASSUME NEW p \in Pools, InsertVersion(t, p) PROVE PoolsInv'
  <2>1. /\ <<t, p>> \in naming /\ naming' = naming \ {<<t, p>>} /\ raced' = raced
        /\ workload' = [workload EXCEPT ![t] = [state |-> "live", pools |-> @.pools \cup {p}]]
    BY <1>5 DEF InsertVersion
  <2>2. /\ workload' \in [Workloads -> WorkloadRow]
        /\ \A s \in Workloads \ {t} : workload'[s] = workload[s]
        /\ workload'[t].pools = workload[t].pools \cup {p}
    BY <1>1, <2>1 DEF WorkloadRow
  <2>3. PoolsTypeOK'
    BY <1>1, <2>1, <2>2 DEF PoolsInv, PoolsTypeOK
  <2>4. Awaited(p)
    BY <2>1 DEF Awaited
  <2>5. \A q \in Pools : Unused(q) => Unused(q)' /\ q # p
    BY <1>1, <1>2, <2>1, <2>4 DEF Unused, Awaited
  <2>6. /\ workload[t].state = "live" \/ workload[t].pools = {}
        /\ workload'[t].state = "live"
    BY <1>1, <2>1 DEF PoolsInv, PoolGuarded, WorkloadRow
  <2>7. \A q \in Pools \ {p} : InUseByTask(q)' => InUseByTask(q)
    BY <1>1, <2>2, <2>6 DEF InUseByTask
  <2>8. \A s \in Workloads : /\ workload'[s].state = "none" => workload'[s].pools = {}
                             /\ \A q \in Pools : <<s, q>> \in naming' => workload'[s].state # "deleted"
    BY <1>1, <2>1, <2>2, <2>6 DEF PoolsInv, PoolGuarded
  <2>9. PoolGuarded'
    BY <1>1, <1>2, <2>1, <2>5, <2>7, <2>8 DEF PoolsInv, PoolGuarded
  <2> QED
    BY <2>3, <2>9 DEF PoolsInv
<1> QED
  BY <1>3, <1>4, <1>5

\* PoolsInv is inductive.
LEMMA PoolsInvHolds == SpecPools => []PoolsInv
<1>1. PoolsInv /\ [NextPools]_poolVars => PoolsInv'
  <2> SUFFICES ASSUME PoolsInv, [NextPools]_poolVars PROVE PoolsInv'
    OBVIOUS
  <2>1. CASE UNCHANGED poolVars
    <3>1. UNCHANGED <<pool, member, workload, joining, naming, deleting, raced>>
      BY <2>1 DEF poolVars, poolUses
    <3> QED
      BY <3>1 DEF PoolsInv, PoolsTypeOK, PoolGuarded, Unused, Awaited, InUseByRunner, InUseByTask, Exists
  <2>2. CASE NextPools
    BY <2>2, PoolAdminStep, PoolDeletionStep, PoolRunnerStep, PoolTaskStep DEF NextPools
  <2> QED
    BY <2>1, <2>2
<1> QED
  BY PoolsInit, <1>1, PTL DEF SpecPools

\* The pools, their runners and the tasks that name them keep their types, and
\* a deleted pool is never enabled again.
THEOREM PoolsTypeCorrect == SpecPools => []PoolsTypeOK
BY PoolsInvHolds, PTL DEF PoolsInv

\* For any number of pools, runners, tasks and requests: only an enrollment or
\* a version insert that overlaps the three statements of a deletion can leave a
\* deleted pool in use or a runner without a pool.
THEOREM DeletionsSpareUsedPools == SpecPools => []DeletedPoolsUnused
<1>1. PoolsInv => DeletedPoolsUnused
  BY DEF PoolsInv, PoolGuarded, Unused, DeletedPoolsUnused
<1> QED
  BY <1>1, PoolsInvHolds, PTL

-----------------------------------------------------------------------------
(* SecretDelivery *)

NamesHeld(held) == {f[1] : f \in held}

\* A request accounts for every secret of its version while it reads them:
\* those it has the value of, the one it is decrypting, and those left.
RowWhole(row, held) ==
    /\ row.phase \in {"none", "dispatched", "asked"} => row.values = {}
    /\ row.phase # "reading" => held = {}
    /\ row.phase = "reading" => row.values \cup row.left \cup NamesHeld(held) = row.secrets
    /\ row.phase = "values" => row.values = row.secrets
    /\ \A f, g \in held : f = g

\* A record that was not overtaken is the one that is stored.
ReadAsStored == \A r \in Readers \ overtaken : \A f \in found[r] : secret[f[1]].state = f[2]

DeliveryInv ==
    /\ DeliveryTypeOK /\ DeletedUntouched /\ StatusTellsStored /\ ReadAsStored
    /\ \A a \in Orders : RowWhole(fetch[a], found[a])

\* The first state.
LEMMA DeliveryInit == InitDelivery => DeliveryInv
<1> SUFFICES ASSUME InitDelivery PROVE DeliveryInv
  OBVIOUS
<1>1. NoFetch \in FetchRow /\ RowWhole(NoFetch, {})
  BY DEF NoFetch, FetchRow, RowWhole
<1>2. NoSecret \in SecretRow /\ NoSecret.state = "none" /\ NoSecret.status = "UNKNOWN"
  BY DEF NoSecret, SecretRow
<1>3. /\ \A a \in Orders : fetch[a] = NoFetch /\ found[a] = {}
      /\ \A r \in Readers : found[r] = {}
      /\ \A s \in Sealed : secret[s] = NoSecret
  BY DEF InitDelivery, Readers
<1>4. DeliveryTypeOK
  BY <1>1, <1>2 DEF InitDelivery, DeliveryTypeOK
<1> QED
  BY <1>1, <1>2, <1>3, <1>4 DEF DeliveryInv, ReadAsStored, DeletedUntouched, StatusTellsStored

\* What the invariant says of the types.
LEMMA DeliveryTypes ==
    ASSUME DeliveryInv
    PROVE  /\ secret \in [Sealed -> SecretRow] /\ fetch \in [Orders -> FetchRow]
           /\ upsert \in [Upserts -> SUBSET Sealed] /\ found \in [Readers -> SUBSET Record]
           /\ overtaken \subseteq Readers /\ outdated \subseteq Sealed
           /\ \A s \in Sealed : secret[s] \in SecretRow
           /\ \A a \in Orders : fetch[a] \in FetchRow /\ a \in Readers /\ RowWhole(fetch[a], found[a])
           /\ \A u \in Upserts : u \in Readers
           /\ \A r \in Readers : \A f \in found[r] : f[1] \in Sealed /\ f[2] \in {"good", "bad"}
BY DEF DeliveryInv, DeliveryTypeOK, Readers, Record

\* A value is stored, deleted or damaged: those who have read it are overtaken,
\* and its status is UNKNOWN or no longer about it.
LEMMA DeliveryStoreStep ==
    ASSUME DeliveryInv, NEW s \in Sealed, NEW row \in SecretRow, secret' = [secret EXCEPT ![s] = row],
           row.state = "none" => row = NoSecret,
           Overtake(s), UNCHANGED <<fetch, found>>, upsert' \in [Upserts -> SUBSET Sealed],
           outdated' \subseteq Sealed, outdated \ {s} \subseteq outdated',
           s \in outdated' \/ row.status = "UNKNOWN"
    PROVE  DeliveryInv'
<1>1. \A x \in Sealed : secret'[x] = IF x = s THEN row ELSE secret[x]
  BY DeliveryTypes
<1>2. overtaken' \subseteq Readers /\ overtaken \subseteq overtaken'
  BY DeliveryTypes DEF Overtake
<1>3. \A r \in Readers \ overtaken' : \A f \in found[r] : f[1] # s
  BY DEF Overtake
<1>4. DeliveryTypeOK'
  BY <1>2, DeliveryTypes DEF DeliveryTypeOK
<1>5. DeletedUntouched'
  BY <1>1 DEF DeliveryInv, DeletedUntouched
<1>6. StatusTellsStored'
  BY <1>1 DEF DeliveryInv, StatusTellsStored
<1>7. ReadAsStored'
  BY <1>1, <1>2, <1>3, DeliveryTypes DEF DeliveryInv, ReadAsStored
<1> QED
  BY <1>4, <1>5, <1>6, <1>7 DEF DeliveryInv

\* A status is written, or fails to be: the values stay, and a record that was
\* not overtaken gives the status of the value that is stored.
LEMMA DeliveryMark ==
    ASSUME DeliveryInv, NEW r \in Readers, NEW f \in found[r],
           SetIntegrityStatus(r, f[1], f[2]) \/ UNCHANGED <<secret, outdated>>
    PROVE  /\ secret' \in [Sealed -> SecretRow] /\ outdated' \subseteq Sealed
           /\ \A x \in Sealed : secret'[x].state = secret[x].state
           /\ DeletedUntouched' /\ StatusTellsStored'
<1>1. CASE UNCHANGED <<secret, outdated>>
  BY <1>1, DeliveryTypes DEF DeliveryInv, DeletedUntouched, StatusTellsStored
<1>2. CASE secret[f[1]].state # "none" /\ SetIntegrityStatus(r, f[1], f[2])
  <2> DEFINE s == f[1]
             row == [secret[s] EXCEPT !.status = StatusOf(f[2])]
  <2>1. s \in Sealed /\ secret[s] \in SecretRow /\ f[2] \in {"good", "bad"}
    BY DeliveryTypes
  <2>2. /\ secret' = [secret EXCEPT ![s] = row]
        /\ outdated' = IF r \in overtaken THEN outdated \cup {s} ELSE outdated \ {s}
    BY <1>2 DEF SetIntegrityStatus
  <2>3. /\ row \in SecretRow /\ row.state = secret[s].state
        /\ row.status = "VALID" => f[2] = "good"
        /\ row.status = "FAILED" => f[2] = "bad"
    BY <2>1 DEF SecretRow, StatusOf
  <2>4. r \notin overtaken => secret[s].state = f[2]
    BY DEF DeliveryInv, ReadAsStored
  <2> HIDE DEF s, row
  <2>5. \A x \in Sealed : secret'[x] = IF x = s THEN row ELSE secret[x]
    BY <2>1, <2>2, DeliveryTypes
  <2>6. secret' \in [Sealed -> SecretRow] /\ outdated' \subseteq Sealed
    BY <2>1, <2>2, <2>3, DeliveryTypes
  <2>7. \A x \in Sealed : secret'[x].state = secret[x].state
    BY <2>3, <2>5
  <2>8. DeletedUntouched'
    BY <1>2, <2>3, <2>5 DEF DeliveryInv, DeletedUntouched, s
  <2>9. StatusTellsStored'
    BY <2>2, <2>3, <2>4, <2>5 DEF DeliveryInv, StatusTellsStored
  <2> QED
    BY <2>6, <2>7, <2>8, <2>9
<1>3. CASE secret[f[1]].state = "none" /\ SetIntegrityStatus(r, f[1], f[2])
  BY <1>1, <1>3 DEF SetIntegrityStatus
<1> QED
  BY <1>1, <1>2, <1>3

\* What a reader holds changes and the values do not: all others hold what they
\* held, and the new record is the one that is stored.
LEMMA DeliveryHold ==
    ASSUME DeliveryInv, \A x \in Sealed : secret'[x].state = secret[x].state,
           NEW r \in Readers, NEW held \in SUBSET Record,
           found' = [found EXCEPT ![r] = held], overtaken' = overtaken \ {r},
           \A f \in held : secret[f[1]].state = f[2]
    PROVE  /\ found' \in [Readers -> SUBSET Record] /\ overtaken' \subseteq Readers /\ ReadAsStored'
           /\ \A q \in Readers : found'[q] = IF q = r THEN held ELSE found[q]
<1>1. \A q \in Readers : found'[q] = IF q = r THEN held ELSE found[q]
  BY DeliveryTypes
<1>2. found' \in [Readers -> SUBSET Record] /\ overtaken' \subseteq Readers
  BY DeliveryTypes
<1>3. \A f \in held : f[1] \in Sealed
  BY DEF Record
<1>4. ReadAsStored'
  <2> SUFFICES ASSUME NEW q \in Readers \ overtaken', NEW f \in found'[q] PROVE secret'[f[1]].state = f[2]
    BY DEF ReadAsStored
  <2>1. CASE q = r
    BY <1>1, <1>3, <2>1
  <2>2. CASE q # r
    <3>1. q \notin overtaken /\ f \in found[q] /\ f[1] \in Sealed
      BY <1>1, <2>2, DeliveryTypes
    <3> QED
      BY <3>1 DEF DeliveryInv, ReadAsStored
  <2> QED
    BY <2>1, <2>2
<1> QED
  BY <1>1, <1>2, <1>4

\* A step of one request: its new row and the record it holds account for every
\* secret, and the other rows stay.
LEMMA DeliveryRowStep ==
    ASSUME DeliveryInv, NEW a \in Orders, NEW row \in FetchRow,
           fetch' = [fetch EXCEPT ![a] = row], upsert' = upsert,
           RowWhole(row, found'[a]), \A b \in Orders \ {a} : found'[b] = found[b],
           secret' \in [Sealed -> SecretRow], outdated' \subseteq Sealed, DeletedUntouched', StatusTellsStored',
           found' \in [Readers -> SUBSET Record], overtaken' \subseteq Readers, ReadAsStored'
    PROVE  DeliveryInv'
<1>1. \A b \in Orders : fetch'[b] = IF b = a THEN row ELSE fetch[b]
  BY DeliveryTypes
<1>2. DeliveryTypeOK'
  BY DeliveryTypes DEF DeliveryTypeOK
<1>3. \A b \in Orders : RowWhole(fetch'[b], found'[b])
  BY <1>1 DEF DeliveryInv
<1> QED
  BY <1>2, <1>3 DEF DeliveryInv

\* Administrators write and delete values, and values are damaged.
LEMMA DeliveryAdminStep ==
    ASSUME DeliveryInv, NEW s \in Sealed,
           DropSecret(s) \/ Spoil(s) \/ \E u \in Upserts : Upsert(u, s)
    PROVE  DeliveryInv'
<1>1. CASE DropSecret(s)
  <2>1. NoSecret \in SecretRow /\ NoSecret.status = "UNKNOWN"
    BY DEF NoSecret, SecretRow
  <2>2. /\ secret' = [secret EXCEPT ![s] = NoSecret] /\ Overtake(s) /\ UNCHANGED <<fetch, found>>
        /\ upsert' \in [Upserts -> SUBSET Sealed] /\ outdated' = outdated \ {s} /\ outdated' \subseteq Sealed
    BY <1>1, DeliveryTypes DEF DropSecret
  <2> QED
    BY <2>1, <2>2, DeliveryStoreStep
<1>2. CASE Spoil(s)
  <2> DEFINE row == [secret[s] EXCEPT !.state = "bad"]
  <2>1. row \in SecretRow /\ row.state # "none"
    BY DeliveryTypes DEF SecretRow
  <2>2. /\ secret' = [secret EXCEPT ![s] = row] /\ Overtake(s) /\ UNCHANGED <<fetch, found>>
        /\ upsert' \in [Upserts -> SUBSET Sealed] /\ outdated' = outdated \cup {s} /\ outdated' \subseteq Sealed
    BY <1>2, DeliveryTypes DEF Spoil
  <2> HIDE DEF row
  <2> QED
    BY <2>1, <2>2, DeliveryStoreStep
<1>3. CASE \E u \in Upserts : Upsert(u, s)
  <2>1. Fresh \in SecretRow /\ Fresh.state # "none" /\ Fresh.status = "UNKNOWN"
    BY DEF Fresh, SecretRow
  <2>2. PICK u \in Upserts : Upsert(u, s)
    BY <1>3
  <2>3. /\ secret' = [secret EXCEPT ![s] = Fresh] /\ Overtake(s) /\ UNCHANGED <<fetch, found>>
        /\ upsert' = [upsert EXCEPT ![u] = {s}] /\ outdated' = outdated \ {s} /\ outdated' \subseteq Sealed
    BY <2>2, DeliveryTypes DEF Upsert
  <2>4. upsert' \in [Upserts -> SUBSET Sealed]
    BY <2>3, DeliveryTypes
  <2> QED
    BY <2>1, <2>3, <2>4, DeliveryStoreStep
<1> QED
  BY <1>1, <1>2, <1>3

\* The request that stored a value reads it again, decrypts and marks it.
LEMMA DeliveryValidateStep ==
    ASSUME DeliveryInv, NEW u \in Upserts, FindUpserted(u) \/ ValidateStoredSecret(u)
    PROVE  DeliveryInv'
<1>1. u \in Readers /\ u \notin Orders /\ fetch' = fetch
  BY ReadersDiffer DEF Readers, FindUpserted, ValidateStoredSecret
<1>2. SUFFICES /\ secret' \in [Sealed -> SecretRow] /\ outdated' \subseteq Sealed
               /\ DeletedUntouched' /\ StatusTellsStored' /\ upsert' \in [Upserts -> SUBSET Sealed]
               /\ found' \in [Readers -> SUBSET Record] /\ overtaken' \subseteq Readers /\ ReadAsStored'
               /\ \A q \in Readers : q # u => found'[q] = found[q]
  <2>1. \A a \in Orders : RowWhole(fetch'[a], found'[a])
    BY <1>1, <1>2, DeliveryTypes
  <2>2. DeliveryTypeOK'
    BY <1>1, <1>2, DeliveryTypes DEF DeliveryTypeOK
  <2> QED
    BY <1>2, <2>1, <2>2 DEF DeliveryInv
<1>3. CASE FindUpserted(u)
  <2>1. /\ secret' = secret /\ outdated' = outdated /\ DeletedUntouched' /\ StatusTellsStored'
        /\ secret' \in [Sealed -> SecretRow] /\ outdated' \subseteq Sealed
        /\ \A x \in Sealed : secret'[x].state = secret[x].state
    BY <1>3, DeliveryTypes DEF FindUpserted, DeliveryInv, DeletedUntouched, StatusTellsStored
  <2>2. PICK s \in upsert[u] :
          \/ upsert' = [upsert EXCEPT ![u] = {}] /\ UNCHANGED <<found, overtaken>>
          \/ secret[s].state # "none" /\ Hold(u, s) /\ UNCHANGED upsert
    BY <1>3 DEF FindUpserted
  <2>3. s \in Sealed
    BY <2>2, DeliveryTypes
  <2>4. CASE upsert' = [upsert EXCEPT ![u] = {}] /\ UNCHANGED <<found, overtaken>>
    <3>1. upsert' \in [Upserts -> SUBSET Sealed]
      BY <2>4, DeliveryTypes
    <3>2. ReadAsStored'
      BY <2>1, <2>4 DEF DeliveryInv, ReadAsStored
    <3> QED
      BY <2>1, <2>4, <3>1, <3>2, DeliveryTypes
  <2>5. CASE secret[s].state # "none" /\ Hold(u, s) /\ UNCHANGED upsert
    <3> DEFINE held == {<<s, secret[s].state>>}
    <3>1. held \in SUBSET Record /\ \A f \in held : secret[f[1]].state = f[2]
      BY <2>3, <2>5, DeliveryTypes DEF Record, SecretRow
    <3>2. found' = [found EXCEPT ![u] = held] /\ overtaken' = overtaken \ {u}
      BY <2>5 DEF Hold
    <3> HIDE DEF held
    <3> QED
      BY <1>1, <2>1, <2>5, <3>1, <3>2, DeliveryHold, DeliveryTypes
  <2> QED
    BY <2>2, <2>4, <2>5
<1>4. CASE ValidateStoredSecret(u)
  <2>1. PICK f \in found[u] : SetIntegrityStatus(u, f[1], f[2]) \/ UNCHANGED <<secret, outdated>>
    BY <1>4 DEF ValidateStoredSecret
  <2>2. /\ secret' \in [Sealed -> SecretRow] /\ outdated' \subseteq Sealed
        /\ \A x \in Sealed : secret'[x].state = secret[x].state
        /\ DeletedUntouched' /\ StatusTellsStored'
    BY <1>1, <2>1, DeliveryMark
  <2>3. found' = [found EXCEPT ![u] = {}] /\ overtaken' = overtaken \ {u} /\ upsert' = [upsert EXCEPT ![u] = {}]
    BY <1>4 DEF ValidateStoredSecret, Release
  <2>4. upsert' \in [Upserts -> SUBSET Sealed]
    BY <2>3, DeliveryTypes
  <2>5. {} \in SUBSET Record /\ \A g \in {} : secret[g[1]].state = g[2]
    OBVIOUS
  <2> QED
    BY <1>1, <2>2, <2>3, <2>4, <2>5, DeliveryHold
<1> QED
  BY <1>3, <1>4

\* Steps of a request that touch neither a secret nor a record.
LEMMA DeliveryRequestStep ==
    ASSUME DeliveryInv, NEW a \in Orders,
           \/ \E secrets \in SUBSET Sealed : Dispatch(a, secrets)
           \/ EndRun(a) \/ FetchSecrets(a) \/ AuthorizeSecretRequest(a)
           \/ SecretResponse(a) \/ FetchTimeout(a)
    PROVE  DeliveryInv'
<1>1. fetch[a] \in FetchRow /\ RowWhole(fetch[a], found[a])
  BY DeliveryTypes
<1>2. UNCHANGED <<secret, upsert, found, overtaken, outdated>>
  BY DEF Dispatch, EndRun, FetchSecrets, AuthorizeSecretRequest, SecretResponse, FetchTimeout
<1>3. /\ secret' \in [Sealed -> SecretRow] /\ outdated' \subseteq Sealed
      /\ found' \in [Readers -> SUBSET Record] /\ overtaken' \subseteq Readers
  BY <1>2, DeliveryTypes
<1>4. DeletedUntouched' /\ StatusTellsStored' /\ ReadAsStored'
  BY <1>2 DEF DeliveryInv, DeletedUntouched, StatusTellsStored, ReadAsStored
<1>5. SUFFICES \E row \in FetchRow : fetch' = [fetch EXCEPT ![a] = row] /\ RowWhole(row, found[a])
  BY <1>2, <1>3, <1>4, <1>5, DeliveryRowStep
<1> DEFINE Row(row) == row \in FetchRow /\ fetch' = [fetch EXCEPT ![a] = row] /\ RowWhole(row, found[a])
<1>6. CASE \E secrets \in SUBSET Sealed : Dispatch(a, secrets)
  <2>1. PICK secrets \in SUBSET Sealed : Dispatch(a, secrets)
    BY <1>6
  <2>2. found[a] = {}
    BY <1>1, <2>1 DEF Dispatch, RowWhole
  <2>3. Row([NoFetch EXCEPT !.phase = "dispatched", !.active = TRUE, !.secrets = secrets])
    BY <2>1, <2>2 DEF Dispatch, SetFetch, NoFetch, FetchRow, RowWhole
  <2> QED
    BY <2>3
<1>7. CASE EndRun(a)
  <2>1. Row([fetch[a] EXCEPT !.active = FALSE])
    BY <1>1, <1>7 DEF EndRun, SetFetch, FetchRow, RowWhole
  <2> QED
    BY <2>1
<1>8. CASE FetchSecrets(a)
  <2>1. Row([fetch[a] EXCEPT !.phase = "asked", !.waiting = TRUE])
    BY <1>1, <1>8 DEF FetchSecrets, SetFetch, FetchRow, RowWhole
  <2> QED
    BY <2>1
<1>9. CASE AuthorizeSecretRequest(a)
  <2>1. found[a] = {} /\ fetch[a].values = {}
    BY <1>1, <1>9 DEF AuthorizeSecretRequest, RowWhole
  <2>2. NamesHeld(found[a]) = {}
    BY <2>1 DEF NamesHeld
  <2>3. CASE SetFetch(a, Rejected(a))
    <3>1. Row(Rejected(a))
      BY <1>1, <2>1, <2>3 DEF Rejected, SetFetch, FetchRow, RowWhole
    <3> QED
      BY <3>1
  <2>4. CASE SetFetch(a, [fetch[a] EXCEPT !.phase = "reading", !.left = fetch[a].secrets])
    <3>1. Row([fetch[a] EXCEPT !.phase = "reading", !.left = fetch[a].secrets])
      BY <1>1, <2>1, <2>2, <2>4 DEF SetFetch, FetchRow, RowWhole
    <3> QED
      BY <3>1
  <2> QED
    BY <1>9, <2>3, <2>4 DEF AuthorizeSecretRequest
<1>10. CASE SecretResponse(a)
  <2>1. NamesHeld(found[a]) = {}
    BY <1>10 DEF SecretResponse, NamesHeld
  <2>2. Row([fetch[a] EXCEPT !.phase = "values"])
    BY <1>1, <1>10, <2>1 DEF SecretResponse, SetFetch, FetchRow, RowWhole
  <2> QED
    BY <2>2
<1>11. CASE FetchTimeout(a)
  <2>1. Row([fetch[a] EXCEPT !.waiting = FALSE])
    BY <1>1, <1>11 DEF FetchTimeout, SetFetch, FetchRow, RowWhole
  <2> QED
    BY <2>1
<1> QED
  BY <1>6, <1>7, <1>8, <1>9, <1>10, <1>11

\* A secret of a request is looked up.
LEMMA DeliveryReadStep ==
    ASSUME DeliveryInv, NEW a \in Orders, NEW s \in Sealed, ReadSecret(a, s)
    PROVE  DeliveryInv'
<1>1. fetch[a] \in FetchRow /\ RowWhole(fetch[a], found[a]) /\ a \in Readers /\ secret[s] \in SecretRow
  BY DeliveryTypes
<1>2. /\ UNCHANGED <<secret, upsert, outdated>> /\ FindSecret(a, s)
      /\ fetch[a].phase = "reading" /\ found[a] = {} /\ s \in fetch[a].left
  BY DEF ReadSecret
<1>3. /\ secret' \in [Sealed -> SecretRow] /\ outdated' \subseteq Sealed
      /\ \A x \in Sealed : secret'[x].state = secret[x].state
  BY <1>2, DeliveryTypes
<1>4. DeletedUntouched' /\ StatusTellsStored'
  BY <1>2 DEF DeliveryInv, DeletedUntouched, StatusTellsStored
<1>5. CASE SetFetch(a, Rejected(a)) /\ UNCHANGED <<found, overtaken>>
  <2>1. Rejected(a) \in FetchRow /\ RowWhole(Rejected(a), found[a])
    BY <1>1, <1>2 DEF Rejected, FetchRow, RowWhole
  <2>2. ReadAsStored'
    BY <1>2, <1>5 DEF DeliveryInv, ReadAsStored
  <2> QED
    BY <1>2, <1>3, <1>4, <1>5, <2>1, <2>2, DeliveryTypes, DeliveryRowStep DEF SetFetch
<1>6. CASE secret[s].state # "none" /\ SetFetch(a, [fetch[a] EXCEPT !.left = @ \ {s}]) /\ Hold(a, s)
  <2> DEFINE held == {<<s, secret[s].state>>}
             row == [fetch[a] EXCEPT !.left = @ \ {s}]
  <2>1. held \in SUBSET Record /\ \A f \in held : secret[f[1]].state = f[2]
    BY <1>1, <1>6 DEF Record, SecretRow
  <2>2. NamesHeld(held) = {s} /\ NamesHeld({}) = {} /\ \A f, g \in held : f = g
    BY DEF NamesHeld
  <2>3. found' = [found EXCEPT ![a] = held] /\ overtaken' = overtaken \ {a} /\ fetch' = [fetch EXCEPT ![a] = row]
    BY <1>6 DEF Hold, SetFetch
  <2>4. /\ row \in FetchRow /\ row.phase = "reading" /\ row.left = fetch[a].left \ {s}
        /\ row.values = fetch[a].values /\ row.secrets = fetch[a].secrets
    BY <1>1, <1>2 DEF FetchRow
  <2> HIDE DEF held, row
  <2>5. RowWhole(row, held)
    BY <1>1, <1>2, <2>2, <2>4 DEF RowWhole
  <2>6. /\ found' \in [Readers -> SUBSET Record] /\ overtaken' \subseteq Readers /\ ReadAsStored'
        /\ \A q \in Readers : found'[q] = IF q = a THEN held ELSE found[q]
    BY <1>1, <1>3, <2>1, <2>3, DeliveryHold
  <2>7. \A b \in Orders \ {a} : found'[b] = found[b]
    BY <2>6, DeliveryTypes
  <2> QED
    BY <1>1, <1>2, <1>3, <1>4, <2>3, <2>4, <2>5, <2>6, <2>7, DeliveryRowStep
<1> QED
  BY <1>2, <1>5, <1>6 DEF FindSecret

\* The record that was read is decrypted and the row marked by it.
LEMMA DeliveryDecryptStep ==
    ASSUME DeliveryInv, NEW a \in Orders, DecryptSecret(a)
    PROVE  DeliveryInv'
<1>1. fetch[a] \in FetchRow /\ RowWhole(fetch[a], found[a]) /\ a \in Readers
  BY DeliveryTypes
<1>2. PICK f \in found[a] :
        \/ /\ SetIntegrityStatus(a, f[1], f[2])
           /\ SetFetch(a, IF f[2] = "good" THEN [fetch[a] EXCEPT !.values = @ \cup {f[1]}] ELSE Rejected(a))
        \/ UNCHANGED <<secret, outdated>> /\ SetFetch(a, Rejected(a))
  BY DEF DecryptSecret
<1>3. /\ secret' \in [Sealed -> SecretRow] /\ outdated' \subseteq Sealed
      /\ \A x \in Sealed : secret'[x].state = secret[x].state
      /\ DeletedUntouched' /\ StatusTellsStored'
  BY <1>1, <1>2, DeliveryMark
<1>4. upsert' = upsert /\ found' = [found EXCEPT ![a] = {}] /\ overtaken' = overtaken \ {a}
  BY DEF DecryptSecret, Release
<1>5. {} \in SUBSET Record /\ \A g \in {} : secret[g[1]].state = g[2]
  OBVIOUS
<1>6. /\ found' \in [Readers -> SUBSET Record] /\ overtaken' \subseteq Readers /\ ReadAsStored'
      /\ \A q \in Readers : found'[q] = IF q = a THEN {} ELSE found[q]
  BY <1>1, <1>3, <1>4, <1>5, DeliveryHold
<1>7. found'[a] = {} /\ \A b \in Orders \ {a} : found'[b] = found[b]
  BY <1>1, <1>6, DeliveryTypes
<1>8. found[a] = {f} /\ fetch[a].phase = "reading" /\ f[1] \in Sealed
  BY <1>1, <1>2, DeliveryTypes DEF RowWhole
<1>9. NamesHeld(found[a]) = {f[1]} /\ NamesHeld({}) = {}
  BY <1>8 DEF NamesHeld
<1>10. CASE SetFetch(a, [fetch[a] EXCEPT !.values = @ \cup {f[1]}])
  <2> DEFINE row == [fetch[a] EXCEPT !.values = @ \cup {f[1]}]
  <2>1. fetch' = [fetch EXCEPT ![a] = row]
    BY <1>10 DEF SetFetch
  <2>2. /\ row \in FetchRow /\ row.phase = "reading" /\ row.left = fetch[a].left
        /\ row.values = fetch[a].values \cup {f[1]} /\ row.secrets = fetch[a].secrets
    BY <1>1, <1>8 DEF FetchRow
  <2> HIDE DEF row
  <2>3. RowWhole(row, {})
    BY <1>1, <1>8, <1>9, <2>2 DEF RowWhole
  <2>4. RowWhole(row, found'[a])
    BY <1>7, <2>3
  <2>5. row \in FetchRow
    BY <2>2
  <2> QED
    BY <1>3, <1>4, <1>6, <1>7, <2>1, <2>4, <2>5, DeliveryRowStep
<1>11. CASE SetFetch(a, Rejected(a))
  <2>1. Rejected(a) \in FetchRow /\ RowWhole(Rejected(a), {})
    BY <1>1 DEF Rejected, FetchRow, RowWhole
  <2>2. fetch' = [fetch EXCEPT ![a] = Rejected(a)]
    BY <1>11 DEF SetFetch
  <2> QED
    BY <1>3, <1>4, <1>6, <1>7, <2>1, <2>2, DeliveryRowStep
<1> QED
  BY <1>2, <1>10, <1>11

\* DeliveryInv is inductive.
LEMMA DeliveryStep ==
    ASSUME DeliveryInv, [NextDelivery]_deliveryVars
    PROVE  DeliveryInv'
<1>1. CASE UNCHANGED deliveryVars
  BY <1>1 DEF deliveryVars, DeliveryInv, DeliveryTypeOK, DeletedUntouched, StatusTellsStored, ReadAsStored
<1>2. CASE NextDelivery
  BY <1>2, DeliveryAdminStep, DeliveryValidateStep, DeliveryRequestStep, DeliveryReadStep, DeliveryDecryptStep
     DEF NextDelivery
<1> QED
  BY <1>1, <1>2

\* The secrets, the requests for them and the records read keep their types.
THEOREM DeliveryTypeCorrect == SpecDelivery => []DeliveryTypeOK
<1>1. DeliveryInv /\ [NextDelivery]_deliveryVars => DeliveryInv'
  BY DeliveryStep
<1> QED
  BY DeliveryInit, <1>1, PTL DEF SpecDelivery, DeliveryInv

\* For any number of secrets, orders and administrators: a runner gets all the
\* secrets of its version or none, a secret that was deleted while it was read
\* stays deleted, and a status is that of the value stored unless the value was
\* replaced between being read and marked, or damaged since.
THEOREM SecretsAreSound == SpecDelivery => []SecretsSound
<1>1. DeliveryInv /\ [NextDelivery]_deliveryVars => DeliveryInv'
  BY DeliveryStep
<1>2. DeliveryInv => SecretsSound
  BY DEF DeliveryInv, DeliveredWhole, RowWhole, SecretsSound
<1> QED
  BY DeliveryInit, <1>1, <1>2, PTL DEF SpecDelivery

-----------------------------------------------------------------------------
(* Catalog *)

\* Every name the version mentions is that of a variable it refers to, unless
\* one of these was renamed while the version was being inserted.
Resolves(r) == \A n \in Mentions(r) : \/ \E v \in r.references : variable[v] = {n}
                                      \/ r.references \cap renamed # {}

SecretsOf(definitions) == UNION {UNION d.secrets : d \in definitions}
Asked(q) == SecretsOf(edit[q].definition)

\* Versions that are not committed resolve as well; a variable has one name.
ReferencesHeld ==
    /\ \A v \in Variables : \A n, m \in variable[v] : n = m
    /\ \A t \in Tasks : \A r \in Rows(t) : Resolves(r)
    /\ \A q \in Edits : \A r \in edit[q].version : Resolves(r)

\* What a request under way keeps true of its task and of the secrets of the
\* version it inserts, whoever deletes tasks, secrets and versions meanwhile.
EditsSound ==
    /\ \A q \in Edits : Asked(q) \subseteq named \cup removed
    /\ \A q \in Edits : /\ edit[q].version # {} => edit[q].phase = "open"
                        /\ edit[q].phase = "open" => \E t \in Tasks : edit[q].task = {t}
    /\ \A q \in Edits : edit[q].phase = "open" =>
        \A t \in edit[q].task :
            /\ task[t].state # "deleted"
            /\ \A r \in edit[q].version : r.secrets \subseteq Asked(q) \cup Previous(t).secrets
    /\ \A p, q \in Edits : \A t \in Tasks :
        (edit[p].phase = "open" /\ t \in edit[p].task /\ edit[q].phase = "open" /\ t \in edit[q].task) => p = q

CatalogInv == CatalogTypeOK /\ ReferencesHeld /\ EditsSound /\ SecretsAvailable

\* The newest version is one of the task's.
LEMMA NewestIsARow ==
    ASSUME CatalogTypeOK, NEW t \in Tasks, task[t].versions # << >>
    PROVE  Newest(t) \in Version /\ Newest(t) \in Rows(t)
<1>1. task[t] \in TaskRow /\ task[t].versions \in Seq(Version)
  BY DEF CatalogTypeOK, TaskRow
<1>2. Len(task[t].versions) \in 1..Len(task[t].versions)
  BY <1>1, EmptySeq, LenProperties
<1> QED
  BY <1>1, <1>2, ElementOfSeq, LenProperties DEF Newest, Rows

\* What a version inherits from.
LEMMA PreviousType ==
    ASSUME CatalogTypeOK, NEW t \in Tasks
    PROVE  /\ Previous(t).environment \subseteq Names /\ Previous(t).secrets \subseteq Secrets
           /\ task[t].versions # << >> => Previous(t).secrets = Newest(t).secrets
           /\ LiveTask(t) => task[t].versions # << >>
<1>1. task[t].versions # << >> => Newest(t) \in Version
  BY NewestIsARow
<1>2. LiveTask(t) => task[t].versions # << >>
  BY DEF CatalogTypeOK, LiveTask
<1> QED
  BY <1>1, <1>2 DEF Previous, Version

\* What the fields of a request under way are.
LEMMA EditTypes ==
    ASSUME CatalogTypeOK, NEW q \in Edits
    PROVE  /\ edit \in [Edits -> EditRow] /\ edit[q] \in EditRow
           /\ edit[q].definition \subseteq Definition /\ edit[q].version \subseteq Version
           /\ edit[q].task \subseteq Tasks /\ NoEdit \in EditRow
BY DEF CatalogTypeOK, EditRow, NoEdit

\* The first state.
LEMMA CatalogInit == InitCatalog => CatalogInv
<1> SUFFICES ASSUME InitCatalog PROVE CatalogInv
  OBVIOUS
<1>1. [state |-> "none", versions |-> << >>] \in TaskRow /\ NoEdit \in EditRow
  BY EmptySeq DEF TaskRow, NoEdit, EditRow
<1>2. CatalogTypeOK
  BY <1>1 DEF InitCatalog, CatalogTypeOK
<1>3. \A t \in Tasks : Rows(t) = {} /\ ~LiveTask(t)
  <2>1. DOMAIN << >> = {}
    OBVIOUS
  <2> QED
    BY <2>1 DEF InitCatalog, Rows, LiveTask
<1>4. \A q \in Edits : /\ edit[q].phase = "idle" /\ edit[q].version = {} /\ edit[q].definition = {}
                       /\ Asked(q) = {}
  BY DEF InitCatalog, NoEdit, Asked, SecretsOf
<1>5. ReferencesHeld
  BY <1>3, <1>4 DEF InitCatalog, ReferencesHeld
<1>6. EditsSound
  BY <1>4 DEF EditsSound
<1>7. SecretsAvailable
  BY <1>3 DEF SecretsAvailable
<1> QED
  BY <1>2, <1>5, <1>6, <1>7 DEF CatalogInv

\* A step that replaces one request's row and leaves every table alone keeps
\* the invariant when the new row satisfies it.
LEMMA CatalogEditStep ==
    ASSUME CatalogInv, NEW q \in Edits, NEW row \in EditRow,
           edit' = [edit EXCEPT ![q] = row], UNCHANGED <<task, variable, named, renamed, removed>>,
           \A r \in row.version : Resolves(r) /\ row.phase = "open",
           SecretsOf(row.definition) \subseteq named \cup removed,
           row.phase = "open" =>
             \E t \in Tasks :
               /\ row.task = {t} /\ task[t].state # "deleted" /\ ~OpenOn(t)
               /\ \A r \in row.version : r.secrets \subseteq SecretsOf(row.definition) \cup Previous(t).secrets
    PROVE  CatalogInv'
<1>1. edit \in [Edits -> EditRow] /\ \A p \in Edits : edit'[p] = IF p = q THEN row ELSE edit[p]
  BY DEF CatalogInv, CatalogTypeOK
<1>2. CatalogTypeOK'
  BY <1>1 DEF CatalogInv, CatalogTypeOK
<1>3. /\ \A r : Resolves(r)' = Resolves(r)
      /\ \A t \in Tasks : Rows(t)' = Rows(t) /\ Previous(t)' = Previous(t) /\ Newest(t)' = Newest(t)
      /\ \A t \in Tasks : LiveTask(t)' = LiveTask(t)
      /\ \A p \in Edits : Asked(p)' = IF p = q THEN SecretsOf(row.definition) ELSE Asked(p)
  BY <1>1 DEF Resolves, Rows, Previous, Newest, LiveTask, Asked
<1>4. ReferencesHeld'
  BY <1>1, <1>3 DEF CatalogInv, ReferencesHeld
<1>5. SecretsAvailable'
  BY <1>3 DEF CatalogInv, SecretsAvailable
<1>6. ASSUME NEW p \in Edits
      PROVE  /\ (Asked(p) \subseteq named \cup removed)'
             /\ edit'[p].version # {} => edit'[p].phase = "open"
             /\ edit'[p].phase = "open" => \E t \in Tasks : edit'[p].task = {t}
             /\ edit'[p].phase = "open" =>
                  \A t \in edit'[p].task :
                    /\ task'[t].state # "deleted"
                    /\ \A r \in edit'[p].version : r.secrets \subseteq Asked(p)' \cup Previous(t)'.secrets
  <2>1. CASE p = q
    BY <1>1, <1>3, <2>1
  <2>2. CASE p # q
    <3>1. edit[p].task \subseteq Tasks
      BY EditTypes DEF CatalogInv
    <3> QED
      BY <1>1, <1>3, <2>2, <3>1 DEF CatalogInv, EditsSound
  <2> QED
    BY <2>1, <2>2
<1>7. ASSUME NEW p1 \in Edits, NEW p2 \in Edits, NEW t \in Tasks,
             edit'[p1].phase = "open", t \in edit'[p1].task, edit'[p2].phase = "open", t \in edit'[p2].task
      PROVE  p1 = p2
  <2>1. p1 # q /\ p2 # q => p1 = p2
    BY <1>1, <1>7 DEF CatalogInv, EditsSound
  <2>2. ASSUME NEW p \in Edits, p # q, edit[p].phase = "open", t \in edit[p].task, row.phase = "open", t \in row.task
        PROVE  FALSE
    BY <2>2 DEF OpenOn
  <2> QED
    BY <1>1, <1>7, <2>1, <2>2
<1>8. EditsSound'
  BY <1>6, <1>7 DEF EditsSound
<1> QED
  BY <1>2, <1>4, <1>5, <1>8 DEF CatalogInv

\* A request is checked, its transaction opened or given up.
LEMMA CatalogRequestStep ==
    ASSUME CatalogInv, NEW q \in Edits,
           \/ AbandonEdit(q)
           \/ \E t \in Tasks : OpenVersion(q, t) \/ \E d \in Definitions : CheckDefinition(q, t, d)
    PROVE  CatalogInv'
<1>1. /\ UNCHANGED <<task, variable, named, renamed, removed>>
      /\ edit[q] \in EditRow /\ NoEdit \in EditRow
      /\ edit[q].definition \subseteq Definition
  BY EditTypes DEF AbandonEdit, OpenVersion, CheckDefinition, CatalogInv
<1>2. ASSUME edit' = [edit EXCEPT ![q] = NoEdit] PROVE CatalogInv'
  <2>1. NoEdit.version = {} /\ NoEdit.phase = "idle" /\ SecretsOf(NoEdit.definition) = {}
    BY DEF NoEdit, SecretsOf
  <2> QED
    BY <1>1, <1>2, <2>1, CatalogEditStep
<1>3. CASE AbandonEdit(q)
  BY <1>2, <1>3 DEF AbandonEdit, SetEdit
<1>4. ASSUME NEW t \in Tasks, NEW d \in Definitions, CheckDefinition(q, t, d) PROVE CatalogInv'
  <2> DEFINE row == [phase |-> "checked", task |-> {t}, definition |-> {d}, version |-> {}]
  <2>1. d \in Definition /\ UNION d.secrets \subseteq named
    BY <1>4, TaskDefinitionsAssumption DEF CheckDefinition, ValidateTaskSecretIDs
  <2>2. row \in EditRow
    BY <2>1 DEF EditRow
  <2>3. edit' = [edit EXCEPT ![q] = row]
    BY <1>4 DEF CheckDefinition, SetEdit
  <2>4. row.version = {} /\ row.phase = "checked" /\ SecretsOf(row.definition) = UNION d.secrets
    BY DEF SecretsOf
  <2> HIDE DEF row
  <2> QED
    BY <1>1, <2>1, <2>2, <2>3, <2>4, CatalogEditStep
<1>5. ASSUME NEW t \in Tasks, OpenVersion(q, t) PROVE CatalogInv'
  <2>1. PICK d \in edit[q].definition :
          SetEdit(q, IF task[t].state # "deleted" /\ Len(task[t].versions) < MaxVersions
                        /\ Defined(Mentions(NewVersion(t, d)))
                     THEN [edit[q] EXCEPT !.phase = "open", !.version = {NewVersion(t, d)}]
                     ELSE NoEdit)
    BY <1>5 DEF OpenVersion
  <2>2. edit[q].phase = "checked" /\ edit[q].task = {t} /\ ~OpenOn(t)
    BY <1>5 DEF OpenVersion
  <2>3. CASE ~(task[t].state # "deleted" /\ Len(task[t].versions) < MaxVersions
                 /\ Defined(Mentions(NewVersion(t, d))))
    BY <1>2, <2>1, <2>3 DEF SetEdit
  <2>4. CASE /\ task[t].state # "deleted" /\ Len(task[t].versions) < MaxVersions
             /\ Defined(Mentions(NewVersion(t, d)))
    <3> DEFINE new == NewVersion(t, d)
               row == [edit[q] EXCEPT !.phase = "open", !.version = {new}]
    <3>1. d \in Definition /\ d.command \subseteq Names
      BY <1>1, <2>1 DEF Definition
    <3>2. /\ Inherit(d.environment, Previous(t).environment) \subseteq Names
          /\ Inherit(d.secrets, Previous(t).secrets) \subseteq Secrets
      BY <3>1, PreviousType DEF Inherit, Definition, CatalogInv
    <3>3. /\ new.command = d.command /\ new.environment = Inherit(d.environment, Previous(t).environment)
          /\ new.secrets = Inherit(d.secrets, Previous(t).secrets)
          /\ new.references = ReferencesOf(Mentions(new))
      BY DEF NewVersion, Mentions
    <3>4. new \in Version
      <4>1. \A names : ReferencesOf(names) \subseteq Variables
        BY DEF ReferencesOf
      <4> QED
        BY <3>1, <3>2, <4>1 DEF NewVersion, Version
    <3>5. /\ row \in EditRow /\ row.phase = "open" /\ row.version = {new} /\ row.task = {t}
          /\ row.definition = edit[q].definition
      BY <1>1, <2>2, <3>4 DEF EditRow
    <3>6. edit' = [edit EXCEPT ![q] = row]
      BY <2>1, <2>4 DEF SetEdit
    <3> HIDE DEF row, new
    <3>7. Resolves(new)
      <4> SUFFICES ASSUME NEW n \in Mentions(new) PROVE \E v \in new.references : variable[v] = {n}
        BY DEF Resolves
      <4>1. PICK v \in Variables : n \in variable[v]
        BY <2>4 DEF Defined, new
      <4>2. variable[v] = {n}
        BY <4>1 DEF CatalogInv, ReferencesHeld
      <4>3. v \in new.references
        BY <3>3, <4>1 DEF ReferencesOf
      <4> QED
        BY <4>2, <4>3
    <3>8. SecretsOf(row.definition) = Asked(q) /\ Asked(q) \subseteq named \cup removed
      BY <3>5 DEF Asked, CatalogInv, EditsSound
    <3>9. new.secrets \subseteq SecretsOf(row.definition) \cup Previous(t).secrets
      BY <2>1, <3>3, <3>5 DEF Inherit, SecretsOf
    <3> QED
      BY <1>1, <2>2, <2>4, <3>5, <3>6, <3>7, <3>8, <3>9, CatalogEditStep
  <2> QED
    BY <2>3, <2>4
<1> QED
  BY <1>3, <1>4, <1>5

\* The version is committed and is the newest one.
LEMMA CatalogCommitStep ==
    ASSUME CatalogInv, NEW q \in Edits, NEW t \in Tasks, CommitVersion(q, t)
    PROVE  CatalogInv'
<1>1. PICK row \in edit[q].version :
        task' = [task EXCEPT ![t] = [state |-> "live", versions |-> Append(@.versions, row)]]
  BY DEF CommitVersion
<1>2. /\ edit' = [edit EXCEPT ![q] = NoEdit] /\ UNCHANGED <<variable, named, renamed, removed>>
      /\ edit[q].phase = "open" /\ edit[q].task = {t}
  BY DEF CommitVersion, SetEdit
<1>3. /\ task \in [Tasks -> TaskRow] /\ task[t] \in TaskRow /\ task[t].versions \in Seq(Version)
      /\ row \in Version /\ edit \in [Edits -> EditRow] /\ NoEdit \in EditRow
  BY <1>1, EditTypes DEF CatalogInv, CatalogTypeOK, TaskRow
<1> DEFINE list == Append(task[t].versions, row)
<1>4. /\ list \in Seq(Version) /\ Len(list) = Len(task[t].versions) + 1
      /\ Len(task[t].versions) \in Nat /\ DOMAIN list = 1..Len(list)
      /\ DOMAIN task[t].versions = 1..Len(task[t].versions)
      /\ \A i \in 1..Len(task[t].versions) : list[i] = task[t].versions[i]
      /\ list[Len(list)] = row /\ list # << >>
  BY <1>3, AppendProperties, LenProperties, EmptySeq
<1> HIDE DEF list
<1>5. /\ \A u \in Tasks : task'[u] = IF u = t THEN [state |-> "live", versions |-> list] ELSE task[u]
      /\ [state |-> "live", versions |-> list] \in TaskRow
      /\ [state |-> "live", versions |-> list].versions = list
  BY <1>1, <1>3, <1>4 DEF TaskRow, list
<1>6. \A p \in Edits : edit'[p] = IF p = q THEN NoEdit ELSE edit[p]
  BY <1>2, <1>3
<1>7. CatalogTypeOK'
  <2>1. task' \in [Tasks -> TaskRow] /\ edit' \in [Edits -> EditRow]
    BY <1>1, <1>2, <1>3, <1>4 DEF TaskRow, list
  <2>2. \A u \in Tasks : task'[u].state = "none" <=> task'[u].versions = << >>
    BY <1>4, <1>5 DEF CatalogInv, CatalogTypeOK
  <2> QED
    BY <1>2, <2>1, <2>2 DEF CatalogInv, CatalogTypeOK
<1>8. /\ \A u \in Tasks \ {t} : Rows(u)' = Rows(u) /\ Newest(u)' = Newest(u) /\ Previous(u)' = Previous(u)
                                /\ LiveTask(u)' = LiveTask(u)
      /\ Newest(t)' = row
      /\ Rows(t)' \subseteq Rows(t) \cup {row}
  <2>1. task'[t].versions = list
    BY <1>5
  <2>2. Newest(t)' = row
    BY <1>4, <2>1 DEF Newest
  <2>3. ASSUME NEW i \in DOMAIN list PROVE list[i] \in Rows(t) \cup {row}
    BY <1>4, <2>3 DEF Rows
  <2>4. Rows(t)' \subseteq Rows(t) \cup {row}
    BY <2>1, <2>3 DEF Rows
  <2> QED
    BY <1>5, <2>2, <2>4 DEF Rows, Newest, Previous, LiveTask
<1>9. /\ \A r : Resolves(r)' = Resolves(r)
      /\ NoEdit.version = {} /\ NoEdit.phase = "idle" /\ NoEdit.definition = {}
      /\ \A p \in Edits : Asked(p)' = IF p = q THEN {} ELSE Asked(p)
  BY <1>2, <1>6 DEF Resolves, Asked, SecretsOf, NoEdit
<1>10. ReferencesHeld'
  <2>1. Resolves(row)
    BY <1>1 DEF CatalogInv, ReferencesHeld
  <2> QED
    BY <1>2, <1>6, <1>8, <1>9, <2>1 DEF CatalogInv, ReferencesHeld
<1>11. EditsSound'
  <2>1. \A p \in Edits \ {q} : edit[p].phase = "open" => t \notin edit[p].task /\ edit[p].task \subseteq Tasks
    BY <1>2, EditTypes DEF CatalogInv, EditsSound
  <2>2. \A p \in Edits \ {q} : edit[p].phase = "open" =>
          \A u \in edit[p].task : task'[u] = task[u] /\ Previous(u)' = Previous(u)
    BY <1>5, <1>8, <2>1
  <2> QED
    BY <1>2, <1>6, <1>9, <2>2 DEF CatalogInv, EditsSound
<1>12. SecretsAvailable'
  <2>1. row.secrets \subseteq Asked(q) \cup Previous(t).secrets /\ Asked(q) \subseteq named \cup removed
        /\ task[t].state # "deleted"
    BY <1>1, <1>2 DEF CatalogInv, EditsSound
  <2>2. Previous(t).secrets \subseteq named \cup removed
    <3>1. CASE task[t].versions = << >>
      BY <3>1 DEF Previous
    <3>2. CASE task[t].versions # << >>
      <4>1. LiveTask(t)
        BY <1>3, <2>1, <3>2 DEF CatalogInv, CatalogTypeOK, TaskRow, LiveTask
      <4> QED
        BY <3>2, <4>1, PreviousType DEF CatalogInv, SecretsAvailable
    <3> QED
      BY <3>1, <3>2
  <2> QED
    BY <1>2, <1>8, <2>1, <2>2 DEF CatalogInv, SecretsAvailable
<1> QED
  BY <1>7, <1>10, <1>11, <1>12 DEF CatalogInv

\* A task is deleted: no transaction holds its row.
LEMMA CatalogDeleteTaskStep ==
    ASSUME CatalogInv, NEW t \in Tasks, DeleteTask(t)
    PROVE  CatalogInv'
<1>1. /\ LiveTask(t) /\ ~OpenOn(t) /\ task' = [task EXCEPT ![t].state = "deleted"]
      /\ UNCHANGED <<variable, named, edit, renamed, removed>>
  BY DEF DeleteTask
<1>2. task \in [Tasks -> TaskRow] /\ \A u \in Tasks : task[u] \in TaskRow
  BY DEF CatalogInv, CatalogTypeOK
<1>3. /\ task' \in [Tasks -> TaskRow]
      /\ \A u \in Tasks : task'[u].versions = task[u].versions
      /\ \A u \in Tasks \ {t} : task'[u].state = task[u].state
      /\ task'[t].state = "deleted"
  BY <1>1, <1>2 DEF TaskRow
<1>4. task[t].versions # << >>
  BY <1>1 DEF CatalogInv, CatalogTypeOK, LiveTask
<1>5. CatalogTypeOK'
  BY <1>1, <1>3, <1>4 DEF CatalogInv, CatalogTypeOK
<1>6. /\ \A u \in Tasks : Rows(u)' = Rows(u) /\ Newest(u)' = Newest(u) /\ Previous(u)' = Previous(u)
      /\ \A u \in Tasks : LiveTask(u)' => LiveTask(u)
      /\ \A r : Resolves(r)' = Resolves(r)
      /\ \A p \in Edits : Asked(p)' = Asked(p)
  BY <1>1, <1>3 DEF Rows, Newest, Previous, LiveTask, Resolves, Asked
<1>7. ReferencesHeld' /\ SecretsAvailable'
  BY <1>1, <1>6 DEF CatalogInv, ReferencesHeld, SecretsAvailable
<1>8. \A p \in Edits : edit[p].phase = "open" => t \notin edit[p].task /\ edit[p].task \subseteq Tasks
  BY <1>1, EditTypes DEF OpenOn, CatalogInv
<1>9. EditsSound'
  BY <1>1, <1>3, <1>6, <1>8 DEF CatalogInv, EditsSound
<1> QED
  BY <1>5, <1>7, <1>9 DEF CatalogInv

\* A variable is created, renamed or deleted.
LEMMA CatalogVariableStep ==
    ASSUME CatalogInv, NEW v \in Variables,
           DeleteVariable(v) \/ \E n \in Names : CreateVariable(v, n) \/ UpdateVariable(v, n)
    PROVE  CatalogInv'
<1>1. UNCHANGED <<task, named, edit, removed>>
  BY DEF DeleteVariable, CreateVariable, UpdateVariable
<1>2. PICK names \in SUBSET Names :
        /\ variable' = [variable EXCEPT ![v] = names] /\ \A n, m \in names : n = m
        /\ \A n \in names : NameFree(v, n)
  <2>1. CASE DeleteVariable(v)
    <3>1. variable' = [variable EXCEPT ![v] = {}] /\ {} \in SUBSET Names
      BY <2>1 DEF DeleteVariable
    <3> QED
      BY <3>1
  <2>2. ASSUME NEW n \in Names, CreateVariable(v, n) \/ UpdateVariable(v, n)
        PROVE  \E names \in SUBSET Names :
                 /\ variable' = [variable EXCEPT ![v] = names] /\ \A k, m \in names : k = m
                 /\ \A k \in names : NameFree(v, k)
    <3>1. variable' = [variable EXCEPT ![v] = {n}] /\ NameFree(v, n) /\ {n} \in SUBSET Names
      BY <2>2 DEF CreateVariable, UpdateVariable
    <3> QED
      BY <3>1
  <2> QED
    BY <2>1, <2>2
<1>3. variable \in [Variables -> SUBSET Names] /\ renamed \subseteq Variables
  BY DEF CatalogInv, CatalogTypeOK
<1>4. \A w \in Variables : variable'[w] = IF w = v THEN names ELSE variable[w]
  BY <1>2, <1>3
<1>5. renamed \subseteq renamed' /\ renamed' \subseteq Variables
  BY <1>3 DEF DeleteVariable, CreateVariable, UpdateVariable
<1>6. CatalogTypeOK'
  <2>1. \A w, x \in Variables : w # x => variable'[w] \cap variable'[x] = {}
    BY <1>2, <1>4 DEF CatalogInv, CatalogTypeOK, NameFree
  <2> QED
    BY <1>1, <1>2, <1>3, <1>5, <2>1 DEF CatalogInv, CatalogTypeOK
<1>7. /\ \A u \in Tasks : Rows(u)' = Rows(u) /\ Newest(u)' = Newest(u) /\ Previous(u)' = Previous(u)
      /\ \A u \in Tasks : LiveTask(u)' = LiveTask(u)
      /\ \A p \in Edits : Asked(p)' = Asked(p)
  BY <1>1 DEF Rows, Newest, Previous, LiveTask, Asked
<1>8. SecretsAvailable' /\ EditsSound'
  <2>1. \A p \in Edits : edit[p].task \subseteq Tasks
    BY EditTypes DEF CatalogInv
  <2> QED
    BY <1>1, <1>7, <2>1 DEF CatalogInv, SecretsAvailable, EditsSound
<1>9. ASSUME NEW r, Resolves(r), r.references \subseteq Variables,
             v \in r.references => variable[v] = {} \/ v \in renamed'
      PROVE  Resolves(r)'
  <2> SUFFICES ASSUME NEW n \in Mentions(r)
               PROVE  (\E w \in r.references : variable'[w] = {n}) \/ r.references \cap renamed' # {}
    BY DEF Resolves, Mentions
  <2>1. CASE r.references \cap renamed # {}
    BY <1>5, <2>1
  <2>2. CASE \E w \in r.references : variable[w] = {n}
    <3>1. PICK w \in r.references : variable[w] = {n}
      BY <2>2
    <3>2. CASE w = v
      BY <1>9, <3>1, <3>2
    <3>3. CASE w # v
      BY <1>4, <1>9, <3>1, <3>3
    <3> QED
      BY <3>2, <3>3
  <2> QED
    BY <1>9, <2>1, <2>2 DEF Resolves
<1>10. ASSUME NEW u \in Tasks, NEW r \in Rows(u) PROVE Resolves(r)'
  <2>1. Resolves(r)
    BY DEF CatalogInv, ReferencesHeld
  <2>2. r \in Version
    <3>1. task[u] \in TaskRow /\ task[u].versions \in Seq(Version)
      BY DEF CatalogInv, CatalogTypeOK, TaskRow
    <3> QED
      BY <3>1, LenProperties, ElementOfSeq DEF Rows
  <2>3. v \in r.references => variable[v] = {}
    BY DEF DeleteVariable, CreateVariable, UpdateVariable, MayRename, Referenced
  <2> QED
    BY <1>9, <2>1, <2>2, <2>3 DEF Version
<1>11. ASSUME NEW p \in Edits, NEW r \in edit[p].version PROVE Resolves(r)'
  <2>1. Resolves(r) /\ r \in Version
    BY EditTypes DEF CatalogInv, ReferencesHeld
  <2>2. v \in r.references => variable[v] = {} \/ v \in renamed'
    <3> SUFFICES ASSUME v \in r.references PROVE variable[v] = {} \/ v \in renamed'
      OBVIOUS
    <3>1. PendingReference(v)
      BY DEF PendingReference
    <3> QED
      BY <3>1 DEF DeleteVariable, CreateVariable, UpdateVariable
  <2> QED
    BY <1>9, <2>1, <2>2 DEF Version
<1>12. ReferencesHeld'
  <2>1. \A w \in Variables : \A n, m \in variable'[w] : n = m
    BY <1>2, <1>4 DEF CatalogInv, ReferencesHeld
  <2> QED
    BY <1>1, <1>7, <1>10, <1>11, <2>1 DEF ReferencesHeld
<1> QED
  BY <1>6, <1>8, <1>12 DEF CatalogInv

\* A secret is stored or deleted: one that a live task names stays.
LEMMA CatalogSecretStep ==
    ASSUME CatalogInv, NEW s \in Secrets, UpsertSecret(s) \/ DeleteSecret(s)
    PROVE  CatalogInv'
<1>1. /\ UNCHANGED <<task, variable, edit, renamed>> /\ named' \subseteq Secrets /\ removed' \subseteq Secrets
      /\ removed \subseteq removed'
  BY DEF UpsertSecret, DeleteSecret, CatalogInv, CatalogTypeOK
<1>2. \A x \in named \cup removed : x = s \/ x \in named' \cup removed'
  BY DEF UpsertSecret, DeleteSecret
<1>3. s \notin named' \cup removed' => /\ ~InUse(s)
                                       /\ \A q \in Edits : \A d \in edit[q].definition : s \notin UNION d.secrets
  BY DEF UpsertSecret, DeleteSecret
<1>4. CatalogTypeOK'
  BY <1>1 DEF CatalogInv, CatalogTypeOK
<1>5. /\ \A u \in Tasks : Rows(u)' = Rows(u) /\ Newest(u)' = Newest(u) /\ Previous(u)' = Previous(u)
      /\ \A u \in Tasks : LiveTask(u)' = LiveTask(u)
      /\ \A p \in Edits : Asked(p)' = Asked(p)
      /\ \A r : Resolves(r)' = Resolves(r)
  BY <1>1 DEF Rows, Newest, Previous, LiveTask, Asked, Resolves
<1>6. ReferencesHeld'
  BY <1>1, <1>5 DEF CatalogInv, ReferencesHeld
<1>7. \A q \in Edits : Asked(q) \subseteq named' \cup removed'
  <2> SUFFICES ASSUME NEW q \in Edits, NEW x \in Asked(q) PROVE x \in named' \cup removed'
    OBVIOUS
  <2>1. x \in named \cup removed
    BY DEF CatalogInv, EditsSound
  <2>2. \E d \in edit[q].definition : x \in UNION d.secrets
    BY DEF Asked, SecretsOf
  <2> QED
    BY <1>2, <1>3, <2>1, <2>2
<1>8. EditsSound'
  <2>1. \A p \in Edits : edit[p].task \subseteq Tasks
    BY EditTypes DEF CatalogInv
  <2> QED
    BY <1>1, <1>5, <1>7, <2>1 DEF CatalogInv, EditsSound
<1>9. SecretsAvailable'
  <2> SUFFICES ASSUME NEW u \in Tasks, LiveTask(u), NEW x \in Newest(u).secrets
               PROVE  x \in named' \cup removed'
    BY <1>5 DEF SecretsAvailable
  <2>1. x \in named \cup removed
    BY DEF CatalogInv, SecretsAvailable
  <2>2. InUse(x)
    BY DEF InUse
  <2> QED
    BY <1>2, <1>3, <2>1, <2>2
<1> QED
  BY <1>4, <1>6, <1>8, <1>9 DEF CatalogInv

\* CatalogInv is inductive.
LEMMA CatalogInvHolds == SpecCatalog => []CatalogInv
<1>1. CatalogInv /\ [NextCatalog]_catalogVars => CatalogInv'
  <2> SUFFICES ASSUME CatalogInv, [NextCatalog]_catalogVars PROVE CatalogInv'
    OBVIOUS
  <2>1. CASE UNCHANGED catalogVars
    <3>1. UNCHANGED <<task, variable, named, edit, renamed, removed>>
      BY <2>1 DEF catalogVars
    <3>2. /\ \A u \in Tasks : Rows(u)' = Rows(u) /\ Newest(u)' = Newest(u) /\ Previous(u)' = Previous(u)
          /\ \A u \in Tasks : LiveTask(u)' = LiveTask(u)
          /\ \A p \in Edits : Asked(p)' = Asked(p) /\ edit[p].task \subseteq Tasks
          /\ \A r : Resolves(r)' = Resolves(r)
      BY <3>1, EditTypes DEF Rows, Newest, Previous, LiveTask, Asked, Resolves, CatalogInv
    <3> QED
      BY <3>1, <3>2 DEF CatalogInv, CatalogTypeOK, ReferencesHeld, EditsSound, SecretsAvailable
  <2>2. CASE NextCatalog
    BY <2>2, CatalogRequestStep, CatalogCommitStep, CatalogDeleteTaskStep, CatalogVariableStep, CatalogSecretStep
    DEF NextCatalog
  <2> QED
    BY <2>1, <2>2
<1> QED
  BY CatalogInit, <1>1, PTL DEF SpecCatalog

\* Tasks, versions, variables, secrets and the requests that change them keep
\* their types, and no two variables share a name.
THEOREM CatalogTypeCorrect == SpecCatalog => []CatalogTypeOK
BY CatalogInvHolds, PTL DEF CatalogInv

\* For any tasks, definitions, variables, secrets and overlapping requests: what
\* any version mentions is defined and what the newest one names exists, but for
\* the two races the property names.
THEOREM VersionsAlwaysResolve == SpecCatalog => []VersionsResolve
<1>1. CatalogInv => VersionsResolve
  BY DEF CatalogInv, ReferencesHeld, Resolves, VersionsResolve, VariablesResolve
<1> QED
  BY <1>1, CatalogInvHolds, PTL

-----------------------------------------------------------------------------
(* Leases *)

\* What the dispatcher's open transaction and the API requests have read is still
\* so: the resources it needs are required, the leases it has set to EXPIRED are
\* still ACTIVE to the others and past their time, and a resource whose row a
\* request holds is there.
ClaimsCurrent ==
    /\ claim.todo \subseteq required
    /\ \A l \in claim.ripe : l.due
    /\ \A l \in claim.expired : l \in lease /\ l.state = "ACTIVE" /\ l.due
    /\ \A c \in Clients : client[c] = {} \/ \E x \in present : client[c] = {x}

-----------------------------------------------------------------------------
(* What a step does to the leases *)

\* f is what becomes of each lease, new the leases that come: a lease keeps its
\* resource and token and is not revived, only one past its time becomes EXPIRED,
\* and a new one has the next token of a resource left without an ACTIVE lease.
LeasesChange(f, new) ==
    /\ lease' = {f[l] : l \in lease} \cup new
    /\ \A l \in lease : /\ f[l] \in LeaseRecord
                        /\ f[l].resource = l.resource /\ f[l].token = l.token
                        /\ f[l].state = "ACTIVE" => l.state = "ACTIVE"
                        /\ f[l].state = "EXPIRED" /\ l.state = "ACTIVE" => l.due
    /\ new \subseteq LeaseRecord
    /\ \A n \in new : /\ n.state = "ACTIVE" /\ n.resource \in present'
                      /\ n.token = fencing[n.resource] + 1 /\ n.token = fencing'[n.resource]
                      /\ \A l \in lease : l.resource = n.resource => f[l].state # "ACTIVE"
    /\ \A m, n \in new : m.resource = n.resource => m = n

\* the rest of the tables in a step
TablesChange ==
    /\ present' \subseteq Resources /\ required' \subseteq present'
    /\ \A l \in lease : l.resource \in present => l.resource \in present'
    /\ fencing' \in [Resources -> 0..MaxToken]
    /\ \A x \in Resources : fencing[x] <= fencing'[x]
    /\ attempt' \in [Attempts -> {"none", "held", "finished"}]
    /\ client' \in [Clients -> {s \in SUBSET Resources : Cardinality(s) <= 1}]
    /\ claim' \in Claim

Step == TablesChange /\ \E f, new : LeasesChange(f, new)

\* what becomes of each lease when rows get a new state
Rewrite(rows, state) == [l \in lease |-> IF l \in rows THEN [l EXCEPT !.state = state] ELSE l]

\* A write that sets the state of rows of the table.
LEMMA StateWritten ==
    ASSUME NEW rows, rows \subseteq lease, NEW state
    PROVE  WithState(rows, state) = {Rewrite(rows, state)[l] : l \in lease}
BY DEF WithState, Rewrite

\* Setting rows to RELEASED, or expired ones to EXPIRED, keeps what a lease is.
LEMMA RowsRewritten ==
    ASSUME LeasesTypeOK, NEW rows, rows \subseteq lease, NEW state \in {"RELEASED", "EXPIRED"},
           state = "EXPIRED" => \A l \in rows : l.due
    PROVE  LET f == Rewrite(rows, state) IN
           \A l \in lease : /\ f[l] \in LeaseRecord
                            /\ f[l].resource = l.resource /\ f[l].token = l.token
                            /\ f[l].state = "ACTIVE" => l.state = "ACTIVE" /\ l \notin rows
                            /\ f[l].state = "EXPIRED" /\ l.state = "ACTIVE" => l.due
BY DEF LeasesTypeOK, LeaseRecord, Rewrite

\* With no lease touched a step only changes the tables.
LEMMA LeasesUntouched ==
    ASSUME LeasesTypeOK, lease' = lease
    PROVE  \E f, new : LeasesChange(f, new)
<1> DEFINE f == [l \in lease |-> l]
<1>1. lease' = {f[l] : l \in lease} \cup {}
  OBVIOUS
<1>2. LeasesChange(f, {})
  BY <1>1 DEF LeasesChange, LeasesTypeOK
<1> QED
  BY <1>2

\* A resource is created, required or deleted.
LEMMA ResourceStep ==
    ASSUME LeasesTypeOK, ClaimsCurrent, NEW x \in Resources,
           CreateResource(x) \/ RequireResource(x) \/ DeleteResource(x)
    PROVE  Step /\ ClaimsCurrent'
<1>1. UNCHANGED <<fencing, lease, attempt, claim, client>>
  BY DEF CreateResource, RequireResource, DeleteResource
<1>2. /\ present' \subseteq Resources /\ required' \subseteq present'
      /\ required \subseteq required'
      /\ \A l \in lease : l.resource \in present => l.resource \in present'
  BY DEF CreateResource, RequireResource, DeleteResource, LeasesTypeOK
<1>3. \A c \in Clients : client[c] = {} \/ \E y \in present' : client[c] = {y}
  BY DEF CreateResource, RequireResource, DeleteResource, ClientHas, ClaimsCurrent
<1> QED
  BY <1>1, <1>2, <1>3, LeasesUntouched DEF Step, TablesChange, ClaimsCurrent, LeasesTypeOK

\* The dispatcher picks a run, or goes on to the next resource, or gives up.
LEMMA ClaimStep ==
    ASSUME LeasesTypeOK, ClaimsCurrent,
           \/ \E a \in Attempts, needs \in SUBSET Resources : PickRun(a, needs)
           \/ \E x \in Resources : ExpireLease(x) \/ TakeToken(x)
           \/ RollbackClaim
    PROVE  Step /\ ClaimsCurrent'
<1>1. UNCHANGED <<present, fencing, required, lease, attempt, client>>
  BY DEF PickRun, ExpireLease, TakeToken, RollbackClaim
<1>2. /\ claim.attempt \subseteq Attempts /\ claim.todo \subseteq Resources
      /\ claim.swept \subseteq Resources /\ claim.locked \subseteq Resources
      /\ claim.ripe \subseteq LeaseRecord /\ claim.expired \subseteq LeaseRecord
      /\ lease \subseteq LeaseRecord
  BY DEF LeasesTypeOK, Claim
<1>3. NoClaim \in Claim
  BY DEF NoClaim, Claim
<1> DEFINE Goal == /\ claim' \in Claim /\ claim'.todo \subseteq required
                   /\ \A l \in claim'.ripe : l.due
                   /\ \A l \in claim'.expired : l \in lease /\ l.state = "ACTIVE" /\ l.due
<1>4. ASSUME NEW a \in Attempts, NEW needs \in SUBSET Resources, PickRun(a, needs) PROVE Goal
  <2> DEFINE ripe == {l \in lease : l.state = "ACTIVE" /\ l.due /\ l.resource \in needs}
  <2>1. claim' = [attempt |-> {a}, todo |-> needs, swept |-> {}, locked |-> {}, ripe |-> ripe, expired |-> {}]
    BY <1>4 DEF PickRun, NoClaim
  <2>2. ripe \subseteq LeaseRecord /\ (\A l \in ripe : l.due) /\ needs \subseteq required
    BY <1>2, <1>4 DEF PickRun
  <2> HIDE DEF ripe
  <2> QED
    BY <2>1, <2>2 DEF Claim
<1>5. ASSUME NEW x \in Resources, ExpireLease(x) PROVE Goal
  <2> DEFINE more == ActiveLease(x) \cap claim.ripe
  <2>1. claim' = [claim EXCEPT !.swept = @ \cup {x}, !.expired = @ \cup more]
    BY <1>5 DEF ExpireLease
  <2>2. more \subseteq LeaseRecord /\ \A l \in more : l \in lease /\ l.state = "ACTIVE" /\ l.due
    BY <1>2 DEF ActiveLease, ClaimsCurrent
  <2> HIDE DEF more
  <2>3. claim' \in Claim /\ claim'.todo = claim.todo /\ claim'.ripe = claim.ripe
        /\ claim'.expired = claim.expired \cup more
    BY <1>2, <2>1, <2>2 DEF Claim, LeasesTypeOK
  <2> QED
    BY <2>2, <2>3 DEF ClaimsCurrent
<1>6. ASSUME NEW x \in Resources, TakeToken(x) PROVE Goal
  BY <1>2, <1>6 DEF TakeToken, Claim, LeasesTypeOK, ClaimsCurrent
<1>7. ASSUME RollbackClaim PROVE Goal
  BY <1>3, <1>7 DEF RollbackClaim, NoClaim
<1>8. Goal
  BY <1>4, <1>5, <1>6, <1>7
<1> QED
  BY <1>1, <1>8, LeasesUntouched DEF Step, TablesChange, ClaimsCurrent, LeasesTypeOK

\* The dispatcher commits: the leases it expired are replaced, unless another
\* became ACTIVE in between.
LEMMA CommitStep ==
    ASSUME LeasesTypeOK, ClaimsCurrent, CommitClaim
    PROVE  Step /\ ClaimsCurrent'
<1>1. UNCHANGED <<present, required, client>> /\ claim' = NoClaim /\ NoClaim \in Claim
  BY DEF CommitClaim, NoClaim, Claim
<1>2. ClaimsCurrent'
  BY <1>1 DEF ClaimsCurrent, NoClaim
<1>3. CASE \E x \in claim.todo : LeaseConflict(x)
  BY <1>1, <1>2, <1>3, LeasesUntouched DEF CommitClaim, Step, TablesChange, LeasesTypeOK
<1>4. CASE ~\E x \in claim.todo : LeaseConflict(x)
  <2>1. PICK a \in claim.attempt :
          /\ attempt' = [attempt EXCEPT ![a] = "held"]
          /\ fencing' = [x \in Resources |-> IF x \in claim.todo THEN fencing[x] + 1 ELSE fencing[x]]
          /\ lease' = WithState(claim.expired, "EXPIRED")
                      \cup {NewLease(x, a, fencing[x] + 1) : x \in claim.todo}
    BY <1>4 DEF CommitClaim
  <2>2. a \in Attempts /\ claim.todo \subseteq Resources /\ claim.expired \subseteq lease
    <3>1. claim \in Claim
      BY DEF LeasesTypeOK
    <3>2. claim.attempt \subseteq Attempts /\ claim.todo \subseteq Resources
      BY <3>1 DEF Claim
    <3> QED
      BY <2>1, <3>2 DEF ClaimsCurrent
  <2>3. \A x \in Resources : fencing[x] \in 0..MaxToken /\ (x \in claim.todo => fencing[x] < MaxToken)
    BY DEF LeasesTypeOK, CommitClaim
  <2>4. TablesChange
    <3>1. fencing' \in [Resources -> 0..MaxToken] /\ \A x \in Resources : fencing[x] <= fencing'[x]
      BY <2>1, <2>2, <2>3, LeasesAssumption
    <3>2. attempt' \in [Attempts -> {"none", "held", "finished"}]
      BY <2>1, <2>2 DEF LeasesTypeOK
    <3> QED
      BY <1>1, <3>1, <3>2 DEF TablesChange, LeasesTypeOK
  <2> DEFINE f == Rewrite(claim.expired, "EXPIRED")
             new == {NewLease(x, a, fencing[x] + 1) : x \in claim.todo}
  <2>5. WithState(claim.expired, "EXPIRED") = {f[l] : l \in lease}
    BY <2>2, StateWritten
  <2>6. \A l \in lease : /\ f[l] \in LeaseRecord
                         /\ f[l].resource = l.resource /\ f[l].token = l.token
                         /\ f[l].state = "ACTIVE" => l.state = "ACTIVE" /\ l \notin claim.expired
                         /\ f[l].state = "EXPIRED" /\ l.state = "ACTIVE" => l.due
    BY <2>2, RowsRewritten DEF ClaimsCurrent
  <2>7. \A x \in claim.todo : LET n == NewLease(x, a, fencing[x] + 1) IN
          n \in LeaseRecord /\ n.resource = x /\ n.token = fencing[x] + 1 /\ n.state = "ACTIVE"
    BY <2>2, <2>3, LeasesAssumption DEF NewLease, LeaseRecord
  <2>8. \A x \in claim.todo : \A l \in lease : l.resource = x /\ l.state = "ACTIVE" => l \in claim.expired
    BY <1>4 DEF LeaseConflict, ActiveLease
  <2>9. claim.todo \subseteq present
    BY DEF ClaimsCurrent, LeasesTypeOK
  <2>10. lease' = {f[l] : l \in lease} \cup new
    BY <2>1, <2>5
  <2>11. new \subseteq LeaseRecord /\ \A m, n \in new : m.resource = n.resource => m = n
    BY <2>7
  <2>12. ASSUME NEW n \in new
         PROVE  /\ n.state = "ACTIVE" /\ n.resource \in present'
                /\ n.token = fencing[n.resource] + 1 /\ n.token = fencing'[n.resource]
                /\ \A l \in lease : l.resource = n.resource => f[l].state # "ACTIVE"
    <3>1. PICK x \in claim.todo : n = NewLease(x, a, fencing[x] + 1)
      OBVIOUS
    <3>2. n.resource = x /\ n.token = fencing[x] + 1 /\ n.state = "ACTIVE"
      BY <2>7, <3>1
    <3>3. fencing'[x] = fencing[x] + 1
      BY <2>1, <2>2
    <3> HIDE DEF f
    <3> QED
      BY <1>1, <2>6, <2>8, <2>9, <3>2, <3>3
  <2> HIDE DEF f, new
  <2>13. LeasesChange(f, new)
    BY <2>6, <2>10, <2>11, <2>12 DEF LeasesChange
  <2> QED
    BY <1>2, <2>4, <2>13 DEF Step
<1> QED
  BY <1>3, <1>4

\* An attempt ends, or its holder releases the lease: rows the dispatcher has not
\* touched become RELEASED.
LEMMA ReleaseStep ==
    ASSUME LeasesTypeOK, ClaimsCurrent,
           \/ \E a \in Attempts : FinishAttempt(a)
           \/ \E x \in Resources, a \in Attempts, n \in 1..MaxToken : ReleaseLease(x, a, n)
    PROVE  Step /\ ClaimsCurrent'
<1>1. UNCHANGED <<present, fencing, required, claim, client>>
  BY DEF FinishAttempt, ReleaseLease
<1>2. attempt' \in [Attempts -> {"none", "held", "finished"}]
  BY DEF FinishAttempt, ReleaseLease, LeasesTypeOK
<1>3. PICK rows \in SUBSET lease : rows \cap claim.expired = {} /\ lease' = WithState(rows, "RELEASED")
  <2>1. ASSUME NEW a \in Attempts, FinishAttempt(a)
        PROVE  \E rows \in SUBSET lease : rows \cap claim.expired = {} /\ lease' = WithState(rows, "RELEASED")
    <3> WITNESS {l \in lease : l.holder = a /\ l.state = "ACTIVE"} \in SUBSET lease
    <3> QED
      BY <2>1 DEF FinishAttempt
  <2>2. ASSUME NEW x \in Resources, NEW a \in Attempts, NEW n \in 1..MaxToken, ReleaseLease(x, a, n)
        PROVE  \E rows \in SUBSET lease : rows \cap claim.expired = {} /\ lease' = WithState(rows, "RELEASED")
    <3>1. {l \in ActiveLease(x) : l.holder = a /\ l.token = n} \in SUBSET lease
      BY DEF ActiveLease
    <3> WITNESS {l \in ActiveLease(x) : l.holder = a /\ l.token = n} \in SUBSET lease
    <3> QED
      BY <2>2 DEF ReleaseLease
  <2> QED
    BY <2>1, <2>2
<1> DEFINE f == Rewrite(rows, "RELEASED")
<1>4. lease' = {f[l] : l \in lease} \cup {}
  <2>1. rows \subseteq lease
    OBVIOUS
  <2>2. WithState(rows, "RELEASED") = {Rewrite(rows, "RELEASED")[l] : l \in lease}
    BY <2>1, StateWritten
  <2> QED
    BY <1>3, <2>2
<1>5. \A l \in lease : /\ f[l] \in LeaseRecord
                       /\ f[l].resource = l.resource /\ f[l].token = l.token
                       /\ f[l].state = "ACTIVE" => l.state = "ACTIVE" /\ l \notin rows
                       /\ f[l].state = "EXPIRED" /\ l.state = "ACTIVE" => l.due
  <2>1. rows \subseteq lease /\ "RELEASED" \in {"RELEASED", "EXPIRED"} /\ "RELEASED" # "EXPIRED"
    OBVIOUS
  <2> QED
    BY <2>1, RowsRewritten
<1>6. ClaimsCurrent'
  <2>1. \A l \in claim.expired : l \in lease'
    BY <1>3 DEF WithState, ClaimsCurrent
  <2> QED
    BY <1>1, <2>1 DEF ClaimsCurrent
<1> HIDE DEF f
<1>7. LeasesChange(f, {})
  BY <1>4, <1>5 DEF LeasesChange
<1> QED
  BY <1>1, <1>2, <1>6, <1>7 DEF Step, TablesChange, LeasesTypeOK

\* A lease runs out: one the dispatcher has set to EXPIRED had run out before.
LEMMA RunOutStep ==
    ASSUME LeasesTypeOK, ClaimsCurrent, NEW l \in lease, LeaseRunsOut(l)
    PROVE  Step /\ ClaimsCurrent'
<1>1. UNCHANGED <<present, fencing, required, attempt, claim, client>>
  BY DEF LeaseRunsOut
<1> DEFINE f == [k \in lease |-> IF k = l THEN [l EXCEPT !.due = TRUE] ELSE k]
<1>2. lease' = {f[k] : k \in lease} \cup {}
  BY DEF LeaseRunsOut
<1>3. \A k \in lease : /\ f[k] \in LeaseRecord
                       /\ f[k].resource = k.resource /\ f[k].token = k.token
                       /\ f[k].state = k.state
  BY DEF LeasesTypeOK, LeaseRecord
<1>4. l.state = "ACTIVE" /\ ~l.due
  BY DEF LeaseRunsOut
<1>5. \A k \in lease : f[k].state = "EXPIRED" => k.state # "ACTIVE"
  BY <1>3
<1>6. ClaimsCurrent'
  <2>1. \A k \in claim.expired : k \in lease'
    BY <1>4 DEF LeaseRunsOut, ClaimsCurrent
  <2> QED
    BY <1>1, <2>1 DEF ClaimsCurrent
<1> HIDE DEF f
<1>7. LeasesChange(f, {})
  BY <1>2, <1>3, <1>5 DEF LeasesChange
<1> QED
  BY <1>1, <1>6, <1>7 DEF Step, TablesChange, LeasesTypeOK

\* An API request locks the row of a resource.
LEMMA LockStep ==
    ASSUME LeasesTypeOK, ClaimsCurrent, NEW c \in Clients, NEW x \in Resources, LockResource(c, x)
    PROVE  Step /\ ClaimsCurrent'
<1>1. UNCHANGED <<present, fencing, required, lease, attempt, claim>> /\ x \in present
      /\ client' = [client EXCEPT ![c] = {x}]
  BY DEF LockResource
<1>2. {x} \in {s \in SUBSET Resources : Cardinality(s) <= 1}
  BY FS_Singleton
<1>3. client' \in [Clients -> {s \in SUBSET Resources : Cardinality(s) <= 1}]
  BY <1>1, <1>2 DEF LeasesTypeOK
<1>4. ClaimsCurrent'
  BY <1>1 DEF ClaimsCurrent, LeasesTypeOK
<1> QED
  BY <1>1, <1>3, <1>4, LeasesUntouched DEF Step, TablesChange, LeasesTypeOK

\* It acquires the lease, when the one there is has run out.
LEMMA AcquireStep ==
    ASSUME LeasesTypeOK, ClaimsCurrent, NEW c \in Clients, NEW x \in Resources, NEW a \in Attempts,
           AcquireLease(c, x, a)
    PROVE  Step /\ ClaimsCurrent'
<1>1. UNCHANGED <<present, required, attempt, claim>> /\ client[c] = {x} /\ x \in present
      /\ client' = [client EXCEPT ![c] = {}]
  BY DEF AcquireLease, ClaimsCurrent
<1>2. {} \in {s \in SUBSET Resources : Cardinality(s) <= 1}
  BY FS_EmptySet
<1>3. client' \in [Clients -> {s \in SUBSET Resources : Cardinality(s) <= 1}]
  BY <1>1, <1>2 DEF LeasesTypeOK
<1>4. \A d \in Clients : client'[d] = {} \/ \E y \in present' : client'[d] = {y}
  BY <1>1 DEF ClaimsCurrent, LeasesTypeOK
<1> DEFINE takes == MayTake(x) /\ attempt[a] # "none" /\ NextToken(x) <= MaxToken
<1>5. CASE ~takes
  <2>1. UNCHANGED <<lease, fencing>>
    BY <1>5 DEF AcquireLease
  <2> QED
    BY <1>1, <1>3, <1>4, <2>1, LeasesUntouched DEF Step, TablesChange, LeasesTypeOK, ClaimsCurrent
<1>6. CASE takes
  <2> DEFINE rows == ActiveLease(x)
             n == NewLease(x, a, fencing[x] + 1)
             f == Rewrite(rows, "EXPIRED")
  <2>1. /\ lease' = WithState(rows, "EXPIRED") \cup {n} /\ fencing' = [fencing EXCEPT ![x] = @ + 1]
        /\ fencing[x] + 1 <= MaxToken
    BY <1>6 DEF AcquireLease, NextToken
  <2>2. rows \subseteq lease /\ rows \cap claim.expired = {} /\ \A l \in rows : l.due
    BY <1>6 DEF ActiveLease, MayTake, Unexpired, AcquireLease
  <2>3. fencing[x] \in 0..MaxToken /\ MaxToken \in Nat
    BY LeasesAssumption DEF LeasesTypeOK
  <2>4. fencing' \in [Resources -> 0..MaxToken] /\ (\A y \in Resources : fencing[y] <= fencing'[y])
        /\ fencing'[x] = fencing[x] + 1
    BY <2>1, <2>3 DEF LeasesTypeOK
  <2>5. n \in LeaseRecord /\ n.resource = x /\ n.token = fencing[x] + 1 /\ n.state = "ACTIVE"
    BY <2>3 DEF NewLease, LeaseRecord
  <2>6. lease' = {f[l] : l \in lease} \cup {n}
    BY <2>1, <2>2, StateWritten
  <2>7. \A l \in lease : /\ f[l] \in LeaseRecord
                         /\ f[l].resource = l.resource /\ f[l].token = l.token
                         /\ f[l].state = "ACTIVE" => l.state = "ACTIVE" /\ l \notin rows
                         /\ f[l].state = "EXPIRED" /\ l.state = "ACTIVE" => l.due
    BY <2>2, RowsRewritten
  <2>8. \A l \in lease : l.resource = x /\ l.state = "ACTIVE" => l \in rows
    BY DEF ActiveLease
  <2>9. \A l \in claim.expired : l \in lease'
    BY <2>1, <2>2 DEF WithState, ClaimsCurrent
  <2> HIDE DEF f, n, rows
  <2>10. LeasesChange(f, {n})
    BY <1>1, <2>4, <2>5, <2>6, <2>7, <2>8 DEF LeasesChange
  <2>11. ClaimsCurrent'
    BY <1>1, <1>4, <2>9 DEF ClaimsCurrent
  <2> QED
    BY <1>1, <1>3, <2>4, <2>10, <2>11 DEF Step, TablesChange, LeasesTypeOK
<1> QED
  BY <1>5, <1>6

\* Every step is of this shape and keeps what the open requests rely on.
LEMMA LeasesStep ==
    ASSUME LeasesTypeOK, ClaimsCurrent, [NextLeases]_leaseVars
    PROVE  Step /\ ClaimsCurrent'
<1>1. CASE UNCHANGED leaseVars
  BY <1>1, LeasesUntouched DEF leaseVars, Step, TablesChange, LeasesTypeOK, ClaimsCurrent
<1>2. CASE NextLeases
  BY <1>2, ResourceStep, ClaimStep, CommitStep, ReleaseStep, RunOutStep, LockStep, AcquireStep DEF NextLeases
<1> QED
  BY <1>1, <1>2

-----------------------------------------------------------------------------
(* The theorems *)

LeasesInv == LeasesTypeOK /\ ClaimsCurrent /\ OneHolder /\ TokensFresh

\* A step of that shape keeps one holder and fresh tokens, and takes no lease away.
LEMMA ShapeKeeps ==
    ASSUME LeasesTypeOK, OneHolder, TokensFresh, Step
    PROVE  /\ LeasesTypeOK' /\ OneHolder' /\ TokensFresh'
           /\ \A l \in lease : l.state = "ACTIVE" /\ ~l.due => [l EXCEPT !.state = "EXPIRED"] \notin lease'
<1>1. TablesChange
  BY DEF Step
<1>2. PICK f, new : LeasesChange(f, new)
  BY DEF Step
<1>3. /\ lease' = {f[l] : l \in lease} \cup new
      /\ \A l \in lease : /\ f[l] \in LeaseRecord
                          /\ f[l].resource = l.resource /\ f[l].token = l.token
                          /\ f[l].state = "ACTIVE" => l.state = "ACTIVE"
                          /\ f[l].state = "EXPIRED" /\ l.state = "ACTIVE" => l.due
      /\ new \subseteq LeaseRecord
      /\ \A n \in new : /\ n.state = "ACTIVE" /\ n.resource \in present'
                        /\ n.token = fencing[n.resource] + 1 /\ n.token = fencing'[n.resource]
                        /\ \A l \in lease : l.resource = n.resource => f[l].state # "ACTIVE"
      /\ \A m, n \in new : m.resource = n.resource => m = n
  BY <1>2 DEF LeasesChange
<1>4. LeasesTypeOK'
  BY <1>1, <1>3 DEF TablesChange, LeasesTypeOK
<1>5. \A l \in lease : l.resource \in Resources /\ l.token \in Nat /\ fencing[l.resource] \in Nat
                       /\ fencing'[l.resource] \in Nat /\ fencing[l.resource] <= fencing'[l.resource]
                       /\ l.token <= fencing[l.resource] /\ l.resource \in present'
  BY <1>1, LeasesAssumption DEF LeasesTypeOK, LeaseRecord, TokensFresh, TablesChange
<1>6. \A n \in new : \A l \in lease : l.resource = n.resource => l.token < n.token
  BY <1>3, <1>5
<1>7. OneHolder'
  <2> SUFFICES ASSUME NEW l \in lease', NEW k \in lease',
                      l.resource = k.resource, l.state = "ACTIVE", k # l
               PROVE  k.state # "ACTIVE" /\ k.token < l.token
    BY DEF OneHolder
  <2>1. CASE l \in new /\ k \in new
    BY <1>3, <2>1
  <2>2. ASSUME l \in new, NEW k0 \in lease, k = f[k0] PROVE k.state # "ACTIVE" /\ k.token < l.token
    BY <1>3, <1>6, <2>2
  <2>3. ASSUME NEW l0 \in lease, l = f[l0], k \in new PROVE FALSE
    BY <1>3, <2>3
  <2>4. ASSUME NEW l0 \in lease, l = f[l0], NEW k0 \in lease, k = f[k0]
        PROVE  k.state # "ACTIVE" /\ k.token < l.token
    <3>1. l0.state = "ACTIVE" /\ l0.resource = k0.resource /\ k0 # l0
      BY <1>3, <2>4
    <3>2. k0.state # "ACTIVE" /\ k0.token < l0.token
      BY <3>1 DEF OneHolder
    <3> QED
      BY <1>3, <2>4, <3>2
  <2> QED
    BY <1>3, <2>1, <2>2, <2>3, <2>4
<1>8. TokensFresh'
  <2>1. ASSUME NEW l \in lease' PROVE l.resource \in present' /\ l.token <= fencing'[l.resource]
    <3>1. CASE l \in new
      <4>1. l.resource \in Resources /\ l.token = fencing'[l.resource] /\ l.token \in Nat
        BY <1>3, <3>1 DEF LeaseRecord
      <4>2. l.resource \in present'
        BY <1>1, <1>3, <3>1 DEF TablesChange
      <4> QED
        BY <4>1, <4>2
    <3>2. ASSUME NEW l0 \in lease, l = f[l0] PROVE l.resource \in present' /\ l.token <= fencing'[l.resource]
      BY <1>3, <1>5, <3>2
    <3> QED
      BY <1>3, <3>1, <3>2
  <2>2. ASSUME NEW l \in lease', NEW k \in lease', k.resource = l.resource, k.token = l.token PROVE k = l
    <3>1. CASE l \in new /\ k \in new
      BY <1>3, <2>2, <3>1
    <3>2. ASSUME NEW l0 \in lease, l = f[l0], k \in new PROVE FALSE
      BY <1>3, <1>5, <1>6, <2>2, <3>2
    <3>3. ASSUME NEW k0 \in lease, k = f[k0], l \in new PROVE FALSE
      BY <1>3, <1>5, <1>6, <2>2, <3>3
    <3>4. ASSUME NEW l0 \in lease, l = f[l0], NEW k0 \in lease, k = f[k0] PROVE k = l
      BY <1>3, <2>2, <3>4 DEF TokensFresh
    <3> QED
      BY <1>3, <3>1, <3>2, <3>3, <3>4
  <2> QED
    BY <2>1, <2>2 DEF TokensFresh
<1>9. ASSUME NEW l \in lease, l.state = "ACTIVE", ~l.due, [l EXCEPT !.state = "EXPIRED"] \in lease' PROVE FALSE
  <2> DEFINE e == [l EXCEPT !.state = "EXPIRED"]
  <2>1. e.resource = l.resource /\ e.token = l.token /\ e.state = "EXPIRED"
    BY DEF LeasesTypeOK, LeaseRecord
  <2> HIDE DEF e
  <2>2. e \notin new
    BY <1>3, <2>1
  <2>3. PICK k \in lease : e = f[k]
    BY <1>3, <1>9, <2>2 DEF e
  <2>4. k = l
    BY <1>3, <2>1, <2>3 DEF TokensFresh
  <2> QED
    BY <1>3, <1>9, <2>1, <2>3, <2>4
<1> QED
  BY <1>4, <1>7, <1>8, <1>9

\* LeasesInv is inductive.
LEMMA LeasesInvHolds == SpecLeases => []LeasesInv
<1>1. InitLeases => LeasesInv
  <2>1. {} \in {s \in SUBSET Resources : Cardinality(s) <= 1}
    BY FS_EmptySet
  <2>2. NoClaim \in Claim
    BY DEF NoClaim, Claim
  <2> QED
    BY <2>1, <2>2, LeasesAssumption
    DEF InitLeases, LeasesInv, LeasesTypeOK, ClaimsCurrent, OneHolder, TokensFresh, NoClaim
<1>2. LeasesInv /\ [NextLeases]_leaseVars => LeasesInv'
  BY LeasesStep, ShapeKeeps DEF LeasesInv
<1> QED
  BY <1>1, <1>2, PTL DEF SpecLeases

\* Every row keeps its type; in particular no fencing token exceeds its bound and
\* a request holds one resource row at most.
THEOREM LeasesTypeCorrect == SpecLeases => []LeasesTypeOK
BY LeasesInvHolds, PTL DEF LeasesInv

\* With the dispatcher's transaction and the API's interleaving as they may, a
\* resource has one holder, whose token is the newest and was never handed out
\* before, and a lease that has not run out is not taken away.
THEOREM LeasesAreSafe == SpecLeases => LeasesHold
<1>1. LeasesInv => OneHolder /\ TokensFresh
  BY DEF LeasesInv
<1>2. LeasesInv /\ [NextLeases]_leaseVars =>
        [\A l \in lease : l.state = "ACTIVE" /\ ~l.due => [l EXCEPT !.state = "EXPIRED"] \notin lease']_leaseVars
  BY LeasesStep, ShapeKeeps DEF LeasesInv
<1> QED
  BY <1>1, <1>2, LeasesInvHolds, PTL DEF SpecLeases, LeasesHold, NoTakeover
=============================================================================
