------------------------------ MODULE Capacity ------------------------------
(***************************************************************************)
(* A runner's capacity: the number the dispatcher goes by                  *)
(* (runners.capacity, changed by api/infrastructure.go), the command that  *)
(* tells the worker (worker/control.go), the number the worker reports,    *)
(* and the slots in which it executes orders (cmd/worker/run.go).          *)
(*                                                                         *)
(* A change is a write and then a command; the command is consumed one at  *)
(* a time and delivered again when it was not acknowledged.                *)
(***************************************************************************)
EXTENDS Integers, Sequences, FiniteSets

CONSTANTS
    Sizes,      \* capacities that occur
    Enrolled,   \* the capacity in the worker's saved connection
    Updates     \* update requests, each made once

ASSUME CapacityAssumption == Sizes \subseteq Nat \ {0} /\ Enrolled \in Sizes

VARIABLES
    stored,     \* runners.capacity
    update,     \* the requests: what they write, and how far they are
    control,    \* commands in the stream that are not acknowledged
    size,       \* the worker's currentCapacity; {}: it is not running
    slots,      \* the size of orderSlots; {}: the worker is not running
    busy,       \* orders placed on the runner and not finished (active_count)
    executing,  \* those that have a slot
    disturbed   \* history: commands out of order or lost, or a restart, since the last change

capacityVars == <<stored, update, control, size, slots, busy, executing, disturbed>>

UpdateRow == [phase : {"new", "written", "done"}, to : SUBSET Sizes]
Pending == {h \in Updates : update[h].phase = "written"}

InitCapacity ==
    /\ stored = Enrolled
    /\ update = [h \in Updates |-> [phase |-> "new", to |-> {}]]
    /\ control = << >> /\ size = {Enrolled} /\ slots = {Enrolled}
    /\ busy = 0 /\ executing = 0 /\ disturbed = FALSE

-----------------------------------------------------------------------------

\* loadRunnerForUpdate, UpdateCapacity; a change with nothing under way starts afresh
UpdateCapacity(h, c) ==
    /\ update[h].phase = "new"
    /\ stored' = c
    /\ update' = [update EXCEPT ![h] = [phase |-> "written", to |-> {c}]]
    /\ disturbed' = (Pending # {} \/ control # << >> \/ size = {})
    /\ UNCHANGED <<control, size, slots, busy, executing>>

\* the request's own value
PublishRunnerCapacity(h) ==
    /\ update[h].phase = "written"
    /\ \E c \in update[h].to : control' = Append(control, c)
    /\ update' = [update EXCEPT ![h].phase = "done"]
    /\ UNCHANGED <<stored, size, slots, busy, executing, disturbed>>

\* 503: the row stays as it was written
PublishFails(h) ==
    /\ update[h].phase = "written"
    /\ update' = [update EXCEPT ![h].phase = "done"]
    /\ disturbed' = TRUE
    /\ UNCHANGED <<stored, control, size, slots, busy, executing>>

IgnoreControl == UNCHANGED size

\* capacity.Store: when the command was issued is not looked at
StoreControl == size' = {Head(control)}

\* ApplyRunnerControl on the oldest command, acknowledged
ApplyRunnerControl ==
    /\ control # << >> /\ size # {}
    /\ StoreControl
    /\ control' = Tail(control)
    /\ UNCHANGED <<stored, update, slots, busy, executing, disturbed>>

\* applied, but the acknowledgement is lost: it comes again after the others
ApplyAgainLater ==
    /\ Len(control) > 1 /\ size # {}
    /\ StoreControl
    /\ control' = Append(Tail(control), Head(control))
    /\ disturbed' = TRUE
    /\ UNCHANGED <<stored, update, slots, busy, executing>>

\* runWorkerProcess starts with the capacity of the saved connection
StopRunner ==
    /\ size # {}
    /\ size' = {} /\ slots' = {} /\ executing' = 0 /\ disturbed' = TRUE
    /\ UNCHANGED <<stored, update, control, busy>>

StartRunner ==
    /\ size = {}
    /\ size' = {Enrolled} /\ slots' = {Enrolled}
    /\ UNCHANGED <<stored, update, control, busy, executing, disturbed>>

MayPlaceAlways == TRUE

\* rr.active_count < rr.capacity
MayPlace == busy < stored

\* ClaimWaiting
PlaceOrder ==
    /\ MayPlace
    /\ busy' = busy + 1
    /\ UNCHANGED <<stored, update, control, size, slots, executing, disturbed>>

\* runOrderConsumer: a placed order waits for a slot
TakeSlot ==
    /\ \E n \in slots : executing < n
    /\ executing < busy
    /\ executing' = executing + 1
    /\ UNCHANGED <<stored, update, control, size, slots, busy, disturbed>>

FinishOrder ==
    /\ executing > 0
    /\ executing' = executing - 1 /\ busy' = busy - 1
    /\ UNCHANGED <<stored, update, control, size, slots, disturbed>>

\* the reconciler gives up an order of a worker that is gone (RunStore)
LoseOrder ==
    /\ busy > executing
    /\ busy' = busy - 1
    /\ UNCHANGED <<stored, update, control, size, slots, executing, disturbed>>

NextCapacity ==
    \/ \E h \in Updates : PublishRunnerCapacity(h) \/ PublishFails(h) \/ \E c \in Sizes : UpdateCapacity(h, c)
    \/ ApplyRunnerControl \/ ApplyAgainLater \/ StopRunner \/ StartRunner
    \/ PlaceOrder \/ TakeSlot \/ FinishOrder \/ LoseOrder

SpecCapacity == InitCapacity /\ [][NextCapacity]_capacityVars

-----------------------------------------------------------------------------
(* Properties *)

\* Every variable has its type, and no more orders are placed on the runner
\* than the largest capacity it ever had.
CapacityTypeOK ==
    /\ stored \in Sizes /\ update \in [Updates -> UpdateRow] /\ control \in Seq(Sizes)
    /\ size \subseteq Sizes /\ slots \subseteq Sizes /\ disturbed \in BOOLEAN
    /\ busy \in Nat /\ executing \in 0..busy
    /\ \E n \in Sizes : busy <= n

Quiet == Pending = {} /\ control = << >> /\ size # {} /\ ~disturbed

\* Once the last change was made alone and its command was consumed, the worker
\* reports the capacity the dispatcher goes by, in spite of the earlier changes
\* and their commands.
CapacityAgrees == Quiet => size = {stored}
=============================================================================
