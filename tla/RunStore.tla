------------------------------ MODULE RunStore ------------------------------
(***************************************************************************)
(* The run tables of the control-plane database: runs, execution_attempts, *)
(* runners.active_count, resource_leases and dispatch_outbox, with every   *)
(* transaction that writes them (backend/internal/store/runs.go, and       *)
(* Archive in runners.go, Delete in tasks.go, the REPLACE branch of        *)
(* schedules.go).  Each action is one committed transaction; a transaction *)
(* that returns an error rolls back and is a stuttering step.              *)
(*                                                                         *)
(* Callers run concurrently: the dispatcher loop (ClaimWaiting,            *)
(* ClaimCancelling, the two Reconcile passes, Publish), the start-claim    *)
(* server (ClaimStart), the event consumer (the Event actions), HTTP       *)
(* handlers (Create, RequestCancellation, Retry, Archive, SetReady) and    *)
(* the scheduler (ScheduleReplacement).                                    *)
(*                                                                         *)
(* Time: every stored timestamp is only ever compared with the current     *)
(* time, so the model keeps the time left instead; Tick lowers all of them *)
(* together and 0 means "passed".                                          *)
(***************************************************************************)
EXTENDS Integers, Sequences, FiniteSets

CONSTANTS
    Runs,          \* run ids that may be created
    Runners,       \* enrolled runners
    Resources,     \* exclusive (blocking) resources
    MaxAttempts,   \* [Runs -> Nat \ {0}]: task_versions.max_attempts
    Requires,      \* [Runs -> SUBSET Resources]: task_resource_requirements
    Policy,        \* [Runs -> AmbiguityPolicies]: task_versions.ambiguity_policy
    Capacity,      \* [Runners -> Nat \ {0}]: runners.capacity
    Replaceable,   \* runs created by a schedule whose concurrency policy is REPLACE
    StartDelay,    \* defaultStartDelay, 60s
    Deadlines,     \* the start deadlines a run may be created with
    Duration,      \* task_versions.duration_seconds
    LeaseGrace,    \* the 30s added to the duration in lease_not_after
    StaleGrace,    \* the 10 minutes added to the duration before a RUNNING attempt is stale
    CancelDelay,   \* cancellationReconciliationDelay, 30s
    RetryDelay     \* [attempt number -> delay]: retryDelaySeconds of the failed attempt

AmbiguityPolicies == {"RETRY", "REQUIRE_MANUAL_RECONCILIATION", "MARK_FAILED"}

ASSUME SetsAssumption ==
    /\ IsFiniteSet(Runs)
    /\ Replaceable \subseteq Runs
ASSUME TaskAssumption ==
    /\ MaxAttempts \in [Runs -> Nat \ {0}]
    /\ Requires \in [Runs -> SUBSET Resources]
    /\ Policy \in [Runs -> AmbiguityPolicies]
    /\ Capacity \in [Runners -> Nat \ {0}]
ASSUME TimeAssumption ==
    /\ StartDelay \in Nat \ {0}
    /\ Deadlines \subseteq Nat
    /\ Duration \in Nat \ {0}
    /\ LeaseGrace \in Nat
    /\ StaleGrace \in Nat
    /\ CancelDelay \in Nat
ASSUME DelayAssumption ==
    \A r \in Runs : \A n \in 1..MaxAttempts[r] : RetryDelay[n] \in Nat

VARIABLES
    run,          \* the runs table
    att,          \* execution_attempts of each run, in attempt_number order
    activeCount,  \* runners.active_count
    fleet,        \* what placement and event verification read of a runner
    leases,       \* resource_leases rows whose state is ACTIVE
    fence         \* resources.next_fencing_token

vars == <<run, att, activeCount, fleet, leases, fence>>

-----------------------------------------------------------------------------
(* Rows *)

RunStates == {"NONE", "WAITING", "DISPATCHED", "RUNNING", "RETRY_WAIT", "CANCELLING",
              "SUCCEEDED", "FAILED", "CANCELLED", "UNKNOWN"}
QueuedStates == {"WAITING", "RETRY_WAIT"}
\* the states no event handler's UPDATE overwrites
ClosedStates == {"SUCCEEDED", "FAILED", "CANCELLED"}
ActiveStates == {"DISPATCHED", "ACCEPTED", "RUNNING"}
SettledStates == {"SUCCEEDED", "FAILED", "CANCELLED", "UNKNOWN"}

RunRow == [state : RunStates,
           startIn : Nat,        \* start_deadline_at
           retryIn : Nat,        \* retry_not_before
           settleIn : Nat,       \* updated_at + 30s, read only while CANCELLING
           archived : BOOLEAN]   \* cancellation_reason = 'runner archived'

AttemptRow == [state : ActiveStates \cup SettledStates,
               runner : Runners,
               seq : Nat,        \* last_applied_state_sequence
               leaseIn : Nat,    \* lease_not_after, also expires_at of its leases
               staleIn : Nat,    \* dispatched_at + duration + 10 minutes
               execute : {"PENDING", "PUBLISHED", "FAILED"},  \* its order in dispatch_outbox
               cancel : {"NONE", "PENDING", "PUBLISHED"}]     \* its cancel order (NONE: cancel_requested_at IS NULL)

LeaseRow == [res : Resources, run : Runs, num : Nat \ {0}, token : Nat]

FleetRow == [ready : BOOLEAN,      \* desired_state = 'ENABLED' and a session with a fresh heartbeat
             archived : BOOLEAN]   \* is_archived, keys revoked

DecUnclamped(t) == t - 1

\* GREATEST(n - 1, 0)
Dec(t) == IF t > 0 THEN t - 1 ELSE 0
MaxOf(a, b) == IF a >= b THEN a ELSE b

\* UPDATE of one row of runs, or of execution_attempts; f is its new value
SetRun(r, f) == run' = [run EXCEPT ![r] = f]
SetAttempt(r, n, f) == att' = [att EXCEPT ![r] = [@ EXCEPT ![n] = f]]

Active(r, n) == att[r][n].state \in ActiveStates
LeaseExpired(l) == att[l.run][l.num].leaseIn = 0
\* the lease blocks placement: ACTIVE and expires_at > now()
Held(res) == \E l \in leases : l.res = res /\ ~LeaseExpired(l)

Init ==
    /\ run = [r \in Runs |-> [state |-> "NONE", startIn |-> 0, retryIn |-> 0,
                              settleIn |-> 0, archived |-> FALSE]]
    /\ att = [r \in Runs |-> << >>]
    /\ activeCount = [w \in Runners |-> 0]
    /\ fleet = [w \in Runners |-> [ready |-> FALSE, archived |-> FALSE]]
    /\ leases = {}
    /\ fence = [x \in Resources |-> 0]

-----------------------------------------------------------------------------
(* Creation and dispatch *)

\* A run is inserted WAITING with a start deadline: defaultStartDelay for a
\* manual run, the occurrence plus start_deadline_seconds for a scheduled one
\* (already passed, 0, when the scheduler catches up on an old occurrence).
Create(r, deadline) ==
    /\ run[r].state = "NONE"
    /\ SetRun(r, [run[r] EXCEPT !.state = "WAITING", !.startIn = deadline])
    /\ UNCHANGED <<att, activeCount, fleet, leases, fence>>

ClaimableOffByOne(r, w) ==
    /\ \/ run[r].state = "WAITING"
       \/ run[r].state = "RETRY_WAIT" /\ run[r].retryIn = 0 /\ Len(att[r]) <= MaxAttempts[r]
    /\ fleet[w].ready /\ ~fleet[w].archived
    /\ activeCount[w] < Capacity[w]
    /\ \A x \in Requires[r] : ~Held(x)

\* The WHERE clause of the claim: the run is due and has attempts left, the
\* runner is placeable, no required resource is under an unexpired lease.
Claimable(r, w) ==
    /\ \/ run[r].state = "WAITING"
       \/ run[r].state = "RETRY_WAIT" /\ run[r].retryIn = 0 /\ Len(att[r]) < MaxAttempts[r]
    /\ fleet[w].ready /\ ~fleet[w].archived
    /\ activeCount[w] < Capacity[w]
    /\ \A x \in Requires[r] : ~Held(x)

NewAttempt(w) == [state |-> "DISPATCHED", runner |-> w, seq |-> 0,
                  leaseIn |-> Duration + LeaseGrace, staleIn |-> Duration + StaleGrace,
                  execute |-> "PENDING", cancel |-> "NONE"]

TakeLeasesKeepExpired(r, n) ==
    /\ fence' = [x \in Resources |-> IF x \in Requires[r] THEN fence[x] + 1 ELSE fence[x]]
    /\ leases' = leases \cup {[res |-> x, run |-> r, num |-> n, token |-> fence[x] + 1] : x \in Requires[r]}

\* Expired leases of the required resources become EXPIRED, then each resource
\* takes its next fencing token and a new ACTIVE lease.
TakeLeases(r, n) ==
    /\ fence' = [x \in Resources |-> IF x \in Requires[r] THEN fence[x] + 1 ELSE fence[x]]
    /\ leases' = {l \in leases : ~(l.res \in Requires[r] /\ LeaseExpired(l))}
                 \cup {[res |-> x, run |-> r, num |-> n, token |-> fence[x] + 1] : x \in Requires[r]}

ClaimWaiting(r, w) ==
    /\ Claimable(r, w)
    /\ att' = [att EXCEPT ![r] = Append(@, NewAttempt(w))]
    /\ TakeLeases(r, Len(att[r]) + 1)
    /\ SetRun(r, [run[r] EXCEPT !.state = "DISPATCHED"])
    /\ activeCount' = [activeCount EXCEPT ![w] = @ + 1]
    /\ UNCHANGED fleet

\* publishPending: the message reached JetStream and its row is marked.  A
\* failed publish only delays the row (RetryDispatch), which is a stutter here.
PublishExecute(r, n) ==
    /\ n \in DOMAIN att[r]
    /\ att[r][n].execute = "PENDING"
    /\ SetAttempt(r, n, [att[r][n] EXCEPT !.execute = "PUBLISHED"])
    /\ UNCHANGED <<run, activeCount, fleet, leases, fence>>

PublishCancel(r, n) ==
    /\ n \in DOMAIN att[r]
    /\ att[r][n].cancel = "PENDING"
    /\ SetAttempt(r, n, [att[r][n] EXCEPT !.cancel = "PUBLISHED"])
    /\ UNCHANGED <<run, activeCount, fleet, leases, fence>>

\* The start-claim server: the runner's signature is checked against a key
\* Archive revokes, then the claim must find a startable attempt.
StartAllowed(r, n) ==
    /\ ~fleet[att[r][n].runner].archived
    /\ run[r].state = "DISPATCHED"
    /\ att[r][n].state \in {"DISPATCHED", "ACCEPTED"}
    /\ run[r].startIn > 0
    /\ att[r][n].leaseIn > 0

ClaimStart(r, n) ==
    /\ n \in DOMAIN att[r]
    /\ StartAllowed(r, n)
    /\ SetAttempt(r, n, [att[r][n] EXCEPT !.state = "RUNNING", !.seq = MaxOf(@, 1)])
    /\ SetRun(r, [run[r] EXCEPT !.state = "RUNNING"])
    /\ UNCHANGED <<activeCount, fleet, leases, fence>>

-----------------------------------------------------------------------------
(* Settling an attempt: what every path that ends one does *)

ReleaseLeasesOnly(r, n) ==
    /\ leases' = {l \in leases : ~(l.run = r /\ l.num = n)}
    /\ UNCHANGED activeCount

ReleaseSlotOnly(r, n) ==
    /\ activeCount' = [activeCount EXCEPT ![att[r][n].runner] = Dec(@)]
    /\ UNCHANGED leases

\* the runner's slot and the attempt's ACTIVE leases
ReleaseRunResources(r, n) ==
    /\ activeCount' = [activeCount EXCEPT ![att[r][n].runner] = Dec(@)]
    /\ leases' = {l \in leases : ~(l.run = r /\ l.num = n)}

\* The row of a settled attempt; nothing reads its timers again.
SettledRow(row, s, seq) ==
    [row EXCEPT !.state = s, !.seq = seq, !.leaseIn = 0, !.staleIn = 0]

\* The row of a run that leaves the in-flight states.  A run in RETRY_WAIT keeps
\* its start deadline; in the others no timer is read before Retry sets it.
LeaveFlight(row, s, delay) ==
    [row EXCEPT !.state = s, !.retryIn = delay, !.settleIn = 0, !.archived = FALSE,
                !.startIn = IF s = "RETRY_WAIT" THEN @ ELSE 0]

\* runs written by an event: closed runs keep their state
EventRun(r, s, delay) ==
    SetRun(r, IF run[r].state \in ClosedStates THEN run[r] ELSE LeaveFlight(run[r], s, delay))

SettleAttemptOnly(r, n, s, execute) ==
    /\ SetAttempt(r, n, [SettledRow(att[r][n], s, MaxOf(att[r][n].seq + 1, 3)) EXCEPT !.execute = execute])
    /\ ReleaseRunResources(r, n)
    /\ UNCHANGED <<run, fleet, fence>>

\* The two reconcile passes settle an attempt and its run in the same state.
SettleBoth(r, n, s, execute) ==
    /\ SetAttempt(r, n, [SettledRow(att[r][n], s, MaxOf(att[r][n].seq + 1, 3)) EXCEPT !.execute = execute])
    /\ SetRun(r, LeaveFlight(run[r], s, 0))
    /\ ReleaseRunResources(r, n)
    /\ UNCHANGED <<fleet, fence>>

TimedOutBeforeStart(r, n) ==
    run[r].state = "DISPATCHED" /\ att[r][n].state \in {"DISPATCHED", "ACCEPTED"} /\ run[r].startIn = 0

\* One row of the batch: the start deadline passed before the runner claimed
\* the start, or the attempt outlived duration + 10 minutes.  The outcome is
\* decided by the start deadline alone.
TimedOut(r, n) ==
    \/ run[r].state = "DISPATCHED" /\ att[r][n].state \in {"DISPATCHED", "ACCEPTED"} /\ run[r].startIn = 0
    \/ run[r].state = "RUNNING" /\ Active(r, n) /\ att[r][n].staleIn = 0

TimeoutState(r) == IF run[r].startIn = 0 THEN "FAILED" ELSE "UNKNOWN"

ReconcileTimedOutDispatches(r, n) ==
    /\ n \in DOMAIN att[r]
    /\ TimedOut(r, n)
    /\ SettleBoth(r, n, TimeoutState(r), IF att[r][n].execute = "PENDING" THEN "FAILED" ELSE att[r][n].execute)

ReconcileStaleCancellations(r, n) ==
    LET s == IF run[r].archived THEN "CANCELLED" ELSE "UNKNOWN" IN
    /\ n \in DOMAIN att[r]
    /\ run[r].state = "CANCELLING" /\ run[r].settleIn = 0
    /\ Active(r, n)
    /\ SettleBoth(r, n, s, att[r][n].execute)

-----------------------------------------------------------------------------
(* Events from runners: verified, deduplicated, applied in sequence order *)

LegalIfNewer(state, kind) == TRUE

legalAttemptTransition(state, kind) ==
    CASE kind = "accepted" -> state \in {"DISPATCHED", "RUNNING"}
      [] kind = "started"  -> state \in {"ACCEPTED", "DISPATCHED", "RUNNING"}
      [] kind = "unknown"  -> state \in ActiveStates
      [] OTHER             -> state \in {"ACCEPTED", "RUNNING"}

\* The event changes the tables: it comes from a runner whose key is not
\* revoked, it is newer than what was applied, and the transition is legal.
\* An event id already in event_inbox has a sequence that was applied, so the
\* sequence test subsumes the inbox.
Applies(r, n, kind, seq) ==
    /\ n \in DOMAIN att[r]
    /\ ~fleet[att[r][n].runner].archived
    /\ seq > att[r][n].seq
    /\ legalAttemptTransition(att[r][n].state, kind)

EventAccepted(r, n, seq) ==
    /\ Applies(r, n, "accepted", seq)
    /\ SetAttempt(r, n, [att[r][n] EXCEPT !.state = IF @ = "RUNNING" THEN @ ELSE "ACCEPTED", !.seq = seq])
    /\ UNCHANGED <<run, activeCount, fleet, leases, fence>>

EventStarted(r, n, seq) ==
    /\ Applies(r, n, "started", seq)
    /\ SetAttempt(r, n, [att[r][n] EXCEPT !.state = "RUNNING", !.seq = seq])
    /\ SetRun(r, [run[r] EXCEPT !.state = IF @ = "DISPATCHED" THEN "RUNNING" ELSE @])
    /\ UNCHANGED <<activeCount, fleet, leases, fence>>

\* completed and cancelled close the run
EventFinished(r, n, kind, seq) ==
    LET s == IF kind = "completed" THEN "SUCCEEDED" ELSE "CANCELLED" IN
    /\ kind \in {"completed", "cancelled"}
    /\ Applies(r, n, kind, seq)
    /\ SetAttempt(r, n, SettledRow(att[r][n], s, seq))
    /\ EventRun(r, s, 0)
    /\ ReleaseRunResources(r, n)
    /\ UNCHANGED <<fleet, fence>>

shouldRetry(r, n, retryable) == retryable /\ n < MaxAttempts[r]

\* failed and timed_out: retryable says that the exit code and reason match
\* the task's retry lists
EventFailed(r, n, kind, seq, retryable) ==
    /\ kind \in {"failed", "timed_out"}
    /\ Applies(r, n, kind, seq)
    /\ SetAttempt(r, n, SettledRow(att[r][n], "FAILED", seq))
    /\ IF shouldRetry(r, n, retryable)
         THEN EventRun(r, "RETRY_WAIT", RetryDelay[n])
         ELSE EventRun(r, "FAILED", 0)
    /\ ReleaseRunResources(r, n)
    /\ UNCHANGED <<fleet, fence>>

ResolveAmbiguous(policy) ==
    CASE policy = "RETRY" -> "RETRY_WAIT"
      [] policy = "MARK_FAILED" -> "FAILED"
      [] OTHER -> "UNKNOWN"

\* a restarted runner reports that it does not know how the attempt ended
EventUnknown(r, n, seq) ==
    LET s == ResolveAmbiguous(Policy[r]) IN
    /\ Applies(r, n, "unknown", seq)
    /\ SetAttempt(r, n, SettledRow(att[r][n], "UNKNOWN", seq))
    /\ EventRun(r, s, IF s = "RETRY_WAIT" THEN 1 ELSE 0)
    /\ ReleaseRunResources(r, n)
    /\ UNCHANGED <<fleet, fence>>

-----------------------------------------------------------------------------
(* Operator, scheduler and fleet *)

CancelRowInFlight(row, byArchive) ==
    [row EXCEPT !.state = "CANCELLING", !.settleIn = CancelDelay, !.archived = byArchive]

\* A queued run is cancelled at once, one in flight waits for its attempt to settle.
CancelRow(row, byArchive) ==
    IF row.state \in QueuedStates
    THEN LeaveFlight(row, "CANCELLED", 0)
    ELSE [row EXCEPT !.state = "CANCELLING", !.settleIn = CancelDelay, !.archived = byArchive]

RequestCancellationAnyState(r) ==
    /\ run[r].state # "NONE"
    /\ SetRun(r, CancelRow(run[r], FALSE))
    /\ UNCHANGED <<att, activeCount, fleet, leases, fence>>

\* RequestCancellation, and one row of the UPDATE in TaskStore.Delete
RequestCancellation(r) ==
    /\ run[r].state \in {"WAITING", "DISPATCHED", "RUNNING", "RETRY_WAIT"}
    /\ SetRun(r, CancelRow(run[r], FALSE))
    /\ UNCHANGED <<att, activeCount, fleet, leases, fence>>

ClaimCancelling(r, n) ==
    /\ n \in DOMAIN att[r]
    /\ run[r].state = "CANCELLING"
    /\ Active(r, n)
    /\ att[r][n].cancel = "NONE"
    /\ SetAttempt(r, n, [att[r][n] EXCEPT !.cancel = "PENDING"])
    /\ UNCHANGED <<run, activeCount, fleet, leases, fence>>

RetryAnyState(r) ==
    /\ run[r].state # "NONE"
    /\ Len(att[r]) < MaxAttempts[r]
    /\ SetRun(r, [run[r] EXCEPT !.state = "RETRY_WAIT", !.retryIn = 0, !.startIn = StartDelay])
    /\ UNCHANGED <<att, activeCount, fleet, leases, fence>>

Retry(r) ==
    /\ run[r].state \in {"FAILED", "UNKNOWN"}
    /\ Len(att[r]) < MaxAttempts[r]
    /\ SetRun(r, [run[r] EXCEPT !.state = "RETRY_WAIT", !.retryIn = 0, !.startIn = StartDelay])
    /\ UNCHANGED <<att, activeCount, fleet, leases, fence>>

\* One row of the REPLACE branch: a new occurrence of the schedule supersedes
\* the run.  Unlike CancelRow it sends queued runs to CANCELLING too.
ScheduleReplacement(r) ==
    /\ r \in Replaceable
    /\ run[r].state \in {"WAITING", "DISPATCHED", "RUNNING", "RETRY_WAIT"}
    /\ SetRun(r, [run[r] EXCEPT !.state = "CANCELLING", !.settleIn = CancelDelay,
                                !.retryIn = 0, !.archived = FALSE])
    /\ UNCHANGED <<att, activeCount, fleet, leases, fence>>

\* Archive reaches the runs that ever had an attempt on the runner
RanOn(r, w) == \E n \in DOMAIN att[r] : att[r][n].runner = w

Archive(w) ==
    /\ ~fleet[w].archived
    /\ fleet' = [fleet EXCEPT ![w] = [ready |-> FALSE, archived |-> TRUE]]
    /\ run' = [r \in Runs |->
                 IF RanOn(r, w) /\ run[r].state \in {"WAITING", "RUNNING", "RETRY_WAIT", "CANCELLING"}
                 THEN CancelRow(run[r], TRUE)
                 ELSE run[r]]
    /\ UNCHANGED <<att, activeCount, leases, fence>>

\* A heartbeat, a missed heartbeat or SetDesiredState changes whether the runner is placeable
SetReady(w, b) ==
    /\ ~fleet[w].archived
    /\ fleet[w].ready # b
    /\ fleet' = [fleet EXCEPT ![w].ready = b]
    /\ UNCHANGED <<run, att, activeCount, leases, fence>>

-----------------------------------------------------------------------------

Tick ==
    /\ run' = [r \in Runs |-> [run[r] EXCEPT !.startIn = Dec(@), !.retryIn = Dec(@),
                                             !.settleIn = Dec(@)]]
    /\ att' = [r \in Runs |-> [n \in DOMAIN att[r] |->
                 [att[r][n] EXCEPT !.leaseIn = Dec(@), !.staleIn = Dec(@)]]]
    /\ UNCHANGED <<activeCount, fleet, leases, fence>>

\* The sequence numbers a runner sends: 1, 2, 3 on the state channel, and one
\* past the last for the unknown event of a restart.
UnknownSeqs == 1..4

RunnerEvent(r) ==
    \E n \in DOMAIN att[r] :
        \/ EventAccepted(r, n, 1)
        \/ EventStarted(r, n, 2)
        \/ \E kind \in {"completed", "cancelled"} : EventFinished(r, n, kind, 3)
        \/ \E kind \in {"failed", "timed_out"}, retryable \in BOOLEAN :
               EventFailed(r, n, kind, 3, retryable)
        \/ \E seq \in UnknownSeqs : EventUnknown(r, n, seq)

Dispatcher(r) ==
    \/ \E w \in Runners : ClaimWaiting(r, w)
    \/ \E n \in DOMAIN att[r] :
        \/ PublishExecute(r, n)
        \/ PublishCancel(r, n)
        \/ ClaimCancelling(r, n)
        \/ ReconcileTimedOutDispatches(r, n)
        \/ ReconcileStaleCancellations(r, n)

Operator(r) ==
    \/ \E deadline \in Deadlines : Create(r, deadline)
    \/ RequestCancellation(r)
    \/ Retry(r)
    \/ ScheduleReplacement(r)

Fleet(w) ==
    \/ Archive(w)
    \/ \E b \in BOOLEAN : SetReady(w, b)

Next ==
    \/ Tick
    \/ \E r \in Runs : Operator(r) \/ Dispatcher(r) \/ RunnerEvent(r)
                       \/ \E n \in DOMAIN att[r] : ClaimStart(r, n)
    \/ \E w \in Runners : Fleet(w)

Spec == Init /\ [][Next]_vars

\* Scheduling the code justifies: the dispatcher loop keeps ticking, so time
\* passes and each reconcile pass reaches a row that stays due.  Nothing is
\* assumed of runners or operators.
Fairness ==
    /\ WF_vars(Tick)
    /\ \A r \in Runs :
         /\ WF_vars(\E n \in DOMAIN att[r] : ReconcileTimedOutDispatches(r, n))
         /\ WF_vars(\E n \in DOMAIN att[r] : ReconcileStaleCancellations(r, n))

FairSpec == Spec /\ Fairness

-----------------------------------------------------------------------------
(* Properties *)

\* Every row has its type.
TypeOK ==
    /\ run \in [Runs -> RunRow]
    /\ att \in [Runs -> Seq(AttemptRow)]
    /\ activeCount \in [Runners -> Nat]
    /\ fleet \in [Runners -> FleetRow]
    /\ leases \subseteq LeaseRow
    /\ fence \in [Resources -> Nat]

\* Only the newest attempt of a run can be active, and only while the run is
\* DISPATCHED, RUNNING or CANCELLING: a retry, a late event or a reconcile
\* pass never leaves two attempts alive, nor one alive behind a run that is
\* queued or settled.
SingleActiveAttempt ==
    \A r \in Runs : \A n \in DOMAIN att[r] :
        Active(r, n) => /\ n = Len(att[r])
                        /\ run[r].state \in {"DISPATCHED", "RUNNING", "CANCELLING"}

InFlight(r) == run[r].state \in {"DISPATCHED", "RUNNING", "CANCELLING"}
NewestActive(r) == att[r] # << >> /\ Active(r, Len(att[r]))

\* A run shown in flight has an attempt that can still end it, and a
\* DISPATCHED run one that has not started.  The exception is a CANCELLING run
\* that a REPLACE schedule took out of the queue.
RunHasAttempt ==
    \A r \in Runs :
        /\ InFlight(r) => NewestActive(r) \/ (run[r].state = "CANCELLING" /\ r \in Replaceable)
        /\ run[r].state = "DISPATCHED" => att[r][Len(att[r])].state # "RUNNING"

\* A CANCELLING run waits for a worker: it has an attempt to stop.
CancellingHasWorker ==
    \A r \in Runs : run[r].state = "CANCELLING" => NewestActive(r)

ActiveOn(w) == {r \in Runs : \E n \in DOMAIN att[r] : Active(r, n) /\ att[r][n].runner = w}

\* runners.active_count equals the number of active attempts of the runner
\* and stays within its capacity: every path that ends an attempt releases
\* its slot exactly once, whichever of them wins the race.
SlotsAccounted ==
    \A w \in Runners :
        /\ activeCount[w] = Cardinality(ActiveOn(w))
        /\ activeCount[w] <= Capacity[w]

\* The ACTIVE leases of a resource: at most one (the unique index never
\* rejects the dispatcher's INSERT), held by an active attempt of a run that
\* requires it, and carrying the newest fencing token.
LeasesExclusive ==
    \A l \in leases :
        /\ l.num \in DOMAIN att[l.run] /\ Active(l.run, l.num)
        /\ l.res \in Requires[l.run]
        /\ l.token = fence[l.res]
        /\ \A k \in leases : k.res = l.res => k = l

\* No run is attempted more often than its task version allows, although the
\* claim of a WAITING run does not test the limit.  A run waiting for a retry
\* has an attempt left, so the wait can end; the ambiguity policy RETRY is the
\* exception, it does not look at the limit.
AttemptsBounded ==
    \A r \in Runs :
        /\ Len(att[r]) <= MaxAttempts[r]
        /\ run[r].state \in {"NONE", "WAITING"} => att[r] = << >>
        /\ run[r].state = "RETRY_WAIT" /\ Policy[r] # "RETRY" => Len(att[r]) < MaxAttempts[r]

AttemptHistory ==
    \A r \in Runs :
        /\ Len(att'[r]) >= Len(att[r])
        /\ \A n \in DOMAIN att[r] :
             /\ att'[r][n].runner = att[r][n].runner
             /\ att'[r][n].seq >= att[r][n].seq
             /\ ~Active(r, n) => /\ att'[r][n].state = att[r][n].state
                                 /\ att'[r][n].seq = att[r][n].seq
             /\ att[r][n].execute = "FAILED" => att'[r][n].execute = "FAILED"

\* A settled attempt never changes again: late, duplicated or reordered events
\* do not rewrite history.  An order whose attempt was declared a start
\* failure is never published afterwards.
HistoryFrozen == [][AttemptHistory]_vars

ReopenedByRetry ==
    \A r \in Runs :
        /\ run[r].state \in {"SUCCEEDED", "CANCELLED"} => run'[r].state = run[r].state
        /\ run[r].state \in {"FAILED", "UNKNOWN"} /\ run'[r].state # run[r].state =>
             run'[r].state = "RETRY_WAIT" /\ Len(att[r]) < MaxAttempts[r]

\* A SUCCEEDED or CANCELLED run is final; a FAILED or UNKNOWN run is reopened
\* only into RETRY_WAIT with an attempt left, as the retry action requires.
ClosedRunsStay == [][ReopenedByRetry]_vars

\* Whatever runners do, a run does not stay DISPATCHED, RUNNING or CANCELLING
\* for ever: the reconcile passes settle an attempt nobody reports on.
RunsSettle == \A r \in Runs : InFlight(r) ~> ~InFlight(r)
=============================================================================
