------------------------------ MODULE Schedule ------------------------------
(***************************************************************************)
(* Recurring schedules: the schedules and schedule_versions tables, the    *)
(* runs they create (backend/internal/store/schedules.go) and the poller   *)
(* that creates them (controlplane/schedule_runner.go).                    *)
(*                                                                         *)
(* The poller reads the clock once and then runs up to PollLimit           *)
(* transactions against that reading; between two of them the runs already *)
(* created move on (RunMoves) and operators edit the schedule.  An edit    *)
(* computes its next fire in the HTTP handler and stores it later, in a    *)
(* transaction of its own.                                                 *)
(*                                                                         *)
(* Time is counted in occurrences of the cron expression: occurrence k is  *)
(* due once now >= k, and the one after it is k + 1.                       *)
(***************************************************************************)
EXTENDS Integers, Sequences, FiniteSets

CONSTANTS
    Schedules,     \* schedule ids that may be created
    Definitions,   \* what an operator may create: policies and limits
    Edits,         \* what an operator may save over it
    MissedLimit,   \* length at which the missed list stops growing, 1000
    PollLimit,     \* transactions per poll, 100
    MaxTime,       \* bound: the last occurrence that falls due
    MaxVersion     \* bound: saved versions of a schedule

MisfirePolicies == {"SKIP_ALL", "RUN_LATEST", "RUN_ALL", "RUN_UP_TO_N", "FAIL_AND_ALERT"}
ConcurrencyPolicies == {"ALLOW", "QUEUE", "SKIP", "REPLACE"}
Definition == [misfire : MisfirePolicies,
               limit : Nat,                \* catchup_limit, 0 is unlimited
               overlap : ConcurrencyPolicies,
               max : Nat]                  \* max_concurrent_runs, read under ALLOW

ASSUME DefinitionsAssumption ==
    /\ Definitions # {} /\ Definitions \subseteq Definition
    /\ Edits \subseteq Definition
ASSUME BoundsAssumption ==
    /\ MissedLimit \in Nat /\ MissedLimit > 1
    /\ PollLimit \in Nat \ {0}
    /\ MaxTime \in Nat \ {0}
    /\ MaxVersion \in Nat \ {0}

VARIABLES
    now,       \* the clock
    sched,     \* the schedules table joined with the current version
    runs,      \* runs created by each schedule, in creation order
    edit,      \* next_fire_at an HTTP handler computed and has not saved, 0: none
    poll,      \* the poll under way: its clock reading (0: idle) and transactions left
    panicked   \* the poller's goroutine panicked, which ends the process

vars == <<now, sched, runs, edit, poll, panicked>>

-----------------------------------------------------------------------------
(* Rows *)

\* CLOSED stands for SUCCEEDED, FAILED, CANCELLED and UNKNOWN
RunStates == {"WAITING", "DISPATCHED", "RUNNING", "RETRY_WAIT", "CANCELLING", "CLOSED"}

ScheduleRow == [version : Nat,        \* current_version_id; 0: no such schedule
                enabled : BOOLEAN,
                def : Definition,
                next : Nat,           \* next_fire_at
                base : Nat]           \* next_fire_at as this version was saved
RunRow == [occ : Nat \ {0}, version : Nat \ {0}, state : RunStates]
PollRow == [at : Nat, left : Nat]

PollAt(t, n) == [at |-> t, left |-> n]
Idle == PollAt(0, 0)

NextFire(k) == k + 1

ActiveRunsStarted(s) ==
    {i \in DOMAIN runs[s] : /\ runs[s][i].version = sched[s].version
                            /\ runs[s][i].state \in {"RUNNING", "RETRY_WAIT", "CANCELLING"}}

\* The active runs the query counts: current version only, and not DISPATCHED.
ActiveRuns(s) ==
    {i \in DOMAIN runs[s] : /\ runs[s][i].version = sched[s].version
                            /\ runs[s][i].state \in {"WAITING", "RUNNING", "RETRY_WAIT", "CANCELLING"}}

Init ==
    /\ now = 1
    /\ sched \in [Schedules -> {[version |-> 0, enabled |-> FALSE, def |-> d, next |-> 0, base |-> 0] :
                                  d \in {CHOOSE d \in Definitions : TRUE}}]
    /\ runs = [s \in Schedules |-> << >>]
    /\ edit = [s \in Schedules |-> 0]
    /\ poll = Idle
    /\ panicked = FALSE

-----------------------------------------------------------------------------
(* Operators *)

Exists(s) == sched[s].version > 0

Saved(version, d, next) ==
    [version |-> version, enabled |-> TRUE, def |-> d, next |-> next, base |-> next]

Create(s, d) ==
    /\ ~Exists(s)
    /\ sched' = [sched EXCEPT ![s] = Saved(1, d, NextFire(now))]
    /\ UNCHANGED <<now, runs, edit, poll, panicked>>

\* scheduleUpdatePath, first half: the handler reads the clock
UpdateBegin(s) ==
    /\ Exists(s) /\ sched[s].version < MaxVersion
    /\ edit[s] = 0
    /\ edit' = [edit EXCEPT ![s] = NextFire(now)]
    /\ UNCHANGED <<now, sched, runs, poll, panicked>>

\* second half: the transaction saves a new version, enabled again
Update(s, d) ==
    /\ Exists(s)
    /\ edit[s] > 0
    /\ sched' = [sched EXCEPT ![s] = Saved(sched[s].version + 1, d, edit[s])]
    /\ edit' = [edit EXCEPT ![s] = 0]
    /\ UNCHANGED <<now, runs, poll, panicked>>

\* enable, disable and task deletion leave next_fire_at alone
SetEnabled(s, b) ==
    /\ Exists(s) /\ sched[s].enabled # b
    /\ sched' = [sched EXCEPT ![s].enabled = b]
    /\ UNCHANGED <<now, runs, edit, poll, panicked>>

\* runs reference their schedule version, so only an unused schedule can go
Delete(s) ==
    /\ Exists(s) /\ runs[s] = << >>
    /\ sched' = [sched EXCEPT ![s].version = 0, ![s].enabled = FALSE, ![s].next = 0, ![s].base = 0]
    /\ edit' = [edit EXCEPT ![s] = 0]
    /\ UNCHANGED <<now, runs, poll, panicked>>

-----------------------------------------------------------------------------
(* The poller *)

\* The query's exclusion: the schedule waits until its runs leave the active states.
Blocked(s) ==
    \/ /\ sched[s].def.overlap = "ALLOW" /\ sched[s].def.max > 0
       /\ Cardinality(ActiveRuns(s)) >= sched[s].def.max
    \/ sched[s].def.overlap = "QUEUE" /\ ActiveRuns(s) # {}

Due(s, t) == sched[s].enabled /\ sched[s].next <= t
Eligible(s) == Due(s, poll.at) /\ ~Blocked(s)
\* ORDER BY next_fire_at
First(s) == Eligible(s) /\ \A z \in Schedules : Eligible(z) => sched[s].next <= sched[z].next

\* The list of missed occurrences: the loop's inner "current" shadows the outer
\* one, so the second occurrence is appended until the list is full.
Missed(o) == [i \in 1..MissedLimit |-> IF i = 1 THEN o ELSE NextFire(o)]
\* first of the limit newest entries of the list
CatchupIndex(d) == MissedLimit - d.limit + 1
Truncates(d) == d.misfire = "RUN_UP_TO_N" /\ d.limit > 0 /\ MissedLimit > d.limit

ChooseSkipsCurrent(d, o, t) ==
    LET m == Missed(o) IN
    IF NextFire(o) > t + 1 THEN <<o, NextFire(o)>>
    ELSE
    CASE d.misfire \in {"SKIP_ALL", "FAIL_AND_ALERT"} -> <<0, NextFire(o)>>
      [] d.misfire = "RUN_LATEST" -> <<m[MissedLimit], NextFire(o)>>
      [] Truncates(d) -> <<m[CatchupIndex(d)], m[CatchupIndex(d) + 1]>>
      [] OTHER -> <<o, NextFire(o)>>

ChooseLastOfAll(d, o, t) ==
    IF NextFire(o) > t THEN <<o, NextFire(o)>>
    ELSE
    CASE d.misfire \in {"SKIP_ALL", "FAIL_AND_ALERT"} -> <<0, NextFire(o)>>
      [] OTHER -> <<t, NextFire(t)>>

\* The occurrence to run (0: none) and the next fire, for a schedule due at o
\* when the clock read t.
chooseDueOccurrence(d, o, t) ==
    LET m == Missed(o) IN
    IF NextFire(o) > t THEN <<o, NextFire(o)>>
    ELSE
    CASE d.misfire \in {"SKIP_ALL", "FAIL_AND_ALERT"} -> <<0, NextFire(o)>>
      [] d.misfire = "RUN_LATEST" -> <<m[MissedLimit], NextFire(o)>>
      [] Truncates(d) -> <<m[CatchupIndex(d)], m[CatchupIndex(d) + 1]>>
      [] OTHER -> <<o, NextFire(o)>>

\* The index past the newest entry is out of range when the limit is 1.
IndexOutOfRange(d, o, t) ==
    NextFire(o) <= t /\ Truncates(d) /\ CatchupIndex(d) + 1 \notin DOMAIN Missed(o)

\* REPLACE: the runs of the current version that are superseded
Superseded(s) ==
    IF sched[s].def.overlap = "REPLACE" /\ ActiveRuns(s) # {}
    THEN {i \in DOMAIN runs[s] : /\ runs[s][i].version = sched[s].version
                                 /\ runs[s][i].state \in {"WAITING", "DISPATCHED", "RUNNING", "RETRY_WAIT"}}
    ELSE {}

AfterReplace(s) ==
    [i \in DOMAIN runs[s] |->
        IF i \in Superseded(s) THEN [runs[s][i] EXCEPT !.state = "CANCELLING"] ELSE runs[s][i]]

InsertAlways(s, occ) ==
    IF occ = 0 THEN AfterReplace(s)
    ELSE Append(AfterReplace(s), [occ |-> occ, version |-> sched[s].version, state |-> "WAITING"])

\* INSERT ... ON CONFLICT (idempotency_key) DO NOTHING; the key is the schedule
\* and the occurrence, whatever the version.
Insert(s, occ) ==
    IF occ = 0 \/ \E i \in DOMAIN runs[s] : runs[s][i].occ = occ
    THEN AfterReplace(s)
    ELSE Append(AfterReplace(s), [occ |-> occ, version |-> sched[s].version, state |-> "WAITING"])

PollStart ==
    /\ ~panicked
    /\ poll.at = 0
    /\ poll' = PollAt(now, PollLimit)
    /\ UNCHANGED <<now, sched, runs, edit, panicked>>

SkipTriggerStays(s) ==
    /\ sched[s].def.overlap = "SKIP" /\ ActiveRuns(s) # {}
    /\ poll' = [poll EXCEPT !.left = @ - 1]
    /\ UNCHANGED <<sched, runs>>

\* SKIP: the trigger is consumed without a run
SkipTrigger(s) ==
    /\ sched[s].def.overlap = "SKIP" /\ ActiveRuns(s) # {}
    /\ sched' = [sched EXCEPT ![s].next = NextFire(@)]
    /\ poll' = [poll EXCEPT !.left = @ - 1]
    /\ UNCHANGED runs

FireTrigger(s) ==
    LET chosen == chooseDueOccurrence(sched[s].def, sched[s].next, poll.at) IN
    /\ ~(sched[s].def.overlap = "SKIP" /\ ActiveRuns(s) # {})
    /\ ~IndexOutOfRange(sched[s].def, sched[s].next, poll.at)
    /\ runs' = [runs EXCEPT ![s] = Insert(s, chosen[1])]
    /\ sched' = [sched EXCEPT ![s].next = chosen[2]]
    /\ poll' = [poll EXCEPT !.left = @ - 1]

CreateDueRunNoBudget(s) ==
    /\ First(s)
    /\ SkipTrigger(s) \/ FireTrigger(s)
    /\ UNCHANGED <<now, edit, panicked>>

CreateDueRun(s) ==
    /\ poll.left > 0
    /\ First(s)
    /\ SkipTrigger(s) \/ FireTrigger(s)
    /\ UNCHANGED <<now, edit, panicked>>

CreateDueRunPanics(s) ==
    /\ poll.left > 0
    /\ First(s)
    /\ ~(sched[s].def.overlap = "SKIP" /\ ActiveRuns(s) # {})
    /\ IndexOutOfRange(sched[s].def, sched[s].next, poll.at)
    /\ panicked' = TRUE
    /\ poll' = Idle
    /\ UNCHANGED <<now, sched, runs, edit>>

\* no schedule is due, or the budget is used
PollEnd ==
    /\ poll.at > 0
    /\ poll.left = 0 \/ \A s \in Schedules : ~Eligible(s)
    /\ poll' = Idle
    /\ UNCHANGED <<now, sched, runs, edit, panicked>>

\* storage pressure or a database error ends the poll; the loop is restarted
PollFails ==
    /\ poll.at > 0
    /\ poll' = Idle
    /\ UNCHANGED <<now, sched, runs, edit, panicked>>

-----------------------------------------------------------------------------
(* The runs and the clock *)

\* What the dispatcher, runners and operators do to a run (module RunStore).
RunMoves ==
    {<<"WAITING", "DISPATCHED">>, <<"WAITING", "CLOSED">>,
     <<"DISPATCHED", "RUNNING">>, <<"DISPATCHED", "CANCELLING">>,
     <<"DISPATCHED", "RETRY_WAIT">>, <<"DISPATCHED", "CLOSED">>,
     <<"RUNNING", "CANCELLING">>, <<"RUNNING", "RETRY_WAIT">>, <<"RUNNING", "CLOSED">>,
     <<"RETRY_WAIT", "DISPATCHED">>, <<"RETRY_WAIT", "CLOSED">>,
     <<"CANCELLING", "RETRY_WAIT">>, <<"CANCELLING", "CLOSED">>,
     <<"CLOSED", "RETRY_WAIT">>}

RunMove(s, i) ==
    \E state \in RunStates :
        /\ <<runs[s][i].state, state>> \in RunMoves
        /\ runs' = [runs EXCEPT ![s][i].state = state]
        /\ UNCHANGED <<now, sched, edit, poll, panicked>>

Tick ==
    /\ now < MaxTime
    /\ now' = now + 1
    /\ UNCHANGED <<sched, runs, edit, poll, panicked>>

Operator(s) ==
    \/ \E d \in Definitions : Create(s, d)
    \/ UpdateBegin(s)
    \/ \E d \in Edits : Update(s, d)
    \/ \E b \in BOOLEAN : SetEnabled(s, b)
    \/ Delete(s)

Poller ==
    \/ PollStart
    \/ \E s \in Schedules : CreateDueRun(s) \/ CreateDueRunPanics(s)
    \/ PollEnd
    \/ PollFails

Next ==
    \/ Tick
    \/ Poller
    \/ \E s \in Schedules : Operator(s) \/ \E i \in DOMAIN runs[s] : RunMove(s, i)

Spec == Init /\ [][Next]_vars

\* The ticker keeps starting polls, a poll goes on to its next transaction, and
\* not every poll fails: a transaction possible again and again is carried out.
Fairness ==
    /\ WF_vars(PollStart)
    /\ WF_vars(PollEnd)
    /\ SF_vars(\E s \in Schedules : CreateDueRun(s))

FairSpec == Spec /\ Fairness

-----------------------------------------------------------------------------
(* Properties *)

\* Every row has its type.
TypeOK ==
    /\ now \in Nat
    /\ sched \in [Schedules -> ScheduleRow]
    /\ runs \in [Schedules -> Seq(RunRow)]
    /\ edit \in [Schedules -> Nat]
    /\ poll \in PollRow
    /\ panicked \in BOOLEAN

\* No occurrence of a schedule runs twice, although an edit that was prepared
\* before a poll can move next_fire_at back behind it, and RUN_LATEST leaves
\* next_fire_at on the occurrence it just ran.
OneRunPerOccurrence ==
    \A s \in Schedules : \A i, j \in DOMAIN runs[s] :
        runs[s][i].occ = runs[s][j].occ => i = j

HasRun(s, k) == \E i \in DOMAIN runs[s] : runs[s][i].occ = k
RunsAll(d) == d.misfire = "RUN_ALL" \/ (d.misfire = "RUN_UP_TO_N" /\ ~Truncates(d))

\* "RUN_ALL: run every missed occurrence": since the version was saved no
\* occurrence is passed over, however the poller is interrupted and whatever
\* the schedule waits for, unless SKIP drops it.
NoneLost ==
    \A s \in Schedules :
        RunsAll(sched[s].def) /\ sched[s].def.overlap # "SKIP" =>
            \A k \in sched[s].base .. sched[s].next - 1 : HasRun(s, k)

WaitingRuns(s) ==
    {i \in DOMAIN runs[s] : runs[s][i].version = sched[s].version /\ runs[s][i].state = "WAITING"}

\* A backlog never floods the queue: a poll that catches up on many occurrences
\* leaves at most one unclaimed run of the version, or the ALLOW maximum.
WaitingBounded ==
    \A s \in Schedules :
        LET d == sched[s].def IN
        ~(d.overlap = "ALLOW" /\ d.max = 0) =>
            Cardinality(WaitingRuns(s)) <= (IF d.overlap = "ALLOW" THEN d.max ELSE 1)

\* A due schedule catches up or is blocked by its own running work, never by
\* other schedules, failing polls or the poll's budget.
CatchesUp ==
    \A s \in Schedules : Due(s, now) ~> (~Due(s, now) \/ Blocked(s))

-----------------------------------------------------------------------------
(* What the schedule editor says of the policies *)

Created(s) == {i \in DOMAIN runs'[s] : i \notin DOMAIN runs[s]}
\* the last occurrence that is due at the poll's clock reading
Latest(k) == NextFire(k) > poll.at

\* "SKIP_ALL: discard missed occurrences": once a later occurrence is due at the
\* poll's clock reading, no run is created for an older one (nor under
\* FAIL_AND_ALERT).  RUN_LATEST, which is to "run only the latest missed
\* occurrence", never runs the oldest of several; it runs the latest of two, but
\* of three or more the second, as the list has no later one (Missed), so its
\* clause asks for no more than an occurrence after the trigger's own.  No
\* policy runs an occurrence ahead of the clock.
MissedDiscarded ==
    [][\A s \in Schedules : \A i \in Created(s) :
         /\ runs'[s][i].occ <= now
         /\ sched[s].def.misfire \in {"SKIP_ALL", "FAIL_AND_ALERT"} => Latest(runs'[s][i].occ)
         /\ sched[s].def.misfire = "RUN_LATEST" =>
              Latest(runs'[s][i].occ) \/ runs'[s][i].occ > sched[s].next]_vars

ActiveOverlap(s) ==
    {i \in DOMAIN runs[s] : runs[s][i].version = sched[s].version /\ runs[s][i].state # "CLOSED"}

\* "SKIP: ignore a trigger while a run is active."
SkipWhileActive ==
    [][\A s \in Schedules :
         sched[s].def.overlap = "SKIP" /\ ActiveOverlap(s) # {} => Created(s) = {}]_vars

\* "Values: 0 or a positive whole number": no catch-up limit stops the scheduler.
SchedulerSurvives == ~panicked
=============================================================================
