-------------------------- MODULE ExecutionProofs --------------------------
(***************************************************************************)
(* RunStore implements Execution, for any runs, runners, limits and delays.*)
(* What a step does to the attempts is StepKinds of RunStoreProofs; what it*)
(* does to the states of the runs is RunMoves; the two together give the   *)
(* step of Execution.                                                      *)
(***************************************************************************)
EXTENDS RunStoreRefinement, RunStoreProofs

-----------------------------------------------------------------------------
(* What Execution sees of one run *)

\* The phase of a run without an active attempt.
Rest(st) == IF st = "NONE" THEN "new"
            ELSE IF st \in QueuedStates THEN "queued"
            ELSE IF st \in {"FAILED", "UNKNOWN"} THEN "failed" ELSE "final"

\* A run executes while its newest attempt is active, and rests otherwise.
LEMMA PhaseCases ==
    ASSUME NEW r \in Runs
    PROVE  /\ NewestActive(r) => PhaseOf(r) = "executing"
           /\ ~NewestActive(r) => PhaseOf(r) = Rest(run[r].state) /\ PlaceOf(r) = {}
BY DEF PhaseOf, PlaceOf, Rest

\* The same of the state after a step.
LEMMA PhaseCasesNext ==
    ASSUME NEW r \in Runs
    PROVE  /\ NewestActive(r)' => PhaseOf(r)' = "executing"
           /\ ~NewestActive(r)' => PhaseOf(r)' = Rest(run'[r].state) /\ PlaceOf(r)' = {}
BY DEF PhaseOf, PlaceOf, Rest

\* A coherent run has an active attempt only while it is in flight, and no
\* other than the newest.
LEMMA ActiveIsNewest ==
    ASSUME TypeOK, Coherent, NEW r \in Runs
    PROVE  /\ NewestActive(r) => run[r].state \in FlightStates
           /\ \A n \in DOMAIN att[r] : IsActive(att[r][n]) => n = Len(att[r]) /\ NewestActive(r)
           /\ run[r].state \in FlightStates \ {"CANCELLING"} => NewestActive(r)
<1>1. RunCoherent(r, run[r].state, att[r])
  BY DEF Coherent
<1>2. att[r] \in Seq(AttemptRow) /\ Len(att[r]) \in Nat /\ DOMAIN att[r] = 1..Len(att[r])
  BY LenProperties DEF TypeOK
<1>3. att[r] # << >> => Len(att[r]) \in DOMAIN att[r]
  BY <1>2, EmptySeq
<1>4. \A n \in DOMAIN att[r] : att[r] # << >>
  BY <1>2, EmptySeq
<1> QED
  BY <1>1, <1>2, <1>3, <1>4 DEF RunCoherent, NewestActive, Active, IsActive

\* Attempts that keep their runners and activity leave what Execution sees of
\* them as it is.
LEMMA AttemptsSteady ==
    ASSUME TypeOK, TypeOK', NEW r \in Runs, DOMAIN att'[r] = DOMAIN att[r],
           \A n \in DOMAIN att[r] : /\ RowStep(att[r][n], att'[r][n])
                                    /\ IsActive(att'[r][n]) <=> IsActive(att[r][n])
    PROVE  /\ Len(att'[r]) = Len(att[r])
           /\ NewestActive(r)' <=> NewestActive(r)
           /\ PlaceOf(r)' = PlaceOf(r)
<1>1. /\ att[r] \in Seq(AttemptRow) /\ Len(att[r]) \in Nat /\ DOMAIN att[r] = 1..Len(att[r])
      /\ att'[r] \in Seq(AttemptRow) /\ Len(att'[r]) \in Nat /\ DOMAIN att'[r] = 1..Len(att'[r])
  BY LenProperties DEF TypeOK
<1>2. Len(att'[r]) = Len(att[r])
  BY <1>1
<1>3. att'[r] = << >> <=> att[r] = << >>
  BY <1>1, <1>2, EmptySeq
<1>4. att[r] # << >> => Len(att[r]) \in DOMAIN att[r]
  BY <1>1, EmptySeq
<1>5. NewestActive(r)' <=> NewestActive(r)
  BY <1>2, <1>3, <1>4 DEF NewestActive, Active, IsActive
<1>6. NewestActive(r) => att'[r][Len(att'[r])].runner = att[r][Len(att[r])].runner
  BY <1>2, <1>4 DEF NewestActive, RowStep
<1> QED
  BY <1>2, <1>5, <1>6 DEF PlaceOf

-----------------------------------------------------------------------------
(* What a step does to the states of the runs *)

SameState(r) == run'[r].state = run[r].state
Submitted(r) == run[r].state = "NONE" /\ run'[r].state = "WAITING"
Resumed(r) == /\ run[r].state \in {"FAILED", "UNKNOWN"} /\ run'[r].state = "RETRY_WAIT"
              /\ Len(att[r]) < MaxAttempts[r]
Withdrawn(r) == run[r].state \in QueuedStates /\ run'[r].state \in {"CANCELLED", "CANCELLING"}
Moved(r) == NewestActive(r) /\ run'[r].state # "NONE"

Dispatches == \E r \in Runs, w \in Runners : ClaimWaiting(r, w)
Opens == /\ att' = att
         /\ \E r \in Runs : (Submitted(r) \/ Resumed(r)) /\ \A q \in Runs \ {r} : SameState(q)
Withdraws == att' = att /\ \A r \in Runs : SameState(r) \/ Withdrawn(r) \/ Moved(r)
Carries == \A r \in Runs : SameState(r) \/ Moved(r)

\* A run moves by its attempt, or is created, resumed or withdrawn while the
\* attempts stay as they are.
LEMMA RunMoves ==
    ASSUME TypeOK, Coherent, [Next]_vars
    PROVE  Dispatches \/ Opens \/ Withdraws \/ Carries
<1> DEFINE Goal == Dispatches \/ Opens \/ Withdraws \/ Carries
<1>T. run \in [Runs -> RunRow] /\ \A r \in Runs : run[r] \in RunRow
  BY DEF TypeOK
<1>U. ASSUME run' = run
      PROVE  Goal
  BY <1>U DEF Carries, SameState
<1>M. ASSUME NEW r \in Runs, NEW f \in RunRow, SetRun(r, f), NewestActive(r), f.state # "NONE"
      PROVE  Goal
  BY <1>M, <1>T, SetRunType DEF Carries, SameState, Moved
<1>E. ASSUME NEW r \in Runs, NEW n \in DOMAIN att[r], IsActive(att[r][n]),
             NEW s \in RunStates \ {"NONE"}, NEW d \in Nat, EventRun(r, s, d)
      PROVE  Goal
  <2>1. NewestActive(r) /\ run[r].state # "NONE"
    BY <1>E, ActiveIsNewest DEF FlightStates
  <2>2. LeaveFlight(run[r], s, d) \in RunRow
    BY <1>T, RowTypes
  <2>3. LeaveFlight(run[r], s, d).state = s
    BY <1>T DEF LeaveFlight, RunRow
  <2> QED
    BY <1>E, <1>M, <1>T, <2>1, <2>2, <2>3 DEF EventRun
<1>A. ASSUME NEW r \in Runs, NEW n \in DOMAIN att[r], NEW kind, NEW k, Applies(r, n, kind, k)
      PROVE  IsActive(att[r][n])
  BY <1>A DEF Applies, legalAttemptTransition, IsActive, ActiveStates
<1>1. ASSUME NEW r \in Runs, NEW d \in Deadlines, Create(r, d)
      PROVE  Goal
  <2> DEFINE f == [run[r] EXCEPT !.state = "WAITING", !.startIn = d]
  <2>1. f \in RunRow /\ f.state = "WAITING"
    BY <1>T, TimeAssumption DEF RunRow, RunStates
  <2>2. run'[r] = f /\ \A q \in Runs \ {r} : run'[q] = run[q]
    BY <1>1, <1>T, <2>1, SetRunType DEF Create
  <2> QED
    BY <1>1, <2>1, <2>2 DEF Create, Opens, Submitted, SameState
<1>2. ASSUME NEW r \in Runs, Retry(r)
      PROVE  Goal
  <2> DEFINE f == [run[r] EXCEPT !.state = "RETRY_WAIT", !.retryIn = 0, !.startIn = StartDelay]
  <2>1. f \in RunRow /\ f.state = "RETRY_WAIT"
    BY <1>T, TimeAssumption DEF RunRow, RunStates
  <2>2. run'[r] = f /\ \A q \in Runs \ {r} : run'[q] = run[q]
    BY <1>2, <1>T, <2>1, SetRunType DEF Retry
  <2> QED
    BY <1>2, <2>1, <2>2 DEF Retry, Opens, Resumed, SameState
<1>C. ASSUME NEW r \in Runs, NEW b \in BOOLEAN, run[r].state \in QueuedStates \cup FlightStates,
             run'[r] = CancelRow(run[r], b)
      PROVE  SameState(r) \/ Withdrawn(r) \/ Moved(r)
  <2>1. CASE run[r].state \in QueuedStates
    <3>1. run'[r].state = "CANCELLED"
      BY <1>C, <1>T, <2>1 DEF CancelRow, LeaveFlight, RunRow
    <3> QED
      BY <2>1, <3>1 DEF Withdrawn
  <2>2. CASE run[r].state \in FlightStates
    <3>1. run'[r].state = "CANCELLING"
      BY <1>C, <1>T, <2>2 DEF CancelRow, RunRow, QueuedStates, FlightStates
    <3> QED
      BY <2>2, <3>1, ActiveIsNewest DEF SameState, Moved
  <2> QED
    BY <1>C, <2>1, <2>2
<1>3. ASSUME NEW r \in Runs, RequestCancellation(r)
      PROVE  Goal
  <2>1. run'[r] = CancelRow(run[r], FALSE) /\ \A q \in Runs \ {r} : run'[q] = run[q]
    BY <1>3, <1>T, RowTypes, SetRunType DEF RequestCancellation
  <2>2. run[r].state \in QueuedStates \cup FlightStates
    BY <1>3 DEF RequestCancellation, QueuedStates, FlightStates
  <2>3. \A q \in Runs : SameState(q) \/ Withdrawn(q) \/ Moved(q)
    BY <1>C, <2>1, <2>2 DEF SameState
  <2> QED
    BY <1>3, <2>3 DEF RequestCancellation, Withdraws
<1>4. ASSUME NEW r \in Runs, ScheduleReplacement(r)
      PROVE  Goal
  <2> DEFINE f == [run[r] EXCEPT !.state = "CANCELLING", !.settleIn = CancelDelay,
                                 !.retryIn = 0, !.archived = FALSE]
  <2>1. f \in RunRow /\ f.state = "CANCELLING"
    BY <1>T, TimeAssumption DEF RunRow, RunStates
  <2>2. run'[r] = f /\ \A q \in Runs \ {r} : run'[q] = run[q]
    BY <1>4, <1>T, <2>1, SetRunType DEF ScheduleReplacement
  <2>3. Withdrawn(r) \/ Moved(r)
    BY <1>4, <2>1, <2>2, ActiveIsNewest DEF ScheduleReplacement, Withdrawn, Moved, QueuedStates, FlightStates
  <2> QED
    BY <1>4, <2>2, <2>3 DEF ScheduleReplacement, Withdraws, SameState
<1>5. ASSUME NEW w \in Runners, Archive(w)
      PROVE  Goal
  <2>1. ASSUME NEW r \in Runs
        PROVE  SameState(r) \/ Withdrawn(r) \/ Moved(r)
    <3>1. CASE RanOn(r, w) /\ run[r].state \in {"WAITING", "RUNNING", "RETRY_WAIT", "CANCELLING"}
      <4>1. run'[r] = CancelRow(run[r], TRUE)
        BY <1>5, <3>1 DEF Archive
      <4> QED
        BY <1>C, <3>1, <4>1 DEF QueuedStates, FlightStates
    <3>2. CASE ~(RanOn(r, w) /\ run[r].state \in {"WAITING", "RUNNING", "RETRY_WAIT", "CANCELLING"})
      BY <1>5, <3>2 DEF Archive, SameState
    <3> QED
      BY <3>1, <3>2
  <2> QED
    BY <1>5, <2>1 DEF Archive, Withdraws
<1>6. ASSUME NEW r \in Runs, NEW n \in DOMAIN att[r], ClaimStart(r, n)
      PROVE  Goal
  <2>1. IsActive(att[r][n])
    BY <1>6 DEF ClaimStart, StartAllowed, IsActive, ActiveStates
  <2>2. [run[r] EXCEPT !.state = "RUNNING"] \in RunRow /\ [run[r] EXCEPT !.state = "RUNNING"].state = "RUNNING"
    BY <1>T DEF RunRow, RunStates
  <2> QED
    BY <1>6, <1>M, <2>1, <2>2, ActiveIsNewest DEF ClaimStart
<1>7. ASSUME NEW r \in Runs, NEW n \in DOMAIN att[r],
             ReconcileTimedOutDispatches(r, n) \/ ReconcileStaleCancellations(r, n)
      PROVE  Goal
  <2>1. IsActive(att[r][n])
    BY <1>7 DEF ReconcileTimedOutDispatches, ReconcileStaleCancellations, TimedOut, Active, IsActive, ActiveStates
  <2>2. PICK s \in {"FAILED", "UNKNOWN", "CANCELLED"} : SetRun(r, LeaveFlight(run[r], s, 0))
    BY <1>7 DEF ReconcileTimedOutDispatches, ReconcileStaleCancellations, TimeoutState, SettleBoth
  <2>3. s \in RunStates /\ LeaveFlight(run[r], s, 0) \in RunRow
    BY <1>T, RowTypes DEF RunStates
  <2>4. LeaveFlight(run[r], s, 0).state = s
    BY <1>T DEF LeaveFlight, RunRow
  <2> QED
    BY <1>M, <2>1, <2>2, <2>3, <2>4, ActiveIsNewest
<1>8. ASSUME NEW r \in Runs, NEW n \in DOMAIN att[r], EventStarted(r, n, 2)
      PROVE  Goal
  <2>1. NewestActive(r) /\ run[r].state \in FlightStates
    BY <1>8, <1>A, ActiveIsNewest DEF EventStarted
  <2> DEFINE f == [run[r] EXCEPT !.state = IF @ = "DISPATCHED" THEN "RUNNING" ELSE @]
  <2>2. f \in RunRow /\ f.state # "NONE"
    BY <1>T, <2>1 DEF RunRow, RunStates, FlightStates
  <2> QED
    BY <1>8, <1>M, <2>1, <2>2 DEF EventStarted
<1>9. ASSUME NEW r \in Runs, NEW n \in DOMAIN att[r], NEW kind \in {"completed", "cancelled"},
             EventFinished(r, n, kind, 3)
      PROVE  Goal
  BY <1>9, <1>A, <1>E DEF EventFinished, RunStates
<1>10. ASSUME NEW r \in Runs, NEW n \in DOMAIN att[r], NEW kind \in {"failed", "timed_out"},
              NEW retryable \in BOOLEAN, EventFailed(r, n, kind, 3, retryable)
       PROVE  Goal
  <2>1. CASE shouldRetry(r, n, retryable)
    <3>1. RetryDelay[n] \in Nat
      BY <2>1, AttemptAt, TaskAssumption, DelayAssumption DEF shouldRetry
    <3> QED
      BY <1>10, <1>A, <1>E, <2>1, <3>1 DEF EventFailed, RunStates
  <2>2. CASE ~shouldRetry(r, n, retryable)
    BY <1>10, <1>A, <1>E, <2>2 DEF EventFailed, RunStates
  <2> QED
    BY <2>1, <2>2
<1>11. ASSUME NEW r \in Runs, NEW n \in DOMAIN att[r], NEW seq \in UnknownSeqs, EventUnknown(r, n, seq)
       PROVE  Goal
  <2>1. ResolveAmbiguous(Policy[r]) \in RunStates \ {"NONE"}
    BY DEF ResolveAmbiguous, RunStates
  <2> QED
    BY <1>11, <1>A, <1>E, <2>1 DEF EventUnknown
<1>12. ASSUME Tick
       PROVE  Goal
  <2>1. \A r \in Runs : SameState(r)
    BY <1>12, <1>T DEF Tick, SameState, RunRow
  <2> QED
    BY <2>1 DEF Carries
<1>13. ASSUME NEW r \in Runs, NEW n \in DOMAIN att[r],
              PublishExecute(r, n) \/ PublishCancel(r, n) \/ ClaimCancelling(r, n) \/ EventAccepted(r, n, 1)
       PROVE  Goal
  BY <1>13, <1>U DEF PublishExecute, PublishCancel, ClaimCancelling, EventAccepted
<1>14. ASSUME NEW w \in Runners, NEW b \in BOOLEAN, SetReady(w, b)
       PROVE  Goal
  BY <1>14, <1>U DEF SetReady
<1>15. ASSUME UNCHANGED vars
       PROVE  Goal
  BY <1>15, <1>U DEF vars
<1>16. ASSUME NEW r \in Runs, NEW w \in Runners, ClaimWaiting(r, w)
       PROVE  Goal
  BY <1>16 DEF Dispatches
<1> HIDE DEF Goal
<1>17. ASSUME NEW r \in Runs, Operator(r) \/ Dispatcher(r)
       PROVE  Goal
  BY <1>1, <1>2, <1>3, <1>4, <1>7, <1>13, <1>16, <1>17 DEF Operator, Dispatcher
<1>18. ASSUME NEW r \in Runs, RunnerEvent(r) \/ \E n \in DOMAIN att[r] : ClaimStart(r, n)
       PROVE  Goal
  BY <1>6, <1>8, <1>9, <1>10, <1>11, <1>13, <1>18 DEF RunnerEvent
<1>19. ASSUME NEW w \in Runners, Fleet(w)
       PROVE  Goal
  BY <1>5, <1>14, <1>19 DEF Fleet
<1>20. Goal
  BY <1>12, <1>15, <1>17, <1>18, <1>19 DEF Next
<1> QED
  BY <1>20 DEF Goal
-----------------------------------------------------------------------------
(* The step of Execution *)

\* Execution sees no change of the run.
Steady(r) == PhaseOf(r)' = PhaseOf(r) /\ PlaceOf(r)' = PlaceOf(r) /\ Len(att'[r]) = Len(att[r])

\* A step that changes what is seen of one run updates Execution at that run.
LEMMA OneRunSeen ==
    ASSUME NEW r \in Runs, \A q \in Runs \ {r} : Steady(q)
    PROVE  /\ phaseOfRuns' = [phaseOfRuns EXCEPT ![r] = PhaseOf(r)']
           /\ placeOfRuns' = [placeOfRuns EXCEPT ![r] = PlaceOf(r)']
           /\ triesOfRuns' = [triesOfRuns EXCEPT ![r] = Len(att'[r])]
           /\ PlaceOf(r)' = PlaceOf(r) => placeOfRuns' = placeOfRuns
           /\ Len(att'[r]) = Len(att[r]) => triesOfRuns' = triesOfRuns
           /\ phaseOfRuns[r] = PhaseOf(r) /\ triesOfRuns[r] = Len(att[r])
BY DEF Steady, phaseOfRuns, placeOfRuns, triesOfRuns

\* A run whose newest attempt is as active as before is steady if its state is
\* the same or the attempt, active, decides.
LEMMA SteadyRun ==
    ASSUME NEW r \in Runs, Len(att'[r]) = Len(att[r]), PlaceOf(r)' = PlaceOf(r),
           NewestActive(r)' <=> NewestActive(r), SameState(r) \/ Moved(r)
    PROVE  Steady(r)
BY PhaseCases, PhaseCasesNext DEF Steady, SameState, Moved

\* Attempts that do not change show the same.
LEMMA SameAttempts ==
    ASSUME att' = att, NEW r \in Runs
    PROVE  /\ Len(att'[r]) = Len(att[r])
           /\ NewestActive(r)' <=> NewestActive(r)
           /\ PlaceOf(r)' = PlaceOf(r)
BY DEF NewestActive, Active, PlaceOf

\* Creating a run submits it; the operator's retry resumes it.
LEMMA OpensRefines ==
    ASSUME TypeOK, Coherent, Opens
    PROVE  Exec!Next
<1>1. PICK r \in Runs : (Submitted(r) \/ Resumed(r)) /\ \A q \in Runs \ {r} : SameState(q)
  BY DEF Opens
<1>2. \A q \in Runs \ {r} : Steady(q)
  BY <1>1, SameAttempts, SteadyRun DEF Opens
<1>3. ~NewestActive(r) /\ ~NewestActive(r)'
  BY <1>1, ActiveIsNewest, SameAttempts DEF Opens, Submitted, Resumed, FlightStates
<1>4. PhaseOf(r) = Rest(run[r].state) /\ PhaseOf(r)' = Rest(run'[r].state)
  BY <1>3, PhaseCases, PhaseCasesNext
<1>5. PlaceOf(r)' = PlaceOf(r) /\ Len(att'[r]) = Len(att[r])
  BY SameAttempts DEF Opens
<1>6. CASE Submitted(r)
  <2>1. PhaseOf(r) = "new" /\ PhaseOf(r)' = "queued"
    BY <1>4, <1>6 DEF Submitted, Rest, QueuedStates
  <2>2. Exec!Submit(r)
    BY <1>2, <1>5, <2>1, OneRunSeen DEF Exec!Submit, Exec!SetPhase
  <2> QED
    BY <2>2 DEF Exec!Next
<1>7. CASE Resumed(r)
  <2>1. PhaseOf(r) = "failed" /\ PhaseOf(r)' = "queued" /\ Len(att[r]) < MaxAttempts[r]
    BY <1>4, <1>7 DEF Resumed, Rest, QueuedStates
  <2>2. Exec!Resume(r)
    BY <1>2, <1>5, <2>1, OneRunSeen DEF Exec!Resume, Exec!SetPhase
  <2> QED
    BY <2>2 DEF Exec!Next
<1> QED
  BY <1>1, <1>6, <1>7

\* Cancelling queued runs withdraws them; one in flight keeps executing until
\* its attempt settles.
LEMMA WithdrawsRefines ==
    ASSUME Withdraws
    PROVE  Exec!Next
<1> DEFINE rs == {q \in Runs : ~Steady(q)}
<1>1. ASSUME NEW q \in Runs
      PROVE  Steady(q) \/ (PhaseOf(q) = "queued" /\ PhaseOf(q)' = "final")
  <2>1. CASE SameState(q) \/ Moved(q)
    BY <2>1, SameAttempts, SteadyRun DEF Withdraws
  <2>2. CASE NewestActive(q)
    BY <2>2, SameAttempts, PhaseCases, PhaseCasesNext DEF Withdraws, Steady
  <2>3. CASE Withdrawn(q) /\ ~NewestActive(q)
    <3>1. PhaseOf(q) = Rest(run[q].state) /\ PhaseOf(q)' = Rest(run'[q].state)
      BY <2>3, SameAttempts, PhaseCases, PhaseCasesNext DEF Withdraws
    <3> QED
      BY <2>3, <3>1 DEF Withdrawn, Rest, QueuedStates
  <2> QED
    BY <2>1, <2>2, <2>3 DEF Withdraws
<1>2. placeOfRuns' = placeOfRuns /\ triesOfRuns' = triesOfRuns
  BY SameAttempts DEF Withdraws, placeOfRuns, triesOfRuns
<1>3. \A q \in Runs : phaseOfRuns[q] = PhaseOf(q) /\ phaseOfRuns' = [p \in Runs |-> PhaseOf(p)']
  BY DEF phaseOfRuns
<1>4. \A q \in rs : phaseOfRuns[q] = "queued"
  BY <1>1, <1>3
<1>5. phaseOfRuns' = [q \in Runs |-> IF q \in rs THEN "final" ELSE phaseOfRuns[q]]
  BY <1>1, <1>3 DEF Steady, phaseOfRuns
<1>6. Exec!Withdraw(rs)
  BY <1>2, <1>4, <1>5 DEF Exec!Withdraw
<1> QED
  BY <1>6 DEF Exec!Next

\* A step that starts or ends no activity is not seen.
LEMMA QuietRefines ==
    ASSUME TypeOK, TypeOK', QuietStep, Carries
    PROVE  UNCHANGED <<phaseOfRuns, placeOfRuns, triesOfRuns>>
<1>1. ASSUME NEW q \in Runs
      PROVE  Steady(q)
  BY AttemptsSteady, SteadyRun DEF QuietStep, Carries
<1> QED
  BY <1>1 DEF Steady, phaseOfRuns, placeOfRuns, triesOfRuns

\* An attempt that settles ends the execution, whatever became of its run.
LEMMA SettleRefines ==
    ASSUME TypeOK, TypeOK', Coherent, Carries, NEW r \in Runs, NEW n \in DOMAIN att[r], SettleStep(r, n)
    PROVE  Exec!Next
<1>1. IsActive(att[r][n]) /\ n = Len(att[r]) /\ NewestActive(r) /\ run[r].state \in FlightStates
  BY ActiveIsNewest DEF SettleStep
<1>2. ASSUME NEW q \in Runs \ {r}
      PROVE  Steady(q)
  BY <1>2, AttemptsSteady, SteadyRun DEF SettleStep, Carries
<1>3. /\ att[r] \in Seq(AttemptRow) /\ Len(att[r]) \in Nat /\ DOMAIN att[r] = 1..Len(att[r])
      /\ att'[r] \in Seq(AttemptRow) /\ Len(att'[r]) \in Nat /\ DOMAIN att'[r] = 1..Len(att'[r])
  BY LenProperties DEF TypeOK
<1>4. DOMAIN att'[r] = DOMAIN att[r] /\ ~IsActive(att'[r][n])
  BY DEF SettleStep
<1>5. Len(att'[r]) = Len(att[r])
  BY <1>3, <1>4
<1>6. ~NewestActive(r)'
  BY <1>1, <1>4, <1>5 DEF NewestActive, Active, IsActive
<1>7. run'[r].state # "NONE"
  BY <1>1 DEF Carries, SameState, Moved, FlightStates
<1> DEFINE p == Rest(run'[r].state)
<1>8. PhaseOf(r) = "executing" /\ PhaseOf(r)' = p /\ PlaceOf(r)' = {}
  BY <1>1, <1>6, PhaseCases, PhaseCasesNext
<1>9. p \in {"queued", "failed", "final"}
  BY <1>7 DEF Rest
<1> HIDE DEF p
<1>10. Exec!End(r, p)
  BY <1>2, <1>5, <1>8, <1>9, OneRunSeen DEF Exec!End, Exec!SetPhase
<1>11. p \in Exec!Phases
  BY <1>9 DEF Exec!Phases
<1> QED
  BY <1>10, <1>11 DEF Exec!Next

\* A dispatch begins an execution within the attempts of the task and the
\* capacity of the runner.
LEMMA DispatchRefines ==
    ASSUME TypeOK, Coherent, SlotsAccounted, NEW r \in Runs, NEW w \in Runners, ClaimWaiting(r, w)
    PROVE  Exec!Next
<1>1. /\ att[r] \in Seq(AttemptRow) /\ Len(att[r]) \in Nat
      /\ run \in [Runs -> RunRow] /\ att \in [Runs -> Seq(AttemptRow)]
  BY LenProperties DEF TypeOK
<1>2. NewAttempt(w) \in AttemptRow /\ IsActive(NewAttempt(w)) /\ NewAttempt(w).runner = w
  BY NewAttemptType DEF IsActive, ActiveStates
<1>3. att' = [att EXCEPT ![r] = Append(att[r], NewAttempt(w))]
      /\ run' = [run EXCEPT ![r] = [run[r] EXCEPT !.state = "DISPATCHED"]]
  BY DEF ClaimWaiting, SetRun
<1>4. /\ Len(att'[r]) = Len(att[r]) + 1
      /\ att'[r][Len(att[r]) + 1] = NewAttempt(w)
      /\ att'[r] # << >>
  BY <1>1, <1>2, <1>3, AppendProperties, EmptySeq
<1>5. ASSUME NEW q \in Runs \ {r}
      PROVE  Steady(q)
  <2>1. att'[q] = att[q] /\ run'[q] = run[q]
    BY <1>1, <1>3
  <2> QED
    BY <2>1 DEF Steady, PhaseOf, PlaceOf, NewestActive, Active
<1>6. PhaseOf(r)' = "executing" /\ PlaceOf(r)' = {w}
  BY <1>2, <1>4 DEF PhaseOf, PlaceOf, NewestActive, Active, IsActive
<1>7. run[r].state \in QueuedStates /\ activeCount[w] < Capacity[w]
  BY DEF ClaimWaiting, Claimable, QueuedStates
<1>8. ~NewestActive(r)
  BY <1>7, ActiveIsNewest DEF QueuedStates, FlightStates
<1>9. PhaseOf(r) = "queued"
  BY <1>7, <1>8, PhaseCases DEF Rest, QueuedStates
<1>10. Len(att[r]) < MaxAttempts[r]
  <2>1. CASE run[r].state = "WAITING"
    <3>1. att[r] = << >>
      BY <2>1 DEF Coherent, RunCoherent
    <3> QED
      BY <3>1, EmptySeq, TaskAssumption
  <2>2. CASE run[r].state # "WAITING"
    BY <2>2 DEF ClaimWaiting, Claimable
  <2> QED
    BY <2>1, <2>2
<1>11. Exec!At(w) = ActiveOn(w)
  <2>1. ASSUME NEW q \in Runs
        PROVE  placeOfRuns[q] = {w} <=> \E m \in DOMAIN att[q] : Active(q, m) /\ att[q][m].runner = w
    <3>1. att[q] \in Seq(AttemptRow) /\ (att[q] # << >> => Len(att[q]) \in DOMAIN att[q])
      BY <1>1, EmptySeq, LenProperties
    <3>2. \A m \in DOMAIN att[q] : Active(q, m) => m = Len(att[q]) /\ NewestActive(q)
      BY ActiveIsNewest DEF Active, IsActive
    <3> QED
      BY <3>1, <3>2 DEF placeOfRuns, PlaceOf, NewestActive
  <2> QED
    BY <2>1 DEF Exec!At, ActiveOn
<1>12. Exec!Begin(r, w)
  <2>1. Exec!Cardinality(Exec!At(w)) = Cardinality(Exec!At(w))
    BY Zenon DEF Cardinality, Exec!Cardinality
  <2>2. Exec!Cardinality(Exec!At(w)) < Capacity[w]
    BY <1>7, <1>11, <2>1 DEF SlotsAccounted
  <2> QED
    BY <1>4, <1>5, <1>6, <1>9, <1>10, <2>2, OneRunSeen DEF Exec!Begin, Exec!SetPhase
<1> QED
  BY <1>12 DEF Exec!Next

\* Every step of the run store is a step of Execution or unseen by it.
LEMMA StepRefines ==
    ASSUME TypeOK, Coherent, SlotsAccounted, [Next]_vars
    PROVE  Exec!Next \/ UNCHANGED <<phaseOfRuns, placeOfRuns, triesOfRuns>>
<1>1. TypeOK'
  BY TypeStep
<1>2. CASE Dispatches
  BY <1>2, DispatchRefines DEF Dispatches
<1>3. CASE Carries
  BY <1>1, <1>3, StepKinds, QuietRefines, SettleRefines, DispatchRefines
<1> QED
  BY <1>2, <1>3, RunMoves, OpensRefines, WithdrawsRefines

\* Whatever the order of dispatches, events, timeouts, cancellations and
\* archivals, a run executes in one place at a time, within the attempts of its
\* task and the capacity of its runner, and is never executed again once it has
\* succeeded or was cancelled.
THEOREM RunStoreImplementsExecution == Spec => ImplementsExecution
<1>1. Init => Exec!Init
  <2>1. Init => \A r \in Runs : PhaseOf(r) = "new" /\ PlaceOf(r) = {} /\ Len(att[r]) = 0
    BY EmptySeq DEF Init, PhaseOf, PlaceOf, NewestActive
  <2> QED
    BY <2>1 DEF Exec!Init, phaseOfRuns, placeOfRuns, triesOfRuns
<1>2. (TypeOK /\ Coherent) /\ SlotsAccounted /\ [Next]_vars => [Exec!Next]_(Exec!executionVars)
  BY StepRefines DEF Exec!executionVars
<1> QED
  BY <1>1, <1>2, CoherentInv, SlotsExact, PTL DEF Spec, ImplementsExecution, Exec!Spec
=============================================================================
