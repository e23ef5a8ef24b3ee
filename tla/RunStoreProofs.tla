--------------------------- MODULE RunStoreProofs ---------------------------
(***************************************************************************)
(* Proofs about RunStore, for any number of runs, runners, resources,      *)
(* attempts and any delays.                                                *)
(***************************************************************************)
EXTENDS RunStore, TLAPS, SequenceTheorems, FiniteSetTheorems

AttemptTable == [Runs -> Seq(AttemptRow)]

\* Writing one row of execution_attempts changes that row, nothing else, and
\* keeps the table's type.
LEMMA SetAttemptType ==
    ASSUME NEW r \in Runs, att \in AttemptTable, NEW n \in DOMAIN att[r],
           NEW f \in AttemptRow, SetAttempt(r, n, f)
    PROVE  /\ att' \in AttemptTable
           /\ Len(att'[r]) = Len(att[r])
           /\ DOMAIN att'[r] = DOMAIN att[r]
           /\ att'[r][n] = f
           /\ \A m \in DOMAIN att[r] \ {n} : att'[r][m] = att[r][m]
           /\ \A q \in Runs \ {r} : att'[q] = att[q]
<1>1. att[r] \in Seq(AttemptRow) /\ n \in 1..Len(att[r]) /\ DOMAIN att[r] = 1..Len(att[r])
  BY DEF AttemptTable
<1>2. LET s == [att[r] EXCEPT ![n] = f] IN
        /\ s \in Seq(AttemptRow)
        /\ Len(s) = Len(att[r])
        /\ s[n] = f
        /\ \A m \in 1..Len(att[r]) \ {n} : s[m] = att[r][m]
  BY <1>1, ExceptSeq
<1>3. att' = [att EXCEPT ![r] = [att[r] EXCEPT ![n] = f]]
  BY DEF SetAttempt
<1> QED
  BY <1>1, <1>2, <1>3 DEF AttemptTable

-----------------------------------------------------------------------------
(* Types *)

\* Writing one row of runs changes that row, nothing else, and keeps the type.
LEMMA SetRunType ==
    ASSUME run \in [Runs -> RunRow], NEW r \in Runs, NEW f \in RunRow, SetRun(r, f)
    PROVE  /\ run' \in [Runs -> RunRow]
           /\ run'[r] = f
           /\ \A q \in Runs \ {r} : run'[q] = run[q]
BY DEF SetRun

\* A row of the attempts table has the type of a row, and a position in it.
LEMMA AttemptAt ==
    ASSUME TypeOK, NEW r \in Runs, NEW n \in DOMAIN att[r]
    PROVE  /\ att[r] \in Seq(AttemptRow)
           /\ Len(att[r]) \in Nat
           /\ n \in 1..Len(att[r])
           /\ att[r][n] \in AttemptRow
           /\ att[r][n].runner \in Runners
<1>1. att[r] \in Seq(AttemptRow)
  BY DEF TypeOK
<1>2. Len(att[r]) \in Nat /\ n \in 1..Len(att[r])
  BY <1>1, LenProperties
<1>3. att[r][n] \in AttemptRow
  BY <1>1, <1>2, ElementOfSeq
<1>4. att[r][n].runner \in Runners
  BY <1>3 DEF AttemptRow
<1> QED
  BY <1>1, <1>2, <1>3, <1>4

\* The rows written when an attempt settles and when a run leaves flight.
LEMMA RowTypes ==
    /\ \A row \in AttemptRow, s \in SettledStates, k \in Nat : SettledRow(row, s, k) \in AttemptRow
    /\ \A row \in RunRow, s \in RunStates, d \in Nat : LeaveFlight(row, s, d) \in RunRow
    /\ \A row \in RunRow, b \in BOOLEAN : CancelRow(row, b) \in RunRow
<1>1. ASSUME NEW row \in AttemptRow, NEW s \in SettledStates, NEW k \in Nat
      PROVE  SettledRow(row, s, k) \in AttemptRow
  BY <1>1 DEF SettledRow, AttemptRow
<1>2. ASSUME NEW row \in RunRow, NEW s \in RunStates, NEW d \in Nat
      PROVE  LeaveFlight(row, s, d) \in RunRow
  BY <1>2 DEF LeaveFlight, RunRow
<1>3. ASSUME NEW row \in RunRow, NEW b \in BOOLEAN
      PROVE  CancelRow(row, b) \in RunRow
  BY <1>2, <1>3, TimeAssumption DEF CancelRow, RunRow, RunStates
<1> QED
  BY <1>1, <1>2, <1>3

\* A dispatched attempt.
LEMMA NewAttemptType ==
    ASSUME NEW w \in Runners
    PROVE  /\ NewAttempt(w) \in AttemptRow
           /\ NewAttempt(w).state = "DISPATCHED"
           /\ NewAttempt(w).runner = w
BY TimeAssumption DEF NewAttempt, AttemptRow, ActiveStates

\* Releasing an attempt's slot and leases keeps both tables typed.
LEMMA ReleaseType ==
    ASSUME TypeOK, NEW r \in Runs, NEW n \in DOMAIN att[r], ReleaseRunResources(r, n)
    PROVE  activeCount' \in [Runners -> Nat] /\ leases' \subseteq LeaseRow
<1>1. att[r][n].runner \in Runners
  BY AttemptAt
<1>2. \A k \in Nat : Dec(k) \in Nat
  BY DEF Dec
<1> QED
  BY <1>1, <1>2 DEF TypeOK, ReleaseRunResources

\* An event writes a typed run.
LEMMA EventRunType ==
    ASSUME TypeOK, NEW r \in Runs, NEW s \in RunStates, NEW d \in Nat, EventRun(r, s, d)
    PROVE  run' \in [Runs -> RunRow]
<1>1. run[r] \in RunRow
  BY DEF TypeOK
<1>2. LeaveFlight(run[r], s, d) \in RunRow
  BY <1>1, RowTypes
<1> QED
  BY <1>1, <1>2, SetRunType DEF TypeOK, EventRun

\* Every row keeps its type under each statement that writes it, Next by Next.
LEMMA TypeStep == TypeOK /\ [Next]_vars => TypeOK'
<1> SUFFICES ASSUME TypeOK, [Next]_vars
             PROVE  TypeOK'
  OBVIOUS
<1> USE DEF AttemptTable
<1>T. /\ run \in [Runs -> RunRow] /\ att \in AttemptTable
      /\ activeCount \in [Runners -> Nat] /\ fleet \in [Runners -> FleetRow]
      /\ leases \subseteq LeaseRow /\ fence \in [Resources -> Nat]
  BY DEF TypeOK
<1>1. ASSUME NEW r \in Runs, NEW d \in Deadlines, Create(r, d)
      PROVE  TypeOK'
  <2>1. PICK f \in RunRow : SetRun(r, f)
    BY <1>1, <1>T, TimeAssumption DEF Create, RunRow, RunStates
  <2> QED
    BY <1>1, <2>1, <1>T, SetRunType DEF Create, TypeOK
<1>2. ASSUME NEW r \in Runs, NEW w \in Runners, ClaimWaiting(r, w)
      PROVE  TypeOK'
  <2>1. NewAttempt(w) \in AttemptRow
    BY NewAttemptType
  <2>2. att' \in AttemptTable
    BY <1>2, <2>1, <1>T, AppendProperties DEF ClaimWaiting
  <2>3. PICK f \in RunRow : SetRun(r, f)
    BY <1>2, <1>T DEF ClaimWaiting, RunRow, RunStates
  <2>4. fence' \in [Resources -> Nat] /\ leases' \subseteq LeaseRow
    BY <1>2, <1>T, TaskAssumption, LenProperties DEF ClaimWaiting, TakeLeases, LeaseRow
  <2> QED
    BY <1>2, <2>2, <2>3, <2>4, <1>T, SetRunType DEF ClaimWaiting, TypeOK
<1>3. ASSUME NEW r \in Runs, NEW n \in DOMAIN att[r], PublishExecute(r, n) \/ PublishCancel(r, n) \/ ClaimCancelling(r, n)
      PROVE  TypeOK'
  <2>1. att[r][n] \in AttemptRow
    BY AttemptAt
  <2>2. PICK f \in AttemptRow : SetAttempt(r, n, f)
    BY <1>3, <2>1 DEF PublishExecute, PublishCancel, ClaimCancelling, AttemptRow
  <2> QED
    BY <1>3, <2>2, <1>T, SetAttemptType DEF PublishExecute, PublishCancel, ClaimCancelling, TypeOK
<1>4. ASSUME NEW r \in Runs, NEW n \in DOMAIN att[r], ClaimStart(r, n)
      PROVE  TypeOK'
  <2>1. att[r][n] \in AttemptRow
    BY AttemptAt
  <2>2. PICK f \in AttemptRow : SetAttempt(r, n, f)
    BY <1>4, <2>1 DEF ClaimStart, AttemptRow, ActiveStates, MaxOf
  <2>3. PICK g \in RunRow : SetRun(r, g)
    BY <1>4, <1>T DEF ClaimStart, RunRow, RunStates
  <2> QED
    BY <1>4, <2>2, <2>3, <1>T, SetAttemptType, SetRunType DEF ClaimStart, TypeOK
<1>5. ASSUME NEW r \in Runs, NEW n \in DOMAIN att[r], NEW s \in {"FAILED", "UNKNOWN", "CANCELLED"},
             NEW e \in {"PENDING", "PUBLISHED", "FAILED"}, SettleBoth(r, n, s, e)
      PROVE  TypeOK'
  <2>1. att[r][n] \in AttemptRow /\ MaxOf(att[r][n].seq + 1, 3) \in Nat
    BY AttemptAt, SMTT(40) DEF AttemptRow, MaxOf
  <2>2. SettledRow(att[r][n], s, MaxOf(att[r][n].seq + 1, 3)) \in AttemptRow
    BY <2>1, RowTypes DEF SettledStates
  <2>3. PICK f \in AttemptRow : SetAttempt(r, n, f)
    BY <1>5, <2>2 DEF SettleBoth, AttemptRow
  <2>4. LeaveFlight(run[r], s, 0) \in RunRow
    BY <1>T, RowTypes DEF RunStates
  <2> QED
    BY <1>5, <2>3, <2>4, <1>T, SetAttemptType, SetRunType, ReleaseType DEF SettleBoth, TypeOK
<1>6. ASSUME NEW r \in Runs, NEW n \in DOMAIN att[r],
             ReconcileTimedOutDispatches(r, n) \/ ReconcileStaleCancellations(r, n)
      PROVE  TypeOK'
  <2>1. att[r][n].execute \in {"PENDING", "PUBLISHED", "FAILED"}
    BY AttemptAt DEF AttemptRow
  <2> QED
    BY <1>5, <1>6, <2>1 DEF ReconcileTimedOutDispatches, ReconcileStaleCancellations, TimeoutState
<1>7. ASSUME NEW r \in Runs, NEW n \in DOMAIN att[r], EventAccepted(r, n, 1) \/ EventStarted(r, n, 2)
      PROVE  TypeOK'
  <2>1. att[r][n] \in AttemptRow
    BY AttemptAt
  <2>2. PICK f \in AttemptRow : SetAttempt(r, n, f)
    BY <1>7, <2>1 DEF EventAccepted, EventStarted, AttemptRow, ActiveStates
  <2>3. [run[r] EXCEPT !.state = IF @ = "DISPATCHED" THEN "RUNNING" ELSE @] \in RunRow
    BY <1>T, ZenonT(60) DEF RunRow, RunStates
  <2> QED
    BY <1>7, <2>2, <2>3, <1>T, SetAttemptType, SetRunType DEF EventAccepted, EventStarted, TypeOK
<1>8. ASSUME NEW r \in Runs, NEW n \in DOMAIN att[r], NEW s \in SettledStates, NEW k \in Nat,
             SetAttempt(r, n, SettledRow(att[r][n], s, k)),
             NEW t \in RunStates, NEW d \in Nat, EventRun(r, t, d),
             ReleaseRunResources(r, n), UNCHANGED <<fleet, fence>>
      PROVE  TypeOK'
  <2>1. SettledRow(att[r][n], s, k) \in AttemptRow
    BY AttemptAt, RowTypes
  <2> QED
    BY <1>8, <2>1, <1>T, SetAttemptType, EventRunType, ReleaseType DEF TypeOK
<1>9. ASSUME NEW r \in Runs, NEW n \in DOMAIN att[r], NEW kind \in {"completed", "cancelled"},
             EventFinished(r, n, kind, 3)
      PROVE  TypeOK'
  BY <1>8, <1>9 DEF EventFinished, SettledStates, RunStates
<1>10. ASSUME NEW r \in Runs, NEW n \in DOMAIN att[r], NEW kind \in {"failed", "timed_out"},
              NEW retryable \in BOOLEAN, EventFailed(r, n, kind, 3, retryable)
       PROVE  TypeOK'
  <2>1. CASE shouldRetry(r, n, retryable)
    <3>1. RetryDelay[n] \in Nat
      BY <2>1, AttemptAt, TaskAssumption, DelayAssumption DEF shouldRetry
    <3> QED
      BY <1>8, <1>10, <2>1, <3>1 DEF EventFailed, SettledStates, RunStates
  <2>2. CASE ~shouldRetry(r, n, retryable)
    BY <1>8, <1>10, <2>2 DEF EventFailed, SettledStates, RunStates
  <2> QED
    BY <2>1, <2>2
<1>11. ASSUME NEW r \in Runs, NEW n \in DOMAIN att[r], NEW seq \in UnknownSeqs, EventUnknown(r, n, seq)
       PROVE  TypeOK'
  <2>1. ResolveAmbiguous(Policy[r]) \in RunStates
    BY DEF ResolveAmbiguous, RunStates
  <2>2. seq \in Nat
    BY DEF UnknownSeqs
  <2> QED
    BY <1>8, <1>11, <2>1, <2>2 DEF EventUnknown, SettledStates
<1>12. ASSUME NEW r \in Runs, RequestCancellation(r) \/ Retry(r) \/ ScheduleReplacement(r)
       PROVE  TypeOK'
  <2>1. CancelRow(run[r], FALSE) \in RunRow
    BY <1>T, RowTypes
  <2>2. [run[r] EXCEPT !.state = "RETRY_WAIT", !.retryIn = 0, !.startIn = StartDelay] \in RunRow
    BY <1>T, TimeAssumption DEF RunRow, RunStates
  <2>3. [run[r] EXCEPT !.state = "CANCELLING", !.settleIn = CancelDelay,
                       !.retryIn = 0, !.archived = FALSE] \in RunRow
    BY <1>T, TimeAssumption DEF RunRow, RunStates
  <2> QED
    BY <1>12, <2>1, <2>2, <2>3, <1>T, SetRunType DEF RequestCancellation, Retry, ScheduleReplacement, TypeOK
<1>13. ASSUME NEW w \in Runners, Archive(w)
       PROVE  TypeOK'
  <2>1. run' \in [Runs -> RunRow]
    BY <1>13, <1>T, RowTypes DEF Archive
  <2> QED
    BY <1>13, <2>1, <1>T DEF Archive, TypeOK, FleetRow
<1>14. ASSUME NEW w \in Runners, NEW b \in BOOLEAN, SetReady(w, b)
       PROVE  TypeOK'
  BY <1>14, <1>T DEF SetReady, TypeOK, FleetRow
<1>15. CASE Tick
  <2>1. \A k \in Nat : Dec(k) \in Nat
    BY DEF Dec
  <2>2. run' \in [Runs -> RunRow]
    BY <1>15, <2>1, <1>T DEF Tick, RunRow
  <2>3. ASSUME NEW r \in Runs
        PROVE  att'[r] \in Seq(AttemptRow)
    <3>1. att[r] \in Seq(AttemptRow) /\ DOMAIN att[r] = 1..Len(att[r]) /\ Len(att[r]) \in Nat
      BY <1>T, LenProperties
    <3>2. att'[r] = [n \in 1..Len(att[r]) |->
                       [att[r][n] EXCEPT !.leaseIn = Dec(@), !.staleIn = Dec(@)]]
      BY <1>15, <3>1 DEF Tick
    <3>3. ASSUME NEW row \in AttemptRow
          PROVE  [row EXCEPT !.leaseIn = Dec(@), !.staleIn = Dec(@)] \in AttemptRow
      BY <2>1 DEF AttemptRow
    <3>4. \A n \in 1..Len(att[r]) :
             [att[r][n] EXCEPT !.leaseIn = Dec(@), !.staleIn = Dec(@)] \in AttemptRow
      BY <3>1, <3>3, ElementOfSeq
    <3>5. att'[r] \in [1..Len(att[r]) -> AttemptRow]
      BY <3>2, <3>4
    <3> QED
      BY <3>1, <3>5, SeqDef
  <2>4. att' \in AttemptTable
    BY <1>15, <2>3 DEF Tick
  <2> QED
    BY <1>15, <2>2, <2>4, <1>T DEF Tick, TypeOK
<1>16. CASE UNCHANGED vars
  BY <1>16, <1>T DEF vars, TypeOK
<1> QED
  BY <1>1, <1>2, <1>3, <1>4, <1>6, <1>7, <1>9, <1>10, <1>11, <1>12, <1>13, <1>14, <1>15, <1>16
  DEF Next, Operator, Dispatcher, RunnerEvent, Fleet

\* Every row of the run tables has its type in every reachable state.
THEOREM TypeCorrect == Spec => []TypeOK
<1>1. Init => TypeOK
  BY EmptySeq DEF Init, TypeOK, RunRow, RunStates, FleetRow
<1> QED
  BY <1>1, TypeStep, PTL DEF Spec

-----------------------------------------------------------------------------
(* The run and its attempts *)

FlightStates == {"DISPATCHED", "RUNNING", "CANCELLING"}

\* What SingleActiveAttempt, RunHasAttempt and AttemptsBounded say of one run,
\* as a predicate of its state st and its attempts s.
RunCoherent(r, st, s) ==
    /\ \A n \in DOMAIN s : s[n].state \in ActiveStates => n = Len(s) /\ st \in FlightStates
    /\ st \in FlightStates => \/ s # << >> /\ s[Len(s)].state \in ActiveStates
                              \/ st = "CANCELLING" /\ r \in Replaceable
    /\ st = "DISPATCHED" => s[Len(s)].state # "RUNNING"
    /\ Len(s) <= MaxAttempts[r]
    /\ st \in {"NONE", "WAITING"} => s = << >>
    /\ st = "RETRY_WAIT" /\ Policy[r] # "RETRY" => Len(s) < MaxAttempts[r]

Coherent == \A r \in Runs : RunCoherent(r, run[r].state, att[r])

\* The three invariants the runs check, together, are Coherent.
LEMMA CoherentMeans == Coherent <=> SingleActiveAttempt /\ RunHasAttempt /\ AttemptsBounded
BY DEF Coherent, RunCoherent, FlightStates, SingleActiveAttempt, RunHasAttempt, AttemptsBounded,
       InFlight, NewestActive, Active

\* Settling the active attempt of a run, with the run leaving flight.
LEMMA SettleCoherent ==
    ASSUME NEW r \in Runs, NEW st, NEW s \in Seq(AttemptRow), RunCoherent(r, st, s),
           NEW n \in 1..Len(s), s[n].state \in ActiveStates,
           NEW f \in AttemptRow, f.state \notin ActiveStates,
           NEW t \in {"SUCCEEDED", "FAILED", "CANCELLED", "UNKNOWN", "RETRY_WAIT"},
           t = "RETRY_WAIT" /\ Policy[r] # "RETRY" => n < MaxAttempts[r]
    PROVE  RunCoherent(r, t, [s EXCEPT ![n] = f])
<1> DEFINE u == [s EXCEPT ![n] = f]
<1>1. n = Len(s) /\ DOMAIN s = 1..Len(s) /\ Len(s) \in Nat
  BY LenProperties DEF RunCoherent
<1>2. u \in Seq(AttemptRow) /\ Len(u) = Len(s) /\ \A m \in 1..Len(s) : u[m] = IF m = n THEN f ELSE s[m]
  BY ExceptSeq
<1>3. DOMAIN u = 1..Len(s)
  BY <1>2, LenProperties
<1>4. \A m \in DOMAIN u : u[m].state \notin ActiveStates
  BY <1>1, <1>2, <1>3 DEF RunCoherent
<1> HIDE DEF u
<1>5. RunCoherent(r, t, u)
  BY <1>1, <1>2, <1>4 DEF RunCoherent, FlightStates
<1> QED
  BY <1>5 DEF u

\* Moving the active attempt of a run that stays in flight.
LEMMA AdvanceCoherent ==
    ASSUME NEW r \in Runs, NEW st, NEW s \in Seq(AttemptRow), RunCoherent(r, st, s),
           NEW n \in 1..Len(s), s[n].state \in ActiveStates,
           NEW f \in AttemptRow, f.state \in ActiveStates,
           NEW t \in FlightStates, t = "DISPATCHED" => f.state # "RUNNING"
    PROVE  RunCoherent(r, t, [s EXCEPT ![n] = f])
<1> DEFINE u == [s EXCEPT ![n] = f]
<1>1. n = Len(s) /\ DOMAIN s = 1..Len(s) /\ Len(s) \in Nat
  BY LenProperties DEF RunCoherent
<1>2. u \in Seq(AttemptRow) /\ Len(u) = Len(s) /\ \A m \in 1..Len(s) : u[m] = IF m = n THEN f ELSE s[m]
  BY ExceptSeq
<1>3. DOMAIN u = 1..Len(s)
  BY <1>2, LenProperties
<1>4. \A m \in DOMAIN u : u[m].state \in ActiveStates => m = Len(u)
  BY <1>1, <1>2, <1>3 DEF RunCoherent
<1>5. u # << >> /\ u[Len(u)] = f
  BY <1>1, <1>2, EmptySeq
<1> HIDE DEF u
<1>6. RunCoherent(r, t, u)
  BY <1>1, <1>2, <1>4, <1>5 DEF RunCoherent, FlightStates
<1> QED
  BY <1>6 DEF u

\* Writing a row of a run's attempts without changing its state.
LEMMA SameStateCoherent ==
    ASSUME NEW r \in Runs, NEW st, NEW s \in Seq(AttemptRow), RunCoherent(r, st, s),
           NEW u \in Seq(AttemptRow), Len(u) = Len(s),
           \A m \in 1..Len(s) : u[m].state = s[m].state
    PROVE  RunCoherent(r, st, u)
<1>1. DOMAIN s = 1..Len(s) /\ DOMAIN u = 1..Len(s) /\ Len(s) \in Nat
  BY LenProperties
<1>2. s = << >> <=> u = << >>
  BY EmptySeq
<1>3. s # << >> => Len(s) \in 1..Len(s)
  BY <1>1, EmptySeq
<1>4. st = "DISPATCHED" => s # << >>
  BY DEF RunCoherent, FlightStates
<1> QED
  BY <1>1, <1>2, <1>3, <1>4 DEF RunCoherent

\* A new attempt of a run that has none active.
LEMMA DispatchCoherent ==
    ASSUME NEW r \in Runs, NEW st, NEW s \in Seq(AttemptRow), RunCoherent(r, st, s),
           st \notin FlightStates, Len(s) < MaxAttempts[r],
           NEW f \in AttemptRow, f.state = "DISPATCHED"
    PROVE  RunCoherent(r, "DISPATCHED", Append(s, f))
<1> DEFINE u == Append(s, f)
<1>1. DOMAIN s = 1..Len(s) /\ Len(s) \in Nat
  BY LenProperties
<1>2. /\ u \in Seq(AttemptRow) /\ u # << >> /\ Len(u) = Len(s) + 1
      /\ \A m \in 1..Len(s) : u[m] = s[m]
      /\ u[Len(s) + 1] = f
  BY AppendProperties
<1>3. DOMAIN u = 1..(Len(s) + 1)
  BY <1>2, LenProperties
<1>4. \A m \in DOMAIN u : u[m].state \in ActiveStates => m = Len(u)
  BY <1>1, <1>2, <1>3 DEF RunCoherent
<1> HIDE DEF u
<1>5. RunCoherent(r, "DISPATCHED", u)
  BY <1>1, <1>2, <1>4, TaskAssumption DEF RunCoherent, FlightStates, ActiveStates
<1> QED
  BY <1>5 DEF u
\* A step that touches one run keeps the others as they are.
LEMMA OneRunCoherent ==
    ASSUME Coherent, NEW r \in Runs, RunCoherent(r, run'[r].state, att'[r]),
           \A q \in Runs \ {r} : run'[q] = run[q] /\ att'[q] = att[q]
    PROVE  Coherent'
BY DEF Coherent

\* Cancelling a run that is queued or in flight.
LEMMA CancelCoherent ==
    ASSUME NEW r \in Runs, NEW row \in RunRow, NEW s \in Seq(AttemptRow), RunCoherent(r, row.state, s),
           row.state \in QueuedStates \cup FlightStates, NEW b \in BOOLEAN
    PROVE  RunCoherent(r, CancelRow(row, b).state, s)
<1>1. CASE row.state \in QueuedStates
  <2>1. CancelRow(row, b).state = "CANCELLED"
    BY <1>1 DEF CancelRow, LeaveFlight, RunRow
  <2> QED
    BY <1>1, <2>1 DEF RunCoherent, QueuedStates, FlightStates
<1>2. CASE row.state \notin QueuedStates
  <2>1. CancelRow(row, b).state = "CANCELLING"
    BY <1>2 DEF CancelRow, RunRow
  <2> QED
    BY <1>2, <2>1 DEF RunCoherent, FlightStates
<1> QED
  BY <1>1, <1>2

\* Each transaction keeps a run and its attempts coherent.
LEMMA CoherentStep == TypeOK /\ Coherent /\ [Next]_vars => Coherent'
<1> SUFFICES ASSUME TypeOK, Coherent, [Next]_vars
             PROVE  Coherent'
  OBVIOUS
<1>T. run \in [Runs -> RunRow] /\ att \in AttemptTable
  BY DEF TypeOK, AttemptTable
<1>C. \A r \in Runs : RunCoherent(r, run[r].state, att[r]) /\ att[r] \in Seq(AttemptRow)
  BY <1>T DEF Coherent, AttemptTable
\* a step that writes run r only
<1>R. ASSUME NEW r \in Runs, NEW f \in RunRow, SetRun(r, f), att' = att,
             RunCoherent(r, f.state, att[r])
      PROVE  Coherent'
  BY <1>R, <1>T, SetRunType, OneRunCoherent
\* a step that writes an attempt of run r only
<1>A. ASSUME NEW r \in Runs, NEW n \in DOMAIN att[r], NEW f \in AttemptRow, SetAttempt(r, n, f), run' = run,
             RunCoherent(r, run[r].state, [att[r] EXCEPT ![n] = f])
      PROVE  Coherent'
  <2>1. att'[r] = [att[r] EXCEPT ![n] = f]
    BY <1>A, <1>T DEF SetAttempt, AttemptTable
  <2> QED
    BY <1>A, <1>T, <2>1, SetAttemptType, OneRunCoherent
\* a step that writes both
<1>B. ASSUME NEW r \in Runs, NEW n \in DOMAIN att[r], NEW f \in AttemptRow, SetAttempt(r, n, f),
             NEW g \in RunRow, SetRun(r, g),
             RunCoherent(r, g.state, [att[r] EXCEPT ![n] = f])
      PROVE  Coherent'
  <2>1. att'[r] = [att[r] EXCEPT ![n] = f]
    BY <1>B, <1>T DEF SetAttempt, AttemptTable
  <2> QED
    BY <1>B, <1>T, <2>1, SetAttemptType, SetRunType, OneRunCoherent
\* an active attempt settles and its run leaves flight
<1>S. ASSUME NEW r \in Runs, NEW n \in DOMAIN att[r], Active(r, n),
             NEW f \in AttemptRow, f.state \notin ActiveStates, SetAttempt(r, n, f),
             NEW t \in {"SUCCEEDED", "FAILED", "CANCELLED", "UNKNOWN", "RETRY_WAIT"}, NEW d \in Nat,
             t = "RETRY_WAIT" /\ Policy[r] # "RETRY" => n < MaxAttempts[r],
             SetRun(r, LeaveFlight(run[r], t, d))
      PROVE  Coherent'
  <2>1. LeaveFlight(run[r], t, d) \in RunRow
    BY <1>T, RowTypes DEF RunStates
  <2>2. LeaveFlight(run[r], t, d).state = t
    BY <1>T DEF LeaveFlight, RunRow
  <2>3. n \in 1..Len(att[r])
    BY AttemptAt
  <2>4. RunCoherent(r, t, [att[r] EXCEPT ![n] = f])
    BY <1>S, <1>C, <2>3, SettleCoherent DEF Active
  <2> QED
    BY <1>S, <1>B, <2>1, <2>2, <2>4
\* the same for an event, which leaves closed runs alone
<1>E. ASSUME NEW r \in Runs, NEW n \in DOMAIN att[r], Active(r, n),
             NEW s \in SettledStates, NEW k \in Nat, SetAttempt(r, n, SettledRow(att[r][n], s, k)),
             NEW t \in {"SUCCEEDED", "FAILED", "CANCELLED", "UNKNOWN", "RETRY_WAIT"}, NEW d \in Nat,
             t = "RETRY_WAIT" /\ Policy[r] # "RETRY" => n < MaxAttempts[r],
             EventRun(r, t, d)
      PROVE  Coherent'
  <2>1. SettledRow(att[r][n], s, k) \in AttemptRow
    BY AttemptAt, RowTypes
  <2>2. SettledRow(att[r][n], s, k).state \notin ActiveStates
    BY <1>E, AttemptAt DEF SettledRow, AttemptRow, SettledStates, ActiveStates
  <2>3. run[r].state \notin ClosedStates
    BY <1>E, <1>C DEF RunCoherent, Active, FlightStates, ClosedStates
  <2>4. SetRun(r, LeaveFlight(run[r], t, d))
    BY <1>E, <2>3 DEF EventRun
  <2> QED
    BY <1>E, <1>S, <2>1, <2>2, <2>4
<1>1. ASSUME NEW r \in Runs, NEW d \in Deadlines, Create(r, d)
      PROVE  Coherent'
  <2> DEFINE f == [run[r] EXCEPT !.state = "WAITING", !.startIn = d]
  <2>1. f \in RunRow /\ f.state = "WAITING"
    BY <1>T, TimeAssumption DEF RunRow, RunStates
  <2>2. RunCoherent(r, "WAITING", att[r])
    BY <1>1, <1>C DEF Create, RunCoherent, FlightStates
  <2> HIDE DEF f
  <2> QED
    BY <1>1, <1>R, <2>1, <2>2 DEF Create, f
<1>2. ASSUME NEW r \in Runs, NEW w \in Runners, ClaimWaiting(r, w)
      PROVE  Coherent'
  <2> DEFINE f == [run[r] EXCEPT !.state = "DISPATCHED"]
  <2>1. f \in RunRow /\ f.state = "DISPATCHED"
    BY <1>T DEF RunRow, RunStates
  <2>2. NewAttempt(w) \in AttemptRow /\ NewAttempt(w).state = "DISPATCHED"
    BY NewAttemptType
  <2>3. run[r].state \in QueuedStates /\ Len(att[r]) < MaxAttempts[r]
    BY <1>2, <1>C, EmptySeq, TaskAssumption
    DEF ClaimWaiting, Claimable, QueuedStates, RunCoherent
  <2>4. RunCoherent(r, "DISPATCHED", Append(att[r], NewAttempt(w)))
    BY <1>C, <2>2, <2>3, DispatchCoherent DEF QueuedStates, FlightStates
  <2>5. /\ att'[r] = Append(att[r], NewAttempt(w))
        /\ \A q \in Runs \ {r} : att'[q] = att[q]
    BY <1>2, <1>T DEF ClaimWaiting, AttemptTable
  <2> HIDE DEF f
  <2>6. run'[r] = f /\ \A q \in Runs \ {r} : run'[q] = run[q]
    BY <1>2, <1>T, <2>1, SetRunType DEF ClaimWaiting, f
  <2> QED
    BY <2>1, <2>4, <2>5, <2>6, OneRunCoherent
<1>3. ASSUME NEW r \in Runs, NEW n \in DOMAIN att[r], PublishExecute(r, n) \/ PublishCancel(r, n) \/ ClaimCancelling(r, n)
      PROVE  Coherent'
  <2>1. att[r][n] \in AttemptRow /\ n \in 1..Len(att[r])
    BY AttemptAt
  <2>2. PICK f \in AttemptRow : SetAttempt(r, n, f) /\ f.state = att[r][n].state
    BY <1>3, <2>1 DEF PublishExecute, PublishCancel, ClaimCancelling, AttemptRow
  <2>3. RunCoherent(r, run[r].state, [att[r] EXCEPT ![n] = f])
    BY <1>C, <2>1, <2>2, ExceptSeq, SameStateCoherent
  <2> QED
    BY <1>3, <1>A, <2>2, <2>3 DEF PublishExecute, PublishCancel, ClaimCancelling
<1>4. ASSUME NEW r \in Runs, NEW n \in DOMAIN att[r], ClaimStart(r, n)
      PROVE  Coherent'
  <2> DEFINE f == [att[r][n] EXCEPT !.state = "RUNNING", !.seq = MaxOf(@, 1)]
             g == [run[r] EXCEPT !.state = "RUNNING"]
  <2>1. att[r][n] \in AttemptRow /\ n \in 1..Len(att[r])
    BY AttemptAt
  <2>2. f \in AttemptRow /\ f.state = "RUNNING"
    BY <2>1 DEF AttemptRow, ActiveStates, MaxOf
  <2>3. g \in RunRow /\ g.state = "RUNNING"
    BY <1>T DEF RunRow, RunStates
  <2>4. SetAttempt(r, n, f) /\ SetRun(r, g)
    BY <1>4 DEF ClaimStart
  <2> HIDE DEF f, g
  <2>5. RunCoherent(r, "RUNNING", [att[r] EXCEPT ![n] = f])
    BY <1>4, <1>C, <2>1, <2>2, AdvanceCoherent DEF ClaimStart, StartAllowed, ActiveStates, FlightStates
  <2> QED
    BY <1>B, <2>2, <2>3, <2>4, <2>5
<1>5. ASSUME NEW r \in Runs, NEW n \in DOMAIN att[r], Active(r, n),
             NEW t \in {"FAILED", "UNKNOWN", "CANCELLED"}, NEW e \in {"PENDING", "PUBLISHED", "FAILED"},
             SettleBoth(r, n, t, e)
      PROVE  Coherent'
  <2> DEFINE k == MaxOf(att[r][n].seq + 1, 3)
             f == [SettledRow(att[r][n], t, k) EXCEPT !.execute = e]
  <2>1. att[r][n] \in AttemptRow /\ k \in Nat
    BY AttemptAt, SMTT(40) DEF AttemptRow, MaxOf
  <2>2. f \in AttemptRow /\ f.state \notin ActiveStates
    BY <2>1 DEF SettledRow, AttemptRow, SettledStates, ActiveStates
  <2>3. SetAttempt(r, n, f) /\ SetRun(r, LeaveFlight(run[r], t, 0))
    BY <1>5 DEF SettleBoth
  <2> HIDE DEF f
  <2> QED
    BY <1>5, <1>S, <2>2, <2>3
<1>6. ASSUME NEW r \in Runs, NEW n \in DOMAIN att[r],
             ReconcileTimedOutDispatches(r, n) \/ ReconcileStaleCancellations(r, n)
      PROVE  Coherent'
  <2>1. att[r][n].execute \in {"PENDING", "PUBLISHED", "FAILED"}
    BY AttemptAt DEF AttemptRow
  <2>2. Active(r, n)
    BY <1>6 DEF ReconcileTimedOutDispatches, ReconcileStaleCancellations, TimedOut, Active, ActiveStates
  <2> QED
    BY <1>5, <1>6, <2>1, <2>2 DEF ReconcileTimedOutDispatches, ReconcileStaleCancellations, TimeoutState
<1>7. ASSUME NEW r \in Runs, NEW n \in DOMAIN att[r], NEW kind, NEW k \in Nat, Applies(r, n, kind, k)
      PROVE  Active(r, n) /\ run[r].state \in FlightStates /\ n = Len(att[r])
  <2>1. Active(r, n)
    BY <1>7 DEF Applies, legalAttemptTransition, Active, ActiveStates
  <2> QED
    BY <2>1, <1>C DEF Active, RunCoherent
<1>8. ASSUME NEW r \in Runs, NEW n \in DOMAIN att[r], EventAccepted(r, n, 1)
      PROVE  Coherent'
  <2> DEFINE f == [att[r][n] EXCEPT !.state = IF @ = "RUNNING" THEN @ ELSE "ACCEPTED", !.seq = 1]
  <2>1. att[r][n] \in AttemptRow /\ n \in 1..Len(att[r])
    BY AttemptAt
  <2>2. Active(r, n) /\ run[r].state \in FlightStates /\ n = Len(att[r])
    BY <1>7, <1>8 DEF EventAccepted
  <2>3. f \in AttemptRow /\ f.state = IF att[r][n].state = "RUNNING" THEN "RUNNING" ELSE "ACCEPTED"
    BY <2>1 DEF AttemptRow, ActiveStates
  <2>4. f.state \in ActiveStates /\ (run[r].state = "DISPATCHED" => f.state # "RUNNING")
    BY <2>2, <2>3, <1>C DEF ActiveStates, RunCoherent
  <2>5. SetAttempt(r, n, f) /\ run' = run
    BY <1>8 DEF EventAccepted
  <2> HIDE DEF f
  <2>6. RunCoherent(r, run[r].state, [att[r] EXCEPT ![n] = f])
    BY <1>C, <2>1, <2>2, <2>3, <2>4, AdvanceCoherent DEF Active
  <2> QED
    BY <1>A, <2>3, <2>5, <2>6
<1>9. ASSUME NEW r \in Runs, NEW n \in DOMAIN att[r], EventStarted(r, n, 2)
      PROVE  Coherent'
  <2> DEFINE f == [att[r][n] EXCEPT !.state = "RUNNING", !.seq = 2]
             g == [run[r] EXCEPT !.state = IF @ = "DISPATCHED" THEN "RUNNING" ELSE @]
  <2>1. att[r][n] \in AttemptRow /\ n \in 1..Len(att[r])
    BY AttemptAt
  <2>2. Active(r, n) /\ run[r].state \in FlightStates
    BY <1>7, <1>9 DEF EventStarted
  <2>3. f \in AttemptRow /\ f.state = "RUNNING"
    BY <2>1 DEF AttemptRow, ActiveStates
  <2>4. g \in RunRow /\ g.state \in FlightStates /\ g.state # "DISPATCHED"
    BY <2>2, <1>T DEF RunRow, RunStates, FlightStates
  <2>5. SetAttempt(r, n, f) /\ SetRun(r, g)
    BY <1>9 DEF EventStarted
  <2> HIDE DEF f, g
  <2>6. RunCoherent(r, g.state, [att[r] EXCEPT ![n] = f])
    BY <1>C, <2>1, <2>2, <2>3, <2>4, AdvanceCoherent DEF Active, ActiveStates
  <2> QED
    BY <1>B, <2>3, <2>4, <2>5, <2>6
<1>10. ASSUME NEW r \in Runs, NEW n \in DOMAIN att[r], NEW kind \in {"completed", "cancelled"},
              EventFinished(r, n, kind, 3)
       PROVE  Coherent'
  BY <1>7, <1>10, <1>E DEF EventFinished, SettledStates
<1>11. ASSUME NEW r \in Runs, NEW n \in DOMAIN att[r], NEW kind \in {"failed", "timed_out"},
              NEW retryable \in BOOLEAN, EventFailed(r, n, kind, 3, retryable)
       PROVE  Coherent'
  <2>1. Active(r, n)
    BY <1>7, <1>11 DEF EventFailed
  <2>2. CASE shouldRetry(r, n, retryable)
    <3>1. n < MaxAttempts[r] /\ RetryDelay[n] \in Nat
      BY <2>2, AttemptAt, TaskAssumption, DelayAssumption DEF shouldRetry
    <3> QED
      BY <1>11, <1>E, <2>1, <2>2, <3>1 DEF EventFailed, SettledStates
  <2>3. CASE ~shouldRetry(r, n, retryable)
    BY <1>11, <1>E, <2>1, <2>3 DEF EventFailed, SettledStates
  <2> QED
    BY <2>2, <2>3
<1>12. ASSUME NEW r \in Runs, NEW n \in DOMAIN att[r], NEW seq \in UnknownSeqs, EventUnknown(r, n, seq)
       PROVE  Coherent'
  <2> DEFINE t == ResolveAmbiguous(Policy[r])
  <2>1. seq \in Nat /\ Active(r, n)
    BY <1>7, <1>12 DEF EventUnknown, UnknownSeqs
  <2>2. t \in {"FAILED", "UNKNOWN", "RETRY_WAIT"} /\ (t = "RETRY_WAIT" => Policy[r] = "RETRY")
    BY DEF ResolveAmbiguous
  <2> QED
    BY <1>12, <1>E, <2>1, <2>2 DEF EventUnknown, SettledStates
<1>13. ASSUME NEW r \in Runs, RequestCancellation(r)
       PROVE  Coherent'
  <2>1. RunCoherent(r, CancelRow(run[r], FALSE).state, att[r])
    BY <1>13, <1>C, <1>T, CancelCoherent DEF RequestCancellation, QueuedStates, FlightStates
  <2>2. CancelRow(run[r], FALSE) \in RunRow
    BY <1>T, RowTypes
  <2> QED
    BY <1>13, <1>R, <2>1, <2>2 DEF RequestCancellation
<1>14. ASSUME NEW r \in Runs, Retry(r)
       PROVE  Coherent'
  <2> DEFINE f == [run[r] EXCEPT !.state = "RETRY_WAIT", !.retryIn = 0, !.startIn = StartDelay]
  <2>1. f \in RunRow /\ f.state = "RETRY_WAIT"
    BY <1>T, TimeAssumption DEF RunRow, RunStates
  <2>2. RunCoherent(r, "RETRY_WAIT", att[r])
    BY <1>14, <1>C DEF Retry, RunCoherent, FlightStates
  <2>3. SetRun(r, f) /\ att' = att
    BY <1>14 DEF Retry
  <2> HIDE DEF f
  <2> QED
    BY <1>R, <2>1, <2>2, <2>3
<1>15. ASSUME NEW r \in Runs, ScheduleReplacement(r)
       PROVE  Coherent'
  <2> DEFINE f == [run[r] EXCEPT !.state = "CANCELLING", !.settleIn = CancelDelay,
                                 !.retryIn = 0, !.archived = FALSE]
  <2>1. f \in RunRow /\ f.state = "CANCELLING"
    BY <1>T, TimeAssumption DEF RunRow, RunStates
  <2>2. RunCoherent(r, "CANCELLING", att[r])
    BY <1>15, <1>C DEF ScheduleReplacement, RunCoherent, FlightStates
  <2>3. SetRun(r, f) /\ att' = att
    BY <1>15 DEF ScheduleReplacement
  <2> HIDE DEF f
  <2> QED
    BY <1>R, <2>1, <2>2, <2>3
<1>16. ASSUME NEW w \in Runners, Archive(w)
       PROVE  Coherent'
  <2>1. ASSUME NEW r \in Runs
        PROVE  RunCoherent(r, run'[r].state, att'[r])
    <3>1. run[r] \in RunRow /\ RunCoherent(r, run[r].state, att[r]) /\ att'[r] = att[r]
      BY <1>16, <1>T, <1>C DEF Archive
    <3>2. run'[r] = run[r] \/ (run'[r] = CancelRow(run[r], TRUE) /\ run[r].state \in QueuedStates \cup FlightStates)
      BY <1>16 DEF Archive, QueuedStates, FlightStates
    <3> QED
      BY <3>1, <3>2, <1>C, CancelCoherent
  <2> QED
    BY <2>1 DEF Coherent
<1>17. ASSUME NEW w \in Runners, NEW b \in BOOLEAN, SetReady(w, b)
       PROVE  Coherent'
  BY <1>17 DEF SetReady, Coherent
<1>18. CASE Tick
  <2>1. ASSUME NEW r \in Runs
        PROVE  RunCoherent(r, run'[r].state, att'[r])
    <3>1. run'[r].state = run[r].state
      BY <1>18, <1>T DEF Tick, RunRow
    <3>2. att[r] \in Seq(AttemptRow) /\ DOMAIN att[r] = 1..Len(att[r]) /\ Len(att[r]) \in Nat
      BY <1>C, LenProperties
    <3>3. att'[r] = [n \in 1..Len(att[r]) |-> [att[r][n] EXCEPT !.leaseIn = Dec(@), !.staleIn = Dec(@)]]
      BY <1>18, <3>2 DEF Tick
    <3>4. TypeOK'
      BY TypeStep
    <3>5. att'[r] \in Seq(AttemptRow) /\ Len(att'[r]) = Len(att[r])
      <4>1. att'[r] \in Seq(AttemptRow)
        BY <3>4 DEF TypeOK
      <4>2. DOMAIN att'[r] = 1..Len(att'[r]) /\ Len(att'[r]) \in Nat
        BY <4>1, LenProperties
      <4>3. DOMAIN att'[r] = 1..Len(att[r])
        BY <3>3
      <4> QED
        BY <3>2, <4>1, <4>2, <4>3
    <3>6. \A n \in 1..Len(att[r]) : att'[r][n].state = att[r][n].state
      <4>1. ASSUME NEW row \in AttemptRow
            PROVE  [row EXCEPT !.leaseIn = Dec(@), !.staleIn = Dec(@)].state = row.state
        BY DEF AttemptRow
      <4> QED
        BY <3>2, <3>3, <4>1, ElementOfSeq
    <3> QED
      BY <1>C, <3>1, <3>2, <3>5, <3>6, SameStateCoherent
  <2> QED
    BY <2>1 DEF Coherent
<1>19. CASE UNCHANGED vars
  BY <1>19 DEF vars, Coherent
<1> QED
  BY <1>1, <1>2, <1>3, <1>4, <1>6, <1>8, <1>9, <1>10, <1>11, <1>12, <1>13, <1>14, <1>15, <1>16, <1>17, <1>18, <1>19
  DEF Next, Operator, Dispatcher, RunnerEvent, Fleet
\* The inductive invariant: Coherent, which needs the types.
LEMMA CoherentInv == Spec => [](TypeOK /\ Coherent)
<1>1. Init => TypeOK /\ Coherent
  <2>1. Init => TypeOK
    BY EmptySeq DEF Init, TypeOK, RunRow, RunStates, FleetRow
  <2>2. Init => Coherent
    BY EmptySeq, TaskAssumption DEF Init, Coherent, RunCoherent, FlightStates
  <2> QED
    BY <2>1, <2>2
<1>2. TypeOK /\ Coherent /\ [Next]_vars => (TypeOK /\ Coherent)'
  BY TypeStep, CoherentStep
<1> QED
  BY <1>1, <1>2, PTL DEF Spec

\* No run ever has two active attempts, nor one behind a queued or settled
\* run, whatever the order of claims, events, cancellations and timeouts.
THEOREM OneActiveAttempt == Spec => []SingleActiveAttempt
BY CoherentInv, CoherentMeans, PTL

\* A run in flight has an attempt that can end it, unless a REPLACE schedule
\* sent it from the queue to CANCELLING.
THEOREM FlightHasAttempt == Spec => []RunHasAttempt
BY CoherentInv, CoherentMeans, PTL

\* A REPLACE schedule is the only thing that can leave a run CANCELLING with
\* nothing to stop: where no schedule replaces its runs, cancellation by the
\* operator, the deletion of a task or the archiving of a runner, in whatever
\* order with dispatch, retry and late events, always leaves an attempt that
\* can end the run (CancellingHasWorker).
THEOREM OnlyReplaceStrands ==
    ASSUME Replaceable = {}
    PROVE  Spec => []CancellingHasWorker
<1>1. RunHasAttempt => CancellingHasWorker
  BY DEF RunHasAttempt, CancellingHasWorker, InFlight
<1> QED BY <1>1, FlightHasAttempt, PTL

\* No run exceeds max_attempts, by automatic retries, ambiguous outcomes or
\* the retry action.
THEOREM AttemptsWithinLimit == Spec => []AttemptsBounded
BY CoherentInv, CoherentMeans, PTL

-----------------------------------------------------------------------------
(* What a step can do to the attempts *)

\* The history of an attempt: its runner is fixed, its sequence grows, a
\* settled attempt and a failed order stay as they are.
RowStep(old, new) ==
    /\ new.runner = old.runner
    /\ new.seq >= old.seq
    /\ old.state \notin ActiveStates => new.state = old.state /\ new.seq = old.seq
    /\ old.execute = "FAILED" => new.execute = "FAILED"

IsActive(row) == row.state \in ActiveStates

\* No attempt starts or ends being active.
QuietStep ==
    /\ \A r \in Runs :
         /\ DOMAIN att'[r] = DOMAIN att[r]
         /\ \A n \in DOMAIN att[r] : /\ RowStep(att[r][n], att'[r][n])
                                     /\ IsActive(att'[r][n]) <=> IsActive(att[r][n])
    /\ UNCHANGED <<activeCount, leases, fence>>

\* Attempt n of run r settles, the others keep their activity.
SettleStep(r, n) ==
    /\ \A q \in Runs :
         /\ DOMAIN att'[q] = DOMAIN att[q]
         /\ \A m \in DOMAIN att[q] :
              /\ RowStep(att[q][m], att'[q][m])
              /\ IsActive(att'[q][m]) <=> IsActive(att[q][m]) /\ (q # r \/ m # n)
    /\ n \in DOMAIN att[r] /\ IsActive(att[r][n])
    /\ ReleaseRunResources(r, n)
    /\ fence' = fence

\* A row that does not change, or only in its timers, is a RowStep.
LEMMA RowStepSame == \A row \in AttemptRow : RowStep(row, row)
BY DEF RowStep, AttemptRow

\* An active row that moves to another active state with a newer sequence.
LEMMA RowStepActive ==
    ASSUME NEW row \in AttemptRow, IsActive(row), NEW t \in ActiveStates, NEW k \in Nat, k >= row.seq,
           NEW f, f = [row EXCEPT !.state = t, !.seq = k]
    PROVE  f \in AttemptRow /\ RowStep(row, f) /\ IsActive(f)
<1>1. f \in AttemptRow
  BY DEF AttemptRow
<1>2. f.state = t /\ f.seq = k /\ f.runner = row.runner /\ f.execute = row.execute
  BY DEF AttemptRow
<1>3. IsActive(f)
  BY <1>2 DEF IsActive
<1>4. row.seq \in Nat /\ row.state \in ActiveStates
  BY DEF AttemptRow, IsActive
<1>5. RowStep(row, f)
  BY <1>2, <1>4 DEF RowStep
<1> QED
  BY <1>1, <1>3, <1>5

\* Every step is quiet, settles one attempt, or dispatches one.
LEMMA StepKinds ==
    ASSUME TypeOK, Coherent, [Next]_vars
    PROVE  \/ QuietStep
           \/ \E r \in Runs : \E n \in DOMAIN att[r] : SettleStep(r, n)
           \/ \E r \in Runs, w \in Runners : ClaimWaiting(r, w)
<1> DEFINE Goal == \/ QuietStep
                   \/ \E r \in Runs : \E n \in DOMAIN att[r] : SettleStep(r, n)
                   \/ \E r \in Runs, w \in Runners : ClaimWaiting(r, w)
<1>T. att \in AttemptTable /\ \A r \in Runs : \A n \in DOMAIN att[r] : att[r][n] \in AttemptRow
  BY AttemptAt DEF TypeOK, AttemptTable
<1>U. ASSUME att' = att, UNCHANGED <<activeCount, leases, fence>>
      PROVE  Goal
  BY <1>U, <1>T, RowStepSame DEF QuietStep
<1>Q. ASSUME NEW r \in Runs, NEW n \in DOMAIN att[r], NEW f \in AttemptRow, SetAttempt(r, n, f),
             RowStep(att[r][n], f), IsActive(f) <=> IsActive(att[r][n]),
             UNCHANGED <<activeCount, leases, fence>>
      PROVE  Goal
  BY <1>Q, <1>T, RowStepSame, SetAttemptType DEF QuietStep
<1>S. ASSUME NEW r \in Runs, NEW n \in DOMAIN att[r], NEW f \in AttemptRow, SetAttempt(r, n, f),
             IsActive(att[r][n]), ~IsActive(f), RowStep(att[r][n], f),
             ReleaseRunResources(r, n), fence' = fence
      PROVE  Goal
  <2>1. SettleStep(r, n)
    BY <1>S, <1>T, RowStepSame, SetAttemptType DEF SettleStep
  <2> QED
    BY <2>1
<1>E. ASSUME NEW r \in Runs, NEW n \in DOMAIN att[r], NEW kind, NEW k \in Nat, Applies(r, n, kind, k),
             NEW t \in SettledStates, SetAttempt(r, n, SettledRow(att[r][n], t, k)),
             ReleaseRunResources(r, n), fence' = fence
      PROVE  Goal
  <2>1. SettledRow(att[r][n], t, k) \in AttemptRow
    BY <1>T, RowTypes
  <2>2. IsActive(att[r][n]) /\ k > att[r][n].seq
    BY <1>E DEF Applies, legalAttemptTransition, IsActive, ActiveStates
  <2>3. RowStep(att[r][n], SettledRow(att[r][n], t, k)) /\ ~IsActive(SettledRow(att[r][n], t, k))
    BY <2>2, <1>T DEF RowStep, SettledRow, IsActive, AttemptRow, SettledStates, ActiveStates
  <2> QED
    BY <1>E, <1>S, <2>1, <2>2, <2>3
<1>F. ASSUME NEW r \in Runs, NEW n \in DOMAIN att[r], IsActive(att[r][n]),
             NEW k \in Nat, k >= att[r][n].seq,
             \/ SetAttempt(r, n, [att[r][n] EXCEPT !.state = "RUNNING", !.seq = k])
             \/ SetAttempt(r, n, [att[r][n] EXCEPT !.state = IF @ = "RUNNING" THEN @ ELSE "ACCEPTED", !.seq = k]),
             UNCHANGED <<activeCount, leases, fence>>
      PROVE  Goal
  <2>1. ASSUME NEW t \in ActiveStates
        PROVE  LET f == [att[r][n] EXCEPT !.state = t, !.seq = k] IN
                 f \in AttemptRow /\ RowStep(att[r][n], f) /\ IsActive(f)
    <3>1. att[r][n] \in AttemptRow
      BY <1>T
    <3> QED
      BY <1>F, <3>1, RowStepActive
  <2>2. (IF att[r][n].state = "RUNNING" THEN att[r][n].state ELSE "ACCEPTED") \in ActiveStates
    BY DEF ActiveStates
  <2>3. "RUNNING" \in ActiveStates
    BY DEF ActiveStates
  <2>4. PICK t \in ActiveStates : SetAttempt(r, n, [att[r][n] EXCEPT !.state = t, !.seq = k])
    BY <1>F, <2>2, <2>3
  <2> QED
    BY <1>F, <1>Q, <2>1, <2>4
<1> HIDE DEF Goal
<1>1. ASSUME NEW r \in Runs, Operator(r)
      PROVE  Goal
  BY <1>1, <1>U DEF Operator, Create, RequestCancellation, Retry, ScheduleReplacement
<1>2. ASSUME NEW r \in Runs, NEW w \in Runners, ClaimWaiting(r, w)
      PROVE  Goal
  BY <1>2 DEF Goal
<1>3. ASSUME NEW r \in Runs, NEW n \in DOMAIN att[r], PublishExecute(r, n) \/ PublishCancel(r, n) \/ ClaimCancelling(r, n)
      PROVE  Goal
  <2>1. PICK f \in AttemptRow : /\ SetAttempt(r, n, f)
                                /\ RowStep(att[r][n], f)
                                /\ IsActive(f) <=> IsActive(att[r][n])
    BY <1>3, <1>T DEF PublishExecute, PublishCancel, ClaimCancelling, AttemptRow, RowStep, IsActive
  <2> QED
    BY <1>3, <1>Q, <2>1 DEF PublishExecute, PublishCancel, ClaimCancelling
<1>4. ASSUME NEW r \in Runs, NEW n \in DOMAIN att[r], ClaimStart(r, n)
      PROVE  Goal
  <2>1. IsActive(att[r][n])
    BY <1>4 DEF ClaimStart, StartAllowed, IsActive, ActiveStates
  <2>2. MaxOf(att[r][n].seq, 1) \in Nat /\ MaxOf(att[r][n].seq, 1) >= att[r][n].seq
    BY <1>T DEF AttemptRow, MaxOf
  <2> QED
    BY <1>4, <1>F, <2>1, <2>2 DEF ClaimStart
<1>5. ASSUME NEW r \in Runs, NEW n \in DOMAIN att[r],
             ReconcileTimedOutDispatches(r, n) \/ ReconcileStaleCancellations(r, n)
      PROVE  Goal
  <2>1. IsActive(att[r][n])
    BY <1>5 DEF ReconcileTimedOutDispatches, ReconcileStaleCancellations, TimedOut, Active, IsActive, ActiveStates
  <2>2. PICK t \in {"FAILED", "UNKNOWN", "CANCELLED"}, e \in {"PENDING", "PUBLISHED", "FAILED"} :
          SettleBoth(r, n, t, e) /\ (att[r][n].execute = "FAILED" => e = "FAILED")
    BY <1>5, <1>T DEF ReconcileTimedOutDispatches, ReconcileStaleCancellations, TimeoutState, AttemptRow
  <2> DEFINE k == MaxOf(att[r][n].seq + 1, 3)
             f == [SettledRow(att[r][n], t, k) EXCEPT !.execute = e]
  <2>3. k \in Nat /\ k >= att[r][n].seq
    BY <1>T DEF AttemptRow, MaxOf
  <2> HIDE DEF k
  <2>4. f \in AttemptRow /\ ~IsActive(f) /\ RowStep(att[r][n], f)
    BY <1>T, <2>1, <2>2, <2>3 DEF SettledRow, AttemptRow, SettledStates, ActiveStates, IsActive, RowStep
  <2>5. SetAttempt(r, n, f) /\ ReleaseRunResources(r, n) /\ fence' = fence
    BY <2>2 DEF SettleBoth, k
  <2> HIDE DEF f
  <2> QED
    BY <1>S, <2>1, <2>4, <2>5
<1>6. ASSUME NEW r \in Runs, NEW n \in DOMAIN att[r], EventAccepted(r, n, 1) \/ EventStarted(r, n, 2)
      PROVE  Goal
  <2>1. IsActive(att[r][n])
    BY <1>6 DEF EventAccepted, EventStarted, Applies, legalAttemptTransition, IsActive, ActiveStates
  <2>2. att[r][n].seq \in Nat
    BY <1>T DEF AttemptRow
  <2>3. CASE EventAccepted(r, n, 1)
    <3>1. 1 >= att[r][n].seq
      BY <2>2, <2>3 DEF EventAccepted, Applies
    <3> QED
      BY <2>1, <2>3, <3>1, <1>F DEF EventAccepted
  <2>4. CASE EventStarted(r, n, 2)
    <3>1. 2 >= att[r][n].seq
      BY <2>2, <2>4 DEF EventStarted, Applies
    <3> QED
      BY <2>1, <2>4, <3>1, <1>F DEF EventStarted
  <2> QED
    BY <1>6, <2>3, <2>4
<1>7. ASSUME NEW r \in Runs, NEW n \in DOMAIN att[r], NEW kind \in {"completed", "cancelled"},
             EventFinished(r, n, kind, 3)
      PROVE  Goal
  BY <1>7, <1>E DEF EventFinished, SettledStates
<1>8. ASSUME NEW r \in Runs, NEW n \in DOMAIN att[r], NEW kind \in {"failed", "timed_out"},
             NEW retryable \in BOOLEAN, EventFailed(r, n, kind, 3, retryable)
      PROVE  Goal
  BY <1>8, <1>E DEF EventFailed, SettledStates
<1>9. ASSUME NEW r \in Runs, NEW n \in DOMAIN att[r], NEW seq \in UnknownSeqs, EventUnknown(r, n, seq)
      PROVE  Goal
  <2>1. seq \in Nat
    BY DEF UnknownSeqs
  <2> QED
    BY <1>9, <1>E, <2>1 DEF EventUnknown, SettledStates
<1>10. ASSUME NEW w \in Runners, Fleet(w)
       PROVE  Goal
  BY <1>10, <1>U DEF Fleet, Archive, SetReady
<1>11. ASSUME Tick
       PROVE  Goal
  <2>1. ASSUME NEW row \in AttemptRow
        PROVE  /\ RowStep(row, [row EXCEPT !.leaseIn = Dec(@), !.staleIn = Dec(@)])
               /\ IsActive([row EXCEPT !.leaseIn = Dec(@), !.staleIn = Dec(@)]) <=> IsActive(row)
    BY DEF AttemptRow, RowStep, IsActive
  <2>2. ASSUME NEW r \in Runs
        PROVE  /\ DOMAIN att'[r] = DOMAIN att[r]
               /\ \A n \in DOMAIN att[r] :
                     att'[r][n] = [att[r][n] EXCEPT !.leaseIn = Dec(@), !.staleIn = Dec(@)]
    BY <1>11 DEF Tick
  <2>3. QuietStep
    BY <1>11, <1>T, <2>1, <2>2 DEF QuietStep, Tick
  <2> QED
    BY <2>3 DEF Goal
<1>12. ASSUME UNCHANGED vars
       PROVE  Goal
  BY <1>12, <1>U DEF vars
<1>13. Goal
  BY <1>1, <1>2, <1>3, <1>4, <1>5, <1>6, <1>7, <1>8, <1>9, <1>10, <1>11, <1>12
  DEF Next, Dispatcher, RunnerEvent
<1> QED
  BY <1>13 DEF Goal
-----------------------------------------------------------------------------
(* Leases *)

\* Leases follow the attempts: kept with them, dropped when they settle,
\* replaced only after they expired.
LEMMA LeasesStep ==
    ASSUME TypeOK, Coherent, LeasesExclusive, [Next]_vars
    PROVE  LeasesExclusive'
<1>T. /\ att \in AttemptTable /\ leases \subseteq LeaseRow /\ fence \in [Resources -> Nat]
      /\ \A l \in leases : l.run \in Runs /\ l.res \in Resources /\ l.num \in Nat
  BY DEF TypeOK, AttemptTable, LeaseRow
<1>1. CASE QuietStep
  BY <1>1, <1>T DEF QuietStep, LeasesExclusive, Active, IsActive
<1>2. ASSUME NEW r \in Runs, NEW n \in DOMAIN att[r], SettleStep(r, n)
      PROVE  LeasesExclusive'
  BY <1>2, <1>T DEF SettleStep, ReleaseRunResources, LeasesExclusive, Active, IsActive
<1>3. ASSUME NEW r \in Runs, NEW w \in Runners, ClaimWaiting(r, w)
      PROVE  LeasesExclusive'
  <2> DEFINE num == Len(att[r]) + 1
             fresh == {[res |-> x, run |-> r, num |-> num, token |-> fence[x] + 1] : x \in Requires[r]}
             kept == {l \in leases : l.res \notin Requires[r]}
  <2>1. leases' = kept \cup fresh
    BY <1>3 DEF ClaimWaiting, Claimable, Held, TakeLeases
  <2>2. fence' = [x \in Resources |-> IF x \in Requires[r] THEN fence[x] + 1 ELSE fence[x]]
    BY <1>3 DEF ClaimWaiting, TakeLeases
  <2>3. Requires[r] \subseteq Resources
    BY TaskAssumption
  <2>4. att[r] \in Seq(AttemptRow) /\ NewAttempt(w) \in AttemptRow /\ NewAttempt(w).state \in ActiveStates
    BY <1>T, NewAttemptType DEF AttemptTable, ActiveStates
  <2>5. att' = [att EXCEPT ![r] = Append(att[r], NewAttempt(w))]
    BY <1>3 DEF ClaimWaiting
  <2>6. /\ num \in DOMAIN att'[r] /\ IsActive(att'[r][num])
        /\ \A q \in Runs : \A m \in DOMAIN att[q] : m \in DOMAIN att'[q] /\ att'[q][m] = att[q][m]
    BY <1>T, <2>4, <2>5, AppendProperties, LenProperties DEF AttemptTable, IsActive
  <2>7. ASSUME NEW l \in kept
        PROVE  /\ l.num \in DOMAIN att'[l.run] /\ IsActive(att'[l.run][l.num])
               /\ l.res \in Requires[l.run]
               /\ l.token = fence'[l.res]
    BY <1>T, <2>2, <2>6 DEF LeasesExclusive, Active, IsActive
  <2>8. ASSUME NEW l \in fresh
        PROVE  /\ l.num \in DOMAIN att'[l.run] /\ IsActive(att'[l.run][l.num])
               /\ l.res \in Requires[l.run]
               /\ l.token = fence'[l.res]
    BY <2>2, <2>3, <2>6
  <2>9. \A l, k \in kept \cup fresh : k.res = l.res => k = l
    <3>1. \A l, k \in kept : k.res = l.res => k = l
      BY DEF LeasesExclusive
    <3>2. \A l, k \in fresh : k.res = l.res => k = l
      OBVIOUS
    <3>3. \A l \in kept, k \in fresh : k.res # l.res
      OBVIOUS
    <3> QED
      BY <3>1, <3>2, <3>3
  <2> HIDE DEF kept, fresh
  <2> QED
    BY <2>1, <2>7, <2>8, <2>9 DEF LeasesExclusive, Active, IsActive
<1> QED
  BY <1>1, <1>2, <1>3, StepKinds

\* A resource has at most one ACTIVE lease, with the newest fencing token and
\* an active attempt behind it, for any sharing of resources among runs.
THEOREM ExclusiveLeases == Spec => []LeasesExclusive
<1>1. Init => LeasesExclusive
  BY DEF Init, LeasesExclusive
<1>2. (TypeOK /\ Coherent) /\ LeasesExclusive /\ [Next]_vars => LeasesExclusive'
  BY LeasesStep
<1> QED
  BY <1>1, <1>2, CoherentInv, PTL DEF Spec

-----------------------------------------------------------------------------
(* Slots *)

\* The count of a runner follows the set of runs active on it.
LEMMA SlotsStep ==
    ASSUME TypeOK, Coherent, SlotsAccounted, [Next]_vars
    PROVE  SlotsAccounted'
<1>T. /\ att \in AttemptTable /\ activeCount \in [Runners -> Nat]
      /\ Capacity \in [Runners -> Nat \ {0}]
  BY TaskAssumption DEF TypeOK, AttemptTable
<1>A. \A w : ActiveOn(w) = {q \in Runs : \E m \in DOMAIN att[q] : IsActive(att[q][m]) /\ att[q][m].runner = w}
  BY DEF ActiveOn, Active, IsActive
<1>B. \A w : ActiveOn(w)' = {q \in Runs : \E m \in DOMAIN att'[q] : IsActive(att'[q][m]) /\ att'[q][m].runner = w}
  BY DEF ActiveOn, Active, IsActive
<1>F. \A w : IsFiniteSet(ActiveOn(w))
  BY SetsAssumption, FS_Subset DEF ActiveOn
<1>1. CASE QuietStep
  <2>1. \A w : ActiveOn(w)' = ActiveOn(w)
    BY <1>1, <1>A, <1>B DEF QuietStep, RowStep
  <2> QED
    BY <1>1, <2>1 DEF SlotsAccounted, QuietStep
<1>2. ASSUME NEW r \in Runs, NEW n \in DOMAIN att[r], SettleStep(r, n)
      PROVE  SlotsAccounted'
  <2> DEFINE v == att[r][n].runner
  <2>1. v \in Runners
    BY AttemptAt
  <2>2. \A m \in DOMAIN att[r] : IsActive(att[r][m]) => m = n
    BY <1>2 DEF SettleStep, Coherent, RunCoherent, IsActive
  <2>3. r \in ActiveOn(v) /\ \A w : r \in ActiveOn(w) => w = v
    BY <1>2, <1>A, <2>2 DEF SettleStep
  <2>4. \A w : ActiveOn(w)' = ActiveOn(w) \ {r}
    BY <1>2, <1>A, <1>B, <2>2 DEF SettleStep, RowStep
  <2> HIDE DEF v
  <2>5. activeCount' = [activeCount EXCEPT ![v] = Dec(@)]
    BY <1>2 DEF SettleStep, ReleaseRunResources, v
  <2>6. ASSUME NEW w \in Runners
        PROVE  activeCount'[w] = Cardinality(ActiveOn(w)') /\ activeCount'[w] <= Capacity[w]
    <3>1. Cardinality(ActiveOn(w)') = IF r \in ActiveOn(w) THEN Cardinality(ActiveOn(w)) - 1 ELSE Cardinality(ActiveOn(w))
      BY <1>F, <2>4, FS_RemoveElement
    <3>2. activeCount[w] = Cardinality(ActiveOn(w)) /\ activeCount[w] <= Capacity[w]
      BY DEF SlotsAccounted
    <3>3. w = v => Cardinality(ActiveOn(w)) # 0
      BY <1>F, <2>3, FS_EmptySet
    <3> QED
      BY <1>T, <2>1, <2>3, <2>5, <3>1, <3>2, <3>3 DEF Dec
  <2> QED
    BY <2>6 DEF SlotsAccounted
<1>3. ASSUME NEW r \in Runs, NEW v \in Runners, ClaimWaiting(r, v)
      PROVE  SlotsAccounted'
  <2>1. att[r] \in Seq(AttemptRow) /\ NewAttempt(v) \in AttemptRow
        /\ IsActive(NewAttempt(v)) /\ NewAttempt(v).runner = v
    BY <1>T, NewAttemptType DEF AttemptTable, ActiveStates, IsActive
  <2>2. att' = [att EXCEPT ![r] = Append(att[r], NewAttempt(v))]
    BY <1>3 DEF ClaimWaiting
  <2>3. /\ DOMAIN att'[r] = DOMAIN att[r] \cup {Len(att[r]) + 1}
        /\ att'[r][Len(att[r]) + 1] = NewAttempt(v)
        /\ \A m \in DOMAIN att[r] : att'[r][m] = att[r][m]
        /\ \A q \in Runs \ {r} : att'[q] = att[q]
    BY <1>T, <2>1, <2>2, AppendProperties, LenProperties DEF AttemptTable
  <2>4. \A m \in DOMAIN att[r] : ~IsActive(att[r][m])
    BY <1>3 DEF ClaimWaiting, Claimable, Coherent, RunCoherent, FlightStates, IsActive
  <2>5. \A w : ActiveOn(w)' = IF w = v THEN ActiveOn(w) \cup {r} ELSE ActiveOn(w)
    <3>1. ASSUME NEW w, NEW q \in Runs
          PROVE  q \in ActiveOn(w)' <=> q \in ActiveOn(w) \/ (w = v /\ q = r)
      BY <1>A, <1>B, <2>1, <2>3, <2>4
    <3>2. \A w : ActiveOn(w) \subseteq Runs /\ ActiveOn(w)' \subseteq Runs
      BY DEF ActiveOn
    <3> QED
      BY <3>1, <3>2
  <2>6. r \notin ActiveOn(v)
    BY <1>A, <2>4
  <2>7. activeCount' = [activeCount EXCEPT ![v] = @ + 1] /\ activeCount[v] < Capacity[v]
    BY <1>3 DEF ClaimWaiting, Claimable
  <2>8. Cardinality(ActiveOn(v)') = Cardinality(ActiveOn(v)) + 1
    BY <1>F, <2>5, <2>6, FS_AddElement
  <2> QED
    BY <1>T, <2>5, <2>7, <2>8 DEF SlotsAccounted
<1> QED
  BY <1>1, <1>2, <1>3, StepKinds

\* active_count is exactly the number of active attempts of a runner and never
\* exceeds its capacity: no path leaks a slot or releases it twice.
THEOREM SlotsExact == Spec => []SlotsAccounted
<1>1. Init => SlotsAccounted
  <2>1. Init => \A w : ActiveOn(w) = {}
    BY EmptySeq DEF Init, ActiveOn
  <2>2. Cardinality({}) = 0 /\ \A w \in Runners : 0 <= Capacity[w]
    BY FS_EmptySet, TaskAssumption
  <2>3. Init => \A w \in Runners : activeCount[w] = 0
    BY DEF Init
  <2> QED
    BY <2>1, <2>2, <2>3 DEF SlotsAccounted
<1>2. (TypeOK /\ Coherent) /\ SlotsAccounted /\ [Next]_vars => SlotsAccounted'
  BY SlotsStep
<1> QED
  BY <1>1, <1>2, CoherentInv, PTL DEF Spec
-----------------------------------------------------------------------------
(* History *)

\* Late, duplicated and reordered events never rewrite a settled attempt, and
\* an order declared a start failure is never published.
THEOREM HistoryNeverRewritten == Spec => HistoryFrozen
<1>1. ASSUME TypeOK, Coherent, [Next]_vars
      PROVE  AttemptHistory
  <2>T. att \in AttemptTable /\ \A r \in Runs : att[r] \in Seq(AttemptRow) /\ att'[r] \in Seq(AttemptRow)
    BY <1>1, TypeStep DEF TypeOK, AttemptTable
  <2>L. \A r \in Runs : /\ DOMAIN att[r] = 1..Len(att[r]) /\ Len(att[r]) \in Nat
                        /\ DOMAIN att'[r] = 1..Len(att'[r]) /\ Len(att'[r]) \in Nat
    BY <2>T, LenProperties
  <2>1. ASSUME \A r \in Runs : /\ DOMAIN att'[r] = DOMAIN att[r]
                               /\ \A n \in DOMAIN att[r] : RowStep(att[r][n], att'[r][n])
        PROVE  AttemptHistory
    <3>1. \A r \in Runs : Len(att'[r]) = Len(att[r])
      BY <2>1, <2>L
    <3> QED
      BY <2>1, <2>L, <3>1 DEF AttemptHistory, RowStep, Active
  <2>2. CASE QuietStep
    BY <2>1, <2>2 DEF QuietStep
  <2>3. ASSUME NEW r \in Runs, NEW n \in DOMAIN att[r], SettleStep(r, n)
        PROVE  AttemptHistory
    BY <2>1, <2>3 DEF SettleStep
  <2>4. ASSUME NEW r \in Runs, NEW w \in Runners, ClaimWaiting(r, w)
        PROVE  AttemptHistory
    <3>1. att' = [att EXCEPT ![r] = Append(att[r], NewAttempt(w))]
      BY <2>4 DEF ClaimWaiting
    <3>2. \A q \in Runs : /\ Len(att'[q]) >= Len(att[q])
                          /\ \A n \in DOMAIN att[q] : att'[q][n] = att[q][n]
      BY <2>T, <2>L, <3>1, NewAttemptType, AppendProperties DEF AttemptTable
    <3>3. \A q \in Runs : \A n \in DOMAIN att[q] : att[q][n].seq \in Nat
      BY <1>1, AttemptAt DEF AttemptRow
    <3> QED
      BY <3>2, <3>3 DEF AttemptHistory
  <2> QED
    BY <1>1, <2>2, <2>3, <2>4, StepKinds
<1>2. (TypeOK /\ Coherent) /\ [Next]_vars => [AttemptHistory]_vars
  BY <1>1
<1> QED
  BY <1>2, CoherentInv, PTL DEF Spec, HistoryFrozen
\* SUCCEEDED and CANCELLED are final, FAILED and UNKNOWN are left only by a
\* retry with an attempt left.
THEOREM ClosedRunsFinal == Spec => ClosedRunsStay
<1>1. ASSUME TypeOK, Coherent, [Next]_vars
      PROVE  ReopenedByRetry
  <2> USE DEF SettledStates
  <2>T. run \in [Runs -> RunRow] /\ \A q \in Runs : RunCoherent(q, run[q].state, att[q])
    BY <1>1 DEF TypeOK, Coherent
  \* a step that writes one run, which is not settled
  <2>W. ASSUME NEW r \in Runs, NEW f, SetRun(r, f), run[r].state \notin SettledStates
        PROVE  ReopenedByRetry
    BY <2>W, <2>T DEF SetRun, ReopenedByRetry
  <2>A. ASSUME NEW r \in Runs, NEW n \in DOMAIN att[r], Active(r, n)
        PROVE  run[r].state \notin SettledStates
    BY <2>A, <2>T DEF RunCoherent, Active, FlightStates
  <2>E. ASSUME NEW r \in Runs, NEW n \in DOMAIN att[r], NEW kind, NEW k, Applies(r, n, kind, k)
        PROVE  run[r].state \notin SettledStates
    <3>1. Active(r, n)
      BY <2>E DEF Applies, legalAttemptTransition, Active, ActiveStates
    <3> QED
      BY <3>1, <2>A
  <2>U. ASSUME \A q \in Runs : run'[q].state = run[q].state
        PROVE  ReopenedByRetry
    BY <2>U DEF ReopenedByRetry
  <2>1. ASSUME NEW r \in Runs, \/ \E d \in Deadlines : Create(r, d)
                               \/ \E w \in Runners : ClaimWaiting(r, w)
                               \/ RequestCancellation(r) \/ ScheduleReplacement(r)
        PROVE  ReopenedByRetry
    BY <2>1, <2>W DEF Create, ClaimWaiting, Claimable, RequestCancellation, ScheduleReplacement
  <2>2. ASSUME NEW r \in Runs, Retry(r)
        PROVE  ReopenedByRetry
    <3>1. run'[r].state = "RETRY_WAIT" /\ \A q \in Runs \ {r} : run'[q] = run[q]
      BY <2>2, <2>T DEF Retry, SetRun, RunRow
    <3> QED
      BY <2>2, <3>1 DEF Retry, ReopenedByRetry
  <2>3. ASSUME NEW r \in Runs, NEW n \in DOMAIN att[r],
               PublishExecute(r, n) \/ PublishCancel(r, n) \/ ClaimCancelling(r, n)
        PROVE  ReopenedByRetry
    BY <2>3, <2>U DEF PublishExecute, PublishCancel, ClaimCancelling
  <2>4. ASSUME NEW r \in Runs, NEW n \in DOMAIN att[r],
               ClaimStart(r, n) \/ ReconcileTimedOutDispatches(r, n) \/ ReconcileStaleCancellations(r, n)
        PROVE  ReopenedByRetry
    BY <2>4, <2>W DEF ClaimStart, StartAllowed, ReconcileTimedOutDispatches, TimedOut,
                      ReconcileStaleCancellations, SettleBoth
  <2>5. ASSUME NEW r \in Runs, RunnerEvent(r)
        PROVE  ReopenedByRetry
    <3>1. PICK n \in DOMAIN att[r] :
            \/ EventAccepted(r, n, 1) \/ EventStarted(r, n, 2)
            \/ \E kind \in {"completed", "cancelled"} : EventFinished(r, n, kind, 3)
            \/ \E kind \in {"failed", "timed_out"}, retryable \in BOOLEAN : EventFailed(r, n, kind, 3, retryable)
            \/ \E seq \in UnknownSeqs : EventUnknown(r, n, seq)
      BY <2>5 DEF RunnerEvent
    <3>2. CASE EventAccepted(r, n, 1)
      BY <3>2, <2>U DEF EventAccepted
    <3>3. CASE EventStarted(r, n, 2)
      BY <3>3, <2>E, <2>W DEF EventStarted
    <3>4. ASSUME NEW kind \in {"completed", "cancelled"}, EventFinished(r, n, kind, 3)
          PROVE  ReopenedByRetry
      BY <3>4, <2>E, <2>W DEF EventFinished, EventRun
    <3>5. ASSUME NEW kind \in {"failed", "timed_out"}, NEW retryable \in BOOLEAN,
                 EventFailed(r, n, kind, 3, retryable)
          PROVE  ReopenedByRetry
      <4>1. run[r].state \notin SettledStates
        BY <3>5, <2>E DEF EventFailed
      <4> QED
        BY <3>5, <4>1, <2>W DEF EventFailed, EventRun
    <3>6. ASSUME NEW seq \in UnknownSeqs, EventUnknown(r, n, seq)
          PROVE  ReopenedByRetry
      BY <3>6, <2>E, <2>W DEF EventUnknown, EventRun
    <3> QED
      BY <3>1, <3>2, <3>3, <3>4, <3>5, <3>6
  <2>6. ASSUME NEW w \in Runners, Archive(w)
        PROVE  ReopenedByRetry
    <3>1. \A q \in Runs : run'[q] = run[q] \/ run[q].state \notin SettledStates
      BY <2>6 DEF Archive
    <3> QED
      BY <3>1 DEF ReopenedByRetry
  <2>7. ASSUME NEW w \in Runners, NEW b \in BOOLEAN, SetReady(w, b)
        PROVE  ReopenedByRetry
    BY <2>7, <2>U DEF SetReady
  <2>8. CASE Tick
    <3>1. \A q \in Runs : run'[q].state = run[q].state
      BY <2>8, <2>T DEF Tick, RunRow
    <3> QED
      BY <3>1, <2>U
  <2>9. CASE UNCHANGED vars
    BY <2>9, <2>U DEF vars
  <2> QED
    BY <1>1, <2>1, <2>2, <2>3, <2>4, <2>5, <2>6, <2>7, <2>8, <2>9 DEF Next, Operator, Dispatcher, Fleet
<1>2. (TypeOK /\ Coherent) /\ [Next]_vars => [ReopenedByRetry]_vars
  BY <1>1
<1> QED
  BY <1>2, CoherentInv, PTL DEF Spec, ClosedRunsStay
=============================================================================
