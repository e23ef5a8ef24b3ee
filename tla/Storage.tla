------------------------------ MODULE Storage -------------------------------
(***************************************************************************)
(* Storage pressure and retention (platform/storage.go,                    *)
(* store/storage_pressure.go, store/retention.go, the hourly cleanup of    *)
(* cmd/controlplane/main.go): new runs are refused while the database is   *)
(* nearly full, and old rows are deleted.                                  *)
(*                                                                         *)
(* A caller reads the size of the database and then, under the monitor's   *)
(* mutex, lets the monitor judge it; several callers do so at once.  The   *)
(* space that a deletion gives back, if any, is up to the database.  A     *)
(* cleanup statement chooses its rows before it deletes them.              *)
(***************************************************************************)
EXTENDS Integers, FiniteSets

CONSTANTS
    Levels,      \* percentages of free space that occur
    Admissions,  \* attempts to create a run that may be under way at once
    Records,     \* rows under retention
    KindOf,      \* what they are: run, dead_letter, audit or metric
    MaxRounds    \* batches of a critical cleanup (100)

ASSUME StorageAssumption ==
    /\ Levels \subseteq 0..100
    /\ KindOf \in [Records -> {"run", "dead_letter", "audit", "metric"}]
    /\ MaxRounds \in Nat \ {0}

VARIABLES
    free,        \* percentage of the capacity that is free
    monitor,     \* StoragePressureMonitor.state
    admission,   \* run creations under way
    record,      \* the rows
    cleanup,     \* the retention loop
    depleted,    \* history: 5% was observed and more than 10% not yet since
    late         \* history: rows put on hold after a statement had chosen them

storageVars == <<free, monitor, admission, record, cleanup, depleted, late>>

States == {"NONE", "NORMAL", "WARNING", "CRITICAL", "EMERGENCY"}

\* settled: SUCCEEDED, FAILED or CANCELLED, RECONCILED or DISCARDED; age 1: over
\* seven days, 2: over the months to keep
RecordRow == [state : {"none", "open", "settled", "gone"}, age : 0..2, held : BOOLEAN]
AdmissionRow == [phase : {"idle", "read", "admitted"}, read : SUBSET Levels]   \* read: what free was
NoAdmission == [phase |-> "idle", read |-> {}]
CleanupRow == [phase : {"idle", "expired", "pressure", "free", "batch"}, read : SUBSET Levels,
               chosen : SUBSET Records, rounds : 0..MaxRounds]
NoCleanup == [phase |-> "idle", read |-> {}, chosen |-> {}, rounds |-> 0]

InitStorage ==
    /\ free \in Levels /\ monitor = "NONE"
    /\ admission = [q \in Admissions |-> NoAdmission]
    /\ record = [x \in Records |-> [state |-> "none", age |-> 0, held |-> FALSE]]
    /\ cleanup = NoCleanup /\ depleted = FALSE /\ late = {}

-----------------------------------------------------------------------------
(* The monitor *)

EvaluateStoragePressure(percent) ==
    CASE percent <= 5 -> "EMERGENCY" [] percent > 5 /\ percent <= 10 -> "CRITICAL"
      [] percent > 10 /\ percent <= 20 -> "WARNING" [] OTHER -> "NORMAL"

PressureWithoutMemory(percent) == EvaluateStoragePressure(percent)

\* an emergency lasts until more than 10% is free
Pressure(percent) ==
    IF monitor = "EMERGENCY" /\ percent <= 10 THEN "EMERGENCY" ELSE EvaluateStoragePressure(percent)

\* StoragePressureMonitor.Observe, under the mutex
Observe(percent) ==
    /\ monitor' = Pressure(percent)
    /\ depleted' = IF percent <= 5 THEN TRUE ELSE IF percent > 10 THEN FALSE ELSE depleted

\* The database grows, is vacuumed, gets other files.
SpaceChanges(level) ==
    /\ level # free
    /\ free' = level
    /\ UNCHANGED <<monitor, admission, record, cleanup, depleted, late>>

-----------------------------------------------------------------------------
(* Creation of runs: RunStore.Create, ScheduleStore.CreateDueRun *)

ReadSize(q) ==
    /\ admission[q].phase = "idle"
    /\ admission' = [admission EXCEPT ![q] = [phase |-> "read", read |-> {free}]]
    /\ UNCHANGED <<free, monitor, record, cleanup, depleted, late>>

\* RejectNewRuns; the size could also not be read
EnsureStorageAvailable(q) ==
    /\ admission[q].phase = "read"
    /\ \E percent \in admission[q].read :
        /\ Observe(percent)
        /\ admission' = [admission EXCEPT ![q] = IF Pressure(percent) = "EMERGENCY" THEN NoAdmission
                                                 ELSE [NoAdmission EXCEPT !.phase = "admitted"]]
    /\ UNCHANGED <<free, record, cleanup, late>>

\* An admitted run is stored; dead letters, audit events and metrics are stored anyway.
Store(x) ==
    /\ record[x].state = "none"
    /\ record' = [record EXCEPT ![x].state = "open"]
    /\ IF KindOf[x] = "run"
       THEN \E q \in Admissions : /\ admission[q].phase = "admitted"
                                  /\ admission' = [admission EXCEPT ![q] = NoAdmission]
       ELSE UNCHANGED admission
    /\ UNCHANGED <<free, monitor, cleanup, depleted, late>>

Settle(x) ==
    /\ record[x].state = "open" /\ KindOf[x] \in {"run", "dead_letter"}
    /\ record' = [record EXCEPT ![x].state = "settled"]
    /\ UNCHANGED <<free, monitor, admission, cleanup, depleted, late>>

Age(x) ==
    /\ record[x].state \in {"open", "settled"} /\ record[x].age < 2
    /\ record' = [record EXCEPT ![x].age = @ + 1]
    /\ UNCHANGED <<free, monitor, admission, cleanup, depleted, late>>

\* SetLegalHold: no lock on the row it protects
SetLegalHold(x, held) ==
    /\ record[x].state \in {"open", "settled"} /\ record[x].held # held /\ KindOf[x] # "metric"
    /\ record' = [record EXCEPT ![x].held = held]
    /\ late' = late \cup {y \in {x} : held /\ y \in cleanup.chosen}
    /\ UNCHANGED <<free, monitor, admission, cleanup, depleted>>

-----------------------------------------------------------------------------
(* The hourly cleanup *)

Goto(phase) == cleanup' = [cleanup EXCEPT !.phase = phase]

\* deleteRunBatch, deleteDeadLetterBatch, deleteAuditBatch, deleteRunnerMetricsBatch
Eligible(x, limit) ==
    /\ record[x].state = "settled" \/ (record[x].state = "open" /\ KindOf[x] \in {"audit", "metric"})
    /\ record[x].age >= limit
    /\ ~record[x].held

\* Purge: rows past the months to keep; rows others have locked are skipped
StartPurge(rows) ==
    /\ cleanup.phase = "idle"
    /\ \A x \in rows : Eligible(x, 2)
    /\ cleanup' = [NoCleanup EXCEPT !.phase = "expired", !.chosen = rows]
    /\ UNCHANGED <<free, monitor, admission, record, depleted, late>>

Delete(rows) == record' = [x \in Records |-> IF x \in rows THEN [record[x] EXCEPT !.state = "gone"] ELSE record[x]]

CommitPurge ==
    /\ cleanup.phase = "expired"
    /\ Delete(cleanup.chosen)
    /\ cleanup' = [NoCleanup EXCEPT !.phase = "pressure"]
    /\ UNCHANGED <<free, monitor, admission, depleted, late>>

\* storagePressure, for the first time and before every batch
ReadPressure ==
    /\ cleanup.phase \in {"pressure", "free"} /\ cleanup.read = {}
    /\ cleanup' = [cleanup EXCEPT !.read = {free}]
    /\ UNCHANGED <<free, monitor, admission, record, depleted, late>>

\* purgeControlPlaneRetention: only CRITICAL and EMERGENCY go on
JudgePressure ==
    /\ cleanup.phase = "pressure"
    /\ \E percent \in cleanup.read :
        /\ Observe(percent)
        /\ cleanup' = IF Pressure(percent) \in {"CRITICAL", "EMERGENCY"}
                      THEN [NoCleanup EXCEPT !.phase = "free"] ELSE NoCleanup
    /\ UNCHANGED <<free, admission, record, late>>

EnoughFree(percent) == percent >= 15

\* PurgeCriticalRuns: the next batch, or the end
JudgeFree(rows) ==
    /\ cleanup.phase = "free"
    /\ \A x \in rows : KindOf[x] = "run" /\ Eligible(x, 1)
    /\ \E percent \in cleanup.read :
        /\ Observe(percent)
        /\ cleanup' = IF EnoughFree(percent) THEN NoCleanup
                      ELSE [cleanup EXCEPT !.phase = "batch", !.chosen = rows, !.rounds = @ + 1]
    /\ UNCHANGED <<free, admission, record, late>>

\* purgeRunBatch commits; a batch with no row is the last
CommitBatch ==
    /\ cleanup.phase = "batch"
    /\ Delete(cleanup.chosen)
    /\ cleanup' = IF cleanup.chosen = {} \/ cleanup.rounds = MaxRounds THEN NoCleanup
                  ELSE [cleanup EXCEPT !.phase = "free", !.chosen = {}, !.read = {}]
    /\ UNCHANGED <<free, monitor, admission, depleted, late>>

\* an error ends the cleanup, and rolls back what is not committed
CleanupFails ==
    /\ cleanup.phase # "idle"
    /\ cleanup' = NoCleanup
    /\ UNCHANGED <<free, monitor, admission, record, depleted, late>>

\* the monitor starts anew
Restart ==
    /\ monitor # "NONE"
    /\ monitor' = "NONE" /\ depleted' = FALSE
    /\ cleanup' = NoCleanup /\ admission' = [q \in Admissions |-> NoAdmission]
    /\ UNCHANGED <<free, record, late>>

NextStorage ==
    \/ \E level \in Levels : SpaceChanges(level)
    \/ \E q \in Admissions : ReadSize(q) \/ EnsureStorageAvailable(q)
    \/ \E x \in Records : Store(x) \/ Settle(x) \/ Age(x) \/ \E held \in BOOLEAN : SetLegalHold(x, held)
    \/ \E rows \in SUBSET Records : StartPurge(rows) \/ JudgeFree(rows)
    \/ CommitPurge \/ ReadPressure \/ JudgePressure \/ CommitBatch \/ CleanupFails \/ Restart

SpecStorage == InitStorage /\ [][NextStorage]_storageVars

-----------------------------------------------------------------------------
(* Properties *)

\* Every variable has its type.
StorageTypeOK ==
    /\ free \in Levels /\ monitor \in States
    /\ admission \in [Admissions -> AdmissionRow]
    /\ record \in [Records -> RecordRow]
    /\ cleanup \in CleanupRow
    /\ depleted \in BOOLEAN /\ late \subseteq Records

\* After an observation of 5% or less no run is admitted until someone has
\* observed more than 10%, in whatever order the callers' readings reach the
\* monitor; a restart forgets the emergency.
EmergencyLasts ==
    [][\A q \in Admissions :
         (admission'[q].phase = "admitted" /\ admission[q].phase = "read") => ~depleted']_storageVars

\* Nothing is deleted that is still in progress, is not seven days old, or was
\* under a legal hold when the statement chose its rows.
OnlyEligibleDeleted ==
    [][\A x \in Records : (record'[x].state = "gone" /\ record[x].state # "gone") =>
         /\ record[x].state = "settled" \/ KindOf[x] \in {"audit", "metric"}
         /\ record[x].age > 0
         /\ record[x].held => x \in late]_storageVars

\* "cleanup targets 15%": runs are deleted before their months have passed only
\* by a cleanup that found less than 15% free just before, and only runs are.
EarlyDeletionIsCritical ==
    [][\A x \in Records : (record'[x].state = "gone" /\ record[x].state # "gone" /\ record[x].age < 2) =>
         KindOf[x] = "run" /\ \E percent \in cleanup.read : percent < 15]_storageVars

\* What retention and the pressure monitor promise together.
StorageGuarded == EmergencyLasts /\ OnlyEligibleDeleted /\ EarlyDeletionIsCritical
=============================================================================
