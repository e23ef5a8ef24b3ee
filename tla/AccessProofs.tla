---------------------------- MODULE AccessProofs ----------------------------
(***************************************************************************)
(* Proofs about the control plane's own services (Storage, SignIn,         *)
(* Sessions, Gateway, Accounts), each for any values of its constants.     *)
(***************************************************************************)
EXTENDS MCAccess, TLAPS, SequenceTheorems, FiniteSetTheorems

-----------------------------------------------------------------------------
(* Storage *)

\* A row a statement has chosen stays one it may delete, except for a hold put on it since.
Deletable(x, limit) ==
    /\ record[x].state = "settled" \/ KindOf[x] \in {"audit", "metric"}
    /\ record[x].age >= limit
    /\ record[x].held => x \in late

\* An emergency is in the monitor's memory, a statement's rows are fit to be
\* deleted, a critical batch follows a reading below 15%, and rounds are left.
PressureKept ==
    /\ depleted => monitor = "EMERGENCY"
    /\ cleanup.phase = "expired" => \A x \in cleanup.chosen : Deletable(x, 2)
    /\ cleanup.phase = "batch" => /\ \E percent \in cleanup.read : percent < 15
                                  /\ \A x \in cleanup.chosen : KindOf[x] = "run" /\ Deletable(x, 1)
    /\ cleanup.phase = "free" => cleanup.rounds < MaxRounds

StorageInv == StorageTypeOK /\ PressureKept

\* Rows of Storage that the actions build.
LEMMA StorageRows ==
    /\ NoAdmission \in AdmissionRow
    /\ [NoAdmission EXCEPT !.phase = "admitted"] \in AdmissionRow
    /\ NoCleanup \in CleanupRow /\ NoCleanup.phase = "idle"
  BY StorageAssumption DEF NoAdmission, AdmissionRow, NoCleanup, CleanupRow

\* The first state.
LEMMA StorageInit == InitStorage => StorageInv
<1> SUFFICES ASSUME InitStorage PROVE StorageInv
  OBVIOUS
<1>1. [state |-> "none", age |-> 0, held |-> FALSE] \in RecordRow
  BY DEF RecordRow
<1>2. StorageTypeOK
  BY <1>1, StorageRows DEF InitStorage, StorageTypeOK, States
<1>3. PressureKept
  BY StorageRows DEF InitStorage, PressureKept
<1> QED
  BY <1>2, <1>3 DEF StorageInv

\* Observe keeps an emergency for as long as it is in force, and a caller that
\* is told of none finds none in force.
LEMMA ObserveRemembers ==
    ASSUME StorageInv, NEW percent \in Levels, Observe(percent)
    PROVE  /\ monitor' \in States /\ depleted' \in BOOLEAN
           /\ depleted' => Pressure(percent) = "EMERGENCY"
           /\ monitor' = Pressure(percent)
<1>1. percent \in Int
  BY StorageAssumption
<1>2. EvaluateStoragePressure(percent) \in {"NORMAL", "WARNING", "CRITICAL", "EMERGENCY"}
  BY <1>1 DEF EvaluateStoragePressure
<1>3. percent <= 5 => EvaluateStoragePressure(percent) = "EMERGENCY"
  BY <1>1 DEF EvaluateStoragePressure
<1>4. Pressure(percent) \in States
  BY <1>2 DEF Pressure, States
<1>5. depleted' \in BOOLEAN
  BY DEF Observe, StorageInv, StorageTypeOK
<1>6. CASE percent <= 5
  BY <1>3, <1>4, <1>5, <1>6 DEF Observe, Pressure
<1>7. CASE ~(percent <= 5) /\ percent > 10
  BY <1>1, <1>4, <1>5, <1>7 DEF Observe
<1>8. CASE ~(percent <= 5) /\ ~(percent > 10)
  <2>1. percent <= 10 /\ depleted' = depleted
    BY <1>1, <1>8 DEF Observe
  <2>2. depleted => monitor = "EMERGENCY"
    BY DEF StorageInv, PressureKept
  <2>3. depleted' => Pressure(percent) = "EMERGENCY"
    BY <2>1, <2>2 DEF Pressure
  <2> QED
    BY <1>4, <1>5, <2>3 DEF Observe
<1> QED
  BY <1>1, <1>6, <1>7, <1>8

\* A change of one row in a way that keeps a chosen row deletable.
RowChange(x, row) ==
    /\ record' = [record EXCEPT ![x] = row]
    /\ row \in RecordRow
    /\ late \subseteq late' /\ late' \subseteq Records
    /\ record[x].state = "settled" => row.state = "settled"
    /\ row.age >= record[x].age
    /\ x \in cleanup.chosen /\ row.held => record[x].held \/ x \in late'
    /\ row.state # "gone"
    /\ UNCHANGED <<free, monitor, cleanup, depleted>>

\* Such a change keeps the invariant.
LEMMA RowChangeKeeps ==
    ASSUME StorageInv, NEW x \in Records, NEW row, RowChange(x, row), admission' \in [Admissions -> AdmissionRow]
    PROVE  /\ StorageInv'
           /\ \A y \in Records : record'[y].state = "gone" => record[y].state = "gone"
<1>1. StorageTypeOK'
  BY DEF StorageInv, StorageTypeOK, RowChange
<1>2. \A y \in Records : /\ y = x => record'[y] = row
                         /\ y # x => record'[y] = record[y]
  BY DEF StorageInv, StorageTypeOK, RowChange
<1>3. \A y \in Records : record[y] \in RecordRow /\ record[y].age \in Nat
  BY DEF StorageInv, StorageTypeOK, RecordRow
<1>4. row.age \in Nat /\ cleanup.chosen \subseteq Records
  BY DEF RowChange, RecordRow, StorageInv, StorageTypeOK, CleanupRow
<1>5. ASSUME NEW y \in cleanup.chosen, NEW limit \in {1, 2}, Deletable(y, limit)
      PROVE  Deletable(y, limit)'
  <2>1. CASE y = x
    BY <1>2, <1>3, <1>4, <1>5, <2>1 DEF Deletable, RowChange
  <2>2. CASE y # x
    BY <1>2, <1>3, <1>4, <1>5, <2>2 DEF Deletable, RowChange
  <2> QED
    BY <2>1, <2>2
<1>6. PressureKept'
  BY <1>5 DEF StorageInv, PressureKept, RowChange
<1>7. \A y \in Records : record'[y].state = "gone" => record[y].state = "gone"
  BY <1>2 DEF RowChange
<1> QED
  BY <1>1, <1>6, <1>7 DEF StorageInv

\* A deletion takes the chosen rows away and no other.
LEMMA DeleteRows ==
    ASSUME StorageInv, NEW rows \in SUBSET Records, Delete(rows)
    PROVE  /\ record' \in [Records -> RecordRow]
           /\ \A y \in Records : record'[y].state = "gone" /\ record[y].state # "gone" => y \in rows
<1>1. \A y \in Records : [record[y] EXCEPT !.state = "gone"] \in RecordRow /\ record[y] \in RecordRow
  BY DEF StorageInv, StorageTypeOK, RecordRow
<1> QED
  BY <1>1 DEF Delete

NoneDeleted == \A y \in Records : record'[y].state = "gone" => record[y].state = "gone"

\* A step deletes only rows that are deletable, early ones only after a low reading.
DeletesWell ==
    \A y \in Records : record'[y].state = "gone" /\ record[y].state # "gone" =>
        /\ record[y].state = "settled" \/ KindOf[y] \in {"audit", "metric"}
        /\ record[y].age > 0
        /\ record[y].held => y \in late
        /\ record[y].age < 2 => KindOf[y] = "run" /\ \E percent \in cleanup.read : percent < 15

\* No step admits a run while an emergency is in force.
AdmitsWell == \A q \in Admissions : (admission'[q].phase = "admitted" /\ admission[q].phase = "read") => ~depleted'

\* Every step keeps the invariant, deletes and admits well.
LEMMA StorageStep == StorageInv /\ [NextStorage]_storageVars => StorageInv' /\ DeletesWell /\ AdmitsWell
<1> SUFFICES ASSUME StorageInv, [NextStorage]_storageVars PROVE StorageInv' /\ DeletesWell /\ AdmitsWell
  OBVIOUS
<1>t. /\ free \in Levels /\ monitor \in States
      /\ admission \in [Admissions -> AdmissionRow]
      /\ record \in [Records -> RecordRow]
      /\ cleanup \in CleanupRow
      /\ depleted \in BOOLEAN /\ late \subseteq Records
  BY DEF StorageInv, StorageTypeOK
<1>c. /\ cleanup.phase \in {"idle", "expired", "pressure", "free", "batch"} /\ cleanup.read \in SUBSET Levels
      /\ cleanup.chosen \in SUBSET Records /\ cleanup.rounds \in 0..MaxRounds
  BY <1>t DEF CleanupRow
<1>r. \A x \in Records : /\ record[x].state \in {"none", "open", "settled", "gone"}
                         /\ record[x].age \in 0..2 /\ record[x].held \in BOOLEAN
  BY <1>t DEF RecordRow
<1>k. PressureKept
  BY DEF StorageInv
<1>z. record' = record => NoneDeleted
  BY DEF NoneDeleted
<1>w. NoneDeleted => DeletesWell
  BY DEF NoneDeleted, DeletesWell
<1>a. (\A q \in Admissions : admission'[q].phase = "admitted" => admission[q].phase = "admitted") => AdmitsWell
  BY DEF AdmitsWell
<1>1. CASE UNCHANGED storageVars
  BY <1>1, <1>z, <1>w, <1>a, <1>t, <1>k
     DEF storageVars, StorageInv, StorageTypeOK, PressureKept, Deletable
<1>2. ASSUME NEW level \in Levels, SpaceChanges(level) PROVE StorageInv' /\ DeletesWell /\ AdmitsWell
  BY <1>2, <1>z, <1>w, <1>a, <1>t, <1>k
     DEF SpaceChanges, StorageInv, StorageTypeOK, PressureKept, Deletable
<1>3. ASSUME NEW q \in Admissions, ReadSize(q) PROVE StorageInv' /\ DeletesWell /\ AdmitsWell
  <2> DEFINE row == [phase |-> "read", read |-> {free}]
  <2>1. row \in AdmissionRow
    BY <1>t DEF AdmissionRow
  <2>2. admission' \in [Admissions -> AdmissionRow] /\ AdmitsWell
    BY <2>1, <1>3, <1>t, <1>a DEF ReadSize
  <2> QED
    BY <2>2, <1>3, <1>z, <1>w, <1>t, <1>k DEF ReadSize, StorageInv, StorageTypeOK, PressureKept, Deletable
<1>4. ASSUME NEW q \in Admissions, EnsureStorageAvailable(q) PROVE StorageInv' /\ DeletesWell /\ AdmitsWell
  <2>1. admission[q].read \subseteq Levels
    BY <1>t DEF AdmissionRow
  <2>2. PICK percent \in Levels :
          /\ Observe(percent)
          /\ admission' = [admission EXCEPT ![q] = IF Pressure(percent) = "EMERGENCY" THEN NoAdmission
                                                 ELSE [NoAdmission EXCEPT !.phase = "admitted"]]
    BY <1>4, <2>1 DEF EnsureStorageAvailable
  <2>3. /\ monitor' \in States /\ depleted' \in BOOLEAN
        /\ depleted' => Pressure(percent) = "EMERGENCY"
        /\ monitor' = Pressure(percent)
    BY <2>2, ObserveRemembers
  <2>4. admission' \in [Admissions -> AdmissionRow]
    BY <2>2, <1>t, StorageRows
  <2>5. AdmitsWell
    <3> SUFFICES ASSUME NEW k \in Admissions, admission'[k].phase = "admitted", admission[k].phase = "read"
                 PROVE  ~depleted'
      BY DEF AdmitsWell
    <3>1. k = q
      BY <2>2, <1>t
    <3>2. Pressure(percent) # "EMERGENCY"
      BY <2>2, <1>t, <3>1 DEF NoAdmission
    <3> QED
      BY <3>2, <2>3
  <2> QED
    BY <2>3, <2>4, <2>5, <1>4, <1>z, <1>w, <1>t, <1>k
       DEF EnsureStorageAvailable, StorageInv, StorageTypeOK, PressureKept, Deletable
<1>5. ASSUME NEW x \in Records, Store(x) PROVE StorageInv' /\ DeletesWell /\ AdmitsWell
  <2> DEFINE row == [record[x] EXCEPT !.state = "open"]
  <2>1. row \in RecordRow
    BY <1>t DEF RecordRow
  <2>2. RowChange(x, row)
    BY <2>1, <1>5, <1>t, <1>r DEF Store, RowChange, RecordRow
  <2>3. admission' \in [Admissions -> AdmissionRow] /\ AdmitsWell
    <3>1. CASE KindOf[x] = "run"
      BY <3>1, <1>5, <1>t, <1>a, StorageRows DEF Store, NoAdmission
    <3>2. CASE KindOf[x] # "run"
      BY <3>2, <1>5, <1>t, <1>a DEF Store
    <3> QED
      BY <3>1, <3>2
  <2> QED
    BY <2>2, <2>3, <1>w, RowChangeKeeps DEF NoneDeleted
<1>6. ASSUME NEW x \in Records, Settle(x) PROVE StorageInv' /\ DeletesWell /\ AdmitsWell
  <2> DEFINE row == [record[x] EXCEPT !.state = "settled"]
  <2>1. row \in RecordRow
    BY <1>t DEF RecordRow
  <2>2. RowChange(x, row)
    BY <2>1, <1>6, <1>t, <1>r DEF Settle, RowChange, RecordRow
  <2>3. admission' \in [Admissions -> AdmissionRow] /\ AdmitsWell
    BY <1>6, <1>t, <1>a DEF Settle
  <2> QED
    BY <2>2, <2>3, <1>w, RowChangeKeeps DEF NoneDeleted
<1>7. ASSUME NEW x \in Records, Age(x) PROVE StorageInv' /\ DeletesWell /\ AdmitsWell
  <2> DEFINE row == [record[x] EXCEPT !.age = record[x].age + 1]
  <2>1. row \in RecordRow
    BY <1>t, <1>r, <1>7 DEF RecordRow, Age
  <2>2. RowChange(x, row)
    BY <2>1, <1>7, <1>t, <1>r DEF Age, RowChange, RecordRow
  <2>3. admission' \in [Admissions -> AdmissionRow] /\ AdmitsWell
    BY <1>7, <1>t, <1>a DEF Age
  <2> QED
    BY <2>2, <2>3, <1>w, RowChangeKeeps DEF NoneDeleted
<1>8. ASSUME NEW x \in Records, NEW held \in BOOLEAN, SetLegalHold(x, held)
      PROVE  StorageInv' /\ DeletesWell /\ AdmitsWell
  <2> DEFINE row == [record[x] EXCEPT !.held = held]
  <2>1. row \in RecordRow
    BY <1>t DEF RecordRow
  <2>2. RowChange(x, row)
    BY <2>1, <1>8, <1>t, <1>r, <1>c DEF SetLegalHold, RowChange, RecordRow
  <2>3. admission' \in [Admissions -> AdmissionRow] /\ AdmitsWell
    BY <1>8, <1>t, <1>a DEF SetLegalHold
  <2> QED
    BY <2>2, <2>3, <1>w, RowChangeKeeps DEF NoneDeleted
<1>9. ASSUME NEW rows \in SUBSET Records, StartPurge(rows) PROVE StorageInv' /\ DeletesWell /\ AdmitsWell
  <2> DEFINE row == [phase |-> "expired", read |-> {}, chosen |-> rows, rounds |-> 0]
  <2>1. row \in CleanupRow /\ row.phase = "expired" /\ row.chosen = rows
    BY StorageAssumption DEF CleanupRow
  <2>2. ASSUME NEW x \in rows PROVE Deletable(x, 2)'
    <3>1. x \in Records /\ Eligible(x, 2) /\ record' = record
      BY <1>9 DEF StartPurge
    <3> QED
      BY <3>1, <1>r DEF Eligible, Deletable
  <2>3. cleanup' = row
    BY <1>9 DEF StartPurge, NoCleanup
  <2> HIDE DEF row
  <2>4. DeletesWell /\ AdmitsWell
    BY <1>9, <1>z, <1>w, <1>a DEF StartPurge
  <2>5. StorageTypeOK'
    BY <2>1, <2>3, <1>9, <1>t DEF StartPurge, StorageTypeOK
  <2>6. PressureKept'
    BY <2>1, <2>2, <2>3, <1>9, <1>k DEF StartPurge, PressureKept
  <2> QED
    BY <2>4, <2>5, <2>6 DEF StorageInv
<1>10. ASSUME NEW rows \in SUBSET Records, JudgeFree(rows) PROVE StorageInv' /\ DeletesWell /\ AdmitsWell
  <2>1. PICK percent \in cleanup.read :
          /\ Observe(percent)
          /\ cleanup' = IF EnoughFree(percent) THEN NoCleanup
                      ELSE [cleanup EXCEPT !.phase = "batch", !.chosen = rows, !.rounds = @ + 1]
    BY <1>10 DEF JudgeFree
  <2>0. percent \in Levels
    BY <1>c
  <2>2. percent \in Levels /\ percent \in Int
    BY <2>0, StorageAssumption
  <2>3. /\ monitor' \in States /\ depleted' \in BOOLEAN
        /\ depleted' => monitor' = "EMERGENCY"
    BY <2>1, <2>2, ObserveRemembers
  <2>4. record' = record /\ late' = late /\ admission' = admission /\ free' = free
    BY <1>10 DEF JudgeFree
  <2>5. CASE EnoughFree(percent)
    <3>1. cleanup' = NoCleanup
      BY <2>1, <2>5
    <3>2. DeletesWell /\ AdmitsWell
      BY <2>4, <1>z, <1>w, <1>a
    <3>3. StorageTypeOK'
      BY <3>1, <2>3, <2>4, <1>t, StorageRows DEF StorageTypeOK
    <3>4. PressureKept'
      BY <3>1, <2>3, StorageRows DEF PressureKept
    <3> QED
      BY <3>2, <3>3, <3>4 DEF StorageInv
  <2>6. CASE ~EnoughFree(percent)
    <3> DEFINE row == [cleanup EXCEPT !.phase = "batch", !.chosen = rows, !.rounds = cleanup.rounds + 1]
    <3>1. cleanup.rounds + 1 \in 0..MaxRounds
      BY <1>10, <1>c, <1>k, StorageAssumption DEF JudgeFree, PressureKept
    <3>2. row \in CleanupRow /\ row.phase = "batch" /\ row.chosen = rows /\ row.read = cleanup.read
      BY <3>1, <1>t DEF CleanupRow
    <3>3. cleanup' = row
      BY <2>1, <2>6
    <3>4. \A x \in rows : KindOf[x] = "run" /\ Deletable(x, 1)'
      BY <1>10, <1>r DEF JudgeFree, Eligible, Deletable
    <3>5. percent < 15
      BY <2>2, <2>6 DEF EnoughFree
    <3> HIDE DEF row
    <3> QED
      BY <3>2, <3>3, <3>4, <3>5, <2>1, <2>3, <2>4, <1>z, <1>w, <1>a, <1>t DEF StorageInv, StorageTypeOK, PressureKept
  <2> QED
    BY <2>5, <2>6
<1>11. CASE CommitPurge
  <2> DEFINE row == [NoCleanup EXCEPT !.phase = "pressure"]
  <2>1. row \in CleanupRow /\ row.phase = "pressure"
    BY StorageAssumption DEF NoCleanup, CleanupRow
  <2>2. cleanup' = row
    BY <1>11 DEF CommitPurge
  <2>3. /\ record' \in [Records -> RecordRow]
        /\ \A y \in Records : record'[y].state = "gone" /\ record[y].state # "gone" => y \in cleanup.chosen
    BY <1>11, <1>c, DeleteRows DEF CommitPurge
  <2>4. DeletesWell
    BY <2>3, <1>11, <1>k, <1>r DEF CommitPurge, PressureKept, Deletable, DeletesWell
  <2> HIDE DEF row
  <2> QED
    BY <2>1, <2>2, <2>3, <2>4, <1>11, <1>a, <1>t, <1>k DEF CommitPurge, StorageInv, StorageTypeOK, PressureKept
<1>12. CASE ReadPressure
  <2> DEFINE row == [cleanup EXCEPT !.read = {free}]
  <2>1. row \in CleanupRow /\ row.phase = cleanup.phase /\ row.rounds = cleanup.rounds
    BY <1>t DEF CleanupRow
  <2>2. cleanup' = row /\ cleanup.phase \in {"pressure", "free"}
    BY <1>12 DEF ReadPressure
  <2> HIDE DEF row
  <2> QED
    BY <2>1, <2>2, <1>12, <1>a, <1>z, <1>w, <1>t, <1>k DEF ReadPressure, StorageInv, StorageTypeOK, PressureKept
<1>13. CASE JudgePressure
  <2>1. PICK percent \in cleanup.read :
          /\ Observe(percent)
          /\ cleanup' = IF Pressure(percent) \in {"CRITICAL", "EMERGENCY"}
                        THEN [NoCleanup EXCEPT !.phase = "free"] ELSE NoCleanup
    BY <1>13 DEF JudgePressure
  <2>2. percent \in Levels
    BY <1>c
  <2>3. /\ monitor' \in States /\ depleted' \in BOOLEAN
        /\ depleted' => monitor' = "EMERGENCY"
    BY <2>1, <2>2, ObserveRemembers
  <2>4. /\ cleanup' \in CleanupRow /\ cleanup'.phase \in {"free", "idle"}
        /\ cleanup'.rounds = 0 /\ 0 < MaxRounds
    BY <2>1, StorageAssumption DEF NoCleanup, CleanupRow
  <2> QED
    BY <2>3, <2>4, <1>13, <1>a, <1>z, <1>w, <1>t DEF JudgePressure, StorageInv, StorageTypeOK, PressureKept
<1>14. CASE CommitBatch
  <2>1. /\ record' \in [Records -> RecordRow]
        /\ \A y \in Records : record'[y].state = "gone" /\ record[y].state # "gone" => y \in cleanup.chosen
    BY <1>14, <1>c, DeleteRows DEF CommitBatch
  <2>2. DeletesWell
    BY <2>1, <1>14, <1>k, <1>r DEF CommitBatch, PressureKept, Deletable, DeletesWell
  <2> DEFINE row == [cleanup EXCEPT !.phase = "free", !.chosen = {}, !.read = {}]
  <2>3. row \in CleanupRow /\ row.phase = "free" /\ row.rounds = cleanup.rounds
    BY <1>t DEF CleanupRow
  <2>4. \/ cleanup' = NoCleanup
        \/ cleanup' = row /\ cleanup.rounds < MaxRounds
    BY <1>14, <1>c, StorageAssumption DEF CommitBatch
  <2> HIDE DEF row
  <2> QED
    BY <2>1, <2>2, <2>3, <2>4, StorageRows, <1>14, <1>a, <1>t, <1>k
       DEF CommitBatch, StorageInv, StorageTypeOK, PressureKept
<1>15. CASE CleanupFails
  BY <1>15, StorageRows, <1>a, <1>z, <1>w, <1>t, <1>k DEF CleanupFails, StorageInv, StorageTypeOK, PressureKept
<1>16. CASE Restart
  <2>1. admission' \in [Admissions -> AdmissionRow] /\ AdmitsWell
    BY <1>16, StorageRows, <1>a DEF Restart, NoAdmission
  <2> QED
    BY <2>1, <1>16, StorageRows, <1>z, <1>w, <1>t DEF Restart, StorageInv, StorageTypeOK, PressureKept, States
<1> QED
  BY <1>1, <1>2, <1>3, <1>4, <1>5, <1>6, <1>7, <1>8, <1>9, <1>10, <1>11, <1>12, <1>13, <1>14, <1>15, <1>16
     DEF NextStorage

\* Storage's variables always have their types.
THEOREM StorageTypeCorrect == SpecStorage => []StorageTypeOK
<1>1. StorageInv => StorageTypeOK
  BY DEF StorageInv
<1> QED
  BY <1>1, StorageInit, StorageStep, PTL DEF SpecStorage

\* However readings, admissions, holds and the statements of the cleanup
\* interleave: no run is admitted in an emergency that is still in force, and
\* nothing is deleted that is in progress, held, too young, or, short of a
\* critical reading, not past its months.
THEOREM StorageIsGuarded == SpecStorage => StorageGuarded
<1>1. StorageInv /\ [NextStorage]_storageVars =>
        [\A q \in Admissions :
           (admission'[q].phase = "admitted" /\ admission[q].phase = "read") => ~depleted']_storageVars
  BY StorageStep DEF AdmitsWell
<1>2. StorageInv /\ [NextStorage]_storageVars =>
        [\A x \in Records : (record'[x].state = "gone" /\ record[x].state # "gone") =>
           /\ record[x].state = "settled" \/ KindOf[x] \in {"audit", "metric"}
           /\ record[x].age > 0
           /\ record[x].held => x \in late]_storageVars
  BY StorageStep DEF DeletesWell
<1>3. StorageInv /\ [NextStorage]_storageVars =>
        [\A x \in Records : (record'[x].state = "gone" /\ record[x].state # "gone" /\ record[x].age < 2) =>
           KindOf[x] = "run" /\ \E percent \in cleanup.read : percent < 15]_storageVars
  BY StorageStep DEF DeletesWell
<1> QED
  BY <1>1, <1>2, <1>3, StorageInit, StorageStep, PTL
     DEF SpecStorage, StorageGuarded, EmergencyLasts, OnlyEligibleDeleted, EarlyDeletionIsCritical

-----------------------------------------------------------------------------
(* SignIn *)

\* What a change still to be written needs of the settings and the provider it
\* was checked against.
PendingSound(c) ==
    /\ c.step \in {"store", "apply"} => c.value.password \/ provider.on
    /\ c.step = "apply" => stored = c.value
    /\ c.step = "row" => c.value.on \/ settings.password

\* A request has one write to come, and without a clash it is the only one
\* under way and what it was checked against still holds.
ChangesSound ==
    /\ \A q \in Requests : \A c, d \in change[q] : c = d
    /\ ~serving => \A q \in Requests : change[q] = {}
    /\ ~clash => /\ \A p, q \in Requests : change[p] # {} /\ change[q] # {} => p = q
                 /\ \A q \in Requests : \A c \in change[q] : PendingSound(c)

SignInInv == SignInTypeOK /\ SignInWorks /\ ChangesSound

\* The fields of a pending change follow from its step.
LEMMA ChangeFields ==
    ASSUME NEW c \in SettingsChange \cup ProviderChange
    PROVE  /\ c.step \in {"store", "apply"} => c \in SettingsChange /\ c.value \in Settings
           /\ c.step \in {"row", "map"} => c \in ProviderChange /\ c.value \in Provider
           /\ c.step \in {"store", "apply", "row", "map"}
  BY DEF SettingsChange, ProviderChange

\* The first state.
LEMMA SignInInit == InitSignIn => SignInInv
<1> SUFFICES ASSUME InitSignIn PROVE SignInInv
  OBVIOUS
<1>1. SignInTypeOK
  BY DEF InitSignIn, SignInTypeOK, Settings, Provider, RoleNames, SystemRoles
<1>2. SignInWorks /\ ChangesSound
  BY DEF InitSignIn, SignInWorks, LoginMethodRemains, SettingsDurable, MappedRolesExist, ChangesSound
<1> QED
  BY <1>1, <1>2 DEF SignInInv

\* A new change, checked against the present state, keeps the invariant.
LEMMA AdmitKeeps ==
    ASSUME SignInInv, NEW q \in Requests, NEW c \in SettingsChange \cup ProviderChange,
           Admit(q, c), c.step # "apply", ~clash => PendingSound(c),
           UNCHANGED <<stored, settings, provider, roles, serving>>
    PROVE  SignInInv'
<1>1. SignInTypeOK'
  BY DEF SignInInv, SignInTypeOK, Admit
<1>2. \A p \in Requests : change'[p] = IF p = q THEN {c} ELSE change[p]
  BY DEF SignInInv, SignInTypeOK, Admit
<1>3. ~clash' => ~clash /\ \A p \in Requests : change[p] = {}
  BY DEF Admit, SignInInv, SignInTypeOK
<1>4. ~clash' => \A p \in Requests : \A d \in change'[p] : p = q /\ d = c
  BY <1>2, <1>3
<1>5. ChangesSound'
  BY <1>2, <1>3, <1>4 DEF ChangesSound, PendingSound, SignInInv, Admit
<1>6. SignInWorks'
  <2>1. ~clash' => ~Applying
    BY <1>3 DEF Applying
  <2> QED
    BY <1>3, <2>1 DEF SignInInv, SignInWorks, LoginMethodRemains, SettingsDurable, MappedRolesExist, Admit
<1> QED
  BY <1>1, <1>5, <1>6 DEF SignInInv

\* The write of a change that is under way: without a clash no other is, so the
\* effect only has to be right for this one; rest is what remains of it.
LEMMA WriteKeeps ==
    ASSUME SignInInv, NEW q \in Requests, NEW c \in change[q], NEW rest \in SUBSET (SettingsChange \cup ProviderChange),
           change' = [change EXCEPT ![q] = rest], serving, UNCHANGED <<serving, clash, roles>>,
           \A d, e \in rest : d = e,
           stored' \in Settings, settings' \in Settings, provider' \in Provider,
           provider'.map \subseteq roles,
           ~clash => /\ \A d \in rest : PendingSound(d)'
                     /\ stored'.password \/ provider'.on
                     /\ settings'.password \/ provider'.on
                     /\ (\A d \in rest : d.step # "apply") => settings' = stored'
    PROVE  SignInInv'
<1>1. SignInTypeOK'
  BY DEF SignInInv, SignInTypeOK
<1>2. \A p \in Requests : change'[p] = IF p = q THEN rest ELSE change[p]
  BY DEF SignInInv, SignInTypeOK
<1>3. ~clash' => \A p \in Requests : p # q => change'[p] = {}
  BY <1>2 DEF SignInInv, ChangesSound
<1>4. ChangesSound'
  BY <1>2, <1>3 DEF SignInInv, ChangesSound
<1>5. ~clash' /\ ~Applying' => \A d \in rest : d.step # "apply"
  BY <1>2 DEF Applying
<1>6. SignInWorks'
  BY <1>5 DEF SignInWorks, LoginMethodRemains, SettingsDurable, MappedRolesExist
<1> QED
  BY <1>1, <1>4, <1>6 DEF SignInInv

\* Every step keeps the invariant.
LEMMA SignInStep == SignInInv /\ [NextSignIn]_signInVars => SignInInv'
<1> SUFFICES ASSUME SignInInv, [NextSignIn]_signInVars PROVE SignInInv'
  OBVIOUS
<1>t. /\ stored \in Settings /\ settings \in Settings /\ provider \in Provider
      /\ SystemRoles \subseteq roles /\ roles \subseteq RoleNames
      /\ serving \in BOOLEAN /\ clash \in BOOLEAN
      /\ change \in [Requests -> SUBSET (SettingsChange \cup ProviderChange)]
  BY DEF SignInInv, SignInTypeOK
<1>f. /\ stored.password \in BOOLEAN /\ settings.password \in BOOLEAN
      /\ provider.on \in BOOLEAN /\ provider.map \subseteq roles
  BY <1>t DEF Settings, Provider, SignInInv, SignInWorks, MappedRolesExist
<1>w. ~clash => /\ stored.password \/ provider.on
                /\ settings.password \/ provider.on
                /\ serving /\ ~Applying => settings = stored
  BY DEF SignInInv, SignInWorks, LoginMethodRemains, SettingsDurable
<1>o. ASSUME NEW q \in Requests, NEW c \in change[q]
      PROVE  /\ c \in SettingsChange \cup ProviderChange
             /\ ~clash => PendingSound(c)
             /\ ~clash /\ c.step # "apply" => ~Applying
  <2>1. c \in SettingsChange \cup ProviderChange
    BY <1>t
  <2>2. ~clash => PendingSound(c)
    BY DEF SignInInv, ChangesSound
  <2>3. ASSUME ~clash, Applying PROVE c.step = "apply"
    BY <2>3 DEF Applying, SignInInv, ChangesSound
  <2> QED
    BY <2>1, <2>2, <2>3
<1>1. CASE UNCHANGED signInVars
  BY <1>1 DEF signInVars, SignInInv, SignInTypeOK, SignInWorks, LoginMethodRemains, SettingsDurable, Applying,
              MappedRolesExist, ChangesSound, PendingSound
<1>2. CASE StopSignIn
  <2>1. SignInTypeOK'
    BY <1>2, <1>t DEF StopSignIn, SignInTypeOK
  <2>2. SignInWorks'
    BY <1>2, <1>f, <1>w DEF StopSignIn, SignInWorks, LoginMethodRemains, SettingsDurable, MappedRolesExist
  <2>3. ChangesSound'
    BY <1>2 DEF StopSignIn, ChangesSound
  <2> QED
    BY <2>1, <2>2, <2>3 DEF SignInInv
<1>3. CASE StartSignIn
  <2>1. SignInTypeOK'
    BY <1>3, <1>t DEF StartSignIn, SignInTypeOK, RoleNames
  <2>2. SignInWorks'
    BY <1>3, <1>f, <1>w DEF StartSignIn, SignInWorks, LoginMethodRemains, SettingsDurable, MappedRolesExist
  <2>3. \A q \in Requests : change'[q] = {}
    BY <1>3 DEF StartSignIn, SignInInv, ChangesSound
  <2>4. ChangesSound'
    BY <2>3 DEF ChangesSound
  <2> QED
    BY <2>1, <2>2, <2>4 DEF SignInInv
<1>4. ASSUME NEW r \in RoleNames, CreateRole(r) \/ DeleteRole(r) PROVE SignInInv'
  <2>1. SystemRoles \subseteq roles' /\ roles' \subseteq RoleNames /\ provider.map \subseteq roles'
    BY <1>4, <1>t, <1>f, SignInAssumption DEF CreateRole, DeleteRole, RoleNames
  <2>2. UNCHANGED <<stored, settings, provider, serving, change, clash>>
    BY <1>4 DEF CreateRole, DeleteRole
  <2> QED
    BY <2>1, <2>2 DEF SignInInv, SignInTypeOK, SignInWorks, LoginMethodRemains, SettingsDurable, Applying,
              MappedRolesExist, ChangesSound, PendingSound
<1>5. ASSUME NEW q \in Requests, NEW value \in Settings, ChangeSettings(q, value) PROVE SignInInv'
  <2> DEFINE c == [step |-> "store", value |-> value]
  <2>1. c \in SettingsChange \cup ProviderChange /\ c.step # "apply"
    BY DEF SettingsChange
  <2>2. PendingSound(c)
    BY <1>5 DEF ChangeSettings, HasLoginMethod, PendingSound
  <2>3. Admit(q, c) /\ UNCHANGED <<stored, settings, provider, roles, serving>>
    BY <1>5 DEF ChangeSettings
  <2> HIDE DEF c
  <2> QED
    BY <2>1, <2>2, <2>3, AdmitKeeps
<1>6. ASSUME NEW q \in Requests, StoreSettings(q) PROVE SignInInv'
  <2>1. PICK c \in change[q] :
          /\ serving /\ c.step = "store"
          /\ IF c.value.default \in roles
             THEN stored' = c.value /\ change' = [change EXCEPT ![q] = {[c EXCEPT !.step = "apply"]}]
             ELSE stored' = stored /\ change' = [change EXCEPT ![q] = {}]
          /\ UNCHANGED <<settings, provider, roles, serving, clash>>
    BY <1>6 DEF StoreSettings
  <2>2. c \in SettingsChange /\ c.value \in Settings
    BY <1>o, <2>1, ChangeFields
  <2>3. ~clash => PendingSound(c) /\ ~Applying
    BY <1>o, <2>1
  <2>4. CASE c.value.default \in roles
    <3> DEFINE d == [c EXCEPT !.step = "apply"]
    <3>1. d \in SettingsChange /\ d.step = "apply" /\ d.value = c.value
      BY <2>2 DEF SettingsChange
    <3>2. stored' = c.value /\ change' = [change EXCEPT ![q] = {d}]
      BY <2>1, <2>4
    <3> HIDE DEF d
    <3>3. ~clash => c.value.password \/ provider.on
      BY <2>1, <2>3 DEF PendingSound
    <3>4. ~clash => PendingSound(d)'
      BY <3>1, <3>2, <3>3, <2>1 DEF PendingSound
    <3> DEFINE rest == {d}
    <3>5. /\ rest \in SUBSET (SettingsChange \cup ProviderChange) /\ \A x, y \in rest : x = y
          /\ ~(\A x \in rest : x.step # "apply")
          /\ ~clash => \A x \in rest : PendingSound(x)'
      BY <3>1, <3>4
    <3>6. change' = [change EXCEPT ![q] = rest]
      BY <3>2
    <3> HIDE DEF rest
    <3>7. /\ stored' \in Settings /\ settings' \in Settings /\ provider' \in Provider /\ provider'.map \subseteq roles
          /\ ~clash => /\ stored'.password \/ provider'.on
                       /\ settings'.password \/ provider'.on
      BY <3>2, <3>3, <2>1, <2>2, <1>t, <1>f, <1>w
    <3> QED
      BY <3>5, <3>6, <3>7, <2>1, WriteKeeps
  <2>5. CASE c.value.default \notin roles
    <3>1. stored' = stored /\ change' = [change EXCEPT ![q] = {}]
      BY <2>1, <2>5
    <3>2. /\ stored' \in Settings /\ settings' \in Settings /\ provider' \in Provider /\ provider'.map \subseteq roles
          /\ ~clash => /\ stored'.password \/ provider'.on
                       /\ settings'.password \/ provider'.on
                       /\ settings' = stored'
      BY <3>1, <2>1, <2>3, <1>t, <1>f, <1>w
    <3> QED
      <4> DEFINE rest == {}
      <4>1. rest \in SUBSET (SettingsChange \cup ProviderChange) /\ change' = [change EXCEPT ![q] = rest]
        BY <3>1
      <4>2. \A x \in rest : FALSE
        OBVIOUS
      <4> HIDE DEF rest
      <4> QED
        BY <4>1, <4>2, <3>2, <2>1, WriteKeeps
  <2> QED
    BY <2>4, <2>5
<1>7. ASSUME NEW q \in Requests, ApplySettings(q) PROVE SignInInv'
  <2>1. PICK c \in change[q] :
          /\ serving /\ c.step = "apply"
          /\ settings' = c.value
          /\ change' = [change EXCEPT ![q] = {}]
          /\ UNCHANGED <<stored, provider, roles, serving, clash>>
    BY <1>7 DEF ApplySettings
  <2>2. c.value \in Settings
    BY <1>o, <2>1, ChangeFields
  <2>3. ~clash => stored = c.value
    BY <1>o, <2>1 DEF PendingSound
  <2>4. /\ stored' \in Settings /\ settings' \in Settings /\ provider' \in Provider /\ provider'.map \subseteq roles
        /\ ~clash => /\ stored'.password \/ provider'.on
                     /\ settings'.password \/ provider'.on
                     /\ settings' = stored'
    BY <2>1, <2>2, <2>3, <1>t, <1>f, <1>w
  <2> QED
    BY <2>1, <2>4, WriteKeeps
<1>8. ASSUME NEW q \in Requests, NEW on \in BOOLEAN, NEW map \in MapChoices, ChangeProvider(q, [on |-> on, map |-> map])
      PROVE  SignInInv'
  <2> DEFINE value == [on |-> on, map |-> map]
             c == [step |-> "row", value |-> value]
  <2>0. value \in Provider /\ value.on = on
    BY SignInAssumption DEF Provider
  <2>1. c \in SettingsChange \cup ProviderChange /\ c.step = "row" /\ c.value = value
    BY <2>0 DEF ProviderChange
  <2>2. ~clash => value.on \/ settings.password
    BY <1>8, <1>w, <2>0 DEF ChangeProvider
  <2>3. Admit(q, c) /\ UNCHANGED <<stored, settings, provider, roles, serving>>
    BY <1>8 DEF ChangeProvider
  <2> HIDE DEF c, value
  <2>4. ~clash => PendingSound(c)
    BY <2>1, <2>2 DEF PendingSound
  <2> QED
    BY <2>1, <2>3, <2>4, AdmitKeeps
<1>9. ASSUME NEW q \in Requests, SaveProviderRow(q) PROVE SignInInv'
  <2>1. PICK c \in change[q] :
          /\ serving /\ c.step = "row"
          /\ provider' = [provider EXCEPT !.on = c.value.on]
          /\ change' = [change EXCEPT ![q] = {[c EXCEPT !.step = "map"]}]
          /\ UNCHANGED <<stored, settings, roles, serving, clash>>
    BY <1>9 DEF SaveProviderRow
  <2>2. c \in ProviderChange /\ c.value \in Provider
    BY <1>o, <2>1, ChangeFields
  <2>3. c.value.on \in BOOLEAN
    BY <2>2 DEF Provider
  <2>4. provider' \in Provider /\ provider'.on = c.value.on /\ provider'.map = provider.map
    BY <2>1, <2>3, <1>t DEF Provider
  <2>5. ~clash => settings = stored /\ (c.value.on \/ settings.password)
    BY <1>o, <2>1, <1>w DEF PendingSound
  <2> DEFINE d == [c EXCEPT !.step = "map"]
             rest == {d}
  <2>6. d \in ProviderChange /\ d.step = "map"
    BY <2>2 DEF ProviderChange
  <2>7. change' = [change EXCEPT ![q] = rest]
    BY <2>1
  <2> HIDE DEF d
  <2>8. PendingSound(d)'
    BY <2>6 DEF PendingSound
  <2>9. /\ rest \in SUBSET (SettingsChange \cup ProviderChange) /\ \A x, y \in rest : x = y
        /\ ~clash => \A x \in rest : PendingSound(x)'
    BY <2>6, <2>8
  <2> HIDE DEF rest
  <2>10. /\ stored' \in Settings /\ settings' \in Settings /\ provider' \in Provider /\ provider'.map \subseteq roles
         /\ ~clash => /\ stored'.password \/ provider'.on
                      /\ settings'.password \/ provider'.on
                      /\ settings' = stored'
    BY <2>1, <2>4, <2>5, <1>t, <1>f, <1>w
  <2> QED
    BY <2>1, <2>7, <2>9, <2>10, WriteKeeps, ZenonT(60)
<1>10. ASSUME NEW q \in Requests, SaveProviderMap(q) PROVE SignInInv'
  <2>1. PICK c \in change[q] :
          /\ serving /\ c.step = "map"
          /\ provider' = IF c.value.map \subseteq roles THEN [provider EXCEPT !.map = c.value.map] ELSE provider
          /\ change' = [change EXCEPT ![q] = {}]
          /\ UNCHANGED <<stored, settings, roles, serving, clash>>
    BY <1>10 DEF SaveProviderMap
  <2>2. c.value \in Provider
    BY <1>o, <2>1, ChangeFields
  <2>3. c.value.map \subseteq RoleNames
    BY <2>2 DEF Provider
  <2>4. provider' \in Provider /\ provider'.on = provider.on /\ provider'.map \subseteq roles
    <3>1. CASE c.value.map \subseteq roles
      BY <2>1, <2>3, <3>1, <1>t DEF Provider
    <3>2. CASE ~(c.value.map \subseteq roles)
      BY <2>1, <3>2, <1>t, <1>f
    <3> QED
      BY <3>1, <3>2
  <2>5. ~clash => settings = stored
    BY <1>o, <2>1, <1>w
  <2>6. /\ stored' \in Settings /\ settings' \in Settings
        /\ ~clash => /\ stored'.password \/ provider'.on
                     /\ settings'.password \/ provider'.on
                     /\ settings' = stored'
    BY <2>1, <2>4, <2>5, <1>t, <1>f, <1>w
  <2> DEFINE rest == {}
  <2>7. rest \in SUBSET (SettingsChange \cup ProviderChange) /\ change' = [change EXCEPT ![q] = rest]
    BY <2>1
  <2>8. \A x \in rest : FALSE
    OBVIOUS
  <2> HIDE DEF rest
  <2> QED
    BY <2>1, <2>4, <2>6, <2>7, <2>8, WriteKeeps
<1> QED
  BY <1>1, <1>2, <1>3, <1>4, <1>5, <1>6, <1>7, <1>8, <1>9, <1>10 DEF NextSignIn

\* SignIn's variables always have their types, and the system roles exist.
THEOREM SignInTypeCorrect == SpecSignIn => []SignInTypeOK
<1>1. SignInInv => SignInTypeOK
  BY DEF SignInInv
<1> QED
  BY <1>1, SignInInit, SignInStep, PTL DEF SpecSignIn

\* With any number of administration requests, and the process stopped between
\* any two of their writes: as long as no two changes overlapped a login method
\* remains and a restart brings nothing back; mapped roles always exist.
THEOREM SignInAlwaysWorks == SpecSignIn => []SignInWorks
<1>1. SignInInv => SignInWorks
  BY DEF SignInInv
<1> QED
  BY <1>1, SignInInit, SignInStep, PTL DEF SpecSignIn

-----------------------------------------------------------------------------
(* Sessions *)

\* What holds of the rows S of auth_sessions and the families b that a replay
\* burned.  Families are numbered by their first session and a session is
\* rotated by being revoked, so that a new family is fresh and a live session
\* has no successor yet.
RowsSound(S, b) ==
    /\ \A i \in 1..Len(S) :
        /\ S[i].family <= i
        /\ S[i].parent # 0 => S[i].parent \in 1..Len(S) /\ S[S[i].parent].state # "live"
        /\ S[i].family \in b => S[i].state # "live"
    /\ \A i, j \in 1..Len(S) :
        /\ S[i].parent # 0 /\ S[i].parent = S[j].parent => i = j
        /\ S[i].family = S[j].family /\ S[i].state = "live" /\ S[j].state = "live" => i = j
        /\ S[i].via \cap S[j].via # {} => i = j
    /\ \A f \in b : f <= Len(S)

\* A row after another: the same session, no more alive and no later to expire.
Fades(row, next) ==
    /\ next.family = row.family /\ next.parent = row.parent /\ next.via = row.via
    /\ row.state # "live" => next.state # "live"
    /\ next.refresh <= row.refresh

AllFade(S, T) == T \in Seq(SessionRow) /\ Len(T) = Len(S) /\ \A i \in 1..Len(S) : Fades(S[i], T[i])

\* SSO states in use are consumed, by one call or session each.
StatesSpent ==
    /\ \A i \in DOMAIN session : \A s \in session[i].via : challenge[s].state \in {"consumed", "deleted"}
    /\ \A c \in Calls : \A s \in call[c].via :
        /\ challenge[s].state \in {"consumed", "deleted"}
        /\ \A i \in DOMAIN session : s \notin session[i].via
    /\ \A c, k \in Calls : call[c].via \cap call[k].via # {} => c = k

SessionsInv == SessionsTypeOK /\ RowsSound(session, burned) /\ StatesSpent

\* The fields of a row.
LEMMA SessionFields ==
    ASSUME NEW row \in SessionRow
    PROVE  /\ row.state \in {"live", "revoked", "deleted"} /\ row.owner \in Owners
           /\ row.family \in Nat \ {0} /\ row.parent \in Nat /\ row.via \subseteq Challenges
           /\ row.access \in 0..AccessLife /\ row.refresh \in 0..RefreshLife /\ row.refresh \in Nat
  BY SessionsAssumption DEF SessionRow

\* Rows that fade stay sound.
LEMMA FadeKeeps ==
    ASSUME NEW S \in Seq(SessionRow), NEW T, NEW b, RowsSound(S, b), AllFade(S, T)
    PROVE  RowsSound(T, b)
  BY SMTT(40) DEF RowsSound, AllFade, Fades

\* A live row that is new to its family, its parent and its SSO state joins.
LEMMA AppendKeeps ==
    ASSUME NEW S \in Seq(SessionRow), NEW b \in SUBSET Nat, RowsSound(S, b), NEW row \in SessionRow,
           row.family <= Len(S) + 1, row.family \notin b,
           row.parent # 0 => /\ row.parent \in 1..Len(S) /\ S[row.parent].state # "live"
                             /\ \A j \in 1..Len(S) : S[j].parent # row.parent,
           \A j \in 1..Len(S) : S[j].family = row.family => S[j].state # "live",
           \A j \in 1..Len(S) : S[j].via \cap row.via = {}
    PROVE  Append(S, row) \in Seq(SessionRow) /\ RowsSound(Append(S, row), b)
<1> DEFINE T == Append(S, row)
           n == Len(S) + 1
<1>1. /\ T \in Seq(SessionRow) /\ Len(T) = n /\ n \in Nat /\ Len(S) \in Nat
      /\ T[n] = row /\ \A i \in 1..Len(S) : T[i] = S[i]
  BY AppendProperties, LenProperties
<1>2. \A i \in 1..n : i = n \/ i \in 1..Len(S)
  BY <1>1
<1>3. 1..Len(S) \subseteq 1..n /\ n \notin 1..Len(S)
  BY <1>1
<1> HIDE DEF T, n
<1>f. \A f \in b : f <= Len(S)
  BY DEF RowsSound
<1>i. \A i \in 1..Len(S) :
        /\ S[i] \in SessionRow /\ S[i].family <= i
        /\ S[i].parent # 0 => S[i].parent \in 1..Len(S) /\ S[S[i].parent].state # "live"
        /\ S[i].family \in b => S[i].state # "live"
  BY ElementOfSeq DEF RowsSound
<1>4. ASSUME NEW i \in 1..n
      PROVE  /\ T[i].family <= i
             /\ T[i].parent # 0 => T[i].parent \in 1..n /\ T[T[i].parent].state # "live"
             /\ T[i].family \in b => T[i].state # "live"
  <2>1. CASE i = n
    BY <2>1, <1>1, <1>3 DEF n
  <2>2. CASE i \in 1..Len(S)
    BY <2>2, <1>1, <1>3, <1>i
  <2> QED
    BY <2>1, <2>2, <1>2
<1>5. ASSUME NEW i \in 1..n, NEW j \in 1..n
      PROVE  /\ T[i].parent # 0 /\ T[i].parent = T[j].parent => i = j
             /\ T[i].family = T[j].family /\ T[i].state = "live" /\ T[j].state = "live" => i = j
             /\ T[i].via \cap T[j].via # {} => i = j
  <2>1. CASE i \in 1..Len(S) /\ j \in 1..Len(S)
    BY <2>1, <1>1 DEF RowsSound
  <2>2. CASE i = n /\ j \in 1..Len(S)
    BY <2>2, <1>1
  <2>3. CASE i \in 1..Len(S) /\ j = n
    <3>1. T[j].via \cap T[i].via = {} /\ T[j].via \cap T[i].via = T[i].via \cap T[j].via
      BY <2>3, <1>1
    <3> QED
      BY <2>3, <3>1, <1>1
  <2>4. CASE i = n /\ j = n
    BY <2>4
  <2> QED
    BY <2>1, <2>2, <2>3, <2>4, <1>2
<1>6. \A f \in b : f <= n
  <2> SUFFICES ASSUME NEW f \in b PROVE f <= n
    OBVIOUS
  <2>1. f \in Nat /\ f <= Len(S)
    BY <1>f
  <2> QED
    BY <2>1, <1>1 DEF n
<1> QED
  BY <1>1, <1>4, <1>5, <1>6 DEF RowsSound, T, n

\* What RevokedStays asks of a step.
RevokedKept ==
    \A i \in DOMAIN session : /\ i \in DOMAIN session'
                              /\ ~Live(i) => ~Live(i)'
                              /\ session'[i].refresh <= session[i].refresh

\* Sessions is a sequence of rows.
LEMMA SessionDomain ==
    ASSUME SessionsTypeOK
    PROVE  /\ session \in Seq(SessionRow) /\ Len(session) \in Nat /\ DOMAIN session = 1..Len(session)
           /\ \A i \in 1..Len(session) : session[i] \in SessionRow
  BY LenProperties, ElementOfSeq DEF SessionsTypeOK

\* An UPDATE that revokes rows.
LEMMA RevokedFade ==
    ASSUME SessionsTypeOK, NEW rows
    PROVE  /\ AllFade(session, Revoked(rows))
           /\ \A i \in 1..Len(session) : i \in rows => Revoked(rows)[i].state # "live"
           /\ \A i \in 1..Len(session) : Revoked(rows)[i].owner = session[i].owner
<1> DEFINE T == Revoked(rows)
<1>1. ASSUME NEW row \in SessionRow
      PROVE  /\ RevokeRow(row) \in SessionRow /\ RevokeRow(row).state # "live" /\ Fades(row, RevokeRow(row))
             /\ Fades(row, row) /\ RevokeRow(row).owner = row.owner
  <2> DEFINE s == IF row.state = "deleted" THEN row.state ELSE "revoked"
  <2>1. s \in {"deleted", "revoked"}
    OBVIOUS
  <2>2. RevokeRow(row) = [row EXCEPT !.state = s]
    BY DEF RevokeRow
  <2> HIDE DEF s
  <2>3. RevokeRow(row) \in SessionRow /\ RevokeRow(row).state = s
    BY <2>1, <2>2 DEF SessionRow
  <2>4. row.refresh \in Nat
    BY SessionFields
  <2>5. Fades(row, RevokeRow(row)) /\ Fades(row, row) /\ RevokeRow(row).owner = row.owner
    BY <2>1, <2>2, <2>3, <2>4 DEF Fades, SessionRow
  <2> QED
    BY <2>1, <2>3, <2>5
<1>2. DOMAIN T = 1..Len(session)
  BY SessionDomain DEF Revoked
<1>3. \A i \in 1..Len(session) : T[i] = IF i \in rows THEN RevokeRow(session[i]) ELSE session[i]
  BY SessionDomain DEF Revoked
<1>4. \A i \in 1..Len(session) : T[i] \in SessionRow
  BY <1>1, <1>3, SessionDomain
<1>5. T = [i \in 1..Len(session) |-> T[i]]
  BY <1>2 DEF Revoked
<1>6. T \in Seq(SessionRow) /\ Len(T) = Len(session)
  <2>1. T \in [1..Len(session) -> SessionRow]
    BY <1>4, <1>5
  <2>2. Len(session) \in Nat
    BY SessionDomain
  <2> HIDE DEF T
  <2>3. T \in Seq(SessionRow)
    BY <2>1, <2>2, SeqDef
  <2> QED
    BY <1>2, <2>2, <2>3, LenProperties
<1> HIDE DEF T
<1>7. \A i \in 1..Len(session) : Fades(session[i], T[i]) /\ (i \in rows => T[i].state # "live") /\ T[i].owner = session[i].owner
  BY <1>1, <1>3, SessionDomain
<1> QED
  BY <1>6, <1>7 DEF AllFade, T

\* A step in which rows fade, states stay consumed and calls drop states.
LEMMA FadeStep ==
    ASSUME SessionsInv, AllFade(session, session'), RowsSound(session', burned'), burned' \subseteq Nat \ {0},
           challenge' \in [Challenges -> ChallengeRow], call' \in [Calls -> Call],
           \A s \in Challenges : challenge[s].state \in {"consumed", "deleted"} =>
                                 challenge'[s].state \in {"consumed", "deleted"},
           \A c \in Calls : call'[c].via \subseteq call[c].via
    PROVE  SessionsInv' /\ RevokedKept
<1>1. SessionsTypeOK'
  BY DEF SessionsTypeOK, AllFade
<1>2. DOMAIN session = 1..Len(session) /\ DOMAIN session' = 1..Len(session)
  BY <1>1, SessionDomain, LenProperties DEF SessionsInv, AllFade, SessionsTypeOK
<1>3. \A i \in DOMAIN session : session'[i].via = session[i].via /\ session[i].via \subseteq Challenges
  BY <1>2, SessionDomain, SessionFields DEF AllFade, Fades, SessionsInv
<1>4. \A c \in Calls : call[c].via \subseteq Challenges
  BY DEF SessionsInv, SessionsTypeOK, Call
<1>5. StatesSpent'
  <2>1. \A i \in DOMAIN session' : \A s \in session'[i].via : challenge'[s].state \in {"consumed", "deleted"}
    BY <1>2, <1>3 DEF SessionsInv, StatesSpent
  <2>2. \A c \in Calls : \A s \in call'[c].via :
          /\ challenge'[s].state \in {"consumed", "deleted"}
          /\ \A i \in DOMAIN session' : s \notin session'[i].via
    BY <1>2, <1>3, <1>4 DEF SessionsInv, StatesSpent
  <2>3. ASSUME NEW c \in Calls, NEW k \in Calls, call'[c].via \cap call'[k].via # {} PROVE c = k
    <3>1. call[c].via \cap call[k].via # {}
      BY <2>3
    <3> QED
      BY <3>1 DEF SessionsInv, StatesSpent
  <2> QED
    BY <2>1, <2>2, <2>3 DEF StatesSpent
<1>6. RevokedKept
  BY <1>2 DEF RevokedKept, Live, AllFade, Fades
<1> QED
  BY <1>1, <1>5, <1>6 DEF SessionsInv

\* A step in which the rows fade to S and a new one joins.
LEMMA JoinStep ==
    ASSUME SessionsInv, NEW S, AllFade(session, S), NEW row \in SessionRow, session' = Append(S, row),
           session' \in Seq(SessionRow), RowsSound(session', burned'), burned' = burned, challenge' = challenge,
           NEW c \in Calls, call' = [call EXCEPT ![c] = NoCall], row.via \subseteq call[c].via
    PROVE  SessionsInv' /\ RevokedKept
<1>0. NoCall \in Call /\ NoCall.via = {}
  BY DEF NoCall, Call
<1>1. SessionsTypeOK'
  BY <1>0 DEF SessionsInv, SessionsTypeOK
<1> DEFINE n == Len(session) + 1
<1>2. /\ Len(session) \in Nat /\ DOMAIN session = 1..Len(session) /\ DOMAIN session' = 1..n
      /\ session'[n] = row /\ \A i \in 1..Len(session) : session'[i] = S[i]
  BY SessionDomain, AppendProperties, LenProperties DEF AllFade, SessionsInv
<1>3. \A i \in 1..n : i = n \/ i \in 1..Len(session)
  BY <1>2
<1>4. 1..Len(session) \subseteq 1..n
  BY <1>2
<1> HIDE DEF n
<1>5. \A i \in 1..Len(session) : session'[i].via = session[i].via /\ session[i].via \subseteq Challenges
  BY <1>2, SessionDomain, SessionFields DEF AllFade, Fades, SessionsInv
<1>6. \A k \in Calls : /\ k = c => call'[k].via = {}
                       /\ k # c => call'[k].via = call[k].via
  BY <1>0 DEF SessionsInv, SessionsTypeOK
<1>7. \A s \in call[c].via : challenge[s].state \in {"consumed", "deleted"}
  BY DEF SessionsInv, StatesSpent
<1>8. \A i \in 1..n : \A s \in session'[i].via : challenge'[s].state \in {"consumed", "deleted"}
  BY <1>2, <1>3, <1>5, <1>7 DEF SessionsInv, StatesSpent
<1>9. ASSUME NEW k \in Calls, NEW s \in call'[k].via
      PROVE  challenge'[s].state \in {"consumed", "deleted"} /\ \A i \in 1..n : s \notin session'[i].via
  <2>1. k # c /\ s \in call[k].via
    BY <1>6, <1>9
  <2>2. call[c].via \cap call[k].via = {}
    BY <2>1 DEF SessionsInv, StatesSpent
  <2>3. s \notin row.via
    BY <2>1, <2>2
  <2>4. challenge'[s].state \in {"consumed", "deleted"} /\ \A i \in 1..Len(session) : s \notin session[i].via
    BY <2>1, <1>2 DEF SessionsInv, StatesSpent
  <2> QED
    BY <2>3, <2>4, <1>2, <1>3, <1>5
<1>10. \A k, m \in Calls : call'[k].via \cap call'[m].via # {} => k = m
  BY <1>6 DEF SessionsInv, StatesSpent
<1>11. StatesSpent'
  BY <1>2, <1>8, <1>9, <1>10 DEF StatesSpent
<1>12. RevokedKept
  BY <1>2, <1>4 DEF RevokedKept, Live, AllFade, Fades
<1> QED
  BY <1>1, <1>11, <1>12 DEF SessionsInv

\* The first state.
LEMMA SessionsInit == InitSessions => SessionsInv
<1> SUFFICES ASSUME InitSessions PROVE SessionsInv
  OBVIOUS
<1>1. [state |-> "none", left |-> 0] \in ChallengeRow /\ NoCall \in Call /\ NoCall.via = {}
  BY SessionsAssumption DEF ChallengeRow, NoCall, Call
<1>2. SessionsTypeOK
  BY <1>1, EmptySeq DEF InitSessions, SessionsTypeOK
<1>3. Len(session) = 0 /\ DOMAIN session = {}
  BY EmptySeq DEF InitSessions
<1>4. RowsSound(session, burned)
  BY <1>3 DEF RowsSound, InitSessions
<1>5. StatesSpent
  BY <1>1, <1>3 DEF StatesSpent, InitSessions
<1> QED
  BY <1>2, <1>4, <1>5 DEF SessionsInv

\* Every step keeps the invariant, and a revoked session revoked.
LEMMA SessionsStep == SessionsInv /\ [NextSessions]_sessionVars => SessionsInv' /\ RevokedKept
<1> SUFFICES ASSUME SessionsInv, [NextSessions]_sessionVars PROVE SessionsInv' /\ RevokedKept
  OBVIOUS
<1>t. /\ session \in Seq(SessionRow) /\ challenge \in [Challenges -> ChallengeRow]
      /\ call \in [Calls -> Call] /\ burned \subseteq Nat \ {0} /\ SessionsTypeOK
  BY DEF SessionsInv, SessionsTypeOK
<1>d. /\ Len(session) \in Nat /\ DOMAIN session = 1..Len(session)
      /\ \A i \in 1..Len(session) : session[i] \in SessionRow
  BY <1>t, SessionDomain
<1>r. RowsSound(session, burned)
  BY DEF SessionsInv
<1>n. NoCall \in Call /\ NoCall.via = {}
  BY DEF NoCall, Call
<1>l. /\ \A s \in Challenges : challenge[s].state \in {"none", "open", "consumed", "deleted"}
                               /\ challenge[s].left \in 0..ChallengeLife
      /\ \A c \in Calls : /\ call[c].id \in Nat /\ call[c].owner \subseteq Owners /\ call[c].via \subseteq Challenges
                          /\ call[c].rows \subseteq Nat \ {0}
  BY <1>t DEF ChallengeRow, Call
<1>f. AllFade(session, session)
  BY <1>t, <1>d, SessionFields DEF AllFade, Fades
<1>g. ASSUME NEW rows PROVE AllFade(session, Revoked(rows)) /\ RowsSound(Revoked(rows), burned)
  BY <1>t, <1>r, RevokedFade, FadeKeeps
<1>c. ASSUME NEW c \in Calls, NEW next \in Call, next.via \subseteq call[c].via, call' = [call EXCEPT ![c] = next]
      PROVE  call' \in [Calls -> Call] /\ \A k \in Calls : call'[k].via \subseteq call[k].via
  BY <1>c, <1>t
<1>1. CASE UNCHANGED sessionVars
  <2>1. \A c \in Calls : call'[c].via \subseteq call[c].via
    BY <1>1 DEF sessionVars
  <2> QED
    BY <1>1, <2>1, <1>f, <1>r, <1>t, FadeStep DEF sessionVars
<1>2. CASE TickSessions
  <2>0. \A t \in Nat : Sooner(t) \in Nat /\ Sooner(t) <= t
    BY DEF Sooner
  <2>1. ASSUME NEW row \in SessionRow
        PROVE  LET next == [row EXCEPT !.access = Sooner(row.access), !.refresh = Sooner(row.refresh)] IN
               next \in SessionRow /\ Fades(row, next)
    <3>1. Sooner(row.access) \in 0..AccessLife /\ Sooner(row.refresh) \in 0..RefreshLife /\ Sooner(row.refresh) <= row.refresh
      BY SessionFields, <2>0, SessionsAssumption
    <3> QED
      BY <3>1 DEF SessionRow, Fades
  <2>2. session' = [i \in 1..Len(session) |->
                      [session[i] EXCEPT !.access = Sooner(session[i].access), !.refresh = Sooner(session[i].refresh)]]
    BY <1>2, <1>d DEF TickSessions
  <2>3. session' \in [1..Len(session) -> SessionRow] /\ \A i \in 1..Len(session) : Fades(session[i], session'[i])
    BY <2>1, <2>2, <1>d
  <2>4. session' \in Seq(SessionRow) /\ Len(session') = Len(session)
    BY <2>3, <1>d, SeqDef, LenProperties
  <2>5. AllFade(session, session')
    BY <2>3, <2>4 DEF AllFade
  <2>6. ASSUME NEW s \in Challenges
        PROVE  [challenge[s] EXCEPT !.left = Sooner(challenge[s].left)] \in ChallengeRow
    <3>1. Sooner(challenge[s].left) \in 0..ChallengeLife
      BY <1>l, <2>0, SessionsAssumption
    <3> QED
      BY <3>1, <1>t DEF ChallengeRow
  <2>7. /\ challenge' \in [Challenges -> ChallengeRow]
        /\ \A s \in Challenges : challenge'[s].state = challenge[s].state
    BY <2>6, <1>2, <1>t DEF TickSessions, ChallengeRow
  <2>8. burned' = burned /\ call' = call
    BY <1>2 DEF TickSessions
  <2> QED
    BY <2>5, <2>7, <2>8, <1>t, <1>r, FadeKeeps, FadeStep
<1>3. ASSUME NEW s \in Challenges, CreateChallenge(s) PROVE SessionsInv' /\ RevokedKept
  <2>1. OpenChallenge \in ChallengeRow /\ [state |-> "deleted", left |-> 0] \in ChallengeRow
    BY SessionsAssumption DEF OpenChallenge, ChallengeRow
  <2>2. challenge' \in [Challenges -> ChallengeRow]
    BY <1>3, <2>1, <1>t DEF CreateChallenge
  <2>3. \A k \in Challenges : challenge[k].state \in {"consumed", "deleted"} =>
                              challenge'[k].state \in {"consumed", "deleted"}
    BY <1>3 DEF CreateChallenge
  <2>4. UNCHANGED <<session, call, burned>> /\ \A c \in Calls : call'[c].via \subseteq call[c].via
    BY <1>3 DEF CreateChallenge
  <2> QED
    BY <2>2, <2>3, <2>4, <1>f, <1>r, <1>t, FadeStep
<1>4. ASSUME NEW i \in DOMAIN session, RevokeSession(i) PROVE SessionsInv' /\ RevokedKept
  <2>1. session' = Revoked({i}) /\ UNCHANGED <<challenge, call, burned>> /\ \A c \in Calls : call'[c].via \subseteq call[c].via
    BY <1>4 DEF RevokeSession
  <2> QED
    BY <2>1, <1>g, <1>t, FadeStep
<1>5. ASSUME NEW i \in DOMAIN session, DeleteOlderThan(i) PROVE SessionsInv' /\ RevokedKept
  <2>1. ASSUME NEW row \in SessionRow
        PROVE  LET next == [row EXCEPT !.state = "deleted"] IN next \in SessionRow /\ Fades(row, next) /\ Fades(row, row)
    BY SessionFields DEF SessionRow, Fades
  <2>2. session' = [j \in 1..Len(session) |-> IF j <= i THEN [session[j] EXCEPT !.state = "deleted"] ELSE session[j]]
    BY <1>5, <1>d DEF DeleteOlderThan
  <2>3. session' \in [1..Len(session) -> SessionRow] /\ \A j \in 1..Len(session) : Fades(session[j], session'[j])
    BY <2>1, <2>2, <1>d
  <2>4. session' \in Seq(SessionRow) /\ Len(session') = Len(session)
    BY <2>3, <1>d, SeqDef, LenProperties
  <2>5. AllFade(session, session')
    BY <2>3, <2>4 DEF AllFade
  <2>6. UNCHANGED <<challenge, call, burned>> /\ \A c \in Calls : call'[c].via \subseteq call[c].via
    BY <1>5 DEF DeleteOlderThan
  <2> QED
    BY <2>5, <2>6, <1>r, <1>t, FadeKeeps, FadeStep
<1>6. ASSUME NEW c \in Calls, NEW o \in Owners, PasswordLogin(c, o) PROVE SessionsInv' /\ RevokedKept
  <2> DEFINE next == [NoCall EXCEPT !.op = "issue", !.owner = {o}]
  <2>1. next \in Call /\ next.via \subseteq call[c].via
    BY DEF NoCall, Call
  <2>2. call' = [call EXCEPT ![c] = next] /\ UNCHANGED <<session, challenge, burned>>
    BY <1>6 DEF PasswordLogin, BeginCall
  <2> HIDE DEF next
  <2>3. call' \in [Calls -> Call] /\ \A k \in Calls : call'[k].via \subseteq call[k].via
    BY <2>1, <2>2, <1>c
  <2> QED
    BY <2>2, <2>3, <1>f, <1>r, <1>t, FadeStep
<1>7. ASSUME NEW c \in Calls, NEW o \in Owners, RevokeUser(c, o) PROVE SessionsInv' /\ RevokedKept
  <2>1. CASE \E i \in OwnedBy(o) : LockedByOther(c, i)
    <3> DEFINE next == [op |-> "sweep", id |-> 0, right |-> FALSE, owner |-> {}, via |-> {}, rows |-> OwnedBy(o)]
    <3>0. OwnedBy(o) \in SUBSET (Nat \ {0})
      BY <1>d DEF OwnedBy
    <3>1. next \in Call /\ next.via \subseteq call[c].via
      BY <3>0 DEF Call
    <3>2. call' = [call EXCEPT ![c] = next] /\ UNCHANGED <<session, challenge, burned>>
      BY <1>7, <2>1 DEF RevokeUser, NoCall
    <3> HIDE DEF next
    <3>3. call' \in [Calls -> Call] /\ \A k \in Calls : call'[k].via \subseteq call[k].via
      BY <3>1, <3>2, <1>c
    <3> QED
      BY <3>2, <3>3, <1>f, <1>r, <1>t, FadeStep
  <2>2. CASE ~\E i \in OwnedBy(o) : LockedByOther(c, i)
    <3>1. session' = Revoked(OwnedBy(o)) /\ UNCHANGED <<challenge, call, burned>> /\ \A k \in Calls : call'[k].via \subseteq call[k].via
      BY <1>7, <2>2 DEF RevokeUser
    <3> QED
      BY <3>1, <1>g, <1>t, FadeStep
  <2> QED
    BY <2>1, <2>2
<1>8. ASSUME NEW c \in Calls, NEW s \in Challenges, OIDCCallback(c, s) PROVE SessionsInv' /\ RevokedKept
  <2> DEFINE next == [NoCall EXCEPT !.op = "exchange", !.via = {s}]
  <2>1. next \in Call /\ next.via = {s}
    BY DEF NoCall, Call
  <2>2. /\ call' = [call EXCEPT ![c] = next] /\ call[c] = NoCall /\ UNCHANGED <<session, burned>>
        /\ challenge[s].state = "open" /\ challenge' = [challenge EXCEPT ![s] = [state |-> "consumed", left |-> 0]]
    BY <1>8 DEF OIDCCallback, BeginCall, Consume
  <2> HIDE DEF next
  <2>3. [state |-> "consumed", left |-> 0] \in ChallengeRow
    BY SessionsAssumption DEF ChallengeRow
  <2>4. SessionsTypeOK'
    BY <2>1, <2>2, <2>3, <1>t DEF SessionsTypeOK
  <2>5. \A k \in Challenges : /\ k = s => challenge'[k].state = "consumed"
                              /\ k # s => challenge'[k] = challenge[k]
    BY <2>2, <1>t
  <2>6. \A k \in Calls : /\ k = c => call'[k].via = {s}
                         /\ k # c => call'[k].via = call[k].via
    BY <2>1, <2>2, <1>t
  <2>7. /\ \A k \in Calls : s \notin call[k].via
        /\ \A i \in DOMAIN session : s \notin session[i].via /\ session[i].via \subseteq Challenges
    BY <2>2, <1>d, SessionFields DEF SessionsInv, StatesSpent
  <2>8. StatesSpent'
    <3>1. \A i \in DOMAIN session' : \A t \in session'[i].via : challenge'[t].state \in {"consumed", "deleted"}
      BY <2>2, <2>5, <2>7 DEF SessionsInv, StatesSpent
    <3>2. ASSUME NEW k \in Calls, NEW t \in call'[k].via
          PROVE  challenge'[t].state \in {"consumed", "deleted"} /\ \A i \in DOMAIN session' : t \notin session'[i].via
      <4>1. CASE k = c
        BY <4>1, <3>2, <2>2, <2>5, <2>6, <2>7
      <4>2. CASE k # c
        BY <4>2, <3>2, <2>2, <2>5, <2>6, <1>l DEF SessionsInv, StatesSpent
      <4> QED
        BY <4>1, <4>2
    <3>3. \A k, m \in Calls : call'[k].via \cap call'[m].via # {} => k = m
      BY <2>6, <2>7 DEF SessionsInv, StatesSpent
    <3> QED
      BY <3>1, <3>2, <3>3 DEF StatesSpent
  <2>9. RevokedKept
    BY <2>2, <1>d, SessionFields DEF RevokedKept, Live
  <2> QED
    BY <2>2, <2>4, <2>8, <2>9, <1>r DEF SessionsInv
<1>9. ASSUME NEW c \in Calls, OIDCExchange(c) PROVE SessionsInv' /\ RevokedKept
  <2>1. PICK next \in Call : next.via \subseteq call[c].via /\ call' = [call EXCEPT ![c] = next]
    <3>1. CASE EndCall(c)
      BY <3>1, <1>n DEF EndCall
    <3>2. ASSUME NEW o \in Owners, call' = [call EXCEPT ![c] = [@ EXCEPT !.op = "issue", !.owner = {o}]]
          PROVE  \E next \in Call : next.via \subseteq call[c].via /\ call' = [call EXCEPT ![c] = next]
      <4> DEFINE next == [call[c] EXCEPT !.op = "issue", !.owner = {o}]
      <4>1. next \in Call /\ next.via = call[c].via
        BY <1>t DEF Call
      <4> QED
        BY <4>1, <3>2
    <3> QED
      BY <3>1, <3>2, <1>9 DEF OIDCExchange
  <2>2. call' \in [Calls -> Call] /\ \A k \in Calls : call'[k].via \subseteq call[k].via
    BY <2>1, <1>c
  <2>3. UNCHANGED <<session, challenge, burned>>
    BY <1>9 DEF OIDCExchange
  <2> QED
    BY <2>2, <2>3, <1>f, <1>r, <1>t, FadeStep
<1>10. ASSUME NEW c \in Calls, IssueTokens(c) PROVE SessionsInv' /\ RevokedKept
  <2>1. PICK o \in call[c].owner : session' = Append(session, NewSession(o, Len(session) + 1, 0, call[c].via))
    BY <1>10 DEF IssueTokens
  <2> DEFINE row == NewSession(o, Len(session) + 1, 0, call[c].via)
  <2>2. /\ row \in SessionRow /\ row.family = Len(session) + 1 /\ row.parent = 0 /\ row.via = call[c].via
    BY <1>d, <1>l, SessionsAssumption DEF NewSession, SessionRow
  <2>3. session' = Append(session, row)
    BY <2>1
  <2> HIDE DEF row
  <2>4. row.family \notin burned
    BY <2>2, <1>d, <1>r, <1>t DEF RowsSound
  <2>5. \A j \in 1..Len(session) : session[j].family # row.family
    BY <2>2, <1>d, <1>r, SessionFields DEF RowsSound
  <2>6. \A j \in 1..Len(session) : session[j].via \cap row.via = {}
    BY <2>2, <1>d DEF SessionsInv, StatesSpent
  <2>7. burned \in SUBSET Nat /\ row.family <= Len(session) + 1
    BY <1>t, <1>d, <2>2
  <2>8. session' \in Seq(SessionRow) /\ RowsSound(session', burned)
    BY <2>2, <2>3, <2>4, <2>5, <2>6, <2>7, <1>t, <1>r, AppendKeeps
  <2>9. call' = [call EXCEPT ![c] = NoCall] /\ UNCHANGED <<challenge, burned>>
    BY <1>10 DEF IssueTokens, EndCall
  <2> QED
    BY <2>2, <2>3, <2>8, <2>9, <1>f, JoinStep
<1>11. ASSUME NEW c \in Calls, NEW i \in DOMAIN session, NEW right \in BOOLEAN, Refresh(c, i, right)
       PROVE  SessionsInv' /\ RevokedKept
  <2> DEFINE next == [NoCall EXCEPT !.op = "rotate", !.id = i, !.right = right]
  <2>0. i \in Nat
    BY <1>d
  <2>1. next \in Call /\ next.via \subseteq call[c].via
    BY <2>0 DEF NoCall, Call
  <2>2. call' = [call EXCEPT ![c] = next] /\ UNCHANGED <<session, challenge, burned>>
    BY <1>11 DEF Refresh, BeginCall
  <2> HIDE DEF next
  <2>3. call' \in [Calls -> Call] /\ \A k \in Calls : call'[k].via \subseteq call[k].via
    BY <2>1, <2>2, <1>c
  <2> QED
    BY <2>2, <2>3, <1>f, <1>r, <1>t, FadeStep
<1>12. ASSUME NEW c \in Calls, Rotate(c) PROVE SessionsInv' /\ RevokedKept
  <2>1. PICK i \in Nat : i = call[c].id
    BY <1>l
  <2>2. /\ i \in 1..Len(session) /\ session[i].state = "live"
        /\ session' = Append(Revoked({i}), NewSession(session[i].owner, session[i].family, i, {}))
    BY <1>12, <2>1, <1>d DEF Rotate, Rotatable, Live
  <2> DEFINE row == NewSession(session[i].owner, session[i].family, i, {})
             S == Revoked({i})
  <2>3. /\ row \in SessionRow /\ row.family = session[i].family /\ row.parent = i /\ row.via = {}
    BY <1>d, <2>1, <2>2, SessionFields, SessionsAssumption DEF NewSession, SessionRow
  <2>4. session' = Append(S, row)
    BY <2>2
  <2>5. AllFade(session, S) /\ RowsSound(S, burned)
    BY <1>g
  <2>6. S[i].state # "live"
    BY <2>2, <1>t, RevokedFade
  <2> HIDE DEF row, S
  <2>7. S \in Seq(SessionRow) /\ Len(S) = Len(session)
    BY <2>5 DEF AllFade
  <2>8. row.family <= Len(S) + 1 /\ row.family \notin burned
    BY <2>2, <2>3, <2>7, <1>d, <1>r, SessionFields DEF RowsSound
  <2>9. \A j \in 1..Len(S) : S[j].parent # i
    BY <2>2, <2>5, <2>7, <1>r DEF AllFade, Fades, RowsSound
  <2>10. \A j \in 1..Len(S) : S[j].family = row.family => S[j].state # "live"
    <3> SUFFICES ASSUME NEW j \in 1..Len(S), S[j].family = row.family, S[j].state = "live" PROVE FALSE
      OBVIOUS
    <3>1. j \in 1..Len(session) /\ session[j].family = session[i].family /\ session[j].state = "live"
      BY <2>3, <2>5, <2>7 DEF AllFade, Fades
    <3>2. j = i
      BY <3>1, <2>2, <1>r DEF RowsSound
    <3> QED
      BY <3>2, <2>6
  <2>11. \A j \in 1..Len(S) : S[j].via \cap row.via = {}
    BY <2>3
  <2>12. burned \in SUBSET Nat
    BY <1>t
  <2>13. session' \in Seq(SessionRow) /\ RowsSound(session', burned)
    BY <2>2, <2>3, <2>4, <2>5, <2>6, <2>7, <2>8, <2>9, <2>10, <2>11, <2>12, AppendKeeps
  <2>14. call' = [call EXCEPT ![c] = NoCall] /\ UNCHANGED <<challenge, burned>>
    BY <1>12 DEF Rotate, EndCall
  <2>15. row.via \subseteq call[c].via
    BY <2>3
  <2> QED
    BY <2>3, <2>4, <2>5, <2>13, <2>14, <2>15, JoinStep
<1>13. ASSUME NEW c \in Calls, RotateReplay(c) PROVE SessionsInv' /\ RevokedKept
  <2>1. PICK i \in Nat : i = call[c].id
    BY <1>l
  <2>2. i \in 1..Len(session)
    BY <1>13, <2>1, <1>d DEF RotateReplay, Exists
  <2>3. CASE \E j \in Family(i) : LockedByOther(c, j)
    <3> DEFINE next == [call[c] EXCEPT !.op = "sweep", !.rows = Family(i)]
    <3>0. Family(i) \in SUBSET (Nat \ {0})
      BY <1>d DEF Family
    <3>1. next \in Call /\ next.via \subseteq call[c].via
      BY <3>0, <1>t DEF Call
    <3>2. call' = [call EXCEPT ![c] = next] /\ UNCHANGED <<session, challenge, burned>>
      BY <1>13, <2>1, <2>3 DEF RotateReplay
    <3> HIDE DEF next
    <3>3. call' \in [Calls -> Call] /\ \A k \in Calls : call'[k].via \subseteq call[k].via
      BY <3>1, <3>2, <1>c
    <3> QED
      BY <3>2, <3>3, <1>f, <1>r, <1>t, FadeStep
  <2>4. CASE ~\E j \in Family(i) : LockedByOther(c, j)
    <3>1. /\ session' = Revoked(Family(i)) /\ burned' = burned \cup {session[i].family}
          /\ call' = [call EXCEPT ![c] = NoCall] /\ challenge' = challenge
      BY <1>13, <2>1, <2>4 DEF RotateReplay, EndCall
    <3>2. AllFade(session, session') /\ RowsSound(session', burned)
      BY <3>1, <1>g
    <3>3. \A j \in 1..Len(session') : session'[j].family = session[i].family => session'[j].state # "live"
      <4> SUFFICES ASSUME NEW j \in 1..Len(session), session'[j].family = session[i].family
                   PROVE  session'[j].state # "live"
        BY <3>2 DEF AllFade
      <4>1. session[j].family = session[i].family
        BY <3>2 DEF AllFade, Fades
      <4>2. CASE session[j].state = "deleted"
        BY <3>2, <4>2 DEF AllFade, Fades
      <4>3. CASE session[j].state # "deleted"
        <5>1. j \in Family(i)
          BY <4>1, <4>3, <1>d DEF Family, Exists
        <5> QED
          BY <5>1, <3>1, <1>t, RevokedFade
      <4> QED
        BY <4>2, <4>3
    <3>4. session[i].family \in Nat \ {0} /\ session[i].family <= Len(session') /\ Len(session') = Len(session)
      BY <2>2, <3>2, <1>d, <1>r, SessionFields DEF RowsSound, AllFade
    <3>5. RowsSound(session', burned')
      BY <3>1, <3>2, <3>3, <3>4 DEF RowsSound
    <3>6. call' \in [Calls -> Call] /\ \A k \in Calls : call'[k].via \subseteq call[k].via
      BY <3>1, <1>n, <1>c
    <3>7. burned' \subseteq Nat \ {0}
      BY <3>1, <3>4, <1>t
    <3> QED
      BY <3>1, <3>2, <3>5, <3>6, <3>7, <1>t, FadeStep
  <2> QED
    BY <2>3, <2>4
<1>14. ASSUME NEW c \in Calls, Sweep(c) PROVE SessionsInv' /\ RevokedKept
  <2>1. session' = Revoked(call[c].rows) /\ call' = [call EXCEPT ![c] = NoCall] /\ UNCHANGED <<challenge, burned>>
    BY <1>14 DEF Sweep, EndCall
  <2>2. call' \in [Calls -> Call] /\ \A k \in Calls : call'[k].via \subseteq call[k].via
    BY <2>1, <1>n, <1>c
  <2> QED
    BY <2>1, <2>2, <1>g, <1>t, FadeStep
<1>15. ASSUME NEW c \in Calls, SweepDeadlock(c) PROVE SessionsInv' /\ RevokedKept
  <2>1. call' = [call EXCEPT ![c] = NoCall] /\ UNCHANGED <<session, challenge, burned>>
    BY <1>15 DEF SweepDeadlock, EndCall
  <2>2. call' \in [Calls -> Call] /\ \A k \in Calls : call'[k].via \subseteq call[k].via
    BY <2>1, <1>n, <1>c
  <2> QED
    BY <2>1, <2>2, <1>f, <1>r, <1>t, FadeStep
<1> QED
  BY <1>1, <1>2, <1>3, <1>4, <1>5, <1>6, <1>7, <1>8, <1>9, <1>10, <1>11, <1>12, <1>13, <1>14, <1>15 DEF NextSessions

\* Sessions' variables always have their types.
THEOREM SessionsTypeCorrect == SpecSessions => []SessionsTypeOK
<1>1. SessionsInv => SessionsTypeOK
  BY DEF SessionsInv
<1> QED
  BY <1>1, SessionsInit, SessionsStep, PTL DEF SpecSessions

\* However many refreshes, replays, callbacks and revocations interleave: a
\* refresh token is exchanged once, one session of a family is live, a replay
\* that no rotation overlapped ends the family, an SSO state admits one session,
\* and a revoked session stays revoked.
THEOREM TokensAlwaysHold == SpecSessions => TokensHold
<1>1. SessionsInv => OneLivePerFamily /\ ReplayEndsFamily /\ StateUsedOnce
  <2> SUFFICES ASSUME SessionsInv PROVE OneLivePerFamily /\ ReplayEndsFamily /\ StateUsedOnce
    OBVIOUS
  <2>1. RowsSound(session, burned) /\ DOMAIN session = 1..Len(session)
    BY SessionDomain DEF SessionsInv
  <2> QED
    BY <2>1 DEF RowsSound, OneLivePerFamily, ReplayEndsFamily, StateUsedOnce, Live
<1>2. SessionsInv /\ [NextSessions]_sessionVars =>
        [\A i \in DOMAIN session :
           /\ i \in DOMAIN session'
           /\ ~Live(i) => ~Live(i)'
           /\ session'[i].refresh <= session[i].refresh]_sessionVars
  BY SessionsStep DEF RevokedKept
<1> QED
  BY <1>1, <1>2, SessionsInit, SessionsStep, PTL DEF SpecSessions, TokensHold, RevokedStays

-----------------------------------------------------------------------------
(* Gateway *)

\* The version a request found first is n, or it found none; n for sure if
\* nothing failed to be read and the body is not needed for it.
ReadAs(row, n, b) == row.before \in {0, n} /\ (~b /\ ~row.missed => row.before = n)

\* The version it found at the end is the one it wrote, in the same sense.
ReadAgain(row, b) == row.after \in {0, row.wrote} /\ (~b /\ ~row.missed => row.after = row.wrote)

\* What a request's row says, its events being e and the version of the row
\* that writes change being v, a provider if b: events come in their order, only a recorded
\* request has changed anything, and what it read is v as long as it was alone.
HitSound(row, e, v, b) ==
    /\ row.phase \in {"idle", "passed", "seen"} => e = {}
    /\ row.phase # "done" => e \subseteq {"accepted"}
    /\ row.phase \in {"accepted", "stored", "executed"} /\ row.kind # "logs" => "accepted" \in e
    /\ row.phase = "stored" => row.kind = "switch"
    /\ row.phase = "executed" => row.kind # "logs"
    /\ row.phase = "appending" => row.kind = "logs"
    /\ row.changed => row.phase \in {"stored", "executed", "done"} /\ "accepted" \in e
    /\ row.kind = "write" /\ row.alone =>
        /\ row.phase \in {"seen", "accepted"} => ReadAs(row, v, b)
        /\ row.phase = "executed" /\ row.changed => row.wrote = v /\ ReadAs(row, v - 1, b)
        /\ row.phase = "done" /\ row.changed /\ "success" \in e => ReadAs(row, row.wrote - 1, b) /\ ReadAgain(row, b)

ChangedWrites == {h \in Hits : hit[h].kind = "write" /\ hit[h].changed}

\* The requests, their events and the version, which counts the writes.
RequestsSound ==
    /\ GatewayTypeOK
    /\ \A h \in Hits : HitSound(hit[h], trail[h], entity, inBody)
    /\ entity = Cardinality(ChangedWrites)

\* The setting and its copy agree unless one change is between its two writes,
\* and then it is about to copy what it stored; overlapping changes aside.
LockdownSound ==
    ~crossed => /\ \A g, h \in Hits : hit[g].phase = "stored" /\ hit[h].phase = "stored" => g = h
                /\ \A h \in Hits : hit[h].phase = "stored" => hit[h].value = lockdown.stored
                /\ (\A h \in Hits : hit[h].phase # "stored") => lockdown.memory = lockdown.stored

GatewayInv == RequestsSound /\ LockdownSound /\ SilencedIsRecorded /\ crossed \in BOOLEAN

\* The fields of a request.
LEMMA HitFields ==
    ASSUME NEW row \in HitRow
    PROVE  /\ row.kind \in Kinds /\ row.value \in BOOLEAN /\ row.changed \in BOOLEAN /\ row.alone \in BOOLEAN
           /\ row.phase \in {"idle", "passed", "seen", "accepted", "stored", "executed", "appending", "done"}
           /\ row.before \in Nat /\ row.after \in Nat /\ row.wrote \in Nat
           /\ row.ok \in BOOLEAN /\ row.missed \in BOOLEAN
  BY DEF HitRow

\* The first state.
LEMMA GatewayInit == InitGateway => GatewayInv
<1> SUFFICES ASSUME InitGateway PROVE GatewayInv
  OBVIOUS
<1> DEFINE first == [kind |-> "write", phase |-> "idle", value |-> FALSE, changed |-> FALSE,
                     ok |-> FALSE, before |-> 0, after |-> 0, wrote |-> 0, missed |-> FALSE, alone |-> TRUE]
<1>1. first \in HitRow /\ first.phase = "idle" /\ ~first.changed
  BY DEF HitRow, Kinds
<1>2. \A h \in Hits : hit[h] = first /\ trail[h] = {}
  BY DEF InitGateway
<1>3. hit = [h \in Hits |-> first]
  BY DEF InitGateway
<1> HIDE DEF first
<1>4. Cardinality(Hits) \in Nat /\ ChangedWrites = {} /\ Cardinality({}) = 0
  BY <1>1, <1>2, HitsAssumption, FS_CardinalityType, FS_EmptySet DEF ChangedWrites
<1>5. GatewayTypeOK
  <2>0. hit \in [Hits -> HitRow]
    BY <1>1, <1>3
  <2>1. entity \in 0..Cardinality(Hits)
    BY <1>4 DEF InitGateway
  <2>2. {} \in Trails
    BY DEF Trails
  <2>3. trail \in [Hits -> Trails]
    BY <2>2 DEF InitGateway
  <2> QED
    BY <2>0, <2>1, <2>3 DEF InitGateway, GatewayTypeOK
<1>6. RequestsSound
  BY <1>1, <1>2, <1>4, <1>5 DEF RequestsSound, HitSound, InitGateway
<1>7. LockdownSound /\ SilencedIsRecorded
  BY <1>1, <1>2 DEF LockdownSound, SilencedIsRecorded, InitGateway
<1> QED
  BY <1>6, <1>7 DEF GatewayInv, InitGateway

\* A step of one request that counts no new write keeps the requests sound.
LEMMA HitStep ==
    ASSUME GatewayInv, NEW h \in Hits, NEW row \in HitRow, NEW e \in Trails,
           hit' = [hit EXCEPT ![h] = row], trail' = [trail EXCEPT ![h] = e], entity' = entity, inBody' = inBody,
           lockdown' \in [stored : BOOLEAN, memory : BOOLEAN], live' \in [reserved : BOOLEAN, stored : BOOLEAN],
           HitSound(row, e, entity, inBody),
           (row.kind = "write" /\ row.changed) <=> (hit[h].kind = "write" /\ hit[h].changed)
    PROVE  RequestsSound'
<1>1. GatewayTypeOK'
  BY DEF GatewayInv, RequestsSound, GatewayTypeOK
<1>2. \A g \in Hits : /\ g = h => hit'[g] = row /\ trail'[g] = e
                      /\ g # h => hit'[g] = hit[g] /\ trail'[g] = trail[g]
  BY DEF GatewayInv, RequestsSound, GatewayTypeOK
<1>3. \A g \in Hits : HitSound(hit'[g], trail'[g], entity, inBody)
  <2> SUFFICES ASSUME NEW g \in Hits PROVE HitSound(hit'[g], trail'[g], entity, inBody)
    OBVIOUS
  <2>1. CASE g = h
    BY <2>1, <1>2
  <2>2. CASE g # h
    BY <2>2, <1>2 DEF GatewayInv, RequestsSound
  <2> QED
    BY <2>1, <2>2
<1>4. ChangedWrites' = ChangedWrites
  BY <1>2 DEF ChangedWrites
<1>5. \A g \in Hits : HitSound(hit[g], trail[g], entity, inBody)'
  BY <1>3
<1> QED
  BY <1>1, <1>4, <1>5 DEF GatewayInv, RequestsSound

\* Such a step that is neither of the switch nor of the log audit keeps everything.
LEMMA QuietStep ==
    ASSUME GatewayInv, NEW h \in Hits, NEW row \in HitRow, NEW e \in Trails,
           hit' = [hit EXCEPT ![h] = row], trail' = [trail EXCEPT ![h] = e], UNCHANGED <<inBody, entity, lockdown, live, crossed>>,
           HitSound(row, e, entity, inBody),
           (row.kind = "write" /\ row.changed) <=> (hit[h].kind = "write" /\ hit[h].changed),
           hit[h].phase \notin {"stored", "appending"}, row.phase \notin {"stored", "appending"}
    PROVE  GatewayInv'
<1>1. RequestsSound'
  BY HitStep DEF GatewayInv, RequestsSound, GatewayTypeOK
<1>2. \A g \in Hits : /\ g = h => hit'[g] = row
                      /\ g # h => hit'[g] = hit[g]
  BY DEF GatewayInv, RequestsSound, GatewayTypeOK
<1>3. /\ \A g \in Hits : (hit'[g].phase = "stored" <=> hit[g].phase = "stored")
                      /\ (hit'[g].phase = "appending" <=> hit[g].phase = "appending")
      /\ \A g \in Hits : hit[g].phase = "stored" => hit'[g] = hit[g]
  BY <1>2
<1>4. LockdownSound'
  BY <1>3 DEF GatewayInv, LockdownSound
<1>5. SilencedIsRecorded'
  BY <1>3 DEF GatewayInv, SilencedIsRecorded
<1> QED
  BY <1>1, <1>4, <1>5 DEF GatewayInv

\* What LockdownHolds asks of a step.
WritesKeptOut ==
    \A h \in Hits : /\ hit'[h].kind = "write" /\ hit[h].phase = "idle" /\ hit'[h].phase = "passed"
                    => ~lockdown.stored \/ crossed \/ \E g \in Hits : hit[g].phase = "stored"

\* Every step keeps the invariant, and writes out of a lockdown.
LEMMA GatewayStep == GatewayInv /\ [NextGateway]_gatewayVars => GatewayInv' /\ WritesKeptOut
<1> SUFFICES ASSUME GatewayInv, [NextGateway]_gatewayVars PROVE GatewayInv' /\ WritesKeptOut
  OBVIOUS
<1>t. /\ lockdown \in [stored : BOOLEAN, memory : BOOLEAN] /\ entity \in Nat /\ inBody \in BOOLEAN
      /\ hit \in [Hits -> HitRow] /\ trail \in [Hits -> Trails]
      /\ live \in [reserved : BOOLEAN, stored : BOOLEAN] /\ crossed \in BOOLEAN
  BY HitsAssumption, FS_CardinalityType DEF GatewayInv, RequestsSound, GatewayTypeOK
<1>s. \A h \in Hits : HitSound(hit[h], trail[h], entity, inBody) /\ hit[h] \in HitRow /\ trail[h] \in Trails
  BY <1>t DEF GatewayInv, RequestsSound
<1>u. \A h \in Hits : trail' = trail => trail' = [trail EXCEPT ![h] = trail[h]]
  BY <1>t
<1>w. (\A h \in Hits : hit[h].phase = "idle" => hit'[h].phase # "passed") => WritesKeptOut
  BY DEF WritesKeptOut
<1>h. ASSUME NEW h \in Hits, NEW row, hit' = [hit EXCEPT ![h] = row], hit[h].phase # "idle" PROVE WritesKeptOut
  BY <1>h, <1>t, <1>w
<1>1. CASE UNCHANGED gatewayVars
  <2>1. GatewayInv'
    BY <1>1 DEF gatewayVars, GatewayInv, RequestsSound, GatewayTypeOK, ChangedWrites, HitSound, LockdownSound, SilencedIsRecorded
  <2> QED
    BY <1>1, <2>1, <1>w DEF gatewayVars
<1>2. ASSUME NEW h \in Hits, NEW kind \in Kinds, NEW value \in BOOLEAN, PassLockdown(h, kind, value)
      PROVE  GatewayInv' /\ WritesKeptOut
  <2> DEFINE row == [hit[h] EXCEPT !.phase = "passed", !.kind = kind, !.value = value]
  <2>1. hit[h].phase = "idle" /\ trail[h] = {} /\ ~hit[h].changed /\ ~(lockdown.memory /\ kind = "write")
    BY <1>2, <1>s DEF PassLockdown, HitSound
  <2>2. row \in HitRow /\ row.phase = "passed" /\ row.kind = kind /\ row.changed = hit[h].changed
    BY <1>s DEF HitRow
  <2>3. hit' = [hit EXCEPT ![h] = row] /\ trail' = trail /\ UNCHANGED <<inBody, entity, lockdown, live, crossed>>
    BY <1>2 DEF PassLockdown, SetHit
  <2> HIDE DEF row
  <2>4. HitSound(row, {}, entity, inBody)
    BY <2>1, <2>2 DEF HitSound
  <2>5. GatewayInv'
    BY <2>1, <2>2, <2>3, <2>4, <1>s, <1>u, QuietStep
  <2>6. WritesKeptOut
    <3> SUFFICES ASSUME NEW g \in Hits, hit'[g].kind = "write", hit[g].phase = "idle", hit'[g].phase = "passed",
                        lockdown.stored, ~crossed, \A k \in Hits : hit[k].phase # "stored"
                 PROVE  FALSE
      BY DEF WritesKeptOut
    <3>1. g = h /\ kind = "write"
      BY <2>2, <2>3, <1>t
    <3>2. lockdown.memory = lockdown.stored
      BY DEF GatewayInv, LockdownSound
    <3> QED
      BY <3>1, <3>2, <2>1
  <2> QED
    BY <2>5, <2>6
<1>3. ASSUME NEW h \in Hits, Deny(h) PROVE GatewayInv' /\ WritesKeptOut
  <2> DEFINE row == [hit[h] EXCEPT !.phase = "done"]
  <2>1. hit[h].phase = "passed" /\ trail[h] = {} /\ ~hit[h].changed
    BY <1>3, <1>s DEF Deny, HitSound
  <2>2. row \in HitRow /\ row.phase = "done" /\ row.changed = hit[h].changed
    BY <1>s DEF HitRow
  <2>3. hit' = [hit EXCEPT ![h] = row] /\ UNCHANGED <<inBody, entity, lockdown, live, crossed>>
    BY <1>3 DEF Deny, EndHit, SetHit
  <2>4. PICK e \in Trails : e \in {{}, {"denied"}} /\ trail' = [trail EXCEPT ![h] = e]
    <3>1. {} \in Trails /\ {"denied"} \in Trails /\ {} \cup {"denied"} = {"denied"}
      BY DEF Trails
    <3> QED
      BY <1>3, <2>1, <3>1, <1>t, <1>u DEF Deny, Record
  <2> HIDE DEF row
  <2>5. HitSound(row, e, entity, inBody)
    BY <2>1, <2>2, <2>4 DEF HitSound
  <2> QED
    BY <2>1, <2>2, <2>3, <2>4, <2>5, <1>h, QuietStep
<1>4. ASSUME NEW h \in Hits, AuditBefore(h) PROVE GatewayInv' /\ WritesKeptOut
  <2>a. PICK seen \in FoundBefore(hit[h].kind) :
          SetHit(h, [hit[h] EXCEPT !.phase = IF hit[h].kind = "logs" THEN "accepted" ELSE "seen", !.before = seen,
                                   !.missed = \E other \in FoundBefore(hit[h].kind) : seen < other])
    BY <1>4 DEF AuditBefore
  <2> DEFINE p == IF hit[h].kind = "logs" THEN "accepted" ELSE "seen"
             lost == \E other \in FoundBefore(hit[h].kind) : seen < other
             row == [hit[h] EXCEPT !.phase = p, !.before = seen, !.missed = lost]
  <2>0. p \in {"accepted", "seen"} /\ (p = "accepted" <=> hit[h].kind = "logs")
    OBVIOUS
  <2>1. hit[h].phase = "passed" /\ trail[h] = {} /\ ~hit[h].changed
    BY <1>4, <1>s DEF AuditBefore, HitSound
  <2>3. hit' = [hit EXCEPT ![h] = row] /\ trail' = trail /\ UNCHANGED <<inBody, entity, lockdown, live, crossed>>
    BY <1>4, <2>a DEF AuditBefore, SetHit
  <2>b. seen \in Nat /\ lost \in BOOLEAN
    BY <1>t DEF FoundBefore
  <2>c. hit[h].kind = "write" => seen \in {0, entity} /\ (~inBody /\ ~lost => seen = entity)
    BY <1>t DEF FoundBefore
  <2> HIDE DEF p, lost
  <2>2. /\ row \in HitRow /\ row.phase = p /\ row.kind = hit[h].kind /\ row.changed = hit[h].changed
        /\ row.before = seen /\ row.missed = lost
    BY <1>s, <1>t, <2>0, <2>b DEF HitRow
  <2> HIDE DEF row
  <2>4. HitSound(row, {}, entity, inBody)
    BY <2>0, <2>1, <2>2, <2>c DEF HitSound, ReadAs
  <2> QED
    BY <2>0, <2>1, <2>2, <2>3, <2>4, <1>s, <1>u, <1>h, QuietStep
<1>5. ASSUME NEW h \in Hits, RecordAccepted(h) PROVE GatewayInv' /\ WritesKeptOut
  <2>1. hit[h].phase = "seen" /\ trail[h] = {} /\ ~hit[h].changed /\ UNCHANGED <<inBody, entity, lockdown, live, crossed>>
    BY <1>5, <1>s DEF RecordAccepted, HitSound
  <2>2. CASE Record(h, "accepted") /\ SetHit(h, [hit[h] EXCEPT !.phase = "accepted"])
    <3> DEFINE row == [hit[h] EXCEPT !.phase = "accepted"]
               e == {"accepted"}
    <3>1. row \in HitRow /\ row.phase = "accepted" /\ row.changed = hit[h].changed /\ row.kind = hit[h].kind
                         /\ row.before = hit[h].before /\ row.missed = hit[h].missed /\ row.alone = hit[h].alone
      BY <1>s DEF HitRow
    <3>2. hit' = [hit EXCEPT ![h] = row]
      BY <2>2 DEF SetHit
    <3>3. e \in Trails /\ trail' = [trail EXCEPT ![h] = e]
      <4>1. {} \cup {"accepted"} = {"accepted"} /\ {"accepted"} \in Trails
        BY DEF Trails
      <4> QED
        BY <4>1, <2>1, <2>2 DEF Record
    <3> HIDE DEF row
    <3>4. HitSound(row, e, entity, inBody)
      BY <2>1, <3>1, <1>s DEF HitSound, ReadAs
    <3> HIDE DEF e
    <3> QED
      BY <2>1, <3>1, <3>2, <3>3, <3>4, <1>h, QuietStep
  <2>3. CASE EndHit(h) /\ UNCHANGED trail
    <3> DEFINE row == [hit[h] EXCEPT !.phase = "done"]
    <3>1. row \in HitRow /\ row.phase = "done" /\ row.changed = hit[h].changed
      BY <1>s DEF HitRow
    <3>2. hit' = [hit EXCEPT ![h] = row] /\ trail' = trail
      BY <2>3 DEF EndHit, SetHit
    <3> HIDE DEF row
    <3>3. HitSound(row, {}, entity, inBody)
      BY <2>1, <3>1 DEF HitSound
    <3> QED
      BY <2>1, <3>1, <3>2, <3>3, <1>s, <1>u, <1>h, QuietStep
  <2> QED
    BY <2>2, <2>3, <1>5 DEF RecordAccepted
<1>6. ASSUME NEW h \in Hits, Handle(h) PROVE GatewayInv' /\ WritesKeptOut
  <2>1. /\ hit[h].phase = "accepted" /\ hit[h].kind = "write" /\ ~hit[h].changed /\ "accepted" \in trail[h]
        /\ trail[h] \subseteq {"accepted"} /\ (hit[h].alone => ReadAs(hit[h], entity, inBody))
        /\ UNCHANGED <<inBody, lockdown, trail, live, crossed>>
    BY <1>6, <1>s DEF Handle, HitSound
  <2>a. PICK ok \in BOOLEAN :
          \/ /\ entity' = entity + 1
             /\ Disturb(h, [hit[h] EXCEPT !.phase = "executed", !.ok = ok, !.changed = TRUE, !.wrote = entity + 1])
          \/ SetHit(h, [hit[h] EXCEPT !.phase = "executed", !.ok = ok]) /\ UNCHANGED entity
    BY <1>6 DEF Handle
  <2>2. CASE /\ entity' = entity + 1
             /\ Disturb(h, [hit[h] EXCEPT !.phase = "executed", !.ok = ok, !.changed = TRUE, !.wrote = entity + 1])
    <3> DEFINE row == [hit[h] EXCEPT !.phase = "executed", !.ok = ok, !.changed = TRUE, !.wrote = entity + 1]
    <3>1. /\ row \in HitRow /\ row.phase = "executed" /\ row.changed /\ row.kind = "write" /\ row.wrote = entity + 1
          /\ row.before = hit[h].before /\ row.missed = hit[h].missed /\ row.alone = hit[h].alone
      <4>1. entity + 1 \in Nat
        BY <1>t
      <4> QED
        BY <4>1, <2>1, <1>s DEF HitRow
    <3>2. hit' = [g \in Hits |-> IF g = h THEN row
                                 ELSE IF Working(g) THEN [hit[g] EXCEPT !.alone = FALSE] ELSE hit[g]]
      BY <2>2 DEF Disturb
    <3> HIDE DEF row
    <3>3. HitSound(row, trail[h], entity + 1, inBody)
      <4> DEFINE v == entity + 1
      <4>1. v - 1 = entity /\ row.wrote = v
        BY <1>t, <3>1
      <4> HIDE DEF v
      <4>2. row.alone => ReadAs(row, v - 1, inBody)
        BY <2>1, <3>1, <4>1 DEF ReadAs
      <4>3. /\ row.phase = "executed" /\ row.changed = TRUE /\ row.kind = "write"
            /\ "accepted" \in trail[h] /\ trail[h] \subseteq {"accepted"}
        BY <2>1, <3>1
      <4>4. HitSound(row, trail[h], v, inBody)
        BY <4>1, <4>2, <4>3 DEF HitSound
      <4> QED
        BY <4>4 DEF v
    <3>4. ASSUME NEW g \in Hits, g # h
          PROVE  /\ hit'[g] \in HitRow /\ HitSound(hit'[g], trail[g], entity + 1, inBody)
                 /\ hit'[g].phase = hit[g].phase /\ hit'[g].kind = hit[g].kind
                 /\ hit'[g].changed = hit[g].changed /\ hit'[g].value = hit[g].value
      <4>1. CASE Working(g)
        <5> DEFINE other == [hit[g] EXCEPT !.alone = FALSE]
        <5>1. hit'[g] = other
          BY <3>2, <3>4, <4>1
        <5>2. /\ other \in HitRow /\ ~other.alone /\ other.phase = hit[g].phase /\ other.kind = hit[g].kind
              /\ other.changed = hit[g].changed /\ other.value = hit[g].value
          BY <1>s DEF HitRow
        <5> HIDE DEF other
        <5>3. HitSound(other, trail[g], entity + 1, inBody)
          BY <5>2, <1>s DEF HitSound
        <5> QED
          BY <5>1, <5>2, <5>3
      <4>2. CASE ~Working(g)
        <5>1. hit'[g] = hit[g] /\ hit[g].phase \in {"idle", "done"}
          BY <3>2, <3>4, <4>2 DEF Working
        <5>2. HitSound(hit[g], trail[g], entity + 1, inBody)
          BY <5>1, <1>s DEF HitSound
        <5> QED
          BY <5>1, <5>2, <1>s
      <4> QED
        BY <4>1, <4>2
    <3>5. hit'[h] = row
      BY <3>2
    <3>6. ASSUME NEW g \in Hits PROVE hit'[g] \in HitRow /\ HitSound(hit'[g], trail[g], entity + 1, inBody)
      BY <3>1, <3>3, <3>4, <3>5
    <3>7. ChangedWrites' = ChangedWrites \cup {h} /\ h \notin ChangedWrites
      BY <2>1, <3>1, <3>4, <3>5 DEF ChangedWrites
    <3>8. /\ IsFiniteSet(ChangedWrites) /\ Cardinality(ChangedWrites') = Cardinality(ChangedWrites) + 1
          /\ Cardinality(ChangedWrites') <= Cardinality(Hits) /\ Cardinality(Hits) \in Nat
      <4>1. ChangedWrites \in SUBSET Hits /\ ChangedWrites' \in SUBSET Hits
        BY DEF ChangedWrites
      <4>2. IsFiniteSet(ChangedWrites)
        BY <4>1, HitsAssumption, FS_Subset
      <4>3. Cardinality(ChangedWrites \cup {h}) = Cardinality(ChangedWrites) + 1
        BY <4>2, <3>7, FS_AddElement
      <4>4. Cardinality(ChangedWrites') <= Cardinality(Hits)
        BY <4>1, HitsAssumption, FS_Subset
      <4> QED
        BY <4>2, <4>3, <4>4, <3>7, HitsAssumption, FS_CardinalityType
    <3>9. entity' = Cardinality(ChangedWrites') /\ entity' \in 0..Cardinality(Hits)
      BY <2>2, <3>8, <1>t DEF GatewayInv, RequestsSound
    <3>10. hit' \in [Hits -> HitRow]
      <4>1. hit' = [g \in Hits |-> hit'[g]]
        BY <3>2
      <4> QED
        BY <4>1, <3>6
    <3>11. RequestsSound'
      <4>1. GatewayTypeOK'
        BY <3>9, <3>10, <2>1, <1>t DEF GatewayTypeOK
      <4>2. ASSUME NEW g \in Hits PROVE HitSound(hit[g], trail[g], entity, inBody)'
        BY <3>6, <2>1, <2>2
      <4> QED
        BY <4>1, <4>2, <3>9 DEF RequestsSound
    <3>12. \A g \in Hits : /\ (hit'[g].phase = "stored" <=> hit[g].phase = "stored")
                           /\ (hit'[g].phase = "appending" <=> hit[g].phase = "appending")
                           /\ (hit[g].phase = "stored" => hit'[g].value = hit[g].value)
                           /\ (hit[g].phase = "idle" => hit'[g].phase # "passed")
      BY <3>1, <3>4, <3>5, <2>1
    <3>13. LockdownSound' /\ SilencedIsRecorded'
      BY <3>12, <2>1 DEF GatewayInv, LockdownSound, SilencedIsRecorded
    <3> QED
      BY <3>11, <3>12, <3>13, <2>1, <1>w, <1>t DEF GatewayInv
  <2>3. CASE SetHit(h, [hit[h] EXCEPT !.phase = "executed", !.ok = ok]) /\ UNCHANGED entity
    <3> DEFINE row == [hit[h] EXCEPT !.phase = "executed", !.ok = ok]
    <3>1. row \in HitRow /\ row.phase = "executed" /\ row.changed = hit[h].changed /\ row.kind = hit[h].kind
      BY <1>s DEF HitRow
    <3>2. hit' = [hit EXCEPT ![h] = row]
      BY <2>3 DEF SetHit
    <3> HIDE DEF row
    <3>3. HitSound(row, trail[h], entity, inBody)
      BY <2>1, <3>1 DEF HitSound
    <3> QED
      BY <2>1, <2>3, <3>1, <3>2, <3>3, <1>s, <1>u, <1>h, QuietStep
  <2> QED
    BY <2>2, <2>3, <2>a
<1>7. ASSUME NEW h \in Hits, StoreLockdown(h) PROVE GatewayInv' /\ WritesKeptOut
  <2>1. /\ hit[h].phase = "accepted" /\ hit[h].kind = "switch" /\ "accepted" \in trail[h]
        /\ trail[h] \subseteq {"accepted"} /\ ~hit[h].changed /\ UNCHANGED <<inBody, entity, trail, live>>
    BY <1>7, <1>s DEF StoreLockdown, HitSound
  <2>2. CASE /\ lockdown' = [lockdown EXCEPT !.stored = hit[h].value]
             /\ SetHit(h, [hit[h] EXCEPT !.phase = "stored", !.ok = TRUE, !.changed = TRUE])
             /\ crossed' = (crossed \/ \E g \in Hits : hit[g].phase = "stored")
    <3> DEFINE row == [hit[h] EXCEPT !.phase = "stored", !.ok = TRUE, !.changed = TRUE]
    <3>1. row \in HitRow /\ row.phase = "stored" /\ row.changed /\ row.kind = "switch" /\ row.value = hit[h].value
      BY <2>1, <1>s DEF HitRow
    <3>2. hit' = [hit EXCEPT ![h] = row]
      BY <2>2 DEF SetHit
    <3> HIDE DEF row
    <3>3. HitSound(row, trail[h], entity, inBody)
      BY <2>1, <3>1 DEF HitSound
    <3>4. lockdown' \in [stored : BOOLEAN, memory : BOOLEAN] /\ lockdown'.stored = row.value
      BY <2>2, <3>1, <1>t, <1>s, HitFields
    <3>5. RequestsSound'
      BY <2>1, <3>1, <3>2, <3>3, <3>4, <1>s, <1>t, <1>u, HitStep
    <3>6. \A g \in Hits : /\ g = h => hit'[g] = row
                          /\ g # h => hit'[g] = hit[g]
      BY <3>2, <1>t
    <3>7. ~crossed' => ~crossed /\ \A g \in Hits : hit[g].phase # "stored"
      BY <2>2
    <3>8. LockdownSound'
      BY <3>1, <3>4, <3>6, <3>7 DEF LockdownSound
    <3>9. SilencedIsRecorded'
      BY <2>1, <3>6 DEF GatewayInv, SilencedIsRecorded
    <3>10. crossed' \in BOOLEAN
      BY <2>2, <1>t
    <3> QED
      BY <3>5, <3>8, <3>9, <3>10, <3>2, <2>1, <1>h DEF GatewayInv
  <2>3. CASE SetHit(h, [hit[h] EXCEPT !.phase = "executed"]) /\ UNCHANGED <<lockdown, crossed>>
    <3> DEFINE row == [hit[h] EXCEPT !.phase = "executed"]
    <3>1. row \in HitRow /\ row.phase = "executed" /\ row.changed = hit[h].changed /\ row.kind = hit[h].kind
      BY <1>s DEF HitRow
    <3>2. hit' = [hit EXCEPT ![h] = row]
      BY <2>3 DEF SetHit
    <3> HIDE DEF row
    <3>3. HitSound(row, trail[h], entity, inBody)
      BY <2>1, <3>1 DEF HitSound
    <3> QED
      BY <2>1, <2>3, <3>1, <3>2, <3>3, <1>s, <1>u, <1>h, QuietStep
  <2> QED
    BY <2>2, <2>3, <1>7 DEF StoreLockdown
<1>8. ASSUME NEW h \in Hits, SetLockdownScheduler(h) PROVE GatewayInv' /\ WritesKeptOut
  <2> DEFINE row == [hit[h] EXCEPT !.phase = "executed"]
  <2>1. /\ hit[h].phase = "stored" /\ hit[h].kind = "switch" /\ "accepted" \in trail[h] /\ trail[h] \subseteq {"accepted"}
        /\ UNCHANGED <<inBody, entity, trail, live, crossed>> /\ lockdown' = [lockdown EXCEPT !.memory = hit[h].value]
    BY <1>8, <1>s DEF SetLockdownScheduler, HitSound
  <2>2. row \in HitRow /\ row.phase = "executed" /\ row.changed = hit[h].changed /\ row.kind = "switch"
    BY <2>1, <1>s DEF HitRow
  <2>3. hit' = [hit EXCEPT ![h] = row]
    BY <1>8 DEF SetLockdownScheduler, SetHit
  <2> HIDE DEF row
  <2>4. HitSound(row, trail[h], entity, inBody)
    BY <2>1, <2>2 DEF HitSound
  <2>5. lockdown' \in [stored : BOOLEAN, memory : BOOLEAN] /\ lockdown'.memory = hit[h].value /\ lockdown'.stored = lockdown.stored
    BY <2>1, <1>t, <1>s, HitFields
  <2>6. RequestsSound'
    BY <2>1, <2>2, <2>3, <2>4, <2>5, <1>s, <1>t, <1>u, HitStep
  <2>7. \A g \in Hits : /\ g = h => hit'[g] = row
                        /\ g # h => hit'[g] = hit[g]
    BY <2>3, <1>t
  <2>8. ~crossed => /\ lockdown'.memory = lockdown'.stored
                    /\ \A g \in Hits : hit'[g].phase # "stored"
    BY <2>1, <2>2, <2>5, <2>7 DEF GatewayInv, LockdownSound
  <2>9. LockdownSound'
    BY <2>1, <2>8 DEF LockdownSound
  <2>10. SilencedIsRecorded'
    BY <2>1, <2>7 DEF GatewayInv, SilencedIsRecorded
  <2> QED
    BY <2>1, <2>3, <2>6, <2>9, <2>10, <1>t, <1>h DEF GatewayInv
<1>9. ASSUME NEW h \in Hits, RecordCompleted(h) PROVE GatewayInv' /\ WritesKeptOut
  <2>a. PICK seen \in FoundAfter(hit[h]) :
          SetHit(h, [hit[h] EXCEPT !.phase = "done", !.after = seen,
                                   !.missed = @ \/ \E other \in FoundAfter(hit[h]) : seen < other])
    BY <1>9 DEF RecordCompleted
  <2> DEFINE lost == \E other \in FoundAfter(hit[h]) : seen < other
             more == hit[h].missed \/ lost
             row == [hit[h] EXCEPT !.phase = "done", !.after = seen, !.missed = more]
             result == IF hit[h].ok THEN "success" ELSE "failure"
  <2>1. /\ hit[h].phase = "executed" /\ hit[h].kind # "logs" /\ "accepted" \in trail[h] /\ trail[h] \subseteq {"accepted"}
        /\ (hit[h].kind = "write" /\ hit[h].alone /\ hit[h].changed
             => hit[h].wrote = entity /\ ReadAs(hit[h], entity - 1, inBody))
        /\ UNCHANGED <<inBody, entity, lockdown, live, crossed>>
    BY <1>9, <1>s DEF RecordCompleted, HitSound
  <2>f. hit[h].ok \in BOOLEAN /\ hit[h].missed \in BOOLEAN /\ hit[h].wrote \in Nat /\ hit[h].before \in Nat
    BY <1>s, HitFields
  <2>2. seen \in Nat /\ more \in BOOLEAN
    BY <1>t, <2>f DEF FoundAfter
  <2>b. hit[h].kind = "write" /\ hit[h].ok /\ hit[h].wrote = entity
        => seen \in {0, entity} /\ (~inBody /\ ~lost => seen = entity)
    BY <1>t, <2>f DEF FoundAfter
  <2>3. hit' = [hit EXCEPT ![h] = row]
    BY <2>a DEF SetHit
  <2>4. PICK e \in Trails : /\ trail' = [trail EXCEPT ![h] = e] /\ "accepted" \in e
                            /\ ~hit[h].ok => "success" \notin e
    <3>1. trail[h] \in Trails /\ trail[h] \cup {result} \in Trails /\ (~hit[h].ok => "success" \notin trail[h] \cup {result})
      BY <2>1 DEF Trails
    <3>2. trail' = [trail EXCEPT ![h] = trail[h] \cup {result}] \/ trail' = trail
      BY <1>9 DEF RecordCompleted, Record
    <3> HIDE DEF result
    <3>3. CASE trail' = trail
      BY <3>3, <2>1, <1>s, <1>u
    <3>4. CASE trail' = [trail EXCEPT ![h] = trail[h] \cup {result}]
      BY <3>1, <3>4, <2>1
    <3> QED
      BY <3>2, <3>3, <3>4
  <2>c. ~more => ~hit[h].missed /\ ~lost
    OBVIOUS
  <2> HIDE DEF more, lost
  <2>5. /\ row \in HitRow /\ row.phase = "done" /\ row.changed = hit[h].changed /\ row.kind = hit[h].kind
        /\ row.before = hit[h].before /\ row.alone = hit[h].alone /\ row.after = seen /\ row.missed = more
        /\ row.wrote = hit[h].wrote
    BY <2>2, <1>s DEF HitRow
  <2> HIDE DEF row
  <2>d. row.kind = "write" /\ row.alone /\ row.changed /\ "success" \in e
        => ReadAs(row, row.wrote - 1, inBody) /\ ReadAgain(row, inBody)
    BY <2>1, <2>4, <2>5, <2>b, <2>c DEF ReadAs, ReadAgain
  <2>6. HitSound(row, e, entity, inBody)
    BY <2>1, <2>4, <2>5, <2>d DEF HitSound
  <2> QED
    BY <2>1, <2>3, <2>4, <2>5, <2>6, <1>h, QuietStep
<1>10. ASSUME NEW h \in Hits, ReserveLiveLog(h) PROVE GatewayInv' /\ WritesKeptOut
  <2>1. /\ hit[h].phase = "accepted" /\ hit[h].kind = "logs" /\ trail[h] \subseteq {"accepted"} /\ ~hit[h].changed
        /\ UNCHANGED <<inBody, lockdown, entity, trail, crossed>>
    BY <1>10, <1>s DEF ReserveLiveLog, HitSound
  <2>2. CASE live.reserved
    <3> DEFINE row == [hit[h] EXCEPT !.phase = "done"]
    <3>1. row \in HitRow /\ row.phase = "done" /\ row.changed = hit[h].changed /\ row.kind = hit[h].kind
      BY <1>s DEF HitRow
    <3>2. hit' = [hit EXCEPT ![h] = row] /\ live' = live
      BY <1>10, <2>2 DEF ReserveLiveLog, EndHit, SetHit
    <3> HIDE DEF row
    <3>3. HitSound(row, trail[h], entity, inBody)
      BY <2>1, <3>1 DEF HitSound
    <3> QED
      BY <2>1, <3>1, <3>2, <3>3, <1>s, <1>u, <1>h, QuietStep
  <2>3. CASE ~live.reserved
    <3> DEFINE row == [hit[h] EXCEPT !.phase = "appending"]
    <3>1. row \in HitRow /\ row.phase = "appending" /\ row.changed = hit[h].changed /\ row.kind = hit[h].kind
      BY <1>s DEF HitRow
    <3>2. hit' = [hit EXCEPT ![h] = row] /\ live' = [reserved |-> TRUE, stored |-> FALSE]
      BY <1>10, <2>3 DEF ReserveLiveLog, SetHit
    <3> HIDE DEF row
    <3>3. HitSound(row, trail[h], entity, inBody)
      BY <2>1, <3>1 DEF HitSound
    <3>4. RequestsSound'
      BY <2>1, <3>1, <3>2, <3>3, <1>s, <1>t, <1>u, HitStep
    <3>5. \A g \in Hits : /\ g = h => hit'[g] = row
                          /\ g # h => hit'[g] = hit[g]
      BY <3>2, <1>t
    <3>6. SilencedIsRecorded'
      BY <3>1, <3>5 DEF SilencedIsRecorded
    <3>7. LockdownSound'
      BY <2>1, <3>1, <3>5 DEF GatewayInv, LockdownSound
    <3> QED
      BY <2>1, <3>2, <3>4, <3>6, <3>7, <1>t, <1>h DEF GatewayInv
  <2> QED
    BY <2>2, <2>3
<1>11. ASSUME NEW h \in Hits, AppendLiveLog(h) PROVE GatewayInv' /\ WritesKeptOut
  <2> DEFINE row == [hit[h] EXCEPT !.phase = "done"]
  <2>1. /\ hit[h].phase = "appending" /\ hit[h].kind = "logs" /\ trail[h] \subseteq {"accepted"} /\ ~hit[h].changed
        /\ UNCHANGED <<inBody, lockdown, entity, crossed>>
    BY <1>11, <1>s DEF AppendLiveLog, HitSound
  <2>2. row \in HitRow /\ row.phase = "done" /\ row.changed = hit[h].changed /\ row.kind = hit[h].kind
    BY <1>s DEF HitRow
  <2>3. hit' = [hit EXCEPT ![h] = row]
    BY <1>11 DEF AppendLiveLog, EndHit, SetHit
  <2>4. PICK e \in Trails : trail' = [trail EXCEPT ![h] = e]
    <3>1. trail[h] \in Trails /\ trail[h] \cup {"success"} \in Trails
      BY <2>1 DEF Trails
    <3>2. trail' = [trail EXCEPT ![h] = trail[h] \cup {"success"}] \/ trail' = trail
      BY <1>11 DEF AppendLiveLog, Record
    <3> QED
      BY <3>1, <3>2, <1>u
  <2>5. live' \in [reserved : BOOLEAN, stored : BOOLEAN] /\ (live'.reserved => live'.stored)
    BY <1>11, <1>t DEF AppendLiveLog, AppendFails
  <2> HIDE DEF row
  <2>6. HitSound(row, e, entity, inBody)
    BY <2>1, <2>2 DEF HitSound
  <2>7. RequestsSound'
    BY <2>1, <2>2, <2>3, <2>4, <2>5, <2>6, <1>t, HitStep
  <2>8. \A g \in Hits : /\ g = h => hit'[g] = row
                        /\ g # h => hit'[g] = hit[g]
    BY <2>3, <1>t
  <2>9. LockdownSound'
    BY <2>1, <2>2, <2>8 DEF GatewayInv, LockdownSound
  <2>10. SilencedIsRecorded'
    BY <2>5 DEF SilencedIsRecorded
  <2> QED
    BY <2>1, <2>3, <2>7, <2>9, <2>10, <1>t, <1>h DEF GatewayInv
<1>12. CASE WindowPasses
  <2>1. live' = [reserved |-> FALSE, stored |-> FALSE] /\ UNCHANGED <<inBody, lockdown, entity, hit, trail, crossed>>
    BY <1>12 DEF WindowPasses
  <2>2. RequestsSound'
    BY <2>1 DEF GatewayInv, RequestsSound, GatewayTypeOK, ChangedWrites, HitSound
  <2>3. LockdownSound' /\ SilencedIsRecorded'
    BY <2>1 DEF GatewayInv, LockdownSound, SilencedIsRecorded
  <2> QED
    BY <2>1, <2>2, <2>3, <1>w, <1>t DEF GatewayInv
<1>13. CASE RestartGateway
  <2>1. /\ lockdown' = [lockdown EXCEPT !.memory = lockdown.stored]
        /\ hit' = [h \in Hits |-> IF Working(h) THEN [hit[h] EXCEPT !.phase = "done"] ELSE hit[h]]
        /\ live' = [reserved |-> FALSE, stored |-> FALSE] /\ crossed' = FALSE
        /\ UNCHANGED <<inBody, entity, trail>>
    BY <1>13 DEF RestartGateway
  <2>2. ASSUME NEW h \in Hits
        PROVE  /\ hit'[h] \in HitRow /\ HitSound(hit'[h], trail[h], entity, inBody)
               /\ hit'[h].kind = hit[h].kind /\ hit'[h].changed = hit[h].changed /\ hit'[h].phase \in {"idle", "done"}
    <3>1. CASE Working(h)
      <4> DEFINE row == [hit[h] EXCEPT !.phase = "done"]
      <4>1. row \in HitRow /\ row.phase = "done" /\ row.changed = hit[h].changed /\ row.kind = hit[h].kind
        BY <1>s DEF HitRow
      <4>2. hit'[h] = row
        BY <2>1, <3>1
      <4> HIDE DEF row
      <4>3. trail[h] \subseteq {"accepted"} /\ (hit[h].changed => "accepted" \in trail[h])
        BY <3>1, <1>s DEF Working, HitSound
      <4>4. HitSound(row, trail[h], entity, inBody)
        BY <4>1, <4>3 DEF HitSound
      <4> QED
        BY <4>1, <4>2, <4>4
    <3>2. CASE ~Working(h)
      BY <2>1, <3>2, <1>s DEF Working
    <3> QED
      BY <3>1, <3>2
  <2>3. ChangedWrites' = ChangedWrites
    BY <2>2 DEF ChangedWrites
  <2>4. hit' \in [Hits -> HitRow]
    <3>1. hit' = [h \in Hits |-> hit'[h]]
      BY <2>1
    <3> QED
      BY <3>1, <2>2
  <2>5. lockdown' \in [stored : BOOLEAN, memory : BOOLEAN] /\ lockdown'.memory = lockdown'.stored
    BY <2>1, <1>t
  <2>6. RequestsSound'
    <3>1. GatewayTypeOK'
      BY <2>1, <2>4, <2>5, <1>t DEF GatewayInv, RequestsSound, GatewayTypeOK
    <3>2. ASSUME NEW h \in Hits PROVE HitSound(hit[h], trail[h], entity, inBody)'
      BY <2>1, <2>2
    <3> QED
      BY <2>1, <2>3, <3>1, <3>2 DEF GatewayInv, RequestsSound
  <2>7. LockdownSound' /\ SilencedIsRecorded'
    BY <2>1, <2>2, <2>5 DEF LockdownSound, SilencedIsRecorded
  <2> QED
    BY <2>1, <2>2, <2>6, <2>7, <1>w DEF GatewayInv
<1> QED
  BY <1>1, <1>2, <1>3, <1>4, <1>5, <1>6, <1>7, <1>8, <1>9, <1>10, <1>11, <1>12, <1>13 DEF NextGateway

\* Gateway's variables always have their types, and no more writes are counted
\* than there were requests.
THEOREM GatewayTypeCorrect == SpecGateway => []GatewayTypeOK
<1>1. GatewayInv => GatewayTypeOK
  BY DEF GatewayInv, RequestsSound
<1> QED
  BY <1>1, GatewayInit, GatewayStep, PTL DEF SpecGateway

\* Whatever appends fail and wherever the process ends: a change was recorded
\* as accepted, a successful event encloses the request's own change, a failed
\* append silences no later read, and a stored lockdown lets no write in.
THEOREM RequestsAreAccountable == SpecGateway => RequestsAccountable
<1>1. GatewayInv => ChangesAreRecorded /\ SnapshotsFit /\ SilencedIsRecorded
  BY DEF GatewayInv, RequestsSound, HitSound, ReadAs, ReadAgain, ChangesAreRecorded, SnapshotsFit, Succeeded
<1>2. GatewayInv /\ [NextGateway]_gatewayVars =>
        [\A h \in Hits :
           /\ hit'[h].kind = "write" /\ hit[h].phase = "idle" /\ hit'[h].phase = "passed"
           => ~lockdown.stored \/ crossed \/ \E g \in Hits : hit[g].phase = "stored"]_gatewayVars
  BY GatewayStep DEF WritesKeptOut
<1> QED
  BY <1>1, <1>2, GatewayInit, GatewayStep, PTL DEF SpecGateway, RequestsAccountable, LockdownHolds

-----------------------------------------------------------------------------
(* Accounts *)

\* What a request under way may rely on in any case: an account it is about to
\* disable is no system administrator, and one it changes exists.
JobSafe(j) ==
    \A u \in j.user : /\ j.op = "disable" => u \notin sysAdmins
                      /\ j.op \in {"disable", "approve"} => status[u] # "none"

\* What it may rely on as long as it works alone on its account: what it read is still so.
JobSure(j) ==
    \A u \in j.user :
        /\ j.op = "grant" /\ j.flag => status[u] = "active"
        /\ j.op = "revoke" => j.exact
        /\ j.op = "disable" /\ ~j.flag => ~HasRole(u, "admin")
        /\ j.op = "approved" => status[u] = "active"
        /\ j.op = "add" => Admin(u)
        /\ (j.op = "login" \/ (j.op = "provision" /\ j.subject # {})) /\ j.exact => u \in sysAdmins

\* Requests are safe, and without drift each has its account for itself.
JobsSound ==
    /\ ~up => \A h \in Handlers : job[h] = Idle
    /\ \A h \in Handlers : JobSafe(job[h])
    /\ ~drift => /\ \A h, k \in Handlers : h # k => job[h].user \cap job[k].user = {}
                 /\ \A h \in Handlers : JobSure(job[h])

AccountsInv == AccountsTypeOK /\ JobsSound /\ SystemAdminsKept /\ GuardCountsAdmins

\* What the two action properties ask of a step.
AdminsStay ==
    /\ up /\ up' /\ ~drift' /\ (\E u \in Users : Admin(u)) => \E u \in Users : Admin(u)'
    /\ \A u \in sysAdmins \cap sysAdmins' : status[u] = "active" => status'[u] = "active"

\* The parts of the type invariant about tables and about memory.
TablesTyped ==
    /\ status \in [Users -> {"none", "active", "pending", "disabled"}]
    /\ assigned \subseteq Assignment
    /\ identity \in [Subjects -> SUBSET Users]
    /\ \A p \in Subjects : Cardinality(identity[p]) <= 1
    /\ mapping \subseteq Roles

\* A step of request h, which goes on as next and touches the accounts W.
Request(h, W, next) ==
    /\ up /\ up' = up /\ sysAdmins' = sysAdmins
    /\ next \in Job /\ job' = [job EXCEPT ![h] = next]
    /\ W \subseteq job[h].user \cup next.user
    /\ TablesTyped' /\ guard' \subseteq Users /\ drift' \in BOOLEAN
    /\ drift => drift'
    /\ \A v \in Users \ W : status'[v] = status[v] /\ (HasRole(v, "admin")' <=> HasRole(v, "admin"))
    /\ \A v \in Users : status[v] # "none" => status'[v] # "none"
    /\ \A v \in sysAdmins : /\ status[v] = "active" => status'[v] = "active"
                            /\ status'[v] # "none" => Row(v, "admin", "system-admin") \in assigned'
    /\ JobSafe(next)'
    /\ ~drift' => /\ \A k \in Handlers \ {h} : next.user \cap job[k].user = {}
                  /\ JobSure(next)'
                  /\ \A v \in guard' : (v \in W => Admin(v)') /\ (v \notin W => v \in guard)
                  /\ guard' # {} \/ \A v \in W : Admin(v) => Admin(v)'

\* Such a step keeps the invariant, and an administrator.
LEMMA RequestKeeps ==
    ASSUME AccountsInv, NEW h \in Handlers, NEW W, NEW next, Request(h, W, next)
    PROVE  AccountsInv' /\ AdminsStay
<1>t. job \in [Handlers -> Job] /\ up \in BOOLEAN /\ sysAdmins \subseteq Users /\ guard \subseteq Users /\ drift \in BOOLEAN
  BY DEF AccountsInv, AccountsTypeOK
<1>1. AccountsTypeOK'
  BY <1>t DEF Request, TablesTyped, AccountsTypeOK
<1>2. \A k \in Handlers : /\ k = h => job'[k] = next
                          /\ k # h => job'[k] = job[k]
  BY <1>t DEF Request
<1>u. \A k \in Handlers : job[k].user \subseteq Users
  BY <1>t DEF Job
<1>3. \A v \in Users : status[v] # "none" => status'[v] # "none"
  BY DEF Request
<1>4. ASSUME NEW k \in Handlers PROVE JobSafe(job[k])'
  <2>1. CASE k = h
    <3>1. JobSafe(next)'
      BY DEF Request
    <3> QED
      BY <3>1, <2>1, <1>2 DEF JobSafe
  <2>2. CASE k # h
    <3>1. JobSafe(job[k])
      BY DEF AccountsInv, JobsSound
    <3> QED
      BY <3>1, <2>2, <1>2, <1>3, <1>u DEF JobSafe, Request
  <2> QED
    BY <2>1, <2>2
<1>5. ASSUME ~drift'
      PROVE  /\ \A g, k \in Handlers : g # k => job'[g].user \cap job'[k].user = {}
             /\ \A k \in Handlers : JobSure(job[k])'
  <2>1. ~drift /\ \A k \in Handlers \ {h} : next.user \cap job[k].user = {}
    BY <1>5 DEF Request
  <2>2. \A g, k \in Handlers : g # k => job[g].user \cap job[k].user = {}
    BY <2>1 DEF AccountsInv, JobsSound
  <2>3. ASSUME NEW g \in Handlers, NEW k \in Handlers, g # k PROVE job'[g].user \cap job'[k].user = {}
    <3>1. CASE g = h
      BY <3>1, <2>1, <2>3, <1>2
    <3>2. CASE k = h
      BY <3>2, <2>1, <2>3, <1>2
    <3>3. CASE g # h /\ k # h
      BY <3>3, <2>2, <2>3, <1>2
    <3> QED
      BY <3>1, <3>2, <3>3
  <2>4. ASSUME NEW k \in Handlers PROVE JobSure(job[k])'
    <3>1. CASE k = h
      <4>1. JobSure(next)'
        BY <1>5 DEF Request
      <4> QED
        BY <4>1, <3>1, <1>2 DEF JobSure
    <3>2. CASE k # h
      <4>1. JobSure(job[k])
        BY <2>1 DEF AccountsInv, JobsSound
      <4>2. ASSUME NEW u \in job[k].user PROVE u \in Users \ W
        BY <4>2, <3>2, <2>1, <2>2, <1>u DEF Request
      <4>3. ASSUME NEW u \in job[k].user
            PROVE  status'[u] = status[u] /\ (HasRole(u, "admin")' <=> HasRole(u, "admin"))
        BY <4>2, <4>3 DEF Request
      <4>4. job'[k] = job[k] /\ sysAdmins' = sysAdmins
        BY <3>2, <1>2 DEF Request
      <4> QED
        BY <4>1, <4>3, <4>4 DEF JobSure, Admin
    <3> QED
      BY <3>1, <3>2
  <2> QED
    BY <2>3, <2>4
<1>6. JobsSound'
  BY <1>4, <1>5 DEF JobsSound, Request
<1>7. SystemAdminsKept'
  BY DEF SystemAdminsKept, SystemAdminRow, Request
<1>8. ASSUME ~drift', NEW v \in Users \ W, Admin(v) PROVE Admin(v)'
  BY <1>8 DEF Request, Admin
<1>9. ~drift' => \A v \in guard' : Admin(v)'
  <2> SUFFICES ASSUME ~drift', NEW v \in guard' PROVE Admin(v)'
    OBVIOUS
  <2>1. CASE v \in W
    BY <2>1 DEF Request
  <2>2. CASE v \notin W
    <3>1. v \in guard /\ ~drift /\ up
      BY <2>2 DEF Request
    <3>2. Admin(v) /\ v \in Users
      BY <3>1, <1>t DEF AccountsInv, GuardCountsAdmins
    <3> QED
      BY <3>2, <2>2, <1>8
  <2> QED
    BY <2>1, <2>2
<1>10. GuardCountsAdmins'
  BY <1>9 DEF GuardCountsAdmins
<1>11. ASSUME ~drift', NEW u \in Users, Admin(u) PROVE \E v \in Users : Admin(v)'
  <2>1. CASE guard' # {}
    BY <2>1, <1>9, <1>11 DEF Request
  <2>2. CASE guard' = {}
    <3>1. u \in W => Admin(u)'
      BY <2>2, <1>11 DEF Request
    <3> QED
      BY <3>1, <1>8, <1>11
  <2> QED
    BY <2>1, <2>2
<1>12. AdminsStay
  BY <1>11 DEF AdminsStay, Request
<1> QED
  BY <1>1, <1>6, <1>7, <1>10, <1>12 DEF AccountsInv

\* Rows are told apart by their fields.
LEMMA RowFields ==
    \A u, v, r, s, x, y : /\ Row(u, r, x).user = u /\ Row(u, r, x).role = r /\ Row(u, r, x).source = x
                          /\ Row(u, r, x) = Row(v, s, y) => u = v /\ r = s /\ x = y
<1> SUFFICES ASSUME NEW u, NEW v, NEW r, NEW s, NEW x, NEW y
             PROVE  /\ Row(u, r, x).user = u /\ Row(u, r, x).role = r /\ Row(u, r, x).source = x
                    /\ Row(u, r, x) = Row(v, s, y) => u = v /\ r = s /\ x = y
  OBVIOUS
<1>1. /\ Row(u, r, x).user = u /\ Row(u, r, x).role = r /\ Row(u, r, x).source = x
      /\ Row(v, s, y).user = v /\ Row(v, s, y).role = s /\ Row(v, s, y).source = y
  BY DEF Row
<1> QED
  BY <1>1

\* The idle request.
LEMMA IdleJob == Idle \in Job /\ Idle.user = {} /\ Idle.op = "idle" /\ JobSafe(Idle)' /\ JobSure(Idle)'
                 /\ JobSafe(Idle) /\ JobSure(Idle)
<1>1. Idle \in Job /\ Idle.user = {} /\ Idle.op = "idle"
  BY DEF Idle, Job, Ops, Roles
<1> QED
  BY <1>1 DEF JobSafe, JobSure

\* The last step of a request that adds to the guard.
LEMMA AddJob ==
    ASSUME NEW u \in Users
    PROVE  LET next == [Idle EXCEPT !.op = "add", !.user = {u}] IN
           next \in Job /\ next.op = "add" /\ next.user = {u}
  BY DEF Idle, Job, Ops, Roles

\* The states in which the tables have their types.
LEMMA TablesType == ASSUME AccountsInv PROVE TablesTyped
  BY DEF AccountsInv, AccountsTypeOK, TablesTyped

\* A request that begins: it has read the tables and changes nothing yet.
LEMMA BeginKeeps ==
    ASSUME AccountsInv, NEW h \in Handlers, NEW next \in Job, Begin(h, next), UNCHANGED <<accountTables, accountMemory>>,
           drift' \in BOOLEAN, (drift => drift'), ~drift' => \A u \in next.user : ~Shared(h, u),
           JobSafe(next), ~drift' => JobSure(next)
    PROVE  AccountsInv' /\ AdminsStay
<1>1. /\ status' = status /\ assigned' = assigned /\ identity' = identity /\ mapping' = mapping
      /\ up' = up /\ sysAdmins' = sysAdmins /\ guard' = guard
  BY DEF accountTables, accountMemory
<1>2. TablesTyped' /\ guard' \subseteq Users
  BY <1>1, TablesType DEF TablesTyped, AccountsInv, AccountsTypeOK
<1>3. \A v \in Users : HasRole(v, "admin")' <=> HasRole(v, "admin")
  BY <1>1 DEF HasRole
<1>4. \A v \in Users : Admin(v)' <=> Admin(v)
  BY <1>1 DEF HasRole, Admin
<1>5. \A v \in sysAdmins : status'[v] # "none" => Row(v, "admin", "system-admin") \in assigned'
  BY <1>1 DEF AccountsInv, SystemAdminsKept, SystemAdminRow, Begin
<1>6. JobSafe(next)' /\ (~drift' => JobSure(next)')
  <2>1. next.user \subseteq Users
    BY DEF Job
  <2> QED
    BY <2>1, <1>1, <1>3, <1>4 DEF JobSafe, JobSure
<1>7. ~drift' => \A k \in Handlers \ {h} : next.user \cap job[k].user = {}
  BY DEF Shared
<1>8. Request(h, {}, next)
  BY <1>1, <1>2, <1>3, <1>5, <1>6, <1>7 DEF Request, Begin
<1> QED
  BY <1>8, RequestKeeps

\* The guard is not emptied by a removal.
LEMMA RemovalLeavesOne ==
    ASSUME AccountsTypeOK, NEW u \in guard, Cardinality(guard) > 1
    PROVE  guard \ {u} # {}
<1>1. IsFiniteSet(guard)
  BY AccountsAssumption, FS_Subset DEF AccountsTypeOK
<1>2. SUFFICES ASSUME guard \ {u} = {} PROVE FALSE
  OBVIOUS
<1>3. guard = {u}
  BY <1>2
<1>4. Cardinality({u}) = 1
  BY FS_Singleton
<1>5. Cardinality(guard) = 1
  BY <1>3, <1>4
<1> QED
  BY <1>5

\* A request that goes on with no more accounts than it had.
LEMMA StillAlone ==
    ASSUME AccountsInv, NEW h \in Handlers, NEW next, next.user \subseteq job[h].user, ~drift
    PROVE  \A k \in Handlers \ {h} : next.user \cap job[k].user = {}
<1>1. \A k \in Handlers \ {h} : job[h].user \cap job[k].user = {}
  BY DEF AccountsInv, JobsSound
<1> QED
  BY <1>1

\* Nothing is done in the tables or to the guard.
LEMMA NoEffect ==
    ASSUME AccountsInv, NEW h \in Handlers, up, UNCHANGED <<accountTables, accountMemory, drift>>,
           NEW next \in Job, job' = [job EXCEPT ![h] = next], next.user \subseteq job[h].user,
           JobSafe(next)', ~drift => JobSure(next)'
    PROVE  AccountsInv' /\ AdminsStay
<1>1. /\ status' = status /\ assigned' = assigned /\ identity' = identity /\ mapping' = mapping
      /\ up' = up /\ sysAdmins' = sysAdmins /\ guard' = guard /\ drift' = drift
  BY DEF accountTables, accountMemory
<1>2. TablesTyped' /\ guard' \subseteq Users /\ drift' \in BOOLEAN
  BY <1>1, TablesType DEF TablesTyped, AccountsInv, AccountsTypeOK
<1>3. \A v \in Users : HasRole(v, "admin")' <=> HasRole(v, "admin")
  BY <1>1 DEF HasRole
<1>4. \A v \in sysAdmins : status'[v] # "none" => Row(v, "admin", "system-admin") \in assigned'
  BY <1>1 DEF AccountsInv, SystemAdminsKept, SystemAdminRow
<1>5. ~drift' => \A k \in Handlers \ {h} : next.user \cap job[k].user = {}
  BY <1>1, StillAlone
<1>6. Request(h, {}, next)
  BY <1>1, <1>2, <1>3, <1>4, <1>5 DEF Request
<1> QED
  BY <1>6, RequestKeeps

\* The first state.
LEMMA AccountsInit == InitAccounts => AccountsInv
<1> SUFFICES ASSUME InitAccounts PROVE AccountsInv
  OBVIOUS
<1>1. Cardinality({}) <= 1
  BY FS_EmptySet
<1>2. AccountsTypeOK
  BY <1>1, IdleJob DEF InitAccounts, AccountsTypeOK
<1>3. \A h \in Handlers : job[h] = Idle
  BY DEF InitAccounts
<1>4. JobsSound
  BY <1>3, IdleJob DEF JobsSound
<1> QED
  BY <1>2, <1>4 DEF AccountsInv, SystemAdminsKept, GuardCountsAdmins, InitAccounts

\* The steps in which a request begins.
LEMMA BeginStep ==
    ASSUME AccountsInv, NEW h \in Handlers, NEW u \in Users,
           \/ Register(h, u) \/ DisableUser(h, u) \/ ApproveUser(h, u)
           \/ \E r \in Grantable, exact \in BOOLEAN : GrantRole(h, u, r, exact) \/ RevokeRole(h, u, r, exact)
           \/ \E p \in Subjects : LoginOIDC(h, p, u)
    PROVE  AccountsInv' /\ AdminsStay
<1>t. drift \in BOOLEAN /\ identity \in [Subjects -> SUBSET Users] /\ \A p \in Subjects : Cardinality(identity[p]) <= 1
  BY DEF AccountsInv, AccountsTypeOK
<1>m. ASSUME NEW cause \in BOOLEAN, Mark(cause) PROVE drift' \in BOOLEAN /\ (drift => drift') /\ (~drift' => ~cause)
  BY <1>m, <1>t DEF Mark
<1>1. CASE Register(h, u)
  <2> DEFINE next == [Idle EXCEPT !.op = "provision", !.user = {u}]
  <2>1. next \in Job /\ next.op = "provision" /\ next.user = {u} /\ next.subject = {}
    BY DEF Idle, Job, Ops, Roles
  <2>2. Begin(h, next) /\ Mark(Shared(h, u)) /\ UNCHANGED <<accountTables, accountMemory>>
    BY <1>1 DEF Register
  <2> HIDE DEF next
  <2>3. drift' \in BOOLEAN /\ (drift => drift') /\ (~drift' => ~Shared(h, u))
    BY <2>2, <1>m DEF Shared
  <2>4. JobSafe(next) /\ JobSure(next)
    BY <2>1 DEF JobSafe, JobSure
  <2> QED
    BY <2>1, <2>2, <2>3, <2>4, BeginKeeps
<1>2. CASE DisableUser(h, u)
  <2> DEFINE f == HasRole(u, "admin")
  <2>0. f \in BOOLEAN
    BY DEF HasRole
  <2>1. PICK next \in Job : next = [Idle EXCEPT !.op = "disable", !.user = {u}, !.flag = f]
    <3> HIDE DEF f
    <3> QED
      BY <2>0 DEF Idle, Job, Ops, Roles
  <2>2. next.op = "disable" /\ next.user = {u} /\ next.flag = f
    <3> HIDE DEF f
    <3> QED
      BY <2>1 DEF Idle
  <2>3. /\ Begin(h, next) /\ Mark(Shared(h, u)) /\ UNCHANGED <<accountTables, accountMemory>>
        /\ status[u] # "none" /\ u \notin sysAdmins
    BY <1>2, <2>1 DEF DisableUser, MayDisable, Protected
  <2>4. drift' \in BOOLEAN /\ (drift => drift') /\ (~drift' => ~Shared(h, u))
    BY <2>3, <1>m DEF Shared
  <2>5. JobSafe(next) /\ JobSure(next)
    BY <2>2, <2>3 DEF JobSafe, JobSure
  <2> QED
    BY <2>2, <2>3, <2>4, <2>5, BeginKeeps
<1>3. CASE ApproveUser(h, u)
  <2> DEFINE next == [Idle EXCEPT !.op = "approve", !.user = {u}]
  <2>1. next \in Job /\ next.op = "approve" /\ next.user = {u}
    BY DEF Idle, Job, Ops, Roles
  <2>2. Begin(h, next) /\ Mark(Shared(h, u)) /\ UNCHANGED <<accountTables, accountMemory>> /\ status[u] # "none"
    BY <1>3 DEF ApproveUser
  <2> HIDE DEF next
  <2>3. drift' \in BOOLEAN /\ (drift => drift') /\ (~drift' => ~Shared(h, u))
    BY <2>2, <1>m DEF Shared
  <2>4. JobSafe(next) /\ JobSure(next)
    BY <2>1, <2>2 DEF JobSafe, JobSure
  <2> QED
    BY <2>1, <2>2, <2>3, <2>4, BeginKeeps
<1>4. ASSUME NEW r \in Grantable, NEW exact \in BOOLEAN, GrantRole(h, u, r, exact) PROVE AccountsInv' /\ AdminsStay
  <2> DEFINE f == (status[u] = "active")
  <2>0. f \in BOOLEAN /\ r \in Roles
    BY DEF Roles
  <2>1. PICK next \in Job : next = [Idle EXCEPT !.op = "grant", !.user = {u}, !.role = r, !.exact = exact, !.flag = f]
    <3> HIDE DEF f
    <3> QED
      BY <2>0 DEF Idle, Job, Ops
  <2>2. next.op = "grant" /\ next.user = {u} /\ next.flag = f
    <3> HIDE DEF f
    <3> QED
      BY <2>1 DEF Idle
  <2>3. Begin(h, next) /\ Mark(Shared(h, u)) /\ UNCHANGED <<accountTables, accountMemory>>
    BY <1>4, <2>1 DEF GrantRole
  <2>4. drift' \in BOOLEAN /\ (drift => drift') /\ (~drift' => ~Shared(h, u))
    BY <2>3, <1>m DEF Shared
  <2>5. JobSafe(next) /\ JobSure(next)
    BY <2>2, <2>3 DEF JobSafe, JobSure
  <2> QED
    BY <2>2, <2>3, <2>4, <2>5, BeginKeeps
<1>5. ASSUME NEW r \in Grantable, NEW exact \in BOOLEAN, RevokeRole(h, u, r, exact) PROVE AccountsInv' /\ AdminsStay
  <2> DEFINE next == [Idle EXCEPT !.op = "revoke", !.user = {u}, !.role = r, !.exact = exact]
             cause == Shared(h, u) \/ ~exact
  <2>1. next \in Job /\ next.op = "revoke" /\ next.user = {u} /\ next.exact = exact
    BY DEF Idle, Job, Ops, Roles
  <2>2. Begin(h, next) /\ Mark(cause) /\ UNCHANGED <<accountTables, accountMemory>> /\ cause \in BOOLEAN
    BY <1>5 DEF RevokeRole
  <2> HIDE DEF next, cause
  <2>3. drift' \in BOOLEAN /\ (drift => drift') /\ (~drift' => ~cause)
    BY <2>2, <1>m
  <2>4. JobSafe(next)
    BY <2>1 DEF JobSafe
  <2>5. ~drift' => JobSure(next) /\ ~Shared(h, u)
    BY <2>1, <2>3 DEF JobSure, cause
  <2> QED
    BY <2>1, <2>2, <2>3, <2>4, <2>5, BeginKeeps
<1>6. ASSUME NEW p \in Subjects, LoginOIDC(h, p, u) PROVE AccountsInv' /\ AdminsStay
  <2> DEFINE f == (u \in sysAdmins)
  <2>0. f \in BOOLEAN /\ identity[p] \subseteq Users
    BY <1>t
  <2>1. PICK signIn \in Job : signIn = [Idle EXCEPT !.op = "login", !.user = identity[p], !.subject = {p}, !.exact = f]
    <3> HIDE DEF f
    <3> QED
      BY <2>0 DEF Idle, Job, Ops, Roles
  <2>2. signIn.op = "login" /\ signIn.user = identity[p] /\ signIn.exact = f
    <3> HIDE DEF f
    <3> QED
      BY <2>1 DEF Idle
  <2>3. PICK create \in Job : create = [signIn EXCEPT !.op = "provision", !.user = {u}]
    BY DEF Job, Ops
  <2>4. create.op = "provision" /\ create.user = {u} /\ create.exact = f
    BY <2>2, <2>3 DEF Job
  <2>5. PICK next \in Job : Begin(h, next) /\ (next = signIn \/ next = create)
    BY <1>6, <2>1, <2>3 DEF LoginOIDC
  <2>6. job'[h] = next
    BY <2>5 DEF Begin, AccountsInv, AccountsTypeOK
  <2> DEFINE cause == (\E v \in next.user : Shared(h, v)) \/ (u \in sysAdmins /\ u \notin next.user)
  <2>7. Mark(cause) /\ cause \in BOOLEAN /\ UNCHANGED <<accountTables, accountMemory>>
    BY <1>6, <2>6 DEF LoginOIDC
  <2>8. drift' \in BOOLEAN /\ (drift => drift') /\ (~drift' => ~cause)
    <3> HIDE DEF cause
    <3> QED
      BY <2>7, <1>m
  <2>9. \A v, w \in next.user : v = w
    <3>1. CASE next = create
      BY <3>1, <2>4
    <3>2. CASE next = signIn
      <4>1. IsFiniteSet(identity[p]) /\ Cardinality(identity[p]) \in Nat /\ Cardinality(identity[p]) <= 1
        BY <2>0, <1>t, AccountsAssumption, FS_Subset, FS_CardinalityType
      <4>2. Cardinality(identity[p]) = 0 \/ Cardinality(identity[p]) = 1
        BY <4>1
      <4>3. identity[p] = {} \/ \E x : identity[p] = {x}
        BY <4>1, <4>2, FS_EmptySet, FS_Singleton
      <4> QED
        BY <3>2, <4>3, <2>2
    <3> QED
      BY <3>1, <3>2, <2>5
  <2>10. next.op \in {"login", "provision"} /\ next.exact = f
    BY <2>2, <2>4, <2>5
  <2>11. JobSafe(next)
    BY <2>10 DEF JobSafe
  <2>12. ~drift' => JobSure(next)
    <3> SUFFICES ASSUME ~drift' PROVE JobSure(next)
      OBVIOUS
    <3>1. ASSUME NEW v \in next.user, next.exact PROVE v \in sysAdmins
      <4>1. u \in sysAdmins /\ u \in next.user
        BY <2>8, <2>10, <3>1
      <4> QED
        BY <4>1, <2>9
    <3> QED
      BY <3>1, <2>10 DEF JobSure
  <2>13. ~drift' => \A v \in next.user : ~Shared(h, v)
    BY <2>8
  <2> QED
    BY <2>5, <2>7, <2>8, <2>11, <2>12, <2>13, BeginKeeps
<1> QED
  BY <1>1, <1>2, <1>3, <1>4, <1>5, <1>6

\* A request at work on account u: it had the account for itself, unless there
\* was drift, and everyone else's rows stay.
LEMMA AtWork ==
    ASSUME AccountsInv, NEW h \in Handlers, NEW u \in Users, NEW op, At(h, op, u)
    PROVE  /\ up /\ job[h] \in Job /\ job[h].op = op /\ job[h].user = {u}
           /\ JobSafe(job[h]) /\ (~drift => JobSure(job[h]))
           /\ SystemAdminRow /\ (~drift => \A v \in guard : Admin(v))
           /\ TablesTyped /\ guard \subseteq Users /\ drift \in BOOLEAN /\ sysAdmins \subseteq Users
<1>1. up /\ job[h] \in Job /\ job[h].op = op /\ job[h].user = {u}
  BY DEF At, AccountsInv, AccountsTypeOK
<1>2. JobSafe(job[h]) /\ (~drift => JobSure(job[h]))
  BY DEF AccountsInv, JobsSound
<1>3. SystemAdminRow /\ (~drift => \A v \in guard : Admin(v))
  BY <1>1 DEF AccountsInv, SystemAdminsKept, GuardCountsAdmins
<1>4. TablesTyped /\ guard \subseteq Users /\ drift \in BOOLEAN /\ sysAdmins \subseteq Users
  BY DEF AccountsInv, AccountsTypeOK, TablesTyped
<1> QED
  BY <1>1, <1>2, <1>3, <1>4

\* Provision creates the account with its rows, or nothing.
LEMMA ProvisionStep ==
    ASSUME AccountsInv, NEW h \in Handlers, NEW u \in Users, NEW active \in BOOLEAN, Provision(h, u, active)
    PROVE  AccountsInv' /\ AdminsStay
<1>1. /\ up /\ job[h] \in Job /\ job[h].op = "provision" /\ job[h].user = {u}
      /\ JobSafe(job[h]) /\ (~drift => JobSure(job[h]))
      /\ SystemAdminRow /\ (~drift => \A v \in guard : Admin(v))
      /\ TablesTyped /\ guard \subseteq Users /\ drift \in BOOLEAN /\ sysAdmins \subseteq Users
  BY AtWork DEF Provision
<1>2. UNCHANGED <<mapping, up, sysAdmins, guard, drift>>
  BY DEF Provision, accountMemory
<1>3. CASE ~(status[u] = "none" /\ \A p \in job[h].subject : identity[p] = {})
  <2>1. job' = [job EXCEPT ![h] = Idle] /\ UNCHANGED <<status, assigned, identity>>
    BY <1>3 DEF Provision, Done, Continue
  <2> QED
    BY <1>1, <1>2, <2>1, IdleJob, NoEffect DEF accountTables, accountMemory
<1>4. CASE status[u] = "none" /\ \A p \in job[h].subject : identity[p] = {}
  <2>1. /\ status' = [status EXCEPT ![u] = IF active THEN "active" ELSE "pending"]
        /\ assigned' = assigned \cup NewAccountRows(u)
        /\ identity' = [p \in Subjects |-> IF p \in job[h].subject THEN {u} ELSE identity[p]]
        /\ IF job[h].subject # {} THEN job' = [job EXCEPT ![h] = [job[h] EXCEPT !.op = "login"]]
           ELSE IF active /\ u \in sysAdmins THEN job' = [job EXCEPT ![h] = [Idle EXCEPT !.op = "add", !.user = {u}]]
           ELSE job' = [job EXCEPT ![h] = Idle]
    BY <1>4 DEF Provision, ProvisionLocal, Continue, AddNext, Done
  <2>2. /\ status' \in [Users -> {"none", "active", "pending", "disabled"}]
        /\ status'[u] \in {"active", "pending"} /\ (active => status'[u] = "active")
        /\ \A v \in Users : v # u => status'[v] = status[v]
    BY <2>1, <1>1 DEF TablesTyped
  <2>3. /\ NewAccountRows(u) \subseteq Assignment /\ \A a \in NewAccountRows(u) : a.user = u
        /\ u \in sysAdmins => Row(u, "admin", "system-admin") \in NewAccountRows(u)
    BY DEF NewAccountRows, Row, Assignment, Sources, Roles
  <2>4. \A v \in Users \ {u} : HasRole(v, "admin")' <=> HasRole(v, "admin")
    BY <2>1, <2>3, RowFields DEF HasRole
  <2>5. TablesTyped'
    <3>0. Cardinality({u}) = 1
      BY FS_Singleton
    <3>1. Cardinality({u}) <= 1
      BY <3>0
    <3>2. \A p \in Subjects : identity'[p] = {u} \/ identity'[p] = identity[p]
      BY <2>1
    <3>3. identity' \in [Subjects -> SUBSET Users]
      BY <2>1, <1>1 DEF TablesTyped
    <3>4. \A p \in Subjects : Cardinality(identity'[p]) <= 1
      BY <3>1, <3>2, <1>1 DEF TablesTyped
    <3>5. assigned' \subseteq Assignment
      BY <2>1, <2>3, <1>1 DEF TablesTyped
    <3> QED
      BY <2>2, <3>3, <3>4, <3>5, <1>1, <1>2 DEF TablesTyped
  <2>6. \A v \in sysAdmins : /\ status[v] = "active" => status'[v] = "active"
                             /\ status'[v] # "none" => Row(v, "admin", "system-admin") \in assigned'
    BY <2>1, <2>2, <2>3, <1>1, <1>4 DEF SystemAdminRow
  <2>7. u \in sysAdmins => HasRole(u, "admin")'
    BY <2>1, <2>3 DEF HasRole, Sources
  <2>8. PICK next \in Job : /\ job' = [job EXCEPT ![h] = next] /\ next.user \subseteq {u}
                            /\ JobSafe(next)' /\ (~drift => JobSure(next)')
    <3>1. CASE job[h].subject # {}
      <4>1. PICK next \in Job : next = [job[h] EXCEPT !.op = "login"]
        BY <1>1 DEF Job, Ops
      <4>2. next.op = "login" /\ next.user = {u} /\ next.exact = job[h].exact
        BY <4>1, <1>1 DEF Job
      <4>3. JobSafe(next)'
        BY <4>2 DEF JobSafe
      <4>4. ~drift /\ job[h].exact => u \in sysAdmins
        BY <3>1, <1>1 DEF JobSure
      <4>5. ~drift => JobSure(next)'
        BY <4>2, <4>4, <1>2 DEF JobSure
      <4> QED
        BY <4>1, <4>2, <4>3, <4>5, <3>1, <2>1
    <3>2. CASE job[h].subject = {} /\ active /\ u \in sysAdmins
      <4>1. PICK next \in Job : next = [Idle EXCEPT !.op = "add", !.user = {u}]
        BY AddJob
      <4>2. next.op = "add" /\ next.user = {u}
        BY <4>1, AddJob
      <4>3. Admin(u)'
        BY <3>2, <2>2, <2>7 DEF Admin
      <4>4. JobSafe(next)' /\ JobSure(next)'
        BY <4>2, <4>3 DEF JobSafe, JobSure
      <4> QED
        BY <4>1, <4>2, <4>4, <3>2, <2>1
    <3>3. CASE job[h].subject = {} /\ ~(active /\ u \in sysAdmins)
      BY <3>3, <2>1, IdleJob
    <3> QED
      BY <3>1, <3>2, <3>3
  <2>9. ~drift => u \notin guard /\ ~Admin(u)
    BY <1>1, <1>4 DEF Admin
  <2>10. ~drift => \A k \in Handlers \ {h} : next.user \cap job[k].user = {}
    BY <2>8, <1>1, StillAlone
  <2>11. Request(h, {u}, next)
    BY <1>1, <1>2, <2>2, <2>4, <2>5, <2>6, <2>8, <2>9, <2>10 DEF Request
  <2> QED
    BY <2>11, RequestKeeps
<1> QED
  BY <1>3, <1>4

\* A step that leaves the tables alone except for status or rows of u, and the
\* guard except for u; what it must show of u.
LEMMA WorkKeeps ==
    ASSUME AccountsInv, NEW h \in Handlers, NEW u \in Users, NEW op, At(h, op, u),
           UNCHANGED <<up, sysAdmins, identity, mapping>>,
           NEW next \in Job, job' = [job EXCEPT ![h] = next], next.user \subseteq {u},
           status' \in [Users -> {"none", "active", "pending", "disabled"}], assigned' \subseteq Assignment,
           guard' \subseteq Users, drift' \in BOOLEAN, (drift => drift'),
           \A v \in Users \ {u} : status'[v] = status[v] /\ (HasRole(v, "admin")' <=> HasRole(v, "admin")),
           status[u] # "none" => status'[u] # "none",
           u \in sysAdmins /\ status[u] = "active" => status'[u] = "active",
           status[u] = "none" => status'[u] = "none",
           \A v \in Users : Row(v, "admin", "system-admin") \in assigned => Row(v, "admin", "system-admin") \in assigned',
           \A v \in guard' : v # u => v \in guard,
           JobSafe(next)',
           ~drift' => /\ JobSure(next)'
                      /\ u \in guard' => Admin(u)'
                      /\ guard' # {} \/ (Admin(u) => Admin(u)')
    PROVE  AccountsInv' /\ AdminsStay
<1>1. /\ up /\ job[h] \in Job /\ job[h].op = op /\ job[h].user = {u}
      /\ SystemAdminRow /\ TablesTyped /\ guard \subseteq Users /\ drift \in BOOLEAN /\ sysAdmins \subseteq Users
  BY AtWork
<1>2. TablesTyped'
  BY <1>1 DEF TablesTyped
<1>3. \A v \in sysAdmins : /\ status[v] = "active" => status'[v] = "active"
                           /\ status'[v] # "none" => Row(v, "admin", "system-admin") \in assigned'
  BY <1>1 DEF SystemAdminRow
<1>4. ~drift' => \A k \in Handlers \ {h} : next.user \cap job[k].user = {}
  BY <1>1, StillAlone
<1>5. \A v \in Users : status[v] # "none" => status'[v] # "none"
  OBVIOUS
<1>6. Request(h, {u}, next)
  BY <1>1, <1>2, <1>3, <1>4, <1>5 DEF Request
<1> QED
  BY <1>6, RequestKeeps

\* Requests that change nothing but the guard, the status or the rows of their
\* account.
LEMMA WorkStep ==
    ASSUME AccountsInv, NEW h \in Handlers, NEW u \in Users,
           \/ AddAdministrator(h, u) \/ AssignRole(h, u) \/ UnassignRole(h, u) \/ DisableAccount(h, u)
           \/ ApproveAccount(h, u) \/ ApproveReadsRoles(h, u) \/ AdmitOIDC(h, u)
           \/ \E group \in BOOLEAN : SyncOIDC(h, u, group)
    PROVE  AccountsInv' /\ AdminsStay
<1>t. /\ status \in [Users -> {"none", "active", "pending", "disabled"}] /\ assigned \subseteq Assignment
      /\ guard \subseteq Users /\ drift \in BOOLEAN /\ mapping \subseteq Roles
  BY DEF AccountsInv, AccountsTypeOK
<1>h. assigned' = assigned => \A v \in Users : HasRole(v, "admin")' <=> HasRole(v, "admin")
  BY DEF HasRole
<1>1. CASE AddAdministrator(h, u)
  <2>1. /\ At(h, "add", u) /\ job' = [job EXCEPT ![h] = Idle] /\ guard' = guard \cup {u}
        /\ status' = status /\ assigned' = assigned /\ drift' = drift /\ UNCHANGED <<up, sysAdmins, identity, mapping>>
    BY <1>1 DEF AddAdministrator, Done, Continue, accountTables
  <2>2. ~drift => Admin(u)
    BY <2>1, AtWork DEF JobSure
  <2>3. Admin(u)' <=> Admin(u)
    BY <2>1, <1>h DEF Admin
  <2> QED
    BY <2>1, <2>2, <2>3, <1>t, <1>h, IdleJob, WorkKeeps
<1>2. CASE AssignRole(h, u)
  <2>1. /\ At(h, "grant", u) /\ assigned' = assigned \cup {Row(u, job[h].role, "manual")}
        /\ IF job[h].role = "admin" /\ job[h].exact /\ job[h].flag
           THEN job' = [job EXCEPT ![h] = [Idle EXCEPT !.op = "add", !.user = {u}]] ELSE job' = [job EXCEPT ![h] = Idle]
        /\ status' = status /\ guard' = guard /\ drift' = drift /\ UNCHANGED <<up, sysAdmins, identity, mapping>>
    BY <1>2 DEF AssignRole, AddNext, Done, Continue, accountMemory
  <2>2. job[h] \in Job /\ job[h].op = "grant" /\ job[h].user = {u} /\ (~drift => JobSure(job[h])) /\ (~drift => \A v \in guard : Admin(v))
    BY <2>1, AtWork
  <2>3. Row(u, job[h].role, "manual") \in Assignment
    BY <2>2 DEF Job, Row, Assignment, Sources
  <2>4. \A v \in Users \ {u} : HasRole(v, "admin")' <=> HasRole(v, "admin")
    BY <2>1, RowFields DEF HasRole
  <2>5. Admin(u) => Admin(u)'
    BY <2>1 DEF Admin, HasRole
  <2>6. PICK next \in Job : /\ job' = [job EXCEPT ![h] = next] /\ next.user \subseteq {u}
                            /\ JobSafe(next)' /\ (~drift => JobSure(next)')
    <3>1. CASE job[h].role = "admin" /\ job[h].exact /\ job[h].flag
      <4>1. PICK next \in Job : next = [Idle EXCEPT !.op = "add", !.user = {u}]
        BY AddJob
      <4>2. next.op = "add" /\ next.user = {u}
        BY <4>1, AddJob
      <4>3. ~drift => Admin(u)'
        <5>1. ~drift => status[u] = "active"
          BY <2>2, <3>1 DEF JobSure
        <5>2. HasRole(u, "admin")'
          BY <2>1, <3>1 DEF HasRole, Sources
        <5> QED
          BY <5>1, <5>2, <2>1 DEF Admin
      <4>4. JobSafe(next)' /\ (~drift => JobSure(next)')
        BY <4>2, <4>3 DEF JobSafe, JobSure
      <4> QED
        BY <4>1, <4>2, <4>4, <3>1, <2>1
    <3>2. CASE ~(job[h].role = "admin" /\ job[h].exact /\ job[h].flag)
      BY <3>2, <2>1, IdleJob
    <3> QED
      BY <3>1, <3>2
  <2>7. assigned' \subseteq Assignment /\ assigned \subseteq assigned'
    BY <2>1, <2>3, <1>t
  <2> QED
    BY <2>1, <2>2, <2>4, <2>5, <2>6, <2>7, <1>t, WorkKeeps
<1>3. CASE UnassignRole(h, u)
  <2>1. /\ At(h, "revoke", u) /\ job' = [job EXCEPT ![h] = Idle]
        /\ status' = status /\ drift' = drift /\ UNCHANGED <<up, sysAdmins, identity, mapping>>
    BY <1>3 DEF UnassignRole, Done, Continue
  <2>2. job[h] \in Job /\ job[h].op = "revoke" /\ job[h].user = {u} /\ (~drift => JobSure(job[h])) /\ (~drift => \A v \in guard : Admin(v))
    BY <2>1, AtWork
  <2>3. \/ /\ u \in guard /\ Cardinality(guard) > 1 /\ guard' = guard \ {u}
           /\ assigned' = assigned \ {Row(u, job[h].role, "manual")}
        \/ /\ ~(job[h].role = "admin" /\ job[h].exact) /\ guard' = guard
           /\ assigned' = assigned \ {Row(u, job[h].role, "manual")}
        \/ assigned' = assigned /\ guard' = guard
    BY <1>3 DEF UnassignRole, GuardRemove, Unassign
  <2>4. /\ \A v \in Users \ {u} : HasRole(v, "admin")' <=> HasRole(v, "admin")
        /\ \A v \in Users : Row(v, "admin", "system-admin") \in assigned => Row(v, "admin", "system-admin") \in assigned'
        /\ assigned' \subseteq Assignment
    BY <2>3, <1>t, RowFields DEF HasRole
  <2>5. ~drift => /\ u \in guard' => Admin(u)'
                  /\ guard' # {} \/ (Admin(u) => Admin(u)')
    <3> SUFFICES ASSUME ~drift PROVE /\ u \in guard' => Admin(u)'
                                     /\ guard' # {} \/ (Admin(u) => Admin(u)')
      OBVIOUS
    <3>0. job[h].exact /\ (u \in guard => Admin(u))
      BY <2>2 DEF JobSure
    <3>1. CASE u \in guard /\ Cardinality(guard) > 1 /\ guard' = guard \ {u}
      BY <3>1, RemovalLeavesOne DEF AccountsInv
    <3>2. CASE /\ ~(job[h].role = "admin" /\ job[h].exact) /\ guard' = guard
               /\ assigned' = assigned \ {Row(u, job[h].role, "manual")}
      <4>1. job[h].role # "admin"
        BY <3>0, <3>2
      <4>2. Admin(u) => Admin(u)'
        BY <4>1, <3>2, <2>1, RowFields DEF Admin, HasRole
      <4> QED
        BY <4>2, <3>0, <3>2
    <3>3. CASE assigned' = assigned /\ guard' = guard
      BY <3>3, <3>0, <2>1 DEF Admin, HasRole
    <3> QED
      BY <3>1, <3>2, <3>3, <2>3
  <2>6. guard' \subseteq guard
    BY <2>3
  <2> QED
    BY <2>1, <2>4, <2>5, <2>6, <1>t, IdleJob, WorkKeeps
<1>4. CASE DisableAccount(h, u)
  <2>1. /\ At(h, "disable", u) /\ job' = [job EXCEPT ![h] = Idle]
        /\ assigned' = assigned /\ UNCHANGED <<up, sysAdmins, identity, mapping>>
    BY <1>4 DEF DisableAccount, Done, Continue
  <2>2. /\ job[h] \in Job /\ job[h].op = "disable" /\ job[h].user = {u} /\ (~drift => JobSure(job[h]))
        /\ (~drift => \A v \in guard : Admin(v)) /\ JobSafe(job[h])
    BY <2>1, AtWork
  <2>3. \/ /\ u \in guard /\ Cardinality(guard) > 1 /\ guard' = guard \ {u} /\ drift' = drift
           /\ status' = [status EXCEPT ![u] = "disabled"]
        \/ guard' = guard /\ drift' = TRUE /\ status' = [status EXCEPT ![u] = "disabled"]
        \/ ~job[h].flag /\ guard' = guard /\ drift' = drift /\ status' = [status EXCEPT ![u] = "disabled"]
        \/ status' = status /\ guard' = guard /\ drift' = drift
    BY <1>4 DEF DisableAccount, GuardRemove, LogoutAllFails, Mark
  <2>d. drift' \in BOOLEAN /\ (drift => drift')
    BY <2>3, <1>t, Zenon
  <2>4. u \notin sysAdmins /\ status[u] # "none"
    BY <2>2 DEF JobSafe
  <2>5. /\ status' \in [Users -> {"none", "active", "pending", "disabled"}] /\ status'[u] # "none"
        /\ \A v \in Users \ {u} : status'[v] = status[v]
    BY <2>3, <2>4, <1>t
  <2>6. ~drift' => /\ u \in guard' => Admin(u)'
                   /\ guard' # {} \/ (Admin(u) => Admin(u)')
    <3> SUFFICES ASSUME ~drift' PROVE /\ u \in guard' => Admin(u)'
                                      /\ guard' # {} \/ (Admin(u) => Admin(u)')
      OBVIOUS
    <3>0. ~drift /\ drift' # TRUE
      BY <2>d
    <3>1. CASE u \in guard /\ Cardinality(guard) > 1 /\ guard' = guard \ {u}
      BY <3>1, <3>0, RemovalLeavesOne DEF AccountsInv
    <3>2. CASE ~job[h].flag /\ guard' = guard
      <4>1. ~HasRole(u, "admin")
        BY <3>2, <3>0, <2>2 DEF JobSure
      <4>2. ~Admin(u) /\ u \notin guard
        BY <4>1, <3>0, <2>2 DEF Admin
      <4> QED
        BY <4>2, <3>2
    <3>3. CASE status' = status /\ guard' = guard
      BY <3>3, <3>0, <2>1, <2>2 DEF Admin, HasRole
    <3> QED
      BY <3>0, <3>1, <3>2, <3>3, <2>3
  <2>7. guard' \subseteq guard
    BY <2>3
  <2> QED
    BY <2>d, <2>1, <2>4, <2>5, <2>6, <2>7, <1>t, <1>h, IdleJob, WorkKeeps
<1>5. CASE ApproveAccount(h, u)
  <2>1. /\ At(h, "approve", u) /\ job' = [job EXCEPT ![h] = [job[h] EXCEPT !.op = "approved"]]
        /\ status' = [status EXCEPT ![u] = "active"] /\ assigned' = assigned /\ drift' = drift /\ guard' = guard
        /\ UNCHANGED <<up, sysAdmins, identity, mapping>>
    BY <1>5 DEF ApproveAccount, Continue, accountMemory
  <2>2. /\ job[h] \in Job /\ job[h].op = "approve" /\ job[h].user = {u}
        /\ (~drift => \A v \in guard : Admin(v)) /\ JobSafe(job[h])
    BY <2>1, AtWork
  <2>3. PICK next \in Job : next = [job[h] EXCEPT !.op = "approved"]
    BY <2>2 DEF Job, Ops
  <2>4. next.op = "approved" /\ next.user = {u}
    BY <2>2, <2>3 DEF Job
  <2>5. /\ status' \in [Users -> {"none", "active", "pending", "disabled"}] /\ status'[u] = "active" /\ status[u] # "none"
        /\ \A v \in Users \ {u} : status'[v] = status[v]
    BY <2>1, <2>2, <1>t DEF JobSafe
  <2>6. JobSafe(next)' /\ JobSure(next)'
    BY <2>4, <2>5 DEF JobSafe, JobSure
  <2>7. Admin(u) => Admin(u)'
    BY <2>1, <2>5 DEF Admin, HasRole
  <2> QED
    BY <2>1, <2>2, <2>3, <2>4, <2>5, <2>6, <2>7, <1>t, <1>h, WorkKeeps
<1>6. CASE ApproveReadsRoles(h, u)
  <2>1. /\ At(h, "approved", u) /\ UNCHANGED <<accountTables, accountMemory, drift>>
        /\ IF HasRole(u, "admin") \/ (Protected(u) /\ \E r \in Roles : HasRole(u, r))
           THEN job' = [job EXCEPT ![h] = [Idle EXCEPT !.op = "add", !.user = {u}]] ELSE job' = [job EXCEPT ![h] = Idle]
    BY <1>6 DEF ApproveReadsRoles, AddNext, Done, Continue
  <2>2. /\ up /\ job[h] \in Job /\ job[h].op = "approved" /\ job[h].user = {u} /\ (~drift => JobSure(job[h])) /\ SystemAdminRow
    BY <2>1, AtWork
  <2>3. CASE HasRole(u, "admin") \/ (Protected(u) /\ \E r \in Roles : HasRole(u, r))
    <3>1. PICK next \in Job : next = [Idle EXCEPT !.op = "add", !.user = {u}]
      BY AddJob
    <3>2. next.op = "add" /\ next.user = {u}
      BY <3>1, AddJob
    <3>3. ~drift => status[u] = "active"
      BY <2>2 DEF JobSure
    <3>4. ~drift => HasRole(u, "admin")
      BY <2>2, <2>3, <3>3 DEF Protected, HasRole, SystemAdminRow, Sources
    <3>5. ~drift => Admin(u)'
      BY <3>3, <3>4, <2>1 DEF Admin, HasRole, accountTables
    <3>6. JobSafe(next)' /\ (~drift => JobSure(next)')
      BY <3>2, <3>5 DEF JobSafe, JobSure
    <3> QED
      BY <3>1, <3>2, <3>6, <2>1, <2>2, <2>3, NoEffect
  <2>4. CASE ~(HasRole(u, "admin") \/ (Protected(u) /\ \E r \in Roles : HasRole(u, r)))
    BY <2>1, <2>2, <2>4, IdleJob, NoEffect
  <2> QED
    BY <2>3, <2>4
<1>7. CASE AdmitOIDC(h, u)
  <2>1. /\ At(h, "login", u) /\ UNCHANGED <<accountTables, up, sysAdmins, drift>>
    BY <1>7 DEF AdmitOIDC
  <2>2. /\ up /\ job[h] \in Job /\ job[h].op = "login" /\ job[h].user = {u} /\ (~drift => JobSure(job[h])) /\ SystemAdminRow
        /\ (~drift => \A v \in guard : Admin(v))
    BY <2>1, AtWork
  <2>3. CASE status[u] = "active"
    <3>1. /\ guard' = IF job[h].exact THEN guard \cup {u} ELSE guard
          /\ job' = [job EXCEPT ![h] = [Idle EXCEPT !.op = "sync", !.user = {u}]]
      BY <1>7, <2>3 DEF AdmitOIDC, Continue
    <3>2. PICK next \in Job : next = [Idle EXCEPT !.op = "sync", !.user = {u}]
      BY DEF Idle, Job, Ops, Roles
    <3>3. next.op = "sync" /\ next.user = {u}
      BY <3>2 DEF Idle
    <3>4. JobSafe(next)' /\ JobSure(next)'
      BY <3>3 DEF JobSafe, JobSure
    <3>5. ~drift /\ job[h].exact => Admin(u)
      <4>1. ~drift /\ job[h].exact => u \in sysAdmins
        BY <2>2 DEF JobSure
      <4> QED
        BY <4>1, <2>2, <2>3 DEF SystemAdminRow, Admin, HasRole, Sources
    <3>6. /\ status' = status /\ assigned' = assigned /\ drift' = drift /\ UNCHANGED <<up, sysAdmins, identity, mapping>>
      BY <2>1 DEF accountTables
    <3>7. Admin(u)' <=> Admin(u)
      BY <3>6 DEF Admin, HasRole
    <3>8. /\ guard' \subseteq Users /\ \A v \in guard' : v # u => v \in guard
          /\ ~drift /\ u \in guard' => Admin(u)'
      BY <3>1, <3>5, <3>7, <2>2, <1>t
    <3>9. job' = [job EXCEPT ![h] = next] /\ next.user \subseteq {u}
      BY <3>1, <3>2, <3>3
    <3>10. ~drift' => /\ JobSure(next)'
                      /\ u \in guard' => Admin(u)'
                      /\ guard' # {} \/ (Admin(u) => Admin(u)')
      BY <3>4, <3>6, <3>7, <3>8
    <3>11. \A v \in Users : status'[v] = status[v] /\ (HasRole(v, "admin")' <=> HasRole(v, "admin"))
      BY <3>6, <1>h
    <3>12. /\ status' \in [Users -> {"none", "active", "pending", "disabled"}] /\ assigned' \subseteq Assignment
           /\ drift' \in BOOLEAN /\ (drift => drift') /\ assigned' = assigned /\ UNCHANGED <<up, sysAdmins, identity, mapping>>
      BY <3>6, <1>t
    <3> QED
      BY <2>1, <3>4, <3>8, <3>9, <3>10, <3>11, <3>12, WorkKeeps
  <2>4. CASE status[u] # "active"
    <3>1. job' = [job EXCEPT ![h] = Idle] /\ guard' = guard
      BY <1>7, <2>4 DEF AdmitOIDC, Done, Continue
    <3> QED
      BY <2>1, <2>2, <3>1, IdleJob, NoEffect DEF accountMemory
  <2> QED
    BY <2>3, <2>4
<1>8. ASSUME NEW group \in BOOLEAN, SyncOIDC(h, u, group) PROVE AccountsInv' /\ AdminsStay
  <2> DEFINE granted == IF group THEN mapping ELSE {}
             gone == (Row(u, "admin", "sso") \in assigned \ assigned')
  <2>0. granted \subseteq Roles
    BY <1>t
  <2>1. /\ At(h, "sync", u) /\ job' = [job EXCEPT ![h] = Idle]
        /\ assigned' = {a \in assigned : ~(a.user = u /\ a.source = "sso")} \cup {Row(u, r, "sso") : r \in granted}
        /\ drift' = (drift \/ gone)
        /\ status' = status /\ guard' = guard /\ UNCHANGED <<up, sysAdmins, identity, mapping>>
    BY <1>8 DEF SyncOIDC, ReplaceSSOAssignments, Done, Continue, Mark, accountMemory
  <2>2. (~drift => \A v \in guard : Admin(v))
    BY <2>1, AtWork
  <2>3. drift' \in BOOLEAN /\ (drift => drift') /\ (~drift' => ~drift /\ ~gone)
    BY <2>1, <1>t
  <2> HIDE DEF granted
  <2>4. \A r \in granted : Row(u, r, "sso") \in Assignment
    BY <2>0 DEF Row, Assignment, Sources
  <2>5. assigned' \subseteq Assignment
    BY <2>1, <2>4, <1>t
  <2>6. \A v, r, s : v # u \/ s # "sso" => (Row(v, r, s) \in assigned' <=> Row(v, r, s) \in assigned)
    <3> SUFFICES ASSUME NEW v, NEW r, NEW s, v # u \/ s # "sso" PROVE Row(v, r, s) \in assigned' <=> Row(v, r, s) \in assigned
      OBVIOUS
    <3>1. Row(v, r, s).user = v /\ Row(v, r, s).source = s /\ \A x : Row(v, r, s) # Row(u, x, "sso")
      BY RowFields
    <3> QED
      BY <3>1, <2>1
  <2>7. \A v \in Users \ {u} : HasRole(v, "admin")' <=> HasRole(v, "admin")
    BY <2>6 DEF HasRole
  <2>8. \A v \in Users : Row(v, "admin", "system-admin") \in assigned => Row(v, "admin", "system-admin") \in assigned'
    BY <2>6
  <2>9. ~drift' /\ Admin(u) => Admin(u)'
    <3> SUFFICES ASSUME ~drift', Admin(u) PROVE Admin(u)'
      OBVIOUS
    <3>1. PICK s \in Sources : Row(u, "admin", s) \in assigned
      BY DEF Admin, HasRole
    <3>2. Row(u, "admin", s) \in assigned'
      BY <3>1, <2>3, <2>6
    <3> QED
      BY <3>1, <3>2, <2>1 DEF Admin, HasRole
  <2> QED
    BY <2>1, <2>2, <2>3, <2>5, <2>7, <2>8, <2>9, <1>t, IdleJob, WorkKeeps
<1> QED
  BY <1>1, <1>2, <1>3, <1>4, <1>5, <1>6, <1>7, <1>8

\* The rows EnsureBootstrap writes.
LEMMA BootstrapAssignments ==
    ASSUME NEW configured \in SUBSET Users
    PROVE  /\ BootstrapRows(configured) \subseteq Assignment
           /\ \A u \in Bootstrap : /\ Row(u, "admin", "manual") \in BootstrapRows(configured)
                                   /\ status[u] = "none" /\ u \in configured =>
                                      Row(u, "admin", "system-admin") \in BootstrapRows(configured)
<1> DEFINE Rows(u) == {Row(u, "admin", "manual")}
           \cup (IF status[u] = "none" THEN {Row(u, DefaultRole, "default")} ELSE {})
           \cup (IF status[u] = "none" /\ u \in configured THEN {Row(u, "admin", "system-admin")} ELSE {})
<1>1. BootstrapRows(configured) = UNION {Rows(u) : u \in Bootstrap}
  BY DEF BootstrapRows
<1>2. ASSUME NEW u \in Bootstrap
      PROVE  /\ Rows(u) \subseteq Assignment /\ Row(u, "admin", "manual") \in Rows(u)
             /\ status[u] = "none" /\ u \in configured => Row(u, "admin", "system-admin") \in Rows(u)
  <2>1. u \in Users
    BY AccountsAssumption
  <2>2. {Row(u, "admin", "manual"), Row(u, DefaultRole, "default"), Row(u, "admin", "system-admin")} \subseteq Assignment
    BY <2>1 DEF Row, Assignment, Sources, Roles
  <2> QED
    BY <2>2
<1> HIDE DEF Rows
<1> QED
  BY <1>1, <1>2

\* A start writes the configured administrators and the bootstrap account, and
\* finds in the guard administrators only, unless the configuration had changed.
LEMMA StartStep ==
    ASSUME AccountsInv, NEW configured \in SystemAdmins, StartAccounts(configured)
    PROVE  AccountsInv' /\ AdminsStay
<1>0. configured \in SUBSET Users /\ Bootstrap \subseteq Users
  BY AccountsAssumption
<1>t. /\ status \in [Users -> {"none", "active", "pending", "disabled"}] /\ assigned \subseteq Assignment
      /\ job \in [Handlers -> Job] /\ identity \in [Subjects -> SUBSET Users] /\ mapping \subseteq Roles
      /\ \A p \in Subjects : Cardinality(identity[p]) <= 1
  BY DEF AccountsInv, AccountsTypeOK
<1>1. /\ ~up /\ up' = TRUE /\ sysAdmins' = configured /\ UNCHANGED <<identity, mapping, job>>
      /\ status' = [u \in Users |-> IF u \in Bootstrap THEN "active" ELSE status[u]]
      /\ assigned' = ReplaceSourceAssignments(configured) \cup BootstrapRows(configured)
      /\ guard' = {u \in Users : Admin(u)} \cup Bootstrap
      /\ drift' = \E u \in Users \ configured : Row(u, "admin", "system-admin") \in assigned
  BY DEF StartAccounts, EnsureBootstrap
<1>2. \A h \in Handlers : job[h] = Idle
  BY <1>1 DEF AccountsInv, JobsSound
<1>3. ReplaceSourceAssignments(configured) \subseteq Assignment
  <2>1. \A u \in Users : Row(u, "admin", "system-admin") \in Assignment
    BY DEF Row, Assignment, Sources, Roles
  <2> QED
    BY <2>1, <1>0, <1>t DEF ReplaceSourceAssignments
<1>4. AccountsTypeOK'
  <2>1. drift' \in BOOLEAN
    BY <1>1
  <2>2. assigned' \subseteq Assignment
    BY <1>0, <1>1, <1>3, BootstrapAssignments
  <2>3. status' \in [Users -> {"none", "active", "pending", "disabled"}]
    BY <1>1, <1>t
  <2>4. guard' \subseteq Users
    BY <1>0, <1>1
  <2> QED
    BY <2>1, <2>2, <2>3, <2>4, <1>0, <1>1, <1>t DEF AccountsTypeOK
<1>5. JobsSound'
  <2>1. \A h \in Handlers : JobSafe(job[h])' /\ JobSure(job[h])'
    BY <1>1, <1>2, IdleJob
  <2> QED
    BY <2>1, <1>1, <1>2, IdleJob DEF JobsSound
<1>6. \A u \in configured : status[u] # "none" => Row(u, "admin", "system-admin") \in assigned'
  BY <1>1 DEF ReplaceSourceAssignments
<1>7. SystemAdminsKept'
  <2> SUFFICES ASSUME NEW u \in configured, status'[u] # "none" PROVE Row(u, "admin", "system-admin") \in assigned'
    BY <1>1 DEF SystemAdminsKept, SystemAdminRow
  <2>1. CASE status[u] # "none"
    BY <2>1, <1>6
  <2>2. CASE status[u] = "none"
    <3>1. u \in Bootstrap
      BY <2>2, <1>0, <1>1
    <3> QED
      BY <3>1, <2>2, <1>0, <1>1, BootstrapAssignments
  <2> QED
    BY <2>1, <2>2
<1>8. ASSUME ~drift', NEW u \in guard' PROVE Admin(u)'
  <2>0. u \in Users
    BY <1>0, <1>1
  <2>1. CASE u \in Bootstrap
    <3>1. status'[u] = "active"
      BY <2>0, <2>1, <1>1
    <3>2. Row(u, "admin", "manual") \in assigned'
      BY <2>1, <1>0, <1>1, BootstrapAssignments
    <3> QED
      BY <3>1, <3>2 DEF Admin, HasRole, Sources
  <2>2. CASE u \notin Bootstrap
    <3>1. Admin(u) /\ status'[u] = status[u]
      BY <2>0, <2>2, <1>1
    <3>2. PICK s \in Sources : Row(u, "admin", s) \in assigned
      BY <3>1 DEF Admin, HasRole
    <3>3. Row(u, "admin", s) \in assigned'
      <4>1. CASE s = "system-admin"
        <5>0. ~\E v \in Users \ configured : Row(v, "admin", "system-admin") \in assigned
          BY <1>1, <1>8
        <5>1. u \in configured
          BY <4>1, <3>2, <2>0, <5>0
        <5> QED
          BY <5>1, <4>1, <3>1, <1>6 DEF Admin
      <4>2. CASE s # "system-admin"
        <5>1. Row(u, "admin", s).source = s
          BY RowFields
        <5> QED
          BY <5>1, <4>2, <3>2, <1>1 DEF ReplaceSourceAssignments
      <4> QED
        BY <4>1, <4>2
    <3> QED
      BY <3>1, <3>3 DEF Admin, HasRole
  <2> QED
    BY <2>1, <2>2
<1>9. AdminsStay
  BY <1>0, <1>1 DEF AdminsStay
<1> QED
  BY <1>4, <1>5, <1>7, <1>8, <1>9 DEF AccountsInv, GuardCountsAdmins

\* Every step keeps the invariant, and an administrator.
LEMMA AccountsStep == AccountsInv /\ [NextAccounts]_accountVars => AccountsInv' /\ AdminsStay
<1> SUFFICES ASSUME AccountsInv, [NextAccounts]_accountVars PROVE AccountsInv' /\ AdminsStay
  OBVIOUS
<1>t. /\ identity \in [Subjects -> SUBSET Users] /\ mapping \subseteq Roles /\ sysAdmins \subseteq Users
      /\ \A p \in Subjects : Cardinality(identity[p]) <= 1
  BY DEF AccountsInv, AccountsTypeOK
<1>s. ASSUME UNCHANGED <<status, assigned, accountMemory, job, drift>>, mapping' \subseteq Roles,
             identity' \in [Subjects -> SUBSET Users], \A p \in Subjects : Cardinality(identity'[p]) <= 1
      PROVE  AccountsInv' /\ AdminsStay
  <2>1. /\ status' = status /\ assigned' = assigned /\ job' = job /\ drift' = drift
        /\ up' = up /\ sysAdmins' = sysAdmins /\ guard' = guard
    BY <1>s DEF accountMemory
  <2>2. AccountsTypeOK'
    BY <2>1, <1>s DEF AccountsInv, AccountsTypeOK
  <2>3. JobsSound' /\ SystemAdminsKept' /\ GuardCountsAdmins'
    BY <2>1 DEF AccountsInv, JobsSound, JobSafe, JobSure, SystemAdminsKept, SystemAdminRow, GuardCountsAdmins, Admin, HasRole
  <2>4. AdminsStay
    BY <2>1 DEF AdminsStay, Admin, HasRole
  <2> QED
    BY <2>2, <2>3, <2>4 DEF AccountsInv
<1>1. CASE UNCHANGED accountVars
  <2>1. UNCHANGED <<status, assigned, accountMemory, job, drift>> /\ mapping' = mapping /\ identity' = identity
    BY <1>1 DEF accountVars, accountTables, accountMemory
  <2> QED
    BY <2>1, <1>s, <1>t
<1>2. CASE CrashAccounts
  <2>1. /\ up' = FALSE /\ job' = [h \in Handlers |-> Idle] /\ status' = status /\ assigned' = assigned
        /\ identity' = identity /\ mapping' = mapping /\ sysAdmins' = sysAdmins /\ guard' = guard /\ drift' = drift
    BY <1>2 DEF CrashAccounts, accountTables
  <2>2. AccountsTypeOK'
    BY <2>1, IdleJob DEF AccountsInv, AccountsTypeOK
  <2>3. \A h \in Handlers : job'[h] = Idle
    BY <2>1
  <2>4. \A h \in Handlers : JobSafe(job[h])' /\ JobSure(job[h])'
    BY <2>3, IdleJob
  <2>5. JobsSound'
    BY <2>3, <2>4, IdleJob DEF JobsSound
  <2>6. SystemAdminsKept' /\ GuardCountsAdmins' /\ AdminsStay
    BY <2>1 DEF SystemAdminsKept, GuardCountsAdmins, AdminsStay
  <2> QED
    BY <2>2, <2>5, <2>6 DEF AccountsInv
<1>3. ASSUME NEW granted \in MappingChoices, ReplaceGroupRoleMappings(granted) PROVE AccountsInv' /\ AdminsStay
  <2>1. UNCHANGED <<status, assigned, accountMemory, job, drift>> /\ mapping' \subseteq Roles /\ identity' = identity
    BY <1>3, AccountsAssumption DEF ReplaceGroupRoleMappings
  <2> QED
    BY <2>1, <1>s, <1>t
<1>4. ASSUME NEW u \in Users, NEW p \in Subjects, LinkOIDC(u, p) \/ UnlinkOIDC(u, p) PROVE AccountsInv' /\ AdminsStay
  <2>1. Cardinality({}) = 0 /\ Cardinality({u}) = 1
    BY FS_EmptySet, FS_Singleton
  <2>2. PICK S \in {{}, {u}} : identity' = [identity EXCEPT ![p] = S]
    BY <1>4 DEF LinkOIDC, UnlinkOIDC
  <2>3. S \subseteq Users /\ Cardinality(S) <= 1
    BY <2>1, <2>2
  <2>4. identity' \in [Subjects -> SUBSET Users] /\ \A q \in Subjects : Cardinality(identity'[q]) <= 1
    BY <2>2, <2>3, <1>t
  <2>5. UNCHANGED <<status, assigned, accountMemory, job, drift>> /\ mapping' = mapping
    BY <1>4 DEF LinkOIDC, UnlinkOIDC
  <2> QED
    BY <2>4, <2>5, <1>s, <1>t
<1> QED
  BY <1>1, <1>2, <1>3, <1>4, StartStep, BeginStep, ProvisionStep, WorkStep DEF NextAccounts

\* Accounts' variables always have their types, and an identity one account.
THEOREM AccountsTypeCorrect == SpecAccounts => []AccountsTypeOK
<1>1. AccountsInv => AccountsTypeOK
  BY DEF AccountsInv
<1> QED
  BY <1>1, AccountsInit, AccountsStep, PTL DEF SpecAccounts

\* With any number of accounts, requests and identities: without the drifts the
\* module names the guard holds administrators only and no step removes the
\* last one; a configured administrator keeps its role and its account always.
THEOREM AdministratorsAlwaysRemain == SpecAccounts => AdministratorsRemain
<1>1. AccountsInv => GuardCountsAdmins /\ SystemAdminsKept
  BY DEF AccountsInv
<1>2. AccountsInv /\ [NextAccounts]_accountVars =>
        [up /\ up' /\ ~drift' /\ SomeAdministrator => SomeAdministrator']_accountVars
  BY AccountsStep DEF AdminsStay, SomeAdministrator
<1>3. AccountsInv /\ [NextAccounts]_accountVars =>
        [\A u \in sysAdmins \cap sysAdmins' : status[u] = "active" => status'[u] = "active"]_accountVars
  BY AccountsStep DEF AdminsStay
<1> QED
  BY <1>1, <1>2, <1>3, AccountsInit, AccountsStep, PTL
     DEF SpecAccounts, AdministratorsRemain, LastAdministratorStays, SystemAdminsStayActive

-----------------------------------------------------------------------------
(* The services together *)

\* A behaviour of the whole is one of each service.
LEMMA AccessParts == Spec => SpecAccounts /\ SpecSignIn /\ SpecSessions /\ SpecGateway /\ SpecStorage
<1>1. Init => InitAccounts /\ InitSignIn /\ InitSessions /\ InitGateway /\ InitStorage
  BY DEF Init
<1>2. [Next]_accessVars => /\ [NextAccounts]_accountVars /\ [NextSignIn]_signInVars /\ [NextSessions]_sessionVars
                           /\ [NextGateway]_gatewayVars /\ [NextStorage]_storageVars
  <2> SUFFICES ASSUME [Next]_accessVars
               PROVE  /\ [NextAccounts]_accountVars /\ [NextSignIn]_signInVars /\ [NextSessions]_sessionVars
                      /\ [NextGateway]_gatewayVars /\ [NextStorage]_storageVars
    OBVIOUS
  <2>1. CASE UNCHANGED accessVars
    BY <2>1 DEF accessVars
  <2>2. CASE Next
    BY <2>2 DEF Next
  <2> QED
    BY <2>1, <2>2
<1> QED
  BY <1>1, <1>2, PTL DEF Spec, SpecAccounts, SpecSignIn, SpecSessions, SpecGateway, SpecStorage

\* Every table, request and history of the services always has its type.
THEOREM AccessTypeCorrect == Spec => []AccessTypeOK
  BY AccessParts, AccountsTypeCorrect, SignInTypeCorrect, SessionsTypeCorrect, GatewayTypeCorrect, StorageTypeCorrect, PTL
     DEF AccessTypeOK
=============================================================================
