--------------------------- MODULE ScheduleProofs ---------------------------
(***************************************************************************)
(* Proofs about Schedule, for any schedules, policies, limits and bounds.  *)
(***************************************************************************)
EXTENDS Schedule, TLAPS, SequenceTheorems, FiniteSetTheorems

-----------------------------------------------------------------------------
(* The operators of the poller *)

\* Whatever the policies, a trigger moves next_fire_at on by one occurrence, and
\* runs the due occurrence, the one after it or none.  It runs the due one if it
\* is the last to have fallen due, or if the policy runs them all; the one after
\* it only once that is due; and none that is missed if the policy discards them.
LEMMA ChosenOccurrence ==
    ASSUME NEW d \in Definition, NEW o \in Nat, NEW t \in Nat, ~IndexOutOfRange(d, o, t)
    PROVE  LET chosen == chooseDueOccurrence(d, o, t) IN
             /\ chosen[2] = o + 1
             /\ chosen[1] \in {0, o, o + 1}
             /\ o + 1 > t \/ RunsAll(d) => chosen[1] = o
             /\ chosen[1] \in {0, o} \/ o + 1 <= t
             /\ d.misfire \in {"SKIP_ALL", "FAIL_AND_ALERT"} => chosen[1] = 0 \/ (chosen[1] = o /\ o + 1 > t)
             /\ d.misfire = "RUN_LATEST" => chosen[1] = o + 1 \/ o + 1 > t
<1>1. MissedLimit \in Nat /\ MissedLimit > 1 /\ d.limit \in Nat
  BY BoundsAssumption DEF Definition
<1>2. \A i \in 1..MissedLimit : Missed(o)[i] = IF i = 1 THEN o ELSE o + 1
  BY DEF Missed, NextFire
<1>3. DOMAIN Missed(o) = 1..MissedLimit
  BY DEF Missed
<1>4. Missed(o)[MissedLimit] = o + 1
  BY <1>1, <1>2
<1>5. ASSUME Truncates(d), ~(o + 1 > t)
      PROVE  Missed(o)[CatchupIndex(d)] = o + 1 /\ Missed(o)[CatchupIndex(d) + 1] = o + 1
  <2>1. CatchupIndex(d) + 1 \in 1..MissedLimit
    BY <1>1, <1>3, <1>5 DEF IndexOutOfRange, NextFire
  <2>2. CatchupIndex(d) > 1 /\ CatchupIndex(d) \in 1..MissedLimit
    BY <1>1, <1>5, <2>1 DEF Truncates, CatchupIndex
  <2> QED
    BY <1>1, <1>2, <2>1, <2>2
<1>6. o + 1 \in Nat /\ (o + 1 > t) \in BOOLEAN
  OBVIOUS
<1>7. CASE o + 1 > t
  BY <1>6, <1>7 DEF chooseDueOccurrence, NextFire
<1>8. CASE ~(o + 1 > t) /\ d.misfire \in {"SKIP_ALL", "FAIL_AND_ALERT"}
  BY <1>6, <1>8 DEF chooseDueOccurrence, NextFire, RunsAll, Truncates
<1>9. CASE ~(o + 1 > t) /\ d.misfire = "RUN_LATEST"
  BY <1>4, <1>6, <1>9 DEF chooseDueOccurrence, NextFire, RunsAll, Truncates
<1>10. CASE ~(o + 1 > t) /\ Truncates(d)
  BY <1>5, <1>6, <1>10 DEF chooseDueOccurrence, NextFire, RunsAll, Truncates
<1>11. CASE /\ ~(o + 1 > t) /\ d.misfire \notin {"SKIP_ALL", "FAIL_AND_ALERT", "RUN_LATEST"}
            /\ ~Truncates(d)
  BY <1>6, <1>11 DEF chooseDueOccurrence, NextFire
<1> QED
  BY <1>7, <1>8, <1>9, <1>10, <1>11

\* REPLACE rewrites states only: the rows keep their occurrence and version, and
\* a superseded run is no longer waiting.
LEMMA ReplacedRows ==
    ASSUME TypeOK, NEW s \in Schedules
    PROVE  /\ AfterReplace(s) \in Seq(RunRow)
           /\ Len(AfterReplace(s)) = Len(runs[s])
           /\ \A i \in 1..Len(runs[s]) :
                /\ AfterReplace(s)[i].occ = runs[s][i].occ
                /\ AfterReplace(s)[i].version = runs[s][i].version
                /\ AfterReplace(s)[i].state = "WAITING" =>
                     runs[s][i].state = "WAITING" /\ i \notin Superseded(s)
<1>1. runs[s] \in Seq(RunRow) /\ DOMAIN runs[s] = 1..Len(runs[s]) /\ Len(runs[s]) \in Nat
  BY LenProperties DEF TypeOK
<1>2. \A i \in 1..Len(runs[s]) : runs[s][i] \in RunRow
  BY <1>1, ElementOfSeq
<1>3. \A i \in 1..Len(runs[s]) :
        AfterReplace(s)[i] = IF i \in Superseded(s) THEN [runs[s][i] EXCEPT !.state = "CANCELLING"]
                             ELSE runs[s][i]
  BY <1>1 DEF AfterReplace
<1>4. ASSUME NEW i \in 1..Len(runs[s])
      PROVE  /\ AfterReplace(s)[i] \in RunRow
             /\ AfterReplace(s)[i].occ = runs[s][i].occ
             /\ AfterReplace(s)[i].version = runs[s][i].version
             /\ AfterReplace(s)[i].state = "WAITING" =>
                  runs[s][i].state = "WAITING" /\ i \notin Superseded(s)
  BY <1>2, <1>3 DEF RunRow, RunStates
<1>5. AfterReplace(s) = [i \in 1..Len(runs[s]) |-> AfterReplace(s)[i]]
  BY <1>1 DEF AfterReplace
<1>6. AfterReplace(s) \in Seq(RunRow) /\ Len(AfterReplace(s)) = Len(runs[s])
  BY <1>1, <1>4, <1>5, IsASeq, LenProperties, SMTT(40)
<1> QED
  BY <1>4, <1>6

\* What a trigger's INSERT does to the runs of a schedule: the rows there are
\* keep their occurrence and version, at most one row is added, waiting, of the
\* current version and for an occurrence that had none, and afterwards the
\* occurrence has its run.
LEMMA InsertedRows ==
    ASSUME TypeOK, NEW s \in Schedules, NEW occ \in Nat, sched[s].version > 0
    PROVE  LET new == Insert(s, occ)
               n   == Len(runs[s])
           IN  /\ new \in Seq(RunRow)
               /\ Len(new) = n \/ Len(new) = n + 1
               /\ \A i \in 1..n :
                    /\ new[i].occ = runs[s][i].occ
                    /\ new[i].version = runs[s][i].version
                    /\ new[i].state = "WAITING" => runs[s][i].state = "WAITING" /\ i \notin Superseded(s)
               /\ Len(new) = n + 1 =>
                    /\ new[n + 1] = [occ |-> occ, version |-> sched[s].version, state |-> "WAITING"]
                    /\ \A i \in 1..n : runs[s][i].occ # occ
               /\ occ # 0 => \E i \in 1..Len(new) : new[i].occ = occ
<1> DEFINE new == Insert(s, occ)
           n   == Len(runs[s])
           row == [occ |-> occ, version |-> sched[s].version, state |-> "WAITING"]
<1>1. runs[s] \in Seq(RunRow) /\ DOMAIN runs[s] = 1..n /\ n \in Nat /\ sched[s].version \in Nat
  BY LenProperties DEF TypeOK, ScheduleRow
<1>2. CASE occ = 0 \/ \E i \in DOMAIN runs[s] : runs[s][i].occ = occ
  <2>1. new = AfterReplace(s)
    BY <1>2 DEF Insert
  <2>2. n # n + 1
    BY <1>1
  <2> QED
    BY <1>1, <1>2, <2>1, <2>2, ReplacedRows
<1>3. CASE ~(occ = 0 \/ \E i \in DOMAIN runs[s] : runs[s][i].occ = occ)
  <2>1. new = Append(AfterReplace(s), row) /\ row \in RunRow
    BY <1>1, <1>3 DEF Insert, RunRow, RunStates
  <2>2. /\ new \in Seq(RunRow) /\ Len(new) = n + 1 /\ new[n + 1] = row
        /\ \A i \in 1..n : new[i] = AfterReplace(s)[i]
    BY <1>1, <2>1, ReplacedRows, AppendProperties
  <2>3. n + 1 \in 1..Len(new) /\ new[n + 1].occ = occ
    BY <1>1, <2>2
  <2> QED
    BY <1>1, <1>3, <2>2, <2>3, ReplacedRows, SMTT(40)
<1> QED
  BY <1>2, <1>3

-----------------------------------------------------------------------------
(* The inductive invariant and what a step does to one schedule *)

\* The poll's clock reading is not ahead of the clock; an enabled schedule
\* exists, a schedule that exists has its next fire, one that does not has no
\* runs, and no run is of a version still to be saved.
Coherent ==
    /\ poll.at <= now
    /\ \A s \in Schedules :
         /\ sched[s].enabled => sched[s].version > 0
         /\ sched[s].version > 0 => sched[s].next > 0
         /\ sched[s].version = 0 => runs[s] = << >>
         /\ \A i \in 1..Len(runs[s]) : runs[s][i].version <= sched[s].version

\* at most the enabled flag of the schedule changes
Kept(s) ==
    /\ runs'[s] = runs[s]
    /\ \/ sched'[s] = sched[s]
       \/ sched[s].version > 0 /\ \E b \in BOOLEAN : sched'[s] = [sched[s] EXCEPT !.enabled = b]

\* a version is saved: the first, or the one after the current
VersionSaved(s) ==
    /\ runs'[s] = runs[s]
    /\ \E d \in Definitions \cup Edits, n \in Nat \ {0} : sched'[s] = Saved(sched[s].version + 1, d, n)

\* an unused schedule is deleted
Removed(s) ==
    /\ runs[s] = << >> /\ runs'[s] = << >>
    /\ sched'[s] = [sched[s] EXCEPT !.version = 0, !.enabled = FALSE, !.next = 0, !.base = 0]

\* a trigger is consumed without a run
Skipped(s) ==
    /\ runs'[s] = runs[s]
    /\ sched[s].def.overlap = "SKIP"
    /\ sched'[s] = [sched[s] EXCEPT !.next = @ + 1]

\* a trigger fires for occurrence occ, or for none when occ is 0
FiredFor(s, occ) ==
    /\ sched[s].enabled /\ ~Blocked(s)
    /\ sched[s].def.overlap = "SKIP" => ActiveRuns(s) = {}
    /\ occ \in {0, sched[s].next, sched[s].next + 1}
    /\ sched[s].next + 1 > poll.at \/ RunsAll(sched[s].def) => occ = sched[s].next
    /\ occ <= poll.at
    /\ sched[s].def.misfire \in {"SKIP_ALL", "FAIL_AND_ALERT"} => occ = 0 \/ occ + 1 > poll.at
    /\ sched[s].def.misfire = "RUN_LATEST" => occ = sched[s].next + 1 \/ sched[s].next + 1 > poll.at
    /\ runs'[s] = Insert(s, occ)
    /\ sched'[s] = [sched[s] EXCEPT !.next = @ + 1]

\* one of its runs moves on
Moved(s) ==
    /\ sched'[s] = sched[s]
    /\ \E i \in 1..Len(runs[s]), state \in RunStates \ {"WAITING"} :
         runs'[s] = [runs[s] EXCEPT ![i] = [@ EXCEPT !.state = state]]

StepOf(s) ==
    \/ Kept(s) \/ VersionSaved(s) \/ Removed(s) \/ Skipped(s) \/ Moved(s)
    \/ \E occ \in Nat : FiredFor(s, occ)

\* the rest of the state in a step
Around ==
    /\ sched' = [s \in Schedules |-> sched'[s]]
    /\ runs' = [s \in Schedules |-> runs'[s]]
    /\ edit' \in [Schedules -> Nat]
    /\ poll' \in PollRow
    /\ panicked' \in BOOLEAN
    /\ now' \in Nat /\ now <= now' /\ poll'.at <= now'

\* A table of which one row is replaced is still a table.
LEMMA OneRow ==
    ASSUME NEW S, NEW f, NEW z \in S, NEW e, f = [s \in S |-> f[s]]
    PROVE  [f EXCEPT ![z] = e] = [s \in S |-> [f EXCEPT ![z] = e][s]]
OBVIOUS

\* An operator's step saves a version, deletes the schedule or keeps it.
LEMMA OperatorStep ==
    ASSUME TypeOK, Coherent, NEW z \in Schedules, Operator(z)
    PROVE  Around /\ \A s \in Schedules : StepOf(s)
<1> DEFINE Goal == Around /\ \A s \in Schedules : Kept(s) \/ VersionSaved(s) \/ Removed(s)
<1>1. Definitions \subseteq Definition /\ Edits \subseteq Definition
  BY DefinitionsAssumption
<1>2. ASSUME NEW d \in Definitions, Create(z, d) PROVE Goal
  <2>1. sched[z].version = 0 /\ now + 1 \in Nat \ {0}
    BY <1>2 DEF Create, Exists, TypeOK, ScheduleRow
  <2>2. sched'[z] = Saved(sched[z].version + 1, d, now + 1)
    BY <1>2, <2>1 DEF Create, NextFire, TypeOK
  <2>3. \A s \in Schedules : runs'[s] = runs[s] /\ (s # z => sched'[s] = sched[s])
    BY <1>2 DEF Create, TypeOK
  <2>4. Around
    <3>1. sched' = [s \in Schedules |-> sched'[s]]
      BY <1>2, OneRow DEF Create, TypeOK
    <3>2. runs' = [s \in Schedules |-> runs'[s]] /\ edit' \in [Schedules -> Nat]
      BY <1>2 DEF Create, TypeOK
    <3> QED
      BY <1>2, <3>1, <3>2 DEF Create, Around, TypeOK, Coherent, PollRow
  <2> QED
    BY <2>1, <2>2, <2>3, <2>4 DEF Kept, VersionSaved
<1>3. ASSUME UpdateBegin(z) PROVE Goal
  BY <1>3 DEF UpdateBegin, Kept, Around, TypeOK, Coherent, NextFire, PollRow
<1>4. ASSUME NEW d \in Edits, Update(z, d) PROVE Goal
  <2>1. edit[z] \in Nat \ {0} /\ sched'[z] = Saved(sched[z].version + 1, d, edit[z])
    BY <1>4 DEF Update, TypeOK
  <2>2. \A s \in Schedules : runs'[s] = runs[s] /\ (s # z => sched'[s] = sched[s])
    BY <1>4 DEF Update, TypeOK
  <2>3. Around
    <3>1. sched' = [s \in Schedules |-> sched'[s]]
      BY <1>4, OneRow DEF Update, TypeOK
    <3>2. runs' = [s \in Schedules |-> runs'[s]] /\ edit' \in [Schedules -> Nat]
      BY <1>4 DEF Update, TypeOK
    <3> QED
      BY <1>4, <3>1, <3>2 DEF Update, Around, TypeOK, Coherent, PollRow
  <2> QED
    BY <2>1, <2>2, <2>3 DEF Kept, VersionSaved
<1>5. ASSUME NEW b \in BOOLEAN, SetEnabled(z, b) PROVE Goal
  <2>1. sched[z].version > 0 /\ sched'[z] = [sched[z] EXCEPT !.enabled = b]
    BY <1>5 DEF SetEnabled, Exists, TypeOK
  <2>2. \A s \in Schedules : runs'[s] = runs[s] /\ (s # z => sched'[s] = sched[s])
    BY <1>5 DEF SetEnabled, TypeOK
  <2>3. Around
    <3>1. sched' = [s \in Schedules |-> sched'[s]]
      BY <1>5, OneRow DEF SetEnabled, TypeOK
    <3>2. runs' = [s \in Schedules |-> runs'[s]] /\ edit' \in [Schedules -> Nat]
      BY <1>5 DEF SetEnabled, TypeOK
    <3> QED
      BY <1>5, <3>1, <3>2 DEF SetEnabled, Around, TypeOK, Coherent, PollRow
  <2> QED
    BY <2>1, <2>2, <2>3 DEF Kept
<1>6. ASSUME Delete(z) PROVE Goal
  <2>1. runs[z] = << >> /\ runs'[z] = << >>
    BY <1>6 DEF Delete
  <2>2. sched'[z] = [sched[z] EXCEPT !.version = 0, !.enabled = FALSE, !.next = 0, !.base = 0]
    BY <1>6 DEF Delete, TypeOK
  <2>3. \A s \in Schedules : runs'[s] = runs[s] /\ (s # z => sched'[s] = sched[s])
    BY <1>6 DEF Delete, TypeOK
  <2>4. Around
    <3>1. sched' = [s \in Schedules |-> sched'[s]]
      BY <1>6, OneRow DEF Delete, TypeOK
    <3>2. runs' = [s \in Schedules |-> runs'[s]] /\ edit' \in [Schedules -> Nat]
      BY <1>6 DEF Delete, TypeOK
    <3> QED
      BY <1>6, <3>1, <3>2 DEF Delete, Around, TypeOK, Coherent, PollRow
  <2> QED
    BY <2>1, <2>2, <2>3, <2>4 DEF Kept, Removed
<1> HIDE DEF Goal
<1>7. Goal
  BY <1>2, <1>3, <1>4, <1>5, <1>6 DEF Operator
<1> QED
  BY <1>7 DEF Goal, StepOf

\* A transaction of the poller fires or skips the trigger of one schedule.
LEMMA TriggerStep ==
    ASSUME TypeOK, Coherent, NEW z \in Schedules, CreateDueRun(z)
    PROVE  Around /\ \A s \in Schedules : StepOf(s)
<1>1. /\ sched[z] \in ScheduleRow /\ sched[z].def \in Definition /\ sched[z].next \in Nat
      /\ poll.at \in Nat /\ poll.left \in Nat /\ poll.left > 0
  BY DEF TypeOK, ScheduleRow, PollRow, CreateDueRun
<1>2. poll' = [poll EXCEPT !.left = @ - 1] /\ UNCHANGED <<now, edit, panicked>>
  BY DEF CreateDueRun, SkipTrigger, FireTrigger
<1>3. poll' \in PollRow /\ poll'.at = poll.at
  <2>1. poll.left - 1 \in Nat
    BY <1>1
  <2> QED
    BY <1>1, <1>2, <2>1 DEF TypeOK, PollRow
<1>4. sched[z].enabled /\ ~Blocked(z) /\ sched[z].next <= poll.at
  BY DEF CreateDueRun, First, Eligible, Due
<1>5. CASE SkipTrigger(z)
  <2>1. Around
    <3>1. sched' = [s \in Schedules |-> sched'[s]]
      BY <1>5, OneRow DEF SkipTrigger, TypeOK
    <3> QED
      BY <1>2, <1>3, <1>5, <3>1 DEF SkipTrigger, Around, TypeOK, Coherent
  <2>2. Skipped(z)
    BY <1>5 DEF SkipTrigger, Skipped, TypeOK, NextFire
  <2>3. \A s \in Schedules \ {z} : Kept(s)
    BY <1>5 DEF SkipTrigger, Kept, TypeOK
  <2> QED
    BY <2>1, <2>2, <2>3 DEF StepOf
<1>6. CASE FireTrigger(z)
  <2> DEFINE chosen == chooseDueOccurrence(sched[z].def, sched[z].next, poll.at)
  <2>1. /\ chosen[2] = sched[z].next + 1
        /\ chosen[1] \in {0, sched[z].next, sched[z].next + 1}
        /\ sched[z].next + 1 > poll.at \/ RunsAll(sched[z].def) => chosen[1] = sched[z].next
        /\ chosen[1] \in {0, sched[z].next} \/ sched[z].next + 1 <= poll.at
        /\ sched[z].def.misfire \in {"SKIP_ALL", "FAIL_AND_ALERT"} =>
             chosen[1] = 0 \/ (chosen[1] = sched[z].next /\ sched[z].next + 1 > poll.at)
        /\ sched[z].def.misfire = "RUN_LATEST" => chosen[1] = sched[z].next + 1 \/ sched[z].next + 1 > poll.at
    BY <1>1, <1>6, ChosenOccurrence DEF FireTrigger
  <2>2. /\ sched' = [sched EXCEPT ![z].next = chosen[2]]
        /\ runs' = [runs EXCEPT ![z] = Insert(z, chosen[1])]
        /\ ~(sched[z].def.overlap = "SKIP" /\ ActiveRuns(z) # {})
    BY <1>6 DEF FireTrigger
  <2> HIDE DEF chosen
  <2>3. Around
    <3>1. sched' = [s \in Schedules |-> sched'[s]]
      BY <2>2, OneRow DEF TypeOK
    <3>2. runs' = [s \in Schedules |-> runs'[s]]
      BY <2>2, OneRow DEF TypeOK
    <3> QED
      BY <1>2, <1>3, <3>1, <3>2 DEF Around, TypeOK, Coherent
  <2>4. FiredFor(z, chosen[1]) /\ chosen[1] \in Nat
    BY <1>1, <1>4, <2>1, <2>2 DEF FiredFor, TypeOK
  <2>5. \A s \in Schedules \ {z} : Kept(s)
    BY <2>2 DEF Kept, TypeOK
  <2> QED
    BY <2>3, <2>4, <2>5 DEF StepOf
<1> QED
  BY <1>5, <1>6 DEF CreateDueRun

\* Every step is one of these for every schedule.
LEMMA ScheduleStep ==
    ASSUME TypeOK, Coherent, [Next]_vars
    PROVE  Around /\ \A s \in Schedules : StepOf(s)
<1> DEFINE Goal == Around /\ \A s \in Schedules : StepOf(s)
<1>1. ASSUME Tick PROVE Goal
  BY <1>1 DEF Tick, Around, StepOf, Kept, TypeOK, Coherent, PollRow
<1>2. ASSUME PollStart \/ PollEnd \/ PollFails \/ \E z \in Schedules : CreateDueRunPanics(z)
      PROVE  Goal
  <2>1. UNCHANGED <<now, sched, runs, edit>>
    BY <1>2 DEF PollStart, PollEnd, PollFails, CreateDueRunPanics
  <2>2. poll' = PollAt(now, PollLimit) \/ poll' = PollAt(0, 0)
    BY <1>2 DEF PollStart, PollEnd, PollFails, CreateDueRunPanics, Idle
  <2>3. poll' \in PollRow /\ poll'.at <= now
    BY <2>2, BoundsAssumption DEF PollRow, PollAt, TypeOK
  <2>4. panicked' \in BOOLEAN
    BY <1>2 DEF PollStart, PollEnd, PollFails, CreateDueRunPanics, TypeOK
  <2> QED
    BY <2>1, <2>3, <2>4 DEF Around, StepOf, Kept, TypeOK
<1>3. ASSUME NEW z \in Schedules, NEW i \in DOMAIN runs[z], RunMove(z, i) PROVE Goal
  <2>1. PICK state \in RunStates :
          /\ <<runs[z][i].state, state>> \in RunMoves
          /\ runs' = [runs EXCEPT ![z] = [runs[z] EXCEPT ![i] = [runs[z][i] EXCEPT !.state = state]]]
          /\ UNCHANGED <<now, sched, edit, poll, panicked>>
    BY <1>3 DEF RunMove
  <2>2. state # "WAITING"
    BY <2>1 DEF RunMoves
  <2>3. i \in 1..Len(runs[z])
    BY LenProperties DEF TypeOK
  <2>4. Moved(z)
    <3>1. runs'[z] = [runs[z] EXCEPT ![i] = [@ EXCEPT !.state = state]]
      <4> DEFINE row == [runs[z] EXCEPT ![i] = [runs[z][i] EXCEPT !.state = state]]
      <4>1. runs' = [runs EXCEPT ![z] = row]
        BY <2>1
      <4> HIDE DEF row
      <4>2. runs'[z] = row
        BY <4>1 DEF TypeOK
      <4> QED
        BY <4>2 DEF row
    <3> QED
      BY <2>1, <2>2, <2>3, <3>1 DEF Moved
  <2>5. \A s \in Schedules \ {z} : Kept(s)
    BY <2>1 DEF Kept, TypeOK
  <2>6. Around
    <3>1. runs' = [s \in Schedules |-> runs'[s]]
      BY <2>1, OneRow DEF TypeOK
    <3> QED
      BY <2>1, <3>1 DEF Around, TypeOK, Coherent, PollRow
  <2> QED
    BY <2>4, <2>5, <2>6 DEF StepOf
<1>4. ASSUME UNCHANGED vars PROVE Goal
  BY <1>4 DEF vars, Around, StepOf, Kept, TypeOK, Coherent, PollRow
<1>5. ASSUME Poller PROVE Goal
  BY <1>2, <1>5, TriggerStep DEF Poller
<1>6. ASSUME NEW z \in Schedules, Operator(z) PROVE Goal
  BY <1>6, OperatorStep
<1> HIDE DEF Goal
<1>7. Goal
  BY <1>1, <1>3, <1>4, <1>5, <1>6 DEF Next
<1> QED
  BY <1>7 DEF Goal

-----------------------------------------------------------------------------
(* Types *)

\* What a step leaves in the rows of one schedule.
LEMMA RowsStep ==
    ASSUME TypeOK, Coherent, NEW s \in Schedules, StepOf(s)
    PROVE  /\ sched'[s] \in ScheduleRow
           /\ runs'[s] \in Seq(RunRow)
           /\ sched'[s].enabled => sched'[s].version > 0
           /\ sched'[s].version > 0 => sched'[s].next > 0
           /\ sched'[s].version = 0 => runs'[s] = << >>
           /\ \A i \in 1..Len(runs'[s]) : runs'[s][i].version <= sched'[s].version
<1> DEFINE Goal == /\ sched'[s] \in ScheduleRow
                   /\ runs'[s] \in Seq(RunRow)
                   /\ sched'[s].enabled => sched'[s].version > 0
                   /\ sched'[s].version > 0 => sched'[s].next > 0
                   /\ sched'[s].version = 0 => runs'[s] = << >>
                   /\ \A i \in 1..Len(runs'[s]) : runs'[s][i].version <= sched'[s].version
<1>1. /\ sched[s] \in ScheduleRow /\ runs[s] \in Seq(RunRow)
      /\ sched[s].version \in Nat /\ sched[s].next \in Nat
      /\ sched[s].enabled => sched[s].version > 0
      /\ sched[s].version > 0 => sched[s].next > 0
      /\ sched[s].version = 0 => runs[s] = << >>
      /\ \A i \in 1..Len(runs[s]) : runs[s][i].version <= sched[s].version
      /\ Len(runs[s]) \in Nat
  <2>1. sched[s] \in ScheduleRow /\ runs[s] \in Seq(RunRow) /\ Len(runs[s]) \in Nat
    BY LenProperties DEF TypeOK
  <2>2. sched[s].version \in Nat /\ sched[s].next \in Nat
    BY <2>1 DEF ScheduleRow
  <2> QED
    BY <2>1, <2>2 DEF Coherent
<1>2. \A i \in 1..Len(runs[s]) : runs[s][i] \in RunRow /\ runs[s][i].version \in Nat \ {0}
  <2>1. \A i \in 1..Len(runs[s]) : runs[s][i] \in RunRow
    BY <1>1, ElementOfSeq
  <2> QED
    BY <2>1 DEF RunRow
<1>3. ASSUME Kept(s) PROVE Goal
  <2>1. CASE sched'[s] = sched[s]
    BY <1>1, <1>3, <2>1 DEF Kept
  <2>2. CASE sched[s].version > 0 /\ \E b \in BOOLEAN : sched'[s] = [sched[s] EXCEPT !.enabled = b]
    <3>1. sched'[s] \in ScheduleRow /\ sched'[s].version = sched[s].version /\ sched'[s].next = sched[s].next
      BY <1>1, <2>2 DEF ScheduleRow
    <3> QED
      BY <1>1, <1>3, <2>2, <3>1 DEF Kept
  <2> QED
    BY <1>3, <2>1, <2>2 DEF Kept
<1>4. ASSUME VersionSaved(s) PROVE Goal
  <2>1. PICK d \in Definitions \cup Edits, n \in Nat \ {0} :
          sched'[s] = Saved(sched[s].version + 1, d, n)
    BY <1>4 DEF VersionSaved
  <2>2. d \in Definition
    BY DefinitionsAssumption
  <2>3. sched'[s] \in ScheduleRow /\ sched'[s].version = sched[s].version + 1 /\ sched'[s].next = n
    BY <1>1, <2>1, <2>2 DEF Saved, ScheduleRow
  <2> QED
    BY <1>1, <1>2, <1>4, <2>3, SMTT(40) DEF VersionSaved
<1>5. ASSUME Removed(s) PROVE Goal
  <2>1. runs'[s] = << >> /\ Len(runs'[s]) = 0 /\ runs'[s] \in Seq(RunRow)
    BY <1>5, EmptySeq DEF Removed
  <2>2. sched'[s] \in ScheduleRow /\ sched'[s].version = 0 /\ sched'[s].enabled = FALSE
    BY <1>1, <1>5 DEF Removed, ScheduleRow
  <2> QED
    BY <2>1, <2>2
<1>6. ASSUME Skipped(s) PROVE Goal
  BY <1>1, <1>6 DEF Skipped, ScheduleRow
<1>7. ASSUME NEW occ \in Nat, FiredFor(s, occ) PROVE Goal
  <2>1. /\ sched'[s] \in ScheduleRow /\ sched'[s].version = sched[s].version
        /\ sched'[s].next = sched[s].next + 1 /\ sched[s].version > 0
    BY <1>1, <1>7 DEF FiredFor, ScheduleRow
  <2> DEFINE new == Insert(s, occ)
  <2>2. /\ runs'[s] = new /\ new \in Seq(RunRow)
        /\ Len(new) = Len(runs[s]) \/ Len(new) = Len(runs[s]) + 1
        /\ \A i \in 1..Len(runs[s]) : new[i].version = runs[s][i].version
        /\ Len(new) = Len(runs[s]) + 1 =>
             new[Len(runs[s]) + 1] = [occ |-> occ, version |-> sched[s].version, state |-> "WAITING"]
    BY <1>7, <2>1, InsertedRows DEF FiredFor
  <2> HIDE DEF new
  <2>3. \A i \in 1..Len(new) : new[i].version <= sched[s].version
    <3> TAKE i \in 1..Len(new)
    <3>1. CASE i \in 1..Len(runs[s])
      BY <1>1, <2>2, <3>1
    <3>2. CASE i \notin 1..Len(runs[s])
      <4>1. i = Len(runs[s]) + 1 /\ Len(new) = Len(runs[s]) + 1
        BY <1>1, <2>2, <3>2
      <4> QED
        BY <1>1, <2>2, <4>1
    <3> QED
      BY <3>1, <3>2
  <2> QED
    BY <1>1, <2>1, <2>2, <2>3
<1>8. ASSUME Moved(s) PROVE Goal
  <2>1. PICK i \in 1..Len(runs[s]), state \in RunStates :
          runs'[s] = [runs[s] EXCEPT ![i] = [@ EXCEPT !.state = state]]
    BY <1>8 DEF Moved
  <2> DEFINE row == [runs[s][i] EXCEPT !.state = state]
  <2>2. row \in RunRow /\ row.version = runs[s][i].version
    BY <1>2 DEF RunRow
  <2>3. runs'[s] = [runs[s] EXCEPT ![i] = row]
    BY <2>1
  <2> HIDE DEF row
  <2>4. /\ runs'[s] \in Seq(RunRow) /\ Len(runs'[s]) = Len(runs[s])
        /\ \A j \in 1..Len(runs[s]) : runs'[s][j] = IF j = i THEN row ELSE runs[s][j]
    BY <1>1, <2>2, <2>3, ExceptSeq
  <2>5. sched'[s] = sched[s] /\ runs[s] # << >>
    BY <1>1, <1>8, EmptySeq DEF Moved
  <2> QED
    BY <1>1, <2>2, <2>4, <2>5
<1> HIDE DEF Goal
<1>9. Goal
  BY <1>3, <1>4, <1>5, <1>6, <1>7, <1>8 DEF StepOf
<1> QED
  BY <1>9 DEF Goal

\* The types and Coherent hold at the start.
LEMMA InitTypes == Init => TypeOK /\ Coherent
<1> SUFFICES ASSUME Init PROVE TypeOK /\ Coherent
  OBVIOUS
<1> DEFINE d0 == CHOOSE d \in Definitions : TRUE
<1>1. d0 \in Definition
  BY DefinitionsAssumption
<1> HIDE DEF d0
<1>2. \A s \in Schedules :
        sched[s] = [version |-> 0, enabled |-> FALSE, def |-> d0, next |-> 0, base |-> 0]
  BY DEF Init, d0
<1>3. sched \in [Schedules -> ScheduleRow]
  <2> DEFINE D == {d0}
             R == {[version |-> 0, enabled |-> FALSE, def |-> d, next |-> 0, base |-> 0] : d \in D}
  <2>1. sched = [s \in Schedules |-> sched[s]]
    <3>1. sched \in [Schedules -> R]
      BY Zenon DEF Init, d0
    <3> HIDE DEF R
    <3> QED
      BY <3>1
  <2>2. [version |-> 0, enabled |-> FALSE, def |-> d0, next |-> 0, base |-> 0] \in ScheduleRow
    BY <1>1 DEF ScheduleRow
  <2> QED
    BY <1>2, <2>1, <2>2
<1>4. << >> \in Seq(RunRow) /\ Len(<< >>) = 0
  BY EmptySeq
<1>5. TypeOK
  BY <1>3, <1>4 DEF Init, TypeOK, PollRow, Idle, PollAt
<1>6. Coherent
  BY <1>2, <1>4 DEF Init, Coherent, Idle, PollAt
<1> QED
  BY <1>5, <1>6

\* Coherent holds with the types after every step.
LEMMA CoherentHolds == Spec => [](TypeOK /\ Coherent)
<1>1. TypeOK /\ Coherent /\ [Next]_vars => (TypeOK /\ Coherent)'
  <2> SUFFICES ASSUME TypeOK, Coherent, [Next]_vars PROVE (TypeOK /\ Coherent)'
    OBVIOUS
  <2>1. Around /\ \A s \in Schedules : StepOf(s)
    BY ScheduleStep
  <2>2. TypeOK'
    BY <2>1, RowsStep DEF Around, TypeOK
  <2>3. Coherent'
    BY <2>1, RowsStep DEF Around, Coherent
  <2> QED
    BY <2>2, <2>3
<1> QED
  BY InitTypes, <1>1, PTL DEF Spec

\* Every row keeps its type, whatever the policies and limits an operator saves.
THEOREM TypeCorrect == Spec => []TypeOK
BY CoherentHolds, PTL

-----------------------------------------------------------------------------
(* Occurrences and their runs *)

\* Neither a move of a run nor anything an operator does changes which
\* occurrences have a run: only a trigger adds one.
LEMMA OccurrencesKept ==
    ASSUME TypeOK, NEW s \in Schedules,
           Kept(s) \/ VersionSaved(s) \/ Removed(s) \/ Skipped(s) \/ Moved(s)
    PROVE  /\ Len(runs'[s]) = Len(runs[s])
           /\ \A i \in 1..Len(runs[s]) : /\ runs'[s][i].occ = runs[s][i].occ
                                         /\ runs'[s][i].version = runs[s][i].version
                                         /\ runs'[s][i].state = "WAITING" => runs[s][i].state = "WAITING"
<1>1. CASE runs'[s] = runs[s]
  BY <1>1
<1>2. CASE Moved(s)
  <2>1. PICK i \in 1..Len(runs[s]), state \in RunStates \ {"WAITING"} :
          runs'[s] = [runs[s] EXCEPT ![i] = [@ EXCEPT !.state = state]]
    BY <1>2 DEF Moved
  <2>2. runs[s] \in Seq(RunRow)
    BY DEF TypeOK
  <2>3. runs[s][i] \in RunRow
    BY <2>2, ElementOfSeq
  <2> DEFINE row == [runs[s][i] EXCEPT !.state = state]
  <2>4. row \in RunRow /\ row.occ = runs[s][i].occ /\ row.version = runs[s][i].version /\ row.state # "WAITING"
    BY <2>3 DEF RunRow
  <2>5. runs'[s] = [runs[s] EXCEPT ![i] = row]
    BY <2>1
  <2> HIDE DEF row
  <2>6. /\ Len(runs'[s]) = Len(runs[s])
        /\ \A j \in 1..Len(runs[s]) : runs'[s][j] = IF j = i THEN row ELSE runs[s][j]
    BY <2>2, <2>4, <2>5, ExceptSeq
  <2> QED
    BY <2>4, <2>6
<1> QED
  BY <1>1, <1>2 DEF Kept, VersionSaved, Removed, Skipped

\* A trigger gives the occurrence it fires for a run and leaves the others theirs.
LEMMA OccurrencesFired ==
    ASSUME TypeOK, Coherent, NEW s \in Schedules, NEW occ \in Nat, FiredFor(s, occ)
    PROVE  LET n == Len(runs[s]) IN
           /\ n \in Nat /\ sched[s].version > 0 /\ sched[s].next > 0
           /\ Len(runs'[s]) = n \/ Len(runs'[s]) = n + 1
           /\ \A i \in 1..n :
                /\ runs'[s][i].occ = runs[s][i].occ
                /\ runs'[s][i].version = runs[s][i].version
                /\ runs'[s][i].state = "WAITING" => runs[s][i].state = "WAITING" /\ i \notin Superseded(s)
           /\ Len(runs'[s]) = n + 1 =>
                runs'[s][n + 1].occ = occ /\ \A i \in 1..n : runs[s][i].occ # occ
           /\ occ # 0 => \E i \in 1..Len(runs'[s]) : runs'[s][i].occ = occ
<1>1. sched[s].version > 0 /\ sched[s].next > 0
  BY DEF FiredFor, Coherent
<1>2. Len(runs[s]) \in Nat
  BY LenProperties DEF TypeOK
<1>3. runs'[s] = Insert(s, occ)
  BY DEF FiredFor
<1> DEFINE new == Insert(s, occ)
           n   == Len(runs[s])
<1>4. /\ Len(new) = n \/ Len(new) = n + 1
      /\ \A i \in 1..n :
           /\ new[i].occ = runs[s][i].occ
           /\ new[i].version = runs[s][i].version
           /\ new[i].state = "WAITING" => runs[s][i].state = "WAITING" /\ i \notin Superseded(s)
      /\ Len(new) = n + 1 =>
           /\ new[n + 1] = [occ |-> occ, version |-> sched[s].version, state |-> "WAITING"]
           /\ \A i \in 1..n : runs[s][i].occ # occ
      /\ occ # 0 => \E i \in 1..Len(new) : new[i].occ = occ
  BY <1>1, InsertedRows
<1> HIDE DEF new
<1>5. runs'[s] = new
  BY <1>3 DEF new
<1> QED
  BY <1>1, <1>2, <1>4, <1>5

\* An occurrence that has its run keeps it.
LEMMA HasRunKept ==
    ASSUME TypeOK, Coherent, NEW s \in Schedules, StepOf(s), NEW k, HasRun(s, k)
    PROVE  HasRun(s, k)'
<1>1. runs[s] \in Seq(RunRow) /\ runs'[s] \in Seq(RunRow)
  BY RowsStep DEF TypeOK
<1>2. DOMAIN runs[s] = 1..Len(runs[s]) /\ DOMAIN runs'[s] = 1..Len(runs'[s]) /\ Len(runs[s]) \in Nat
  BY <1>1, LenProperties
<1>3. PICK i \in 1..Len(runs[s]) : runs[s][i].occ = k
  BY <1>2 DEF HasRun
<1>4. i \in 1..Len(runs'[s]) /\ runs'[s][i].occ = runs[s][i].occ
  BY <1>2, <1>3, OccurrencesKept, OccurrencesFired DEF StepOf
<1> QED
  BY <1>2, <1>3, <1>4 DEF HasRun

\* An occurrence never runs twice, whatever edits move next_fire_at back and
\* whatever RUN_LATEST leaves it at: ON CONFLICT on the key, which is the
\* schedule and the occurrence, is enough.
THEOREM OccurrencesRunOnce == Spec => []OneRunPerOccurrence
<1>1. Init => OneRunPerOccurrence
  <2>1. DOMAIN << >> = {}
    OBVIOUS
  <2> QED
    BY <2>1 DEF Init, OneRunPerOccurrence
<1>2. TypeOK /\ Coherent /\ OneRunPerOccurrence /\ [Next]_vars => OneRunPerOccurrence'
  <2> SUFFICES ASSUME TypeOK, Coherent, OneRunPerOccurrence, [Next]_vars,
                      NEW s \in Schedules, NEW i \in DOMAIN runs'[s], NEW j \in DOMAIN runs'[s],
                      runs'[s][i].occ = runs'[s][j].occ
               PROVE  i = j
    BY DEF OneRunPerOccurrence
  <2>1. StepOf(s)
    BY ScheduleStep
  <2>2. runs[s] \in Seq(RunRow) /\ runs'[s] \in Seq(RunRow)
    BY <2>1, RowsStep DEF TypeOK
  <2>3. DOMAIN runs[s] = 1..Len(runs[s]) /\ DOMAIN runs'[s] = 1..Len(runs'[s]) /\ Len(runs[s]) \in Nat
    BY <2>2, LenProperties
  <2>4. \A m, k \in 1..Len(runs[s]) : runs[s][m].occ = runs[s][k].occ => m = k
    BY <2>3 DEF OneRunPerOccurrence
  <2>5. CASE Kept(s) \/ VersionSaved(s) \/ Removed(s) \/ Skipped(s) \/ Moved(s)
    BY <2>3, <2>4, <2>5, OccurrencesKept
  <2>6. ASSUME NEW occ \in Nat, FiredFor(s, occ) PROVE i = j
    <3> DEFINE n == Len(runs[s])
    <3>1. /\ Len(runs'[s]) = n \/ Len(runs'[s]) = n + 1
          /\ \A k \in 1..n : runs'[s][k].occ = runs[s][k].occ
          /\ Len(runs'[s]) = n + 1 =>
                runs'[s][n + 1].occ = occ /\ \A k \in 1..n : runs[s][k].occ # occ
      BY <2>6, OccurrencesFired
    <3>2. (i \in 1..n \/ i = n + 1) /\ (j \in 1..n \/ j = n + 1)
      BY <2>3, <3>1
    <3>3. i = n + 1 \/ j = n + 1 => Len(runs'[s]) = n + 1
      BY <2>3, <3>1
    <3> QED
      BY <2>4, <3>1, <3>2, <3>3
  <2> QED
    BY <2>1, <2>5, <2>6 DEF StepOf
<1> QED
  BY <1>1, <1>2, CoherentHolds, PTL DEF Spec

\* RUN_ALL, and RUN_UP_TO_N with a limit that truncates nothing, pass over no
\* occurrence since the version was saved, whatever interrupts the poller.
THEOREM RunAllLosesNone == Spec => []NoneLost
<1>1. Init => NoneLost
  BY DEF Init, NoneLost
<1>2. TypeOK /\ Coherent /\ NoneLost /\ [Next]_vars => NoneLost'
  <2> SUFFICES ASSUME TypeOK, Coherent, NoneLost, [Next]_vars, NEW s \in Schedules,
                      RunsAll(sched'[s].def), sched'[s].def.overlap # "SKIP",
                      NEW k \in sched'[s].base .. sched'[s].next - 1
               PROVE  HasRun(s, k)'
    BY DEF NoneLost, RunsAll, Truncates
  <2>1. StepOf(s) /\ sched[s] \in ScheduleRow
    BY ScheduleStep DEF TypeOK
  <2>2. sched[s].base \in Nat /\ sched[s].next \in Nat
    BY <2>1 DEF ScheduleRow
  <2>3. ASSUME sched'[s].def = sched[s].def, k \in sched[s].base .. sched[s].next - 1
        PROVE  HasRun(s, k)'
    BY <2>1, <2>3, HasRunKept DEF NoneLost
  <2>4. CASE Kept(s) \/ Moved(s)
    <3>1. sched'[s].def = sched[s].def /\ sched'[s].base = sched[s].base /\ sched'[s].next = sched[s].next
      BY <2>1, <2>4 DEF Kept, Moved, ScheduleRow
    <3> QED
      BY <2>3, <3>1
  <2>5. CASE VersionSaved(s)
    BY <2>5 DEF VersionSaved, Saved
  <2>6. CASE Removed(s)
    BY <2>1, <2>6 DEF Removed, ScheduleRow
  <2>7. CASE Skipped(s)
    BY <2>1, <2>7 DEF Skipped, ScheduleRow
  <2>8. ASSUME NEW occ \in Nat, FiredFor(s, occ) PROVE HasRun(s, k)'
    <3>1. /\ sched'[s].def = sched[s].def /\ sched'[s].base = sched[s].base
          /\ sched'[s].next = sched[s].next + 1
      BY <2>1, <2>8 DEF FiredFor, ScheduleRow
    <3>2. CASE k \in sched[s].base .. sched[s].next - 1
      BY <2>3, <3>1, <3>2
    <3>3. CASE k = sched[s].next
      <4>1. occ = k /\ occ # 0
        BY <2>8, <3>1, <3>3, OccurrencesFired DEF FiredFor
      <4>2. \E i \in 1..Len(runs'[s]) : runs'[s][i].occ = k
        BY <2>8, <4>1, OccurrencesFired
      <4>3. DOMAIN runs'[s] = 1..Len(runs'[s])
        BY <2>1, RowsStep, LenProperties
      <4> QED
        BY <4>2, <4>3 DEF HasRun
    <3> QED
      BY <2>2, <3>1, <3>2, <3>3
  <2> QED
    BY <2>1, <2>4, <2>5, <2>6, <2>7, <2>8 DEF StepOf
<1> QED
  BY <1>1, <1>2, CoherentHolds, PTL DEF Spec

\* No run is created ahead of the clock; SKIP_ALL and FAIL_AND_ALERT create none
\* for an occurrence that another has followed by the poll's clock reading, and
\* RUN_LATEST none for the oldest of several.
THEOREM MissedAreDiscarded == Spec => MissedDiscarded
<1> DEFINE Step == \A s \in Schedules : \A i \in Created(s) :
                     /\ runs'[s][i].occ <= now
                     /\ sched[s].def.misfire \in {"SKIP_ALL", "FAIL_AND_ALERT"} => Latest(runs'[s][i].occ)
                     /\ sched[s].def.misfire = "RUN_LATEST" =>
                          Latest(runs'[s][i].occ) \/ runs'[s][i].occ > sched[s].next
<1>1. TypeOK /\ Coherent /\ [Next]_vars => Step
  <2> SUFFICES ASSUME TypeOK, Coherent, [Next]_vars, NEW s \in Schedules, NEW i \in Created(s)
               PROVE  /\ runs'[s][i].occ <= now
                      /\ sched[s].def.misfire \in {"SKIP_ALL", "FAIL_AND_ALERT"} => Latest(runs'[s][i].occ)
                      /\ sched[s].def.misfire = "RUN_LATEST" =>
                           Latest(runs'[s][i].occ) \/ runs'[s][i].occ > sched[s].next
    OBVIOUS
  <2>1. StepOf(s)
    BY ScheduleStep
  <2>2. runs[s] \in Seq(RunRow) /\ runs'[s] \in Seq(RunRow)
    BY <2>1, RowsStep DEF TypeOK
  <2>3. DOMAIN runs[s] = 1..Len(runs[s]) /\ DOMAIN runs'[s] = 1..Len(runs'[s]) /\ Len(runs[s]) \in Nat
    BY <2>2, LenProperties
  <2>4. i \in 1..Len(runs'[s]) /\ i \notin 1..Len(runs[s])
    BY <2>3 DEF Created
  <2>5. ~(Kept(s) \/ VersionSaved(s) \/ Removed(s) \/ Skipped(s) \/ Moved(s))
    BY <2>4, OccurrencesKept
  <2>6. PICK occ \in Nat : FiredFor(s, occ)
    BY <2>1, <2>5 DEF StepOf
  <2>7. Len(runs'[s]) = Len(runs[s]) + 1 /\ i = Len(runs[s]) + 1
    BY <2>3, <2>4, <2>6, OccurrencesFired
  <2>8. runs'[s][i].occ = occ /\ occ # 0
    <3>1. runs'[s][i].occ = occ
      BY <2>6, <2>7, OccurrencesFired
    <3>2. runs'[s][i] \in RunRow
      BY <2>2, <2>4, ElementOfSeq
    <3> QED
      BY <3>1, <3>2 DEF RunRow
  <2>9. poll.at \in Nat /\ now \in Nat /\ poll.at <= now
    BY DEF TypeOK, PollRow, Coherent
  <2>10. occ <= poll.at /\ (sched[s].def.misfire \in {"SKIP_ALL", "FAIL_AND_ALERT"} => occ + 1 > poll.at)
    BY <2>6, <2>8 DEF FiredFor
  <2>11. sched[s].next \in Nat
    BY DEF TypeOK, ScheduleRow
  <2>12. sched[s].def.misfire = "RUN_LATEST" => occ + 1 > poll.at \/ occ > sched[s].next
    BY <2>6, <2>8, <2>9, <2>11 DEF FiredFor
  <2> QED
    BY <2>8, <2>9, <2>10, <2>11, <2>12 DEF Latest, NextFire
<1>2. TypeOK /\ Coherent /\ [Next]_vars => [Step]_vars
  BY <1>1
<1> QED
  BY <1>2, CoherentHolds, PTL DEF Spec, MissedDiscarded

-----------------------------------------------------------------------------
(* The backlog of unclaimed runs *)

\* Indices are finite, so counts of runs can be compared.
LEMMA RunSetsFinite ==
    ASSUME TypeOK, NEW s \in Schedules
    PROVE  /\ IsFiniteSet(ActiveRuns(s)) /\ IsFiniteSet(WaitingRuns(s))
           /\ WaitingRuns(s) \subseteq ActiveRuns(s)
           /\ Cardinality(ActiveRuns(s)) \in Nat /\ Cardinality(WaitingRuns(s)) \in Nat
           /\ Cardinality(WaitingRuns(s)) <= Cardinality(ActiveRuns(s))
<1>1. DOMAIN runs[s] = 1..Len(runs[s]) /\ Len(runs[s]) \in Nat
  BY LenProperties DEF TypeOK
<1>2. IsFiniteSet(1..Len(runs[s]))
  BY <1>1, FS_Interval
<1>3. ActiveRuns(s) \subseteq 1..Len(runs[s]) /\ WaitingRuns(s) \subseteq ActiveRuns(s)
  BY <1>1 DEF ActiveRuns, WaitingRuns
<1>4. IsFiniteSet(ActiveRuns(s))
  BY <1>2, <1>3, FS_Subset
<1> QED
  BY <1>3, <1>4, FS_Subset, FS_CardinalityType

Bound(d) == IF d.overlap = "ALLOW" THEN d.max ELSE 1

\* A trigger adds one waiting run at most, where the policy has room for it:
\* ALLOW below its maximum, QUEUE and SKIP when no run is active, and REPLACE
\* after it has superseded what waits.
LEMMA TriggerKeepsBound ==
    ASSUME TypeOK, TypeOK', Coherent, NEW s \in Schedules, NEW occ \in Nat, FiredFor(s, occ),
           ~(sched[s].def.overlap = "ALLOW" /\ sched[s].def.max = 0)
    PROVE  Cardinality(WaitingRuns(s)') <= Bound(sched[s].def)
<1> DEFINE n == Len(runs[s])
           K == WaitingRuns(s) \ Superseded(s)
<1>1. /\ DOMAIN runs[s] = 1..n /\ DOMAIN runs'[s] = 1..Len(runs'[s]) /\ n \in Nat
      /\ sched[s] \in ScheduleRow
  BY LenProperties DEF TypeOK
<1>2. sched'[s].version = sched[s].version
  BY <1>1 DEF FiredFor, ScheduleRow
<1>3. WaitingRuns(s)' \subseteq K \cup {n + 1}
  <2> SUFFICES ASSUME NEW i \in WaitingRuns(s)', i # n + 1 PROVE i \in K
    OBVIOUS
  <2>1. i \in 1..Len(runs'[s]) /\ runs'[s][i].version = sched'[s].version /\ runs'[s][i].state = "WAITING"
    BY <1>1 DEF WaitingRuns
  <2>2. i \in 1..n
    BY <1>1, <2>1, OccurrencesFired
  <2> QED
    BY <1>1, <1>2, <2>1, <2>2, OccurrencesFired DEF WaitingRuns
<1>4. IsFiniteSet(K) /\ Cardinality(K) \in Nat /\ Cardinality(K) <= Cardinality(WaitingRuns(s))
  BY RunSetsFinite, FS_Subset, FS_CardinalityType
<1>5. Cardinality(WaitingRuns(s)') <= Cardinality(K) + 1
  <2>1. n + 1 \notin K
    BY <1>1 DEF WaitingRuns
  <2>2. IsFiniteSet(K \cup {n + 1}) /\ Cardinality(K \cup {n + 1}) = Cardinality(K) + 1
    BY <1>4, <2>1, FS_AddElement
  <2> QED
    BY <1>3, <2>2, FS_Subset
<1>6. ASSUME K = {} PROVE Cardinality(WaitingRuns(s)') <= 1
  BY <1>5, <1>6, FS_EmptySet
<1>7. sched[s].def.max \in Nat /\ sched[s].def.overlap \in ConcurrencyPolicies
  BY <1>1 DEF ScheduleRow, Definition
<1>8. CASE sched[s].def.overlap = "ALLOW"
  <2>1. Cardinality(ActiveRuns(s)) < sched[s].def.max
    BY <1>7, <1>8, RunSetsFinite DEF FiredFor, Blocked
  <2>2. Cardinality(WaitingRuns(s)') \in Nat
    <3>1. IsFiniteSet(K \cup {n + 1})
      BY <1>4, FS_AddElement
    <3> QED
      BY <1>3, <3>1, FS_Subset, FS_CardinalityType
  <2> QED
    BY <1>4, <1>5, <1>7, <1>8, <2>1, <2>2, RunSetsFinite DEF Bound
<1>9. CASE sched[s].def.overlap \in {"QUEUE", "SKIP"}
  <2>1. ActiveRuns(s) = {}
    BY <1>9 DEF FiredFor, Blocked
  <2>2. K = {}
    BY <2>1, RunSetsFinite
  <2> QED
    BY <1>6, <1>9, <2>2 DEF Bound
<1>10. CASE sched[s].def.overlap = "REPLACE"
  <2>1. K = {}
    BY <1>10, RunSetsFinite DEF Superseded, WaitingRuns
  <2> QED
    BY <1>6, <1>10, <2>1 DEF Bound
<1> QED
  BY <1>7, <1>8, <1>9, <1>10 DEF ConcurrencyPolicies

\* However many occurrences a poll catches up on, and whatever edits come
\* between its transactions, a version has at most one unclaimed run, or the
\* ALLOW maximum.
THEOREM BacklogBounded == Spec => []WaitingBounded
<1>1. Init => WaitingBounded
  <2> SUFFICES ASSUME Init, TypeOK, NEW s \in Schedules,
                      ~(sched[s].def.overlap = "ALLOW" /\ sched[s].def.max = 0)
               PROVE  Cardinality(WaitingRuns(s)) <= Bound(sched[s].def)
    BY InitTypes DEF WaitingBounded, Bound
  <2>1. WaitingRuns(s) = {}
    BY DEF Init, WaitingRuns
  <2>2. sched[s].def.max \in Nat
    BY DEF TypeOK, ScheduleRow, Definition
  <2> QED
    BY <2>1, <2>2, FS_EmptySet DEF Bound
<1>2. TypeOK /\ TypeOK' /\ Coherent /\ WaitingBounded /\ [Next]_vars => WaitingBounded'
  <2> SUFFICES ASSUME TypeOK, TypeOK', Coherent, WaitingBounded, [Next]_vars, NEW s \in Schedules,
                      ~(sched'[s].def.overlap = "ALLOW" /\ sched'[s].def.max = 0)
               PROVE  Cardinality(WaitingRuns(s)') <= Bound(sched'[s].def)
    BY DEF WaitingBounded, Bound
  <2>1. /\ StepOf(s) /\ sched[s] \in ScheduleRow /\ sched'[s] \in ScheduleRow
        /\ DOMAIN runs[s] = 1..Len(runs[s]) /\ DOMAIN runs'[s] = 1..Len(runs'[s])
    BY ScheduleStep, LenProperties DEF TypeOK
  <2>2. sched'[s].def.max \in Nat /\ Bound(sched'[s].def) \in Nat
    BY <2>1 DEF ScheduleRow, Definition, Bound
  <2>3. ASSUME sched'[s].def = sched[s].def, WaitingRuns(s)' \subseteq WaitingRuns(s)
        PROVE  Cardinality(WaitingRuns(s)') <= Bound(sched'[s].def)
    <3>1. Cardinality(WaitingRuns(s)) <= Bound(sched[s].def)
      BY <2>3 DEF WaitingBounded, Bound
    <3>2. Cardinality(WaitingRuns(s)') <= Cardinality(WaitingRuns(s)) /\ Cardinality(WaitingRuns(s)') \in Nat
      BY <2>3, RunSetsFinite, FS_Subset, FS_CardinalityType
    <3> QED
      BY <2>2, <2>3, <3>1, <3>2, RunSetsFinite
  <2>4. ASSUME WaitingRuns(s)' = {} PROVE Cardinality(WaitingRuns(s)') <= Bound(sched'[s].def)
    BY <2>2, <2>4, FS_EmptySet
  <2>5. CASE Kept(s) \/ Moved(s) \/ Skipped(s)
    <3>1. sched'[s].def = sched[s].def /\ sched'[s].version = sched[s].version
      BY <2>1, <2>5 DEF Kept, Moved, Skipped, ScheduleRow
    <3>2. WaitingRuns(s)' \subseteq WaitingRuns(s)
      BY <2>1, <2>5, <3>1, OccurrencesKept DEF WaitingRuns
    <3> QED
      BY <2>3, <3>1, <3>2
  <2>6. CASE VersionSaved(s)
    <3>1. sched'[s].version = sched[s].version + 1 /\ runs'[s] = runs[s] /\ sched[s].version \in Nat
      BY <2>1, <2>6 DEF VersionSaved, Saved, ScheduleRow
    <3>2. \A i \in 1..Len(runs[s]) : runs[s][i].version <= sched[s].version
      BY DEF Coherent
    <3>3. \A i \in 1..Len(runs[s]) : runs[s][i].version \in Nat
      <4>1. \A i \in 1..Len(runs[s]) : runs[s][i] \in RunRow
        BY ElementOfSeq DEF TypeOK
      <4> QED
        BY <4>1 DEF RunRow
    <3> QED
      BY <2>1, <2>4, <3>1, <3>2, <3>3 DEF WaitingRuns
  <2>7. CASE Removed(s)
    BY <2>4, <2>7 DEF Removed, WaitingRuns
  <2>8. ASSUME NEW occ \in Nat, FiredFor(s, occ)
        PROVE  Cardinality(WaitingRuns(s)') <= Bound(sched'[s].def)
    <3>1. sched'[s].def = sched[s].def
      BY <2>1, <2>8 DEF FiredFor, ScheduleRow
    <3> QED
      BY <2>8, <3>1, TriggerKeepsBound
  <2> QED
    BY <2>1, <2>5, <2>6, <2>7, <2>8 DEF StepOf
<1> QED
  BY <1>1, <1>2, CoherentHolds, PTL DEF Spec

-----------------------------------------------------------------------------
(* The limit of one *)

\* no definition an operator saves says RUN_UP_TO_N with a catchup_limit of 1
NoLimitOfOne == \A d \in Definitions \cup Edits : ~(d.misfire = "RUN_UP_TO_N" /\ d.limit = 1)

DefinitionsSaved == \A s \in Schedules : sched[s].def \in Definitions \cup Edits

\* The index past the newest entry is in range for every limit but 1.
LEMMA IndexInRange ==
    ASSUME NEW d \in Definition, NEW o, NEW t, ~(d.misfire = "RUN_UP_TO_N" /\ d.limit = 1)
    PROVE  ~IndexOutOfRange(d, o, t)
<1>1. MissedLimit \in Nat /\ d.limit \in Nat
  BY BoundsAssumption DEF Definition
<1>2. DOMAIN Missed(o) = 1..MissedLimit
  BY DEF Missed
<1> QED
  BY <1>1, <1>2 DEF IndexOutOfRange, Truncates, CatchupIndex

\* A limit of 1 is the only one that stops the scheduler: with no such
\* definition chooseDueOccurrence never indexes past its list, whatever the
\* outage, the other limits and the edits (the run with a limit of 1 shows the
\* panic).
THEOREM OnlyLimitOnePanics ==
    ASSUME NoLimitOfOne
    PROVE  Spec => []SchedulerSurvives
<1>1. Init => DefinitionsSaved /\ SchedulerSurvives
  <2> SUFFICES ASSUME Init PROVE DefinitionsSaved /\ SchedulerSurvives
    OBVIOUS
  <2> DEFINE d0 == CHOOSE d \in Definitions : TRUE
  <2>1. d0 \in Definitions
    BY DefinitionsAssumption
  <2> HIDE DEF d0
  <2>2. \A s \in Schedules :
          sched[s] = [version |-> 0, enabled |-> FALSE, def |-> d0, next |-> 0, base |-> 0]
    BY DEF Init, d0
  <2> QED
    BY <2>1, <2>2 DEF Init, DefinitionsSaved, SchedulerSurvives
<1>2. TypeOK /\ Coherent /\ DefinitionsSaved /\ SchedulerSurvives /\ [Next]_vars
        => (DefinitionsSaved /\ SchedulerSurvives)'
  <2> SUFFICES ASSUME TypeOK, Coherent, DefinitionsSaved, SchedulerSurvives, [Next]_vars
               PROVE  (DefinitionsSaved /\ SchedulerSurvives)'
    OBVIOUS
  <2>1. DefinitionsSaved'
    <3> SUFFICES ASSUME NEW s \in Schedules PROVE sched'[s].def \in Definitions \cup Edits
      BY DEF DefinitionsSaved
    <3>1. StepOf(s) /\ sched[s] \in ScheduleRow /\ sched[s].def \in Definitions \cup Edits
      BY ScheduleStep DEF TypeOK, DefinitionsSaved
    <3>2. VersionSaved(s) \/ sched'[s].def = sched[s].def
      BY <3>1 DEF StepOf, Kept, Removed, Skipped, Moved, FiredFor, ScheduleRow
    <3>3. ASSUME VersionSaved(s) PROVE sched'[s].def \in Definitions \cup Edits
      <4>1. PICK d \in Definitions \cup Edits, n \in Nat \ {0} :
              sched'[s] = Saved(sched[s].version + 1, d, n)
        BY <3>3 DEF VersionSaved
      <4>2. sched'[s].def = d
        BY <4>1 DEF Saved
      <4> QED
        BY <4>2
    <3> QED
      BY <3>1, <3>2, <3>3
  <2>2. ASSUME NEW s \in Schedules PROVE ~CreateDueRunPanics(s)
    <3>1. sched[s].def \in Definition /\ ~(sched[s].def.misfire = "RUN_UP_TO_N" /\ sched[s].def.limit = 1)
      <4>1. sched[s].def \in Definitions \cup Edits
        BY DEF DefinitionsSaved
      <4>2. sched[s].def \in Definition
        BY <4>1, DefinitionsAssumption
      <4> QED
        BY <4>1, <4>2 DEF NoLimitOfOne
    <3> QED
      BY <3>1, IndexInRange DEF CreateDueRunPanics
  <2>3. panicked' = panicked
    BY <2>2 DEF Next, Tick, Poller, PollStart, CreateDueRun, PollEnd, PollFails, Operator, Create,
                UpdateBegin, Update, SetEnabled, Delete, RunMove, vars
  <2> QED
    BY <2>1, <2>3 DEF SchedulerSurvives
<1> QED
  BY <1>1, <1>2, CoherentHolds, PTL DEF Spec
=============================================================================
