------------------------- MODULE RunStoreRefinement -------------------------
(***************************************************************************)
(* How the tables of RunStore show the state of Execution: a run executes  *)
(* while its newest attempt is active, whatever its own row says.          *)
(***************************************************************************)
EXTENDS RunStore

PhaseOf(r) ==
    IF NewestActive(r) THEN "executing"
    ELSE IF run[r].state = "NONE" THEN "new"
    ELSE IF run[r].state \in QueuedStates THEN "queued"
    ELSE IF run[r].state \in {"FAILED", "UNKNOWN"} THEN "failed"
    ELSE "final"

PlaceOf(r) == IF NewestActive(r) THEN {att[r][Len(att[r])].runner} ELSE {}

phaseOfRuns == [r \in Runs |-> PhaseOf(r)]
placeOfRuns == [r \in Runs |-> PlaceOf(r)]
triesOfRuns == [r \in Runs |-> Len(att[r])]

Exec == INSTANCE Execution WITH phase <- phaseOfRuns, place <- placeOfRuns, tries <- triesOfRuns

\* The run store implements Execution: with every dispatch, event, timeout,
\* cancellation and archival in any order, a run executes in one place at a
\* time, within its attempts and its runner's capacity, and one that succeeded
\* or was cancelled is never executed again.
ImplementsExecution == Exec!Spec
=============================================================================
