----------------------------- MODULE Execution ------------------------------
(***************************************************************************)
(* What the run store promises to whoever submits a run: the run waits,    *)
(* executes in one place at a time, at most as often as its task allows    *)
(* and never beyond the capacity of a runner, and in the end is final or   *)
(* has failed; only a failed run is taken up again.  Tables, messages,     *)
(* timers and cancellation are left out.  RunStore implements it           *)
(* (RunStoreRefinement).                                                   *)
(***************************************************************************)
EXTENDS Integers, FiniteSets

CONSTANTS Runs, Runners, MaxAttempts, Capacity

VARIABLES
    phase,   \* of a run
    place,   \* the runner that executes it ({}: none)
    tries    \* how often it has begun to execute

executionVars == <<phase, place, tries>>

Phases == {"new", "queued", "executing", "failed", "final"}
At(w) == {r \in Runs : place[r] = {w}}
SetPhase(r, p) == phase' = [phase EXCEPT ![r] = p]

Init ==
    /\ phase = [r \in Runs |-> "new"]
    /\ place = [r \in Runs |-> {}]
    /\ tries = [r \in Runs |-> 0]

Submit(r) ==
    /\ phase[r] = "new"
    /\ SetPhase(r, "queued")
    /\ UNCHANGED <<place, tries>>

Begin(r, w) ==
    /\ phase[r] = "queued"
    /\ tries[r] < MaxAttempts[r]
    /\ Cardinality(At(w)) < Capacity[w]
    /\ SetPhase(r, "executing")
    /\ place' = [place EXCEPT ![r] = {w}]
    /\ tries' = [tries EXCEPT ![r] = @ + 1]

End(r, p) ==
    /\ phase[r] = "executing"
    /\ p \in {"queued", "failed", "final"}
    /\ SetPhase(r, p)
    /\ place' = [place EXCEPT ![r] = {}]
    /\ UNCHANGED tries

\* Several runs may be withdrawn at once.
Withdraw(rs) ==
    /\ \A r \in rs : phase[r] = "queued"
    /\ phase' = [r \in Runs |-> IF r \in rs THEN "final" ELSE phase[r]]
    /\ UNCHANGED <<place, tries>>

Resume(r) ==
    /\ phase[r] = "failed"
    /\ tries[r] < MaxAttempts[r]
    /\ SetPhase(r, "queued")
    /\ UNCHANGED <<place, tries>>

Next ==
    \/ \E r \in Runs : \/ Submit(r) \/ Resume(r)
                       \/ \E w \in Runners : Begin(r, w)
                       \/ \E p \in Phases : End(r, p)
    \/ \E rs \in SUBSET Runs : Withdraw(rs)

Spec == Init /\ [][Next]_executionVars
=============================================================================
