----------------------------- MODULE MCRunStore -----------------------------
(* Small instances of RunStore for TLC. *)
EXTENDS RunStoreRefinement

CONSTANTS r1, r2, w1, w2, x1

OneEach == [r \in Runs |-> 1]
TwoEach == [r \in Runs |-> 2]
ShareX1 == [r \in Runs |-> {x1}]
FirstRetries == [r \in Runs |-> IF r = r1 THEN "RETRY" ELSE "REQUIRE_MANUAL_RECONCILIATION"]
Manual == [r \in Runs |-> "REQUIRE_MANUAL_RECONCILIATION"]
OneSlot == [w \in Runners |-> 1]
TwoSlots == [w \in Runners |-> 2]
Backoff == [n \in 1..2 |-> n]
=============================================================================
