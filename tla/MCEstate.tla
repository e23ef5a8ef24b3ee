------------------------------ MODULE MCEstate ------------------------------
(* Small instances of the parts around the runs.  They have no variable in   *)
(* common and each allows for whatever the others may do at any time, so a   *)
(* behaviour follows one of them.                                            *)
EXTENDS Fleet, RunnerPools, Capacity, Leases, DeadLetters, Catalog, SecretDelivery, Projection, RunLogs, TLC

CONSTANTS k1, k2, k3, n1, n2, v1, v2, s1, s2, x1, x2, r1, m1

VARIABLE part

estateVars ==
    <<fleetVars, poolVars, capacityVars, leaseVars, letterVars, catalogVars, deliveryVars, projectionVars, logVars,
      part>>

Init ==
    /\ part \in {"fleet", "pools", "capacity", "leases", "letters", "notices",
                "catalog", "delivery", "projection", "sweep", "logs"}
    /\ InitFleet /\ InitPools /\ InitCapacity /\ InitLeases /\ InitLetters
    /\ InitCatalog /\ InitDelivery /\ InitProjection /\ InitLogs
    \* the projection begins in several ways, which the others need not repeat
    /\ part \notin {"projection", "sweep"} => \A j \in Jobs : job[j].duration = 1

Next ==
    /\ UNCHANGED part
    /\ \/ /\ part = "fleet" /\ NextFleet
          /\ UNCHANGED <<poolVars, capacityVars, leaseVars, letterVars, catalogVars, deliveryVars, projectionVars, logVars>>
       \/ /\ part = "pools" /\ NextPools
          /\ UNCHANGED <<fleetVars, capacityVars, leaseVars, letterVars, catalogVars, deliveryVars, projectionVars, logVars>>
       \/ /\ part = "capacity" /\ NextCapacity
          /\ UNCHANGED <<fleetVars, poolVars, leaseVars, letterVars, catalogVars, deliveryVars, projectionVars, logVars>>
       \/ /\ part = "leases" /\ NextLeases
          /\ UNCHANGED <<fleetVars, poolVars, capacityVars, letterVars, catalogVars, deliveryVars, projectionVars, logVars>>
       \* a message to the control plane, or one to a worker; what was retried is not retried again
       \/ /\ part \in {"letters", "notices"} /\ NextLetters
          /\ \A h \in Admins : retry'[h].letter \subseteq Originals
          /\ IF part = "letters" THEN UNCHANGED message[x1] ELSE UNCHANGED message[m1]
          /\ UNCHANGED <<fleetVars, poolVars, capacityVars, leaseVars, catalogVars, deliveryVars, projectionVars, logVars>>
       \/ /\ part = "catalog" /\ NextCatalog
          /\ UNCHANGED <<fleetVars, poolVars, capacityVars, leaseVars, letterVars, deliveryVars, projectionVars, logVars>>
       \/ /\ part = "delivery" /\ NextDelivery
          /\ UNCHANGED <<fleetVars, poolVars, capacityVars, leaseVars, letterVars, catalogVars, projectionVars, logVars>>
       \* requests that overlap and one pattern of fire times, or two patterns and requests that come one after the
       \* other and succeed
       \/ /\ part \in {"projection", "sweep"} /\ NextProjection
          /\ IF part = "projection" THEN \A h \in Planners : planner'[h].times \in {{}, {0, 2}}
             ELSE /\ ~skipped' /\ ~stale'
                  /\ \A h, i \in Planners : planner'[h] # NoPlanner /\ planner'[i] # NoPlanner => h = i
          /\ UNCHANGED <<fleetVars, poolVars, capacityVars, leaseVars, letterVars, catalogVars, deliveryVars, logVars>>
       \/ /\ part = "logs" /\ NextLogs
          /\ UNCHANGED <<fleetVars, poolVars, capacityVars, leaseVars, letterVars, catalogVars, deliveryVars, projectionVars>>

Spec == Init /\ [][Next]_estateVars

\* Every table, request and history of the parts around the runs has its type.
EstateTypeOK ==
    /\ FleetTypeOK /\ PoolsTypeOK /\ CapacityTypeOK /\ LeasesTypeOK /\ LettersTypeOK
    /\ CatalogTypeOK /\ DeliveryTypeOK /\ ProjectionTypeOK /\ LogsTypeOK

TaskDefinitions == {[command |-> {v1}, environment |-> {}, secrets |-> {}],
                    [command |-> {}, environment |-> {{v2}}, secrets |-> {{s1}}],
                    [command |-> {v1}, environment |-> {{}}, secrets |-> {{s1, s2}}]}
Fires == {{0, 2}, {1, 3}}
JobRows == {[duration |-> 1, resources |-> {x1}], [duration |-> 2, resources |-> {x1, x2}]}
Characters == [s \in Streams |-> IF s = "stdout" THEN <<"lead", "trail", "lead", "trail">> ELSE <<"plain", "nul", "lead", "trail">>]

\* the same two pairs of values stand for interchangeable things of each part
Interchangeable == Permutations({k1, k2}) \cup Permutations({n1, n2})
=============================================================================
