------------------------------ MODULE Gateway -------------------------------
(***************************************************************************)
(* What every administrative request goes through (api/api.go): the        *)
(* lockdown switch, authorization, the audit event before the handler and  *)
(* the one after it, and the audit of live-log reads, which are recorded   *)
(* once in five minutes (api/audit.go).  Requests run concurrently; an     *)
(* append to audit_events may fail at any time.                            *)
(*                                                                         *)
(* The writes modelled change one row, counted by its version, or the      *)
(* lockdown setting, which is stored and then copied to memory.  A         *)
(* snapshot of the row is its version, 0 when nothing was found: the row   *)
(* does not exist, the read failed (its error is ignored), or, for a       *)
(* provider, whose key is in the body, the body was consumed.              *)
(***************************************************************************)
EXTENDS Integers, FiniteSets

CONSTANTS Hits      \* requests, each made once

ASSUME HitsAssumption == IsFiniteSet(Hits)

VARIABLES
    lockdown,   \* LOCKDOWN_SCHEDULER in the table and lockdownScheduler in memory
    inBody,     \* the row that writes change is a provider, which only the body names
    entity,     \* version of that row, 0: it does not exist
    hit,        \* the requests
    trail,      \* audit_events, by request
    live,       \* liveLogAudits[key] is there, and its event is stored
    crossed     \* history: setting changes whose writes overlapped

gatewayVars == <<lockdown, inBody, entity, hit, trail, live, crossed>>

Kinds == {"write", "switch", "logs"}
HitRow == [kind : Kinds, phase : {"idle", "passed", "seen", "accepted", "stored", "executed", "appending", "done"},
           value : BOOLEAN,                       \* what a switch sets
           changed : BOOLEAN,                     \* the handler changed something
           ok : BOOLEAN,                          \* the handler answered with success
           before : Nat, after : Nat,             \* the row's versions that are recorded
           wrote : Nat,                           \* history: the version it wrote
           missed : BOOLEAN,                      \* history: a snapshot could not be had
           alone : BOOLEAN]                       \* history: no other write came between them

\* the events a request may leave
Trails == (SUBSET {"accepted", "success"}) \cup (SUBSET {"accepted", "failure"}) \cup {{"denied"}}

SetHit(h, row) == hit' = [hit EXCEPT ![h] = row]
EndHit(h) == SetHit(h, [hit[h] EXCEPT !.phase = "done"])
Record(h, result) == trail' = [trail EXCEPT ![h] = @ \cup {result}]
Working(h) == hit[h].phase \notin {"idle", "done"}

InitGateway ==
    /\ lockdown = [stored |-> FALSE, memory |-> FALSE]
    /\ inBody \in BOOLEAN
    /\ entity = 0
    /\ hit = [h \in Hits |-> [kind |-> "write", phase |-> "idle", value |-> FALSE, changed |-> FALSE,
                              ok |-> FALSE, before |-> 0, after |-> 0, wrote |-> 0, missed |-> FALSE,
                              alone |-> TRUE]]
    /\ trail = [h \in Hits |-> {}]
    /\ live = [reserved |-> FALSE, stored |-> FALSE]
    /\ crossed = FALSE

-----------------------------------------------------------------------------
(* The way in *)

\* withLockdown: the settings of the authentication page stay available
PassLockdown(h, kind, value) ==
    /\ hit[h].phase = "idle"
    /\ value => kind = "switch"
    /\ ~(lockdown.memory /\ kind = "write")
    /\ SetHit(h, [hit[h] EXCEPT !.phase = "passed", !.kind = kind, !.value = value])
    /\ UNCHANGED <<inBody, lockdown, entity, trail, live, crossed>>

\* authorize: a refusal for want of permission is recorded if that can be done
Deny(h) ==
    /\ hit[h].phase = "passed"
    /\ EndHit(h)
    /\ Record(h, "denied") \/ UNCHANGED trail
    /\ UNCHANGED <<inBody, lockdown, entity, live, crossed>>

\* What auditBefore can find before the handler ran: a provider is looked up in
\* memory, a row in the database, where the read may fail.
FoundBefore(kind) ==
    IF kind # "write" THEN {0} ELSE IF inBody THEN {entity} ELSE {0, entity}

\* authorized; auditBefore reads what the request will change
AuditBefore(h) ==
    /\ hit[h].phase = "passed"
    /\ \E seen \in FoundBefore(hit[h].kind) :
         SetHit(h, [hit[h] EXCEPT !.phase = IF hit[h].kind = "logs" THEN "accepted" ELSE "seen",
                                  !.before = seen,
                                  !.missed = \E other \in FoundBefore(hit[h].kind) : seen < other])
    /\ UNCHANGED <<inBody, lockdown, entity, trail, live, crossed>>

AcceptUnrecorded(h) ==
    /\ hit[h].phase = "seen"
    /\ SetHit(h, [hit[h] EXCEPT !.phase = "accepted"])
    /\ Record(h, "accepted") \/ UNCHANGED trail
    /\ UNCHANGED <<inBody, lockdown, entity, live, crossed>>

\* recordAcceptedAudit: without the event the request ends with 503
RecordAccepted(h) ==
    /\ hit[h].phase = "seen"
    /\ \/ Record(h, "accepted") /\ SetHit(h, [hit[h] EXCEPT !.phase = "accepted"])
       \/ EndHit(h) /\ UNCHANGED trail
    /\ UNCHANGED <<inBody, lockdown, entity, live, crossed>>

-----------------------------------------------------------------------------
(* The handlers *)

\* other requests that have read and not yet been recorded see a row that changed
Disturb(h, row) ==
    hit' = [g \in Hits |-> IF g = h THEN row
                           ELSE IF Working(g) THEN [hit[g] EXCEPT !.alone = FALSE] ELSE hit[g]]

\* a handler that changes the row, also if a later step of it fails and the
\* answer is an error, or changes nothing
Handle(h) ==
    /\ hit[h].phase = "accepted" /\ hit[h].kind = "write"
    /\ \E ok \in BOOLEAN :
         \/ /\ entity' = entity + 1
            /\ Disturb(h, [hit[h] EXCEPT !.phase = "executed", !.ok = ok, !.changed = TRUE, !.wrote = entity + 1])
         \/ SetHit(h, [hit[h] EXCEPT !.phase = "executed", !.ok = ok]) /\ UNCHANGED entity
    /\ UNCHANGED <<inBody, lockdown, trail, live, crossed>>

\* UpdateLockdownScheduler: the table, then, unless that failed, memory
StoreLockdown(h) ==
    /\ hit[h].phase = "accepted" /\ hit[h].kind = "switch"
    /\ \/ /\ lockdown' = [lockdown EXCEPT !.stored = hit[h].value]
          /\ SetHit(h, [hit[h] EXCEPT !.phase = "stored", !.ok = TRUE, !.changed = TRUE])
          /\ crossed' = (crossed \/ \E g \in Hits : hit[g].phase = "stored")
       \/ SetHit(h, [hit[h] EXCEPT !.phase = "executed"]) /\ UNCHANGED <<lockdown, crossed>>
    /\ UNCHANGED <<inBody, entity, trail, live>>

SetLockdownScheduler(h) ==
    /\ hit[h].phase = "stored"
    /\ lockdown' = [lockdown EXCEPT !.memory = hit[h].value]
    /\ SetHit(h, [hit[h] EXCEPT !.phase = "executed"])
    /\ UNCHANGED <<inBody, entity, trail, live, crossed>>

\* What auditAfter records for a successful write: with a snapshot from before
\* the row is read again, and a provider is not found, its key being looked for
\* in a body the handler has consumed; otherwise the answer, if it has a body.
FoundAfter(row) ==
    IF ~row.ok \/ row.kind # "write" THEN {0}
    ELSE IF row.before = 0 THEN {0, row.wrote}
    ELSE IF inBody THEN {0} ELSE {0, entity}

\* recordCompletedAudit: a failed append is not reported.  The settings handler
\* records its own success.
RecordCompleted(h) ==
    /\ hit[h].phase = "executed"
    /\ \E seen \in FoundAfter(hit[h]) :
         SetHit(h, [hit[h] EXCEPT !.phase = "done", !.after = seen,
                                  !.missed = @ \/ \E other \in FoundAfter(hit[h]) : seen < other])
    /\ Record(h, IF hit[h].ok THEN "success" ELSE "failure") \/ UNCHANGED trail
    /\ UNCHANGED <<inBody, lockdown, entity, live, crossed>>

-----------------------------------------------------------------------------
(* Live logs *)

\* AddLiveLog, first part: nothing more is recorded while the key is there
ReserveLiveLog(h) ==
    /\ hit[h].phase = "accepted" /\ hit[h].kind = "logs"
    /\ IF live.reserved
       THEN EndHit(h) /\ UNCHANGED live
       ELSE /\ live' = [reserved |-> TRUE, stored |-> FALSE]
            /\ SetHit(h, [hit[h] EXCEPT !.phase = "appending"])
    /\ UNCHANGED <<inBody, lockdown, entity, trail, crossed>>

\* delete(s.liveLogAudits, key)
AppendFails == [live EXCEPT !.reserved = FALSE]

AppendLiveLog(h) ==
    /\ hit[h].phase = "appending"
    /\ EndHit(h)
    /\ \/ Record(h, "success") /\ live' = [live EXCEPT !.stored = TRUE]
       \/ live' = AppendFails /\ UNCHANGED trail
    /\ UNCHANGED <<inBody, lockdown, entity, crossed>>

\* five minutes
WindowPasses ==
    /\ live.reserved
    /\ live' = [reserved |-> FALSE, stored |-> FALSE]
    /\ UNCHANGED <<inBody, lockdown, entity, hit, trail, crossed>>

-----------------------------------------------------------------------------

\* The process ends and starts: memory comes from the table.
RestartGateway ==
    /\ lockdown' = [lockdown EXCEPT !.memory = lockdown.stored]
    /\ hit' = [h \in Hits |-> IF Working(h) THEN [hit[h] EXCEPT !.phase = "done"] ELSE hit[h]]
    /\ live' = [reserved |-> FALSE, stored |-> FALSE]
    /\ crossed' = FALSE
    /\ UNCHANGED <<inBody, entity, trail>>

NextGateway ==
    \/ \E h \in Hits :
        \/ \E kind \in Kinds, value \in BOOLEAN : PassLockdown(h, kind, value)
        \/ Deny(h) \/ AuditBefore(h) \/ RecordAccepted(h)
        \/ Handle(h) \/ StoreLockdown(h) \/ SetLockdownScheduler(h) \/ RecordCompleted(h)
        \/ ReserveLiveLog(h) \/ AppendLiveLog(h)
    \/ WindowPasses
    \/ RestartGateway

SpecGateway == InitGateway /\ [][NextGateway]_gatewayVars

-----------------------------------------------------------------------------
(* Properties *)

\* Everything has its type, and an answered request left at most one event of
\* each kind.
GatewayTypeOK ==
    /\ lockdown \in [stored : BOOLEAN, memory : BOOLEAN]
    /\ inBody \in BOOLEAN
    /\ entity \in 0..Cardinality(Hits)
    /\ hit \in [Hits -> HitRow]
    /\ trail \in [Hits -> Trails]
    /\ live \in [reserved : BOOLEAN, stored : BOOLEAN]

\* No change without its audit event: whatever appends fail and wherever the
\* process ends, a request that changed something was recorded as accepted.
ChangesAreRecorded == \A h \in Hits : hit[h].changed => "accepted" \in trail[h]

\* the request changed the row and its success is in the trail
Succeeded(h) ==
    /\ hit[h].kind = "write" /\ hit[h].phase = "done"
    /\ hit[h].changed /\ "success" \in trail[h]

\* The versions a successful event records are the request's own, the one it
\* found and the one it made, unless another write came between the two reads;
\* both are there if the row is named in the path and nothing failed to be read.
\* Of a row that only the body names there is no second version, although the
\* documentation promises "before/after values for write operations".
SnapshotsFit ==
    \A h \in Hits : Succeeded(h) /\ hit[h].alone =>
        /\ hit[h].before \in {0, hit[h].wrote - 1} /\ hit[h].after \in {0, hit[h].wrote}
        /\ ~inBody /\ ~hit[h].missed
           => hit[h].before = hit[h].wrote - 1 /\ hit[h].after = hit[h].wrote

\* A key that silences the audit of live-log reads has its event stored or on
\* its way: a failed append never silences the reads after it.
SilencedIsRecorded ==
    live.reserved => live.stored \/ \E h \in Hits : hit[h].phase = "appending"

\* A stored lockdown lets no write in, also after a restart, except while the
\* setting is being changed or after two changes that overlapped.
LockdownHolds ==
    [][\A h \in Hits :
         /\ hit'[h].kind = "write" /\ hit[h].phase = "idle" /\ hit'[h].phase = "passed"
         => ~lockdown.stored \/ crossed \/ \E g \in Hits : hit[g].phase = "stored"]_gatewayVars

\* What an administrator may rely on: changes are in the audit trail with the
\* right versions, reads are not silenced unrecorded, and lockdown holds.
RequestsAccountable == [](ChangesAreRecorded /\ SnapshotsFit /\ SilencedIsRecorded) /\ LockdownHolds
=============================================================================
