------------------------------- MODULE Fleet --------------------------------
(***************************************************************************)
(* The runner fleet: the tables runners, runner_enrollments, runner_keys    *)
(* and runner_sessions (backend/internal/store/runners.go),                *)
(* the handlers that change them (internal/api/infrastructure.go), the     *)
(* heartbeat monitor (internal/controlplane/heartbeat.go) and the worker's *)
(* enrollment (cmd/worker/run.go, internal/worker/bootstrap.go).           *)
(*                                                                         *)
(* A machine runs an artifact that carries an enrollment token.  It makes  *)
(* a key pair, presents the token with the public key, and afterwards signs*)
(* a heartbeat every ten seconds.  The key id is made from the runner id,  *)
(* so a runner has one key row; a key pair is named by the machine that    *)
(* made it and the token it was sent with.  A start of a worker is a boot; *)
(* boots are numbered in order.  Archive's effect on runs is in RunStore,  *)
(* the pools are in RunnerPools, the capacity in Capacity.                 *)
(***************************************************************************)
EXTENDS Integers, Sequences, FiniteSets

CONSTANTS
    Runners,
    Tokens,     \* enrollment tokens that may be created
    Machines,   \* hosts an artifact may be started on
    MaxBoots    \* bound: worker starts

ASSUME FleetAssumption == MaxBoots \in Nat

VARIABLES
    runner,     \* runners
    token,      \* runner_enrollments
    key,        \* runner_keys
    boots,      \* every worker start, with its row of runner_sessions
    machine,    \* the worker's local store and process
    beats,      \* boots with a heartbeat in the stream
    verified    \* the heartbeat whose signature was verified and is being written

fleetTables == <<runner, token, key>>
fleetWork == <<beats, verified>>
fleetVars == <<fleetTables, boots, machine, fleetWork>>

-----------------------------------------------------------------------------
(* Rows *)

Key == [machine : Machines, token : Tokens]
Desired == {"ENABLED", "DISABLED"}      \* a DRAINING runner is as one that is DISABLED here
Observed == {"PENDING", "ONLINE", "OFFLINE", "REVOKED"}
RunnerRow == [state : {"none", "live", "archived"},
              desired : Desired, observed : Observed,
              recent : BOOLEAN]        \* last_seen_at is within the stale limit
TokenRow == [state : {"none", "unused", "used", "gone"}, runner : SUBSET Runners, valid : BOOLEAN]
KeyRow == [bound : SUBSET Key, revoked : BOOLEAN]
BootRow == [runner : Runners, key : Key, machine : Machines,
            session : {"none", "fresh", "old", "disconnected"}]   \* fresh: a heartbeat within 30 seconds

\* what the worker keeps (artifact, key, conn) and what it is doing
MachineRow == [artifact : SUBSET Tokens,
               key : SUBSET Key, conn : BOOLEAN,
               phase : {"off", "sent", "enrolled", "up"}, boot : Nat]

Live(r) == runner[r].state = "live"
Connected(i) == boots[i].session \in {"fresh", "old"}
Bound(r, k) == ~key[r].revoked /\ key[r].bound = {k}
BootsOf(r) == {i \in DOMAIN boots : boots[i].runner = r}
SetRunner(r, row) == runner' = [runner EXCEPT ![r] = row]
Sessions(f(_)) == boots' = [i \in DOMAIN boots |-> [boots[i] EXCEPT !.session = f(i)]]

InitFleet ==
    /\ runner = [r \in Runners |-> [state |-> "none", desired |-> "ENABLED",
                                    observed |-> "PENDING", recent |-> FALSE]]
    /\ token = [t \in Tokens |-> [state |-> "none", runner |-> {}, valid |-> FALSE]]
    /\ key = [r \in Runners |-> [bound |-> {}, revoked |-> FALSE]]
    /\ boots = << >>
    /\ machine = [m \in Machines |-> [artifact |-> {}, key |-> {}, conn |-> FALSE, phase |-> "off", boot |-> 0]]
    /\ beats = {} /\ verified = {}

-----------------------------------------------------------------------------
(* Enrollment *)

NewRunner == [state |-> "live", desired |-> "ENABLED", observed |-> "PENDING", recent |-> FALSE]

\* enroll, enrollDurable, CreateEnrollment: one transaction; the runner is there,
\* also one that was enrolled before, its unused tokens go, the new one comes
CreateEnrollment(r, t) ==
    /\ token[t].state = "none"
    /\ runner[r].state # "archived"
    /\ runner' = IF Live(r) THEN runner ELSE [runner EXCEPT ![r] = NewRunner]
    /\ token' = [u \in Tokens |->
          IF u = t THEN [state |-> "unused", runner |-> {r}, valid |-> TRUE]
          ELSE IF token[u].state = "unused" /\ token[u].runner = {r}
          THEN [token[u] EXCEPT !.state = "gone"] ELSE token[u]]
    /\ UNCHANGED <<key, boots, machine, fleetWork>>

\* fifteen minutes
TokenExpires(t) ==
    /\ token[t].state = "unused" /\ token[t].valid
    /\ token' = [token EXCEPT ![t].valid = FALSE]
    /\ UNCHANGED <<runner, key, boots, machine, fleetWork>>

\* consumeEnrollment: one transaction on the locked token
ConsumeEnrollment(t, k) ==
    \E r \in token[t].runner :
        /\ token' = [token EXCEPT ![t].state = "used"]
        /\ key' = [key EXCEPT ![r] = [bound |-> {k}, revoked |-> FALSE]]
        /\ runner' = IF Live(r) THEN [runner EXCEPT ![r].observed = "PENDING", ![r].recent = FALSE] ELSE runner

\* An artifact is copied to a machine, also to one that has another or the same.
Download(m, t) ==
    /\ token[t].state # "none" /\ machine[m].phase = "off"
    /\ machine' = [machine EXCEPT ![m].artifact = {t}]
    /\ UNCHANGED <<fleetTables, boots, fleetWork>>

\* With the saved connection and a key for the artifact's runner there is no enrollment.
NeedsRunnerEnrollment(m) ==
    ~machine[m].conn \/ ~\E k \in machine[m].key, t \in machine[m].artifact : token[k.token].runner = token[t].runner

\* enrollWorkerIfNeeded: a new key pair is made and sent with the token; the
\* process ends when it is refused
SendEnrollment(m, t) ==
    LET k == [machine |-> m, token |-> t] IN
    /\ machine[m].phase = "off" /\ machine[m].artifact = {t}
    /\ NeedsRunnerEnrollment(m)
    /\ token[t].state = "unused" /\ token[t].valid
    /\ ConsumeEnrollment(t, k)
    /\ machine' = [machine EXCEPT ![m].phase = "sent"]
    /\ UNCHANGED <<boots, fleetWork>>

\* SaveSigningKey, then SaveConnection
SaveSigningKey(m, t) ==
    /\ machine[m].phase = "sent" /\ machine[m].artifact = {t}
    /\ machine' = [machine EXCEPT ![m].key = {[machine |-> m, token |-> t]}, ![m].phase = "enrolled"]
    /\ UNCHANGED <<fleetTables, boots, fleetWork>>

SaveConnection(m) ==
    /\ machine[m].phase = "enrolled"
    /\ machine' = [machine EXCEPT ![m].conn = TRUE, ![m].phase = "off"]
    /\ UNCHANGED <<fleetTables, boots, fleetWork>>

-----------------------------------------------------------------------------
(* The worker process *)

\* runWorkerProcess: a new boot id; the first heartbeat comes later
StartWorker(m) ==
    /\ machine[m].phase = "off" /\ ~NeedsRunnerEnrollment(m)
    /\ Len(boots) < MaxBoots
    /\ \E k \in machine[m].key, r \in Runners :
        /\ token[k.token].runner = {r}
        /\ boots' = Append(boots, [runner |-> r, key |-> k, machine |-> m, session |-> "none"])
    /\ machine' = [machine EXCEPT ![m].phase = "up", ![m].boot = Len(boots) + 1]
    /\ UNCHANGED <<fleetTables, fleetWork>>

\* at any moment, also before the answer to the enrollment is saved
StopWorker(m) ==
    /\ machine[m].phase # "off"
    /\ machine' = [machine EXCEPT ![m].phase = "off", ![m].boot = 0]
    /\ UNCHANGED <<fleetTables, boots, fleetWork>>

Beat(m) ==
    /\ machine[m].phase = "up"
    /\ machine[m].boot \notin beats
    /\ beats' = beats \cup {machine[m].boot}
    /\ UNCHANGED <<fleetTables, boots, machine, verified>>

-----------------------------------------------------------------------------
(* The heartbeat monitor: one message at a time *)

\* A heartbeat is acknowledged, refused as too old, or given up.
DropBeat(i) ==
    /\ i \in beats
    /\ beats' = beats \ {i}
    /\ UNCHANGED <<fleetTables, boots, machine, verified>>

\* recordRunnerHeartbeatForSubject: the signature is checked with the stored key
VerifyBeat(i) ==
    /\ i \in beats /\ verified = {}
    /\ Bound(boots[i].runner, boots[i].key)
    /\ verified' = {i}
    /\ UNCHANGED <<fleetTables, boots, machine, beats>>

StillBoundUnchecked(r, k) == Live(r)

\* the key is looked up again by the transaction that holds the runner's row
StillBound(r, k) == Live(r) /\ Bound(r, k)

\* heartbeatWithKeyAndCapacity: the runner's other boots are disconnected and
\* this one is connected, or nothing happens
RecordBeat(i) ==
    LET r == boots[i].runner
        session(j) == IF j = i THEN "fresh"
                      ELSE IF boots[j].runner = r /\ Connected(j) THEN "disconnected"
                      ELSE boots[j].session IN
    /\ i \in verified
    /\ verified' = {}
    /\ IF StillBound(r, boots[i].key)
       THEN /\ Sessions(session)
            /\ SetRunner(r, IF runner[r].observed = "REVOKED" THEN runner[r]
                            ELSE [runner[r] EXCEPT !.observed = "ONLINE", !.recent = TRUE])
       ELSE UNCHANGED <<boots, runner>>
    /\ UNCHANGED <<token, key, machine, beats>>

\* thirty seconds without a heartbeat of the runner
Silence(r) ==
    /\ \E i \in BootsOf(r) : boots[i].session = "fresh"
    /\ Sessions(LAMBDA i : IF boots[i].runner = r /\ boots[i].session = "fresh" THEN "old" ELSE boots[i].session)
    /\ SetRunner(r, [runner[r] EXCEPT !.recent = FALSE])
    /\ UNCHANGED <<token, key, machine, fleetWork>>

MarkStale ==
    /\ runner' = [r \in Runners |->
          IF runner[r].observed = "ONLINE" /\ (~runner[r].recent \/ ~\E i \in BootsOf(r) : Connected(i))
          THEN [runner[r] EXCEPT !.observed = "OFFLINE"] ELSE runner[r]]
    /\ runner' # runner
    /\ UNCHANGED <<token, key, boots, machine, fleetWork>>

-----------------------------------------------------------------------------
(* Administration *)

\* enable and reset
Enable(row) == [row EXCEPT !.desired = "ENABLED", !.observed = "OFFLINE"]

SetDesiredState(r, state) ==
    /\ Live(r)
    /\ SetRunner(r, CASE state = "REVOKED" -> [runner[r] EXCEPT !.desired = "DISABLED", !.observed = "REVOKED"]
                      [] state = "ENABLED" -> Enable(runner[r])
                      [] OTHER -> [runner[r] EXCEPT !.desired = state])
    /\ UNCHANGED <<token, key, boots, machine, fleetWork>>

\* DELETE of the runner's unused enrollments
ArchiveToken(t, r) ==
    IF token[t].state = "unused" /\ token[t].runner = {r} THEN [token[t] EXCEPT !.state = "gone"] ELSE token[t]

Archive(r) ==
    /\ Live(r)
    /\ SetRunner(r, [runner[r] EXCEPT !.state = "archived", !.desired = "DISABLED", !.observed = "OFFLINE"])
    /\ Sessions(LAMBDA i : IF boots[i].runner = r /\ Connected(i) THEN "disconnected" ELSE boots[i].session)
    /\ key' = [key EXCEPT ![r].revoked = @ \/ key[r].bound # {}]
    /\ token' = [t \in Tokens |-> ArchiveToken(t, r)]
    /\ UNCHANGED <<machine, fleetWork>>

-----------------------------------------------------------------------------

NextFleet ==
    \/ \E r \in Runners, t \in Tokens : CreateEnrollment(r, t)
    \/ \E t \in Tokens : TokenExpires(t)
    \/ \E m \in Machines, t \in Tokens : Download(m, t) \/ SendEnrollment(m, t) \/ SaveSigningKey(m, t)
    \/ \E m \in Machines : SaveConnection(m) \/ StartWorker(m) \/ StopWorker(m) \/ Beat(m)
    \/ \E i \in DOMAIN boots : DropBeat(i) \/ VerifyBeat(i) \/ RecordBeat(i)
    \/ \E r \in Runners : Silence(r) \/ Archive(r)
    \/ \E r \in Runners, state \in Desired \cup {"REVOKED"} : SetDesiredState(r, state)
    \/ MarkStale

SpecFleet == InitFleet /\ [][NextFleet]_fleetVars

-----------------------------------------------------------------------------
(* Properties *)

\* Every table and every worker's local state has its type.
FleetTypeOK ==
    /\ runner \in [Runners -> RunnerRow]
    /\ token \in [Tokens -> TokenRow]
    /\ key \in [Runners -> KeyRow]
    /\ boots \in Seq(BootRow)
    /\ machine \in [Machines -> MachineRow]
    /\ beats \subseteq DOMAIN boots /\ verified \subseteq DOMAIN boots

\* A runner shown as ONLINE is served by exactly one connected worker start,
\* and that one signs with the key the runner is bound to now: not one that a
\* new enrollment replaced, whatever heartbeats were verified before it.
OnlineIsCurrent ==
    \A r \in Runners : runner[r].observed = "ONLINE" =>
        /\ Live(r)
        /\ \E i \in BootsOf(r) : /\ Connected(i) /\ Bound(r, boots[i].key)
                                 /\ \A j \in BootsOf(r) : Connected(j) => j = i

\* "Archiving disconnects the runner, revokes its keys and unused enrollments":
\* nothing that was under way, a heartbeat already verified, an enrollment
\* request or a token already on a machine, brings any of it back.
ArchivedIsFinal ==
    \A r \in Runners : runner[r].state = "archived" =>
        /\ runner[r].desired = "DISABLED" /\ runner[r].observed = "OFFLINE"
        /\ \A k \in Key : ~Bound(r, k)
        /\ \A i \in BootsOf(r) : ~Connected(i)
        /\ \A t \in Tokens : token[t].runner = {r} => token[t].state # "unused"

\* "marked revoked and should not receive work until it is reset/re-enabled":
\* no sequence of administration, enrollment and heartbeats leaves a REVOKED
\* runner eligible for placement.
RevokedNotEligible ==
    \A r \in Runners : runner[r].observed = "REVOKED" => runner[r].desired # "ENABLED"

\* A worker start is connected only while its key is the runner's: one whose
\* key was replaced or revoked is never connected again.
OnlyBoundConnects ==
    [][\A i \in DOMAIN boots' :
         (boots'[i].session = "fresh" /\ (i \notin DOMAIN boots \/ boots[i].session # "fresh"))
            => Bound(boots[i].runner, boots[i].key)]_fleetVars

\* Only the key a runner is bound to speaks for it, and neither an archived nor
\* a revoked runner comes back by what was under way.
KeysDecide == [](OnlineIsCurrent /\ ArchivedIsFinal /\ RevokedNotEligible) /\ OnlyBoundConnects
=============================================================================
