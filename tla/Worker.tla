------------------------------- MODULE Worker -------------------------------
(***************************************************************************)
(* One worker process and its local SQLite store: the order inbox, the     *)
(* event outbox and the saved boot id (backend/internal/worker/store.go),  *)
(* the order handlers (worker/runtime.go) and start-up recovery            *)
(* (cmd/worker/run.go).                                                    *)
(*                                                                         *)
(* A handler is a delivery d of the execute message of an order; it runs   *)
(* the steps of handleExecution one durable write at a time, and the       *)
(* process can die between any two of them.  JetStream redelivers a        *)
(* message that was not acknowledged, also while an earlier handler still  *)
(* runs (its keep-alive was lost).  A worker that is asked to stop closes  *)
(* its connection and waits for its handlers, whose processes its context  *)
(* cancels.  The control plane is the environment: it grants, refuses or   *)
(* fails to answer a start claim, and may send a cancel order at any time. *)
(***************************************************************************)
EXTENDS Integers, FiniteSets

CONSTANTS
    Orders,        \* execution attempts sent to this runner
    Capacity,      \* order slots, shared by execute and cancel messages
    MaxDeliver,    \* deliveries of a message, 5
    MaxBoots,      \* bound: process starts
    StoreMayFail   \* whether writes to the local store may fail

ASSUME WorkerAssumption ==
    /\ IsFiniteSet(Orders)
    /\ Capacity \in Nat \ {0}
    /\ MaxDeliver \in Nat \ {0}
    /\ MaxBoots \in Nat \ {0}
    /\ StoreMayFail \in BOOLEAN

VARIABLES
    mode,       \* the process: "down" (crashed), "up", "stopping", "stopped"
    boot,       \* boot id of the current or last process
    savedBoot,  \* messages row "worker.boot", 0: none
    inbox,      \* order_inbox
    outbox,     \* event_outbox, state channel
    sent,       \* events that reached the stream
    msg,        \* the execute message: deliveries used and acknowledged
    cancel,     \* the cancel message
    pc,         \* the next step of each delivery's handler
    exit,       \* how the order's process ended
    active,     \* ActiveOrders: orders whose process can be stopped
    cancelled,  \* active orders whose cancelled flag is set
    starts      \* processes started for the order (history)

durable == <<savedBoot, inbox, outbox, sent>>
vars == <<mode, boot, savedBoot, inbox, outbox, sent, msg, cancel, pc, exit, active, cancelled, starts>>

-----------------------------------------------------------------------------
(* Rows *)

OpenStates == {"CLAIMED", "RUNNING"}
ClosedStates == {"COMPLETED", "FAILED", "CANCELLED", "UNKNOWN"}
ExitKinds == {"completed", "failed", "timed_out"}
OutcomeKinds == ExitKinds \cup {"cancelled", "unknown"}

InboxRow == [state : {"NONE", "RECEIVED"} \cup OpenStates \cup ClosedStates, boot : 0..MaxBoots]
Event == [order : Orders, kind : {"accepted", "started"} \cup OutcomeKinds, seq : 1..4]
OutboxRow == [event : Event, state : {"PENDING", "PUBLISHED"}]
Steps == {"idle", "claim", "accept", "take", "accepted", "mark", "started", "register", "run", "report", "close"}
Deliveries == 1..MaxDeliver

EventsOf(o) == {e.event : e \in {e \in outbox : e.event.order = o}}
PutEvent(o, kind, seq) ==
    outbox' = IF \E e \in outbox : e.event.order = o /\ e.event.kind = kind
              THEN outbox
              ELSE outbox \cup {[event |-> [order |-> o, kind |-> kind, seq |-> seq], state |-> "PENDING"]}

\* orderSlots: every handler under way holds one
Busy == {h \in Orders \X Deliveries : pc[h[1]][h[2]] # "idle"}
SlotFree == Cardinality(Busy) < Capacity

Init ==
    /\ mode = "down" /\ boot = 0 /\ savedBoot = 0
    /\ inbox = [o \in Orders |-> [state |-> "NONE", boot |-> 0]]
    /\ outbox = {} /\ sent = {}
    /\ msg = [o \in Orders |-> [used |-> 0, acked |-> FALSE]]
    /\ cancel = [o \in Orders |-> "none"]
    /\ pc = [o \in Orders |-> [d \in Deliveries |-> "idle"]]
    /\ exit = [o \in Orders |-> "none"]
    /\ active = {} /\ cancelled = {}
    /\ starts = [o \in Orders |-> 0]

-----------------------------------------------------------------------------
(* Messages *)

\* A delivery, or a redelivery after a Nak, a restart or a lost keep-alive.
Deliver(o) ==
    /\ mode = "up" /\ SlotFree
    /\ ~msg[o].acked /\ msg[o].used < MaxDeliver
    /\ msg' = [msg EXCEPT ![o].used = @ + 1]
    /\ pc' = [pc EXCEPT ![o][msg[o].used + 1] = "claim"]
    /\ UNCHANGED <<mode, boot, cancel, exit, active, cancelled, starts, durable>>

\* The handler returns nil and the message is acknowledged, unless the
\* connection is closed.
Return(o, d) ==
    /\ pc' = [pc EXCEPT ![o][d] = "idle"]
    /\ msg' = [msg EXCEPT ![o].acked = @ \/ mode = "up"]

\* The handler returns an error: Nak, or a dead letter after the last delivery.
Fail(o, d) ==
    /\ pc' = [pc EXCEPT ![o][d] = "idle"]
    /\ msg' = [msg EXCEPT ![o].acked = @ \/ (mode = "up" /\ d = MaxDeliver)]

SendCancel(o) ==
    /\ cancel[o] = "none"
    /\ cancel' = [cancel EXCEPT ![o] = "queued"]
    /\ UNCHANGED <<mode, boot, msg, pc, exit, active, cancelled, starts, durable>>

TakeCancelIfActive(o) ==
    /\ mode = "up" /\ SlotFree
    /\ cancel[o] = "queued" /\ o \in active
    /\ cancel' = [cancel EXCEPT ![o] = "handled"]
    /\ cancelled' = cancelled \cup {o}
    /\ UNCHANGED <<mode, boot, msg, pc, exit, active, starts, durable>>

\* The cancel order stops a registered process; otherwise it is acknowledged
\* all the same.
TakeCancel(o) ==
    /\ mode = "up" /\ SlotFree
    /\ cancel[o] = "queued"
    /\ cancel' = [cancel EXCEPT ![o] = "handled"]
    /\ cancelled' = IF o \in active THEN cancelled \cup {o} ELSE cancelled
    /\ UNCHANGED <<mode, boot, msg, pc, exit, active, starts, durable>>

\* A cancel order past its expiry is refused until it is a dead letter.
ExpireCancel(o) ==
    /\ mode = "up" /\ SlotFree
    /\ cancel[o] = "queued"
    /\ cancel' = [cancel EXCEPT ![o] = "expired"]
    /\ UNCHANGED <<mode, boot, msg, pc, exit, active, cancelled, starts, durable>>

-----------------------------------------------------------------------------
(* The handler of an execute order *)

Running == mode \in {"up", "stopping"}
At(o, d, step) == Running /\ pc[o][d] = step
Goto(o, d, step) == pc' = [pc EXCEPT ![o][d] = step]

\* The order is verified, secrets are fetched and the start is claimed; a
\* refusal drops the order, any other failure is retried.
StartReply(o, d, reply) ==
    /\ At(o, d, "claim")
    /\ mode = "stopping" => reply = "unavailable"
    /\ CASE reply = "granted"     -> Goto(o, d, "accept") /\ UNCHANGED msg
         [] reply = "rejected"    -> Return(o, d)
         [] reply = "unavailable" -> Fail(o, d)
    /\ UNCHANGED <<mode, boot, cancel, exit, active, cancelled, starts, durable>>

AcceptOrder(o, d) ==
    /\ At(o, d, "accept")
    /\ inbox' = [inbox EXCEPT ![o] = IF @.state = "NONE" THEN [state |-> "RECEIVED", boot |-> 0] ELSE @]
    /\ Goto(o, d, "take")
    /\ UNCHANGED <<mode, boot, savedBoot, outbox, sent, msg, cancel, exit, active, cancelled, starts>>

ClaimOrderAgain(o, d) ==
    /\ At(o, d, "take")
    /\ IF inbox[o].state \in {"RECEIVED"} \cup OpenStates
         THEN /\ inbox' = [inbox EXCEPT ![o] = [state |-> "CLAIMED", boot |-> boot]]
              /\ Goto(o, d, "accepted") /\ UNCHANGED msg
         ELSE Return(o, d) /\ UNCHANGED inbox
    /\ UNCHANGED <<mode, boot, savedBoot, outbox, sent, cancel, exit, active, cancelled, starts>>

\* Only one handler, in one boot, gets the order; the others return.
ClaimOrder(o, d) ==
    /\ At(o, d, "take")
    /\ IF inbox[o].state = "RECEIVED"
         THEN /\ inbox' = [inbox EXCEPT ![o] = [state |-> "CLAIMED", boot |-> boot]]
              /\ Goto(o, d, "accepted") /\ UNCHANGED msg
         ELSE Return(o, d) /\ UNCHANGED inbox
    /\ UNCHANGED <<mode, boot, savedBoot, outbox, sent, cancel, exit, active, cancelled, starts>>

\* The claim's write fails: the handler takes that for a duplicate and returns nil.
ClaimOrderFails(o, d) ==
    /\ StoreMayFail
    /\ At(o, d, "take")
    /\ Return(o, d)
    /\ UNCHANGED <<mode, boot, cancel, exit, active, cancelled, starts, durable>>

PersistAccepted(o, d) ==
    /\ At(o, d, "accepted")
    /\ PutEvent(o, "accepted", 1)
    /\ Goto(o, d, "mark")
    /\ UNCHANGED <<mode, boot, savedBoot, inbox, sent, msg, cancel, exit, active, cancelled, starts>>

MarkProcessStarted(o, d) ==
    /\ At(o, d, "mark")
    /\ inbox' = [inbox EXCEPT ![o].state = IF @ = "CLAIMED" THEN "RUNNING" ELSE @]
    /\ Goto(o, d, "started")
    /\ UNCHANGED <<mode, boot, savedBoot, outbox, sent, msg, cancel, exit, active, cancelled, starts>>

PersistStarted(o, d) ==
    /\ At(o, d, "started")
    /\ PutEvent(o, "started", 2)
    /\ Goto(o, d, "register")
    /\ UNCHANGED <<mode, boot, savedBoot, inbox, sent, msg, cancel, exit, active, cancelled, starts>>

\* Active.put, then the executor starts the process
StartProcess(o, d) ==
    /\ At(o, d, "register")
    /\ active' = active \cup {o}
    /\ starts' = [starts EXCEPT ![o] = @ + 1]
    /\ Goto(o, d, "run")
    /\ UNCHANGED <<mode, boot, msg, cancel, exit, cancelled, durable>>

ProcessExits(o, d, kind) ==
    /\ At(o, d, "run")
    /\ exit' = [exit EXCEPT ![o] = kind]
    /\ Goto(o, d, "report")
    /\ UNCHANGED <<mode, boot, msg, cancel, active, cancelled, starts, durable>>

terminalEventType(o) == IF o \in cancelled THEN "cancelled" ELSE exit[o]
terminalState(o) ==
    IF o \in cancelled THEN "CANCELLED"
    ELSE IF exit[o] = "completed" THEN "COMPLETED" ELSE "FAILED"

PersistTerminalBestEffort(o, d) ==
    /\ At(o, d, "report")
    /\ PutEvent(o, terminalEventType(o), 3) \/ UNCHANGED outbox
    /\ Goto(o, d, "close")
    /\ UNCHANGED <<mode, boot, savedBoot, inbox, sent, msg, cancel, exit, active, cancelled, starts>>

PersistTerminal(o, d) ==
    /\ At(o, d, "report")
    /\ PutEvent(o, terminalEventType(o), 3)
    /\ Goto(o, d, "close")
    /\ UNCHANGED <<mode, boot, savedBoot, inbox, sent, msg, cancel, exit, active, cancelled, starts>>

FinishOrder(o, d) ==
    /\ At(o, d, "close")
    /\ inbox' = [inbox EXCEPT ![o].state = IF @ \in OpenStates THEN terminalState(o) ELSE @]
    /\ active' = active \ {o} /\ cancelled' = cancelled \ {o}
    /\ Return(o, d)
    /\ UNCHANGED <<mode, boot, savedBoot, outbox, sent, cancel, exit, starts>>

\* A write to the local store fails: the handler returns the error, and its
\* deferred calls remove the active entry.
StoreFails(o, d) ==
    /\ StoreMayFail /\ Running
    /\ pc[o][d] \in {"accept", "accepted", "mark", "started", "report", "close"}
    /\ Fail(o, d)
    /\ active' = IF pc[o][d] \in {"report", "close"} THEN active \ {o} ELSE active
    /\ cancelled' = IF pc[o][d] \in {"report", "close"} THEN cancelled \ {o} ELSE cancelled
    /\ UNCHANGED <<mode, boot, cancel, exit, starts, durable>>

-----------------------------------------------------------------------------
(* Publishing, restarts *)

Oldest(o, e) == \A f \in outbox : f.event.order = o /\ f.state = "PENDING" => e.event.seq <= f.event.seq

\* PublishPendingEvents works in creation order and stops at an error.  A crash
\* between Publish and MarkEventPublished publishes the event again, which the
\* set sent does not see.
Publish(o) ==
    \E e \in outbox :
        /\ mode = "up"
        /\ e.event.order = o /\ e.state = "PENDING" /\ Oldest(o, e)
        /\ outbox' = (outbox \ {e}) \cup {[e EXCEPT !.state = "PUBLISHED"]}
        /\ sent' = sent \cup {e.event}
        /\ UNCHANGED <<mode, boot, savedBoot, inbox, msg, cancel, pc, exit, active, cancelled, starts>>

CompactAllPublished(o) ==
    \E e \in outbox :
        /\ mode = "up"
        /\ e.event.order = o /\ e.state = "PUBLISHED"
        /\ outbox' = outbox \ {e}
        /\ UNCHANGED <<mode, boot, savedBoot, inbox, sent, msg, cancel, pc, exit, active, cancelled, starts>>

\* Published events go after a day, the newest of an order excepted.
CompactPublishedEvents(o) ==
    \E e \in outbox :
        /\ mode = "up"
        /\ e.event.order = o /\ e.state = "PUBLISHED"
        /\ \E f \in EventsOf(o) : f.seq > e.event.seq
        /\ outbox' = outbox \ {e}
        /\ UNCHANGED <<mode, boot, savedBoot, inbox, sent, msg, cancel, pc, exit, active, cancelled, starts>>

\* The process dies, also while it is stopping; not in the last boot (bound).
Crash ==
    /\ Running /\ boot < MaxBoots
    /\ mode' = "down"
    /\ pc' = [o \in Orders |-> [d \in Deliveries |-> "idle"]]
    /\ active' = {} /\ cancelled' = {}
    /\ UNCHANGED <<boot, msg, cancel, exit, starts, durable>>

\* The worker is asked to stop: its context and its connection are closed ...
Stop ==
    /\ mode = "up" /\ boot < MaxBoots
    /\ mode' = "stopping"
    /\ UNCHANGED <<boot, msg, cancel, pc, exit, active, cancelled, starts, durable>>

StoppedAtOnce ==
    /\ mode = "stopping"
    /\ mode' = "stopped"
    /\ pc' = [o \in Orders |-> [d \in Deliveries |-> "idle"]]
    /\ active' = {} /\ cancelled' = {}
    /\ UNCHANGED <<boot, msg, cancel, exit, starts, durable>>

\* ... and it exits once its handlers have returned.
Stopped ==
    /\ mode = "stopping" /\ Busy = {}
    /\ mode' = "stopped"
    /\ UNCHANGED <<boot, msg, cancel, pc, exit, active, cancelled, starts, durable>>

NextSequenceSkips(o) ==
    IF EventsOf(o) = {} THEN 1
    ELSE (CHOOSE n \in 1..4 : /\ \E e \in EventsOf(o) : e.seq = n
                              /\ \A e \in EventsOf(o) : e.seq <= n) + 2

\* COALESCE(MAX(channel_sequence), 0) + 1
NextSequence(o) ==
    IF EventsOf(o) = {} THEN 1
    ELSE (CHOOSE n \in 1..4 : /\ \E e \in EventsOf(o) : e.seq = n
                              /\ \A e \in EventsOf(o) : e.seq <= n) + 1

LostClaimedOnly == {o \in Orders : inbox[o].boot = savedBoot /\ inbox[o].state = "CLAIMED"}

\* Orders the saved boot left open
Lost == {o \in Orders : inbox[o].boot = savedBoot /\ inbox[o].state \in OpenStates}

\* RecoverOrdersSigned for the saved boot id, then the new id is saved, unless
\* there is one already (Put: ON CONFLICT DO NOTHING).
Boot ==
    LET lost == IF savedBoot = 0 THEN {} ELSE Lost IN
    /\ ~Running /\ boot < MaxBoots
    /\ mode' = "up"
    /\ boot' = boot + 1
    /\ savedBoot' = IF savedBoot = 0 THEN boot + 1 ELSE savedBoot
    /\ inbox' = [o \in Orders |-> IF o \in lost THEN [inbox[o] EXCEPT !.state = "UNKNOWN"] ELSE inbox[o]]
    /\ outbox' = outbox \cup
         {[event |-> [order |-> o, kind |-> "unknown", seq |-> NextSequence(o)], state |-> "PENDING"] : o \in lost}
    /\ UNCHANGED <<sent, msg, cancel, pc, exit, active, cancelled, starts>>

-----------------------------------------------------------------------------

Replies == {"granted", "rejected", "unavailable"}

HandlerStep(o, d) ==
    \/ AcceptOrder(o, d)
    \/ ClaimOrder(o, d)
    \/ PersistAccepted(o, d)
    \/ MarkProcessStarted(o, d)
    \/ PersistStarted(o, d)
    \/ StartProcess(o, d)
    \/ \E kind \in ExitKinds : ProcessExits(o, d, kind)
    \/ PersistTerminal(o, d)
    \/ FinishOrder(o, d)

Next ==
    \/ Boot
    \/ Crash
    \/ Stop
    \/ Stopped
    \/ \E o \in Orders :
        \/ Deliver(o)
        \/ SendCancel(o)
        \/ TakeCancel(o)
        \/ ExpireCancel(o)
        \/ Publish(o)
        \/ CompactPublishedEvents(o)
        \/ \E d \in Deliveries :
            \/ \E reply \in Replies : StartReply(o, d, reply)
            \/ HandlerStep(o, d)
            \/ ClaimOrderFails(o, d)
            \/ StoreFails(o, d)

Spec == Init /\ [][Next]_vars

\* A worker that is down is started again; handlers run on, the executor's
\* timeout ends every process; the publisher and the consumer loops retry.
Fairness ==
    /\ WF_vars(Boot)
    /\ WF_vars(Stopped)
    /\ \A o \in Orders :
         /\ WF_vars(Publish(o))
         /\ SF_vars(TakeCancel(o))
         /\ \A d \in Deliveries :
              /\ WF_vars(\E reply \in Replies : StartReply(o, d, reply))
              /\ WF_vars(HandlerStep(o, d))

FairSpec == Spec /\ Fairness

-----------------------------------------------------------------------------
(* Properties *)

\* Every variable has its type.
TypeOK ==
    /\ mode \in {"down", "up", "stopping", "stopped"} /\ boot \in 0..MaxBoots /\ savedBoot \in 0..MaxBoots
    /\ inbox \in [Orders -> InboxRow]
    /\ outbox \subseteq OutboxRow
    /\ sent \subseteq Event
    /\ msg \in [Orders -> [used : 0..MaxDeliver, acked : BOOLEAN]]
    /\ cancel \in [Orders -> {"none", "queued", "handled", "expired"}]
    /\ pc \in [Orders -> [Deliveries -> Steps]]
    /\ exit \in [Orders -> ExitKinds \cup {"none"}]
    /\ cancelled \subseteq active /\ active \subseteq Orders
    /\ starts \in [Orders -> Nat]

\* However often an order is delivered and the worker restarted, its process
\* is started at most once: the inbox row is claimed only once.
ExecutedOnce == \A o \in Orders : starts[o] <= 1

AllEvents == sent \cup {e.event : e \in outbox}

\* The control plane applies events by sequence number: no two events of an
\* order share one, and the unknown event of a restart comes after everything
\* the earlier boot recorded, compaction of the outbox notwithstanding.
SequencesFresh ==
    \A e, f \in AllEvents : e.order = f.order /\ e # f =>
        /\ e.seq # f.seq
        /\ e.kind = "unknown" => f.seq < e.seq

\* An order closed in the inbox has its outcome in the outbox or in the
\* stream, so a crash cannot lose the outcome of a finished process.
ClosedIsReported ==
    \A o \in Orders : inbox[o].state \in ClosedStates =>
        \E e \in AllEvents : e.order = o /\ e.kind \in OutcomeKinds

\* After a restart no order of the saved boot is left open.
SavedBootRecovered ==
    Running /\ boot # savedBoot => \A o \in Orders : inbox[o].boot = savedBoot => inbox[o].state \notin OpenStates

\* A worker that stops in order leaves no order open: its processes are ended
\* and their outcome is in the outbox before it exits.
CleanStop ==
    mode = "stopped" => \A o \in Orders : inbox[o].boot = boot => inbox[o].state \notin OpenStates

Orphaned(o) == Running /\ inbox[o].state \in OpenStates /\ inbox[o].boot # boot

\* "A worker can therefore recover its durable state after a process, network,
\* or queue interruption": once the worker is up again, no order claimed by an
\* earlier process is left open.
NoOrphans == \A o \in Orders : ~Orphaned(o)

\* Outcome of an order: its process ended, or a restart gave it up.
OutcomeSent ==
    \A o \in Orders :
        inbox[o].state \in OpenStates ~> \E e \in sent : e.order = o /\ e.kind \in OutcomeKinds

\* A cancel order gets its slot in the end, although executions hold the slots
\* it needs, and is not redelivered for ever when it finds nothing to stop.
CancelHandled == \A o \in Orders : cancel[o] = "queued" ~> cancel[o] # "queued"
=============================================================================
