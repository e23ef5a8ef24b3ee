---------------------------- MODULE WorkerProofs ----------------------------
(***************************************************************************)
(* Proofs about Worker, for any orders, slots, deliveries and restarts.    *)
(***************************************************************************)
EXTENDS Worker, TLAPS

-----------------------------------------------------------------------------
(* The inductive invariant *)

BeforeStart == {"accepted", "mark", "started", "register"}
AfterStart == {"run", "report", "close"}

\* the handler that claimed the order
Owner(o, d) == pc[o][d] \in BeforeStart \cup AfterStart

\* A claimed order has at most one handler, and that handler's process is the
\* current one; a process is counted once its handler has passed StartProcess.
Handlers ==
    /\ ~Running => \A o \in Orders : \A d \in Deliveries : pc[o][d] = "idle"
    /\ \A o \in Orders :
        /\ starts[o] \in {0, 1}
        /\ inbox[o].state \in {"NONE", "RECEIVED"} => starts[o] = 0
        /\ \A d \in Deliveries :
            /\ Owner(o, d) => inbox[o].state \in OpenStates /\ inbox[o].boot = boot
            /\ pc[o][d] \in BeforeStart => starts[o] = 0
            /\ pc[o][d] \in {"report", "close"} => exit[o] \in ExitKinds
            /\ \A c \in Deliveries : Owner(o, c) /\ Owner(o, d) => c = d

\* Boot ids only grow, and the saved one is recovered by every later process.
Boots ==
    /\ savedBoot <= boot
    /\ Running => savedBoot > 0
    /\ \A o \in Orders : inbox[o].boot <= boot
    /\ SavedBootRecovered

Outcome(o) == \E e \in AllEvents : e.order = o /\ e.kind \in OutcomeKinds

\* Which event can have which sequence number, and when.
Numbered(e) ==
    /\ inbox[e.order].state \notin {"NONE", "RECEIVED"}
    /\ e.kind = "accepted" => e.seq = 1
    /\ e.kind = "started" => e.seq = 2
    /\ e.kind \in ExitKinds \cup {"cancelled"} => e.seq = 3
    /\ e.kind = "unknown" => inbox[e.order].state = "UNKNOWN"

\* The outbox keeps the newest event of an order and every event not yet sent.
Books ==
    /\ \A e \in AllEvents : Numbered(e)
    /\ \A e \in outbox : e.state = "PUBLISHED" => e.event \in sent
    /\ \A e \in sent : \E f \in outbox : f.event.order = e.order /\ f.event.seq >= e.seq
    /\ \A o \in Orders : \A d \in Deliveries :
        /\ Owner(o, d) /\ pc[o][d] # "close" => ~Outcome(o)
        /\ pc[o][d] = "close" => Outcome(o)

Inv == TypeOK /\ Handlers /\ Boots /\ Books /\ SequencesFresh /\ ClosedIsReported

-----------------------------------------------------------------------------
(* Types *)

\* Recording an event keeps the outbox's type, adds the event if none of its
\* kind is there, and nothing else.
LEMMA PutEventType ==
    ASSUME TypeOK, NEW o \in Orders, NEW kind \in {"accepted", "started"} \cup OutcomeKinds,
           NEW seq \in 1..4, PutEvent(o, kind, seq)
    PROVE  outbox' \subseteq OutboxRow
<1>1. [event |-> [order |-> o, kind |-> kind, seq |-> seq], state |-> "PENDING"] \in OutboxRow
  BY DEF OutboxRow, Event
<1> QED
  BY <1>1 DEF PutEvent, TypeOK

\* MAX(channel_sequence) + 1 is above every event of the order in the outbox,
\* and within the range when none of them is the last number.
LEMMA NextSequenceAbove ==
    ASSUME TypeOK, NEW o \in Orders, \A e \in EventsOf(o) : e.seq < 4
    PROVE  /\ NextSequence(o) \in 1..4
           /\ \A e \in EventsOf(o) : e.seq < NextSequence(o)
<1>1. \A e \in EventsOf(o) : e.seq \in 1..3
  BY DEF EventsOf, TypeOK, OutboxRow, Event
<1>2. CASE EventsOf(o) = {}
  BY <1>2 DEF NextSequence
<1>3. CASE EventsOf(o) # {}
  <2> DEFINE Top(n) == (\E e \in EventsOf(o) : e.seq = n) /\ \A e \in EventsOf(o) : e.seq <= n
  <2>1. \E n \in 1..3 : Top(n)
    <3>1. CASE \E e \in EventsOf(o) : e.seq = 3
      BY <3>1, <1>1
    <3>2. CASE (\A e \in EventsOf(o) : e.seq # 3) /\ \E e \in EventsOf(o) : e.seq = 2
      BY <3>2, <1>1
    <3>3. CASE \A e \in EventsOf(o) : e.seq # 3 /\ e.seq # 2
      BY <3>3, <1>1, <1>3
    <3> QED BY <3>1, <3>2, <3>3
  <2>2. \E n \in 1..4 : Top(n)
    BY <2>1
  <2> DEFINE n == CHOOSE m \in 1..4 : Top(m)
  <2>3. n \in 1..4 /\ Top(n)
    BY <2>2
  <2>4. n \in 1..3
    BY <2>3, <1>1
  <2>5. NextSequence(o) = n + 1
    BY <1>3 DEF NextSequence
  <2> HIDE DEF n
  <2> QED BY <2>3, <2>4, <2>5, <1>1
<1> QED BY <1>2, <1>3

\* An order that recovery finds open has events 1 to 3 only.
LEMMA OpenBelowLast ==
    ASSUME TypeOK, Books, NEW o \in Orders, inbox[o].state # "UNKNOWN"
    PROVE  \A e \in EventsOf(o) : e.seq < 4
<1>1. \A e \in EventsOf(o) : e \in AllEvents /\ e.order = o /\ e \in Event
  BY DEF EventsOf, AllEvents, TypeOK, OutboxRow
<1> QED
  BY <1>1 DEF Books, Numbered, Event, OutcomeKinds

-----------------------------------------------------------------------------
(* Steps that record no event *)

\* What such a step may do to the inbox and the handlers without disturbing
\* what the invariant says of the events.
EventsKept ==
    /\ outbox' = outbox /\ sent' = sent
    /\ \A o \in Orders :
        /\ inbox[o].state = "UNKNOWN" => inbox'[o].state = "UNKNOWN"
        /\ inbox'[o].state \in {"NONE", "RECEIVED"} => inbox[o].state \in {"NONE", "RECEIVED"}
        /\ inbox'[o].state \in ClosedStates => inbox[o].state \in ClosedStates \/ Outcome(o)
        /\ \A d \in Deliveries :
            /\ Owner(o, d)' /\ pc'[o][d] # "close" => ~Outcome(o)
            /\ pc'[o][d] = "close" => Outcome(o)

\* Without a new event the books on events stay as they are.
LEMMA EventsQuiet ==
    ASSUME Inv, EventsKept
    PROVE  Books' /\ SequencesFresh' /\ ClosedIsReported'
<1>1. AllEvents' = AllEvents
  BY DEF EventsKept, AllEvents
<1>2. \A e \in AllEvents : e.order \in Orders
  BY DEF Inv, TypeOK, AllEvents, OutboxRow, Event
<1>3. \A o \in Orders : Outcome(o)' <=> Outcome(o)
  BY <1>1 DEF Outcome
<1>4. \A e \in AllEvents' : Numbered(e)'
  BY <1>1, <1>2 DEF Inv, Books, Numbered, EventsKept
<1>5. Books'
  BY <1>3, <1>4 DEF Inv, Books, EventsKept
<1>6. SequencesFresh'
  BY <1>1 DEF Inv, SequencesFresh
<1>7. ClosedIsReported'
  BY <1>1 DEF Inv, ClosedIsReported, EventsKept, Outcome
<1> QED BY <1>5, <1>6, <1>7

\* A handler that moves on, or begins or ends, without touching the inbox.
HandlerMoves(o, d, steps) ==
    /\ UNCHANGED <<mode, boot, durable>>
    /\ Running
    /\ \E step \in steps : pc' = [pc EXCEPT ![o][d] = step]

\* A handler that moves to a step before it owns the order, or ends, leaves the
\* books alone.
LEMMA Moves ==
    ASSUME Inv, NEW o \in Orders, NEW d \in Deliveries,
           HandlerMoves(o, d, {"idle", "claim", "accept", "take"}),
           UNCHANGED <<exit, starts>>
    PROVE  Handlers' /\ Boots' /\ Books' /\ SequencesFresh' /\ ClosedIsReported'
<1>1. PICK step \in {"idle", "claim", "accept", "take"} : pc' = [pc EXCEPT ![o][d] = step]
  BY DEF HandlerMoves
<1>2. \A q \in Orders : \A c \in Deliveries : Owner(q, c)' => Owner(q, c) /\ pc'[q][c] = pc[q][c]
  BY <1>1 DEF Inv, TypeOK, Owner, BeforeStart, AfterStart
<1>3. Handlers'
  BY <1>2 DEF Inv, Handlers, HandlerMoves, durable, Running, Owner, BeforeStart, AfterStart
<1>4. Boots'
  BY DEF Inv, Boots, SavedBootRecovered, HandlerMoves, durable, Running
<1>5. EventsKept
  BY <1>2 DEF Inv, Books, EventsKept, HandlerMoves, durable, Owner, AfterStart
<1> QED BY <1>3, <1>4, <1>5, EventsQuiet

\* A handler whose order is in flight moves to the next of its steps and may
\* do to its own inbox row what keeps it open.
OwnerMoves(o, d, from, to) ==
    /\ Running /\ UNCHANGED <<mode, boot, savedBoot, sent>>
    /\ pc[o][d] = from
    /\ pc' = [pc EXCEPT ![o][d] = to]
    /\ \A q \in Orders :
        /\ inbox'[q].boot = inbox[q].boot
        /\ \/ inbox'[q].state = inbox[q].state
           \/ q = o /\ inbox'[q].state \in OpenStates

\* A step of the handler that owns its order.
LEMMA OwnerStep ==
    ASSUME Inv, NEW o \in Orders, NEW d \in Deliveries,
           NEW from \in BeforeStart \cup AfterStart, NEW to \in BeforeStart \cup AfterStart,
           OwnerMoves(o, d, from, to),
           to \in BeforeStart => from \in BeforeStart,
           to \in {"report", "close"} => exit'[o] \in ExitKinds,
           \A q \in Orders \ {o} : starts'[q] = starts[q] /\ exit'[q] = exit[q],
           \/ starts'[o] = starts[o]
           \/ starts'[o] = starts[o] + 1 /\ from \in BeforeStart /\ to \notin BeforeStart
    PROVE  Handlers' /\ Boots'
<1>1. /\ pc'[o][d] = to
      /\ \A q \in Orders : \A c \in Deliveries : <<q, c>> # <<o, d>> => pc'[q][c] = pc[q][c]
  BY DEF Inv, TypeOK, OwnerMoves
<1>2. \A q \in Orders : \A c \in Deliveries : Owner(q, c)' <=> Owner(q, c)
  BY <1>1 DEF OwnerMoves, Owner
<1>3. Owner(o, d)
  BY DEF Owner, OwnerMoves
<1>4. inbox[o].state \in OpenStates
  BY <1>3 DEF Inv, Handlers
<1>5. \A c \in Deliveries : Owner(o, c) => c = d
  BY <1>3 DEF Inv, Handlers
<1>6. Running'
  BY DEF OwnerMoves, Running
<1>7. ASSUME NEW q \in Orders
      PROVE  /\ starts'[q] \in {0, 1}
             /\ inbox'[q].state \in {"NONE", "RECEIVED"} => starts'[q] = 0
  BY <1>4 DEF Inv, Handlers, OwnerMoves, OpenStates, BeforeStart
<1>8. ASSUME NEW q \in Orders, NEW c \in Deliveries
      PROVE  /\ Owner(q, c)' => inbox'[q].state \in OpenStates /\ inbox'[q].boot = boot'
             /\ \A b \in Deliveries : Owner(q, b)' /\ Owner(q, c)' => b = c
  BY <1>2 DEF Inv, Handlers, OwnerMoves
<1>9. ASSUME NEW q \in Orders, NEW c \in Deliveries
      PROVE  /\ pc'[q][c] \in BeforeStart => starts'[q] = 0
             /\ pc'[q][c] \in {"report", "close"} => exit'[q] \in ExitKinds
  <2>1. CASE q # o
    BY <2>1, <1>1 DEF Inv, Handlers
  <2>2. CASE q = o /\ c # d
    <3>1. ~Owner(o, c)
      BY <2>2, <1>5
    <3> QED BY <2>2, <3>1, <1>1 DEF Owner, BeforeStart, AfterStart
  <2>3. CASE q = o /\ c = d
    BY <2>3, <1>1 DEF Inv, Handlers, OwnerMoves
  <2> QED BY <2>1, <2>2, <2>3
<1>10. Handlers'
  BY <1>6, <1>7, <1>8, <1>9 DEF Handlers
<1>11. Boots'
  BY <1>4 DEF Inv, Boots, SavedBootRecovered, OwnerMoves, Running
<1> QED BY <1>10, <1>11

\* The same for the events when the step records none.
LEMMA OwnerQuiet ==
    ASSUME Inv, NEW o \in Orders, NEW d \in Deliveries,
           NEW from \in BeforeStart \cup AfterStart, NEW to \in BeforeStart \cup AfterStart,
           OwnerMoves(o, d, from, to), from # "close", to # "close", outbox' = outbox
    PROVE  Books' /\ SequencesFresh' /\ ClosedIsReported'
<1>1. /\ pc'[o][d] = to
      /\ \A q \in Orders : \A c \in Deliveries : <<q, c>> # <<o, d>> => pc'[q][c] = pc[q][c]
  BY DEF Inv, TypeOK, OwnerMoves
<1>2. Owner(o, d) /\ inbox[o].state \in OpenStates /\ ~Outcome(o)
  BY DEF Inv, Handlers, Books, Owner, OwnerMoves
<1>3. EventsKept
  BY <1>1, <1>2 DEF Inv, Books, EventsKept, OwnerMoves, Owner, OpenStates, ClosedStates
<1> QED BY <1>3, EventsQuiet

-----------------------------------------------------------------------------
(* Steps that record an event *)

\* The owner of an order records an event with the number of its kind.
LEMMA OwnerRecords ==
    ASSUME Inv, NEW o \in Orders, NEW d \in Deliveries,
           NEW from \in {"accepted", "started", "report"}, NEW to \in {"mark", "register", "close"},
           NEW kind \in {"accepted", "started"} \cup ExitKinds \cup {"cancelled"}, NEW seq \in 1..3,
           OwnerMoves(o, d, from, to), inbox' = inbox, PutEvent(o, kind, seq),
           \/ kind = "accepted" /\ seq = 1 /\ to = "mark"
           \/ kind = "started" /\ seq = 2 /\ to = "register"
           \/ kind \in ExitKinds \cup {"cancelled"} /\ seq = 3 /\ to = "close"
    PROVE  Books' /\ SequencesFresh' /\ ClosedIsReported'
<1> DEFINE new == [order |-> o, kind |-> kind, seq |-> seq]
           row == [event |-> new, state |-> "PENDING"]
<1>1. /\ pc'[o][d] = to
      /\ \A q \in Orders : \A c \in Deliveries : <<q, c>> # <<o, d>> => pc'[q][c] = pc[q][c]
  BY DEF Inv, TypeOK, OwnerMoves
<1>2. Owner(o, d) /\ from # "close" /\ inbox[o].state \in OpenStates /\ ~Outcome(o)
  BY DEF Inv, Handlers, Books, Owner, OwnerMoves, BeforeStart, AfterStart
<1>3. \A c \in Deliveries : Owner(o, c) => c = d
  BY <1>2 DEF Inv, Handlers
<1>4. \A e \in AllEvents : e.order = o => e.kind \in {"accepted", "started"}
  BY <1>2 DEF Inv, TypeOK, AllEvents, OutboxRow, Event, Outcome
<1>5. \A e \in AllEvents : e \in Event /\ Numbered(e)
  BY DEF Inv, TypeOK, Books, AllEvents, OutboxRow
<1>6. \A e \in AllEvents : e.order = o /\ e.kind = kind => e = new
  BY <1>4, <1>5 DEF Numbered, Event, ExitKinds
<1>7. /\ AllEvents' = AllEvents \cup {new}
      /\ outbox' = outbox \/ outbox' = outbox \cup {row}
  <2>1. CASE \E e \in outbox : e.event.order = o /\ e.event.kind = kind
    <3>1. new \in AllEvents
      BY <2>1, <1>6 DEF AllEvents
    <3>2. outbox' = outbox /\ sent' = sent
      BY <2>1 DEF PutEvent, OwnerMoves
    <3> QED BY <3>1, <3>2 DEF AllEvents
  <2>2. CASE ~\E e \in outbox : e.event.order = o /\ e.event.kind = kind
    <3>1. outbox' = outbox \cup {row} /\ sent' = sent
      BY <2>2 DEF PutEvent, OwnerMoves
    <3>2. row.event = new
      OBVIOUS
    <3> HIDE DEF new, row
    <3> QED BY <3>1, <3>2 DEF AllEvents
  <2> QED BY <2>1, <2>2
<1>8. \A e \in AllEvents' : Numbered(e)'
  BY <1>2, <1>5, <1>7 DEF Numbered, OpenStates, ExitKinds
<1>9. \A q \in Orders : Outcome(q)' <=> Outcome(q) \/ (q = o /\ to = "close")
  <2>1. new.order = o /\ (new.kind \in OutcomeKinds <=> to = "close")
    BY DEF OutcomeKinds, ExitKinds
  <2> HIDE DEF new
  <2> QED BY <2>1, <1>7 DEF Outcome
<1>10. ASSUME NEW q \in Orders, NEW c \in Deliveries
       PROVE  /\ Owner(q, c)' /\ pc'[q][c] # "close" => ~Outcome(q)'
              /\ pc'[q][c] = "close" => Outcome(q)'
  <2>1. CASE q # o
    BY <2>1, <1>1, <1>9 DEF Inv, Books, Owner
  <2>2. CASE q = o /\ c # d
    <3>1. ~Owner(q, c)' /\ pc'[q][c] # "close"
      BY <2>2, <1>1, <1>3 DEF Owner, AfterStart
    <3> QED BY <3>1
  <2>3. CASE q = o /\ c = d
    BY <2>3, <1>1, <1>2, <1>9
  <2> QED BY <2>1, <2>2, <2>3
<1>11. Books'
  <2>1. \A e \in outbox' : e.state = "PUBLISHED" => e.event \in sent'
    BY <1>7 DEF Inv, Books, OwnerMoves
  <2>2. \A e \in sent' : \E f \in outbox' : f.event.order = e.order /\ f.event.seq >= e.seq
    BY <1>7 DEF Inv, Books, OwnerMoves
  <2> QED BY <2>1, <2>2, <1>8, <1>10 DEF Books
<1>12. SequencesFresh'
  <2>1. ASSUME NEW e \in AllEvents, e.order = o, e # new
        PROVE  e.seq # seq /\ e.kind # "unknown"
    BY <2>1, <1>4, <1>5, <1>6 DEF Numbered, ExitKinds
  <2>2. new.order = o /\ new.seq = seq /\ new.kind # "unknown"
    BY DEF ExitKinds
  <2> HIDE DEF new
  <2> QED BY <2>1, <2>2, <1>7 DEF Inv, SequencesFresh
<1>13. ClosedIsReported'
  BY <1>7 DEF Inv, ClosedIsReported
<1> QED BY <1>11, <1>12, <1>13

\* The rows of the outbox and the events sent have numbers.
LEMMA EventTypes ==
    ASSUME TypeOK
    PROVE  /\ \A e \in outbox : e \in OutboxRow /\ e.event \in Event /\ e.event.seq \in 1..4
           /\ \A e \in sent : e \in Event /\ e.seq \in 1..4
<1>1. outbox \subseteq OutboxRow /\ sent \subseteq Event
  BY DEF TypeOK
<1> QED BY <1>1 DEF OutboxRow, Event

\* Publishing and compaction lose no event.
LEMMA PublishKeeps ==
    ASSUME Inv, NEW o \in Orders, Publish(o) \/ CompactPublishedEvents(o)
    PROVE  Inv'
<1>1. AllEvents' = AllEvents /\ outbox' \subseteq OutboxRow /\ sent' \subseteq Event
  <2>1. CASE Publish(o)
    BY <2>1 DEF Publish, AllEvents, Inv, TypeOK, OutboxRow
  <2>2. CASE CompactPublishedEvents(o)
    BY <2>2 DEF CompactPublishedEvents, AllEvents, Inv, TypeOK, Books
  <2> QED BY <2>1, <2>2
<1>2. /\ \A e \in outbox' : e.state = "PUBLISHED" => e.event \in sent'
      /\ \A e \in sent' : \E f \in outbox' : f.event.order = e.order /\ f.event.seq >= e.seq
  <2>1. CASE Publish(o)
    <3>1. PICK e \in outbox : /\ outbox' = (outbox \ {e}) \cup {[e EXCEPT !.state = "PUBLISHED"]}
                              /\ sent' = sent \cup {e.event}
      BY <2>1 DEF Publish
    <3>2. /\ [e EXCEPT !.state = "PUBLISHED"].event = e.event
          /\ e.event.seq \in Int
      BY EventTypes DEF Inv, OutboxRow
    <3>3. \A f \in outbox : \E g \in outbox' : g.event = f.event
      BY <3>1, <3>2
    <3>4. \A f \in outbox' : f.state = "PUBLISHED" => f.event \in sent'
      BY <3>1, <3>2 DEF Inv, Books
    <3>5. \A f \in sent' : \E g \in outbox : g.event.order = f.order /\ g.event.seq >= f.seq
      BY <3>1, <3>2 DEF Inv, Books
    <3> QED BY <3>3, <3>4, <3>5
  <2>2. CASE CompactPublishedEvents(o)
    <3>1. PICK e \in outbox : /\ e.event.order = o
                              /\ \E f \in EventsOf(o) : f.seq > e.event.seq
                              /\ outbox' = outbox \ {e} /\ sent' = sent
      BY <2>2 DEF CompactPublishedEvents
    <3>2. PICK f \in outbox : f.event.order = o /\ f.event.seq > e.event.seq
      BY <3>1 DEF EventsOf
    <3>3. f \in outbox'
      BY <3>1, <3>2, EventTypes DEF Inv
    <3>4. \A g \in outbox : g.event.seq \in Int
      BY EventTypes DEF Inv
    <3>5. \A g \in sent : g.seq \in Int
      BY EventTypes DEF Inv
    <3> QED BY <3>1, <3>2, <3>3, <3>4, <3>5 DEF Inv, Books
  <2> QED BY <2>1, <2>2
<1>3. UNCHANGED <<mode, boot, savedBoot, inbox, msg, cancel, pc, exit, active, cancelled, starts>>
  BY DEF Publish, CompactPublishedEvents
<1>4. TypeOK' /\ Handlers' /\ Boots'
  BY <1>1, <1>3 DEF Inv, TypeOK, Handlers, Boots, SavedBootRecovered, Running, Owner
<1>5. Books' /\ SequencesFresh' /\ ClosedIsReported'
  BY <1>1, <1>2, <1>3 DEF Inv, Books, Numbered, Outcome, Owner, SequencesFresh, ClosedIsReported
<1> QED BY <1>4, <1>5 DEF Inv

-----------------------------------------------------------------------------
(* Starts and ends of the process *)

\* A restart closes the open orders of the saved boot and records an unknown
\* event above everything recorded for them.
LEMMA BootKeeps ==
    ASSUME Inv, Boot
    PROVE  Inv'
<1> DEFINE lost == IF savedBoot = 0 THEN {} ELSE Lost
           new(o) == [order |-> o, kind |-> "unknown", seq |-> NextSequence(o)]
           row(o) == [event |-> new(o), state |-> "PENDING"]
<1>1. /\ ~Running /\ mode' = "up" /\ boot < MaxBoots /\ boot' = boot + 1
      /\ savedBoot' = IF savedBoot = 0 THEN boot + 1 ELSE savedBoot
      /\ inbox' = [o \in Orders |-> IF o \in lost THEN [inbox[o] EXCEPT !.state = "UNKNOWN"] ELSE inbox[o]]
      /\ outbox' = outbox \cup {row(o) : o \in lost}
      /\ UNCHANGED <<sent, msg, cancel, pc, exit, active, cancelled, starts>>
  BY DEF Boot
<1>2. \A o \in lost : o \in Orders /\ inbox[o].state \in OpenStates /\ inbox[o].boot = savedBoot
  BY DEF Lost
<1>3. \A o \in Orders : /\ o \in lost => inbox'[o].state = "UNKNOWN"
                        /\ o \notin lost => inbox'[o] = inbox[o]
                        /\ inbox'[o].boot = inbox[o].boot
                        /\ inbox'[o] \in InboxRow
  BY <1>1 DEF Inv, TypeOK, InboxRow, ClosedStates
<1>4. \A o \in lost : /\ NextSequence(o) \in 1..4
                      /\ \A e \in EventsOf(o) : e.seq < NextSequence(o)
  BY <1>2, NextSequenceAbove, OpenBelowLast DEF Inv, OpenStates
<1>5. \A o \in lost : new(o) \in Event /\ row(o) \in OutboxRow
  BY <1>2, <1>4 DEF Event, OutboxRow, OutcomeKinds
<1>6. TypeOK'
  <2>1. outbox' \subseteq OutboxRow
    BY <1>1, <1>5 DEF Inv, TypeOK
  <2>2. inbox' \in [Orders -> InboxRow]
    BY <1>1, <1>3
  <2>3. boot' \in 0..MaxBoots /\ savedBoot' \in 0..MaxBoots
    BY <1>1, WorkerAssumption DEF Inv, TypeOK
  <2> QED BY <1>1, <2>1, <2>2, <2>3 DEF Inv, TypeOK
<1>7. \A o \in Orders : \A d \in Deliveries : pc'[o][d] = "idle" /\ ~Owner(o, d)'
  BY <1>1 DEF Inv, Handlers, Owner, BeforeStart, AfterStart
<1>8. Handlers'
  BY <1>1, <1>2, <1>3, <1>7 DEF Inv, Handlers, Running, OpenStates, BeforeStart
<1>9. Boots'
  <2>0. boot \in Nat /\ savedBoot \in Nat /\ \A o \in Orders : inbox[o].boot \in Nat
    BY WorkerAssumption DEF Inv, TypeOK, InboxRow
  <2>1. savedBoot' <= boot' /\ savedBoot' > 0 /\ \A o \in Orders : inbox'[o].boot <= boot'
    BY <2>0, <1>1, <1>3 DEF Inv, Boots
  <2>2. SavedBootRecovered'
    <3>1. CASE savedBoot = 0
      BY <3>1, <1>1 DEF SavedBootRecovered
    <3>2. CASE savedBoot # 0
      BY <3>2, <1>1, <1>3 DEF SavedBootRecovered, Lost, OpenStates
    <3> QED BY <3>1, <3>2
  <2> QED BY <2>1, <2>2 DEF Boots
<1>10. AllEvents' = AllEvents \cup {new(o) : o \in lost}
  <2>1. \A o : row(o).event = new(o)
    OBVIOUS
  <2>2. outbox' = outbox \cup {row(o) : o \in lost} /\ sent' = sent
    BY <1>1
  <2> HIDE DEF new, row, lost
  <2> QED BY <2>1, <2>2 DEF AllEvents
<1>11. \A o \in lost : new(o).order = o /\ new(o).kind = "unknown" /\ new(o).seq = NextSequence(o)
  OBVIOUS
<1>12. \A e \in AllEvents : e \in Event /\ e.order \in Orders /\ e.seq \in 1..4 /\ Numbered(e)
  BY EventTypes DEF Inv, Books, AllEvents, Event
<1>13. ASSUME NEW e \in AllEvents, e.order \in lost
       PROVE  e.seq < NextSequence(e.order) /\ e.kind # "unknown"
  <2>1. PICK f \in outbox : f.event.order = e.order /\ f.event.seq >= e.seq
    BY <1>12 DEF Inv, Books, AllEvents
  <2>2. f.event \in EventsOf(e.order)
    BY <2>1 DEF EventsOf
  <2>3. f.event.seq < NextSequence(e.order) /\ NextSequence(e.order) \in 1..4 /\ f.event.seq \in 1..4
    BY <1>4, <1>13, <2>2, EventTypes DEF Inv
  <2>4. e.kind # "unknown"
    BY <1>2, <1>12, <1>13 DEF Numbered, OpenStates
  <2> QED BY <2>1, <2>3, <2>4, <1>12
<1>14. Books' /\ SequencesFresh' /\ ClosedIsReported'
  <2> HIDE DEF new, row, lost
  <2>1. \A e \in AllEvents' : Numbered(e)'
    <3>1. ASSUME NEW e \in AllEvents
          PROVE  Numbered(e)'
      BY <3>1, <1>3, <1>12 DEF Numbered
    <3>2. ASSUME NEW e, NEW o \in lost, e = new(o)
          PROVE  Numbered(e)'
      BY <3>2, <1>2, <1>3, <1>11 DEF Numbered, ExitKinds
    <3> QED BY <3>1, <3>2, <1>10
  <2>2. \A e \in outbox' : e.state = "PUBLISHED" => e.event \in sent'
    <3>1. \A o \in lost : row(o).state = "PENDING"
      BY DEF row
    <3> QED BY <3>1, <1>1 DEF Inv, Books
  <2>3. \A e \in sent' : \E f \in outbox' : f.event.order = e.order /\ f.event.seq >= e.seq
    BY <1>1 DEF Inv, Books
  <2>4. Books'
    BY <2>1, <2>2, <2>3, <1>7 DEF Books
  <2>5. SequencesFresh'
    <3>1. ASSUME NEW e \in AllEvents', NEW f \in AllEvents', e.order = f.order, e # f
          PROVE  e.seq # f.seq /\ (e.kind = "unknown" => f.seq < e.seq)
      <4>1. CASE e \in AllEvents /\ f \in AllEvents
        BY <4>1, <3>1 DEF Inv, SequencesFresh
      <4>2. CASE e \in AllEvents /\ f \notin AllEvents
        BY <4>2, <3>1, <1>4, <1>10, <1>11, <1>12, <1>13
      <4>3. CASE e \notin AllEvents /\ f \in AllEvents
        BY <4>3, <3>1, <1>4, <1>10, <1>11, <1>12, <1>13
      <4>4. CASE e \notin AllEvents /\ f \notin AllEvents
        BY <4>4, <3>1, <1>10, <1>11
      <4> QED BY <4>1, <4>2, <4>3, <4>4
    <3> QED BY <3>1 DEF SequencesFresh
  <2>6. ClosedIsReported'
    BY <1>3, <1>10, <1>11 DEF Inv, ClosedIsReported, OutcomeKinds
  <2> QED BY <2>4, <2>5, <2>6
<1> QED BY <1>6, <1>8, <1>9, <1>14 DEF Inv

\* A crash, a stop and its end leave no handler or leave the handlers alone.
LEMMA EndKeeps ==
    ASSUME Inv, Crash \/ Stop \/ Stopped
    PROVE  Inv'
<1>1. /\ UNCHANGED <<boot, exit, starts, msg, cancel>>
      /\ UNCHANGED durable
  BY DEF Crash, Stop, Stopped
<1>2. TypeOK'
  BY <1>1 DEF Inv, TypeOK, durable, Crash, Stop, Stopped, Steps
<1>3. \A o \in Orders : \A d \in Deliveries :
        /\ pc'[o][d] = pc[o][d] \/ pc'[o][d] = "idle"
        /\ ~Running' => pc'[o][d] = "idle"
  <2>1. CASE Crash
    BY <2>1 DEF Crash
  <2>2. CASE Stop
    BY <2>2 DEF Stop, Running
  <2>3. CASE Stopped
    <3>1. ASSUME NEW o \in Orders, NEW d \in Deliveries
          PROVE  pc[o][d] = "idle"
      <4>1. <<o, d>> \notin Busy
        BY <2>3 DEF Stopped
      <4> QED BY <4>1 DEF Busy
    <3> QED BY <2>3, <3>1 DEF Stopped
  <2> QED BY <2>1, <2>2, <2>3
<1>4. Handlers'
  BY <1>1, <1>3 DEF Inv, Handlers, durable, Owner, BeforeStart, AfterStart
<1>5. Boots'
  BY <1>1 DEF Inv, Boots, SavedBootRecovered, durable, Running, Crash, Stop, Stopped
<1>6. EventsKept
  BY <1>1, <1>3 DEF Inv, Books, EventsKept, durable, Owner, BeforeStart, AfterStart
<1> QED BY <1>2, <1>4, <1>5, <1>6, EventsQuiet DEF Inv

-----------------------------------------------------------------------------
(* The handlers *)

MessageTable == [Orders -> [used : 0..MaxDeliver, acked : BOOLEAN]]

\* Acknowledging a message, on either condition, keeps the type.
LEMMA AckType ==
    ASSUME msg \in MessageTable, NEW o \in Orders, NEW d \in Deliveries,
           Return(o, d) \/ Fail(o, d)
    PROVE  msg' \in MessageTable
<1>1. ASSUME NEW b \in BOOLEAN, msg' = [msg EXCEPT ![o].acked = b]
      PROVE  msg' \in MessageTable
  BY <1>1 DEF MessageTable
<1>2. CASE Return(o, d)
  <2> DEFINE b == msg[o].acked \/ mode = "up"
  <2>1. b \in BOOLEAN
    OBVIOUS
  <2>2. msg' = [msg EXCEPT ![o].acked = b]
    BY <1>2 DEF Return
  <2> HIDE DEF b
  <2> QED BY <2>1, <2>2, <1>1
<1>3. CASE Fail(o, d)
  <2> DEFINE b == msg[o].acked \/ (mode = "up" /\ d = MaxDeliver)
  <2>1. b \in BOOLEAN
    OBVIOUS
  <2>2. msg' = [msg EXCEPT ![o].acked = b]
    BY <1>3 DEF Fail
  <2> HIDE DEF b
  <2> QED BY <2>1, <2>2, <1>1
<1> QED BY <1>2, <1>3

\* Messages and error returns.
LEMMA MessageKeeps ==
    ASSUME Inv, NEW o \in Orders,
           \/ Deliver(o) \/ SendCancel(o) \/ TakeCancel(o) \/ ExpireCancel(o)
           \/ \E d \in Deliveries :
                \/ \E reply \in Replies : StartReply(o, d, reply)
                \/ ClaimOrderFails(o, d) \/ StoreFails(o, d)
    PROVE  Inv'
<1>1. CASE SendCancel(o) \/ TakeCancel(o) \/ ExpireCancel(o)
  <2>1. UNCHANGED <<mode, boot, msg, pc, exit, active, starts>> /\ UNCHANGED durable
    BY <1>1 DEF SendCancel, TakeCancel, ExpireCancel
  <2>2. TypeOK'
    BY <1>1, <2>1 DEF Inv, TypeOK, durable, SendCancel, TakeCancel, ExpireCancel
  <2>3. Handlers' /\ Boots'
    BY <2>1 DEF Inv, Handlers, Boots, SavedBootRecovered, durable, Running, Owner
  <2>4. EventsKept
    BY <2>1 DEF Inv, Books, EventsKept, durable, Owner
  <2> QED BY <2>2, <2>3, <2>4, EventsQuiet DEF Inv
<1>2. CASE Deliver(o)
  <2> DEFINE d == msg[o].used + 1
  <2>1. d \in Deliveries
    BY <1>2, WorkerAssumption DEF Deliver, Inv, TypeOK, Deliveries
  <2>2. HandlerMoves(o, d, {"idle", "claim", "accept", "take"}) /\ UNCHANGED <<exit, starts>>
    BY <1>2 DEF Deliver, HandlerMoves, Running
  <2>3. msg' \in [Orders -> [used : 0..MaxDeliver, acked : BOOLEAN]]
    BY <1>2, WorkerAssumption DEF Deliver, Inv, TypeOK
  <2>4. pc' \in [Orders -> [Deliveries -> Steps]]
    BY <1>2, <2>1 DEF Deliver, Inv, TypeOK, Steps
  <2>5. TypeOK'
    BY <1>2, <2>3, <2>4 DEF Deliver, Inv, TypeOK, durable
  <2> HIDE DEF d
  <2> QED BY <2>1, <2>2, <2>5, Moves DEF Inv
<1>3. ASSUME NEW d \in Deliveries,
             \/ \E reply \in Replies : StartReply(o, d, reply)
             \/ ClaimOrderFails(o, d) \/ StoreFails(o, d)
      PROVE  Inv'
  <2>1. /\ HandlerMoves(o, d, {"idle", "claim", "accept", "take"})
        /\ UNCHANGED <<exit, starts, cancel>>
        /\ msg' = msg \/ Return(o, d) \/ Fail(o, d)
        /\ cancelled' \subseteq active' /\ active' \subseteq Orders
    <3>1. CASE \E reply \in Replies : StartReply(o, d, reply)
      BY <3>1 DEF StartReply, Replies, At, Goto, Return, Fail, HandlerMoves, Inv, TypeOK
    <3>2. CASE ClaimOrderFails(o, d)
      BY <3>2 DEF ClaimOrderFails, At, Return, HandlerMoves, Inv, TypeOK
    <3>3. CASE StoreFails(o, d)
      BY <3>3 DEF StoreFails, Fail, HandlerMoves, Inv, TypeOK
    <3> QED BY <1>3, <3>1, <3>2, <3>3
  <2>2. msg' \in MessageTable
    BY <2>1, AckType DEF Inv, TypeOK, MessageTable
  <2>3. pc' \in [Orders -> [Deliveries -> Steps]]
    BY <2>1 DEF HandlerMoves, Inv, TypeOK, Steps
  <2>4. TypeOK'
    BY <2>1, <2>2, <2>3 DEF HandlerMoves, Inv, TypeOK, durable, MessageTable
  <2> QED BY <2>1, <2>4, Moves DEF Inv
<1> QED BY <1>1, <1>2, <1>3

\* The handler stores the order and claims it.
LEMMA ClaimKeeps ==
    ASSUME Inv, NEW o \in Orders, NEW d \in Deliveries, AcceptOrder(o, d) \/ ClaimOrder(o, d)
    PROVE  Inv'
<1>0. /\ Running /\ UNCHANGED <<mode, boot, savedBoot, outbox, sent, cancel, exit, active, cancelled, starts>>
      /\ pc[o][d] \in {"accept", "take"}
  BY DEF AcceptOrder, ClaimOrder, At
<1>1. CASE AcceptOrder(o, d)
  <2>1. /\ inbox' = [inbox EXCEPT ![o] = IF @.state = "NONE" THEN [state |-> "RECEIVED", boot |-> 0] ELSE @]
        /\ pc' = [pc EXCEPT ![o][d] = "take"] /\ msg' = msg
    BY <1>1 DEF AcceptOrder, Goto
  <2>2. TypeOK'
    <3>1. inbox' \in [Orders -> InboxRow]
      BY <2>1, WorkerAssumption DEF Inv, TypeOK, InboxRow
    <3> QED BY <1>0, <2>1, <3>1 DEF Inv, TypeOK, Steps
  <2>3. \A q \in Orders : \A c \in Deliveries : Owner(q, c)' => Owner(q, c) /\ pc'[q][c] = pc[q][c]
    BY <2>1 DEF Inv, TypeOK, Owner, BeforeStart, AfterStart
  <2>4. \A q \in Orders : \/ inbox'[q] = inbox[q]
                          \/ inbox[q].state = "NONE" /\ inbox'[q].state = "RECEIVED" /\ inbox'[q].boot = 0
    BY <2>1 DEF Inv, TypeOK
  <2>5. Handlers'
    BY <1>0, <2>3, <2>4 DEF Inv, Handlers, Running, Owner, BeforeStart, AfterStart, OpenStates
  <2>6. Boots'
    <3>1. boot \in Nat
      BY DEF Inv, TypeOK
    <3> QED BY <3>1, <1>0, <2>4 DEF Inv, Boots, SavedBootRecovered, Running, OpenStates
  <2>7. EventsKept
    BY <1>0, <2>3, <2>4 DEF Inv, Books, EventsKept, Owner, AfterStart, ClosedStates
  <2> QED BY <2>2, <2>5, <2>6, <2>7, EventsQuiet DEF Inv
<1>2. CASE ClaimOrder(o, d) /\ inbox[o].state # "RECEIVED"
  <2>1. /\ HandlerMoves(o, d, {"idle", "claim", "accept", "take"})
        /\ Return(o, d)
        /\ pc' = [pc EXCEPT ![o][d] = "idle"]
    BY <1>0, <1>2 DEF ClaimOrder, Return, HandlerMoves, durable
  <2>2. TypeOK'
    <3>1. msg' \in MessageTable
      BY <2>1, AckType DEF Inv, TypeOK, MessageTable
    <3> QED BY <1>0, <2>1, <3>1 DEF HandlerMoves, durable, Inv, TypeOK, Steps, MessageTable
  <2> QED BY <1>0, <2>1, <2>2, Moves DEF Inv
<1>3. CASE ClaimOrder(o, d) /\ inbox[o].state = "RECEIVED"
  <2>1. /\ inbox' = [inbox EXCEPT ![o] = [state |-> "CLAIMED", boot |-> boot]]
        /\ pc' = [pc EXCEPT ![o][d] = "accepted"] /\ msg' = msg
    BY <1>3 DEF ClaimOrder, Goto
  <2>2. TypeOK'
    <3>1. inbox' \in [Orders -> InboxRow]
      BY <2>1 DEF Inv, TypeOK, InboxRow, OpenStates
    <3> QED BY <1>0, <2>1, <3>1 DEF Inv, TypeOK, Steps
  <2>3. \A c \in Deliveries : ~Owner(o, c)
    BY <1>3 DEF Inv, Handlers, OpenStates
  <2>4. /\ pc'[o][d] = "accepted" /\ inbox'[o] = [state |-> "CLAIMED", boot |-> boot]
        /\ \A q \in Orders : \A c \in Deliveries : <<q, c>> # <<o, d>> => pc'[q][c] = pc[q][c]
        /\ \A q \in Orders \ {o} : inbox'[q] = inbox[q]
    BY <2>1 DEF Inv, TypeOK
  <2>5. Handlers'
    <3>1. \A q \in Orders : \A c \in Deliveries :
            Owner(q, c)' <=> (q = o /\ c = d) \/ (q # o /\ Owner(q, c))
      BY <2>3, <2>4 DEF Owner, BeforeStart
    <3>2. starts[o] = 0
      BY <1>3 DEF Inv, Handlers
    <3>3. ASSUME NEW q \in Orders, NEW c \in Deliveries
          PROVE  /\ Owner(q, c)' => inbox'[q].state \in OpenStates /\ inbox'[q].boot = boot
                 /\ \A b \in Deliveries : Owner(q, b)' /\ Owner(q, c)' => b = c
                 /\ pc'[q][c] \in BeforeStart => starts[q] = 0
                 /\ pc'[q][c] \in {"report", "close"} => exit[q] \in ExitKinds
      BY <3>1, <3>2, <2>3, <2>4 DEF Inv, Handlers, OpenStates, Owner
    <3>4. \A q \in Orders : /\ starts[q] \in {0, 1}
                            /\ inbox'[q].state \in {"NONE", "RECEIVED"} => starts[q] = 0
      BY <2>4, <3>2 DEF Inv, Handlers
    <3> QED BY <1>0, <3>3, <3>4 DEF Handlers, Running
  <2>6. Boots'
    <3>1. boot \in Nat
      BY DEF Inv, TypeOK
    <3> QED BY <3>1, <1>0, <2>4 DEF Inv, Boots, SavedBootRecovered, Running
  <2>7. ~Outcome(o)
    BY <1>3 DEF Inv, Books, Outcome, Numbered
  <2>8. EventsKept
    BY <1>0, <1>3, <2>3, <2>4, <2>7 DEF Inv, Books, EventsKept, Owner, AfterStart, ClosedStates
  <2> QED BY <2>2, <2>5, <2>6, <2>8, EventsQuiet DEF Inv
<1> QED BY <1>1, <1>2, <1>3

\* The owner's steps up to the exit of the process.
LEMMA RunKeeps ==
    ASSUME Inv, NEW o \in Orders, NEW d \in Deliveries,
           \/ PersistAccepted(o, d) \/ MarkProcessStarted(o, d) \/ PersistStarted(o, d)
           \/ StartProcess(o, d) \/ (\E kind \in ExitKinds : ProcessExits(o, d, kind))
           \/ PersistTerminal(o, d)
    PROVE  Inv'
<1>1. CASE PersistAccepted(o, d)
  <2>1. OwnerMoves(o, d, "accepted", "mark") /\ PutEvent(o, "accepted", 1)
    BY <1>1 DEF PersistAccepted, OwnerMoves, At, Goto
  <2>2. inbox' = inbox /\ UNCHANGED <<mode, boot, savedBoot, sent, msg, cancel, exit, active, cancelled, starts>>
    BY <1>1 DEF PersistAccepted
  <2>3. TypeOK'
    <3>1. outbox' \subseteq OutboxRow
      BY <2>1, PutEventType DEF Inv
    <3> QED BY <2>1, <2>2, <3>1 DEF OwnerMoves, Inv, TypeOK, Steps
  <2>4. Handlers' /\ Boots'
    BY <2>1, <2>2, OwnerStep DEF BeforeStart
  <2>5. Books' /\ SequencesFresh' /\ ClosedIsReported'
    BY <2>1, <2>2, OwnerRecords
  <2> QED BY <2>3, <2>4, <2>5 DEF Inv
<1>2. CASE MarkProcessStarted(o, d)
  <2>1. inbox' = [inbox EXCEPT ![o].state = IF @ = "CLAIMED" THEN "RUNNING" ELSE @]
    BY <1>2 DEF MarkProcessStarted
  <2>2. UNCHANGED <<mode, boot, savedBoot, outbox, sent, msg, cancel, exit, active, cancelled, starts>>
    BY <1>2 DEF MarkProcessStarted
  <2>3. inbox' \in [Orders -> InboxRow] /\ OwnerMoves(o, d, "mark", "started")
    <3>1. inbox' \in [Orders -> InboxRow]
      BY <2>1, SMTT(40) DEF Inv, TypeOK, InboxRow, OpenStates
    <3>2. \A q \in Orders : /\ inbox'[q].boot = inbox[q].boot
                            /\ inbox'[q].state = inbox[q].state \/ (q = o /\ inbox'[q].state = "RUNNING")
      BY <2>1 DEF Inv, TypeOK, InboxRow
    <3> QED BY <1>2, <3>1, <3>2, <2>2 DEF MarkProcessStarted, At, Goto, OwnerMoves, OpenStates
  <2>4. TypeOK'
    BY <2>2, <2>3 DEF OwnerMoves, Inv, TypeOK, Steps
  <2>5. Handlers' /\ Boots'
    BY <2>2, <2>3, OwnerStep DEF BeforeStart
  <2>6. Books' /\ SequencesFresh' /\ ClosedIsReported'
    BY <2>2, <2>3, OwnerQuiet DEF BeforeStart
  <2> QED BY <2>4, <2>5, <2>6 DEF Inv
<1>3. CASE PersistStarted(o, d)
  <2>1. OwnerMoves(o, d, "started", "register") /\ PutEvent(o, "started", 2)
    BY <1>3 DEF PersistStarted, OwnerMoves, At, Goto
  <2>2. inbox' = inbox /\ UNCHANGED <<mode, boot, savedBoot, sent, msg, cancel, exit, active, cancelled, starts>>
    BY <1>3 DEF PersistStarted
  <2>3. TypeOK'
    <3>1. outbox' \subseteq OutboxRow
      BY <2>1, PutEventType DEF Inv
    <3> QED BY <2>1, <2>2, <3>1 DEF OwnerMoves, Inv, TypeOK, Steps
  <2>4. Handlers' /\ Boots'
    BY <2>1, <2>2, OwnerStep DEF BeforeStart
  <2>5. Books' /\ SequencesFresh' /\ ClosedIsReported'
    BY <2>1, <2>2, OwnerRecords
  <2> QED BY <2>3, <2>4, <2>5 DEF Inv
<1>4. CASE StartProcess(o, d)
  <2>1. OwnerMoves(o, d, "register", "run") /\ UNCHANGED <<mode, boot, msg, cancel, exit, cancelled, durable>>
    BY <1>4 DEF StartProcess, OwnerMoves, At, Goto, durable
  <2>2. active' = active \cup {o} /\ starts' = [starts EXCEPT ![o] = @ + 1]
    BY <1>4 DEF StartProcess
  <2>3. TypeOK'
    BY <2>1, <2>2 DEF OwnerMoves, Inv, TypeOK, Steps, durable
  <2>4. starts'[o] = starts[o] + 1 /\ \A q \in Orders \ {o} : starts'[q] = starts[q]
    BY <2>2 DEF Inv, TypeOK
  <2>5. Handlers' /\ Boots'
    BY <2>1, <2>4, OwnerStep DEF BeforeStart, AfterStart
  <2>6. Books' /\ SequencesFresh' /\ ClosedIsReported'
    BY <2>1, OwnerQuiet DEF BeforeStart, AfterStart, durable
  <2> QED BY <2>3, <2>5, <2>6 DEF Inv
<1>5. ASSUME NEW kind \in ExitKinds, ProcessExits(o, d, kind)
      PROVE  Inv'
  <2>1. OwnerMoves(o, d, "run", "report") /\ UNCHANGED <<mode, boot, msg, cancel, active, cancelled, starts, durable>>
    BY <1>5 DEF ProcessExits, OwnerMoves, At, Goto, durable
  <2>2. exit' = [exit EXCEPT ![o] = kind]
    BY <1>5 DEF ProcessExits
  <2>3. TypeOK'
    BY <2>1, <2>2 DEF OwnerMoves, Inv, TypeOK, Steps, durable
  <2>4. exit'[o] = kind /\ \A q \in Orders \ {o} : exit'[q] = exit[q]
    BY <2>2 DEF Inv, TypeOK
  <2>5. Handlers' /\ Boots'
    BY <2>1, <2>4, OwnerStep DEF BeforeStart, AfterStart
  <2>6. Books' /\ SequencesFresh' /\ ClosedIsReported'
    BY <2>1, OwnerQuiet DEF BeforeStart, AfterStart, durable
  <2> QED BY <2>3, <2>5, <2>6 DEF Inv
<1>6. CASE PersistTerminal(o, d)
  <2>1. OwnerMoves(o, d, "report", "close") /\ PutEvent(o, terminalEventType(o), 3)
    BY <1>6 DEF PersistTerminal, OwnerMoves, At, Goto
  <2>2. inbox' = inbox /\ UNCHANGED <<mode, boot, savedBoot, sent, msg, cancel, exit, active, cancelled, starts>>
    BY <1>6 DEF PersistTerminal
  <2>3. exit[o] \in ExitKinds
    BY <2>1 DEF OwnerMoves, Inv, Handlers
  <2>4. terminalEventType(o) \in ExitKinds \cup {"cancelled"}
    BY <2>3 DEF terminalEventType
  <2>k. PICK kind \in ExitKinds \cup {"cancelled"} : kind = terminalEventType(o)
    BY <2>4
  <2>p. PutEvent(o, kind, 3)
    BY <2>1, <2>k DEF PutEvent
  <2>5. TypeOK'
    <3>1. kind \in {"accepted", "started"} \cup OutcomeKinds
      BY DEF OutcomeKinds
    <3>2. outbox' \subseteq OutboxRow
      BY <2>p, <3>1, PutEventType DEF Inv
    <3> QED BY <2>1, <2>2, <3>2 DEF OwnerMoves, Inv, TypeOK, Steps
  <2>6. Handlers' /\ Boots'
    BY <2>1, <2>2, <2>3, OwnerStep DEF BeforeStart, AfterStart
  <2>7. Books' /\ SequencesFresh' /\ ClosedIsReported'
    <3>1. kind \in {"accepted", "started"} \cup ExitKinds \cup {"cancelled"} /\ 3 \in 1..3
      OBVIOUS
    <3>2. OwnerMoves(o, d, "report", "close") /\ inbox' = inbox
      BY <2>1, <2>2
    <3> QED BY <3>1, <3>2, <2>p, OwnerRecords
  <2> QED BY <2>5, <2>6, <2>7 DEF Inv
<1> QED BY <1>1, <1>2, <1>3, <1>4, <1>5, <1>6

\* The owner closes its order, whose outcome is recorded.
LEMMA FinishKeeps ==
    ASSUME Inv, NEW o \in Orders, NEW d \in Deliveries, FinishOrder(o, d)
    PROVE  Inv'
<1>1. /\ Running /\ pc[o][d] = "close" /\ Return(o, d)
      /\ inbox' = [inbox EXCEPT ![o].state = IF @ \in OpenStates THEN terminalState(o) ELSE @]
      /\ active' = active \ {o} /\ cancelled' = cancelled \ {o}
      /\ pc' = [pc EXCEPT ![o][d] = "idle"]
      /\ UNCHANGED <<mode, boot, savedBoot, outbox, sent, cancel, exit, starts>>
  BY DEF FinishOrder, At, Return
<1>2. Owner(o, d) /\ inbox[o].state \in OpenStates /\ Outcome(o)
  BY <1>1 DEF Inv, Handlers, Books, Owner, AfterStart
<1>3. terminalState(o) \in ClosedStates /\ terminalState(o) # "UNKNOWN"
  BY DEF terminalState, ClosedStates
<1>4. /\ inbox'[o].state = terminalState(o) /\ inbox'[o].boot = inbox[o].boot
      /\ \A q \in Orders \ {o} : inbox'[q] = inbox[q]
      /\ inbox' \in [Orders -> InboxRow]
  BY <1>1, <1>2, <1>3 DEF Inv, TypeOK, InboxRow
<1>5. TypeOK'
  <2>1. msg' \in MessageTable
    BY <1>1, AckType DEF Inv, TypeOK, MessageTable
  <2> QED BY <1>1, <1>4, <2>1 DEF Inv, TypeOK, Steps, MessageTable
<1>6. \A q \in Orders : \A c \in Deliveries :
        /\ Owner(q, c)' => q # o /\ Owner(q, c)
        /\ Owner(q, c)' \/ pc'[q][c] \in BeforeStart \cup {"report", "close"} => pc'[q][c] = pc[q][c]
  BY <1>1, <1>2 DEF Inv, TypeOK, Handlers, Owner, BeforeStart, AfterStart
<1>7. Handlers'
  BY <1>1, <1>3, <1>4, <1>6 DEF Inv, Handlers, Running, ClosedStates, OpenStates
<1>8. Boots'
  BY <1>1, <1>2, <1>4 DEF Inv, Boots, SavedBootRecovered, Running
<1>9. EventsKept
  BY <1>1, <1>2, <1>3, <1>4, <1>6 DEF Inv, Books, EventsKept, ClosedStates, OpenStates, Owner, AfterStart
<1> QED BY <1>5, <1>7, <1>8, <1>9, EventsQuiet DEF Inv

-----------------------------------------------------------------------------
(* The theorems *)

\* The first state.
LEMMA InitInv == Init => Inv
<1> SUFFICES ASSUME Init PROVE Inv
  OBVIOUS
<1>1. TypeOK
  BY WorkerAssumption DEF Init, TypeOK, InboxRow, Steps
<1>2. Handlers
  BY DEF Init, Handlers, Running, Owner, BeforeStart, AfterStart
<1>3. Boots
  BY DEF Init, Boots, SavedBootRecovered, Running
<1>4. AllEvents = {}
  BY DEF Init, AllEvents
<1>5. Books
  BY <1>4 DEF Init, Books, Outcome, Owner, BeforeStart, AfterStart
<1>6. SequencesFresh /\ ClosedIsReported
  BY <1>4 DEF Init, SequencesFresh, ClosedIsReported, ClosedStates
<1> QED BY <1>1, <1>2, <1>3, <1>5, <1>6 DEF Inv

\* Every step.
LEMMA NextInv == Inv /\ [Next]_vars => Inv'
<1> SUFFICES ASSUME Inv, [Next]_vars PROVE Inv'
  OBVIOUS
<1>1. CASE Boot
  BY <1>1, BootKeeps
<1>2. CASE Crash \/ Stop \/ Stopped
  BY <1>2, EndKeeps
<1>3. ASSUME NEW o \in Orders, Deliver(o) \/ SendCancel(o) \/ TakeCancel(o) \/ ExpireCancel(o)
      PROVE  Inv'
  BY <1>3, MessageKeeps
<1>4. ASSUME NEW o \in Orders, Publish(o) \/ CompactPublishedEvents(o)
      PROVE  Inv'
  BY <1>4, PublishKeeps
<1>5. ASSUME NEW o \in Orders, NEW d \in Deliveries,
             \/ \E reply \in Replies : StartReply(o, d, reply)
             \/ ClaimOrderFails(o, d) \/ StoreFails(o, d)
      PROVE  Inv'
  BY <1>5, MessageKeeps
<1>6. ASSUME NEW o \in Orders, NEW d \in Deliveries, HandlerStep(o, d)
      PROVE  Inv'
  BY <1>6, ClaimKeeps, RunKeeps, FinishKeeps DEF HandlerStep
<1>7. CASE UNCHANGED vars
  <2>1. UNCHANGED <<mode, boot, savedBoot, inbox, outbox, sent, msg, cancel, pc, exit, active, cancelled, starts>>
    BY <1>7 DEF vars
  <2> QED BY <2>1 DEF Inv, TypeOK, Handlers, Boots, Books, SavedBootRecovered, Running, Owner, Outcome,
                      Numbered, AllEvents, SequencesFresh, ClosedIsReported
<1> QED BY <1>1, <1>2, <1>3, <1>4, <1>5, <1>6, <1>7 DEF Next

\* The inductive invariant of the worker holds in every state.
THEOREM WorkerInvariant == Spec => []Inv
BY InitInv, NextInv, PTL DEF Spec

\* Every variable of the worker keeps its type (TypeOK).
THEOREM WorkerTypeCorrect == Spec => []TypeOK
<1>1. Inv => TypeOK
  BY DEF Inv
<1> QED BY <1>1, WorkerInvariant, PTL

\* Redeliveries and restarts never start an order's process twice: ClaimOrder
\* takes a RECEIVED row only (ExecutedOnce).
THEOREM AtMostOneStart == Spec => []ExecutedOnce
<1>1. Inv => ExecutedOnce
  BY DEF Inv, Handlers, ExecutedOnce
<1> QED BY <1>1, WorkerInvariant, PTL

\* Event numbers of an order are distinct and the unknown event of
\* RecoverOrdersSigned has the highest, whatever compaction deleted
\* (SequencesFresh).
THEOREM FreshSequences == Spec => []SequencesFresh
<1>1. Inv => SequencesFresh
  BY DEF Inv
<1> QED BY <1>1, WorkerInvariant, PTL

\* FinishOrder and recovery close no order without a recorded outcome
\* (ClosedIsReported).
THEOREM OutcomeBeforeClose == Spec => []ClosedIsReported
<1>1. Inv => ClosedIsReported
  BY DEF Inv
<1> QED BY <1>1, WorkerInvariant, PTL

\* Every later process finds the orders of the saved boot closed
\* (SavedBootRecovered).
THEOREM SavedBootClosed == Spec => []SavedBootRecovered
<1>1. Inv => SavedBootRecovered
  BY DEF Inv, Boots
<1> QED BY <1>1, WorkerInvariant, PTL
-----------------------------------------------------------------------------
(* Stopping *)

\* While the process runs, each order it has open is in the hands of a handler.
OpenHandled ==
    Running => \A o \in Orders : inbox[o].state \in OpenStates /\ inbox[o].boot = boot =>
                                    \E d \in Deliveries : Owner(o, d)

\* Every delivery gets a handler of its own.
NotYetDelivered == \A o \in Orders : \A d \in Deliveries : d > msg[o].used => pc[o][d] = "idle"

StopInv == OpenHandled /\ NotYetDelivered /\ CleanStop

\* A handler's step on its own order leaves the others alone and either keeps
\* the order in its hands or leaves it closed or unclaimed.
LEMMA HandedOn ==
    ASSUME StopInv, pc \in [Orders -> [Deliveries -> Steps]], Running, UNCHANGED <<mode, boot>>,
           NEW o \in Orders, NEW d \in Deliveries, NEW step \in Steps,
           pc[o][d] # "idle", pc' = [pc EXCEPT ![o][d] = step],
           \A q \in Orders : msg'[q].used = msg[q].used,
           \A q \in Orders \ {o} : inbox'[q] = inbox[q],
           \/ step \in BeforeStart \cup AfterStart
           \/ inbox'[o].state \notin OpenStates
           \/ inbox'[o] = inbox[o] /\ ~Owner(o, d)
    PROVE  StopInv'
<1>1. /\ pc'[o][d] = step
      /\ \A q \in Orders : \A c \in Deliveries : <<q, c>> # <<o, d>> => pc'[q][c] = pc[q][c]
  OBVIOUS
<1>2. ASSUME NEW q \in Orders, inbox'[q].state \in OpenStates, inbox'[q].boot = boot'
      PROVE  \E c \in Deliveries : Owner(q, c)'
  <2>1. CASE q # o
    <3>1. PICK c \in Deliveries : Owner(q, c)
      BY <1>2, <2>1 DEF StopInv, OpenHandled
    <3>2. Owner(q, c)'
      BY <1>1, <2>1, <3>1 DEF Owner
    <3> QED BY <3>2
  <2>2. CASE q = o /\ step \in BeforeStart \cup AfterStart
    <3>1. Owner(q, d)'
      BY <1>1, <2>2 DEF Owner
    <3> QED BY <3>1
  <2>3. CASE q = o /\ inbox'[o] = inbox[o] /\ ~Owner(o, d)
    <3>1. PICK c \in Deliveries : Owner(o, c)
      BY <1>2, <2>3 DEF StopInv, OpenHandled
    <3>2. Owner(q, c)'
      BY <1>1, <2>3, <3>1 DEF Owner
    <3> QED BY <3>2
  <2> QED BY <1>2, <2>1, <2>2, <2>3
<1>3. CleanStop'
  BY DEF Running, CleanStop
<1>4. NotYetDelivered'
  BY <1>1 DEF StopInv, NotYetDelivered
<1> QED BY <1>2, <1>3, <1>4 DEF StopInv, OpenHandled

\* The steps of a delivery when no write to the local store fails.
LEMMA HandlerHandsOn ==
    ASSUME Inv, StopInv, ~StoreMayFail, NEW o \in Orders, NEW d \in Deliveries,
           \/ \E reply \in Replies : StartReply(o, d, reply)
           \/ HandlerStep(o, d) \/ ClaimOrderFails(o, d) \/ StoreFails(o, d)
    PROVE  StopInv'
<1> DEFINE Hands(step) ==
      /\ Running /\ UNCHANGED <<mode, boot>> /\ step \in Steps
      /\ pc[o][d] # "idle" /\ pc' = [pc EXCEPT ![o][d] = step]
      /\ \A q \in Orders \ {o} : inbox'[q] = inbox[q]
      /\ \/ step \in BeforeStart \cup AfterStart
         \/ inbox'[o].state \notin OpenStates
         \/ inbox'[o] = inbox[o] /\ ~Owner(o, d)
<1>1. /\ pc \in [Orders -> [Deliveries -> Steps]] /\ inbox \in [Orders -> InboxRow]
      /\ Owner(o, d) => inbox[o].state \in OpenStates
  BY DEF Inv, TypeOK, Handlers
<1> DEFINE Counted == \A q \in Orders : msg'[q].used = msg[q].used
<1>0. Counted
  <2>1. msg \in [Orders -> [used : 0..MaxDeliver, acked : BOOLEAN]]
    BY DEF Inv, TypeOK
  <2>2. msg' = msg \/ Return(o, d) \/ Fail(o, d)
    BY DEF StartReply, Replies, HandlerStep, AcceptOrder, ClaimOrder, PersistAccepted, MarkProcessStarted, PersistStarted,
           StartProcess, ProcessExits, PersistTerminal, FinishOrder, ClaimOrderFails, StoreFails
  <2> QED BY <2>1, <2>2 DEF Return, Fail
<1> HIDE DEF Counted
<1>2. CASE \E reply \in Replies : StartReply(o, d, reply)
  <2>1. pc[o][d] = "claim" /\ Running /\ UNCHANGED <<mode, boot, inbox>>
    BY <1>2 DEF StartReply, At, durable
  <2>2. pc' = [pc EXCEPT ![o][d] = "accept"] \/ pc' = [pc EXCEPT ![o][d] = "idle"]
    BY <1>2 DEF StartReply, Replies, Goto, Return, Fail
  <2>3. ~Owner(o, d)
    BY <2>1 DEF Owner, BeforeStart, AfterStart
  <2>4. Hands("accept") \/ Hands("idle")
    BY <2>1, <2>2, <2>3 DEF Steps
  <2> QED BY <2>4, <1>0, <1>1, HandedOn DEF Counted
<1>3. CASE AcceptOrder(o, d)
  <2>1. pc[o][d] = "accept" /\ Running /\ UNCHANGED <<mode, boot>> /\ pc' = [pc EXCEPT ![o][d] = "take"]
    BY <1>3 DEF AcceptOrder, At, Goto
  <2>2. ~Owner(o, d)
    BY <2>1 DEF Owner, BeforeStart, AfterStart
  <2>3. /\ \A q \in Orders \ {o} : inbox'[q] = inbox[q]
        /\ inbox'[o] = inbox[o] \/ inbox'[o].state \notin OpenStates
    BY <1>1, <1>3 DEF AcceptOrder, OpenStates
  <2>4. Hands("take")
    BY <2>1, <2>2, <2>3 DEF Steps
  <2> QED BY <2>4, <1>0, <1>1, HandedOn DEF Counted
<1>4. CASE ClaimOrder(o, d)
  <2>1. pc[o][d] = "take" /\ Running /\ UNCHANGED <<mode, boot>>
    BY <1>4 DEF ClaimOrder, At
  <2>2. ~Owner(o, d)
    BY <2>1 DEF Owner, BeforeStart, AfterStart
  <2>3. \/ /\ pc' = [pc EXCEPT ![o][d] = "accepted"]
           /\ \A q \in Orders \ {o} : inbox'[q] = inbox[q]
        \/ pc' = [pc EXCEPT ![o][d] = "idle"] /\ inbox' = inbox
    BY <1>1, <1>4 DEF ClaimOrder, Goto, Return
  <2>4. Hands("accepted") \/ Hands("idle")
    BY <2>1, <2>2, <2>3 DEF Steps, BeforeStart
  <2> QED BY <2>4, <1>0, <1>1, HandedOn DEF Counted
<1>5. CASE PersistAccepted(o, d) \/ PersistStarted(o, d) \/ StartProcess(o, d)
           \/ (\E kind \in ExitKinds : ProcessExits(o, d, kind)) \/ PersistTerminal(o, d)
  <2>1. pc[o][d] # "idle" /\ Running /\ UNCHANGED <<mode, boot, inbox>>
    BY <1>5 DEF PersistAccepted, PersistStarted, StartProcess, ProcessExits, PersistTerminal, At, durable
  <2>2. \E step \in {"mark", "register", "run", "report", "close"} : pc' = [pc EXCEPT ![o][d] = step]
    BY <1>5 DEF PersistAccepted, PersistStarted, StartProcess, ProcessExits, PersistTerminal, Goto
  <2>3. \E step \in {"mark", "register", "run", "report", "close"} : Hands(step)
    BY <2>1, <2>2 DEF Steps, BeforeStart, AfterStart
  <2> QED BY <2>3, <1>0, <1>1, HandedOn DEF Counted
<1>6. CASE MarkProcessStarted(o, d)
  <2>1. pc[o][d] # "idle" /\ Running /\ UNCHANGED <<mode, boot>> /\ pc' = [pc EXCEPT ![o][d] = "started"]
    BY <1>6 DEF MarkProcessStarted, At, Goto
  <2>2. \A q \in Orders \ {o} : inbox'[q] = inbox[q]
    BY <1>1, <1>6 DEF MarkProcessStarted
  <2>3. Hands("started")
    BY <2>1, <2>2 DEF Steps, BeforeStart
  <2> QED BY <2>3, <1>0, <1>1, HandedOn DEF Counted
<1>7. CASE FinishOrder(o, d)
  <2>1. pc[o][d] # "idle" /\ Running /\ UNCHANGED <<mode, boot>> /\ pc' = [pc EXCEPT ![o][d] = "idle"]
    BY <1>7 DEF FinishOrder, At, Return
  <2>2. /\ \A q \in Orders \ {o} : inbox'[q] = inbox[q]
        /\ inbox'[o].state \notin OpenStates
    BY <1>1, <1>7 DEF FinishOrder, InboxRow, OpenStates, terminalState
  <2>3. Hands("idle")
    BY <2>1, <2>2 DEF Steps
  <2> QED BY <2>3, <1>0, <1>1, HandedOn DEF Counted
<1>8. ~ClaimOrderFails(o, d) /\ ~StoreFails(o, d)
  BY DEF ClaimOrderFails, StoreFails
<1> QED BY <1>2, <1>3, <1>4, <1>5, <1>6, <1>7, <1>8 DEF HandlerStep

\* Every step of a worker whose store takes every write.
LEMMA StopStep == Inv /\ StopInv /\ ~StoreMayFail /\ [Next]_vars => StopInv'
<1> SUFFICES ASSUME Inv, StopInv, ~StoreMayFail, [Next]_vars PROVE StopInv'
  OBVIOUS
<1>1. CASE Boot
  <2>1. Running' /\ mode' = "up" /\ boot' = boot + 1
    BY <1>1 DEF Boot, Running
  <2>2. \A o \in Orders : inbox'[o].boot = inbox[o].boot /\ inbox[o].boot <= boot
    BY <1>1 DEF Boot, Inv, TypeOK, InboxRow, Boots
  <2>3. boot \in Int /\ \A o \in Orders : inbox[o].boot \in Int
    BY WorkerAssumption DEF Inv, TypeOK, InboxRow
  <2>4. \A o \in Orders : inbox'[o].boot # boot'
    BY <2>1, <2>2, <2>3
  <2>5. NotYetDelivered'
    BY <1>1 DEF Boot, StopInv, NotYetDelivered
  <2> QED BY <2>1, <2>4, <2>5 DEF StopInv, OpenHandled, CleanStop
<1>2. CASE Crash
  BY <1>2 DEF Crash, StopInv, OpenHandled, NotYetDelivered, CleanStop, Running
<1>3. CASE Stop
  BY <1>3 DEF Stop, StopInv, OpenHandled, NotYetDelivered, CleanStop, Running, Owner, durable
<1>4. CASE Stopped
  <2>1. \A o \in Orders : \A d \in Deliveries : ~Owner(o, d)
    <3> SUFFICES ASSUME NEW o \in Orders, NEW d \in Deliveries, Owner(o, d) PROVE FALSE
      OBVIOUS
    <3>1. <<o, d>> \in Busy
      BY DEF Busy, Owner, BeforeStart, AfterStart
    <3> QED BY <1>4, <3>1 DEF Stopped
  <2>2. Running /\ ~Running' /\ UNCHANGED <<boot, inbox, msg, pc>>
    BY <1>4 DEF Stopped, Running, durable
  <2> QED BY <2>1, <2>2 DEF StopInv, OpenHandled, NotYetDelivered, CleanStop
<1>5. ASSUME NEW o \in Orders, SendCancel(o) \/ TakeCancel(o) \/ ExpireCancel(o)
                               \/ Publish(o) \/ CompactPublishedEvents(o)
      PROVE  StopInv'
  BY <1>5 DEF SendCancel, TakeCancel, ExpireCancel, Publish, CompactPublishedEvents, durable,
              StopInv, OpenHandled, NotYetDelivered, CleanStop, Running, Owner
<1>6. ASSUME NEW o \in Orders, Deliver(o)
      PROVE  StopInv'
  <2>1. Running /\ Running' /\ mode' # "stopped" /\ UNCHANGED <<mode, boot, inbox>>
    BY <1>6 DEF Deliver, Running, durable
  <2>2. PICK n \in Deliveries :
          /\ n = msg[o].used + 1 /\ pc' = [pc EXCEPT ![o][n] = "claim"]
          /\ msg' = [msg EXCEPT ![o].used = n]
    <3>1. msg[o].used \in 0..MaxDeliver /\ msg[o].used < MaxDeliver /\ MaxDeliver \in Nat
      BY <1>6, WorkerAssumption DEF Deliver, Inv, TypeOK
    <3>2. msg[o].used + 1 \in Deliveries
      BY <3>1 DEF Deliveries
    <3> QED BY <1>6, <3>2 DEF Deliver
  <2>3. pc \in [Orders -> [Deliveries -> Steps]] /\ msg \in [Orders -> [used : 0..MaxDeliver, acked : BOOLEAN]]
    BY DEF Inv, TypeOK
  <2>4. n > msg[o].used /\ \A c \in Deliveries : c > n => c > msg[o].used
    BY <2>2, <2>3, WorkerAssumption DEF Deliveries
  <2>5. pc[o][n] = "idle"
    BY <2>4 DEF StopInv, NotYetDelivered
  <2>6. /\ pc'[o][n] = "claim"
        /\ \A q \in Orders : \A c \in Deliveries : <<q, c>> # <<o, n>> => pc'[q][c] = pc[q][c]
    BY <2>2, <2>3
  <2>7. \A q \in Orders : \A c \in Deliveries : Owner(q, c) => Owner(q, c)'
    BY <2>5, <2>6 DEF Owner, BeforeStart, AfterStart
  <2>8. NotYetDelivered'
    <3>1. msg'[o].used = n /\ \A q \in Orders \ {o} : msg'[q] = msg[q]
      BY <2>2, <2>3
    <3>2. ~(n > n)
      BY DEF Deliveries
    <3> QED BY <2>4, <2>6, <3>1, <3>2 DEF StopInv, NotYetDelivered
  <2> QED BY <2>1, <2>7, <2>8 DEF StopInv, OpenHandled, CleanStop
<1>7. ASSUME NEW o \in Orders, NEW d \in Deliveries,
             \/ \E reply \in Replies : StartReply(o, d, reply)
             \/ HandlerStep(o, d) \/ ClaimOrderFails(o, d) \/ StoreFails(o, d)
      PROVE  StopInv'
  BY <1>7, HandlerHandsOn
<1>8. CASE UNCHANGED vars
  BY <1>8 DEF vars, StopInv, OpenHandled, NotYetDelivered, CleanStop, Running, Owner
<1> QED BY <1>1, <1>2, <1>3, <1>4, <1>5, <1>6, <1>7, <1>8 DEF Next

\* A worker whose local store takes every write and that is stopped in order
\* has closed what it opened: it exits only when its handlers have returned,
\* and a handler returns an order it claimed closed (CleanStop).
THEOREM StopsClean == ~StoreMayFail /\ Spec => []CleanStop
<1> SUFFICES ASSUME ~StoreMayFail PROVE Spec => []CleanStop
  OBVIOUS
<1>1. Init => StopInv
  BY DEF Init, StopInv, OpenHandled, NotYetDelivered, CleanStop, Running
<1>2. StopInv => CleanStop
  BY DEF StopInv
<1>3. Inv /\ StopInv /\ [Next]_vars => StopInv'
  BY StopStep
<1> QED BY <1>1, <1>2, <1>3, WorkerInvariant, PTL DEF Spec
=============================================================================
