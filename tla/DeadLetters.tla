----------------------------- MODULE DeadLetters ----------------------------
(***************************************************************************)
(* Delivery, failure and recovery of queued messages: a durable JetStream  *)
(* consumer (backend/internal/queue/nats.go), the table dead_letters       *)
(* (internal/store/dead_letters.go) and the administrator's retry and      *)
(* reconcile calls (internal/api/dead_letters.go).                         *)
(*                                                                         *)
(* A message is delivered at most MaxDeliver times.  The control plane's   *)
(* consumers have a dead-letter sink, the workers' do not: an order or a   *)
(* control command that a worker gives up leaves a notice and no letter.   *)
(* A retry of a letter publishes its payload as a new message.  JetStream  *)
(* itself is external: it redelivers a message that was negatively         *)
(* acknowledged or whose consumer stopped, and forgets it when it is       *)
(* acknowledged or its deliveries are used up.                             *)
(***************************************************************************)
EXTENDS Integers, FiniteSets

CONSTANTS
    Originals,   \* ids of messages other parts of the system publish
    Sinkless,    \* those that go to a worker
    Copies,      \* ids of retries
    Admins,      \* retry requests that may be under way at once
    MaxDeliver,  \* deliveries of a message (5)
    MaxRetries   \* MaxDeadLetterRetryAttempts (10)

ASSUME DeadLettersAssumption ==
    /\ Originals \cap Copies = {} /\ Sinkless \subseteq Originals
    /\ MaxDeliver \in Nat \ {0}
    /\ MaxRetries \in Nat \ {0}

VARIABLES
    message,   \* the stream and its consumer
    letter,    \* dead_letters, named by the message that failed
    retry,     \* the retry requests under way
    mishap     \* history: messages whose last delivery ended in a crash or a failed write or publication

letterVars == <<message, letter, retry, mishap>>

Messages == Originals \cup Copies

\* sunk: the letter is stored, the notice not yet published; noticed: given up
\* with a notice that holds the error and not the payload
MessageRow == [state : {"none", "waiting", "handled", "sunk", "done", "noticed", "spent"},
               delivered : 0..MaxDeliver,
               from : SUBSET Messages]      \* the letter it retries (history)
LetterStates == {"none", "OPEN", "RETRY_QUEUED", "CLOSED"}     \* CLOSED: RECONCILED or DISCARDED
LetterRow == [state : LetterStates,
              attempts : 0..MaxRetries,     \* retry_attempts
              published : BOOLEAN,          \* retry_published_at
              delayed : BOOLEAN]            \* retry_available_at is in the future
Retry == [step : {"idle", "publish", "failed", "published"}, letter : SUBSET Messages, payload : BOOLEAN]
NoRetry == [step |-> "idle", letter |-> {}, payload |-> FALSE]
NoLetter == [state |-> "none", attempts |-> 0, published |-> FALSE, delayed |-> FALSE]

SetMessage(m, state) == message' = [message EXCEPT ![m].state = state]
SetLetter(m, row) == letter' = [letter EXCEPT ![m] = row]
SetRetry(h, step) == retry' = [retry EXCEPT ![h].step = step]

InitLetters ==
    /\ message = [m \in Messages |-> [state |-> "none", delivered |-> 0, from |-> {}]]
    /\ letter = [m \in Messages |-> NoLetter]
    /\ retry = [h \in Admins |-> NoRetry]
    /\ mishap = {}

-----------------------------------------------------------------------------
(* The consumer *)

PublishMessage(m) ==
    /\ m \in Originals /\ message[m].state = "none"
    /\ SetMessage(m, "waiting")
    /\ UNCHANGED <<letter, retry, mishap>>

Deliver(m) ==
    /\ message[m].state = "waiting"
    /\ message' = [message EXCEPT ![m].state = "handled", ![m].delivered = @ + 1]
    /\ UNCHANGED <<letter, retry, mishap>>

LastDelivery(m) == message[m].delivered >= MaxDeliver

\* not acknowledged: delivered again, unless that was the last time
Redeliver(m) == SetMessage(m, IF LastDelivery(m) THEN "spent" ELSE "waiting")

\* processMessage: the handler succeeded; the acknowledgement may be lost
HandlerSucceeds(m) ==
    /\ message[m].state = "handled"
    /\ SetMessage(m, "done")
    /\ UNCHANGED <<letter, retry, mishap>>

HandlerFailsEarly(m) ==
    /\ message[m].state = "handled" /\ ~LastDelivery(m)
    /\ Redeliver(m)
    /\ UNCHANGED <<letter, retry, mishap>>

\* INSERT ... ON CONFLICT (stream, consumer, message_id) DO NOTHING
Persist(m) ==
    IF letter[m].state = "none" THEN SetLetter(m, [NoLetter EXCEPT !.state = "OPEN"]) ELSE UNCHANGED letter

FailLastUnstored(m) ==
    /\ message[m].state = "handled" /\ LastDelivery(m) /\ m \notin Sinkless
    /\ SetMessage(m, "sunk")
    /\ UNCHANGED <<letter, retry, mishap>>

\* handleFailedMessage on the last delivery: the sink stores the letter
HandlerFailsLast(m) ==
    /\ message[m].state = "handled" /\ LastDelivery(m) /\ m \notin Sinkless
    /\ Persist(m)
    /\ SetMessage(m, "sunk")
    /\ UNCHANGED <<retry, mishap>>

\* without a sink: the error is published and the message acknowledged, or the
\* publication fails
HandlerFailsWithoutSink(m) ==
    /\ message[m].state = "handled" /\ LastDelivery(m) /\ m \in Sinkless
    /\ \/ SetMessage(m, "noticed") /\ UNCHANGED mishap
       \/ Redeliver(m) /\ mishap' = mishap \cup {m}
    /\ UNCHANGED <<letter, retry>>

\* the notice is published and the message acknowledged, or neither
PublishNotice(m) ==
    /\ message[m].state = "sunk"
    /\ SetMessage(m, "done") \/ Redeliver(m)
    /\ UNCHANGED <<letter, retry, mishap>>

\* The sink fails, or the consumer stops while it has the message.
LoseDelivery(m) ==
    /\ message[m].state \in {"handled", "sunk"}
    /\ Redeliver(m)
    /\ mishap' = IF LastDelivery(m) /\ message[m].state = "handled" THEN mishap \cup {m} ELSE mishap
    /\ UNCHANGED <<letter, retry>>

-----------------------------------------------------------------------------
(* Recovery *)

\* OPEN, or queued and not published, due and with attempts left
ClaimableLetter(m) ==
    \/ letter[m].state = "OPEN"
    \/ /\ letter[m].state = "RETRY_QUEUED"
       /\ ~letter[m].published /\ letter[m].attempts < MaxRetries /\ ~letter[m].delayed

\* only the first claim decrypts the payload
CarriesPayload(m) == letter[m].state = "OPEN"

\* what BeginRetry's UPDATE leaves
QueuedLetter(m) ==
    IF letter[m].state = "OPEN"
    THEN [state |-> "RETRY_QUEUED", attempts |-> 1, published |-> FALSE, delayed |-> FALSE]
    ELSE [letter[m] EXCEPT !.attempts = @ + 1, !.delayed = FALSE]

BeginRetry(h, m) ==
    /\ retry[h] = NoRetry
    /\ ClaimableLetter(m)
    /\ SetLetter(m, QueuedLetter(m))
    /\ retry' = [retry EXCEPT ![h] = [step |-> "publish", letter |-> {m}, payload |-> CarriesPayload(m)]]
    /\ UNCHANGED <<message, mishap>>

\* Publish refuses a message without data.  The server recognises a repeated id
\* only for two minutes, which later attempts exceed; its answer may be lost.
PublishRetry(h, m, id) ==
    /\ retry[h].step = "publish" /\ retry[h].letter = {m}
    /\ retry[h].payload
    /\ message[id].state = "none"
    /\ message' = [message EXCEPT ![id] = [state |-> "waiting", delivered |-> 0, from |-> {m}]]
    /\ SetRetry(h, "published") \/ SetRetry(h, "failed")
    /\ UNCHANGED <<letter, mishap>>

PublishRetryFails(h) ==
    /\ retry[h].step = "publish"
    /\ SetRetry(h, "failed")
    /\ UNCHANGED <<message, letter, mishap>>

\* WHERE state = 'RETRY_QUEUED'
MarkPublishedRow(row) ==
    IF row.state = "RETRY_QUEUED" THEN [row EXCEPT !.published = TRUE, !.delayed = FALSE] ELSE row

MarkRetryPublished(h, m) ==
    /\ retry[h].step = "published" /\ retry[h].letter = {m}
    /\ SetLetter(m, MarkPublishedRow(letter[m]))
    /\ retry' = [retry EXCEPT ![h] = NoRetry]
    /\ UNCHANGED <<message, mishap>>

\* WHERE state = 'RETRY_QUEUED' AND retry_published_at IS NULL
MarkRetryFailed(h, m) ==
    /\ retry[h].step = "failed" /\ retry[h].letter = {m}
    /\ SetLetter(m, IF letter[m].state = "RETRY_QUEUED" /\ ~letter[m].published
                    THEN [letter[m] EXCEPT !.delayed = letter[m].attempts < MaxRetries] ELSE letter[m])
    /\ retry' = [retry EXCEPT ![h] = NoRetry]
    /\ UNCHANGED <<message, mishap>>

\* the control plane stops, or its last write fails
DropRetry(h) ==
    /\ retry[h] # NoRetry
    /\ retry' = [retry EXCEPT ![h] = NoRetry]
    /\ UNCHANGED <<message, letter, mishap>>

\* the back-off passes
RetryBecomesDue(m) ==
    /\ letter[m].state = "RETRY_QUEUED" /\ letter[m].delayed
    /\ SetLetter(m, [letter[m] EXCEPT !.delayed = FALSE])
    /\ UNCHANGED <<message, retry, mishap>>

Reconcile(m) ==
    /\ letter[m].state \in {"OPEN", "RETRY_QUEUED"}
    /\ SetLetter(m, [letter[m] EXCEPT !.state = "CLOSED"])
    /\ UNCHANGED <<message, retry, mishap>>

-----------------------------------------------------------------------------

NextLetters ==
    \/ \E m \in Messages :
        \/ PublishMessage(m) \/ Deliver(m)
        \/ HandlerSucceeds(m) \/ HandlerFailsEarly(m) \/ HandlerFailsLast(m) \/ HandlerFailsWithoutSink(m)
        \/ PublishNotice(m) \/ LoseDelivery(m)
        \/ RetryBecomesDue(m)
        \/ Reconcile(m)
    \/ \E h \in Admins :
        \/ PublishRetryFails(h)
        \/ DropRetry(h)
        \/ \E m \in Messages :
            \/ BeginRetry(h, m) \/ MarkRetryPublished(h, m) \/ MarkRetryFailed(h, m)
            \/ \E id \in Copies : PublishRetry(h, m, id)

SpecLetters == InitLetters /\ [][NextLetters]_letterVars

-----------------------------------------------------------------------------
(* Properties *)

\* Every row has its type; in particular a letter is claimed at most MaxRetries
\* times.
LettersTypeOK ==
    /\ message \in [Messages -> MessageRow]
    /\ letter \in [Messages -> LetterRow]
    /\ retry \in [Admins -> Retry]
    /\ mishap \subseteq Messages

\* A message whose deliveries are used up is not forgotten: it has a letter an
\* administrator can act on, unless it went to a worker, which then published a
\* notice, or its very last delivery met a failing sink, a failed publication or
\* a stop of the consumer.
NothingForgotten ==
    \A m \in Messages :
        /\ message[m].state = "spent" /\ m \notin mishap => letter[m].state # "none"
        /\ message[m].state = "noticed" => m \in Sinkless

\* The messages that put letter m back into the queue.
CopiesOf(m) == {k \in Messages : message[k].from = {m}}

\* A letter is put back into the queue at most once for each time it was
\* claimed, however many retry requests race, fail or are interrupted.  The
\* development profile allows ten attempts, but only the first claim has a
\* payload to publish (CarriesPayload): a letter whose first attempt failed is
\* claimed again and never published.
OneCopyPerClaim == \A m \in Messages : Cardinality(CopiesOf(m)) <= letter[m].attempts

\* A letter marked as published was published: its retry message exists.
PublishedWasSent ==
    \A m \in Messages : letter[m].published => \E k \in Messages : message[k].from = {m}

\* A letter that was reconciled or discarded is never opened or claimed again,
\* by no request that began before.
ClosedLettersStay ==
    [][\A m \in Messages : letter[m].state = "CLOSED" => letter'[m] = letter[m]]_letterVars

\* A message that failed is on record until an administrator is done with it,
\* and a retry is neither doubled nor pretended.
LettersAccounted == [](NothingForgotten /\ OneCopyPerClaim /\ PublishedWasSent) /\ ClosedLettersStay
=============================================================================
