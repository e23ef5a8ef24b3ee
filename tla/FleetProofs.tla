---------------------------- MODULE FleetProofs -----------------------------
(***************************************************************************)
(* Proofs about the runner fleet (Fleet), the messages that failed         *)
(* (DeadLetters) and the output of an attempt (RunLogs), and with those of *)
(* EstateProofs and ProjectionProofs about the parts together (MCEstate),  *)
(* each for any values of its constants.                                   *)
(***************************************************************************)
EXTENDS MCEstate, EstateProofs, ProjectionProofs, TLAPS, SequenceTheorems, FiniteSetTheorems

-----------------------------------------------------------------------------
(* DeadLetters *)

\* A request that may still put letter m's payload into the queue.
MayPublish(h, m) == retry[h].step = "publish" /\ retry[h].payload /\ retry[h].letter = {m}
Requeued(m) == \E k \in Messages : message[k].from = {m}

\* No letter has two messages that retry it.
OneRedelivery ==
    \A j, k \in Messages : message[j].from # {} /\ message[j].from = message[k].from => j = k

\* A letter that was never claimed has none, and no request that may publish one.
Counted ==
    \A m \in Messages : letter[m].attempts = 0 => ~Requeued(m) /\ \A h \in Admins : ~MayPublish(h, m)

\* What the last delivery leaves, and that only the claim that opened a letter
\* carries its payload: an unclaimed letter has neither a request nor a message.
LettersOnRecord ==
    /\ \A m \in Messages :
        /\ message[m].state = "none" => message[m].from = {} /\ message[m].delivered = 0
        /\ message[m].state = "waiting" => message[m].delivered < MaxDeliver
        /\ message[m].state = "sunk" => letter[m].state # "none"
        /\ letter[m].state \in {"none", "OPEN"} => ~Requeued(m) /\ \A h \in Admins : ~MayPublish(h, m)
        /\ Requeued(m) => \A h \in Admins : ~MayPublish(h, m)
        /\ \A h \in Admins : retry[h].step = "published" /\ retry[h].letter = {m} => Requeued(m)
    /\ \A m \in Messages : \A g, h \in Admins : MayPublish(g, m) /\ MayPublish(h, m) => g = h
    /\ \A k \in Messages : message[k].from # {} => \E m \in Messages : message[k].from = {m}

LettersInv ==
    /\ LettersTypeOK /\ LettersOnRecord
    /\ NothingForgotten /\ OneRedelivery /\ PublishedWasSent

\* The first state.
LEMMA LettersInit == InitLetters => LettersInv
<1> SUFFICES ASSUME InitLetters PROVE LettersInv
  OBVIOUS
<1>1. /\ [state |-> "none", delivered |-> 0, from |-> {}] \in MessageRow
      /\ NoLetter \in LetterRow /\ NoRetry \in Retry
  BY DeadLettersAssumption DEF MessageRow, NoLetter, LetterRow, LetterStates, NoRetry, Retry
<1>2. LettersTypeOK
  BY <1>1 DEF InitLetters, LettersTypeOK
<1>3. /\ \A m \in Messages : message[m].state = "none" /\ message[m].from = {} /\ message[m].delivered = 0
                            /\ ~letter[m].published
      /\ \A h \in Admins : retry[h].step = "idle"
  BY DEF InitLetters, NoLetter, NoRetry
<1>4. \A m \in Messages : ~Requeued(m) /\ \A h \in Admins : ~MayPublish(h, m)
  BY <1>3 DEF Requeued, MayPublish
<1>5. LettersOnRecord
  BY <1>3, <1>4 DEF LettersOnRecord
<1> QED
  BY <1>2, <1>3, <1>5 DEF LettersInv, NothingForgotten, OneRedelivery, PublishedWasSent

\* The consumer's steps: one message moves on, and its letter may be opened.
ConsumerStep(m) ==
    /\ \E row \in MessageRow :
        /\ message' = [message EXCEPT ![m] = row]
        /\ row.from = message[m].from
        /\ row.state # "none"
        /\ row.state = "waiting" => row.delivered < MaxDeliver
        /\ row.state = "sunk" => letter'[m].state # "none"
        /\ row.state = "spent" => letter'[m].state # "none" \/ m \in mishap'
        /\ row.state = "noticed" => m \in Sinkless
    /\ letter' = letter \/ (letter[m].state = "none" /\ letter' = [letter EXCEPT ![m] = [NoLetter EXCEPT !.state = "OPEN"]])
    /\ retry' = retry /\ mishap \subseteq mishap' /\ mishap' \subseteq Messages

\* Every step of the consumer has that shape.
LEMMA ConsumerSteps ==
    ASSUME LettersInv, NEW m \in Messages,
           \/ PublishMessage(m) \/ Deliver(m) \/ HandlerSucceeds(m) \/ HandlerFailsEarly(m)
           \/ HandlerFailsLast(m) \/ HandlerFailsWithoutSink(m) \/ PublishNotice(m) \/ LoseDelivery(m)
    PROVE  ConsumerStep(m)
<1>1. /\ message \in [Messages -> MessageRow] /\ message[m] \in MessageRow
      /\ letter \in [Messages -> LetterRow] /\ mishap \subseteq Messages
      /\ message[m].delivered \in 0..MaxDeliver /\ MaxDeliver \in Nat \ {0}
  BY DeadLettersAssumption DEF LettersInv, LettersTypeOK, MessageRow
<1> DEFINE Shape(row) ==
             /\ row \in MessageRow
             /\ message' = [message EXCEPT ![m] = row]
             /\ row.from = message[m].from
             /\ row.state # "none"
             /\ row.state = "waiting" => row.delivered < MaxDeliver
             /\ row.state = "sunk" => letter'[m].state # "none"
             /\ row.state = "spent" => letter'[m].state # "none" \/ m \in mishap'
             /\ row.state = "noticed" => m \in Sinkless
<1>2. ASSUME NEW state \in {"waiting", "done", "sunk", "noticed", "spent"}, SetMessage(m, state),
             state = "waiting" => message[m].delivered < MaxDeliver,
             state = "sunk" => letter'[m].state # "none",
             state = "spent" => letter'[m].state # "none" \/ m \in mishap',
             state = "noticed" => m \in Sinkless
      PROVE  Shape([message[m] EXCEPT !.state = state])
  BY <1>1, <1>2 DEF SetMessage, MessageRow
<1>3. LastDelivery(m) <=> message[m].delivered = MaxDeliver
  BY <1>1 DEF LastDelivery
<1>4. ASSUME Redeliver(m), LastDelivery(m) => letter'[m].state # "none" \/ m \in mishap'
      PROVE  \E row : Shape(row)
  <2>1. CASE LastDelivery(m)
    <3>1. SetMessage(m, "spent")
      BY <1>4, <2>1 DEF Redeliver
    <3> HIDE DEF Shape
    <3> QED
      BY <1>2, <1>4, <2>1, <3>1
  <2>2. CASE ~LastDelivery(m)
    <3>1. SetMessage(m, "waiting") /\ message[m].delivered < MaxDeliver
      BY <1>1, <1>3, <1>4, <2>2 DEF Redeliver
    <3> HIDE DEF Shape
    <3> QED
      BY <1>2, <3>1
  <2> QED
    BY <2>1, <2>2
<1>5. /\ mishap \subseteq mishap' /\ mishap' \subseteq Messages /\ retry' = retry
      /\ \/ letter' = letter
         \/ letter[m].state = "none" /\ letter' = [letter EXCEPT ![m] = [NoLetter EXCEPT !.state = "OPEN"]]
  BY <1>1 DEF PublishMessage, Deliver, HandlerSucceeds, HandlerFailsEarly, HandlerFailsLast, Persist, SetLetter,
              HandlerFailsWithoutSink, PublishNotice, LoseDelivery
<1> SUFFICES \E row : Shape(row)
  BY <1>5 DEF ConsumerStep
<1>6. CASE PublishMessage(m)
  <2>1. SetMessage(m, "waiting") /\ message[m].delivered < MaxDeliver
    BY <1>1, <1>6 DEF PublishMessage, LettersInv, LettersOnRecord
  <2> HIDE DEF Shape
  <2> QED
    BY <1>2, <2>1
<1>7. CASE Deliver(m)
  <2> DEFINE row == [message[m] EXCEPT !.state = "handled", !.delivered = message[m].delivered + 1]
  <2>1. message[m].delivered < MaxDeliver
    BY <1>7 DEF Deliver, LettersInv, LettersOnRecord
  <2>2. row \in MessageRow /\ row.state = "handled" /\ row.from = message[m].from
    <3>1. message[m].delivered + 1 \in 0..MaxDeliver
      BY <1>1, <2>1
    <3> QED
      BY <1>1, <3>1 DEF MessageRow
  <2>3. message' = [message EXCEPT ![m] = row]
    BY <1>1, <1>7 DEF Deliver
  <2> HIDE DEF row
  <2>4. Shape(row)
    BY <2>2, <2>3
  <2> QED
    BY <2>4
<1>8. CASE HandlerSucceeds(m)
  <2>1. SetMessage(m, "done")
    BY <1>8 DEF HandlerSucceeds
  <2> HIDE DEF Shape
  <2> QED
    BY <1>2, <2>1
<1>9. CASE HandlerFailsEarly(m)
  BY <1>4, <1>9 DEF HandlerFailsEarly
<1>10. CASE HandlerFailsLast(m)
  <2>1. SetMessage(m, "sunk") /\ Persist(m)
    BY <1>10 DEF HandlerFailsLast
  <2>2. letter'[m].state # "none"
    BY <1>1, <2>1 DEF Persist, SetLetter, NoLetter
  <2> HIDE DEF Shape
  <2> QED
    BY <1>2, <2>1, <2>2
<1>11. CASE PublishNotice(m)
  <2>1. letter'[m].state # "none"
    BY <1>11 DEF PublishNotice, LettersInv, LettersOnRecord
  <2>2. SetMessage(m, "done") \/ Redeliver(m)
    BY <1>11 DEF PublishNotice
  <2> HIDE DEF Shape
  <2> QED
    BY <1>2, <1>4, <2>1, <2>2
<1>12. CASE LoseDelivery(m)
  <2>1. Redeliver(m) /\ letter' = letter
    BY <1>12 DEF LoseDelivery
  <2>2. LastDelivery(m) => letter'[m].state # "none" \/ m \in mishap'
    BY <1>12 DEF LoseDelivery, LettersInv, LettersOnRecord
  <2> QED
    BY <1>4, <2>1, <2>2
<1>13. CASE HandlerFailsWithoutSink(m)
  <2>1. m \in Sinkless /\ (SetMessage(m, "noticed") \/ (Redeliver(m) /\ m \in mishap'))
    BY <1>13 DEF HandlerFailsWithoutSink
  <2> HIDE DEF Shape
  <2> QED
    BY <1>2, <1>4, <2>1
<1> QED
  BY <1>6, <1>7, <1>8, <1>9, <1>10, <1>11, <1>12, <1>13

\* Nothing is said of a letter that is closed.
ClosedKept == \A m \in Messages : letter[m].state = "CLOSED" => letter'[m] = letter[m]

\* The consumer keeps every letter on record.
LEMMA ConsumerKeeps ==
    ASSUME LettersInv, NEW m \in Messages, ConsumerStep(m)
    PROVE  LettersInv' /\ ClosedKept
<1>1. /\ message \in [Messages -> MessageRow] /\ letter \in [Messages -> LetterRow]
      /\ retry' = retry /\ mishap \subseteq mishap' /\ mishap' \subseteq Messages
  BY DEF LettersInv, LettersTypeOK, ConsumerStep
<1>2. PICK row \in MessageRow :
        /\ message' = [message EXCEPT ![m] = row]
        /\ row.from = message[m].from
        /\ row.state # "none"
        /\ row.state = "waiting" => row.delivered < MaxDeliver
        /\ row.state = "sunk" => letter'[m].state # "none"
        /\ row.state = "spent" => letter'[m].state # "none" \/ m \in mishap'
        /\ row.state = "noticed" => m \in Sinkless
  BY DEF ConsumerStep
<1>3. \/ letter' = letter
      \/ letter[m].state = "none" /\ letter' = [letter EXCEPT ![m] = [NoLetter EXCEPT !.state = "OPEN"]]
  BY DEF ConsumerStep
<1>4. /\ [NoLetter EXCEPT !.state = "OPEN"] \in LetterRow
      /\ [NoLetter EXCEPT !.state = "OPEN"].state = "OPEN"
      /\ [NoLetter EXCEPT !.state = "OPEN"].published = FALSE
  <2>1. 0 \in 0..MaxRetries
    BY DeadLettersAssumption
  <2> QED
    BY <2>1 DEF NoLetter, LetterRow, LetterStates
<1>5. /\ \A k \in Messages : message'[k] = IF k = m THEN row ELSE message[k]
      /\ \A k \in Messages : message'[k].from = message[k].from
      /\ \A k \in Messages :
           \/ letter'[k] = letter[k]
           \/ k = m /\ letter[k].state = "none" /\ letter'[k].state = "OPEN" /\ ~letter'[k].published
  BY <1>1, <1>2, <1>3, <1>4
<1>6. LettersTypeOK'
  BY <1>1, <1>2, <1>3, <1>4 DEF LettersInv, LettersTypeOK
<1>7. \A k \in Messages : Requeued(k)' = Requeued(k) /\ \A h \in Admins : MayPublish(h, k)' = MayPublish(h, k)
  BY <1>1, <1>5 DEF Requeued, MayPublish
<1>8. LettersOnRecord'
  <2>1. \A k \in Messages :
          /\ message'[k].state = "none" => message'[k].from = {} /\ message'[k].delivered = 0
          /\ message'[k].state = "waiting" => message'[k].delivered < MaxDeliver
          /\ message'[k].state = "sunk" => letter'[k].state # "none"
    BY <1>2, <1>5 DEF LettersInv, LettersOnRecord
  <2>2. \A k \in Messages :
          letter'[k].state \in {"none", "OPEN"} => ~Requeued(k) /\ \A h \in Admins : ~MayPublish(h, k)
    BY <1>5 DEF LettersInv, LettersOnRecord
  <2> QED
    BY <1>1, <1>5, <1>7, <2>1, <2>2 DEF LettersInv, LettersOnRecord
<1>9. NothingForgotten'
  BY <1>1, <1>2, <1>5 DEF LettersInv, NothingForgotten
<1>10. OneRedelivery' /\ PublishedWasSent'
  BY <1>5 DEF LettersInv, OneRedelivery, PublishedWasSent
<1>11. ClosedKept
  BY <1>5 DEF ClosedKept
<1> QED
  BY <1>6, <1>8, <1>9, <1>10, <1>11 DEF LettersInv

\* A step that changes one letter that was there, and no message or request.
LEMMA LetterRowKeeps ==
    ASSUME LettersInv, NEW m \in Messages, NEW row \in LetterRow,
           letter' = [letter EXCEPT ![m] = row], UNCHANGED <<message, mishap>>,
           letter[m].state = "CLOSED" => row = letter[m],
           row.state = "none" => letter[m].state = "none",
           row.published => letter[m].published \/ Requeued(m)
    PROVE  /\ LettersTypeOK /\ retry' \in [Admins -> Retry] => LettersTypeOK'
           /\ NothingForgotten' /\ OneRedelivery' /\ PublishedWasSent' /\ ClosedKept
           /\ \A k \in Messages : Requeued(k)' = Requeued(k) /\ message'[k] = message[k]
           /\ \A k \in Messages \ {m} : letter'[k] = letter[k]
           /\ letter'[m] = row
<1>1. letter \in [Messages -> LetterRow] /\ \A k \in Messages : letter'[k] = IF k = m THEN row ELSE letter[k]
  BY DEF LettersInv, LettersTypeOK
<1>2. /\ retry' \in [Admins -> Retry] => LettersTypeOK'
      /\ NothingForgotten'
  BY <1>1 DEF LettersInv, LettersTypeOK, NothingForgotten
<1>3. OneRedelivery' /\ ClosedKept
  BY <1>1 DEF LettersInv, OneRedelivery, ClosedKept
<1>4. PublishedWasSent' /\ \A k \in Messages : Requeued(k)' = Requeued(k)
  BY <1>1 DEF LettersInv, PublishedWasSent, Requeued
<1> QED
  BY <1>1, <1>2, <1>3, <1>4

\* An administrator closes a letter, or its back-off passes.
LEMMA LetterSteps ==
    ASSUME LettersInv, NEW m \in Messages, RetryBecomesDue(m) \/ Reconcile(m)
    PROVE  LettersInv' /\ ClosedKept
<1>1. PICK row \in LetterRow :
        /\ letter' = [letter EXCEPT ![m] = row] /\ row.state \in {"RETRY_QUEUED", "CLOSED"}
        /\ row.published = letter[m].published
  <2>1. letter[m] \in LetterRow
    BY DEF LettersInv, LettersTypeOK
  <2>2. CASE RetryBecomesDue(m)
    <3>1. /\ [letter[m] EXCEPT !.delayed = FALSE] \in LetterRow
          /\ [letter[m] EXCEPT !.delayed = FALSE].state = "RETRY_QUEUED"
          /\ [letter[m] EXCEPT !.delayed = FALSE].published = letter[m].published
      BY <2>1, <2>2 DEF RetryBecomesDue, LetterRow
    <3> QED
      BY <2>2, <3>1 DEF RetryBecomesDue, SetLetter
  <2>3. CASE Reconcile(m)
    <3>1. /\ [letter[m] EXCEPT !.state = "CLOSED"] \in LetterRow
          /\ [letter[m] EXCEPT !.state = "CLOSED"].state = "CLOSED"
          /\ [letter[m] EXCEPT !.state = "CLOSED"].published = letter[m].published
      BY <2>1, <2>3 DEF LetterRow, LetterStates
    <3> QED
      BY <2>3, <3>1 DEF Reconcile, SetLetter
  <2> QED
    BY <2>2, <2>3
<1>2. /\ UNCHANGED <<message, retry, mishap>> /\ letter[m].state # "CLOSED"
      /\ retry \in [Admins -> Retry] /\ LettersTypeOK
  BY DEF RetryBecomesDue, Reconcile, LettersInv, LettersTypeOK
<1>3. /\ LettersTypeOK' /\ NothingForgotten' /\ OneRedelivery' /\ PublishedWasSent' /\ ClosedKept
      /\ \A k \in Messages : Requeued(k)' = Requeued(k) /\ message'[k] = message[k]
      /\ \A k \in Messages \ {m} : letter'[k] = letter[k]
      /\ letter'[m] = row
  BY <1>1, <1>2, LetterRowKeeps, ZenonT(60)
<1>4. \A k \in Messages : \A h \in Admins : MayPublish(h, k)' = MayPublish(h, k)
  BY <1>2 DEF MayPublish
<1>5. LettersOnRecord'
  BY <1>1, <1>2, <1>3, <1>4 DEF LettersInv, LettersOnRecord
<1> QED
  BY <1>3, <1>5 DEF LettersInv

\* A request takes its next step and changes no message; the letter it is for
\* may be claimed, marked or delayed.
LEMMA RequestKeeps ==
    ASSUME LettersInv, NEW h \in Admins, NEW now \in Retry,
           retry' = [retry EXCEPT ![h] = now], UNCHANGED <<message, mishap>>,
           NEW m \in Messages, NEW row \in LetterRow, letter' = [letter EXCEPT ![m] = row],
           letter[m].state = "CLOSED" => row = letter[m],
           row.state \in {"none", "OPEN"} => row = letter[m],
           row.published => letter[m].published \/ Requeued(m),
           \/ now.step # "publish"
           \/ now.letter = {m} /\ row.state \notin {"none", "OPEN"} /\ (now.payload => letter[m].state = "OPEN"),
           now.step # "published"
    PROVE  LettersInv' /\ ClosedKept
<1>1. /\ retry \in [Admins -> Retry] /\ retry' \in [Admins -> Retry] /\ LettersTypeOK
      /\ \A g \in Admins : retry'[g] = IF g = h THEN now ELSE retry[g]
  BY DEF LettersInv, LettersTypeOK
<1>2. /\ LettersTypeOK' /\ NothingForgotten' /\ OneRedelivery' /\ PublishedWasSent' /\ ClosedKept
      /\ \A k \in Messages : Requeued(k)' = Requeued(k) /\ message'[k] = message[k]
      /\ \A k \in Messages \ {m} : letter'[k] = letter[k]
      /\ letter'[m] = row
  BY <1>1, LetterRowKeeps
<1>3. \A k \in Messages, g \in Admins :
        MayPublish(g, k)' => MayPublish(g, k) \/ (g = h /\ k = m /\ letter[m].state = "OPEN" /\ row.state \notin {"none", "OPEN"})
  BY <1>1 DEF MayPublish
<1>4. letter[m].state = "OPEN" => ~Requeued(m) /\ \A g \in Admins : ~MayPublish(g, m)
  BY DEF LettersInv, LettersOnRecord
<1>5. LettersOnRecord'
  <2>1. \A k \in Messages :
          /\ message'[k].state = "none" => message'[k].from = {} /\ message'[k].delivered = 0
          /\ message'[k].state = "waiting" => message'[k].delivered < MaxDeliver
          /\ message'[k].state = "sunk" => letter'[k].state # "none"
    BY <1>2 DEF LettersInv, LettersOnRecord
  <2>2. ASSUME NEW k \in Messages
        PROVE  /\ letter'[k].state \in {"none", "OPEN"} => ~Requeued(k)' /\ \A g \in Admins : ~MayPublish(g, k)'
               /\ Requeued(k)' => \A g \in Admins : ~MayPublish(g, k)'
               /\ \A g1, g2 \in Admins : MayPublish(g1, k)' /\ MayPublish(g2, k)' => g1 = g2
               /\ \A g \in Admins : retry'[g].step = "published" /\ retry'[g].letter = {k} => Requeued(k)'
    <3>1. CASE k = m
      BY <1>1, <1>2, <1>3, <1>4, <3>1 DEF LettersInv, LettersOnRecord
    <3>2. CASE k # m
      BY <1>1, <1>2, <1>3, <3>2 DEF LettersInv, LettersOnRecord
    <3> QED
      BY <3>1, <3>2
  <2>3. \A k \in Messages : message'[k].from # {} => \E n \in Messages : message'[k].from = {n}
    BY <1>2 DEF LettersInv, LettersOnRecord
  <2> QED
    BY <2>1, <2>2, <2>3 DEF LettersOnRecord
<1> QED
  BY <1>2, <1>5 DEF LettersInv

\* Claims, failures and marks of retry requests.
LEMMA RequestSteps ==
    ASSUME LettersInv, NEW h \in Admins,
           \/ PublishRetryFails(h) \/ DropRetry(h)
           \/ \E m \in Messages : BeginRetry(h, m) \/ MarkRetryPublished(h, m) \/ MarkRetryFailed(h, m)
    PROVE  LettersInv' /\ ClosedKept
<1>1. /\ letter \in [Messages -> LetterRow] /\ retry \in [Admins -> Retry] /\ retry[h] \in Retry
      /\ \A m \in Messages : letter[m] \in LetterRow
      /\ \A m \in Messages : letter[m].attempts \in 0..MaxRetries
      /\ MaxRetries \in Nat \ {0}
      /\ NoRetry \in Retry /\ NoRetry.step = "idle"
      /\ UNCHANGED <<message, mishap>>
  BY DeadLettersAssumption
  DEF LettersInv, LettersTypeOK, LetterRow, NoRetry, Retry, PublishRetryFails, DropRetry, BeginRetry,
      MarkRetryPublished, MarkRetryFailed
<1>2. ASSUME NEW now \in Retry, now.step \in {"idle", "failed"}, retry' = [retry EXCEPT ![h] = now], letter' = letter
      PROVE  LettersInv' /\ ClosedKept
  <2>1. CASE Messages = {}
    <3>1. retry' \in [Admins -> Retry]
      BY <1>1, <1>2
    <3> QED
      BY <1>1, <1>2, <2>1, <3>1
      DEF LettersInv, LettersTypeOK, LettersOnRecord, NothingForgotten, OneRedelivery, PublishedWasSent, ClosedKept
  <2>2. CASE Messages # {}
    <3>1. PICK m \in Messages : TRUE
      BY <2>2
    <3>2. letter' = [letter EXCEPT ![m] = letter[m]] /\ letter[m] \in LetterRow
      BY <1>1, <1>2
    <3> QED
      BY <1>1, <1>2, <3>2, RequestKeeps
  <2> QED
    BY <2>1, <2>2
<1>3. CASE PublishRetryFails(h)
  <2>1. /\ retry' = [retry EXCEPT ![h] = [retry[h] EXCEPT !.step = "failed"]] /\ letter' = letter
        /\ [retry[h] EXCEPT !.step = "failed"] \in Retry /\ [retry[h] EXCEPT !.step = "failed"].step = "failed"
    BY <1>1, <1>3 DEF PublishRetryFails, SetRetry, Retry
  <2> QED
    BY <1>2, <2>1
<1>4. CASE DropRetry(h)
  BY <1>1, <1>2, <1>4 DEF DropRetry
<1>5. ASSUME NEW m \in Messages, BeginRetry(h, m) PROVE LettersInv' /\ ClosedKept
  <2> DEFINE now == [step |-> "publish", letter |-> {m}, payload |-> CarriesPayload(m)]
             row == QueuedLetter(m)
  <2>1. /\ retry' = [retry EXCEPT ![h] = now] /\ letter' = [letter EXCEPT ![m] = row] /\ ClaimableLetter(m)
    BY <1>5 DEF BeginRetry, SetLetter
  <2>2. now \in Retry
    BY DEF Retry, CarriesPayload
  <2>3. now.step = "publish" /\ now.letter = {m} /\ (now.payload => letter[m].state = "OPEN")
    BY DEF CarriesPayload
  <2>4. CASE letter[m].state = "OPEN"
    <3>1. row = [state |-> "RETRY_QUEUED", attempts |-> 1, published |-> FALSE, delayed |-> FALSE]
      BY <2>4 DEF QueuedLetter
    <3>2. 1 \in 0..MaxRetries
      BY <1>1
    <3>3. row \in LetterRow /\ row.state = "RETRY_QUEUED" /\ row.published = FALSE
      BY <3>1, <3>2 DEF LetterRow, LetterStates
    <3> HIDE DEF row, now
    <3> QED
      BY <1>1, <2>1, <2>2, <2>3, <2>4, <3>3, RequestKeeps
  <2>5. CASE letter[m].state # "OPEN"
    <3>1. /\ row = [letter[m] EXCEPT !.attempts = @ + 1, !.delayed = FALSE]
          /\ letter[m].state = "RETRY_QUEUED" /\ letter[m].attempts < MaxRetries
      BY <2>1, <2>5 DEF QueuedLetter, ClaimableLetter
    <3>2. letter[m].attempts + 1 \in 0..MaxRetries
      BY <1>1, <3>1
    <3>3. row \in LetterRow /\ row.state = "RETRY_QUEUED" /\ row.published = letter[m].published
      BY <1>1, <3>1, <3>2 DEF LetterRow, LetterStates
    <3> HIDE DEF row, now
    <3> QED
      BY <1>1, <2>1, <2>2, <2>3, <2>5, <3>1, <3>3, RequestKeeps
  <2> QED
    BY <2>4, <2>5
<1>6. ASSUME NEW m \in Messages, MarkRetryPublished(h, m) PROVE LettersInv' /\ ClosedKept
  <2> DEFINE row == MarkPublishedRow(letter[m])
  <2>1. /\ retry' = [retry EXCEPT ![h] = NoRetry] /\ letter' = [letter EXCEPT ![m] = row]
        /\ retry[h].step = "published" /\ retry[h].letter = {m}
    BY <1>6 DEF MarkRetryPublished, SetLetter
  <2>2. Requeued(m)
    BY <2>1 DEF LettersInv, LettersOnRecord
  <2>3. row \in LetterRow /\ row.state = letter[m].state /\ (row.state # "RETRY_QUEUED" => row = letter[m])
    <3>1. CASE letter[m].state = "RETRY_QUEUED"
      <4>1. row = [letter[m] EXCEPT !.published = TRUE, !.delayed = FALSE]
        BY <3>1 DEF MarkPublishedRow
      <4> QED
        BY <1>1, <3>1, <4>1 DEF LetterRow
    <3>2. CASE letter[m].state # "RETRY_QUEUED"
      BY <1>1, <3>2 DEF MarkPublishedRow
    <3> QED
      BY <3>1, <3>2
  <2> HIDE DEF row
  <2> QED
    BY <1>1, <2>1, <2>2, <2>3, RequestKeeps
<1>7. ASSUME NEW m \in Messages, MarkRetryFailed(h, m) PROVE LettersInv' /\ ClosedKept
  <2> DEFINE row == IF letter[m].state = "RETRY_QUEUED" /\ ~letter[m].published
                    THEN [letter[m] EXCEPT !.delayed = letter[m].attempts < MaxRetries] ELSE letter[m]
  <2>1. /\ retry' = [retry EXCEPT ![h] = NoRetry] /\ letter' = [letter EXCEPT ![m] = row]
    BY <1>7 DEF MarkRetryFailed, SetLetter
  <2>2. /\ row \in LetterRow /\ row.state = letter[m].state /\ row.published = letter[m].published
        /\ row.state # "RETRY_QUEUED" => row = letter[m]
    <3> DEFINE late == letter[m].attempts < MaxRetries
    <3>1. late \in BOOLEAN
      OBVIOUS
    <3> HIDE DEF late
    <3>2. ASSUME NEW b \in BOOLEAN
          PROVE  /\ [letter[m] EXCEPT !.delayed = b] \in LetterRow
                 /\ [letter[m] EXCEPT !.delayed = b].state = letter[m].state
                 /\ [letter[m] EXCEPT !.delayed = b].published = letter[m].published
      BY <1>1 DEF LetterRow
    <3>3. row = IF letter[m].state = "RETRY_QUEUED" /\ ~letter[m].published
                THEN [letter[m] EXCEPT !.delayed = late] ELSE letter[m]
      BY DEF late
    <3> HIDE DEF row
    <3> QED
      BY <1>1, <3>1, <3>2, <3>3
  <2> HIDE DEF row
  <2> QED
    BY <1>1, <2>1, <2>2, RequestKeeps
<1> QED
  BY <1>3, <1>4, <1>5, <1>6, <1>7

\* The payload is published as a new message: the one request that may do so
\* has done it.
LEMMA RequeueStep ==
    ASSUME LettersInv, NEW h \in Admins, NEW m \in Messages, NEW id \in Copies, PublishRetry(h, m, id)
    PROVE  LettersInv' /\ ClosedKept
<1> DEFINE new == [state |-> "waiting", delivered |-> 0, from |-> {m}]
<1>1. /\ MayPublish(h, m) /\ message[id].state = "none" /\ UNCHANGED <<letter, mishap>>
      /\ message' = [message EXCEPT ![id] = new]
  BY DEF PublishRetry, MayPublish
<1>2. PICK step \in {"published", "failed"} : retry' = [retry EXCEPT ![h].step = step]
  BY DEF PublishRetry, SetRetry
<1>3. /\ message \in [Messages -> MessageRow] /\ retry \in [Admins -> Retry] /\ retry[h] \in Retry
      /\ id \in Messages /\ MaxDeliver \in Nat \ {0}
  BY DeadLettersAssumption DEF LettersInv, LettersTypeOK, Messages
<1>4. new \in MessageRow /\ new.from = {m} /\ new.state = "waiting" /\ new.delivered = 0
  <2>1. 0 \in 0..MaxDeliver
    BY <1>3
  <2> QED
    BY <2>1 DEF MessageRow
<1> HIDE DEF new
<1>5. /\ \A k \in Messages : message'[k] = IF k = id THEN new ELSE message[k]
      /\ message' \in [Messages -> MessageRow]
  BY <1>1, <1>3, <1>4
<1>6. /\ retry' \in [Admins -> Retry] /\ retry'[h].step = step /\ retry'[h].letter = retry[h].letter
      /\ \A g \in Admins \ {h} : retry'[g] = retry[g]
  BY <1>2, <1>3 DEF Retry
<1>7. LettersTypeOK'
  BY <1>1, <1>5, <1>6 DEF LettersInv, LettersTypeOK
<1>8. ~Requeued(m) /\ message[id].from = {} /\ retry[h].letter = {m}
  BY <1>1, <1>3 DEF LettersInv, LettersOnRecord, MayPublish
<1>9. /\ Requeued(m)'
      /\ \A k \in Messages \ {m} : Requeued(k)' = Requeued(k)
  BY <1>3, <1>4, <1>5, <1>8 DEF Requeued
<1>10. /\ \A k \in Messages, g \in Admins : MayPublish(g, k)' => MayPublish(g, k) /\ g # h
       /\ \A g \in Admins : ~MayPublish(g, m)'
  <2>1. \A k \in Messages, g \in Admins : MayPublish(g, k)' => MayPublish(g, k) /\ g # h
    BY <1>2, <1>6 DEF MayPublish
  <2> QED
    BY <1>1, <2>1 DEF LettersInv, LettersOnRecord
<1>11. LettersOnRecord'
  <2>1. \A k \in Messages :
          /\ message'[k].state = "none" => message'[k].from = {} /\ message'[k].delivered = 0
          /\ message'[k].state = "waiting" => message'[k].delivered < MaxDeliver
          /\ message'[k].state = "sunk" => letter'[k].state # "none"
    BY <1>1, <1>3, <1>4, <1>5 DEF LettersInv, LettersOnRecord
  <2>2. letter[m].state \notin {"none", "OPEN"}
    BY <1>1 DEF LettersInv, LettersOnRecord
  <2>3. ASSUME NEW k \in Messages
        PROVE  /\ letter'[k].state \in {"none", "OPEN"} => ~Requeued(k)' /\ \A g \in Admins : ~MayPublish(g, k)'
               /\ Requeued(k)' => \A g \in Admins : ~MayPublish(g, k)'
               /\ \A g1, g2 \in Admins : MayPublish(g1, k)' /\ MayPublish(g2, k)' => g1 = g2
               /\ \A g \in Admins : retry'[g].step = "published" /\ retry'[g].letter = {k} => Requeued(k)'
    <3>1. CASE k = m
      BY <1>1, <1>9, <1>10, <2>2, <3>1
    <3>2. CASE k # m
      <4>1. \A g \in Admins : retry'[g].step = "published" /\ retry'[g].letter = {k} => Requeued(k)
        BY <1>6, <1>8, <3>2 DEF LettersInv, LettersOnRecord
      <4> QED
        BY <1>1, <1>9, <1>10, <3>2, <4>1 DEF LettersInv, LettersOnRecord
    <3> QED
      BY <3>1, <3>2
  <2>4. \A k \in Messages : message'[k].from # {} => \E n \in Messages : message'[k].from = {n}
    BY <1>4, <1>5 DEF LettersInv, LettersOnRecord
  <2> QED
    BY <2>1, <2>3, <2>4 DEF LettersOnRecord
<1>12. NothingForgotten'
  BY <1>1, <1>4, <1>5 DEF LettersInv, NothingForgotten
<1>13. OneRedelivery'
  BY <1>4, <1>5, <1>8 DEF LettersInv, OneRedelivery, Requeued
<1>14. PublishedWasSent'
  <2>1. \A k \in Messages : letter[k].published => Requeued(k)
    BY DEF LettersInv, PublishedWasSent, Requeued
  <2>2. \A k \in Messages : letter'[k].published => Requeued(k)'
    BY <1>1, <1>9, <2>1
  <2> QED
    BY <2>2 DEF PublishedWasSent, Requeued
<1>15. ClosedKept
  BY <1>1 DEF ClosedKept
<1> QED
  BY <1>7, <1>11, <1>12, <1>13, <1>14, <1>15 DEF LettersInv

\* LettersInv is inductive, and no step touches a closed letter.
LEMMA LettersStep ==
    ASSUME LettersInv, [NextLetters]_letterVars
    PROVE  LettersInv' /\ ClosedKept
<1>1. CASE UNCHANGED letterVars
  <2>1. UNCHANGED <<message, letter, retry, mishap>>
    BY <1>1 DEF letterVars
  <2> QED
    BY <2>1 DEF LettersInv, LettersTypeOK, LettersOnRecord, NothingForgotten, OneRedelivery, PublishedWasSent,
                ClosedKept, Requeued, MayPublish
<1>2. CASE NextLetters
  BY <1>2, ConsumerSteps, ConsumerKeeps, LetterSteps, RequestSteps, RequeueStep DEF NextLetters
<1> QED
  BY <1>1, <1>2

\* A letter's copies are counted by its claims: only a claim lets a request
\* publish one, and no step takes a claim back.
LEMMA CountedStep ==
    ASSUME LettersInv, Counted, [NextLetters]_letterVars
    PROVE  Counted'
<1>1. /\ letter \in [Messages -> LetterRow] /\ retry \in [Admins -> Retry] /\ message \in [Messages -> MessageRow]
      /\ \A m \in Messages : letter[m] \in LetterRow /\ letter[m].attempts \in Nat
      /\ \A m \in Messages : letter[m].state = "none" => ~Requeued(m) /\ \A h \in Admins : ~MayPublish(h, m)
  BY DeadLettersAssumption DEF LettersInv, LettersTypeOK, LettersOnRecord, LetterRow
<1>2. ASSUME \A m \in Messages : letter'[m].attempts = 0 => letter[m].attempts = 0 \/ letter[m].state = "none",
             \A m \in Messages : letter'[m].attempts = 0 /\ Requeued(m)' => Requeued(m),
             \A m \in Messages : \A h \in Admins : letter'[m].attempts = 0 /\ MayPublish(h, m)' => MayPublish(h, m)
      PROVE  Counted'
  BY <1>1, <1>2 DEF Counted
<1>3. CASE UNCHANGED letterVars
  BY <1>3 DEF letterVars, Counted, Requeued, MayPublish
<1>4. ASSUME NEW m \in Messages, ConsumerStep(m) PROVE Counted'
  <2>1. \A k \in Messages : message'[k].from = message[k].from
    BY <1>1, <1>4 DEF ConsumerStep
  <2>2. retry' = retry /\ \A k \in Messages : letter'[k] = letter[k] \/ letter[k].state = "none"
    BY <1>1, <1>4 DEF ConsumerStep
  <2>3. \A k \in Messages : Requeued(k)' = Requeued(k) /\ \A h \in Admins : MayPublish(h, k)' = MayPublish(h, k)
    BY <2>1, <2>2 DEF Requeued, MayPublish
  <2> QED BY <1>2, <2>2, <2>3
<1>5. ASSUME UNCHANGED message, \A k \in Messages : letter'[k].attempts = letter[k].attempts,
             \A h \in Admins : retry'[h] = retry[h] \/ retry'[h].step # "publish"
      PROVE  Counted'
  <2>1. \A k \in Messages : Requeued(k)' = Requeued(k) /\ \A h \in Admins : MayPublish(h, k)' => MayPublish(h, k)
    BY <1>5 DEF Requeued, MayPublish
  <2> QED BY <1>2, <1>5, <2>1
<1>6. ASSUME NEW m \in Messages, RetryBecomesDue(m) \/ Reconcile(m) PROVE Counted'
  <2>1. \A k \in Messages : letter'[k].attempts = letter[k].attempts
    BY <1>1, <1>6 DEF RetryBecomesDue, Reconcile, SetLetter, LetterRow
  <2> QED BY <1>5, <1>6, <2>1 DEF RetryBecomesDue, Reconcile
<1>7. ASSUME NEW h \in Admins, PublishRetryFails(h) \/ DropRetry(h) PROVE Counted'
  <2>1. \A g \in Admins : retry'[g] = retry[g] \/ retry'[g].step # "publish"
    BY <1>1, <1>7 DEF PublishRetryFails, DropRetry, SetRetry, NoRetry, Retry
  <2> QED BY <1>5, <1>7, <2>1 DEF PublishRetryFails, DropRetry
<1>8. ASSUME NEW h \in Admins, NEW m \in Messages, MarkRetryPublished(h, m) \/ MarkRetryFailed(h, m) PROVE Counted'
  <2>1. \A g \in Admins : retry'[g] = retry[g] \/ retry'[g].step # "publish"
    BY <1>1, <1>8 DEF MarkRetryPublished, MarkRetryFailed, NoRetry, Retry
  <2>2. PICK row : letter' = [letter EXCEPT ![m] = row] /\ row.attempts = letter[m].attempts
    <3>1. CASE MarkRetryPublished(h, m)
      <4>1. MarkPublishedRow(letter[m]).attempts = letter[m].attempts
        BY <1>1 DEF MarkPublishedRow, LetterRow
      <4> QED BY <3>1, <4>1 DEF MarkRetryPublished, SetLetter
    <3>2. CASE MarkRetryFailed(h, m)
      <4>1. \A b : [letter[m] EXCEPT !.delayed = b].attempts = letter[m].attempts
        BY <1>1 DEF LetterRow
      <4>2. \/ letter' = [letter EXCEPT ![m] = letter[m]]
            \/ \E b : letter' = [letter EXCEPT ![m] = [letter[m] EXCEPT !.delayed = b]]
        BY <3>2 DEF MarkRetryFailed, SetLetter
      <4> QED BY <4>1, <4>2
    <3> QED BY <1>8, <3>1, <3>2
  <2>3. \A k \in Messages : letter'[k].attempts = letter[k].attempts
    BY <1>1, <2>2
  <2> QED BY <1>5, <1>8, <2>1, <2>3 DEF MarkRetryPublished, MarkRetryFailed
<1>9. ASSUME NEW h \in Admins, NEW m \in Messages, BeginRetry(h, m) PROVE Counted'
  <2>1. QueuedLetter(m).attempts # 0
    <3>1. CASE letter[m].state = "OPEN"
      BY <3>1 DEF QueuedLetter
    <3>2. CASE letter[m].state # "OPEN"
      <4>1. QueuedLetter(m).attempts = letter[m].attempts + 1
        BY <1>1, <3>2 DEF QueuedLetter, LetterRow
      <4> QED BY <1>1, <4>1
    <3> QED BY <3>1, <3>2
  <2>2. letter' = [letter EXCEPT ![m] = QueuedLetter(m)] /\ UNCHANGED message
    BY <1>9 DEF BeginRetry, SetLetter
  <2>3. letter'[m].attempts # 0 /\ \A k \in Messages \ {m} : letter'[k] = letter[k]
    BY <1>1, <2>1, <2>2
  <2>4. retry'[h].letter = {m} /\ \A g \in Admins \ {h} : retry'[g] = retry[g]
    BY <1>1, <1>9 DEF BeginRetry
  <2>5. \A k \in Messages : Requeued(k)' = Requeued(k)
    BY <2>2 DEF Requeued
  <2>6. \A k \in Messages \ {m} : \A g \in Admins : MayPublish(g, k)' => MayPublish(g, k)
    BY <2>4 DEF MayPublish
  <2> QED BY <1>2, <2>3, <2>5, <2>6
<1>10. ASSUME NEW h \in Admins, NEW m \in Messages, NEW id \in Copies, PublishRetry(h, m, id) PROVE Counted'
  <2>1. MayPublish(h, m) /\ UNCHANGED letter
    BY <1>10 DEF PublishRetry, MayPublish
  <2>2. letter[m].attempts # 0
    BY <2>1 DEF Counted
  <2>3. \A k \in Messages : message'[k] = message[k] \/ message'[k].from = {m}
    BY <1>1, <1>10 DEF PublishRetry
  <2>4. \A k \in Messages \ {m} : Requeued(k)' => Requeued(k)
    BY <2>3 DEF Requeued
  <2>5. \A g \in Admins : retry'[g] = retry[g] \/ retry'[g].step # "publish"
    BY <1>1, <1>10 DEF PublishRetry, SetRetry, Retry
  <2>6. \A k \in Messages : \A g \in Admins : MayPublish(g, k)' => MayPublish(g, k)
    BY <2>5 DEF MayPublish
  <2> QED BY <1>2, <2>1, <2>2, <2>4, <2>6
<1> QED
  BY <1>3, <1>4, <1>6, <1>7, <1>8, <1>9, <1>10, ConsumerSteps DEF NextLetters

\* A letter has as many copies as claims at most.
LEMMA CopiesCounted == LettersInv /\ Counted => OneCopyPerClaim
<1> SUFFICES ASSUME LettersInv, Counted, NEW m \in Messages
             PROVE  Cardinality(CopiesOf(m)) <= letter[m].attempts
  BY DEF OneCopyPerClaim
<1>1. letter[m].attempts \in Nat
  BY DeadLettersAssumption DEF LettersInv, LettersTypeOK, LetterRow
<1>2. CASE CopiesOf(m) = {}
  BY <1>1, <1>2, FS_EmptySet
<1>3. CASE CopiesOf(m) # {}
  <2>1. PICK k \in Messages : k \in CopiesOf(m)
    BY <1>3 DEF CopiesOf
  <2>2. \A j \in CopiesOf(m) : j = k
    BY <2>1 DEF LettersInv, OneRedelivery, CopiesOf
  <2>3. CopiesOf(m) = {k}
    BY <2>1, <2>2
  <2>4. Cardinality(CopiesOf(m)) = 1
    BY <2>3, FS_Singleton
  <2>5. letter[m].attempts # 0
    BY <2>1 DEF Counted, Requeued, CopiesOf
  <2> QED BY <1>1, <2>4, <2>5
<1> QED BY <1>2, <1>3

\* Messages, letters and requests keep their types: no message is delivered
\* more than MaxDeliver times and no letter claimed more than MaxRetries times.
THEOREM LettersTypeCorrect == SpecLetters => []LettersTypeOK
<1>1. LettersInv /\ [NextLetters]_letterVars => LettersInv'
  BY LettersStep
<1> QED
  BY LettersInit, <1>1, PTL DEF SpecLetters, LettersInv

\* For any number of messages, administrators, deliveries and retries: a message
\* the control plane cannot handle stays on record, its retry is queued at most
\* once per claim and never only pretended, and a closed letter stays closed.
THEOREM LettersAreAccounted == SpecLetters => LettersAccounted
<1>1. InitLetters => Counted
  <2> SUFFICES ASSUME InitLetters PROVE Counted
    OBVIOUS
  <2>1. \A k \in Messages : message[k].from = {}
    BY DEF InitLetters
  <2>2. \A h \in Admins : retry[h].step = "idle"
    BY DEF InitLetters, NoRetry
  <2> QED BY <2>1, <2>2 DEF Counted, Requeued, MayPublish
<1>2. LettersInv /\ Counted /\ [NextLetters]_letterVars => LettersInv' /\ Counted'
  BY LettersStep, CountedStep
<1>3. LettersInv /\ Counted => NothingForgotten /\ OneCopyPerClaim /\ PublishedWasSent
  BY CopiesCounted DEF LettersInv
<1>4. LettersInv /\ [NextLetters]_letterVars =>
        [\A m \in Messages : letter[m].state = "CLOSED" => letter'[m] = letter[m]]_letterVars
  BY LettersStep DEF ClosedKept
<1> QED
  BY LettersInit, <1>1, <1>2, <1>3, <1>4, PTL DEF SpecLetters, LettersAccounted, ClosedLettersStay

-----------------------------------------------------------------------------
(* Fleet *)

\* The runner's one connected worker start signs with the key it is bound to.
ServedByItsKey(r) ==
    \E i \in BootsOf(r) : /\ Connected(i) /\ Bound(r, boots[i].key)
                          /\ \A j \in BootsOf(r) : Connected(j) => j = i

\* The three invariants of KeysDecide, for one runner.
RunnerSound(r) ==
    /\ runner[r].observed = "ONLINE" => Live(r) /\ ServedByItsKey(r)
    /\ runner[r].state = "archived" =>
        /\ runner[r].desired = "DISABLED" /\ runner[r].observed = "OFFLINE"
        /\ \A k \in Key : ~Bound(r, k)
        /\ \A i \in BootsOf(r) : ~Connected(i)
        /\ \A t \in Tokens : token[t].runner = {r} => token[t].state # "unused"
    /\ runner[r].observed = "REVOKED" => runner[r].desired # "ENABLED"

\* A token that was created names one runner, and a running worker its start.
FleetKept ==
    /\ \A t \in Tokens : token[t].state # "none" => \E r \in Runners : token[t].runner = {r}
    /\ \A m \in Machines : machine[m].phase = "up" => machine[m].boot \in DOMAIN boots

FleetInv == FleetTypeOK /\ FleetKept /\ \A r \in Runners : RunnerSound(r)

\* RunnerSound is what KeysDecide asks of every state.
LEMMA SoundIsDecided ==
    (\A r \in Runners : RunnerSound(r)) => OnlineIsCurrent /\ ArchivedIsFinal /\ RevokedNotEligible
<1>1. (\A r \in Runners : RunnerSound(r)) => OnlineIsCurrent
  BY DEF RunnerSound, OnlineIsCurrent, ServedByItsKey
<1>2. (\A r \in Runners : RunnerSound(r)) => ArchivedIsFinal /\ RevokedNotEligible
  BY DEF RunnerSound, ArchivedIsFinal, RevokedNotEligible
<1> QED
  BY <1>1, <1>2

\* The types of the parts, one by one.
LEMMA FleetTypes ==
    ASSUME FleetTypeOK
    PROVE  /\ runner \in [Runners -> RunnerRow] /\ \A r \in Runners : runner[r] \in RunnerRow
           /\ token \in [Tokens -> TokenRow] /\ \A t \in Tokens : token[t] \in TokenRow
           /\ key \in [Runners -> KeyRow] /\ \A r \in Runners : key[r] \in KeyRow
           /\ machine \in [Machines -> MachineRow] /\ \A m \in Machines : machine[m] \in MachineRow
           /\ boots \in Seq(BootRow) /\ Len(boots) \in Nat /\ DOMAIN boots = 1..Len(boots)
           /\ \A i \in DOMAIN boots : boots[i] \in BootRow /\ boots[i].runner \in Runners /\ boots[i].key \in Key
           /\ beats \subseteq DOMAIN boots /\ verified \subseteq DOMAIN boots
<1>1. boots \in Seq(BootRow) /\ Len(boots) \in Nat /\ DOMAIN boots = 1..Len(boots)
  BY LenProperties DEF FleetTypeOK
<1>2. \A i \in DOMAIN boots : boots[i] \in BootRow
  BY <1>1, ElementOfSeq
<1> QED
  BY <1>1, <1>2 DEF FleetTypeOK, BootRow

\* The first state.
LEMMA FleetInit == InitFleet => FleetInv
<1> SUFFICES ASSUME InitFleet PROVE FleetInv
  OBVIOUS
<1>1. /\ [state |-> "none", desired |-> "ENABLED", observed |-> "PENDING", recent |-> FALSE] \in RunnerRow
      /\ [state |-> "none", runner |-> {}, valid |-> FALSE] \in TokenRow
      /\ [bound |-> {}, revoked |-> FALSE] \in KeyRow
      /\ [artifact |-> {}, key |-> {}, conn |-> FALSE, phase |-> "off", boot |-> 0] \in MachineRow
  BY DEF RunnerRow, Desired, Observed, TokenRow, KeyRow, MachineRow
<1>2. FleetTypeOK
  BY <1>1, EmptySeq DEF InitFleet, FleetTypeOK
<1>3. FleetKept
  BY DEF InitFleet, FleetKept
<1>4. \A r \in Runners : runner[r].state = "none" /\ runner[r].observed = "PENDING"
  BY DEF InitFleet
<1>5. \A r \in Runners : RunnerSound(r)
  BY <1>4 DEF RunnerSound
<1> QED
  BY <1>2, <1>3, <1>5 DEF FleetInv

\* What leaves a runner's connection and key alone: its worker starts stay as
\* connected as they were and new ones are not connected.
SameBoots(r) ==
    /\ key'[r] = key[r]
    /\ BootsOf(r) \subseteq BootsOf(r)'
    /\ \A i \in BootsOf(r) : Connected(i)' = Connected(i) /\ boots'[i].key = boots[i].key
    /\ \A i \in BootsOf(r)' : i \in BootsOf(r) \/ ~Connected(i)'

\* Nothing at all happened to the worker starts and keys.
LEMMA UntouchedBoots ==
    ASSUME UNCHANGED <<boots, key>>, NEW r
    PROVE  SameBoots(r)
BY DEF SameBoots, BootsOf, Connected

\* A runner whose connection and key are left alone stays sound, when its row
\* changes the way administration and the monitor change it.
LEMMA SameKeeps ==
    ASSUME FleetInv, NEW r \in Runners, SameBoots(r),
           runner'[r].observed = "ONLINE" => runner[r].observed = "ONLINE" /\ runner'[r].state = runner[r].state,
           runner'[r].state = "archived" =>
             /\ runner[r].state = "archived" /\ runner'[r].desired = runner[r].desired
             /\ runner'[r].observed = runner[r].observed
             /\ \A t \in Tokens : token'[t].runner = {r} => token'[t].state # "unused",
           runner'[r].observed = "REVOKED" => runner'[r].desired # "ENABLED"
    PROVE  RunnerSound(r)'
<1>1. RunnerSound(r)
  BY DEF FleetInv
<1>2. \A k : Bound(r, k)' = Bound(r, k)
  BY DEF SameBoots, Bound
<1>3. ASSUME ServedByItsKey(r) PROVE ServedByItsKey(r)'
  <2>1. PICK i \in BootsOf(r) : /\ Connected(i) /\ Bound(r, boots[i].key)
                                /\ \A j \in BootsOf(r) : Connected(j) => j = i
    BY <1>3 DEF ServedByItsKey
  <2>2. i \in BootsOf(r)' /\ Connected(i)' /\ Bound(r, boots[i].key)'
    BY <1>2, <2>1 DEF SameBoots
  <2>3. \A j \in BootsOf(r)' : Connected(j)' => j = i
    BY <2>1 DEF SameBoots
  <2> QED
    BY <2>2, <2>3 DEF ServedByItsKey
<1>4. (\A i \in BootsOf(r) : ~Connected(i)) => \A i \in BootsOf(r)' : ~Connected(i)'
  BY DEF SameBoots
<1>5. Live(r) /\ runner'[r].state = runner[r].state => Live(r)'
  BY DEF Live
<1>6. Key' = Key
  BY DEF Key
<1> QED
  BY <1>1, <1>2, <1>3, <1>4, <1>5, <1>6 DEF RunnerSound

\* A worker start is connected now that was not, or was not there.
NewlyConnected(i) == boots'[i].session = "fresh" /\ (i \notin DOMAIN boots \/ boots[i].session # "fresh")
ConnectsBound == \A i \in DOMAIN boots' : NewlyConnected(i) => Bound(boots[i].runner, boots[i].key)

\* A step that writes other sessions, given as a function, and nothing else of
\* the worker starts.
LEMMA SessionsWritten ==
    ASSUME FleetTypeOK, NEW g \in [DOMAIN boots -> {"none", "fresh", "old", "disconnected"}],
           boots' = [i \in DOMAIN boots |-> [boots[i] EXCEPT !.session = g[i]]]
    PROVE  /\ boots' \in Seq(BootRow) /\ DOMAIN boots' = DOMAIN boots
           /\ \A i \in DOMAIN boots : /\ boots'[i].session = g[i] /\ boots'[i].runner = boots[i].runner
                                      /\ boots'[i].key = boots[i].key
           /\ \A r : BootsOf(r)' = BootsOf(r)
<1>1. /\ Len(boots) \in Nat /\ DOMAIN boots = 1..Len(boots)
      /\ \A i \in DOMAIN boots : boots[i] \in BootRow
  BY FleetTypes
<1>2. \A i \in DOMAIN boots : [boots[i] EXCEPT !.session = g[i]] \in BootRow
  BY <1>1 DEF BootRow
<1>3. boots' \in [1..Len(boots) -> BootRow]
  BY <1>1, <1>2
<1>4. boots' \in Seq(BootRow)
  BY <1>1, <1>3, SeqDef
<1>5. \A i \in DOMAIN boots : /\ boots'[i].session = g[i] /\ boots'[i].runner = boots[i].runner
                              /\ boots'[i].key = boots[i].key
  BY <1>1 DEF BootRow
<1>6. DOMAIN boots' = DOMAIN boots
  OBVIOUS
<1> QED
  BY <1>4, <1>5, <1>6 DEF BootsOf

\* Steps of machines and of heartbeats on their way: no table of the fleet but
\* the validity of a token changes.
LEMMA FleetMachineStep ==
    ASSUME FleetInv,
           \/ \E t \in Tokens : TokenExpires(t)
           \/ \E m \in Machines, t \in Tokens : Download(m, t) \/ SaveSigningKey(m, t)
           \/ \E m \in Machines : SaveConnection(m) \/ StopWorker(m) \/ Beat(m)
           \/ \E i \in DOMAIN boots : DropBeat(i) \/ VerifyBeat(i)
    PROVE  FleetInv' /\ ConnectsBound
<1>1. /\ machine \in [Machines -> MachineRow] /\ \A m \in Machines : machine[m] \in MachineRow
      /\ token \in [Tokens -> TokenRow] /\ \A t \in Tokens : token[t] \in TokenRow
      /\ beats \subseteq DOMAIN boots /\ verified \subseteq DOMAIN boots
  BY FleetTypes DEF FleetInv
<1>2. UNCHANGED <<runner, key, boots>>
  BY DEF TokenExpires, Download, SaveSigningKey, SaveConnection, StopWorker, Beat, DropBeat, VerifyBeat, fleetTables
<1>3. /\ token' \in [Tokens -> TokenRow]
      /\ \A t \in Tokens : token'[t].state = token[t].state /\ token'[t].runner = token[t].runner
  <2>1. CASE token' = token
    BY <1>1, <2>1
  <2>2. CASE \E t \in Tokens : TokenExpires(t)
    <3>1. PICK t \in Tokens : token' = [token EXCEPT ![t].valid = FALSE]
      BY <2>2 DEF TokenExpires
    <3> QED
      BY <1>1, <3>1 DEF TokenRow
  <2> QED
    BY <2>1, <2>2 DEF Download, SaveSigningKey, SaveConnection, StopWorker, Beat, DropBeat, VerifyBeat, fleetTables
<1>4. /\ machine' \in [Machines -> MachineRow]
      /\ \A m \in Machines : machine'[m].phase = "up" => machine[m].phase = "up" /\ machine'[m].boot = machine[m].boot
  <2>1. CASE machine' = machine
    BY <1>1, <2>1
  <2>2. ASSUME NEW m \in Machines, NEW t \in Tokens, Download(m, t) \/ SaveSigningKey(m, t)
        PROVE  /\ machine' \in [Machines -> MachineRow]
               /\ \A n \in Machines : machine'[n].phase = "up" => machine[n].phase = "up" /\ machine'[n].boot = machine[n].boot
    <3>1. {t} \subseteq Tokens /\ {[machine |-> m, token |-> t]} \subseteq Key
      BY DEF Key
    <3> QED
      BY <1>1, <2>2, <3>1 DEF Download, SaveSigningKey, MachineRow
  <2>3. ASSUME NEW m \in Machines, SaveConnection(m) \/ StopWorker(m)
        PROVE  /\ machine' \in [Machines -> MachineRow]
               /\ \A n \in Machines : machine'[n].phase = "up" => machine[n].phase = "up" /\ machine'[n].boot = machine[n].boot
    BY <1>1, <2>3 DEF SaveConnection, StopWorker, MachineRow
  <2> QED
    BY <2>1, <2>2, <2>3 DEF TokenExpires, Beat, DropBeat, VerifyBeat
<1>5. beats' \subseteq DOMAIN boots /\ verified' \subseteq DOMAIN boots
  BY <1>1 DEF FleetInv, FleetKept, TokenExpires, Download, SaveSigningKey, SaveConnection, StopWorker, Beat, DropBeat,
              VerifyBeat, fleetWork
<1>6. FleetTypeOK'
  BY <1>2, <1>3, <1>4, <1>5 DEF FleetInv, FleetTypeOK
<1>7. FleetKept'
  BY <1>2, <1>3, <1>4 DEF FleetInv, FleetKept
<1>8. ASSUME NEW r \in Runners PROVE RunnerSound(r)'
  <2>1. SameBoots(r)
    BY <1>2, UntouchedBoots
  <2>2. RunnerSound(r)
    BY DEF FleetInv
  <2> QED
    BY <1>2, <1>3, <2>1, <2>2, SameKeeps DEF RunnerSound
<1>9. ConnectsBound
  BY <1>2 DEF ConnectsBound, NewlyConnected
<1> QED
  BY <1>6, <1>7, <1>8, <1>9 DEF FleetInv

\* An enrollment is created: for a new runner, or for one that is enrolled.
LEMMA FleetCreateStep ==
    ASSUME FleetInv, NEW r \in Runners, NEW t \in Tokens, CreateEnrollment(r, t)
    PROVE  FleetInv' /\ ConnectsBound
<1>1. /\ runner \in [Runners -> RunnerRow] /\ token \in [Tokens -> TokenRow]
      /\ \A u \in Tokens : token[u] \in TokenRow
      /\ UNCHANGED <<key, boots, machine, beats, verified>>
  BY FleetTypes DEF FleetInv, CreateEnrollment, fleetWork
<1>2. NewRunner \in RunnerRow /\ NewRunner.state = "live" /\ NewRunner.observed = "PENDING"
  BY DEF NewRunner, RunnerRow, Desired, Observed
<1>3. /\ runner' \in [Runners -> RunnerRow]
      /\ \A s \in Runners : runner'[s] = runner[s] \/ (s = r /\ runner'[s] = NewRunner)
      /\ runner[r].state # "archived"
  BY <1>1, <1>2 DEF CreateEnrollment
<1> DEFINE row(u) == IF u = t THEN [state |-> "unused", runner |-> {r}, valid |-> TRUE]
                     ELSE IF token[u].state = "unused" /\ token[u].runner = {r}
                     THEN [token[u] EXCEPT !.state = "gone"] ELSE token[u]
<1>4. token' = [u \in Tokens |-> row(u)]
  BY DEF CreateEnrollment
<1>5. \A u \in Tokens \ {t} : /\ row(u) \in TokenRow /\ row(u).runner = token[u].runner
                              /\ row(u).state = token[u].state
                                 \/ (row(u).state = "gone" /\ token[u].state = "unused")
  BY <1>1 DEF TokenRow
<1>6. row(t) \in TokenRow /\ row(t).runner = {r} /\ row(t).state = "unused"
  BY DEF TokenRow
<1> HIDE DEF row
<1>7. token' \in [Tokens -> TokenRow] /\ \A u \in Tokens : token'[u] = row(u)
  BY <1>4, <1>5, <1>6
<1>8. FleetTypeOK' /\ FleetKept'
  <2>1. FleetTypeOK'
    BY <1>1, <1>3, <1>7 DEF FleetInv, FleetTypeOK
  <2>2. \A u \in Tokens : token'[u].state # "none" => \E s \in Runners : token'[u].runner = {s}
    BY <1>5, <1>6, <1>7 DEF FleetInv, FleetKept
  <2> QED
    BY <1>1, <2>1, <2>2 DEF FleetInv, FleetKept
<1>9. ASSUME NEW s \in Runners PROVE RunnerSound(s)'
  <2>1. SameBoots(s) /\ RunnerSound(s)
    BY <1>1, UntouchedBoots DEF FleetInv
  <2>2. runner'[s].state = "archived" => /\ s # r /\ runner'[s] = runner[s]
                                         /\ \A u \in Tokens : token'[u].runner = {s} => token'[u].state # "unused"
    BY <1>2, <1>3, <1>5, <1>6, <1>7, <2>1, SMTT(40) DEF RunnerSound
  <2>3. runner'[s].observed \in {"ONLINE", "REVOKED"} => runner'[s] = runner[s]
    BY <1>2, <1>3
  <2> QED
    BY <2>1, <2>2, <2>3, SameKeeps DEF RunnerSound
<1>10. ConnectsBound
  BY <1>1 DEF ConnectsBound, NewlyConnected
<1> QED
  BY <1>8, <1>9, <1>10 DEF FleetInv

\* A token is consumed and a new key bound: the runner is PENDING until a start
\* that signs with it is heard.
LEMMA FleetSendStep ==
    ASSUME FleetInv, NEW m \in Machines, NEW t \in Tokens, SendEnrollment(m, t)
    PROVE  FleetInv' /\ ConnectsBound
<1> DEFINE k == [machine |-> m, token |-> t]
<1>1. /\ token[t].state = "unused" /\ ConsumeEnrollment(t, k)
      /\ machine' = [machine EXCEPT ![m].phase = "sent"]
      /\ UNCHANGED <<boots, beats, verified>>
  BY DEF SendEnrollment, fleetWork
<1>2. PICK r \in Runners : token[t].runner = {r}
  BY <1>1 DEF FleetInv, FleetKept
<1>3. /\ token' = [token EXCEPT ![t].state = "used"]
      /\ key' = [key EXCEPT ![r] = [bound |-> {k}, revoked |-> FALSE]]
      /\ runner' = IF Live(r) THEN [runner EXCEPT ![r].observed = "PENDING", ![r].recent = FALSE] ELSE runner
  BY <1>1, <1>2 DEF ConsumeEnrollment
<1>4. /\ runner \in [Runners -> RunnerRow] /\ token \in [Tokens -> TokenRow] /\ key \in [Runners -> KeyRow]
      /\ \A s \in Runners : runner[s] \in RunnerRow
      /\ \A u \in Tokens : token[u] \in TokenRow
      /\ machine \in [Machines -> MachineRow] /\ machine[m] \in MachineRow
  BY FleetTypes DEF FleetInv
<1>5. /\ token' \in [Tokens -> TokenRow]
      /\ \A u \in Tokens : /\ token'[u].runner = token[u].runner
                           /\ token'[u].state = IF u = t THEN "used" ELSE token[u].state
  BY <1>3, <1>4 DEF TokenRow
<1>6. key' \in [Runners -> KeyRow] /\ \A s \in Runners \ {r} : key'[s] = key[s]
  <2>1. [bound |-> {k}, revoked |-> FALSE] \in KeyRow
    BY DEF KeyRow, Key
  <2> QED
    BY <1>3, <1>4, <2>1
<1>7. /\ runner' \in [Runners -> RunnerRow]
      /\ \A s \in Runners \ {r} : runner'[s] = runner[s]
      /\ runner'[r].state = runner[r].state
      /\ Live(r) => runner'[r].observed = "PENDING"
      /\ ~Live(r) => runner'[r] = runner[r]
  BY <1>3, <1>4 DEF RunnerRow, Observed, Desired, Live
<1>8. /\ machine' \in [Machines -> MachineRow]
      /\ \A n \in Machines : machine'[n].phase = "up" => machine[n].phase = "up" /\ machine'[n].boot = machine[n].boot
  BY <1>1, <1>4 DEF MachineRow
<1>9. FleetTypeOK' /\ FleetKept'
  <2>1. FleetTypeOK'
    BY <1>1, <1>5, <1>6, <1>7, <1>8 DEF FleetInv, FleetTypeOK
  <2>2. \A u \in Tokens : token'[u].state # "none" => \E s \in Runners : token'[u].runner = {s}
    BY <1>1, <1>5 DEF FleetInv, FleetKept
  <2> QED
    BY <1>1, <1>8, <2>1, <2>2 DEF FleetInv, FleetKept
<1>10. ASSUME NEW s \in Runners, s # r PROVE RunnerSound(s)'
  <2>1. SameBoots(s)
    BY <1>1, <1>6, <1>10 DEF SameBoots, BootsOf, Connected
  <2>2. RunnerSound(s) /\ runner'[s] = runner[s]
    BY <1>7, <1>10 DEF FleetInv
  <2> QED
    BY <1>5, <2>1, <2>2, SameKeeps DEF RunnerSound
<1>11. RunnerSound(r)'
  <2>1. RunnerSound(r)
    BY DEF FleetInv
  <2>2. runner[r].state # "archived"
    BY <1>1, <1>2, <2>1 DEF RunnerSound
  <2>3. runner'[r].observed # "ONLINE"
    BY <1>7, <2>1 DEF RunnerSound
  <2>4. runner'[r].observed = "REVOKED" => runner'[r].desired # "ENABLED"
    BY <1>7, <2>1 DEF RunnerSound
  <2> QED
    BY <1>7, <2>2, <2>3, <2>4 DEF RunnerSound
<1>12. ConnectsBound
  BY <1>1 DEF ConnectsBound, NewlyConnected
<1> QED
  BY <1>9, <1>10, <1>11, <1>12 DEF FleetInv

\* A worker starts: its start is not connected before a heartbeat of it.
LEMMA FleetStartStep ==
    ASSUME FleetInv, NEW m \in Machines, StartWorker(m)
    PROVE  FleetInv' /\ ConnectsBound
<1>1. PICK k \in machine[m].key, r \in Runners :
        boots' = Append(boots, [runner |-> r, key |-> k, machine |-> m, session |-> "none"])
  BY DEF StartWorker
<1> DEFINE new == [runner |-> r, key |-> k, machine |-> m, session |-> "none"]
<1>2. /\ machine' = [machine EXCEPT ![m].phase = "up", ![m].boot = Len(boots) + 1]
      /\ UNCHANGED <<runner, token, key, beats, verified>>
  BY DEF StartWorker, fleetTables, fleetWork
<1>3. /\ machine \in [Machines -> MachineRow] /\ machine[m] \in MachineRow
      /\ boots \in Seq(BootRow) /\ Len(boots) \in Nat /\ DOMAIN boots = 1..Len(boots)
      /\ beats \subseteq DOMAIN boots /\ verified \subseteq DOMAIN boots
  BY FleetTypes DEF FleetInv
<1>4. new \in BootRow /\ new.session = "none"
  BY <1>3 DEF MachineRow, BootRow
<1> HIDE DEF new
<1>5. /\ boots' \in Seq(BootRow) /\ Len(boots') = Len(boots) + 1 /\ DOMAIN boots' = 1..(Len(boots) + 1)
      /\ \A i \in DOMAIN boots : boots'[i] = boots[i]
      /\ boots'[Len(boots) + 1] = new
  <2>1. boots' = Append(boots, new)
    BY <1>1 DEF new
  <2> QED
    BY <1>3, <1>4, <2>1, AppendProperties, LenProperties
<1>6. DOMAIN boots \subseteq DOMAIN boots' /\ \A i \in DOMAIN boots' : i \in DOMAIN boots \/ boots'[i] = new
  BY <1>3, <1>5
<1>7. /\ machine' \in [Machines -> MachineRow]
      /\ \A n \in Machines \ {m} : machine'[n] = machine[n]
      /\ machine'[m].boot = Len(boots) + 1
  <2>1. Len(boots) + 1 \in Nat
    BY <1>3
  <2>2. machine' = [machine EXCEPT ![m] = [machine[m] EXCEPT !.phase = "up", !.boot = Len(boots) + 1]]
    BY <1>2, <1>3
  <2>3. /\ [machine[m] EXCEPT !.phase = "up", !.boot = Len(boots) + 1] \in MachineRow
        /\ [machine[m] EXCEPT !.phase = "up", !.boot = Len(boots) + 1].boot = Len(boots) + 1
    BY <1>3, <2>1 DEF MachineRow
  <2> QED
    BY <1>3, <2>2, <2>3
<1>8. FleetTypeOK'
  BY <1>2, <1>3, <1>5, <1>6, <1>7 DEF FleetInv, FleetTypeOK
<1>9. FleetKept'
  <2>1. Len(boots) + 1 \in DOMAIN boots'
    BY <1>3, <1>5
  <2>2. ASSUME NEW n \in Machines, machine'[n].phase = "up" PROVE machine'[n].boot \in DOMAIN boots'
    <3>1. CASE n = m
      BY <1>7, <2>1, <3>1
    <3>2. CASE n # m
      BY <1>6, <1>7, <2>2, <3>2 DEF FleetInv, FleetKept
    <3> QED
      BY <3>1, <3>2
  <2> QED
    BY <1>2, <2>2 DEF FleetInv, FleetKept
<1>10. ASSUME NEW s \in Runners PROVE RunnerSound(s)'
  <2>1. SameBoots(s)
    BY <1>2, <1>4, <1>5, <1>6 DEF SameBoots, BootsOf, Connected
  <2>2. RunnerSound(s)
    BY DEF FleetInv
  <2> QED
    BY <1>2, <2>1, <2>2, SameKeeps DEF RunnerSound
<1>11. ConnectsBound
  BY <1>4, <1>5, <1>6 DEF ConnectsBound, NewlyConnected
<1> QED
  BY <1>8, <1>9, <1>10, <1>11 DEF FleetInv

\* A heartbeat is written: only for the key the runner is bound to now.
LEMMA FleetRecordStep ==
    ASSUME FleetInv, NEW i \in DOMAIN boots, RecordBeat(i)
    PROVE  FleetInv' /\ ConnectsBound
<1>0. PICK r \in Runners : r = boots[i].runner
  BY FleetTypes DEF FleetInv
<1> DEFINE g == [j \in DOMAIN boots |-> IF j = i THEN "fresh"
                                        ELSE IF boots[j].runner = r /\ Connected(j) THEN "disconnected"
                                        ELSE boots[j].session]
           row == IF runner[r].observed = "REVOKED" THEN runner[r]
                  ELSE [runner[r] EXCEPT !.observed = "ONLINE", !.recent = TRUE]
<1>1. UNCHANGED <<token, key, machine, beats>> /\ verified' = {}
  BY DEF RecordBeat
<1>2. /\ runner \in [Runners -> RunnerRow] /\ r \in Runners /\ runner[r] \in RunnerRow
      /\ \A j \in DOMAIN boots : boots[j] \in BootRow
      /\ FleetTypeOK
  BY FleetTypes DEF FleetInv
<1>3. CASE ~StillBound(r, boots[i].key)
  <2>1. UNCHANGED <<boots, runner>>
    BY <1>0, <1>3 DEF RecordBeat
  <2>2. FleetTypeOK' /\ FleetKept'
    BY <1>1, <2>1 DEF FleetInv, FleetTypeOK, FleetKept
  <2>3. ASSUME NEW s \in Runners PROVE RunnerSound(s)'
    <3>1. SameBoots(s) /\ RunnerSound(s)
      BY <1>1, <2>1, UntouchedBoots DEF FleetInv
    <3> QED
      BY <1>1, <2>1, <3>1, SameKeeps DEF RunnerSound
  <2>4. ConnectsBound
    BY <2>1 DEF ConnectsBound, NewlyConnected
  <2> QED
    BY <2>2, <2>3, <2>4 DEF FleetInv
<1>4. CASE StillBound(r, boots[i].key)
  <2>1. /\ boots' = [j \in DOMAIN boots |-> [boots[j] EXCEPT !.session = g[j]]]
        /\ runner' = [runner EXCEPT ![r] = row]
    BY <1>0, <1>4 DEF RecordBeat, Sessions, SetRunner
  <2>2. g \in [DOMAIN boots -> {"none", "fresh", "old", "disconnected"}]
    BY <1>2 DEF BootRow
  <2>3. /\ \A j \in DOMAIN boots \ {i} : boots[j].runner # r => g[j] = boots[j].session
        /\ \A j \in DOMAIN boots \ {i} : boots[j].runner = r => g[j] \notin {"fresh", "old"}
        /\ g[i] = "fresh"
    BY DEF Connected
  <2>4. /\ row \in RunnerRow /\ row.state = runner[r].state /\ row.desired = runner[r].desired
        /\ row.observed = IF runner[r].observed = "REVOKED" THEN "REVOKED" ELSE "ONLINE"
    BY <1>2 DEF RunnerRow, Observed
  <2> HIDE DEF g, row
  <2>5. /\ boots' \in Seq(BootRow) /\ DOMAIN boots' = DOMAIN boots
        /\ \A j \in DOMAIN boots : /\ boots'[j].session = g[j] /\ boots'[j].runner = boots[j].runner
                                   /\ boots'[j].key = boots[j].key
        /\ \A s : BootsOf(s)' = BootsOf(s)
    BY <1>2, <2>1, <2>2, SessionsWritten
  <2>6. /\ runner' \in [Runners -> RunnerRow] /\ runner'[r] = row
        /\ \A s \in Runners \ {r} : runner'[s] = runner[s]
    BY <1>2, <2>1, <2>4
  <2>7. FleetTypeOK' /\ FleetKept'
    <3>1. FleetTypeOK'
      BY <1>1, <2>5, <2>6 DEF FleetInv, FleetTypeOK
    <3> QED
      BY <1>1, <2>5, <3>1 DEF FleetInv, FleetKept
  <2>8. ASSUME NEW s \in Runners, s # r PROVE RunnerSound(s)'
    <3>1. \A j \in BootsOf(s) : j \in DOMAIN boots \ {i} /\ boots[j].runner # r
      BY <1>0, <2>8 DEF BootsOf
    <3>2. SameBoots(s)
      BY <1>1, <2>3, <2>5, <3>1 DEF SameBoots, Connected, BootsOf
    <3>3. RunnerSound(s) /\ runner'[s] = runner[s]
      BY <2>6, <2>8 DEF FleetInv
    <3> QED
      BY <1>1, <3>2, <3>3, SameKeeps DEF RunnerSound
  <2>9. RunnerSound(r)'
    <3>1. i \in BootsOf(r)' /\ Connected(i)'
      BY <1>0, <2>3, <2>5 DEF BootsOf, Connected
    <3>2. \A j \in BootsOf(r)' : Connected(j)' => j = i
      BY <1>0, <2>3, <2>5 DEF BootsOf, Connected
    <3>3. Bound(r, boots[i].key)'
      BY <1>1, <1>4, <2>5 DEF StillBound, Bound
    <3>4. ServedByItsKey(r)'
      BY <3>1, <3>2, <3>3 DEF ServedByItsKey
    <3>5. Live(r)' /\ runner'[r].state # "archived"
      BY <1>4, <2>4, <2>6 DEF StillBound, Live
    <3>6. runner'[r].observed = "REVOKED" => runner'[r].desired # "ENABLED"
      BY <2>4, <2>6 DEF FleetInv, RunnerSound
    <3> QED
      BY <3>4, <3>5, <3>6 DEF RunnerSound
  <2>10. ConnectsBound
    BY <1>0, <1>4, <2>3, <2>5 DEF ConnectsBound, NewlyConnected, StillBound
  <2> QED
    BY <2>7, <2>8, <2>9, <2>10 DEF FleetInv
<1> QED
  BY <1>3, <1>4

\* How the monitor and administrators rewrite the row of a runner.
RowRewritten(s) ==
    /\ runner'[s].state = runner[s].state
    /\ runner'[s].observed = "ONLINE" => runner[s].observed = "ONLINE"
    /\ runner[s].state = "archived" =>
        runner'[s].desired = runner[s].desired
        /\ (runner'[s].observed = runner[s].observed \/ runner[s].observed = "ONLINE")
    /\ runner'[s].observed = "REVOKED" =>
        runner'[s].desired # "ENABLED" \/ (runner[s].observed = "REVOKED" /\ runner'[s].desired = runner[s].desired)

\* Silence makes sessions old; the monitor and administrators rewrite rows.
LEMMA FleetRowStep ==
    ASSUME FleetInv,
           \/ \E r \in Runners : Silence(r)
           \/ \E r \in Runners, state \in Desired \cup {"REVOKED"} : SetDesiredState(r, state)
           \/ MarkStale
    PROVE  FleetInv' /\ ConnectsBound
<1>1. /\ runner \in [Runners -> RunnerRow] /\ \A s \in Runners : runner[s] \in RunnerRow
      /\ \A j \in DOMAIN boots : boots[j] \in BootRow
      /\ FleetTypeOK /\ beats \subseteq DOMAIN boots /\ verified \subseteq DOMAIN boots
  BY FleetTypes DEF FleetInv
<1>2. UNCHANGED <<token, key, machine, beats, verified>>
  BY DEF Silence, SetDesiredState, MarkStale, fleetWork
<1>3. /\ boots' \in Seq(BootRow) /\ DOMAIN boots' = DOMAIN boots
      /\ \A s \in Runners : SameBoots(s)
      /\ ConnectsBound
  <2>1. CASE boots' = boots
    BY <1>1, <1>2, <2>1, UntouchedBoots DEF FleetTypeOK, ConnectsBound, NewlyConnected
  <2>2. ASSUME NEW r \in Runners, Silence(r)
        PROVE  /\ boots' \in Seq(BootRow) /\ DOMAIN boots' = DOMAIN boots
               /\ \A s \in Runners : SameBoots(s)
               /\ ConnectsBound
    <3> DEFINE g == [i \in DOMAIN boots |-> IF boots[i].runner = r /\ boots[i].session = "fresh" THEN "old"
                                            ELSE boots[i].session]
    <3>1. boots' = [i \in DOMAIN boots |-> [boots[i] EXCEPT !.session = g[i]]]
      BY <2>2 DEF Silence, Sessions
    <3>2. /\ g \in [DOMAIN boots -> {"none", "fresh", "old", "disconnected"}]
          /\ \A i \in DOMAIN boots : /\ g[i] = "fresh" => boots[i].session = "fresh"
                                     /\ (g[i] \in {"fresh", "old"}) = (boots[i].session \in {"fresh", "old"})
      BY <1>1 DEF BootRow
    <3> HIDE DEF g
    <3>3. /\ boots' \in Seq(BootRow) /\ DOMAIN boots' = DOMAIN boots
          /\ \A j \in DOMAIN boots : /\ boots'[j].session = g[j] /\ boots'[j].runner = boots[j].runner
                                     /\ boots'[j].key = boots[j].key
          /\ \A s : BootsOf(s)' = BootsOf(s)
      BY <1>1, <3>1, <3>2, SessionsWritten
    <3>4. \A i \in DOMAIN boots : Connected(i)' = Connected(i)
      BY <3>2, <3>3 DEF Connected
    <3>5. \A s \in Runners : SameBoots(s)
      BY <1>2, <3>3, <3>4 DEF SameBoots, BootsOf
    <3>6. ConnectsBound
      BY <3>2, <3>3 DEF ConnectsBound, NewlyConnected
    <3> QED
      BY <3>3, <3>5, <3>6
  <2> QED
    BY <2>1, <2>2 DEF SetDesiredState, MarkStale
<1>4. runner' \in [Runners -> RunnerRow] /\ \A s \in Runners : RowRewritten(s)
  <2>1. ASSUME NEW r \in Runners, NEW row \in RunnerRow, runner' = [runner EXCEPT ![r] = row],
               row.state = runner[r].state,
               row.observed = "ONLINE" => runner[r].observed = "ONLINE",
               runner[r].state = "archived" => row.desired = runner[r].desired /\ row.observed = runner[r].observed,
               row.observed = "REVOKED" =>
                 row.desired # "ENABLED" \/ (runner[r].observed = "REVOKED" /\ row.desired = runner[r].desired)
        PROVE  runner' \in [Runners -> RunnerRow] /\ \A s \in Runners : RowRewritten(s)
    BY <1>1, <2>1 DEF RowRewritten
  <2>2. ASSUME NEW r \in Runners, Silence(r)
        PROVE  runner' \in [Runners -> RunnerRow] /\ \A s \in Runners : RowRewritten(s)
    <3> DEFINE row == [runner[r] EXCEPT !.recent = FALSE]
    <3>1. /\ row \in RunnerRow /\ row.state = runner[r].state /\ row.desired = runner[r].desired
          /\ row.observed = runner[r].observed
      BY <1>1 DEF RunnerRow
    <3>2. runner' = [runner EXCEPT ![r] = row]
      BY <2>2 DEF Silence, SetRunner
    <3> HIDE DEF row
    <3> QED
      BY <2>1, <3>1, <3>2
  <2>3. ASSUME NEW r \in Runners, NEW state \in Desired \cup {"REVOKED"}, SetDesiredState(r, state)
        PROVE  runner' \in [Runners -> RunnerRow] /\ \A s \in Runners : RowRewritten(s)
    <3>1. runner[r].state = "live"
      BY <2>3 DEF SetDesiredState, Live
    <3>2. CASE state = "REVOKED"
      <4> DEFINE row == [runner[r] EXCEPT !.desired = "DISABLED", !.observed = "REVOKED"]
      <4>1. /\ row \in RunnerRow /\ row.state = runner[r].state /\ row.desired = "DISABLED" /\ row.observed = "REVOKED"
        BY <1>1 DEF RunnerRow, Desired, Observed
      <4>2. runner' = [runner EXCEPT ![r] = row]
        BY <2>3, <3>2 DEF SetDesiredState, SetRunner
      <4> HIDE DEF row
      <4> QED
        BY <2>1, <3>1, <4>1, <4>2
    <3>3. CASE state = "ENABLED"
      <4>1. /\ Enable(runner[r]) \in RunnerRow /\ Enable(runner[r]).state = runner[r].state
            /\ Enable(runner[r]).observed = "OFFLINE"
        BY <1>1 DEF Enable, RunnerRow, Desired, Observed
      <4>2. runner' = [runner EXCEPT ![r] = Enable(runner[r])]
        BY <2>3, <3>3 DEF SetDesiredState, SetRunner
      <4> QED
        BY <2>1, <3>1, <4>1, <4>2
    <3>4. CASE state = "DISABLED"
      <4> DEFINE row == [runner[r] EXCEPT !.desired = state]
      <4>1. /\ row \in RunnerRow /\ row.state = runner[r].state /\ row.desired = "DISABLED"
            /\ row.observed = runner[r].observed
        BY <1>1, <3>4 DEF RunnerRow, Desired
      <4>2. runner' = [runner EXCEPT ![r] = row]
        BY <2>3, <3>4 DEF SetDesiredState, SetRunner
      <4> HIDE DEF row
      <4> QED
        BY <2>1, <3>1, <4>1, <4>2
    <3> QED
      BY <3>2, <3>3, <3>4 DEF Desired
  <2>4. CASE MarkStale
    <3> DEFINE row(r) == IF runner[r].observed = "ONLINE" /\ (~runner[r].recent \/ ~\E i \in BootsOf(r) : Connected(i))
                         THEN [runner[r] EXCEPT !.observed = "OFFLINE"] ELSE runner[r]
    <3>1. runner' = [r \in Runners |-> row(r)]
      BY <2>4 DEF MarkStale
    <3>2. \A r \in Runners : /\ row(r) \in RunnerRow /\ row(r).state = runner[r].state /\ row(r).desired = runner[r].desired
                             /\ row(r).observed = runner[r].observed
                                \/ (runner[r].observed = "ONLINE" /\ row(r).observed = "OFFLINE")
      BY <1>1 DEF RunnerRow, Observed
    <3> HIDE DEF row
    <3>3. runner' \in [Runners -> RunnerRow] /\ \A r \in Runners : runner'[r] = row(r)
      BY <3>1, <3>2
    <3> QED
      BY <3>2, <3>3 DEF RowRewritten
  <2> QED
    BY <2>2, <2>3, <2>4
<1>5. FleetTypeOK' /\ FleetKept'
  <2>1. FleetTypeOK'
    BY <1>1, <1>2, <1>3, <1>4 DEF FleetTypeOK
  <2> QED
    BY <1>2, <1>3, <2>1 DEF FleetInv, FleetKept
<1>6. ASSUME NEW s \in Runners PROVE RunnerSound(s)'
  <2>1. RunnerSound(s) /\ SameBoots(s) /\ RowRewritten(s)
    BY <1>3, <1>4 DEF FleetInv
  <2>2. runner[s].state = "archived" => runner[s].observed = "OFFLINE"
    BY <2>1 DEF RunnerSound
  <2> QED
    BY <1>2, <2>1, <2>2, SameKeeps DEF RunnerSound, RowRewritten
<1> QED
  BY <1>3, <1>5, <1>6 DEF FleetInv

\* A runner is archived: its starts, its key and its tokens go with it.
LEMMA FleetArchiveStep ==
    ASSUME FleetInv, NEW r \in Runners, Archive(r)
    PROVE  FleetInv' /\ ConnectsBound
<1> DEFINE g == [i \in DOMAIN boots |-> IF boots[i].runner = r /\ Connected(i) THEN "disconnected" ELSE boots[i].session]
           row == [runner[r] EXCEPT !.state = "archived", !.desired = "DISABLED", !.observed = "OFFLINE"]
<1>1. /\ boots' = [i \in DOMAIN boots |-> [boots[i] EXCEPT !.session = g[i]]]
      /\ runner' = [runner EXCEPT ![r] = row]
      /\ key' = [key EXCEPT ![r].revoked = @ \/ key[r].bound # {}]
      /\ token' = [t \in Tokens |-> ArchiveToken(t, r)]
      /\ UNCHANGED <<machine, beats, verified>>
  BY DEF Archive, SetRunner, Sessions, fleetWork
<1>2. /\ runner \in [Runners -> RunnerRow] /\ runner[r] \in RunnerRow
      /\ key \in [Runners -> KeyRow] /\ key[r] \in KeyRow
      /\ \A t \in Tokens : token[t] \in TokenRow
      /\ \A j \in DOMAIN boots : boots[j] \in BootRow
      /\ FleetTypeOK
  BY FleetTypes DEF FleetInv
<1>3. /\ g \in [DOMAIN boots -> {"none", "fresh", "old", "disconnected"}]
      /\ \A i \in DOMAIN boots : boots[i].runner # r => g[i] = boots[i].session
      /\ \A i \in DOMAIN boots : boots[i].runner = r => g[i] \notin {"fresh", "old"}
  BY <1>2 DEF BootRow, Connected
<1>4. /\ row \in RunnerRow /\ row.state = "archived" /\ row.desired = "DISABLED" /\ row.observed = "OFFLINE"
  BY <1>2 DEF RunnerRow, Desired, Observed
<1> HIDE DEF g, row
<1>5. /\ boots' \in Seq(BootRow) /\ DOMAIN boots' = DOMAIN boots
      /\ \A j \in DOMAIN boots : /\ boots'[j].session = g[j] /\ boots'[j].runner = boots[j].runner
                                 /\ boots'[j].key = boots[j].key
      /\ \A s : BootsOf(s)' = BootsOf(s)
  BY <1>1, <1>2, <1>3, SessionsWritten
<1>6. /\ runner' \in [Runners -> RunnerRow] /\ runner'[r] = row
      /\ \A s \in Runners \ {r} : runner'[s] = runner[s]
  BY <1>1, <1>2, <1>4
<1>7. /\ key' \in [Runners -> KeyRow]
      /\ \A s \in Runners \ {r} : key'[s] = key[s]
      /\ \A k : ~Bound(r, k)'
  <2> DEFINE revoked == key[r].revoked \/ key[r].bound # {}
  <2>1. revoked \in BOOLEAN
    OBVIOUS
  <2>2. key' = [key EXCEPT ![r] = [key[r] EXCEPT !.revoked = revoked]]
    BY <1>1, <1>2
  <2>3. key[r].revoked \in BOOLEAN
    BY <1>2 DEF KeyRow
  <2>4. ~revoked => key[r].bound = {}
    OBVIOUS
  <2> HIDE DEF revoked
  <2>5. /\ [key[r] EXCEPT !.revoked = revoked] \in KeyRow
        /\ [key[r] EXCEPT !.revoked = revoked].revoked = revoked
        /\ [key[r] EXCEPT !.revoked = revoked].bound = key[r].bound
    BY <1>2, <2>1 DEF KeyRow
  <2>6. /\ key' \in [Runners -> KeyRow] /\ \A s \in Runners \ {r} : key'[s] = key[s]
        /\ key'[r].revoked = revoked /\ key'[r].bound = key[r].bound
    BY <1>2, <2>2, <2>5
  <2> QED
    BY <2>4, <2>6 DEF Bound
<1>8. /\ token' \in [Tokens -> TokenRow]
      /\ \A t \in Tokens : token'[t].runner = token[t].runner
      /\ \A t \in Tokens : token'[t].state = token[t].state \/ (token'[t].state = "gone" /\ token[t].state = "unused")
      /\ \A t \in Tokens : token'[t].runner = {r} => token'[t].state # "unused"
  <2>1. \A t \in Tokens :
          /\ ArchiveToken(t, r) \in TokenRow /\ ArchiveToken(t, r).runner = token[t].runner
          /\ \/ ArchiveToken(t, r).state = token[t].state
             \/ ArchiveToken(t, r).state = "gone" /\ token[t].state = "unused"
          /\ token[t].runner = {r} => ArchiveToken(t, r).state # "unused"
    BY <1>2 DEF ArchiveToken, TokenRow
  <2> QED
    BY <1>1, <2>1
<1>9. FleetTypeOK' /\ FleetKept'
  <2>1. FleetTypeOK'
    BY <1>1, <1>2, <1>5, <1>6, <1>7, <1>8 DEF FleetTypeOK
  <2>2. \A u \in Tokens : token'[u].state # "none" => \E s \in Runners : token'[u].runner = {s}
    BY <1>8 DEF FleetInv, FleetKept
  <2> QED
    BY <1>1, <1>5, <2>1, <2>2 DEF FleetInv, FleetKept
<1>10. ASSUME NEW s \in Runners, s # r PROVE RunnerSound(s)'
  <2>1. \A j \in BootsOf(s) : j \in DOMAIN boots /\ boots[j].runner # r
    BY <1>10 DEF BootsOf
  <2>2. SameBoots(s)
    BY <1>3, <1>5, <1>7, <1>10, <2>1 DEF SameBoots, Connected
  <2>3. RunnerSound(s) /\ runner'[s] = runner[s]
    BY <1>6, <1>10 DEF FleetInv
  <2>4. \A t \in Tokens : token'[t].runner = {s} /\ token'[t].state = "unused" => token[t].runner = {s} /\ token[t].state = "unused"
    BY <1>8
  <2> QED
    BY <2>2, <2>3, <2>4, SameKeeps DEF RunnerSound
<1>11. RunnerSound(r)'
  <2>1. \A i \in BootsOf(r)' : ~Connected(i)'
    BY <1>3, <1>5 DEF BootsOf, Connected
  <2> QED
    BY <1>4, <1>6, <1>7, <1>8, <2>1 DEF RunnerSound
<1>12. ConnectsBound
  BY <1>3, <1>5 DEF ConnectsBound, NewlyConnected
<1> QED
  BY <1>9, <1>10, <1>11, <1>12 DEF FleetInv

\* FleetInv is inductive, and a start is connected only with the bound key.
LEMMA FleetStep ==
    ASSUME FleetInv, [NextFleet]_fleetVars
    PROVE  FleetInv' /\ ConnectsBound
<1>1. CASE UNCHANGED fleetVars
  <2>1. UNCHANGED <<runner, token, key, boots, machine, beats, verified>>
    BY <1>1 DEF fleetVars, fleetTables, fleetWork
  <2>2. ASSUME NEW r \in Runners PROVE RunnerSound(r)'
    <3>1. SameBoots(r) /\ RunnerSound(r)
      BY <2>1, UntouchedBoots DEF FleetInv
    <3> QED
      BY <2>1, <3>1, SameKeeps DEF RunnerSound
  <2> QED
    BY <2>1, <2>2 DEF FleetInv, FleetTypeOK, FleetKept, ConnectsBound, NewlyConnected
<1>2. CASE NextFleet
  BY <1>2, FleetMachineStep, FleetCreateStep, FleetSendStep, FleetStartStep, FleetRecordStep, FleetRowStep,
     FleetArchiveStep
  DEF NextFleet
<1> QED
  BY <1>1, <1>2

\* Runners, tokens, keys, worker starts and machines keep their types.
THEOREM FleetTypeCorrect == SpecFleet => []FleetTypeOK
<1>1. FleetInv /\ [NextFleet]_fleetVars => FleetInv'
  BY FleetStep
<1> QED
  BY FleetInit, <1>1, PTL DEF SpecFleet, FleetInv

\* For any number of runners, tokens, machines and worker starts: only the key
\* a runner is bound to speaks for it, and neither an archived nor a revoked
\* runner comes back by what was under way.
THEOREM KeysAlwaysDecide == SpecFleet => KeysDecide
<1>1. FleetInv /\ [NextFleet]_fleetVars => FleetInv'
  BY FleetStep
<1>2. FleetInv => OnlineIsCurrent /\ ArchivedIsFinal /\ RevokedNotEligible
  BY SoundIsDecided DEF FleetInv
<1>3. FleetInv /\ [NextFleet]_fleetVars =>
        [\A i \in DOMAIN boots' :
           (boots'[i].session = "fresh" /\ (i \notin DOMAIN boots \/ boots[i].session # "fresh"))
              => Bound(boots[i].runner, boots[i].key)]_fleetVars
  BY FleetStep DEF ConnectsBound, NewlyConnected
<1> QED
  BY FleetInit, <1>1, <1>2, <1>3, PTL DEF SpecFleet, KeysDecide, OnlyBoundConnects

-----------------------------------------------------------------------------
(* RunLogs *)

\* d is what stream s wrote after its first a bytes.
Follows(d, s, a) == \A k \in 1..Len(d) : d[k] = [stream |-> s, n |-> a + k]

\* B[s][q] counts the bytes in the first q log events of stream s.
Marks == [Streams -> [Nat -> Nat]]
Marked(x, B) == \A s \in Streams : B[s][0] = 0 /\ \A q \in 1..x.sequence[s] : B[s][q - 1] < B[s][q]

\* L[i][s] counts the bytes of stream s written up to the i-th piece in the pipe.
Risen(l, m, p, k) == \A s \in Streams : (s = p => m[s] = l[s] + k) /\ (s # p => m[s] = l[s])
Levels(x) == [0..Len(x.pipe) -> [Streams -> Nat]]
Piped(x, L) ==
    /\ L[Len(x.pipe)] = x.written
    /\ \A i \in 1..Len(x.pipe) :
        /\ Follows(x.pipe[i].data, x.pipe[i].stream, L[i - 1][x.pipe[i].stream])
        /\ Risen(L[i - 1], L[i], x.pipe[i].stream, Len(x.pipe[i].data))

\* The executor: what it took from the pipe is in its events and then in its
\* buffers, byte after byte, until it stops.
ExecSound(x, B, L) ==
    /\ x \in Executor /\ Marked(x, B) /\ Piped(x, L)
    /\ x.stopped <=> x.exceeded \/ x.failed
    /\ x.streamed <=> \E s \in Streams : x.sequence[s] > 0
    /\ Len(x.accepted) <= OutputLimit /\ (x.exceeded => Len(x.accepted) = OutputLimit)
    /\ \A s \in Streams : Len(x.buffer[s]) <= Len(x.accepted) /\ Follows(x.buffer[s], s, B[s][x.sequence[s]])
    /\ ~x.stopped =>
        /\ \A s \in Streams : L[0][s] = B[s][x.sequence[s]] + Len(x.buffer[s])
        /\ Len(x.accepted) = L[0]["stdout"] + L[0]["stderr"]
    /\ x.phase = "ended" => x.pipe = << >> /\ (x.failed \/ \A s \in Streams : x.buffer[s] = << >>)

\* A row of execution_log_chunks: a log event's bytes or, if none was
\* streamed, the whole output.
RowSound(c, x, B) ==
    /\ c.stream \in Streams /\ c.data \in Seq(Byte) /\ c.data # << >> /\ Len(c.data) <= OutputLimit
    /\ c.lost = LostBytes(c.data)
    /\ IF x.streamed
       THEN /\ c.sequence \in 1..x.sequence[c.stream]
            /\ Follows(c.data, c.stream, B[c.stream][c.sequence - 1])
            /\ Len(c.data) = B[c.stream][c.sequence] - B[c.stream][c.sequence - 1]
       ELSE x.phase = "ended" /\ c.stream = "stdout" /\ c.sequence = 3 /\ c.data = x.accepted

EventSound(e, x, B) ==
    /\ e \in LogEvent
    /\ e.kind = "log" => x.streamed /\ RowSound(e, x, B)
    /\ e.kind = "end" => /\ x.phase = "ended" /\ e.stream = "stdout" /\ e.sequence = 3
                         /\ e.data = TerminalResult(x) /\ e.lost = LostBytes(e.data)

IsLog(e, s, n) == e.kind = "log" /\ e.stream = s /\ e.sequence = n
IsRow(c, s, n) == c.stream = s /\ c.sequence = n

\* Every number a stream has used is that of an event or of a row.
Located(x, events, rows) ==
    \A s \in Streams : \A n \in 1..x.sequence[s] :
        (\E e \in events : IsLog(e, s, n)) \/ \E c \in rows : IsRow(c, s, n)

Holds(d, b) == \E j \in 1..Len(d) : d[j] = b
Recorded(b, events, rows) == (\E e \in events : Holds(e.data, b)) \/ \E c \in rows : Holds(c.data, b)

\* Without a failed write no accepted byte is lost.
NothingLost(x, events, rows) ==
    ~x.failed => \A i \in 1..Len(x.accepted) :
                    (\E s \in Streams : Holds(x.buffer[s], x.accepted[i])) \/ Recorded(x.accepted[i], events, rows)

Before(e, f) == e.kind = "log" /\ f.kind = "log" /\ e.stream = f.stream => e.sequence < f.sequence

\* Events are published in the order of their numbers.
Ordered(out, flying) ==
    /\ out \in Seq(LogEvent)
    /\ \A i, j \in 1..Len(out) : i < j => Before(out[i], out[j])
    /\ \A e \in flying : \A j \in 1..Len(out) : Before(e, out[j])

\* Rows stored in order have no gaps, and a reader saw all of them.
ReadSound(x, rows, rd, dis) ==
    /\ rd \in [Streams -> [last : Nat, seen : SUBSET rows]]
    /\ \A s \in Streams : rd[s].last = 0 \/ \E c \in rows : c.sequence = rd[s].last
    /\ ~dis /\ x.streamed =>
        /\ \A c \in rows : \A n \in 1..(c.sequence - 1) : \E d \in rows : IsRow(d, c.stream, n)
        /\ \A s \in Streams : \A n \in 1..rd[s].last : \E c \in rd[s].seen : c.sequence = n

SentIn(out, flying, gone) == {out[i] : i \in 1..Len(out)} \cup flying \cup gone

\* What holds of the tables when the bytes are counted by B.
TablesSound(x, B, out, flying, gone, rows, rd, dis) ==
    /\ \A e \in SentIn(out, flying, gone) : EventSound(e, x, B)
    /\ \A c \in rows : RowSound(c, x, B)
    /\ Located(x, SentIn(out, flying, gone), rows)
    /\ NothingLost(x, SentIn(out, flying, gone), rows)
    /\ Ordered(out, flying)
    /\ ReadSound(x, rows, rd, dis)

LogsSound(x, out, flying, gone, rows, rd, dis) ==
    \E B \in Marks : \E L \in Levels(x) :
        ExecSound(x, B, L) /\ TablesSound(x, B, out, flying, gone, rows, rd, dis)

LogsInv == LogsSound(exec, outbox, inFlight, givenUp, chunk, reader, disorder)

-----------------------------------------------------------------------------

\* The sizes of the instance.
LEMMA LogSizes ==
    /\ MaxBytes \in Nat \ {0} /\ ChannelSize \in Nat \ {0} /\ OutputLimit \in Nat \ {0}
    /\ ChunkBytes \in Nat \ {0} /\ ReadLimit \in Nat \ {0}
BY RunLogsAssumption

\* Products of natural numbers.
LEMMA Multiples ==
    ASSUME NEW a \in Nat, NEW b \in Nat, NEW c \in Nat \ {0}
    PROVE  /\ a * c \in Nat /\ (a + 1) * c = a * c + c
           /\ a < b => a * c + c <= b * c
           /\ a * c < b * c => a < b
<1>1. a * c \in Nat /\ b * c \in Nat
  OBVIOUS
<1>2. (a + 1) * c = a * c + c
  OBVIOUS
<1>3. a < b => a * c + c <= b * c
  OBVIOUS
<1>4. a * c < b * c => a < b
  OBVIOUS
<1> QED BY <1>1, <1>2, <1>3, <1>4

\* Division by the size of a chunk, as the inequalities it stands for.
LEMMA Quotients ==
    ASSUME NEW n \in Nat, NEW c \in Nat \ {0}
    PROVE  n \div c \in Nat /\ (n \div c) * c <= n /\ n < (n \div c) * c + c
<1>1. n \div c \in Nat
  OBVIOUS
<1>2. (n \div c) * c <= n
  OBVIOUS
<1>3. n < (n \div c) * c + c
  OBVIOUS
<1> QED BY <1>1, <1>2, <1>3

\* The end of the first i parts of something of length n.
UpTo(n, i) == IF i * ChunkBytes < n THEN i * ChunkBytes ELSE n

\* The parts a flush stores cover what it flushes, one after the other.
LEMMA PartsCover ==
    ASSUME NEW data \in Seq(Byte)
    PROVE  /\ Parts(data) \in Nat
           /\ UpTo(Len(data), 0) = 0 /\ UpTo(Len(data), Parts(data)) = Len(data)
           /\ Parts(data) = 0 <=> data = << >>
           /\ \A i \in Nat : UpTo(Len(data), i) \in 0..Len(data)
           /\ \A i \in 1..Parts(data) :
                /\ UpTo(Len(data), i - 1) < UpTo(Len(data), i)
                /\ Part(data, i) \in Seq(Byte)
                /\ Len(Part(data, i)) = UpTo(Len(data), i) - UpTo(Len(data), i - 1)
                /\ \A k \in 1..Len(Part(data, i)) : Part(data, i)[k] = data[UpTo(Len(data), i - 1) + k]
           /\ \A j \in 1..Len(data) : \E i \in 1..Parts(data) :
                UpTo(Len(data), i - 1) < j /\ j <= UpTo(Len(data), i)
<1> DEFINE n == Len(data)
           q == Parts(data)
<1>1. n \in Nat /\ ChunkBytes \in Nat \ {0} /\ data \in [1..n -> Byte] /\ (n = 0 <=> data = << >>)
  BY LogSizes, LenProperties, EmptySeq
<1>2. q \in Nat /\ q * ChunkBytes <= n + ChunkBytes - 1 /\ n + ChunkBytes - 1 < q * ChunkBytes + ChunkBytes
  <2>1. n + ChunkBytes - 1 \in Nat
    BY <1>1
  <2> QED BY <1>1, <2>1, Quotients DEF Parts
<1>3. \A i \in 1..q : i - 1 \in Nat /\ (i - 1) * ChunkBytes \in Nat /\ i * ChunkBytes = (i - 1) * ChunkBytes + ChunkBytes
                      /\ (i - 1) * ChunkBytes < n
  <2> SUFFICES ASSUME NEW i \in 1..q
               PROVE  i - 1 \in Nat /\ (i - 1) * ChunkBytes \in Nat /\ i * ChunkBytes = (i - 1) * ChunkBytes + ChunkBytes
                      /\ (i - 1) * ChunkBytes < n
    OBVIOUS
  <2>1. PICK a \in Nat : a = i - 1 /\ i = a + 1 /\ a < q
    BY <1>2
  <2>2. a * ChunkBytes \in Nat /\ (a + 1) * ChunkBytes = a * ChunkBytes + ChunkBytes /\ a * ChunkBytes + ChunkBytes <= q * ChunkBytes
    BY <1>1, <1>2, <2>1, Multiples
  <2> HIDE DEF q, n
  <2>3. a * ChunkBytes < n
    BY <1>1, <1>2, <2>2, Multiples
  <2> QED BY <2>1, <2>2, <2>3
<1>4. q * ChunkBytes \in Nat /\ 0 * ChunkBytes = 0 /\ n <= q * ChunkBytes
  <2>1. q * ChunkBytes \in Nat
    BY <1>1, <1>2, Multiples
  <2> HIDE DEF q, n
  <2> QED BY <1>1, <1>2, <2>1
<1> HIDE DEF q, n
<1>5. UpTo(n, 0) = 0 /\ UpTo(n, q) = n
  BY <1>1, <1>4 DEF UpTo
<1>6. q = 0 <=> data = << >>
  <2>1. CASE q = 0
    BY <1>1, <1>4, <2>1
  <2>2. CASE q # 0
    <3>1. 1 \in 1..q
      BY <1>2, <2>2
    <3>2. (1 - 1) * ChunkBytes < n /\ (1 - 1) * ChunkBytes \in Nat
      BY <1>3, <3>1
    <3> QED BY <1>1, <2>2, <3>2
  <2> QED BY <2>1, <2>2
<1>7. \A i \in Nat : UpTo(n, i) \in 0..n
  BY <1>1, Multiples DEF UpTo
<1>8. ASSUME NEW i \in 1..q
      PROVE  /\ UpTo(n, i - 1) < UpTo(n, i)
             /\ Part(data, i) \in Seq(Byte)
             /\ Len(Part(data, i)) = UpTo(n, i) - UpTo(n, i - 1)
             /\ \A k \in 1..Len(Part(data, i)) : Part(data, i)[k] = data[UpTo(n, i - 1) + k]
  <2> DEFINE a == UpTo(n, i - 1)
             b == UpTo(n, i)
  <2>1. a = (i - 1) * ChunkBytes /\ a \in Nat /\ b \in Nat /\ a < b /\ b <= n
    BY <1>1, <1>3, <1>8 DEF UpTo
  <2>2. Part(data, i) = SubSeq(data, a + 1, b)
    BY <2>1 DEF Part, UpTo, n
  <2> HIDE DEF a, b
  <2>3. \A j \in (a + 1)..b : data[j] \in Byte
    BY <1>1, <2>1
  <2>4. a + 1 \in Int /\ b \in Int
    BY <2>1
  <2>5. /\ SubSeq(data, a + 1, b) \in Seq(Byte)
        /\ Len(SubSeq(data, a + 1, b)) = IF a + 1 <= b THEN b - (a + 1) + 1 ELSE 0
        /\ \A k \in 1..(b - (a + 1) + 1) : SubSeq(data, a + 1, b)[k] = data[a + 1 + k - 1]
    BY <2>3, <2>4, SubSeqProperties
  <2>6. Len(Part(data, i)) = b - a
    BY <2>1, <2>2, <2>5
  <2>7. \A k \in 1..(b - a) : Part(data, i)[k] = data[a + k]
    <3> SUFFICES ASSUME NEW k \in 1..(b - a) PROVE SubSeq(data, a + 1, b)[k] = data[a + k]
      BY <2>2
    <3>1. k \in 1..(b - (a + 1) + 1) /\ a + 1 + k - 1 = a + k
      BY <2>1
    <3> QED BY <2>5, <3>1
  <2> QED BY <2>1, <2>2, <2>5, <2>6, <2>7 DEF a, b
<1>9. ASSUME NEW j \in 1..n
      PROVE  \E i \in 1..q : UpTo(n, i - 1) < j /\ j <= UpTo(n, i)
  <2>1. PICK a \in Nat : a * ChunkBytes <= j - 1 /\ j - 1 < a * ChunkBytes + ChunkBytes /\ a * ChunkBytes \in Nat
    <3>1. j - 1 \in Nat
      BY <1>1
    <3>2. PICK a \in Nat : a = (j - 1) \div ChunkBytes
      BY <1>1, <3>1, Quotients
    <3> QED BY <1>1, <3>1, <3>2, Quotients, Multiples
  <2>2. a < q
    <3>1. a * ChunkBytes < q * ChunkBytes
      BY <1>1, <1>4, <2>1
    <3> QED BY <1>1, <1>2, <3>1, Multiples
  <2>3. a + 1 \in 1..q /\ a + 1 - 1 = a
    BY <1>2, <2>2
  <2>4. (a + 1) * ChunkBytes = a * ChunkBytes + ChunkBytes
    BY <1>1, Multiples
  <2>5. UpTo(n, a) < j /\ j <= UpTo(n, a + 1)
    BY <1>1, <2>1, <2>4 DEF UpTo
  <2> QED BY <2>3, <2>5
<1> QED BY <1>2, <1>5, <1>6, <1>7, <1>8, <1>9 DEF n, q

\* The fields of an executor.
LEMMA ExecutorFields ==
    ASSUME NEW x \in Executor
    PROVE  /\ x.phase \in {"running", "exited", "ended", "crashed"}
           /\ x.written \in [Streams -> 0..MaxBytes] /\ x.pipe \in Seq([stream : Streams, data : Seq(Byte)])
           /\ x.accepted \in Seq(Byte) /\ x.exceeded \in BOOLEAN /\ x.stopped \in BOOLEAN /\ x.failed \in BOOLEAN
           /\ x.buffer \in [Streams -> Seq(Byte)] /\ x.sequence \in [Streams -> Nat] /\ x.streamed \in BOOLEAN
BY DEF Executor

\* Two rows for the same number hold the same bytes.
LEMMA RowsAgree ==
    ASSUME NEW x, NEW B \in Marks, NEW c, NEW d, RowSound(c, x, B), RowSound(d, x, B),
           c.stream = d.stream, c.sequence = d.sequence
    PROVE  c.data = d.data
<1>1. CASE x.streamed
  <2>1. c.data \in Seq(Byte) /\ d.data \in Seq(Byte) /\ Len(c.data) = Len(d.data)
    BY <1>1 DEF RowSound
  <2>2. \A i \in 1..Len(c.data) : c.data[i] = d.data[i]
    BY <1>1, <2>1 DEF RowSound, Follows
  <2> QED BY <2>1, <2>2, SeqEqual
<1>2. CASE ~x.streamed
  BY <1>2 DEF RowSound
<1> QED BY <1>1, <1>2

\* The executor goes from x to y: it numbers further events.
Grows(x, y, B, C) ==
    /\ x.phase # "ended"
    /\ x.streamed => y.streamed
    /\ \A s \in Streams : x.sequence[s] <= y.sequence[s] /\ \A q \in 0..x.sequence[s] : C[s][q] = B[s][q]

\* What was sound stays so.
LEMMA RowGrows ==
    ASSUME NEW x \in Executor, NEW y \in Executor, NEW B \in Marks, NEW C \in Marks, Grows(x, y, B, C),
           NEW c, RowSound(c, x, B)
    PROVE  RowSound(c, y, C) /\ x.streamed
<1>1. x.streamed /\ y.streamed
  BY DEF RowSound, Grows
<1>2. c.stream \in Streams /\ c.sequence \in 1..x.sequence[c.stream]
  BY <1>1 DEF RowSound
<1>3. x.sequence[c.stream] \in Nat /\ y.sequence[c.stream] \in Nat /\ x.sequence[c.stream] <= y.sequence[c.stream]
  BY <1>2, ExecutorFields DEF Grows
<1>4. /\ c.sequence \in 1..y.sequence[c.stream]
      /\ c.sequence \in 0..x.sequence[c.stream] /\ c.sequence - 1 \in 0..x.sequence[c.stream]
  BY <1>2, <1>3
<1>5. C[c.stream][c.sequence] = B[c.stream][c.sequence] /\ C[c.stream][c.sequence - 1] = B[c.stream][c.sequence - 1]
  BY <1>2, <1>4 DEF Grows
<1> QED BY <1>1, <1>4, <1>5 DEF RowSound

\* An event stays what it is when the marks grow.
LEMMA EventGrows ==
    ASSUME NEW x \in Executor, NEW y \in Executor, NEW B \in Marks, NEW C \in Marks, Grows(x, y, B, C),
           NEW e, EventSound(e, x, B)
    PROVE  EventSound(e, y, C)
<1>1. e \in LogEvent /\ e.kind # "end"
  BY DEF EventSound, Grows
<1>2. e.kind = "log" => y.streamed /\ RowSound(e, y, C)
  BY RowGrows DEF EventSound, Grows
<1> QED BY <1>1, <1>2 DEF EventSound

\* A step of the executor that stores the events ev.
LEMMA ExecKeeps ==
    ASSUME NEW x, NEW y, NEW B \in Marks, NEW C \in Marks, NEW L, NEW M \in Levels(y),
           NEW out, NEW flying, NEW gone, NEW rows, NEW rd, NEW dis, NEW ev \in Seq(LogEvent),
           ExecSound(x, B, L), TablesSound(x, B, out, flying, gone, rows, rd, dis),
           ExecSound(y, C, M), Grows(x, y, B, C),
           \A i \in 1..Len(ev) : EventSound(ev[i], y, C),
           \A i \in 1..Len(ev) : ev[i].kind = "log" => ev[i].sequence > x.sequence[ev[i].stream],
           \A i, j \in 1..Len(ev) : i < j => Before(ev[i], ev[j]),
           \A s \in Streams : \A n \in (x.sequence[s] + 1)..y.sequence[s] : \E i \in 1..Len(ev) : IsLog(ev[i], s, n),
           NothingLost(y, SentIn(out, flying, gone) \cup {ev[i] : i \in 1..Len(ev)}, rows)
    PROVE  LogsSound(y, out \o ev, flying, gone, rows, rd, dis)
<1> DEFINE old == SentIn(out, flying, gone)
           new == {ev[i] : i \in 1..Len(ev)}
           all == SentIn(out \o ev, flying, gone)
<1>1. x \in Executor /\ y \in Executor /\ out \in Seq(LogEvent)
  BY DEF ExecSound, TablesSound, Ordered
<1>2. /\ out \o ev \in Seq(LogEvent) /\ Len(out \o ev) = Len(out) + Len(ev) /\ Len(out) \in Nat /\ Len(ev) \in Nat
      /\ \A i \in 1..Len(out) : (out \o ev)[i] = out[i]
      /\ \A i \in (Len(out) + 1)..(Len(out) + Len(ev)) : (out \o ev)[i] = ev[i - Len(out)]
  BY <1>1, ConcatProperties, LenProperties
<1>3. all = old \cup new
  <2>1. \A i \in 1..Len(out) : i \in 1..Len(out \o ev)
    BY <1>2
  <2>2. \A i \in 1..Len(ev) : i + Len(out) \in 1..Len(out \o ev) /\ (out \o ev)[i + Len(out)] = ev[i]
    BY <1>2
  <2>3. \A i \in 1..Len(out \o ev) : i \in 1..Len(out) \/ (i - Len(out) \in 1..Len(ev) /\ i \in (Len(out) + 1)..(Len(out) + Len(ev)))
    BY <1>2
  <2>4. \A i \in 1..Len(out \o ev) : (out \o ev)[i] \in old \cup new
    BY <1>2, <2>3 DEF SentIn
  <2>5. \A i \in 1..Len(out) : out[i] \in all
    BY <1>2, <2>1 DEF SentIn
  <2>6. \A i \in 1..Len(ev) : ev[i] \in all
    BY <2>2 DEF SentIn
  <2> QED BY <2>4, <2>5, <2>6 DEF SentIn
<1> HIDE DEF old, new, all
<1>4. \A e \in all : EventSound(e, y, C)
  <2>1. \A e \in old : EventSound(e, y, C)
    BY <1>1, EventGrows DEF TablesSound, old
  <2> QED BY <1>3, <2>1 DEF new
<1>5. \A c \in rows : RowSound(c, y, C) /\ x.streamed
  BY <1>1, RowGrows DEF TablesSound
<1>6. Located(y, all, rows)
  <2> SUFFICES ASSUME NEW s \in Streams, NEW n \in 1..y.sequence[s]
               PROVE  (\E e \in all : IsLog(e, s, n)) \/ \E c \in rows : IsRow(c, s, n)
    BY DEF Located
  <2>1. x.sequence[s] \in Nat /\ y.sequence[s] \in Nat
    BY <1>1, ExecutorFields
  <2>2. CASE n \in 1..x.sequence[s]
    BY <1>3, <2>2 DEF TablesSound, Located, old
  <2>3. CASE n \in (x.sequence[s] + 1)..y.sequence[s]
    BY <1>3, <2>3 DEF new
  <2> QED BY <2>1, <2>2, <2>3
<1>7. NothingLost(y, all, rows)
  BY <1>3 DEF old, new
<1>8. \A e \in old : e.kind = "log" => e.stream \in Streams /\ e.sequence \in 1..x.sequence[e.stream]
  <2>1. \A e \in old : EventSound(e, x, B)
    BY DEF TablesSound, old
  <2> QED BY <2>1 DEF EventSound, RowSound
<1>9. ASSUME NEW e \in old, NEW i \in 1..Len(ev)
      PROVE  Before(e, ev[i])
  <2> SUFFICES ASSUME e.kind = "log", ev[i].kind = "log", e.stream = ev[i].stream
               PROVE  e.sequence < ev[i].sequence
    BY DEF Before
  <2>1. e.stream \in Streams /\ e.sequence \in 1..x.sequence[e.stream] /\ ev[i].sequence > x.sequence[e.stream]
    BY <1>8
  <2>2. x.sequence[e.stream] \in Nat /\ ev[i] \in LogEvent
    BY <1>1, <2>1, ExecutorFields, ElementOfSeq
  <2>3. ev[i].sequence \in Nat
    BY <2>2 DEF LogEvent
  <2> QED BY <2>1, <2>2, <2>3
<1>10. Ordered(out \o ev, flying)
  <2>1. \A i, j \in 1..Len(out) : i < j => Before(out[i], out[j])
    BY DEF TablesSound, Ordered
  <2>2. \A i \in 1..Len(out) : out[i] \in old
    BY DEF old, SentIn
  <2>3. \A e \in flying : e \in old /\ \A j \in 1..Len(out) : Before(e, out[j])
    BY DEF TablesSound, Ordered, old, SentIn
  <2>4. ASSUME NEW j \in 1..Len(out \o ev), j \notin 1..Len(out)
        PROVE  \E k \in 1..Len(ev) : k = j - Len(out) /\ (out \o ev)[j] = ev[k]
    BY <1>2, <2>4
  <2>5. ASSUME NEW i \in 1..Len(out \o ev), NEW j \in 1..Len(out \o ev), i < j
        PROVE  Before((out \o ev)[i], (out \o ev)[j])
    <3>1. CASE j \in 1..Len(out)
      <4>1. i \in 1..Len(out)
        BY <1>2, <2>5, <3>1
      <4> QED BY <1>2, <2>1, <2>5, <3>1, <4>1
    <3>2. CASE i \in 1..Len(out) /\ j \notin 1..Len(out)
      BY <1>2, <1>9, <2>2, <2>4, <3>2
    <3>3. CASE i \notin 1..Len(out) /\ j \notin 1..Len(out)
      <4>1. PICK a \in 1..Len(ev) : a = i - Len(out) /\ (out \o ev)[i] = ev[a]
        BY <2>4, <3>3
      <4>2. PICK b \in 1..Len(ev) : b = j - Len(out) /\ (out \o ev)[j] = ev[b]
        BY <2>4, <3>3
      <4>3. a < b
        BY <1>2, <2>5, <4>1, <4>2
      <4> QED BY <4>1, <4>2, <4>3
    <3> QED BY <1>2, <2>5, <3>1, <3>2, <3>3
  <2>6. ASSUME NEW e \in flying, NEW j \in 1..Len(out \o ev)
        PROVE  Before(e, (out \o ev)[j])
    <3>1. CASE j \in 1..Len(out)
      BY <1>2, <2>3, <3>1
    <3>2. CASE j \notin 1..Len(out)
      BY <1>9, <2>3, <2>4, <3>2
    <3> QED BY <3>1, <3>2
  <2> QED BY <1>2, <2>5, <2>6 DEF Ordered
<1>11. ReadSound(y, rows, rd, dis)
  <2>1. ReadSound(x, rows, rd, dis)
    BY DEF TablesSound
  <2>2. CASE x.streamed
    BY <2>1, <2>2 DEF ReadSound
  <2>3. CASE ~x.streamed
    <3>1. rows = {}
      BY <1>5, <2>3
    <3>2. \A s \in Streams : rd[s].last = 0
      BY <2>1, <3>1 DEF ReadSound
    <3>3. \A s \in Streams : \A n \in 1..rd[s].last : FALSE
      BY <3>2
    <3> QED BY <2>1, <3>1, <3>3 DEF ReadSound
  <2> QED BY <2>2, <2>3
<1>12. TablesSound(y, C, out \o ev, flying, gone, rows, rd, dis)
  BY <1>4, <1>5, <1>6, <1>7, <1>10, <1>11 DEF TablesSound, all
<1> QED BY <1>12 DEF LogsSound

\* A step of the executor that stores none.
LEMMA ExecQuiet ==
    ASSUME NEW x, NEW y, NEW B \in Marks, NEW L, NEW M \in Levels(y),
           NEW out, NEW flying, NEW gone, NEW rows, NEW rd, NEW dis,
           ExecSound(x, B, L), TablesSound(x, B, out, flying, gone, rows, rd, dis),
           ExecSound(y, B, M), x.phase # "ended", y.sequence = x.sequence, y.streamed = x.streamed,
           NothingLost(y, SentIn(out, flying, gone), rows)
    PROVE  LogsSound(y, out, flying, gone, rows, rd, dis)
<1> DEFINE none == << >>
<1>1. x \in Executor /\ out \in Seq(LogEvent)
  BY DEF ExecSound, TablesSound, Ordered
<1>2. none \in Seq(LogEvent) /\ Len(none) = 0 /\ out \o none = out
  BY <1>1, EmptySeq, ConcatEmptySeq
<1>3. \A i \in 1..Len(none) : FALSE
  BY <1>2
<1> HIDE DEF none
<1>4. \A s \in Streams : x.sequence[s] \in Nat
  BY <1>1, ExecutorFields
<1>5. Grows(x, y, B, B)
  BY <1>4 DEF Grows
<1>6. \A s \in Streams : \A n \in (x.sequence[s] + 1)..y.sequence[s] : FALSE
  BY <1>4
<1>7. SentIn(out, flying, gone) \cup {none[i] : i \in 1..Len(none)} = SentIn(out, flying, gone)
  BY <1>3
<1>8. NothingLost(y, SentIn(out, flying, gone) \cup {none[i] : i \in 1..Len(none)}, rows)
  BY <1>7
<1>9. LogsSound(y, out \o none, flying, gone, rows, rd, dis)
  BY <1>2, <1>3, <1>5, <1>6, <1>8, ExecKeeps
<1> QED BY <1>2, <1>9

\* The first state.
LEMMA LogsInit == InitLogs => LogsInv
<1> SUFFICES ASSUME InitLogs PROVE LogsInv
  OBVIOUS
<1> DEFINE B == [s \in Streams |-> [q \in Nat |-> 0]]
           L == [i \in 0..0 |-> [s \in Streams |-> 0]]
           none == << >>
<1>1. /\ none \in Seq(Byte) /\ none \in Seq([stream : Streams, data : Seq(Byte)]) /\ none \in Seq(LogEvent)
      /\ Len(none) = 0 /\ \A i \in 1..Len(none) : FALSE
  BY EmptySeq
<1> HIDE DEF none
<1>2. /\ exec.phase = "running" /\ exec.written = [s \in Streams |-> 0] /\ exec.pipe = none /\ exec.accepted = none
      /\ exec.exceeded = FALSE /\ exec.stopped = FALSE /\ exec.failed = FALSE
      /\ exec.buffer = [s \in Streams |-> none] /\ exec.sequence = [s \in Streams |-> 0] /\ exec.streamed = FALSE
  BY DEF InitLogs, NewExecutor, none
<1>3. exec \in Executor
  <2>1. exec = [phase |-> "running", written |-> [s \in Streams |-> 0], pipe |-> none,
                accepted |-> none, exceeded |-> FALSE, stopped |-> FALSE, failed |-> FALSE,
                buffer |-> [s \in Streams |-> none], sequence |-> [s \in Streams |-> 0], streamed |-> FALSE]
    BY DEF InitLogs, NewExecutor, none
  <2>2. [s \in Streams |-> 0] \in [Streams -> 0..MaxBytes] /\ [s \in Streams |-> 0] \in [Streams -> Nat]
        /\ [s \in Streams |-> none] \in [Streams -> Seq(Byte)]
    BY <1>1, LogSizes
  <2> QED BY <1>1, <2>1, <2>2 DEF Executor
<1>4. B \in Marks /\ \A s \in Streams : \A q \in Nat : B[s][q] = 0
  BY DEF Marks
<1>5. L \in Levels(exec) /\ L[0] = [s \in Streams |-> 0] /\ \A s \in Streams : L[0][s] = 0
  BY <1>1, <1>2 DEF Levels
<1> HIDE DEF B, L
<1>6. Marked(exec, B) /\ Piped(exec, L)
  BY <1>1, <1>2, <1>4, <1>5 DEF Marked, Piped
<1>7. \A s \in Streams : exec.sequence[s] = 0 /\ exec.buffer[s] = none /\ B[s][exec.sequence[s]] = 0
  BY <1>2, <1>4
<1>8. ExecSound(exec, B, L)
  BY <1>1, <1>2, <1>3, <1>5, <1>6, <1>7, LogSizes DEF ExecSound, Follows, Streams
<1>9. outbox = none /\ inFlight = {} /\ givenUp = {} /\ chunk = {}
  BY DEF InitLogs, none
<1>10. SentIn(outbox, inFlight, givenUp) = {}
  BY <1>1, <1>9 DEF SentIn
<1>11. Located(exec, SentIn(outbox, inFlight, givenUp), chunk)
       /\ NothingLost(exec, SentIn(outbox, inFlight, givenUp), chunk)
  BY <1>1, <1>2, <1>7 DEF Located, NothingLost
<1>12. Ordered(outbox, inFlight)
  BY <1>1, <1>9 DEF Ordered
<1>13. ReadSound(exec, chunk, reader, disorder)
  <2>1. reader \in [Streams -> [last : Nat, seen : SUBSET chunk]] /\ \A s \in Streams : reader[s].last = 0
    BY DEF InitLogs
  <2> QED BY <1>2, <2>1 DEF ReadSound
<1>14. TablesSound(exec, B, outbox, inFlight, givenUp, chunk, reader, disorder)
  BY <1>9, <1>10, <1>11, <1>12, <1>13 DEF TablesSound
<1> QED BY <1>4, <1>5, <1>8, <1>14 DEF LogsInv, LogsSound

\* The bytes of a piece.
LEMMA BytesFollow ==
    ASSUME NEW s \in Streams, NEW a \in Nat, NEW k \in Nat, a + k <= MaxBytes
    PROVE  /\ Bytes(s, a + 1, a + k) \in Seq(Byte) /\ Len(Bytes(s, a + 1, a + k)) = k
           /\ Follows(Bytes(s, a + 1, a + k), s, a)
<1> DEFINE d == Bytes(s, a + 1, a + k)
<1>1. DOMAIN d = 1..k /\ \A i \in 1..k : d[i] = [stream |-> s, n |-> a + i]
  <2>1. a + k - (a + 1) + 1 = k
    OBVIOUS
  <2>2. \A i \in 1..k : a + 1 + i - 1 = a + i
    OBVIOUS
  <2>3. d = [i \in 1..k |-> [stream |-> s, n |-> a + 1 + i - 1]]
    BY <2>1 DEF Bytes
  <2> HIDE DEF d
  <2> QED BY <2>2, <2>3
<1>2. \A i \in 1..k : [stream |-> s, n |-> a + i] \in Byte
  BY LogSizes DEF Byte
<1>3. d \in [1..k -> Byte]
  BY <1>1, <1>2 DEF Bytes
<1> HIDE DEF d
<1>4. d \in Seq(Byte)
  <2>1. \E m \in Nat : d \in [1..m -> Byte]
    BY <1>3
  <2> QED BY <2>1, SeqDef
<1>5. Len(d) = k
  <2>1. DOMAIN d = 1..Len(d) /\ Len(d) \in Nat
    BY <1>4, LenProperties
  <2> QED BY <1>1, <2>1
<1>6. Follows(d, s, a)
  BY <1>1, <1>5 DEF Follows
<1> QED BY <1>4, <1>5, <1>6 DEF d

\* The process writes a piece into the pipe.
LEMMA LogsWriteStep ==
    ASSUME LogsInv, NEW s \in Streams, NEW k \in 1..MaxBytes, WriteOutput(s, k)
    PROVE  LogsInv'
<1>1. PICK B \in Marks, L \in Levels(exec) :
        ExecSound(exec, B, L) /\ TablesSound(exec, B, outbox, inFlight, givenUp, chunk, reader, disorder)
  BY DEF LogsInv, LogsSound
<1> DEFINE n == Len(exec.pipe)
           old == exec.written[s]
           piece == [stream |-> s, data |-> Bytes(s, old + 1, old + k)]
           written == [exec.written EXCEPT ![s] = old + k]
           pipe == Append(exec.pipe, piece)
           M == [i \in 0..(n + 1) |-> IF i <= n THEN L[i] ELSE written]
<1>2. exec \in Executor
  BY <1>1 DEF ExecSound
<1>3. /\ exec.written \in [Streams -> 0..MaxBytes] /\ old \in 0..MaxBytes /\ old + k \in 0..MaxBytes
      /\ exec.pipe \in Seq([stream : Streams, data : Seq(Byte)]) /\ n \in Nat
  <2>1. exec.written \in [Streams -> 0..MaxBytes] /\ exec.pipe \in Seq([stream : Streams, data : Seq(Byte)])
    BY <1>2, ExecutorFields
  <2>2. exec.written["stdout"] + exec.written["stderr"] + k <= MaxBytes
    BY DEF WriteOutput
  <2>3. old \in 0..MaxBytes /\ old + k \in 0..MaxBytes
    BY <2>1, <2>2, LogSizes DEF Streams
  <2> QED BY <2>1, <2>3, LenProperties
<1>4. piece.stream = s /\ piece.data \in Seq(Byte) /\ Len(piece.data) = k /\ Follows(piece.data, s, old)
  <2>1. piece.stream = s /\ piece.data = Bytes(s, old + 1, old + k)
    OBVIOUS
  <2> HIDE DEF piece, old
  <2>2. old \in Nat /\ k \in Nat /\ old + k <= MaxBytes
    BY <1>3, LogSizes
  <2> QED BY <2>1, <2>2, BytesFollow
<1>5. piece \in [stream : Streams, data : Seq(Byte)]
  BY <1>4
<1>6. exec' = [exec EXCEPT !.written = written, !.pipe = pipe] /\ exec.phase = "running" /\ ~exec.stopped
      /\ UNCHANGED <<outbox, inFlight, chunk, givenUp, reader, disorder>>
  BY DEF WriteOutput
<1> HIDE DEF piece
<1>7. /\ pipe \in Seq([stream : Streams, data : Seq(Byte)]) /\ Len(pipe) = n + 1
      /\ \A i \in 1..n : pipe[i] = exec.pipe[i]
      /\ pipe[n + 1] = piece
  BY <1>3, <1>5, AppendProperties
<1>8. written \in [Streams -> 0..MaxBytes] /\ written \in [Streams -> Nat]
  BY <1>3, LogSizes
<1>17. Risen(exec.written, written, s, k)
  BY <1>3, LogSizes DEF Risen
<1> HIDE DEF pipe, written
<1>9. /\ exec'.phase = exec.phase /\ exec'.written = written /\ exec'.pipe = pipe /\ exec'.accepted = exec.accepted
      /\ exec'.exceeded = exec.exceeded /\ exec'.stopped = exec.stopped /\ exec'.failed = exec.failed
      /\ exec'.buffer = exec.buffer /\ exec'.sequence = exec.sequence /\ exec'.streamed = exec.streamed
      /\ exec' \in Executor
  BY <1>2, <1>6, <1>7, <1>8 DEF Executor
<1>10. L \in [0..n -> [Streams -> Nat]] /\ L[n] = exec.written
  BY <1>1 DEF Levels, ExecSound, Piped
<1>11. M \in Levels(exec') /\ M[n + 1] = written /\ \A i \in 0..n : M[i] = L[i]
  BY <1>3, <1>7, <1>8, <1>9, <1>10, SMTT(40) DEF Levels
<1> HIDE DEF M
<1>12. Piped(exec', M)
  <2>1. M[Len(exec'.pipe)] = exec'.written
    BY <1>7, <1>9, <1>11
  <2>2. ASSUME NEW i \in 1..(n + 1)
        PROVE  /\ Follows(pipe[i].data, pipe[i].stream, M[i - 1][pipe[i].stream])
               /\ Risen(M[i - 1], M[i], pipe[i].stream, Len(pipe[i].data))
    <3>1. CASE i = n + 1
      <4>1. i - 1 = n /\ n \in 0..n
        BY <1>3, <3>1
      <4>2. M[i - 1] = exec.written /\ M[i] = written /\ pipe[i] = piece
        BY <1>7, <1>10, <1>11, <3>1, <4>1
      <4> QED BY <1>4, <1>17, <4>2
    <3>2. CASE i # n + 1
      <4>1. i \in 1..n /\ i \in 0..n /\ i - 1 \in 0..n
        BY <1>3, <3>2, SMTT(40)
      <4>2. M[i - 1] = L[i - 1] /\ M[i] = L[i] /\ pipe[i] = exec.pipe[i]
        BY <1>7, <1>11, <4>1
      <4> QED BY <1>1, <4>1, <4>2 DEF ExecSound, Piped
    <3> QED BY <3>1, <3>2
  <2> QED BY <1>7, <1>9, <2>1, <2>2 DEF Piped
<1>13. M[0] = L[0]
  BY <1>3, <1>11
<1>14. ExecSound(exec', B, M)
  BY <1>1, <1>6, <1>9, <1>12, <1>13 DEF ExecSound, Marked
<1>15. NothingLost(exec', SentIn(outbox, inFlight, givenUp), chunk)
  BY <1>1, <1>9 DEF TablesSound, NothingLost
<1>16. LogsSound(exec', outbox, inFlight, givenUp, chunk, reader, disorder)
  BY <1>1, <1>6, <1>9, <1>11, <1>14, <1>15, ExecQuiet
<1> QED BY <1>6, <1>16 DEF LogsInv

\* The process is gone, or the worker.
LEMMA LogsExitStep ==
    ASSUME LogsInv, ProcessExits \/ LoseExecutor
    PROVE  LogsInv'
<1>1. PICK B \in Marks, L \in Levels(exec) :
        ExecSound(exec, B, L) /\ TablesSound(exec, B, outbox, inFlight, givenUp, chunk, reader, disorder)
  BY DEF LogsInv, LogsSound
<1>2. PICK phase \in {"exited", "crashed"} : exec' = [exec EXCEPT !.phase = phase]
  BY DEF ProcessExits, LoseExecutor
<1>3. exec.phase # "ended" /\ UNCHANGED <<outbox, inFlight, chunk, givenUp, reader, disorder>>
  BY DEF ProcessExits, LoseExecutor
<1>4. exec \in Executor
  BY <1>1 DEF ExecSound
<1>5. /\ exec'.phase = phase /\ exec'.written = exec.written /\ exec'.pipe = exec.pipe
      /\ exec'.accepted = exec.accepted
      /\ exec'.exceeded = exec.exceeded /\ exec'.stopped = exec.stopped /\ exec'.failed = exec.failed
      /\ exec'.buffer = exec.buffer /\ exec'.sequence = exec.sequence /\ exec'.streamed = exec.streamed
      /\ exec' \in Executor
  BY <1>2, <1>4 DEF Executor
<1>6. L \in Levels(exec')
  BY <1>5 DEF Levels
<1>7. ExecSound(exec', B, L)
  BY <1>1, <1>5 DEF ExecSound, Marked, Piped
<1>8. NothingLost(exec', SentIn(outbox, inFlight, givenUp), chunk)
  BY <1>1, <1>5 DEF TablesSound, NothingLost
<1>9. LogsSound(exec', outbox, inFlight, givenUp, chunk, reader, disorder)
  BY <1>1, <1>3, <1>5, <1>6, <1>7, <1>8, ExecQuiet
<1> QED BY <1>3, <1>9 DEF LogsInv

\* Two stretches of a stream make one; a stretch begins with a shorter one.
LEMMA FollowsOn ==
    ASSUME NEW s, NEW a \in Nat, NEW d \in Seq(Byte), NEW e \in Seq(Byte), Follows(d, s, a), Follows(e, s, a + Len(d))
    PROVE  Follows(d \o e, s, a)
<1>1. Len(d) \in Nat /\ Len(e) \in Nat /\ Len(d \o e) = Len(d) + Len(e)
      /\ \A i \in 1..(Len(d) + Len(e)) : (d \o e)[i] = IF i <= Len(d) THEN d[i] ELSE e[i - Len(d)]
  BY ConcatProperties, LenProperties
<1> SUFFICES ASSUME NEW k \in 1..Len(d \o e) PROVE (d \o e)[k] = [stream |-> s, n |-> a + k]
  BY DEF Follows
<1>2. CASE k <= Len(d)
  BY <1>1, <1>2 DEF Follows
<1>3. CASE ~(k <= Len(d))
  <2>1. k - Len(d) \in 1..Len(e) /\ a + Len(d) + (k - Len(d)) = a + k
    BY <1>1, <1>3
  <2> QED BY <1>1, <1>3, <2>1 DEF Follows
<1> QED BY <1>2, <1>3

\* Two stretches hold a byte when one of them does.
LEMMA HoldsOn ==
    ASSUME NEW d \in Seq(Byte), NEW e \in Seq(Byte), NEW b
    PROVE  Holds(d \o e, b) <=> Holds(d, b) \/ Holds(e, b)
<1>1. Len(d) \in Nat /\ Len(e) \in Nat /\ Len(d \o e) = Len(d) + Len(e)
      /\ \A i \in 1..(Len(d) + Len(e)) : (d \o e)[i] = IF i <= Len(d) THEN d[i] ELSE e[i - Len(d)]
  BY ConcatProperties, LenProperties
<1>2. ASSUME Holds(d, b) PROVE Holds(d \o e, b)
  BY <1>1, <1>2 DEF Holds
<1>3. ASSUME Holds(e, b) PROVE Holds(d \o e, b)
  <2>1. PICK j \in 1..Len(e) : e[j] = b
    BY <1>3 DEF Holds
  <2>2. j + Len(d) \in 1..Len(d \o e) /\ ~(j + Len(d) <= Len(d)) /\ j + Len(d) - Len(d) = j
    BY <1>1
  <2>3. (d \o e)[j + Len(d)] = b
    BY <1>1, <2>1, <2>2
  <2> QED BY <2>2, <2>3 DEF Holds
<1>4. ASSUME Holds(d \o e, b) PROVE Holds(d, b) \/ Holds(e, b)
  <2>1. PICK j \in 1..Len(d \o e) : (d \o e)[j] = b
    BY <1>4 DEF Holds
  <2>2. CASE j <= Len(d)
    BY <1>1, <2>1, <2>2 DEF Holds
  <2>3. CASE ~(j <= Len(d))
    <3>1. j - Len(d) \in 1..Len(e) /\ e[j - Len(d)] = b
      BY <1>1, <2>1, <2>3
    <3> QED BY <3>1 DEF Holds
  <2> QED BY <2>2, <2>3
<1> QED BY <1>2, <1>3, <1>4

\* What processExecutorChunk keeps of a piece.
LEMMA PieceKept ==
    ASSUME NEW room \in Nat, NEW d \in Seq(Byte), NEW s, NEW a \in Nat, Follows(d, s, a),
           NEW kept, Len(d) > room => kept = SubSeq(d, 1, room), ~(Len(d) > room) => kept = d
    PROVE  /\ kept \in Seq(Byte) /\ Follows(kept, s, a)
           /\ Len(d) > room => Len(kept) = room
           /\ ~(Len(d) > room) => kept = d
<1>1. Len(d) \in Nat /\ d \in [1..Len(d) -> Byte]
  BY LenProperties
<1>2. CASE Len(d) > room
  <2>1. \A i \in 1..room : d[i] \in Byte
    BY <1>1, <1>2
  <2>2. /\ SubSeq(d, 1, room) \in Seq(Byte)
        /\ Len(SubSeq(d, 1, room)) = IF 1 <= room THEN room - 1 + 1 ELSE 0
        /\ \A i \in 1..(room - 1 + 1) : SubSeq(d, 1, room)[i] = d[1 + i - 1]
    BY <2>1, SubSeqProperties
  <2>3. kept = SubSeq(d, 1, room)
    BY <1>2
  <2>4. kept \in Seq(Byte) /\ Len(kept) = room
    BY <2>2, <2>3
  <2>5. \A i \in 1..room : kept[i] = d[i] /\ i \in 1..Len(d)
    <3> SUFFICES ASSUME NEW i \in 1..room PROVE kept[i] = d[i] /\ i \in 1..Len(d)
      OBVIOUS
    <3>1. i \in 1..(room - 1 + 1) /\ 1 + i - 1 = i /\ i \in 1..Len(d)
      BY <1>1, <1>2
    <3>2. SubSeq(d, 1, room)[i] = d[1 + i - 1]
      BY <2>2, <3>1
    <3> QED BY <2>3, <3>1, <3>2
  <2>6. Follows(kept, s, a)
    BY <2>4, <2>5 DEF Follows
  <2> QED BY <1>2, <2>4, <2>6
<1>3. CASE ~(Len(d) > room)
  BY <1>3
<1> QED BY <1>2, <1>3

\* The executor takes the first piece from the pipe.
LEMMA LogsReceiveStep ==
    ASSUME LogsInv, ReceivePiece
    PROVE  LogsInv'
<1>1. PICK B \in Marks, L \in Levels(exec) :
        ExecSound(exec, B, L) /\ TablesSound(exec, B, outbox, inFlight, givenUp, chunk, reader, disorder)
  BY DEF LogsInv, LogsSound
<1> DEFINE n == Len(exec.pipe)
           tail == Tail(exec.pipe)
           M == [i \in 0..(n - 1) |-> L[i + 1]]
<1>2. PICK p : p = Head(exec.pipe) /\ p = exec.pipe[1]
  OBVIOUS
<1>3. exec \in Executor /\ exec.phase # "ended" /\ exec.pipe # << >>
      /\ UNCHANGED <<outbox, inFlight, chunk, givenUp, reader, disorder>>
  BY <1>1 DEF ExecSound, ReceivePiece
<1>4. exec' = [ProcessExecutorChunk(exec, p) EXCEPT !.pipe = tail]
  <2>1. ProcessExecutorChunk(exec, p).pipe = exec.pipe
    BY <1>3 DEF ProcessExecutorChunk, Executor
  <2> QED BY <1>2, <2>1 DEF ReceivePiece
<1>5. exec.pipe \in Seq([stream : Streams, data : Seq(Byte)])
  BY <1>3, ExecutorFields
<1>6. /\ tail \in Seq([stream : Streams, data : Seq(Byte)]) /\ Len(tail) = n - 1 /\ n \in Nat \ {0}
      /\ \A i \in 1..(n - 1) : tail[i] = exec.pipe[i + 1]
  BY <1>3, <1>5, HeadTailProperties, EmptySeq
<1>7. p \in [stream : Streams, data : Seq(Byte)]
  <2>1. 1 \in 1..n
    BY <1>6
  <2> HIDE DEF n
  <2>2. \A i \in 1..Len(exec.pipe) : exec.pipe[i] \in [stream : Streams, data : Seq(Byte)]
    BY <1>5, ElementOfSeq
  <2> QED BY <1>2, <2>1, <2>2 DEF n
<1> HIDE DEF tail
<1>8. p.stream \in Streams /\ p.data \in Seq(Byte) /\ Len(p.data) \in Nat
  BY <1>7, LenProperties
<1>9. L \in [0..n -> [Streams -> Nat]]
  BY <1>1 DEF Levels
<1>10. M \in [0..(n - 1) -> [Streams -> Nat]] /\ \A i \in 0..(n - 1) : M[i] = L[i + 1]
  BY <1>6, <1>9
<1> HIDE DEF M
<1>11. /\ Follows(p.data, p.stream, L[0][p.stream])
       /\ Risen(L[0], M[0], p.stream, Len(p.data))
  <2>1. 1 \in 1..n /\ 1 - 1 = 0 /\ 0 \in 0..(n - 1) /\ 0 + 1 = 1
    BY <1>6
  <2>2. Piped(exec, L)
    BY <1>1 DEF ExecSound
  <2>3. /\ Follows(p.data, p.stream, L[1 - 1][p.stream])
        /\ Risen(L[1 - 1], L[1], p.stream, Len(p.data))
    BY <1>2, <2>1, <2>2 DEF Piped
  <2> QED BY <1>10, <2>1, <2>3
<1>12. ASSUME NEW y \in Executor, y.pipe = tail, y.written = exec.written
       PROVE  Piped(y, M) /\ M \in Levels(y)
  <2>1. M[n - 1] = y.written
    <3>1. L[n] = exec.written
      BY <1>1 DEF ExecSound, Piped
    <3>2. n - 1 \in 0..(n - 1) /\ n - 1 + 1 = n
      BY <1>6
    <3> QED BY <1>10, <1>12, <3>1, <3>2
  <2>2. ASSUME NEW i \in 1..(n - 1)
        PROVE  /\ Follows(tail[i].data, tail[i].stream, M[i - 1][tail[i].stream])
               /\ Risen(M[i - 1], M[i], tail[i].stream, Len(tail[i].data))
    <3>1. PICK j \in 1..n : j = i + 1
      BY <1>6
    <3>2. tail[i] = exec.pipe[j] /\ M[i - 1] = L[j - 1] /\ M[i] = L[j]
      <4>1. i \in 0..(n - 1) /\ i - 1 \in 0..(n - 1) /\ i - 1 + 1 = j - 1
        BY <1>6, <3>1
      <4> QED BY <1>6, <1>10, <3>1, <4>1
    <3>3. Piped(exec, L)
      BY <1>1 DEF ExecSound
    <3>4. /\ Follows(exec.pipe[j].data, exec.pipe[j].stream, L[j - 1][exec.pipe[j].stream])
          /\ Risen(L[j - 1], L[j], exec.pipe[j].stream, Len(exec.pipe[j].data))
      BY <3>3 DEF Piped
    <3> QED BY <3>2, <3>4
  <2> QED BY <1>6, <1>10, <1>12, <2>1, <2>2 DEF Piped, Levels
<1>13. CASE exec.stopped
  <2>1. exec' = [exec EXCEPT !.pipe = tail]
    BY <1>4, <1>13 DEF ProcessExecutorChunk
  <2>2. /\ exec'.phase = exec.phase /\ exec'.written = exec.written /\ exec'.pipe = tail
        /\ exec'.accepted = exec.accepted
        /\ exec'.exceeded = exec.exceeded /\ exec'.stopped = exec.stopped /\ exec'.failed = exec.failed
        /\ exec'.buffer = exec.buffer /\ exec'.sequence = exec.sequence /\ exec'.streamed = exec.streamed
        /\ exec' \in Executor
    BY <1>3, <1>6, <2>1 DEF Executor
  <2>3. Piped(exec', M) /\ M \in Levels(exec')
    BY <1>12, <2>2
  <2>4. ExecSound(exec', B, M)
    BY <1>1, <1>3, <1>13, <2>2, <2>3 DEF ExecSound, Marked
  <2>5. NothingLost(exec', SentIn(outbox, inFlight, givenUp), chunk)
    BY <1>1, <2>2 DEF TablesSound, NothingLost
  <2>6. LogsSound(exec', outbox, inFlight, givenUp, chunk, reader, disorder)
    BY <1>1, <1>3, <2>2, <2>3, <2>4, <2>5, ExecQuiet
  <2> QED BY <1>3, <2>6 DEF LogsInv
<1>14. CASE ~exec.stopped
  <2>0. PICK room : room = OutputLimit - Len(exec.accepted)
    OBVIOUS
  <2> DEFINE over == Len(p.data) > room
  <2>1. PICK kept : kept = IF Len(p.data) > room THEN SubSeq(p.data, 1, room) ELSE p.data
    OBVIOUS
  <2>2. PICK accepted, buffer : accepted = exec.accepted \o kept
                                /\ buffer = [exec.buffer EXCEPT ![p.stream] = exec.buffer[p.stream] \o kept]
    OBVIOUS
  <2>3. exec' = [[exec EXCEPT !.accepted = accepted, !.buffer = buffer, !.exceeded = over, !.stopped = over]
                 EXCEPT !.pipe = tail]
    BY <1>4, <1>14, <2>0, <2>1, <2>2 DEF ProcessExecutorChunk
  <2>4. PICK limit \in BOOLEAN :
          /\ limit <=> over
          /\ exec' = [exec EXCEPT !.accepted = accepted, !.buffer = buffer, !.exceeded = limit, !.stopped = limit,
                                  !.pipe = tail]
    <3>1. CASE over
      <4>1. over = TRUE
        BY <3>1
      <4> HIDE DEF over
      <4>2. exec' = [exec EXCEPT !.accepted = accepted, !.buffer = buffer, !.exceeded = TRUE, !.stopped = TRUE,
                                 !.pipe = tail]
        BY <2>3, <4>1
      <4> QED BY <4>1, <4>2
    <3>2. CASE ~over
      <4>1. over = FALSE
        BY <3>2
      <4> HIDE DEF over
      <4>2. exec' = [exec EXCEPT !.accepted = accepted, !.buffer = buffer, !.exceeded = FALSE, !.stopped = FALSE,
                                 !.pipe = tail]
        BY <2>3, <4>1
      <4> QED BY <4>1, <4>2
    <3> QED BY <3>1, <3>2
  <2>5. /\ exec.accepted \in Seq(Byte) /\ Len(exec.accepted) \in Nat /\ Len(exec.accepted) <= OutputLimit
        /\ exec.buffer \in [Streams -> Seq(Byte)] /\ exec.sequence \in [Streams -> Nat]
        /\ \A s \in Streams : Len(exec.buffer[s]) \in Nat
    BY <1>1, <1>3, ExecutorFields, LenProperties DEF ExecSound
  <2>6. room \in Nat
    BY <2>0, <2>5, LogSizes
  <2>7. /\ \A s \in Streams : L[0][s] = B[s][exec.sequence[s]] + Len(exec.buffer[s]) /\ L[0][s] \in Nat
                              /\ B[s][exec.sequence[s]] \in Nat
        /\ Len(exec.accepted) = L[0]["stdout"] + L[0]["stderr"]
    <3>1. 0 \in 0..n
      BY <1>6
    <3>2. \A s \in Streams : L[0][s] \in Nat /\ B[s][exec.sequence[s]] \in Nat
      BY <1>9, <2>5, <3>1, ZenonT(60) DEF Marks
    <3> QED BY <1>1, <1>14, <3>2 DEF ExecSound
  <2>8. kept \in Seq(Byte) /\ Follows(kept, p.stream, L[0][p.stream]) /\ (Len(p.data) > room => Len(kept) = room) /\ (~(Len(p.data) > room) => Len(kept) = Len(p.data))
    <3>1. PICK a \in Nat : a = L[0][p.stream]
      BY <1>8, <2>7
    <3>2. Follows(p.data, p.stream, a)
      BY <1>11, <3>1
    <3>3. PICK d \in Seq(Byte) : d = p.data
      BY <1>8
    <3>4. Follows(d, p.stream, a) /\ (Len(d) > room => kept = SubSeq(d, 1, room)) /\ (~(Len(d) > room) => kept = d)
      BY <2>1, <3>2, <3>3
    <3>5. kept \in Seq(Byte) /\ Follows(kept, p.stream, a) /\ (Len(d) > room => Len(kept) = room) /\ (~(Len(d) > room) => kept = d)
      BY <2>6, <3>4, PieceKept
    <3> QED BY <3>1, <3>3, <3>5
  <2>21. kept \in Seq(Byte) /\ exec.accepted \in Seq(Byte) /\ exec.buffer[p.stream] \in Seq(Byte)
    BY <1>8, <2>5, <2>8
  <2>23. Len(exec.accepted) \in Nat /\ Len(exec.accepted) <= OutputLimit /\ OutputLimit \in Nat
    BY <2>5, LogSizes
  <2>24. \A s \in Streams : Len(exec.buffer[s]) \in Nat /\ Len(exec.buffer[s]) <= Len(exec.accepted)
    BY <1>1, <2>5 DEF ExecSound
  <2>25. Len(p.data) \in Nat /\ p.stream \in Streams
    BY <1>8
  <2>26. (Len(p.data) > room => Len(kept) = room) /\ (~(Len(p.data) > room) => Len(kept) = Len(p.data))
    BY <2>8
  <2>22. Len(kept) \in Nat /\ Len(kept) <= Len(p.data) /\ Len(exec.accepted) + Len(kept) <= OutputLimit
    <3>1. Len(kept) \in Nat
      BY <2>21, LenProperties
    <3> QED BY <2>0, <2>23, <2>25, <2>26, <3>1
  <2>9. /\ accepted \in Seq(Byte) /\ Len(accepted) = Len(exec.accepted) + Len(kept) /\ Len(kept) \in Nat
        /\ \A i \in 1..Len(accepted) : accepted[i] = IF i <= Len(exec.accepted) THEN exec.accepted[i]
                                                     ELSE kept[i - Len(exec.accepted)]
    <3>1. /\ exec.accepted \o kept \in Seq(Byte) /\ Len(exec.accepted \o kept) = Len(exec.accepted) + Len(kept)
          /\ \A i \in 1..(Len(exec.accepted) + Len(kept)) :
                (exec.accepted \o kept)[i] = IF i <= Len(exec.accepted) THEN exec.accepted[i]
                                             ELSE kept[i - Len(exec.accepted)]
      BY <2>21, ConcatProperties
    <3> QED BY <2>2, <2>22, <3>1
  <2>10. /\ buffer \in [Streams -> Seq(Byte)]
         /\ \A s \in Streams : (s = p.stream => Len(buffer[s]) = Len(exec.buffer[s]) + Len(kept))
                               /\ (s # p.stream => buffer[s] = exec.buffer[s])
    <3>1. /\ exec.buffer[p.stream] \o kept \in Seq(Byte)
          /\ Len(exec.buffer[p.stream] \o kept) = Len(exec.buffer[p.stream]) + Len(kept)
      BY <2>21, ConcatProperties
    <3>2. exec.buffer \in [Streams -> Seq(Byte)]
      BY <2>5
    <3>3. PICK joined \in Seq(Byte) : joined = exec.buffer[p.stream] \o kept
      BY <3>1
    <3>4. buffer = [exec.buffer EXCEPT ![p.stream] = joined] /\ Len(joined) = Len(exec.buffer[p.stream]) + Len(kept)
      BY <2>2, <3>1, <3>3
    <3>5. buffer \in [Streams -> Seq(Byte)]
      BY <3>2, <3>4
    <3>6. \A s \in Streams : (s = p.stream => buffer[s] = joined) /\ (s # p.stream => buffer[s] = exec.buffer[s])
      BY <3>2, <3>4
    <3> QED BY <2>24, <3>4, <3>5, <3>6
  <2>11. \A s \in Streams : Follows(buffer[s], s, B[s][exec.sequence[s]])
    <3>1. ASSUME NEW s \in Streams, s = p.stream
          PROVE  Follows(buffer[s], s, B[s][exec.sequence[s]])
      <4>1. Follows(exec.buffer[s], s, B[s][exec.sequence[s]])
        BY <1>1 DEF ExecSound
      <4>2. Follows(kept, s, B[s][exec.sequence[s]] + Len(exec.buffer[s]))
        BY <2>7, <2>8, <3>1
      <4>3. buffer[s] = exec.buffer[s] \o kept /\ exec.buffer[s] \in Seq(Byte)
        BY <2>2, <2>5, <3>1
      <4> QED BY <2>7, <2>8, <4>1, <4>2, <4>3, FollowsOn
    <3>2. ASSUME NEW s \in Streams, s # p.stream
          PROVE  Follows(buffer[s], s, B[s][exec.sequence[s]])
      BY <1>1, <2>2, <2>5, <3>2 DEF ExecSound
    <3> QED BY <3>1, <3>2
  <2>12. /\ exec'.phase = exec.phase /\ exec'.written = exec.written /\ exec'.pipe = tail
         /\ exec'.accepted = accepted
         /\ exec'.exceeded = limit /\ exec'.stopped = limit /\ exec'.failed = exec.failed
         /\ exec'.buffer = buffer /\ exec'.sequence = exec.sequence /\ exec'.streamed = exec.streamed
         /\ exec' \in Executor
    BY <1>3, <1>6, <2>4, <2>9, <2>10 DEF Executor
  <2>13. Piped(exec', M) /\ M \in Levels(exec')
    BY <1>12, <2>12
  <2>14. ~exec.failed /\ ~exec.exceeded
    BY <1>1, <1>14 DEF ExecSound
  <2>15. Len(accepted) <= OutputLimit /\ (limit => Len(accepted) = OutputLimit)
    <3>1. Len(accepted) <= OutputLimit
      BY <2>9, <2>22
    <3>2. limit => Len(kept) = room
      BY <2>4, <2>8
    <3>3. Len(accepted) = Len(exec.accepted) + Len(kept)
      BY <2>9
    <3> QED BY <2>0, <2>23, <3>1, <3>2, <3>3
  <2>16. \A s \in Streams : Len(buffer[s]) <= Len(accepted)
    <3>1. \A s \in Streams : (s = p.stream => Len(buffer[s]) = Len(exec.buffer[s]) + Len(kept))
                               /\ (s # p.stream => Len(buffer[s]) = Len(exec.buffer[s]))
      BY <2>10
    <3>2. Len(accepted) = Len(exec.accepted) + Len(kept)
      BY <2>9
    <3>3. ASSUME NEW s \in Streams PROVE Len(buffer[s]) <= Len(accepted)
      <4>1. Len(exec.buffer[s]) \in Nat /\ Len(exec.buffer[s]) <= Len(exec.accepted)
        BY <2>24
      <4>2. Len(buffer[s]) = Len(exec.buffer[s]) \/ Len(buffer[s]) = Len(exec.buffer[s]) + Len(kept)
        BY <3>1, Zenon
      <4>3. Len(kept) \in Nat
        BY <2>22
      <4> QED BY <2>23, <3>2, <4>1, <4>2, <4>3
    <3> QED BY <3>3
  <2>17. ~limit => /\ \A s \in Streams : M[0][s] = B[s][exec.sequence[s]] + Len(buffer[s])
                   /\ Len(accepted) = M[0]["stdout"] + M[0]["stderr"]
    <3> SUFFICES ASSUME ~limit
                 PROVE  /\ \A s \in Streams : M[0][s] = B[s][exec.sequence[s]] + Len(buffer[s])
                        /\ Len(accepted) = M[0]["stdout"] + M[0]["stderr"]
      OBVIOUS
    <3>1. Len(kept) = Len(p.data)
      BY <2>4, <2>8
    <3>2. \A s \in Streams : M[0][s] = B[s][exec.sequence[s]] + Len(buffer[s])
      <4>1. \A s \in Streams : (s = p.stream => Len(buffer[s]) = Len(exec.buffer[s]) + Len(kept))
                               /\ (s # p.stream => Len(buffer[s]) = Len(exec.buffer[s]))
        BY <2>10
      <4>2. \A s \in Streams : (s = p.stream => M[0][s] = L[0][s] + Len(p.data)) /\ (s # p.stream => M[0][s] = L[0][s])
        BY <1>11 DEF Risen
      <4>3. ASSUME NEW s \in Streams PROVE M[0][s] = B[s][exec.sequence[s]] + Len(buffer[s])
        <5>1. L[0][s] = B[s][exec.sequence[s]] + Len(exec.buffer[s]) /\ B[s][exec.sequence[s]] \in Nat
          BY <2>7
        <5>2. Len(exec.buffer[s]) \in Nat
          BY <2>24
        <5>3. CASE s = p.stream
          <6>1. M[0][s] = L[0][s] + Len(p.data) /\ Len(buffer[s]) = Len(exec.buffer[s]) + Len(p.data)
            BY <3>1, <4>1, <4>2, <5>3, Zenon
          <6>2. PICK a \in Nat, b \in Nat, c \in Nat :
                  a = B[s][exec.sequence[s]] /\ b = Len(exec.buffer[s]) /\ c = Len(p.data)
            BY <2>25, <5>1, <5>2, Zenon
          <6>3. M[0][s] = a + b + c /\ Len(buffer[s]) = b + c
            BY <5>1, <6>1, <6>2, Zenon
          <6>4. a + b + c = a + (b + c)
            OBVIOUS
          <6> QED BY <6>2, <6>3, <6>4, Zenon
        <5>4. CASE s # p.stream
          BY <4>1, <4>2, <5>1, <5>4
        <5> QED BY <5>3, <5>4
      <4> QED BY <4>3
    <3>3. Len(accepted) = M[0]["stdout"] + M[0]["stderr"]
      <4>1. "stdout" \in Streams /\ "stderr" \in Streams /\ (p.stream = "stdout" \/ p.stream = "stderr")
        BY <1>8 DEF Streams
      <4>2. L[0]["stdout"] \in Nat /\ L[0]["stderr"] \in Nat
        BY <2>7, <4>1
      <4>3. \/ M[0]["stdout"] = L[0]["stdout"] + Len(p.data) /\ M[0]["stderr"] = L[0]["stderr"]
            \/ M[0]["stdout"] = L[0]["stdout"] /\ M[0]["stderr"] = L[0]["stderr"] + Len(p.data)
        BY <1>11, <4>1 DEF Risen
      <4>4. Len(accepted) = L[0]["stdout"] + L[0]["stderr"] + Len(p.data)
        BY <2>7, <2>9, <3>1
      <4> QED BY <2>25, <4>2, <4>3, <4>4, SMTT(40)
    <3> QED BY <3>2, <3>3
  <2>18. ExecSound(exec', B, M)
    <3>1. Marked(exec', B)
      BY <1>1, <2>12 DEF ExecSound, Marked
    <3>2. exec'.stopped <=> exec'.exceeded \/ exec'.failed
      BY <2>12, <2>14
    <3>3. exec'.streamed <=> \E s \in Streams : exec'.sequence[s] > 0
      BY <1>1, <2>12 DEF ExecSound
    <3>4. Len(exec'.accepted) <= OutputLimit /\ (exec'.exceeded => Len(exec'.accepted) = OutputLimit)
      BY <2>12, <2>15
    <3>5. \A s \in Streams : Len(exec'.buffer[s]) <= Len(exec'.accepted)
                             /\ Follows(exec'.buffer[s], s, B[s][exec'.sequence[s]])
      BY <2>11, <2>12, <2>16
    <3>6. ~exec'.stopped =>
            /\ \A s \in Streams : M[0][s] = B[s][exec'.sequence[s]] + Len(exec'.buffer[s])
            /\ Len(exec'.accepted) = M[0]["stdout"] + M[0]["stderr"]
      BY <2>12, <2>17
    <3>7. exec'.phase # "ended"
      BY <1>3, <2>12
    <3> QED BY <2>12, <2>13, <3>1, <3>2, <3>3, <3>4, <3>5, <3>6, <3>7 DEF ExecSound
  <2>19. NothingLost(exec', SentIn(outbox, inFlight, givenUp), chunk)
    <3> SUFFICES ASSUME NEW i \in 1..Len(accepted)
                 PROVE  \/ \E s \in Streams : Holds(buffer[s], accepted[i])
                        \/ Recorded(accepted[i], SentIn(outbox, inFlight, givenUp), chunk)
      BY <2>12 DEF NothingLost
    <3>1. \A s \in Streams : \A b : Holds(exec.buffer[s], b) => Holds(buffer[s], b)
      <4> SUFFICES ASSUME NEW s \in Streams, NEW b, Holds(exec.buffer[s], b) PROVE Holds(buffer[s], b)
        OBVIOUS
      <4>1. CASE s = p.stream
        <5>1. buffer[s] = exec.buffer[s] \o kept /\ exec.buffer[s] \in Seq(Byte)
          BY <2>2, <2>5, <4>1
        <5> QED BY <2>8, <5>1, HoldsOn
      <4>2. CASE s # p.stream
        BY <2>2, <2>5, <4>2
      <4> QED BY <4>1, <4>2
    <3>2. CASE i <= Len(exec.accepted)
      <4>1. i \in 1..Len(exec.accepted) /\ accepted[i] = exec.accepted[i]
        BY <2>5, <2>9, <3>2
      <4>2. \/ \E s \in Streams : Holds(exec.buffer[s], accepted[i])
            \/ Recorded(accepted[i], SentIn(outbox, inFlight, givenUp), chunk)
        BY <1>1, <2>14, <4>1 DEF TablesSound, NothingLost
      <4> QED BY <3>1, <4>2
    <3>3. CASE ~(i <= Len(exec.accepted))
      <4>1. i - Len(exec.accepted) \in 1..Len(kept) /\ accepted[i] = kept[i - Len(exec.accepted)]
        BY <2>5, <2>9, <3>3
      <4>2. Holds(kept, accepted[i])
        BY <4>1 DEF Holds
      <4>3. buffer[p.stream] = exec.buffer[p.stream] \o kept /\ exec.buffer[p.stream] \in Seq(Byte)
        BY <1>8, <2>2, <2>5
      <4>4. Holds(buffer[p.stream], accepted[i])
        BY <2>8, <4>2, <4>3, HoldsOn
      <4> QED BY <1>8, <4>4
    <3> QED BY <3>2, <3>3
  <2>20. LogsSound(exec', outbox, inFlight, givenUp, chunk, reader, disorder)
    BY <1>1, <1>3, <2>12, <2>13, <2>18, <2>19, ExecQuiet
  <2> QED BY <1>3, <2>20 DEF LogsInv
<1> QED BY <1>13, <1>14

\* The bytes json.Marshal replaces have places in their string.
LEMMA LostArePlaces ==
    ASSUME NEW d \in Seq(Byte)
    PROVE  LostBytes(d) \in SUBSET Nat /\ LostBytes(d) \subseteq 1..Len(d)
<1>1. DOMAIN d = 1..Len(d) /\ Len(d) \in Nat
  BY LenProperties
<1>2. LostBytes(d) \subseteq DOMAIN d
  BY DEF LostBytes
<1> QED BY <1>1, <1>2

\* The events of the first k parts of a buffer.
LEMMA EventsOfParts ==
    ASSUME NEW x \in Executor, NEW s \in Streams, NEW k \in 0..Parts(x.buffer[s])
    PROVE  /\ Events(x, s, k) \in Seq(LogEvent) /\ Len(Events(x, s, k)) = k
           /\ \A i \in 1..k : /\ Events(x, s, k)[i].kind = "log" /\ Events(x, s, k)[i].stream = s
                              /\ Events(x, s, k)[i].sequence = x.sequence[s] + i
                              /\ Events(x, s, k)[i].data = Part(x.buffer[s], i)
                              /\ Events(x, s, k)[i].lost = LostBytes(Part(x.buffer[s], i))
<1> DEFINE ev == Events(x, s, k)
           row(i) == [kind |-> "log", stream |-> s, sequence |-> x.sequence[s] + i, data |-> Part(x.buffer[s], i),
                      lost |-> LostBytes(Part(x.buffer[s], i))]
<1>1. x.sequence[s] \in Nat /\ x.buffer[s] \in Seq(Byte)
  BY ExecutorFields
<1>2. Parts(x.buffer[s]) \in Nat /\ \A i \in 1..Parts(x.buffer[s]) : Part(x.buffer[s], i) \in Seq(Byte)
  BY <1>1, PartsCover
<1>3. k \in Nat /\ \A i \in 1..k : i \in 1..Parts(x.buffer[s]) /\ x.sequence[s] + i \in Nat \ {0}
  BY <1>1, <1>2
<1>4. \A i \in 1..k : row(i) \in LogEvent
  <2>1. \A i \in 1..k : LostBytes(Part(x.buffer[s], i)) \in SUBSET Nat
    BY <1>2, <1>3, LostArePlaces
  <2> QED BY <1>2, <1>3, <2>1 DEF LogEvent
<1>5. DOMAIN ev = 1..k /\ \A i \in 1..k : ev[i] = row(i)
  BY DEF Events
<1>6. \A i \in 1..k : row(i).kind = "log" /\ row(i).stream = s /\ row(i).sequence = x.sequence[s] + i
                      /\ row(i).data = Part(x.buffer[s], i) /\ row(i).lost = LostBytes(Part(x.buffer[s], i))
  OBVIOUS
<1>7. ev \in [1..k -> LogEvent]
  BY <1>4, <1>5 DEF Events
<1> HIDE DEF ev, row
<1>8. ev \in Seq(LogEvent)
  <2>1. \E m \in Nat : ev \in [1..m -> LogEvent]
    BY <1>3, <1>7
  <2> QED BY <2>1, SeqDef
<1>9. Len(ev) = k
  <2>1. DOMAIN ev = 1..Len(ev) /\ Len(ev) \in Nat
    BY <1>8, LenProperties
  <2> QED BY <1>3, <1>5, <2>1
<1> QED BY <1>5, <1>6, <1>8, <1>9 DEF ev

\* flushExecutorBuffer on a buffer, its first k parts stored.
LEMMA FlushKeeps ==
    ASSUME NEW x, NEW out, NEW flying, NEW gone, NEW rows, NEW rd, NEW dis,
           LogsSound(x, out, flying, gone, rows, rd, dis), x.phase # "ended",
           NEW s \in Streams, NEW k \in 0..ToFlush(x, s), NEW y, y = FlushExecutorBuffer(x, s, k)
    PROVE  /\ LogsSound(y, out \o Events(x, s, k), flying, gone, rows, rd, dis)
           /\ x \in Executor /\ out \in Seq(LogEvent) /\ Events(x, s, k) \in Seq(LogEvent)
           /\ y.phase = x.phase /\ y.pipe = x.pipe
           /\ y.failed \/ y.buffer[s] = << >>
           /\ y.failed \/ \A q \in Streams \ {s} : y.buffer[q] = x.buffer[q]
<1>1. PICK B \in Marks, L \in Levels(x) : ExecSound(x, B, L) /\ TablesSound(x, B, out, flying, gone, rows, rd, dis)
  BY DEF LogsSound
<1>2. x \in Executor /\ out \in Seq(LogEvent)
  BY <1>1 DEF ExecSound, TablesSound, Ordered
<1>3. PICK ev : ev = Events(x, s, k)
  OBVIOUS
<1>4. CASE x.failed
  <2>1. y = x /\ k = 0
    BY <1>4 DEF FlushExecutorBuffer, ToFlush
  <2>2. Parts(x.buffer[s]) \in Nat
    BY <1>2, ExecutorFields, PartsCover
  <2>3. 0 \in 0..Parts(x.buffer[s])
    BY <2>2
  <2>4. ev \in Seq(LogEvent) /\ Len(ev) = 0
    BY <1>2, <1>3, <2>1, <2>3, EventsOfParts
  <2>5. ev = << >> /\ out \o ev = out
    BY <1>2, <2>4, EmptySeq, ConcatEmptySeq
  <2> QED BY <1>2, <1>3, <1>4, <2>1, <2>4, <2>5
<1>5. CASE ~x.failed
  <2>1. PICK buf \in Seq(Byte), n \in Nat, q0 \in Nat, base \in Nat, parts \in Nat :
          /\ buf = x.buffer[s] /\ n = Len(buf) /\ q0 = x.sequence[s] /\ base = B[s][q0] /\ parts = Parts(buf)
    <3>1. x.buffer[s] \in Seq(Byte) /\ x.sequence[s] \in Nat
      BY <1>2, ExecutorFields
    <3>2. Len(x.buffer[s]) \in Nat /\ Parts(x.buffer[s]) \in Nat
      BY <3>1, LenProperties, PartsCover
    <3>3. B[s][x.sequence[s]] \in Nat
      BY <3>1 DEF Marks
    <3> QED BY <3>1, <3>2, <3>3
  <2>2. k \in 0..parts /\ k \in Nat
    BY <1>5, <2>1 DEF ToFlush
  <2>3. /\ ev \in Seq(LogEvent) /\ Len(ev) = k
        /\ \A i \in 1..k : ev[i].kind = "log" /\ ev[i].stream = s /\ ev[i].sequence = q0 + i /\ ev[i].data = Part(buf, i)
                           /\ ev[i].lost = LostBytes(Part(buf, i))
    BY <1>2, <1>3, <2>1, <2>2, EventsOfParts, ZenonT(60)
  <2>4. /\ UpTo(n, 0) = 0 /\ UpTo(n, parts) = n
        /\ \A i \in Nat : UpTo(n, i) \in 0..n
        /\ \A i \in 1..parts :
            /\ UpTo(n, i - 1) < UpTo(n, i)
            /\ Part(buf, i) \in Seq(Byte)
            /\ Len(Part(buf, i)) = UpTo(n, i) - UpTo(n, i - 1)
            /\ \A j \in 1..Len(Part(buf, i)) : Part(buf, i)[j] = buf[UpTo(n, i - 1) + j]
        /\ \A j \in 1..n : \E i \in 1..parts : UpTo(n, i - 1) < j /\ j <= UpTo(n, i)
    BY <2>1, PartsCover, ZenonT(60)
  <2> DEFINE marks == [q \in Nat |-> IF q <= q0 THEN B[s][q] ELSE base + UpTo(n, q - q0)]
             C == [B EXCEPT ![s] = marks]
  <2>5. /\ C \in Marks
        /\ \A q \in Streams \ {s} : C[q] = B[q]
        /\ \A q \in 0..q0 : C[s][q] = B[s][q]
        /\ \A i \in 0..k : C[s][q0 + i] = base + UpTo(n, i)
    <3>1. marks \in [Nat -> Nat]
      <4> SUFFICES ASSUME NEW q \in Nat PROVE (IF q <= q0 THEN B[s][q] ELSE base + UpTo(n, q - q0)) \in Nat
        OBVIOUS
      <4>1. CASE q <= q0
        BY <4>1 DEF Marks
      <4>2. CASE ~(q <= q0)
        <5>1. q - q0 \in Nat
          BY <4>2
        <5>2. UpTo(n, q - q0) \in 0..n
          BY <2>4, <5>1
        <5> QED BY <4>2, <5>2
      <4> QED BY <4>1, <4>2
    <3>2. \A q \in 0..q0 : marks[q] = B[s][q]
      OBVIOUS
    <3>3. ASSUME NEW i \in 0..k PROVE marks[q0 + i] = base + UpTo(n, i)
      <4>1. CASE i = 0
        <5>1. q0 \in 0..q0 /\ q0 + i = q0 /\ base + 0 = base
          BY <4>1
        <5> HIDE DEF marks
        <5>2. marks[q0 + i] = B[s][q0]
          BY <3>2, <5>1
        <5> QED BY <2>1, <2>4, <4>1, <5>1, <5>2
      <4>2. CASE i # 0
        <5>1. q0 + i \in Nat /\ ~(q0 + i <= q0) /\ q0 + i - q0 = i
          BY <2>2, <4>2
        <5> QED BY <5>1
      <4> QED BY <4>1, <4>2
    <3> HIDE DEF marks
    <3>4. C \in Marks /\ C[s] = marks /\ \A q \in Streams \ {s} : C[q] = B[q]
      BY <3>1 DEF Marks
    <3> QED BY <3>2, <3>3, <3>4
  <2> HIDE DEF C, marks
  <2>6. PICK short \in BOOLEAN, some \in BOOLEAN, stop \in BOOLEAN :
          /\ short <=> k < parts
          /\ some <=> x.streamed \/ k > 0
          /\ stop <=> x.stopped \/ k < parts
          /\ y = [x EXCEPT !.buffer[s] = << >>, !.sequence[s] = @ + k, !.streamed = some,
                           !.failed = short, !.stopped = stop]
    <3> DEFINE f == k < parts
               g == x.streamed \/ k > 0
               h == x.stopped \/ k < parts
    <3>1. y = [x EXCEPT !.buffer[s] = << >>, !.sequence[s] = @ + k, !.streamed = g, !.failed = f, !.stopped = h]
      BY <1>5, <2>1 DEF FlushExecutorBuffer
    <3>2. f \in BOOLEAN /\ g \in BOOLEAN /\ h \in BOOLEAN
      <4>1. f \in BOOLEAN
        OBVIOUS
      <4>2. g \in BOOLEAN
        OBVIOUS
      <4>3. h \in BOOLEAN
        OBVIOUS
      <4> QED BY <4>1, <4>2, <4>3
    <3>3. (f <=> k < parts) /\ (g <=> x.streamed \/ k > 0) /\ (h <=> x.stopped \/ k < parts)
      OBVIOUS
    <3> HIDE DEF f, g, h
    <3> QED BY <3>1, <3>2, <3>3
  <2>7. /\ y.phase = x.phase /\ y.written = x.written /\ y.pipe = x.pipe /\ y.accepted = x.accepted
        /\ y.exceeded = x.exceeded /\ y.stopped = stop /\ y.failed = short /\ y.streamed = some
        /\ y.buffer = [x.buffer EXCEPT ![s] = << >>] /\ y.sequence = [x.sequence EXCEPT ![s] = q0 + k]
    BY <1>2, <2>1, <2>6 DEF Executor
  <2>8. y \in Executor
    <3>1. << >> \in Seq(Byte)
      BY EmptySeq
    <3>2. [x.buffer EXCEPT ![s] = << >>] \in [Streams -> Seq(Byte)] /\ [x.sequence EXCEPT ![s] = q0 + k] \in [Streams -> Nat]
      BY <1>2, <2>2, <3>1, ExecutorFields
    <3>3. y = [x EXCEPT !.buffer = [x.buffer EXCEPT ![s] = << >>], !.sequence = [x.sequence EXCEPT ![s] = q0 + k],
                        !.streamed = some, !.failed = short, !.stopped = stop]
      BY <2>1, <2>6
    <3> QED BY <1>2, <3>2, <3>3 DEF Executor
  <2>9. /\ y.buffer[s] = << >> /\ y.sequence[s] = q0 + k
        /\ \A q \in Streams \ {s} : y.buffer[q] = x.buffer[q] /\ y.sequence[q] = x.sequence[q]
    BY <1>2, <2>7, ExecutorFields
  <2>10. L \in Levels(y) /\ Piped(y, L)
    BY <1>1, <2>7 DEF ExecSound, Levels, Piped
  <2>11. Marked(y, C)
    <3> SUFFICES ASSUME NEW r \in Streams PROVE C[r][0] = 0 /\ \A q \in 1..y.sequence[r] : C[r][q - 1] < C[r][q]
      BY DEF Marked
    <3>1. B[r][0] = 0 /\ \A q \in 1..x.sequence[r] : B[r][q - 1] < B[r][q]
      BY <1>1 DEF ExecSound, Marked
    <3>2. CASE r # s
      BY <2>5, <2>9, <3>1, <3>2
    <3>3. CASE r = s
      <4>1. C[s][0] = 0
        <5>1. 0 \in 0..q0
          OBVIOUS
        <5> QED BY <2>5, <3>1, <3>3, <5>1
      <4>2. ASSUME NEW q \in 1..(q0 + k) PROVE C[s][q - 1] < C[s][q]
        <5>1. CASE q <= q0
          <6>1. q \in 0..q0 /\ q - 1 \in 0..q0 /\ q \in 1..q0
            BY <5>1
          <6> QED BY <2>1, <2>5, <3>1, <3>3, <6>1
        <5>2. CASE ~(q <= q0)
          <6>1. PICK i \in 1..k : i = q - q0 /\ q = q0 + i /\ q - 1 = q0 + (i - 1)
            BY <2>2, <5>2
          <6>2. i \in 0..k /\ i - 1 \in 0..k /\ i \in 1..parts /\ i \in Nat /\ i - 1 \in Nat
            BY <2>2
          <6>3. C[s][q] = base + UpTo(n, i) /\ C[s][q - 1] = base + UpTo(n, i - 1)
            BY <2>5, <6>1, <6>2
          <6>4. UpTo(n, i - 1) < UpTo(n, i)
            BY <2>4, <6>2
          <6>5. UpTo(n, i) \in 0..n /\ UpTo(n, i - 1) \in 0..n
            BY <2>4, <6>2
          <6> QED BY <6>3, <6>4, <6>5
        <5> QED BY <5>1, <5>2
      <4> QED BY <2>9, <3>3, <4>1, <4>2
    <3> QED BY <3>2, <3>3
  <2>12. Grows(x, y, B, C)
    <3>1. ASSUME NEW r \in Streams PROVE x.sequence[r] <= y.sequence[r] /\ \A q \in 0..x.sequence[r] : C[r][q] = B[r][q]
      <4>1. CASE r # s
        <5>1. x.sequence[r] \in Nat
          BY <1>2, ExecutorFields
        <5> QED BY <2>5, <2>9, <4>1, <5>1
      <4>2. CASE r = s
        BY <2>1, <2>2, <2>5, <2>9, <4>2
      <4> QED BY <4>1, <4>2
    <3> QED BY <2>6, <2>7, <3>1 DEF Grows
  <2>13. ExecSound(y, C, L)
    <3>1. y.stopped <=> y.exceeded \/ y.failed
      BY <1>1, <1>5, <2>6, <2>7 DEF ExecSound
    <3>2. y.streamed <=> \E r \in Streams : y.sequence[r] > 0
      <4>1. x.streamed <=> \E r \in Streams : x.sequence[r] > 0
        BY <1>1 DEF ExecSound
      <4>2. CASE k = 0
        <5>1. \A r \in Streams : y.sequence[r] = x.sequence[r]
          BY <2>1, <2>9, <4>2
        <5> QED BY <2>6, <2>7, <4>1, <4>2, <5>1
      <4>3. CASE k # 0
        <5>1. k > 0 /\ y.sequence[s] > 0
          BY <2>1, <2>2, <2>9, <4>3
        <5> QED BY <2>6, <2>7, <5>1
      <4> QED BY <4>2, <4>3
    <3>3. Len(y.accepted) <= OutputLimit /\ (y.exceeded => Len(y.accepted) = OutputLimit)
      BY <1>1, <2>7 DEF ExecSound
    <3>4. ASSUME NEW r \in Streams
          PROVE  Len(y.buffer[r]) <= Len(y.accepted) /\ Follows(y.buffer[r], r, C[r][y.sequence[r]])
      <4>1. CASE r # s
        BY <1>1, <2>5, <2>7, <2>9, <4>1 DEF ExecSound
      <4>2. CASE r = s
        <5>1. Len(y.buffer[s]) = 0
          BY <2>9, EmptySeq
        <5>2. Len(y.accepted) \in Nat
          BY <1>2, <2>7, ExecutorFields, LenProperties
        <5>3. \A i \in 1..Len(y.buffer[s]) : FALSE
          BY <5>1
        <5> QED BY <4>2, <5>1, <5>2, <5>3 DEF Follows
      <4> QED BY <4>1, <4>2
    <3>5. ASSUME ~y.stopped
          PROVE  /\ \A r \in Streams : L[0][r] = C[r][y.sequence[r]] + Len(y.buffer[r])
                 /\ Len(y.accepted) = L[0]["stdout"] + L[0]["stderr"]
      <4>1. ~x.stopped /\ ~(k < parts)
        BY <2>6, <2>7, <3>5
      <4>2. k = parts
        BY <2>2, <4>1
      <4>3. /\ \A r \in Streams : L[0][r] = B[r][x.sequence[r]] + Len(x.buffer[r])
            /\ Len(x.accepted) = L[0]["stdout"] + L[0]["stderr"]
        BY <1>1, <4>1 DEF ExecSound
      <4>4. ASSUME NEW r \in Streams PROVE L[0][r] = C[r][y.sequence[r]] + Len(y.buffer[r])
        <5>1. CASE r # s
          BY <2>5, <2>9, <4>3, <5>1
        <5>2. CASE r = s
          <6>1. k \in 0..k
            BY <2>2
          <6>2. C[s][q0 + k] = base + n
            BY <2>4, <2>5, <4>2, <6>1
          <6>3. Len(y.buffer[s]) = 0
            BY <2>9, EmptySeq
          <6>4. L[0][s] = base + n
            BY <2>1, <4>3
          <6> QED BY <2>9, <5>2, <6>2, <6>3, <6>4
        <5> QED BY <5>1, <5>2
      <4> QED BY <2>7, <4>3, <4>4
    <3> QED BY <2>7, <2>8, <2>10, <2>11, <3>1, <3>2, <3>3, <3>4, <3>5 DEF ExecSound
  <2>14. ASSUME NEW i \in 1..k PROVE EventSound(ev[i], y, C)
    <3>1. i \in 1..parts /\ i \in 0..k /\ i - 1 \in 0..k /\ i \in Nat /\ i - 1 \in Nat
      BY <2>2
    <3>2. ev[i].kind = "log" /\ ev[i].stream = s /\ ev[i].sequence = q0 + i /\ ev[i].data = Part(buf, i)
          /\ ev[i].lost = LostBytes(Part(buf, i))
      BY <2>3
    <3>3. UpTo(n, i) \in 0..n /\ UpTo(n, i - 1) \in 0..n /\ UpTo(n, i - 1) < UpTo(n, i)
      BY <2>4, <3>1
    <3>4. /\ Part(buf, i) \in Seq(Byte) /\ Len(Part(buf, i)) = UpTo(n, i) - UpTo(n, i - 1)
          /\ \A j \in 1..Len(Part(buf, i)) : Part(buf, i)[j] = buf[UpTo(n, i - 1) + j]
      BY <2>4, <3>1
    <3>5. C[s][q0 + i] = base + UpTo(n, i) /\ C[s][q0 + i - 1] = base + UpTo(n, i - 1)
      <4>1. q0 + i - 1 = q0 + (i - 1)
        BY <3>1
      <4> QED BY <2>5, <3>1, <4>1
    <3>6. Len(Part(buf, i)) = C[s][q0 + i] - C[s][q0 + i - 1]
      BY <3>3, <3>4, <3>5
    <3>7. Part(buf, i) # << >>
      <4>1. Len(Part(buf, i)) # 0
        BY <3>3, <3>4
      <4> QED BY <4>1, EmptySeq
    <3>8. Len(Part(buf, i)) <= OutputLimit
      <4>1. n <= Len(x.accepted) /\ Len(x.accepted) <= OutputLimit
        BY <1>1, <2>1 DEF ExecSound
      <4>2. Len(x.accepted) \in Nat
        BY <1>2, ExecutorFields, LenProperties
      <4> QED BY <3>3, <3>4, <4>1, <4>2, LogSizes
    <3>9. Follows(Part(buf, i), s, C[s][q0 + i - 1])
      <4> SUFFICES ASSUME NEW j \in 1..Len(Part(buf, i))
                   PROVE  Part(buf, i)[j] = [stream |-> s, n |-> C[s][q0 + i - 1] + j]
        BY DEF Follows
      <4>1. UpTo(n, i - 1) + j \in 1..n /\ base + (UpTo(n, i - 1) + j) = C[s][q0 + i - 1] + j
        BY <3>3, <3>4, <3>5, SMTT(40)
      <4>2. Follows(buf, s, base)
        BY <1>1, <2>1 DEF ExecSound
      <4>3. buf[UpTo(n, i - 1) + j] = [stream |-> s, n |-> base + (UpTo(n, i - 1) + j)]
        BY <2>1, <4>1, <4>2 DEF Follows
      <4> QED BY <3>4, <4>1, <4>3
    <3>10. y.streamed /\ q0 + i \in 1..y.sequence[s]
      BY <2>2, <2>6, <2>7, <2>9, <3>1
    <3>11. RowSound(ev[i], y, C)
      BY <3>2, <3>4, <3>6, <3>7, <3>8, <3>9, <3>10 DEF RowSound
    <3>12. ev[i] \in LogEvent
      BY <2>3, ElementOfSeq
    <3> QED BY <3>2, <3>10, <3>11, <3>12 DEF EventSound
  <2>15. \A i \in 1..Len(ev) : ev[i].kind = "log" => ev[i].sequence > x.sequence[ev[i].stream]
    <3> SUFFICES ASSUME NEW i \in 1..k PROVE ev[i].sequence > x.sequence[ev[i].stream]
      BY <2>3
    <3>1. ev[i].stream = s /\ ev[i].sequence = q0 + i
      BY <2>3
    <3>2. q0 + i > q0
      BY <2>2
    <3> QED BY <2>1, <3>1, <3>2
  <2>16. \A i, j \in 1..Len(ev) : i < j => Before(ev[i], ev[j])
    <3> SUFFICES ASSUME NEW i \in 1..k, NEW j \in 1..k, i < j PROVE Before(ev[i], ev[j])
      BY <2>3
    <3>1. ev[i].sequence = q0 + i /\ ev[j].sequence = q0 + j
      BY <2>3
    <3>2. q0 + i < q0 + j
      BY <2>2
    <3> QED BY <3>1, <3>2 DEF Before
  <2>17. \A r \in Streams : \A m \in (x.sequence[r] + 1)..y.sequence[r] : \E i \in 1..Len(ev) : IsLog(ev[i], r, m)
    <3> SUFFICES ASSUME NEW r \in Streams, NEW m \in (x.sequence[r] + 1)..y.sequence[r]
                 PROVE  \E i \in 1..k : IsLog(ev[i], r, m)
      BY <2>3
    <3>1. r = s
      <4>1. x.sequence[r] \in Nat
        BY <1>2, ExecutorFields
      <4>2. r # s => y.sequence[r] = x.sequence[r]
        BY <2>9
      <4> QED BY <4>1, <4>2
    <3>2. m - q0 \in 1..k /\ q0 + (m - q0) = m
      <4>1. x.sequence[r] = q0 /\ y.sequence[r] = q0 + k
        BY <2>1, <2>9, <3>1
      <4>2. m \in (q0 + 1)..(q0 + k)
        BY <4>1
      <4> QED BY <2>2, <4>2
    <3>3. IsLog(ev[m - q0], s, m)
      BY <2>3, <3>2 DEF IsLog
    <3> QED BY <3>1, <3>2, <3>3
  <2>18. NothingLost(y, SentIn(out, flying, gone) \cup {ev[i] : i \in 1..Len(ev)}, rows)
    <3> DEFINE old == SentIn(out, flying, gone)
               all == old \cup {ev[i] : i \in 1..Len(ev)}
    <3>1. old \subseteq all /\ \A i \in 1..k : ev[i] \in all
      BY <2>3
    <3> HIDE DEF old, all
    <3> SUFFICES ASSUME ~y.failed, NEW a \in 1..Len(x.accepted)
                 PROVE  (\E r \in Streams : Holds(y.buffer[r], x.accepted[a])) \/ Recorded(x.accepted[a], all, rows)
      BY <2>7 DEF NothingLost, all, old
    <3>2. (\E r \in Streams : Holds(x.buffer[r], x.accepted[a])) \/ Recorded(x.accepted[a], old, rows)
      BY <1>1, <1>5 DEF TablesSound, NothingLost, old
    <3>3. CASE Recorded(x.accepted[a], old, rows)
      BY <3>1, <3>3 DEF Recorded
    <3>4. ASSUME NEW r \in Streams, Holds(x.buffer[r], x.accepted[a]), r # s
          PROVE  Holds(y.buffer[r], x.accepted[a])
      BY <2>9, <3>4
    <3>5. ASSUME Holds(buf, x.accepted[a]) PROVE Recorded(x.accepted[a], all, rows)
      <4>1. k = parts
        BY <2>2, <2>6, <2>7
      <4>2. PICK j \in 1..n : buf[j] = x.accepted[a]
        BY <2>1, <3>5 DEF Holds
      <4>3. PICK i \in 1..parts : UpTo(n, i - 1) < j /\ j <= UpTo(n, i)
        BY <2>4
      <4>4. i \in Nat /\ i - 1 \in Nat
        OBVIOUS
      <4>5. UpTo(n, i) \in 0..n /\ UpTo(n, i - 1) \in 0..n
        BY <2>4, <4>4
      <4>6. /\ Len(Part(buf, i)) = UpTo(n, i) - UpTo(n, i - 1)
            /\ \A h \in 1..Len(Part(buf, i)) : Part(buf, i)[h] = buf[UpTo(n, i - 1) + h]
        BY <2>4
      <4>7. j - UpTo(n, i - 1) \in 1..Len(Part(buf, i)) /\ UpTo(n, i - 1) + (j - UpTo(n, i - 1)) = j
        BY <4>3, <4>5, <4>6
      <4>8. Part(buf, i)[j - UpTo(n, i - 1)] = x.accepted[a]
        BY <4>2, <4>6, <4>7
      <4>9. Holds(ev[i].data, x.accepted[a])
        BY <2>3, <4>1, <4>7, <4>8 DEF Holds
      <4> QED BY <3>1, <4>1, <4>9 DEF Recorded
    <3> QED BY <2>1, <3>2, <3>3, <3>4, <3>5
  <2>19. \A i \in 1..Len(ev) : EventSound(ev[i], y, C)
    BY <2>3, <2>14
  <2>20. LogsSound(y, out \o ev, flying, gone, rows, rd, dis)
    BY <1>1, <2>3, <2>5, <2>10, <2>12, <2>13, <2>15, <2>16, <2>17, <2>18, <2>19, ExecKeeps
  <2> QED BY <1>2, <1>3, <2>3, <2>7, <2>9, <2>20
<1> QED BY <1>4, <1>5

\* flushExecutorBuffers: one buffer, then the other.
LEMMA FlushesKeep ==
    ASSUME NEW x, NEW out, NEW flying, NEW gone, NEW rows, NEW rd, NEW dis,
           LogsSound(x, out, flying, gone, rows, rd, dis), x.phase # "ended",
           NEW f \in FlushExecutorBuffers(x)
    PROVE  /\ LogsSound(f.exec, out \o f.events, flying, gone, rows, rd, dis)
           /\ f.events \in Seq(LogEvent) /\ out \in Seq(LogEvent)
           /\ f.exec.phase = x.phase /\ f.exec.pipe = x.pipe
           /\ f.exec.failed \/ \A s \in Streams : f.exec.buffer[s] = << >>
<1>1. PICK k \in 0..ToFlush(x, "stdout") :
        \E j \in 0..ToFlush(FlushExecutorBuffer(x, "stdout", k), "stderr") :
            f = [exec |-> FlushExecutorBuffer(FlushExecutorBuffer(x, "stdout", k), "stderr", j),
                 events |-> Events(x, "stdout", k) \o Events(FlushExecutorBuffer(x, "stdout", k), "stderr", j)]
  BY DEF FlushExecutorBuffers
<1>2. PICK y : y = FlushExecutorBuffer(x, "stdout", k)
  OBVIOUS
<1>3. PICK j \in 0..ToFlush(y, "stderr") :
        f = [exec |-> FlushExecutorBuffer(y, "stderr", j), events |-> Events(x, "stdout", k) \o Events(y, "stderr", j)]
  BY <1>1, <1>2
<1>4. PICK z, a, b : z = FlushExecutorBuffer(y, "stderr", j) /\ a = Events(x, "stdout", k) /\ b = Events(y, "stderr", j)
  OBVIOUS
<1>5. f.exec = z /\ f.events = a \o b
  BY <1>3, <1>4
<1>6. Streams = {"stdout", "stderr"} /\ "stdout" \in Streams /\ "stderr" \in Streams /\ "stdout" # "stderr"
  BY DEF Streams
<1>7. /\ LogsSound(y, out \o a, flying, gone, rows, rd, dis)
      /\ out \in Seq(LogEvent) /\ a \in Seq(LogEvent)
      /\ y.phase = x.phase /\ y.pipe = x.pipe
      /\ y.failed \/ y.buffer["stdout"] = << >>
  BY <1>2, <1>4, <1>6, FlushKeeps
<1>8. /\ LogsSound(z, (out \o a) \o b, flying, gone, rows, rd, dis)
      /\ b \in Seq(LogEvent)
      /\ z.phase = y.phase /\ z.pipe = y.pipe
      /\ z.failed \/ z.buffer["stderr"] = << >>
      /\ z.failed \/ \A q \in Streams \ {"stderr"} : z.buffer[q] = y.buffer[q]
  BY <1>4, <1>6, <1>7, FlushKeeps
<1>9. (out \o a) \o b = out \o (a \o b) /\ a \o b \in Seq(LogEvent)
  BY <1>7, <1>8, ConcatAssociative, ConcatProperties, SMTT(40)
<1>10. z.failed \/ \A s \in Streams : z.buffer[s] = << >>
  <2>1. y.failed => z = y
    BY <1>4 DEF FlushExecutorBuffer
  <2> QED BY <1>6, <1>7, <1>8, <2>1
<1> QED BY <1>5, <1>7, <1>8, <1>9, <1>10

\* finishExecution's terminal event.
LEMMA EndKeeps ==
    ASSUME NEW x, NEW out, NEW flying, NEW gone, NEW rows, NEW rd, NEW dis,
           LogsSound(x, out, flying, gone, rows, rd, dis), x.phase # "ended", x.pipe = << >>,
           x.failed \/ \A s \in Streams : x.buffer[s] = << >>,
           NEW y, y = [x EXCEPT !.phase = "ended"],
           NEW e, e = [kind |-> "end", stream |-> "stdout", sequence |-> 3, data |-> TerminalResult(x),
                       lost |-> LostBytes(TerminalResult(x))]
    PROVE  e \in LogEvent /\ LogsSound(y, out \o <<e>>, flying, gone, rows, rd, dis)
<1>1. PICK B \in Marks, L \in Levels(x) : ExecSound(x, B, L) /\ TablesSound(x, B, out, flying, gone, rows, rd, dis)
  BY DEF LogsSound
<1>2. x \in Executor
  BY <1>1 DEF ExecSound
<1>3. /\ y.phase = "ended" /\ y.written = x.written /\ y.pipe = x.pipe /\ y.accepted = x.accepted
      /\ y.exceeded = x.exceeded /\ y.stopped = x.stopped /\ y.failed = x.failed
      /\ y.buffer = x.buffer /\ y.sequence = x.sequence /\ y.streamed = x.streamed
      /\ y \in Executor
  BY <1>2 DEF Executor
<1>4. L \in Levels(y)
  BY <1>3 DEF Levels
<1>5. ExecSound(y, B, L)
  BY <1>1, <1>3 DEF ExecSound, Marked, Piped
<1>6. \A s \in Streams : x.sequence[s] \in Nat
  BY <1>2, ExecutorFields
<1>7. Grows(x, y, B, B)
  BY <1>3, <1>6 DEF Grows
<1>8. TerminalResult(y) = TerminalResult(x) /\ TerminalResult(x) \in Seq(Byte)
  BY <1>2, <1>3, ExecutorFields, EmptySeq DEF TerminalResult
<1>9. e.kind = "end" /\ e.stream = "stdout" /\ e.sequence = 3 /\ e.data = TerminalResult(x)
      /\ e.lost = LostBytes(e.data)
  OBVIOUS
<1>10. e \in LogEvent
  <2>1. LostBytes(TerminalResult(x)) \in SUBSET Nat
    BY <1>8, LostArePlaces
  <2> QED BY <1>8, <2>1 DEF LogEvent, Streams
<1>11. EventSound(e, y, B)
  BY <1>3, <1>8, <1>9, <1>10 DEF EventSound
<1>12. PICK ev : ev = <<e>>
  OBVIOUS
<1>13. ev \in Seq(LogEvent) /\ Len(ev) = 1 /\ ev[1] = e
  BY <1>10, <1>12
<1>14. \A i \in 1..Len(ev) : i = 1 /\ ev[i] = e
  BY <1>13
<1>15. \A s \in Streams : \A n \in (x.sequence[s] + 1)..y.sequence[s] : FALSE
  BY <1>3, <1>6
<1>16. NothingLost(y, SentIn(out, flying, gone) \cup {ev[i] : i \in 1..Len(ev)}, rows)
  BY <1>1, <1>3 DEF TablesSound, NothingLost, Recorded
<1>17. \A i, j \in 1..Len(ev) : i < j => FALSE
  BY <1>14
<1>18. /\ \A i \in 1..Len(ev) : EventSound(ev[i], y, B)
       /\ \A i \in 1..Len(ev) : ev[i].kind = "log" => ev[i].sequence > x.sequence[ev[i].stream]
  BY <1>9, <1>11, <1>14
<1>19. LogsSound(y, out \o ev, flying, gone, rows, rd, dis)
  BY <1>1, <1>4, <1>5, <1>7, <1>13, <1>15, <1>16, <1>17, <1>18, ExecKeeps
<1> QED BY <1>10, <1>12, <1>19

\* A flush, and the last one.
LEMMA LogsFlushStep ==
    ASSUME LogsInv, FlushTick \/ FinishExecution
    PROVE  LogsInv'
<1>1. LogsSound(exec, outbox, inFlight, givenUp, chunk, reader, disorder)
  BY DEF LogsInv
<1>2. exec.phase # "ended" /\ UNCHANGED <<inFlight, chunk, givenUp, reader, disorder>>
  BY DEF FlushTick, FinishExecution
<1>3. CASE FlushTick
  <2>1. PICK f \in FlushExecutorBuffers(exec) : exec' = f.exec /\ outbox' = outbox \o f.events
    BY <1>3 DEF FlushTick, SetExecutor
  <2>2. LogsSound(f.exec, outbox \o f.events, inFlight, givenUp, chunk, reader, disorder)
    BY <1>1, <1>2, FlushesKeep
  <2> QED BY <1>2, <2>1, <2>2 DEF LogsInv
<1>4. CASE FinishExecution
  <2>1. PICK f \in FlushExecutorBuffers(exec) : EndExecutor(f.exec, f.events)
    BY <1>4 DEF FinishExecution
  <2>2. exec.pipe = << >>
    BY <1>4 DEF FinishExecution
  <2>3. PICK x, ev, e : /\ x = f.exec /\ ev = f.events
                        /\ e = [kind |-> "end", stream |-> "stdout", sequence |-> 3, data |-> TerminalResult(x),
                               lost |-> LostBytes(TerminalResult(x))]
    OBVIOUS
  <2>4. exec' = [x EXCEPT !.phase = "ended"] /\ outbox' = outbox \o Append(ev, e)
    BY <2>1, <2>3 DEF EndExecutor, SetExecutor
  <2>5. /\ LogsSound(x, outbox \o ev, inFlight, givenUp, chunk, reader, disorder)
        /\ ev \in Seq(LogEvent) /\ outbox \in Seq(LogEvent)
        /\ x.phase = exec.phase /\ x.pipe = exec.pipe
        /\ x.failed \/ \A s \in Streams : x.buffer[s] = << >>
    BY <1>1, <1>2, <2>3, FlushesKeep
  <2>6. x.phase # "ended" /\ x.pipe = << >>
    BY <1>2, <2>2, <2>5
  <2>7. e \in LogEvent /\ LogsSound(exec', (outbox \o ev) \o <<e>>, inFlight, givenUp, chunk, reader, disorder)
    BY <2>3, <2>4, <2>5, <2>6, EndKeeps, SMTT(40)
  <2>8. <<e>> \in Seq(LogEvent)
    BY <2>7
  <2>9. (outbox \o ev) \o <<e>> = outbox \o Append(ev, e)
    <3>1. Append(ev, e) = ev \o <<e>>
      BY <2>5, <2>7, AppendIsConcat
    <3>2. (outbox \o ev) \o <<e>> = outbox \o (ev \o <<e>>)
      BY <2>5, <2>8, ConcatAssociative
    <3> QED BY <3>1, <3>2
  <2> QED BY <1>2, <2>4, <2>7, <2>9 DEF LogsInv
<1> QED BY <1>3, <1>4

\* The oldest event goes into the stream.
LEMMA LogsPublishStep ==
    ASSUME LogsInv, PublishLogEvent
    PROVE  LogsInv'
<1>1. PICK B \in Marks, L \in Levels(exec) :
        ExecSound(exec, B, L) /\ TablesSound(exec, B, outbox, inFlight, givenUp, chunk, reader, disorder)
  BY DEF LogsInv, LogsSound
<1>2. PICK out, e, tail : out = outbox /\ e = Head(outbox) /\ tail = Tail(outbox)
  OBVIOUS
<1>3. out # << >> /\ inFlight' = inFlight \cup {e} /\ outbox' = tail /\ UNCHANGED <<exec, chunk, givenUp, reader, disorder>>
  BY <1>2 DEF PublishLogEvent
<1>4. /\ out \in Seq(LogEvent)
      /\ \A i, j \in 1..Len(out) : i < j => Before(out[i], out[j])
      /\ \A f \in inFlight : \A j \in 1..Len(out) : Before(f, out[j])
  BY <1>1, <1>2 DEF TablesSound, Ordered
<1>5. PICK n \in Nat : Len(out) = n + 1 /\ Len(tail) = n
  <2>1. Len(out) \in Nat \ {0} /\ Len(tail) = Len(out) - 1
    BY <1>2, <1>3, <1>4, EmptySeq, HeadTailProperties
  <2>2. Len(out) - 1 \in Nat /\ Len(out) = Len(out) - 1 + 1
    BY <2>1
  <2> QED BY <2>1, <2>2
<1>6. tail \in Seq(LogEvent) /\ \A i \in 1..n : tail[i] = out[i + 1]
  BY <1>2, <1>3, <1>4, <1>5, HeadTailProperties
<1>7. e = out[1] /\ 1 \in 1..(n + 1) /\ \A i \in 1..n : i + 1 \in 1..(n + 1) /\ 1 < i + 1
  BY <1>2, <1>3, <1>4
<1>8. \A i \in 1..(n + 1) : i = 1 \/ \E j \in 1..n : i = j + 1
  <2> SUFFICES ASSUME NEW i \in 1..(n + 1), i # 1 PROVE \E j \in 1..n : i = j + 1
    OBVIOUS
  <2>1. i - 1 \in 1..n /\ i = i - 1 + 1
    OBVIOUS
  <2> QED BY <2>1
<1>9. SentIn(tail, inFlight \cup {e}, givenUp) = SentIn(out, inFlight, givenUp)
  <2>1. {out[i] : i \in 1..(n + 1)} = {tail[i] : i \in 1..n} \cup {e}
    <3>1. ASSUME NEW i \in 1..(n + 1) PROVE out[i] \in {tail[j] : j \in 1..n} \cup {e}
      <4>1. CASE i = 1
        BY <1>7, <4>1
      <4>2. ASSUME NEW j \in 1..n, i = j + 1 PROVE out[i] \in {tail[h] : h \in 1..n} \cup {e}
        <5>1. out[i] = tail[j]
          BY <1>6, <4>2
        <5> QED BY <5>1
      <4> QED BY <1>8, <4>1, <4>2
    <3>2. \A i \in 1..n : tail[i] \in {out[j] : j \in 1..(n + 1)}
      BY <1>6, <1>7
    <3>3. e \in {out[j] : j \in 1..(n + 1)}
      BY <1>7
    <3> QED BY <3>1, <3>2, <3>3
  <2> QED BY <1>5, <2>1 DEF SentIn
<1>10. Ordered(tail, inFlight \cup {e})
  <2>1. ASSUME NEW i \in 1..n, NEW j \in 1..n, i < j PROVE Before(tail[i], tail[j])
    <3>1. i + 1 \in 1..(n + 1) /\ j + 1 \in 1..(n + 1) /\ i + 1 < j + 1
      BY <2>1
    <3> QED BY <1>4, <1>5, <1>6, <3>1
  <2>2. ASSUME NEW f \in inFlight \cup {e}, NEW j \in 1..n PROVE Before(f, tail[j])
    BY <1>4, <1>5, <1>6, <1>7
  <2> QED BY <1>5, <1>6, <2>1, <2>2 DEF Ordered
<1>11. TablesSound(exec, B, tail, inFlight \cup {e}, givenUp, chunk, reader, disorder)
  BY <1>1, <1>2, <1>9, <1>10 DEF TablesSound
<1> QED BY <1>1, <1>3, <1>11 DEF LogsInv, LogsSound

\* An event becomes a dead letter.
LEMMA LogsGiveUpStep ==
    ASSUME LogsInv, NEW e, GiveUpLogEvent(e)
    PROVE  LogsInv'
<1>1. PICK B \in Marks, L \in Levels(exec) :
        ExecSound(exec, B, L) /\ TablesSound(exec, B, outbox, inFlight, givenUp, chunk, reader, disorder)
  BY DEF LogsInv, LogsSound
<1>2. /\ e \in inFlight /\ inFlight' = inFlight \ {e} /\ givenUp' = givenUp \cup {e}
      /\ UNCHANGED <<exec, outbox, chunk, reader, disorder>>
  BY DEF GiveUpLogEvent
<1>3. SentIn(outbox, inFlight \ {e}, givenUp \cup {e}) = SentIn(outbox, inFlight, givenUp)
  BY <1>2 DEF SentIn
<1>4. Ordered(outbox, inFlight \ {e})
  BY <1>1 DEF TablesSound, Ordered
<1>5. TablesSound(exec, B, outbox, inFlight \ {e}, givenUp \cup {e}, chunk, reader, disorder)
  BY <1>1, <1>3, <1>4 DEF TablesSound
<1> QED BY <1>1, <1>2, <1>5 DEF LogsInv, LogsSound

\* A reader asks for what follows the last number it saw.
LEMMA LogsReadStep ==
    ASSUME LogsInv, NEW s \in Streams, ReadLogs(s)
    PROVE  LogsInv'
<1>1. PICK B \in Marks, L \in Levels(exec) :
        ExecSound(exec, B, L) /\ TablesSound(exec, B, outbox, inFlight, givenUp, chunk, reader, disorder)
  BY DEF LogsInv, LogsSound
<1>2. PICK rows : rows = {c \in chunk : c.stream = s /\ c.sequence > reader[s].last}
  OBVIOUS
<1>3. UNCHANGED <<exec, outbox, inFlight, chunk, givenUp, disorder>>
  BY DEF ReadLogs
<1>4. PICK c \in rows : reader' = [reader EXCEPT ![s] = [last |-> c.sequence, seen |-> @.seen \cup rows]]
  BY <1>2 DEF ReadLogs, ListLogChunks
<1>5. /\ reader \in [Streams -> [last : Nat, seen : SUBSET chunk]]
      /\ \A r \in Streams : reader[r].last = 0 \/ \E d \in chunk : d.sequence = reader[r].last
      /\ ~disorder /\ exec.streamed =>
        /\ \A d \in chunk : \A n \in 1..(d.sequence - 1) : \E f \in chunk : IsRow(f, d.stream, n)
        /\ \A r \in Streams : \A n \in 1..reader[r].last : \E d \in reader[r].seen : d.sequence = n
  BY <1>1 DEF TablesSound, ReadSound
<1>6. c \in chunk /\ c.stream = s /\ rows \subseteq chunk
  BY <1>2
<1>7. \A d \in chunk : d.sequence \in Nat
  <2> SUFFICES ASSUME NEW d \in chunk PROVE d.sequence \in Nat
    OBVIOUS
  <2>1. RowSound(d, exec, B)
    BY <1>1 DEF TablesSound
  <2>2. CASE exec.streamed
    BY <2>1, <2>2 DEF RowSound
  <2>3. CASE ~exec.streamed
    BY <2>1, <2>3 DEF RowSound
  <2> QED BY <2>2, <2>3
<1>8. PICK p \in [last : Nat, seen : SUBSET chunk] : p = [last |-> c.sequence, seen |-> reader[s].seen \cup rows]
  <2>1. reader[s].seen \in SUBSET chunk
    BY <1>5
  <2> QED BY <1>6, <1>7, <2>1
<1>9. reader' = [reader EXCEPT ![s] = p]
  BY <1>4, <1>8
<1>10. /\ reader' \in [Streams -> [last : Nat, seen : SUBSET chunk]]
       /\ reader'[s] = p /\ \A r \in Streams \ {s} : reader'[r] = reader[r]
  BY <1>5, <1>9
<1>11. p.last = c.sequence /\ p.seen = reader[s].seen \cup rows
  BY <1>8
<1>12. \A r \in Streams : reader'[r].last = 0 \/ \E d \in chunk : d.sequence = reader'[r].last
  BY <1>5, <1>6, <1>10, <1>11
<1>13. ASSUME ~disorder, exec.streamed, NEW n \in 1..p.last
       PROVE  \E d \in p.seen : d.sequence = n
  <2>1. CASE n \in 1..reader[s].last
    <3>1. \E d \in reader[s].seen : d.sequence = n
      BY <1>5, <1>13, <2>1
    <3> QED BY <1>11, <3>1
  <2>2. CASE n \notin 1..reader[s].last
    <3>1. reader[s].last \in Nat /\ p.last \in Nat
      BY <1>5
    <3>2. n > reader[s].last /\ n \in Nat
      BY <2>2, <3>1
    <3>3. \E d \in chunk : d.stream = s /\ d.sequence = n
      <4>1. CASE n = p.last
        BY <1>6, <1>11, <4>1
      <4>2. CASE n # p.last
        <5>1. n \in 1..(c.sequence - 1)
          BY <1>11, <3>1, <4>2
        <5> QED BY <1>5, <1>6, <1>13, <5>1 DEF IsRow
      <4> QED BY <4>1, <4>2
    <3>4. \E d \in rows : d.sequence = n
      BY <1>2, <3>2, <3>3
    <3> QED BY <1>11, <3>4
  <2> QED BY <2>1, <2>2
<1>14. ASSUME ~disorder, exec.streamed, NEW r \in Streams, NEW n \in 1..reader'[r].last
       PROVE  \E d \in reader'[r].seen : d.sequence = n
  <2>1. CASE r = s
    BY <1>10, <1>13, <1>14, <2>1
  <2>2. CASE r # s
    BY <1>5, <1>10, <1>14, <2>2
  <2> QED BY <2>1, <2>2
<1>15. ReadSound(exec, chunk, reader', disorder)
  BY <1>5, <1>10, <1>12, <1>14 DEF ReadSound
<1>16. TablesSound(exec, B, outbox, inFlight, givenUp, chunk, reader', disorder)
  BY <1>1, <1>15 DEF TablesSound
<1> QED BY <1>1, <1>3, <1>16 DEF LogsInv, LogsSound

\* ApplyRunEvent stores an event's chunk.
LEMMA LogsApplyStep ==
    ASSUME LogsInv, NEW e, NEW ok \in BOOLEAN, ApplyLogEvent(e, ok)
    PROVE  LogsInv'
<1>1. PICK B \in Marks, L \in Levels(exec) :
        ExecSound(exec, B, L) /\ TablesSound(exec, B, outbox, inFlight, givenUp, chunk, reader, disorder)
  BY DEF LogsInv, LogsSound
<1>2. PICK row : row = [stream |-> e.stream, sequence |-> e.sequence, data |-> e.data, lost |-> e.lost]
  OBVIOUS
<1>3. row.stream = e.stream /\ row.sequence = e.sequence /\ row.data = e.data /\ row.lost = e.lost
  BY <1>2
<1>4. /\ e \in inFlight /\ UNCHANGED <<exec, outbox, givenUp, reader>>
      /\ inFlight' \subseteq inFlight /\ inFlight \ {e} \subseteq inFlight'
      /\ ~disorder' => ~disorder /\ ~Overtakes(e)
  BY DEF ApplyLogEvent
<1>5. /\ e.data = << >> => chunk' = chunk
      /\ (\E c \in chunk : IsRow(c, e.stream, e.sequence)) => chunk' = chunk
      /\ e.data # << >> /\ ~(\E c \in chunk : IsRow(c, e.stream, e.sequence)) => chunk' = chunk \cup {row}
  BY <1>2, <1>3 DEF ApplyLogEvent, StoreChunk, IsRow
<1>6. PICK old, new : old = SentIn(outbox, inFlight, givenUp) /\ new = SentIn(outbox, inFlight', givenUp)
  OBVIOUS
<1>7. e \in old /\ new \subseteq old /\ old \ {e} \subseteq new
  BY <1>4, <1>6 DEF SentIn
<1>8. EventSound(e, exec, B) /\ e \in LogEvent
  BY <1>1, <1>6, <1>7 DEF TablesSound, EventSound
<1>9. /\ e.kind = "log" => e.data # << >> /\ exec.streamed
      /\ e.data # << >> => RowSound(row, exec, B)
      /\ e.data # << >> /\ exec.streamed => e.kind = "log"
  <2>1. e.kind \in {"log", "end"} /\ e.data \in Seq(Byte)
    BY <1>8 DEF LogEvent
  <2>2. CASE e.kind = "log"
    <3>1. exec.streamed /\ RowSound(e, exec, B)
      BY <1>8, <2>2 DEF EventSound
    <3>2. e.data # << >> /\ RowSound(row, exec, B)
      BY <1>3, <3>1 DEF RowSound
    <3> QED BY <2>2, <3>1, <3>2
  <2>3. CASE e.kind = "end"
    <3>1. exec.phase = "ended" /\ e.stream = "stdout" /\ e.sequence = 3 /\ e.data = TerminalResult(exec)
          /\ e.lost = LostBytes(e.data)
      BY <1>8, <2>3 DEF EventSound
    <3>2. CASE exec.streamed
      BY <2>3, <3>1, <3>2 DEF TerminalResult
    <3>3. CASE ~exec.streamed
      <4>1. e.data = exec.accepted
        BY <3>1, <3>3 DEF TerminalResult
      <4>2. Len(exec.accepted) <= OutputLimit
        BY <1>1 DEF ExecSound
      <4>3. e.data # << >> => RowSound(row, exec, B)
        BY <1>3, <2>1, <3>1, <3>3, <4>1, <4>2 DEF RowSound, Streams
      <4> QED BY <2>3, <3>3, <4>3
    <3> QED BY <3>2, <3>3
  <2> QED BY <2>1, <2>2, <2>3
<1>10. chunk \subseteq chunk' /\ \A c \in chunk' : c \in chunk \/ (c = row /\ e.data # << >>)
  BY <1>5
<1>11. \A c \in chunk : RowSound(c, exec, B)
  BY <1>1 DEF TablesSound
<1>12. \A c \in chunk' : RowSound(c, exec, B)
  BY <1>9, <1>10, <1>11
<1>13. e.data # << >> => \E c \in chunk' : IsRow(c, e.stream, e.sequence) /\ c.data = e.data
  <2> SUFFICES ASSUME e.data # << >> PROVE \E c \in chunk' : IsRow(c, e.stream, e.sequence) /\ c.data = e.data
    OBVIOUS
  <2>1. CASE \E c \in chunk : IsRow(c, e.stream, e.sequence)
    <3>1. PICK c \in chunk : IsRow(c, e.stream, e.sequence)
      BY <2>1
    <3>2. RowSound(c, exec, B) /\ RowSound(row, exec, B) /\ c.stream = row.stream /\ c.sequence = row.sequence
      BY <1>3, <1>9, <1>11, <3>1 DEF IsRow
    <3>3. c.data = row.data
      BY <3>2, RowsAgree
    <3> QED BY <1>3, <1>10, <3>1, <3>3
  <2>2. CASE ~(\E c \in chunk : IsRow(c, e.stream, e.sequence))
    BY <1>3, <1>5, <2>2 DEF IsRow
  <2> QED BY <2>1, <2>2
<1>14. \A f \in new : EventSound(f, exec, B)
  BY <1>1, <1>6, <1>7 DEF TablesSound
<1>15. Located(exec, new, chunk')
  <2> SUFFICES ASSUME NEW s \in Streams, NEW n \in 1..exec.sequence[s]
               PROVE  (\E f \in new : IsLog(f, s, n)) \/ \E c \in chunk' : IsRow(c, s, n)
    BY DEF Located
  <2>1. (\E f \in old : IsLog(f, s, n)) \/ \E c \in chunk : IsRow(c, s, n)
    BY <1>1, <1>6 DEF TablesSound, Located
  <2>2. IsLog(e, s, n) => \E c \in chunk' : IsRow(c, s, n)
    BY <1>9, <1>13 DEF IsLog
  <2> QED BY <1>7, <1>10, <2>1, <2>2
<1>16. NothingLost(exec, new, chunk')
  <2> SUFFICES ASSUME ~exec.failed, NEW i \in 1..Len(exec.accepted)
               PROVE  (\E s \in Streams : Holds(exec.buffer[s], exec.accepted[i])) \/ Recorded(exec.accepted[i], new, chunk')
    BY DEF NothingLost
  <2>1. (\E s \in Streams : Holds(exec.buffer[s], exec.accepted[i])) \/ Recorded(exec.accepted[i], old, chunk)
    BY <1>1, <1>6 DEF TablesSound, NothingLost
  <2>2. ASSUME Holds(e.data, exec.accepted[i]) PROVE \E c \in chunk' : Holds(c.data, exec.accepted[i])
    <3>1. e.data # << >>
      <4>1. \A j \in 1..Len(<< >>) : FALSE
        BY EmptySeq
      <4> QED BY <2>2, <4>1 DEF Holds
    <3> QED BY <1>13, <2>2, <3>1
  <2> QED BY <1>7, <1>10, <2>1, <2>2 DEF Recorded
<1>17. Ordered(outbox, inFlight')
  BY <1>1, <1>4 DEF TablesSound, Ordered
<1>18. /\ reader \in [Streams -> [last : Nat, seen : SUBSET chunk]]
       /\ \A r \in Streams : reader[r].last = 0 \/ \E d \in chunk : d.sequence = reader[r].last
       /\ ~disorder /\ exec.streamed =>
         /\ \A d \in chunk : \A n \in 1..(d.sequence - 1) : \E f \in chunk : IsRow(f, d.stream, n)
         /\ \A r \in Streams : \A n \in 1..reader[r].last : \E d \in reader[r].seen : d.sequence = n
  BY <1>1 DEF TablesSound, ReadSound
<1>19. reader \in [Streams -> [last : Nat, seen : SUBSET chunk']]
  <2>1. [last : Nat, seen : SUBSET chunk] \subseteq [last : Nat, seen : SUBSET chunk']
    BY <1>10
  <2> QED BY <1>18, <2>1
<1>20. ASSUME ~disorder', exec.streamed, NEW n \in 1..(e.sequence - 1), e.data # << >>
       PROVE  \E f \in chunk : IsRow(f, e.stream, n)
  <2>1. e.kind = "log" /\ ~Overtakes(e)
    BY <1>4, <1>9, <1>20
  <2>2. e.stream \in Streams /\ e.sequence \in 1..exec.sequence[e.stream]
    BY <1>8, <1>20, <2>1 DEF EventSound, RowSound
  <2>3. exec.sequence[e.stream] \in Nat
    BY <1>1, <2>2, ExecutorFields DEF ExecSound
  <2>4. n \in 1..exec.sequence[e.stream] /\ n < e.sequence /\ ~(e.sequence < n)
    BY <2>2, <2>3
  <2>5. (\E f \in old : IsLog(f, e.stream, n)) \/ \E c \in chunk : IsRow(c, e.stream, n)
    BY <1>1, <1>6, <2>2, <2>4 DEF TablesSound, Located
  <2>6. ASSUME NEW f \in old, IsLog(f, e.stream, n) PROVE FALSE
    <3>1. f \notin inFlight \cup givenUp
      BY <2>1, <2>4, <2>6 DEF Overtakes, IsLog
    <3>2. PICK j \in 1..Len(outbox) : f = outbox[j]
      BY <1>6, <3>1 DEF SentIn
    <3>3. Before(e, f)
      BY <1>1, <1>4, <3>2 DEF TablesSound, Ordered
    <3> QED BY <2>1, <2>4, <2>6, <3>3 DEF Before, IsLog
  <2> QED BY <2>5, <2>6
<1>21. ASSUME ~disorder', exec.streamed, NEW c \in chunk', NEW n \in 1..(c.sequence - 1)
       PROVE  \E f \in chunk' : IsRow(f, c.stream, n)
  <2>1. CASE c \in chunk
    BY <1>4, <1>10, <1>18, <1>21, <2>1
  <2>2. CASE c = row /\ e.data # << >>
    BY <1>3, <1>10, <1>20, <1>21, <2>2
  <2> QED BY <1>10, <2>1, <2>2
<1>22. ReadSound(exec, chunk', reader, disorder')
  BY <1>4, <1>10, <1>18, <1>19, <1>21 DEF ReadSound
<1>23. TablesSound(exec, B, outbox, inFlight', givenUp, chunk', reader, disorder')
  BY <1>6, <1>12, <1>14, <1>15, <1>16, <1>17, <1>22 DEF TablesSound
<1> QED BY <1>1, <1>4, <1>23 DEF LogsInv, LogsSound

\* Every step.
LEMMA LogsStep ==
    ASSUME LogsInv, [NextLogs]_logVars
    PROVE  LogsInv'
<1>1. ASSUME NEW s \in Streams, ReadLogs(s) PROVE LogsInv'
  BY <1>1, LogsReadStep
<1>2. ASSUME NEW s \in Streams, NEW k \in 1..MaxBytes, WriteOutput(s, k) PROVE LogsInv'
  BY <1>2, LogsWriteStep
<1>3. CASE ReceivePiece
  BY <1>3, LogsReceiveStep
<1>4. CASE FlushTick \/ FinishExecution
  BY <1>4, LogsFlushStep
<1>5. CASE ProcessExits \/ LoseExecutor
  BY <1>5, LogsExitStep
<1>6. CASE PublishLogEvent
  BY <1>6, LogsPublishStep
<1>7. ASSUME NEW e \in inFlight, GiveUpLogEvent(e) PROVE LogsInv'
  BY <1>7, LogsGiveUpStep
<1>8. ASSUME NEW e \in inFlight, NEW ok \in BOOLEAN, ApplyLogEvent(e, ok) PROVE LogsInv'
  BY <1>8, LogsApplyStep
<1>9. CASE UNCHANGED logVars
  BY <1>9 DEF LogsInv, logVars
<1> QED BY <1>1, <1>2, <1>3, <1>4, <1>5, <1>6, <1>7, <1>8, <1>9 DEF NextLogs

\* The invariant says what the runs check.
LEMMA LogsInvTypes == LogsInv => LogsTypeOK
<1> SUFFICES ASSUME LogsInv PROVE LogsTypeOK
  OBVIOUS
<1>1. PICK B \in Marks, L \in Levels(exec) :
        ExecSound(exec, B, L) /\ TablesSound(exec, B, outbox, inFlight, givenUp, chunk, reader, disorder)
  BY DEF LogsInv, LogsSound
<1>2. exec \in Executor /\ Len(exec.accepted) <= OutputLimit
  BY <1>1 DEF ExecSound
<1>3. Sent = SentIn(outbox, inFlight, givenUp)
  <2>1. outbox \in Seq(LogEvent)
    BY <1>1 DEF TablesSound, Ordered
  <2>2. DOMAIN outbox = 1..Len(outbox)
    BY <2>1, LenProperties
  <2> QED BY <2>2 DEF Sent, SentIn
<1>4. Sent \subseteq LogEvent
  BY <1>1, <1>3 DEF TablesSound, EventSound
<1>5. \A c \in chunk : Len(c.data) <= OutputLimit
  BY <1>1 DEF TablesSound, RowSound
<1>6. \A s \in Streams : reader[s].seen \subseteq chunk
  <2>1. reader \in [Streams -> [last : Nat, seen : SUBSET chunk]]
    BY <1>1 DEF TablesSound, ReadSound
  <2> QED BY <2>1
<1> QED BY <1>2, <1>4, <1>5, <1>6 DEF LogsTypeOK

\* In a log event of a stream that is UTF-8 only the first and the last
\* character can lose bytes, and the first only if another event comes before.
LEMMA CutsLose ==
    ASSUME NEW x, NEW B \in Marks, Marked(x, B), x.streamed, NEW c, RowSound(c, x, B), IsUTF8(c.stream)
    PROVE  c.lost \subseteq {Len(c.data)} \cup {i \in {1} : c.sequence > 1}
<1>1. PICK s \in Streams, d \in Seq(Byte), m \in Nat, q \in Nat :
        s = c.stream /\ d = c.data /\ m = Len(d) /\ q = c.sequence
  BY LenProperties DEF RowSound
<1>2. /\ DOMAIN d = 1..m /\ c.lost = LostBytes(d) /\ q \in 1..x.sequence[s]
      /\ \A k \in 1..m : d[k] = [stream |-> s, n |-> B[s][q - 1] + k]
  BY <1>1, LenProperties DEF RowSound, Follows
<1>3. q \in Nat /\ q - 1 \in Nat /\ ~(q > 1) => q - 1 = 0
  BY <1>2
<1>4. PICK a \in Nat : a = B[s][q - 1]
  <2>1. B[s] \in [Nat -> Nat]
    BY DEF Marks
  <2>2. q - 1 \in Nat
    BY <1>2
  <2> QED BY <2>1, <2>2
<1>5. q > 1 \/ a = 0
  <2>1. B[s][0] = 0
    BY DEF Marked
  <2>2. q > 1 \/ q - 1 = 0
    BY <1>2
  <2> QED BY <1>4, <2>1, <2>2
<1>6. ASSUME NEW k \in 1..m PROVE Kind(d[k]) = Text[s][a + k] /\ a + k \in 1..MaxBytes
  <2>1. d[k] \in Byte
    BY ElementOfSeq, <1>1
  <2>2. d[k] = [stream |-> s, n |-> a + k]
    BY <1>2, <1>4
  <2>3. d[k].stream = s /\ d[k].n = a + k
    BY <2>2
  <2>4. d[k].n \in 1..MaxBytes
    BY <2>1 DEF Byte
  <2> QED BY <2>3, <2>4 DEF Kind
<1>7. ASSUME NEW i \in c.lost PROVE i = m \/ (i = 1 /\ q > 1)
  <2>1. /\ i \in 1..m
        /\ \/ Kind(d[i]) = "lead" /\ (i + 1 \notin 1..m \/ Kind(d[i + 1]) # "trail")
           \/ Kind(d[i]) = "trail" /\ (i - 1 \notin 1..m \/ Kind(d[i - 1]) # "lead")
    BY <1>2 DEF LostBytes
  <2>2. /\ Text[s][a + i] = "lead" /\ a + i < MaxBytes => Text[s][a + i + 1] = "trail"
        /\ Text[s][a + i] = "trail" => a + i > 1 /\ Text[s][a + i - 1] = "lead"
    BY <1>1, <1>6, <2>1 DEF IsUTF8
  <2>3. Kind(d[i]) = Text[s][a + i] /\ a + i \in 1..MaxBytes
    BY <1>6, <2>1
  <2>4. CASE Kind(d[i]) = "lead"
    <3>1. ASSUME i + 1 \in 1..m PROVE Kind(d[i + 1]) = "trail"
      <4>1. Kind(d[i + 1]) = Text[s][a + (i + 1)] /\ a + (i + 1) \in 1..MaxBytes
        BY <1>6, <3>1
      <4>2. a + i < MaxBytes /\ a + (i + 1) = a + i + 1
        BY <2>1, <4>1, LogSizes
      <4> QED BY <2>2, <2>3, <2>4, <4>1, <4>2
    <3>2. i + 1 \notin 1..m
      BY <2>1, <2>4, <3>1
    <3> QED BY <2>1, <3>2
  <2>5. CASE Kind(d[i]) = "trail"
    <3>1. a + i > 1 /\ Text[s][a + i - 1] = "lead"
      BY <2>2, <2>3, <2>5
    <3>2. ASSUME i - 1 \in 1..m PROVE Kind(d[i - 1]) = "lead"
      <4>1. Kind(d[i - 1]) = Text[s][a + (i - 1)]
        BY <1>6, <3>2
      <4>2. a + (i - 1) = a + i - 1
        BY <2>1
      <4> QED BY <3>1, <4>1, <4>2
    <3>3. i - 1 \notin 1..m
      BY <2>1, <2>5, <3>2
    <3>4. i = 1
      BY <2>1, <3>3
    <3> QED BY <1>5, <3>1, <3>4
  <2> QED BY <2>1, <2>4, <2>5
<1> QED BY <1>1, <1>7

\* The invariant says what OutputComplete does.
LEMMA LogsInvComplete == LogsInv => OutputComplete
<1> SUFFICES ASSUME LogsInv PROVE OutputComplete
  OBVIOUS
<1>1. PICK B \in Marks, L \in Levels(exec) :
        ExecSound(exec, B, L) /\ TablesSound(exec, B, outbox, inFlight, givenUp, chunk, reader, disorder)
  BY DEF LogsInv, LogsSound
<1>2. exec \in Executor /\ exec.accepted \in Seq(Byte)
  BY <1>1, ExecutorFields DEF ExecSound
<1>3. \A c \in chunk : RowSound(c, exec, B)
  BY <1>1 DEF TablesSound
<1>4. PICK sent : sent = SentIn(outbox, inFlight, givenUp)
  OBVIOUS
<1>5. Sent = sent
  <2>1. outbox \in Seq(LogEvent)
    BY <1>1 DEF TablesSound, Ordered
  <2>2. DOMAIN outbox = 1..Len(outbox)
    BY <2>1, LenProperties
  <2> QED BY <1>4, <2>2 DEF Sent, SentIn
<1>6. \A e \in sent : e \in LogEvent
  BY <1>1, <1>4 DEF TablesSound, EventSound
<1>7. ASSUME exec.phase = "ended", ~exec.failed
      PROVE  /\ exec.exceeded \/ Len(exec.accepted) = exec.written["stdout"] + exec.written["stderr"]
             /\ \A i \in DOMAIN exec.accepted : \E d \in Kept : \E j \in DOMAIN d : d[j] = exec.accepted[i]
  <2>1. exec.pipe = << >> /\ \A s \in Streams : exec.buffer[s] = << >>
    BY <1>1, <1>7 DEF ExecSound
  <2>2. exec.exceeded \/ Len(exec.accepted) = exec.written["stdout"] + exec.written["stderr"]
    <3>1. L[0] = exec.written
      <4>1. Len(exec.pipe) = 0 /\ L[Len(exec.pipe)] = exec.written
        BY <1>1, <2>1, EmptySeq DEF ExecSound, Piped
      <4> QED BY <4>1
    <3>2. ~exec.exceeded => Len(exec.accepted) = L[0]["stdout"] + L[0]["stderr"]
      BY <1>1, <1>7 DEF ExecSound
    <3> QED BY <3>1, <3>2
  <2>3. ASSUME NEW i \in DOMAIN exec.accepted
        PROVE  \E d \in Kept : \E j \in DOMAIN d : d[j] = exec.accepted[i]
    <3>1. i \in 1..Len(exec.accepted)
      BY <1>2, LenProperties
    <3>2. (\E s \in Streams : Holds(exec.buffer[s], exec.accepted[i])) \/ Recorded(exec.accepted[i], sent, chunk)
      BY <1>1, <1>4, <1>7, <3>1 DEF TablesSound, NothingLost
    <3>3. \A s \in Streams : ~Holds(exec.buffer[s], exec.accepted[i])
      <4>1. \A j \in 1..Len(<< >>) : FALSE
        BY EmptySeq
      <4> QED BY <2>1, <4>1 DEF Holds
    <3>4. ASSUME NEW d \in Kept, d \in Seq(Byte), Holds(d, exec.accepted[i])
          PROVE  \E j \in DOMAIN d : d[j] = exec.accepted[i]
      <4>1. DOMAIN d = 1..Len(d)
        BY <3>4, LenProperties
      <4> QED BY <3>4, <4>1 DEF Holds
    <3>5. \A e \in sent : e.data \in Kept /\ e.data \in Seq(Byte)
      BY <1>5, <1>6 DEF Kept, LogEvent
    <3>6. \A c \in chunk : c.data \in Kept /\ c.data \in Seq(Byte)
      BY <1>3 DEF Kept, RowSound
    <3> QED BY <3>2, <3>3, <3>4, <3>5, <3>6 DEF Recorded
  <2> QED BY <2>2, <2>3
<1>8. ASSUME NEW c \in chunk, exec.streamed
      PROVE  /\ c.data[1].n = B[c.stream][c.sequence - 1] + 1
             /\ c.data[Len(c.data)].n = B[c.stream][c.sequence]
             /\ c.sequence \in Nat
  <2>1. /\ c.data \in Seq(Byte) /\ c.data # << >> /\ c.stream \in Streams
        /\ c.sequence \in 1..exec.sequence[c.stream]
        /\ Follows(c.data, c.stream, B[c.stream][c.sequence - 1])
        /\ Len(c.data) = B[c.stream][c.sequence] - B[c.stream][c.sequence - 1]
    BY <1>3, <1>8 DEF RowSound
  <2>2. PICK m \in Nat : m = Len(c.data) /\ m # 0
    BY <2>1, EmptySeq
  <2>3. 1 \in 1..m /\ m \in 1..m
    BY <2>2
  <2>4. c.sequence \in Nat /\ c.sequence - 1 \in Nat
    BY <2>1
  <2>5. PICK a \in Nat, b \in Nat : a = B[c.stream][c.sequence - 1] /\ b = B[c.stream][c.sequence]
    <3>1. B[c.stream] \in [Nat -> Nat]
      BY <2>1 DEF Marks
    <3> QED BY <2>4, <3>1
  <2>6. c.data[1] = [stream |-> c.stream, n |-> a + 1] /\ c.data[m] = [stream |-> c.stream, n |-> a + m]
    BY <2>1, <2>2, <2>3, <2>5 DEF Follows
  <2>7. c.data[1].n = a + 1 /\ c.data[m].n = a + m
    BY <2>6
  <2>8. a + m = b
    <3>1. m = b - a
      BY <2>1, <2>2, <2>5
    <3> QED BY <3>1
  <2> QED BY <2>2, <2>4, <2>5, <2>7, <2>8
<1>9. ASSUME NEW c \in chunk
      PROVE  /\ c.sequence = 1 => c.data[1].n = 1
             /\ \A d \in chunk : d.stream = c.stream /\ d.sequence = c.sequence + 1 =>
                                  d.data[1].n = c.data[Len(c.data)].n + 1
  <2>1. CASE exec.streamed
    <3>1. c.stream \in Streams
      BY <1>3 DEF RowSound
    <3>2. B[c.stream][0] = 0
      BY <1>1, <3>1 DEF ExecSound, Marked
    <3>3. c.sequence = 1 => c.data[1].n = 1
      <4>1. c.data[1].n = B[c.stream][c.sequence - 1] + 1
        BY <1>8, <2>1
      <4> QED BY <3>2, <4>1
    <3>4. ASSUME NEW d \in chunk, d.stream = c.stream, d.sequence = c.sequence + 1
          PROVE  d.data[1].n = c.data[Len(c.data)].n + 1
      <4>1. d.sequence - 1 = c.sequence
        BY <1>8, <2>1, <3>4
      <4>2. d.data[1].n = B[c.stream][c.sequence] + 1
        BY <1>8, <2>1, <3>4, <4>1
      <4>3. c.data[Len(c.data)].n = B[c.stream][c.sequence]
        BY <1>8, <2>1
      <4> QED BY <4>2, <4>3
    <3> QED BY <3>3, <3>4
  <2>2. CASE ~exec.streamed
    <3>1. \A d \in chunk : d.sequence = 3
      BY <1>3, <2>2 DEF RowSound
    <3> QED BY <3>1
  <2> QED BY <2>1, <2>2
<1>10. exec.exceeded => Len(exec.accepted) = OutputLimit
  BY <1>1 DEF ExecSound
<1>11. ~disorder => \A s \in Streams : \A n \in 1..reader[s].last :
                        (\E c \in reader[s].seen : c.sequence = n) \/ ~exec.streamed
  BY <1>1 DEF TablesSound, ReadSound
<1>12. OnlyCutsLose
  <2> SUFFICES ASSUME exec.streamed, NEW c \in chunk \cup {e \in Sent : e.kind = "log"}, IsUTF8(c.stream)
               PROVE  c.lost \subseteq {Len(c.data)} \cup {i \in {1} : c.sequence > 1}
    BY DEF OnlyCutsLose
  <2>1. RowSound(c, exec, B)
    BY <1>1, <1>3, <1>4, <1>5 DEF TablesSound, EventSound
  <2>2. Marked(exec, B)
    BY <1>1 DEF ExecSound
  <2> QED BY <2>1, <2>2, CutsLose
<1> QED BY <1>7, <1>9, <1>10, <1>11, <1>12
        DEF OutputComplete, OutputIsKept, ChunksContinue, LimitIsExact, ReaderMissesNothing

\* Everything has its type, and no more output is accepted than the limit.
THEOREM LogsTypeCorrect == SpecLogs => []LogsTypeOK
<1>1. SpecLogs => []LogsInv
  BY LogsInit, LogsStep, PTL DEF SpecLogs
<1> QED BY <1>1, LogsInvTypes, PTL

\* processExecutorChunk, the flushes and the at-least-once delivery of log
\* events keep the output of an attempt whole: below its limit nothing a
\* finished process wrote is lost, repeated or reordered, JSON replaces bytes of
\* UTF-8 output only in characters that were cut, and a reader of events applied
\* in order has missed no chunk.
THEOREM OutputAlwaysComplete == SpecLogs => []OutputComplete
<1>1. SpecLogs => []LogsInv
  BY LogsInit, LogsStep, PTL DEF SpecLogs
<1> QED BY <1>1, LogsInvComplete, PTL

-----------------------------------------------------------------------------
(* The parts together *)

\* Every behaviour of the parts together is one of each part.
LEMMA EstateParts ==
    Spec => /\ SpecFleet /\ SpecPools /\ SpecCapacity /\ SpecLeases /\ SpecLetters
            /\ SpecCatalog /\ SpecDelivery /\ SpecProjection /\ SpecLogs
<1>1. Init => /\ InitFleet /\ InitPools /\ InitCapacity /\ InitLeases /\ InitLetters
              /\ InitCatalog /\ InitDelivery /\ InitProjection /\ InitLogs
  BY DEF Init
<1>2. [Next]_estateVars => [NextFleet]_fleetVars
  BY DEF Next, estateVars
<1>3. [Next]_estateVars => [NextPools]_poolVars
  BY DEF Next, estateVars
<1>4. [Next]_estateVars => [NextCapacity]_capacityVars
  BY DEF Next, estateVars
<1>5. [Next]_estateVars => [NextLeases]_leaseVars
  BY DEF Next, estateVars
<1>6. [Next]_estateVars => [NextLetters]_letterVars
  BY DEF Next, estateVars
<1>7. [Next]_estateVars => [NextCatalog]_catalogVars
  BY DEF Next, estateVars
<1>8. [Next]_estateVars => [NextDelivery]_deliveryVars
  BY DEF Next, estateVars
<1>9. [Next]_estateVars => [NextProjection]_projectionVars
  BY DEF Next, estateVars
<1>10. [Next]_estateVars => [NextLogs]_logVars
  BY DEF Next, estateVars
<1> QED BY <1>1, <1>2, <1>3, <1>4, <1>5, <1>6, <1>7, <1>8, <1>9, <1>10, PTL
        DEF Spec, SpecFleet, SpecPools, SpecCapacity, SpecLeases, SpecLetters, SpecCatalog, SpecDelivery, SpecProjection, SpecLogs

\* Every table, request and history of the parts around the runs has its type
\* whichever part a behaviour follows.
THEOREM EstateTypeCorrect == Spec => []EstateTypeOK
BY EstateParts, FleetTypeCorrect, PoolsTypeCorrect, CapacityTypeCorrect, LeasesTypeCorrect, LettersTypeCorrect,
   CatalogTypeCorrect, DeliveryTypeCorrect, ProjectionTypeCorrect, LogsTypeCorrect, PTL
   DEF EstateTypeOK
=============================================================================
