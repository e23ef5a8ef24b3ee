------------------------------ MODULE RunLogs -------------------------------
(***************************************************************************)
(* The output of an attempt: the executor's pipe and buffers (worker/worker.go),*)
(* the log events the worker stores and sends (worker/runtime.go), the     *)
(* table execution_log_chunks and its readers (store/runs.go, api/runs.go).*)
(*                                                                         *)
(* A byte of output is named by its stream and its place in it.  The       *)
(* process writes pieces into a bounded channel; one goroutine takes them, *)
(* counts them against the output limit and flushes its buffers every ten  *)
(* seconds and at the end.  A write to the local store may fail at any     *)
(* time; a published event is delivered at least once, in any order, or    *)
(* given up as a dead letter.                                              *)
(*                                                                         *)
(* An event carries its output as a JSON string, in which each byte that is*)
(* not part of a UTF-8 character of that same string is replaced.  The text*)
(* of a stream is given by what its bytes are; characters of two bytes     *)
(* stand for the longer ones.                                              *)
(***************************************************************************)
EXTENDS Integers, Sequences, FiniteSets

CONSTANTS
    MaxBytes,     \* bound: bytes a process writes
    ChannelSize,  \* pieces the channel holds (32)
    OutputLimit,  \* MaxOutputBytes
    ChunkBytes,   \* maxEventLogChunkBytes
    ReadLimit,    \* MaxRunLogChunksPerRead
    Text,         \* what the bytes of a stream are, in the order they are written
    Postgres      \* the database is PostgreSQL, not SQLite

Streams == {"stdout", "stderr"}

\* a character of one byte, NUL, and the two bytes of a longer one
ByteKinds == {"plain", "nul", "lead", "trail"}

ASSUME RunLogsAssumption ==
    /\ {MaxBytes, ChannelSize, OutputLimit, ChunkBytes, ReadLimit} \subseteq Nat \ {0}
    /\ Text \in [Streams -> [1..MaxBytes -> ByteKinds]] /\ Postgres \in BOOLEAN

VARIABLES
    exec,      \* the attempt's process and executor
    outbox,    \* its events in the worker's store, in creation order
    inFlight,  \* events in the stream
    chunk,     \* execution_log_chunks
    givenUp,   \* history: events that became dead letters
    reader,    \* a reader of each stream
    disorder   \* history: an event was applied out of order

logVars == <<exec, outbox, inFlight, chunk, givenUp, reader, disorder>>

Byte == [stream : Streams, n : 1..MaxBytes]
Bytes(s, from, to) == [i \in 1..(to - from + 1) |-> [stream |-> s, n |-> from + i - 1]]
Kind(b) == Text[b.stream][b.n]
LogEvent == [kind : {"log", "end"}, stream : Streams,
             sequence : Nat \ {0}, data : Seq(Byte), lost : SUBSET Nat]

\* accepted: boundedBuffer; failed: callbackErr
Executor == [phase : {"running", "exited", "ended", "crashed"},
             written : [Streams -> 0..MaxBytes], pipe : Seq([stream : Streams, data : Seq(Byte)]),
             accepted : Seq(Byte), exceeded : BOOLEAN, stopped : BOOLEAN, failed : BOOLEAN,
             buffer : [Streams -> Seq(Byte)], sequence : [Streams -> Nat], streamed : BOOLEAN]
NewExecutor == [phase |-> "running", written |-> [s \in Streams |-> 0], pipe |-> << >>,
                accepted |-> << >>, exceeded |-> FALSE, stopped |-> FALSE, failed |-> FALSE,
                buffer |-> [s \in Streams |-> << >>], sequence |-> [s \in Streams |-> 0], streamed |-> FALSE]

InitLogs ==
    /\ exec = NewExecutor /\ outbox = << >>
    /\ inFlight = {} /\ chunk = {} /\ givenUp = {}
    /\ reader = [s \in Streams |-> [last |-> 0, seen |-> {}]]
    /\ disorder = FALSE

-----------------------------------------------------------------------------
(* The executor *)

\* executorStreamWriter.Write: blocks while the channel is full, fails once stopped
WriteOutput(s, k) ==
    /\ exec.phase = "running" /\ ~exec.stopped
    /\ Len(exec.pipe) < ChannelSize /\ exec.written["stdout"] + exec.written["stderr"] + k <= MaxBytes
    /\ exec' = [exec EXCEPT !.written[s] = @ + k,
                            !.pipe = Append(@, [stream |-> s, data |-> Bytes(s, exec.written[s] + 1, exec.written[s] + k)])]
    /\ UNCHANGED <<outbox, inFlight, chunk, givenUp, reader, disorder>>

\* processExecutorChunk: what fits below the limit is kept, and the process is
\* stopped when something does not
ProcessExecutorChunk(x, piece) ==
    LET room == OutputLimit - Len(x.accepted)
        over == Len(piece.data) > room
        kept == IF over THEN SubSeq(piece.data, 1, room) ELSE piece.data IN
    IF x.stopped THEN x
    ELSE [x EXCEPT !.accepted = @ \o kept, !.buffer[piece.stream] = @ \o kept,
                   !.exceeded = over, !.stopped = over]

ReceivePiece ==
    /\ exec.phase \in {"running", "exited"} /\ exec.pipe # << >>
    /\ exec' = [ProcessExecutorChunk(exec, Head(exec.pipe)) EXCEPT !.pipe = Tail(@)]
    /\ UNCHANGED <<outbox, inFlight, chunk, givenUp, reader, disorder>>

\* encodePayloadFrame: the places of data where json.Marshal puts U+FFFD for a
\* byte that does not belong to a character of this string
LostBytes(data) ==
    {i \in DOMAIN data :
        \/ Kind(data[i]) = "lead" /\ (i + 1 \notin DOMAIN data \/ Kind(data[i + 1]) # "trail")
        \/ Kind(data[i]) = "trail" /\ (i - 1 \notin DOMAIN data \/ Kind(data[i - 1]) # "lead")}

Parts(data) == (Len(data) + ChunkBytes - 1) \div ChunkBytes
Part(data, i) ==
    SubSeq(data, (i - 1) * ChunkBytes + 1, IF i * ChunkBytes < Len(data) THEN i * ChunkBytes ELSE Len(data))

\* persistOutputChunks stores the first k parts of what is buffered, and fails
\* at the next one if there is one
Events(x, s, k) ==
    [i \in 1..k |-> [kind |-> "log", stream |-> s,
                     sequence |-> x.sequence[s] + i, data |-> Part(x.buffer[s], i),
                     lost |-> LostBytes(Part(x.buffer[s], i))]]

\* flushExecutorBuffer's condition
ToFlush(x, s) == IF x.failed THEN 0 ELSE Parts(x.buffer[s])

FlushExecutorBuffer(x, s, k) ==
    IF x.failed THEN x
    ELSE [x EXCEPT !.buffer[s] = << >>, !.sequence[s] = @ + k, !.streamed = @ \/ k > 0,
                   !.failed = k < Parts(x.buffer[s]), !.stopped = @ \/ k < Parts(x.buffer[s])]

\* flushExecutorBuffers: stdout, then stderr unless that failed; the ways it may go
FlushExecutorBuffers(x) ==
    UNION {LET y == FlushExecutorBuffer(x, "stdout", k) IN
           {[exec |-> FlushExecutorBuffer(y, "stderr", j),
             events |-> Events(x, "stdout", k) \o Events(y, "stderr", j)] : j \in 0..ToFlush(y, "stderr")}
              : k \in 0..ToFlush(x, "stdout")}

SetExecutor(x, events) ==
    /\ exec' = x
    /\ outbox' = outbox \o events

FlushTick ==
    /\ exec.phase = "running"
    /\ \E s \in Streams : ToFlush(exec, s) > 0
    /\ \E f \in FlushExecutorBuffers(exec) : SetExecutor(f.exec, f.events)
    /\ UNCHANGED <<inFlight, chunk, givenUp, reader, disorder>>

\* cmd.Wait returns when the process is gone and its output copied
ProcessExits ==
    /\ exec.phase = "running"
    /\ exec' = [exec EXCEPT !.phase = "exited"]
    /\ UNCHANGED <<outbox, inFlight, chunk, givenUp, reader, disorder>>

\* finishExecution: the output goes with the terminal event if none was streamed
TerminalResult(x) == IF x.streamed THEN << >> ELSE x.accepted

EndExecutor(x, events) ==
    SetExecutor([x EXCEPT !.phase = "ended"],
                Append(events, [kind |-> "end", stream |-> "stdout", sequence |-> 3,
                                data |-> TerminalResult(x), lost |-> LostBytes(TerminalResult(x))]))

FinishUndrained ==
    /\ exec.phase = "exited"
    /\ \E f \in FlushExecutorBuffers(exec) : EndExecutor(f.exec, f.events)
    /\ UNCHANGED <<inFlight, chunk, givenUp, reader, disorder>>

\* drainExecutorChunks has emptied the channel, flushes and returns
FinishExecution ==
    /\ exec.phase = "exited" /\ exec.pipe = << >>
    /\ \E f \in FlushExecutorBuffers(exec) : EndExecutor(f.exec, f.events)
    /\ UNCHANGED <<inFlight, chunk, givenUp, reader, disorder>>

\* The worker stops, or cannot store the terminal event.
LoseExecutor ==
    /\ exec.phase \in {"running", "exited"}
    /\ exec' = [exec EXCEPT !.phase = "crashed"]
    /\ UNCHANGED <<outbox, inFlight, chunk, givenUp, reader, disorder>>

-----------------------------------------------------------------------------
(* Delivery *)

\* PublishPendingEvents
PublishLogEvent ==
    /\ outbox # << >>
    /\ inFlight' = inFlight \cup {Head(outbox)}
    /\ outbox' = Tail(outbox)
    /\ UNCHANGED <<exec, chunk, givenUp, reader, disorder>>

\* INSERT INTO execution_log_chunks ... ON CONFLICT DO NOTHING
StoreChunk(e) ==
    LET row == [stream |-> e.stream, sequence |-> e.sequence, data |-> e.data, lost |-> e.lost]
        taken == \E c \in chunk : c.stream = row.stream /\ c.sequence = row.sequence IN
    chunk' = IF e.data = << >> \/ taken THEN chunk ELSE chunk \cup {row}

\* an event of its stream that was published before it has not been applied
Overtakes(e) == \E f \in inFlight \cup givenUp : f.stream = e.stream /\ f.sequence < e.sequence

HasNul(data) == \E i \in DOMAIN data : Kind(data[i]) = "nul"

\* ApplyRunEvent; without its acknowledgement the event comes again and
\* event_inbox ignores it.  PostgreSQL has no jsonb for a terminal event whose
\* result has a NUL: the event fails as often as it comes.
ApplyLogEvent(e, acknowledged) ==
    /\ e \in inFlight
    /\ ~(Postgres /\ e.kind = "end" /\ HasNul(e.data))
    /\ StoreChunk(e)
    /\ inFlight' = IF acknowledged THEN inFlight \ {e} ELSE inFlight
    /\ disorder' = (disorder \/ Overtakes(e))
    /\ UNCHANGED <<exec, outbox, givenUp, reader>>

GiveUpLogEvent(e) ==
    /\ e \in inFlight
    /\ inFlight' = inFlight \ {e} /\ givenUp' = givenUp \cup {e}
    /\ UNCHANGED <<exec, outbox, chunk, reader, disorder>>

-----------------------------------------------------------------------------
(* Reading *)

\* the rows of every attempt of the run, this one's among them
ListLogChunks(s, after) == {c \in chunk : c.stream = s /\ c.sequence > after}

\* convert_from(payload, 'UTF8') fails, and the whole query with it, on a NUL
ConvertFails(rows) == Postgres /\ \E c \in rows : HasNul(c.data)

\* repositoryLogsResponse, asked for what comes after the last sequence read
ReadLogs(s) ==
    LET rows == ListLogChunks(s, reader[s].last) IN
    /\ rows # {} /\ Cardinality(rows) <= ReadLimit /\ ~ConvertFails(rows)
    /\ \E last \in {c.sequence : c \in rows} :
        /\ \A c \in rows : c.sequence <= last
        /\ reader' = [reader EXCEPT ![s] = [last |-> last, seen |-> @.seen \cup rows]]
    /\ UNCHANGED <<exec, outbox, inFlight, chunk, givenUp, disorder>>

-----------------------------------------------------------------------------

NextLogs ==
    \/ \E s \in Streams : ReadLogs(s) \/ \E k \in 1..MaxBytes : WriteOutput(s, k)
    \/ ReceivePiece
    \/ FlushTick
    \/ ProcessExits
    \/ FinishExecution
    \/ LoseExecutor
    \/ PublishLogEvent
    \/ \E e \in inFlight : GiveUpLogEvent(e) \/ \E ok \in BOOLEAN : ApplyLogEvent(e, ok)

SpecLogs == InitLogs /\ [][NextLogs]_logVars

-----------------------------------------------------------------------------
(* Properties *)

Sent == {outbox[i] : i \in DOMAIN outbox} \cup inFlight \cup givenUp

\* Everything has its type, and the accepted output never exceeds its limit.
LogsTypeOK ==
    /\ exec \in Executor /\ Len(exec.accepted) <= OutputLimit
    /\ Sent \subseteq LogEvent
    /\ \A c \in chunk : Len(c.data) <= OutputLimit
    /\ \A s \in Streams : reader[s].seen \subseteq chunk

\* Where output may be found again.
Kept == {e.data : e \in Sent} \cup {c.data : c \in chunk}

\* An attempt that ended without a failed write lost nothing the process wrote
\* below the limit: every byte has its place in an event still under way or in
\* a stored chunk, whatever was in the channel or in a buffer when the process
\* exited.
OutputIsKept ==
    exec.phase = "ended" /\ ~exec.failed =>
        /\ exec.exceeded \/ Len(exec.accepted) = exec.written["stdout"] + exec.written["stderr"]
        /\ \A i \in DOMAIN exec.accepted : \E d \in Kept : \E j \in DOMAIN d : d[j] = exec.accepted[i]

\* The text of a stream is UTF-8.
IsUTF8(s) ==
    \A n \in 1..MaxBytes :
        /\ Text[s][n] = "lead" /\ n < MaxBytes => Text[s][n + 1] = "trail"
        /\ Text[s][n] = "trail" => n > 1 /\ Text[s][n - 1] = "lead"

\* If the process writes UTF-8, a byte is replaced on its way through JSON only
\* where a flush, the size of an event or the output limit cut its character:
\* at the start of an event that is not the stream's first or at an event's end.
\* Output streamed while the process runs never mixes the two streams.
OnlyCutsLose ==
    exec.streamed =>
        \A c \in chunk \cup {e \in Sent : e.kind = "log"} :
            IsUTF8(c.stream) => c.lost \subseteq {Len(c.data)} \cup {i \in {1} : c.sequence > 1}

\* Two stored chunks of a stream with consecutive sequences continue each
\* other, and the first begins with the first byte: redelivered, late and
\* interleaved events never repeat or reorder output.
ChunksContinue ==
    \A c \in chunk :
        /\ c.sequence = 1 => c.data[1].n = 1
        /\ \A d \in chunk : d.stream = c.stream /\ d.sequence = c.sequence + 1 =>
                             d.data[1].n = c.data[Len(c.data)].n + 1

\* A process that was stopped for its output had its whole allowance stored or
\* sent: the limit cuts the output exactly, whatever the sizes of the pieces.
LimitIsExact == exec.exceeded => Len(exec.accepted) = OutputLimit

\* A reader of a stream whose events were applied in order has read
\* every chunk up to the last sequence it saw.
ReaderMissesNothing ==
    ~disorder =>
        \A s \in Streams : \A n \in 1..reader[s].last :
            (\E c \in reader[s].seen : c.sequence = n) \/ ~exec.streamed

\* What a process wrote is kept up to its limit and read back in order.
OutputComplete == OutputIsKept /\ OnlyCutsLose /\ ChunksContinue /\ LimitIsExact /\ ReaderMissesNothing
=============================================================================
