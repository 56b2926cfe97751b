---------------------------- MODULE ResponseStream ----------------------------
(***************************************************************************)
(* How the body of one response reaches Python: read_limit takes the first *)
(* chunks, a reader task batches the rest into a channel of two, and the   *)
(* calls bytes(), read() and read_chunk() drain it one at a time, under    *)
(* the lock of the body reader or the borrow of the response               *)
(* (body_reader.rs, response_body_reader.rs, response.rs,                  *)
(* stream_request.rs).                                                     *)
(*                                                                         *)
(* A byte is its position in the body, so a chunk is a run of positions,   *)
(* and losing, repeating or reordering data shows.                         *)
(***************************************************************************)
EXTENDS Naturals, FiniteSets, SequencesExt

CONSTANTS
    Tasks,      \* Python tasks that read the response
    Exit,       \* the task that leaves the `async with` block
    BodyLen,    \* bytes the server sends
    MaxFrame,   \* largest data frame reqwest hands out
    Limits,     \* read buffer limits, NoLimit standing for FullyConsumed
    NoLimit,
    Amounts,    \* what read(amount) is called with
    Nothing,    \* Option::None of a cached body
    Worlds      \* the sets of disturbances that a run may have to live with

ASSUME TasksAssumption == Exit \notin Tasks
ASSUME SizesAssumption ==
    /\ BodyLen \in Nat /\ MaxFrame \in Nat \ {0}
    /\ Amounts \subseteq Nat
    /\ NoLimit \notin Nat /\ Limits \subseteq Nat \cup {NoLimit}
ASSUME WorldsAssumption == Worlds \subseteq SUBSET {"fail", "cancel", "exit", "drop"}

Body == [i \in 1..BodyLen |-> i]

ChannelSize == 2    \* mpsc::channel(2)

VARIABLES
    limit,      \* the buffer limit of this response
    world,      \* what may go wrong around it, fixed from the start
    arrived,    \* bytes reqwest has handed out
    phase,      \* "head" while read_limit runs, then "body"; "failed", "gone"
    pending,    \* pending_chunks, oldest first
    rstate,     \* the reader task
    buffer,     \* the batch it is filling
    outbox,     \* the message it is sending: at most one
    channel,    \* messages in the channel, oldest first
    token,      \* close_token has been cancelled
    rxAlive,    \* the Receiver exists
    handle,     \* the reader has moved to a Python BodyReader object
    borrower,   \* the tasks inside resp.bytes(): at most one
    lockQ,      \* the mutex of the reader: its owner, then who waits for it
    call,       \* the call each task is in
    running,    \* calls that own the reader and are past their entry checks
    got,        \* what its call has collected so far
    cancelled,  \* tasks whose CancelHandle has been triggered
    cache,      \* fully_consumed_body
    readBytes,  \* read_bytes
    exit,       \* how far the end of the `async with` block has got
    taken,      \* (history) bytes that finished calls took off the pipeline
    out,        \* (history) bytes handed to callers by read() and read_chunk()
    sawEnd      \* (history) some call was told that the stream is exhausted

setup == <<limit, world>>
readerVars == <<rstate, buffer, outbox>>
accessVars == <<handle, borrower, lockQ, call, running, cancelled, exit>>
dataVars == <<pending, got, cache, readBytes, taken, out, sawEnd>>
vars == <<setup, arrived, phase, pending, rstate, buffer, outbox, channel, token,
          rxAlive, handle, borrower, lockQ, call, running, got, cancelled, cache,
          readBytes, exit, taken, out, sawEnd>>

Idle == [op |-> "idle", amount |-> 0]
Calls ==
    [op : {"bytes", "chunk"}, amount : {0}] \cup [op : {"read"}, amount : Amounts]

Chunks == Seq(Seq(1..BodyLen))
Data(chunks) == [ok |-> TRUE, chunks |-> chunks]
Failure == [ok |-> FALSE, chunks |-> <<>>]
Messages == {Failure} \cup {Data(c) : c \in Chunks}

Flat(chunks) == FlattenSeq(chunks)
Size(chunks) == Len(Flat(chunks))

Init ==
    /\ limit \in Limits
    /\ world \in Worlds
    /\ arrived = 0
    /\ phase = "head"
    /\ pending = <<>>
    /\ rstate = "none" /\ buffer = <<>> /\ outbox = <<>>
    /\ channel = <<>> /\ token = FALSE /\ rxAlive = FALSE
    /\ handle = FALSE /\ borrower = {} /\ lockQ = <<>>
    /\ call = [t \in Tasks |-> Idle] /\ running = {}
    /\ got = [t \in Tasks |-> <<>>]
    /\ cancelled = {}
    /\ cache = Nothing /\ readBytes = 0
    /\ exit = "open"
    /\ taken = 0 /\ out = <<>> /\ sawEnd = FALSE

------------------------------------------------------------------------------
\* read_limit and BodyReader::initialize.

\* The next data frame of n bytes.
Frame(n) == SubSeq(Body, arrived + 1, arrived + n)
FrameSizes == {n \in 1..MaxFrame : arrived + n <= BodyLen}

\* initialize starts the reader task when read_limit stopped early.
StartReader == phase' = "body" /\ rstate' = "reading" /\ rxAlive' = TRUE
NoReader == phase' = "body" /\ UNCHANGED <<rstate, rxAlive>>

\* A limit of 0 reads nothing ahead.
SkipReadAhead ==
    /\ phase = "head" /\ limit = 0
    /\ StartReader
    /\ UNCHANGED <<setup, arrived, buffer, outbox, channel, token>>
    /\ UNCHANGED <<accessVars, dataVars>>

ReadAhead(n) ==
    /\ phase = "head" /\ limit # 0
    /\ pending' = Append(pending, Frame(n))
    /\ arrived' = arrived + n
    /\ IF limit # NoLimit /\ arrived + n >= limit
         THEN StartReader ELSE UNCHANGED <<phase, rstate, rxAlive>>
    /\ UNCHANGED <<setup, buffer, outbox, channel, token, accessVars>>
    /\ UNCHANGED <<got, cache, readBytes, taken, out, sawEnd>>

ReadAheadEnds ==
    /\ phase = "head" /\ limit # 0
    /\ arrived = BodyLen
    /\ NoReader
    /\ UNCHANGED <<setup, arrived, buffer, outbox, channel, token>>
    /\ UNCHANGED <<accessVars, dataVars>>

ReadAheadFails ==
    /\ "fail" \in world
    /\ phase = "head" /\ limit # 0
    /\ phase' = "failed"
    /\ UNCHANGED <<setup, arrived, readerVars, channel, token, rxAlive>>
    /\ UNCHANGED <<accessVars, dataVars>>

------------------------------------------------------------------------------
\* The reader task.

\* A frame goes into the batch; a batch that has reached the limit is sent.
ReaderFrame(n) ==
    /\ rstate = "reading"
    /\ arrived' = arrived + n
    /\ LET batch == Append(buffer, Frame(n)) IN
         IF Size(batch) < limit
           THEN buffer' = batch /\ UNCHANGED <<rstate, outbox>>
           ELSE /\ buffer' = <<>> /\ outbox' = <<Data(batch)>>
                /\ rstate' = "sending"
    /\ UNCHANGED <<setup, phase, channel, token, rxAlive, accessVars, dataVars>>

\* The body is over: finalize sends what is left.
ReaderEnds ==
    /\ rstate = "reading" /\ arrived = BodyLen
    /\ IF buffer = <<>>
         THEN rstate' = "ended" /\ UNCHANGED <<buffer, outbox>>
         ELSE rstate' = "finishing" /\ outbox' = <<Data(buffer)>> /\ buffer' = <<>>
    /\ UNCHANGED <<setup, arrived, phase, channel, token, rxAlive>>
    /\ UNCHANGED <<accessVars, dataVars>>

\* The body fails: the error is sent, the unfinished batch is not.
ReaderFails ==
    /\ "fail" \in world
    /\ rstate = "reading"
    /\ rstate' = "finishing" /\ outbox' = <<Failure>> /\ buffer' = <<>>
    /\ UNCHANGED <<setup, arrived, phase, channel, token, rxAlive>>
    /\ UNCHANGED <<accessVars, dataVars>>

\* tx.send waits for room in the channel.

\* A wrong channel: it is unbounded.
ReaderSendsAlways ==
    /\ outbox # <<>> /\ rxAlive
    /\ channel' = channel \o outbox /\ outbox' = <<>>
    /\ rstate' = IF rstate = "sending" THEN "reading" ELSE "ended"
    /\ UNCHANGED <<setup, arrived, phase, buffer, token, rxAlive>>
    /\ UNCHANGED <<accessVars, dataVars>>

ReaderSends ==
    /\ outbox # <<>> /\ rxAlive
    /\ Len(channel) < ChannelSize
    /\ channel' = channel \o outbox /\ outbox' = <<>>
    /\ rstate' = IF rstate = "sending" THEN "reading" ELSE "ended"
    /\ UNCHANGED <<setup, arrived, phase, buffer, token, rxAlive>>
    /\ UNCHANGED <<accessVars, dataVars>>

\* The reader gives up: its receiver is gone, or its token is cancelled
\* (select! drops the future with everything it holds).
ReaderStops ==
    /\ rstate' = "ended" /\ buffer' = <<>> /\ outbox' = <<>>
    /\ UNCHANGED <<setup, arrived, phase, channel, token, rxAlive>>
    /\ UNCHANGED <<accessVars, dataVars>>

ReaderSendFails == outbox # <<>> /\ ~rxAlive /\ ReaderStops

\* A wrong select!: the token is looked at between messages only.
ReaderSeesTokenLate == token /\ rstate = "reading" /\ ReaderStops
ReaderSeesToken ==
    token /\ rstate \in {"reading", "sending", "finishing"} /\ ReaderStops

------------------------------------------------------------------------------
\* Getting at the reader.

BodyTaken == exit \in {"locking", "closed", "cancelled"}

\* response.body_reader moves the reader into an object of its own.
TakeHandle ==
    /\ phase = "body" /\ ~handle
    /\ borrower = {} /\ ~BodyTaken
    /\ handle' = TRUE
    /\ UNCHANGED <<setup, arrived, phase, readerVars, channel, token, rxAlive>>
    /\ UNCHANGED <<borrower, lockQ, call, running, cancelled, exit, dataVars>>

StartCall(t, c) ==
    /\ phase = "body" /\ call[t] = Idle
    /\ call' = [call EXCEPT ![t] = c]
    /\ lockQ' = Append(lockQ, t)
    /\ UNCHANGED <<setup, arrived, phase, readerVars, channel, token, rxAlive>>
    /\ UNCHANGED <<handle, running, cancelled, exit, dataVars>>

\* bytes(), json() and text() of the response borrow it until they return; a
\* second borrow raises, and so does a call after the body was taken.
CallResponse(t) ==
    /\ borrower = {} /\ ~BodyTaken
    /\ borrower' = {t}
    /\ StartCall(t, [op |-> "bytes", amount |-> 0])

\* The calls of the body reader object queue for its mutex.
CallReader(t, c) == handle /\ StartCall(t, c) /\ UNCHANGED borrower

Owns(t) == lockQ # <<>> /\ Head(lockQ) = t

\* The task is cancelled; only a receive under way looks at the handle.
Cancel(t) ==
    /\ "cancel" \in world
    /\ call[t] # Idle /\ t \notin cancelled
    /\ cancelled' = cancelled \cup {t}
    /\ UNCHANGED <<setup, arrived, phase, readerVars, channel, token, rxAlive>>
    /\ UNCHANGED <<handle, borrower, lockQ, call, running, exit, dataVars>>

------------------------------------------------------------------------------
\* The calls.

Return(t) ==
    /\ call' = [call EXCEPT ![t] = Idle]
    /\ running' = running \ {t}
    /\ borrower' = borrower \ {t}
    /\ lockQ' = Tail(lockQ)
    /\ cancelled' = cancelled \ {t}
    /\ UNCHANGED <<handle, exit>>

\* Nothing to read: a cached body, a body already consumed, or read(0).

\* A wrong check: bytes() does not ask whether some of the body was read.
NeedsNoDataUnchecked(t) ==
    \/ call[t].op = "bytes" /\ cache # Nothing
    \/ call[t].op = "read" /\ call[t].amount = 0
NeedsNoData(t) ==
    \/ call[t].op = "bytes" /\ (cache # Nothing \/ readBytes > 0)
    \/ call[t].op = "read" /\ call[t].amount = 0

ReturnAtOnce(t) ==
    /\ Owns(t) /\ t \notin running
    /\ NeedsNoData(t)
    /\ Return(t)
    /\ UNCHANGED <<setup, arrived, phase, readerVars, channel, token, rxAlive>>
    /\ UNCHANGED dataVars

Begin(t) ==
    /\ Owns(t) /\ t \notin running
    /\ ~NeedsNoData(t)
    /\ running' = running \cup {t}
    /\ UNCHANGED <<setup, arrived, phase, readerVars, channel, token, rxAlive>>
    /\ UNCHANGED <<handle, borrower, lockQ, call, cancelled, exit, dataVars>>

Runs(t) == Owns(t) /\ t \in running

\* The call ends and `bytes` of its data reach the caller.
Deliver(t, bytes) ==
    /\ out' = out \o bytes
    /\ readBytes' = readBytes + Len(bytes)
    /\ taken' = taken + Len(bytes)
    /\ got' = [got EXCEPT ![t] = <<>>]
    /\ UNCHANGED <<cache, sawEnd>>

\* The call ends with an error: what it had collected is dropped with it.
Lose(t) ==
    /\ taken' = taken + Len(got[t])
    /\ got' = [got EXCEPT ![t] = <<>>]
    /\ UNCHANGED <<cache, readBytes, out, sawEnd, pending>>

\* What read_next can return without waiting: the pending chunks, or else the
\* batch at the head of the channel (a Failure carries none).
NextChunks ==
    IF pending # <<>> THEN pending
    ELSE IF channel # <<>> THEN Head(channel).chunks ELSE <<>>

\* How much of a chunk the call can use.
Usable(t, chunk) ==
    IF call[t].op = "read" /\ call[t].amount - Len(got[t]) < Len(chunk)
      THEN call[t].amount - Len(got[t]) ELSE Len(chunk)

\* The rest of a chunk goes back to the front of the pending ones.

\* A wrong push: it goes to the back.
PutBehind(chunk, n, rest) ==
    IF n = Len(chunk) THEN rest ELSE Append(rest, SubSeq(chunk, n + 1, Len(chunk)))
PutBack(chunk, n, rest) ==
    IF n = Len(chunk) THEN rest ELSE <<SubSeq(chunk, n + 1, Len(chunk))>> \o rest

TakeChunk(t) ==
    /\ Runs(t) /\ NextChunks # <<>>
    /\ channel' = IF pending = <<>> THEN Tail(channel) ELSE channel
    /\ LET first == Head(NextChunks)
           n == Usable(t, first)
           all == got[t] \o SubSeq(first, 1, n)
       IN /\ pending' = PutBack(first, n, Tail(NextChunks))
          /\ IF call[t].op = "chunk" \/ (call[t].op = "read" /\ Len(all) = call[t].amount)
               THEN Return(t) /\ Deliver(t, all)
               ELSE /\ got' = [got EXCEPT ![t] = all]
                    /\ UNCHANGED <<accessVars, cache, readBytes, taken, out, sawEnd>>
    /\ UNCHANGED <<setup, arrived, phase, readerVars, token, rxAlive>>

\* read_next returns None: there is no receiver, or its sender has gone.
TakeEnd(t) ==
    /\ Runs(t) /\ NextChunks = <<>>
    /\ channel = <<>> /\ rstate \in {"none", "ended"}
    /\ Return(t)
    /\ \/ /\ call[t].op = "bytes"
          /\ cache' = got[t] /\ readBytes' = Len(got[t])
          /\ taken' = taken + Len(got[t])
          /\ got' = [got EXCEPT ![t] = <<>>]
          /\ UNCHANGED <<out, sawEnd>>
       \/ call[t].op = "read" /\ got[t] # <<>> /\ Deliver(t, got[t])
       \/ /\ call[t].op # "bytes" /\ got[t] = <<>>
          /\ sawEnd' = TRUE
          /\ UNCHANGED <<got, cache, readBytes, taken, out>>
    /\ UNCHANGED <<setup, arrived, phase, pending, readerVars, channel, token, rxAlive>>

\* read_next returns the error of the body.
TakeFailure(t) ==
    /\ Runs(t) /\ NextChunks = <<>> /\ channel # <<>>
    /\ channel' = Tail(channel)
    /\ Return(t) /\ Lose(t)
    /\ UNCHANGED <<setup, arrived, phase, readerVars, token, rxAlive>>

\* select! in read_next sees the cancellation, data waiting or not.

\* A wrong select!: the receive wins as long as its sender is alive.
TakeCancelAtEnd(t) ==
    /\ Runs(t) /\ t \in cancelled
    /\ pending = <<>> /\ rstate = "ended"
    /\ Return(t) /\ Lose(t)
    /\ UNCHANGED <<setup, arrived, phase, readerVars, channel, token, rxAlive>>
TakeCancel(t) ==
    /\ Runs(t) /\ t \in cancelled
    /\ pending = <<>> /\ rstate # "none"
    /\ Return(t) /\ Lose(t)
    /\ UNCHANGED <<setup, arrived, phase, readerVars, channel, token, rxAlive>>

------------------------------------------------------------------------------
\* The end of the `async with` block, and the end of the objects.

\* The Receiver is dropped, the chunks and messages it kept with it.
DropReceiver ==
    /\ phase' = "gone"
    /\ rxAlive' = FALSE
    /\ channel' = <<>> /\ pending' = <<>>

HasReceiver == rstate # "none"

\* __aexit__ takes the response out of the request first, and only then asks
\* for its borrow: when a call holds it, the error leaves the stream open and
\* no second __aexit__ can find it.
ExitFindsBorrow ==
    /\ "exit" \in world /\ phase = "body"
    /\ exit = "open" /\ borrower # {}
    /\ exit' = "busy"
    /\ UNCHANGED <<setup, arrived, phase, readerVars, channel, token, rxAlive>>
    /\ UNCHANGED <<handle, borrower, lockQ, call, running, cancelled, dataVars>>

\* Without a body reader object the stream is closed and dropped on the spot.
ExitCloses ==
    /\ "exit" \in world /\ phase = "body"
    /\ exit = "open" /\ borrower = {} /\ ~handle
    /\ exit' = "closed"
    /\ token' = HasReceiver
    /\ DropReceiver
    /\ UNCHANGED <<setup, arrived, readerVars>>
    /\ UNCHANGED <<handle, borrower, lockQ, call, running, cancelled>>
    /\ UNCHANGED <<got, cache, readBytes, taken, out, sawEnd>>

\* With one, close() has to wait for its mutex like everybody else.
ExitWaits ==
    /\ "exit" \in world /\ phase = "body"
    /\ exit = "open" /\ borrower = {} /\ handle
    /\ exit' = "locking"
    /\ lockQ' = Append(lockQ, Exit)
    /\ UNCHANGED <<setup, arrived, phase, readerVars, channel, token, rxAlive>>
    /\ UNCHANGED <<handle, borrower, call, running, cancelled, dataVars>>

\* A wrong close: it forgets to give the mutex back.
ExitKeepsLock ==
    /\ Owns(Exit)
    /\ exit' = "closed" /\ token' = HasReceiver
    /\ UNCHANGED <<setup, arrived, phase, readerVars, channel, rxAlive>>
    /\ UNCHANGED <<handle, borrower, lockQ, call, running, cancelled, dataVars>>
ExitLocked ==
    /\ Owns(Exit)
    /\ exit' = "closed" /\ token' = HasReceiver
    /\ lockQ' = Tail(lockQ)
    /\ UNCHANGED <<setup, arrived, phase, readerVars, channel, rxAlive>>
    /\ UNCHANGED <<handle, borrower, call, running, cancelled, dataVars>>

\* __aexit__ has no cancel handle: cancelling its task while it waits throws
\* the coroutine away.
ExitCancelled ==
    /\ "cancel" \in world
    /\ exit = "locking"
    /\ exit' = "cancelled"
    /\ \E i \in DOMAIN lockQ : lockQ[i] = Exit /\ lockQ' = RemoveAt(lockQ, i)
    /\ UNCHANGED <<setup, arrived, phase, readerVars, channel, token, rxAlive>>
    /\ UNCHANGED <<handle, borrower, call, running, cancelled, dataVars>>

\* Python drops its last reference to the response and its reader.
DropReader ==
    /\ "drop" \in world /\ phase = "body"
    /\ lockQ = <<>>
    /\ DropReceiver
    /\ UNCHANGED <<setup, arrived, readerVars, token, accessVars>>
    /\ UNCHANGED <<got, cache, readBytes, taken, out, sawEnd>>

------------------------------------------------------------------------------
HeadStep ==
    \/ SkipReadAhead \/ ReadAheadEnds \/ ReadAheadFails
    \/ \E n \in FrameSizes : ReadAhead(n)
NetworkStep == ReaderEnds \/ ReaderFails \/ \E n \in FrameSizes : ReaderFrame(n)
ReaderWakes == ReaderSends \/ ReaderSendFails \/ ReaderSeesToken
CallStep(t) ==
    \/ ReturnAtOnce(t) \/ Begin(t)
    \/ TakeChunk(t) \/ TakeEnd(t) \/ TakeFailure(t) \/ TakeCancel(t)
ExitStep == ExitFindsBorrow \/ ExitCloses \/ ExitWaits \/ ExitLocked \/ ExitCancelled

Next ==
    \/ HeadStep \/ NetworkStep \/ ReaderWakes
    \/ \E t \in Tasks :
         \/ CallResponse(t) \/ (\E c \in Calls : CallReader(t, c))
         \/ Cancel(t) \/ CallStep(t)
    \/ TakeHandle \/ ExitStep \/ DropReader

Spec == Init /\ [][Next]_vars

\* The event loop polls whatever is ready; the runtime wakes the reader.
RuntimeFairness ==
    /\ WF_vars(ReaderWakes)
    /\ WF_vars(ExitLocked)
    /\ \A t \in Tasks : WF_vars(CallStep(t))

\* The server goes on sending until the body is over, or fails.
ServerFairness == WF_vars(NetworkStep)

LiveSpec == Spec /\ RuntimeFairness

------------------------------------------------------------------------------
\* Safety.

TypeOK ==
    /\ limit \in Limits /\ world \in Worlds
    /\ arrived \in 0..BodyLen
    /\ phase \in {"head", "body", "failed", "gone"}
    /\ \A i \in DOMAIN pending : pending[i] # <<>> /\ ToSet(pending[i]) \subseteq 1..BodyLen
    /\ rstate \in {"none", "reading", "sending", "finishing", "ended"}
    /\ \A i \in DOMAIN buffer : ToSet(buffer[i]) \subseteq 1..BodyLen
    /\ Len(outbox) <= 1 /\ Len(channel) <= ChannelSize
    /\ token \in BOOLEAN /\ rxAlive \in BOOLEAN /\ handle \in BOOLEAN
    /\ borrower \subseteq Tasks /\ running \subseteq Tasks /\ cancelled \subseteq Tasks
    /\ lockQ \in Seq(Tasks \cup {Exit})
    /\ call \in [Tasks -> Calls \cup {Idle}]
    /\ \A t \in Tasks : ToSet(got[t]) \subseteq 1..BodyLen
    /\ cache = Nothing \/ ToSet(cache) \subseteq 1..BodyLen
    /\ readBytes \in 0..BodyLen /\ taken \in 0..BodyLen
    /\ exit \in {"open", "locking", "closed", "busy", "cancelled"}
    /\ sawEnd \in BOOLEAN

\* Everything between reqwest and the end of a call, oldest byte first.
Collected == IF lockQ # <<>> /\ Head(lockQ) \in Tasks THEN got[Head(lockQ)] ELSE <<>>
InMessages(messages) == Flat([i \in DOMAIN messages |-> Flat(messages[i].chunks)])
Pipeline ==
    Collected \o Flat(pending) \o InMessages(channel) \o InMessages(outbox) \o Flat(buffer)

\* No byte is lost, repeated or reordered on its way through the batches, the
\* channel, the pending chunks and the calls that split them; only a close or
\* a failing body may leave bytes behind.
PipelineIntact ==
    phase # "gone" =>
        /\ Pipeline = SubSeq(Body, taken + 1, taken + Len(Pipeline))
        /\ \/ taken + Len(Pipeline) = arrived
           \/ token \/ "fail" \in world

\* Callers see the body in order and no byte twice, whatever was cancelled,
\* failed or closed in between.
ReadsInOrder == \A i, j \in DOMAIN out : i < j => out[i] < out[j]

\* The body on its way: what is in the pipeline, and what came out of it.
PipelineSound == TypeOK /\ PipelineIntact /\ ReadsInOrder

\* "Return entire body as bytes (cached after first read)"
\* (python/pyreqwest/response/__init__.pyi:60).
BytesWhole == cache # Nothing => cache = Body

\* Undisturbed, bytes() returns the entire body or raises: it is refused after
\* a partial read, and never caches a part.  A reader that is told the stream is
\* exhausted has seen all of it, or bytes() has.
WholeUndisturbed ==
    world = {} => /\ BytesWhole
                  /\ sawEnd => out = Body \/ cache = Body

\* Back-pressure holds: four batches (pending, two in the channel, one being
\* sent), each up to one frame over the limit, is all that is ever buffered.
Batch == IF limit = 0 THEN MaxFrame ELSE limit - 1 + MaxFrame
Buffered ==
    Size(pending) + Len(InMessages(channel)) + Len(InMessages(outbox)) + Size(buffer)
BufferBound == limit # NoLimit => Buffered <= 4 * Batch

\* Liveness.

\* A cancelled call that owns the reader returns although the server sends
\* nothing more.
OwnerCancelReturns ==
    \A t \in Tasks : (Runs(t) /\ t \in cancelled) ~> call[t] = Idle

\* A close ends the reader task, and with it the request's permit, although
\* the server is silent and the channel full.
CloseEndsReader == token ~> rstate = "ended"

\* As long as the server goes on, every call returns and every __aexit__ gets
\* the mutex: neither a full channel nor the queue for the mutex locks up.
EverybodyReturns ==
    ServerFairness =>
        \A x \in Tasks \cup {Exit} : x \in ToSet(lockQ) ~> x \notin ToSet(lockQ)
==============================================================================
