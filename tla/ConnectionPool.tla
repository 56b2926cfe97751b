---------------------------- MODULE ConnectionPool ----------------------------
(***************************************************************************)
(* How a client runs requests: the coroutine (or blocked thread) that      *)
(* called send(), the runtime task it spawned, the FIFO semaphore behind   *)
(* max_connections, and the reader task that keeps a streamed response's   *)
(* permit until its body is over.  Caller and task live apart: a caller    *)
(* that is cancelled, or whose client is closed, leaves at once and the    *)
(* task goes on without it (spawner.rs, runtime.rs, connection_limiter.rs, *)
(* body_reader.rs).                                                        *)
(*                                                                         *)
(* The server, reqwest and the Python code that owns a response are the    *)
(* environment: they act when they like, and only the fairness formulas at *)
(* the end of the module say that they act at all.                         *)
(***************************************************************************)
EXTENDS Naturals, FiniteSets, SequencesExt

CONSTANTS
    Requests,        \* the requests sent through one client
    MaxConnections,  \* max_connections, validated to be at least 1
    Bodies,          \* the BodyConsumeConfigs in use
    PoolTimeout,     \* pool_timeout in ticks, or NoTimeout
    Timeouts,        \* the total timeouts a request may carry
    NoTimeout,       \* Option::None for a timeout
    TimeCap          \* bound on the clock of a request

Deadlines == (Timeouts \cup {PoolTimeout}) \ {NoTimeout}

ASSUME LimitAssumption == MaxConnections \in Nat \ {0}
ASSUME RequestsAssumption == IsFiniteSet(Requests)
BodyConfigs == {"FullyConsumed", "Streamed", "NoBody"}

ASSUME BodiesAssumption == Bodies \subseteq BodyConfigs
ASSUME TimeAssumption ==
    /\ NoTimeout \notin Nat
    /\ PoolTimeout \in Nat \cup {NoTimeout}
    /\ Timeouts \subseteq Nat \cup {NoTimeout}
    /\ TimeCap \in Nat
    /\ \A d \in Deadlines : d <= TimeCap

VARIABLES
    closed,      \* Client.close() has cancelled the client's token
    caller,      \* where each send() call stands
    cancelled,   \* requests whose CancelHandle has been triggered
    body,        \* how each response body is to be consumed
    timeout,     \* the total timeout of each request
    task,        \* where each spawned task stands
    response,    \* who owns each response
    reader,      \* the reader task of each streamed body
    age,         \* time since the task asked for a permit
    wireLeft,    \* what is left of the timeout reqwest was given
    available,   \* permits in the semaphore
    waiters,     \* requests queued in the semaphore, oldest first
    held         \* requests whose OwnedSemaphorePermit is alive

callVars == <<closed, caller, cancelled, body, timeout>>
poolVars == <<available, waiters, held>>
timeVars == <<age, wireLeft>>
vars == <<closed, caller, cancelled, body, timeout, task, response,
          reader, age, wireLeft, available, waiters, held>>

CallerStates == {"idle", "joining", "ok", "failed", "cancelled", "closed"}
Ended == {"answered", "poolTimedOut", "errored"}
TaskStates == {"none", "spawned", "waiting", "granted", "executing", "reading"}
                  \cup Ended
ResponseStates == {"none", "live", "closed", "dropped"}
ReaderStates == {"none", "running", "stalled", "ended"}
OptTime == Nat \cup {NoTimeout}

TypeOK ==
    /\ closed \in BOOLEAN
    /\ caller \in [Requests -> CallerStates]
    /\ cancelled \subseteq Requests
    /\ body \in [Requests -> BodyConfigs]
    /\ timeout \in [Requests -> Timeouts \cup {NoTimeout}]
    /\ task \in [Requests -> TaskStates]
    /\ response \in [Requests -> ResponseStates]
    /\ reader \in [Requests -> ReaderStates]
    /\ age \in [Requests -> Nat]
    /\ wireLeft \in [Requests -> OptTime]
    /\ available \in Nat
    /\ waiters \in Seq(Requests)
    /\ held \subseteq Requests

Init ==
    /\ closed = FALSE
    /\ caller = [r \in Requests |-> "idle"]
    /\ cancelled = {}
    /\ body = [r \in Requests |-> "FullyConsumed"]
    /\ timeout = [r \in Requests |-> NoTimeout]
    /\ task = [r \in Requests |-> "none"]
    /\ response = [r \in Requests |-> "none"]
    /\ reader = [r \in Requests |-> "none"]
    /\ age = [r \in Requests |-> 0]
    /\ wireLeft = [r \in Requests |-> NoTimeout]
    /\ available = MaxConnections
    /\ waiters = <<>>
    /\ held = {}

------------------------------------------------------------------------------
\* The client and its callers.

\* First poll of send() that reaches spawn_handled: the task goes to the
\* runtime and the caller joins it.  A closed client does not prevent this:
\* select! polls its branches in random order.
Send(r, b, t) ==
    /\ caller[r] = "idle"
    /\ caller' = [caller EXCEPT ![r] = "joining"]
    /\ body' = [body EXCEPT ![r] = b]
    /\ timeout' = [timeout EXCEPT ![r] = t]
    /\ task' = [task EXCEPT ![r] = "spawned"]
    /\ UNCHANGED <<closed, cancelled, response, reader>>
    /\ UNCHANGED <<timeVars, poolVars>>

\* The other order: the close branch is polled first and nothing is spawned.
SendRejected(r) ==
    /\ caller[r] = "idle"
    /\ closed
    /\ caller' = [caller EXCEPT ![r] = "closed"]
    /\ UNCHANGED <<closed, cancelled, body, timeout, task, response, reader>>
    /\ UNCHANGED <<timeVars, poolVars>>

\* The caller stops joining.  Its half of the JoinHandle goes with it, and an
\* answer already stored there is dropped.
Leave(r, how) ==
    /\ caller[r] = "joining"
    /\ caller' = [caller EXCEPT ![r] = how]
    /\ response' = IF response[r] = "live"
                     THEN [response EXCEPT ![r] = "dropped"] ELSE response
    /\ UNCHANGED <<closed, cancelled, body, timeout, task, reader>>
    /\ UNCHANGED <<timeVars, poolVars>>

\* The join completes and the caller gets the response.
TakeResponse(r) ==
    /\ caller[r] = "joining"
    /\ task[r] = "answered"
    /\ caller' = [caller EXCEPT ![r] = "ok"]
    /\ UNCHANGED <<closed, cancelled, body, timeout, task, response, reader>>
    /\ UNCHANGED <<timeVars, poolVars>>

\* The join completes with an error, or with a response whose status
\* check_error_for_status turns into one; that response is dropped unclosed.
TakeError(r) == task[r] \in Ended /\ Leave(r, "failed")

CallerCancelled(r) == r \in cancelled /\ Leave(r, "cancelled")

\* A wrong select!: the close branch is looked at only once the task is over.
CallerClosedAfterTask(r) == closed /\ task[r] \in Ended /\ Leave(r, "closed")
CallerClosed(r) == closed /\ Leave(r, "closed")

\* asyncio cancels the awaiting task, or the coroutine is dropped.
Cancel(r) ==
    /\ caller[r] = "joining"
    /\ r \notin cancelled
    /\ cancelled' = cancelled \cup {r}
    /\ UNCHANGED <<closed, caller, body, timeout, task, response, reader>>
    /\ UNCHANGED <<timeVars, poolVars>>

CloseClient ==
    /\ ~closed
    /\ closed' = TRUE
    /\ UNCHANGED <<caller, cancelled, body, timeout, task, response, reader>>
    /\ UNCHANGED <<timeVars, poolVars>>

------------------------------------------------------------------------------
\* The semaphore.  A released permit goes straight to the oldest waiter, whose
\* task is woken; `tasks` is the task function after the releaser's own step.

\* A wrong release: the waiter is left asleep.
ReleaseWithoutWake(r, tasks) ==
    /\ available' = available + 1
    /\ held' = held \ {r}
    /\ task' = tasks
    /\ UNCHANGED waiters

Release(r, tasks) ==
    IF waiters = <<>>
      THEN /\ available' = available + 1
           /\ held' = held \ {r}
           /\ task' = tasks
           /\ UNCHANGED waiters
      ELSE /\ held' = (held \ {r}) \cup {Head(waiters)}
           /\ task' = [tasks EXCEPT ![Head(waiters)] = "granted"]
           /\ waiters' = Tail(waiters)
           /\ UNCHANGED available

\* limit_connections waits for the shorter of the two timeouts.

\* A wrong wait: pool_timeout is not looked at.
RequestTimeoutOnly(r) == timeout[r]
PoolWait(r) ==
    CASE PoolTimeout = NoTimeout -> timeout[r]
      [] timeout[r] = NoTimeout -> PoolTimeout
      [] OTHER -> IF PoolTimeout < timeout[r] THEN PoolTimeout ELSE timeout[r]

Granted(r) == [task EXCEPT ![r] = "granted"]

\* A wrong fast path: the counter is not looked at.
AcquireUnchecked(r) ==
    /\ task[r] = "spawned"
    /\ task' = Granted(r)
    /\ available' = available - 1
    /\ held' = held \cup {r}
    /\ UNCHANGED <<callVars, response, reader, timeVars, waiters>>

AcquireAtOnce(r) ==
    /\ task[r] = "spawned"
    /\ available > 0
    /\ task' = Granted(r)
    /\ available' = available - 1
    /\ held' = held \cup {r}
    /\ UNCHANGED <<callVars, response, reader, timeVars, waiters>>

\* A wrong queue: the newest request is served first.
EnqueueInFront(r) ==
    /\ task[r] = "spawned"
    /\ available = 0
    /\ task' = [task EXCEPT ![r] = "waiting"]
    /\ waiters' = <<r>> \o waiters
    /\ UNCHANGED <<callVars, response, reader, timeVars, available, held>>

Enqueue(r) ==
    /\ task[r] = "spawned"
    /\ available = 0
    /\ task' = [task EXCEPT ![r] = "waiting"]
    /\ waiters' = Append(waiters, r)
    /\ UNCHANGED <<callVars, response, reader, timeVars, available, held>>

\* tokio::time::timeout polls the acquire first, so a request that was handed
\* a permit in the meantime is no longer here.

PoolTimeoutFires(r) ==
    /\ task[r] = "waiting"
    /\ PoolWait(r) # NoTimeout /\ age[r] >= PoolWait(r)
    /\ task' = [task EXCEPT ![r] = "poolTimedOut"]
    /\ \E i \in DOMAIN waiters :
          waiters[i] = r /\ waiters' = RemoveAt(waiters, i)
    /\ UNCHANGED <<callVars, response, reader, timeVars, available, held>>

------------------------------------------------------------------------------
\* The request's task, once it has a permit.

\* limit_connections leaves reqwest what the wait has left of the timeout.

\* A wrong hand-over: reqwest gets the whole timeout again.
RestartTimeout(r) == timeout[r]

\* Another one: the timeout is taken out of the request and not put back.
LoseTimeout(r) == IF timeout[r] = NoTimeout THEN timeout[r] ELSE NoTimeout

RemainingTimeout(r) ==
    IF timeout[r] = NoTimeout THEN NoTimeout ELSE timeout[r] - age[r]

TimeUsedUp(r) == timeout[r] # NoTimeout /\ age[r] >= timeout[r]

BeginExecute(r) ==
    /\ task[r] = "granted"
    /\ ~TimeUsedUp(r)
    /\ task' = [task EXCEPT ![r] = "executing"]
    /\ wireLeft' = [wireLeft EXCEPT ![r] = RemainingTimeout(r)]
    /\ UNCHANGED <<callVars, response, reader, age, poolVars>>

\* The permit came, but the wait has used up the whole timeout.

\* A wrong early return: the permit is forgotten on the error path.
RejectLateForgetsPermit(r) ==
    /\ task[r] = "granted"
    /\ TimeUsedUp(r)
    /\ task' = [task EXCEPT ![r] = "poolTimedOut"]
    /\ UNCHANGED <<callVars, response, reader, timeVars, poolVars>>

RejectLate(r) ==
    /\ task[r] = "granted"
    /\ TimeUsedUp(r)
    /\ Release(r, [task EXCEPT ![r] = "poolTimedOut"])
    /\ UNCHANGED <<callVars, response, reader, timeVars>>

\* The task's output is stored for the caller, or dropped if it has gone.

\* A wrong detachment: the answer is kept for a caller that has left.
AnswerForNobody(r) == response' = [response EXCEPT ![r] = "live"]
Answer(r) ==
    response' = [response EXCEPT ![r] =
                    IF caller[r] = "joining" THEN "live" ELSE "dropped"]

\* client.execute, or the reading of the body, fails: the future's locals are
\* dropped, the permit with them.

\* A wrong error path: the permit outlives the task.
TaskFailsForgetsPermit(r) ==
    /\ task[r] \in {"executing", "reading"}
    /\ held' = held \ {r}
    /\ task' = [task EXCEPT ![r] = "errored"]
    /\ UNCHANGED <<callVars, response, reader, timeVars, available, waiters>>

TaskFails(r) ==
    /\ task[r] \in {"executing", "reading"}
    /\ Release(r, [task EXCEPT ![r] = "errored"])
    /\ UNCHANGED <<callVars, response, reader, timeVars>>

\* The timeout handed to reqwest runs out.
WireTimeoutFires(r) == wireLeft[r] = 0 /\ TaskFails(r)

\* The response head arrives and read_limit starts on the body.
ServerAnswers(r) ==
    /\ task[r] = "executing" /\ body[r] # "NoBody"
    /\ task' = [task EXCEPT ![r] = "reading"]
    /\ UNCHANGED <<callVars, response, reader, timeVars, poolVars>>

\* read_limit saw the end of the body, or does not look for one because the
\* request was a HEAD: initialize gives the permit back with the last poll.
InitComplete(r) ==
    /\ task[r] = IF body[r] = "NoBody" THEN "executing" ELSE "reading"
    /\ Release(r, [task EXCEPT ![r] = "answered"])
    /\ Answer(r)
    /\ UNCHANGED <<callVars, reader, timeVars>>

\* read_limit stopped at the buffer limit: a reader task takes the permit over.

\* A wrong take-over: the permit is dropped although the body is not over.
InitStreamingDropsPermit(r) ==
    /\ task[r] = "reading" /\ body[r] = "Streamed"
    /\ reader' = [reader EXCEPT ![r] = "running"]
    /\ Release(r, [task EXCEPT ![r] = "answered"])
    /\ Answer(r)
    /\ UNCHANGED <<callVars, timeVars>>

InitStreaming(r) ==
    /\ task[r] = "reading" /\ body[r] = "Streamed"
    /\ reader' = [reader EXCEPT ![r] = "running"]
    /\ task' = [task EXCEPT ![r] = "answered"]
    /\ Answer(r)
    /\ UNCHANGED <<callVars, timeVars, poolVars>>

------------------------------------------------------------------------------
\* The reader task of a streamed body, and the code that owns the response.

\* Both batches of the channel are unread: the reader sleeps in tx.send.
ReaderStalls(r) ==
    /\ reader[r] = "running"
    /\ response[r] = "live"
    /\ reader' = [reader EXCEPT ![r] = "stalled"]
    /\ UNCHANGED <<callVars, task, response, timeVars, poolVars>>

\* The consumer takes a batch.
ReaderResumes(r) ==
    /\ reader[r] = "stalled"
    /\ caller[r] = "ok" /\ response[r] = "live"
    /\ reader' = [reader EXCEPT ![r] = "running"]
    /\ UNCHANGED <<callVars, task, response, timeVars, poolVars>>

EndReader(r) ==
    /\ reader' = [reader EXCEPT ![r] = "ended"]
    /\ Release(r, task)
    /\ UNCHANGED <<callVars, response, timeVars>>

\* The body ends or fails, or a send finds the receiver gone.
ReaderFinishes(r) == reader[r] = "running" /\ EndReader(r)

\* The deadline of the request passes while the reader waits for a frame.
ReaderTimesOut(r) == wireLeft[r] = 0 /\ ReaderFinishes(r)

\* The close token wakes the reader wherever it waits.

\* A wrong select!: the token is looked at between frames only.
ReaderClosesBetweenFrames(r) ==
    reader[r] = "running" /\ response[r] = "closed" /\ EndReader(r)
ReaderCloses(r) ==
    /\ reader[r] \in {"running", "stalled"}
    /\ response[r] = "closed"
    /\ EndReader(r)

\* Dropping the receiver wakes a sleeping send, but not a reader that waits
\* for the server: nobody cancels the token.
ReaderSendFails(r) ==
    reader[r] = "stalled" /\ response[r] = "dropped" /\ EndReader(r)

\* __aexit__ / __exit__ of a streamed request.
CloseResponse(r) ==
    /\ caller[r] = "ok" /\ body[r] # "FullyConsumed"
    /\ response[r] = "live"
    /\ response' = [response EXCEPT ![r] = "closed"]
    /\ UNCHANGED <<callVars, task, reader, timeVars, poolVars>>

\* The last reference to the response goes away.
DropResponse(r) ==
    /\ caller[r] = "ok"
    /\ response[r] = "live"
    /\ response' = [response EXCEPT ![r] = "dropped"]
    /\ UNCHANGED <<callVars, task, reader, timeVars, poolVars>>

------------------------------------------------------------------------------
\* Time.

Queued(r) == task[r] \in {"waiting", "granted"}
OnWire(r) == task[r] \in {"executing", "reading"}
Reading(r) == reader[r] \in {"running", "stalled"}

\* The clock of r runs, and somebody will look at it.
Timed(r) ==
    /\ PoolTimeout # NoTimeout \/ timeout[r] # NoTimeout
    /\ Queued(r) \/ OnWire(r) \/ Reading(r)

Tick ==
    /\ \E r \in Requests : Timed(r) /\ age[r] < TimeCap
    /\ age' = [r \in Requests |->
                 IF Timed(r) /\ age[r] < TimeCap THEN age[r] + 1 ELSE age[r]]
    /\ wireLeft' = [r \in Requests |->
                      IF Timed(r) /\ wireLeft[r] \notin {NoTimeout, 0}
                        THEN wireLeft[r] - 1 ELSE wireLeft[r]]
    /\ UNCHANGED <<callVars, task, response, reader, poolVars>>

------------------------------------------------------------------------------
CallerWakes(r) ==
    TakeResponse(r) \/ TakeError(r) \/ CallerCancelled(r) \/ CallerClosed(r)
Admission(r) == AcquireAtOnce(r) \/ Enqueue(r)
GrantedStep(r) == BeginExecute(r) \/ RejectLate(r)
ServerStep(r) ==
    TaskFails(r) \/ ServerAnswers(r) \/ InitComplete(r) \/ InitStreaming(r)
ReaderWakes(r) == ReaderCloses(r) \/ ReaderSendFails(r)

Next ==
    \/ \E r \in Requests :
         \/ \E b \in Bodies, t \in Timeouts : Send(r, b, t)
         \/ SendRejected(r) \/ Cancel(r) \/ CallerWakes(r)
         \/ Admission(r) \/ PoolTimeoutFires(r) \/ GrantedStep(r)
         \/ ServerStep(r) \/ WireTimeoutFires(r)
         \/ ReaderStalls(r) \/ ReaderResumes(r)
         \/ ReaderFinishes(r) \/ ReaderTimesOut(r) \/ ReaderWakes(r)
         \/ CloseResponse(r) \/ DropResponse(r)
    \/ CloseClient
    \/ Tick

Spec == Init /\ [][Next]_vars

------------------------------------------------------------------------------
\* Fairness, by who provides it.

\* The runtime and the event loop poll what is ready.
RuntimeFairness ==
    \A r \in Requests :
        /\ WF_vars(CallerWakes(r))
        /\ WF_vars(Admission(r))
        /\ WF_vars(GrantedStep(r))
        /\ WF_vars(ReaderWakes(r))

\* Time passes and the timers that expired fire.
TimerFairness ==
    /\ WF_vars(Tick)
    /\ \A r \in Requests :
        /\ WF_vars(PoolTimeoutFires(r))
        /\ WF_vars(WireTimeoutFires(r))

\* The server answers, fails, and ends every body it is asked for.
ServerFairness ==
    \A r \in Requests : WF_vars(ServerStep(r)) /\ WF_vars(ReaderFinishes(r))

\* Whoever owns a response closes or drops it in the end.
OwnerFairness ==
    \A r \in Requests : WF_vars(CloseResponse(r) \/ DropResponse(r))

LiveSpec == Spec /\ RuntimeFairness
TimedSpec == LiveSpec /\ TimerFairness

------------------------------------------------------------------------------
\* Safety.

\* The requests that occupy a connection slot in the sense of the code: from
\* the granted permit to the end of the answer, or of the streamed body.
Occupies(r) == task[r] \in {"granted", "executing", "reading"} \/ Reading(r)

\* max_connections is "maximum number of inflight requests": it counts the
\* callers that have left and the bodies still being streamed, too.
MaxInflight == Cardinality({r \in Requests : Occupies(r)}) <= MaxConnections

\* No permit is lost or forged on any path through success, failure, timeout,
\* abandonment and close.
PermitConservation == available + Cardinality(held) = MaxConnections

\* A request never sleeps in the semaphore's queue next to a free permit.
NoLostWakeup == available > 0 => waiters = <<>>

\* A permit lives exactly as long as the work it stands for: the reader of a
\* streamed body keeps it, everything else gives it back with the task.
HeldExactly == \A r \in Requests : r \in held <=> Occupies(r)

\* The semaphore's queue holds each waiting task once and nobody else.
WaitersExact ==
    /\ \A r \in Requests : task[r] = "waiting" <=> r \in ToSet(waiters)
    /\ IsInjective(waiters)

\* The deadline reqwest works with never lies beyond the total timeout of the
\* request, however long the request queued for its permit.
DeadlineKept ==
    \A r \in Requests :
        wireLeft[r] \notin {NoTimeout, 0} => age[r] + wireLeft[r] <= timeout[r]

\* A response nobody can reach any more is never left open: once the caller
\* has gone, the task's answer is dropped, whichever of the two came first.
NoOrphanResponse ==
    \A r \in Requests :
        response[r] \in {"live", "closed"} => caller[r] \in {"joining", "ok"}

\* The pool admits requests in the order in which they asked.
Admissions == INSTANCE FifoAdmission
                WITH Limit <- MaxConnections, admitted <- held, queue <- waiters
AdmitsInOrder == Admissions!Spec

\* Liveness.

\* A cancelled caller, and every caller of a closed client, returns without
\* any help from the server.
LeaverReturns ==
    \A r \in Requests :
        (caller[r] = "joining" /\ (closed \/ r \in cancelled))
            ~> caller[r] # "joining"

\* Closing a streamed response gives its permit back although the server has
\* stopped sending and nobody reads what was buffered.
CloseFreesPermit ==
    \A r \in Requests : response[r] = "closed" ~> r \notin held

\* With a total timeout every send() returns, whatever the server and the
\* other requests do.
TimeoutBoundsSend ==
    \A r \in Requests :
        (caller[r] = "joining" /\ timeout[r] # NoTimeout)
            ~> caller[r] # "joining"

\* With a pool timeout no request waits in the pool for ever.
PoolTimeoutBoundsWait ==
    \A r \in Requests : task[r] = "waiting" ~> task[r] # "waiting"

\* A server that answers and owners that finish with their responses are enough
\* for every queued request to get its turn.
QueueMoves ==
    ServerFairness /\ OwnerFairness =>
        \A r \in Requests : task[r] = "waiting" ~> r \in held
==============================================================================
