----------------------------- MODULE AsyncBridge -----------------------------
(***************************************************************************)
(* How Rust awaits Python: a CoroWaiter on the Rust side, a coroutine that *)
(* the event loop turns into a task on the Python side, and between them a *)
(* bridge with two loop callbacks, on_init and on_done (asyncio_coro.rs).  *)
(*                                                                         *)
(* Middlewares stack such calls on top of each other (next.rs): send()     *)
(* calls the first middleware over a bridge, its next.run() calls the      *)
(* second one, and the last one calls the request itself.  A middleware    *)
(* may call next.run() again, or give up on it.  A request body that is an *)
(* async iterator uses the same bridge from a runtime thread, without a    *)
(* cancel handle (body_stream.rs).                                         *)
(*                                                                         *)
(* The event loop runs one callback or one step of a task at a time; the   *)
(* poll of a coroutine that has an exception thrown into it is one step.   *)
(***************************************************************************)
EXTENDS Naturals, FiniteSets

CONSTANTS
    Depth,      \* number of middlewares
    MaxCalls    \* bound on the calls made in one behaviour

ASSUME SizesAssumption == Depth \in Nat \ {0} /\ MaxCalls \in Nat

Calls == 1..MaxCalls
User == 0   \* the parent of a call that no middleware made

VARIABLES
    handled,    \* the root call has a cancel handle: send(), not a body stream
    made,       \* calls made so far
    parent,     \* whose middleware made a call
    level,      \* the middleware it calls, or Depth + 1 for the request itself
    waiter,     \* what its caller sees
    mailbox,    \* results sent over the oneshot channels
    coros,      \* bridges that still own the coroutine
    tasks,      \* bridges that know their asyncio task
    senders,    \* bridges that still own the Sender
    inits,      \* calls whose on_init is scheduled
    dones,      \* calls whose on_done is scheduled
    middleware, \* where the task of a call stands
    asked,      \* tasks that Task.cancel() has been called on
    stubborn    \* (history) tasks that swallowed their CancelledError

treeVars == <<handled, made, parent, level>>
bridgeVars == <<mailbox, coros, tasks, senders, inits, dones>>
taskVars == <<middleware, asked, stubborn>>
vars == <<treeVars, waiter, bridgeVars, taskVars>>

Results == {"ok", "failed", "cancelled"}
NoResult == "empty"

TypeOK ==
    /\ handled \in BOOLEAN
    /\ made \in 0..MaxCalls
    /\ parent \in [Calls -> Calls \cup {User}]
    /\ level \in [Calls -> 1..(Depth + 1)]
    /\ waiter \in [Calls -> {"none", "waiting", "dropped"} \cup Results]
    /\ mailbox \in [Calls -> {NoResult} \cup Results]
    /\ coros \subseteq Calls /\ tasks \subseteq Calls /\ senders \subseteq Calls
    /\ inits \subseteq Calls /\ dones \subseteq Calls
    /\ middleware \in [Calls -> {"none", "running"} \cup Results]
    /\ asked \subseteq Calls /\ stubborn \subseteq Calls

Init ==
    /\ handled \in BOOLEAN
    /\ made = 0
    /\ parent = [c \in Calls |-> User]
    /\ level = [c \in Calls |-> 1]
    /\ waiter = [c \in Calls |-> "none"]
    /\ mailbox = [c \in Calls |-> NoResult]
    /\ coros = {} /\ tasks = {} /\ senders = {}
    /\ inits = {} /\ dones = {}
    /\ middleware = [c \in Calls |-> "none"]
    /\ asked = {} /\ stubborn = {}

Waiting(c) == waiter[c] = "waiting"
Running(c) == middleware[c] = "running"
IsRequest(c) == level[c] = Depth + 1
Children(c) == {d \in Calls : d <= made /\ parent[d] = c}

------------------------------------------------------------------------------
\* Calls.

\* A call of the middleware at level n: call_next makes the coroutine and its
\* bridge and schedules on_init.  Past the last middleware the request itself
\* is spawned, and there is no bridge.
MakeCall(p, n) ==
    /\ made < MaxCalls
    /\ made' = made + 1
    /\ parent' = [parent EXCEPT ![made + 1] = p]
    /\ level' = [level EXCEPT ![made + 1] = n]
    /\ waiter' = [waiter EXCEPT ![made + 1] = "waiting"]
    /\ IF n <= Depth
         THEN /\ coros' = coros \cup {made + 1}
              /\ senders' = senders \cup {made + 1}
              /\ inits' = inits \cup {made + 1}
         ELSE UNCHANGED <<coros, senders, inits>>
    /\ UNCHANGED <<handled, mailbox, tasks, dones, taskVars>>

\* send() of a request, or the next poll of a body stream: one item at a time.
\* An item is made by the iterator alone, which calls nothing further.
CallRoot ==
    /\ handled => made = 0
    /\ \A c \in Children(User) : waiter[c] = "ok"
    /\ MakeCall(User, IF handled THEN 1 ELSE Depth)

\* A middleware calls next.run(), any number of times but one at a time.
RunNext(c) ==
    /\ handled /\ Running(c) /\ c \notin asked
    /\ \A d \in Children(c) : ~Waiting(d)
    /\ MakeCall(c, level[c] + 1)

\* The caller polls its waiter and finds the result.
Receive(c) ==
    /\ Waiting(c) /\ mailbox[c] # NoResult
    /\ waiter' = [waiter EXCEPT ![c] = mailbox[c]]
    /\ mailbox' = [mailbox EXCEPT ![c] = NoResult]
    /\ UNCHANGED <<treeVars, coros, tasks, senders, inits, dones, taskVars>>

\* The request behind the last middleware returns or fails.
RequestEnds(c, result) ==
    /\ Waiting(c) /\ IsRequest(c)
    /\ waiter' = [waiter EXCEPT ![c] = result]
    /\ UNCHANGED <<treeVars, bridgeVars, taskVars>>

------------------------------------------------------------------------------
\* Cancellation.

\* Cancelling the waiters of some calls: every bridge forgets its coroutine,
\* so that on_init finds none, and cancels the task it knows of.

\* A wrong cancel: a coroutine that has not started is left to on_init.
CancelStartedOnly(cs, finished) ==
    /\ waiter' = [c \in Calls |-> IF c \in cs THEN "cancelled" ELSE waiter[c]]
    /\ mailbox' = [c \in Calls |-> IF c \in cs THEN NoResult ELSE mailbox[c]]
    /\ tasks' = tasks \ cs
    /\ asked' = (asked \ finished) \cup {c \in cs \cap tasks : Running(c)}
    /\ UNCHANGED <<treeVars, coros, senders, inits>>

\* Another one: the coroutine is dropped, but a running task is not told.
CancelUnstartedOnly(cs, finished) ==
    /\ waiter' = [c \in Calls |-> IF c \in cs THEN "cancelled" ELSE waiter[c]]
    /\ mailbox' = [c \in Calls |-> IF c \in cs THEN NoResult ELSE mailbox[c]]
    /\ coros' = coros \ cs
    /\ asked' = asked \ finished
    /\ UNCHANGED <<treeVars, tasks, senders, inits>>

CancelCalls(cs, finished) ==
    /\ waiter' = [c \in Calls |-> IF c \in cs THEN "cancelled" ELSE waiter[c]]
    /\ mailbox' = [c \in Calls |-> IF c \in cs THEN NoResult ELSE mailbox[c]]
    /\ coros' = coros \ cs
    /\ tasks' = tasks \ cs
    /\ asked' = (asked \ finished) \cup {c \in cs \cap tasks : Running(c)}
    /\ UNCHANGED <<treeVars, senders, inits>>

\* Somebody cancels the task that awaits send(), or a middleware gives up on a
\* next.run() of its own (a timeout around it, say).  A result that is already
\* in the mailbox does not save the call: the handle is looked at first.
CancelCall(c) ==
    /\ handled /\ Waiting(c)
    /\ parent[c] # User => Running(parent[c]) /\ parent[c] \notin asked
    /\ CancelCalls({c}, {})
    /\ UNCHANGED <<dones, middleware, stubborn>>

\* The CancelledError that Task.cancel() asked for is thrown into the task, and
\* from there into the calls it awaits.  The middleware ends with it, or it
\* swallows it and goes on.
ThrowCancel(c) ==
    /\ c \in asked /\ Running(c)
    /\ CancelCalls({d \in Children(c) : Waiting(d)}, {c})
    /\ \/ /\ middleware' = [middleware EXCEPT ![c] = "cancelled"]
          /\ dones' = dones \cup {c}
          /\ UNCHANGED stubborn
       \/ /\ stubborn' = stubborn \cup {c}
          /\ UNCHANGED <<middleware, dones>>

\* The waiter is dropped without a word: reqwest needs no more of the body, or
\* somebody closes the coroutine of send().  Its task goes on.
DropWaiter(c) ==
    /\ Waiting(c) /\ parent[c] = User
    /\ waiter' = [waiter EXCEPT ![c] = "dropped"]
    /\ mailbox' = [mailbox EXCEPT ![c] = NoResult]
    /\ UNCHANGED <<treeVars, coros, tasks, senders, inits, dones, taskVars>>

------------------------------------------------------------------------------
\* The callbacks of the event loop, and the tasks.

\* tx.send: nobody gets the result once the receiver has gone.
SendResult(c, result) ==
    /\ senders' = senders \ {c}
    /\ mailbox' = IF Waiting(c) /\ c \in senders
                    THEN [mailbox EXCEPT ![c] = result] ELSE mailbox

\* on_init makes a task of the coroutine.
OnInit(c) ==
    /\ c \in inits /\ c \in coros
    /\ inits' = inits \ {c} /\ coros' = coros \ {c}
    /\ tasks' = tasks \cup {c}
    /\ middleware' = [middleware EXCEPT ![c] = "running"]
    /\ UNCHANGED <<treeVars, waiter, mailbox, senders, dones, asked, stubborn>>

\* The coroutine has been cancelled away, or create_task raises: an error is
\* sent.
OnInitFails(c) ==
    /\ c \in inits
    /\ inits' = inits \ {c} /\ coros' = coros \ {c}
    /\ SendResult(c, "failed")
    /\ UNCHANGED <<treeVars, waiter, tasks, dones, taskVars>>

\* A middleware returns a response or raises, once the calls it made are over.
MiddlewareEnds(c, result) ==
    /\ Running(c) /\ c \notin asked
    /\ \A d \in Children(c) : ~Waiting(d)
    /\ middleware' = [middleware EXCEPT ![c] = result]
    /\ dones' = dones \cup {c}
    /\ UNCHANGED <<treeVars, waiter, mailbox, coros, tasks, senders, inits, asked, stubborn>>

\* A wrong on_done: task.result() raises, and the error is not sent on.
OnDoneDropsFailure(c) ==
    /\ c \in dones
    /\ dones' = dones \ {c} /\ tasks' = tasks \ {c}
    /\ IF middleware[c] = "ok"
         THEN SendResult(c, "ok") ELSE UNCHANGED <<senders, mailbox>>
    /\ UNCHANGED <<treeVars, waiter, coros, inits, taskVars>>

\* on_done takes the result of the task to the waiter.
OnDone(c) ==
    /\ c \in dones
    /\ dones' = dones \ {c} /\ tasks' = tasks \ {c}
    /\ SendResult(c, middleware[c])
    /\ UNCHANGED <<treeVars, waiter, coros, inits, taskVars>>

------------------------------------------------------------------------------
LoopStep(c) == OnInit(c) \/ OnInitFails(c) \/ OnDone(c) \/ ThrowCancel(c) \/ Receive(c)
Environment(c) ==
    \E result \in {"ok", "failed"} : MiddlewareEnds(c, result) \/ RequestEnds(c, result)

Next ==
    \/ CallRoot
    \/ \E c \in Calls :
         \/ RunNext(c) \/ CancelCall(c) \/ DropWaiter(c)
         \/ LoopStep(c) \/ Environment(c)

Spec == Init /\ [][Next]_vars

\* The event loop keeps running its callbacks and its tasks.
LiveSpec == Spec /\ \A c \in Calls : WF_vars(LoopStep(c))

\* The server answers, and middlewares come to an end.
EnvironmentFairness == \A c \in Calls : WF_vars(Environment(c))

------------------------------------------------------------------------------
\* A call that was cancelled before its middleware started never starts it,
\* although its on_init is still in the loop's queue.
CancelledNeverStarts ==
    [][\A c \in Calls :
          waiter[c] = "cancelled" /\ middleware[c] = "none" => middleware'[c] = "none"]_vars

\* A cancelled call leaves no middleware behind that has not been told.
CancelReachesTask ==
    \A c \in Calls :
        waiter[c] = "cancelled" /\ Running(c) => c \in asked \cup stubborn

\* Liveness.

\* Unless a middleware swallows it, the cancellation of send() goes down the
\* whole chain and ends the request behind it, without help from the server.
CancelReachesRequest ==
    (made > 0 /\ waiter[1] = "cancelled")
        ~> (stubborn # {} \/ \A c \in Calls : ~Waiting(c) /\ ~Running(c))

\* If middlewares and servers come to an end, every call is answered: no
\* result is lost between the callbacks and the cancellations.
EveryCallAnswered ==
    EnvironmentFairness => \A c \in Calls : Waiting(c) ~> ~Waiting(c)
==============================================================================
