# pyreqwest in TLA+

Models, model-checking runs and machine-checked proofs of the Rust core of
pyreqwest (`src/src/`): the part of the library where Python callers, an
asyncio event loop, tokio tasks and reqwest meet. Paths below are relative to
`src/src/` unless they start with `src/`. `PROJECT.json` maps every definition
to the lines it models.

- [1. The system](#1-the-system)
- [2. The modules](#2-the-modules)
- [3. The runs](#3-the-runs)
- [4. Fairness](#4-fairness)
- [5. The proofs](#5-the-proofs)
- [6. What disagrees with the documentation](#6-what-disagrees-with-the-documentation)
- [7. Abstractions and what is left out](#7-abstractions-and-what-is-left-out)
- [8. Plan](#8-plan)

## 1. The system

A `Client` builds requests. `send()` of a request runs the middlewares
(Python), which end in the spawner (Rust); the spawner starts a tokio task that
waits for a connection permit, executes the request with reqwest and turns the
answer into a response. Bodies go up as bytes or as a Python iterator that Rust
awaits, and come down complete or as a stream read by a task of its own.
Clients, requests and responses are made by builders; headers live in maps that
Python can keep and change; the process has two tokio runtimes and one relay of
log records that every client shares.

| Component | State | Operations | Talks to |
|---|---|---|---|
| Spawner, limiter, client (`client/internal/`, `client/client.rs`) | close token, semaphore, one task per request | `spawn_reqwest`, `limit_connections`, `close` | runtime (spawn, join, cancel handle), body reader (gives it the permit) |
| Body reader (`response/internal/body_reader.rs`) | pending chunks, channel of two batches, reader task, close token, permit, cached body | `initialize`, `bytes`, `read`, `next_chunk`, `close` | reqwest (frames), response objects (calls) |
| Response (`response/`) | Option of inner, borrow, mutex of the reader | `bytes`, `json`, `text`, `body_reader.*`, `take_inner` | body reader, middlewares |
| Streamed request (`request/stream_request.rs`) | Option of the response | `__aenter__`, `__aexit__` | request, body reader |
| Request and its body (`request/`) | Option of Inner; body, own or shared with Python; middlewares until the first send | `send`, `copy`, `from_request_and_body`, body getter and setter | middlewares, spawner |
| Streamed request body (`internal/body_stream.rs`) | the current waiter | `poll_next` | asyncio bridge, reqwest |
| Middleware chain (`middleware/next.rs`) | the list, the place in it | `Next.run`, `add_middleware` | user code, asyncio bridge, spawner |
| asyncio bridge (`internal/asyncio_coro.rs`) | coroutine, task and sender, each an Option | `on_init`, `on_done`, `cancel`, the waiter's poll | event loop, middlewares |
| Builders (`request/request_builder.rs`, `client/client_builder.rs`, `response/response_builder.rs`, multipart, proxy) | Option of the wrapped builder, fields beside it | setters, `copy`, `build` | client, request, forms and parts |
| Header map (`http/header_map/`) | multimap under a mutex, taken when sent | the mapping protocol, `extend`, `popall`, views, iterators | request, response, Python code under the mutex |
| Runtimes (`runtime/runtime.rs`) | configuration under a lock, a OnceLock per runtime | `global_handle`, configuration setters, `spawn_handled` | client builder, everything that spawns |
| Logging (`logging/logger.rs`) | bounded channel of records, logger installed once | `init_verbose_logging`, `log`, `flush_logs` | Python logging, client builder, permits, `close` |
| Cookies, URL, MIME, exceptions, conversions | immutable, or a locked third-party store | accessors | - |

What makes this hard: a caller can leave (cancellation, `close()`, an exception
in a middleware) at every await while its task goes on; ownership moves through
many `Option`s that are taken at different moments, with user code in between;
event-loop callbacks arrive in an order nobody controls; a permit must be given
back exactly once on a dozen paths; three things wait on each other when a body
is streamed (the server, a bounded channel, a mutex); setters raise half-way
and leave a builder spent, or not; a plain mutex is held while Python code
runs; global state is configured, created and used by threads that do not know
of each other.

What makes each component correct:

- **pool**: at most `max_connections` requests in flight, first come first
  served; no permit lost, forged, or idle beside a waiter; timeouts that bound
  the wait; callers that can leave;
- **stream**: the bytes of the body, in order, each once; `bytes()` whole or an
  error; `None` only at the end; bounded buffering; a close that always works;
- **bridge**: every call is answered, a cancellation reaches everything that
  was started below it and starts nothing new;
- **requests**: bodies, requests and responses have one owner; the chain of
  middlewares runs whole, once;
- **header map**: a multimap, whatever removals do to the order of its entries;
  iteration that survives changes; values that stay marked; calls that return;
- **builders**: a product is what the calls that returned made of it, and what
  a builder swallows is in one product;
- **runtimes**: settings that are true of the runtime they configure, answers
  that fit the question, errors that reach everybody;
- **logging**: no record twice, out of order within a flush, or lost but for
  the stated reasons; a flush that leaves nothing behind.

## 2. The modules

| Module | Models | Uses |
|---|---|---|
| `FifoAdmission` | abstract: first come first served | |
| `ConnectionPool` | spawner, limiter, close, permits | implements `FifoAdmission` |
| `ResponseStream` | one response body and its readers | |
| `AsyncBridge` | calls of Rust into asynchronous Python | |
| `RequestLifecycle` | requests, bodies and the chain, up to the spawner | |
| `MultiMap` | abstract: what the documentation says of a header map | |
| `HeaderMap` | header maps, their iterator, views, mutex | implements `MultiMap` |
| `Runtimes`, `LogRelay` | the two global parts, as steps of threads | |
| `ClientStart` | threads that build and use clients | composes `Runtimes`, `LogRelay` |
| `HeaderFields` | header values by name | |
| `ClientBuilding`, `RequestBuilding`, `ResponseBuilding` | the builders, as calls | use `HeaderFields` |
| `Builders` | a client, the requests it makes, responses | composes the three |
| `Histories` | what a sequence of calls asked for | |
| `SequenceLemmas` | laws of the recursive operators on sequences | section 5 |
| `...Proofs` | theorems about the module of that name | section 5 |
| `MC...` | model-checking constants of the module of that name | section 3 |

### ConnectionPool

One request is a caller, a task, a permit, a response and perhaps a reader. The
caller (`caller`) joins the task through `RuntimeHandle::spawn_handled` and can
be cancelled (`Cancel`, then `CallerCancelled`) or sent away by the close token
(`CloseClient`, `CallerClosed`); neither touches the task (`task`), which waits
for a permit (`AcquireAtOnce`, `Enqueue`, `PoolTimeoutFires`), takes the time
it waited off its timeout (`BeginExecute`, or `RejectLate` when there is none
left), executes, and ends in `Answer` or `TaskFails`. `InitStreaming` hands the
permit to the reader of the body, which gives it back when it ends, whatever
ends it. `Release` is the drop of `SpawnedRequestPermit`: tokio's semaphore
passes the permit to the oldest waiter in the same step.

`FifoAdmission` is the promise behind all of this in thirty lines: whoever asks
takes a place or joins the back of a queue; a place given up goes to the head.
`AdmitsInOrder` says that the pool implements it, under the refinement
`admitted <- held, queue <- waiters`.

### ResponseStream

One response body and the tasks that read it. A byte is its position in the
body. `read_limit` (`ReadAhead...`) fills `pending`; the reader task batches
frames into `buffer`, sends them (`outbox`, `channel`) and stops when the body
ends, fails, is closed or nobody receives. Calls come through the response,
whose borrow excludes other calls with an error, or through the body reader,
whose mutex (`lockQ`) makes them queue. `TakeChunk` and its siblings are the
loop of `bytes`, `read` and `next_chunk`, one chunk at a time, `PutBack` the
split of a chunk that was too long. `Exit...` are the outcomes of `__aexit__`.
The variable `world` says what may go wrong in a behaviour (failure of the
body, cancellation, close, drop), so that one run covers quiet worlds and
disturbed ones and a property can be about either.

### AsyncBridge

Every call that Rust makes into asynchronous Python: a middleware, or the next
item of an async request body. `coros`, `tasks` and `senders` are the three
Options of `BridgeInner`, `inits` and `dones` the callbacks the event loop has
scheduled, `mailbox` the oneshot channel. Calls form a tree: `send()` calls the
first middleware, whose `next.run()` calls the second, down to the request
itself, and cancelling a task throws into whatever it awaits (`ThrowCancel`).
A middleware may retry, give up on a call, or swallow its cancellation.

### RequestLifecycle

What Python code can do with requests up to the spawner: build with or without
a middleware of its own, copy, share bodies through the getter, the setter and
`from_request_and_body`, send any request at any time, also from within a
middleware, call `next.run()` with any request, return any response, raise.
`calls` lists every `send()` and `next.run()`; `spawned` what went to the
spawner. `Spawn` is `prepare_spawn_request` with its order: Inner is taken
first, the body after it.

### HeaderMap (and MultiMap)

`map[m]` is the entry vector of `http::HeaderMap`: a new key goes to its end,
and a removed one is replaced by the last. Most calls lock, work and unlock in
one step (`SetItem`, `DelItem`, `PopInner` with its removal and re-addition,
`Insert`, `ExtendPairs` and so on). `update()`, `extend()` and `==` with
another map or with a Python object keep the mutex while other code runs:
`StartFromMap`, `FinishFromMap`, `StartFromPython`, `FinishFromPython`, with
`Block` and `Wake` for a thread that waits for a mutex, in native code and
with the GIL if there is one. `NewItems` and `NextItem` are the iterator over
`items()`, a snapshot of the keys beside the live map, which keeps the history
of what changed under it. `RichCmp` and `SetOp` are the comparison and the set
operations of the views, `Shown` is `repr()`.

`MultiMap` is the promise: each key has a sequence of values, and every
operation changes and answers what a Python reader expects; it says nothing of
the order of keys. Pairs are merged with `Update` and `Extend`, another map with
`UpdateFrom` and `ExtendFrom`, which take its values without their marks.
`KeepsPromise` is the refinement `vals <- GetAll(map[m], k)`.
The `world` of a behaviour says which maps and threads are in use, and which
long calls may meet.

### Runtimes, LogRelay and ClientStart

`Runtimes` has the configuration, the OnceLock of each runtime and the calls of
`global_handle` in their steps: read the default under the lock (`ReadDefault`),
look whether the multi-threaded runtime exists (`Look`, the lock is free
again), get or build (`BeginBuild`, `Build`, `BuildFails`, `Publish`), return.
The setters run between any two of them. `LogRelay` has turning the logger on
(`InitLogging`, `SetChannel`, `InstallLogger`), records (`Log`) and flushes that
pop a batch under the mutex of the receiver and call Python for each record.
`ClientStart` is `build_client_base` with both: a builder asks for its runtime,
turns the logger on when it is verbose, and builds; clients that are up end
requests (a flush in batches) and close (a flush of everything). A `load` says
what a behaviour exercises, so that the two parts are not multiplied.

### ClientBuilding, RequestBuilding, ResponseBuilding and Builders

Each builder is a record of what the code keeps, `inner` or `head` being the
Option that is taken. The setters are sorted by what they do to it: check and
assign (`SetOption`), assign only (`Http2`), take, apply and put back
(`Apply`), assign first and apply then (`SetVerbose`), take in two steps
(`SetJsonHandler`, `UseProxy`, `Multipart`, `FormPart`). One setting stands for
all of a kind. `Drained` is the order in which headers are brought together.
`clog`, `qlog` and `slog` are the history of calls with their outcome, from
which the properties say what the product should be: not what the builder
holds, but what the calls that returned asked for (`Fits`). `Builders` adds that a
request starts with what its client was built with, a copy of its own.

### How they fit together

`Builders` ends with a client, a request or a response; `ClientStart` is what
building a client means to the rest of the process. `RequestLifecycle` starts
with a request and ends where `ConnectionPool` begins (`Spawn` is followed by
`Send`); `AsyncBridge` is how the calls of `RequestLifecycle` wait and are
cancelled; `ConnectionPool` knows of a streamed body only that its reader runs,
stalls and ends, which is what `ResponseStream` details. `HeaderMap` stands
apart: maps are shared by Python only, and taken by what is sent.

## 3. The runs

| Run | Question | Bounds |
|---|---|---|
| `pool_safety` | Are permits, queue and responses right under every interleaving, and is admission first come first served? | three streamed requests (the body kind that keeps its permit longest), one permit, so two can queue; a pool timeout of one tick, so that a waiter can leave the front or the back of the queue |
| `pool_timed` | Do the two timeouts bound a send, and is queueing time taken off the deadline? | two requests, one permit; total timeouts of 0, of 2 and none beside a pool timeout of 1: expired at once, running out on the wire, or leaving the wait to the pool timeout alone |
| `pool_liveness` | Do callers that leave, readers that are closed and requests that queue get on? | two requests, one permit, all three kinds of body, no clocks |
| `stream_safety` | Do readers see the body right? | two tasks, four bytes in frames of one or two, limits 0, 1, 3 and none, reads of 0, 1 and 3 bytes; worlds without disturbance and with all of them |
| `stream_liveness` | Is buffering bounded, and does nobody wait for ever? | five bytes in single frames, limit 1: one more than the pipeline holds, so back-pressure stops the reader |
| `bridge` | Do results and cancellations arrive? | two middlewares, four calls: one chain of three and a retry of either `next.run()`, or four items of a body |
| `request` | Has every body and response one owner, and does the chain run whole? | two requests (two built, or one and its copy), two bodies, a chain of one or two middlewares, four calls: a chain and a retry, or two chains side by side |
| `headers` | Is the map a multimap, are iteration, comparison and marks sound, and do calls return? | four worlds: one map of two keys and up to three values with an iterator and two changes under it; two maps of two keys and up to four values between them; two threads, two maps and two long calls, with a GIL and maps merged both ways, and without a GIL, one way and with Python code |
| `client_start` | Do global settings, runtimes and records survive clients that come up together? | two threads; two settings against both runtimes, or three records in a channel of two with batches of one and two flushes |
| `builders` | Is a product what its calls asked for? | every sequence of up to four calls on two client builders with a proxy, on two request builders (one blocking) with two forms and two parts (one async), or on two response builders; and of up to five on a client and requests of it |
| `stream_bytes_cancelled`, `headers_open` | Disagreements with the documentation, see section 6 | the smallest in which they show |

Requests, tasks, threads and middlewares do not depend on their identity, and
every property is about pairs of them at most, a waiter and the two around it
in the queue, or one task against another; the bounds have all of these. A
removal that moves an entry needs two keys, the re-addition of `pop` two values
of one key. Setters of a builder touch each other only through the Option they
share and the field they write, so a wrong product needs two setters, perhaps a
refusal, and a build. Symmetry is used in the two safety runs of pool and
stream only, over requests and reading tasks. The deadlock check is off
everywhere: programs stop when every request has been answered.

`PROJECT.json` names for each property a wrong variant of a definition (the
operators introduced as "A wrong ..." in the modules) that breaks it.

What the properties say beyond their comments:

- `WaitersExact`, `NoLostWakeup`, `PermitConservation` and `HeldExactly`
  together fix the pool: the queue is the waiting tasks, nobody waits beside a
  free permit, and a permit is held exactly from the grant to the end of the
  answer or of the streamed body.
- `PipelineSound` follows each byte from reqwest to the end of a call;
  `WholeUndisturbed` is about what callers conclude: that `bytes()` was all, and
  that `None` was the end.
- `BufferBound` is the bound that back-pressure really gives: about four times
  `read_buffer_limit`, because the limit is applied to each batch (the chunks
  read ahead, two batches in the channel, and one being sent).
- `CancelReachesRequest` needs nothing of the server: a cancelled `send()` ends
  every middleware and the request below it, unless a middleware swallows the
  `CancelledError`.
- `TrailWhole` is exact about the chain: the first `send()` of a request that
  starts runs all of it, a later one none (see section 6).
- `OwnBodySpawns`: `prepare_spawn_request` can use up a request without
  sending it only if its body was shared with Python or is an async iterator in
  a blocking client.
- `IterationSound` is what can be said of an iterator that walks old keys over
  a new map: an untouched key comes whole and once, a touched one shows the
  values of one moment, and only a removed key makes it panic.
- `RecordsKept` counts: each record made is in one place, once.
- `ClientAsAsked`, `RequestAsAsked` and `ResponseAsAsked` are about products.
  They name the two places where a call that raised leaves something behind: a
  `loads` beside a refused `dumps`, and a body that a failed `build()` took.

## 4. Fairness

| Formula | Justified by |
|---|---|
| `RuntimeFairness` (pool, stream), `LiveSpec` (bridge) | tokio and the event loop poll what is ready |
| `TimerFairness` (pool) | time passes, expired timers fire |
| `Spec` of `HeaderMap`: `Proceed(t)` | a thread that can go on does; a mutex and the GIL are given to somebody who waits, and only two long calls compete |
| `Spec` of `ClientStart`: `Coming(t)`, `FlushStep(t)` | a thread that builds a client or flushes goes on; nobody has to begin |
| `ServerFairness` (pool, stream), `EnvironmentFairness` (bridge) | the server answers or fails, bodies and middlewares end |
| `OwnerFairness` (pool) | whoever owns a response closes or drops it in the end |

Only the first four are part of specifications. What depends on the server or
on the user is an antecedent of the property that needs it, so that a property
without it (`LeaverReturns`, `CloseFreesPermit`, `OwnerCancelReturns`,
`CloseEndsReader`, `TimeoutBoundsSend`, `CancelReachesRequest`) holds although
server and users are silent. All of it is weak fairness. Nothing is assumed of
the user who would cancel or close.

## 5. The proofs

Eight modules hold theorems, each for every value of the constants that the
assumptions of its specification allow. No property below is inductive alone;
what each argument adds is the point of its invariant. Every safety property of
the runs has its theorem, and so have both refinements.

### SequenceLemmas

The models say much with `FlattenSeq`, `FoldLeft`, `SetToSeq` and `Max`, which
the community modules define by recursion or by `CHOOSE`. An induction theorem
that takes a predicate cannot be used here, so `Induction` is stated of a set:
a set of naturals with 0 and with every successor of its members is all of
`Nat`. It follows from `LeastNumber`, and this one from the library's theorem
that inclusion is well-founded on finite sets. With it come the laws the other
modules cite: `FlattenAppend`, `FlattenConcat` and `FlattenHead`, what a flat
sequence holds and when it holds nothing twice, a fold over one more element,
the greatest of a set of positions, and how often a list holds something
(`Hits`, `OutsideHits`, `RangeHits`).

### ConnectionPoolProofs

| Theorem | Property |
|---|---|
| `TypeCorrect` | `TypeOK` |
| `PermitsConserved` | `PermitConservation` |
| `PermitsExact` | `HeldExactly` |
| `NobodySleepsByAPermit` | `NoLostWakeup` |
| `QueueExact` | `WaitersExact` |
| `InflightBounded` | `MaxInflight` |
| `ImplementsFifoAdmission` | `AdmitsInOrder` |
| `DeadlinesKept` | `DeadlineKept` |
| `NoResponseOrphaned` | `NoOrphanResponse` |

A release keeps permits conserved and no waiter asleep only if the released
permit was held and the head of the queue is a waiting task that holds none;
that a task which ends holds a permit is `HeldExactly`, and to keep this one
needs to know that a caller that is idle has no task and that a reader runs
only after its task has answered (`LifeCycle`). So the invariant is

    IInv == TypeOK /\ LifeCycle /\ HeldExactly /\ (WaitersExact /\ PermitConservation /\ NoLostWakeup)

proved group by group of actions (callers, admission, tasks, readers, the
clock), on lemmas about injective sequences (append, pop, remove) and one about
`Release`, the step that moves a permit. `MaxInflight` follows by counting the
holders; the refinement maps every step to an arrival, a departure, a
resignation or a stutter; `DeadlineKept` needs `IInv` and itself.
`NoOrphanResponse` needs `OwnerInv`: a response that was closed had been given
to its caller.

Assumed: `MaxConnections` is positive (`client_builder.rs` rejects zero),
`Requests` is finite, timeouts are natural numbers or `NoTimeout`, and `TimeCap`
is at least every timeout (the proofs do not need the cap to be reached).

### RequestLifecycleProofs

| Theorem | Property |
|---|---|
| `TypeCorrect` | `TypeOK` |
| `BodiesSpentOnce` | `BodyOnce` |
| `OwnBodiesAreSpawned` | `OwnBodySpawns` |
| `ResponsesOwnedOnce` | `ResponseOnce` |
| `MiddlewaresWhole` | `TrailWhole` |

- `TypeInv` adds to the types where a call stands (`Places`): one in a
  middleware is within its list, one before the spawner just past it, only one
  that is "ok" owns a response, and no response is newer than the last spawn.
- `BodyOnce` needs `Spent`: what was spawned is neither alive nor full, so that
  what is spawned next is something else; a body made later is new.
- `OwnBodySpawns` needs `OwnBodies`: a request that is alive has its content or
  has shared its body, and two requests that are alive never have the same body
  unless Python has a handle of it. The body of `Copy` is new, those of
  `CopyWithBody` and `SetBody` are handles, and a handle is never forgotten.
- `ResponseOnce` needs `Places`: the number of a new response is above all
  those owned; `Return` moves an owner and makes none.
- `TrailWhole` needs `TrailInv`: every call has a root, a `send()` before it
  whose list it walks (`Roots`); the trail of a call is its list up to where it
  stands, and what was spawned stands past the end (`Trails`); and the list of
  a `send()` is that of its request exactly for the first one, which leaves the
  request without (`Lists`).

The chain is assumed to be a sequence of middlewares, the bounds natural
numbers.

### ResponseStreamProofs

| Theorem | Property |
|---|---|
| `PipelineIsSound` | `PipelineSound` |
| `BufferIsBounded` | `BufferBound` |
| `UndisturbedIsWhole` | `WholeUndisturbed` |

The places of the pipeline, from the oldest byte to the newest, are what a call
has collected, `pending`, `channel`, `outbox` and `buffer`.

- `PipelineInvariant`: `Placed` says that read one after the other they follow
  what was taken without a gap, up to the last byte that arrived or, once the
  reader was stopped, up to some byte before it. It is kept because every step
  moves a byte from the head of one place to the end of the one before, which
  needs that messages are never empty and that frames are runs (`Shapes`), that
  the reader holds one message at a time and none beside a batch
  (`ReaderInv`), and that only the owner of the mutex has collected anything
  (`LockInv`). `OutInv` says that what came out lies behind what was taken.
- `BoundInvariant`: each place is within its bound, a batch below the limit plus
  one frame. That `BufferBound` follows is arithmetic over the four places.
- `UndisturbedIsWhole` adds `QuietInv`: in a world where nothing goes wrong, all
  that was taken was handed out, by the reads or by the one call of `bytes()`
  that is under way, and whoever saw the end had taken everything.

Assumed: a body and a frame have natural numbers of bytes, and limits are
natural numbers or `NoLimit`.

### AsyncBridgeProofs

| Theorem | Property |
|---|---|
| `TypeCorrect` | `TypeOK` |
| `CancellationReachesTasks` | `CancelReachesTask` |
| `CancelledStaysUnstarted` | `CancelledNeverStarts` |

The invariant adds `Stages`, the order in which the three Options of a call are
emptied: a coroutine is there only between the call and `on_init`, and never in
a cancelled one; a result is under way only when the middleware is over; and a
middleware that runs has its task in the bridge as long as nobody has
cancelled, so that `cancel` finds either the coroutine or the task. `Depth` and
`MaxCalls` are natural numbers, and there is at least one middleware.

### ClientStartProofs

| Theorem | Property |
|---|---|
| `SettingsAreTrue` | `SettingsHold` |
| `RuntimeAsAsked` | `AnswerAsAsked` |
| `FlushLeavesNothing` | `FlushReaches` |
| `RecordsAreKept` | `RecordsKept` |

`StartInv` has three parts. `RuntimesInv`: the calls of `global_handle` know
every default since they began, a runtime that was there then is there still,
and whoever is past the choice has an answer that fits (`AskInv`); to keep
`SettingsHold` a thread that publishes the multi-threaded runtime must have
marked the configuration in the step that read it. `RelayInv`: a record is at
most once in the channel, never in two places, and a flush of everything that
has popped owes nothing that is still in the channel (`Apart`); a flush in
batches ends only over an empty channel. `ClientsInv`: a thread asks for a
runtime exactly while its client is at that step, and flushes only with a
client that is up. `RecordsAreKept` adds `RecordsInv`. `OrderInv`: the channel,
the batch of every flush and what each flush has delivered are rising, and each
in that order is younger than the next. `PlaceInv`: a record that was made is
in exactly one place (the channel, a batch, delivered, lost) and was delivered
at most once, so that they are as many as were made. Assumed: bounds are natural numbers, a batch is at least
one, and loads are made of the values that the code has.

### HeaderMapProofs

| Theorem | Property |
|---|---|
| `IterationIsSound` | `IterationSound` |
| `SecretsAreHidden` | `SecretsStaySecret` |
| `ImplementsMultiMap` | `KeepsPromise` |
| `ViewsCompareContents` | `ViewsCompareContent` |
| `NoDeadlock` | `SomebodyGoesOn`, what is safe about `EveryCallReturns` |

`HeaderInvariant` has three parts. `TablesInv`: a map is a table, entries with
keys of their own and with at least one value (`Tables`), which every operation
keeps, by one lemma each, whatever it does to the order; and its values are of
those the map may hold. A secret value is marked in every map as long as no map
was merged into another (`MayHold`): that is the one way to lose a mark, and the
condition of the property. `LockInv`: the holder of a mutex is the one thread
inside a long call on that map, so that nothing is merged by a call that was not
begun. `IterInv` relates an iterator to the table it began with, `base`: the
keys to come are the rest of it (`KeysLeft`); what came out is of the keys
passed, in their order (`OutInOrder`); the values that came out for a key are
those it had at one moment, and the same holds of the key in front when the
values still to come are added (`OutWasSeen`); and an untouched key had only the
values it has in `base`, so that a panic is over a key that was touched and at
some moment absent (`SeenInv`).

`ImplementsMultiMap` maps the entries to the values of each key. One lemma for
each change of a table says what it does to `GetAll` of every key: a removal
swaps the last entry into the gap (`SwapRemove`), a pop removes the key and adds
it again with what is left, and both leave the values of the other keys alone;
merging a list of pairs gives, by induction on its prefixes, the last value of
each key or all of them (`YieldsPrefix`, `PutPairsValues`). Then every step is
the operation of `MultiMap` with the same answer, or a stutter while a long call
is only begun. The steps that end a long call need `OwnersInv`: whoever is
inside one still holds the mutex, and the content of a map whose mutex is held
cannot be taken away.

`ViewsCompareContents` follows from `TablesInv` and what sorting gives. Every
element has a place of its own, behind those before it and behind earlier equals
(`PlacesClimb`, `PlacesAre`: different positions have different places, so on a
finite list every place is taken); so a sorted list is in order and holds
everything as often as the list did (`InOrder`, `SortedIs`). Of two different
lists one is less, by the first place where they differ (`LexTotal`), and when
the greater is in order some element is in one of them more often
(`LessIsOther`): so two lists are equal when sorted exactly if they hold the
same, each as often (`RichCmpIs`). `items()` holds a key with a value as often as
the key has that value (`YieldsHits`, `ViewsAre`), wherever the entries of the
key are.

`NoDeadlock` (of `SomebodyGoesOn`, defined with its proof: threads inside calls
never all wait, for mutexes or for the GIL) needs of `LockInv` that a held mutex belongs to a thread that is
inside a long call on that map, and `GilInv` on top: where no Python code runs
under a mutex, whoever is inside a call keeps the GIL. So with a GIL there is one
such thread, it holds every mutex that is held, and it would have to wait for
itself. Without a GIL each thread that waits waits for one that merges from
another map, and the maps that are merged from, a set without a ring, would all
be held: one of them is merged with none of them, and its holder goes on.
`Harmless` is the condition, the same as that of `EveryCallReturns`; the theorem
is for any number of threads and maps, where the run checks `EveryCallReturns`
with two.

Assumed (`HeaderAssumption`): names and values are numbers, and the mark of a
free mutex is no thread.

### BuildersProofs

| Theorem | Property |
|---|---|
| `ClientsAsAsked` | `ClientAsAsked` |
| `RequestsAsAsked` | `RequestAsAsked` |
| `ResponsesAsAsked` | `ResponseAsAsked` |
| `SwallowedIsOnce` | `SwallowedOnce` |

A history grows by one call at a time. The first half of the module says what
one more call does to everything that is read off a history (the last value
given, the list of arguments, headers begun anew or added to, the content type
that a form leaves). `Follows`, `Extends` and `Answers` say, for the three
builders, what a call must do to the builder so that it fits the longer history
when it fitted the shorter (`FollowsFits`, `KeepsAppend`, `AnswersFits`); the second
half shows of each setter, and each of its refusals, that it does so.

`BuildersInvariant` has one part for each builder and one for what they
swallow. A builder that can still build fits its history and has built nothing;
a product fits too, because what a spent builder is asked for later is refused
and so counts for nothing (for a response: it fits the history up to its build,
since later calls on a copied builder do count). For requests `Fits` is not
kept by itself: where the defaults of a client enter depends on whether the
request has headers of its own already, so `Keeps` says both what is its own and
what is left of the defaults. `PartsInv`: a part in a form or in a request is
spent, no two of them have it, a form swallowed is spent, and a form with
an async part knows that it is async.

Assumed (`BuildersAssumption`): the content type is a header, header values are
sequences of texts, no value given is the mark of a wrong one, and what stands
for "nothing" is none of the builders.

### Only model-checked

Every liveness property (liveness and ENABLED are beyond the prover):
`TimeoutBoundsSend`, `PoolTimeoutBoundsWait`, `LeaverReturns`,
`CloseFreesPermit`, `QueueMoves`, `OwnerCancelReturns`, `CloseEndsReader`,
`EverybodyReturns`, `CancelReachesRequest`, `EveryCallAnswered`,
`EveryCallReturns` and `EveryBuildEnds`.

## 6. What disagrees with the documentation

Two have a run whose counterexample is the scenario.

- `stream_bytes_cancelled`: `bytes()` collects into a local buffer. When it is
  cancelled what it took is gone while `read_bytes` still is 0, so the next
  `bytes()` returns, and caches, the rest of the body as the whole.
- `headers_open`: `src/docs/performance.md` calls `HeaderMap` thread-safe.
  `safe_lock` waits for the mutex in native code without giving the GIL away,
  while `update()`, `extend()` and `==` run Python code with the mutex held: one
  thread in `h.update(generator)` lets the GIL go, another calls any method of
  `h`, and both wait for ever. Without a GIL, two threads that merge two maps
  into each other do the same. The run `headers` shows that every call returns
  when neither can happen.

Seen while modelling, no run of their own:

- Requests: `select!` polls its branches in random order, so a request sent
  after `close()` can be spawned and even succeed instead of raising
  `ClientClosedError`. `__aexit__` takes the response out of the request and
  then fails to borrow it when a call in another task holds it; the stream stays
  open and a second `__aexit__` finds nothing to close. The first `send()` takes
  the middlewares; if one raises before the request is spawned, the request can
  be sent again and goes out past all of them.
- Bodies: a body reader used after `__aexit__`, or after an error, returns
  `None` as if the body had ended; the four-fold buffer of `BufferBound`.
- Bridge: `on_init` and `on_done` of a cancelled or abandoned call raise into
  the exception handler of the event loop; a waiter that is dropped rather than
  cancelled leaves its task running; an event loop that stops leaves a body
  stream waiting, because the waiter itself keeps the sender alive.
- Header maps: `h == h` and `h.update(h)` lock the mutex of `h` twice in one
  thread. The views are documented in insertion order
  (`src/python/pyreqwest/http/__init__.pyi:294`), which a removal does not keep.
  `<=` of views is that of sorted lists, not of subsets. `update()` and
  `extend()` from another map lose `is_sensitive`.
- Runtimes: `src/python/pyreqwest/runtime/__init__.pyi:4` says that without a
  default the single-threaded runtime is used; the code uses the multi-threaded
  one if it exists, even if all that exists is the error of building it.
- Logging: the thread that loses the race for the channel returns from
  `init_verbose_logging` before the logger is installed, and its first records
  can be dropped.
- Builders: a setter of the client builder that raises while the reqwest
  builder is out spends the builder; `json_handler` keeps `loads` when it
  refuses `dumps`; a `build()` of a response that fails has lost the body, and
  the next makes an empty response; `proxy()` and `multipart()` spend what they
  are given also when the builder that receives it was already spent; a form
  that was once given an async part stays async although the part was refused.
  Removing a default in `header()` and `headers()` changes nothing, since own
  headers replace defaults when they are drained.

## 7. Abstractions and what is left out

- Data: statuses, URLs, errors and payloads are absent or reduced to what
  properties tell apart; a body is a run of positions or a number; header names
  and values are numbers or a few names.
- Time is in ticks, for the two timeouts only; connect and read timeouts of
  reqwest are failures the environment may choose.
- Bounds: `TimeCap` stops the clock of a request after the last deadline,
  `BodyLen`, `MaxFrame` and `Amounts` bound a body, `MaxCalls`, `MaxRequests`
  and `MaxBodies` what user code does, `MaxPairs`, `MaxChanges`, `MaxLong` and
  the `cells` of a world what happens to header maps, `MaxSettings`,
  `MaxRecords` and `MaxFlushes` what clients do to the process, and `Sites` how
  many calls a builder gets. Each appears in a guard of its module.
- External code is modelled by what this code relies on: tokio's semaphore is
  first in first out and hands over permits, a bounded channel blocks when it
  is full and fails when the receiver is gone, `oneshot` delivers once, pyo3's
  cancel handle stays triggered, `asyncio` runs one callback at a time,
  `http::HeaderMap` fills the gap of a removed entry with the last, `OnceLock`
  lets one caller compute and the others wait, reqwest's request builder keeps a
  first error until it builds.
- The blocking client shares tasks, readers and chain with the async one and
  has no cancel handle; it is the part of the models without `Cancel`.
- Borrow conflicts of pyclasses are modelled where a borrow outlives a call
  (responses); the short ones of request and builder objects, which a second
  thread could hit, are not: builders are documented as not thread-safe.
- Not modelled:
  - cookies: a locked wrapper of the `cookie_store` crate, whose matching rules
    are the crate's;
  - URL and MIME types: immutable wrappers of crates;
  - exceptions, conversions and JSON: classifications and conversions without
    state;
  - task locals: a capture of the loop and the context variables of the first
    user;
  - module registration and the Python package (stubs, pytest plugin,
    compatibility layer).
  - within modelled components: the iterators over keys and values and the dict
    views of one key (they copy what they walk), encodings of forms, levels and
    names of loggers, and what each setting means to reqwest.

## 8. Plan

What would come next, in this order.

1. Composition of `ConnectionPool` and `ResponseStream`: an abstract reader
   (runs, stalls, ends) implemented by `ResponseStream`, so that the permit of
   a streamed body is tied to the detailed reader.
2. The mock layer of the pytest plugin and the compatibility layer, if their
   Python side is to be covered.
3. `TaskLocal`: the capture of an event loop by the first user against a client
   that is used from a second loop.
