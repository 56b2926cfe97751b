--------------------------- MODULE RequestLifecycle ---------------------------
(***************************************************************************)
(* What Python code can do with requests, their bodies and the responses   *)
(* it gets, up to the spawner (request.rs, request_body.rs, next.rs and    *)
(* the two request classes): build, copy, share bodies, send, pass any     *)
(* request to next.run(), return any response.                             *)
(*                                                                         *)
(* A request owns its Inner until it is handed to the spawner; a body owns *)
(* its content until then; the middlewares belong to the request until its *)
(* first send(); a Response object owns its inner until a middleware       *)
(* returns it.  Each is an Option that is taken, at different moments, and *)
(* user code runs in between: a call of next.run() is one element of       *)
(* calls, and every middleware that has been entered may act at any time.  *)
(*                                                                         *)
(* Left out: cancellation (AsyncBridge), what the spawner does             *)
(* (ConnectionPool), headers and extensions, which copies do not share.    *)
(***************************************************************************)
EXTENDS Naturals, Sequences

CONSTANTS
    Middlewares,    \* the middlewares there are
    ClientChain,    \* those of the client, in order
    Own,            \* one that a request builder may add
    MaxRequests,    \* bound on the requests built or copied
    MaxBodies,      \* bound on the bodies made
    MaxCalls        \* bound on the calls of send() and next.run()

ASSUME ChainAssumption == ClientChain \in Seq(Middlewares) /\ Own \in Middlewares
ASSUME BoundsAssumption == MaxRequests \in Nat /\ MaxBodies \in Nat /\ MaxCalls \in Nat

VARIABLES
    built,      \* requests made so far: 1..built
    alive,      \* requests that still have their Inner
    body,       \* the body of a request
    chain,      \* its middlewares_next
    given,      \* (history) the middlewares_next it was made with
    bodies,     \* bodies made so far: 1..bodies
    full,       \* bodies that still have their content
    handles,    \* bodies that Python has an object for
    blocked,    \* async iterators of a blocking client: reqwest cannot take them
    calls,      \* every send() and every next.run(), in the order they were made
    spawned     \* (history) what was handed to the spawner

requestVars == <<built, alive, body, chain, given>>
bodyVars == <<bodies, full, handles, blocked>>
vars == <<requestVars, bodyVars, calls, spawned>>

NoBody == 0
NoResponse == 0
NoChain == <<>>
Chains == {NoChain, ClientChain, Append(ClientChain, Own)}
Requests == 1..MaxRequests
Bodies == 1..MaxBodies

\* A call stands in a middleware, before the spawner, or at its end.  Only a
\* call that is "ok" has a Response object, and response says what it owns.
CallRecords ==
    [root : 1..MaxCalls, list : Chains, current : Nat, request : Requests,
     trail : Seq(Middlewares), state : {"middleware", "spawning", "ok", "failed"},
     response : Nat]

TypeOK ==
    /\ built \in 0..MaxRequests /\ alive \subseteq 1..built
    /\ body \in [Requests -> (1..bodies) \cup {NoBody}]
    /\ chain \in [Requests -> Chains] /\ given \in [Requests -> Chains]
    /\ bodies \in 0..MaxBodies
    /\ full \subseteq 1..bodies /\ handles \subseteq 1..bodies /\ blocked \subseteq 1..bodies
    /\ calls \in Seq(CallRecords) /\ Len(calls) <= MaxCalls
    /\ \A c \in DOMAIN calls : calls[c].current \in 1..(Len(calls[c].list) + 1)
    /\ spawned \in Seq([request : Requests, body : Bodies \cup {NoBody}, call : DOMAIN calls])

Init ==
    /\ built = 0 /\ alive = {}
    /\ body = [r \in Requests |-> NoBody]
    /\ chain = [r \in Requests |-> NoChain]
    /\ given = [r \in Requests |-> NoChain]
    /\ bodies = 0 /\ full = {} /\ handles = {} /\ blocked = {}
    /\ calls = <<>> /\ spawned = <<>>

Usable(r) == body[r] = NoBody \/ body[r] \in full

------------------------------------------------------------------------------
\* Making requests.

NewRequest(b, list) ==
    /\ built < MaxRequests
    /\ built' = built + 1
    /\ alive' = alive \cup {built + 1}
    /\ body' = [body EXCEPT ![built + 1] = b]
    /\ chain' = [chain EXCEPT ![built + 1] = list]
    /\ given' = [given EXCEPT ![built + 1] = list]
    /\ UNCHANGED <<calls, spawned>>

\* A body that only the new request knows of.
NewBody(isBlocked) ==
    /\ bodies < MaxBodies
    /\ bodies' = bodies + 1
    /\ full' = full \cup {bodies + 1}
    /\ blocked' = IF isBlocked THEN blocked \cup {bodies + 1} ELSE blocked
    /\ UNCHANGED handles

\* build() of a request builder, with a middleware of its own or not: the list
\* of the client is copied before it is added to.
Build ==
    \E list \in {ClientChain, Append(ClientChain, Own)} :
        \/ NewRequest(NoBody, list) /\ UNCHANGED bodyVars
        \/ NewRequest(bodies + 1, list) /\ \E isBlocked \in BOOLEAN : NewBody(isBlocked)

\* A wrong copy: it shares the body with the original.
CopyShares(r) ==
    /\ r \in alive /\ Usable(r)
    /\ NewRequest(body[r], chain[r])
    /\ UNCHANGED bodyVars

\* copy(): a stream makes its own copy, bytes are cloned.  A body that has been
\* consumed makes it fail.
Copy(r) ==
    /\ r \in alive /\ Usable(r)
    /\ IF body[r] = NoBody
         THEN NewRequest(NoBody, chain[r]) /\ UNCHANGED bodyVars
         ELSE NewRequest(bodies + 1, chain[r]) /\ NewBody(body[r] \in blocked)

\* from_request_and_body() takes the body as it is.
CopyWithBody(r, b) ==
    /\ r \in alive
    /\ NewRequest(b, chain[r])
    /\ UNCHANGED bodyVars

\* The body getter moves the body to the Python heap.
GetBody(r) ==
    /\ r \in alive /\ body[r] \notin handles \cup {NoBody}
    /\ handles' = handles \cup {body[r]}
    /\ UNCHANGED <<requestVars, bodies, full, blocked, calls, spawned>>

\* The body setter.
SetBody(r, b) ==
    /\ r \in alive
    /\ body' = [body EXCEPT ![r] = b]
    /\ UNCHANGED <<built, alive, chain, given, bodyVars, calls, spawned>>

------------------------------------------------------------------------------
\* Sending them.

\* run_inner at a place of a list of middlewares: the middleware there is
\* called with the request, and past the last one it is the spawner's turn.
Call(root, list, current, r, trail) ==
    LET inside == current <= Len(list) IN
    [root |-> root, list |-> list, current |-> current, request |-> r,
     trail |-> IF inside THEN Append(trail, list[current]) ELSE trail,
     state |-> IF inside THEN "middleware" ELSE "spawning", response |-> NoResponse]

\* A wrong send(): the middlewares are taken before the body is looked at.
SendTakesFirst(r) ==
    /\ r \in alive /\ Len(calls) < MaxCalls
    /\ chain' = [chain EXCEPT ![r] = NoChain]
    /\ calls' = IF Usable(r)
                  THEN Append(calls, Call(Len(calls) + 1, chain[r], 1, r, <<>>)) ELSE calls
    /\ UNCHANGED <<built, alive, body, given, bodyVars, spawned>>

\* send() of a request that has its Inner and no consumed body (otherwise it
\* raises, and nothing has changed): its middlewares are taken.
Send(r) ==
    /\ r \in alive /\ Usable(r) /\ Len(calls) < MaxCalls
    /\ chain' = [chain EXCEPT ![r] = NoChain]
    /\ calls' = Append(calls, Call(Len(calls) + 1, chain[r], 1, r, <<>>))
    /\ UNCHANGED <<built, alive, body, given, bodyVars, spawned>>

\* A middleware calls next.run() with any request it can find, any number of
\* times, also several at once.
RunNext(c, r) ==
    LET call == calls[c] IN
    /\ call.state = "middleware" /\ Len(calls) < MaxCalls
    /\ calls' = Append(calls, Call(call.root, call.list, call.current + 1, r, call.trail))
    /\ UNCHANGED <<requestVars, bodyVars, spawned>>

EndCall(c, state, response) ==
    calls' = [calls EXCEPT ![c].state = state, ![c].response = response]

\* A wrong into_reqwest: it leaves the content where it was.
TakeBodyClones(r) == UNCHANGED full

\* into_reqwest empties the body, also when it then refuses an async iterator.
TakeBody(r) == full' = full \ {body[r]}

\* prepare_spawn_request takes Inner out of the request, and then the body out
\* of Inner: what fails from here on has used up the request.
Spawn(c) ==
    LET r == calls[c].request IN
    /\ calls[c].state = "spawning"
    /\ UNCHANGED <<built, body, chain, given, bodies, handles, blocked>>
    /\ alive' = alive \ {r}
    /\ \/ /\ r \notin alive
          /\ EndCall(c, "failed", NoResponse)
          /\ UNCHANGED <<full, spawned>>
       \/ /\ r \in alive /\ ~Usable(r)
          /\ EndCall(c, "failed", NoResponse)
          /\ UNCHANGED <<full, spawned>>
       \/ /\ r \in alive /\ Usable(r) /\ body[r] \in blocked
          /\ EndCall(c, "failed", NoResponse)
          /\ TakeBody(r)
          /\ UNCHANGED spawned
       \/ /\ r \in alive /\ Usable(r) /\ body[r] \notin blocked
          /\ spawned' = Append(spawned, [request |-> r, body |-> body[r], call |-> c])
          /\ TakeBody(r)
          /\ \/ EndCall(c, "failed", NoResponse)
             \/ EndCall(c, "ok", Len(spawned'))

\* A wrong return: the response of the middleware keeps its inner.
ReturnKeeps(c, d) ==
    /\ calls[c].state = "middleware" /\ calls[d].state = "ok"
    /\ EndCall(c, IF calls[d].response = NoResponse THEN "failed" ELSE "ok", calls[d].response)
    /\ UNCHANGED <<requestVars, bodyVars, spawned>>

\* A middleware returns a Response object, of any call: its inner is taken, and
\* goes to the new object that the caller of next.run() or send() gets.  It
\* fails when another middleware has returned the same object before.
Return(c, d) ==
    /\ calls[c].state = "middleware" /\ calls[d].state = "ok"
    /\ calls' = [calls EXCEPT
          ![c].state = IF calls[d].response = NoResponse THEN "failed" ELSE "ok",
          ![c].response = calls[d].response,
          ![d].response = NoResponse]
    /\ UNCHANGED <<requestVars, bodyVars, spawned>>

\* A middleware raises.
Raise(c) ==
    /\ calls[c].state = "middleware"
    /\ EndCall(c, "failed", NoResponse)
    /\ UNCHANGED <<requestVars, bodyVars, spawned>>

------------------------------------------------------------------------------
Next ==
    \/ Build
    \/ \E r \in 1..built :
         \/ Copy(r) \/ GetBody(r) \/ Send(r)
         \/ \E b \in handles : CopyWithBody(r, b)
         \/ \E b \in handles \cup {NoBody} : SetBody(r, b)
         \/ \E c \in DOMAIN calls : RunNext(c, r)
    \/ \E c \in DOMAIN calls :
         \/ Spawn(c) \/ Raise(c)
         \/ \E d \in DOMAIN calls : Return(c, d)

Spec == Init /\ [][Next]_vars

------------------------------------------------------------------------------
\* Bodies are single-use: whatever is copied, shared or set again, a content is
\* handed to the spawner at most once, and a request too.
BodyOnce ==
    \A i, j \in DOMAIN spawned : i # j =>
        /\ spawned[i].request # spawned[j].request
        /\ spawned[i].body # NoBody => spawned[i].body # spawned[j].body

\* A send() that raises before it starts, a copy, a retry and a request swapped
\* on the way cost no middleware: behind the first send() of a request that
\* starts stands the whole list it was made with, in order, and behind a later
\* one of the same request stands none.
TrailWhole ==
    \A i \in DOMAIN spawned :
        LET call == calls[spawned[i].call]
            sent == calls[call.root].request
            first == \A c \in 1..(call.root - 1) : calls[c].root = c => calls[c].request # sent
        IN call.trail = IF first THEN given[sent] ELSE NoChain

\* A response has one owner: two calls, of two tasks or of one, never both end
\* up with it, although a middleware may return what it likes.
ResponseOnce ==
    \A c, d \in DOMAIN calls :
        c # d /\ calls[c].response # NoResponse => calls[c].response # calls[d].response

\* A request that has been used up has been handed to the spawner, unless its
\* body is one that Python could share or that its client cannot send.
OwnBodySpawns ==
    \A r \in (1..built) \ alive :
        \/ \E i \in DOMAIN spawned : spawned[i].request = r
        \/ body[r] \in handles \cup blocked
==============================================================================
