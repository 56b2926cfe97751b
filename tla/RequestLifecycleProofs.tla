------------------------ MODULE RequestLifecycleProofs ------------------------
(***************************************************************************)
(* The safety properties of RequestLifecycle, for every chain of the       *)
(* client and all bounds.                                                  *)
(***************************************************************************)
EXTENDS RequestLifecycle, TLAPS

States == {"middleware", "spawning", "ok", "failed"}

\* Where a call stands in its list, and what it may own.
Places ==
    \A c \in DOMAIN calls :
        /\ calls[c].state = "middleware" => calls[c].current <= Len(calls[c].list)
        /\ calls[c].state = "spawning" => calls[c].current = Len(calls[c].list) + 1
        /\ calls[c].state # "ok" => calls[c].response = NoResponse
        /\ calls[c].response <= Len(spawned)

TypeInv == TypeOK /\ Places

------------------------------------------------------------------------------
\* How a step changes the calls.

\* What a call never changes.
Fixed(c) ==
    /\ calls'[c].root = calls[c].root /\ calls'[c].list = calls[c].list
    /\ calls'[c].current = calls[c].current
    /\ calls'[c].request = calls[c].request /\ calls'[c].trail = calls[c].trail

LEMMA ChainsAreSequences == Chains \subseteq Seq(Middlewares)
BY ChainAssumption DEF Chains, NoChain

LEMMA CallIsRecord ==
    ASSUME NEW root \in 1..MaxCalls, NEW list \in Chains, NEW r \in Requests,
           NEW trail \in Seq(Middlewares), NEW n \in 1..(Len(list) + 1)
    PROVE  Call(root, list, n, r, trail) \in CallRecords
<1>1. list \in Seq(Middlewares)
  BY ChainsAreSequences
<1>2. CASE n <= Len(list)
  <2>1. list[n] \in Middlewares
    BY <1>1, <1>2
  <2>2. Append(trail, list[n]) \in Seq(Middlewares)
    BY <2>1
  <2> QED
    BY <1>1, <1>2, <2>2 DEF Call, CallRecords, NoResponse
<1>3. CASE ~(n <= Len(list))
  BY <1>1, <1>3 DEF Call, CallRecords, NoResponse
<1> QED
  BY <1>2, <1>3

LEMMA AppendCall ==
    ASSUME TypeOK, NEW call \in CallRecords, calls' = Append(calls, call)
    PROVE  /\ calls' \in Seq(CallRecords) /\ Len(calls') = Len(calls) + 1
           /\ DOMAIN calls' = 1..(Len(calls) + 1) /\ DOMAIN calls = 1..Len(calls)
           /\ calls'[Len(calls) + 1] = call
           /\ \A c \in DOMAIN calls : calls'[c] = calls[c]
BY DEF TypeOK

LEMMA EndOneCall ==
    ASSUME TypeOK, NEW c \in DOMAIN calls, NEW state \in States, NEW response \in Nat,
           EndCall(c, state, response)
    PROVE  /\ calls' \in Seq(CallRecords) /\ Len(calls') = Len(calls)
           /\ DOMAIN calls' = DOMAIN calls
           /\ \A d \in DOMAIN calls : Fixed(d)
           /\ \A d \in DOMAIN calls \ {c} : calls'[d] = calls[d]
           /\ calls'[c].state = state /\ calls'[c].response = response
<1>1. calls \in Seq(CallRecords) /\ calls[c] \in CallRecords
  BY DEF TypeOK
<1> DEFINE new == [calls[c] EXCEPT !.state = state, !.response = response]
<1>2. calls' = [calls EXCEPT ![c] = new]
  BY <1>1 DEF EndCall, CallRecords
<1>3. /\ new \in CallRecords
      /\ new.state = state /\ new.response = response
      /\ new.root = calls[c].root /\ new.list = calls[c].list
      /\ new.current = calls[c].current
      /\ new.request = calls[c].request /\ new.trail = calls[c].trail
  BY <1>1 DEF CallRecords, States
<1> HIDE DEF new
<1>4. /\ calls' \in Seq(CallRecords) /\ Len(calls') = Len(calls)
      /\ DOMAIN calls' = DOMAIN calls
      /\ \A d \in DOMAIN calls \ {c} : calls'[d] = calls[d]
      /\ calls'[c] = new
  BY <1>1, <1>2, <1>3
<1>5. \A d \in DOMAIN calls : Fixed(d)
  BY <1>3, <1>4 DEF Fixed
<1> QED
  BY <1>3, <1>4, <1>5

LEMMA ReturnCall ==
    ASSUME TypeOK, NEW c \in DOMAIN calls, NEW d \in DOMAIN calls, Return(c, d)
    PROVE  /\ calls' \in Seq(CallRecords) /\ Len(calls') = Len(calls)
           /\ DOMAIN calls' = DOMAIN calls /\ c # d
           /\ \A e \in DOMAIN calls : Fixed(e)
           /\ \A e \in DOMAIN calls \ {c, d} : calls'[e] = calls[e]
           /\ calls'[c].state = IF calls[d].response = NoResponse THEN "failed" ELSE "ok"
           /\ calls'[c].response = calls[d].response
           /\ calls'[d].state = "ok" /\ calls'[d].response = NoResponse
<1>1. calls \in Seq(CallRecords) /\ calls[c] \in CallRecords /\ calls[d] \in CallRecords
  BY DEF TypeOK
<1>2. c # d
  BY DEF Return
<1> DEFINE ended == IF calls[d].response = NoResponse THEN "failed" ELSE "ok"
           new == [calls[c] EXCEPT !.state = ended, !.response = calls[d].response]
           old == [calls[d] EXCEPT !.response = NoResponse]
<1>3. calls' = [calls EXCEPT ![c] = new, ![d] = old]
  BY <1>1, <1>2 DEF Return, CallRecords
<1>4. /\ new \in CallRecords
      /\ new.state = ended /\ new.response = calls[d].response
      /\ new.root = calls[c].root /\ new.list = calls[c].list
      /\ new.current = calls[c].current
      /\ new.request = calls[c].request /\ new.trail = calls[c].trail
  BY <1>1 DEF CallRecords
<1>5. /\ old \in CallRecords
      /\ old.state = "ok" /\ old.response = NoResponse
      /\ old.root = calls[d].root /\ old.list = calls[d].list
      /\ old.current = calls[d].current
      /\ old.request = calls[d].request /\ old.trail = calls[d].trail
  BY <1>1 DEF CallRecords, NoResponse, Return
<1> HIDE DEF new, old
<1>6. /\ calls' \in Seq(CallRecords) /\ Len(calls') = Len(calls)
      /\ DOMAIN calls' = DOMAIN calls
      /\ \A e \in DOMAIN calls \ {c, d} : calls'[e] = calls[e]
      /\ calls'[c] = new /\ calls'[d] = old
  BY <1>1, <1>2, <1>3, <1>4, <1>5
<1>7. \A e \in DOMAIN calls : Fixed(e)
  BY <1>4, <1>5, <1>6 DEF Fixed
<1> QED
  BY <1>2, <1>4, <1>5, <1>6, <1>7

------------------------------------------------------------------------------
\* What the steps have in common.

\* A new request has no body, one that Python knows, or one made for it.
Makes(b, list) ==
    /\ NewRequest(b, list)
    /\ \/ b \in handles \cup {NoBody} /\ UNCHANGED bodyVars
       \/ b = bodies + 1 /\ \E isBlocked \in BOOLEAN : NewBody(isBlocked)

LEMMA MakingRequests ==
    ASSUME TypeOK,
           Build \/ \E r \in 1..built : Copy(r) \/ \E b \in handles : CopyWithBody(r, b)
    PROVE  \E b \in Bodies \cup {NoBody}, list \in Chains : Makes(b, list)
<1>1. /\ handles \subseteq Bodies /\ bodies \in Nat /\ 1..built \subseteq Requests
      /\ \A isBlocked : NewBody(isBlocked) => bodies + 1 \in Bodies
  BY BoundsAssumption DEF TypeOK, Bodies, Requests, NewBody
<1>2. CASE Build
  <2>1. PICK list \in {ClientChain, Append(ClientChain, Own)} :
           \/ NewRequest(NoBody, list) /\ UNCHANGED bodyVars
           \/ NewRequest(bodies + 1, list) /\ \E isBlocked \in BOOLEAN : NewBody(isBlocked)
    BY <1>2 DEF Build
  <2> QED
    BY <1>1, <2>1 DEF Makes, Chains
<1>3. ASSUME NEW r \in 1..built, Copy(r) \/ \E b \in handles : CopyWithBody(r, b)
      PROVE  \E b \in Bodies \cup {NoBody}, list \in Chains : Makes(b, list)
  <2>1. chain[r] \in Chains
    BY <1>1 DEF TypeOK
  <2>2. (body[r] \in blocked) \in BOOLEAN
    OBVIOUS
  <2>3. \/ NewRequest(NoBody, chain[r]) /\ UNCHANGED bodyVars
        \/ NewRequest(bodies + 1, chain[r]) /\ NewBody(body[r] \in blocked)
        \/ \E b \in handles : NewRequest(b, chain[r]) /\ UNCHANGED bodyVars
    BY <1>3, Zenon DEF Copy, CopyWithBody
  <2> QED
    BY <1>1, <2>1, <2>2, <2>3, Zenon DEF Makes
<1> QED
  BY <1>2, <1>3

\* A call that starts: send() or next.run().
Starts(call) ==
    /\ calls' = Append(calls, call)
    /\ UNCHANGED <<built, alive, body, given, bodyVars, spawned>>

LEMMA StartedCall ==
    ASSUME NEW root, NEW list, NEW n, NEW r, NEW trail,
           NEW call, call = Call(root, list, n, r, trail)
    PROVE  /\ call.root = root /\ call.list = list /\ call.current = n /\ call.request = r
           /\ call.trail = IF n <= Len(list) THEN Append(trail, list[n]) ELSE trail
           /\ call.state = IF n <= Len(list) THEN "middleware" ELSE "spawning"
           /\ call.response = NoResponse
BY DEF Call

LEMMA SendStarts ==
    ASSUME TypeOK, NEW r \in 1..built, Send(r)
    PROVE  LET call == Call(Len(calls) + 1, chain[r], 1, r, <<>>) IN
           /\ Starts(call) /\ call \in CallRecords
           /\ r \in Requests /\ chain[r] \in Chains
           /\ Len(calls) + 1 \in 1..MaxCalls
<1>1. /\ r \in Requests /\ chain[r] \in Chains /\ Len(calls) + 1 \in 1..MaxCalls
      /\ 1 \in 1..(Len(chain[r]) + 1)
  BY BoundsAssumption, ChainsAreSequences DEF TypeOK, Requests, Send
<1>2. <<>> \in Seq(Middlewares)
  OBVIOUS
<1>3. Call(Len(calls) + 1, chain[r], 1, r, <<>>) \in CallRecords
  BY <1>1, <1>2, CallIsRecord
<1> QED
  BY <1>1, <1>3 DEF Starts, Send

LEMMA RunNextStarts ==
    ASSUME TypeInv, NEW r \in 1..built, NEW c \in DOMAIN calls, RunNext(c, r)
    PROVE  LET call == Call(calls[c].root, calls[c].list, calls[c].current + 1, r, calls[c].trail) IN
           /\ Starts(call) /\ call \in CallRecords
           /\ UNCHANGED chain /\ r \in Requests
           /\ Len(calls) + 1 \in 1..MaxCalls
           /\ calls[c] \in CallRecords
           /\ calls[c].current + 1 \in 1..(Len(calls[c].list) + 1)
<1>1. calls[c] \in CallRecords
  BY DEF TypeInv, TypeOK
<1>2. /\ calls[c].root \in 1..MaxCalls /\ calls[c].list \in Chains
      /\ calls[c].trail \in Seq(Middlewares)
  BY <1>1 DEF CallRecords
<1>5. r \in Requests /\ Len(calls) + 1 \in 1..MaxCalls
  <2>1. calls \in Seq(CallRecords) /\ Len(calls) < MaxCalls /\ built \in 0..MaxRequests
    BY DEF TypeInv, TypeOK, RunNext
  <2> QED
    BY <2>1, BoundsAssumption DEF Requests
<1>3. calls[c].current + 1 \in 1..(Len(calls[c].list) + 1)
  BY <1>2, ChainsAreSequences DEF TypeInv, TypeOK, Places, RunNext
<1>4. Call(calls[c].root, calls[c].list, calls[c].current + 1, r, calls[c].trail) \in CallRecords
  BY <1>2, <1>3, <1>5, CallIsRecord
<1> QED
  BY <1>1, <1>2, <1>3, <1>4, <1>5 DEF Starts, RunNext, requestVars

\* The four ways in which prepare_spawn_request ends.
Refuses(c) ==
    /\ EndCall(c, "failed", NoResponse)
    /\ UNCHANGED spawned
    /\ LET r == calls[c].request IN
       \/ r \notin alive /\ UNCHANGED full
       \/ r \in alive /\ ~Usable(r) /\ UNCHANGED full
       \/ r \in alive /\ Usable(r) /\ body[r] \in blocked /\ full' = full \ {body[r]}

Accepts(c) ==
    LET r == calls[c].request IN
    /\ r \in alive /\ Usable(r)
    /\ full' = full \ {body[r]}
    /\ spawned' = Append(spawned, [request |-> r, body |-> body[r], call |-> c])
    /\ EndCall(c, "failed", NoResponse) \/ EndCall(c, "ok", Len(spawned'))

LEMMA SpawnEffect ==
    ASSUME NEW c, Spawn(c)
    PROVE  /\ calls[c].state = "spawning"
           /\ alive' = alive \ {calls[c].request}
           /\ UNCHANGED <<built, body, chain, given, bodies, handles, blocked>>
           /\ Refuses(c) \/ Accepts(c)
BY Zenon DEF Spawn, Refuses, Accepts, TakeBody

------------------------------------------------------------------------------
\* The types, and where calls stand.

LEMMA InitTypeInv == Init => TypeInv
BY BoundsAssumption DEF Init, TypeInv, TypeOK, Places, Chains, NoChain, Bodies, NoBody

LEMMA MakesKeepsTypeInv ==
    ASSUME TypeInv, NEW b \in Bodies \cup {NoBody}, NEW list \in Chains, Makes(b, list)
    PROVE  TypeInv'
<1>1. UNCHANGED <<calls, spawned>> /\ built \in 0..MaxRequests
  BY DEF TypeInv, TypeOK, Makes, NewRequest
<1>2. /\ bodies' \in 0..MaxBodies /\ bodies <= bodies'
      /\ full' \subseteq 1..bodies' /\ handles' \subseteq 1..bodies' /\ blocked' \subseteq 1..bodies'
      /\ b \in (1..bodies') \cup {NoBody}
  <2>1. /\ bodies \in 0..MaxBodies
        /\ full \subseteq 1..bodies /\ handles \subseteq 1..bodies /\ blocked \subseteq 1..bodies
    BY DEF TypeInv, TypeOK
  <2>2. CASE b \in handles \cup {NoBody} /\ UNCHANGED bodyVars
    BY <2>1, <2>2 DEF bodyVars
  <2>3. ASSUME NEW isBlocked \in BOOLEAN, NewBody(isBlocked), b = bodies + 1
        PROVE  /\ bodies' \in 0..MaxBodies /\ bodies <= bodies'
               /\ full' \subseteq 1..bodies' /\ handles' \subseteq 1..bodies'
               /\ blocked' \subseteq 1..bodies' /\ b \in (1..bodies') \cup {NoBody}
    BY <2>1, <2>3, BoundsAssumption DEF NewBody
  <2> QED
    BY <2>1, <2>2, <2>3 DEF Makes
<1>3. built + 1 \in Requests /\ built' = built + 1 /\ built' \in 0..MaxRequests
  BY BoundsAssumption DEF TypeInv, TypeOK, Makes, NewRequest, Requests
<1>4. alive' \subseteq 1..built'
  BY <1>1, <1>3 DEF TypeInv, TypeOK, Makes, NewRequest
<1>5. /\ chain' \in [Requests -> Chains] /\ given' \in [Requests -> Chains]
      /\ body' \in [Requests -> (1..bodies') \cup {NoBody}]
  <2>1. body \in [Requests -> (1..bodies') \cup {NoBody}]
    BY <1>2 DEF TypeInv, TypeOK
  <2> QED
    BY <1>2, <1>3, <2>1 DEF TypeInv, TypeOK, Makes, NewRequest
<1> QED
  BY <1>1, <1>2, <1>3, <1>4, <1>5 DEF TypeInv, TypeOK, Places

Entries(cs) == [request : Requests, body : Bodies \cup {NoBody}, call : cs]

LEMMA EntriesGrow ==
    ASSUME NEW S, NEW T, S \subseteq T
    PROVE  Seq(Entries(S)) \subseteq Seq(Entries(T))
<1>1. Entries(S) \subseteq Entries(T)
  BY DEF Entries
<1> QED
  BY <1>1

LEMMA StartKeepsTypeInv ==
    ASSUME TypeInv, Len(calls) + 1 \in 1..MaxCalls, chain' \in [Requests -> Chains],
           NEW root, NEW list \in Chains, NEW n \in 1..(Len(list) + 1), NEW r, NEW trail,
           NEW call \in CallRecords, call = Call(root, list, n, r, trail), Starts(call)
    PROVE  TypeInv'
<1>1. UNCHANGED <<built, alive, body, given, bodies, full, handles, blocked, spawned>>
  BY DEF Starts, bodyVars
<1>2. TypeOK
  BY DEF TypeInv
<1>3. /\ calls' \in Seq(CallRecords) /\ Len(calls') = Len(calls) + 1
      /\ DOMAIN calls' = 1..(Len(calls) + 1) /\ DOMAIN calls = 1..Len(calls)
      /\ calls'[Len(calls) + 1] = call
      /\ \A c \in DOMAIN calls : calls'[c] = calls[c]
  BY <1>2, AppendCall DEF Starts
<1>4. /\ call.list = list /\ call.current = n
      /\ call.state = IF n <= Len(list) THEN "middleware" ELSE "spawning"
      /\ call.response = NoResponse
  BY StartedCall
<1>5. /\ \A c \in DOMAIN calls : calls[c].current \in 1..(Len(calls[c].list) + 1)
      /\ spawned \in Seq(Entries(DOMAIN calls))
  BY <1>2 DEF TypeOK, Entries
<1>6. spawned \in Seq(Entries(DOMAIN calls'))
  <2>1. DOMAIN calls \subseteq DOMAIN calls'
    BY <1>3
  <2> QED
    BY <1>5, <2>1, EntriesGrow
<1>7. \A c \in DOMAIN calls' : calls'[c].current \in 1..(Len(calls'[c].list) + 1)
  BY <1>3, <1>4, <1>5
<1>8. TypeOK'
  BY <1>1, <1>2, <1>3, <1>6, <1>7 DEF TypeOK, Entries
<1>9. list \in Seq(Middlewares)
  BY ChainsAreSequences
<1>10. Places'
  <2> SUFFICES ASSUME NEW c \in DOMAIN calls'
               PROVE  /\ calls'[c].state = "middleware" => calls'[c].current <= Len(calls'[c].list)
                      /\ calls'[c].state = "spawning" => calls'[c].current = Len(calls'[c].list) + 1
                      /\ calls'[c].state # "ok" => calls'[c].response = NoResponse
                      /\ calls'[c].response <= Len(spawned')
    BY DEF Places
  <2>1. CASE c \in DOMAIN calls
    BY <1>1, <1>3, <2>1 DEF TypeInv, Places
  <2>2. CASE c = Len(calls) + 1
    BY <1>1, <1>3, <1>4, <1>5, <1>9, <2>2 DEF NoResponse
  <2> QED
    BY <1>3, <2>1, <2>2
<1> QED
  BY <1>8, <1>10 DEF TypeInv

\* A call that ends, with or without a new entry in spawned.
LEMMA EndKeepsTypeInv ==
    ASSUME TypeInv, NEW c \in DOMAIN calls, NEW response \in Nat,
           \/ EndCall(c, "failed", response) /\ response = NoResponse
           \/ EndCall(c, "ok", response) /\ response <= Len(spawned'),
           \/ spawned' = spawned
           \/ \E r \in Requests : spawned' =
                Append(spawned, [request |-> r, body |-> body[r], call |-> c]),
           alive' \subseteq alive, full' \subseteq full,
           UNCHANGED <<built, body, chain, given, bodies, handles, blocked>>
    PROVE  TypeInv'
<1>1. TypeOK /\ calls \in Seq(CallRecords)
  BY DEF TypeInv, TypeOK
<1>2. /\ spawned \in Seq(Entries(DOMAIN calls)) /\ spawned' \in Seq(Entries(DOMAIN calls))
      /\ Len(spawned) \in Nat /\ Len(spawned') \in Nat /\ Len(spawned) <= Len(spawned')
  <2>1. spawned \in Seq(Entries(DOMAIN calls))
    BY <1>1 DEF TypeOK, Entries
  <2>2. ASSUME NEW r \in Requests, NEW e, e = [request |-> r, body |-> body[r], call |-> c]
        PROVE  e \in Entries(DOMAIN calls)
    <3>1. body[r] \in Bodies \cup {NoBody}
      BY <1>1, BoundsAssumption DEF TypeOK, Bodies
    <3> QED
      BY <2>2, <3>1 DEF Entries
  <2>3. \/ spawned' = spawned
        \/ \E e \in Entries(DOMAIN calls) : spawned' = Append(spawned, e)
    BY <2>2
  <2> QED
    BY <2>1, <2>3
<1>3. PICK state \in {"ok", "failed"} :
        /\ EndCall(c, state, response) /\ state \in States
        /\ state = "failed" => response = NoResponse
        /\ response <= Len(spawned')
  BY <1>2 DEF NoResponse, States
<1>4. /\ calls' \in Seq(CallRecords) /\ Len(calls') = Len(calls)
      /\ DOMAIN calls' = DOMAIN calls
      /\ \A d \in DOMAIN calls : Fixed(d)
      /\ \A d \in DOMAIN calls \ {c} : calls'[d] = calls[d]
      /\ calls'[c].state = state /\ calls'[c].response = response
  BY <1>1, <1>3, EndOneCall
<1>5. TypeOK'
  <2>1. \A d \in DOMAIN calls' : calls'[d].current \in 1..(Len(calls'[d].list) + 1)
    BY <1>1, <1>4 DEF TypeOK, Fixed
  <2> QED
    BY <1>1, <1>2, <1>4, <2>1 DEF TypeOK, Entries
<1>6. Places'
  <2> SUFFICES ASSUME NEW d \in DOMAIN calls
               PROVE  /\ calls'[d].state = "middleware" => calls'[d].current <= Len(calls'[d].list)
                      /\ calls'[d].state = "spawning" => calls'[d].current = Len(calls'[d].list) + 1
                      /\ calls'[d].state # "ok" => calls'[d].response = NoResponse
                      /\ calls'[d].response <= Len(spawned')
    BY <1>4 DEF Places
  <2>1. CASE d = c
    BY <1>3, <1>4, <2>1
  <2>2. CASE d # c
    <3>1. calls'[d] = calls[d] /\ calls[d] \in CallRecords
      BY <1>1, <1>4, <2>2
    <3>2. calls[d].response \in Nat
      BY <3>1 DEF CallRecords
    <3> QED
      BY <1>2, <3>1, <3>2 DEF TypeInv, Places
  <2> QED
    BY <2>1, <2>2
<1> QED
  BY <1>5, <1>6 DEF TypeInv

LEMMA ReturnKeepsTypeInv ==
    ASSUME TypeInv, NEW c \in DOMAIN calls, NEW d \in DOMAIN calls, Return(c, d)
    PROVE  TypeInv'
<1>1. TypeOK /\ UNCHANGED <<requestVars, bodyVars, spawned>>
  BY DEF TypeInv, Return
<1>2. /\ calls' \in Seq(CallRecords) /\ Len(calls') = Len(calls)
      /\ DOMAIN calls' = DOMAIN calls /\ c # d
      /\ \A e \in DOMAIN calls : Fixed(e)
      /\ \A e \in DOMAIN calls \ {c, d} : calls'[e] = calls[e]
      /\ calls'[c].state = IF calls[d].response = NoResponse THEN "failed" ELSE "ok"
      /\ calls'[c].response = calls[d].response
      /\ calls'[d].state = "ok" /\ calls'[d].response = NoResponse
  BY <1>1, ReturnCall
<1>3. TypeOK'
  <2>1. \A e \in DOMAIN calls' : calls'[e].current \in 1..(Len(calls'[e].list) + 1)
    BY <1>1, <1>2 DEF TypeOK, Fixed
  <2> QED
    BY <1>1, <1>2, <2>1 DEF TypeOK, requestVars, bodyVars
<1>4. Places'
  <2>1. \A e \in DOMAIN calls : e \notin {c, d} => calls'[e] = calls[e]
    BY <1>2
  <2>2. spawned' = spawned /\ Len(spawned) \in Nat
    BY <1>1 DEF TypeOK
  <2> QED
    BY <1>2, <2>1, <2>2 DEF TypeInv, Places, NoResponse
<1> QED
  BY <1>3, <1>4 DEF TypeInv

LEMMA NextKeepsTypeInv == TypeInv /\ [Next]_vars => TypeInv'
<1> SUFFICES ASSUME TypeInv, [Next]_vars PROVE TypeInv'
  OBVIOUS
<1>0. TypeOK /\ 1..built \subseteq Requests
  BY BoundsAssumption DEF TypeInv, TypeOK, Requests
<1>1. CASE Build \/ \E r \in 1..built : Copy(r) \/ \E b \in handles : CopyWithBody(r, b)
  BY <1>0, <1>1, MakingRequests, MakesKeepsTypeInv
<1>2. ASSUME NEW r \in 1..built, GetBody(r)
      PROVE  TypeInv'
  <2>1. handles' \subseteq 1..bodies
    BY <1>0, <1>2 DEF TypeOK, GetBody
  <2> QED
    BY <1>0, <1>2, <2>1 DEF TypeInv, TypeOK, Places, GetBody, requestVars
<1>3. ASSUME NEW r \in 1..built, NEW b \in handles \cup {NoBody}, SetBody(r, b)
      PROVE  TypeInv'
  <2>1. b \in (1..bodies) \cup {NoBody}
    BY <1>0 DEF TypeOK
  <2> QED
    BY <1>0, <1>3, <2>1 DEF TypeInv, TypeOK, Places, SetBody, bodyVars
<1>4. ASSUME NEW r \in 1..built, Send(r)
      PROVE  TypeInv'
  <2>1. chain' \in [Requests -> Chains]
    BY <1>0, <1>4 DEF TypeOK, Send, Chains
  <2>2. 1 \in 1..(Len(chain[r]) + 1)
    BY <1>0, ChainsAreSequences DEF TypeOK
  <2> QED
    BY <1>0, <1>4, <2>1, <2>2, SendStarts, StartKeepsTypeInv
<1>5. ASSUME NEW r \in 1..built, NEW c \in DOMAIN calls, RunNext(c, r)
      PROVE  TypeInv'
  <2>1. calls[c].list \in Chains /\ chain \in [Requests -> Chains]
    BY <1>0, <1>5, RunNextStarts DEF CallRecords, TypeOK
  <2> QED
    BY <1>5, <2>1, RunNextStarts, StartKeepsTypeInv
<1>6. ASSUME NEW c \in DOMAIN calls, Spawn(c)
      PROVE  TypeInv'
  <2>1. calls[c].request \in Requests
    <3>1. calls[c] \in CallRecords
      BY <1>0 DEF TypeOK
    <3> QED
      BY <3>1 DEF CallRecords
  <2>2. Len(spawned) \in Nat /\ (Accepts(c) => Len(spawned') \in Nat)
    BY <1>0 DEF TypeOK, Accepts
  <2>3. alive' \subseteq alive /\ full' \subseteq full
    BY <1>6, SpawnEffect DEF Refuses, Accepts
  <2>4. CASE Refuses(c)
    BY <1>6, <2>3, <2>4, SpawnEffect, EndKeepsTypeInv DEF Refuses, NoResponse
  <2>5. CASE Accepts(c) /\ EndCall(c, "failed", NoResponse)
    BY <1>6, <2>1, <2>3, <2>5, SpawnEffect, EndKeepsTypeInv DEF Accepts, NoResponse
  <2>6. CASE Accepts(c) /\ EndCall(c, "ok", Len(spawned'))
    BY <1>6, <2>1, <2>2, <2>3, <2>6, SpawnEffect, EndKeepsTypeInv DEF Accepts
  <2> QED
    BY <1>6, <2>4, <2>5, <2>6, SpawnEffect DEF Accepts
<1>7. ASSUME NEW c \in DOMAIN calls, Raise(c)
      PROVE  TypeInv'
  BY <1>7, EndKeepsTypeInv DEF Raise, NoResponse, requestVars, bodyVars
<1>8. ASSUME NEW c \in DOMAIN calls, NEW d \in DOMAIN calls, Return(c, d)
      PROVE  TypeInv'
  BY <1>8, ReturnKeepsTypeInv
<1>9. CASE UNCHANGED vars
  BY <1>9 DEF TypeInv, TypeOK, Places, vars, requestVars, bodyVars
<1> QED
  BY <1>1, <1>2, <1>3, <1>4, <1>5, <1>6, <1>7, <1>8, <1>9 DEF Next

\* Every variable keeps its type, and a call its place in the list, whatever
\* user code does with requests, bodies and responses.
THEOREM TypeCorrect == Spec => []TypeOK
<1>1. TypeInv => TypeOK
  BY DEF TypeInv
<1> QED
  BY <1>1, InitTypeInv, NextKeepsTypeInv, PTL DEF Spec

------------------------------------------------------------------------------
\* Bodies and requests.

\* Whatever has been spawned is used up.
Spent ==
    \A i \in DOMAIN spawned :
        /\ spawned[i].request \in (1..built) \ alive
        /\ spawned[i].body # NoBody => spawned[i].body \in (1..bodies) \ full

\* A step that spawns nothing brings nothing back.
Quiet ==
    /\ spawned' = spawned
    /\ built' \in Nat /\ built <= built' /\ bodies' \in Nat /\ bodies <= bodies'
    /\ \A r \in 1..built : r \in alive' => r \in alive
    /\ \A b \in 1..bodies : b \in full' => b \in full

LEMMA QuietOrAccepts ==
    ASSUME TypeInv, [Next]_vars
    PROVE  Quiet \/ \E c \in DOMAIN calls : Spawn(c) /\ Accepts(c)
<1>0. TypeOK /\ built \in Nat /\ bodies \in Nat
  BY BoundsAssumption DEF TypeInv, TypeOK
<1>1. CASE Build \/ \E r \in 1..built : Copy(r) \/ \E b \in handles : CopyWithBody(r, b)
  <2>1. PICK b, list : Makes(b, list)
    BY <1>0, <1>1, MakingRequests
  <2>2. spawned' = spawned /\ built' = built + 1 /\ alive' = alive \cup {built + 1}
    BY <2>1 DEF Makes, NewRequest
  <2>3. \/ bodies' = bodies /\ full' = full
        \/ bodies' = bodies + 1 /\ full' = full \cup {bodies + 1}
    BY <2>1 DEF Makes, NewBody, bodyVars
  <2> QED
    BY <1>0, <2>2, <2>3 DEF Quiet
<1>2. ASSUME NEW r \in 1..built,
             \/ GetBody(r) \/ Send(r)
             \/ \E b \in handles \cup {NoBody} : SetBody(r, b)
             \/ \E c \in DOMAIN calls : RunNext(c, r)
      PROVE  Quiet
  <2>1. UNCHANGED <<built, alive, bodies, full, spawned>>
    BY <1>2 DEF GetBody, SetBody, Send, RunNext, requestVars, bodyVars
  <2> QED
    BY <1>0, <2>1 DEF Quiet
<1>3. ASSUME NEW c \in DOMAIN calls, Spawn(c)
      PROVE  Quiet \/ Accepts(c)
  <2>1. CASE Refuses(c)
    <3>1. /\ UNCHANGED <<built, bodies, spawned>>
          /\ alive' \subseteq alive /\ full' \subseteq full
      BY <1>3, <2>1, SpawnEffect DEF Refuses
    <3> QED
      BY <1>0, <3>1 DEF Quiet
  <2> QED
    BY <1>3, <2>1, SpawnEffect
<1>4. ASSUME NEW c \in DOMAIN calls, Raise(c) \/ \E d \in DOMAIN calls : Return(c, d)
      PROVE  Quiet
  <2>1. UNCHANGED <<built, alive, bodies, full, spawned>>
    BY <1>4 DEF Raise, Return, requestVars, bodyVars
  <2> QED
    BY <1>0, <2>1 DEF Quiet
<1>5. CASE UNCHANGED vars
  BY <1>0, <1>5 DEF Quiet, vars, requestVars, bodyVars
<1> QED
  BY <1>1, <1>2, <1>3, <1>4, <1>5 DEF Next

\* What Accepts adds to spawned.
LEMMA AcceptedEntry ==
    ASSUME TypeInv, NEW c \in DOMAIN calls, Accepts(c)
    PROVE  LET r == calls[c].request IN
           /\ DOMAIN spawned' = 1..(Len(spawned) + 1) /\ DOMAIN spawned = 1..Len(spawned)
           /\ Len(spawned) \in Nat
           /\ \A i \in DOMAIN spawned : spawned'[i] = spawned[i]
           /\ spawned'[Len(spawned) + 1].request = r
           /\ spawned'[Len(spawned) + 1].body = body[r]
           /\ spawned'[Len(spawned) + 1].call = c
           /\ r \in alive /\ r \in 1..built
           /\ body[r] # NoBody => body[r] \in full /\ body[r] \in 1..bodies
<1> DEFINE r == calls[c].request
           e == [request |-> r, body |-> body[r], call |-> c]
<1>1. spawned \in Seq(Entries(DOMAIN calls)) /\ alive \subseteq 1..built /\ full \subseteq 1..bodies
  BY DEF TypeInv, TypeOK, Entries
<1>2. spawned' = Append(spawned, e) /\ r \in alive /\ Usable(r)
  BY DEF Accepts
<1>3. e.request = r /\ e.body = body[r] /\ e.call = c
  OBVIOUS
<1>4. body[r] # NoBody => body[r] \in full
  BY <1>2 DEF Usable
<1> HIDE DEF e, r
<1>5. /\ DOMAIN spawned' = 1..(Len(spawned) + 1) /\ DOMAIN spawned = 1..Len(spawned)
      /\ Len(spawned) \in Nat
      /\ \A i \in DOMAIN spawned : spawned'[i] = spawned[i]
      /\ spawned'[Len(spawned) + 1] = e
  BY <1>1, <1>2
<1> QED
  BY <1>1, <1>2, <1>3, <1>4, <1>5 DEF r

LEMMA NextKeepsBodyOnce == TypeInv /\ Spent /\ BodyOnce /\ [Next]_vars => Spent' /\ BodyOnce'
<1> SUFFICES ASSUME TypeInv, Spent, BodyOnce, [Next]_vars PROVE Spent' /\ BodyOnce'
  OBVIOUS
<1>1. built \in Nat /\ bodies \in Nat
  BY BoundsAssumption DEF TypeInv, TypeOK
<1>2. CASE Quiet
  BY <1>1, <1>2 DEF Quiet, Spent, BodyOnce
<1>3. ASSUME NEW c \in DOMAIN calls, Spawn(c), Accepts(c)
      PROVE  Spent' /\ BodyOnce'
  <2> DEFINE r == calls[c].request
             n == Len(spawned) + 1
  <2>1. /\ DOMAIN spawned' = 1..n /\ DOMAIN spawned = 1..(n - 1) /\ n \in Nat \ {0}
        /\ \A i \in DOMAIN spawned : spawned'[i] = spawned[i]
        /\ spawned'[n].request = r /\ spawned'[n].body = body[r]
        /\ r \in alive /\ r \in 1..built
        /\ body[r] # NoBody => body[r] \in full /\ body[r] \in 1..bodies
    BY <1>3, AcceptedEntry
  <2>2. /\ alive' = alive \ {r} /\ full' = full \ {body[r]}
        /\ UNCHANGED <<built, bodies>>
    BY <1>3, SpawnEffect DEF Accepts
  <2> HIDE DEF r, n
  <2>3. Spent'
    BY <2>1, <2>2 DEF Spent
  <2>4. ASSUME NEW i \in DOMAIN spawned
        PROVE  /\ spawned'[i].request # spawned'[n].request
               /\ spawned'[i].body # NoBody => spawned'[i].body # spawned'[n].body
    BY <2>1, <2>4 DEF Spent
  <2>5. BodyOnce'
    <3> SUFFICES ASSUME NEW i \in 1..n, NEW j \in 1..n, i # j
                 PROVE  /\ spawned'[i].request # spawned'[j].request
                        /\ spawned'[i].body # NoBody => spawned'[i].body # spawned'[j].body
      BY <2>1 DEF BodyOnce
    <3>1. CASE i \in DOMAIN spawned /\ j \in DOMAIN spawned
      BY <2>1, <3>1 DEF BodyOnce
    <3>2. CASE i = n
      BY <2>1, <2>4, <3>2
    <3>3. CASE j = n
      BY <2>1, <2>4, <3>3
    <3> QED
      BY <2>1, <3>1, <3>2, <3>3
  <2> QED
    BY <2>3, <2>5
<1> QED
  BY <1>2, <1>3, QuietOrAccepts

\* Bodies and requests are single-use, however they are copied and shared.
THEOREM BodiesSpentOnce == Spec => []BodyOnce
<1>1. Init => Spent /\ BodyOnce
  BY DEF Init, Spent, BodyOnce
<1> QED
  BY <1>1, InitTypeInv, NextKeepsTypeInv, NextKeepsBodyOnce, PTL DEF Spec

\* A request that has not been spawned still has what it needs: its body is
\* full unless Python knows of it, and two requests share only such bodies.
OwnBodies ==
    /\ \A r \in alive : body[r] \in full \cup handles \cup {NoBody}
    /\ \A r, q \in alive : r # q /\ body[r] = body[q] => body[r] \in handles \cup {NoBody}

LEMMA MakesKeepsOwnBodies ==
    ASSUME TypeInv, OwnBodies, OwnBodySpawns, NEW b, NEW list, Makes(b, list)
    PROVE  OwnBodies' /\ OwnBodySpawns'
<1>1. /\ built \in Nat /\ bodies \in Nat /\ alive \subseteq 1..built
      /\ body \in [Requests -> (1..bodies) \cup {NoBody}]
      /\ 1..built \subseteq Requests
  BY BoundsAssumption DEF TypeInv, TypeOK, Requests
<1>2. /\ built' = built + 1 /\ alive' = alive \cup {built + 1}
      /\ built + 1 \in Requests
      /\ body' = [body EXCEPT ![built + 1] = b] /\ spawned' = spawned
  BY <1>1, BoundsAssumption DEF Makes, NewRequest, Requests
<1>3. \A r \in 1..built : body'[r] = body[r] /\ body[r] \in (1..bodies) \cup {NoBody}
  BY <1>1, <1>2
<1>4. body'[built + 1] = b
  BY <1>1, <1>2
<1>5. /\ full \subseteq full' /\ handles' = handles /\ blocked \subseteq blocked'
      /\ \/ b \in handles \cup {NoBody}
         \/ b = bodies + 1 /\ b \in full'
  BY DEF Makes, NewBody, bodyVars
<1>6. \A r \in alive' : r \in alive \/ r = built + 1
  BY <1>2
<1>7. \A r \in alive' : body'[r] \in full' \cup handles' \cup {NoBody}
  BY <1>1, <1>3, <1>4, <1>5, <1>6 DEF OwnBodies
<1>8. ASSUME NEW r \in alive', NEW q \in alive', r # q, body'[r] = body'[q]
      PROVE  body'[r] \in handles' \cup {NoBody}
  <2>1. CASE r \in alive /\ q \in alive
    BY <1>1, <1>3, <1>5, <1>8, <2>1 DEF OwnBodies
  <2>2. CASE r = built + 1 /\ q \in alive
    <3>1. b # bodies + 1
      BY <1>1, <1>3, <1>4, <1>8, <2>2 DEF NoBody
    <3> QED
      BY <1>4, <1>5, <2>2, <3>1
  <2>3. CASE q = built + 1 /\ r \in alive
    <3>1. b # bodies + 1
      BY <1>1, <1>3, <1>4, <1>8, <2>3 DEF NoBody
    <3> QED
      BY <1>4, <1>5, <1>8, <2>3, <3>1
  <2> QED
    BY <1>6, <1>8, <2>1, <2>2, <2>3
<1>9. OwnBodySpawns'
  <2>1. ASSUME NEW r \in (1..built') \ alive'
        PROVE  \/ \E i \in DOMAIN spawned' : spawned'[i].request = r
               \/ body'[r] \in handles' \cup blocked'
    <3>1. r \in (1..built) \ alive
      BY <1>1, <1>2
    <3> QED
      BY <1>2, <1>3, <1>5, <3>1 DEF OwnBodySpawns
  <2> QED
    BY <2>1 DEF OwnBodySpawns
<1> QED
  BY <1>7, <1>8, <1>9 DEF OwnBodies

LEMMA SpawnKeepsOwnBodies ==
    ASSUME TypeInv, OwnBodies, OwnBodySpawns, NEW c \in DOMAIN calls, Spawn(c)
    PROVE  OwnBodies' /\ OwnBodySpawns'
<1> DEFINE r == calls[c].request
<1>1. alive' = alive \ {r} /\ UNCHANGED <<built, body, handles, blocked>>
  BY SpawnEffect
<1>2. \/ full' = full
      \/ r \in alive /\ full' = full \ {body[r]}
  <2>1. CASE Refuses(c)
    BY <2>1, Zenon DEF Refuses
  <2>2. CASE Accepts(c)
    BY <2>2, Zenon DEF Accepts
  <2> QED
    BY <2>1, <2>2, SpawnEffect
<1>3. OwnBodies'
  <2>1. ASSUME NEW q \in alive'
        PROVE  body[q] \in full' \cup handles \cup {NoBody}
    <3>1. q \in alive /\ q # r
      BY <1>1
    <3> QED
      BY <1>2, <3>1 DEF OwnBodies
  <2> QED
    BY <1>1, <2>1 DEF OwnBodies
<1>4. \A i \in DOMAIN spawned : i \in DOMAIN spawned' /\ spawned'[i] = spawned[i]
  <2>1. CASE Refuses(c)
    BY <2>1 DEF Refuses
  <2>2. CASE Accepts(c)
    BY <2>2, AcceptedEntry
  <2> QED
    BY <2>1, <2>2, SpawnEffect
<1>5. r \in alive => \/ \E i \in DOMAIN spawned' : spawned'[i].request = r
                     \/ body[r] \in handles \cup blocked
  <2>1. CASE Refuses(c)
    BY <2>1 DEF Refuses, Usable, OwnBodies
  <2>2. CASE Accepts(c)
    <3>1. Len(spawned) + 1 \in DOMAIN spawned' /\ spawned'[Len(spawned) + 1].request = r
      BY <2>2, AcceptedEntry
    <3> QED
      BY <3>1
  <2> QED
    BY <2>1, <2>2, SpawnEffect
<1>6. OwnBodySpawns'
  <2>1. ASSUME NEW q \in (1..built) \ alive'
        PROVE  \/ \E i \in DOMAIN spawned' : spawned'[i].request = q
               \/ body[q] \in handles \cup blocked
    <3>1. CASE q \in alive
      BY <1>1, <1>5, <3>1
    <3>2. CASE q \notin alive
      BY <1>4, <3>2 DEF OwnBodySpawns
    <3> QED
      BY <3>1, <3>2
  <2> QED
    BY <1>1, <2>1 DEF OwnBodySpawns
<1> QED
  BY <1>3, <1>6

LEMMA NextKeepsOwnBodies ==
    TypeInv /\ OwnBodies /\ OwnBodySpawns /\ [Next]_vars => OwnBodies' /\ OwnBodySpawns'
<1> SUFFICES ASSUME TypeInv, OwnBodies, OwnBodySpawns, [Next]_vars
             PROVE  OwnBodies' /\ OwnBodySpawns'
  OBVIOUS
<1>1. CASE Build \/ \E r \in 1..built : Copy(r) \/ \E b \in handles : CopyWithBody(r, b)
  BY <1>1, MakingRequests, MakesKeepsOwnBodies DEF TypeInv
<1>2. ASSUME NEW r \in 1..built, GetBody(r)
      PROVE  OwnBodies' /\ OwnBodySpawns'
  <2>1. /\ handles' = handles \cup {body[r]}
        /\ UNCHANGED <<built, alive, body, full, blocked, spawned>>
    BY <1>2 DEF GetBody, requestVars
  <2> QED
    BY <2>1 DEF OwnBodies, OwnBodySpawns
<1>3. ASSUME NEW r \in 1..built, NEW b \in handles \cup {NoBody}, SetBody(r, b)
      PROVE  OwnBodies' /\ OwnBodySpawns'
  <2>1. /\ r \in alive /\ body' = [body EXCEPT ![r] = b]
        /\ UNCHANGED <<built, alive, full, handles, blocked, spawned>>
    BY <1>3 DEF SetBody, bodyVars
  <2>2. /\ \A q \in alive : q # r => body'[q] = body[q]
        /\ body'[r] = b
        /\ \A q \in (1..built) \ alive : body'[q] = body[q]
    BY <2>1, BoundsAssumption DEF TypeInv, TypeOK, Requests
  <2> QED
    BY <2>1, <2>2 DEF OwnBodies, OwnBodySpawns
<1>4. ASSUME NEW r \in 1..built, Send(r) \/ \E c \in DOMAIN calls : RunNext(c, r)
      PROVE  OwnBodies' /\ OwnBodySpawns'
  <2>1. UNCHANGED <<built, alive, body, full, handles, blocked, spawned>>
    BY <1>4 DEF Send, RunNext, requestVars, bodyVars
  <2> QED
    BY <2>1 DEF OwnBodies, OwnBodySpawns
<1>5. ASSUME NEW c \in DOMAIN calls, Raise(c) \/ \E d \in DOMAIN calls : Return(c, d)
      PROVE  OwnBodies' /\ OwnBodySpawns'
  <2>1. UNCHANGED <<built, alive, body, full, handles, blocked, spawned>>
    BY <1>5 DEF Raise, Return, requestVars, bodyVars
  <2> QED
    BY <2>1 DEF OwnBodies, OwnBodySpawns
<1>6. CASE UNCHANGED vars
  BY <1>6 DEF vars, requestVars, bodyVars, OwnBodies, OwnBodySpawns
<1> QED
  BY <1>1, <1>2, <1>3, <1>4, <1>5, <1>6, SpawnKeepsOwnBodies DEF Next

\* Only a shared body, or one its client cannot send, makes a send() use up a
\* request without spawning it.
THEOREM OwnBodiesAreSpawned == Spec => []OwnBodySpawns
<1>1. Init => OwnBodies /\ OwnBodySpawns
  BY DEF Init, OwnBodies, OwnBodySpawns
<1> QED
  BY <1>1, InitTypeInv, NextKeepsTypeInv, NextKeepsOwnBodies, PTL DEF Spec

------------------------------------------------------------------------------
\* Responses.

LEMMA NextKeepsResponseOnce == TypeInv /\ ResponseOnce /\ [Next]_vars => ResponseOnce'
<1> SUFFICES ASSUME TypeInv, ResponseOnce, [Next]_vars PROVE ResponseOnce'
  OBVIOUS
<1>0. TypeOK /\ calls \in Seq(CallRecords)
  BY DEF TypeInv, TypeOK
<1>1. ASSUME NEW root, NEW list, NEW n, NEW r, NEW trail, NEW call \in CallRecords,
             call = Call(root, list, n, r, trail), Starts(call)
      PROVE  ResponseOnce'
  <2>1. /\ DOMAIN calls' = 1..(Len(calls) + 1) /\ DOMAIN calls = 1..Len(calls)
        /\ calls'[Len(calls) + 1] = call
        /\ \A c \in DOMAIN calls : calls'[c] = calls[c]
    BY <1>0, <1>1, AppendCall DEF Starts
  <2>2. call.response = NoResponse /\ Len(calls) \in Nat
    BY <1>0, <1>1, StartedCall
  <2>3. \A c \in DOMAIN calls' : c \in DOMAIN calls \/ calls'[c].response = NoResponse
    BY <2>1, <2>2
  <2> QED
    BY <2>1, <2>3 DEF ResponseOnce
<1>2. ASSUME NEW r \in 1..built, Send(r) \/ \E c \in DOMAIN calls : RunNext(c, r)
      PROVE  ResponseOnce'
  BY <1>0, <1>1, <1>2, SendStarts, RunNextStarts
<1>3. ASSUME NEW c \in DOMAIN calls, NEW state \in States, NEW response \in Nat,
             EndCall(c, state, response),
             \/ response = NoResponse
             \/ \A d \in DOMAIN calls : calls[d].response # response
      PROVE  ResponseOnce'
  <2>1. /\ DOMAIN calls' = DOMAIN calls
        /\ \A d \in DOMAIN calls \ {c} : calls'[d] = calls[d]
        /\ calls'[c].response = response
    BY <1>0, <1>3, EndOneCall
  <2> QED
    BY <1>3, <2>1 DEF ResponseOnce
<1>4. ASSUME NEW c \in DOMAIN calls, Spawn(c)
      PROVE  ResponseOnce'
  <2>1. NoResponse \in Nat /\ "failed" \in States /\ "ok" \in States
    BY DEF NoResponse, States
  <2>2. CASE EndCall(c, "failed", NoResponse)
    BY <1>3, <2>1, <2>2
  <2>3. CASE Accepts(c) /\ EndCall(c, "ok", Len(spawned'))
    <3>1. Len(spawned) \in Nat /\ Len(spawned') = Len(spawned) + 1
      BY <1>0, <2>3 DEF TypeOK, Accepts
    <3>2. \A d \in DOMAIN calls : calls[d].response \in Nat
      <4>1. \A d \in DOMAIN calls : calls[d] \in CallRecords
        BY <1>0
      <4>2. \A call \in CallRecords : call.response \in Nat
        BY DEF CallRecords
      <4> QED
        BY <4>1, <4>2
    <3>3. \A d \in DOMAIN calls : calls[d].response # Len(spawned')
      BY <3>1, <3>2 DEF TypeInv, Places
    <3> QED
      BY <1>3, <2>1, <2>3, <3>1, <3>3
  <2> QED
    BY <1>4, <2>2, <2>3, SpawnEffect DEF Refuses, Accepts
<1>5. ASSUME NEW c \in DOMAIN calls, Raise(c)
      PROVE  ResponseOnce'
  BY <1>3, <1>5 DEF Raise, NoResponse, States
<1>6. ASSUME NEW c \in DOMAIN calls, NEW d \in DOMAIN calls, Return(c, d)
      PROVE  ResponseOnce'
  <2>1. /\ DOMAIN calls' = DOMAIN calls /\ c # d
        /\ \A e \in DOMAIN calls \ {c, d} : calls'[e] = calls[e]
        /\ calls'[c].response = calls[d].response
        /\ calls'[d].response = NoResponse
    BY <1>0, <1>6, ReturnCall
  <2> QED
    BY <2>1 DEF ResponseOnce
<1>7. ASSUME UNCHANGED calls
      PROVE  ResponseOnce'
  BY <1>7 DEF ResponseOnce
<1>8. ASSUME Build \/ \E r \in 1..built : Copy(r) \/ \E b \in handles : CopyWithBody(r, b)
      PROVE  UNCHANGED calls
  BY <1>0, <1>8, MakingRequests DEF Makes, NewRequest
<1>9. ASSUME NEW r \in 1..built, GetBody(r) \/ \E b \in handles \cup {NoBody} : SetBody(r, b)
      PROVE  UNCHANGED calls
  BY <1>9 DEF GetBody, SetBody
<1>10. UNCHANGED vars => UNCHANGED calls
  BY DEF vars
<1> QED
  BY <1>2, <1>4, <1>5, <1>6, <1>7, <1>8, <1>9, <1>10 DEF Next

\* A response has one owner, whatever middlewares return.
THEOREM ResponsesOwnedOnce == Spec => []ResponseOnce
<1>1. Init => ResponseOnce
  BY DEF Init, ResponseOnce
<1> QED
  BY <1>1, InitTypeInv, NextKeepsTypeInv, NextKeepsResponseOnce, PTL DEF Spec

------------------------------------------------------------------------------
\* Middlewares.

\* A next.run() belongs to the send() it started from and has its list.
Roots ==
    \A c \in DOMAIN calls :
        /\ calls[c].root \in 1..c
        /\ calls[calls[c].root].root = calls[c].root
        /\ calls[c].list = calls[calls[c].root].list
        /\ calls[c].request \in 1..built

\* The trail of a call is its list up to where it stands.
Passed(call) ==
    /\ Len(call.trail) = IF call.current <= Len(call.list) THEN call.current ELSE Len(call.list)
    /\ \A i \in 1..Len(call.trail) : call.trail[i] = call.list[i]

Trails ==
    /\ \A c \in DOMAIN calls : Passed(calls[c])
    /\ \A i \in DOMAIN spawned :
         LET call == calls[spawned[i].call] IN call.current = Len(call.list) + 1

IsSend(c, r) == calls[c].root = c /\ calls[c].request = r
First(c) == \A d \in 1..(c - 1) : ~IsSend(d, calls[c].request)

\* The first send() of a request takes its middlewares, and leaves none.
Lists ==
    /\ \A c \in DOMAIN calls : calls[c].root = c =>
         calls[c].list = IF First(c) THEN given[calls[c].request] ELSE NoChain
    /\ \A r \in 1..built :
         chain[r] = IF \E c \in DOMAIN calls : IsSend(c, r) THEN NoChain ELSE given[r]

TrailInv == Roots /\ Trails /\ Lists

LEMMA FixedKeepsTrails ==
    ASSUME TypeInv, TrailInv, DOMAIN calls' = DOMAIN calls, \A c \in DOMAIN calls : Fixed(c),
           UNCHANGED <<built, chain, given>>,
           \A i \in DOMAIN spawned' :
             \/ i \in DOMAIN spawned /\ spawned'[i] = spawned[i]
             \/ /\ spawned'[i].call \in DOMAIN calls
                /\ calls[spawned'[i].call].state = "spawning"
    PROVE  TrailInv'
<1>1. calls \in Seq(CallRecords) /\ DOMAIN calls = 1..Len(calls) /\ Len(calls) \in Nat
  BY DEF TypeInv, TypeOK
<1>2. \A c \in DOMAIN calls : calls[c].root \in DOMAIN calls /\ 1..c \subseteq DOMAIN calls
  BY <1>1 DEF TrailInv, Roots
<1>3. Roots'
  BY <1>2 DEF Fixed, TrailInv, Roots
<1>4. \A i \in DOMAIN spawned : spawned[i].call \in DOMAIN calls
  <2>1. spawned \in Seq(Entries(DOMAIN calls))
    BY DEF TypeInv, TypeOK, Entries
  <2>2. \A i \in DOMAIN spawned : spawned[i] \in Entries(DOMAIN calls)
    BY <2>1
  <2> QED
    BY <2>2 DEF Entries
<1>5. Trails'
  <2>1. \A c \in DOMAIN calls' : Passed(calls'[c])
    BY DEF Fixed, TrailInv, Trails, Passed
  <2>2. ASSUME NEW i \in DOMAIN spawned'
        PROVE  calls'[spawned'[i].call].current = Len(calls'[spawned'[i].call].list) + 1
    <3>1. CASE i \in DOMAIN spawned /\ spawned'[i] = spawned[i]
      BY <1>4, <3>1 DEF Fixed, TrailInv, Trails
    <3>2. CASE spawned'[i].call \in DOMAIN calls /\ calls[spawned'[i].call].state = "spawning"
      BY <3>2 DEF Fixed, TypeInv, Places
    <3> QED
      BY <3>1, <3>2
  <2> QED
    BY <2>1, <2>2 DEF Trails
<1>6. \A c \in DOMAIN calls : \A r : IsSend(c, r)' <=> IsSend(c, r)
  BY DEF Fixed, IsSend
<1>7. \A c \in DOMAIN calls : First(c)' <=> First(c)
  <2> SUFFICES ASSUME NEW c \in DOMAIN calls PROVE First(c)' <=> First(c)
    OBVIOUS
  <2>1. 1..(c - 1) \subseteq DOMAIN calls /\ calls'[c].request = calls[c].request
    BY <1>1 DEF Fixed
  <2> QED
    BY <1>6, <2>1 DEF First
<1>8. Lists'
  BY <1>6, <1>7 DEF Fixed, TrailInv, Lists
<1> QED
  BY <1>3, <1>5, <1>8 DEF TrailInv

LEMMA MakesKeepsTrails ==
    ASSUME TypeInv, TrailInv, NEW b, NEW list, Makes(b, list)
    PROVE  TrailInv'
<1>1. /\ built \in Nat /\ built' = built + 1 /\ built + 1 \in Requests
      /\ chain' = [chain EXCEPT ![built + 1] = list] /\ given' = [given EXCEPT ![built + 1] = list]
      /\ UNCHANGED <<calls, spawned>>
  BY BoundsAssumption DEF TypeInv, TypeOK, Makes, NewRequest, Requests
<1>2. /\ chain'[built + 1] = list /\ given'[built + 1] = list
      /\ \A r \in 1..built : chain'[r] = chain[r] /\ given'[r] = given[r]
  BY <1>1, BoundsAssumption DEF TypeInv, TypeOK, Requests
<1>3. \A c \in DOMAIN calls : calls[c].request \in 1..built
  BY DEF TrailInv, Roots
<1>4. Roots' /\ Trails'
  BY <1>1 DEF TrailInv, Roots, Trails, Passed
<1>5. /\ \A c : First(c)' <=> First(c)
      /\ \A c, r : IsSend(c, r)' <=> IsSend(c, r)
  BY <1>1 DEF First, IsSend
<1>6. ASSUME NEW r \in 1..built'
      PROVE  chain'[r] = IF \E c \in DOMAIN calls' : IsSend(c, r)' THEN NoChain ELSE given'[r]
  <2>1. CASE r = built + 1
    <3>1. \A c \in DOMAIN calls : ~IsSend(c, r)
      BY <1>1, <1>3, <2>1 DEF IsSend
    <3> QED
      BY <1>1, <1>2, <1>5, <2>1, <3>1
  <2>2. CASE r \in 1..built
    BY <1>1, <1>2, <1>5, <2>2 DEF TrailInv, Lists
  <2> QED
    BY <1>1, <2>1, <2>2
<1>7. Lists'
  BY <1>1, <1>2, <1>3, <1>5, <1>6 DEF TrailInv, Lists
<1> QED
  BY <1>4, <1>7 DEF TrailInv

\* A call that starts with a trail that fits its place.
LEMMA StartKeepsTrails ==
    ASSUME TypeInv, TrailInv, NEW call \in CallRecords, Starts(call), Passed(call),
           call.request \in 1..built,
           \/ call.root = Len(calls) + 1
           \/ /\ call.root \in DOMAIN calls
              /\ calls[call.root].root = call.root /\ call.list = calls[call.root].list
    PROVE  /\ Roots' /\ Trails'
           /\ DOMAIN calls' = 1..(Len(calls) + 1) /\ DOMAIN calls = 1..Len(calls)
           /\ calls'[Len(calls) + 1] = call /\ Len(calls) \in Nat
           /\ \A c \in DOMAIN calls : calls'[c] = calls[c] /\ (First(c)' <=> First(c))
           /\ \A c \in DOMAIN calls, r \in 1..built : IsSend(c, r)' <=> IsSend(c, r)
<1>1. /\ DOMAIN calls' = 1..(Len(calls) + 1) /\ DOMAIN calls = 1..Len(calls)
      /\ calls'[Len(calls) + 1] = call /\ Len(calls) \in Nat
      /\ \A c \in DOMAIN calls : calls'[c] = calls[c]
      /\ UNCHANGED <<built, spawned>>
  BY AppendCall DEF TypeInv, TypeOK, Starts
<1>2. Roots'
  <2> SUFFICES ASSUME NEW c \in DOMAIN calls'
               PROVE  /\ calls'[c].root \in 1..c
                      /\ calls'[calls'[c].root].root = calls'[c].root
                      /\ calls'[c].list = calls'[calls'[c].root].list
                      /\ calls'[c].request \in 1..built'
    BY DEF Roots
  <2>1. CASE c \in DOMAIN calls
    <3>1. calls[c].root \in DOMAIN calls
      BY <1>1, <2>1 DEF TrailInv, Roots
    <3> QED
      BY <1>1, <2>1, <3>1 DEF TrailInv, Roots
  <2>2. CASE c = Len(calls) + 1
    BY <1>1, <2>2
  <2> QED
    BY <1>1, <2>1, <2>2
<1>3. Trails'
  <2>1. \A c \in DOMAIN calls' : Passed(calls'[c])
    <3>1. \A c \in DOMAIN calls : Passed(calls'[c])
      BY <1>1 DEF TrailInv, Trails
    <3>2. \A c \in DOMAIN calls' : c \in DOMAIN calls \/ c = Len(calls) + 1
      BY <1>1
    <3> QED
      BY <1>1, <3>1, <3>2
  <2>2. \A i \in DOMAIN spawned : spawned[i].call \in DOMAIN calls
    <3>1. spawned \in Seq(Entries(DOMAIN calls))
      BY DEF TypeInv, TypeOK, Entries
    <3>2. \A i \in DOMAIN spawned : spawned[i] \in Entries(DOMAIN calls)
      BY <3>1
    <3> QED
      BY <3>2 DEF Entries
  <2>3. \A i \in DOMAIN spawned' :
          calls'[spawned'[i].call].current = Len(calls'[spawned'[i].call].list) + 1
    BY <1>1, <2>2 DEF TrailInv, Trails
  <2> QED
    BY <2>1, <2>3 DEF Trails
<1>4. \A c \in DOMAIN calls, r \in 1..built : IsSend(c, r)' <=> IsSend(c, r)
  BY <1>1 DEF IsSend
<1>5. ASSUME NEW c \in DOMAIN calls PROVE First(c)' <=> First(c)
  <2>1. 1..(c - 1) \subseteq DOMAIN calls /\ calls'[c].request = calls[c].request
        /\ calls[c].request \in 1..built
    BY <1>1 DEF TrailInv, Roots
  <2> QED
    BY <1>4, <2>1 DEF First
<1> QED
  BY <1>1, <1>2, <1>3, <1>4, <1>5

LEMMA SendKeepsTrails ==
    ASSUME TypeInv, TrailInv, NEW r \in 1..built, Send(r)
    PROVE  TrailInv'
<1>0. PICK n, none : n = Len(calls) + 1 /\ none = <<>>
  OBVIOUS
<1> DEFINE call == Call(n, chain[r], 1, r, none)
<1>1. call \in CallRecords /\ Starts(call) /\ r \in Requests /\ chain[r] \in Seq(Middlewares)
  BY <1>0, SendStarts, ChainsAreSequences DEF TypeInv
<1>2. /\ call.root = n /\ call.list = chain[r] /\ call.current = 1 /\ call.request = r
      /\ call.trail = IF 1 <= Len(chain[r]) THEN Append(none, chain[r][1]) ELSE none
  BY StartedCall
<1> HIDE DEF call
<1>3. Passed(call)
  <2>1. Len(chain[r]) \in Nat
    BY <1>1
  <2>2. CASE 1 <= Len(chain[r])
    <3>1. call.trail = <<chain[r][1]>>
      BY <1>0, <1>2, <2>2
    <3> QED
      BY <1>2, <2>1, <2>2, <3>1 DEF Passed
  <2>3. CASE ~(1 <= Len(chain[r]))
    BY <1>0, <1>2, <2>1, <2>3 DEF Passed
  <2> QED
    BY <2>2, <2>3
<1>4. /\ Roots' /\ Trails'
      /\ DOMAIN calls' = 1..n /\ DOMAIN calls = 1..(n - 1) /\ calls'[n] = call /\ n \in Nat
      /\ \A c \in DOMAIN calls : calls'[c] = calls[c] /\ (First(c)' <=> First(c))
      /\ \A c \in DOMAIN calls, q \in 1..built : IsSend(c, q)' <=> IsSend(c, q)
  BY <1>0, <1>1, <1>2, <1>3, StartKeepsTrails
<1>5. /\ chain'[r] = NoChain /\ UNCHANGED <<built, given>>
      /\ \A q \in 1..built : q # r => chain'[q] = chain[q]
  BY <1>1, BoundsAssumption DEF TypeInv, TypeOK, Send, Requests
<1>6. n \in DOMAIN calls' /\ IsSend(n, r)' /\ \A q \in 1..built : q # r => ~IsSend(n, q)'
  <2>1. Len(calls) \in Nat
    BY DEF TypeInv, TypeOK
  <2> QED
    BY <1>0, <1>2, <1>4, <2>1 DEF IsSend
<1>7. First(n)' <=> ~\E c \in DOMAIN calls : IsSend(c, r)
  <2>1. calls'[n].request = r
    BY <1>2, <1>4
  <2> QED
    BY <1>4, <2>1 DEF First
<1>8. calls'[n].list = IF First(n)' THEN given'[r] ELSE NoChain
  BY <1>2, <1>4, <1>5, <1>7 DEF TrailInv, Lists
<1>9. \A c \in DOMAIN calls' : calls'[c].root = c =>
         calls'[c].list = IF First(c)' THEN given'[calls'[c].request] ELSE NoChain
  <2>1. \A c \in DOMAIN calls' : c \in DOMAIN calls \/ c = n
    BY <1>4
  <2>2. calls'[n].request = r
    BY <1>2, <1>4
  <2> QED
    BY <1>4, <1>5, <1>8, <2>1, <2>2 DEF TrailInv, Lists
<1>10. ASSUME NEW q \in 1..built'
       PROVE  chain'[q] = IF \E c \in DOMAIN calls' : IsSend(c, q)' THEN NoChain ELSE given'[q]
  <2>1. CASE q = r
    BY <1>4, <1>5, <1>6, <2>1
  <2>2. CASE q # r
    <3>1. (\E c \in DOMAIN calls' : IsSend(c, q)') <=> \E c \in DOMAIN calls : IsSend(c, q)
      BY <1>4, <1>5, <1>6, <2>2
    <3> QED
      BY <1>5, <2>2, <3>1 DEF TrailInv, Lists
  <2> QED
    BY <2>1, <2>2
<1> QED
  BY <1>4, <1>9, <1>10 DEF TrailInv, Lists

LEMMA RunNextKeepsTrails ==
    ASSUME TypeInv, TrailInv, NEW r \in 1..built, NEW c \in DOMAIN calls, RunNext(c, r)
    PROVE  TrailInv'
<1> DEFINE old == calls[c]
           call == Call(old.root, old.list, old.current + 1, r, old.trail)
<1>0. PICK n : n = Len(calls) + 1
  OBVIOUS
<1>1. /\ call \in CallRecords /\ Starts(call) /\ UNCHANGED chain
      /\ old \in CallRecords /\ old.current <= Len(old.list)
  BY RunNextStarts DEF RunNext, TypeInv, Places
<1>2. /\ call.root = old.root /\ call.list = old.list /\ call.current = old.current + 1
      /\ call.request = r
      /\ call.trail = IF old.current + 1 <= Len(old.list)
                        THEN Append(old.trail, old.list[old.current + 1]) ELSE old.trail
  BY StartedCall
<1>3. /\ old.trail \in Seq(Middlewares) /\ old.list \in Seq(Middlewares) /\ old.current \in Nat
      /\ Len(old.trail) = old.current /\ \A i \in 1..Len(old.trail) : old.trail[i] = old.list[i]
  <2>1. old.trail \in Seq(Middlewares) /\ old.list \in Seq(Middlewares) /\ old.current \in Nat
    BY <1>1, ChainsAreSequences DEF CallRecords
  <2>2. Passed(old)
    BY DEF TrailInv, Trails
  <2> QED
    BY <1>1, <2>1, <2>2 DEF Passed
<1> HIDE DEF call
<1>4. Passed(call)
  <2>1. CASE old.current + 1 <= Len(old.list)
    BY <1>2, <1>3, <2>1 DEF Passed
  <2>2. CASE ~(old.current + 1 <= Len(old.list))
    BY <1>1, <1>2, <1>3, <2>2 DEF Passed
  <2> QED
    BY <2>1, <2>2
<1>5. /\ call.root \in DOMAIN calls /\ calls[call.root].root = call.root
      /\ call.list = calls[call.root].list
  BY <1>2 DEF TrailInv, Roots, TypeInv, TypeOK
<1>6. /\ Roots' /\ Trails'
      /\ DOMAIN calls' = 1..n /\ DOMAIN calls = 1..(n - 1) /\ calls'[n] = call /\ n \in Nat
      /\ \A d \in DOMAIN calls : calls'[d] = calls[d] /\ (First(d)' <=> First(d))
      /\ \A d \in DOMAIN calls, q \in 1..built : IsSend(d, q)' <=> IsSend(d, q)
  BY <1>0, <1>1, <1>2, <1>4, <1>5, StartKeepsTrails
<1>7. UNCHANGED <<built, chain, given>>
  BY <1>1 DEF Starts
<1>8. calls'[n].root # n /\ \A q : ~IsSend(n, q)'
  BY <1>5, <1>6 DEF IsSend
<1>9. \A d \in DOMAIN calls' : d \in DOMAIN calls \/ d = n
  BY <1>6
<1>10. \A d \in DOMAIN calls' : calls'[d].root = d =>
         calls'[d].list = IF First(d)' THEN given'[calls'[d].request] ELSE NoChain
  BY <1>6, <1>7, <1>8, <1>9 DEF TrailInv, Lists
<1>11. \A q \in 1..built : (\E d \in DOMAIN calls' : IsSend(d, q)') <=> \E d \in DOMAIN calls : IsSend(d, q)
  BY <1>6, <1>8, <1>9
<1>12. \A q \in 1..built' :
         chain'[q] = IF \E d \in DOMAIN calls' : IsSend(d, q)' THEN NoChain ELSE given'[q]
  BY <1>7, <1>11 DEF TrailInv, Lists
<1> QED
  BY <1>6, <1>10, <1>12 DEF TrailInv, Lists

LEMMA NextKeepsTrails == TypeInv /\ TrailInv /\ [Next]_vars => TrailInv'
<1> SUFFICES ASSUME TypeInv, TrailInv, [Next]_vars PROVE TrailInv'
  OBVIOUS
<1>1. TypeOK
  BY DEF TypeInv
<1>2. CASE Build \/ \E r \in 1..built : Copy(r) \/ \E b \in handles : CopyWithBody(r, b)
  BY <1>1, <1>2, MakingRequests, MakesKeepsTrails
<1>3. ASSUME UNCHANGED <<built, chain, given, calls, spawned>>
      PROVE  TrailInv'
  BY <1>3, FixedKeepsTrails DEF Fixed
<1>4. ASSUME NEW r \in 1..built, GetBody(r) \/ \E b \in handles \cup {NoBody} : SetBody(r, b)
      PROVE  UNCHANGED <<built, chain, given, calls, spawned>>
  BY <1>4 DEF GetBody, SetBody, requestVars
<1>5. ASSUME NEW c \in DOMAIN calls, Spawn(c)
      PROVE  TrailInv'
  <2>1. calls[c].state = "spawning" /\ UNCHANGED <<built, chain, given>>
    BY <1>5, SpawnEffect
  <2>2. PICK state \in States, response \in Nat : EndCall(c, state, response)
    <3>1. Accepts(c) => Len(spawned') \in Nat
      BY AcceptedEntry DEF TypeInv, TypeOK, Accepts
    <3> QED
      BY <1>5, <3>1, SpawnEffect DEF Refuses, Accepts, States, NoResponse
  <2>3. DOMAIN calls' = DOMAIN calls /\ \A d \in DOMAIN calls : Fixed(d)
    BY <1>1, <2>2, EndOneCall
  <2>4. CASE Refuses(c)
    BY <2>1, <2>3, <2>4, FixedKeepsTrails DEF Refuses
  <2>5. CASE Accepts(c)
    <3>1. \A i \in DOMAIN spawned' :
            \/ i \in DOMAIN spawned /\ spawned'[i] = spawned[i]
            \/ spawned'[i].call = c
      BY <2>5, AcceptedEntry
    <3> QED
      BY <2>1, <2>3, <3>1, FixedKeepsTrails
  <2> QED
    BY <1>5, <2>4, <2>5, SpawnEffect
<1>6. ASSUME NEW c \in DOMAIN calls, Raise(c)
      PROVE  TrailInv'
  <2>1. EndCall(c, "failed", NoResponse) /\ UNCHANGED <<built, chain, given, spawned>>
    BY <1>6 DEF Raise, requestVars
  <2>2. DOMAIN calls' = DOMAIN calls /\ \A d \in DOMAIN calls : Fixed(d)
    BY <1>1, <2>1, EndOneCall DEF States, NoResponse
  <2> QED
    BY <2>1, <2>2, FixedKeepsTrails
<1>7. ASSUME NEW c \in DOMAIN calls, NEW d \in DOMAIN calls, Return(c, d)
      PROVE  TrailInv'
  <2>1. DOMAIN calls' = DOMAIN calls /\ \A e \in DOMAIN calls : Fixed(e)
    BY <1>1, <1>7, ReturnCall
  <2>2. UNCHANGED <<built, chain, given, spawned>>
    BY <1>7 DEF Return, requestVars
  <2> QED
    BY <2>1, <2>2, FixedKeepsTrails
<1>8. CASE UNCHANGED vars
  BY <1>3, <1>8 DEF vars, requestVars
<1> QED
  BY <1>2, <1>3, <1>4, <1>5, <1>6, <1>7, <1>8, SendKeepsTrails, RunNextKeepsTrails DEF Next

\* However often and with whatever requests next.run() is called, behind the
\* first send() of a request that starts stands the whole list it was made
\* with, in order, and behind a later one none, for every chain and all bounds.
THEOREM MiddlewaresWhole == Spec => []TrailWhole
<1>1. Init => TrailInv
  BY DEF Init, TrailInv, Roots, Trails, Lists
<1>2. TypeInv /\ TrailInv => TrailWhole
  <2> SUFFICES ASSUME TypeInv, TrailInv, NEW i \in DOMAIN spawned
               PROVE  LET call == calls[spawned[i].call]
                          sent == calls[call.root].request
                          first == \A c \in 1..(call.root - 1) :
                                     calls[c].root = c => calls[c].request # sent
                      IN call.trail = IF first THEN given[sent] ELSE NoChain
    BY DEF TrailWhole
  <2>1. PICK c \in DOMAIN calls : c = spawned[i].call
    <3>1. spawned \in Seq(Entries(DOMAIN calls))
      BY DEF TypeInv, TypeOK, Entries
    <3>2. spawned[i] \in Entries(DOMAIN calls)
      BY <3>1
    <3> QED
      BY <3>2 DEF Entries
  <2> DEFINE call == calls[c]
  <2>2. call.trail \in Seq(Middlewares) /\ call.list \in Seq(Middlewares)
    <3>1. call \in CallRecords
      BY <2>1 DEF TypeInv, TypeOK
    <3> QED
      BY <3>1, ChainsAreSequences DEF CallRecords
  <2>3. Passed(call) /\ call.current = Len(call.list) + 1
    BY <2>1 DEF TrailInv, Trails
  <2>4. call.trail = call.list
    <3>1. /\ Len(call.trail) = Len(call.list)
          /\ \A j \in 1..Len(call.list) : call.trail[j] = call.list[j]
      BY <2>2, <2>3 DEF Passed
    <3> HIDE DEF call
    <3> QED
      BY <2>2, <3>1
  <2>5. call.root \in DOMAIN calls /\ call.list = calls[call.root].list
        /\ calls[call.root].root = call.root
    <3>1. DOMAIN calls = 1..Len(calls)
      BY DEF TypeInv, TypeOK
    <3> QED
      BY <3>1 DEF TrailInv, Roots
  <2>6. calls[call.root].list =
          IF First(call.root) THEN given[calls[call.root].request] ELSE NoChain
    BY <2>5 DEF TrailInv, Lists
  <2>7. First(call.root) <=> \A d \in 1..(call.root - 1) :
            calls[d].root = d => calls[d].request # calls[call.root].request
    BY DEF First, IsSend
  <2> QED
    BY <2>1, <2>4, <2>5, <2>6, <2>7
<1> QED
  BY <1>1, <1>2, InitTypeInv, NextKeepsTypeInv, NextKeepsTrails, PTL DEF Spec
==============================================================================
