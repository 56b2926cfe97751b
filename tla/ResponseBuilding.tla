-------------------------- MODULE ResponseBuilding --------------------------
(***************************************************************************)
(* ResponseBuilder, with which middlewares and tests make responses of     *)
(* their own.  Its head is taken by build(), after its body.  slog is      *)
(* history: <<operation, argument, outcome>>, and the calls of a builder   *)
(* that is a copy begin with those of the original.                        *)
(***************************************************************************)
EXTENDS HeaderFields, Histories

CONSTANTS Responses, Keys, Type, Fields, Values, None

VARIABLES rb,        \* rb[s]: the fields of builder s, None before it is made
          response,  \* response[s]: the response it made, or None
          slog

svars == <<rb, response, slog>>

Texts == Values \union TextsIn(Fields) \union {"json"}
ResponseBuilders == [head: BOOLEAN, status: Values \union {200}, body: {"empty", "any", "async", "json"},
                     headers: [Keys -> Seq(Texts)], extensions: Values \union {None}]

SInit == /\ rb = [s \in Responses |-> None]
         /\ response = [s \in Responses |-> None]
         /\ slog = [s \in Responses |-> <<>>]

New(s) == /\ rb[s] = None
          /\ rb' = [rb EXCEPT ![s] = [head |-> TRUE, status |-> 200, body |-> "empty",
                                      headers |-> [k \in Keys |-> <<>>], extensions |-> None]]
          /\ UNCHANGED <<response, slog>>

(* copy(): refused without a head. *)
Copy(s, original) == /\ rb[s] = None /\ rb[original] # None /\ rb[original].head
                     /\ rb' = [rb EXCEPT ![s] = rb[original]]
                     /\ slog' = [slog EXCEPT ![s] = slog[original]]
                     /\ response' = response

Called(s, op, arg, good, b) ==
  /\ rb[s] # None
  /\ rb' = [rb EXCEPT ![s] = b]
  /\ slog' = [slog EXCEPT ![s] = Append(@, <<op, arg, IF good THEN "returned" ELSE "raised">>)]
  /\ response' = response

(* What changes the head, and raises when it is gone. *)
OnHead(s, op, arg, b) == Called(s, op, arg, rb[s].head, IF rb[s].head THEN b ELSE rb[s])

Status(s, v) == OnHead(s, "status", v, [rb[s] EXCEPT !.status = v])
Header(s, k, v) == OnHead(s, "header", <<k, v>>, [rb[s] EXCEPT !.headers = With(@, k, v)])
Headers(s, h) == OnHead(s, "headers", h, [rb[s] EXCEPT !.headers = Extended(@, h)])

(* What looks at nothing. *)
Extensions(s, v) == Called(s, "extensions", v, TRUE, [rb[s] EXCEPT !.extensions = v])
Body(s, kind) == Called(s, "body", kind, TRUE, [rb[s] EXCEPT !.body = kind])

(* body_json: the body is there before the head is asked for. *)
BodyJson(s) ==
  LET b == [rb[s] EXCEPT !.body = "json"]
  IN Called(s, "body", "json", rb[s].head, IF rb[s].head THEN [b EXCEPT !.headers = With(@, Type, "json")] ELSE b)

(* A wrong build_inner, which keeps the body for another build(). *)
BuildKeepsBody(s, blocking, ok) ==
  LET b == rb[s]
      taken == ~(blocking /\ b.body = "async") /\ b.head
      good == taken /\ ok
  IN /\ b # None
     /\ rb' = [rb EXCEPT ![s].head = @ /\ ~taken, ![s].extensions = IF taken THEN None ELSE @]
     /\ slog' = [slog EXCEPT ![s] = Append(@, <<"build", blocking, IF good THEN "returned" ELSE "raised">>)]
     /\ response' = IF good THEN [response EXCEPT ![s] = b] ELSE response

(* build_inner: the body is taken, and lost when it cannot be read here, or *)
(* when there is no head; a head that is there stays for another build().   *)
(* ok is the outcome of what follows: the runtime, the read ahead.          *)
Build(s, blocking, ok) ==
  LET b == rb[s]
      taken == ~(blocking /\ b.body = "async") /\ b.head
      good == taken /\ ok
  IN /\ b # None
     /\ rb' = [rb EXCEPT ![s].body = "empty", ![s].head = @ /\ ~taken,
                         ![s].extensions = IF taken THEN None ELSE @]
     /\ slog' = [slog EXCEPT ![s] = Append(@, <<"build", blocking, IF good THEN "returned" ELSE "raised">>)]
     /\ response' = IF good THEN [response EXCEPT ![s] = b] ELSE response

ResponseNext(s) ==
  \/ New(s) \/ BodyJson(s)
  \/ \E o \in Responses: Copy(s, o)
  \/ \E v \in Values: Status(s, v) \/ Extensions(s, v)
  \/ \E k \in Keys, v \in Values: Header(s, k, v)
  \/ \E h \in Fields: Headers(s, h)
  \/ \E kind \in {"any", "async"}: Body(s, kind)
  \/ \E blocking, ok \in BOOLEAN: Build(s, blocking, ok)
----------------------------------------------------------------------------
(* The history up to the build that returned. *)
Before(log) == SubSeq(log, 1, Max(Returned(log, "build")))

(* The last body given, unless a build() that raised took it. *)
BodyGiven(log) ==
  LET given == {i \in DOMAIN log: log[i][1] = "body" \/ (log[i][1] = "build" /\ log[i][3] = "raised")}
  IN IF given # {} /\ log[Max(given)][1] = "body" THEN log[Max(given)][2] ELSE "empty"

(* A JSON body adds its content type. *)
ValuesGiven(log, k) ==
  Told([i \in DOMAIN log |->
    IF k = Type /\ log[i][1] = "body" /\ log[i][2] = "json" /\ log[i][3] = "returned"
      THEN Adds(<<"json">>) ELSE HeaderWord(log[i], k)])

Fits(b, log) ==
  /\ b.status = LastGiven(log, "status", 200)
  /\ b.extensions = LastGiven(log, "extensions", None)
  /\ b.body = BodyGiven(log)
  /\ \A k \in Keys: b.headers[k] = ValuesGiven(log, k)

(* A response is what the calls that returned made of it, a copy apart from *)
(* its original; the one loss is the body that a failed build() took: the   *)
(* next build() makes a response without one.                               *)
ResponseAsAsked ==
  \A s \in Responses: response[s] # None => Fits(response[s], Before(slog[s])) /\ ~rb[s].head
=============================================================================
