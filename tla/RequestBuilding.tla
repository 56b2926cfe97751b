-------------------------- MODULE RequestBuilding --------------------------
(***************************************************************************)
(* Request builders and the multipart forms and parts they swallow.  Each  *)
(* holds an object of reqwest in an Option that a call takes out.  One     *)
(* native setting stands for query and timeout, one option for the fields. *)
(* qlog is history, as clog of ClientBuilding.                             *)
(***************************************************************************)
EXTENDS HeaderFields, Histories

CONSTANTS Requests, Blocking,   \* and those made by a blocking client
          Forms, Parts, AsyncParts,   \* and those of an async stream
          Keys, Type,   \* header names, Content-Type among them
          Middlewares, Fields, Values, Bad, None

VARIABLES rq,       \* rq[r]: the fields of builder r, None before it is made
          request,  \* request[r]: the request it made, or None
          form,     \* form[f]: the fields of a FormBuilder
          part,     \* part[p]: "open" or "spent"
          files,    \* the calls of file() that wait: forms
          qlog

qvars == <<rq, request, form, part, files, qlog>>

Texts == Values \union TextsIn(Fields)
RequestBuilders ==
  [inner: BOOLEAN, native: Values \union {Bad, None}, option: Values \union {None},
   form: {None} \union SUBSET (Parts \union {"file"}), type: Seq({"urlencoded", "multipart"}),
   body: {"json", "any", None}, middlewares: Seq(Middlewares),
   defaults: [Keys -> Seq(Texts)], own: [Keys -> Seq(Texts)]]

QInit == /\ rq = [r \in Requests |-> None]
         /\ request = [r \in Requests |-> None]
         /\ form = [f \in Forms |-> [inner |-> TRUE, parts |-> {}, is_async |-> FALSE]]
         /\ part = [p \in Parts |-> "open"]
         /\ files = {}
         /\ qlog = [r \in Requests |-> <<>>]

formVars == <<form, part, files>>
NoFields == [k \in Keys |-> <<>>]

(* create_request_builder copies what the client has. *)
Create(r, client) ==
  /\ rq[r] = None
  /\ rq' = [rq EXCEPT ![r] = [inner |-> TRUE, native |-> None, option |-> client.option,
              form |-> None, type |-> <<>>, body |-> None, middlewares |-> client.middlewares,
              defaults |-> client.defaults, own |-> NoFields]]
  /\ qlog' = [qlog EXCEPT ![r] = <<<<"create", client, "returned">>>>]
  /\ UNCHANGED <<request, formVars>>

Called(r, op, arg, good, b) ==
  /\ rq' = [rq EXCEPT ![r] = b]
  /\ qlog' = [qlog EXCEPT ![r] = Append(@, <<op, arg, IF good THEN "returned" ELSE "raised">>)]
  /\ request' = request

(* A setter that checks the builder and assigns. *)
Setter(r, op, arg, b) == /\ rq[r] # None
                         /\ Called(r, op, arg, rq[r].inner, IF rq[r].inner THEN b ELSE rq[r])
                         /\ UNCHANGED formVars

SetOption(r, v) == Setter(r, "option", v, [rq[r] EXCEPT !.option = v])

(* RequestBuilderHeaders: header adds a value, headers replaces; both put a *)
(* default out.  basic_auth and bearer_auth are headers too.                *)
Header(r, k, v) == Setter(r, "header", <<k, v>>,
  [rq[r] EXCEPT !.defaults = Without(@, {k}), !.own = With(@, k, v)])
Headers(r, h) == Setter(r, "headers", h,
  [rq[r] EXCEPT !.defaults = Without(@, Present(h)), !.own = Extended(@, h)])

(* body_bytes, body_text, body_json and body_stream; dumps may raise, or    *)
(* the object not be a stream.                                              *)
SetBody(r, kind) == Setter(r, "body", kind, [rq[r] EXCEPT !.body = kind])
BodyRefused(r) == /\ rq[r] # None
                  /\ Called(r, "body", Bad, FALSE, rq[r]) /\ UNCHANGED formVars

(* with_middleware does not look whether the builder is spent. *)
WithMiddleware(r, m) == /\ rq[r] # None
                        /\ Called(r, "middleware", m, rq[r].inner, [rq[r] EXCEPT !.middlewares = Append(@, m)])
                        /\ UNCHANGED formVars

(* query and timeout.  reqwest keeps a first error till build(). *)
Apply(r, v) == Setter(r, "native", v, [rq[r] EXCEPT !.native = IF @ = Bad THEN Bad ELSE v])

(* form(): the content type only when there is none. *)
UrlEncoded(r) == Setter(r, "form", {},
  [rq[r] EXCEPT !.form = {}, !.type = IF @ = <<>> THEN <<"urlencoded">> ELSE @])

(* A wrong multipart, which looks at the form when it is too late. *)
MultipartUnseen(r, f) ==
  LET taken == form[f].inner
      good == taken /\ rq[r].inner
  IN /\ rq[r] # None
     /\ form' = [form EXCEPT ![f].inner = FALSE]
     /\ Called(r, "multipart", form[f].parts, good,
               IF good THEN [rq[r] EXCEPT !.form = form[f].parts, !.type = Append(@, "multipart")] ELSE rq[r])
     /\ UNCHANGED <<part, files>>

(* multipart(): a blocking request refuses an async form, which stays; then *)
(* the form is spent, also when the request builder turns out to be.        *)
Multipart(r, f) ==
  LET refused == r \in Blocking /\ form[f].is_async
      good == ~refused /\ form[f].inner /\ rq[r].inner
  IN /\ rq[r] # None
     /\ form' = IF refused THEN form ELSE [form EXCEPT ![f].inner = FALSE]
     /\ Called(r, "multipart", form[f].parts, good,
               IF good THEN [rq[r] EXCEPT !.form = form[f].parts, !.type = Append(@, "multipart")] ELSE rq[r])
     /\ UNCHANGED <<part, files>>
----------------------------------------------------------------------------
(* PartBuilder.mime: a part that raises is spent. *)
PartRefuses(p) == /\ part[p] = "open" /\ part' = [part EXCEPT ![p] = "spent"]
                  /\ UNCHANGED <<rq, request, qlog, form, files>>

(* FormBuilder.part: the mark first, then the part, then the form. *)
FormPart(f, p) ==
  /\ form' = [form EXCEPT ![f].is_async = @ \/ p \in AsyncParts,
                ![f].parts = IF part[p] = "open" /\ form[f].inner THEN @ \union {p} ELSE @]
  /\ part' = [part EXCEPT ![p] = "spent"]
  /\ UNCHANGED <<rq, request, qlog, files>>

(* file(): the form can be spent while the file is opened. *)
BeginFile(f) == /\ f \notin files /\ files' = files \union {f}
                /\ UNCHANGED <<rq, request, qlog, form, part>>
EndFile(f, opened) ==
  /\ f \in files /\ files' = files \ {f}
  /\ form' = IF opened /\ form[f].inner THEN [form EXCEPT ![f].parts = @ \union {"file"}] ELSE form
  /\ UNCHANGED <<rq, request, qlog, part>>
----------------------------------------------------------------------------
(* Wrong: the content type of a JSON body gives way to the headers. *)
DrainedJsonFirst(b) == LET native == [NoFields EXCEPT ![Type] = IF b.body = "json" THEN <<"json">> ELSE b.type]
                       IN Extended(Extended(native, b.defaults), b.own)

(* drain_into_headers: defaults, then the request's own, over reqwest's; a  *)
(* JSON body then has the last word.                                        *)
Drained(b) == LET native == [NoFields EXCEPT ![Type] = b.type]
                  h == Extended(Extended(native, b.defaults), b.own)
              IN IF b.body = "json" THEN [h EXCEPT ![Type] = <<"json">>] ELSE h

(* inner_build, of build, build_streamed and the one-off send: the builder  *)
(* is spent when it begins.                                                 *)
Build(r) ==
  LET b == rq[r]
      good == b.inner /\ b.native # Bad /\ ~(b.form # None /\ b.body # None)
  IN /\ b # None
     /\ rq' = [rq EXCEPT ![r].inner = FALSE]
     /\ request' = IF good THEN [request EXCEPT ![r] =
                       [headers |-> Drained(b), body |-> b.body, form |-> b.form, option |-> b.option,
                        native |-> b.native, middlewares |-> b.middlewares]] ELSE request
     /\ qlog' = [qlog EXCEPT ![r] = Append(@, <<"build", None, IF good THEN "returned" ELSE "raised">>)]
     /\ UNCHANGED formVars

RequestNext(r) ==
  \/ \E v \in Values: SetOption(r, v)
  \/ \E v \in Values \union {Bad}: Apply(r, v)
  \/ \E k \in Keys, v \in Values: Header(r, k, v)
  \/ \E h \in Fields: Headers(r, h)
  \/ \E kind \in {"json", "any"}: SetBody(r, kind)
  \/ \E m \in Middlewares: WithMiddleware(r, m)
  \/ \E f \in Forms: Multipart(r, f)
  \/ BodyRefused(r) \/ UrlEncoded(r) \/ Build(r)

FormNext == \/ \E p \in Parts: PartRefuses(p) \/ \E f \in Forms: FormPart(f, p)
            \/ \E f \in Forms: BeginFile(f) \/ \E opened \in BOOLEAN: EndFile(f, opened)
----------------------------------------------------------------------------
(* The values of a header that the calls ask for. *)
Asked(log, k) == Told([i \in DOMAIN log |-> HeaderWord(log[i], k)])

FormsGiven(log) == Returned(log, "form") \union Returned(log, "multipart")

(* The content type that form() and multipart() leave: form() names one     *)
(* only if there is none yet.                                               *)
FormType(log) == FlattenSeq([i \in DOMAIN log |->
                   CASE i \in Returned(log, "multipart") -> <<"multipart">>
                     [] i \in Returned(log, "form") /\ FormsGiven(log) \intersect 1..(i - 1) = {}
                          -> <<"urlencoded">>
                     [] OTHER -> <<>>])

Fits(made, log) ==
  LET client == Head(log)[2]
      first(values, otherwise) == IF values # <<>> THEN values ELSE otherwise
      type(k) == IF k = Type THEN FormType(log) ELSE <<>>
  IN /\ \A k \in Keys: made.headers[k] =
          IF k = Type /\ made.body = "json" THEN <<"json">>
          ELSE first(Asked(log, k), first(client.defaults[k], type(k)))
     /\ made.body = LastGiven(log, "body", None)
     /\ made.form = LastOf(log, FormsGiven(log), None)
     /\ made.body = None \/ made.form = None
     /\ made.option = LastGiven(log, "option", client.option)
     /\ made.native = LastGiven(log, "native", None)
     /\ made.middlewares = client.middlewares \o Arguments(log, "middleware")

(* A request is what the calls that returned made of the client's settings: *)
(* the last body, the last form, its own headers before the client's before *)
(* those of reqwest, the client's middlewares before its own and nobody     *)
(* else's; never a body beside a form.                                      *)
RequestAsAsked == \A r \in Requests: request[r] # None => Fits(request[r], qlog[r])

(* A builder makes one request; a part is in one form, and a form in one    *)
(* request, so that no stream is read twice; and a blocking request has no  *)
(* part that only an event loop can read.                                   *)
RequestOnce ==
  /\ \A r \in Requests: \A i, j \in Returned(qlog[r], "build"): i = j
  /\ \A f, g \in Forms: f # g => form[f].parts \intersect form[g].parts \intersect Parts = {}
  /\ \A r, s \in Requests:
       \A i \in Returned(qlog[r], "multipart"): \A j \in Returned(qlog[s], "multipart"):
         r # s \/ i # j => qlog[r][i][2] \intersect qlog[s][j][2] \intersect Parts = {}
  /\ \A r \in Blocking: \A i \in Returned(qlog[r], "multipart"): qlog[r][i][2] \intersect AsyncParts = {}
=============================================================================
