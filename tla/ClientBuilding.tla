--------------------------- MODULE ClientBuilding ---------------------------
(***************************************************************************)
(* ClientBuilder, SyncClientBuilder and ProxyBuilder: every setter keeps   *)
(* or spends the reqwest builder inside, and some raise half-way.  One     *)
(* option stands for the settings that are fields, one, native, for those  *)
(* that reqwest keeps.  clog is history: <<operation, argument, outcome>>. *)
(***************************************************************************)
EXTENDS HeaderFields, Histories

CONSTANTS Clients, Proxies, Keys, Middlewares, Fields,
          Values, Bad,   \* arguments of setters, and one that is refused
          None

VARIABLES cb,      \* cb[c]: the fields of builder c
          client,  \* client[c]: the client it made, or None
          proxy,   \* proxy[p]: "open", "spent" or the authorization it has
          clog

cvars == <<cb, client, proxy, clog>>

Optional == Values \union {None}
ProxyStates == Optional \union {"spent"}
ClientBuilders == [inner: BOOLEAN, option: Optional, native: Optional,
                   proxy: {None} \union (Proxies \X ProxyStates),
                   middlewares: Seq(Middlewares), defaults: [Keys -> Seq(TextsIn(Fields))],
                   loads: Optional, dumps: Optional, http1: BOOLEAN, http2: BOOLEAN, verbose: BOOLEAN]

NewBuilder == [inner |-> TRUE, option |-> None, native |-> None, proxy |-> None,
               middlewares |-> <<>>, defaults |-> [k \in Keys |-> <<>>],
               loads |-> None, dumps |-> None, http1 |-> TRUE, http2 |-> FALSE, verbose |-> FALSE]

CInit == /\ cb = [c \in Clients |-> NewBuilder]
         /\ client = [c \in Clients |-> None]
         /\ proxy = [p \in Proxies |-> None]
         /\ clog = [c \in Clients |-> <<>>]

(* A call of a setter that leaves the builder as b: it "returned", "raised" *)
(* or did "half" and raised.                                                *)
Called(c, op, arg, outcome, b) ==
  /\ cb' = [cb EXCEPT ![c] = b]
  /\ clog' = [clog EXCEPT ![c] = Append(@, <<op, arg, outcome>>)]
  /\ client' = client

Outcome(good) == IF good THEN "returned" ELSE "raised"
Returns(c, op, arg, b) == Called(c, op, arg, "returned", b)
Raises(c, op, arg, b) == Called(c, op, arg, "raised", b)

(* max_connections, timeout, base_url and others: refuse, check, assign. *)
SetOption(c, v) == /\ IF v # Bad /\ cb[c].inner
                        THEN Returns(c, "option", v, [cb[c] EXCEPT !.option = v])
                        ELSE Raises(c, "option", v, cb[c])
                   /\ proxy' = proxy

(* apply: the reqwest builder is out while its setter runs, and a setter    *)
(* that raises (a certificate, an address, a TLS version) does not put it   *)
(* back.                                                                    *)
Apply(c, v) == /\ IF v # Bad /\ cb[c].inner
                    THEN Returns(c, "native", v, [cb[c] EXCEPT !.native = v])
                    ELSE Raises(c, "native", v, [cb[c] EXCEPT !.inner = FALSE])
               /\ proxy' = proxy

(* connection_verbose assigns first and applies then. *)
SetVerbose(c, on) == /\ Called(c, "verbose", on, Outcome(cb[c].inner), [cb[c] EXCEPT !.verbose = on])
                     /\ proxy' = proxy

(* http1_only, http2 and http2_prior_knowledge look at nothing. *)
Http1Only(c) == /\ Returns(c, "http2", FALSE, [cb[c] EXCEPT !.http1 = TRUE, !.http2 = FALSE])
                /\ proxy' = proxy
Http2(c, on) == /\ Returns(c, "http2", on, [cb[c] EXCEPT !.http2 = on])
                /\ proxy' = proxy
Http2Only(c) == /\ Returns(c, "only2", TRUE, [cb[c] EXCEPT !.http1 = FALSE, !.http2 = TRUE])
                /\ proxy' = proxy

DefaultHeaders(c, h) ==
  /\ IF cb[c].inner THEN Returns(c, "headers", h, [cb[c] EXCEPT !.defaults = Extended(@, h)])
                    ELSE Raises(c, "headers", h, cb[c])
  /\ proxy' = proxy

(* Bad stands for an async function where a sync one is due, and the other  *)
(* way round.                                                               *)
WithMiddleware(c, m) ==
  /\ IF m # Bad /\ cb[c].inner
       THEN Returns(c, "middleware", m, [cb[c] EXCEPT !.middlewares = Append(@, m)])
       ELSE Raises(c, "middleware", m, cb[c])
  /\ proxy' = proxy

(* Wrong json handling: dumps is stored before it is looked at. *)
SetJsonHandlerUnseen(c, loads, dumps) ==
  /\ IF loads = Bad \/ ~cb[c].inner
       THEN Raises(c, "json", <<loads, dumps>>, cb[c])
       ELSE Called(c, "json", <<loads, dumps>>, IF dumps = Bad THEN "half" ELSE "returned",
                   [cb[c] EXCEPT !.loads = IF loads = None THEN @ ELSE loads,
                                 !.dumps = IF dumps = None THEN @ ELSE dumps])
  /\ proxy' = proxy

(* json_handler, None for an argument that is not there: loads is looked at *)
(* before anything is stored, dumps only after loads has been stored.       *)
SetJsonHandler(c, loads, dumps) ==
  /\ IF loads = Bad \/ ~cb[c].inner
       THEN Raises(c, "json", <<loads, dumps>>, cb[c])
       ELSE Called(c, "json", <<loads, dumps>>, IF dumps = Bad THEN "half" ELSE "returned",
                   [cb[c] EXCEPT !.loads = IF loads = None THEN @ ELSE loads,
                                 !.dumps = IF dumps \in {None, Bad} THEN @ ELSE dumps])
  /\ proxy' = proxy

(* ProxyBuilder: a setter that raises, over headers that were taken before, *)
(* spends the proxy; and proxy() spends it before the client builder is     *)
(* asked.                                                                   *)
SetProxy(p, v) == /\ proxy[p] # "spent"
                  /\ proxy' = [proxy EXCEPT ![p] = IF v = Bad THEN "spent" ELSE v]
                  /\ UNCHANGED <<cb, client, clog>>

UseProxy(c, p) ==
  /\ proxy' = [proxy EXCEPT ![p] = "spent"]
  /\ IF proxy[p] # "spent" /\ cb[c].inner
       THEN Returns(c, "proxy", <<p, proxy[p]>>, [cb[c] EXCEPT !.proxy = <<p, proxy[p]>>])
       ELSE Raises(c, "proxy", <<p, proxy[p]>>, cb[c])

(* build_client_base after the runtime: the reqwest builder is gone whatever *)
(* comes of it; ok is the result of reqwest's build.                         *)
Build(c, ok) ==
  LET b == cb[c]
      built == b.inner /\ ok /\ (b.http1 \/ b.http2)
  IN /\ cb' = [cb EXCEPT ![c] =
                 IF built THEN [b EXCEPT !.inner = FALSE, !.middlewares = <<>>, !.loads = None,
                                         !.dumps = None, !.defaults = NewBuilder.defaults]
                          ELSE [b EXCEPT !.inner = FALSE]]
     /\ client' = IF built THEN [client EXCEPT ![c] = b] ELSE client
     /\ clog' = [clog EXCEPT ![c] = Append(@, <<"build", None, Outcome(built)>>)]
     /\ proxy' = proxy

CNext == \E c \in Clients:
  \/ \E v \in Values \union {Bad}: SetOption(c, v) \/ Apply(c, v)
  \/ \E on \in BOOLEAN: SetVerbose(c, on) \/ Http2(c, on)
  \/ Http1Only(c) \/ Http2Only(c)
  \/ \E h \in Fields: DefaultHeaders(c, h)
  \/ \E m \in Middlewares \union {Bad}: WithMiddleware(c, m)
  \/ \E loads, dumps \in Values \union {Bad, None}:
       {loads, dumps} # {None} /\ SetJsonHandler(c, loads, dumps)
  \/ \E p \in Proxies: UseProxy(c, p) \/ \E v \in Values \union {Bad}: SetProxy(p, v)
  \/ \E ok \in BOOLEAN: Build(c, ok)
----------------------------------------------------------------------------
(* The loads of a json_handler call that was refused for its dumps count    *)
(* all the same: the one setter of the code that is applied by half.        *)
LoadsGiven(log) ==
  LastOf(log, {i \in DOMAIN log: /\ log[i][1] = "json" /\ log[i][3] # "raised"
                                 /\ log[i][2][1] # None}, <<None, None>>)[1]
DumpsGiven(log) ==
  LastOf(log, {i \in Returned(log, "json"): log[i][2][2] # None}, <<None, None>>)[2]
DefaultsGiven(log, k) ==
  LastOf(log, {i \in Returned(log, "headers"): log[i][2][k] # <<>>}, NewBuilder.defaults)[k]

(* A builder that is what the calls that returned made of it. *)
Fits(b, log) ==
  /\ b.option = LastGiven(log, "option", None)
  /\ b.native = LastGiven(log, "native", None)
  /\ b.proxy = LastGiven(log, "proxy", None)
  /\ b.verbose = LastGiven(log, "verbose", FALSE)
  /\ b.loads = LoadsGiven(log) /\ b.dumps = DumpsGiven(log)
  /\ b.middlewares = Arguments(log, "middleware")
  /\ \A k \in Keys: b.defaults[k] = DefaultsGiven(log, k)

(* A client has the settings of the calls that returned, and of no other:   *)
(* a builder that raised lost its reqwest builder or kept what it was.      *)
ClientAsAsked ==
  \A c \in Clients: client[c] # None =>
    Fits(client[c], clog[c]) /\ (client[c].http1 \/ client[c].http2)

(* A builder makes one client, and a proxy is in one client. *)
ClientOnce ==
  /\ \A c \in Clients: /\ \A i, j \in Returned(clog[c], "build"): i = j
                       /\ client[c] # None => ~cb[c].inner
  /\ \A c, d \in Clients: c # d /\ cb[c].proxy # None /\ cb[d].proxy # None => cb[c].proxy[1] # cb[d].proxy[1]
=============================================================================
