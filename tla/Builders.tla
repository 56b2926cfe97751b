------------------------------ MODULE Builders ------------------------------
(***************************************************************************)
(* The builders together: a client builder makes the client whose settings *)
(* its request builders begin with, and response builders stand apart.     *)
(***************************************************************************)
EXTENDS Naturals, Sequences

CONSTANTS Clients, Proxies, Requests, Blocking, Forms, Parts, AsyncParts, Responses,
          Keys, Type, Middlewares, Fields, Values, Bad, None,
          Sites   \* what a behaviour builds, and bounds of its own

VARIABLES cb, client, proxy, clog, rq, request, form, part, files, qlog, rb, response, slog,
          site,   \* the member of Sites of this behaviour
          calls   \* how many calls have been made

C == INSTANCE ClientBuilding
Q == INSTANCE RequestBuilding
S == INSTANCE ResponseBuilding

ASSUME BuildersAssumption ==
  /\ Type \in Keys /\ Fields \subseteq [Keys -> Seq(C!TextsIn(Fields))]
  /\ AsyncParts \subseteq Parts /\ "file" \notin Parts /\ Blocking \subseteq Requests
  /\ Bad \notin Values \union {None} /\ None \notin Q!RequestBuilders \union S!ResponseBuilders

clientVars == <<cb, client, proxy, clog>>
requestVars == <<rq, request, form, part, files, qlog>>
responseVars == <<rb, response, slog>>
vars == <<clientVars, requestVars, responseVars, site, calls>>

Init == C!CInit /\ Q!QInit /\ S!SInit /\ site \in Sites /\ calls = 0

ClientCall == /\ calls < site.client /\ C!CNext
              /\ UNCHANGED <<requestVars, responseVars>>

(* client.get() and the like: any number of builders from one client. *)
CreateRequest(c, r) == /\ client[c] # None /\ Q!Create(r, client[c])
                       /\ UNCHANGED <<clientVars, responseVars>>

(* A function of the module pyreqwest.simple: a client of its own. *)
CreateOneOff(r) == /\ Q!Create(r, C!NewBuilder)
                   /\ UNCHANGED <<clientVars, responseVars>>

RequestCall == /\ calls < site.request
               /\ \/ \E c \in Clients, r \in Requests: CreateRequest(c, r)
                  \/ \E r \in Requests: CreateOneOff(r)
                  \/ \E r \in Requests: Q!RequestNext(r) /\ UNCHANGED <<clientVars, responseVars>>
                  \/ Q!FormNext /\ UNCHANGED <<clientVars, responseVars>>

ResponseCall == /\ calls < site.response /\ \E s \in Responses: S!ResponseNext(s)
                /\ UNCHANGED <<clientVars, requestVars>>

Next == /\ calls' = calls + 1 /\ site' = site
        /\ ClientCall \/ RequestCall \/ ResponseCall

Spec == Init /\ [][Next]_vars
----------------------------------------------------------------------------
(* A client has what the calls that returned asked for, and no more, but    *)
(* for a loads beside a refused dumps (ClientBuilding.ClientAsAsked).       *)
ClientAsAsked == C!ClientAsAsked

(* A request is the last word of its calls over its client's settings       *)
(* (RequestBuilding.RequestAsAsked).                                        *)
RequestAsAsked == Q!RequestAsAsked

(* A response is what its calls made of it, but for a body that a failed    *)
(* build took (ResponseBuilding.ResponseAsAsked).                           *)
ResponseAsAsked == S!ResponseAsAsked

(* What a builder swallows is in one product: proxies, parts and forms are  *)
(* never shared, and no async stream gets into a blocking request           *)
(* (ClientBuilding.ClientOnce, RequestBuilding.RequestOnce).                *)
SwallowedOnce == C!ClientOnce /\ Q!RequestOnce
=============================================================================
