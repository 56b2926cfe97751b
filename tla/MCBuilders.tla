----------------------------- MODULE MCBuilders -----------------------------
(***************************************************************************)
(* Sites for Builders: two client builders that share a proxy; requests    *)
(* and forms; responses and their copies; a client and a request of it.    *)
(***************************************************************************)
EXTENDS Builders

AllFields == {[k \in Keys |-> IF k \in named THEN <<"a", "b">> ELSE <<>>]: named \in SUBSET Keys \ {{}}}

AllSites == {[client |-> 4, request |-> 0, response |-> 0],
             [client |-> 0, request |-> 4, response |-> 0],
             [client |-> 0, request |-> 0, response |-> 4],
             [client |-> 2, request |-> 5, response |-> 0]}
=============================================================================
