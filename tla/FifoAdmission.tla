---------------------------- MODULE FifoAdmission ----------------------------
(***************************************************************************)
(* What `max_connections` promises, without saying how: a set of admitted  *)
(* requests that never outgrows the limit, and a queue in which requests   *)
(* wait for a place in order of arrival.  There is no permit counter here: *)
(* a place is free exactly when fewer than Limit requests are admitted, so *)
(* a detailed model that leaks or forges a permit cannot implement this.   *)
(***************************************************************************)
EXTENDS Naturals, FiniteSets, SequencesExt

CONSTANTS Requests, Limit

VARIABLES
    admitted,   \* the requests that own a place
    queue       \* the requests waiting for one, oldest first

vars == <<admitted, queue>>

Init == admitted = {} /\ queue = <<>>

\* A newcomer takes a free place, or joins the back of the queue.
Arrive(r) ==
    /\ r \notin admitted \cup ToSet(queue)
    /\ IF Cardinality(admitted) < Limit
         THEN queue = <<>> /\ admitted' = admitted \cup {r} /\ UNCHANGED queue
         ELSE queue' = Append(queue, r) /\ UNCHANGED admitted

\* A place given up goes to the oldest waiter in the same step.
Depart(r) ==
    /\ r \in admitted
    /\ IF queue = <<>>
         THEN admitted' = admitted \ {r} /\ UNCHANGED queue
         ELSE /\ admitted' = (admitted \ {r}) \cup {Head(queue)}
              /\ queue' = Tail(queue)

\* A waiter gives up; the others keep their order.
GiveUp(r) ==
    \E i \in DOMAIN queue :
        /\ queue[i] = r
        /\ queue' = RemoveAt(queue, i)
        /\ UNCHANGED admitted

Next == \E r \in Requests : Arrive(r) \/ Depart(r) \/ GiveUp(r)

Spec == Init /\ [][Next]_vars
==============================================================================
