------------------------------ MODULE Histories ------------------------------
(***************************************************************************)
(* What the history of an object says of it.  A history is the sequence of *)
(* the calls that were made, as <<operation, argument, outcome>>.          *)
(***************************************************************************)
EXTENDS Naturals, SequencesExt

(* The positions of the calls of op that returned, and the argument of the  *)
(* last call of some.                                                       *)
Returned(log, op) == {i \in DOMAIN log: log[i][1] = op /\ log[i][3] = "returned"}
LastOf(log, times, otherwise) == IF times = {} THEN otherwise ELSE log[Max(times)][2]
LastGiven(log, op, otherwise) == LastOf(log, Returned(log, op), otherwise)

(* All the arguments that op was given, in order. *)
Arguments(log, op) == FlattenSeq([i \in DOMAIN log |->
                        IF i \in Returned(log, op) THEN <<log[i][2]>> ELSE <<>>])

(* A list as words leave it that add to it or begin it anew. *)
Adds(values) == [anew |-> FALSE, values |-> values]
Begins(values) == [anew |-> TRUE, values |-> values]
Told(words) == FoldLeft(LAMBDA list, w: IF w.anew THEN w.values ELSE list \o w.values, <<>>, words)

(* What a call means to the header k: header() adds a value, headers()      *)
(* begins anew.                                                             *)
HeaderWord(e, k) ==
  CASE e[3] = "returned" /\ e[1] = "headers" /\ e[2][k] # <<>> -> Begins(e[2][k])
    [] e[3] = "returned" /\ e[1] = "header" /\ e[2][1] = k -> Adds(<<e[2][2]>>)
    [] OTHER -> Adds(<<>>)
=============================================================================
