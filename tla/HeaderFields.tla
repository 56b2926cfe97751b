---------------------------- MODULE HeaderFields ----------------------------
(***************************************************************************)
(* What the builders use of http::HeaderMap: for each name the values in   *)
(* order, and no values for a name that is not there.                      *)
(***************************************************************************)
EXTENDS Sequences

Present(h) == {k \in DOMAIN h: h[k] # <<>>}
With(h, k, v) == [h EXCEPT ![k] = Append(@, v)]
Without(h, ks) == [k \in DOMAIN h |-> IF k \in ks THEN <<>> ELSE h[k]]

(* extend: the values of a name that is in both are replaced. *)
Extended(h, g) == [k \in DOMAIN h |-> IF k \in Present(g) THEN g[k] ELSE h[k]]

(* The values in some fields. *)
TextsIn(fields) == UNION {UNION {{h[k][i]: i \in DOMAIN h[k]}: k \in DOMAIN h}: h \in fields}
=============================================================================
