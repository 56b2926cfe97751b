----------------------------- MODULE MCHeaderMap -----------------------------
(***************************************************************************)
(* Worlds for HeaderMap: one map and its iterator; two maps without long   *)
(* calls; and two maps and two threads with those long calls that are      *)
(* harmless with a GIL, and without.                                       *)
(***************************************************************************)
EXTENDS HeaderMap

CONSTANTS h, g, t1, t2

Crossed == {<<h, g>>, <<g, h>>}

(* One thread, no long calls. *)
Single(ms, ks, n, it) ==
  [threads |-> {t1}, maps |-> ms, keys |-> ks, cells |-> n,
   gil |-> TRUE, python |-> FALSE, from |-> {}, iterate |-> it]

(* Two threads, short maps, long calls. *)
Shared(ms, lock, py, f) ==
  [threads |-> {t1, t2}, maps |-> ms, keys |-> {1}, cells |-> 1,
   gil |-> lock, python |-> py, from |-> f, iterate |-> FALSE]

QuietWorlds == {Single({h}, Keys, 3, TRUE),
                Single({h, g}, Keys, 4, FALSE),
                Shared({h, g}, TRUE, FALSE, Crossed),
                Shared({h, g}, FALSE, TRUE, {<<h, g>>})}

(* Python code under the mutex, with a GIL; maps merged both ways, without. *)
OpenWorlds == {Shared({h}, TRUE, TRUE, {}),
               Shared({h, g}, FALSE, FALSE, Crossed)}
=============================================================================
