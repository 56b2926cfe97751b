---------------------------- MODULE MCClientStart ----------------------------
(***************************************************************************)
(* Loads for ClientStart: one about runtimes and settings, one about the   *)
(* relay, with clients that all want the single-threaded runtime.          *)
(***************************************************************************)
EXTENDS ClientStart

AnyLoad == {[verbose |-> {FALSE}, args |-> {"unset", "st", "mt"}, settings |-> 2, records |-> 0],
            [verbose |-> {TRUE, FALSE}, args |-> {"st"}, settings |-> 0, records |-> MaxRecords]}
=============================================================================
