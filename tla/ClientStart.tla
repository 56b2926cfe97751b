----------------------------- MODULE ClientStart -----------------------------
(***************************************************************************)
(* How clients come up and share what the whole process has once: threads  *)
(* build clients (build_client_base), which takes a runtime and, for a     *)
(* verbose client, turns the log relay on; clients that are up send        *)
(* requests and close, and records flow.  Runtimes and LogRelay give the   *)
(* steps of the two shared parts.                                          *)
(***************************************************************************)
EXTENDS Naturals, Sequences

CONSTANTS Threads, Workers, MaxSettings, Capacity, Batch, MaxRecords, MaxFlushes,
          Loads   \* what a behaviour exercises; bounds of its own

ASSUME StartAssumption ==
  /\ {MaxSettings, Capacity, MaxRecords, MaxFlushes} \subseteq Nat /\ Batch \in Nat \ {0}
  /\ \A l \in Loads: l.verbose \subseteq BOOLEAN /\ l.args \subseteq {"unset", "st", "mt"}

VARIABLES
  default, workers, initialized, handle, built, ask, settings,
  stage, channel, made, flow, delivered, lost, flushes,
  client,   \* client[t]: the client that thread t builds and then uses
  load      \* the member of Loads of this behaviour

R == INSTANCE Runtimes
L == INSTANCE LogRelay

runtimes == <<default, workers, initialized, handle, built, ask, settings>>
relay == <<stage, channel, made, flow, delivered, lost, flushes>>
vars == <<runtimes, relay, client, load>>

Init == /\ R!RInit /\ L!LInit
        /\ client = [t \in Threads |-> [pc |-> "builder", verbose |-> FALSE]]
        /\ load \in Loads

At(t, pc) == client[t].pc = pc
Become(t, pc) == client' = [client EXCEPT ![t].pc = pc] /\ load' = load

(* build(): the runtime is asked for before the builder is taken. *)
BeginClient(t) == /\ At(t, "builder")
                  /\ \E v \in load.verbose:
                       client' = [client EXCEPT ![t] = [pc |-> "runtime", verbose |-> v]]
                  /\ \E arg \in load.args: R!Ask(t, arg)
                  /\ load' = load /\ UNCHANGED relay

RuntimeStep(t) == R!RStep(t) /\ UNCHANGED <<relay, client, load>>

(* An error leaves the builder as it was: build() can be called again. *)
GotRuntime(t) == /\ At(t, "runtime") /\ R!Leave(t)
                 /\ Become(t, IF ask[t].answer = "error" THEN "builder"
                              ELSE IF client[t].verbose THEN "logging" ELSE "finish")
                 /\ UNCHANGED relay

BeginLogging(t) == /\ At(t, "logging") /\ L!InitLogging(t)
                   /\ Become(t, "waiting") /\ UNCHANGED runtimes

LoggingStep(t) == L!LInitStep(t) /\ UNCHANGED <<runtimes, client, load>>

LoggingReady(t) == /\ At(t, "waiting") /\ L!InitDone(t)
                   /\ Become(t, "finish") /\ UNCHANGED runtimes

(* reqwest builds the client, or fails, and then the builder is spent. *)
FinishClient(t) == /\ At(t, "finish")
                   /\ \E pc \in {"ready", "spent"}: Become(t, pc)
                   /\ UNCHANGED <<runtimes, relay>>
----------------------------------------------------------------------------
(* Once the logger is on, the code under any client makes records. *)
Record == /\ made < load.records /\ L!Log
          /\ UNCHANGED <<runtimes, client, load>>

(* A permit that is dropped, by batches; close and flush_logs(), at once. *)
EndRequest(t) == /\ At(t, "ready") /\ client[t].verbose /\ L!BeginFlush(t, FALSE)
                 /\ UNCHANGED <<runtimes, client, load>>

CloseOrFlush(t) == /\ At(t, "ready") /\ L!BeginFlush(t, TRUE)
                   /\ UNCHANGED <<runtimes, client, load>>

FlushStep(t) == L!FlushStep(t) /\ UNCHANGED <<runtimes, client, load>>

Configure == /\ settings < load.settings /\ R!RSet
             /\ UNCHANGED <<relay, client, load>>

Coming(t) == \/ RuntimeStep(t) \/ GotRuntime(t) \/ FinishClient(t)
             \/ BeginLogging(t) \/ LoggingStep(t) \/ LoggingReady(t)

Next == \/ Configure \/ Record
        \/ \E t \in Threads: \/ BeginClient(t) \/ Coming(t) \/ FlushStep(t)
                             \/ EndRequest(t) \/ CloseOrFlush(t)

(* A thread that builds or flushes goes on; nobody has to begin. *)
Spec == Init /\ [][Next]_vars /\ \A t \in Threads: WF_vars(Coming(t)) /\ WF_vars(FlushStep(t))
----------------------------------------------------------------------------
(* Types of both parts; and only a thread that has a client flushes. *)
TypeOK == /\ R!RTypeOK /\ L!LTypeOK
          /\ \A t \in Threads:
               /\ client[t].pc \in {"builder", "runtime", "logging", "waiting", "finish", "ready", "spent"}
               /\ At(t, "runtime") <=> ask[t].pc # "idle"
               /\ flow[t].pc \in {"pop", "deliver"} => At(t, "ready")

(* The configuration that the setters guard is the one the multi-threaded   *)
(* runtime has, from before any client gets it (Runtimes.SettingsHold).     *)
SettingsHold == TypeOK /\ R!SettingsHold

(* A client runs on the runtime that its builder, or the default, or the    *)
(* existence of the multi-threaded one calls for (Runtimes.AnswerAsAsked).  *)
AnswerAsAsked == R!AnswerAsAsked

(* No record is delivered twice or disappears unnoticed, and batches and    *)
(* flushes of several threads keep the order of the records, whatever       *)
(* flushes and logs meanwhile (LogRelay.RecordsAccounted, OrderKept).       *)
RecordsKept == L!RecordsAccounted /\ L!OrderKept

(* What is in the channel when a flush begins is not left there by it       *)
(* (LogRelay.FlushReaches).                                                 *)
FlushReaches == L!FlushReaches

(* Whoever builds a client hears of it: no build waits for ever, for a      *)
(* runtime that failed or for another thread that turns logging on; and the *)
(* log relay is then on for the verbose.                                    *)
EveryBuildEnds ==
  \A t \in Threads:
    At(t, "runtime") ~> \/ client[t].pc \in {"builder", "spent"}
                        \/ At(t, "ready") /\ (client[t].verbose => stage = "on")
=============================================================================
