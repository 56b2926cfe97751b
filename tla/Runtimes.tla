------------------------------ MODULE Runtimes ------------------------------
(***************************************************************************)
(* The two tokio runtimes of the process (runtime/runtime.rs): a lock with *)
(* the configuration, and one OnceLock per runtime, single-threaded "st"   *)
(* and multi-threaded "mt", that the first caller of global_handle fills.  *)
(* workers stands for the three settings of the multi-threaded runtime.    *)
(***************************************************************************)
EXTENDS Naturals, FiniteSets

CONSTANTS Threads, Workers,
          MaxSettings    \* bound: calls of the setters

VARIABLES
  default,      \* RuntimeConfig.multithreaded: "unset", "st" or "mt"
  workers,      \* RuntimeConfig.worker_threads and the like
  initialized,  \* RuntimeConfig.multithreaded_initialized
  handle,       \* handle[k]: "none", "building", "ok" or "error"
  built,        \* the settings the multi-threaded runtime was built with
  ask,          \* ask[t]: the call of global_handle of thread t
  settings      \* number of setter calls so far

config == <<default, workers, initialized, settings>>
rvars == <<config, handle, built, ask>>

Kinds == {"st", "mt"}
NoAsk == [pc |-> "idle"]
There(k) == handle[k] \in {"ok", "error"}

RInit == /\ default = "unset"
         /\ workers = "unset"
         /\ initialized = FALSE
         /\ handle = [k \in Kinds |-> "none"]
         /\ built = workers
         /\ ask = [t \in Threads |-> NoAsk]
         /\ settings = 0

(* Setters, each under the write lock; another thread may be asking. *)
SetDefault(d) == /\ settings < MaxSettings
                 /\ default' = d /\ settings' = settings + 1
                 /\ ask' = [t \in Threads |-> IF ask[t].pc = "idle" THEN NoAsk
                              ELSE [ask[t] EXCEPT !.defaults = @ \union {d}]]
                 /\ UNCHANGED <<workers, initialized, handle, built>>

(* A setting that differs is refused when the runtime is there. *)
SetWorkers(w) == /\ settings < MaxSettings
                 /\ w # workers => ~initialized
                 /\ workers' = w /\ settings' = settings + 1
                 /\ UNCHANGED <<default, initialized, handle, built, ask>>
----------------------------------------------------------------------------
(* global_handle(arg).  The last three fields are history: the defaults in  *)
(* force during the call, whether "mt" was there when it began, the answer. *)
Ask(t, arg) == /\ ask[t].pc = "idle"
               /\ ask' = [ask EXCEPT ![t] =
                    [pc |-> IF arg = "unset" THEN "read" ELSE "get", arg |-> arg, kind |-> arg,
                     defaults |-> {default}, mtThere |-> There("mt"), answer |-> "none"]]
               /\ UNCHANGED <<config, handle, built>>

Goto(t, pc, kind) == ask' = [ask EXCEPT ![t].pc = pc, ![t].kind = kind]

ReadDefault(t) == /\ ask[t].pc = "read"
                  /\ Goto(t, IF default = "unset" THEN "look" ELSE "get", default)
                  /\ UNCHANGED <<config, handle, built>>

(* A wrong look, as the documentation of runtime_multithreaded_default has it. *)
LookSingle(t) == /\ ask[t].pc = "look"
                 /\ Goto(t, "get", "st")
                 /\ UNCHANGED <<config, handle, built>>

(* "Use MT if it already exists": the config lock is free again by now. *)
Look(t) == /\ ask[t].pc = "look"
           /\ Goto(t, "get", IF There("mt") THEN "mt" ELSE "st")
           /\ UNCHANGED <<config, handle, built>>

(* OnceLock::get_or_init: one caller builds, the others wait for it. *)
BeginBuild(t) == /\ ask[t].pc = "get" /\ handle[ask[t].kind] = "none"
                 /\ handle' = [handle EXCEPT ![ask[t].kind] = "building"]
                 /\ Goto(t, "build", ask[t].kind)
                 /\ UNCHANGED <<config, built>>

(* A wrong build, which marks the configuration when the runtime is published. *)
BuildUnmarked(t) == /\ ask[t].pc = "build"
                    /\ Goto(t, "publish", ask[t].kind)
                    /\ built' = IF ask[t].kind = "mt" THEN workers ELSE built
                    /\ UNCHANGED <<config, handle>>

(* The new thread builds the runtime; for "mt" it reads and marks the       *)
(* configuration under one write lock.                                      *)
Build(t) == /\ ask[t].pc = "build"
            /\ Goto(t, "publish", ask[t].kind)
            /\ IF ask[t].kind = "mt" THEN built' = workers /\ initialized' = TRUE
                                     ELSE UNCHANGED <<built, initialized>>
            /\ UNCHANGED <<default, workers, settings, handle>>

(* No thread, or no runtime: the configuration stays unmarked. *)
BuildFails(t) == /\ ask[t].pc = "build"
                 /\ Goto(t, "fail", ask[t].kind)
                 /\ UNCHANGED <<config, handle, built>>

(* A wrong publication, which stores a runtime and forgets an error. *)
PublishRuntimes(t) == /\ ask[t].pc \in {"publish", "fail"}
                      /\ handle' = [handle EXCEPT ![ask[t].kind] =
                                      IF ask[t].pc = "publish" THEN "ok" ELSE @]
                      /\ Goto(t, "get", ask[t].kind)
                      /\ UNCHANGED <<config, built>>

(* The OnceLock keeps the result, an error too, for the whole process. *)
Publish(t) == /\ ask[t].pc \in {"publish", "fail"}
              /\ handle' = [handle EXCEPT ![ask[t].kind] =
                              IF ask[t].pc = "publish" THEN "ok" ELSE "error"]
              /\ Goto(t, "get", ask[t].kind)
              /\ UNCHANGED <<config, built>>

Return(t) == /\ ask[t].pc = "get" /\ There(ask[t].kind)
             /\ ask' = [ask EXCEPT ![t].pc = "done", ![t].answer = handle[ask[t].kind]]
             /\ UNCHANGED <<config, handle, built>>

(* The caller goes on with the handle, or raises the stored error. *)
Leave(t) == ask[t].pc = "done" /\ ask' = [ask EXCEPT ![t] = NoAsk] /\ UNCHANGED <<config, handle, built>>

RStep(t) == \/ ReadDefault(t) \/ Look(t) \/ BeginBuild(t)
            \/ Build(t) \/ BuildFails(t) \/ Publish(t) \/ Return(t)

RSet == \/ \E d \in Kinds \union {"unset"}: SetDefault(d)
        \/ \E w \in Workers \union {"unset"}: SetWorkers(w)
----------------------------------------------------------------------------
RTypeOK ==
  /\ default \in Kinds \union {"unset"} /\ {workers, built} \subseteq Workers \union {"unset"}
  /\ initialized \in BOOLEAN /\ settings \in 0..MaxSettings
  /\ handle \in [Kinds -> {"none", "building", "ok", "error"}]
  /\ \A t \in Threads: ask[t].pc # "idle" =>
       /\ ask[t].pc \in {"read", "look", "get", "build", "publish", "fail", "done"}
       /\ ask[t].pc \notin {"read", "look"} => ask[t].kind \in Kinds

(* The configuration tells the truth about the multi-threaded runtime: from *)
(* the moment it is built, before anybody gets its handle, the settings are *)
(* those it was built with, however setters and builders interleave.        *)
SettingsHold ==
  handle["mt"] = "ok" \/ (\E t \in Threads: ask[t].pc = "publish" /\ ask[t].kind = "mt")
    => initialized /\ workers = built

(* Who asks for a runtime gets it.  Who leaves the choice open gets a       *)
(* default that was in force during the call; with none, the multi-threaded *)
(* runtime when it was there before the call, and never one that would have *)
(* to be made.                                                              *)
AnswerAsAsked ==
  \A t \in Threads: ask[t].pc = "done" =>
    \/ ask[t].kind = ask[t].arg
    \/ /\ ask[t].arg = "unset"
       /\ \/ ask[t].kind \in ask[t].defaults
          \/ /\ "unset" \in ask[t].defaults
             /\ ask[t].mtThere => ask[t].kind = "mt"
=============================================================================
