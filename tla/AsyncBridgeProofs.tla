--------------------------- MODULE AsyncBridgeProofs ---------------------------
(***************************************************************************)
(* The safety properties of AsyncBridge, for any number of middlewares and *)
(* of calls.                                                               *)
(***************************************************************************)
EXTENDS AsyncBridge, TLAPS

\* Where a bridge stands.  A call that was not made has left no trace; on_init
\* is scheduled only before a middleware begins, on_done only after it has
\* ended; a result is under way only when neither is to come; and whoever has
\* not been cancelled can still be reached.
Stages ==
    \A c \in Calls :
        /\ c > made => /\ waiter[c] = "none" /\ mailbox[c] = NoResult
                       /\ middleware[c] = "none" /\ c \notin inits
        /\ c \in coros => c \in inits /\ waiter[c] # "cancelled"
        /\ c \in inits => middleware[c] = "none" /\ mailbox[c] = NoResult
        /\ c \in dones => middleware[c] \in Results
        /\ c \in inits \/ Running(c) => ~IsRequest(c)
        /\ mailbox[c] # NoResult => ~Running(c)
        /\ Running(c) /\ waiter[c] # "cancelled" => c \in tasks

BridgeInv == TypeOK /\ Stages /\ CancelReachesTask

LEMMA InitBridge == Init => BridgeInv
BY SizesAssumption DEF Init, BridgeInv, TypeOK, Stages, IsRequest, CancelReachesTask,
   Calls, User,
   NoResult, Results, Running

------------------------------------------------------------------------------
\* Each step keeps the invariant.

LEMMA MakeCallKeeps ==
    ASSUME BridgeInv, NEW p \in Calls \cup {User}, NEW n \in 1..(Depth + 1), MakeCall(p, n)
    PROVE  BridgeInv'
<1> USE SizesAssumption DEF BridgeInv
<1>1. made + 1 \in Calls /\ made' = made + 1 /\ made \in Nat
  BY DEF MakeCall, TypeOK, Calls
<1>2. TypeOK'
  BY <1>1 DEF MakeCall, TypeOK, taskVars
<1>3. /\ waiter' = [waiter EXCEPT ![made + 1] = "waiting"]
      /\ coros' \subseteq coros \cup {made + 1}
      /\ made + 1 \in coros' => made + 1 \in inits' \/ made + 1 \in coros
      /\ inits \subseteq inits' /\ inits' \subseteq inits \cup {made + 1}
      /\ UNCHANGED <<mailbox, tasks, dones, middleware, asked, stubborn>>
  BY DEF MakeCall, taskVars
<1>4. ASSUME NEW c \in Calls, c # made + 1
      PROVE  /\ waiter'[c] = waiter[c] /\ level'[c] = level[c]
             /\ c \in coros' => c \in coros
             /\ c \in inits' <=> c \in inits
  BY <1>1, <1>3, <1>4 DEF TypeOK, MakeCall
<1>5. waiter'[made + 1] = "waiting" /\ middleware[made + 1] = "none" /\ mailbox[made + 1] = NoResult
      /\ (made + 1 \in inits' => level'[made + 1] # Depth + 1)
  BY <1>1, <1>3 DEF TypeOK, Stages, MakeCall
<1>6. Stages'
  BY <1>1, <1>3, <1>4, <1>5 DEF Stages, IsRequest, Running, TypeOK, Calls
<1>7. CancelReachesTask'
  BY <1>1, <1>3, <1>4, <1>5 DEF CancelReachesTask, Running
<1> QED
  BY <1>2, <1>6, <1>7

\* What a set of cancelled waiters leaves behind, before the tasks move.
LEMMA CancelCallsKeeps ==
    ASSUME BridgeInv, NEW cs \in SUBSET Calls, NEW finished \in SUBSET Calls,
           \A c \in cs : Waiting(c), CancelCalls(cs, finished)
    PROVE  /\ waiter' \in [Calls -> {"none", "waiting", "dropped"} \cup Results]
           /\ mailbox' \in [Calls -> {NoResult} \cup Results]
           /\ \A c \in Calls :
                /\ c > made => waiter'[c] = "none" /\ mailbox'[c] = NoResult
                /\ c \in coros' => c \in inits /\ waiter'[c] # "cancelled"
                /\ mailbox'[c] # NoResult => mailbox[c] # NoResult
                /\ Running(c) /\ waiter'[c] # "cancelled" => c \in tasks'
                /\ Running(c) /\ waiter'[c] = "cancelled" => c \in asked' \cup stubborn \cup finished
<1> USE DEF BridgeInv
<1>1. \A c \in Calls : /\ waiter'[c] = IF c \in cs THEN "cancelled" ELSE waiter[c]
                       /\ mailbox'[c] = IF c \in cs THEN NoResult ELSE mailbox[c]
  BY DEF CancelCalls
<1>2. waiter' \in [Calls -> {"none", "waiting", "dropped"} \cup Results]
  BY DEF CancelCalls, TypeOK, Results
<1>3. mailbox' \in [Calls -> {NoResult} \cup Results]
  BY DEF CancelCalls, TypeOK
<1>4. ASSUME NEW c \in Calls
      PROVE  /\ c > made => waiter'[c] = "none" /\ mailbox'[c] = NoResult
             /\ c \in coros' => c \in inits /\ waiter'[c] # "cancelled"
             /\ mailbox'[c] # NoResult => mailbox[c] # NoResult
             /\ Running(c) /\ waiter'[c] # "cancelled" => c \in tasks'
             /\ Running(c) /\ waiter'[c] = "cancelled" => c \in asked' \cup stubborn \cup finished
  <2>1. CASE c \in cs
    BY <1>1, <2>1 DEF CancelCalls, Waiting, Stages
  <2>2. CASE c \notin cs
    BY <1>1, <2>2 DEF CancelCalls, Stages, IsRequest, CancelReachesTask
  <2> QED
    BY <2>1, <2>2
<1> QED
  BY <1>2, <1>3, <1>4

LEMMA CancelCallKeeps ==
    ASSUME BridgeInv, NEW c \in Calls, CancelCall(c)
    PROVE  BridgeInv'
<1>1. /\ Waiting(c) /\ CancelCalls({c}, {}) /\ UNCHANGED <<dones, middleware, stubborn>>
      /\ UNCHANGED <<treeVars, senders, inits>>
      /\ coros' \subseteq coros /\ tasks' \subseteq tasks /\ asked' \subseteq asked \cup Calls
  BY DEF CancelCall, CancelCalls
<1>2. TypeOK'
  BY <1>1, CancelCallsKeeps DEF BridgeInv, TypeOK, treeVars
<1>3. Stages'
  BY <1>1, CancelCallsKeeps DEF BridgeInv, Stages, IsRequest, Running, treeVars
<1>4. \A d \in Calls :
        Running(d) /\ waiter'[d] = "cancelled" => d \in asked' \cup stubborn \cup {}
  BY <1>1, CancelCallsKeeps
<1>5. CancelReachesTask'
  BY <1>1, <1>4 DEF CancelReachesTask, Running
<1> QED
  BY <1>2, <1>3, <1>5 DEF BridgeInv

LEMMA ThrowCancelKeeps ==
    ASSUME BridgeInv, NEW c \in Calls, ThrowCancel(c)
    PROVE  BridgeInv'
<1> DEFINE cs == {d \in Children(c) : Waiting(d)}
<1>1. cs \in SUBSET Calls /\ \A d \in cs : Waiting(d)
  BY DEF Children
<1>2. /\ CancelCalls(cs, {c}) /\ Running(c)
      /\ UNCHANGED <<treeVars, senders, inits>>
      /\ coros' \subseteq coros /\ tasks' \subseteq tasks /\ asked' \subseteq asked \cup Calls
  BY <1>1 DEF ThrowCancel, CancelCalls
<1> HIDE DEF cs
<1>3. CASE /\ middleware' = [middleware EXCEPT ![c] = "cancelled"]
           /\ dones' = dones \cup {c} /\ UNCHANGED stubborn
  <2>1. TypeOK'
    BY <1>1, <1>2, <1>3, CancelCallsKeeps DEF BridgeInv, TypeOK, treeVars, Results
  <2>2. \A d \in Calls : /\ d # c => middleware'[d] = middleware[d]
                         /\ middleware'[c] = "cancelled" /\ ~Running(c)'
    BY <1>3 DEF BridgeInv, TypeOK, Running
  <2>3. middleware[c] # "none" /\ c \notin inits /\ ~(c > made)
    BY <1>2 DEF BridgeInv, Stages, IsRequest, Running
  <2>4. Stages'
    BY <1>1, <1>2, <1>3, <2>2, <2>3, CancelCallsKeeps DEF BridgeInv, Stages, IsRequest,
       Running, treeVars, Results
  <2>5. CancelReachesTask'
    BY <1>1, <1>2, <1>3, <2>2, CancelCallsKeeps DEF CancelReachesTask, Running
  <2> QED
    BY <2>1, <2>4, <2>5 DEF BridgeInv
<1>4. CASE stubborn' = stubborn \cup {c} /\ UNCHANGED <<middleware, dones>>
  <2>1. TypeOK'
    BY <1>1, <1>2, <1>4, CancelCallsKeeps DEF BridgeInv, TypeOK, treeVars
  <2>2. Stages'
    BY <1>1, <1>2, <1>4, CancelCallsKeeps DEF BridgeInv, Stages, IsRequest, Running,
       treeVars
  <2>3. CancelReachesTask'
    BY <1>1, <1>2, <1>4, CancelCallsKeeps DEF CancelReachesTask, Running
  <2> QED
    BY <2>1, <2>2, <2>3 DEF BridgeInv
<1> QED
  BY <1>3, <1>4 DEF ThrowCancel

\* The steps that send or take a result, or move one task.
LEMMA SmallStepsKeep ==
    ASSUME BridgeInv, NEW c \in Calls, NEW result \in {"ok", "failed"},
           \/ Receive(c) \/ RequestEnds(c, result) \/ DropWaiter(c)
           \/ OnInit(c) \/ OnInitFails(c) \/ OnDone(c) \/ MiddlewareEnds(c, result)
    PROVE  BridgeInv'
<1> USE DEF BridgeInv, Results
<1>1. CASE Receive(c)
  <2>1. TypeOK'
    BY <1>1 DEF Receive, TypeOK, treeVars, taskVars
  <2>2. Stages' /\ CancelReachesTask'
    BY <1>1 DEF Receive, TypeOK, treeVars, taskVars, Stages, IsRequest,
       CancelReachesTask, Running, Waiting
  <2> QED
    BY <2>1, <2>2
<1>2. CASE RequestEnds(c, result)
  <2>1. TypeOK'
    BY <1>2 DEF RequestEnds, TypeOK, treeVars, bridgeVars, taskVars
  <2>2. Stages' /\ CancelReachesTask'
    BY <1>2 DEF RequestEnds, TypeOK, treeVars, bridgeVars, taskVars, Stages, IsRequest,
       CancelReachesTask,
       Running, Waiting
  <2> QED
    BY <2>1, <2>2
<1>3. CASE DropWaiter(c)
  <2>1. TypeOK'
    BY <1>3 DEF DropWaiter, TypeOK, treeVars, taskVars
  <2>2. Stages' /\ CancelReachesTask'
    BY <1>3 DEF DropWaiter, TypeOK, treeVars, taskVars, Stages, IsRequest,
       CancelReachesTask, Running, Waiting
  <2> QED
    BY <2>1, <2>2
<1>4. CASE OnInit(c)
  <2>1. TypeOK'
    BY <1>4 DEF OnInit, TypeOK, treeVars
  <2>2. Stages' /\ CancelReachesTask'
    BY <1>4 DEF OnInit, TypeOK, treeVars, Stages, IsRequest, CancelReachesTask, Running
  <2> QED
    BY <2>1, <2>2
<1>5. CASE OnInitFails(c)
  <2>1. TypeOK'
    BY <1>5 DEF OnInitFails, SendResult, TypeOK, treeVars, taskVars
  <2>2. Stages' /\ CancelReachesTask'
    BY <1>5 DEF OnInitFails, SendResult, TypeOK, treeVars, taskVars, Stages, IsRequest,
       CancelReachesTask,
       Running, Waiting
  <2> QED
    BY <2>1, <2>2
<1>6. CASE OnDone(c)
  <2>1. middleware[c] \in Results /\ ~(c > made)
    BY <1>6 DEF OnDone, Stages
  <2>2. TypeOK'
    BY <1>6, <2>1 DEF OnDone, SendResult, TypeOK, treeVars, taskVars
  <2>3. Stages' /\ CancelReachesTask'
    BY <1>6, <2>1 DEF OnDone, SendResult, TypeOK, treeVars, taskVars, Stages,
       IsRequest, CancelReachesTask,
       Running, Waiting
  <2> QED
    BY <2>2, <2>3
<1>7. CASE MiddlewareEnds(c, result)
  <2>1. TypeOK'
    BY <1>7 DEF MiddlewareEnds, TypeOK, treeVars
  <2>2. Stages' /\ CancelReachesTask'
    BY <1>7 DEF MiddlewareEnds, TypeOK, treeVars, Stages, IsRequest, CancelReachesTask,
       Running
  <2> QED
    BY <2>1, <2>2
<1> QED
  BY <1>1, <1>2, <1>3, <1>4, <1>5, <1>6, <1>7

LEMMA NextKeeps == ASSUME BridgeInv, [Next]_vars PROVE BridgeInv'
<1>1. CASE CallRoot
  BY <1>1, MakeCallKeeps, SizesAssumption DEF CallRoot, User
<1>2. ASSUME NEW c \in Calls, RunNext(c) PROVE BridgeInv'
  <2>1. /\ level[c] \in 1..(Depth + 1) /\ MakeCall(c, level[c] + 1)
        /\ Running(c)
    BY <1>2 DEF RunNext, BridgeInv, TypeOK
  <2>2. level[c] # Depth + 1
    BY <2>1 DEF BridgeInv, Stages, IsRequest
  <2> QED
    BY <2>1, <2>2, MakeCallKeeps, SizesAssumption
<1>3. ASSUME NEW c \in Calls, CancelCall(c) PROVE BridgeInv'
  BY <1>3, CancelCallKeeps
<1>4. ASSUME NEW c \in Calls, DropWaiter(c) PROVE BridgeInv'
  BY <1>4, SmallStepsKeep
<1>5. ASSUME NEW c \in Calls, LoopStep(c) PROVE BridgeInv'
  BY <1>5, SmallStepsKeep, ThrowCancelKeeps DEF LoopStep
<1>6. ASSUME NEW c \in Calls, Environment(c) PROVE BridgeInv'
  BY <1>6, SmallStepsKeep DEF Environment
<1>7. CASE UNCHANGED vars
  BY <1>7 DEF vars, treeVars, bridgeVars, taskVars, BridgeInv, TypeOK, Stages,
     IsRequest, CancelReachesTask, Running
<1> QED
  BY <1>1, <1>2, <1>3, <1>4, <1>5, <1>6, <1>7 DEF Next

------------------------------------------------------------------------------
\* The theorems.

LEMMA BridgeAlways == Spec => []BridgeInv
BY InitBridge, NextKeeps, PTL DEF Spec

\* Every variable of the bridge keeps its type, for any depth of middlewares.
THEOREM TypeCorrect == Spec => []TypeOK
BY BridgeAlways, PTL DEF BridgeInv

\* Whatever the order of callbacks, cancellations and answers, a cancelled call
\* leaves no middleware running that has not been told.
THEOREM CancellationReachesTasks == Spec => []CancelReachesTask
BY BridgeAlways, PTL DEF BridgeInv

\* A middleware whose call was cancelled before it began never begins: the
\* coroutine is gone when on_init comes.
THEOREM CancelledStaysUnstarted == Spec => CancelledNeverStarts
<1> DEFINE Unstarted == \A c \in Calls :
             waiter[c] = "cancelled" /\ middleware[c] = "none" => middleware'[c] = "none"
<1>1. ASSUME BridgeInv, Next PROVE Unstarted
  <2> SUFFICES ASSUME NEW c \in Calls, waiter[c] = "cancelled", middleware[c] = "none",
                      UNCHANGED middleware \/ \E d \in Calls : middleware' # middleware /\
                        \/ OnInit(d) \/ ThrowCancel(d)
                        \/ \E result \in {"ok", "failed"} : MiddlewareEnds(d, result)
               PROVE  middleware'[c] = "none"
    BY <1>1 DEF Next, CallRoot, RunNext, MakeCall, CancelCall, DropWaiter, LoopStep,
       Environment,
       Receive, RequestEnds, OnInitFails, OnDone, taskVars
  <2>1. ASSUME NEW d \in Calls, OnInit(d) PROVE middleware'[c] = "none"
    BY <1>1, <2>1 DEF OnInit, BridgeInv, Stages, TypeOK
  <2>2. ASSUME NEW d \in Calls, ThrowCancel(d) PROVE middleware'[c] = "none"
    BY <1>1, <2>2 DEF ThrowCancel, Running, BridgeInv, TypeOK
  <2>3. ASSUME NEW d \in Calls, NEW result \in {"ok", "failed"}, MiddlewareEnds(d, result)
        PROVE  middleware'[c] = "none"
    BY <1>1, <2>3 DEF MiddlewareEnds, Running, BridgeInv, TypeOK
  <2> QED
    BY <2>1, <2>2, <2>3
<1>2. BridgeInv /\ [Next]_vars => [Unstarted]_vars
  BY <1>1
<1> QED
  BY <1>2, BridgeAlways, PTL DEF Spec, CancelledNeverStarts
==============================================================================
