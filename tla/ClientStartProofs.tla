--------------------------- MODULE ClientStartProofs ---------------------------
(***************************************************************************)
(* The safety properties of ClientStart, for any threads, loads and        *)
(* bounds: first the runtimes, then the relay, then the clients that use   *)
(* both.                                                                   *)
(***************************************************************************)
EXTENDS ClientStart, SequenceLemmas

K3 == {"unset", "st", "mt"}
Asked == [pc: {"read", "look", "get", "build", "publish", "fail", "done"},
          arg: K3, kind: K3, defaults: SUBSET K3, mtThere: BOOLEAN,
          answer: {"none", "ok", "error"}]
Busy(t) == ask[t].pc # "idle"

(* What a call that has made up its mind answers to the question. *)
Fits(a) == \/ a.kind = a.arg
           \/ /\ a.arg = "unset"
              /\ a.kind \in a.defaults \/ ("unset" \in a.defaults /\ (a.mtThere => a.kind = "mt"))

(* A call knows the defaults since it began, and a runtime that was there   *)
(* then is still there; it looks for one only when no default was set.      *)
AskInv ==
  /\ ask \in [Threads -> {R!NoAsk} \union Asked]
  /\ \A t \in Threads: Busy(t) =>
       /\ default \in ask[t].defaults
       /\ ask[t].mtThere => R!There("mt")
       /\ ask[t].pc \in {"read", "look"} => ask[t].arg = "unset"
       /\ ask[t].pc = "look" => "unset" \in ask[t].defaults
       /\ ask[t].pc \notin {"read", "look"} => Fits(ask[t])

RuntimesInv == R!RTypeOK /\ AskInv /\ R!SettingsHold

LEMMA InitRuntimes == R!RInit => RuntimesInv
<1> SUFFICES ASSUME R!RInit PROVE RuntimesInv
  OBVIOUS
<1>1. \A t \in Threads: ask[t] = R!NoAsk /\ ask[t].pc = "idle"
  <2>1. \A t \in Threads: ask[t] = R!NoAsk
    BY DEF R!RInit
  <2>2. R!NoAsk.pc = "idle"
    BY DEF R!NoAsk
  <2> QED
    BY <2>1, <2>2
<1>2. handle \in [R!Kinds -> {"none", "building", "ok", "error"}] /\ handle["mt"] = "none"
  BY DEF R!RInit, R!Kinds
<1>3. R!RTypeOK
  <2>1. settings \in 0..MaxSettings
    BY StartAssumption DEF R!RInit
  <2> QED
    BY <1>1, <1>2, <2>1 DEF R!RInit, R!RTypeOK
<1>4. AskInv
  BY <1>1 DEF R!RInit, AskInv, Busy
<1>5. R!SettingsHold
  BY <1>1, <1>2 DEF R!SettingsHold
<1> QED
  BY <1>3, <1>4, <1>5 DEF RuntimesInv
----------------------------------------------------------------------------
(* One thread's call moves on; the others stay where they are. *)
LEMMA OneAsks ==
  ASSUME RuntimesInv, NEW t \in Threads, NEW a, ask' = [ask EXCEPT ![t] = a]
  PROVE  ask'[t] = a /\ \A u \in Threads: u # t => ask'[u] = ask[u]
BY DEF RuntimesInv, AskInv

(* What Goto makes of a record. *)
LEMMA RecordMoves ==
  ASSUME NEW a \in Asked, NEW pc, NEW kind
  PROVE  LET b == [a EXCEPT !.pc = pc, !.kind = kind]
         IN /\ b.pc = pc /\ b.kind = kind /\ b.arg = a.arg /\ b.answer = a.answer
            /\ b.defaults = a.defaults /\ b.mtThere = a.mtThere
BY DEF Asked

LEMMA AskKeeps ==
  ASSUME RuntimesInv, NEW t \in Threads, NEW arg \in K3, R!Ask(t, arg)
  PROVE  RuntimesInv' /\ Busy(t)' /\ \A u \in Threads: u # t => (Busy(u)' <=> Busy(u))
<1> DEFINE a == [pc |-> IF arg = "unset" THEN "read" ELSE "get", arg |-> arg, kind |-> arg,
                 defaults |-> {default}, mtThere |-> R!There("mt"), answer |-> "none"]
<1>1. ask' = [ask EXCEPT ![t] = a] /\ UNCHANGED <<default, workers, initialized, settings, handle, built>>
  BY DEF R!Ask, R!config
<1>2. ask'[t] = a /\ \A u \in Threads: u # t => ask'[u] = ask[u]
  BY <1>1, OneAsks
<1>3. a \in Asked
  BY DEF Asked, K3, RuntimesInv, R!RTypeOK, R!Kinds, R!There
<1>4. R!RTypeOK'
  BY <1>1, <1>2 DEF RuntimesInv, R!RTypeOK, R!Kinds, K3
<1>5. AskInv'
  <2>1. ask' \in [Threads -> {R!NoAsk} \union Asked]
    BY <1>1, <1>3 DEF RuntimesInv, AskInv
  <2>2. R!There("mt")' = R!There("mt")
    BY <1>1 DEF R!There
  <2> QED
    BY <1>1, <1>2, <2>1, <2>2 DEF RuntimesInv, AskInv, Busy, Fits
<1>6. R!SettingsHold'
  BY <1>1, <1>2 DEF RuntimesInv, R!SettingsHold
<1>7. Busy(t)' /\ \A u \in Threads: u # t => (Busy(u)' <=> Busy(u))
  BY <1>2 DEF Busy
<1> QED
  BY <1>4, <1>5, <1>6, <1>7 DEF RuntimesInv

(* Choosing: the default, or else the runtime that is there. *)
LEMMA ChoiceKeeps ==
  ASSUME RuntimesInv, NEW t \in Threads, R!ReadDefault(t) \/ R!Look(t)
  PROVE  RuntimesInv' /\ Busy(t) /\ \A u \in Threads: Busy(u)' <=> Busy(u)
<1>1. PICK pc \in {"look", "get"}, kind \in K3:
        /\ R!Goto(t, pc, kind) /\ UNCHANGED <<default, workers, initialized, settings, handle, built>>
        /\ ask[t].pc \in {"read", "look"}
        /\ pc = "look" => default = "unset"
        /\ pc = "get" => /\ kind \in R!Kinds
                         /\ \/ kind = default
                            \/ /\ ask[t].pc = "look"
                               /\ R!There("mt") => kind = "mt"
  BY DEF R!ReadDefault, R!Look, R!config, RuntimesInv, R!RTypeOK, R!Kinds, K3
<1>2. Busy(t) /\ ask[t] \in Asked
  BY <1>1 DEF Busy, RuntimesInv, AskInv, R!NoAsk
<1>3. /\ ask' = [ask EXCEPT ![t] = [ask[t] EXCEPT !.pc = pc, !.kind = kind]]
      /\ ask'[t].pc = pc /\ ask'[t].kind = kind /\ ask'[t].arg = ask[t].arg
      /\ ask'[t].defaults = ask[t].defaults /\ ask'[t].mtThere = ask[t].mtThere
      /\ \A u \in Threads: u # t => ask'[u] = ask[u]
  <2> DEFINE a == [ask[t] EXCEPT !.pc = pc, !.kind = kind]
  <2>1. ask' = [ask EXCEPT ![t] = a]
    BY <1>1 DEF R!Goto, RuntimesInv, AskInv
  <2>2. ask'[t] = a /\ \A u \in Threads: u # t => ask'[u] = ask[u]
    BY <2>1, OneAsks
  <2>3. /\ a.pc = pc /\ a.kind = kind /\ a.arg = ask[t].arg
        /\ a.defaults = ask[t].defaults /\ a.mtThere = ask[t].mtThere
    BY <1>2, RecordMoves
  <2> QED
    BY <2>1, <2>2, <2>3
<1>4. R!RTypeOK'
  BY <1>1, <1>3 DEF RuntimesInv, R!RTypeOK
<1>5. AskInv'
  <2>1. ask' \in [Threads -> {R!NoAsk} \union Asked]
    BY <1>1, <1>2, <1>3 DEF RuntimesInv, AskInv, Asked
  <2>2. R!There("mt")' = R!There("mt")
    BY <1>1 DEF R!There
  <2>3. /\ default \in ask[t].defaults /\ ask[t].arg = "unset"
        /\ ask[t].pc = "look" => "unset" \in ask[t].defaults
        /\ ask[t].mtThere => R!There("mt")
    BY <1>1, <1>2 DEF RuntimesInv, AskInv
  <2> QED
    BY <1>1, <1>3, <2>1, <2>2, <2>3 DEF RuntimesInv, AskInv, Busy, Fits
<1>6. R!SettingsHold'
  BY <1>1, <1>3 DEF RuntimesInv, R!SettingsHold
<1> QED
  BY <1>1, <1>2, <1>3, <1>4, <1>5, <1>6 DEF RuntimesInv, Busy

(* Building: the kind stays what was chosen. *)
LEMMA BuildingKeeps ==
  ASSUME RuntimesInv, NEW t \in Threads,
         R!BeginBuild(t) \/ R!Build(t) \/ R!BuildFails(t) \/ R!Publish(t)
  PROVE  RuntimesInv' /\ Busy(t) /\ \A u \in Threads: Busy(u)' <=> Busy(u)
<1>1. ask[t].pc \in {"get", "build", "publish", "fail"} /\ Busy(t) /\ ask[t] \in Asked
  BY DEF R!BeginBuild, R!Build, R!BuildFails, R!Publish, Busy, RuntimesInv, AskInv, R!NoAsk
<1>2. ask[t].kind \in R!Kinds
  BY <1>1 DEF Busy, RuntimesInv, R!RTypeOK
<1>3. PICK pc \in {"get", "build", "publish", "fail"}:
        R!Goto(t, pc, ask[t].kind) /\ UNCHANGED <<default, workers, settings>>
        /\ (pc = "publish" => R!Build(t))
  BY DEF R!BeginBuild, R!Build, R!BuildFails, R!Publish, R!config
<1>4. /\ ask' = [ask EXCEPT ![t] = [ask[t] EXCEPT !.pc = pc, !.kind = ask[t].kind]]
      /\ ask'[t].pc = pc /\ ask'[t].kind = ask[t].kind /\ ask'[t].arg = ask[t].arg
      /\ ask'[t].defaults = ask[t].defaults /\ ask'[t].mtThere = ask[t].mtThere
      /\ \A u \in Threads: u # t => ask'[u] = ask[u]
  <2> DEFINE a == [ask[t] EXCEPT !.pc = pc, !.kind = ask[t].kind]
  <2>1. ask' = [ask EXCEPT ![t] = a]
    BY <1>3 DEF R!Goto, RuntimesInv, AskInv
  <2>2. ask'[t] = a /\ \A u \in Threads: u # t => ask'[u] = ask[u]
    BY <2>1, OneAsks
  <2>3. /\ a.pc = pc /\ a.kind = ask[t].kind /\ a.arg = ask[t].arg
        /\ a.defaults = ask[t].defaults /\ a.mtThere = ask[t].mtThere
    BY <1>1, RecordMoves
  <2> QED
    BY <2>1, <2>2, <2>3
<1>5. /\ handle' \in [R!Kinds -> {"none", "building", "ok", "error"}]
      /\ R!There("mt") => R!There("mt")'
      /\ initialized' \in BOOLEAN /\ built' \in {built, workers}
  <2>1. \E x \in {"building", "ok", "error"}:
          /\ handle' = handle \/ handle' = [handle EXCEPT ![ask[t].kind] = x]
          /\ x = "building" => handle[ask[t].kind] = "none"
    BY DEF R!BeginBuild, R!Build, R!BuildFails, R!Publish
  <2>2. (initialized' = initialized \/ initialized' = TRUE) /\ built' \in {built, workers}
    BY DEF R!BeginBuild, R!Build, R!BuildFails, R!Publish, R!config
  <2>3. handle \in [R!Kinds -> {"none", "building", "ok", "error"}] /\ initialized \in BOOLEAN
    BY DEF RuntimesInv, R!RTypeOK
  <2>4. handle' \in [R!Kinds -> {"none", "building", "ok", "error"}]
    BY <1>2, <2>1, <2>3
  <2>5. R!There("mt") => R!There("mt")'
    BY <1>2, <2>1, <2>3 DEF R!There, R!Kinds
  <2> QED
    BY <2>2, <2>3, <2>4, <2>5
<1>6. R!RTypeOK'
  BY <1>2, <1>3, <1>4, <1>5 DEF RuntimesInv, R!RTypeOK
<1>7. AskInv'
  <2>1. ask' \in [Threads -> {R!NoAsk} \union Asked]
    BY <1>1, <1>3, <1>4 DEF RuntimesInv, AskInv, Asked
  <2> QED
    BY <1>1, <1>3, <1>4, <1>5, <2>1 DEF RuntimesInv, AskInv, Busy, Fits
<1>8. R!SettingsHold'
  <2>1. CASE R!Build(t) /\ ask[t].kind = "mt"
    BY <2>1 DEF R!Build, R!SettingsHold
  <2>2. CASE ~(R!Build(t) /\ ask[t].kind = "mt")
    <3>1. UNCHANGED <<workers, initialized, built>>
      BY <2>2 DEF R!BeginBuild, R!Build, R!BuildFails, R!Publish, R!config
    <3>2. handle'["mt"] = "ok" =>
            handle["mt"] = "ok" \/ (ask[t].pc = "publish" /\ ask[t].kind = "mt")
      BY <1>2 DEF R!BeginBuild, R!Build, R!BuildFails, R!Publish, R!config,
         RuntimesInv, R!RTypeOK, R!Kinds
    <3>3. \A u \in Threads: ask'[u].pc = "publish" /\ ask'[u].kind = "mt"
                           => ask[u].pc = "publish" /\ ask[u].kind = "mt"
      BY <1>3, <1>4, <2>2
    <3> QED
      BY <3>1, <3>2, <3>3 DEF RuntimesInv, R!SettingsHold
  <2> QED
    BY <2>1, <2>2
<1> QED
  BY <1>1, <1>3, <1>4, <1>6, <1>7, <1>8 DEF RuntimesInv, Busy

LEMMA ReturnKeeps ==
  ASSUME RuntimesInv, NEW t \in Threads, R!Return(t)
  PROVE  RuntimesInv' /\ Busy(t) /\ \A u \in Threads: Busy(u)' <=> Busy(u)
<1> DEFINE a == [ask[t] EXCEPT !.pc = "done", !.answer = handle[ask[t].kind]]
<1>1. /\ ask[t].pc = "get" /\ R!There(ask[t].kind) /\ Busy(t) /\ ask[t] \in Asked
      /\ UNCHANGED <<default, workers, initialized, settings, handle, built>>
  BY DEF R!Return, R!config, Busy, RuntimesInv, AskInv, R!NoAsk
<1>2. ask' = [ask EXCEPT ![t] = a]
  BY DEF R!Return, RuntimesInv, AskInv
<1>3. ask'[t] = a /\ \A u \in Threads: u # t => ask'[u] = ask[u]
  BY <1>2, OneAsks
<1>4. /\ a \in Asked /\ a.pc = "done" /\ a.kind = ask[t].kind /\ a.arg = ask[t].arg
      /\ a.defaults = ask[t].defaults /\ a.mtThere = ask[t].mtThere
  BY <1>1 DEF Asked, R!There
<1> HIDE DEF a
<1>5. R!RTypeOK'
  BY <1>1, <1>3, <1>4 DEF RuntimesInv, R!RTypeOK, Busy
<1>6. AskInv'
  <2>1. ask' \in [Threads -> {R!NoAsk} \union Asked]
    BY <1>2, <1>4 DEF RuntimesInv, AskInv
  <2>2. R!There("mt")' = R!There("mt")
    BY <1>1 DEF R!There
  <2> QED
    BY <1>1, <1>3, <1>4, <2>1, <2>2 DEF RuntimesInv, AskInv, Busy, Fits
<1>7. R!SettingsHold'
  BY <1>1, <1>3, <1>4 DEF RuntimesInv, R!SettingsHold
<1> QED
  BY <1>1, <1>3, <1>4, <1>5, <1>6, <1>7 DEF RuntimesInv, Busy

LEMMA LeaveKeeps ==
  ASSUME RuntimesInv, NEW t \in Threads, R!Leave(t)
  PROVE  RuntimesInv' /\ ~Busy(t)' /\ \A u \in Threads: u # t => (Busy(u)' <=> Busy(u))
<1>1. /\ ask' = [ask EXCEPT ![t] = R!NoAsk]
      /\ UNCHANGED <<default, workers, initialized, settings, handle, built>>
  BY DEF R!Leave, R!config
<1>2. ask'[t] = R!NoAsk /\ ask'[t].pc = "idle" /\ \A u \in Threads: u # t => ask'[u] = ask[u]
  <2>1. ask'[t] = R!NoAsk /\ \A u \in Threads: u # t => ask'[u] = ask[u]
    BY <1>1, OneAsks
  <2> QED
    BY <2>1 DEF R!NoAsk
<1>3. ask' \in [Threads -> {R!NoAsk} \union Asked]
  BY <1>1 DEF RuntimesInv, AskInv
<1>4. R!RTypeOK' /\ R!SettingsHold'
  BY <1>1, <1>2 DEF RuntimesInv, R!RTypeOK, R!SettingsHold
<1>5. R!There("mt")' = R!There("mt")
  BY <1>1 DEF R!There
<1>6. AskInv'
  BY <1>1, <1>2, <1>3, <1>5 DEF RuntimesInv, AskInv, Busy, Fits
<1>7. ~Busy(t)' /\ \A u \in Threads: u # t => (Busy(u)' <=> Busy(u))
  BY <1>2 DEF Busy
<1> QED
  BY <1>4, <1>6, <1>7 DEF RuntimesInv

(* A setter tells the calls that are on their way of a new default. *)
LEMMA SetKeeps ==
  ASSUME RuntimesInv, R!RSet
  PROVE  RuntimesInv' /\ \A u \in Threads: Busy(u)' <=> Busy(u)
<1>1. settings' \in 0..MaxSettings /\ UNCHANGED <<initialized, handle, built>>
  <2>1. /\ settings < MaxSettings /\ settings' = settings + 1
        /\ UNCHANGED <<initialized, handle, built>>
    BY DEF R!RSet, R!SetDefault, R!SetWorkers
  <2>2. settings \in 0..MaxSettings /\ MaxSettings \in Nat
    BY StartAssumption DEF RuntimesInv, R!RTypeOK
  <2> QED
    BY <2>1, <2>2
<1>2. R!There("mt")' = R!There("mt")
  BY <1>1 DEF R!There
<1>3. ASSUME NEW d \in R!Kinds \union {"unset"}, R!SetDefault(d)
      PROVE  RuntimesInv' /\ \A u \in Threads: Busy(u)' <=> Busy(u)
  <2>1. default' = d /\ UNCHANGED workers
    BY <1>3 DEF R!SetDefault
  <2>2. ASSUME NEW t \in Threads
        PROVE  /\ ask'[t] \in {R!NoAsk} \union Asked
               /\ ask'[t].pc = ask[t].pc
               /\ Busy(t) => /\ ask'[t].kind = ask[t].kind /\ ask'[t].arg = ask[t].arg
                             /\ ask'[t].mtThere = ask[t].mtThere
                             /\ ask'[t].defaults = ask[t].defaults \union {d}
    <3>1. CASE ask[t].pc = "idle"
      BY <1>3, <3>1 DEF R!SetDefault, R!NoAsk, Busy
    <3>2. CASE ask[t].pc # "idle"
      <4>1. ask[t] \in Asked
        BY <3>2 DEF RuntimesInv, AskInv, R!NoAsk
      <4>2. ask'[t] = [ask[t] EXCEPT !.defaults = ask[t].defaults \union {d}]
        BY <1>3, <3>2 DEF R!SetDefault
      <4>3. ask[t].defaults \union {d} \in SUBSET K3
        BY <4>1 DEF Asked, K3, R!Kinds
      <4> QED
        BY <4>1, <4>2, <4>3 DEF Asked
    <3> QED
      BY <3>1, <3>2
  <2>3. ask' \in [Threads -> {R!NoAsk} \union Asked]
    <3>1. ask' = [t \in Threads |-> ask'[t]]
      BY <1>3 DEF R!SetDefault
    <3> QED
      BY <2>2, <3>1
  <2>4. R!RTypeOK' /\ R!SettingsHold'
    BY <1>1, <2>1, <2>2 DEF RuntimesInv, R!RTypeOK, R!SettingsHold, Busy
  <2>5. AskInv'
    BY <1>2, <2>1, <2>2, <2>3 DEF RuntimesInv, AskInv, Busy, Fits
  <2> QED
    BY <2>2, <2>4, <2>5 DEF RuntimesInv, Busy
<1>4. ASSUME NEW w \in Workers \union {"unset"}, R!SetWorkers(w)
      PROVE  RuntimesInv' /\ \A u \in Threads: Busy(u)' <=> Busy(u)
  <2>1. workers' = w /\ (initialized => w = workers) /\ UNCHANGED <<default, ask>>
    BY <1>4 DEF R!SetWorkers
  <2>2. R!RTypeOK' /\ R!SettingsHold'
    BY <1>1, <2>1 DEF RuntimesInv, R!RTypeOK, R!SettingsHold
  <2>3. AskInv'
    BY <1>2, <2>1 DEF RuntimesInv, AskInv, Busy, Fits
  <2> QED
    BY <2>1, <2>2, <2>3 DEF RuntimesInv, Busy
<1> QED
  BY <1>3, <1>4 DEF R!RSet

LEMMA RuntimeStepKeeps ==
  ASSUME RuntimesInv, NEW t \in Threads, R!RStep(t)
  PROVE  RuntimesInv' /\ \A u \in Threads: Busy(u)' <=> Busy(u)
BY ChoiceKeeps, BuildingKeeps, ReturnKeeps DEF R!RStep

LEMMA NoRuntimeStep ==
  ASSUME RuntimesInv, UNCHANGED runtimes
  PROVE  RuntimesInv' /\ \A u \in Threads: Busy(u)' <=> Busy(u)
BY DEF runtimes, RuntimesInv, R!RTypeOK, AskInv, R!SettingsHold, Busy, Fits, R!There
----------------------------------------------------------------------------
(* The relay.  A thread is either outside of a flush or in one. *)
Quiet == [pc: {"idle", "create", "install", "inited"}]
Flushing == [pc: {"pop", "deliver"}, all: BOOLEAN, batch: Seq(1..made), owed: SUBSET (1..made)]
Flushes(t) == flow[t].pc \in {"pop", "deliver"}

FlowTyped == /\ flow \in [Threads -> Quiet \union Flushing]
             /\ \A t \in Threads: flow[t].pc = "install" => stage = "channel"

(* What a thread has taken out of the channel and not delivered yet. *)
Has(t) == IF Flushes(t) THEN Held(flow[t].batch) ELSE {}

(* A record is at most once in the channel, and never in two places; a      *)
(* flush of everything that has popped owes nothing that is in the channel. *)
Injective == \A i, j \in 1..Len(channel): channel[i] = channel[j] => i = j
Disjoint ==
  /\ Held(channel) \intersect lost = {}
  /\ \A t \in Threads: /\ Has(t) \intersect Held(channel) = {}
                       /\ Has(t) \intersect lost = {}
                       /\ \A u \in Threads: u # t => Has(t) \intersect Has(u) = {}
Paid ==
  \A t \in Threads: flow[t].pc = "deliver" /\ flow[t].all => Held(channel) \intersect flow[t].owed = {}
Apart == Injective /\ Disjoint /\ Paid

RelayInv == L!LTypeOK /\ FlowTyped /\ Apart

LEMMA InitRelay == L!LInit => RelayInv
<1> SUFFICES ASSUME L!LInit PROVE RelayInv
  OBVIOUS
<1>1. \A t \in Threads: flow[t] \in Quiet /\ flow[t].pc = "idle"
  <2>1. \A t \in Threads: flow[t] = L!Rest
    BY DEF L!LInit
  <2>2. L!Rest \in Quiet /\ L!Rest.pc = "idle"
    BY DEF L!Rest, Quiet
  <2> QED
    BY <2>1, <2>2
<1>2. FlowTyped
  BY <1>1 DEF L!LInit, FlowTyped
<1>3. channel = <<>> /\ Len(channel) = 0 /\ lost = {} /\ made = 0 /\ channel \in Seq(1..made)
  BY DEF L!LInit
<1>4. L!LTypeOK
  BY <1>1, <1>3, StartAssumption DEF L!LInit, L!LTypeOK
<1>5. Apart
  BY <1>1, <1>3 DEF Apart, Injective, Disjoint, Paid, Has, Held, Flushes
<1> QED
  BY <1>2, <1>4, <1>5 DEF RelayInv

LEMMA FlowMoves ==
  ASSUME RelayInv, NEW t \in Threads, NEW f, flow' = [flow EXCEPT ![t] = f]
  PROVE  flow'[t] = f /\ \A u \in Threads: u # t => flow'[u] = flow[u]
BY DEF RelayInv, FlowTyped

(* Records do not leave the type when more are made. *)
LEMMA TypesGrow ==
  ASSUME RelayInv, made' \in {made, made + 1}
  PROVE  /\ Seq(1..made) \subseteq Seq(1..made') /\ 1..made \subseteq 1..made'
         /\ Flushing \subseteq Flushing'
<1>1. 1..made \subseteq 1..made'
  BY DEF RelayInv, L!LTypeOK
<1>2. Seq(1..made) \subseteq Seq(1..made')
  BY <1>1, SeqMonotonic
<1> QED
  BY <1>1, <1>2 DEF Flushing

(* A step of a thread outside of flushes, or out of one. *)
LEMMA QuietStep ==
  ASSUME RelayInv, NEW t \in Threads, NEW f \in Quiet, flow' = [flow EXCEPT ![t] = f],
         UNCHANGED <<channel, made, delivered, flushes>>,
         stage' \in {"off", "channel", "on"},
         lost' \subseteq 1..made,
         lost' \in {lost, lost \union Has(t)},
         f.pc = "install" => stage = "off" /\ stage' = "channel",
         stage' # stage => \A u \in Threads: u # t => flow[u].pc # "install"
  PROVE  RelayInv'
<1>1. flow'[t] = f /\ \A u \in Threads: u # t => flow'[u] = flow[u]
  BY FlowMoves
<1>2. FlowTyped'
  <2>1. flow' \in [Threads -> Quiet \union Flushing']
    BY TypesGrow DEF RelayInv, FlowTyped
  <2> QED
    BY <1>1, <2>1 DEF RelayInv, FlowTyped, Quiet
<1>3. L!LTypeOK'
  BY <1>1 DEF RelayInv, L!LTypeOK, FlowTyped
<1>4. Has(t)' = {} /\ flow'[t].pc # "deliver" /\ \A u \in Threads: u # t => Has(u)' = Has(u)
  BY <1>1 DEF Has, Flushes, Quiet, Held
<1>5. Disjoint'
  <2>1. Held(channel)' = Held(channel)
    BY DEF Held
  <2> QED
    BY <1>4, <2>1 DEF RelayInv, Apart, Disjoint
<1>6. Injective' /\ Paid'
  BY <1>1, <1>4 DEF RelayInv, Apart, Injective, Paid, Held
<1> QED
  BY <1>2, <1>3, <1>5, <1>6 DEF RelayInv, Apart

(* A step of a thread that is in a flush, or begins one, and stays there.   *)
LEMMA FlushingStep ==
  ASSUME RelayInv, NEW t \in Threads, NEW f \in Flushing, flow' = [flow EXCEPT ![t] = f],
         UNCHANGED <<stage, made, lost>>, flushes' \in 0..MaxFlushes,
         channel' \in Seq(1..made), Len(channel') <= Len(channel), Injective',
         Held(channel') \subseteq Held(channel),
         Held(f.batch) \subseteq Has(t) \union Held(channel),
         Held(f.batch) \intersect Held(channel') = {},
         f.pc = "deliver" /\ f.all => Held(channel') \intersect f.owed = {}
  PROVE  RelayInv' /\ Flushes(t)' /\ \A u \in Threads: u # t => flow'[u] = flow[u]
<1>1. flow'[t] = f /\ \A u \in Threads: u # t => flow'[u] = flow[u]
  BY FlowMoves
<1>2. f.pc \in {"pop", "deliver"}
  BY DEF Flushing
<1>3. FlowTyped'
  <2>1. flow' \in [Threads -> Quiet \union Flushing']
    BY DEF RelayInv, FlowTyped, Flushing
  <2> QED
    BY <1>1, <1>2, <2>1 DEF RelayInv, FlowTyped
<1>4. L!LTypeOK'
  <2>1. Len(channel') <= Capacity
    BY StartAssumption, LenProperties DEF RelayInv, L!LTypeOK
  <2> QED
    BY <1>1, <1>2, <2>1 DEF RelayInv, L!LTypeOK
<1>5. Has(t)' = Held(f.batch) /\ \A u \in Threads: u # t => Has(u)' = Has(u)
  BY <1>1, <1>2 DEF Has, Flushes, Held
<1>6. Held(channel)' = Held(channel')
  BY DEF Held
<1>7. Disjoint'
  <2>1. Held(channel)' \intersect lost' = {}
    BY <1>6 DEF RelayInv, Apart, Disjoint
  <2>2. ASSUME NEW u \in Threads
        PROVE  Has(u)' \intersect Held(channel)' = {} /\ Has(u)' \intersect lost' = {}
    BY <1>5, <1>6 DEF RelayInv, Apart, Disjoint
  <2>3. ASSUME NEW u \in Threads, NEW w \in Threads, u # w
        PROVE  Has(u)' \intersect Has(w)' = {}
    <3>1. CASE u = t
      BY <1>5, <2>3, <3>1 DEF RelayInv, Apart, Disjoint
    <3>2. CASE w = t
      BY <1>5, <2>3, <3>2 DEF RelayInv, Apart, Disjoint
    <3>3. CASE u # t /\ w # t
      BY <1>5, <2>3, <3>3 DEF RelayInv, Apart, Disjoint
    <3> QED
      BY <3>1, <3>2, <3>3
  <2> QED
    BY <2>1, <2>2, <2>3 DEF Disjoint
<1>8. Paid'
  <2> SUFFICES ASSUME NEW u \in Threads, flow'[u].pc = "deliver", flow'[u].all
               PROVE  Held(channel)' \intersect flow'[u].owed = {}
    BY DEF Paid
  <2>1. CASE u = t
    BY <1>1, <1>6, <2>1
  <2>2. CASE u # t
    BY <1>1, <1>6, <2>2 DEF RelayInv, Apart, Paid
  <2> QED
    BY <2>1, <2>2
<1> QED
  BY <1>1, <1>2, <1>3, <1>4, <1>7, <1>8 DEF RelayInv, Apart, Flushes

LEMMA LogKeeps ==
  ASSUME RelayInv, L!Log
  PROVE  RelayInv' /\ UNCHANGED flow
<1>1. /\ made < MaxRecords /\ made' = made + 1 /\ made \in Nat
      /\ UNCHANGED <<stage, flow, flushes>>
  BY StartAssumption DEF L!Log, RelayInv, L!LTypeOK
<1>2. /\ Seq(1..made) \subseteq Seq(1..made') /\ 1..made \subseteq 1..made'
      /\ Flushing \subseteq Flushing'
  BY <1>1, TypesGrow
<1>3. FlowTyped'
  BY <1>1, <1>2 DEF RelayInv, FlowTyped
<1>4. \A t \in Threads: /\ Has(t)' = Has(t) /\ Has(t) \subseteq 1..made
                        /\ Flushes(t) => flow[t].owed \subseteq 1..made
  <2>1. \A t \in Threads: Flushes(t) => flow[t] \in Flushing
    BY DEF RelayInv, FlowTyped, Flushes, Quiet
  <2>2. \A t \in Threads: Flushes(t) => /\ flow[t].batch \in Seq(1..made)
                                        /\ flow[t].owed \subseteq 1..made
    BY <2>1 DEF Flushing
  <2>3. \A s \in Seq(1..made): Held(s) \subseteq 1..made
    BY ElementOfSeq DEF Held
  <2> QED
    BY <1>1, <2>2, <2>3 DEF Has, Flushes, Held
<1>5. channel \in Seq(1..made) /\ Held(channel) \subseteq 1..made /\ Len(channel) \in Nat
  BY ElementOfSeq, LenProperties DEF RelayInv, L!LTypeOK, Held
<1>6. made + 1 \notin 1..made /\ made + 1 \in 1..made' /\ lost \subseteq 1..made
  BY <1>1 DEF RelayInv, L!LTypeOK
<1>7. CASE channel' = Append(channel, made + 1) /\ lost' = lost /\ Len(channel) < Capacity
  <2>1. channel' \in Seq(1..made') /\ Len(channel') = Len(channel) + 1
    BY <1>2, <1>5, <1>6, <1>7
  <2>2. /\ channel'[Len(channel) + 1] = made + 1
        /\ \A i \in 1..Len(channel): channel'[i] = channel[i]
    BY <1>5, <1>7
  <2>3. L!LTypeOK'
    <3>1. Len(channel') <= Capacity
      BY <1>5, <1>7, <2>1, StartAssumption
    <3>2. made' \in 0..MaxRecords
      BY <1>1, StartAssumption
    <3> QED
      BY <1>1, <1>2, <1>7, <2>1, <3>1, <3>2 DEF RelayInv, L!LTypeOK
  <2>4. Held(channel)' = Held(channel) \union {made + 1}
    BY <1>5, <2>1, <2>2 DEF Held
  <2>5. Injective'
    <3>1. \A i \in 1..Len(channel): channel[i] # made + 1
      BY <1>5, <1>6 DEF Held
    <3> QED
      BY <1>5, <2>1, <2>2, <3>1 DEF RelayInv, Apart, Injective
  <2>6. Disjoint'
    BY <1>4, <1>6, <1>7, <2>4 DEF RelayInv, Apart, Disjoint
  <2>7. Paid'
    BY <1>1, <1>4, <1>6, <2>4 DEF RelayInv, Apart, Paid, Flushes
  <2> QED
    BY <1>1, <1>3, <2>3, <2>5, <2>6, <2>7 DEF RelayInv, Apart
<1>8. CASE channel' = channel /\ lost' = lost \union {made + 1}
  <2>1. L!LTypeOK'
    <3>1. made' \in 0..MaxRecords
      BY <1>1, StartAssumption
    <3> QED
      BY <1>1, <1>2, <1>5, <1>6, <1>8, <3>1 DEF RelayInv, L!LTypeOK
  <2>2. Held(channel)' = Held(channel)
    BY <1>8 DEF Held
  <2>3. Disjoint'
    BY <1>4, <1>5, <1>6, <1>8, <2>2 DEF RelayInv, Apart, Disjoint
  <2>4. Injective' /\ Paid'
    BY <1>1, <1>8, <2>2 DEF RelayInv, Apart, Injective, Paid
  <2> QED
    BY <1>1, <1>3, <2>1, <2>3, <2>4 DEF RelayInv, Apart
<1> QED
  BY <1>1, <1>7, <1>8 DEF L!Log

(* What the relay's operators say of a sequence. *)
LEMMA HeldToSet ==
  ASSUME NEW S, NEW s \in Seq(S)
  PROVE  L!ToSet(s) = Held(s) /\ Held(s) \subseteq S /\ (s # <<>> => s[1] \in Held(s) /\ Len(s) >= 1)
<1>1. DOMAIN s = 1..Len(s) /\ Len(s) \in Nat
  BY LenProperties
<1>2. L!ToSet(s) = Held(s)
  BY <1>1 DEF L!ToSet, Held
<1>3. Held(s) \subseteq S
  BY ElementOfSeq DEF Held
<1>4. s # <<>> => Len(s) >= 1
  BY <1>1, EmptySeq
<1> QED
  BY <1>1, <1>2, <1>3, <1>4 DEF Held

(* A sequence cut after its first n elements. *)
LEMMA Cut ==
  ASSUME NEW S, NEW s \in Seq(S), NEW n \in 1..Len(s)
  PROVE  /\ SubSeq(s, 1, n) \in Seq(S) /\ Len(SubSeq(s, 1, n)) = n
         /\ \A i \in 1..n: SubSeq(s, 1, n)[i] = s[i]
         /\ SubSeq(s, n + 1, Len(s)) \in Seq(S) /\ Len(SubSeq(s, n + 1, Len(s))) = Len(s) - n
         /\ \A i \in 1..(Len(s) - n): SubSeq(s, n + 1, Len(s))[i] = s[n + i]
<1>1. Len(s) \in Nat /\ n \in Nat /\ 1 <= n /\ n <= Len(s)
  BY LenProperties
<1>2. \A i \in 1..Len(s): s[i] \in S
  BY ElementOfSeq
<1>3. \A i \in 1..n: s[i] \in S
  BY <1>1, <1>2
<1>4. \A i \in (n + 1)..Len(s): s[i] \in S
  BY <1>1, <1>2
<1>5. /\ SubSeq(s, 1, n) \in Seq(S)
      /\ Len(SubSeq(s, 1, n)) = IF 1 <= n THEN n - 1 + 1 ELSE 0
      /\ \A i \in 1..(n - 1 + 1): SubSeq(s, 1, n)[i] = s[1 + i - 1]
  BY <1>1, <1>3, SubSeqProperties
<1>6. /\ SubSeq(s, n + 1, Len(s)) \in Seq(S)
      /\ Len(SubSeq(s, n + 1, Len(s))) = IF n + 1 <= Len(s) THEN Len(s) - (n + 1) + 1 ELSE 0
      /\ \A i \in 1..(Len(s) - (n + 1) + 1): SubSeq(s, n + 1, Len(s))[i] = s[n + 1 + i - 1]
  <2>1. n + 1 \in Int /\ Len(s) \in Int
    BY <1>1
  <2> QED
    BY <1>4, <2>1, SubSeqProperties
<1>7. \A i \in 1..n: SubSeq(s, 1, n)[i] = s[i]
  BY <1>1, <1>5
<1>8. \A i \in 1..(Len(s) - n): SubSeq(s, n + 1, Len(s))[i] = s[n + i]
  BY <1>1, <1>6
<1> QED
  BY <1>1, <1>5, <1>6, <1>7, <1>8

LEMMA BeginFlushKeeps ==
  ASSUME RelayInv, NEW t \in Threads, NEW all \in BOOLEAN, L!BeginFlush(t, all)
  PROVE  RelayInv' /\ Flushes(t)' /\ \A u \in Threads: u # t => flow'[u] = flow[u]
<1> DEFINE f == [pc |-> "pop", all |-> all, batch |-> <<>>, owed |-> L!ToSet(channel)]
<1>1. /\ flow' = [flow EXCEPT ![t] = f] /\ UNCHANGED <<stage, channel, made, delivered, lost>>
      /\ flushes' \in 0..MaxFlushes
  BY StartAssumption DEF L!BeginFlush, L!Do, RelayInv, L!LTypeOK
<1>2. channel \in Seq(1..made) /\ L!ToSet(channel) \subseteq 1..made
  BY HeldToSet DEF RelayInv, L!LTypeOK
<1>3. f \in Flushing /\ f.pc = "pop" /\ Held(f.batch) = {}
  BY <1>2 DEF Flushing, Held
<1>4. Injective' /\ channel' \in Seq(1..made) /\ Len(channel') <= Len(channel)
  BY <1>1, <1>2, LenProperties DEF RelayInv, Apart, Injective
<1>5. Held(channel') = Held(channel)
  BY <1>1
<1> HIDE DEF f
<1> QED
  BY <1>1, <1>3, <1>4, <1>5, FlushingStep

(* What is popped is the front of the channel; the rest stays behind it. *)
LEMMA PopBatchKeeps ==
  ASSUME RelayInv, NEW t \in Threads, L!PopBatch(t)
  PROVE  RelayInv' /\ Flushes(t)' /\ \A u \in Threads: u # t => flow'[u] = flow[u]
<1> DEFINE n == L!Limit(t)
           b == SubSeq(channel, 1, n)
           f == [flow[t] EXCEPT !.pc = "deliver", !.batch = b]
<1>1. /\ flow[t].pc = "pop" /\ channel # <<>> /\ flow' = [flow EXCEPT ![t] = f]
      /\ channel' = SubSeq(channel, n + 1, Len(channel))
      /\ UNCHANGED <<stage, made, delivered, lost, flushes>>
  BY DEF L!PopBatch, L!Do
<1>2. flow[t] \in Flushing
  BY <1>1 DEF RelayInv, FlowTyped, Quiet
<1>3. channel \in Seq(1..made) /\ Len(channel) \in Nat /\ Len(channel) >= 1
  BY <1>1, HeldToSet, LenProperties DEF RelayInv, L!LTypeOK
<1>4. n \in 1..Len(channel) /\ (flow[t].all => n = Len(channel))
  BY <1>2, <1>3, StartAssumption DEF L!Limit, Flushing
<1> HIDE DEF n
<1>5. /\ b \in Seq(1..made) /\ Len(b) = n
      /\ \A i \in 1..n: b[i] = channel[i]
  BY <1>3, <1>4, Cut
<1>6. /\ channel' \in Seq(1..made) /\ Len(channel') = Len(channel) - n
      /\ \A i \in 1..(Len(channel) - n): channel'[i] = channel[n + i]
  BY <1>1, <1>3, <1>4, Cut
<1> HIDE DEF b
<1>7. f \in Flushing /\ f.batch = b /\ f.owed = flow[t].owed /\ f.all = flow[t].all
  BY <1>2, <1>5 DEF Flushing
<1> HIDE DEF f
<1>8. Injective'
  BY <1>3, <1>4, <1>6 DEF RelayInv, Apart, Injective
<1>9. Held(channel') \subseteq Held(channel) /\ Held(b) \subseteq Held(channel)
  <2>1. \A i \in 1..Len(channel'): n + i \in 1..Len(channel)
    BY <1>3, <1>4, <1>6
  <2>2. \A i \in 1..n: i \in 1..Len(channel)
    BY <1>3, <1>4
  <2>3. \A i \in 1..Len(channel'): channel'[i] \in Held(channel)
    BY <1>6, <2>1 DEF Held
  <2>4. \A i \in 1..Len(b): b[i] \in Held(channel)
    BY <1>5, <2>2 DEF Held
  <2> QED
    BY <2>3, <2>4 DEF Held
<1>10. Held(b) \intersect Held(channel') = {}
  BY <1>3, <1>4, <1>5, <1>6 DEF Held, RelayInv, Apart, Injective
<1>11. f.all => Held(channel') = {}
  BY <1>3, <1>4, <1>6, <1>7 DEF Held
<1>12. flushes' \in 0..MaxFlushes /\ Len(channel') <= Len(channel)
  BY <1>1, <1>3, <1>4, <1>6 DEF RelayInv, L!LTypeOK
<1> QED
  BY <1>1, <1>6, <1>7, <1>8, <1>9, <1>10, <1>11, <1>12, FlushingStep

LEMMA DeliverKeeps ==
  ASSUME RelayInv, NEW t \in Threads, L!Deliver(t)
  PROVE  RelayInv' /\ Flushes(t)' /\ \A u \in Threads: u # t => flow'[u] = flow[u]
<1> DEFINE b == flow[t].batch
           f == [flow[t] EXCEPT !.batch = Tail(b)]
<1>1. /\ flow[t].pc = "deliver" /\ b # <<>>
      /\ UNCHANGED <<stage, channel, made, lost, flushes>>
  BY DEF L!Deliver
<1>2. flow[t] \in Flushing /\ Has(t) = Held(b)
  BY <1>1 DEF RelayInv, FlowTyped, Quiet, Has, Flushes
<1>3. flow' = [flow EXCEPT ![t] = f]
  BY DEF L!Deliver, L!Do
<1>4. b \in Seq(1..made)
  BY <1>2 DEF Flushing
<1>5. /\ Tail(b) \in Seq(1..made) /\ Len(Tail(b)) = Len(b) - 1 /\ Len(b) \in Nat
      /\ \A i \in 1..Len(Tail(b)): Tail(b)[i] = b[i + 1]
  BY <1>1, <1>4, HeadTailProperties, LenProperties
<1>6. /\ f \in Flushing /\ f.batch = Tail(b) /\ f.owed = flow[t].owed /\ f.all = flow[t].all
  BY <1>2, <1>5 DEF Flushing
<1>7. Held(Tail(b)) \subseteq Held(b)
  BY <1>5 DEF Held
<1> HIDE DEF f, b
<1>8. Has(t) \intersect Held(channel) = {} /\ (flow[t].all => Held(channel) \intersect flow[t].owed = {})
  BY <1>1 DEF RelayInv, Apart, Disjoint, Paid
<1>9. Injective' /\ channel' \in Seq(1..made) /\ Len(channel') <= Len(channel) /\ flushes' \in 0..MaxFlushes
  BY <1>1, LenProperties DEF RelayInv, Apart, Injective, L!LTypeOK
<1>10. Held(channel') = Held(channel)
  BY <1>1
<1>11. /\ Held(f.batch) \subseteq Has(t) \union Held(channel) /\ Held(f.batch) \intersect Held(channel') = {}
       /\ (f.pc = "deliver" /\ f.all => Held(channel') \intersect f.owed = {})
  BY <1>2, <1>6, <1>7, <1>8, <1>10
<1> QED
  BY <1>1, <1>3, <1>6, <1>9, <1>10, <1>11, FlushingStep

LEMMA EndBatchKeeps ==
  ASSUME RelayInv, NEW t \in Threads, L!EndBatch(t)
  PROVE  RelayInv' /\ \A u \in Threads: u # t => flow'[u] = flow[u]
<1>1. /\ flow[t].pc = "deliver" /\ flow[t].batch = <<>>
      /\ UNCHANGED <<stage, channel, made, delivered, lost, flushes>>
  BY DEF L!EndBatch
<1>2. CASE flow[t].all
  <2>1. flow' = [flow EXCEPT ![t] = L!Rest] /\ L!Rest \in Quiet /\ L!Rest.pc = "idle"
    BY <1>2 DEF L!EndBatch, L!Do, L!Rest, Quiet
  <2>2. stage' \in {"off", "channel", "on"} /\ lost' \subseteq 1..made /\ lost' = lost /\ stage' = stage
    BY <1>1 DEF RelayInv, L!LTypeOK
  <2> QED
    BY <1>1, <2>1, <2>2, QuietStep, FlowMoves
<1>3. CASE ~flow[t].all
  <2> DEFINE f == [flow[t] EXCEPT !.pc = "pop"]
  <2>1. flow' = [flow EXCEPT ![t] = f]
    BY <1>3 DEF L!EndBatch, L!Do
  <2>2. flow[t] \in Flushing
    BY <1>1 DEF RelayInv, FlowTyped, Quiet
  <2>3. f \in Flushing /\ f.pc = "pop" /\ f.batch = <<>>
    BY <1>1, <2>2 DEF Flushing
  <2> HIDE DEF f
  <2>4. Held(f.batch) = {}
    BY <2>3 DEF Held
  <2>5. Injective' /\ channel' \in Seq(1..made) /\ Len(channel') <= Len(channel) /\ flushes' \in 0..MaxFlushes
    BY <1>1, LenProperties DEF RelayInv, Apart, Injective, L!LTypeOK
  <2>6. Held(channel') = Held(channel)
    BY <1>1
  <2> QED
    BY <1>1, <2>1, <2>3, <2>4, <2>5, <2>6, FlushingStep
<1> QED
  BY <1>2, <1>3

(* A flush that ends, with an empty channel or with a logger that raised. *)
LEMMA LeavingKeeps ==
  ASSUME RelayInv, NEW t \in Threads, L!PopNothing(t) \/ L!DeliverFails(t)
  PROVE  RelayInv' /\ \A u \in Threads: u # t => flow'[u] = flow[u]
<1>1. /\ flow' = [flow EXCEPT ![t] = L!Rest] /\ L!Rest \in Quiet /\ L!Rest.pc = "idle"
      /\ UNCHANGED <<stage, channel, made, delivered, flushes>>
  BY DEF L!PopNothing, L!DeliverFails, L!Do, L!Rest, Quiet
<1>2. lost' \in {lost, lost \union Has(t)} /\ lost' \subseteq 1..made
  <2>1. CASE L!PopNothing(t)
    BY <2>1 DEF L!PopNothing, RelayInv, L!LTypeOK
  <2>2. CASE L!DeliverFails(t)
    <3>1. flow[t].pc = "deliver" /\ flow[t] \in Flushing /\ Has(t) = Held(flow[t].batch)
      BY <2>2 DEF L!DeliverFails, RelayInv, FlowTyped, Quiet, Has, Flushes
    <3>2. flow[t].batch \in Seq(1..made)
      BY <3>1 DEF Flushing
    <3>3. L!ToSet(flow[t].batch) = Has(t) /\ Has(t) \subseteq 1..made
      <4>1. PICK b \in Seq(1..made): b = flow[t].batch
        BY <3>2
      <4>2. L!ToSet(b) = Held(b) /\ Held(b) \subseteq 1..made
        BY HeldToSet
      <4> QED
        BY <3>1, <4>1, <4>2
    <3> QED
      BY <2>2, <3>3 DEF L!DeliverFails, RelayInv, L!LTypeOK
  <2> QED
    BY <2>1, <2>2
<1>3. stage' \in {"off", "channel", "on"} /\ stage' = stage
  BY <1>1 DEF RelayInv, L!LTypeOK
<1> QED
  BY <1>1, <1>2, <1>3, QuietStep, FlowMoves

(* The steps of init_verbose_logging: one thread installs the logger. *)
LEMMA InitStepKeeps ==
  ASSUME RelayInv, NEW t \in Threads,
         L!InitLogging(t) \/ L!LInitStep(t) \/ L!InitDone(t)
  PROVE  /\ RelayInv' /\ ~Flushes(t) /\ ~Flushes(t)' /\ (stage = "on" => stage' = "on")
         /\ \A u \in Threads: u # t => flow'[u] = flow[u]
<1>1. UNCHANGED <<channel, made, delivered, lost, flushes>> /\ ~Flushes(t)
  BY DEF L!InitLogging, L!LInitStep, L!SetChannel, L!InstallLogger, L!InitDone, Flushes
<1>2. PICK f \in Quiet:
        /\ flow' = [flow EXCEPT ![t] = f]
        /\ \/ UNCHANGED stage /\ f.pc # "install"
           \/ stage = "off" /\ stage' = "channel"
           \/ flow[t].pc = "install" /\ stage' = "on" /\ f.pc # "install"
  <2>1. \A pc \in {"idle", "create", "install", "inited"}: [pc |-> pc] \in Quiet
    BY DEF Quiet
  <2> QED
    BY <2>1 DEF L!InitLogging, L!LInitStep, L!SetChannel, L!InstallLogger, L!InitDone, L!Do, L!Rest
<1>3. stage' \in {"off", "channel", "on"} /\ lost' \subseteq 1..made /\ (stage = "on" => stage' = "on")
  BY <1>1, <1>2 DEF RelayInv, L!LTypeOK
<1>4. stage' # stage => \A u \in Threads: u # t => flow[u].pc # "install"
  BY <1>2 DEF RelayInv, L!LTypeOK, FlowTyped
<1>5. f.pc = "install" => stage = "off" /\ stage' = "channel"
  BY <1>2
<1>6. RelayInv'
  BY <1>1, <1>2, <1>3, <1>4, <1>5, QuietStep
<1>7. flow'[t] = f /\ \A u \in Threads: u # t => flow'[u] = flow[u]
  BY <1>2, FlowMoves
<1> QED
  BY <1>1, <1>3, <1>6, <1>7 DEF Flushes, Quiet

LEMMA FlushStepKeeps ==
  ASSUME RelayInv, NEW t \in Threads, L!FlushStep(t)
  PROVE  RelayInv' /\ Flushes(t) /\ \A u \in Threads: u # t => flow'[u] = flow[u]
<1>1. Flushes(t)
  BY DEF L!FlushStep, L!PopBatch, L!PopNothing, L!EndBatch, L!Deliver, L!DeliverFails, Flushes
<1> QED
  BY <1>1, PopBatchKeeps, DeliverKeeps, EndBatchKeeps, LeavingKeeps DEF L!FlushStep

LEMMA NoRelayStep ==
  ASSUME RelayInv, UNCHANGED relay
  PROVE  RelayInv'
<1>1. UNCHANGED <<stage, channel, made, flow, delivered, lost, flushes>>
  BY DEF relay
<1>2. L!LTypeOK'
  BY <1>1 DEF RelayInv, L!LTypeOK
<1>3. FlowTyped'
  BY <1>1 DEF RelayInv, FlowTyped, Flushing
<1>4. Held(channel)' = Held(channel) /\ \A t \in Threads: Has(t)' = Has(t)
  BY <1>1 DEF Has, Flushes, Held
<1>5. Apart'
  BY <1>1, <1>4 DEF RelayInv, Apart, Injective, Disjoint, Paid
<1> QED
  BY <1>2, <1>3, <1>5 DEF RelayInv
----------------------------------------------------------------------------
(* The clients.  A thread asks for a runtime exactly while its client is at *)
(* "runtime", and flushes only with a client that is up.                    *)
Client == [pc: {"builder", "runtime", "logging", "waiting", "finish", "ready", "spent"},
           verbose: BOOLEAN]

ClientsInv == /\ client \in [Threads -> Client] /\ load \in Loads
              /\ \A t \in Threads: /\ At(t, "runtime") <=> Busy(t)
                                   /\ Flushes(t) => At(t, "ready")

StartInv == RuntimesInv /\ RelayInv /\ ClientsInv

LEMMA OneClient ==
  ASSUME ClientsInv, NEW t \in Threads, NEW c \in Client,
         client' = [client EXCEPT ![t] = c], load' = load,
         c.pc = "runtime" <=> Busy(t)', Flushes(t)' => c.pc = "ready",
         \A u \in Threads: u # t => (Busy(u)' <=> Busy(u)) /\ (Flushes(u)' => Flushes(u))
  PROVE  ClientsInv'
<1>1. client'[t] = c /\ \A u \in Threads: u # t => client'[u] = client[u]
  BY DEF ClientsInv
<1>2. client' \in [Threads -> Client] /\ load' \in Loads
  BY DEF ClientsInv
<1> QED
  BY <1>1, <1>2 DEF ClientsInv, At

LEMMA NoClient ==
  ASSUME ClientsInv, UNCHANGED <<client, load>>,
         \A u \in Threads: (Busy(u)' <=> Busy(u)) /\ (Flushes(u)' => Flushes(u) \/ At(u, "ready"))
  PROVE  ClientsInv'
BY DEF ClientsInv, At

LEMMA Becomes ==
  ASSUME ClientsInv, NEW t \in Threads, Become(t, "builder") \/ Become(t, "logging")
           \/ Become(t, "waiting") \/ Become(t, "finish") \/ Become(t, "ready") \/ Become(t, "spent"),
         ~Busy(t)', ~Flushes(t)',
         \A u \in Threads: u # t => (Busy(u)' <=> Busy(u)) /\ (Flushes(u)' => Flushes(u))
  PROVE  ClientsInv'
<1>1. PICK pc \in {"builder", "logging", "waiting", "finish", "ready", "spent"}: Become(t, pc)
  OBVIOUS
<1> DEFINE c == [client[t] EXCEPT !.pc = pc]
<1>2. client' = [client EXCEPT ![t] = c] /\ load' = load
  BY <1>1 DEF Become, ClientsInv
<1>3. c \in Client /\ c.pc = pc /\ pc # "runtime"
  BY DEF ClientsInv, Client
<1> HIDE DEF c
<1> QED
  BY <1>2, <1>3, OneClient

LEMMA StillRelay ==
  ASSUME UNCHANGED relay, NEW t \in Threads
  PROVE  Flushes(t)' <=> Flushes(t)
BY DEF relay, Flushes

LEMMA StillRuntimes ==
  ASSUME UNCHANGED runtimes, NEW t \in Threads
  PROVE  Busy(t)' <=> Busy(t)
BY DEF runtimes, Busy

LEMMA InitStart == Init => StartInv
<1> SUFFICES ASSUME Init PROVE StartInv
  OBVIOUS
<1>1. RuntimesInv /\ RelayInv
  BY InitRuntimes, InitRelay DEF Init
<1>2. \A t \in Threads: ~Busy(t) /\ ~Flushes(t)
  <2>1. \A t \in Threads: ask[t] = R!NoAsk /\ flow[t] = L!Rest
    BY DEF Init, R!RInit, L!LInit
  <2>2. R!NoAsk.pc = "idle" /\ L!Rest.pc = "idle"
    BY DEF R!NoAsk, L!Rest
  <2>3. \A t \in Threads: ~Busy(t)
    BY <2>1, <2>2 DEF Busy
  <2>4. \A t \in Threads: ~Flushes(t)
    BY <2>1, <2>2 DEF Flushes
  <2> QED
    BY <2>3, <2>4
<1>3. client = [t \in Threads |-> [pc |-> "builder", verbose |-> FALSE]] /\ load \in Loads
  BY DEF Init
<1>4. ClientsInv
  BY <1>2, <1>3 DEF ClientsInv, Client, At
<1> QED
  BY <1>1, <1>4 DEF StartInv

LEMMA ComingKeeps ==
  ASSUME StartInv, NEW t \in Threads, Coming(t)
  PROVE  StartInv'
<1>1. CASE RuntimeStep(t)
  <2>1. RuntimesInv' /\ \A u \in Threads: Busy(u)' <=> Busy(u)
    BY <1>1, RuntimeStepKeeps DEF RuntimeStep, StartInv
  <2>2. RelayInv' /\ \A u \in Threads: Flushes(u)' <=> Flushes(u)
    BY <1>1, NoRelayStep, StillRelay DEF RuntimeStep, StartInv
  <2>3. ClientsInv'
    BY <1>1, <2>1, <2>2, NoClient DEF RuntimeStep, StartInv
  <2> QED
    BY <2>1, <2>2, <2>3 DEF StartInv
<1>2. CASE GotRuntime(t)
  <2>1. RuntimesInv' /\ ~Busy(t)' /\ \A u \in Threads: u # t => (Busy(u)' <=> Busy(u))
    BY <1>2, LeaveKeeps DEF GotRuntime, StartInv
  <2>2. RelayInv' /\ \A u \in Threads: Flushes(u)' <=> Flushes(u)
    BY <1>2, NoRelayStep, StillRelay DEF GotRuntime, StartInv
  <2>3. ~Flushes(t)'
    BY <1>2, <2>2 DEF GotRuntime, StartInv, ClientsInv, At
  <2>4. Become(t, "builder") \/ Become(t, "logging") \/ Become(t, "finish")
    BY <1>2 DEF GotRuntime
  <2>5. ClientsInv'
    BY <2>1, <2>2, <2>3, <2>4, Becomes DEF StartInv
  <2> QED
    BY <2>1, <2>2, <2>5 DEF StartInv
<1>3. CASE FinishClient(t)
  <2>1. RuntimesInv' /\ \A u \in Threads: Busy(u)' <=> Busy(u)
    BY <1>3, NoRuntimeStep DEF FinishClient, StartInv
  <2>2. RelayInv' /\ \A u \in Threads: Flushes(u)' <=> Flushes(u)
    BY <1>3, NoRelayStep, StillRelay DEF FinishClient, StartInv
  <2>3. ~Flushes(t)' /\ ~Busy(t)'
    BY <1>3, <2>1, <2>2 DEF FinishClient, StartInv, ClientsInv, At
  <2>4. Become(t, "ready") \/ Become(t, "spent")
    BY <1>3 DEF FinishClient
  <2>5. ClientsInv'
    BY <2>1, <2>2, <2>3, <2>4, Becomes DEF StartInv
  <2> QED
    BY <2>1, <2>2, <2>5 DEF StartInv
<1>4. CASE BeginLogging(t) \/ LoggingReady(t)
  <2>1. RuntimesInv' /\ \A u \in Threads: Busy(u)' <=> Busy(u)
    BY <1>4, NoRuntimeStep DEF BeginLogging, LoggingReady, StartInv
  <2>2. /\ RelayInv' /\ ~Flushes(t)' /\ \A u \in Threads: u # t => flow'[u] = flow[u]
    BY <1>4, InitStepKeeps DEF BeginLogging, LoggingReady, StartInv
  <2>3. ~Busy(t)'
    BY <1>4, <2>1 DEF BeginLogging, LoggingReady, StartInv, ClientsInv, At
  <2>4. Become(t, "waiting") \/ Become(t, "finish")
    BY <1>4 DEF BeginLogging, LoggingReady
  <2>5. \A u \in Threads: u # t => (Flushes(u)' => Flushes(u))
    BY <2>2 DEF Flushes
  <2>6. ClientsInv'
    BY <2>1, <2>2, <2>3, <2>4, <2>5, Becomes DEF StartInv
  <2> QED
    BY <2>1, <2>2, <2>6 DEF StartInv
<1>5. CASE LoggingStep(t)
  <2>1. RuntimesInv' /\ \A u \in Threads: Busy(u)' <=> Busy(u)
    BY <1>5, NoRuntimeStep DEF LoggingStep, StartInv
  <2>2. /\ RelayInv' /\ ~Flushes(t)' /\ \A u \in Threads: u # t => flow'[u] = flow[u]
    BY <1>5, InitStepKeeps DEF LoggingStep, StartInv
  <2>3. \A u \in Threads: Flushes(u)' => Flushes(u)
    BY <2>2 DEF Flushes
  <2>4. ClientsInv'
    BY <1>5, <2>1, <2>3, NoClient DEF LoggingStep, StartInv
  <2> QED
    BY <2>1, <2>2, <2>4 DEF StartInv
<1> QED
  BY <1>1, <1>2, <1>3, <1>4, <1>5 DEF Coming

LEMMA BeginClientKeeps ==
  ASSUME StartInv, NEW t \in Threads, BeginClient(t)
  PROVE  StartInv'
<1>1. PICK v \in load.verbose: client' = [client EXCEPT ![t] = [pc |-> "runtime", verbose |-> v]]
  BY DEF BeginClient
<1>2. PICK arg \in load.args: R!Ask(t, arg)
  BY DEF BeginClient
<1>3. v \in BOOLEAN /\ arg \in K3
  BY StartAssumption DEF StartInv, ClientsInv, K3
<1>4. RuntimesInv' /\ Busy(t)' /\ \A u \in Threads: u # t => (Busy(u)' <=> Busy(u))
  BY <1>2, <1>3, AskKeeps DEF StartInv
<1>5. RelayInv' /\ \A u \in Threads: Flushes(u)' <=> Flushes(u)
  BY NoRelayStep, StillRelay DEF BeginClient, StartInv
<1>6. ~Flushes(t)'
  BY <1>5 DEF BeginClient, StartInv, ClientsInv, At
<1> DEFINE c == [pc |-> "runtime", verbose |-> v]
<1>7. c \in Client /\ c.pc = "runtime" /\ client' = [client EXCEPT ![t] = c] /\ load' = load
  BY <1>1, <1>3 DEF Client, BeginClient
<1> HIDE DEF c
<1>8. ClientsInv'
  BY <1>4, <1>5, <1>6, <1>7, OneClient DEF StartInv
<1> QED
  BY <1>4, <1>5, <1>8 DEF StartInv

LEMMA UsingKeeps ==
  ASSUME StartInv, NEW t \in Threads, FlushStep(t) \/ EndRequest(t) \/ CloseOrFlush(t)
  PROVE  StartInv'
<1>1. RuntimesInv' /\ \A u \in Threads: Busy(u)' <=> Busy(u)
  BY NoRuntimeStep DEF FlushStep, EndRequest, CloseOrFlush, StartInv
<1>2. RelayInv' /\ \A u \in Threads: Flushes(u)' => Flushes(u) \/ At(u, "ready")
  <2>1. CASE FlushStep(t)
    BY <2>1, FlushStepKeeps DEF FlushStep, StartInv, Flushes
  <2>2. CASE EndRequest(t) \/ CloseOrFlush(t)
    BY <2>2, BeginFlushKeeps DEF EndRequest, CloseOrFlush, StartInv, Flushes
  <2> QED
    BY <2>1, <2>2
<1>3. ClientsInv'
  BY <1>1, <1>2, NoClient DEF FlushStep, EndRequest, CloseOrFlush, StartInv
<1> QED
  BY <1>1, <1>2, <1>3 DEF StartInv

LEMMA StartStep == StartInv /\ [Next]_vars => StartInv'
<1> SUFFICES ASSUME StartInv, [Next]_vars PROVE StartInv'
  OBVIOUS
<1>1. CASE UNCHANGED vars
  <2>1. UNCHANGED runtimes /\ UNCHANGED relay /\ UNCHANGED <<client, load>>
    BY <1>1 DEF vars
  <2>2. ClientsInv'
    BY <2>1, NoClient, StillRelay, StillRuntimes DEF StartInv
  <2> QED
    BY <2>1, <2>2, NoRuntimeStep, NoRelayStep DEF StartInv
<1>2. CASE Configure \/ Record
  <2>1. CASE Configure
    <3>1. RuntimesInv' /\ \A u \in Threads: Busy(u)' <=> Busy(u)
      BY <2>1, SetKeeps DEF Configure, StartInv
    <3>2. RelayInv' /\ \A u \in Threads: Flushes(u)' <=> Flushes(u)
      BY <2>1, NoRelayStep, StillRelay DEF Configure, StartInv
    <3>3. ClientsInv'
      BY <2>1, <3>1, <3>2, NoClient DEF Configure, StartInv
    <3> QED
      BY <3>1, <3>2, <3>3 DEF StartInv
  <2>2. CASE Record
    <3>1. RuntimesInv' /\ \A u \in Threads: Busy(u)' <=> Busy(u)
      BY <2>2, NoRuntimeStep DEF Record, StartInv
    <3>2. RelayInv' /\ \A u \in Threads: Flushes(u)' => Flushes(u)
      BY <2>2, LogKeeps DEF Record, StartInv, Flushes
    <3>3. ClientsInv'
      BY <2>2, <3>1, <3>2, NoClient DEF Record, StartInv
    <3> QED
      BY <3>1, <3>2, <3>3 DEF StartInv
  <2> QED
    BY <1>2, <2>1, <2>2
<1>3. CASE \E t \in Threads: \/ BeginClient(t) \/ Coming(t) \/ FlushStep(t)
                             \/ EndRequest(t) \/ CloseOrFlush(t)
  BY <1>3, BeginClientKeeps, ComingKeeps, UsingKeeps
<1> QED
  BY <1>1, <1>2, <1>3 DEF Next
----------------------------------------------------------------------------
LEMMA StartInvHolds == Spec => []StartInv
<1>1. Init => StartInv
  BY InitStart
<1>2. StartInv /\ [Next]_vars => StartInv'
  BY StartStep
<1> QED
  BY <1>1, <1>2, PTL DEF Spec

(* The configuration that the setters of the runtime guard is the one the   *)
(* multi-threaded runtime has, from before anybody gets its handle: a       *)
(* setter that answers "already initialized" never lies, nor one that       *)
(* accepts.                                                                 *)
THEOREM SettingsAreTrue == Spec => []SettingsHold
<1>1. StartInv => SettingsHold
  <2> SUFFICES ASSUME StartInv PROVE SettingsHold
    OBVIOUS
  <2>1. R!RTypeOK /\ R!SettingsHold /\ L!LTypeOK
    BY DEF StartInv, RuntimesInv, RelayInv
  <2>2. ASSUME NEW t \in Threads
        PROVE  /\ client[t].pc \in {"builder", "runtime", "logging", "waiting", "finish", "ready", "spent"}
               /\ At(t, "runtime") <=> ask[t].pc # "idle"
               /\ flow[t].pc \in {"pop", "deliver"} => At(t, "ready")
    BY DEF StartInv, ClientsInv, Client, Busy, Flushes
  <2>3. TypeOK
    BY <2>1, <2>2 DEF TypeOK
  <2> QED
    BY <2>1, <2>3 DEF SettingsHold
<1> QED
  BY <1>1, StartInvHolds, PTL

(* A client gets the runtime its builder asks for; when it leaves the       *)
(* choice open, a default that was in force during the call, or, with none, *)
(* the multi-threaded runtime whenever that was there before the call.      *)
THEOREM RuntimeAsAsked == Spec => []AnswerAsAsked
<1>1. StartInv => AnswerAsAsked
  <2> SUFFICES ASSUME StartInv, NEW t \in Threads, ask[t].pc = "done"
               PROVE  \/ ask[t].kind = ask[t].arg
                      \/ /\ ask[t].arg = "unset"
                         /\ \/ ask[t].kind \in ask[t].defaults
                            \/ /\ "unset" \in ask[t].defaults
                               /\ ask[t].mtThere => ask[t].kind = "mt"
    BY DEF AnswerAsAsked, R!AnswerAsAsked
  <2>1. Fits(ask[t])
    BY DEF StartInv, RuntimesInv, AskInv, Busy
  <2> QED
    BY <2>1 DEF Fits
<1> QED
  BY <1>1, StartInvHolds, PTL

LEMMA FlushEnds ==
  ASSUME RelayInv, NEW t \in Threads, L!FlushStep(t), flow'[t] = L!Rest, lost' = lost
  PROVE  L!ToSet(channel') \intersect flow[t].owed = {}
<1>1. channel \in Seq(1..made) /\ L!ToSet(channel) = Held(channel) /\ L!Rest.pc = "idle"
  BY HeldToSet DEF RelayInv, L!LTypeOK, L!Rest
<1>2. ASSUME NEW f \in Flushing, flow' = [flow EXCEPT ![t] = f] PROVE FALSE
  <2>1. flow'[t] = f
    BY <1>2, FlowMoves
  <2> QED
    BY <1>1, <2>1 DEF Flushing
<1>3. flow[t] \in Flushing
  BY FlushStepKeeps DEF RelayInv, FlowTyped, Flushes, Quiet
<1>4. CASE L!PopBatch(t) \/ L!Deliver(t)
  <2>1. Flushes(t)'
    BY <1>4, PopBatchKeeps, DeliverKeeps
  <2> QED
    BY <1>1, <2>1 DEF Flushes
<1>5. CASE L!PopNothing(t)
  <2>1. channel' = <<>> /\ channel' = channel
    BY <1>5 DEF L!PopNothing
  <2>2. Held(channel) = {}
    BY <2>1 DEF Held
  <2> QED
    BY <1>1, <2>1, <2>2
<1>6. CASE L!EndBatch(t)
  <2>1. flow[t].pc = "deliver" /\ channel' = channel
    BY <1>6 DEF L!EndBatch
  <2>2. CASE flow[t].all
    BY <1>1, <2>1, <2>2 DEF RelayInv, Apart, Paid
  <2>3. CASE ~flow[t].all
    <3> DEFINE f == [flow[t] EXCEPT !.pc = "pop"]
    <3>1. f \in Flushing
      BY <1>3 DEF Flushing
    <3>2. flow' = [flow EXCEPT ![t] = f]
      BY <1>6, <2>3 DEF L!EndBatch, L!Do
    <3> QED
      BY <1>2, <3>1, <3>2
  <2> QED
    BY <2>2, <2>3
<1>7. CASE L!DeliverFails(t)
  <2>1. /\ flow[t].pc = "deliver" /\ flow[t].batch # <<>> /\ flow[t].batch \in Seq(1..made)
        /\ L!ToSet(flow[t].batch) \subseteq lost
    BY <1>3, <1>7 DEF L!DeliverFails, Flushing
  <2>2. flow[t].batch[1] \in Held(flow[t].batch) /\ Held(flow[t].batch) \subseteq lost
    BY <2>1, HeldToSet
  <2>3. Has(t) = Held(flow[t].batch) /\ Has(t) \intersect lost = {}
    BY <2>1 DEF Has, Flushes, RelayInv, Apart, Disjoint
  <2> QED
    BY <2>2, <2>3
<1> QED
  BY <1>4, <1>5, <1>6, <1>7 DEF L!FlushStep

(* A flush that returns, of one client, of close() or of flush_logs(),      *)
(* leaves in the channel no record that was there when it began, whatever   *)
(* other threads log and flush meanwhile.                                   *)
THEOREM FlushLeavesNothing == Spec => FlushReaches
<1> DEFINE Reaches == \A t \in Threads:
             flow[t].pc \in {"pop", "deliver"} /\ flow'[t] = L!Rest /\ lost' = lost
               => L!ToSet(channel') \intersect flow[t].owed = {}
<1>1. StartInv /\ [Next]_vars => [Reaches]_(L!lvars)
  <2> SUFFICES ASSUME StartInv, [Next]_vars, NEW t \in Threads,
                      Flushes(t), flow'[t] = L!Rest, lost' = lost
               PROVE  L!ToSet(channel') \intersect flow[t].owed = {} \/ UNCHANGED L!lvars
    BY DEF Flushes
  <2>1. flow'[t] # flow[t]
    BY DEF Flushes, L!Rest
  <2>2. ~UNCHANGED relay
    BY <2>1 DEF relay
  <2>3. PICK u \in Threads: \/ L!FlushStep(u) \/ L!LInitStep(u) \/ L!InitLogging(u) \/ L!InitDone(u)
                            \/ L!BeginFlush(u, TRUE) \/ L!BeginFlush(u, FALSE) \/ L!Log
    BY <2>2 DEF Next, vars, Coming, Configure, Record, BeginClient, RuntimeStep, GotRuntime,
       FinishClient, BeginLogging, LoggingStep, LoggingReady, EndRequest, CloseOrFlush, FlushStep
  <2>4. RelayInv
    BY DEF StartInv
  <2>5. ~L!Log
    BY <2>1, <2>4, LogKeeps
  <2>6. u = t
    BY <2>1, <2>3, <2>4, <2>5, FlushStepKeeps, InitStepKeeps, BeginFlushKeeps
  <2>7. L!FlushStep(t)
    <3>1. ~(L!BeginFlush(t, TRUE) \/ L!BeginFlush(t, FALSE))
      BY DEF L!BeginFlush, Flushes
    <3>2. ~(L!LInitStep(t) \/ L!InitLogging(t) \/ L!InitDone(t))
      BY <2>4, InitStepKeeps
    <3> QED
      BY <2>3, <2>5, <2>6, <3>1, <3>2
  <2> QED
    BY <2>4, <2>7, FlushEnds
<1> QED
  BY <1>1, StartInvHolds, PTL DEF Spec, FlushReaches, L!FlushReaches
----------------------------------------------------------------------------
(* What becomes of the records.  The channel, the batch of every flush and  *)
(* what each flush has delivered are rising, and in that order older than   *)
(* one another; and a record that has been made is in one place.            *)
Rising(s) == \A i, j \in 1..Len(s): i < j => s[i] < s[j]
Told == {delivered[i][1]: i \in 1..Len(delivered)}

OrderInv ==
  /\ delivered \in Seq((1..made) \X Threads)
  /\ Rising(channel)
  /\ \A r \in Held(channel), s \in Told: s < r
  /\ \A t \in Threads: Flushes(t) =>
       /\ Rising(flow[t].batch)
       /\ \A r \in Held(channel), s \in Has(t): s < r
       /\ \A i \in 1..Len(delivered): delivered[i][2] = t => \A s \in Has(t): delivered[i][1] < s
  /\ \A i, j \in 1..Len(delivered):
       i < j /\ delivered[i][2] = delivered[j][2] => delivered[i][1] < delivered[j][1]

PlaceInv ==
  /\ \A i, j \in 1..Len(delivered): delivered[i][1] = delivered[j][1] => i = j
  /\ Told \intersect lost = {}
  /\ \A t \in Threads: Told \intersect Has(t) = {}
  /\ \A r \in 1..made: \/ r \in Held(channel) \union lost \union Told
                       \/ \E t \in Threads: r \in Has(t)
  /\ \A t \in Threads: flow[t].pc = "pop" => flow[t].batch = <<>>

RecordsInv == OrderInv /\ PlaceInv

LEMMA InitRecords == L!LInit => RecordsInv
<1> SUFFICES ASSUME L!LInit PROVE RecordsInv
  OBVIOUS
<1>1. channel = <<>> /\ Len(channel) = 0 /\ made = 0 /\ delivered = <<>> /\ Len(delivered) = 0
  BY DEF L!LInit
<1>2. \A t \in Threads: flow[t].pc = "idle"
  <2>1. \A t \in Threads: flow[t] = L!Rest
    BY DEF L!LInit
  <2>2. L!Rest.pc = "idle"
    BY DEF L!Rest
  <2> QED
    BY <2>1, <2>2
<1>3. Held(channel) = {} /\ Told = {} /\ \A t \in Threads: ~Flushes(t) /\ Has(t) = {}
  BY <1>1, <1>2 DEF Held, Told, Flushes, Has
<1>4. delivered \in Seq((1..made) \X Threads)
  BY <1>1
<1> QED
  BY <1>1, <1>2, <1>3, <1>4 DEF RecordsInv, OrderInv, PlaceInv, Rising

(* A thread that holds nothing begins or ends a flush, or does none. *)
LEMMA HoldingNothing ==
  ASSUME RecordsInv, NEW t \in Threads, Has(t) = {},
         UNCHANGED <<channel, made, delivered, lost>>,
         \A u \in Threads: u # t => flow'[u] = flow[u],
         flow'[t].pc \in {"pop", "deliver"} => flow'[t].batch = <<>>
  PROVE  RecordsInv'
<1>1. Held(channel)' = Held(channel) /\ Told' = Told /\ Rising(channel)' = Rising(channel)
  BY DEF Held, Told, Rising
<1>2. Has(t)' = {} /\ (Flushes(t)' => Rising(flow[t].batch)')
  BY DEF Has, Flushes, Held, Rising
<1>3. \A u \in Threads: u # t =>
        /\ Has(u)' = Has(u) /\ (Flushes(u)' <=> Flushes(u)) /\ flow'[u] = flow[u]
  BY DEF Has, Flushes, Held
<1>4. OrderInv'
  <2>1. ASSUME NEW u \in Threads, Flushes(u)'
        PROVE  /\ Rising(flow'[u].batch)
               /\ \A r \in Held(channel), s \in Has(u)': s < r
               /\ \A i \in 1..Len(delivered): delivered[i][2] = u => \A s \in Has(u)': delivered[i][1] < s
    <3>1. CASE u = t
      BY <1>2, <2>1, <3>1
    <3>2. CASE u # t
      BY <1>3, <2>1, <3>2 DEF RecordsInv, OrderInv
    <3> QED
      BY <3>1, <3>2
  <2> QED
    BY <1>1, <2>1 DEF RecordsInv, OrderInv
<1>5. PlaceInv'
  <2>1. \A u \in Threads: Told \intersect Has(u)' = {}
    BY <1>2, <1>3 DEF RecordsInv, PlaceInv
  <2>2. \A r: (\E u \in Threads: r \in Has(u)) => \E u \in Threads: r \in Has(u)'
    BY <1>3
  <2>3. \A u \in Threads: flow'[u].pc = "pop" => flow'[u].batch = <<>>
    BY DEF RecordsInv, PlaceInv
  <2> QED
    BY <1>1, <2>1, <2>2, <2>3 DEF RecordsInv, PlaceInv
<1> QED
  BY <1>4, <1>5 DEF RecordsInv

(* A logger raises: what its flush held is lost. *)
LEMMA FailingLoses ==
  ASSUME RelayInv, RecordsInv, NEW t \in Threads, L!DeliverFails(t)
  PROVE  RecordsInv'
<1>1. /\ flow[t].pc = "deliver" /\ UNCHANGED <<channel, made, delivered>>
      /\ flow' = [flow EXCEPT ![t] = L!Rest] /\ L!Rest.pc = "idle"
  BY DEF L!DeliverFails, L!Do, L!Rest
<1>2. flow'[t].pc = "idle" /\ \A u \in Threads: u # t => flow'[u] = flow[u]
  BY <1>1, FlowMoves
<1>3. flow[t].batch \in Seq(1..made) /\ Has(t) = Held(flow[t].batch)
  BY <1>1 DEF RelayInv, FlowTyped, Quiet, Flushing, Has, Flushes
<1>4. lost' = lost \union Has(t)
  BY <1>3, HeldToSet DEF L!DeliverFails
<1>5. /\ Held(channel)' = Held(channel) /\ Told' = Told /\ Rising(channel)' = Rising(channel)
      /\ Has(t)' = {} /\ ~Flushes(t)'
  BY <1>1, <1>2 DEF Held, Told, Rising, Has, Flushes
<1>6. \A u \in Threads: u # t =>
        /\ Has(u)' = Has(u) /\ (Flushes(u)' <=> Flushes(u)) /\ flow'[u] = flow[u]
  BY <1>2 DEF Has, Flushes, Held
<1>7. OrderInv'
  BY <1>1, <1>5, <1>6 DEF RecordsInv, OrderInv
<1>8. PlaceInv'
  <2>1. Told' \intersect lost' = {}
    BY <1>4, <1>5 DEF RecordsInv, PlaceInv
  <2>2. \A u \in Threads: Told' \intersect Has(u)' = {}
    BY <1>5, <1>6 DEF RecordsInv, PlaceInv
  <2>3. ASSUME NEW r \in 1..made
        PROVE  \/ r \in Held(channel)' \union lost' \union Told'
               \/ \E u \in Threads: r \in Has(u)'
    <3>1. CASE \E u \in Threads: r \in Has(u)
      BY <1>4, <1>6, <3>1
    <3>2. CASE r \in Held(channel) \union lost \union Told
      BY <1>4, <1>5, <3>2
    <3> QED
      BY <3>1, <3>2 DEF RecordsInv, PlaceInv
  <2>4. \A u \in Threads: flow'[u].pc = "pop" => flow'[u].batch = <<>>
    BY <1>2 DEF RecordsInv, PlaceInv
  <2> QED
    BY <1>1, <2>1, <2>2, <2>3, <2>4 DEF RecordsInv, PlaceInv
<1> QED
  BY <1>7, <1>8 DEF RecordsInv

(* What a thread holds has been made. *)
LEMMA HoldsMade ==
  ASSUME RelayInv, NEW t \in Threads
  PROVE  /\ Has(t) \subseteq 1..made
         /\ Flushes(t) => flow[t] \in Flushing /\ flow[t].batch \in Seq(1..made)
<1>1. Flushes(t) => flow[t] \in Flushing
  BY DEF RelayInv, FlowTyped, Flushes, Quiet
<1>2. Flushes(t) => flow[t].batch \in Seq(1..made)
  BY <1>1 DEF Flushing
<1> QED
  BY <1>1, <1>2, HeldToSet DEF Has

LEMMA ToldMade ==
  ASSUME RelayInv, OrderInv
  PROVE  /\ Len(delivered) \in Nat
         /\ \A i \in 1..Len(delivered): delivered[i][1] \in 1..made /\ delivered[i][2] \in Threads
         /\ Told \subseteq 1..made
<1>1. delivered \in Seq((1..made) \X Threads)
  BY DEF OrderInv
<1>2. \A i \in 1..Len(delivered): delivered[i] \in (1..made) \X Threads
  BY <1>1, ElementOfSeq
<1> QED
  BY <1>1, <1>2, LenProperties DEF Told

(* A record that is made is younger than all of them. *)
LEMMA LogRecords ==
  ASSUME RelayInv, RecordsInv, L!Log
  PROVE  RecordsInv'
<1>1. /\ made' = made + 1 /\ made \in Nat /\ UNCHANGED <<flow, delivered>>
      /\ \/ channel' = Append(channel, made + 1) /\ lost' = lost
         \/ channel' = channel /\ lost' = lost \union {made + 1}
  BY StartAssumption DEF L!Log, RelayInv, L!LTypeOK
<1>2. /\ channel \in Seq(1..made) /\ Held(channel) \subseteq 1..made /\ Len(channel) \in Nat
      /\ lost \subseteq 1..made
  BY HeldToSet, LenProperties DEF RelayInv, L!LTypeOK
<1>3. Told \subseteq 1..made /\ \A t \in Threads: Has(t) \subseteq 1..made
  BY ToldMade, HoldsMade DEF RecordsInv
<1>4. Told' = Told /\ \A t \in Threads: Has(t)' = Has(t) /\ (Flushes(t)' <=> Flushes(t))
  BY <1>1 DEF Told, Has, Flushes, Held
<1>5. /\ made + 1 \notin 1..made /\ 1..made' = (1..made) \union {made + 1}
      /\ \A s \in 1..made: s < made + 1
  BY <1>1
<1>6. /\ Rising(channel') /\ Held(channel)' \subseteq Held(channel) \union {made + 1}
      /\ Held(channel) \subseteq Held(channel)'
      /\ made + 1 \in Held(channel)' <=> lost' = lost
      /\ lost' \in {lost, lost \union {made + 1}}
  <2>1. CASE channel' = Append(channel, made + 1) /\ lost' = lost
    <3>1. /\ Len(channel') = Len(channel) + 1 /\ channel'[Len(channel) + 1] = made + 1
          /\ \A i \in 1..Len(channel): channel'[i] = channel[i] /\ channel[i] \in 1..made
      <4>1. \A i \in 1..Len(channel): channel[i] \in 1..made
        BY <1>2, ElementOfSeq
      <4>2. /\ Len(channel') = Len(channel) + 1 /\ channel'[Len(channel) + 1] = made + 1
            /\ \A i \in 1..Len(channel): channel'[i] = channel[i]
        BY <1>2, <2>1
      <4> QED
        BY <4>1, <4>2
    <3>2. Held(channel)' = Held(channel) \union {made + 1}
      BY <1>2, <3>1 DEF Held
    <3>3. Rising(channel')
      BY <1>2, <1>5, <3>1 DEF RecordsInv, OrderInv, Rising
    <3> QED
      BY <2>1, <3>2, <3>3
  <2>2. CASE channel' = channel /\ lost' = lost \union {made + 1}
    <3>1. lost' # lost /\ Held(channel)' = Held(channel)
      BY <1>2, <1>5, <2>2 DEF Held
    <3> QED
      BY <1>2, <1>5, <2>2, <3>1 DEF RecordsInv, OrderInv
  <2> QED
    BY <1>1, <2>1, <2>2
<1>7. OrderInv'
  <2>1. delivered' \in Seq((1..made') \X Threads)
    <3>1. (1..made) \X Threads \subseteq (1..made') \X Threads
      BY <1>5
    <3>2. Seq((1..made) \X Threads) \subseteq Seq((1..made') \X Threads)
      BY <3>1, SeqMonotonic
    <3> QED
      BY <1>1, <3>2 DEF RecordsInv, OrderInv
  <2>2. \A r \in Held(channel)', s \in Told': s < r
    BY <1>3, <1>4, <1>5, <1>6 DEF RecordsInv, OrderInv
  <2>3. \A t \in Threads: Flushes(t) => \A r \in Held(channel)', s \in Has(t): s < r
    BY <1>3, <1>5, <1>6 DEF RecordsInv, OrderInv
  <2> QED
    BY <1>1, <1>4, <1>6, <2>1, <2>2, <2>3 DEF RecordsInv, OrderInv
<1>8. PlaceInv'
  <2>1. Told' \intersect lost' = {}
    BY <1>3, <1>4, <1>5, <1>6 DEF RecordsInv, PlaceInv
  <2>2. \A r \in 1..made': \/ r \in Held(channel)' \union lost' \union Told'
                           \/ \E t \in Threads: r \in Has(t)'
    BY <1>4, <1>5, <1>6 DEF RecordsInv, PlaceInv
  <2> QED
    BY <1>1, <1>4, <2>1, <2>2 DEF RecordsInv, PlaceInv
<1> QED
  BY <1>7, <1>8 DEF RecordsInv

(* A batch is the front of the channel. *)
LEMMA PopRecords ==
  ASSUME RelayInv, RecordsInv, NEW t \in Threads, L!PopBatch(t)
  PROVE  RecordsInv'
<1> DEFINE n == L!Limit(t)
           b == SubSeq(channel, 1, n)
           f == [flow[t] EXCEPT !.pc = "deliver", !.batch = b]
<1>1. /\ flow[t].pc = "pop" /\ channel # <<>> /\ flow' = [flow EXCEPT ![t] = f]
      /\ channel' = SubSeq(channel, n + 1, Len(channel))
      /\ UNCHANGED <<made, delivered, lost>>
  BY DEF L!PopBatch, L!Do
<1>2. flow[t] \in Flushing /\ Has(t) = {}
  BY <1>1 DEF RelayInv, FlowTyped, Quiet, RecordsInv, PlaceInv, Has, Held
<1>3. channel \in Seq(1..made) /\ Len(channel) \in Nat /\ Len(channel) >= 1
  BY <1>1, HeldToSet, LenProperties DEF RelayInv, L!LTypeOK
<1>4. n \in 1..Len(channel)
  BY <1>2, <1>3, StartAssumption DEF L!Limit, Flushing
<1> HIDE DEF n
<1>5. Len(b) = n /\ \A i \in 1..n: b[i] = channel[i]
  BY <1>3, <1>4, Cut
<1>6. /\ Len(channel') = Len(channel) - n
      /\ \A i \in 1..(Len(channel) - n): channel'[i] = channel[n + i]
  BY <1>1, <1>3, <1>4, Cut
<1> HIDE DEF b
<1>7. f.pc = "deliver" /\ f.batch = b
  BY <1>2 DEF Flushing
<1> HIDE DEF f
<1>8. /\ flow'[t].pc = "deliver" /\ flow'[t].batch = b
      /\ \A u \in Threads: u # t => flow'[u] = flow[u]
  BY <1>1, <1>7, FlowMoves
<1>9. /\ Told' = Told /\ Flushes(t)' /\ Has(t)' = Held(b)
      /\ \A u \in Threads: u # t => Has(u)' = Has(u) /\ (Flushes(u)' <=> Flushes(u))
  BY <1>1, <1>8 DEF Told, Has, Flushes, Held
<1>10. Rising(b) /\ Rising(channel')
  <2>1. Rising(channel)
    BY DEF RecordsInv, OrderInv
  <2>2. Rising(b)
    BY <1>3, <1>4, <1>5, <2>1 DEF Rising
  <2>3. Rising(channel')
    <3> SUFFICES ASSUME NEW i \in 1..Len(channel'), NEW j \in 1..Len(channel'), i < j
                 PROVE  channel'[i] < channel'[j]
      BY DEF Rising
    <3>1. n + i \in 1..Len(channel) /\ n + j \in 1..Len(channel) /\ n + i < n + j
      BY <1>3, <1>4, <1>6
    <3>2. channel[n + i] < channel[n + j]
      BY <2>1, <3>1 DEF Rising
    <3> QED
      BY <1>3, <1>4, <1>6, <3>2
  <2> QED
    BY <2>2, <2>3
<1>11. Held(channel) = Held(b) \union Held(channel') /\ \A s \in Held(b), r \in Held(channel'): s < r
  <2>1. \A i \in 1..n, j \in 1..(Len(channel) - n):
          i \in 1..Len(channel) /\ n + j \in 1..Len(channel) /\ i < n + j
    BY <1>3, <1>4
  <2>2. \A i \in 1..Len(channel): \/ i \in 1..n
                                  \/ i - n \in 1..(Len(channel) - n) /\ n + (i - n) = i
    BY <1>3, <1>4
  <2>3. Held(channel) \subseteq Held(b) \union Held(channel')
    <3> SUFFICES ASSUME NEW i \in 1..Len(channel)
                 PROVE  channel[i] \in Held(b) \union Held(channel')
      BY DEF Held
    <3>1. CASE i \in 1..n
      BY <1>5, <3>1 DEF Held
    <3>2. CASE i - n \in 1..(Len(channel) - n) /\ n + (i - n) = i
      <4>1. channel'[i - n] = channel[i]
        BY <1>6, <3>2
      <4> QED
        BY <1>6, <3>2, <4>1 DEF Held
    <3> QED
      BY <2>2, <3>1, <3>2
  <2>4. \A i \in 1..Len(b): b[i] \in Held(channel)
    BY <1>3, <1>4, <1>5 DEF Held
  <2>5. \A j \in 1..Len(channel'): channel'[j] \in Held(channel)
    BY <1>3, <1>4, <1>6, <2>1 DEF Held
  <2>6. \A i \in 1..n, j \in 1..(Len(channel) - n): channel[i] < channel[n + j]
    BY <2>1 DEF RecordsInv, OrderInv, Rising
  <2>7. \A i \in 1..Len(b), j \in 1..Len(channel'): b[i] < channel'[j]
    BY <1>5, <1>6, <2>6
  <2> QED
    BY <2>3, <2>4, <2>5, <2>7 DEF Held
<1>12. Held(channel)' = Held(channel')
  BY DEF Held
<1>13. \A r \in Held(channel), s \in Told: s < r
  BY DEF RecordsInv, OrderInv
<1>14. OrderInv'
  <2>1. ASSUME NEW u \in Threads, Flushes(u)'
        PROVE  /\ Rising(flow'[u].batch)
               /\ \A r \in Held(channel'), s \in Has(u)': s < r
               /\ \A i \in 1..Len(delivered): delivered[i][2] = u => \A s \in Has(u)': delivered[i][1] < s
    <3>1. CASE u = t
      <4>1. \A i \in 1..Len(delivered): delivered[i][1] \in Told
        BY DEF Told
      <4> QED
        BY <1>8, <1>9, <1>10, <1>11, <1>13, <3>1, <4>1
    <3>2. CASE u # t
      BY <1>8, <1>9, <1>11, <2>1, <3>2 DEF RecordsInv, OrderInv
    <3> QED
      BY <3>1, <3>2
  <2>2. \A r \in Held(channel'), s \in Told': s < r
    BY <1>9, <1>11, <1>13
  <2> QED
    BY <1>1, <1>10, <1>12, <2>1, <2>2 DEF RecordsInv, OrderInv
<1>15. PlaceInv'
  <2>1. Told \intersect Held(b) = {}
    <3>1. Told \subseteq 1..made
      BY ToldMade DEF RecordsInv
    <3>2. \A s \in 1..made: ~(s < s)
      BY DEF RelayInv, L!LTypeOK
    <3> QED
      BY <1>11, <1>13, <3>1, <3>2
  <2>2. \A u \in Threads: Told' \intersect Has(u)' = {}
    BY <1>9, <2>1 DEF RecordsInv, PlaceInv
  <2>3. ASSUME NEW r \in 1..made
        PROVE  \/ r \in Held(channel)' \union lost' \union Told'
               \/ \E u \in Threads: r \in Has(u)'
    <3>1. CASE r \in Held(channel)
      BY <1>9, <1>11, <1>12, <3>1
    <3>2. CASE r \in lost \union Told
      BY <1>1, <1>9, <3>2
    <3>3. CASE \E u \in Threads: r \in Has(u)
      BY <1>2, <1>9, <3>3
    <3> QED
      BY <3>1, <3>2, <3>3 DEF RecordsInv, PlaceInv
  <2>4. \A u \in Threads: flow'[u].pc = "pop" => flow'[u].batch = <<>>
    BY <1>8 DEF RecordsInv, PlaceInv
  <2> QED
    BY <1>1, <1>9, <2>2, <2>3, <2>4 DEF RecordsInv, PlaceInv
<1> QED
  BY <1>14, <1>15 DEF RecordsInv

(* The logger gets the oldest record of the batch. *)
LEMMA DeliverRecords ==
  ASSUME RelayInv, RecordsInv, NEW t \in Threads, L!Deliver(t)
  PROVE  RecordsInv'
<1> DEFINE b == flow[t].batch
           f == [flow[t] EXCEPT !.batch = Tail(b)]
           d == Len(delivered)
<1>1. /\ flow[t].pc = "deliver" /\ b # <<>> /\ flow' = [flow EXCEPT ![t] = f]
      /\ delivered' = Append(delivered, <<Head(b), t>>)
      /\ UNCHANGED <<channel, made, lost>>
  BY DEF L!Deliver, L!Do
<1>2. flow[t] \in Flushing /\ b \in Seq(1..made) /\ Flushes(t) /\ Has(t) = Held(b)
  BY <1>1, HoldsMade DEF Has, Flushes
<1>3. f.pc = "deliver" /\ f.batch = Tail(b)
  BY <1>1, <1>2 DEF Flushing
<1> HIDE DEF f
<1>4. /\ flow'[t].pc = "deliver" /\ flow'[t].batch = Tail(b)
      /\ \A u \in Threads: u # t => flow'[u] = flow[u]
  BY <1>1, <1>3, FlowMoves
<1>5. /\ Rising(b) /\ \A r \in Held(channel), s \in Held(b): s < r
      /\ \A i \in 1..d: delivered[i][2] = t => \A s \in Held(b): delivered[i][1] < s
  BY <1>2 DEF RecordsInv, OrderInv
<1> HIDE DEF b
<1>6. /\ Len(Tail(b)) = Len(b) - 1 /\ Len(b) \in Nat /\ Len(b) >= 1 /\ Head(b) = b[1]
      /\ \A i \in 1..(Len(b) - 1): Tail(b)[i] = b[i + 1]
  BY <1>1, <1>2, HeadTailProperties, LenProperties, HeldToSet
<1>7. PICK h, w: h = Head(b) /\ w = Tail(b)
  OBVIOUS
<1>8. /\ h \in Held(b) /\ h \in 1..made /\ Held(b) = Held(w) \union {h}
      /\ Rising(w) /\ \A s \in Held(w): h < s
  <2>1. \A i \in 1..Len(w): i + 1 \in 1..Len(b) /\ w[i] = b[i + 1] /\ 1 < i + 1
    BY <1>6, <1>7
  <2>2. \A i \in 1..Len(b): i = 1 \/ (i - 1 \in 1..Len(w) /\ w[i - 1] = b[i])
    BY <1>6, <1>7
  <2>3. 1 \in 1..Len(b) /\ h = b[1]
    BY <1>6, <1>7
  <2>4. Held(w) \subseteq Held(b) /\ h \in Held(b) /\ Held(b) \subseteq Held(w) \union {h}
    <3>1. Held(w) \subseteq Held(b)
      BY <2>1 DEF Held
    <3>2. h \in Held(b)
      BY <2>3 DEF Held
    <3>3. ASSUME NEW i \in 1..Len(b) PROVE b[i] \in Held(w) \union {h}
      <4>1. CASE i = 1
        BY <2>3, <4>1
      <4>2. CASE i - 1 \in 1..Len(w) /\ w[i - 1] = b[i]
        BY <4>2 DEF Held
      <4> QED
        BY <2>2, <4>1, <4>2
    <3>4. Held(b) \subseteq Held(w) \union {h}
      BY <3>3 DEF Held
    <3> QED
      BY <3>1, <3>2, <3>4
  <2>5. \A i \in 1..Len(w): h < w[i]
    BY <1>5, <2>1, <2>3 DEF Rising
  <2>6. Rising(w)
    BY <1>5, <1>6, <1>7, <2>1 DEF Rising
  <2>7. Held(b) \subseteq 1..made
    BY <1>2, HeldToSet
  <2> QED
    BY <2>4, <2>5, <2>6, <2>7 DEF Held
<1>9. d \in Nat /\ Told \subseteq 1..made /\ delivered \in Seq((1..made) \X Threads)
  BY ToldMade DEF RecordsInv, OrderInv
<1>10. /\ delivered' \in Seq((1..made) \X Threads) /\ Len(delivered') = d + 1
       /\ delivered'[d + 1] = <<h, t>>
       /\ \A i \in 1..d: delivered'[i] = delivered[i]
  <2>1. <<h, t>> \in (1..made) \X Threads
    BY <1>8
  <2>2. delivered' = Append(delivered, <<h, t>>)
    BY <1>1, <1>7
  <2> QED
    BY <1>9, <2>1, <2>2, AppendProperties
<1>11. delivered'[d + 1][1] = h /\ delivered'[d + 1][2] = t
  BY <1>10
<1>12. \A i \in 1..Len(delivered'): i \in 1..d \/ i = d + 1
  BY <1>9, <1>10
<1>13. Told' = Told \union {h}
  <2>1. d + 1 \in 1..Len(delivered') /\ \A i \in 1..d: i \in 1..Len(delivered')
    BY <1>9, <1>10
  <2>2. ASSUME NEW n \in Told' PROVE n \in Told \union {h}
    <3>1. PICK i \in 1..Len(delivered'): n = delivered'[i][1]
      BY DEF Told
    <3>2. CASE i = d + 1
      BY <1>11, <3>1, <3>2
    <3>3. CASE i \in 1..d
      BY <1>10, <3>1, <3>3 DEF Told
    <3> QED
      BY <1>12, <3>2, <3>3
  <2>3. ASSUME NEW n \in Told PROVE n \in Told'
    <3>1. PICK i \in 1..d: n = delivered[i][1]
      BY DEF Told
    <3> QED
      BY <1>10, <2>1, <3>1 DEF Told
  <2>4. h \in Told'
    BY <1>11, <2>1 DEF Told
  <2> QED
    BY <2>2, <2>3, <2>4
<1>14. /\ Flushes(t)' /\ Has(t)' = Held(w) /\ Held(channel)' = Held(channel)
       /\ \A u \in Threads: u # t => Has(u)' = Has(u) /\ (Flushes(u)' <=> Flushes(u))
  BY <1>1, <1>4, <1>7 DEF Has, Flushes, Held
<1>15. \A i \in 1..d: delivered[i][1] \in Told /\ delivered[i][1] \in 1..made
  BY <1>9 DEF Told
<1>16. OrderInv'
  <2>1. \A r \in Held(channel), s \in Told \union {h}: s < r
    BY <1>5, <1>8 DEF RecordsInv, OrderInv
  <2>2. ASSUME NEW u \in Threads, Flushes(u)'
        PROVE  /\ Rising(flow'[u].batch)
               /\ \A r \in Held(channel), s \in Has(u)': s < r
               /\ \A i \in 1..Len(delivered'): delivered'[i][2] = u => \A s \in Has(u)': delivered'[i][1] < s
    <3>1. CASE u = t
      <4>1. Rising(flow'[u].batch) /\ \A r \in Held(channel), s \in Has(u)': s < r
        BY <1>4, <1>5, <1>7, <1>8, <1>14, <3>1
      <4>2. ASSUME NEW i \in 1..Len(delivered'), delivered'[i][2] = u
            PROVE  \A s \in Held(w): delivered'[i][1] < s
        <5>1. CASE i \in 1..d
          BY <1>5, <1>8, <1>10, <3>1, <4>2, <5>1
        <5>2. CASE i = d + 1
          BY <1>8, <1>11, <5>2
        <5> QED
          BY <1>12, <5>1, <5>2
      <4> QED
        BY <1>14, <3>1, <4>1, <4>2
    <3>2. CASE u # t
      <4>1. Flushes(u) /\ flow'[u] = flow[u] /\ Has(u)' = Has(u)
        BY <1>4, <1>14, <2>2, <3>2
      <4>2. \A i \in 1..Len(delivered'): delivered'[i][2] = u => i \in 1..d
        BY <1>11, <1>12, <3>2
      <4> QED
        BY <1>10, <4>1, <4>2 DEF RecordsInv, OrderInv
    <3> QED
      BY <3>1, <3>2
  <2>3. ASSUME NEW i \in 1..Len(delivered'), NEW j \in 1..Len(delivered'),
               i < j, delivered'[i][2] = delivered'[j][2]
        PROVE  delivered'[i][1] < delivered'[j][1]
    <3>1. i \in 1..d
      BY <1>9, <1>12, <2>3
    <3>2. CASE j \in 1..d
      BY <1>10, <2>3, <3>1, <3>2 DEF RecordsInv, OrderInv
    <3>3. CASE j = d + 1
      BY <1>5, <1>8, <1>10, <1>11, <2>3, <3>1, <3>3
    <3> QED
      BY <1>12, <3>2, <3>3
  <2>4. Rising(channel')
    BY <1>1 DEF RecordsInv, OrderInv
  <2> QED
    BY <1>1, <1>10, <1>13, <1>14, <2>1, <2>2, <2>3, <2>4 DEF OrderInv
<1>17. PlaceInv'
  <2>1. h \notin Told /\ h \notin lost /\ h \notin Held(w)
    <3>1. h \notin Told /\ h \notin lost
      BY <1>2, <1>8 DEF RecordsInv, PlaceInv, RelayInv, Apart, Disjoint
    <3>2. ~(h < h)
      BY <1>8 DEF RelayInv, L!LTypeOK
    <3> QED
      BY <1>8, <3>1, <3>2
  <2>2. ASSUME NEW i \in 1..Len(delivered'), NEW j \in 1..Len(delivered'),
               delivered'[i][1] = delivered'[j][1]
        PROVE  i = j
    <3>1. CASE i \in 1..d /\ j \in 1..d
      BY <1>10, <2>2, <3>1 DEF RecordsInv, PlaceInv
    <3>2. CASE i = d + 1 /\ j \in 1..d
      BY <1>10, <1>11, <1>15, <2>1, <2>2, <3>2
    <3>3. CASE j = d + 1 /\ i \in 1..d
      BY <1>10, <1>11, <1>15, <2>1, <2>2, <3>3
    <3> QED
      BY <1>12, <3>1, <3>2, <3>3
  <2>3. Told' \intersect lost' = {}
    BY <1>1, <1>13, <2>1 DEF RecordsInv, PlaceInv
  <2>4. ASSUME NEW u \in Threads PROVE Told' \intersect Has(u)' = {}
    <3>1. CASE u = t
      BY <1>2, <1>8, <1>13, <1>14, <2>1, <3>1 DEF RecordsInv, PlaceInv
    <3>2. CASE u # t
      <4>1. h \notin Has(u)
        BY <1>2, <1>8, <3>2 DEF RelayInv, Apart, Disjoint
      <4> QED
        BY <1>13, <1>14, <3>2, <4>1 DEF RecordsInv, PlaceInv
    <3> QED
      BY <3>1, <3>2
  <2>5. ASSUME NEW r \in 1..made
        PROVE  \/ r \in Held(channel)' \union lost' \union Told'
               \/ \E u \in Threads: r \in Has(u)'
    <3>1. CASE \E u \in Threads: r \in Has(u)
      BY <1>2, <1>8, <1>13, <1>14, <3>1
    <3>2. CASE r \in Held(channel) \union lost \union Told
      BY <1>1, <1>13, <1>14, <3>2
    <3> QED
      BY <3>1, <3>2 DEF RecordsInv, PlaceInv
  <2>6. \A u \in Threads: flow'[u].pc = "pop" => flow'[u].batch = <<>>
    BY <1>4 DEF RecordsInv, PlaceInv
  <2> QED
    BY <1>1, <2>2, <2>3, <2>4, <2>5, <2>6 DEF PlaceInv
<1> QED
  BY <1>16, <1>17 DEF RecordsInv

LEMMA NoRecordStep ==
  ASSUME RecordsInv, UNCHANGED relay
  PROVE  RecordsInv'
<1>1. UNCHANGED <<channel, made, flow, delivered, lost>>
  BY DEF relay
<1>2. Held(channel)' = Held(channel) /\ Told' = Told /\ Rising(channel)' = Rising(channel)
  BY <1>1 DEF Held, Told, Rising
<1>3. \A t \in Threads: /\ Has(t)' = Has(t) /\ (Flushes(t)' <=> Flushes(t))
                        /\ Rising(flow[t].batch)' = Rising(flow[t].batch)
  BY <1>1 DEF Has, Flushes, Held, Rising
<1>4. OrderInv'
  BY <1>1, <1>2, <1>3 DEF RecordsInv, OrderInv
<1>5. PlaceInv'
  BY <1>1, <1>2, <1>3 DEF RecordsInv, PlaceInv
<1> QED
  BY <1>4, <1>5 DEF RecordsInv

LEMMA FlushRecords ==
  ASSUME RelayInv, RecordsInv, NEW t \in Threads, L!FlushStep(t)
  PROVE  RecordsInv'
<1>1. CASE L!PopBatch(t)
  BY <1>1, PopRecords
<1>2. CASE L!Deliver(t)
  BY <1>2, DeliverRecords
<1>3. CASE L!DeliverFails(t)
  BY <1>3, FailingLoses
<1>4. CASE L!PopNothing(t) \/ L!EndBatch(t)
  <2>1. flow[t].batch = <<>> /\ UNCHANGED <<channel, made, delivered, lost>>
    BY <1>4 DEF L!PopNothing, L!EndBatch, RecordsInv, PlaceInv
  <2>2. Has(t) = {}
    BY <2>1 DEF Has, Held
  <2>3. \A u \in Threads: u # t => flow'[u] = flow[u]
    BY FlushStepKeeps
  <2>4. flow'[t].pc \in {"pop", "deliver"} => flow'[t].batch = <<>>
    <3>1. CASE flow' = [flow EXCEPT ![t] = L!Rest]
      <4>1. flow'[t] = L!Rest
        BY <3>1, FlowMoves
      <4> QED
        BY <4>1 DEF L!Rest
    <3>2. CASE L!EndBatch(t) /\ ~flow[t].all
      <4> DEFINE f == [flow[t] EXCEPT !.pc = "pop"]
      <4>1. flow'[t] = f
        BY <3>2, FlowMoves DEF L!EndBatch, L!Do
      <4>2. flow[t] \in Flushing
        BY <3>2, HoldsMade DEF L!EndBatch, Flushes
      <4>3. f.batch = flow[t].batch
        BY <4>2 DEF Flushing
      <4> QED
        BY <2>1, <4>1, <4>3
    <3> QED
      BY <1>4, <3>1, <3>2 DEF L!PopNothing, L!EndBatch, L!Do
  <2> QED
    BY <2>1, <2>2, <2>3, <2>4, HoldingNothing
<1> QED
  BY <1>1, <1>2, <1>3, <1>4 DEF L!FlushStep

LEMMA BeginRecords ==
  ASSUME RelayInv, RecordsInv, NEW t \in Threads, NEW all \in BOOLEAN, L!BeginFlush(t, all)
  PROVE  RecordsInv'
<1> DEFINE f == [pc |-> "pop", all |-> all, batch |-> <<>>, owed |-> L!ToSet(channel)]
<1>1. /\ flow[t].pc = "idle" /\ flow' = [flow EXCEPT ![t] = f]
      /\ UNCHANGED <<channel, made, delivered, lost>>
  BY DEF L!BeginFlush, L!Do
<1>2. flow'[t].batch = <<>> /\ \A u \in Threads: u # t => flow'[u] = flow[u]
  <2>1. flow'[t] = f /\ \A u \in Threads: u # t => flow'[u] = flow[u]
    BY <1>1, FlowMoves
  <2> QED
    BY <2>1
<1>3. Has(t) = {}
  BY <1>1 DEF Has, Flushes
<1> QED
  BY <1>1, <1>2, <1>3, HoldingNothing

LEMMA StartingRecords ==
  ASSUME RelayInv, RecordsInv, NEW t \in Threads,
         L!InitLogging(t) \/ L!LInitStep(t) \/ L!InitDone(t)
  PROVE  RecordsInv'
<1>1. UNCHANGED <<channel, made, delivered, lost>>
  BY DEF L!InitLogging, L!LInitStep, L!SetChannel, L!InstallLogger, L!InitDone
<1>2. /\ ~Flushes(t) /\ ~Flushes(t)' /\ \A u \in Threads: u # t => flow'[u] = flow[u]
  BY InitStepKeeps
<1>3. Has(t) = {} /\ flow'[t].pc \notin {"pop", "deliver"}
  BY <1>2 DEF Has, Flushes
<1> QED
  BY <1>1, <1>2, <1>3, HoldingNothing

LEMMA RecordsStep == StartInv /\ RecordsInv /\ [Next]_vars => RecordsInv'
<1> SUFFICES ASSUME StartInv, RecordsInv, [Next]_vars PROVE RecordsInv'
  OBVIOUS
<1>1. CASE UNCHANGED relay
  BY <1>1, NoRecordStep
<1>2. CASE ~UNCHANGED relay
  <2>1. \/ L!Log
        \/ \E u \in Threads: \/ L!FlushStep(u) \/ L!LInitStep(u) \/ L!InitLogging(u) \/ L!InitDone(u)
                             \/ L!BeginFlush(u, TRUE) \/ L!BeginFlush(u, FALSE)
    BY <1>2 DEF Next, vars, Coming, Configure, Record, BeginClient, RuntimeStep, GotRuntime,
       FinishClient, BeginLogging, LoggingStep, LoggingReady, EndRequest, CloseOrFlush, FlushStep
  <2>2. RelayInv
    BY DEF StartInv
  <2> QED
    BY <2>1, <2>2, LogRecords, FlushRecords, StartingRecords, BeginRecords
<1> QED
  BY <1>1, <1>2

LEMMA RecordsInvHolds == Spec => [](StartInv /\ RecordsInv)
<1>1. Init => StartInv /\ RecordsInv
  BY InitStart, InitRecords DEF Init
<1>2. (StartInv /\ RecordsInv) /\ [Next]_vars => (StartInv /\ RecordsInv)'
  BY StartStep, RecordsStep
<1> QED
  BY <1>1, <1>2, PTL DEF Spec

(* The relay's own words for it. *)
LEMMA SeenIs ==
  ASSUME RelayInv, RecordsInv
  PROVE  /\ L!Seen \in Seq(1..made) /\ Len(L!Seen) = Len(delivered)
         /\ \A i \in 1..Len(delivered): L!Seen[i] = delivered[i][1]
         /\ DOMAIN delivered = 1..Len(delivered) /\ L!ToSet(L!Seen) = Told
<1>1. /\ Len(delivered) \in Nat /\ \A i \in 1..Len(delivered): delivered[i][1] \in 1..made
      /\ DOMAIN delivered = 1..Len(delivered)
  BY ToldMade, LenProperties DEF RecordsInv, OrderInv
<1>2. L!Seen = [i \in 1..Len(delivered) |-> delivered[i][1]]
  BY <1>1 DEF L!Seen
<1>3. L!Seen \in Seq(1..made) /\ Len(L!Seen) = Len(delivered)
  BY <1>1, <1>2
<1>4. \A i \in 1..Len(delivered): L!Seen[i] = delivered[i][1]
  BY <1>2
<1>5. L!ToSet(L!Seen) = Told
  BY <1>3, <1>4, HeldToSet DEF Held, Told
<1> QED
  BY <1>1, <1>3, <1>4, <1>5

LEMMA BatchesAre ==
  ASSUME RelayInv, RecordsInv, NEW b \in L!Batches
  PROVE  \E t \in Threads: /\ b = flow[t].batch /\ b \in Seq(1..made)
                           /\ Has(t) = Held(b) /\ L!ToSet(b) = Held(b) /\ Once(b) /\ Flushes(t)
<1>1. PICK t \in Threads: flow[t].pc = "deliver" /\ b = flow[t].batch
  BY DEF L!Batches
<1>2. Flushes(t) /\ b \in Seq(1..made) /\ Has(t) = Held(b)
  BY <1>1, HoldsMade DEF Flushes, Has
<1>3. L!ToSet(b) = Held(b)
  BY <1>2, HeldToSet
<1>4. Once(b)
  <2>1. Rising(b) /\ Len(b) \in Nat
    BY <1>1, <1>2, LenProperties DEF RecordsInv, OrderInv
  <2>2. \A i \in 1..Len(b): b[i] \in Nat
    <3>1. \A i \in 1..Len(b): b[i] \in 1..made
      BY <1>2, ElementOfSeq
    <3> QED
      BY <3>1
  <2> QED
    BY <2>1, <2>2 DEF Rising, Once
<1> QED
  BY <1>1, <1>2, <1>3, <1>4

LEMMA OrderHolds ==
  ASSUME RelayInv, RecordsInv
  PROVE  L!OrderKept
<1>1. ASSUME NEW i \in DOMAIN delivered, NEW j \in DOMAIN delivered,
             i < j, delivered[i][2] = delivered[j][2]
      PROVE  L!Seen[i] < L!Seen[j]
  BY <1>1, SeenIs DEF RecordsInv, OrderInv
<1>2. ASSUME NEW r \in L!ToSet(channel),
             NEW s \in L!ToSet(L!Seen) \union UNION {L!ToSet(b): b \in L!Batches}
      PROVE  s < r
  <2>1. r \in Held(channel)
    BY HeldToSet DEF RelayInv, L!LTypeOK
  <2>2. CASE s \in L!ToSet(L!Seen)
    BY <2>1, <2>2, SeenIs DEF RecordsInv, OrderInv
  <2>3. CASE \E b \in L!Batches: s \in L!ToSet(b)
    <3>1. \E t \in Threads: Flushes(t) /\ s \in Has(t)
      BY <2>3, BatchesAre
    <3> QED
      BY <2>1, <3>1 DEF RecordsInv, OrderInv
  <2> QED
    BY <1>2, <2>2, <2>3
<1> QED
  BY <1>1, <1>2 DEF L!OrderKept

(* Only finitely many flushes hold something, and no two of them the same.  *)
LEMMA BatchesApart ==
  ASSUME RelayInv, RecordsInv
  PROVE  LET B == {b \in L!Batches: b # <<>>}
         IN  /\ IsFiniteSet(B)
             /\ \A b, c \in B: b # c => Held(b) \intersect Held(c) = {}
             /\ \A b \in B: /\ Once(b) /\ b \in Seq(1..made) /\ Held(b) \intersect Held(channel) = {}
                            /\ Held(b) \intersect lost = {} /\ Held(b) \intersect Told = {}
             /\ \A t \in Threads: \A r \in Has(t): \E b \in B: r \in Held(b)
<1> DEFINE B == {b \in L!Batches: b # <<>>}
<1>1. ASSUME NEW b \in B, NEW c \in B, b # c
      PROVE  Held(b) \intersect Held(c) = {}
  <2>1. PICK t \in Threads: b = flow[t].batch /\ Has(t) = Held(b)
    BY BatchesAre
  <2>2. PICK u \in Threads: c = flow[u].batch /\ Has(u) = Held(c)
    BY BatchesAre
  <2>3. t # u
    BY <1>1, <2>1, <2>2
  <2> QED
    BY <2>1, <2>2, <2>3 DEF RelayInv, Apart, Disjoint
<1>2. ASSUME NEW b \in B
      PROVE  /\ Once(b) /\ b \in Seq(1..made) /\ Held(b) \intersect Held(channel) = {}
             /\ Held(b) \intersect lost = {} /\ Held(b) \intersect Told = {}
  <2>1. PICK t \in Threads: Has(t) = Held(b) /\ Once(b) /\ b \in Seq(1..made)
    BY BatchesAre
  <2> QED
    BY <2>1 DEF RelayInv, Apart, Disjoint, RecordsInv, PlaceInv
<1>3. ASSUME NEW t \in Threads, NEW r \in Has(t)
      PROVE  \E b \in B: r \in Held(b)
  <2>1. Flushes(t) /\ r \in Held(flow[t].batch)
    BY <1>3 DEF Has
  <2>2. flow[t].batch # <<>>
    BY <2>1 DEF Held
  <2>3. flow[t].pc = "deliver"
    BY <2>1, <2>2 DEF Flushes, RecordsInv, PlaceInv
  <2> QED
    BY <2>1, <2>2, <2>3 DEF L!Batches
<1>4. IsFiniteSet(B)
  <2> DEFINE first == [b \in B |-> b[1]]
  <2> HIDE DEF B
  <2>1. \A b \in B: b # <<>>
    BY DEF B
  <2>2. \A b \in B: b[1] \in Held(b) /\ b[1] \in 1..made
    BY <1>2, <2>1, HeldToSet
  <2>3. first \in [B -> 1..made]
    BY <2>2
  <2>4. \A b, c \in B: b[1] = c[1] => b = c
    BY <1>1, <2>2
  <2>5. first \in Injection(B, 1..made)
    BY <2>3, <2>4 DEF Injection, IsInjective
  <2>6. IsFiniteSet(1..made)
    BY FS_Interval DEF RelayInv, L!LTypeOK
  <2> QED
    BY <2>5, <2>6, FS_Injection
<1> QED
  BY <1>1, <1>2, <1>3, <1>4

LEMMA AccountedHolds ==
  ASSUME RelayInv, RecordsInv
  PROVE  L!RecordsAccounted
<1> DEFINE B == {b \in L!Batches: b # <<>>}
           q == SetToSeq(B)
           l == SetToSeq(lost)
           three == <<channel, L!Seen, l>>
           all == FlattenSeq(three \o q)
<1>1. made \in Nat /\ lost \subseteq 1..made /\ channel \in Seq(1..made)
  BY DEF RelayInv, L!LTypeOK
<1>2. q \in Seq(B) /\ Once(q) /\ Held(q) = B
  BY BatchesApart, SetToSeqIs
<1>3. l \in Seq(1..made) /\ Once(l) /\ Held(l) = lost
  <2>1. IsFiniteSet(1..made)
    BY <1>1, FS_Interval
  <2>2. IsFiniteSet(lost)
    BY <1>1, <2>1, FS_Subset
  <2>3. l \in Seq(lost) /\ Once(l) /\ Held(l) = lost
    BY <2>2, SetToSeqIs
  <2>4. Seq(lost) \subseteq Seq(1..made)
    BY <1>1, SeqMonotonic
  <2> QED
    BY <2>3, <2>4
<1>4. L!Seen \in Seq(1..made) /\ Once(L!Seen) /\ Held(L!Seen) = Told
  BY SeenIs DEF Once, Held, Told, RecordsInv, PlaceInv
<1>5. Once(channel)
  BY DEF Once, Held, RelayInv, Apart, Injective
<1>6. \A b \in B: b \in Seq(1..made)
  BY BatchesApart
<1> HIDE DEF B, q, l
<1>7. three \in Seq(Seq(1..made)) /\ Len(three) = 3
      /\ three[1] = channel /\ three[2] = L!Seen /\ three[3] = l
  BY <1>1, <1>3, <1>4
<1>8. q \in Seq(Seq(1..made)) /\ Len(q) \in Nat
  <2>1. Seq(B) \subseteq Seq(Seq(1..made))
    BY <1>6, SeqMonotonic
  <2> QED
    BY <1>2, <2>1, LenProperties
<1> HIDE DEF three
<1>9. PICK p \in Seq(Seq(1..made)): p = three \o q
  BY <1>7, <1>8, ConcatProperties
<1>10. /\ Len(p) = 3 + Len(q) /\ p[1] = channel /\ p[2] = L!Seen /\ p[3] = l
       /\ \A k \in 1..Len(q): p[3 + k] = q[k] /\ q[k] \in B
  <2>1. Len(p) = 3 + Len(q) /\ \A i \in 1..Len(p): p[i] = IF i <= 3 THEN three[i] ELSE q[i - 3]
    <3>1. /\ Len(three \o q) = Len(three) + Len(q)
          /\ \A i \in 1..Len(three) + Len(q):
               (three \o q)[i] = IF i <= Len(three) THEN three[i] ELSE q[i - Len(three)]
      BY <1>7, <1>8, ConcatProperties
    <3>2. /\ Len(p) = Len(three) + Len(q)
          /\ \A i \in 1..Len(three) + Len(q):
               p[i] = IF i <= Len(three) THEN three[i] ELSE q[i - Len(three)]
      BY <3>1, <1>9, Zenon
    <3> QED
      BY <1>7, <3>2
  <2>2. 1 \in 1..Len(p) /\ 2 \in 1..Len(p) /\ 3 \in 1..Len(p)
    BY <1>8, <2>1
  <2>3. \A k \in 1..Len(q): 3 + k \in 1..Len(p) /\ ~(3 + k <= 3) /\ (3 + k) - 3 = k
    BY <1>8, <2>1
  <2>4. \A k \in 1..Len(q): q[k] \in B
    BY <1>2, ElementOfSeq
  <2> QED
    BY <1>7, <2>1, <2>2, <2>3, <2>4
<1>11. \A i \in 1..Len(p): \/ i = 1 \/ i = 2 \/ i = 3
                           \/ \E k \in 1..Len(q): i = 3 + k /\ p[i] = q[k] /\ q[k] \in B
  <2>1. \A i \in 1..Len(p): i = 1 \/ i = 2 \/ i = 3 \/ (i - 3 \in 1..Len(q) /\ i = 3 + (i - 3))
    BY <1>8, <1>10
  <2> QED
    BY <1>10, <2>1
<1>12. /\ Held(channel) \intersect lost = {} /\ Told \intersect lost = {}
       /\ Held(channel) \intersect Told = {}
  <2>1. \A s \in Told: s \in Nat
    BY ToldMade DEF RecordsInv
  <2>2. \A s \in Nat: ~(s < s)
    OBVIOUS
  <2> QED
    BY <2>1, <2>2 DEF RelayInv, Apart, Disjoint, RecordsInv, PlaceInv, OrderInv
<1>13. \A b \in B: /\ Once(b) /\ Held(b) \intersect Held(channel) = {}
                   /\ Held(b) \intersect Held(l) = {} /\ Held(b) \intersect Held(L!Seen) = {}
  BY <1>3, <1>4, <1>5, BatchesApart DEF B
<1>14. \A i \in 1..Len(p): Once(p[i])
  BY <1>3, <1>4, <1>5, <1>10, <1>11, <1>13
<1>15. ASSUME NEW i \in 1..Len(p), NEW j \in 1..Len(p), i # j
       PROVE  Held(p[i]) \intersect Held(p[j]) = {}
  <2>1. CASE i \in {1, 2, 3} /\ j \in {1, 2, 3}
    BY <1>3, <1>4, <1>5, <1>10, <1>12, <1>15, <2>1
  <2>2. CASE i \in {1, 2, 3} /\ j \notin {1, 2, 3}
    BY <1>10, <1>11, <1>13, <2>2
  <2>3. CASE i \notin {1, 2, 3} /\ j \in {1, 2, 3}
    BY <1>10, <1>11, <1>13, <2>3
  <2>4. CASE i \notin {1, 2, 3} /\ j \notin {1, 2, 3}
    <3>1. PICK k \in 1..Len(q): i = 3 + k /\ p[i] = q[k] /\ q[k] \in B
      BY <1>11, <2>4
    <3>2. PICK m \in 1..Len(q): j = 3 + m /\ p[j] = q[m] /\ q[m] \in B
      BY <1>11, <2>4
    <3>3. q[k] # q[m]
      BY <1>2, <1>15, <3>1, <3>2 DEF Once
    <3> QED
      BY <3>1, <3>2, <3>3, BatchesApart DEF B
  <2> QED
    BY <2>1, <2>2, <2>3, <2>4
<1>16. all = FlattenSeq(p)
  BY <1>9
<1> HIDE DEF all
<1>17. all \in Seq(1..made)
  BY <1>16, FlattenAppend
<1>18. Once(all) /\ Held(all) = UNION {Held(p[i]): i \in 1..Len(p)}
  BY <1>14, <1>15, <1>16, FlattenHolds
<1>19. Held(all) = 1..made
  <2>1. Held(all) \subseteq 1..made
    BY <1>17, HeldToSet DEF Held
  <2>2. ASSUME NEW r \in 1..made PROVE \E i \in 1..Len(p): r \in Held(p[i])
    <3>1. 1 \in 1..Len(p) /\ 2 \in 1..Len(p) /\ 3 \in 1..Len(p)
      BY <1>8, <1>10
    <3>2. CASE r \in Held(channel) \union lost \union Told
      BY <1>3, <1>4, <1>5, <1>10, <3>1, <3>2
    <3>3. CASE \E t \in Threads: r \in Has(t)
      <4>1. PICK b \in B: r \in Held(b)
        BY <3>3, BatchesApart DEF B
      <4>2. PICK k \in 1..Len(q): q[k] = b
        BY <1>2 DEF Held
      <4>3. 3 + k \in 1..Len(p) /\ p[3 + k] = b
        BY <1>8, <1>10, <4>2
      <4> QED
        BY <4>1, <4>3
    <3> QED
      BY <3>2, <3>3 DEF RecordsInv, PlaceInv
  <2> QED
    BY <1>18, <2>1, <2>2
<1>20. Len(all) = made
  BY <1>1, <1>17, <1>18, <1>19, OnceLength
<1>21. L!ToSet(all) = 1..made
  BY <1>17, <1>19, HeldToSet DEF Held
<1>22. L!FlattenSeq(<<channel, L!Seen, L!SetToSeq(lost)>> \o L!SetToSeq(B)) = all
  <2>1. \A S: L!SetToSeq(S) = SetToSeq(S)
    BY DEF L!SetToSeq, SetToSeq, L!IsInjective, IsInjective, L!Cardinality, Cardinality
  <2>2. \A s: L!FlattenSeq(s) = FlattenSeq(s)
    BY DEF L!FlattenSeq, FlattenSeq
  <2> QED
    BY <2>1, <2>2 DEF all, three, q, l
<1> QED
  BY <1>20, <1>21, <1>22 DEF L!RecordsAccounted, B

(* No record disappears unnoticed and none is delivered twice: each is in   *)
(* the channel, in the hands of one flush, delivered, or lost to a full     *)
(* channel, a logger that raised or a relay that was not on; and every      *)
(* flush delivers in the order the records were made, older ones than what  *)
(* still waits, whatever other threads log and flush.                       *)
THEOREM RecordsAreKept == Spec => []RecordsKept
<1>1. StartInv /\ RecordsInv => RecordsKept
  BY OrderHolds, AccountedHolds DEF StartInv, RecordsKept
<1> QED
  BY <1>1, RecordsInvHolds, PTL
==============================================================================
