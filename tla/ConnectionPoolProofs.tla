------------------------- MODULE ConnectionPoolProofs -------------------------
(***************************************************************************)
(* Proofs about ConnectionPool for every set of requests, every limit and  *)
(* every choice of timeouts.                                               *)
(***************************************************************************)
EXTENDS ConnectionPool, SequenceTheorems, FiniteSetTheorems, TLAPS

------------------------------------------------------------------------------
\* What the three operations on the semaphore's queue do to its members.

LEMMA AppendWaiter ==
    ASSUME NEW S, NEW s \in Seq(S), NEW e \in S, e \notin ToSet(s), IsInjective(s)
    PROVE  /\ Append(s, e) \in Seq(S)
           /\ ToSet(Append(s, e)) = ToSet(s) \cup {e}
           /\ IsInjective(Append(s, e))
<1>1. /\ Append(s, e) \in Seq(S)
      /\ Len(Append(s, e)) = Len(s) + 1
      /\ \A i \in 1..Len(s) : Append(s, e)[i] = s[i]
      /\ Append(s, e)[Len(s) + 1] = e
  BY AppendProperties
<1>2. /\ DOMAIN s = 1..Len(s)
      /\ DOMAIN Append(s, e) = 1..(Len(s) + 1)
      /\ Len(s) \in Nat
  BY <1>1, LenProperties
<1>3. ToSet(Append(s, e)) = ToSet(s) \cup {e}
  BY <1>1, <1>2 DEF ToSet
<1>4. IsInjective(Append(s, e))
  BY <1>1, <1>2 DEF ToSet, IsInjective
<1> QED
  BY <1>1, <1>3, <1>4

LEMMA PopWaiter ==
    ASSUME NEW S, NEW s \in Seq(S), s # <<>>, IsInjective(s)
    PROVE  /\ Tail(s) \in Seq(S)
           /\ Head(s) \in ToSet(s) /\ Head(s) \in S
           /\ ToSet(Tail(s)) = ToSet(s) \ {Head(s)}
           /\ IsInjective(Tail(s))
<1>1. /\ Tail(s) \in Seq(S)
      /\ Len(Tail(s)) = Len(s) - 1
      /\ \A i \in 1..Len(Tail(s)) : Tail(s)[i] = s[i + 1]
      /\ Head(s) = s[1] /\ Head(s) \in S
      /\ Len(s) \in Nat /\ Len(s) > 0
  BY HeadTailProperties, EmptySeq, LenProperties
<1>2. DOMAIN s = 1..Len(s) /\ DOMAIN Tail(s) = 1..(Len(s) - 1)
  BY <1>1, LenProperties
<1>3. ToSet(Tail(s)) = ToSet(s) \ {Head(s)}
  <2>1. ASSUME NEW i \in 1..(Len(s) - 1)
        PROVE  s[i + 1] \in ToSet(s) /\ s[i + 1] # s[1]
    BY <1>1, <1>2 DEF ToSet, IsInjective
  <2>2. ASSUME NEW i \in 1..Len(s), s[i] # s[1]
        PROVE  i - 1 \in 1..(Len(s) - 1) /\ Tail(s)[i - 1] = s[i]
    BY <1>1, <2>2
  <2>3. ToSet(Tail(s)) = {Tail(s)[i] : i \in 1..(Len(s) - 1)}
    BY <1>2 DEF ToSet
  <2>4. ToSet(s) = {s[i] : i \in 1..Len(s)}
    BY <1>2 DEF ToSet
  <2>5. \A x \in ToSet(Tail(s)) : x \in ToSet(s) \ {Head(s)}
    BY <1>1, <2>1, <2>3
  <2>6. \A x \in ToSet(s) \ {Head(s)} : x \in ToSet(Tail(s))
    BY <1>1, <2>2, <2>3, <2>4
  <2> QED
    BY <2>5, <2>6
<1>4. IsInjective(Tail(s))
  BY <1>1, <1>2 DEF IsInjective
<1>5. Head(s) \in ToSet(s)
  BY <1>1, <1>2 DEF ToSet
<1> QED
  BY <1>1, <1>3, <1>4, <1>5

LEMMA RemoveWaiter ==
    ASSUME NEW S, NEW s \in Seq(S), NEW k \in DOMAIN s, IsInjective(s)
    PROVE  /\ RemoveAt(s, k) \in Seq(S)
           /\ ToSet(RemoveAt(s, k)) = ToSet(s) \ {s[k]}
           /\ IsInjective(RemoveAt(s, k))
<1> DEFINE n == Len(s)
           a == SubSeq(s, 1, k - 1)
           b == SubSeq(s, k + 1, n)
<1>1. /\ n \in Nat /\ DOMAIN s = 1..n /\ k \in 1..n
  BY LenProperties
<1>2. /\ a \in Seq(S) /\ Len(a) = k - 1
      /\ \A i \in 1..(k - 1) : a[i] = s[i]
  BY <1>1, SubSeqProperties
<1>3. /\ b \in Seq(S) /\ Len(b) = n - k
      /\ \A i \in 1..(n - k) : b[i] = s[k + i]
  BY <1>1, SubSeqProperties
<1> DEFINE t == a \o b
<1>4. /\ t \in Seq(S) /\ Len(t) = n - 1 /\ DOMAIN t = 1..(n - 1)
      /\ \A i \in 1..(n - 1) : t[i] = IF i < k THEN s[i] ELSE s[i + 1]
  <2>1. /\ t \in Seq(S) /\ Len(t) = Len(a) + Len(b)
        /\ \A i \in 1..(Len(a) + Len(b)) :
              t[i] = IF i <= Len(a) THEN a[i] ELSE b[i - Len(a)]
    BY <1>2, <1>3, ConcatProperties
  <2>2. Len(t) = n - 1 /\ DOMAIN t = 1..(n - 1)
    BY <1>1, <1>2, <1>3, <2>1, LenProperties
  <2>3. ASSUME NEW i \in 1..(n - 1)
        PROVE  t[i] = IF i < k THEN s[i] ELSE s[i + 1]
    <3> HIDE DEF a, b, t
    <3>1. CASE i < k
      BY <1>1, <1>2, <1>3, <2>1, <3>1
    <3>2. CASE ~(i < k)
      <4>1. i - (k - 1) \in 1..(n - k) /\ k + (i - (k - 1)) = i + 1
        BY <1>1, <3>2
      <4>2. b[i - (k - 1)] = s[i + 1]
        BY <1>3, <4>1
      <4>3. i \in 1..(Len(a) + Len(b)) /\ ~(i <= Len(a))
        BY <1>1, <1>2, <1>3, <3>2
      <4> QED
        BY <1>2, <2>1, <3>2, <4>2, <4>3
    <3> QED
      BY <3>1, <3>2
  <2> QED
    BY <2>1, <2>2, <2>3
<1> HIDE DEF t
<1>5. ToSet(t) = ToSet(s) \ {s[k]}
  <2>1. ASSUME NEW i \in 1..(n - 1)
        PROVE  t[i] \in ToSet(s) /\ t[i] # s[k]
    <3>1. PICK j \in 1..n : j # k /\ t[i] = s[j]
      <4>1. i \in 1..n /\ i + 1 \in 1..n /\ (i < k => i # k) /\ (~(i < k) => i + 1 # k)
        BY <1>1
      <4> QED
        BY <1>4, <4>1
    <3>2. s[j] # s[k]
      BY <1>1, <3>1 DEF IsInjective
    <3> QED
      BY <1>1, <3>1, <3>2 DEF ToSet
  <2>2. ASSUME NEW i \in 1..n, s[i] # s[k]
        PROVE  \E j \in 1..(n - 1) : t[j] = s[i]
    <3>1. CASE i < k
      BY <1>1, <1>4, <3>1
    <3>2. CASE i > k
      <4>1. i - 1 \in 1..(n - 1) /\ ~(i - 1 < k) /\ (i - 1) + 1 = i
        BY <1>1, <3>2
      <4> QED
        BY <1>4, <4>1
    <3> QED
      BY <1>1, <2>2, <3>1, <3>2
  <2>3. ToSet(t) = {t[i] : i \in 1..(n - 1)} /\ ToSet(s) = {s[i] : i \in 1..n}
    BY <1>1, <1>4 DEF ToSet
  <2>4. \A x \in ToSet(t) : x \in ToSet(s) \ {s[k]}
    BY <2>1, <2>3
  <2>5. \A x \in ToSet(s) \ {s[k]} : x \in ToSet(t)
    BY <2>2, <2>3
  <2> QED
    BY <2>4, <2>5
<1>6. IsInjective(t)
  <2> DEFINE from(i) == IF i < k THEN i ELSE i + 1
  <2>1. \A i \in 1..(n - 1) : from(i) \in 1..n /\ t[i] = s[from(i)]
    BY <1>1, <1>4
  <2>2. \A i, j \in 1..(n - 1) : from(i) = from(j) => i = j
    BY <1>1
  <2>3. \A i, j \in 1..n : s[i] = s[j] => i = j
    BY <1>1 DEF IsInjective
  <2> HIDE DEF from
  <2>4. \A i, j \in 1..(n - 1) : t[i] = t[j] => i = j
    BY <2>1, <2>2, <2>3
  <2> QED
    BY <1>4, <2>4 DEF IsInjective
<1>7. RemoveAt(s, k) = t
  BY DEF RemoveAt, t
<1> QED
  BY <1>4, <1>5, <1>6, <1>7
------------------------------------------------------------------------------
\* The inductive invariant.  HeldExactly alone is not inductive: that a permit
\* given away belonged to a task or reader that ends with it takes the order of
\* a request's life, and that the permits add up takes the exactness of the
\* queue, because a permit handed to somebody who already has one would vanish.

LifeCycle ==
    \A r \in Requests :
        /\ caller[r] = "idle" => task[r] = "none" /\ wireLeft[r] = NoTimeout
        /\ reader[r] # "none" => task[r] = "answered"

PoolInv == WaitersExact /\ PermitConservation /\ NoLostWakeup

IInv == TypeOK /\ LifeCycle /\ HeldExactly /\ PoolInv

USE DEF CallerStates, BodyConfigs, Ended, TaskStates, ResponseStates,
        ReaderStates, OptTime

LEMMA HeldFinite ==
    ASSUME TypeOK
    PROVE  IsFiniteSet(held) /\ Cardinality(held) \in Nat
BY RequestsAssumption, FS_Subset, FS_CardinalityType DEF TypeOK

\* The tasks that ask for, hold or wait for nothing.
Idle == {"none"} \cup Ended

\* Release keeps the pool in order, whoever calls it: the permit of r goes back
\* to the counter or on to the oldest waiter, and nobody else is touched.
LEMMA ReleaseKeepsPool ==
    ASSUME IInv, NEW r \in held, NEW tasks \in [Requests -> TaskStates],
           tasks[r] \in Idle,
           \A q \in Requests \ {r} : tasks[q] = task[q],
           Release(r, tasks)
    PROVE  /\ PoolInv'
           /\ task' \in [Requests -> TaskStates]
           /\ available' \in Nat /\ waiters' \in Seq(Requests)
           /\ held' \in SUBSET Requests
           /\ r \notin held' /\ task'[r] = tasks[r]
           /\ \A q \in Requests \ {r} :
                 \/ task'[q] = task[q] /\ (q \in held' <=> q \in held)
                 \/ task[q] = "waiting" /\ task'[q] = "granted" /\ q \in held'
<1>1. /\ r \in Requests
      /\ waiters \in Seq(Requests) /\ IsInjective(waiters)
      /\ \A q \in Requests : task[q] = "waiting" <=> q \in ToSet(waiters)
      /\ \A q \in Requests : q \in held <=> Occupies(q)
      /\ available \in Nat
      /\ available + Cardinality(held) = MaxConnections
      /\ available > 0 => waiters = <<>>
      /\ held \in SUBSET Requests
  BY DEF IInv, TypeOK, HeldExactly, PoolInv, WaitersExact, PermitConservation,
         NoLostWakeup
<1>2. task[r] # "waiting" /\ r \notin ToSet(waiters)
  BY <1>1 DEF IInv, LifeCycle, Occupies, Reading
<1>3. /\ IsFiniteSet(held) /\ Cardinality(held) \in Nat
      /\ IsFiniteSet(held \ {r})
      /\ Cardinality(held \ {r}) = Cardinality(held) - 1
  BY HeldFinite, FS_RemoveElement DEF IInv
<1>4. CASE waiters = <<>>
  <2>1. /\ available' = available + 1 /\ held' = held \ {r}
        /\ task' = tasks /\ waiters' = waiters
    BY <1>4 DEF Release
  <2>2. WaitersExact'
    BY <1>1, <1>2, <2>1 DEF WaitersExact, Idle
  <2>3. PermitConservation'
    BY <1>1, <1>3, <2>1 DEF PermitConservation
  <2>4. NoLostWakeup'
    BY <1>4, <2>1 DEF NoLostWakeup
  <2> QED
    BY <1>1, <2>1, <2>2, <2>3, <2>4 DEF PoolInv
<1>5. CASE waiters # <<>>
  <2> DEFINE h == Head(waiters)
  <2>1. /\ held' = (held \ {r}) \cup {h}
        /\ task' = [tasks EXCEPT ![h] = "granted"]
        /\ waiters' = Tail(waiters) /\ available' = available
    BY <1>5 DEF Release
  <2>2. /\ h \in Requests /\ h \in ToSet(waiters)
        /\ Tail(waiters) \in Seq(Requests) /\ IsInjective(Tail(waiters))
        /\ ToSet(Tail(waiters)) = ToSet(waiters) \ {h}
    BY <1>1, <1>5, PopWaiter
  <2> HIDE DEF h
  <2>3. h # r /\ task[h] = "waiting" /\ h \notin held
    BY <1>1, <1>2, <2>2 DEF IInv, LifeCycle, Occupies, Reading
  <2>4. /\ task' \in [Requests -> TaskStates] /\ task'[r] = tasks[r]
        /\ task'[h] = "granted"
        /\ \A q \in Requests \ {r, h} : task'[q] = task[q]
    BY <2>1, <2>2, <2>3
  <2>5. WaitersExact'
    BY <1>1, <1>2, <2>1, <2>2, <2>3, <2>4 DEF WaitersExact, Idle
  <2>6. Cardinality(held') = Cardinality(held)
    <3>1. h \notin held \ {r}
      BY <2>3
    <3>2. Cardinality((held \ {r}) \cup {h}) = Cardinality(held \ {r}) + 1
      BY <1>3, <3>1, FS_AddElement
    <3> QED
      BY <1>3, <2>1, <3>2
  <2>7. PermitConservation' /\ NoLostWakeup'
    BY <1>1, <1>5, <2>1, <2>6 DEF PermitConservation, NoLostWakeup
  <2>8. /\ held' \in SUBSET Requests /\ r \notin held'
        /\ \A q \in Requests \ {r} :
              \/ task'[q] = task[q] /\ (q \in held' <=> q \in held)
              \/ task[q] = "waiting" /\ task'[q] = "granted" /\ q \in held'
    BY <1>1, <2>1, <2>2, <2>3, <2>4
  <2> QED
    BY <1>1, <2>1, <2>2, <2>4, <2>5, <2>7, <2>8 DEF PoolInv
<1> QED
  BY <1>4, <1>5

\* The whole invariant survives a release, in whatever way r's work ends.
LEMMA ReleaseKeepsIInv ==
    ASSUME IInv, NEW r \in held, NEW tasks \in [Requests -> TaskStates],
           tasks[r] \in Idle,
           \A q \in Requests \ {r} : tasks[q] = task[q],
           Release(r, tasks),
           UNCHANGED <<callVars, timeVars>>,
           response' \in [Requests -> ResponseStates],
           reader' \in [Requests -> ReaderStates],
           \A q \in Requests \ {r} : reader'[q] = reader[q],
           reader'[r] \notin {"running", "stalled"},
           reader'[r] # "none" => tasks[r] = "answered"
    PROVE  IInv'
<1>1. /\ PoolInv'
      /\ task' \in [Requests -> TaskStates]
      /\ available' \in Nat /\ waiters' \in Seq(Requests)
      /\ held' \in SUBSET Requests
      /\ r \notin held' /\ task'[r] = tasks[r]
      /\ \A q \in Requests \ {r} :
            \/ task'[q] = task[q] /\ (q \in held' <=> q \in held)
            \/ task[q] = "waiting" /\ task'[q] = "granted" /\ q \in held'
  BY ReleaseKeepsPool
<1>2. TypeOK'
  BY <1>1 DEF IInv, TypeOK, callVars, timeVars
<1>3. r \in Requests /\ task[r] # "none"
  BY DEF IInv, TypeOK, HeldExactly, LifeCycle, Occupies, Reading
<1>4. LifeCycle'
  BY <1>1, <1>3 DEF IInv, LifeCycle, callVars, timeVars
<1>5. HeldExactly'
  BY <1>1, <1>3 DEF IInv, HeldExactly, Occupies, Reading, Idle
<1> QED
  BY <1>1, <1>2, <1>4, <1>5 DEF IInv

\* A step that leaves the semaphore alone keeps the pool in order when no task
\* starts or stops waiting.
LEMMA QuietKeepsPool ==
    ASSUME IInv, UNCHANGED poolVars,
           \A q \in Requests : task'[q] = "waiting" <=> task[q] = "waiting"
    PROVE  PoolInv'
BY DEF IInv, PoolInv, WaitersExact, PermitConservation, NoLostWakeup, poolVars,
       ToSet, IsInjective

LEMMA InitIInv == Init => IInv
<1> SUFFICES ASSUME Init PROVE IInv
  OBVIOUS
<1>1. TypeOK
  BY LimitAssumption, EmptySeq DEF Init, TypeOK
<1>2. LifeCycle /\ HeldExactly
  BY DEF Init, LifeCycle, HeldExactly, Occupies, Reading
<1>3. WaitersExact
  <2>1. DOMAIN <<>> = {}
    OBVIOUS
  <2> QED
    BY <2>1 DEF Init, WaitersExact, ToSet, IsInjective
<1>4. PermitConservation /\ NoLostWakeup
  BY FS_EmptySet, LimitAssumption DEF Init, PermitConservation, NoLostWakeup
<1> QED
  BY <1>1, <1>2, <1>3, <1>4 DEF IInv, PoolInv

\* What the callers do.
LEMMA CallerStepKeepsIInv ==
    ASSUME IInv, NEW r \in Requests,
           \/ \E b \in Bodies, t \in Timeouts : Send(r, b, t)
           \/ SendRejected(r) \/ Cancel(r) \/ CallerWakes(r)
    PROVE  IInv'
<1>1. CASE \E b \in Bodies, t \in Timeouts : Send(r, b, t)
  <2>1. PICK b \in Bodies, t \in Timeouts : Send(r, b, t)
    BY <1>1
  <2>2. TypeOK'
    BY <2>1, BodiesAssumption, TimeAssumption
    DEF IInv, TypeOK, Send, timeVars, poolVars
  <2>3. task[r] = "none" /\ r \in Requests
    BY <2>1 DEF Send, IInv, LifeCycle
  <2>4. LifeCycle' /\ HeldExactly'
    BY <2>1, <2>3 DEF IInv, TypeOK, Send, LifeCycle, HeldExactly, Occupies, Reading,
        timeVars, poolVars
  <2>5. PoolInv'
    BY <2>1, <2>3, QuietKeepsPool DEF IInv, TypeOK, Send
  <2> QED
    BY <2>2, <2>4, <2>5 DEF IInv
<1>2. CASE SendRejected(r) \/ Cancel(r) \/ CallerWakes(r)
  <2> USE DEF SendRejected, Cancel, CallerWakes, TakeResponse, TakeError,
              CallerCancelled, CallerClosed, Leave
  <2>1. TypeOK'
    BY <1>2 DEF IInv, TypeOK, timeVars, poolVars
  <2>2. LifeCycle' /\ HeldExactly'
    BY <1>2 DEF IInv, TypeOK, LifeCycle, HeldExactly, Occupies, Reading,
        timeVars, poolVars
  <2>3. PoolInv'
    BY <1>2, QuietKeepsPool
  <2> QED
    BY <2>1, <2>2, <2>3 DEF IInv
<1> QED
  BY <1>1, <1>2

\* How a task gets into the semaphore and out of its queue.
LEMMA AdmissionKeepsIInv ==
    ASSUME IInv, NEW r \in Requests, Admission(r) \/ PoolTimeoutFires(r)
    PROVE  IInv'
<1>1. /\ waiters \in Seq(Requests) /\ IsInjective(waiters)
      /\ \A q \in Requests : task[q] = "waiting" <=> q \in ToSet(waiters)
      /\ \A q \in Requests : q \in held <=> Occupies(q)
      /\ available \in Nat /\ held \in SUBSET Requests
      /\ available + Cardinality(held) = MaxConnections
      /\ available > 0 => waiters = <<>>
      /\ task \in [Requests -> TaskStates]
      /\ reader[r] # "none" => task[r] = "answered"
  BY DEF IInv, TypeOK, HeldExactly, PoolInv, WaitersExact, PermitConservation,
         NoLostWakeup, LifeCycle
<1>2. CASE AcquireAtOnce(r)
  <2>1. r \notin held
    BY <1>1, <1>2 DEF AcquireAtOnce, Occupies, Reading
  <2>2. Cardinality(held') = Cardinality(held) + 1 /\ Cardinality(held) \in Nat
    BY <1>2, <2>1, HeldFinite, FS_AddElement DEF AcquireAtOnce, IInv
  <2>3. TypeOK'
    BY <1>1, <1>2 DEF IInv, TypeOK, AcquireAtOnce, Granted, callVars, timeVars
  <2>4. LifeCycle' /\ HeldExactly'
    BY <1>1, <1>2 DEF IInv, TypeOK, AcquireAtOnce, Granted, callVars, timeVars,
        LifeCycle, HeldExactly, Occupies, Reading
  <2>5. WaitersExact'
    BY <1>1, <1>2 DEF AcquireAtOnce, Granted, WaitersExact
  <2>6. PermitConservation' /\ NoLostWakeup'
    BY <1>1, <1>2, <2>2 DEF AcquireAtOnce, PermitConservation, NoLostWakeup
  <2> QED
    BY <2>3, <2>4, <2>5, <2>6 DEF IInv, PoolInv
<1>3. CASE Enqueue(r)
  <2>1. r \notin ToSet(waiters)
    BY <1>1, <1>3 DEF Enqueue
  <2>2. /\ waiters' \in Seq(Requests) /\ IsInjective(waiters')
        /\ ToSet(waiters') = ToSet(waiters) \cup {r}
    BY <1>1, <1>3, <2>1, AppendWaiter DEF Enqueue
  <2>3. TypeOK'
    BY <1>1, <1>3, <2>2 DEF IInv, TypeOK, Enqueue, callVars, timeVars
  <2>4. LifeCycle' /\ HeldExactly'
    BY <1>1, <1>3 DEF IInv, TypeOK, Enqueue, callVars, timeVars,
        LifeCycle, HeldExactly, Occupies, Reading
  <2>5. WaitersExact'
    BY <1>1, <1>3, <2>2 DEF Enqueue, WaitersExact
  <2>6. PermitConservation' /\ NoLostWakeup'
    BY <1>1, <1>3 DEF Enqueue, PermitConservation, NoLostWakeup
  <2> QED
    BY <2>3, <2>4, <2>5, <2>6 DEF IInv, PoolInv
<1>4. CASE PoolTimeoutFires(r)
  <2>1. PICK i \in DOMAIN waiters :
            waiters[i] = r /\ waiters' = RemoveAt(waiters, i)
    BY <1>4 DEF PoolTimeoutFires
  <2>2. /\ waiters' \in Seq(Requests) /\ IsInjective(waiters')
        /\ ToSet(waiters') = ToSet(waiters) \ {r}
    BY <1>1, <2>1, RemoveWaiter
  <2>3. TypeOK'
    BY <1>1, <1>4, <2>2 DEF IInv, TypeOK, PoolTimeoutFires, callVars, timeVars
  <2>4. LifeCycle' /\ HeldExactly'
    BY <1>1, <1>4 DEF IInv, TypeOK, PoolTimeoutFires, callVars, timeVars,
        LifeCycle, HeldExactly, Occupies, Reading
  <2>5. WaitersExact'
    BY <1>1, <1>4, <2>2 DEF PoolTimeoutFires, WaitersExact
  <2>6. waiters # <<>>
    <3>1. DOMAIN <<>> = {}
      OBVIOUS
    <3> QED
      BY <2>1, <3>1
  <2>7. PermitConservation' /\ NoLostWakeup'
    BY <1>1, <1>4, <2>6 DEF PoolTimeoutFires, PermitConservation, NoLostWakeup
  <2> QED
    BY <2>3, <2>4, <2>5, <2>7 DEF IInv, PoolInv
<1> QED
  BY <1>2, <1>3, <1>4 DEF Admission

\* What a task does between its permit and its answer.
LEMMA TaskStepKeepsIInv ==
    ASSUME IInv, NEW r \in Requests, GrantedStep(r) \/ ServerStep(r)
    PROVE  IInv'
<1>1. /\ task \in [Requests -> TaskStates] /\ reader \in [Requests -> ReaderStates]
      /\ response \in [Requests -> ResponseStates]
      /\ \A q \in Requests : q \in held <=> Occupies(q)
      /\ reader[r] # "none" => task[r] = "answered"
  BY DEF IInv, TypeOK, HeldExactly, LifeCycle
<1>2. CASE BeginExecute(r)
  <2>1. RemainingTimeout(r) \in OptTime
    <3>1. timeout[r] \in Nat \cup {NoTimeout} /\ age[r] \in Nat
      BY TimeAssumption DEF IInv, TypeOK
    <3>2. timeout[r] = NoTimeout \/ age[r] < timeout[r]
      BY <1>2, <3>1 DEF BeginExecute, TimeUsedUp
    <3>3. CASE timeout[r] = NoTimeout
      BY <3>3 DEF RemainingTimeout
    <3>4. CASE timeout[r] # NoTimeout
      BY <3>1, <3>2, <3>4 DEF RemainingTimeout
    <3> QED
      BY <3>3, <3>4
  <2>2. TypeOK'
    BY <1>2, <2>1 DEF IInv, TypeOK, BeginExecute, callVars, poolVars
  <2>3. LifeCycle' /\ HeldExactly'
    BY <1>2 DEF IInv, TypeOK, BeginExecute, callVars, poolVars, LifeCycle,
        HeldExactly, Occupies, Reading
  <2>4. PoolInv'
    BY <1>1, <1>2, QuietKeepsPool DEF BeginExecute
  <2> QED
    BY <2>2, <2>3, <2>4 DEF IInv
<1>3. CASE RejectLate(r)
  <2> DEFINE tasks == [task EXCEPT ![r] = "poolTimedOut"]
  <2>1. /\ r \in held /\ tasks \in [Requests -> TaskStates] /\ tasks[r] \in Idle
        /\ \A q \in Requests \ {r} : tasks[q] = task[q]
        /\ reader[r] = "none"
    BY <1>1, <1>3 DEF RejectLate, Occupies, Idle
  <2> HIDE DEF tasks
  <2>2. Release(r, tasks) /\ UNCHANGED <<callVars, timeVars, response, reader>>
    BY <1>3 DEF RejectLate, tasks
  <2> QED
    BY <1>1, <2>1, <2>2, ReleaseKeepsIInv
<1>4. CASE TaskFails(r)
  <2> DEFINE tasks == [task EXCEPT ![r] = "errored"]
  <2>1. /\ r \in held /\ tasks \in [Requests -> TaskStates] /\ tasks[r] \in Idle
        /\ \A q \in Requests \ {r} : tasks[q] = task[q]
        /\ reader[r] = "none"
    BY <1>1, <1>4 DEF TaskFails, Occupies, Idle
  <2> HIDE DEF tasks
  <2>2. Release(r, tasks) /\ UNCHANGED <<callVars, timeVars, response, reader>>
    BY <1>4 DEF TaskFails, tasks
  <2> QED
    BY <1>1, <2>1, <2>2, ReleaseKeepsIInv
<1>5. CASE ServerAnswers(r)
  <2>1. TypeOK'
    BY <1>5 DEF IInv, TypeOK, ServerAnswers, callVars, timeVars, poolVars
  <2>2. LifeCycle' /\ HeldExactly'
    BY <1>5 DEF IInv, TypeOK, ServerAnswers, callVars, timeVars, poolVars,
        LifeCycle, HeldExactly, Occupies, Reading
  <2>3. PoolInv'
    BY <1>1, <1>5, QuietKeepsPool DEF ServerAnswers
  <2> QED
    BY <2>1, <2>2, <2>3 DEF IInv
<1>6. CASE InitComplete(r)
  <2> DEFINE tasks == [task EXCEPT ![r] = "answered"]
  <2>1. /\ r \in held /\ tasks \in [Requests -> TaskStates] /\ tasks[r] \in Idle
        /\ \A q \in Requests \ {r} : tasks[q] = task[q]
        /\ reader[r] = "none"
    BY <1>1, <1>6 DEF InitComplete, Occupies, Idle
  <2>2. response' \in [Requests -> ResponseStates]
    BY <1>1, <1>6 DEF InitComplete, Answer
  <2> HIDE DEF tasks
  <2>3. Release(r, tasks) /\ UNCHANGED <<callVars, timeVars, reader>>
    BY <1>6 DEF InitComplete, tasks
  <2> QED
    BY <1>1, <2>1, <2>2, <2>3, ReleaseKeepsIInv
<1>7. CASE InitStreaming(r)
  <2>1. TypeOK'
    BY <1>7 DEF IInv, TypeOK, InitStreaming, Answer, callVars, timeVars, poolVars
  <2>2. LifeCycle' /\ HeldExactly'
    BY <1>7 DEF IInv, TypeOK, InitStreaming, callVars, timeVars, poolVars,
        LifeCycle, HeldExactly, Occupies, Reading
  <2>3. PoolInv'
    BY <1>1, <1>7, QuietKeepsPool DEF InitStreaming
  <2> QED
    BY <2>1, <2>2, <2>3 DEF IInv
<1> QED
  BY <1>2, <1>3, <1>4, <1>5, <1>6, <1>7 DEF GrantedStep, ServerStep

\* The reader task, and whoever owns the response.
LEMMA ReaderStepKeepsIInv ==
    ASSUME IInv, NEW r \in Requests,
           \/ ReaderStalls(r) \/ ReaderResumes(r)
           \/ ReaderFinishes(r) \/ ReaderWakes(r)
           \/ CloseResponse(r) \/ DropResponse(r)
    PROVE  IInv'
<1>1. CASE ReaderFinishes(r) \/ ReaderWakes(r)
  <2>1. reader[r] \in {"running", "stalled"} /\ EndReader(r)
    BY <1>1 DEF ReaderFinishes, ReaderWakes, ReaderCloses, ReaderSendFails
  <2>2. /\ r \in held /\ task[r] = "answered" /\ task[r] \in Idle
        /\ task \in [Requests -> TaskStates]
    BY <2>1 DEF IInv, TypeOK, LifeCycle, HeldExactly, Occupies, Reading, Idle
  <2>3. /\ Release(r, task) /\ UNCHANGED <<callVars, timeVars>>
        /\ response' \in [Requests -> ResponseStates]
        /\ reader' \in [Requests -> ReaderStates] /\ reader'[r] = "ended"
        /\ \A q \in Requests \ {r} : reader'[q] = reader[q]
    BY <2>1 DEF EndReader, IInv, TypeOK
  <2> QED
    BY <2>2, <2>3, ReleaseKeepsIInv
<1>2. CASE ReaderStalls(r) \/ ReaderResumes(r) \/ CloseResponse(r) \/ DropResponse(r)
  <2> USE DEF ReaderStalls, ReaderResumes, CloseResponse, DropResponse
  <2>1. TypeOK'
    BY <1>2 DEF IInv, TypeOK, callVars, timeVars, poolVars
  <2>2. UNCHANGED <<caller, task, wireLeft, held>>
    BY <1>2 DEF callVars, timeVars, poolVars
  <2>3. \A q \in Requests : /\ Reading(q)' <=> Reading(q)
                            /\ reader[q] = "none" => reader'[q] = "none"
    <3>1. CASE ReaderStalls(r) \/ ReaderResumes(r)
      <4>1. /\ Reading(r) /\ Reading(r)'
            /\ \A q \in Requests \ {r} : reader'[q] = reader[q]
        BY <3>1 DEF IInv, TypeOK, Reading
      <4> QED
        BY <4>1 DEF Reading
    <3>2. CASE CloseResponse(r) \/ DropResponse(r)
      BY <3>2 DEF Reading
    <3> QED
      BY <1>2, <3>1, <3>2
  <2>4. HeldExactly'
    BY <2>2, <2>3 DEF IInv, HeldExactly, Occupies
  <2>5. LifeCycle'
    BY <2>2, <2>3 DEF IInv, LifeCycle
  <2>6. PoolInv'
    BY <1>2, QuietKeepsPool
  <2> QED
    BY <2>1, <2>4, <2>5, <2>6 DEF IInv
<1> QED
  BY <1>1, <1>2

LEMMA TickKeepsIInv ==
    ASSUME IInv, Tick
    PROVE  IInv'
<1>1. age' \in [Requests -> Nat] /\ wireLeft' \in [Requests -> OptTime]
  <2>1. ASSUME NEW q \in Requests
        PROVE  /\ age[q] \in Nat /\ age[q] + 1 \in Nat
               /\ wireLeft[q] \in OptTime
               /\ wireLeft[q] \notin {NoTimeout, 0} => wireLeft[q] - 1 \in Nat
    BY DEF IInv, TypeOK
  <2> QED
    BY <2>1 DEF Tick
<1>2. TypeOK'
  BY <1>1 DEF IInv, TypeOK, Tick, callVars, poolVars
<1>3. LifeCycle' /\ HeldExactly'
  BY DEF IInv, TypeOK, Tick, LifeCycle, HeldExactly, Occupies, Reading,
      callVars, poolVars
<1>4. PoolInv'
  BY QuietKeepsPool DEF Tick
<1> QED
  BY <1>2, <1>3, <1>4 DEF IInv

LEMMA NextKeepsIInv == IInv /\ [Next]_vars => IInv'
<1> SUFFICES ASSUME IInv, [Next]_vars PROVE IInv'
  OBVIOUS
<1>1. CASE CloseClient
  <2>1. TypeOK'
    BY <1>1 DEF IInv, TypeOK, CloseClient, timeVars, poolVars
  <2>2. LifeCycle' /\ HeldExactly'
    BY <1>1 DEF IInv, CloseClient, LifeCycle, HeldExactly, Occupies, Reading,
        timeVars, poolVars
  <2>3. PoolInv'
    BY <1>1, QuietKeepsPool DEF CloseClient
  <2> QED
    BY <2>1, <2>2, <2>3 DEF IInv
<1>2. CASE Tick
  BY <1>2, TickKeepsIInv
<1>3. CASE UNCHANGED vars
  <2>1. TypeOK' /\ LifeCycle' /\ HeldExactly'
    BY <1>3 DEF IInv, TypeOK, LifeCycle, HeldExactly, Occupies, Reading, vars
  <2>2. PoolInv'
    BY <1>3, QuietKeepsPool DEF vars, poolVars
  <2> QED
    BY <2>1, <2>2 DEF IInv
<1>4. ASSUME NEW r \in Requests,
             \/ \E b \in Bodies, t \in Timeouts : Send(r, b, t)
             \/ SendRejected(r) \/ Cancel(r) \/ CallerWakes(r)
      PROVE  IInv'
  BY <1>4, CallerStepKeepsIInv
<1>5. ASSUME NEW r \in Requests, Admission(r) \/ PoolTimeoutFires(r)
      PROVE  IInv'
  BY <1>5, AdmissionKeepsIInv
<1>6. ASSUME NEW r \in Requests,
             GrantedStep(r) \/ ServerStep(r) \/ WireTimeoutFires(r)
      PROVE  IInv'
  BY <1>6, TaskStepKeepsIInv DEF WireTimeoutFires, ServerStep
<1>7. ASSUME NEW r \in Requests,
             \/ ReaderStalls(r) \/ ReaderResumes(r)
             \/ ReaderFinishes(r) \/ ReaderTimesOut(r) \/ ReaderWakes(r)
             \/ CloseResponse(r) \/ DropResponse(r)
      PROVE  IInv'
  BY <1>7, ReaderStepKeepsIInv DEF ReaderTimesOut
<1> QED
  BY <1>1, <1>2, <1>3, <1>4, <1>5, <1>6, <1>7 DEF Next

LEMMA Invariance == Spec => []IInv
BY InitIInv, NextKeepsIInv, PTL DEF Spec

------------------------------------------------------------------------------
\* What follows from it.

\* The variables keep their types, the permit counter in particular never goes
\* below zero.
THEOREM TypeCorrect == Spec => []TypeOK
<1>1. IInv => TypeOK
  BY DEF IInv
<1> QED
  BY <1>1, Invariance, PTL

\* No permit is lost or forged, on any path through success, failure, timeout,
\* cancellation, close and streaming.
THEOREM PermitsConserved == Spec => []PermitConservation
<1>1. IInv => PermitConservation
  BY DEF IInv, PoolInv
<1> QED
  BY <1>1, Invariance, PTL

\* A permit is held exactly while a task executes or a reader streams.
THEOREM PermitsExact == Spec => []HeldExactly
<1>1. IInv => HeldExactly
  BY DEF IInv
<1> QED
  BY <1>1, Invariance, PTL

\* Nobody sleeps in the queue beside a free permit.
THEOREM NobodySleepsByAPermit == Spec => []NoLostWakeup
<1>1. IInv => NoLostWakeup
  BY DEF IInv, PoolInv
<1> QED
  BY <1>1, Invariance, PTL

\* The queue is exactly the waiting tasks.
THEOREM QueueExact == Spec => []WaitersExact
<1>1. IInv => WaitersExact
  BY DEF IInv, PoolInv
<1> QED
  BY <1>1, Invariance, PTL

\* max_connections bounds what is in flight: executing tasks, answers being
\* read, and streams whose body is not over, with or without a caller.
THEOREM InflightBounded == Spec => []MaxInflight
<1>1. ASSUME IInv PROVE MaxInflight
  <2>1. {r \in Requests : Occupies(r)} = held
    BY <1>1 DEF IInv, TypeOK, HeldExactly
  <2>2. /\ Cardinality(held) \in Nat /\ available \in Nat
        /\ available + Cardinality(held) = MaxConnections
    BY <1>1, HeldFinite DEF IInv, TypeOK, PoolInv, PermitConservation
  <2> QED
    BY <2>1, <2>2, LimitAssumption DEF MaxInflight
<1> QED
  BY <1>1, Invariance, PTL

------------------------------------------------------------------------------
\* The pool implements FifoAdmission.

LEMMA ReleaseDeparts ==
    ASSUME NEW r \in held, NEW tasks, Release(r, tasks)
    PROVE  Admissions!Depart(r)
BY DEF Release, Admissions!Depart

LEMMA StepImplements ==
    ASSUME IInv, [Next]_vars
    PROVE  [Admissions!Next]_(Admissions!vars)
<1>1. /\ waiters \in Seq(Requests)
      /\ \A q \in Requests : task[q] = "waiting" <=> q \in ToSet(waiters)
      /\ \A q \in Requests : q \in held <=> Occupies(q)
      /\ available \in Nat /\ Cardinality(held) \in Nat
      /\ available + Cardinality(held) = MaxConnections
      /\ available > 0 => waiters = <<>>
      /\ \A q \in Requests : reader[q] # "none" => task[q] = "answered"
  BY HeldFinite DEF IInv, TypeOK, HeldExactly, PoolInv, WaitersExact,
      PermitConservation, NoLostWakeup, LifeCycle
<1>2. ASSUME NEW r \in Requests, Admission(r)
      PROVE  Admissions!Arrive(r)
  <2>1. task[r] = "spawned" /\ r \notin held \cup ToSet(waiters)
    BY <1>1, <1>2 DEF Admission, AcquireAtOnce, Enqueue, Occupies, Reading
  <2>2. Admissions!Cardinality(held) = Cardinality(held)
    BY DEF Admissions!Cardinality, Cardinality
  <2>3. CASE AcquireAtOnce(r)
    BY <1>1, <2>1, <2>2, <2>3, LimitAssumption
    DEF AcquireAtOnce, Admissions!Arrive, Admissions!ToSet, ToSet
  <2>4. CASE Enqueue(r)
    BY <1>1, <2>1, <2>2, <2>4, LimitAssumption
    DEF Enqueue, Admissions!Arrive, Admissions!ToSet, ToSet
  <2> QED
    BY <1>2, <2>3, <2>4 DEF Admission
<1>3. ASSUME NEW r \in Requests, PoolTimeoutFires(r)
      PROVE  Admissions!GiveUp(r)
  BY <1>3 DEF PoolTimeoutFires, Admissions!GiveUp, Admissions!RemoveAt, RemoveAt
<1>4. ASSUME NEW r \in Requests, GrantedStep(r) \/ ServerStep(r) \/ WireTimeoutFires(r)
      PROVE  Admissions!Depart(r) \/ UNCHANGED <<held, waiters>>
  <2>1. CASE RejectLate(r)
    BY <1>1, <2>1, ReleaseDeparts DEF RejectLate, Occupies
  <2>2. CASE TaskFails(r)
    BY <1>1, <2>2, ReleaseDeparts DEF TaskFails, Occupies
  <2>3. CASE InitComplete(r)
    BY <1>1, <2>3, ReleaseDeparts DEF InitComplete, Occupies
  <2>4. CASE BeginExecute(r) \/ ServerAnswers(r) \/ InitStreaming(r)
    BY <2>4 DEF BeginExecute, ServerAnswers, InitStreaming, poolVars
  <2> QED
    BY <1>4, <2>1, <2>2, <2>3, <2>4 DEF GrantedStep, ServerStep, WireTimeoutFires
<1>5. ASSUME NEW r \in Requests,
             ReaderFinishes(r) \/ ReaderTimesOut(r) \/ ReaderWakes(r)
      PROVE  Admissions!Depart(r)
  <2>1. EndReader(r) /\ r \in held
    BY <1>1, <1>5 DEF ReaderFinishes, ReaderTimesOut, ReaderWakes, ReaderCloses,
        ReaderSendFails, Occupies, Reading
  <2> QED
    BY <2>1, ReleaseDeparts DEF EndReader
<1>6. ASSUME NEW r \in Requests,
             \/ \E b \in Bodies, t \in Timeouts : Send(r, b, t)
             \/ SendRejected(r) \/ Cancel(r) \/ CallerWakes(r)
             \/ ReaderStalls(r) \/ ReaderResumes(r)
             \/ CloseResponse(r) \/ DropResponse(r)
      PROVE  UNCHANGED <<held, waiters>>
  BY <1>6 DEF Send, SendRejected, Cancel, CallerWakes, TakeResponse, TakeError,
      CallerCancelled, CallerClosed, Leave, ReaderStalls, ReaderResumes,
      CloseResponse, DropResponse, poolVars
<1>7. CloseClient \/ Tick \/ UNCHANGED vars => UNCHANGED <<held, waiters>>
  BY DEF CloseClient, Tick, poolVars, vars
<1> QED
  BY <1>2, <1>3, <1>4, <1>5, <1>6, <1>7
  DEF Next, Admissions!Next, Admissions!vars

\* Permits are handed out strictly in the order in which requests asked, to at
\* most max_connections at a time, and a freed place is never left unused.
THEOREM ImplementsFifoAdmission == Spec => AdmitsInOrder
<1>1. Init => Admissions!Init
  BY DEF Init, Admissions!Init
<1>2. IInv /\ [Next]_vars => [Admissions!Next]_(Admissions!vars)
  BY StepImplements
<1> QED
  BY <1>1, <1>2, Invariance, PTL DEF Spec, AdmitsInOrder, Admissions!Spec

------------------------------------------------------------------------------
\* Deadlines.  A deadline set once stays a deadline: the timeout it came from
\* is that of a request that has left "idle", and both clocks move together.

DeadlineInv ==
    \A r \in Requests :
        wireLeft[r] # NoTimeout =>
            /\ timeout[r] \in Nat
            /\ wireLeft[r] # 0 => age[r] + wireLeft[r] <= timeout[r]

LEMMA StepKeepsDeadlineInv ==
    ASSUME IInv, DeadlineInv, [Next]_vars
    PROVE  DeadlineInv'
<1>1. /\ age \in [Requests -> Nat] /\ wireLeft \in [Requests -> OptTime]
      /\ timeout \in [Requests -> Nat \cup {NoTimeout}] /\ NoTimeout \notin Nat
      /\ \A q \in Requests : caller[q] = "idle" => wireLeft[q] = NoTimeout
  BY TimeAssumption DEF IInv, TypeOK, LifeCycle
<1>2. ASSUME NEW r \in Requests, NEW b \in Bodies, NEW t \in Timeouts, Send(r, b, t)
      PROVE  DeadlineInv'
  BY <1>1, <1>2 DEF Send, DeadlineInv, timeVars
<1>3. ASSUME NEW r \in Requests, BeginExecute(r)
      PROVE  DeadlineInv'
  <2>1. /\ timeout[r] = NoTimeout => RemainingTimeout(r) = NoTimeout
        /\ timeout[r] # NoTimeout =>
              RemainingTimeout(r) \in Nat /\ age[r] + RemainingTimeout(r) = timeout[r]
    BY <1>1, <1>3 DEF BeginExecute, TimeUsedUp, RemainingTimeout
  <2> QED
    BY <1>1, <1>3, <2>1 DEF BeginExecute, DeadlineInv, callVars
<1>4. CASE Tick
  <2>1. ASSUME NEW q \in Requests, wireLeft'[q] # NoTimeout
        PROVE  /\ timeout[q] \in Nat
               /\ wireLeft'[q] # 0 => age'[q] + wireLeft'[q] <= timeout[q]
    <3>1. wireLeft[q] # NoTimeout /\ wireLeft[q] \in Nat /\ timeout[q] \in Nat
      BY <1>1, <1>4, <2>1 DEF Tick, DeadlineInv
    <3>2. age[q] \in Nat /\ age'[q] \in {age[q], age[q] + 1}
      BY <1>1, <1>4 DEF Tick
    <3>3. \/ wireLeft'[q] = wireLeft[q] /\ (wireLeft[q] = 0 \/ age'[q] = age[q])
          \/ wireLeft'[q] = wireLeft[q] - 1 /\ wireLeft[q] # 0
      BY <1>1, <1>4, <3>1 DEF Tick
    <3> QED
      BY <3>1, <3>2, <3>3 DEF DeadlineInv
  <2> QED
    BY <1>4, <2>1 DEF Tick, DeadlineInv, callVars
<1>5. ASSUME UNCHANGED <<timeVars, timeout>>
      PROVE  DeadlineInv'
  BY <1>5 DEF DeadlineInv, timeVars
<1>6. ASSUME NEW r \in Requests,
             \/ SendRejected(r) \/ Cancel(r) \/ CallerWakes(r)
             \/ Admission(r) \/ PoolTimeoutFires(r) \/ RejectLate(r)
             \/ ServerStep(r) \/ WireTimeoutFires(r)
      PROVE  UNCHANGED <<timeVars, timeout>>
  BY <1>6 DEF SendRejected, Cancel, CallerWakes, TakeResponse, TakeError,
      CallerCancelled, CallerClosed, Leave, Admission, AcquireAtOnce, Enqueue,
      PoolTimeoutFires, RejectLate, ServerStep, TaskFails, ServerAnswers,
      InitComplete, InitStreaming, WireTimeoutFires, callVars
<1>7. ASSUME NEW r \in Requests,
             \/ ReaderStalls(r) \/ ReaderResumes(r)
             \/ ReaderFinishes(r) \/ ReaderTimesOut(r) \/ ReaderWakes(r)
             \/ CloseResponse(r) \/ DropResponse(r)
      PROVE  UNCHANGED <<timeVars, timeout>>
  BY <1>7 DEF ReaderStalls, ReaderResumes, ReaderFinishes, ReaderTimesOut,
      ReaderWakes, ReaderCloses, ReaderSendFails, EndReader, CloseResponse,
      DropResponse, callVars
<1>8. CloseClient \/ UNCHANGED vars => UNCHANGED <<timeVars, timeout>>
  BY DEF CloseClient, vars, timeVars
<1> QED
  BY <1>2, <1>3, <1>4, <1>5, <1>6, <1>7, <1>8 DEF Next, GrantedStep

\* However long a request queued, and whatever Tick does meanwhile, reqwest is
\* never left with more time than the request's total timeout allows.
THEOREM DeadlinesKept == Spec => []DeadlineKept
<1>1. Init => DeadlineInv
  BY DEF Init, DeadlineInv
<1>2. IInv /\ DeadlineInv /\ [Next]_vars => DeadlineInv'
  BY StepKeepsDeadlineInv
<1>3. DeadlineInv => DeadlineKept
  BY DEF DeadlineInv, DeadlineKept
<1> QED
  BY <1>1, <1>2, <1>3, Invariance, PTL DEF Spec

------------------------------------------------------------------------------
\* Responses and their owners.

\* A response is open only for a caller that joins or has it, and closed only
\* by one that has it.
OwnerInv == NoOrphanResponse /\ \A r \in Requests : response[r] = "closed" => caller[r] = "ok"

LEMMA CallerKeepsOwners ==
    ASSUME TypeOK, OwnerInv, NEW r \in Requests,
           \/ \E b \in Bodies, t \in Timeouts : Send(r, b, t)
           \/ SendRejected(r) \/ CallerWakes(r)
    PROVE  OwnerInv'
<1>1. caller \in [Requests -> CallerStates] /\ response \in [Requests -> ResponseStates]
  BY DEF TypeOK
<1>2. CASE TakeResponse(r) \/ SendRejected(r) \/ \E b \in Bodies, t \in Timeouts : Send(r, b, t)
  <2>1. PICK state \in {"joining", "ok", "closed"} :
          /\ caller' = [caller EXCEPT ![r] = state] /\ response' = response
          /\ state = "ok" => caller[r] = "joining"
          /\ state # "ok" => caller[r] = "idle"
    BY <1>2 DEF TakeResponse, SendRejected, Send
  <2> QED
    BY <1>1, <2>1 DEF OwnerInv, NoOrphanResponse
<1>3. CASE TakeError(r) \/ CallerCancelled(r) \/ CallerClosed(r)
  <2>1. PICK how : Leave(r, how)
    BY <1>3 DEF TakeError, CallerCancelled, CallerClosed
  <2>2. /\ caller[r] = "joining" /\ response'[r] \notin {"live", "closed"}
        /\ \A q \in Requests : q # r => response'[q] = response[q] /\ caller'[q] = caller[q]
    <3>1. response[r] # "closed"
      BY <2>1 DEF Leave, OwnerInv
    <3> QED
      BY <1>1, <2>1, <3>1 DEF Leave
  <2> QED
    BY <2>2 DEF OwnerInv, NoOrphanResponse
<1> QED
  BY <1>2, <1>3 DEF CallerWakes

LEMMA StepKeepsOwners == IInv /\ OwnerInv /\ [Next]_vars => OwnerInv'
<1> SUFFICES ASSUME IInv, OwnerInv, [Next]_vars PROVE OwnerInv'
  OBVIOUS
<1>1. TypeOK /\ caller \in [Requests -> CallerStates] /\ response \in [Requests -> ResponseStates]
  BY DEF IInv, TypeOK
<1>2. CASE UNCHANGED <<caller, response>>
  BY <1>2 DEF OwnerInv, NoOrphanResponse
<1>3. ASSUME NEW r \in Requests, InitComplete(r) \/ InitStreaming(r)
      PROVE  OwnerInv'
  <2>1. Answer(r) /\ caller' = caller
    BY <1>3 DEF InitComplete, InitStreaming, callVars
  <2> QED
    BY <1>1, <2>1 DEF Answer, OwnerInv, NoOrphanResponse
<1>4. ASSUME NEW r \in Requests, CloseResponse(r) \/ DropResponse(r)
      PROVE  OwnerInv'
  <2>1. /\ caller[r] = "ok" /\ caller' = caller
        /\ \A q \in Requests : q # r => response'[q] = response[q]
    BY <1>1, <1>4 DEF CloseResponse, DropResponse, callVars
  <2> QED
    BY <2>1 DEF OwnerInv, NoOrphanResponse
<1>5. ASSUME NEW r \in Requests,
             \/ Cancel(r) \/ Admission(r) \/ PoolTimeoutFires(r) \/ GrantedStep(r)
             \/ TaskFails(r) \/ ServerAnswers(r) \/ WireTimeoutFires(r)
             \/ ReaderStalls(r) \/ ReaderResumes(r)
             \/ ReaderFinishes(r) \/ ReaderTimesOut(r) \/ ReaderWakes(r)
      PROVE  UNCHANGED <<caller, response>>
  BY <1>5 DEF Cancel, Admission, AcquireAtOnce, Enqueue, PoolTimeoutFires, GrantedStep,
     BeginExecute, RejectLate, TaskFails, ServerAnswers, WireTimeoutFires, ReaderStalls,
     ReaderResumes, ReaderFinishes, ReaderTimesOut, ReaderWakes, ReaderCloses,
     ReaderSendFails, EndReader, callVars
<1>6. CASE CloseClient \/ Tick \/ UNCHANGED vars
  BY <1>2, <1>6 DEF CloseClient, Tick, callVars, vars
<1>7. ASSUME NEW r \in Requests,
             \/ \E b \in Bodies, t \in Timeouts : Send(r, b, t)
             \/ SendRejected(r) \/ CallerWakes(r)
      PROVE  OwnerInv'
  BY <1>1, <1>7, CallerKeepsOwners
<1> QED
  BY <1>2, <1>3, <1>4, <1>5, <1>6, <1>7 DEF Next, ServerStep

\* Whichever of the two goes first, the caller or the task, an answer that
\* nobody is left to take is dropped, for any number of requests.
THEOREM NoResponseOrphaned == Spec => []NoOrphanResponse
<1>1. Init => OwnerInv
  BY DEF Init, OwnerInv, NoOrphanResponse
<1>2. IInv /\ OwnerInv /\ [Next]_vars => OwnerInv'
  BY StepKeepsOwners
<1>3. OwnerInv => NoOrphanResponse
  BY DEF OwnerInv
<1> QED
  BY <1>1, <1>2, <1>3, Invariance, PTL DEF Spec
==============================================================================
