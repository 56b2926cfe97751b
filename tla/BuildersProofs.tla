--------------------------- MODULE BuildersProofs ---------------------------
(***************************************************************************)
(* Theorems about Builders.  A history grows by one call at a time, so the *)
(* first part says what one more call does to everything that is read off  *)
(* a history; then each builder is shown to hold what its history asks for *)
(* as long as it can still build.                                          *)
(***************************************************************************)
EXTENDS Builders, Histories, SequenceLemmas

(* A history: a sequence, of whatever calls. *)
IsLog(log) == log \in Seq({log[i]: i \in DOMAIN log})

LEMMA LogAppend ==
  ASSUME NEW log, IsLog(log), NEW e
  PROVE  /\ Len(log) \in Nat /\ DOMAIN log = 1..Len(log)
         /\ IsLog(Longer(log, e))
         /\ Len(Longer(log, e)) = Len(log) + 1
         /\ DOMAIN Longer(log, e) = 1..(Len(log) + 1)
         /\ Longer(log, e)[Len(log) + 1] = e
         /\ \A i \in 1..Len(log): Longer(log, e)[i] = log[i]
<1> DEFINE R == {log[i]: i \in DOMAIN log}
<1>1. log \in Seq(R)
  BY DEF IsLog
<1> HIDE DEF R
<1>2. PICK long: long = Longer(log, e)
  OBVIOUS
<1>3. /\ Len(log) \in Nat /\ DOMAIN log = 1..Len(log)
      /\ long \in Seq(R \union {e})
      /\ Len(long) = Len(log) + 1
      /\ DOMAIN long = 1..(Len(log) + 1)
      /\ long[Len(log) + 1] = e
      /\ \A i \in 1..Len(log): long[i] = log[i]
  <2>1. log \in Seq(R \union {e})
    BY <1>1
  <2> QED
    BY <1>1, <1>2, <2>1, AppendProperties DEF Longer
<1>4. IsLog(long)
  <2> DEFINE T == {long[i]: i \in DOMAIN long}
  <2>1. long = [i \in DOMAIN long |-> long[i]]
    BY <1>3
  <2>2. long \in [1..(Len(log) + 1) -> T]
    BY <1>3, <2>1
  <2>3. Len(log) + 1 \in Nat
    BY <1>3
  <2> HIDE DEF T
  <2>4. long \in Seq(T)
    BY <2>2, <2>3
  <2> QED
    BY <2>4 DEF IsLog, T
<1> QED
  BY <1>2, <1>3, <1>4

(* One more position is the greatest. *)
LEMMA LastPosition ==
  ASSUME NEW n \in Nat, NEW T \in SUBSET (1..n)
  PROVE  T \union {n + 1} # {} /\ Max(T \union {n + 1}) = n + 1
<1>1. T \union {n + 1} \in SUBSET (1..(n + 1)) /\ n + 1 \in Nat
  OBVIOUS
<1>2. Max(T \union {n + 1}) \in T \union {n + 1} /\ n + 1 <= Max(T \union {n + 1})
  BY <1>1, MaxIs
<1>3. \A y \in T \union {n + 1}: y <= n + 1 /\ y \in Nat
  OBVIOUS
<1>4. PICK m: m = Max(T \union {n + 1})
  OBVIOUS
<1>5. m \in T \union {n + 1} /\ n + 1 <= m
  BY <1>2, <1>4
<1> HIDE <1>2
<1>6. m = n + 1
  BY <1>3, <1>5
<1> QED
  BY <1>4, <1>6

(* Some positions of a history, and the one of the next call. *)
Later(log, T) == T \union {Len(log) + 1}

(* The last of some positions of a history that one more call makes longer. *)
LEMMA LastOfKept ==
  ASSUME NEW log, IsLog(log), NEW e, NEW T \in SUBSET (1..Len(log)), NEW x
  PROVE  LastOf(Longer(log, e), T, x) = LastOf(log, T, x)
<1>1. PICK n, long: n = Len(log) /\ long = Longer(log, e)
  OBVIOUS
<1>2. n \in Nat /\ \A i \in 1..n: long[i] = log[i]
  BY <1>1, LogAppend
<1>3. CASE T = {}
  BY <1>3 DEF LastOf
<1>4. CASE T # {}
  <2>1. Max(T) \in 1..n
    BY <1>1, <1>2, <1>4, MaxIs
  <2>2. long[Max(T)] = log[Max(T)]
    BY <1>2, <2>1
  <2> QED
    BY <1>1, <1>4, <2>2 DEF LastOf
<1> QED
  BY <1>3, <1>4

LEMMA LastOfNext ==
  ASSUME NEW log, IsLog(log), NEW e, NEW T \in SUBSET (1..Len(log)), NEW x
  PROVE  LastOf(Longer(log, e), Later(log, T), x) = e[2]
<1>1. PICK n, long, later: n = Len(log) /\ long = Longer(log, e) /\ later = Later(log, T)
  OBVIOUS
<1>2. n \in Nat /\ long[n + 1] = e
  BY <1>1, LogAppend
<1>3. later # {} /\ Max(later) = n + 1
  BY <1>1, <1>2, LastPosition DEF Later
<1>4. LastOf(long, later, x) = e[2]
  BY <1>2, <1>3 DEF LastOf
<1> QED
  BY <1>1, <1>4

LEMMA ReturnedAppend ==
  ASSUME NEW log, IsLog(log), NEW e, NEW op
  PROVE  /\ Returned(log, op) \in SUBSET (1..Len(log))
         /\ e[1] # op \/ e[3] # "returned" => Returned(Longer(log, e), op) = Returned(log, op)
         /\ e[1] = op /\ e[3] = "returned" =>
              Returned(Longer(log, e), op) = Later(log, Returned(log, op))
BY LogAppend DEF Returned, Later

LEMMA LastGivenAppend ==
  ASSUME NEW log, IsLog(log), NEW e, NEW op, NEW x
  PROVE  /\ e[1] # op \/ e[3] # "returned" => LastGiven(Longer(log, e), op, x) = LastGiven(log, op, x)
         /\ e[1] = op /\ e[3] = "returned" => LastGiven(Longer(log, e), op, x) = e[2]
<1>1. PICK n: n = Len(log) + 1
  OBVIOUS
<1>2. PICK given: given = Returned(log, op) /\ given \in SUBSET (1..Len(log))
  BY ReturnedAppend
<1>3. CASE e[1] # op \/ e[3] # "returned"
  <2>1. Returned(Longer(log, e), op) = given
    BY <1>2, <1>3, ReturnedAppend
  <2>2. LastOf(Longer(log, e), given, x) = LastOf(log, given, x)
    BY <1>2, LastOfKept
  <2>3. LastGiven(log, op, x) = LastOf(log, given, x)
        /\ LastGiven(Longer(log, e), op, x) = LastOf(Longer(log, e), given, x)
    BY <1>2, <2>1 DEF LastGiven
  <2> QED
    BY <1>3, <2>2, <2>3
<1>4. CASE e[1] = op /\ e[3] = "returned"
  <2>1. Returned(Longer(log, e), op) = Later(log, given)
    BY <1>1, <1>2, <1>4, ReturnedAppend
  <2>2. LastOf(Longer(log, e), Later(log, given), x) = e[2]
    BY <1>2, LastOfNext
  <2>3. LastGiven(Longer(log, e), op, x) = LastOf(Longer(log, e), Later(log, given), x)
    BY <2>1 DEF LastGiven
  <2> QED
    BY <1>4, <2>2, <2>3
<1> QED
  BY <1>3, <1>4

LEMMA ArgumentsAppend ==
  ASSUME NEW log, IsLog(log), NEW e, NEW op
  PROVE  /\ Arguments(log, op) \in Seq({log[i][2]: i \in Returned(log, op)})
         /\ e[1] # op \/ e[3] # "returned" => Arguments(Longer(log, e), op) = Arguments(log, op)
         /\ e[1] = op /\ e[3] = "returned" =>
              Arguments(Longer(log, e), op) = Append(Arguments(log, op), e[2])
<1> DEFINE n == Len(log)
           A == {log[i][2]: i \in Returned(log, op)}
           B == A \union {e[2]}
           given == [i \in DOMAIN log |-> IF i \in Returned(log, op) THEN <<log[i][2]>> ELSE <<>>]
           log2 == Longer(log, e)
           given2 == [i \in DOMAIN log2 |-> IF i \in Returned(log2, op) THEN <<log2[i][2]>> ELSE <<>>]
           x == IF e[1] = op /\ e[3] = "returned" THEN <<e[2]>> ELSE <<>>
<1>1. n \in Nat /\ DOMAIN log = 1..n /\ DOMAIN log2 = 1..(n + 1)
  BY LogAppend
<1>2. given \in Seq(Seq(A)) /\ given \in Seq(Seq(B)) /\ Len(given) = n
  <2>1. ASSUME NEW i \in 1..n
        PROVE  given[i] \in Seq(A) /\ given[i] \in Seq(B)
    <3>1. CASE i \in Returned(log, op)
      <4>1. log[i][2] \in A /\ log[i][2] \in B /\ given[i] = <<log[i][2]>>
        BY <1>1, <3>1
      <4> HIDE DEF given, A, B
      <4> QED
        BY <4>1
    <3>2. CASE i \notin Returned(log, op)
      <4>1. given[i] = <<>>
        BY <1>1, <3>2
      <4> QED
        BY <4>1, EmptySeq
    <3> QED
      BY <3>1, <3>2
  <2>2. given \in [1..n -> Seq(A)] /\ given \in [1..n -> Seq(B)]
    <3>1. given = [i \in 1..n |-> given[i]]
      BY <1>1
    <3> HIDE DEF given, A, B
    <3> QED
      BY <2>1, <3>1
  <2> HIDE DEF given, A, B
  <2> QED
    BY <1>1, <2>2
<1>3. x \in Seq(B)
  <2>1. e[2] \in B
    OBVIOUS
  <2> HIDE DEF B
  <2> QED
    BY <2>1, EmptySeq
<1>4. given2 = Append(given, x)
  <2>1. Append(given, x) \in Seq(Seq(B)) /\ Len(Append(given, x)) = n + 1
        /\ Append(given, x)[n + 1] = x /\ \A i \in 1..n: Append(given, x)[i] = given[i]
    <3> HIDE DEF given, x, B
    <3> QED
      BY <1>1, <1>2, <1>3, AppendProperties
  <2>2. ASSUME NEW i \in 1..(n + 1) PROVE given2[i] = Append(given, x)[i]
    <3>1. CASE i = n + 1
      <4>1. i \in Returned(log2, op) <=> e[1] = op /\ e[3] = "returned"
        BY <1>1, <3>1, LogAppend DEF Returned
      <4> QED
        BY <1>1, <2>1, <3>1, <4>1, LogAppend
    <3>2. CASE i \in 1..n
      <4>1. i \in Returned(log2, op) <=> i \in Returned(log, op)
        BY <1>1, <3>2, LogAppend DEF Returned
      <4> QED
        BY <1>1, <2>1, <3>2, <4>1, LogAppend
    <3> QED
      BY <1>1, <3>1, <3>2
  <2>3. given2 = [i \in 1..(n + 1) |-> given2[i]]
    BY <1>1
  <2> HIDE DEF given, x, B, given2
  <2>4. PICK long: long = Append(given, x)
    OBVIOUS
  <2>5. long = [i \in 1..(n + 1) |-> long[i]]
    <3>1. long \in Seq(Seq(B)) /\ Len(long) = n + 1
      BY <2>1, <2>4
    <3> QED
      BY <1>1, <3>1
  <2>6. \A i \in 1..(n + 1): given2[i] = long[i]
    BY <2>2, <2>4
  <2> QED
    BY <2>3, <2>4, <2>5, <2>6
<1>5. FlattenSeq(given) \in Seq(A) /\ FlattenSeq(given2) = FlattenSeq(given) \o x
  <2> HIDE DEF given, x, A, B, given2
  <2> QED
    BY <1>2, <1>3, <1>4, FlattenAppend
<1>6. Arguments(log, op) = FlattenSeq(given) /\ Arguments(log2, op) = FlattenSeq(given2)
  BY DEF Arguments
<1> HIDE DEF given, given2
<1>7. FlattenSeq(given) \o <<>> = FlattenSeq(given)
      /\ FlattenSeq(given) \o <<e[2]>> = Append(FlattenSeq(given), e[2])
  <2> HIDE DEF A
  <2> QED
    BY <1>5
<1> QED
  BY <1>5, <1>6, <1>7

(* What a list that is added to or begun anew holds. *)
Words(T) == [anew: BOOLEAN, values: Seq(T)]
Runs(words, g) ==
  /\ g[0] = <<>>
  /\ \A i \in 1..Len(words):
       g[i] = IF words[i].anew THEN words[i].values ELSE g[i - 1] \o words[i].values

LEMMA ToldIs ==
  ASSUME NEW T, NEW words \in Seq(Words(T))
  PROVE  \E g \in [0..Len(words) -> Seq(T)]: Runs(words, g) /\ Told(words) = g[Len(words)]
<1> DEFINE V == Seq(T)
           n == Len(words)
           Next1(v, i) == IF words[i].anew THEN words[i].values ELSE v \o words[i].values
           F == [i \in 1..n |-> [v \in V |-> Next1(v, i)]]
           Def(h) == h = [s \in SUBSET (DOMAIN words) |->
                            IF s = {} THEN <<>> ELSE Next1(h[s \ {Max(s)}], Max(s))]
           c == CHOOSE h: Def(h)
<1>1. n \in Nat /\ DOMAIN words = 1..n
  OBVIOUS
<1>2. \A i \in 1..n, v \in V: Next1(v, i) \in V
  <2>1. ASSUME NEW i \in 1..n, NEW v \in V PROVE Next1(v, i) \in V
    <3>1. words[i] \in Words(T)
      BY <1>1
    <3>2. words[i].values \in Seq(T)
      BY <3>1 DEF Words
    <3>3. v \o words[i].values \in Seq(T)
      BY <3>2, ConcatProperties
    <3> QED
      BY <3>2, <3>3
  <2> QED
    BY <2>1
<1> HIDE DEF Next1
<1>3. PICK h \in [SUBSET (1..n) -> V]: Climbs(h, F, <<>>, n)
  <2>1. \A i \in 1..n: F[i] \in [V -> V]
    BY <1>2
  <2>2. <<>> \in V
    BY EmptySeq
  <2> HIDE DEF F, V
  <2> QED
    BY <1>1, <2>1, <2>2, ClimbsExists
<1>4. Def(h)
  <2>1. ASSUME NEW s \in SUBSET (1..n), s # {}
        PROVE  h[s] = Next1(h[s \ {Max(s)}], Max(s))
    <3>1. Max(s) \in 1..n /\ h[s \ {Max(s)}] \in V
      BY <1>1, <1>3, <2>1, MaxIs
    <3>2. h[s] = F[Max(s)][h[s \ {Max(s)}]]
      BY <1>3, <2>1 DEF Climbs
    <3> QED
      BY <3>1, <3>2
  <2>2. h[{}] = <<>>
    BY <1>3 DEF Climbs
  <2> QED
    BY <1>1, <1>3, <2>1, <2>2
<1>5. Def(c)
  BY <1>4
<1>6. Told(words) = c[1..n]
  BY <1>1 DEF Told, FoldLeft, MapThenFoldSet, Next1
<1>7. c[{}] = <<>> /\ \A i \in 1..n: c[1..i] = Next1(c[1..(i - 1)], i)
  <2>1. c[{}] = <<>>
    BY <1>5
  <2>2. ASSUME NEW i \in 1..n PROVE c[1..i] = Next1(c[1..(i - 1)], i)
    <3>1. i \in Nat /\ i # 0 /\ 1..i \in SUBSET (1..n)
      BY <1>1
    <3>2. 1..i # {} /\ Max(1..i) = i /\ (1..i) \ {i} = 1..(i - 1)
      BY <3>1, MaxOfFront
    <3>3. c[1..i] = Next1(c[(1..i) \ {Max(1..i)}], Max(1..i))
      BY <1>1, <1>5, <3>1, <3>2
    <3> QED
      BY <3>2, <3>3
  <2> QED
    BY <2>1, <2>2
<1> HIDE DEF c
<1> DEFINE g == [i \in 0..n |-> c[1..i]]
<1>8. g[0] = <<>> /\ \A i \in 1..n: g[i] = Next1(g[i - 1], i)
  <2>1. 1..0 = {} /\ \A i \in 1..n: i - 1 \in 0..n /\ i \in 0..n
    BY <1>1
  <2> QED
    BY <1>1, <1>7, <2>1
<1>9. g \in [0..n -> V]
  <2> DEFINE P == {i \in Nat: i <= n => g[i] \in V}
  <2>1. 0 \in P
    BY <1>8, EmptySeq
  <2>2. ASSUME NEW i \in Nat, i \in P PROVE i + 1 \in P
    <3> HIDE DEF g, V
    <3>1. SUFFICES ASSUME i + 1 <= n PROVE g[i + 1] \in V
      OBVIOUS
    <3>2. i + 1 \in 1..n /\ (i + 1) - 1 = i /\ g[i] \in V
      BY <1>1, <2>2, <3>1
    <3> QED
      BY <1>2, <1>8, <3>2
  <2> HIDE DEF P
  <2>3. \A i \in Nat: i \in P
    BY <2>1, <2>2, Induction
  <2>4. \A i \in 0..n: g[i] \in V
    <3> HIDE DEF g, V
    <3> QED
      BY <1>1, <2>3 DEF P
  <2> HIDE DEF V
  <2> QED
    BY <2>4
<1>10. Runs(words, g)
  BY <1>8 DEF Runs, Next1
<1>11. Told(words) = g[n]
  BY <1>1, <1>6
<1> HIDE DEF g
<1> QED
  BY <1>9, <1>10, <1>11

(* What a word does to the values that a builder has. *)
After(values, w) == IF w.anew THEN w.values ELSE values \o w.values

LEMMA ToldAppend ==
  ASSUME NEW T, NEW words \in Seq(Words(T)), NEW w \in Words(T)
  PROVE  Told(words) \in Seq(T) /\ Told(Longer(words, w)) = After(Told(words), w)
<1> DEFINE n == Len(words)
<1>1. PICK long \in Seq(Words(T)): long = Append(words, w)
  BY AppendProperties
<1>2. /\ n \in Nat /\ Len(long) = n + 1 /\ long[n + 1] = w
      /\ \A i \in 1..n: long[i] = words[i]
  BY <1>1, AppendProperties
<1>3. PICK f \in [0..n -> Seq(T)]: Runs(words, f) /\ Told(words) = f[n]
  BY ToldIs
<1>4. PICK g \in [0..Len(long) -> Seq(T)]: Runs(long, g) /\ Told(long) = g[Len(long)]
  BY ToldIs
<1> DEFINE P == {i \in Nat: i <= n => f[i] = g[i]}
<1>5. 0 \in P
  BY <1>3, <1>4 DEF Runs
<1>6. ASSUME NEW i \in Nat, i \in P PROVE i + 1 \in P
  <2>1. SUFFICES ASSUME i + 1 <= n PROVE f[i + 1] = g[i + 1]
    OBVIOUS
  <2>2. i + 1 \in 1..n /\ i + 1 \in 1..Len(long) /\ (i + 1) - 1 = i /\ f[i] = g[i]
    BY <1>2, <1>6, <2>1
  <2> QED
    BY <1>2, <1>3, <1>4, <2>2 DEF Runs
<1> HIDE DEF P
<1>7. n \in P
  BY <1>2, <1>5, <1>6, Induction
<1>8. f[n] = g[n]
  BY <1>2, <1>7 DEF P
<1>9. n + 1 \in 1..Len(long) /\ (n + 1) - 1 = n
  BY <1>2
<1>10. g[n + 1] = IF w.anew THEN w.values ELSE g[n] \o w.values
  BY <1>2, <1>4, <1>9 DEF Runs
<1>11. Told(words) \in Seq(T)
  BY <1>2, <1>3
<1>12. Told(long) = After(Told(words), w)
  BY <1>2, <1>3, <1>4, <1>8, <1>10 DEF After
<1> QED
  BY <1>1, <1>11, <1>12 DEF Longer
-----------------------------------------------------------------------------
(* The modules of the builders read histories alike.                        *)
LEMMA ClientReads ==
  /\ \A s: C!Max(s) = Max(s)
  /\ \A log, op: C!Returned(log, op) = Returned(log, op)
  /\ \A log, T, x: C!LastOf(log, T, x) = LastOf(log, T, x)
  /\ \A log, op, x: C!LastGiven(log, op, x) = LastGiven(log, op, x)
  /\ \A log, op: C!Arguments(log, op) = Arguments(log, op)
<1>1. \A s: C!Max(s) = Max(s)
  BY DEF C!Max, Max
<1>2. \A log, op: C!Returned(log, op) = Returned(log, op)
  BY DEF C!Returned, Returned
<1>3. \A log, T, x: C!LastOf(log, T, x) = LastOf(log, T, x)
  BY <1>1 DEF C!LastOf, LastOf
<1>4. \A s: C!FlattenSeq(s) = FlattenSeq(s)
  BY DEF C!FlattenSeq, FlattenSeq
<1> QED
  BY <1>1, <1>2, <1>3, <1>4 DEF C!LastGiven, LastGiven, C!Arguments, Arguments

LoadsAt(log) == {i \in DOMAIN log: /\ log[i][1] = "json" /\ log[i][3] # "raised"
                                   /\ log[i][2][1] # None}
DumpsAt(log) == {i \in Returned(log, "json"): log[i][2][2] # None}
DefaultsAt(log, k) == {i \in Returned(log, "headers"): log[i][2][k] # <<>>}

(* What one more call does to what a client builder was given. *)
LEMMA LoadsAppend ==
  ASSUME NEW log, IsLog(log), NEW e
  PROVE  /\ e[1] # "json" \/ e[3] = "raised" \/ e[2][1] = None
              => C!LoadsGiven(Longer(log, e)) = C!LoadsGiven(log)
         /\ e[1] = "json" /\ e[3] # "raised" /\ e[2][1] # None
              => C!LoadsGiven(Longer(log, e)) = e[2][1]
<1> DEFINE n == Len(log)
           x == <<None, None>>
<1>1. \A l: C!LoadsGiven(l) = LastOf(l, LoadsAt(l), x)[1]
  BY ClientReads DEF C!LoadsGiven, LoadsAt
<1>2. LoadsAt(log) \in SUBSET (1..n)
  BY LogAppend DEF LoadsAt
<1>3. /\ e[1] # "json" \/ e[3] = "raised" \/ e[2][1] = None => LoadsAt(Longer(log, e)) = LoadsAt(log)
      /\ e[1] = "json" /\ e[3] # "raised" /\ e[2][1] # None
           => LoadsAt(Longer(log, e)) = Later(log, LoadsAt(log))
  BY LogAppend DEF LoadsAt, Later
<1>4. LastOf(Longer(log, e), LoadsAt(log), x) = LastOf(log, LoadsAt(log), x)
  BY <1>2, LastOfKept
<1>5. LastOf(Longer(log, e), Later(log, LoadsAt(log)), x) = e[2]
  BY <1>2, LastOfNext
<1> HIDE DEF n, x
<1> QED
  BY <1>1, <1>3, <1>4, <1>5, Zenon

LEMMA DumpsAppend ==
  ASSUME NEW log, IsLog(log), NEW e
  PROVE  /\ e[1] # "json" \/ e[3] # "returned" \/ e[2][2] = None
              => C!DumpsGiven(Longer(log, e)) = C!DumpsGiven(log)
         /\ e[1] = "json" /\ e[3] = "returned" /\ e[2][2] # None
              => C!DumpsGiven(Longer(log, e)) = e[2][2]
<1> DEFINE n == Len(log)
           x == <<None, None>>
<1>1. \A l: C!DumpsGiven(l) = LastOf(l, DumpsAt(l), x)[2]
  BY ClientReads DEF C!DumpsGiven, DumpsAt
<1>2. DumpsAt(log) \in SUBSET (1..n)
  BY LogAppend DEF DumpsAt, Returned
<1>3. /\ e[1] # "json" \/ e[3] # "returned" \/ e[2][2] = None => DumpsAt(Longer(log, e)) = DumpsAt(log)
      /\ e[1] = "json" /\ e[3] = "returned" /\ e[2][2] # None
           => DumpsAt(Longer(log, e)) = Later(log, DumpsAt(log))
  <2>1. PICK long: long = Longer(log, e)
    OBVIOUS
  <2>2. n \in Nat /\ DOMAIN log = 1..n /\ DOMAIN long = 1..(n + 1) /\ long[n + 1] = e
        /\ \A i \in 1..n: long[i] = log[i]
    BY <2>1, LogAppend
  <2>3. ASSUME e[1] # "json" \/ e[3] # "returned" \/ e[2][2] = None PROVE DumpsAt(long) = DumpsAt(log)
    BY <2>2, <2>3 DEF DumpsAt, Returned
  <2>4. ASSUME e[1] = "json" /\ e[3] = "returned" /\ e[2][2] # None
        PROVE  DumpsAt(long) = Later(log, DumpsAt(log))
    BY <2>2, <2>4 DEF DumpsAt, Returned, Later
  <2> QED
    BY <2>1, <2>3, <2>4
<1>4. LastOf(Longer(log, e), DumpsAt(log), x) = LastOf(log, DumpsAt(log), x)
  BY <1>2, LastOfKept
<1>5. LastOf(Longer(log, e), Later(log, DumpsAt(log)), x) = e[2]
  BY <1>2, LastOfNext
<1> HIDE DEF n, x
<1> QED
  BY <1>1, <1>3, <1>4, <1>5, Zenon

LEMMA DefaultsAppend ==
  ASSUME NEW log, IsLog(log), NEW e, NEW k \in Keys
  PROVE  /\ e[1] # "headers" \/ e[3] # "returned" \/ e[2][k] = <<>>
              => C!DefaultsGiven(Longer(log, e), k) = C!DefaultsGiven(log, k)
         /\ e[1] = "headers" /\ e[3] = "returned" /\ e[2][k] # <<>>
              => C!DefaultsGiven(Longer(log, e), k) = e[2][k]
<1> DEFINE n == Len(log)
           x == C!NewBuilder.defaults
<1>1. \A l: C!DefaultsGiven(l, k) = LastOf(l, DefaultsAt(l, k), x)[k]
  BY ClientReads DEF C!DefaultsGiven, DefaultsAt
<1>2. DefaultsAt(log, k) \in SUBSET (1..n)
  BY LogAppend DEF DefaultsAt, Returned
<1>3. /\ e[1] # "headers" \/ e[3] # "returned" \/ e[2][k] = <<>>
           => DefaultsAt(Longer(log, e), k) = DefaultsAt(log, k)
      /\ e[1] = "headers" /\ e[3] = "returned" /\ e[2][k] # <<>>
           => DefaultsAt(Longer(log, e), k) = Later(log, DefaultsAt(log, k))
  <2>1. PICK long: long = Longer(log, e)
    OBVIOUS
  <2>2. n \in Nat /\ DOMAIN log = 1..n /\ DOMAIN long = 1..(n + 1) /\ long[n + 1] = e
        /\ \A i \in 1..n: long[i] = log[i]
    BY <2>1, LogAppend
  <2>3. ASSUME e[1] # "headers" \/ e[3] # "returned" \/ e[2][k] = <<>>
        PROVE  DefaultsAt(long, k) = DefaultsAt(log, k)
    BY <2>2, <2>3 DEF DefaultsAt, Returned
  <2>4. ASSUME e[1] = "headers" /\ e[3] = "returned" /\ e[2][k] # <<>>
        PROVE  DefaultsAt(long, k) = Later(log, DefaultsAt(log, k))
    BY <2>2, <2>4 DEF DefaultsAt, Returned, Later
  <2> QED
    BY <2>1, <2>3, <2>4
<1> HIDE DEF x
<1>4. LastOf(Longer(log, e), DefaultsAt(log, k), x) = LastOf(log, DefaultsAt(log, k), x)
  BY <1>2, LastOfKept
<1>5. LastOf(Longer(log, e), Later(log, DefaultsAt(log, k)), x) = e[2]
  BY <1>2, LastOfNext
<1> HIDE DEF n
<1> QED
  BY <1>1, <1>3, <1>4, <1>5, Zenon

(* Builder b2 is b after the call e, so that it still fits its history. *)
Follows(b, e, b2) ==
  LET given(op) == e[1] = op /\ e[3] = "returned" IN
  /\ b2.option = IF given("option") THEN e[2] ELSE b.option
  /\ b2.native = IF given("native") THEN e[2] ELSE b.native
  /\ b2.proxy = IF given("proxy") THEN e[2] ELSE b.proxy
  /\ b2.verbose = IF given("verbose") THEN e[2] ELSE b.verbose
  /\ b2.loads = IF e[1] = "json" /\ e[3] # "raised" /\ e[2][1] # None THEN e[2][1] ELSE b.loads
  /\ b2.dumps = IF given("json") /\ e[2][2] # None THEN e[2][2] ELSE b.dumps
  /\ b2.middlewares = IF given("middleware") THEN Append(b.middlewares, e[2]) ELSE b.middlewares
  /\ \A k \in Keys:
       b2.defaults[k] = IF given("headers") /\ e[2][k] # <<>> THEN e[2][k] ELSE b.defaults[k]

LEMMA FollowsFits ==
  ASSUME NEW log, IsLog(log), NEW e, NEW b, NEW b2, C!Fits(b, log), Follows(b, e, b2)
  PROVE  C!Fits(b2, Longer(log, e))
<1>1. \A op, x: /\ e[1] # op \/ e[3] # "returned" => C!LastGiven(Longer(log, e), op, x) = C!LastGiven(log, op, x)
                /\ e[1] = op /\ e[3] = "returned" => C!LastGiven(Longer(log, e), op, x) = e[2]
  <2>1. ASSUME NEW op, NEW x
        PROVE  /\ e[1] # op \/ e[3] # "returned" => C!LastGiven(Longer(log, e), op, x) = C!LastGiven(log, op, x)
               /\ e[1] = op /\ e[3] = "returned" => C!LastGiven(Longer(log, e), op, x) = e[2]
    BY LastGivenAppend, ClientReads
  <2> QED
    BY <2>1
<1>2. /\ b2.option = C!LastGiven(Longer(log, e), "option", None)
      /\ b2.native = C!LastGiven(Longer(log, e), "native", None)
      /\ b2.proxy = C!LastGiven(Longer(log, e), "proxy", None)
      /\ b2.verbose = C!LastGiven(Longer(log, e), "verbose", FALSE)
  <2>1. /\ b.option = C!LastGiven(log, "option", None)
        /\ b.native = C!LastGiven(log, "native", None)
        /\ b.proxy = C!LastGiven(log, "proxy", None)
        /\ b.verbose = C!LastGiven(log, "verbose", FALSE)
    BY DEF C!Fits
  <2>2. /\ b2.option = IF e[1] = "option" /\ e[3] = "returned" THEN e[2] ELSE b.option
        /\ b2.native = IF e[1] = "native" /\ e[3] = "returned" THEN e[2] ELSE b.native
        /\ b2.proxy = IF e[1] = "proxy" /\ e[3] = "returned" THEN e[2] ELSE b.proxy
        /\ b2.verbose = IF e[1] = "verbose" /\ e[3] = "returned" THEN e[2] ELSE b.verbose
    BY DEF Follows
  <2>3. b2.option = C!LastGiven(Longer(log, e), "option", None)
    BY <1>1, <2>1, <2>2, Zenon
  <2>4. b2.native = C!LastGiven(Longer(log, e), "native", None)
    BY <1>1, <2>1, <2>2, Zenon
  <2>5. b2.proxy = C!LastGiven(Longer(log, e), "proxy", None)
    BY <1>1, <2>1, <2>2, Zenon
  <2>6. b2.verbose = C!LastGiven(Longer(log, e), "verbose", FALSE)
    BY <1>1, <2>1, <2>2, Zenon
  <2> QED
    BY <2>3, <2>4, <2>5, <2>6
<1>3. b2.loads = C!LoadsGiven(Longer(log, e))
  BY LoadsAppend DEF C!Fits, Follows
<1>4. b2.dumps = C!DumpsGiven(Longer(log, e))
  BY DumpsAppend DEF C!Fits, Follows
<1>5. b2.middlewares = C!Arguments(Longer(log, e), "middleware")
  <2>1. /\ e[1] # "middleware" \/ e[3] # "returned"
             => C!Arguments(Longer(log, e), "middleware") = C!Arguments(log, "middleware")
        /\ e[1] = "middleware" /\ e[3] = "returned"
             => C!Arguments(Longer(log, e), "middleware") = Append(C!Arguments(log, "middleware"), e[2])
    BY ArgumentsAppend, ClientReads
  <2>2. b.middlewares = C!Arguments(log, "middleware")
    BY DEF C!Fits
  <2>3. b2.middlewares = IF e[1] = "middleware" /\ e[3] = "returned" THEN Append(b.middlewares, e[2])
                         ELSE b.middlewares
    BY DEF Follows
  <2> QED
    BY <2>1, <2>2, <2>3, Zenon
<1>6. ASSUME NEW k \in Keys PROVE b2.defaults[k] = C!DefaultsGiven(Longer(log, e), k)
  BY DefaultsAppend DEF C!Fits, Follows
<1> QED
  BY <1>2, <1>3, <1>4, <1>5, <1>6 DEF C!Fits

(* A call that raised, or that says nothing of these settings. *)
LEMMA IdleFits ==
  ASSUME NEW log, IsLog(log), NEW e, NEW b, C!Fits(b, log),
         e[3] = "raised" \/ e[1] \in {"build", "http2", "only2"}
  PROVE  C!Fits(b, Longer(log, e))
<1>1. Follows(b, e, b)
  BY DEF Follows
<1> QED
  BY <1>1, FollowsFits
-----------------------------------------------------------------------------
(* What holds of client builders.  One that can still build is what its     *)
(* history asks for and has built nothing; a client stays what its history  *)
(* asked for, since a spent builder returns from nothing that would count.  *)
ClientTypes ==
  /\ cb \in [Clients -> C!ClientBuilders]
  /\ client \in [Clients -> {None} \union C!ClientBuilders]
  /\ proxy \in [Proxies -> C!ProxyStates]
  /\ clog = [c \in Clients |-> clog[c]] /\ \A c \in Clients: IsLog(clog[c])

ClientBuilt(c) ==
  /\ cb[c].inner => /\ client[c] = None /\ Returned(clog[c], "build") = {}
                    /\ C!Fits(cb[c], clog[c])
  /\ client[c] # None => C!Fits(client[c], clog[c]) /\ (client[c].http1 \/ client[c].http2)
  /\ \A i, j \in Returned(clog[c], "build"): i = j

ProxiesApart ==
  /\ \A c \in Clients: cb[c].proxy # None => proxy[cb[c].proxy[1]] = "spent"
  /\ \A c, d \in Clients: c # d /\ cb[c].proxy # None /\ cb[d].proxy # None
                            => cb[c].proxy[1] # cb[d].proxy[1]

LEMMA ClientFrame ==
  ASSUME NEW c, ClientBuilt(c), cb'[c] = cb[c], client'[c] = client[c], clog'[c] = clog[c]
  PROVE  ClientBuilt(c)'
BY DEF ClientBuilt

ClientInv == ClientTypes /\ (\A c \in Clients: ClientBuilt(c)) /\ ProxiesApart

(* A call e, not build(), that leaves builder c as b. *)
LEMMA ClientCalled ==
  ASSUME ClientInv, NEW c \in Clients, NEW e, NEW b \in C!ClientBuilders,
         cb' = [cb EXCEPT ![c] = b], clog' = [clog EXCEPT ![c] = Longer(clog[c], e)], client' = client,
         proxy' \in [Proxies -> C!ProxyStates],
         e[1] # "build",
         ~cb[c].inner => e[3] = "raised" \/ e[1] \in {"http2", "only2"},
         b.inner => cb[c].inner /\ Follows(cb[c], e, b)
  PROVE  ClientTypes' /\ \A d \in Clients: ClientBuilt(d)'
<1>1. /\ cb \in [Clients -> C!ClientBuilders] /\ client \in [Clients -> {None} \union C!ClientBuilders]
      /\ clog = [d \in Clients |-> clog[d]] /\ \A d \in Clients: IsLog(clog[d])
  BY DEF ClientInv, ClientTypes
<1>2. /\ cb'[c] = b /\ \A d \in Clients \ {c}: cb'[d] = cb[d]
      /\ clog'[c] = Longer(clog[c], e) /\ \A d \in Clients \ {c}: clog'[d] = clog[d]
      /\ clog' = [d \in Clients |-> clog'[d]]
  BY <1>1
<1>3. IsLog(Longer(clog[c], e)) /\ Returned(Longer(clog[c], e), "build") = Returned(clog[c], "build")
  BY <1>1, LogAppend, ReturnedAppend
<1>4. ClientTypes'
  <2>1. cb' \in [Clients -> C!ClientBuilders]
    BY <1>1
  <2>2. \A d \in Clients: IsLog(clog'[d])
    BY <1>1, <1>2, <1>3
  <2> QED
    BY <1>1, <1>2, <2>1, <2>2 DEF ClientTypes, C!ClientBuilders, C!ProxyStates, C!Optional
<1>5. ClientBuilt(c)
  BY DEF ClientInv
<1>6. ClientBuilt(c)'
  <2>1. ASSUME b.inner PROVE C!Fits(b, Longer(clog[c], e))
    BY <1>1, <1>5, <2>1, FollowsFits DEF ClientBuilt
  <2>2. ASSUME client[c] # None PROVE C!Fits(client[c], Longer(clog[c], e))
    BY <1>1, <1>5, <2>2, IdleFits DEF ClientBuilt
  <2> QED
    BY <1>2, <1>3, <1>5, <2>1, <2>2 DEF ClientBuilt
<1>7. ASSUME NEW d \in Clients \ {c} PROVE ClientBuilt(d)'
  <2>1. cb'[d] = cb[d] /\ client'[d] = client[d] /\ clog'[d] = clog[d]
    BY <1>2
  <2>2. ClientBuilt(d)
    BY DEF ClientInv
  <2> QED
    BY <2>1, <2>2, ClientFrame
<1> QED
  BY <1>4, <1>6, <1>7

(* A call that touches no proxy. *)
LEMMA SetterKeeps ==
  ASSUME ClientInv, NEW c \in Clients, NEW e, NEW b \in C!ClientBuilders,
         cb' = [cb EXCEPT ![c] = b], clog' = [clog EXCEPT ![c] = Longer(clog[c], e)],
         client' = client, proxy' = proxy,
         e[1] # "build", b.proxy = cb[c].proxy,
         ~cb[c].inner => e[3] = "raised" \/ e[1] \in {"http2", "only2"},
         b.inner => cb[c].inner /\ Follows(cb[c], e, b)
  PROVE  ClientInv'
<1>1. proxy' \in [Proxies -> C!ProxyStates]
  BY DEF ClientInv, ClientTypes
<1>2. ClientTypes' /\ \A d \in Clients: ClientBuilt(d)'
  BY <1>1, ClientCalled
<1>3. \A d \in Clients: cb'[d].proxy = cb[d].proxy
  BY DEF ClientInv, ClientTypes
<1>4. ProxiesApart'
  BY <1>3 DEF ClientInv, ProxiesApart
<1> QED
  BY <1>2, <1>4 DEF ClientInv

LEMMA ClientSetOption ==
  ASSUME ClientInv, NEW c \in Clients, NEW v \in Values \union {Bad}, C!SetOption(c, v)
  PROVE  ClientInv'
<1> DEFINE e == <<"option", v, IF v # Bad /\ cb[c].inner THEN "returned" ELSE "raised">>
           b == IF v # Bad /\ cb[c].inner THEN [cb[c] EXCEPT !.option = v] ELSE cb[c]
<1>1. cb[c] \in C!ClientBuilders
  BY DEF ClientInv, ClientTypes
<1>2. b \in C!ClientBuilders /\ b.proxy = cb[c].proxy
  BY <1>1 DEF C!ClientBuilders, C!Optional
<1>3. /\ cb' = [cb EXCEPT ![c] = b] /\ clog' = [clog EXCEPT ![c] = Longer(clog[c], e)]
      /\ client' = client /\ proxy' = proxy
  BY DEF C!SetOption, C!Returns, C!Raises, C!Called, C!Outcome, Longer
<1>4. e[1] # "build" /\ (~cb[c].inner => e[3] = "raised" \/ e[1] \in {"http2", "only2"})
  OBVIOUS
<1>5. b.inner => cb[c].inner /\ Follows(cb[c], e, b)
  BY <1>1 DEF Follows, C!ClientBuilders
<1> HIDE DEF e, b
<1> QED
  BY <1>2, <1>3, <1>4, <1>5, SetterKeeps

LEMMA ClientApply ==
  ASSUME ClientInv, NEW c \in Clients, NEW v \in Values \union {Bad}, C!Apply(c, v)
  PROVE  ClientInv'
<1> DEFINE e == <<"native", v, IF v # Bad /\ cb[c].inner THEN "returned" ELSE "raised">>
           b == IF v # Bad /\ cb[c].inner THEN [cb[c] EXCEPT !.native = v] ELSE [cb[c] EXCEPT !.inner = FALSE]
<1>1. cb[c] \in C!ClientBuilders
  BY DEF ClientInv, ClientTypes
<1>2. b \in C!ClientBuilders /\ b.proxy = cb[c].proxy
  BY <1>1 DEF C!ClientBuilders, C!Optional
<1>3. /\ cb' = [cb EXCEPT ![c] = b] /\ clog' = [clog EXCEPT ![c] = Longer(clog[c], e)]
      /\ client' = client /\ proxy' = proxy
  BY DEF C!Apply, C!Returns, C!Raises, C!Called, C!Outcome, Longer
<1>4. e[1] # "build" /\ (~cb[c].inner => e[3] = "raised" \/ e[1] \in {"http2", "only2"})
  OBVIOUS
<1>5. b.inner => cb[c].inner /\ Follows(cb[c], e, b)
  BY <1>1 DEF Follows, C!ClientBuilders
<1> HIDE DEF e, b
<1> QED
  BY <1>2, <1>3, <1>4, <1>5, SetterKeeps

LEMMA ClientSetVerbose ==
  ASSUME ClientInv, NEW c \in Clients, NEW on \in BOOLEAN, C!SetVerbose(c, on)
  PROVE  ClientInv'
<1> DEFINE e == <<"verbose", on, IF cb[c].inner THEN "returned" ELSE "raised">>
           b == [cb[c] EXCEPT !.verbose = on]
<1>1. cb[c] \in C!ClientBuilders
  BY DEF ClientInv, ClientTypes
<1>2. b \in C!ClientBuilders /\ b.proxy = cb[c].proxy
  BY <1>1 DEF C!ClientBuilders, C!Optional
<1>3. /\ cb' = [cb EXCEPT ![c] = b] /\ clog' = [clog EXCEPT ![c] = Longer(clog[c], e)]
      /\ client' = client /\ proxy' = proxy
  BY DEF C!SetVerbose, C!Returns, C!Raises, C!Called, C!Outcome, Longer
<1>4. e[1] # "build" /\ (~cb[c].inner => e[3] = "raised" \/ e[1] \in {"http2", "only2"})
  OBVIOUS
<1>5. b.inner => cb[c].inner /\ Follows(cb[c], e, b)
  BY <1>1 DEF Follows, C!ClientBuilders
<1> HIDE DEF e, b
<1> QED
  BY <1>2, <1>3, <1>4, <1>5, SetterKeeps

LEMMA ClientHttp1Only ==
  ASSUME ClientInv, NEW c \in Clients, C!Http1Only(c)
  PROVE  ClientInv'
<1> DEFINE e == <<"http2", FALSE, "returned">>
           b == [cb[c] EXCEPT !.http1 = TRUE, !.http2 = FALSE]
<1>1. cb[c] \in C!ClientBuilders
  BY DEF ClientInv, ClientTypes
<1>2. b \in C!ClientBuilders /\ b.proxy = cb[c].proxy
  BY <1>1 DEF C!ClientBuilders, C!Optional
<1>3. /\ cb' = [cb EXCEPT ![c] = b] /\ clog' = [clog EXCEPT ![c] = Longer(clog[c], e)]
      /\ client' = client /\ proxy' = proxy
  BY DEF C!Http1Only, C!Returns, C!Raises, C!Called, C!Outcome, Longer
<1>4. e[1] # "build" /\ (~cb[c].inner => e[3] = "raised" \/ e[1] \in {"http2", "only2"})
  OBVIOUS
<1>5. b.inner => cb[c].inner /\ Follows(cb[c], e, b)
  BY <1>1 DEF Follows, C!ClientBuilders
<1> HIDE DEF e, b
<1> QED
  BY <1>2, <1>3, <1>4, <1>5, SetterKeeps

LEMMA ClientHttp2 ==
  ASSUME ClientInv, NEW c \in Clients, NEW on \in BOOLEAN, C!Http2(c, on)
  PROVE  ClientInv'
<1> DEFINE e == <<"http2", on, "returned">>
           b == [cb[c] EXCEPT !.http2 = on]
<1>1. cb[c] \in C!ClientBuilders
  BY DEF ClientInv, ClientTypes
<1>2. b \in C!ClientBuilders /\ b.proxy = cb[c].proxy
  BY <1>1 DEF C!ClientBuilders, C!Optional
<1>3. /\ cb' = [cb EXCEPT ![c] = b] /\ clog' = [clog EXCEPT ![c] = Longer(clog[c], e)]
      /\ client' = client /\ proxy' = proxy
  BY DEF C!Http2, C!Returns, C!Raises, C!Called, C!Outcome, Longer
<1>4. e[1] # "build" /\ (~cb[c].inner => e[3] = "raised" \/ e[1] \in {"http2", "only2"})
  OBVIOUS
<1>5. b.inner => cb[c].inner /\ Follows(cb[c], e, b)
  BY <1>1 DEF Follows, C!ClientBuilders
<1> HIDE DEF e, b
<1> QED
  BY <1>2, <1>3, <1>4, <1>5, SetterKeeps

LEMMA ClientHttp2Only ==
  ASSUME ClientInv, NEW c \in Clients, C!Http2Only(c)
  PROVE  ClientInv'
<1> DEFINE e == <<"only2", TRUE, "returned">>
           b == [cb[c] EXCEPT !.http1 = FALSE, !.http2 = TRUE]
<1>1. cb[c] \in C!ClientBuilders
  BY DEF ClientInv, ClientTypes
<1>2. b \in C!ClientBuilders /\ b.proxy = cb[c].proxy
  BY <1>1 DEF C!ClientBuilders, C!Optional
<1>3. /\ cb' = [cb EXCEPT ![c] = b] /\ clog' = [clog EXCEPT ![c] = Longer(clog[c], e)]
      /\ client' = client /\ proxy' = proxy
  BY DEF C!Http2Only, C!Returns, C!Raises, C!Called, C!Outcome, Longer
<1>4. e[1] # "build" /\ (~cb[c].inner => e[3] = "raised" \/ e[1] \in {"http2", "only2"})
  OBVIOUS
<1>5. b.inner => cb[c].inner /\ Follows(cb[c], e, b)
  BY <1>1 DEF Follows, C!ClientBuilders
<1> HIDE DEF e, b
<1> QED
  BY <1>2, <1>3, <1>4, <1>5, SetterKeeps

LEMMA ClientWithMiddleware ==
  ASSUME ClientInv, NEW c \in Clients, NEW m \in Middlewares \union {Bad}, C!WithMiddleware(c, m)
  PROVE  ClientInv'
<1> DEFINE e == <<"middleware", m, IF m # Bad /\ cb[c].inner THEN "returned" ELSE "raised">>
           b == IF m # Bad /\ cb[c].inner THEN [cb[c] EXCEPT !.middlewares = Append(@, m)] ELSE cb[c]
<1>1. cb[c] \in C!ClientBuilders
  BY DEF ClientInv, ClientTypes
<1>2. b \in C!ClientBuilders /\ b.proxy = cb[c].proxy
  <2>1. m # Bad => Append(cb[c].middlewares, m) \in Seq(Middlewares)
    BY <1>1, AppendProperties DEF C!ClientBuilders
  <2> QED
    BY <1>1, <2>1 DEF C!ClientBuilders
<1>3. /\ cb' = [cb EXCEPT ![c] = b] /\ clog' = [clog EXCEPT ![c] = Longer(clog[c], e)]
      /\ client' = client /\ proxy' = proxy
  BY DEF C!WithMiddleware, C!Returns, C!Raises, C!Called, C!Outcome, Longer
<1>4. e[1] # "build" /\ (~cb[c].inner => e[3] = "raised" \/ e[1] \in {"http2", "only2"})
  OBVIOUS
<1>5. b.inner => cb[c].inner /\ Follows(cb[c], e, b)
  BY <1>1 DEF Follows, C!ClientBuilders
<1> HIDE DEF e, b
<1> QED
  BY <1>2, <1>3, <1>4, <1>5, SetterKeeps

LEMMA ClientDefaultHeaders ==
  ASSUME ClientInv, NEW c \in Clients, NEW h \in Fields, C!DefaultHeaders(c, h)
  PROVE  ClientInv'
<1> DEFINE e == <<"headers", h, IF cb[c].inner THEN "returned" ELSE "raised">>
           g == C!Extended(cb[c].defaults, h)
           b == IF cb[c].inner THEN [cb[c] EXCEPT !.defaults = g] ELSE cb[c]
<1>1. cb[c] \in C!ClientBuilders
  BY DEF ClientInv, ClientTypes
<1>2. /\ g \in [Keys -> Seq(C!TextsIn(Fields))]
      /\ \A k \in Keys: g[k] = IF h[k] # <<>> THEN h[k] ELSE cb[c].defaults[k]
  <2>1. cb[c].defaults \in [Keys -> Seq(C!TextsIn(Fields))] /\ h \in [Keys -> Seq(C!TextsIn(Fields))]
    BY <1>1, BuildersAssumption DEF C!ClientBuilders
  <2> QED
    BY <2>1 DEF C!Extended, C!Present
<1> HIDE DEF g
<1>3. b \in C!ClientBuilders /\ b.proxy = cb[c].proxy
  BY <1>1, <1>2 DEF C!ClientBuilders
<1>4. /\ cb' = [cb EXCEPT ![c] = b] /\ clog' = [clog EXCEPT ![c] = Longer(clog[c], e)]
      /\ client' = client /\ proxy' = proxy
  BY DEF C!DefaultHeaders, C!Returns, C!Raises, C!Called, g, Longer
<1>5. e[1] # "build" /\ (~cb[c].inner => e[3] = "raised" \/ e[1] \in {"http2", "only2"})
  OBVIOUS
<1>6. b.inner => cb[c].inner /\ Follows(cb[c], e, b)
  BY <1>1, <1>2 DEF Follows, C!ClientBuilders
<1> HIDE DEF e, b
<1> QED
  BY <1>3, <1>4, <1>5, <1>6, SetterKeeps

LEMMA ClientSetJsonHandler ==
  ASSUME ClientInv, NEW c \in Clients, NEW loads \in Values \union {Bad, None},
         NEW dumps \in Values \union {Bad, None}, C!SetJsonHandler(c, loads, dumps)
  PROVE  ClientInv'
<1> DEFINE refused == loads = Bad \/ ~cb[c].inner
           e == <<"json", <<loads, dumps>>,
                  IF refused THEN "raised" ELSE IF dumps = Bad THEN "half" ELSE "returned">>
           b == IF refused THEN cb[c]
                ELSE [cb[c] EXCEPT !.loads = IF loads = None THEN @ ELSE loads,
                                   !.dumps = IF dumps \in {None, Bad} THEN @ ELSE dumps]
<1>1. cb[c] \in C!ClientBuilders
  BY DEF ClientInv, ClientTypes
<1>2. b \in C!ClientBuilders /\ b.proxy = cb[c].proxy
  <2> DEFINE l == IF loads = None THEN cb[c].loads ELSE loads
             d == IF dumps \in {None, Bad} THEN cb[c].dumps ELSE dumps
  <2>1. ~refused => l \in C!Optional /\ d \in C!Optional
    BY <1>1 DEF C!ClientBuilders, C!Optional
  <2>2. b = IF refused THEN cb[c] ELSE [cb[c] EXCEPT !.loads = l, !.dumps = d]
    BY <1>1 DEF C!ClientBuilders
  <2> HIDE DEF l, d, b, refused
  <2> QED
    BY <1>1, <2>1, <2>2 DEF C!ClientBuilders
<1>3. /\ cb' = [cb EXCEPT ![c] = b] /\ clog' = [clog EXCEPT ![c] = Longer(clog[c], e)]
      /\ client' = client /\ proxy' = proxy
  BY DEF C!SetJsonHandler, C!Raises, C!Called, Longer
<1>4. e[1] # "build" /\ (~cb[c].inner => e[3] = "raised" \/ e[1] \in {"http2", "only2"})
  OBVIOUS
<1>5. b.inner => cb[c].inner /\ Follows(cb[c], e, b)
  BY <1>1, BuildersAssumption DEF Follows, C!ClientBuilders
<1> HIDE DEF e, b
<1> QED
  BY <1>2, <1>3, <1>4, <1>5, SetterKeeps

LEMMA ClientUseProxy ==
  ASSUME ClientInv, NEW c \in Clients, NEW p \in Proxies, C!UseProxy(c, p)
  PROVE  ClientInv'
<1> DEFINE good == proxy[p] # "spent" /\ cb[c].inner
           e == <<"proxy", <<p, proxy[p]>>, IF good THEN "returned" ELSE "raised">>
           b == IF good THEN [cb[c] EXCEPT !.proxy = <<p, proxy[p]>>] ELSE cb[c]
<1>1. cb[c] \in C!ClientBuilders /\ proxy \in [Proxies -> C!ProxyStates]
  BY DEF ClientInv, ClientTypes
<1>2. b \in C!ClientBuilders
  BY <1>1 DEF C!ClientBuilders
<1>3. /\ cb' = [cb EXCEPT ![c] = b] /\ clog' = [clog EXCEPT ![c] = Longer(clog[c], e)]
      /\ client' = client /\ proxy' = [proxy EXCEPT ![p] = "spent"]
  BY DEF C!UseProxy, C!Returns, C!Raises, C!Called, Longer
<1>4. e[1] # "build" /\ (~cb[c].inner => e[3] = "raised" \/ e[1] \in {"http2", "only2"})
  OBVIOUS
<1>5. b.inner => cb[c].inner /\ Follows(cb[c], e, b)
  BY <1>1 DEF Follows, C!ClientBuilders
<1>6. proxy' \in [Proxies -> C!ProxyStates]
  BY <1>1, <1>3 DEF C!ProxyStates
<1>7. ClientTypes' /\ \A d \in Clients: ClientBuilt(d)'
  <2> HIDE DEF e, b
  <2> QED
    BY <1>2, <1>3, <1>4, <1>5, <1>6, ClientCalled
<1>8. cb'[c] = b /\ \A d \in Clients \ {c}: cb'[d] = cb[d]
  BY <1>3 DEF ClientInv, ClientTypes
<1>9. \A q \in Proxies: proxy[q] = "spent" \/ q = p => proxy'[q] = "spent"
  BY <1>1, <1>3
<1>10. \A d \in Clients: cb[d].proxy # None => cb[d].proxy[1] \in Proxies
  BY DEF ClientInv, ClientTypes, C!ClientBuilders
<1>11. ProxiesApart'
  <2>1. CASE good
    <3>1. b.proxy = <<p, proxy[p]>> /\ b.proxy[1] = p
      BY <1>1, <2>1 DEF C!ClientBuilders
    <3>2. \A d \in Clients: cb[d].proxy # None => cb[d].proxy[1] # p
      BY <2>1 DEF ClientInv, ProxiesApart
    <3> HIDE DEF b
    <3> QED
      BY <1>8, <1>9, <1>10, <3>1, <3>2 DEF ClientInv, ProxiesApart
  <2>2. CASE ~good
    <3>1. \A d \in Clients: cb'[d].proxy = cb[d].proxy
      BY <1>8, <2>2
    <3> QED
      BY <1>9, <1>10, <3>1 DEF ClientInv, ProxiesApart
  <2> QED
    BY <2>1, <2>2
<1> QED
  BY <1>7, <1>11 DEF ClientInv

LEMMA ClientSetProxy ==
  ASSUME ClientInv, NEW p \in Proxies, NEW v \in Values \union {Bad}, C!SetProxy(p, v)
  PROVE  ClientInv'
<1>1. /\ cb' = cb /\ client' = client /\ clog' = clog
      /\ proxy[p] # "spent" /\ proxy' = [proxy EXCEPT ![p] = IF v = Bad THEN "spent" ELSE v]
  BY DEF C!SetProxy
<1>2. ClientTypes'
  BY <1>1 DEF ClientInv, ClientTypes, C!ProxyStates, C!Optional, C!ClientBuilders
<1>3. \A c \in Clients: ClientBuilt(c)'
  BY <1>1 DEF ClientInv, ClientBuilt
<1>4. ProxiesApart'
  <2>1. \A q \in Proxies: proxy[q] = "spent" => proxy'[q] = "spent"
    BY <1>1 DEF ClientInv, ClientTypes
  <2>2. \A d \in Clients: cb[d].proxy # None => cb[d].proxy[1] \in Proxies
    BY DEF ClientInv, ClientTypes, C!ClientBuilders
  <2> QED
    BY <1>1, <2>1, <2>2 DEF ClientInv, ProxiesApart
<1> QED
  BY <1>2, <1>3, <1>4 DEF ClientInv

LEMMA ClientBuild ==
  ASSUME ClientInv, NEW c \in Clients, NEW ok \in BOOLEAN, C!Build(c, ok)
  PROVE  ClientInv'
<1> DEFINE built == cb[c].inner /\ ok /\ (cb[c].http1 \/ cb[c].http2)
           e == <<"build", None, IF built THEN "returned" ELSE "raised">>
           b == IF built THEN [cb[c] EXCEPT !.inner = FALSE, !.middlewares = <<>>, !.loads = None,
                                            !.dumps = None, !.defaults = C!NewBuilder.defaults]
                         ELSE [cb[c] EXCEPT !.inner = FALSE]
           made == IF built THEN cb[c] ELSE client[c]
<1>1. /\ cb \in [Clients -> C!ClientBuilders] /\ client \in [Clients -> {None} \union C!ClientBuilders]
      /\ clog = [d \in Clients |-> clog[d]] /\ \A d \in Clients: IsLog(clog[d])
      /\ proxy \in [Proxies -> C!ProxyStates]
  BY DEF ClientInv, ClientTypes
<1>2. b \in C!ClientBuilders /\ ~b.inner /\ b.proxy = cb[c].proxy
  <2>1. cb[c] \in C!ClientBuilders
    BY <1>1
  <2>2. C!NewBuilder.defaults \in [Keys -> Seq(C!TextsIn(Fields))]
    BY EmptySeq DEF C!NewBuilder
  <2>3. <<>> \in Seq(Middlewares)
    OBVIOUS
  <2> QED
    BY <2>1, <2>2, <2>3 DEF C!ClientBuilders, C!Optional
<1>3. /\ cb' = [cb EXCEPT ![c] = b] /\ clog' = [clog EXCEPT ![c] = Longer(clog[c], e)]
      /\ client' = [client EXCEPT ![c] = made] /\ proxy' = proxy
  <2>1. client = [client EXCEPT ![c] = client[c]]
    BY <1>1
  <2> QED
    BY <1>1, <2>1 DEF C!Build, C!Outcome, Longer
<1> HIDE DEF b
<1>4. /\ cb'[c] = b /\ \A d \in Clients \ {c}: cb'[d] = cb[d]
      /\ client'[c] = made /\ \A d \in Clients \ {c}: client'[d] = client[d]
      /\ clog'[c] = Longer(clog[c], e) /\ \A d \in Clients \ {c}: clog'[d] = clog[d]
      /\ clog' = [d \in Clients |-> clog'[d]]
  BY <1>1, <1>3
<1>5. made \in {None} \union C!ClientBuilders
  BY <1>1
<1>6. ClientBuilt(c)
  BY DEF ClientInv
<1>7. ClientTypes'
  <2>1. cb' \in [Clients -> C!ClientBuilders] /\ client' \in [Clients -> {None} \union C!ClientBuilders]
    BY <1>1, <1>2, <1>3, <1>5
  <2>2. \A d \in Clients: IsLog(clog'[d])
    <3> HIDE DEF e
    <3>1. IsLog(Longer(clog[c], e))
      BY <1>1, LogAppend
    <3> QED
      BY <1>1, <1>4, <3>1
  <2> QED
    BY <1>1, <1>3, <1>4, <2>1, <2>2 DEF ClientTypes, C!ClientBuilders, C!ProxyStates, C!Optional
<1>8. ClientBuilt(c)'
  <2>1. made # None => C!Fits(made, clog[c]) /\ (made.http1 \/ made.http2)
    BY <1>6 DEF ClientBuilt
  <2>2. made # None => C!Fits(made, Longer(clog[c], e))
    BY <1>1, <2>1, IdleFits
  <2>3. \A i, j \in Returned(Longer(clog[c], e), "build"): i = j
    <3>1. CASE built
      <4>1. Returned(clog[c], "build") = {}
        BY <1>6, <3>1 DEF ClientBuilt
      <4>2. Returned(Longer(clog[c], e), "build") = Later(clog[c], Returned(clog[c], "build"))
        BY <1>1, <3>1, ReturnedAppend
      <4> QED
        BY <4>1, <4>2 DEF Later
    <3>2. CASE ~built
      <4>1. Returned(Longer(clog[c], e), "build") = Returned(clog[c], "build")
        BY <1>1, <3>2, ReturnedAppend
      <4> QED
        BY <1>6, <4>1 DEF ClientBuilt
    <3> QED
      BY <3>1, <3>2
  <2> HIDE DEF made, e
  <2> QED
    BY <1>2, <1>4, <2>1, <2>2, <2>3 DEF ClientBuilt
<1>9. ASSUME NEW d \in Clients \ {c} PROVE ClientBuilt(d)'
  <2>1. cb'[d] = cb[d] /\ client'[d] = client[d] /\ clog'[d] = clog[d]
    BY <1>4
  <2>2. ClientBuilt(d)
    BY DEF ClientInv
  <2> QED
    BY <2>1, <2>2, ClientFrame
<1>10. \A d \in Clients: cb'[d].proxy = cb[d].proxy
  BY <1>2, <1>4
<1>11. ProxiesApart'
  BY <1>3, <1>10 DEF ClientInv, ProxiesApart
<1> QED
  BY <1>7, <1>8, <1>9, <1>11 DEF ClientInv

LEMMA ClientKept ==
  ASSUME ClientInv, C!CNext
  PROVE  ClientInv'
BY ClientSetOption, ClientApply, ClientSetVerbose, ClientHttp1Only, ClientHttp2, ClientHttp2Only,
   ClientDefaultHeaders, ClientWithMiddleware, ClientSetJsonHandler, ClientUseProxy, ClientSetProxy,
   ClientBuild DEF C!CNext

LEMMA ClientUntouched ==
  ASSUME ClientInv, UNCHANGED clientVars
  PROVE  ClientInv'
<1>1. cb' = cb /\ client' = client /\ proxy' = proxy /\ clog' = clog
  BY DEF clientVars
<1>2. ClientTypes'
  BY <1>1 DEF ClientInv, ClientTypes, C!ProxyStates, C!Optional, C!ClientBuilders
<1>3. \A c \in Clients: ClientBuilt(c)'
  BY <1>1 DEF ClientInv, ClientBuilt
<1>4. ProxiesApart'
  BY <1>1 DEF ClientInv, ProxiesApart
<1> QED
  BY <1>2, <1>3, <1>4 DEF ClientInv

(* An empty history asks for nothing. *)
LEMMA EmptyLog ==
  /\ IsLog(<<>>)
  /\ \A op: Returned(<<>>, op) = {} /\ Arguments(<<>>, op) = <<>>
  /\ \A op, x: LastGiven(<<>>, op, x) = x
<1>1. IsLog(<<>>)
  BY EmptySeq DEF IsLog
<1>2. \A op: Returned(<<>>, op) = {}
  BY DEF Returned
<1>3. ASSUME NEW op PROVE Arguments(<<>>, op) = <<>>
  <2>1. [i \in DOMAIN <<>> |-> IF i \in Returned(<<>>, op) THEN <<<<>>[i][2]>> ELSE <<>>] = <<>>
    OBVIOUS
  <2> QED
    BY <2>1, FlattenEmpty DEF Arguments
<1>4. \A op, x: LastGiven(<<>>, op, x) = x
  BY <1>2 DEF LastGiven, LastOf
<1> QED
  BY <1>1, <1>2, <1>3, <1>4

LEMMA NewBuilderIs == C!NewBuilder \in C!ClientBuilders
<1>1. <<>> \in Seq(Middlewares) /\ [k \in Keys |-> <<>>] \in [Keys -> Seq(C!TextsIn(Fields))]
  BY EmptySeq
<1> QED
  BY <1>1 DEF C!NewBuilder, C!ClientBuilders, C!Optional

LEMMA ClientBegins ==
  ASSUME C!CInit
  PROVE  ClientInv
<1>1. C!NewBuilder \in C!ClientBuilders
  BY NewBuilderIs
<1>2. C!Fits(C!NewBuilder, <<>>)
  <2>1. LoadsAt(<<>>) = {} /\ DumpsAt(<<>>) = {} /\ \A k \in Keys: DefaultsAt(<<>>, k) = {}
    BY EmptyLog DEF LoadsAt, DumpsAt, DefaultsAt
  <2>2. C!LoadsGiven(<<>>) = None /\ C!DumpsGiven(<<>>) = None
    BY <2>1, ClientReads DEF C!LoadsGiven, C!DumpsGiven, LoadsAt, DumpsAt, LastOf
  <2>3. \A k \in Keys: C!DefaultsGiven(<<>>, k) = <<>>
    BY <2>1, ClientReads DEF C!DefaultsGiven, DefaultsAt, LastOf, C!NewBuilder
  <2>4. /\ \A op, x: C!LastGiven(<<>>, op, x) = x
        /\ C!Arguments(<<>>, "middleware") = <<>>
    BY EmptyLog, ClientReads
  <2> QED
    BY <2>2, <2>3, <2>4 DEF C!Fits, C!NewBuilder
<1>3. ClientTypes
  BY <1>1, EmptyLog DEF ClientTypes, C!CInit, C!ProxyStates, C!Optional
<1>4. ASSUME NEW c \in Clients PROVE ClientBuilt(c)
  <2>1. cb[c] = C!NewBuilder /\ client[c] = None /\ clog[c] = <<>>
    BY DEF C!CInit
  <2> QED
    BY <1>2, <2>1, EmptyLog DEF ClientBuilt
<1>5. ProxiesApart
  BY DEF ProxiesApart, C!CInit, C!NewBuilder
<1> QED
  BY <1>3, <1>4, <1>5 DEF ClientInv
-----------------------------------------------------------------------------
(* Lists of header values. *)
LEMMA ToldGrows ==
  ASSUME NEW T, NEW n \in Nat, NEW words \in [1..n -> Words(T)], NEW grown \in [1..(n + 1) -> Words(T)],
         \A i \in 1..n: grown[i] = words[i]
  PROVE  Told(words) \in Seq(T) /\ Told(grown) = After(Told(words), grown[n + 1])
<1>1. words \in Seq(Words(T)) /\ grown \in Seq(Words(T)) /\ Len(words) = n /\ Len(grown) = n + 1
  OBVIOUS
<1>2. PICK w \in Words(T): w = grown[n + 1]
  OBVIOUS
<1>3. grown = Longer(words, w)
  <2>1. PICK long \in Seq(Words(T)): long = Append(words, w)
    BY <1>1, AppendProperties
  <2>2. Len(long) = n + 1 /\ long[n + 1] = w /\ \A i \in 1..n: long[i] = words[i]
    BY <1>1, <2>1, AppendProperties
  <2>3. \A i \in 1..(n + 1): long[i] = grown[i]
    BY <1>2, <2>2
  <2>4. long = grown
    BY <1>1, <2>2, <2>3
  <2> QED
    BY <2>1, <2>4 DEF Longer
<1>4. Told(words) \in Seq(T) /\ Told(Longer(words, w)) = After(Told(words), w)
  BY <1>1, ToldAppend
<1> QED
  BY <1>2, <1>3, <1>4

Headed(e) == /\ e[1] = "header" => e[2] \in Keys \X Values
             /\ e[1] = "headers" => e[2] \in Fields

LEMMA HeaderWordIs ==
  ASSUME NEW e, Headed(e), NEW k \in Keys, NEW T, Values \subseteq T, C!TextsIn(Fields) \subseteq T
  PROVE  HeaderWord(e, k) \in Words(T)
<1>1. <<>> \in Seq(T)
  BY EmptySeq
<1>2. CASE e[3] = "returned" /\ e[1] = "headers" /\ e[2][k] # <<>>
  <2>1. e[2] \in [Keys -> Seq(C!TextsIn(Fields))]
    BY <1>2, BuildersAssumption DEF Headed
  <2>2. PICK v \in Seq(C!TextsIn(Fields)): v = e[2][k]
    BY <2>1
  <2>3. v \in Seq(T)
    BY <2>2
  <2>4. HeaderWord(e, k) = Begins(v)
    BY <1>2, <2>2 DEF HeaderWord
  <2> QED
    BY <2>3, <2>4 DEF Words, Begins
<1>3. CASE ~(e[3] = "returned" /\ e[1] = "headers" /\ e[2][k] # <<>>)
           /\ e[3] = "returned" /\ e[1] = "header" /\ e[2][1] = k
  <2>1. PICK v \in T: v = e[2][2]
    BY <1>3 DEF Headed
  <2>2. HeaderWord(e, k) = Adds(<<v>>)
    BY <1>3, <2>1 DEF HeaderWord
  <2>3. <<v>> \in Seq(T)
    BY <2>1
  <2> QED
    BY <2>2, <2>3 DEF Words, Adds
<1>4. CASE ~(e[3] = "returned" /\ e[1] = "headers" /\ e[2][k] # <<>>)
           /\ ~(e[3] = "returned" /\ e[1] = "header" /\ e[2][1] = k)
  <2>1. HeaderWord(e, k) = Adds(<<>>)
    BY <1>4 DEF HeaderWord
  <2> QED
    BY <1>1, <2>1 DEF Words, Adds
<1> QED
  BY <1>2, <1>3, <1>4

LEMMA AfterIs ==
  ASSUME NEW T, NEW v \in Seq(T)
  PROVE  /\ After(v, Adds(<<>>)) = v
         /\ \A x \in T: After(v, Adds(<<x>>)) = Append(v, x)
         /\ \A u: After(v, Begins(u)) = u
<1>1. v \o <<>> = v
  OBVIOUS
<1>2. ASSUME NEW x \in T PROVE v \o <<x>> = Append(v, x)
  OBVIOUS
<1> QED
  BY <1>1, <1>2 DEF After, Adds, Begins
-----------------------------------------------------------------------------
(* Responses. *)
LEMMA ResponseReads ==
  /\ \A s: S!Max(s) = Max(s)
  /\ \A log, op: S!Returned(log, op) = Returned(log, op)
  /\ \A log, op, x: S!LastGiven(log, op, x) = LastGiven(log, op, x)
  /\ \A words: S!Told(words) = Told(words)
  /\ \A e, k: S!HeaderWord(e, k) = HeaderWord(e, k)
  /\ \A v: S!Adds(v) = Adds(v)
<1>1. \A s: S!Max(s) = Max(s)
  BY DEF S!Max, Max
<1>2. \A log, op: S!Returned(log, op) = Returned(log, op)
  BY DEF S!Returned, Returned
<1>3. \A log, T, x: S!LastOf(log, T, x) = LastOf(log, T, x)
  BY <1>1 DEF S!LastOf, LastOf
<1>4. \A words: S!Told(words) = Told(words)
  BY DEF S!Told, Told, S!FoldLeft, FoldLeft, S!MapThenFoldSet, MapThenFoldSet, S!Max, Max
<1>5. \A v: S!Adds(v) = Adds(v) /\ S!Begins(v) = Begins(v)
  BY DEF S!Adds, Adds, S!Begins, Begins
<1>6. \A e, k: S!HeaderWord(e, k) = HeaderWord(e, k)
  BY <1>5 DEF S!HeaderWord, HeaderWord
<1>7. \A log, op, x: S!LastGiven(log, op, x) = LastGiven(log, op, x)
  BY <1>2, <1>3 DEF S!LastGiven, LastGiven
<1> QED
  BY <1>1, <1>2, <1>4, <1>5, <1>6, <1>7

JsonWord(e, k) ==
  IF k = Type /\ e[1] = "body" /\ e[2] = "json" /\ e[3] = "returned" THEN Adds(<<"json">>)
  ELSE HeaderWord(e, k)

LEMMA ValuesAppend ==
  ASSUME NEW log, IsLog(log), \A i \in DOMAIN log: Headed(log[i]), NEW e, Headed(e), NEW k \in Keys
  PROVE  /\ S!ValuesGiven(log, k) \in Seq(S!Texts)
         /\ S!ValuesGiven(Longer(log, e), k) = After(S!ValuesGiven(log, k), JsonWord(e, k))
<1> DEFINE n == Len(log)
           long == Longer(log, e)
           words == [i \in DOMAIN log |-> JsonWord(log[i], k)]
           grown == [i \in DOMAIN long |-> JsonWord(long[i], k)]
<1>1. \A l: S!ValuesGiven(l, k) = Told([i \in DOMAIN l |-> JsonWord(l[i], k)])
  BY ResponseReads DEF S!ValuesGiven, JsonWord
<1>2. /\ n \in Nat /\ DOMAIN log = 1..n /\ DOMAIN long = 1..(n + 1) /\ long[n + 1] = e
      /\ \A i \in 1..n: long[i] = log[i]
  BY LogAppend
<1>3. ASSUME NEW d, Headed(d) PROVE JsonWord(d, k) \in Words(S!Texts)
  <2>1. HeaderWord(d, k) \in Words(S!Texts)
    BY <1>3, HeaderWordIs DEF S!Texts, S!TextsIn, C!TextsIn
  <2>2. Adds(<<"json">>) \in Words(S!Texts)
    <3>1. PICK x \in S!Texts: x = "json"
      BY DEF S!Texts
    <3>2. <<x>> \in Seq(S!Texts)
      BY <3>1
    <3> QED
      BY <3>1, <3>2 DEF Adds, Words
  <2> QED
    BY <2>1, <2>2 DEF JsonWord
<1>4. \A i \in 1..(n + 1): Headed(long[i])
  BY <1>2
<1> HIDE DEF long
<1>5. /\ words \in [1..n -> Words(S!Texts)] /\ grown \in [1..(n + 1) -> Words(S!Texts)]
      /\ \A i \in 1..n: grown[i] = words[i]
      /\ grown[n + 1] = JsonWord(e, k)
  BY <1>2, <1>3, <1>4
<1> HIDE DEF words, grown
<1>6. Told(words) \in Seq(S!Texts) /\ Told(grown) = After(Told(words), grown[n + 1])
  BY <1>2, <1>5, ToldGrows
<1> QED
  BY <1>1, <1>5, <1>6 DEF words, grown, long

BodiesAt(log) == {i \in DOMAIN log: log[i][1] = "body" \/ (log[i][1] = "build" /\ log[i][3] = "raised")}

LEMMA BodyAppend ==
  ASSUME NEW log, IsLog(log), NEW e
  PROVE  /\ e[1] = "body" => S!BodyGiven(Longer(log, e)) = e[2]
         /\ e[1] = "build" /\ e[3] = "raised" => S!BodyGiven(Longer(log, e)) = "empty"
         /\ e[1] # "body" /\ (e[1] # "build" \/ e[3] # "raised")
              => S!BodyGiven(Longer(log, e)) = S!BodyGiven(log)
<1> DEFINE n == Len(log)
           Read(l) == IF BodiesAt(l) # {} /\ l[Max(BodiesAt(l))][1] = "body"
                      THEN l[Max(BodiesAt(l))][2] ELSE "empty"
<1>1. \A l: S!BodyGiven(l) = Read(l)
  BY ResponseReads DEF S!BodyGiven, BodiesAt
<1>2. PICK long: long = Longer(log, e)
  OBVIOUS
<1>3. /\ n \in Nat /\ DOMAIN log = 1..n /\ DOMAIN long = 1..(n + 1) /\ long[n + 1] = e
      /\ \A i \in 1..n: long[i] = log[i]
  BY <1>2, LogAppend
<1>4. BodiesAt(log) \in SUBSET (1..n)
  BY <1>3 DEF BodiesAt
<1>5. CASE e[1] = "body" \/ (e[1] = "build" /\ e[3] = "raised")
  <2>1. BodiesAt(long) = BodiesAt(log) \union {n + 1}
    BY <1>3, <1>5 DEF BodiesAt
  <2>2. BodiesAt(long) # {} /\ Max(BodiesAt(long)) = n + 1
    BY <1>3, <1>4, <2>1, LastPosition
  <2> QED
    BY <1>1, <1>2, <1>3, <1>5, <2>2
<1>6. CASE e[1] # "body" /\ (e[1] # "build" \/ e[3] # "raised")
  <2>1. BodiesAt(long) = BodiesAt(log)
    BY <1>3, <1>6 DEF BodiesAt
  <2>2. BodiesAt(log) # {} => long[Max(BodiesAt(log))] = log[Max(BodiesAt(log))]
    BY <1>3, <1>4, MaxIs
  <2> QED
    BY <1>1, <1>2, <1>6, <2>1, <2>2
<1> QED
  BY <1>5, <1>6

(* Builder b2 is b after the call e. *)
Answers(b, e, b2) ==
  LET given(op) == e[1] = op /\ e[3] = "returned" IN
  /\ b2.status = IF given("status") THEN e[2] ELSE b.status
  /\ b2.extensions = IF given("extensions") THEN e[2] ELSE b.extensions
  /\ b2.body = IF e[1] = "body" THEN e[2]
               ELSE IF e[1] = "build" /\ e[3] = "raised" THEN "empty" ELSE b.body
  /\ \A k \in Keys: b2.headers[k] = After(b.headers[k], JsonWord(e, k))

LEMMA AnswersFits ==
  ASSUME NEW log, IsLog(log), \A i \in DOMAIN log: Headed(log[i]), NEW e, Headed(e),
         NEW b, NEW b2, S!Fits(b, log), Answers(b, e, b2)
  PROVE  S!Fits(b2, Longer(log, e))
<1>1. \A op, x: /\ e[1] # op \/ e[3] # "returned" => S!LastGiven(Longer(log, e), op, x) = S!LastGiven(log, op, x)
                /\ e[1] = op /\ e[3] = "returned" => S!LastGiven(Longer(log, e), op, x) = e[2]
  <2>1. ASSUME NEW op, NEW x
        PROVE  /\ e[1] # op \/ e[3] # "returned" => S!LastGiven(Longer(log, e), op, x) = S!LastGiven(log, op, x)
               /\ e[1] = op /\ e[3] = "returned" => S!LastGiven(Longer(log, e), op, x) = e[2]
    BY LastGivenAppend, ResponseReads
  <2> QED
    BY <2>1
<1>2. b2.status = S!LastGiven(Longer(log, e), "status", 200)
  BY <1>1 DEF S!Fits, Answers
<1>3. b2.extensions = S!LastGiven(Longer(log, e), "extensions", None)
  BY <1>1 DEF S!Fits, Answers
<1>4. b2.body = S!BodyGiven(Longer(log, e))
  BY BodyAppend DEF S!Fits, Answers
<1>5. ASSUME NEW k \in Keys PROVE b2.headers[k] = S!ValuesGiven(Longer(log, e), k)
  BY ValuesAppend DEF S!Fits, Answers
<1> QED
  BY <1>2, <1>3, <1>4, <1>5 DEF S!Fits

(* What holds of response builders: one with a head is what its history     *)
(* asks for, and a response is what the history up to its build asked for.  *)
ResponseTypes ==
  /\ rb \in [Responses -> {None} \union S!ResponseBuilders]
  /\ response = [s \in Responses |-> response[s]]
  /\ slog = [s \in Responses |-> slog[s]]
  /\ \A s \in Responses: IsLog(slog[s]) /\ \A i \in DOMAIN slog[s]: Headed(slog[s][i])

ResponseBuilt(s) ==
  /\ rb[s] = None => response[s] = None /\ slog[s] = <<>>
  /\ rb[s] # None /\ rb[s].head =>
       response[s] = None /\ Returned(slog[s], "build") = {} /\ S!Fits(rb[s], slog[s])
  /\ response[s] # None =>
       \E n \in 1..Len(slog[s]): /\ Returned(slog[s], "build") = {n}
                                 /\ S!Fits(response[s], SubSeq(slog[s], 1, n))

LEMMA ResponseFrame ==
  ASSUME NEW s, ResponseBuilt(s), rb'[s] = rb[s], response'[s] = response[s], slog'[s] = slog[s]
  PROVE  ResponseBuilt(s)'
BY DEF ResponseBuilt

ResponseInv == ResponseTypes /\ \A s \in Responses: ResponseBuilt(s)

LEMMA SubSeqKept ==
  ASSUME NEW log, IsLog(log), NEW e, NEW n \in 1..Len(log)
  PROVE  SubSeq(Longer(log, e), 1, n) = SubSeq(log, 1, n)
<1>1. PICK long: long = Longer(log, e)
  OBVIOUS
<1>2. /\ Len(log) \in Nat /\ DOMAIN log = 1..Len(log) /\ IsLog(long)
      /\ DOMAIN long = 1..(Len(log) + 1) /\ Len(long) = Len(log) + 1
      /\ \A i \in 1..Len(log): long[i] = log[i]
  BY <1>1, LogAppend
<1>3. SubSeq(long, 1, n) = [i \in 1..n |-> long[i]] /\ SubSeq(log, 1, n) = [i \in 1..n |-> log[i]]
  BY <1>2
<1>4. SubSeq(long, 1, n) = SubSeq(log, 1, n)
  BY <1>2, <1>3
<1> QED
  BY <1>1, <1>4

LEMMA SubSeqWhole ==
  ASSUME NEW log, IsLog(log), NEW e
  PROVE  SubSeq(Longer(log, e), 1, Len(log) + 1) = Longer(log, e)
<1>1. PICK long, m: long = Longer(log, e) /\ m = Len(log) + 1
  OBVIOUS
<1>2. m \in Nat /\ IsLog(long) /\ DOMAIN long = 1..m /\ Len(long) = m
  BY <1>1, LogAppend
<1>3. SubSeq(long, 1, m) = [i \in 1..m |-> long[i]]
  BY <1>2
<1>4. long = [i \in 1..m |-> long[i]]
  BY <1>2 DEF IsLog
<1>5. SubSeq(long, 1, m) = long
  BY <1>3, <1>4
<1> QED
  BY <1>1, <1>5

(* A call e that leaves builder s as b and its response as made.            *)
LEMMA ResponseCalled ==
  ASSUME ResponseInv, NEW s \in Responses, rb[s] # None, NEW e, Headed(e), NEW b \in S!ResponseBuilders,
         NEW made,
         rb' = [rb EXCEPT ![s] = b], slog' = [slog EXCEPT ![s] = Longer(slog[s], e)],
         response' = [response EXCEPT ![s] = made],
         b.head => rb[s].head /\ Answers(rb[s], e, b),
         \/ e[1] = "build" /\ e[3] = "returned" /\ rb[s].head /\ ~b.head /\ made = rb[s]
         \/ (e[1] # "build" \/ e[3] # "returned") /\ made = response[s]
  PROVE  ResponseInv'
<1> DEFINE log == slog[s]
           long == Longer(log, e)
<1>1. /\ rb \in [Responses -> {None} \union S!ResponseBuilders]
      /\ response = [t \in Responses |-> response[t]] /\ slog = [t \in Responses |-> slog[t]]
      /\ \A t \in Responses: IsLog(slog[t]) /\ \A i \in DOMAIN slog[t]: Headed(slog[t][i])
  BY DEF ResponseInv, ResponseTypes
<1>2. /\ rb'[s] = b /\ \A t \in Responses \ {s}: rb'[t] = rb[t]
      /\ slog'[s] = long /\ \A t \in Responses \ {s}: slog'[t] = slog[t]
      /\ response'[s] = made /\ \A t \in Responses \ {s}: response'[t] = response[t]
      /\ slog' = [t \in Responses |-> slog'[t]] /\ response' = [t \in Responses |-> response'[t]]
  BY <1>1
<1>3. /\ Len(log) \in Nat /\ DOMAIN log = 1..Len(log) /\ IsLog(long) /\ Len(long) = Len(log) + 1
      /\ \A i \in DOMAIN long: Headed(long[i])
  BY <1>1, LogAppend
<1>4. b # None /\ rb[s] \in S!ResponseBuilders
  BY <1>1, BuildersAssumption
<1> HIDE DEF long
<1>5. ResponseTypes'
  <2>1. rb' \in [Responses -> {None} \union S!ResponseBuilders]
    BY <1>1
  <2>2. \A t \in Responses: IsLog(slog'[t]) /\ \A i \in DOMAIN slog'[t]: Headed(slog'[t][i])
    BY <1>1, <1>2, <1>3
  <2> QED
    BY <1>2, <2>1, <2>2 DEF ResponseTypes, S!ResponseBuilders, S!Texts, S!TextsIn, Headed
<1>6. ResponseBuilt(s)
  BY DEF ResponseInv
<1>7. ResponseBuilt(s)'
  <2>1. CASE e[1] = "build" /\ e[3] = "returned" /\ rb[s].head /\ ~b.head /\ made = rb[s]
    <3>1. Returned(log, "build") = {} /\ S!Fits(rb[s], log)
      BY <1>6, <2>1 DEF ResponseBuilt
    <3>2. Returned(long, "build") = {Len(log) + 1}
      <4>1. IsLog(log) /\ e[1] = "build" /\ e[3] = "returned"
        BY <1>1, <2>1
      <4> HIDE DEF log
      <4>2. Returned(long, "build") = Later(log, Returned(log, "build"))
        BY <4>1, ReturnedAppend DEF long
      <4> QED
        BY <3>1, <4>2 DEF Later
    <3>3. Answers(rb[s], e, rb[s])
      <4>1. ASSUME NEW k \in Keys PROVE rb[s].headers[k] = After(rb[s].headers[k], JsonWord(e, k))
        <5>1. rb[s].headers[k] \in Seq(S!Texts)
          BY <1>4 DEF S!ResponseBuilders
        <5>2. JsonWord(e, k) = Adds(<<>>)
          BY <2>1 DEF JsonWord, HeaderWord
        <5> QED
          BY <5>1, <5>2, AfterIs
      <4> QED
        BY <2>1, <4>1 DEF Answers
    <3>4. S!Fits(rb[s], long)
      BY <1>1, <3>1, <3>3, AnswersFits DEF long
    <3>5. SubSeq(long, 1, Len(log) + 1) = long
      BY <1>1, SubSeqWhole DEF long
    <3>6. Len(log) + 1 \in 1..Len(long)
      BY <1>3
    <3> QED
      <4>1. PICK n \in 1..Len(long): Returned(long, "build") = {n} /\ S!Fits(rb[s], SubSeq(long, 1, n))
        BY <3>2, <3>4, <3>5, <3>6
      <4>2. response'[s] = rb[s] /\ slog'[s] = long /\ rb'[s] = b /\ ~b.head
        BY <1>2, <2>1
      <4>3. \E i \in 1..Len(slog'[s]): /\ Returned(slog'[s], "build") = {i}
                                       /\ S!Fits(response'[s], SubSeq(slog'[s], 1, i))
        BY <4>1, <4>2
      <4> QED
        BY <1>4, <4>2, <4>3 DEF ResponseBuilt
  <2>2. CASE (e[1] # "build" \/ e[3] # "returned") /\ made = response[s]
    <3>1. Returned(long, "build") = Returned(log, "build")
      BY <1>1, <2>2, ReturnedAppend DEF long
    <3>2. ASSUME b.head PROVE made = None /\ Returned(long, "build") = {} /\ S!Fits(b, long)
      <4>1. rb[s].head /\ Answers(rb[s], e, b)
        BY <3>2
      <4>2. response[s] = None /\ Returned(log, "build") = {} /\ S!Fits(rb[s], log)
        BY <1>6, <4>1 DEF ResponseBuilt
      <4>3. S!Fits(b, long)
        BY <1>1, <4>1, <4>2, AnswersFits DEF long
      <4> QED
        BY <2>2, <3>1, <4>2, <4>3
    <3>3. ASSUME made # None
          PROVE  \E n \in 1..Len(long): Returned(long, "build") = {n} /\ S!Fits(made, SubSeq(long, 1, n))
      <4>1. PICK n \in 1..Len(log): Returned(log, "build") = {n} /\ S!Fits(response[s], SubSeq(log, 1, n))
        BY <1>6, <2>2, <3>3 DEF ResponseBuilt
      <4>2. SubSeq(long, 1, n) = SubSeq(log, 1, n)
        BY <1>1, SubSeqKept DEF long
      <4>3. n \in 1..Len(long)
        BY <1>3
      <4> QED
        BY <2>2, <3>1, <4>1, <4>2, <4>3
    <3> QED
      BY <1>2, <1>4, <3>2, <3>3 DEF ResponseBuilt
  <2> QED
    BY <2>1, <2>2
<1>8. ASSUME NEW t \in Responses \ {s} PROVE ResponseBuilt(t)'
  <2>1. rb'[t] = rb[t] /\ response'[t] = response[t] /\ slog'[t] = slog[t]
    BY <1>2
  <2>2. ResponseBuilt(t)
    BY DEF ResponseInv
  <2> QED
    BY <2>1, <2>2, ResponseFrame
<1> QED
  BY <1>5, <1>7, <1>8 DEF ResponseInv

(* A call that builds nothing: the response stays what it is. *)
LEMMA ResponseSet ==
  ASSUME ResponseInv, NEW s \in Responses, rb[s] # None, NEW e, Headed(e), NEW b \in S!ResponseBuilders,
         rb' = [rb EXCEPT ![s] = b], slog' = [slog EXCEPT ![s] = Longer(slog[s], e)], response' = response,
         b.head => rb[s].head /\ Answers(rb[s], e, b),
         e[1] # "build" \/ e[3] # "returned"
  PROVE  ResponseInv'
<1>1. response' = [response EXCEPT ![s] = response[s]]
  BY DEF ResponseInv, ResponseTypes
<1> QED
  BY <1>1, ResponseCalled

LEMMA ResponseStatus ==
  ASSUME ResponseInv, NEW s \in Responses, NEW v \in Values, S!Status(s, v)
  PROVE  ResponseInv'
<1> DEFINE e == <<"status", v, IF rb[s].head THEN "returned" ELSE "raised">>
           b == IF rb[s].head THEN [rb[s] EXCEPT !.status = v] ELSE rb[s]
<1>1. rb[s] # None /\ rb[s] \in S!ResponseBuilders
  BY DEF ResponseInv, ResponseTypes, S!Status, S!OnHead, S!Called
<1>2. b \in S!ResponseBuilders
  BY <1>1 DEF S!ResponseBuilders
<1>3. rb' = [rb EXCEPT ![s] = b] /\ slog' = [slog EXCEPT ![s] = Longer(slog[s], e)] /\ response' = response
  BY DEF S!Status, S!OnHead, S!Called, Longer
<1>4. Headed(e) /\ (e[1] # "build" \/ e[3] # "returned")
  BY DEF Headed
<1>5. b.head => rb[s].head /\ Answers(rb[s], e, b)
  <2>1. ASSUME NEW k \in Keys PROVE b.headers[k] = After(rb[s].headers[k], JsonWord(e, k))
    <3>1. JsonWord(e, k) = Adds(<<>>)
      BY DEF JsonWord, HeaderWord
    <3>2. b.headers[k] = rb[s].headers[k] /\ rb[s].headers[k] \in Seq(S!Texts)
      BY <1>1 DEF S!ResponseBuilders
    <3> HIDE DEF e, b
    <3> QED
      BY <3>1, <3>2, AfterIs
  <2> QED
    BY <1>1, <2>1 DEF Answers, S!ResponseBuilders
<1> HIDE DEF e, b
<1> QED
  BY <1>1, <1>2, <1>3, <1>4, <1>5, ResponseSet

LEMMA ResponseExtensions ==
  ASSUME ResponseInv, NEW s \in Responses, NEW v \in Values, S!Extensions(s, v)
  PROVE  ResponseInv'
<1> DEFINE e == <<"extensions", v, "returned">>
           b == [rb[s] EXCEPT !.extensions = v]
<1>1. rb[s] # None /\ rb[s] \in S!ResponseBuilders
  BY DEF ResponseInv, ResponseTypes, S!Extensions, S!Called
<1>2. b \in S!ResponseBuilders
  BY <1>1 DEF S!ResponseBuilders
<1>3. rb' = [rb EXCEPT ![s] = b] /\ slog' = [slog EXCEPT ![s] = Longer(slog[s], e)] /\ response' = response
  BY DEF S!Extensions, S!Called, Longer
<1>4. Headed(e) /\ (e[1] # "build" \/ e[3] # "returned")
  BY DEF Headed
<1>5. b.head => rb[s].head /\ Answers(rb[s], e, b)
  <2>1. ASSUME NEW k \in Keys PROVE b.headers[k] = After(rb[s].headers[k], JsonWord(e, k))
    <3>1. JsonWord(e, k) = Adds(<<>>)
      BY DEF JsonWord, HeaderWord
    <3>2. b.headers[k] = rb[s].headers[k] /\ rb[s].headers[k] \in Seq(S!Texts)
      BY <1>1 DEF S!ResponseBuilders
    <3> HIDE DEF e, b
    <3> QED
      BY <3>1, <3>2, AfterIs
  <2> QED
    BY <1>1, <2>1 DEF Answers, S!ResponseBuilders
<1> HIDE DEF e, b
<1> QED
  BY <1>1, <1>2, <1>3, <1>4, <1>5, ResponseSet

LEMMA ResponseBody ==
  ASSUME ResponseInv, NEW s \in Responses, NEW kind \in {"any", "async"}, S!Body(s, kind)
  PROVE  ResponseInv'
<1> DEFINE e == <<"body", kind, "returned">>
           b == [rb[s] EXCEPT !.body = kind]
<1>1. rb[s] # None /\ rb[s] \in S!ResponseBuilders
  BY DEF ResponseInv, ResponseTypes, S!Body, S!Called
<1>2. b \in S!ResponseBuilders
  BY <1>1 DEF S!ResponseBuilders
<1>3. rb' = [rb EXCEPT ![s] = b] /\ slog' = [slog EXCEPT ![s] = Longer(slog[s], e)] /\ response' = response
  BY DEF S!Body, S!Called, Longer
<1>4. Headed(e) /\ (e[1] # "build" \/ e[3] # "returned")
  BY DEF Headed
<1>5. b.head => rb[s].head /\ Answers(rb[s], e, b)
  <2>1. ASSUME NEW k \in Keys PROVE b.headers[k] = After(rb[s].headers[k], JsonWord(e, k))
    <3>1. JsonWord(e, k) = Adds(<<>>)
      BY DEF JsonWord, HeaderWord
    <3>2. b.headers[k] = rb[s].headers[k] /\ rb[s].headers[k] \in Seq(S!Texts)
      BY <1>1 DEF S!ResponseBuilders
    <3> HIDE DEF e, b
    <3> QED
      BY <3>1, <3>2, AfterIs
  <2> QED
    BY <1>1, <2>1 DEF Answers, S!ResponseBuilders
<1> HIDE DEF e, b
<1> QED
  BY <1>1, <1>2, <1>3, <1>4, <1>5, ResponseSet

(* A header added, by header() or by body_json(). *)
LEMMA WithIs ==
  ASSUME NEW T, NEW h \in [Keys -> Seq(T)], NEW k0 \in Keys, NEW v \in T
  PROVE  /\ S!With(h, k0, v) \in [Keys -> Seq(T)]
         /\ S!With(h, k0, v)[k0] = After(h[k0], Adds(<<v>>))
         /\ \A k \in Keys \ {k0}: S!With(h, k0, v)[k] = After(h[k], Adds(<<>>))
<1>1. Append(h[k0], v) \in Seq(T) /\ S!With(h, k0, v) = [h EXCEPT ![k0] = Append(h[k0], v)]
  BY AppendProperties DEF S!With
<1>2. /\ S!With(h, k0, v) \in [Keys -> Seq(T)] /\ S!With(h, k0, v)[k0] = Append(h[k0], v)
      /\ \A k \in Keys \ {k0}: S!With(h, k0, v)[k] = h[k]
  BY <1>1
<1>3. \A k \in Keys: h[k] \in Seq(T)
  OBVIOUS
<1> QED
  BY <1>2, <1>3, AfterIs

LEMMA ResponseHeader ==
  ASSUME ResponseInv, NEW s \in Responses, NEW k0 \in Keys, NEW v \in Values, S!Header(s, k0, v)
  PROVE  ResponseInv'
<1> DEFINE e == <<"header", <<k0, v>>, IF rb[s].head THEN "returned" ELSE "raised">>
           h == S!With(rb[s].headers, k0, v)
           b == IF rb[s].head THEN [rb[s] EXCEPT !.headers = h] ELSE rb[s]
<1>1. rb[s] # None /\ rb[s] \in S!ResponseBuilders
  BY DEF ResponseInv, ResponseTypes, S!Header, S!OnHead, S!Called
<1>2. /\ h \in [Keys -> Seq(S!Texts)]
      /\ h[k0] = After(rb[s].headers[k0], Adds(<<v>>))
      /\ \A k \in Keys \ {k0}: h[k] = After(rb[s].headers[k], Adds(<<>>))
  <2>1. rb[s].headers \in [Keys -> Seq(S!Texts)] /\ v \in S!Texts
    BY <1>1 DEF S!ResponseBuilders, S!Texts
  <2>2. PICK old \in [Keys -> Seq(S!Texts)]: old = rb[s].headers
    BY <2>1
  <2> QED
    BY <2>1, <2>2, WithIs
<1>3. rb' = [rb EXCEPT ![s] = b] /\ slog' = [slog EXCEPT ![s] = Longer(slog[s], e)] /\ response' = response
  BY DEF S!Header, S!OnHead, S!Called, Longer
<1> HIDE DEF h
<1>4. b \in S!ResponseBuilders
  BY <1>1, <1>2 DEF S!ResponseBuilders
<1>5. Headed(e) /\ (e[1] # "build" \/ e[3] # "returned")
  BY DEF Headed
<1>6. b.head => rb[s].head /\ Answers(rb[s], e, b)
  <2>1. SUFFICES ASSUME rb[s].head PROVE Answers(rb[s], e, b)
    BY <1>1 DEF S!ResponseBuilders
  <2>2. ASSUME NEW k \in Keys PROVE b.headers[k] = After(rb[s].headers[k], JsonWord(e, k))
    <3>1. /\ k = k0 => JsonWord(e, k) = Adds(<<v>>)
          /\ k # k0 => JsonWord(e, k) = Adds(<<>>)
      BY <2>1 DEF JsonWord, HeaderWord
    <3>2. b.headers[k] = h[k]
      BY <1>1, <2>1 DEF S!ResponseBuilders
    <3> HIDE DEF e, b
    <3> QED
      BY <1>2, <3>1, <3>2
  <2> QED
    BY <1>1, <2>1, <2>2 DEF Answers, S!ResponseBuilders
<1> HIDE DEF e, b
<1> QED
  BY <1>1, <1>3, <1>4, <1>5, <1>6, ResponseSet

LEMMA ResponseHeaders ==
  ASSUME ResponseInv, NEW s \in Responses, NEW g \in Fields, S!Headers(s, g)
  PROVE  ResponseInv'
<1> DEFINE e == <<"headers", g, IF rb[s].head THEN "returned" ELSE "raised">>
           h == S!Extended(rb[s].headers, g)
           b == IF rb[s].head THEN [rb[s] EXCEPT !.headers = h] ELSE rb[s]
<1>1. rb[s] # None /\ rb[s] \in S!ResponseBuilders
  BY DEF ResponseInv, ResponseTypes, S!Headers, S!OnHead, S!Called
<1>2. /\ h \in [Keys -> Seq(S!Texts)]
      /\ \A k \in Keys: g[k] # <<>> => h[k] = After(rb[s].headers[k], Begins(g[k]))
      /\ \A k \in Keys: g[k] = <<>> => h[k] = After(rb[s].headers[k], Adds(<<>>))
  <2>1. rb[s].headers \in [Keys -> Seq(S!Texts)] /\ g \in [Keys -> Seq(C!TextsIn(Fields))]
    BY <1>1, BuildersAssumption DEF S!ResponseBuilders
  <2>2. g \in [Keys -> Seq(S!Texts)]
    <3>1. C!TextsIn(Fields) \subseteq S!Texts
      BY DEF S!Texts, S!TextsIn, C!TextsIn
    <3> QED
      BY <2>1, <3>1
  <2>3. h \in [Keys -> Seq(S!Texts)] /\ \A k \in Keys: h[k] = IF g[k] # <<>> THEN g[k] ELSE rb[s].headers[k]
    BY <2>1, <2>2 DEF S!Extended, S!Present
  <2>4. \A k \in Keys: rb[s].headers[k] \in Seq(S!Texts)
    BY <2>1
  <2> HIDE DEF h
  <2> QED
    BY <2>3, <2>4, AfterIs
<1>3. rb' = [rb EXCEPT ![s] = b] /\ slog' = [slog EXCEPT ![s] = Longer(slog[s], e)] /\ response' = response
  BY DEF S!Headers, S!OnHead, S!Called, Longer
<1> HIDE DEF h
<1>4. b \in S!ResponseBuilders
  BY <1>1, <1>2 DEF S!ResponseBuilders
<1>5. Headed(e) /\ (e[1] # "build" \/ e[3] # "returned")
  BY DEF Headed
<1>6. b.head => rb[s].head /\ Answers(rb[s], e, b)
  <2>1. SUFFICES ASSUME rb[s].head PROVE Answers(rb[s], e, b)
    BY <1>1 DEF S!ResponseBuilders
  <2>2. ASSUME NEW k \in Keys PROVE b.headers[k] = After(rb[s].headers[k], JsonWord(e, k))
    <3>1. /\ g[k] # <<>> => JsonWord(e, k) = Begins(g[k])
          /\ g[k] = <<>> => JsonWord(e, k) = Adds(<<>>)
      BY <2>1 DEF JsonWord, HeaderWord
    <3>2. b.headers[k] = h[k]
      BY <1>1, <2>1 DEF S!ResponseBuilders
    <3> HIDE DEF e, b
    <3>3. CASE g[k] # <<>>
      BY <1>2, <3>1, <3>2, <3>3
    <3>4. CASE g[k] = <<>>
      BY <1>2, <3>1, <3>2, <3>4
    <3> QED
      BY <3>3, <3>4
  <2> QED
    BY <1>1, <2>1, <2>2 DEF Answers, S!ResponseBuilders
<1> HIDE DEF e, b
<1> QED
  BY <1>1, <1>3, <1>4, <1>5, <1>6, ResponseSet

LEMMA ResponseBodyJson ==
  ASSUME ResponseInv, NEW s \in Responses, S!BodyJson(s)
  PROVE  ResponseInv'
<1> DEFINE e == <<"body", "json", IF rb[s].head THEN "returned" ELSE "raised">>
           h == S!With(rb[s].headers, Type, "json")
           b == IF rb[s].head THEN [[rb[s] EXCEPT !.body = "json"] EXCEPT !.headers = h]
                              ELSE [rb[s] EXCEPT !.body = "json"]
<1>1. rb[s] # None /\ rb[s] \in S!ResponseBuilders
  BY DEF ResponseInv, ResponseTypes, S!BodyJson, S!Called
<1>2. /\ h \in [Keys -> Seq(S!Texts)]
      /\ h[Type] = After(rb[s].headers[Type], Adds(<<"json">>))
      /\ \A k \in Keys \ {Type}: h[k] = After(rb[s].headers[k], Adds(<<>>))
  <2>1. rb[s].headers \in [Keys -> Seq(S!Texts)] /\ "json" \in S!Texts /\ Type \in Keys
    BY <1>1, BuildersAssumption DEF S!ResponseBuilders, S!Texts
  <2>2. PICK old \in [Keys -> Seq(S!Texts)]: old = rb[s].headers
    BY <2>1
  <2> QED
    BY <2>1, <2>2, WithIs
<1>3. rb' = [rb EXCEPT ![s] = b] /\ slog' = [slog EXCEPT ![s] = Longer(slog[s], e)] /\ response' = response
  <2>1. [[rb[s] EXCEPT !.body = "json"] EXCEPT !.headers = S!With(@, Type, "json")]
          = [[rb[s] EXCEPT !.body = "json"] EXCEPT !.headers = h]
    BY <1>1 DEF S!ResponseBuilders
  <2> QED
    BY <2>1 DEF S!BodyJson, S!Called, Longer
<1> HIDE DEF h
<1>4. b \in S!ResponseBuilders
  <2>1. PICK old \in S!ResponseBuilders: old = rb[s]
    BY <1>1
  <2>2. [old EXCEPT !.body = "json"] \in S!ResponseBuilders
    BY DEF S!ResponseBuilders
  <2>3. [[old EXCEPT !.body = "json"] EXCEPT !.headers = h] \in S!ResponseBuilders
    BY <1>2, <2>2 DEF S!ResponseBuilders
  <2> QED
    BY <2>1, <2>2, <2>3
<1>5. Headed(e) /\ (e[1] # "build" \/ e[3] # "returned")
  BY DEF Headed
<1>6. b.head => rb[s].head /\ Answers(rb[s], e, b)
  <2>1. SUFFICES ASSUME rb[s].head PROVE Answers(rb[s], e, b)
    BY <1>1 DEF S!ResponseBuilders
  <2>2. ASSUME NEW k \in Keys PROVE b.headers[k] = After(rb[s].headers[k], JsonWord(e, k))
    <3>1. /\ k = Type => JsonWord(e, k) = Adds(<<"json">>)
          /\ k # Type => JsonWord(e, k) = Adds(<<>>)
      BY <2>1 DEF JsonWord, HeaderWord
    <3>2. b.headers[k] = h[k]
      BY <1>1, <2>1 DEF S!ResponseBuilders
    <3> HIDE DEF e, b
    <3> QED
      BY <1>2, <3>1, <3>2
  <2> QED
    BY <1>1, <2>1, <2>2 DEF Answers, S!ResponseBuilders
<1> HIDE DEF e, b
<1> QED
  BY <1>1, <1>3, <1>4, <1>5, <1>6, ResponseSet

LEMMA ResponseBuild ==
  ASSUME ResponseInv, NEW s \in Responses, NEW blocking \in BOOLEAN, NEW ok \in BOOLEAN,
         S!Build(s, blocking, ok)
  PROVE  ResponseInv'
<1> DEFINE taken == ~(blocking /\ rb[s].body = "async") /\ rb[s].head
           good == taken /\ ok
           e == <<"build", blocking, IF good THEN "returned" ELSE "raised">>
           b == [rb[s] EXCEPT !.body = "empty", !.head = @ /\ ~taken,
                              !.extensions = IF taken THEN None ELSE @]
           made == IF good THEN rb[s] ELSE response[s]
<1>1. rb[s] # None /\ rb[s] \in S!ResponseBuilders
  BY DEF ResponseInv, ResponseTypes, S!Build
<1>2. b \in S!ResponseBuilders
  <2>1. PICK old \in S!ResponseBuilders: old = rb[s]
    BY <1>1
  <2>2. PICK h \in BOOLEAN: h = (old.head /\ ~taken)
    OBVIOUS
  <2>3. PICK x \in Values \union {None}: x = IF taken THEN None ELSE old.extensions
    BY DEF S!ResponseBuilders
  <2> HIDE DEF taken
  <2>4. [old EXCEPT !.body = "empty", !.head = h, !.extensions = x] \in S!ResponseBuilders
    BY DEF S!ResponseBuilders
  <2>5. b = [old EXCEPT !.body = "empty", !.head = h, !.extensions = x]
    BY <2>1, <2>2, <2>3 DEF S!ResponseBuilders
  <2> QED
    BY <2>4, <2>5
<1>3. /\ rb' = [rb EXCEPT ![s] = b] /\ slog' = [slog EXCEPT ![s] = Longer(slog[s], e)]
      /\ response' = [response EXCEPT ![s] = made]
  <2>1. rb' = [rb EXCEPT ![s].body = "empty", ![s].head = @ /\ ~taken,
                         ![s].extensions = IF taken THEN None ELSE @]
    BY DEF S!Build
  <2>2. rb' = [rb EXCEPT ![s] = b]
    <3>1. rb \in [Responses -> {None} \union S!ResponseBuilders]
      BY DEF ResponseInv, ResponseTypes
    <3>2. PICK B: B = S!ResponseBuilders
      OBVIOUS
    <3>3. rb[s] \in B /\ rb \in [Responses -> {None} \union B]
      BY <1>1, <3>1, <3>2
    <3> HIDE DEF taken
    <3> QED
      BY <2>1, <3>3
  <2>3. slog' = [slog EXCEPT ![s] = Longer(slog[s], e)]
    BY DEF S!Build, Longer
  <2>4. response' = [response EXCEPT ![s] = made]
    <3>1. response = [response EXCEPT ![s] = response[s]]
      BY DEF ResponseInv, ResponseTypes
    <3> QED
      BY <3>1 DEF S!Build
  <2> QED
    BY <2>2, <2>3, <2>4
<1>4. Headed(e)
  BY DEF Headed
<1>5. \/ e[1] = "build" /\ e[3] = "returned" /\ rb[s].head /\ ~b.head /\ made = rb[s]
      \/ (e[1] # "build" \/ e[3] # "returned") /\ made = response[s]
  <2>1. CASE good
    <3>1. ~b.head
      BY <1>1, <2>1 DEF S!ResponseBuilders
    <3> QED
      BY <2>1, <3>1
  <2>2. CASE ~good
    BY <2>2
  <2> QED
    BY <2>1, <2>2
<1>6. b.head => rb[s].head /\ Answers(rb[s], e, b)
  <2>1. SUFFICES ASSUME b.head PROVE rb[s].head /\ Answers(rb[s], e, b)
    OBVIOUS
  <2>2. rb[s].head /\ ~taken
    BY <1>1, <2>1 DEF S!ResponseBuilders
  <2>3. ASSUME NEW k \in Keys PROVE b.headers[k] = After(rb[s].headers[k], JsonWord(e, k))
    <3>1. JsonWord(e, k) = Adds(<<>>)
      BY DEF JsonWord, HeaderWord
    <3>2. b.headers[k] = rb[s].headers[k] /\ rb[s].headers[k] \in Seq(S!Texts)
      BY <1>1 DEF S!ResponseBuilders
    <3> HIDE DEF e, b
    <3> QED
      BY <3>1, <3>2, AfterIs
  <2>4. e[1] = "build" /\ e[3] = "raised"
    BY <2>2
  <2>5. b.status = rb[s].status /\ b.extensions = rb[s].extensions /\ b.body = "empty"
    <3> HIDE DEF taken
    <3> QED
      BY <1>1, <2>2 DEF S!ResponseBuilders
  <2> HIDE DEF e, b
  <2> QED
    BY <2>2, <2>3, <2>4, <2>5 DEF Answers
<1> HIDE DEF e, b, made
<1> QED
  BY <1>1, <1>2, <1>3, <1>4, <1>5, <1>6, ResponseCalled

LEMMA NewResponseFits ==
  /\ [head |-> TRUE, status |-> 200, body |-> "empty", headers |-> [k \in Keys |-> <<>>],
      extensions |-> None] \in S!ResponseBuilders
  /\ S!Fits([head |-> TRUE, status |-> 200, body |-> "empty", headers |-> [k \in Keys |-> <<>>],
             extensions |-> None], <<>>)
<1>1. [k \in Keys |-> <<>>] \in [Keys -> Seq(S!Texts)]
  BY EmptySeq
<1>2. \A op, x: S!LastGiven(<<>>, op, x) = x
  BY EmptyLog, ResponseReads
<1>3. S!BodyGiven(<<>>) = "empty"
  BY DEF S!BodyGiven
<1>4. ASSUME NEW k \in Keys PROVE S!ValuesGiven(<<>>, k) = <<>>
  <2>1. [i \in DOMAIN <<>> |-> JsonWord(<<>>[i], k)] = <<>>
    OBVIOUS
  <2>2. S!ValuesGiven(<<>>, k) = Told(<<>>)
    BY <2>1, ResponseReads DEF S!ValuesGiven, JsonWord
  <2>3. <<>> \in Seq(Words({})) /\ Len(<<>>) = 0
    BY EmptySeq
  <2>4. PICK g \in [0..0 -> Seq({})]: Runs(<<>>, g) /\ Told(<<>>) = g[0]
    BY <2>3, ToldIs
  <2> QED
    BY <2>2, <2>4 DEF Runs
<1> QED
  BY <1>1, <1>2, <1>3, <1>4 DEF S!ResponseBuilders, S!Fits

(* A builder begins with an empty history or with that of another one.      *)
LEMMA ResponseMade ==
  ASSUME ResponseInv, NEW s \in Responses, rb[s] = None, NEW b \in S!ResponseBuilders, NEW log,
         IsLog(log), \A i \in DOMAIN log: Headed(log[i]), Returned(log, "build") = {}, S!Fits(b, log),
         rb' = [rb EXCEPT ![s] = b], slog' = [slog EXCEPT ![s] = log], response' = response
  PROVE  ResponseInv'
<1>1. /\ rb \in [Responses -> {None} \union S!ResponseBuilders]
      /\ response = [t \in Responses |-> response[t]] /\ slog = [t \in Responses |-> slog[t]]
      /\ \A t \in Responses: IsLog(slog[t]) /\ \A i \in DOMAIN slog[t]: Headed(slog[t][i])
  BY DEF ResponseInv, ResponseTypes
<1>2. /\ rb'[s] = b /\ \A t \in Responses \ {s}: rb'[t] = rb[t]
      /\ slog'[s] = log /\ \A t \in Responses \ {s}: slog'[t] = slog[t]
      /\ slog' = [t \in Responses |-> slog'[t]]
  BY <1>1
<1>3. ResponseTypes'
  <2>1. rb' \in [Responses -> {None} \union S!ResponseBuilders]
    BY <1>1
  <2>2. \A t \in Responses: IsLog(slog'[t]) /\ \A i \in DOMAIN slog'[t]: Headed(slog'[t][i])
    BY <1>1, <1>2
  <2> QED
    BY <1>1, <1>2, <2>1, <2>2 DEF ResponseTypes, S!ResponseBuilders, S!Texts, S!TextsIn, Headed
<1>4. ResponseBuilt(s)'
  <2>1. response[s] = None /\ b # None
    BY BuildersAssumption DEF ResponseInv, ResponseBuilt
  <2> QED
    BY <1>2, <2>1 DEF ResponseBuilt
<1>5. ASSUME NEW t \in Responses \ {s} PROVE ResponseBuilt(t)'
  <2>1. rb'[t] = rb[t] /\ response'[t] = response[t] /\ slog'[t] = slog[t]
    BY <1>2
  <2>2. ResponseBuilt(t)
    BY DEF ResponseInv
  <2> QED
    BY <2>1, <2>2, ResponseFrame
<1> QED
  BY <1>3, <1>4, <1>5 DEF ResponseInv

LEMMA ResponseNew ==
  ASSUME ResponseInv, NEW s \in Responses, S!New(s)
  PROVE  ResponseInv'
<1> DEFINE b == [head |-> TRUE, status |-> 200, body |-> "empty", headers |-> [k \in Keys |-> <<>>],
                 extensions |-> None]
<1>1. /\ rb[s] = None /\ rb' = [rb EXCEPT ![s] = b] /\ response' = response /\ slog' = slog
  BY DEF S!New
<1>2. slog = [slog EXCEPT ![s] = <<>>]
  BY <1>1 DEF ResponseInv, ResponseTypes, ResponseBuilt
<1>3. b \in S!ResponseBuilders /\ S!Fits(b, <<>>)
  BY NewResponseFits
<1>4. \A i \in DOMAIN <<>>: Headed(<<>>[i])
  OBVIOUS
<1> HIDE DEF b
<1> QED
  BY <1>1, <1>2, <1>3, <1>4, EmptyLog, ResponseMade

LEMMA ResponseCopy ==
  ASSUME ResponseInv, NEW s \in Responses, NEW o \in Responses, S!Copy(s, o)
  PROVE  ResponseInv'
<1>1. /\ rb[s] = None /\ rb[o] # None /\ rb[o].head
      /\ rb' = [rb EXCEPT ![s] = rb[o]] /\ slog' = [slog EXCEPT ![s] = slog[o]] /\ response' = response
  BY DEF S!Copy
<1>2. /\ rb[o] \in S!ResponseBuilders /\ IsLog(slog[o]) /\ \A i \in DOMAIN slog[o]: Headed(slog[o][i])
      /\ Returned(slog[o], "build") = {} /\ S!Fits(rb[o], slog[o])
  BY <1>1 DEF ResponseInv, ResponseTypes, ResponseBuilt
<1> QED
  BY <1>1, <1>2, ResponseMade

LEMMA ResponseKept ==
  ASSUME ResponseInv, NEW s \in Responses, S!ResponseNext(s)
  PROVE  ResponseInv'
BY ResponseNew, ResponseCopy, ResponseStatus, ResponseHeader, ResponseHeaders, ResponseExtensions,
   ResponseBody, ResponseBodyJson, ResponseBuild DEF S!ResponseNext

LEMMA ResponseUntouched ==
  ASSUME ResponseInv, UNCHANGED responseVars
  PROVE  ResponseInv'
<1>1. rb' = rb /\ response' = response /\ slog' = slog
  BY DEF responseVars
<1>2. ResponseTypes'
  BY <1>1 DEF ResponseInv, ResponseTypes, S!ResponseBuilders, S!Texts, S!TextsIn, Headed
<1> QED
  BY <1>1, <1>2 DEF ResponseInv, ResponseBuilt

LEMMA ResponseBegins ==
  ASSUME S!SInit
  PROVE  ResponseInv
<1>1. ResponseTypes
  BY EmptyLog DEF S!SInit, ResponseTypes
<1>2. ASSUME NEW s \in Responses PROVE ResponseBuilt(s)
  BY DEF S!SInit, ResponseBuilt
<1> QED
  BY <1>1, <1>2 DEF ResponseInv

LEMMA ResponsesFit ==
  ASSUME ResponseInv
  PROVE  S!ResponseAsAsked
<1> SUFFICES ASSUME NEW s \in Responses, response[s] # None
             PROVE  S!Fits(response[s], S!Before(slog[s])) /\ ~rb[s].head
  BY DEF S!ResponseAsAsked
<1>1. PICK n \in 1..Len(slog[s]): Returned(slog[s], "build") = {n} /\ S!Fits(response[s], SubSeq(slog[s], 1, n))
  BY DEF ResponseInv, ResponseBuilt
<1>2. Len(slog[s]) \in Nat
  BY LogAppend DEF ResponseInv, ResponseTypes
<1>3. Max({n}) = n
  <2>1. {n} \in SUBSET (1..Len(slog[s])) /\ {n} # {}
    BY <1>1
  <2> QED
    BY <1>2, <2>1, MaxIs
<1>4. S!Before(slog[s]) = SubSeq(slog[s], 1, n)
  BY <1>1, <1>3, ResponseReads DEF S!Before
<1>5. ~rb[s].head
  BY DEF ResponseInv, ResponseBuilt
<1> QED
  BY <1>1, <1>4, <1>5
-----------------------------------------------------------------------------
(* Requests. *)
LEMMA RequestReads ==
  /\ \A log, op: Q!Returned(log, op) = Returned(log, op)
  /\ \A log, T, x: Q!LastOf(log, T, x) = LastOf(log, T, x)
  /\ \A log, op, x: Q!LastGiven(log, op, x) = LastGiven(log, op, x)
  /\ \A log, op: Q!Arguments(log, op) = Arguments(log, op)
  /\ \A s: Q!FlattenSeq(s) = FlattenSeq(s)
  /\ \A words: Q!Told(words) = Told(words)
  /\ \A e, k: Q!HeaderWord(e, k) = HeaderWord(e, k)
<1>1. \A s: Q!Max(s) = Max(s)
  BY DEF Q!Max, Max
<1>2. \A log, op: Q!Returned(log, op) = Returned(log, op)
  BY DEF Q!Returned, Returned
<1>3. \A log, T, x: Q!LastOf(log, T, x) = LastOf(log, T, x)
  BY <1>1 DEF Q!LastOf, LastOf
<1>4. \A words: Q!Told(words) = Told(words)
  BY DEF Q!Told, Told, Q!FoldLeft, FoldLeft, Q!MapThenFoldSet, MapThenFoldSet, Q!Max, Max
<1>5. \A v: Q!Adds(v) = Adds(v) /\ Q!Begins(v) = Begins(v)
  BY DEF Q!Adds, Adds, Q!Begins, Begins
<1>6. \A e, k: Q!HeaderWord(e, k) = HeaderWord(e, k)
  BY <1>5 DEF Q!HeaderWord, HeaderWord
<1>7. \A log, op, x: Q!LastGiven(log, op, x) = LastGiven(log, op, x)
  BY <1>2, <1>3 DEF Q!LastGiven, LastGiven
<1>8. \A s: Q!FlattenSeq(s) = FlattenSeq(s)
  BY DEF Q!FlattenSeq, FlattenSeq
<1>9. \A log, op: Q!Arguments(log, op) = Arguments(log, op)
  BY <1>2, <1>8 DEF Q!Arguments, Arguments
<1> QED
  BY <1>2, <1>3, <1>4, <1>6, <1>7, <1>8, <1>9

LEMMA AskedAppend ==
  ASSUME NEW log, IsLog(log), \A i \in DOMAIN log: Headed(log[i]), NEW e, Headed(e), NEW k \in Keys
  PROVE  /\ Q!Asked(log, k) \in Seq(Q!Texts)
         /\ Q!Asked(Longer(log, e), k) = After(Q!Asked(log, k), HeaderWord(e, k))
<1> DEFINE n == Len(log)
           long == Longer(log, e)
           words == [i \in DOMAIN log |-> HeaderWord(log[i], k)]
           grown == [i \in DOMAIN long |-> HeaderWord(long[i], k)]
<1>1. \A l: Q!Asked(l, k) = Told([i \in DOMAIN l |-> HeaderWord(l[i], k)])
  BY RequestReads DEF Q!Asked
<1>2. /\ n \in Nat /\ DOMAIN log = 1..n /\ DOMAIN long = 1..(n + 1) /\ long[n + 1] = e
      /\ \A i \in 1..n: long[i] = log[i]
  BY LogAppend
<1>3. ASSUME NEW d, Headed(d) PROVE HeaderWord(d, k) \in Words(Q!Texts)
  BY <1>3, HeaderWordIs DEF Q!Texts, Q!TextsIn, C!TextsIn
<1>4. \A i \in 1..(n + 1): Headed(long[i])
  BY <1>2
<1> HIDE DEF long
<1>5. /\ words \in [1..n -> Words(Q!Texts)] /\ grown \in [1..(n + 1) -> Words(Q!Texts)]
      /\ \A i \in 1..n: grown[i] = words[i]
      /\ grown[n + 1] = HeaderWord(e, k)
  BY <1>2, <1>3, <1>4
<1> HIDE DEF words, grown
<1>6. Told(words) \in Seq(Q!Texts) /\ Told(grown) = After(Told(words), grown[n + 1])
  BY <1>2, <1>5, ToldGrows
<1> QED
  BY <1>1, <1>5, <1>6 DEF words, grown, long

(* What a form is given by, and the content type that it leaves.            *)
IsForm(e) == e[1] \in {"form", "multipart"} /\ e[3] = "returned"

LEMMA FormsAppend ==
  ASSUME NEW log, IsLog(log), NEW e
  PROVE  /\ Q!FormsGiven(log) \in SUBSET (1..Len(log))
         /\ ~IsForm(e) => Q!FormsGiven(Longer(log, e)) = Q!FormsGiven(log)
         /\ IsForm(e) => Q!FormsGiven(Longer(log, e)) = Later(log, Q!FormsGiven(log))
<1>1. \A l: Q!FormsGiven(l) = Returned(l, "form") \union Returned(l, "multipart")
  BY RequestReads DEF Q!FormsGiven
<1>2. PICK n, long: n = Len(log) + 1 /\ long = Longer(log, e)
  OBVIOUS
<1>3. Returned(log, "form") \in SUBSET (1..Len(log)) /\ Returned(log, "multipart") \in SUBSET (1..Len(log))
  BY ReturnedAppend
<1>4. /\ e[1] # "form" \/ e[3] # "returned" => Returned(long, "form") = Returned(log, "form")
      /\ e[1] = "form" /\ e[3] = "returned" => Returned(long, "form") = Later(log, Returned(log, "form"))
  BY <1>2, ReturnedAppend
<1>5. /\ e[1] # "multipart" \/ e[3] # "returned" => Returned(long, "multipart") = Returned(log, "multipart")
      /\ e[1] = "multipart" /\ e[3] = "returned" =>
           Returned(long, "multipart") = Later(log, Returned(log, "multipart"))
  BY <1>2, ReturnedAppend
<1>6. ~IsForm(e) => Q!FormsGiven(long) = Q!FormsGiven(log)
  BY <1>1, <1>4, <1>5 DEF IsForm
<1>7. ASSUME IsForm(e) PROVE Q!FormsGiven(long) = Later(log, Q!FormsGiven(log))
  <2>1. CASE e[1] = "form" /\ e[3] = "returned"
    <3>1. Returned(long, "form") = Later(log, Returned(log, "form"))
          /\ Returned(long, "multipart") = Returned(log, "multipart")
      BY <1>4, <1>5, <2>1
    <3> QED
      BY <1>1, <3>1 DEF Later
  <2>2. CASE e[1] = "multipart" /\ e[3] = "returned"
    <3>1. Returned(long, "multipart") = Later(log, Returned(log, "multipart"))
          /\ Returned(long, "form") = Returned(log, "form")
      BY <1>4, <1>5, <2>2
    <3> QED
      BY <1>1, <3>1 DEF Later
  <2> QED
    BY <1>7, <2>1, <2>2 DEF IsForm
<1>8. Q!FormsGiven(log) \in SUBSET (1..Len(log))
  BY <1>1, <1>3
<1> QED
  BY <1>2, <1>6, <1>7, <1>8

FormAt(log, i) ==
  CASE i \in Returned(log, "multipart") -> <<"multipart">>
    [] i \in Returned(log, "form") /\ Q!FormsGiven(log) \intersect 1..(i - 1) = {} -> <<"urlencoded">>
    [] OTHER -> <<>>

FormPiece(log, e) ==
  CASE e[1] = "multipart" /\ e[3] = "returned" -> <<"multipart">>
    [] e[1] = "form" /\ e[3] = "returned" /\ Q!FormsGiven(log) = {} -> <<"urlencoded">>
    [] OTHER -> <<>>

LEMMA FormTypeAppend ==
  ASSUME NEW log, IsLog(log), NEW e
  PROVE  /\ Q!FormType(log) \in Seq({"urlencoded", "multipart"})
         /\ Q!FormType(Longer(log, e)) = Q!FormType(log) \o FormPiece(log, e)
<1> DEFINE n == Len(log)
           long == Longer(log, e)
           K == {"urlencoded", "multipart"}
           pieces == [i \in DOMAIN log |-> FormAt(log, i)]
           grown == [i \in DOMAIN long |-> FormAt(long, i)]
<1>1. \A l: Q!FormType(l) = FlattenSeq([i \in DOMAIN l |-> FormAt(l, i)])
  BY RequestReads DEF Q!FormType, FormAt
<1>2. /\ n \in Nat /\ DOMAIN log = 1..n /\ DOMAIN long = 1..(n + 1) /\ long[n + 1] = e
      /\ \A i \in 1..n: long[i] = log[i]
  BY LogAppend
<1> HIDE DEF long
<1>3. \A l, i: FormAt(l, i) \in Seq(K)
  <2>1. <<"multipart">> \in Seq(K) /\ <<"urlencoded">> \in Seq(K) /\ <<>> \in Seq(K)
    OBVIOUS
  <2> HIDE DEF K
  <2> QED
    BY <2>1 DEF FormAt
<1>4. Q!FormsGiven(log) \in SUBSET (1..n)
      /\ (Q!FormsGiven(long) = Q!FormsGiven(log) \/ Q!FormsGiven(long) = Q!FormsGiven(log) \union {n + 1})
  BY FormsAppend DEF long, Later
<1>5. ASSUME NEW i \in 1..n PROVE FormAt(long, i) = FormAt(log, i)
  <2>1. \A op: i \in Returned(long, op) <=> i \in Returned(log, op)
    BY <1>2 DEF Returned
  <2>2. Q!FormsGiven(long) \intersect 1..(i - 1) = Q!FormsGiven(log) \intersect 1..(i - 1)
    BY <1>2, <1>4
  <2> QED
    BY <2>1, <2>2 DEF FormAt
<1>6. FormAt(long, n + 1) = FormPiece(log, e)
  <2>1. \A op: n + 1 \in Returned(long, op) <=> e[1] = op /\ e[3] = "returned"
    BY <1>2 DEF Returned
  <2>2. Q!FormsGiven(long) \intersect 1..((n + 1) - 1) = Q!FormsGiven(log)
    BY <1>2, <1>4
  <2> QED
    BY <2>1, <2>2 DEF FormAt, FormPiece
<1>7. /\ pieces \in Seq(Seq(K)) /\ Len(pieces) = n /\ grown \in Seq(Seq(K)) /\ Len(grown) = n + 1
      /\ \A i \in 1..n: grown[i] = pieces[i]
      /\ grown[n + 1] = FormPiece(log, e)
  <2>1. pieces \in [1..n -> Seq(K)] /\ grown \in [1..(n + 1) -> Seq(K)]
    <3> HIDE DEF K
    <3> QED
      BY <1>2, <1>3
  <2>2. /\ \A i \in 1..n: grown[i] = pieces[i]
        /\ grown[n + 1] = FormPiece(log, e)
    BY <1>2, <1>5, <1>6
  <2> HIDE DEF pieces, grown, K
  <2>3. pieces \in Seq(Seq(K)) /\ Len(pieces) = n
    BY <1>2, <2>1
  <2>4. grown \in Seq(Seq(K)) /\ Len(grown) = n + 1
    BY <1>2, <2>1
  <2> QED
    BY <2>2, <2>3, <2>4
<1>8. PICK piece \in Seq(K): piece = FormPiece(log, e)
  BY <1>3, <1>6
<1> HIDE DEF pieces, grown, K
<1>9. grown = Append(pieces, piece)
  <2>1. PICK more \in Seq(Seq(K)): more = Append(pieces, piece)
    BY <1>7, AppendProperties
  <2>2. Len(more) = n + 1 /\ more[n + 1] = piece /\ \A i \in 1..n: more[i] = pieces[i]
    BY <1>7, <2>1, AppendProperties
  <2>3. ASSUME NEW i \in 1..(n + 1) PROVE more[i] = grown[i]
    <3>1. CASE i = n + 1
      BY <1>7, <1>8, <2>2, <3>1
    <3>2. CASE i \in 1..n
      BY <1>7, <2>2, <3>2
    <3> QED
      BY <1>2, <3>1, <3>2
  <2>4. more = grown
    <3>1. n \in Nat /\ grown \in Seq(Seq(K)) /\ Len(grown) = n + 1
      BY <1>2, <1>7
    <3> QED
      BY <2>2, <2>3, <3>1
  <2> QED
    BY <2>1, <2>4
<1>10. FlattenSeq(pieces) \in Seq(K) /\ FlattenSeq(grown) = FlattenSeq(pieces) \o piece
  BY <1>7, <1>9, FlattenAppend
<1> QED
  BY <1>1, <1>8, <1>10 DEF pieces, grown, long, K

(* Builder b2 is b after the call e, a call that returned or one that leaves *)
(* the builder as it was.                                                    *)
Extends(b, log, e, b2) ==
  LET given(op) == e[1] = op /\ e[3] = "returned" IN
  /\ b2.option = IF given("option") THEN e[2] ELSE b.option
  /\ b2.native = IF given("native") /\ b.native # Bad THEN e[2] ELSE b.native
  /\ b2.body = IF given("body") THEN e[2] ELSE b.body
  /\ b2.form = IF IsForm(e) THEN e[2] ELSE b.form
  /\ b2.type = b.type \o FormPiece(log, e)
  /\ b2.middlewares = IF given("middleware") THEN Append(b.middlewares, e[2]) ELSE b.middlewares
  /\ \A k \in Keys: /\ b2.own[k] = After(b.own[k], HeaderWord(e, k))
                    /\ b2.defaults[k] = IF b2.own[k] = <<>> THEN b.defaults[k] ELSE <<>>

(* A builder that is what its calls made of the settings of its client.     *)
Keeps(b, log) ==
  LET origin == Head(log)[2] IN
  /\ b.option = LastGiven(log, "option", origin.option)
  /\ b.native = Bad \/ b.native = LastGiven(log, "native", None)
  /\ b.body = LastGiven(log, "body", None)
  /\ b.form = LastOf(log, Q!FormsGiven(log), None)
  /\ b.type = Q!FormType(log)
  /\ b.type = <<>> <=> Q!FormsGiven(log) = {}
  /\ b.middlewares = origin.middlewares \o Arguments(log, "middleware")
  /\ \A k \in Keys: /\ b.own[k] = Q!Asked(log, k)
                    /\ b.defaults[k] = IF b.own[k] = <<>> THEN origin.defaults[k] ELSE <<>>

LEMMA AppendOut ==
  ASSUME NEW A, NEW B, NEW a \in Seq(A), NEW b \in Seq(B), NEW x
  PROVE  Append(a \o b, x) = a \o Append(b, x)
<1> DEFINE T == A \union B \union {x}
<1>1. a \in Seq(T) /\ b \in Seq(T) /\ x \in T
  OBVIOUS
<1> HIDE DEF T
<1>2. <<x>> \in Seq(T)
  BY <1>1
<1>3. (a \o b) \o <<x>> = a \o (b \o <<x>>)
  BY <1>1, <1>2, ConcatAssociative
<1>4. Append(b, x) = b \o <<x>>
  BY <1>1, AppendIsConcat
<1>5. Append(a \o b, x) = (a \o b) \o <<x>>
  <2>1. a \o b \in Seq(T)
    BY <1>1, ConcatProperties
  <2> QED
    BY <1>1, <2>1, AppendIsConcat
<1> QED
  BY <1>3, <1>4, <1>5

LEMMA HeadStays ==
  ASSUME NEW log, IsLog(log), log # <<>>, NEW e
  PROVE  Longer(log, e) # <<>> /\ Head(Longer(log, e)) = Head(log)
<1>1. PICK long: long = Longer(log, e)
  OBVIOUS
<1>2. Len(log) \in Nat /\ Len(log) # 0
  BY DEF IsLog
<1>3. /\ Len(long) = Len(log) + 1 /\ IsLog(long)
      /\ \A i \in 1..Len(log): long[i] = log[i]
  BY <1>1, LogAppend
<1>4. long[1] = log[1] /\ long # <<>>
  BY <1>2, <1>3
<1>5. Head(long) = long[1] /\ Head(log) = log[1]
  BY <1>3 DEF IsLog
<1> QED
  BY <1>1, <1>4, <1>5

LEMMA KeepsAppend ==
  ASSUME NEW log, IsLog(log), log # <<>>, \A i \in DOMAIN log: Headed(log[i]), NEW e, Headed(e),
         Head(log)[2] \in C!ClientBuilders,
         NEW b \in Q!RequestBuilders, NEW b2, Keeps(b, log), Extends(b, log, e, b2)
  PROVE  Keeps(b2, Longer(log, e))
<1> DEFINE long == Longer(log, e)
           origin == Head(log)[2]
<1>1. Head(long)[2] = origin
  BY HeadStays
<1>2. \A op, x: /\ e[1] # op \/ e[3] # "returned" => LastGiven(long, op, x) = LastGiven(log, op, x)
                /\ e[1] = op /\ e[3] = "returned" => LastGiven(long, op, x) = e[2]
  <2>1. ASSUME NEW op, NEW x
        PROVE  /\ e[1] # op \/ e[3] # "returned" => LastGiven(long, op, x) = LastGiven(log, op, x)
               /\ e[1] = op /\ e[3] = "returned" => LastGiven(long, op, x) = e[2]
    BY LastGivenAppend
  <2> QED
    BY <2>1
<1>3. b2.option = LastGiven(long, "option", origin.option)
  <2> HIDE DEF long, origin
  <2> QED
    BY <1>2 DEF Keeps, Extends, origin
<1>4. b2.native = Bad \/ b2.native = LastGiven(long, "native", None)
  <2> HIDE DEF long
  <2> QED
    BY <1>2 DEF Keeps, Extends
<1>5. b2.body = LastGiven(long, "body", None)
  <2> HIDE DEF long
  <2> QED
    BY <1>2 DEF Keeps, Extends
<1>6. b2.form = LastOf(long, Q!FormsGiven(long), None)
  <2>1. PICK T \in SUBSET (1..Len(log)): T = Q!FormsGiven(log)
    BY FormsAppend
  <2>2. LastOf(long, T, None) = LastOf(log, T, None)
    BY <2>1, LastOfKept
  <2>6. LastOf(long, Later(log, T), None) = e[2]
    BY <2>1, LastOfNext
  <2>3. b.form = LastOf(log, T, None)
    BY <2>1 DEF Keeps
  <2>4. b2.form = IF IsForm(e) THEN e[2] ELSE b.form
    BY DEF Extends
  <2>5. /\ ~IsForm(e) => Q!FormsGiven(long) = T
        /\ IsForm(e) => Q!FormsGiven(long) = Later(log, T)
    BY <2>1, FormsAppend
  <2> HIDE DEF long
  <2> QED
    BY <2>2, <2>3, <2>4, <2>5, <2>6
<1>7. b2.type = Q!FormType(long)
  BY FormTypeAppend DEF Keeps, Extends
<1>8. b2.type = <<>> <=> Q!FormsGiven(long) = {}
  <2>1. /\ ~IsForm(e) => Q!FormsGiven(long) = Q!FormsGiven(log)
        /\ IsForm(e) => Q!FormsGiven(long) # {}
    BY FormsAppend DEF Later
  <2>2. b.type \in Seq({"urlencoded", "multipart"}) /\ (b.type = <<>> <=> Q!FormsGiven(log) = {})
    BY DEF Q!RequestBuilders, Keeps
  <2>3. PICK piece: piece = FormPiece(log, e)
    OBVIOUS
  <2>4. b2.type = b.type \o piece
    BY <2>3 DEF Extends
  <2>5. CASE ~IsForm(e)
    <3>1. piece = <<>>
      BY <2>3, <2>5 DEF FormPiece, IsForm
    <3>2. b2.type = b.type
      BY <2>2, <2>4, <3>1
    <3> QED
      BY <2>1, <2>2, <2>5, <3>2
  <2>6. CASE IsForm(e)
    <3>1. piece \in {<<"multipart">>, <<"urlencoded">>} \/ (piece = <<>> /\ Q!FormsGiven(log) # {})
      BY <2>3, <2>6 DEF FormPiece, IsForm
    <3>2. b.type \o piece # <<>>
      <4>1. CASE piece \in {<<"multipart">>, <<"urlencoded">>}
        <5>1. PICK t \in Seq({"urlencoded", "multipart"}): t = b.type
          BY <2>2
        <5>2. \A x: Len(t \o <<x>>) = Len(t) + 1 /\ Len(t) \in Nat
          BY <5>1
        <5>3. \A x: t \o <<x>> # <<>>
          BY <5>2
        <5> QED
          BY <4>1, <5>1, <5>3
      <4>2. CASE piece = <<>> /\ Q!FormsGiven(log) # {}
        BY <2>2, <4>2
      <4> QED
        BY <3>1, <4>1, <4>2
    <3> QED
      BY <2>1, <2>4, <2>6, <3>2
  <2> QED
    BY <2>5, <2>6
<1>9. b2.middlewares = origin.middlewares \o Arguments(long, "middleware")
  <2>1. PICK given: given = Arguments(log, "middleware")
    OBVIOUS
  <2>2. PICK R: given \in Seq(R)
    BY <2>1, ArgumentsAppend
  <2>3. PICK m: m = origin.middlewares /\ m \in Seq(Middlewares)
    BY DEF C!ClientBuilders
  <2>4. b.middlewares = m \o given
    BY <2>1, <2>3 DEF Keeps
  <2>5. CASE e[1] = "middleware" /\ e[3] = "returned"
    <3>1. Arguments(long, "middleware") = Append(given, e[2])
      BY <2>1, <2>5, ArgumentsAppend
    <3>2. b2.middlewares = Append(b.middlewares, e[2])
      BY <2>5 DEF Extends
    <3>3. PICK x: x = e[2]
      OBVIOUS
    <3>4. Append(m \o given, x) = m \o Append(given, x)
      <4>1. m \in Seq(Middlewares)
        BY <2>3
      <4> QED
        BY <2>2, <4>1, AppendOut
    <3> HIDE DEF long, origin
    <3> QED
      BY <2>3, <2>4, <3>1, <3>2, <3>3, <3>4
  <2>6. CASE e[1] # "middleware" \/ e[3] # "returned"
    <3>1. Arguments(long, "middleware") = given
      BY <2>1, <2>6, ArgumentsAppend
    <3>2. b2.middlewares = b.middlewares
      BY <2>6 DEF Extends
    <3> HIDE DEF long, origin
    <3> QED
      BY <2>3, <2>4, <3>1, <3>2
  <2> QED
    BY <2>5, <2>6
<1>10. ASSUME NEW k \in Keys
       PROVE  /\ b2.own[k] = Q!Asked(long, k)
              /\ b2.defaults[k] = IF b2.own[k] = <<>> THEN origin.defaults[k] ELSE <<>>
  <2>1. b.own[k] = Q!Asked(log, k) /\ b2.own[k] = After(b.own[k], HeaderWord(e, k))
        /\ b.own[k] \in Seq(Q!Texts)
    BY DEF Keeps, Extends, Q!RequestBuilders
  <2>2. b2.own[k] = Q!Asked(long, k)
    BY <2>1, AskedAppend
  <2>3. b.own[k] # <<>> => b2.own[k] # <<>>
    <3>1. PICK w: w = HeaderWord(e, k) /\ w \in Words(Q!Texts)
      BY HeaderWordIs DEF Q!Texts, Q!TextsIn, C!TextsIn
    <3>2. w.anew => w.values # <<>>
      BY <3>1 DEF HeaderWord, Adds, Begins
    <3>3. PICK old \in Seq(Q!Texts): old = b.own[k]
      BY <2>1
    <3>4. old # <<>> => old \o w.values # <<>>
      <4>1. w.values \in Seq(Q!Texts)
        BY <3>1 DEF Words
      <4> QED
        BY <4>1
    <3> QED
      BY <2>1, <3>1, <3>2, <3>3, <3>4 DEF After
  <2>4. b2.defaults[k] = IF b2.own[k] = <<>> THEN b.defaults[k] ELSE <<>>
    BY DEF Extends
  <2>5. b.own[k] = <<>> => b.defaults[k] = origin.defaults[k]
    BY DEF Keeps
  <2> HIDE DEF long, origin
  <2> QED
    BY <2>2, <2>3, <2>4, <2>5
<1>11. long = Longer(log, e)
  OBVIOUS
<1> HIDE DEF long, origin
<1> QED
  BY <1>1, <1>3, <1>4, <1>5, <1>6, <1>7, <1>8, <1>9, <1>10, <1>11 DEF Keeps

(* A call that raised, or a build, asks for nothing more. *)
LEMMA RequestIdle ==
  ASSUME NEW log, IsLog(log), log # <<>>, \A i \in DOMAIN log: Headed(log[i]), NEW e, Headed(e),
         e[3] = "raised" \/ e[1] = "build", NEW made, Q!Fits(made, log)
  PROVE  Q!Fits(made, Longer(log, e))
<1>1. PICK long: long = Longer(log, e)
  OBVIOUS
<1>2. Head(long) = Head(log)
  BY <1>1, HeadStays
<1>3. ASSUME NEW op, op # "build", NEW x PROVE Q!LastGiven(long, op, x) = Q!LastGiven(log, op, x)
  BY <1>1, <1>3, LastGivenAppend, RequestReads
<1>4. /\ Q!FormsGiven(long) = Q!FormsGiven(log)
      /\ Q!LastOf(long, Q!FormsGiven(long), None) = Q!LastOf(log, Q!FormsGiven(log), None)
  <2>1. ~IsForm(e)
    BY DEF IsForm
  <2>2. PICK T \in SUBSET (1..Len(log)): T = Q!FormsGiven(log)
    BY FormsAppend
  <2>3. Q!FormsGiven(long) = T
    BY <1>1, <2>1, <2>2, FormsAppend
  <2>4. LastOf(long, T, None) = LastOf(log, T, None)
    BY <1>1, LastOfKept
  <2> QED
    BY <2>2, <2>3, <2>4, RequestReads
<1>5. Q!FormType(long) = Q!FormType(log)
  <2>1. FormPiece(log, e) = <<>>
    BY DEF FormPiece
  <2>2. PICK t \in Seq({"urlencoded", "multipart"}): t = Q!FormType(log)
    BY FormTypeAppend
  <2>3. t \o <<>> = t
    OBVIOUS
  <2> QED
    BY <1>1, <2>1, <2>2, <2>3, FormTypeAppend
<1>6. Q!Arguments(long, "middleware") = Q!Arguments(log, "middleware")
  BY <1>1, ArgumentsAppend, RequestReads
<1>7. ASSUME NEW k \in Keys PROVE Q!Asked(long, k) = Q!Asked(log, k)
  <2>1. HeaderWord(e, k) = Adds(<<>>)
    BY DEF HeaderWord
  <2>2. PICK v \in Seq(Q!Texts): v = Q!Asked(log, k)
    BY AskedAppend
  <2> QED
    BY <1>1, <2>1, <2>2, AskedAppend, AfterIs
<1>8. Q!Fits(made, long)
  <2>1. PICK first: first = Head(log) /\ first = Head(long)
    BY <1>2
  <2>2. /\ \A x: /\ Q!LastGiven(long, "option", x) = Q!LastGiven(log, "option", x)
                 /\ Q!LastGiven(long, "native", x) = Q!LastGiven(log, "native", x)
                 /\ Q!LastGiven(long, "body", x) = Q!LastGiven(log, "body", x)
    BY <1>3
  <2> QED
    BY <1>4, <1>5, <1>6, <1>7, <2>1, <2>2 DEF Q!Fits
<1> QED
  BY <1>1, <1>8

(* What a build hands over is what the history asks for. *)
LEMMA BuildFits ==
  ASSUME NEW log, NEW b \in Q!RequestBuilders, Keeps(b, log), b.native # Bad,
         b.form = None \/ b.body = None
  PROVE  Q!Fits([headers |-> Q!Drained(b), body |-> b.body, form |-> b.form, option |-> b.option,
                 native |-> b.native, middlewares |-> b.middlewares], log)
<1> DEFINE made == [headers |-> Q!Drained(b), body |-> b.body, form |-> b.form, option |-> b.option,
                    native |-> b.native, middlewares |-> b.middlewares]
           origin == Head(log)[2]
<1>1. ASSUME NEW k \in Keys
      PROVE  Q!Drained(b)[k] = IF k = Type /\ b.body = "json" THEN <<"json">>
                               ELSE IF b.own[k] # <<>> THEN b.own[k]
                               ELSE IF b.defaults[k] # <<>> THEN b.defaults[k]
                               ELSE IF k = Type THEN b.type ELSE <<>>
  <2> DEFINE native == [Q!NoFields EXCEPT ![Type] = b.type]
             h == Q!Extended(Q!Extended(native, b.defaults), b.own)
  <2>1. DOMAIN b.defaults = Keys /\ DOMAIN b.own = Keys
    BY DEF Q!RequestBuilders
  <2>2. DOMAIN native = Keys /\ native[k] = IF k = Type THEN b.type ELSE <<>>
    BY DEF Q!NoFields
  <2> HIDE DEF native
  <2>3. DOMAIN h = Keys /\ h[k] = IF b.own[k] # <<>> THEN b.own[k]
                                  ELSE IF b.defaults[k] # <<>> THEN b.defaults[k] ELSE native[k]
    BY <2>1, <2>2 DEF Q!Extended, Q!Present
  <2>4. Q!Drained(b) = IF b.body = "json" THEN [h EXCEPT ![Type] = <<"json">>] ELSE h
    BY DEF Q!Drained, native
  <2> HIDE DEF h
  <2> QED
    BY <2>2, <2>3, <2>4
<1>2. ASSUME NEW k \in Keys
      PROVE  /\ b.own[k] = Q!Asked(log, k)
             /\ b.defaults[k] = IF b.own[k] = <<>> THEN origin.defaults[k] ELSE <<>>
  BY DEF Keeps
<1>3. b.type = Q!FormType(log)
  BY DEF Keeps
<1>4. \A k \in Keys: made.headers[k] =
        IF k = Type /\ made.body = "json" THEN <<"json">>
        ELSE IF Q!Asked(log, k) # <<>> THEN Q!Asked(log, k)
        ELSE IF origin.defaults[k] # <<>> THEN origin.defaults[k]
        ELSE IF k = Type THEN Q!FormType(log) ELSE <<>>
  <2> HIDE DEF origin
  <2> QED
    BY <1>1, <1>2, <1>3
<1>5. /\ made.body = Q!LastGiven(log, "body", None)
      /\ made.form = Q!LastOf(log, Q!FormsGiven(log), None)
      /\ made.option = Q!LastGiven(log, "option", origin.option)
      /\ made.native = Q!LastGiven(log, "native", None)
      /\ made.middlewares = origin.middlewares \o Q!Arguments(log, "middleware")
  BY RequestReads DEF Keeps
<1>6. made.body = None \/ made.form = None
  OBVIOUS
<1> HIDE DEF made
<1>7. Q!Fits(made, log)
  BY <1>4, <1>5, <1>6 DEF Q!Fits
<1> QED
  BY <1>7 DEF made

(* What holds of request builders: one that can still build is what its     *)
(* history asks for over its client's settings and has built nothing, and a *)
(* request is what its history asked for.                                   *)
RequestTypes ==
  /\ rq \in [Requests -> {None} \union Q!RequestBuilders]
  /\ request = [r \in Requests |-> request[r]]
  /\ qlog = [r \in Requests |-> qlog[r]]
  /\ \A r \in Requests: IsLog(qlog[r]) /\ \A i \in DOMAIN qlog[r]: Headed(qlog[r][i])

RequestBuilt(r) ==
  /\ rq[r] = None => request[r] = None /\ qlog[r] = <<>>
  /\ rq[r] # None => qlog[r] # <<>> /\ Head(qlog[r])[2] \in C!ClientBuilders
  /\ rq[r] # None /\ rq[r].inner =>
       request[r] = None /\ Returned(qlog[r], "build") = {} /\ Keeps(rq[r], qlog[r])
  /\ request[r] # None => Q!Fits(request[r], qlog[r])
  /\ \A i, j \in Returned(qlog[r], "build"): i = j

RequestInv == RequestTypes /\ \A r \in Requests: RequestBuilt(r)

(* Builder r becomes b, its history log and its request made. *)
LEMMA RequestChanged ==
  ASSUME RequestInv, NEW r \in Requests, NEW b \in Q!RequestBuilders, NEW log, NEW made,
         IsLog(log), \A i \in DOMAIN log: Headed(log[i]), log # <<>>, Head(log)[2] \in C!ClientBuilders,
         rq' = [rq EXCEPT ![r] = b], qlog' = [qlog EXCEPT ![r] = log], request' = [request EXCEPT ![r] = made],
         b.inner => made = None /\ Returned(log, "build") = {} /\ Keeps(b, log),
         made # None => Q!Fits(made, log),
         \A i, j \in Returned(log, "build"): i = j
  PROVE  RequestInv'
<1>1. /\ rq \in [Requests -> {None} \union Q!RequestBuilders]
      /\ request = [t \in Requests |-> request[t]] /\ qlog = [t \in Requests |-> qlog[t]]
      /\ \A t \in Requests: IsLog(qlog[t]) /\ \A i \in DOMAIN qlog[t]: Headed(qlog[t][i])
  BY DEF RequestInv, RequestTypes
<1>2. /\ rq'[r] = b /\ \A t \in Requests \ {r}: rq'[t] = rq[t]
      /\ qlog'[r] = log /\ \A t \in Requests \ {r}: qlog'[t] = qlog[t]
      /\ request'[r] = made /\ \A t \in Requests \ {r}: request'[t] = request[t]
      /\ qlog' = [t \in Requests |-> qlog'[t]] /\ request' = [t \in Requests |-> request'[t]]
  BY <1>1
<1>3. b # None
  BY BuildersAssumption
<1>4. RequestTypes'
  <2>1. rq' \in [Requests -> {None} \union Q!RequestBuilders]
    BY <1>1
  <2>2. \A t \in Requests: IsLog(qlog'[t]) /\ \A i \in DOMAIN qlog'[t]: Headed(qlog'[t][i])
    BY <1>1, <1>2
  <2> QED
    BY <1>2, <2>1, <2>2 DEF RequestTypes, Q!RequestBuilders, Q!Texts, Q!TextsIn, Headed
<1>5. RequestBuilt(r)'
  BY <1>2, <1>3 DEF RequestBuilt, C!ClientBuilders, C!Optional, C!ProxyStates
<1>6. ASSUME NEW t \in Requests \ {r} PROVE RequestBuilt(t)'
  <2>1. RequestBuilt(t)
    BY DEF RequestInv
  <2>2. rq'[t] = rq[t] /\ qlog'[t] = qlog[t] /\ request'[t] = request[t]
    BY <1>2
  <2> QED
    BY <2>1, <2>2 DEF RequestBuilt, C!ClientBuilders, C!Optional, C!ProxyStates
<1> QED
  BY <1>4, <1>5, <1>6 DEF RequestInv

(* A call e, not build(), that leaves builder r as b. *)
LEMMA RequestCalled ==
  ASSUME RequestInv, NEW r \in Requests, rq[r] # None, NEW e, Headed(e), e[1] # "build",
         NEW b \in Q!RequestBuilders,
         rq' = [rq EXCEPT ![r] = b], qlog' = [qlog EXCEPT ![r] = Longer(qlog[r], e)], request' = request,
         ~rq[r].inner => e[3] = "raised",
         b.inner => rq[r].inner,
         b.inner /\ Keeps(rq[r], qlog[r]) => Extends(rq[r], qlog[r], e, b)
  PROVE  RequestInv'
<1>1. PICK log, long: log = qlog[r] /\ long = Longer(log, e)
  OBVIOUS
<1>2. PICK old \in Q!RequestBuilders: old = rq[r]
  BY DEF RequestInv, RequestTypes
<1>3. IsLog(log) /\ \A i \in DOMAIN log: Headed(log[i])
  BY <1>1 DEF RequestInv, RequestTypes
<1>4. RequestBuilt(r)
  BY DEF RequestInv
<1>5. log # <<>> /\ Head(log)[2] \in C!ClientBuilders
  BY <1>1, <1>4 DEF RequestBuilt
<1>6. IsLog(long) /\ \A i \in DOMAIN long: Headed(long[i])
  BY <1>1, <1>3, LogAppend
<1>7. long # <<>> /\ Head(long)[2] \in C!ClientBuilders
  BY <1>1, <1>3, <1>5, HeadStays
<1>8. Returned(long, "build") = Returned(log, "build")
  BY <1>1, <1>3, ReturnedAppend
<1>9. request' = [request EXCEPT ![r] = request[r]]
  BY DEF RequestInv, RequestTypes
<1>10. ASSUME b.inner PROVE request[r] = None /\ Returned(long, "build") = {} /\ Keeps(b, long)
  <2>1. request[r] = None /\ Returned(log, "build") = {} /\ Keeps(old, log)
    BY <1>1, <1>2, <1>4, <1>10 DEF RequestBuilt
  <2>2. Extends(old, log, e, b)
    BY <1>1, <1>2, <1>10, <2>1
  <2>3. Keeps(b, long)
    BY <1>1, <1>3, <1>5, <2>1, <2>2, KeepsAppend
  <2> QED
    BY <1>8, <2>1, <2>3
<1>11. ASSUME request[r] # None PROVE Q!Fits(request[r], long)
  <2>1. Q!Fits(request[r], log) /\ e[3] = "raised"
    BY <1>1, <1>4, <1>11 DEF RequestBuilt
  <2> QED
    BY <1>1, <1>3, <1>5, <2>1, RequestIdle
<1>12. \A i, j \in Returned(long, "build"): i = j
  BY <1>1, <1>4, <1>8 DEF RequestBuilt
<1>13. qlog' = [qlog EXCEPT ![r] = long]
  BY <1>1
<1>14. b.inner => request[r] = None /\ Returned(long, "build") = {} /\ Keeps(b, long)
  BY <1>10
<1>15. request[r] # None => Q!Fits(request[r], long)
  BY <1>11
<1> QED
  BY <1>6, <1>7, <1>9, <1>12, <1>13, <1>14, <1>15, RequestChanged

(* A call that is about no header and no form leaves those as they are. *)
SameHeaders(b, e) ==
  \A k \in Keys: /\ b.own[k] = After(b.own[k], HeaderWord(e, k))
                 /\ b.defaults[k] = IF b.own[k] = <<>> THEN b.defaults[k] ELSE <<>>
SameType(b, log, e) == b.type = b.type \o FormPiece(log, e)

LEMMA HeadersStay ==
  ASSUME NEW b \in Q!RequestBuilders, NEW log, Keeps(b, log), NEW e
  PROVE  /\ e[1] \notin {"header", "headers"} => SameHeaders(b, e)
         /\ e[1] \notin {"form", "multipart"} => SameType(b, log, e)
<1>1. ASSUME e[1] \notin {"header", "headers"}, NEW k \in Keys
      PROVE  /\ b.own[k] = After(b.own[k], HeaderWord(e, k))
             /\ b.defaults[k] = IF b.own[k] = <<>> THEN b.defaults[k] ELSE <<>>
  <2>1. HeaderWord(e, k) = Adds(<<>>)
    BY <1>1 DEF HeaderWord
  <2>2. b.own[k] \in Seq(Q!Texts)
    BY DEF Q!RequestBuilders
  <2>3. b.own[k] # <<>> => b.defaults[k] = <<>>
    BY DEF Keeps
  <2> QED
    BY <2>1, <2>2, <2>3, AfterIs
<1>2. ASSUME e[1] \notin {"form", "multipart"} PROVE b.type = b.type \o FormPiece(log, e)
  <2>1. FormPiece(log, e) = <<>>
    BY <1>2 DEF FormPiece
  <2>2. b.type \in Seq({"urlencoded", "multipart"})
    BY DEF Q!RequestBuilders
  <2> QED
    BY <2>1, <2>2
<1> QED
  BY <1>1, <1>2 DEF SameHeaders, SameType

LEMMA RequestSet ==
  ASSUME RequestInv, NEW r \in Requests, NEW op, op # "build", NEW arg, NEW b, Q!Setter(r, op, arg, b),
         op = "header" => arg \in Keys \X Values,
         op = "headers" => arg \in Fields,
         rq[r] \in Q!RequestBuilders /\ rq[r].inner => b \in Q!RequestBuilders /\ b.inner,
         rq[r] \in Q!RequestBuilders /\ rq[r].inner /\ Keeps(rq[r], qlog[r])
           => Extends(rq[r], qlog[r], <<op, arg, "returned">>, b)
  PROVE  RequestInv'
<1> DEFINE e == <<op, arg, IF rq[r].inner THEN "returned" ELSE "raised">>
           b2 == IF rq[r].inner THEN b ELSE rq[r]
<1>1. /\ rq[r] # None /\ rq' = [rq EXCEPT ![r] = b2] /\ request' = request
      /\ qlog' = [qlog EXCEPT ![r] = Longer(qlog[r], e)]
  BY DEF Q!Setter, Q!Called, Longer
<1>2. rq[r] \in Q!RequestBuilders
  BY <1>1 DEF RequestInv, RequestTypes
<1>3. Headed(e) /\ e[1] # "build" /\ (~rq[r].inner => e[3] = "raised")
  BY DEF Headed
<1>4. b2 \in Q!RequestBuilders /\ (b2.inner => rq[r].inner)
  BY <1>2
<1>5. b2.inner /\ Keeps(rq[r], qlog[r]) => Extends(rq[r], qlog[r], e, b2)
  <2>1. SUFFICES ASSUME b2.inner, Keeps(rq[r], qlog[r]) PROVE Extends(rq[r], qlog[r], e, b2)
    OBVIOUS
  <2>2. rq[r].inner
    BY <1>4, <2>1
  <2>3. e = <<op, arg, "returned">> /\ b2 = b
    BY <2>2
  <2> HIDE DEF e, b2
  <2> QED
    BY <1>2, <2>1, <2>2, <2>3
<1> HIDE DEF e, b2
<1> QED
  BY <1>1, <1>3, <1>4, <1>5, RequestCalled

LEMMA RequestSetOption ==
  ASSUME RequestInv, NEW r \in Requests, NEW v \in Values, Q!SetOption(r, v)
  PROVE  RequestInv'
<1> DEFINE e == <<"option", v, "returned">>
           b == [rq[r] EXCEPT !.option = v]
<1>1. ASSUME rq[r] \in Q!RequestBuilders, rq[r].inner PROVE b \in Q!RequestBuilders /\ b.inner
  BY <1>1 DEF Q!RequestBuilders
<1>2. ASSUME rq[r] \in Q!RequestBuilders, rq[r].inner, Keeps(rq[r], qlog[r])
      PROVE  Extends(rq[r], qlog[r], e, b)
  <2>1. PICK old \in Q!RequestBuilders: old = rq[r]
    BY <1>2
  <2>2. SameHeaders(old, e) /\ SameType(old, qlog[r], e)
    <3>1. Keeps(old, qlog[r]) /\ e[1] \notin {"header", "headers"} /\ e[1] \notin {"form", "multipart"}
      BY <1>2, <2>1
    <3> HIDE DEF e
    <3> QED
      BY <3>1, HeadersStay
  <2> QED
    BY <2>1, <2>2 DEF Extends, IsForm, Q!RequestBuilders, SameHeaders, SameType
<1>3. Q!Setter(r, "option", v, b)
  BY DEF Q!SetOption
<1>4. rq[r] \in Q!RequestBuilders /\ rq[r].inner => b \in Q!RequestBuilders /\ b.inner
  BY <1>1
<1>5. rq[r] \in Q!RequestBuilders /\ rq[r].inner /\ Keeps(rq[r], qlog[r]) => Extends(rq[r], qlog[r], e, b)
  BY <1>2
<1> HIDE DEF b
<1> QED
  BY <1>3, <1>4, <1>5, RequestSet

LEMMA RequestApply ==
  ASSUME RequestInv, NEW r \in Requests, NEW v \in Values \union {Bad}, Q!Apply(r, v)
  PROVE  RequestInv'
<1> DEFINE e == <<"native", v, "returned">>
           b == [rq[r] EXCEPT !.native = IF @ = Bad THEN Bad ELSE v]
<1>1. ASSUME rq[r] \in Q!RequestBuilders, rq[r].inner PROVE b \in Q!RequestBuilders /\ b.inner
  BY <1>1 DEF Q!RequestBuilders
<1>2. ASSUME rq[r] \in Q!RequestBuilders, rq[r].inner, Keeps(rq[r], qlog[r])
      PROVE  Extends(rq[r], qlog[r], e, b)
  <2>1. PICK old \in Q!RequestBuilders: old = rq[r]
    BY <1>2
  <2>2. SameHeaders(old, e) /\ SameType(old, qlog[r], e)
    <3>1. Keeps(old, qlog[r]) /\ e[1] \notin {"header", "headers"} /\ e[1] \notin {"form", "multipart"}
      BY <1>2, <2>1
    <3> HIDE DEF e
    <3> QED
      BY <3>1, HeadersStay
  <2> QED
    BY <2>1, <2>2 DEF Extends, IsForm, Q!RequestBuilders, SameHeaders, SameType
<1>3. Q!Setter(r, "native", v, b)
  BY DEF Q!Apply
<1>4. rq[r] \in Q!RequestBuilders /\ rq[r].inner => b \in Q!RequestBuilders /\ b.inner
  BY <1>1
<1>5. rq[r] \in Q!RequestBuilders /\ rq[r].inner /\ Keeps(rq[r], qlog[r]) => Extends(rq[r], qlog[r], e, b)
  BY <1>2
<1> HIDE DEF b
<1> QED
  BY <1>3, <1>4, <1>5, RequestSet

LEMMA RequestSetBody ==
  ASSUME RequestInv, NEW r \in Requests, NEW kind \in {"json", "any"}, Q!SetBody(r, kind)
  PROVE  RequestInv'
<1> DEFINE e == <<"body", kind, "returned">>
           b == [rq[r] EXCEPT !.body = kind]
<1>1. ASSUME rq[r] \in Q!RequestBuilders, rq[r].inner PROVE b \in Q!RequestBuilders /\ b.inner
  BY <1>1 DEF Q!RequestBuilders
<1>2. ASSUME rq[r] \in Q!RequestBuilders, rq[r].inner, Keeps(rq[r], qlog[r])
      PROVE  Extends(rq[r], qlog[r], e, b)
  <2>1. PICK old \in Q!RequestBuilders: old = rq[r]
    BY <1>2
  <2>2. SameHeaders(old, e) /\ SameType(old, qlog[r], e)
    <3>1. Keeps(old, qlog[r]) /\ e[1] \notin {"header", "headers"} /\ e[1] \notin {"form", "multipart"}
      BY <1>2, <2>1
    <3> HIDE DEF e
    <3> QED
      BY <3>1, HeadersStay
  <2> QED
    BY <2>1, <2>2 DEF Extends, IsForm, Q!RequestBuilders, SameHeaders, SameType
<1>3. Q!Setter(r, "body", kind, b)
  BY DEF Q!SetBody
<1>4. rq[r] \in Q!RequestBuilders /\ rq[r].inner => b \in Q!RequestBuilders /\ b.inner
  BY <1>1
<1>5. rq[r] \in Q!RequestBuilders /\ rq[r].inner /\ Keeps(rq[r], qlog[r]) => Extends(rq[r], qlog[r], e, b)
  BY <1>2
<1> HIDE DEF b
<1> QED
  BY <1>3, <1>4, <1>5, RequestSet

(* A call that raised changed nothing. *)
LEMMA RaisedExtends ==
  ASSUME NEW b \in Q!RequestBuilders, NEW log, Keeps(b, log), NEW e, e[3] = "raised"
  PROVE  Extends(b, log, e, b)
<1>1. ASSUME NEW k \in Keys
      PROVE  /\ b.own[k] = After(b.own[k], HeaderWord(e, k))
             /\ b.defaults[k] = IF b.own[k] = <<>> THEN b.defaults[k] ELSE <<>>
  <2>1. HeaderWord(e, k) = Adds(<<>>)
    BY DEF HeaderWord
  <2>2. b.own[k] \in Seq(Q!Texts)
    BY DEF Q!RequestBuilders
  <2>3. b.own[k] # <<>> => b.defaults[k] = <<>>
    BY DEF Keeps
  <2> QED
    BY <2>1, <2>2, <2>3, AfterIs
<1>2. b.type = b.type \o FormPiece(log, e)
  <2>1. FormPiece(log, e) = <<>>
    BY DEF FormPiece
  <2>2. b.type \in Seq({"urlencoded", "multipart"})
    BY DEF Q!RequestBuilders
  <2> QED
    BY <2>1, <2>2
<1> QED
  BY <1>1, <1>2 DEF Extends, IsForm

LEMMA RequestBodyRefused ==
  ASSUME RequestInv, NEW r \in Requests, Q!BodyRefused(r)
  PROVE  RequestInv'
<1> DEFINE e == <<"body", Bad, "raised">>
<1>1. /\ rq[r] # None /\ rq' = [rq EXCEPT ![r] = rq[r]] /\ request' = request
      /\ qlog' = [qlog EXCEPT ![r] = Longer(qlog[r], e)]
  BY DEF Q!BodyRefused, Q!Called, Longer
<1>2. rq[r] \in Q!RequestBuilders
  BY <1>1 DEF RequestInv, RequestTypes
<1>3. Headed(e) /\ e[1] # "build" /\ e[3] = "raised"
  BY DEF Headed
<1> HIDE DEF e
<1>4. Keeps(rq[r], qlog[r]) => Extends(rq[r], qlog[r], e, rq[r])
  BY <1>2, <1>3, RaisedExtends
<1> QED
  BY <1>1, <1>2, <1>3, <1>4, RequestCalled

LEMMA RequestWithMiddleware ==
  ASSUME RequestInv, NEW r \in Requests, NEW m \in Middlewares, Q!WithMiddleware(r, m)
  PROVE  RequestInv'
<1> DEFINE e == <<"middleware", m, IF rq[r].inner THEN "returned" ELSE "raised">>
           b == [rq[r] EXCEPT !.middlewares = Append(@, m)]
<1>1. /\ rq[r] # None /\ rq' = [rq EXCEPT ![r] = b] /\ request' = request
      /\ qlog' = [qlog EXCEPT ![r] = Longer(qlog[r], e)]
  BY DEF Q!WithMiddleware, Q!Called, Longer
<1>2. PICK old \in Q!RequestBuilders: old = rq[r]
  BY <1>1 DEF RequestInv, RequestTypes
<1>3. Headed(e) /\ e[1] = "middleware" /\ e[2] = m /\ e[3] = IF old.inner THEN "returned" ELSE "raised"
  BY <1>2 DEF Headed
<1>4. b = [old EXCEPT !.middlewares = Append(old.middlewares, m)]
  BY <1>2
<1>5. b \in Q!RequestBuilders /\ b.inner = old.inner
  <2>1. Append(old.middlewares, m) \in Seq(Middlewares)
    BY AppendProperties DEF Q!RequestBuilders
  <2> HIDE DEF b
  <2> QED
    BY <1>4, <2>1 DEF Q!RequestBuilders
<1> HIDE DEF e
<1>6. ASSUME old.inner, Keeps(old, qlog[r]) PROVE Extends(old, qlog[r], e, b)
  <2>1. SameHeaders(old, e) /\ SameType(old, qlog[r], e)
    BY <1>3, <1>6, HeadersStay
  <2>2. /\ b.middlewares = Append(old.middlewares, m) /\ b.option = old.option /\ b.native = old.native
        /\ b.body = old.body /\ b.form = old.form /\ b.type = old.type
        /\ b.own = old.own /\ b.defaults = old.defaults
    BY <1>4 DEF Q!RequestBuilders
  <2> HIDE DEF b
  <2> QED
    BY <1>3, <1>6, <2>1, <2>2 DEF Extends, IsForm, SameHeaders, SameType
<1>7. b.inner /\ Keeps(rq[r], qlog[r]) => Extends(rq[r], qlog[r], e, b)
  BY <1>2, <1>5, <1>6
<1>8. e[1] # "build" /\ (~rq[r].inner => e[3] = "raised") /\ (b.inner => rq[r].inner) /\ Headed(e)
  BY <1>2, <1>3, <1>5
<1> HIDE DEF b
<1> QED
  BY <1>1, <1>5, <1>7, <1>8, RequestCalled

LEMMA RequestUrlEncoded ==
  ASSUME RequestInv, NEW r \in Requests, Q!UrlEncoded(r)
  PROVE  RequestInv'
<1> DEFINE e == <<"form", {}, "returned">>
           type == IF rq[r].type = <<>> THEN <<"urlencoded">> ELSE rq[r].type
           b == [rq[r] EXCEPT !.form = {}, !.type = type]
<1>1. Q!Setter(r, "form", {}, b)
  BY DEF Q!UrlEncoded
<1>2. ASSUME rq[r] \in Q!RequestBuilders, rq[r].inner PROVE b \in Q!RequestBuilders /\ b.inner
  <2>1. type \in Seq({"urlencoded", "multipart"})
    <3>1. rq[r].type \in Seq({"urlencoded", "multipart"})
      BY <1>2 DEF Q!RequestBuilders
    <3>2. <<"urlencoded">> \in Seq({"urlencoded", "multipart"})
      OBVIOUS
    <3> QED
      BY <3>1, <3>2, Zenon
  <2> HIDE DEF type
  <2> QED
    BY <1>2, <2>1 DEF Q!RequestBuilders
<1>3. ASSUME rq[r] \in Q!RequestBuilders, rq[r].inner, Keeps(rq[r], qlog[r])
      PROVE  Extends(rq[r], qlog[r], e, b)
  <2>1. PICK old \in Q!RequestBuilders: old = rq[r]
    BY <1>3
  <2>2. e[1] = "form" /\ e[2] = {} /\ e[3] = "returned" /\ Keeps(old, qlog[r])
    BY <1>3, <2>1
  <2>3. type = old.type \o FormPiece(qlog[r], e)
    <3>1. PICK piece: piece = FormPiece(qlog[r], e)
      OBVIOUS
    <3>2. /\ old.type \in Seq({"urlencoded", "multipart"})
          /\ old.type = <<>> <=> Q!FormsGiven(qlog[r]) = {}
      BY <2>2 DEF Q!RequestBuilders, Keeps
    <3>3. piece = IF old.type = <<>> THEN <<"urlencoded">> ELSE <<>>
      BY <2>2, <3>1, <3>2 DEF FormPiece
    <3>4. PICK t \in Seq({"urlencoded", "multipart"}): t = old.type
      BY <3>2
    <3>5. t \o <<>> = t /\ <<>> \o <<"urlencoded">> = <<"urlencoded">>
      OBVIOUS
    <3>6. type = old.type \o piece
      BY <2>1, <3>3, <3>4, <3>5, Zenon
    <3> QED
      BY <3>1, <3>6
  <2>4. /\ b.form = {} /\ b.type = type /\ b.option = old.option /\ b.native = old.native
        /\ b.body = old.body /\ b.middlewares = old.middlewares
        /\ b.own = old.own /\ b.defaults = old.defaults
    BY <2>1 DEF Q!RequestBuilders
  <2> HIDE DEF e, b, type
  <2>5. SameHeaders(old, e)
    BY <2>2, HeadersStay
  <2> QED
    BY <2>1, <2>2, <2>3, <2>4, <2>5 DEF Extends, IsForm, SameHeaders
<1>4. rq[r] \in Q!RequestBuilders /\ rq[r].inner => b \in Q!RequestBuilders /\ b.inner
  BY <1>2
<1>5. rq[r] \in Q!RequestBuilders /\ rq[r].inner /\ Keeps(rq[r], qlog[r]) => Extends(rq[r], qlog[r], e, b)
  BY <1>3
<1> HIDE DEF b
<1> QED
  BY <1>1, <1>4, <1>5, RequestSet

LEMMA RequestHeader ==
  ASSUME RequestInv, NEW r \in Requests, NEW k0 \in Keys, NEW v \in Values, Q!Header(r, k0, v)
  PROVE  RequestInv'
<1> DEFINE e == <<"header", <<k0, v>>, "returned">>
           own == Q!With(rq[r].own, k0, v)
           defaults == Q!Without(rq[r].defaults, {k0})
           b == [rq[r] EXCEPT !.defaults = defaults, !.own = own]
<1>1. Q!Setter(r, "header", <<k0, v>>, b)
  BY DEF Q!Header
<1>2. ASSUME NEW old \in Q!RequestBuilders, old = rq[r]
      PROVE  /\ own \in [Keys -> Seq(Q!Texts)] /\ defaults \in [Keys -> Seq(Q!Texts)]
             /\ own[k0] = Append(old.own[k0], v) /\ own[k0] = After(old.own[k0], Adds(<<v>>))
             /\ \A k \in Keys \ {k0}: own[k] = old.own[k] /\ own[k] = After(old.own[k], Adds(<<>>))
             /\ \A k \in Keys: defaults[k] = IF k = k0 THEN <<>> ELSE old.defaults[k]
  <2>1. old.own \in [Keys -> Seq(Q!Texts)] /\ old.defaults \in [Keys -> Seq(Q!Texts)] /\ v \in Q!Texts
    BY DEF Q!RequestBuilders, Q!Texts
  <2>2. PICK h \in [Keys -> Seq(Q!Texts)]: h = old.own
    BY <2>1
  <2>3. own = S!With(h, k0, v)
    BY <1>2, <2>2 DEF S!With, Q!With
  <2>4. /\ own \in [Keys -> Seq(Q!Texts)] /\ own[k0] = After(h[k0], Adds(<<v>>))
        /\ \A k \in Keys \ {k0}: own[k] = After(h[k], Adds(<<>>))
    <3>1. v \in Q!Texts
      BY <2>1
    <3>2. PICK new: new = S!With(h, k0, v)
      OBVIOUS
    <3>3. /\ new \in [Keys -> Seq(Q!Texts)] /\ new[k0] = After(h[k0], Adds(<<v>>))
          /\ \A k \in Keys \ {k0}: new[k] = After(h[k], Adds(<<>>))
      BY <3>1, <3>2, WithIs
    <3> HIDE DEF own
    <3> QED
      BY <2>3, <3>2, <3>3
  <2>5. h[k0] \in Seq(Q!Texts) /\ \A k \in Keys: h[k] \in Seq(Q!Texts)
    OBVIOUS
  <2>6. After(h[k0], Adds(<<v>>)) = Append(h[k0], v) /\ \A k \in Keys: After(h[k], Adds(<<>>)) = h[k]
    BY <2>1, <2>5, AfterIs
  <2>7. defaults \in [Keys -> Seq(Q!Texts)]
        /\ \A k \in Keys: defaults[k] = IF k = k0 THEN <<>> ELSE old.defaults[k]
    <3>1. <<>> \in Seq(Q!Texts)
      BY EmptySeq
    <3> QED
      BY <1>2, <2>1, <3>1 DEF Q!Without
  <2> HIDE DEF own, defaults
  <2> QED
    BY <2>2, <2>4, <2>6, <2>7
<1> HIDE DEF own, defaults
<1>3. ASSUME rq[r] \in Q!RequestBuilders, rq[r].inner PROVE b \in Q!RequestBuilders /\ b.inner
  BY <1>2, <1>3 DEF Q!RequestBuilders
<1>4. ASSUME rq[r] \in Q!RequestBuilders, rq[r].inner, Keeps(rq[r], qlog[r])
      PROVE  Extends(rq[r], qlog[r], e, b)
  <2>1. PICK old \in Q!RequestBuilders: old = rq[r]
    BY <1>4
  <2>2. e[1] = "header" /\ e[2] = <<k0, v>> /\ e[3] = "returned" /\ Keeps(old, qlog[r])
    BY <1>4, <2>1
  <2>3. /\ b.own = own /\ b.defaults = defaults /\ b.option = old.option /\ b.native = old.native
        /\ b.body = old.body /\ b.form = old.form /\ b.type = old.type /\ b.middlewares = old.middlewares
    BY <2>1 DEF Q!RequestBuilders
  <2>4. ASSUME NEW k \in Keys
        PROVE  /\ own[k] = After(old.own[k], HeaderWord(e, k))
               /\ defaults[k] = IF own[k] = <<>> THEN old.defaults[k] ELSE <<>>
    <3>1. old.own[k] \in Seq(Q!Texts)
      BY DEF Q!RequestBuilders
    <3>2. CASE k = k0
      <4>1. HeaderWord(e, k) = Adds(<<v>>)
        BY <2>2, <3>2 DEF HeaderWord
      <4>2. Append(old.own[k], v) # <<>>
        BY <3>1
      <4> HIDE DEF e, b
      <4> QED
        BY <1>2, <2>1, <3>2, <4>1, <4>2
    <3>3. CASE k # k0
      <4>1. HeaderWord(e, k) = Adds(<<>>)
        BY <2>2, <3>3 DEF HeaderWord
      <4>2. old.own[k] # <<>> => old.defaults[k] = <<>>
        BY <2>2 DEF Keeps
      <4>3. k \in Keys \ {k0}
        BY <3>3
      <4> HIDE DEF e, b
      <4> QED
        BY <1>2, <2>1, <3>3, <4>1, <4>2, <4>3
    <3> QED
      BY <3>2, <3>3
  <2> HIDE DEF e, b
  <2>5. SameType(old, qlog[r], e)
    BY <2>2, HeadersStay
  <2> QED
    BY <2>1, <2>2, <2>3, <2>4, <2>5 DEF Extends, IsForm, SameType
<1>5. rq[r] \in Q!RequestBuilders /\ rq[r].inner => b \in Q!RequestBuilders /\ b.inner
  BY <1>3
<1>6. rq[r] \in Q!RequestBuilders /\ rq[r].inner /\ Keeps(rq[r], qlog[r]) => Extends(rq[r], qlog[r], e, b)
  BY <1>4
<1>7. <<k0, v>> \in Keys \X Values
  OBVIOUS
<1> HIDE DEF b
<1> QED
  BY <1>1, <1>5, <1>6, <1>7, RequestSet

LEMMA RequestHeaders ==
  ASSUME RequestInv, NEW r \in Requests, NEW g \in Fields, Q!Headers(r, g)
  PROVE  RequestInv'
<1> DEFINE e == <<"headers", g, "returned">>
           own == Q!Extended(rq[r].own, g)
           defaults == Q!Without(rq[r].defaults, Q!Present(g))
           b == [rq[r] EXCEPT !.defaults = defaults, !.own = own]
<1>1. Q!Setter(r, "headers", g, b)
  BY DEF Q!Headers
<1>2. ASSUME NEW old \in Q!RequestBuilders, old = rq[r]
      PROVE  /\ own \in [Keys -> Seq(Q!Texts)] /\ defaults \in [Keys -> Seq(Q!Texts)]
             /\ \A k \in Keys: own[k] = IF g[k] # <<>> THEN g[k] ELSE old.own[k]
             /\ \A k \in Keys: defaults[k] = IF g[k] # <<>> THEN <<>> ELSE old.defaults[k]
  <2>1. old.own \in [Keys -> Seq(Q!Texts)] /\ old.defaults \in [Keys -> Seq(Q!Texts)]
    BY DEF Q!RequestBuilders, Q!Texts
  <2>2. g \in [Keys -> Seq(Q!Texts)]
    <3>1. g \in [Keys -> Seq(C!TextsIn(Fields))]
      BY BuildersAssumption
    <3>2. C!TextsIn(Fields) \subseteq Q!Texts
      BY DEF Q!Texts, Q!TextsIn, C!TextsIn
    <3> QED
      BY <3>1, <3>2
  <2>3. /\ own \in [Keys -> Seq(Q!Texts)]
        /\ \A k \in Keys: own[k] = IF g[k] # <<>> THEN g[k] ELSE old.own[k]
    BY <1>2, <2>1, <2>2 DEF Q!Extended, Q!Present
  <2>4. /\ defaults \in [Keys -> Seq(Q!Texts)]
        /\ \A k \in Keys: defaults[k] = IF g[k] # <<>> THEN <<>> ELSE old.defaults[k]
    <3>1. <<>> \in Seq(Q!Texts)
      BY EmptySeq
    <3> QED
      BY <1>2, <2>1, <2>2, <3>1 DEF Q!Without, Q!Present
  <2> HIDE DEF own, defaults
  <2> QED
    BY <2>3, <2>4
<1> HIDE DEF own, defaults
<1>3. ASSUME rq[r] \in Q!RequestBuilders, rq[r].inner PROVE b \in Q!RequestBuilders /\ b.inner
  BY <1>2, <1>3 DEF Q!RequestBuilders
<1>4. ASSUME rq[r] \in Q!RequestBuilders, rq[r].inner, Keeps(rq[r], qlog[r])
      PROVE  Extends(rq[r], qlog[r], e, b)
  <2>1. PICK old \in Q!RequestBuilders: old = rq[r]
    BY <1>4
  <2>2. e[1] = "headers" /\ e[2] = g /\ e[3] = "returned" /\ Keeps(old, qlog[r])
    BY <1>4, <2>1
  <2>3. /\ b.own = own /\ b.defaults = defaults /\ b.option = old.option /\ b.native = old.native
        /\ b.body = old.body /\ b.form = old.form /\ b.type = old.type /\ b.middlewares = old.middlewares
    BY <2>1 DEF Q!RequestBuilders
  <2>4. ASSUME NEW k \in Keys
        PROVE  /\ own[k] = After(old.own[k], HeaderWord(e, k))
               /\ defaults[k] = IF own[k] = <<>> THEN old.defaults[k] ELSE <<>>
    <3>1. old.own[k] \in Seq(Q!Texts)
      BY DEF Q!RequestBuilders
    <3>2. own[k] = (IF g[k] # <<>> THEN g[k] ELSE old.own[k])
          /\ defaults[k] = (IF g[k] # <<>> THEN <<>> ELSE old.defaults[k])
      BY <1>2, <2>1
    <3>3. CASE g[k] # <<>>
      <4>1. HeaderWord(e, k) = Begins(g[k])
        BY <2>2, <3>3 DEF HeaderWord
      <4>2. After(old.own[k], HeaderWord(e, k)) = g[k]
        BY <3>1, <4>1, AfterIs
      <4> HIDE DEF e, b
      <4> QED
        BY <3>2, <3>3, <4>2
    <3>4. CASE g[k] = <<>>
      <4>1. HeaderWord(e, k) = Adds(<<>>)
        BY <2>2, <3>4 DEF HeaderWord
      <4>2. After(old.own[k], HeaderWord(e, k)) = old.own[k]
        BY <3>1, <4>1, AfterIs
      <4>3. old.own[k] # <<>> => old.defaults[k] = <<>>
        BY <2>2 DEF Keeps
      <4> HIDE DEF e, b
      <4> QED
        BY <3>2, <3>4, <4>2, <4>3
    <3> QED
      BY <3>3, <3>4
  <2> HIDE DEF e, b
  <2>5. SameType(old, qlog[r], e)
    BY <2>2, HeadersStay
  <2> QED
    BY <2>1, <2>2, <2>3, <2>4, <2>5 DEF Extends, IsForm, SameType
<1>5. rq[r] \in Q!RequestBuilders /\ rq[r].inner => b \in Q!RequestBuilders /\ b.inner
  BY <1>3
<1>6. rq[r] \in Q!RequestBuilders /\ rq[r].inner /\ Keeps(rq[r], qlog[r]) => Extends(rq[r], qlog[r], e, b)
  BY <1>4
<1> HIDE DEF b
<1> QED
  BY <1>1, <1>5, <1>6, RequestSet

LEMMA RequestMultipart ==
  ASSUME RequestInv, NEW r \in Requests, NEW f \in Forms, form[f].parts \in SUBSET (Parts \union {"file"}),
         Q!Multipart(r, f)
  PROVE  RequestInv'
<1> DEFINE good == ~(r \in Blocking /\ form[f].is_async) /\ form[f].inner /\ rq[r].inner
           e == <<"multipart", form[f].parts, IF good THEN "returned" ELSE "raised">>
           b == IF good THEN [rq[r] EXCEPT !.form = form[f].parts, !.type = Append(@, "multipart")] ELSE rq[r]
<1>1. /\ rq[r] # None /\ rq' = [rq EXCEPT ![r] = b] /\ request' = request
      /\ qlog' = [qlog EXCEPT ![r] = Longer(qlog[r], e)]
  BY DEF Q!Multipart, Q!Called, Longer
<1>2. PICK old \in Q!RequestBuilders: old = rq[r]
  BY <1>1 DEF RequestInv, RequestTypes
<1>3. PICK type: type = Append(old.type, "multipart")
  OBVIOUS
<1>4. type \in Seq({"urlencoded", "multipart"}) /\ type = old.type \o <<"multipart">>
  <2>1. PICK t \in Seq({"urlencoded", "multipart"}): t = old.type
    BY DEF Q!RequestBuilders
  <2>2. Append(t, "multipart") = t \o <<"multipart">> /\ Append(t, "multipart") \in Seq({"urlencoded", "multipart"})
    OBVIOUS
  <2> QED
    BY <1>3, <2>1, <2>2
<1> HIDE <1>3
<1>5. b = IF good THEN [old EXCEPT !.form = form[f].parts, !.type = type] ELSE old
  BY <1>2, <1>3
<1>6. /\ Headed(e) /\ e[1] = "multipart" /\ e[2] = form[f].parts
      /\ good => e[3] = "returned"
      /\ ~good => e[3] = "raised"
  BY DEF Headed
<1>7. good => old.inner
  BY <1>2
<1> HIDE DEF e, b, good
<1>8. b \in Q!RequestBuilders /\ b.inner = old.inner
  BY <1>4, <1>5 DEF Q!RequestBuilders
<1>9. ASSUME Keeps(old, qlog[r]) PROVE Extends(old, qlog[r], e, b)
  <2>1. CASE good
    <3>1. SameHeaders(old, e)
      BY <1>6, <1>9, HeadersStay
    <3>2. FormPiece(qlog[r], e) = <<"multipart">>
      BY <1>6, <2>1 DEF FormPiece
    <3>3. b.type = old.type \o FormPiece(qlog[r], e)
      <4>1. b.type = type
        BY <1>5, <2>1 DEF Q!RequestBuilders
      <4> QED
        BY <1>4, <3>2, <4>1
    <3>4. /\ b.form = form[f].parts /\ b.option = old.option /\ b.native = old.native
          /\ b.body = old.body /\ b.middlewares = old.middlewares
          /\ b.own = old.own /\ b.defaults = old.defaults
      BY <1>5, <2>1 DEF Q!RequestBuilders
    <3> QED
      BY <1>6, <2>1, <3>1, <3>3, <3>4 DEF Extends, IsForm, SameHeaders
  <2>2. CASE ~good
    BY <1>5, <1>6, <1>9, <2>2, RaisedExtends
  <2> QED
    BY <2>1, <2>2
<1>10. b.inner /\ Keeps(rq[r], qlog[r]) => Extends(rq[r], qlog[r], e, b)
  BY <1>2, <1>9
<1>11. e[1] # "build" /\ (~rq[r].inner => e[3] = "raised") /\ (b.inner => rq[r].inner) /\ Headed(e)
  BY <1>2, <1>6, <1>7, <1>8
<1> QED
  BY <1>1, <1>8, <1>10, <1>11, RequestCalled

LEMMA RequestBuild ==
  ASSUME RequestInv, NEW r \in Requests, Q!Build(r)
  PROVE  RequestInv'
<1> DEFINE good == rq[r].inner /\ rq[r].native # Bad /\ ~(rq[r].form # None /\ rq[r].body # None)
           e == <<"build", None, IF good THEN "returned" ELSE "raised">>
           b == [rq[r] EXCEPT !.inner = FALSE]
           new == [headers |-> Q!Drained(rq[r]), body |-> rq[r].body, form |-> rq[r].form,
                   option |-> rq[r].option, native |-> rq[r].native, middlewares |-> rq[r].middlewares]
           made == IF good THEN new ELSE request[r]
<1>1. PICK log, long: log = qlog[r] /\ long = Longer(log, e)
  OBVIOUS
<1>2. /\ rq \in [Requests -> {None} \union Q!RequestBuilders]
      /\ request = [t \in Requests |-> request[t]]
      /\ IsLog(log) /\ \A i \in DOMAIN log: Headed(log[i])
  BY <1>1 DEF RequestInv, RequestTypes
<1>3. rq[r] \in Q!RequestBuilders
  BY <1>2 DEF Q!Build
<1>4. /\ rq' = [rq EXCEPT ![r] = b] /\ qlog' = [qlog EXCEPT ![r] = long]
      /\ request' = [request EXCEPT ![r] = made]
  <2>1. request = [request EXCEPT ![r] = request[r]]
    BY <1>2
  <2>2. rq' = [rq EXCEPT ![r] = b]
    BY <1>2 DEF Q!Build
  <2>3. qlog' = [qlog EXCEPT ![r] = long]
    BY <1>1 DEF Q!Build, Longer
  <2> HIDE DEF e
  <2>4. request' = [request EXCEPT ![r] = made]
    BY <2>1 DEF Q!Build
  <2> QED
    BY <2>2, <2>3, <2>4
<1>5. RequestBuilt(r) /\ rq[r] # None
  BY DEF RequestInv, Q!Build
<1>6. log # <<>> /\ Head(log)[2] \in C!ClientBuilders
  BY <1>1, <1>5 DEF RequestBuilt
<1>7. b \in Q!RequestBuilders /\ ~b.inner
  BY <1>3 DEF Q!RequestBuilders
<1>8. Headed(e) /\ e[1] = "build" /\ (good => e[3] = "returned") /\ (~good => e[3] = "raised")
  BY DEF Headed
<1> HIDE DEF e, b
<1>9. IsLog(long) /\ \A i \in DOMAIN long: Headed(long[i])
  BY <1>1, <1>2, <1>8, LogAppend
<1>10. long # <<>> /\ Head(long)[2] \in C!ClientBuilders
  BY <1>1, <1>2, <1>6, HeadStays
<1>11. ASSUME good PROVE Q!Fits(new, log) /\ Returned(log, "build") = {}
  <2>1. Keeps(rq[r], log) /\ Returned(log, "build") = {}
    BY <1>1, <1>5, <1>11 DEF RequestBuilt
  <2>2. rq[r].native # Bad /\ (rq[r].form = None \/ rq[r].body = None)
    BY <1>11
  <2> QED
    BY <1>3, <2>1, <2>2, BuildFits
<1>12. made # None => Q!Fits(made, log)
  <2>1. request[r] # None => Q!Fits(request[r], log)
    BY <1>1, <1>5 DEF RequestBuilt
  <2> HIDE DEF new, good
  <2> QED
    BY <1>11, <2>1
<1>13. \A i, j \in Returned(long, "build"): i = j
  <2>1. \A i, j \in Returned(log, "build"): i = j
    BY <1>1, <1>5 DEF RequestBuilt
  <2>2. CASE good
    <3>1. Returned(long, "build") = Later(log, Returned(log, "build"))
      BY <1>1, <1>2, <1>8, <2>2, ReturnedAppend
    <3> QED
      BY <1>11, <2>2, <3>1 DEF Later
  <2>3. CASE ~good
    <3>1. Returned(long, "build") = Returned(log, "build")
      BY <1>1, <1>2, <1>8, <2>3, ReturnedAppend
    <3> QED
      BY <2>1, <3>1
  <2> QED
    BY <2>2, <2>3
<1> HIDE DEF made, good, new
<1>14. made # None => Q!Fits(made, long)
  BY <1>1, <1>2, <1>6, <1>8, <1>12, RequestIdle
<1> QED
  BY <1>4, <1>7, <1>9, <1>10, <1>13, <1>14, RequestChanged

(* A new builder has what the client has, and its history begins there. *)
LEMMA RequestCreate ==
  ASSUME RequestInv, NEW r \in Requests, NEW made \in C!ClientBuilders, Q!Create(r, made)
  PROVE  RequestInv'
<1> DEFINE e == <<"create", made, "returned">>
           b == [inner |-> TRUE, native |-> None, option |-> made.option,
                 form |-> None, type |-> <<>>, body |-> None, middlewares |-> made.middlewares,
                 defaults |-> made.defaults, own |-> Q!NoFields]
           log == <<e>>
<1>1. rq[r] = None /\ rq' = [rq EXCEPT ![r] = b] /\ request' = request /\ qlog' = [qlog EXCEPT ![r] = log]
  BY DEF Q!Create
<1>2. request[r] = None /\ request' = [request EXCEPT ![r] = None]
  BY <1>1 DEF RequestInv, RequestTypes, RequestBuilt
<1>3. /\ made.option \in Values \union {None} /\ made.middlewares \in Seq(Middlewares)
      /\ made.defaults \in [Keys -> Seq(Q!Texts)]
  <2>1. C!TextsIn(Fields) \subseteq Q!Texts
    BY DEF Q!Texts, Q!TextsIn, C!TextsIn
  <2>2. made.defaults \in [Keys -> Seq(C!TextsIn(Fields))]
    BY DEF C!ClientBuilders
  <2>3. made.defaults \in [Keys -> Seq(Q!Texts)]
    BY <2>1, <2>2
  <2> QED
    BY <2>3 DEF C!ClientBuilders, C!Optional
<1>4. b \in Q!RequestBuilders
  <2>1. Q!NoFields \in [Keys -> Seq(Q!Texts)] /\ <<>> \in Seq({"urlencoded", "multipart"})
    BY EmptySeq DEF Q!NoFields
  <2> QED
    BY <1>3, <2>1 DEF Q!RequestBuilders
<1>5. Headed(e) /\ e[1] = "create" /\ e[2] = made
  BY DEF Headed
<1>6. log # <<>> /\ Head(log) = e
  OBVIOUS
<1>7. PICK none: none = <<>>
  OBVIOUS
<1>8. log = Longer(none, e)
  BY <1>7 DEF Longer
<1>9. /\ b.inner /\ b.option = made.option /\ b.native = None /\ b.form = None /\ b.type = <<>>
      /\ b.body = None /\ b.middlewares = made.middlewares /\ b.defaults = made.defaults
      /\ \A k \in Keys: b.own[k] = <<>>
  BY DEF Q!NoFields
<1> HIDE DEF e, b, log
<1>10. /\ IsLog(none) /\ Len(none) = 0 /\ \A i \in DOMAIN none: Headed(none[i])
      /\ \A op: Returned(none, op) = {} /\ Arguments(none, op) = <<>>
          /\ Q!FormType(none) = <<>>
      /\ \A k \in Keys: Q!Asked(none, k) = <<>>
  <2>1. [i \in DOMAIN <<>> |-> FormAt(<<>>, i)] = <<>>
    OBVIOUS
  <2>2. Q!FormType(<<>>) = <<>>
    BY <2>1, FlattenEmpty, RequestReads DEF Q!FormType, FormAt
  <2>3. ASSUME NEW k \in Keys PROVE Q!Asked(<<>>, k) = <<>>
    <3>1. [i \in DOMAIN <<>> |-> HeaderWord(<<>>[i], k)] = <<>>
      OBVIOUS
    <3>2. Q!Asked(<<>>, k) = Told(<<>>)
      BY <3>1, RequestReads DEF Q!Asked
    <3>3. <<>> \in Seq(Words({})) /\ Len(<<>>) = 0
      BY EmptySeq
    <3>4. PICK g \in [0..0 -> Seq({})]: Runs(<<>>, g) /\ Told(<<>>) = g[0]
      BY <3>3, ToldIs
    <3> QED
      BY <3>2, <3>4 DEF Runs
  <2>4. Len(<<>>) = 0 /\ \A i \in DOMAIN <<>>: Headed(<<>>[i])
    OBVIOUS
  <2> QED
    BY <1>7, <2>2, <2>3, <2>4, EmptyLog, Zenon
<1> HIDE <1>7
<1>11. IsLog(none) /\ Len(none) = 0
  BY <1>10
<1>12. IsLog(log) /\ \A i \in DOMAIN log: Headed(log[i])
  <2>1. IsLog(log) /\ DOMAIN log = 1..(Len(none) + 1) /\ log[Len(none) + 1] = e
    BY <1>8, <1>11, LogAppend
  <2>2. \A i \in DOMAIN log: i = Len(none) + 1
    BY <1>11, <2>1
  <2> QED
    BY <1>5, <2>1, <2>2
<1>13. \A op, x: op # "create" => LastGiven(log, op, x) = x /\ Returned(log, op) = {}
  <2>1. ASSUME NEW op, op # "create" PROVE Returned(log, op) = {}
    <3>1. Returned(none, op) = {} /\ e[1] # op
      BY <1>5, <1>10, <2>1
    <3>2. Returned(log, op) = Returned(none, op)
      BY <1>8, <1>11, <3>1, ReturnedAppend
    <3> QED
      BY <3>1, <3>2
  <2> QED
    BY <2>1 DEF LastGiven, LastOf
<1>14. Q!FormsGiven(log) = {} /\ LastOf(log, Q!FormsGiven(log), None) = None
  BY <1>13, RequestReads DEF Q!FormsGiven, LastOf
<1>15. Q!FormType(log) = <<>>
  <2>1. FormPiece(none, e) = <<>> /\ <<>> \o <<>> = <<>>
    BY <1>5 DEF FormPiece
  <2> QED
    BY <1>10, <1>8, <2>1, FormTypeAppend
<1>16. b.middlewares = made.middlewares \o Arguments(log, "middleware")
  <2>1. Arguments(log, "middleware") = <<>>
    <3>1. Arguments(none, "middleware") = <<>> /\ e[1] # "middleware"
      BY <1>5, <1>10
    <3>2. Arguments(log, "middleware") = Arguments(none, "middleware")
      BY <1>8, <1>11, <3>1, ArgumentsAppend
    <3> QED
      BY <3>1, <3>2
  <2> QED
    BY <1>3, <1>9, <2>1
<1>17. ASSUME NEW k \in Keys PROVE Q!Asked(log, k) = <<>>
  <2>1. HeaderWord(e, k) = Adds(<<>>) /\ <<>> \in Seq({})
    BY <1>5, EmptySeq DEF HeaderWord
  <2>2. After(<<>>, Adds(<<>>)) = <<>>
    BY <2>1, AfterIs
  <2>3. Q!Asked(none, k) = <<>>
    BY <1>10
  <2>4. Q!Asked(log, k) = After(Q!Asked(none, k), HeaderWord(e, k))
    BY <1>5, <1>10, <1>8, AskedAppend
  <2> QED
    BY <2>1, <2>2, <2>3, <2>4
<1>18. Keeps(b, log)
  <2>1. PICK first: first = Head(log) /\ first[2] = made
    BY <1>5, <1>6
  <2>2. /\ LastGiven(log, "option", made.option) = made.option
        /\ LastGiven(log, "native", None) = None /\ LastGiven(log, "body", None) = None
    BY <1>13
  <2>3. \A k \in Keys: /\ b.own[k] = Q!Asked(log, k)
                      /\ b.defaults[k] = IF b.own[k] = <<>> THEN made.defaults[k] ELSE <<>>
    BY <1>9, <1>17
  <2>4. b.type = Q!FormType(log) /\ (b.type = <<>> <=> Q!FormsGiven(log) = {})
    BY <1>9, <1>14, <1>15
  <2> QED
    BY <1>9, <1>14, <1>16, <2>1, <2>2, <2>3, <2>4 DEF Keeps
<1>19. Returned(log, "build") = {}
  BY <1>13
<1>20. Head(log)[2] \in C!ClientBuilders
  BY <1>5, <1>6
<1> QED
  BY <1>1, <1>2, <1>4, <1>6, <1>12, <1>18, <1>19, <1>20, RequestChanged
-----------------------------------------------------------------------------
(* What holds of forms and parts.  A part in a form or in a request is      *)
(* spent, and no two of them have it; a form that a request has swallowed   *)
(* is spent as well, so that no other request has its parts.                *)
FormRecords == [inner: BOOLEAN, parts: SUBSET (Parts \union {"file"}), is_async: BOOLEAN]
PartTypes == form \in [Forms -> FormRecords] /\ part \in [Parts -> {"open", "spent"}]

Swallowed(r) == Returned(qlog[r], "multipart")

FormsApart ==
  /\ \A f \in Forms: \A p \in form[f].parts \intersect Parts: part[p] = "spent"
  /\ \A f, g \in Forms: f # g => form[f].parts \intersect form[g].parts \intersect Parts = {}
  /\ \A f \in Forms: form[f].parts \intersect AsyncParts # {} => form[f].is_async

(* What request r has swallowed by its call i. *)
SwallowedWell(r, i) ==
  /\ \A p \in qlog[r][i][2] \intersect Parts: part[p] = "spent"
  /\ \A f \in Forms: form[f].inner => qlog[r][i][2] \intersect form[f].parts \intersect Parts = {}
  /\ r \in Blocking => qlog[r][i][2] \intersect AsyncParts = {}

SwallowedApart ==
  /\ \A r \in Requests: \A i \in Swallowed(r): SwallowedWell(r, i)
  /\ \A r, s \in Requests: \A i \in Swallowed(r): \A j \in Swallowed(s):
       r # s \/ i # j => qlog[r][i][2] \intersect qlog[s][j][2] \intersect Parts = {}

PartsInv == PartTypes /\ FormsApart /\ SwallowedApart

(* A step in which no request swallows a form. *)
SameSwallowed ==
  \A r \in Requests: /\ Returned(qlog'[r], "multipart") = Swallowed(r)
                     /\ \A i \in Swallowed(r): qlog'[r][i] = qlog[r][i]

LEMMA SwallowedStay ==
  ASSUME RequestInv, NEW r \in Requests, NEW e, e[1] # "multipart" \/ e[3] # "returned",
         qlog' = [qlog EXCEPT ![r] = Longer(qlog[r], e)]
  PROVE  SameSwallowed
<1>1. /\ qlog = [t \in Requests |-> qlog[t]] /\ \A t \in Requests: IsLog(qlog[t])
  BY DEF RequestInv, RequestTypes
<1>2. PICK log, long: log = qlog[r] /\ long = Longer(log, e)
  OBVIOUS
<1>3. qlog'[r] = long /\ \A t \in Requests \ {r}: qlog'[t] = qlog[t]
  BY <1>1, <1>2
<1>4. IsLog(log)
  BY <1>1, <1>2
<1>5. Returned(long, "multipart") = Returned(log, "multipart")
      /\ Returned(log, "multipart") \in SUBSET (1..Len(log))
  BY <1>2, <1>4, ReturnedAppend
<1>6. \A i \in 1..Len(log): long[i] = log[i]
  BY <1>2, <1>4, LogAppend
<1> QED
  BY <1>2, <1>3, <1>5, <1>6 DEF SameSwallowed, Swallowed

(* Form f gets the parts news, which are spent from now on. *)
LEMMA PartsMove ==
  ASSUME PartsInv, SameSwallowed, PartTypes', NEW f, NEW news,
         \A p \in Parts: part[p] = "spent" => part'[p] = "spent",
         \A p \in news \intersect Parts: part[p] # "spent" /\ part'[p] = "spent",
         \A g \in Forms: /\ form'[g].inner => form[g].inner
                         /\ form'[g].parts = form[g].parts \union (IF g = f THEN news ELSE {})
                         /\ form[g].is_async => form'[g].is_async
                         /\ g = f /\ news \intersect AsyncParts # {} => form'[g].is_async
  PROVE  PartsInv'
<1>1. FormsApart'
  <2>1. ASSUME NEW g \in Forms, NEW p \in form'[g].parts \intersect Parts PROVE part'[p] = "spent"
    BY <2>1 DEF PartsInv, FormsApart
  <2>2. ASSUME NEW g \in Forms, NEW h \in Forms, g # h, NEW p \in Parts,
               p \in form'[g].parts, p \in form'[h].parts
        PROVE  FALSE
    <3>1. CASE p \in form[g].parts /\ p \in form[h].parts
      BY <2>2, <3>1 DEF PartsInv, FormsApart
    <3>2. CASE p \in news /\ (p \in form[g].parts \/ p \in form[h].parts)
      BY <2>2, <3>2 DEF PartsInv, FormsApart
    <3> QED
      BY <2>2, <3>1, <3>2
  <2>3. ASSUME NEW g \in Forms, form'[g].parts \intersect AsyncParts # {} PROVE form'[g].is_async
    BY <2>3 DEF PartsInv, FormsApart
  <2> QED
    BY <2>1, <2>2, <2>3 DEF FormsApart
<1>2. SwallowedApart'
  <2>1. ASSUME NEW r \in Requests, NEW i \in Swallowed(r)' PROVE SwallowedWell(r, i)'
    <3>1. i \in Swallowed(r) /\ qlog'[r][i] = qlog[r][i]
      BY <2>1 DEF SameSwallowed, Swallowed
    <3>2. SwallowedWell(r, i)
      BY <3>1 DEF PartsInv, SwallowedApart
    <3>3. ASSUME NEW g \in Forms, form'[g].inner, NEW p \in Parts, p \in qlog[r][i][2], p \in form'[g].parts
          PROVE  FALSE
      <4>1. part[p] = "spent"
        BY <3>2, <3>3 DEF SwallowedWell
      <4> QED
        BY <3>2, <3>3, <4>1 DEF SwallowedWell
    <3>4. \A p \in qlog'[r][i][2] \intersect Parts: part'[p] = "spent"
      BY <3>1, <3>2 DEF SwallowedWell
    <3>5. r \in Blocking => qlog'[r][i][2] \intersect AsyncParts = {}
      BY <3>1, <3>2 DEF SwallowedWell
    <3>6. \A g \in Forms: form'[g].inner => qlog'[r][i][2] \intersect form'[g].parts \intersect Parts = {}
      BY <3>1, <3>3
    <3> QED
      BY <3>4, <3>5, <3>6 DEF SwallowedWell
  <2>2. ASSUME NEW r \in Requests, NEW s \in Requests, NEW i \in Swallowed(r)', NEW j \in Swallowed(s)',
               r # s \/ i # j
        PROVE  qlog'[r][i][2] \intersect qlog'[s][j][2] \intersect Parts = {}
    <3>1. /\ i \in Swallowed(r) /\ qlog'[r][i] = qlog[r][i]
          /\ j \in Swallowed(s) /\ qlog'[s][j] = qlog[s][j]
      BY <2>2 DEF SameSwallowed, Swallowed
    <3> QED
      BY <2>2, <3>1 DEF PartsInv, SwallowedApart
  <2> QED
    BY <2>1, <2>2 DEF SwallowedApart
<1> QED
  BY <1>1, <1>2 DEF PartsInv

(* A step that touches no form and no part. *)
LEMMA PartsStay ==
  ASSUME PartsInv, SameSwallowed, form' = form, part' = part
  PROVE  PartsInv'
<1>1. PartTypes'
  BY DEF PartsInv, PartTypes, FormRecords
<1>2. \A p \in Parts: part[p] = "spent" => part'[p] = "spent"
  OBVIOUS
<1>3. \A p \in {} \intersect Parts: part[p] # "spent" /\ part'[p] = "spent"
  OBVIOUS
<1>4. \A g \in Forms: /\ form'[g].inner => form[g].inner
                      /\ form'[g].parts = form[g].parts \union (IF g = None THEN {} ELSE {})
                      /\ form[g].is_async => form'[g].is_async
                      /\ g = None /\ {} \intersect AsyncParts # {} => form'[g].is_async
  OBVIOUS
<1> QED
  BY <1>1, <1>2, <1>3, <1>4, PartsMove

LEMMA MultipartParts ==
  ASSUME RequestInv, PartsInv, NEW r \in Requests, NEW f \in Forms, Q!Multipart(r, f)
  PROVE  PartsInv'
<1> DEFINE refused == r \in Blocking /\ form[f].is_async
           good == ~refused /\ form[f].inner /\ rq[r].inner
           e == <<"multipart", form[f].parts, IF good THEN "returned" ELSE "raised">>
<1>1. qlog' = [qlog EXCEPT ![r] = Longer(qlog[r], e)]
  BY DEF Q!Multipart, Q!Called, Longer
<1>2. part' = part /\ form' = IF refused THEN form ELSE [form EXCEPT ![f].inner = FALSE]
  BY DEF Q!Multipart
<1>3. form \in [Forms -> FormRecords] /\ part \in [Parts -> {"open", "spent"}]
  BY DEF PartsInv, PartTypes
<1>4. PartTypes'
  BY <1>2, <1>3 DEF PartTypes, FormRecords
<1>5. \A g \in Forms: /\ form'[g].inner => form[g].inner
                      /\ form'[g].parts = form[g].parts
                      /\ form'[g].is_async = form[g].is_async
  BY <1>2, <1>3 DEF FormRecords
<1>6. ~refused => ~form'[f].inner
  BY <1>2, <1>3 DEF FormRecords
<1>7. /\ e[1] = "multipart" /\ e[2] = form[f].parts
      /\ good => e[3] = "returned"
      /\ ~good => e[3] = "raised"
  OBVIOUS
<1> HIDE DEF e
<1>8. CASE ~good
  <2>1. e[1] # "multipart" \/ e[3] # "returned"
    BY <1>7, <1>8
  <2>2. SameSwallowed
    BY <1>1, <2>1, SwallowedStay
  <2>3. \A p \in Parts: part[p] = "spent" => part'[p] = "spent"
    BY <1>2
  <2>4. \A p \in {} \intersect Parts: part[p] # "spent" /\ part'[p] = "spent"
    OBVIOUS
  <2>5. \A g \in Forms: /\ form'[g].inner => form[g].inner
                        /\ form'[g].parts = form[g].parts \union (IF g = None THEN {} ELSE {})
                        /\ form[g].is_async => form'[g].is_async
                        /\ g = None /\ {} \intersect AsyncParts # {} => form'[g].is_async
    BY <1>5
  <2> QED
    BY <1>4, <2>2, <2>3, <2>4, <2>5, PartsMove
<1>9. CASE good
  <2>1. PICK log, long, n: log = qlog[r] /\ long = Longer(log, e) /\ n = Len(log) + 1
    OBVIOUS
  <2>2. /\ qlog'[r] = long /\ \A t \in Requests \ {r}: qlog'[t] = qlog[t]
        /\ IsLog(log)
    BY <1>1, <2>1 DEF RequestInv, RequestTypes
  <2>3. /\ Returned(long, "multipart") = Later(log, Returned(log, "multipart"))
        /\ Returned(log, "multipart") \in SUBSET (1..Len(log))
    <3>1. IsLog(log) /\ e[1] = "multipart" /\ e[3] = "returned"
      BY <1>7, <1>9, <2>2
    <3> QED
      BY <2>1, <3>1, ReturnedAppend
  <2>4. long[n] = e /\ \A i \in 1..Len(log): long[i] = log[i]
    BY <2>1, <2>2, LogAppend
  <2>5. /\ qlog'[r][n][2] = form[f].parts
        /\ \A i \in Swallowed(r): qlog'[r][i] = qlog[r][i]
        /\ Swallowed(r)' = Swallowed(r) \union {n}
        /\ n \notin Swallowed(r)
    <3>1. Len(log) \in Nat
      BY <2>2, LogAppend
    <3>2. n \notin 1..Len(log)
      BY <2>1, <3>1
    <3> QED
      BY <1>7, <2>1, <2>2, <2>3, <2>4, <3>2 DEF Swallowed, Later
  <2>6. \A t \in Requests: \A i \in Swallowed(t)': i \in Swallowed(t) \/ (t = r /\ i = n)
    BY <2>2, <2>5 DEF Swallowed
  <2>7. \A t \in Requests: \A i \in Swallowed(t): qlog'[t][i] = qlog[t][i]
    BY <2>2, <2>5
  <2>8. FormsApart'
    BY <1>2, <1>5 DEF PartsInv, FormsApart
  <2>9. form[f].inner /\ ~(r \in Blocking /\ form[f].is_async) /\ ~form'[f].inner
    BY <1>6, <1>9
  <2>10. ASSUME NEW t \in Requests, NEW i \in Swallowed(t)' PROVE SwallowedWell(t, i)'
    <3>1. CASE i \in Swallowed(t)
      <4>1. SwallowedWell(t, i) /\ qlog'[t][i] = qlog[t][i]
        BY <2>7, <3>1 DEF PartsInv, SwallowedApart
      <4> QED
        BY <1>2, <1>5, <4>1 DEF SwallowedWell
    <3>2. CASE t = r /\ i = n
      <4>1. \A p \in form[f].parts \intersect Parts: part'[p] = "spent"
        BY <1>2 DEF PartsInv, FormsApart
      <4>2. \A g \in Forms: form'[g].inner => form[f].parts \intersect form'[g].parts \intersect Parts = {}
        BY <1>5, <2>9 DEF PartsInv, FormsApart
      <4>3. r \in Blocking => form[f].parts \intersect AsyncParts = {}
        BY <2>9 DEF PartsInv, FormsApart
      <4> QED
        BY <2>5, <3>2, <4>1, <4>2, <4>3 DEF SwallowedWell
    <3> QED
      BY <2>6, <3>1, <3>2
  <2>11. \A t \in Requests: \A i \in Swallowed(t): qlog[t][i][2] \intersect form[f].parts \intersect Parts = {}
    BY <2>9 DEF PartsInv, SwallowedApart, SwallowedWell
  <2>12. ASSUME NEW t \in Requests, NEW u \in Requests, NEW i \in Swallowed(t)', NEW j \in Swallowed(u)',
                t # u \/ i # j
         PROVE  qlog'[t][i][2] \intersect qlog'[u][j][2] \intersect Parts = {}
    <3>1. CASE i \in Swallowed(t) /\ j \in Swallowed(u)
      BY <2>7, <2>12, <3>1 DEF PartsInv, SwallowedApart
    <3>2. CASE i \in Swallowed(t) /\ u = r /\ j = n
      BY <2>5, <2>7, <2>11, <3>2
    <3>3. CASE t = r /\ i = n /\ j \in Swallowed(u)
      BY <2>5, <2>7, <2>11, <3>3
    <3> QED
      BY <2>6, <2>12, <3>1, <3>2, <3>3
  <2> QED
    BY <1>4, <2>8, <2>10, <2>12 DEF PartsInv, SwallowedApart
<1> QED
  BY <1>8, <1>9

LEMMA PartRefusesParts ==
  ASSUME PartsInv, NEW p \in Parts, Q!PartRefuses(p)
  PROVE  PartsInv'
<1>1. part' = [part EXCEPT ![p] = "spent"] /\ form' = form /\ qlog' = qlog
  BY DEF Q!PartRefuses
<1>2. PartTypes'
  BY <1>1 DEF PartsInv, PartTypes, FormRecords
<1>3. SameSwallowed
  BY <1>1 DEF SameSwallowed, Swallowed
<1>4. \A q \in Parts: part[q] = "spent" => part'[q] = "spent"
  BY <1>1 DEF PartsInv, PartTypes
<1>5. \A q \in {} \intersect Parts: part[q] # "spent" /\ part'[q] = "spent"
  OBVIOUS
<1>6. \A g \in Forms: /\ form'[g].inner => form[g].inner
                      /\ form'[g].parts = form[g].parts \union (IF g = None THEN {} ELSE {})
                      /\ form[g].is_async => form'[g].is_async
                      /\ g = None /\ {} \intersect AsyncParts # {} => form'[g].is_async
  BY <1>1
<1> QED
  BY <1>2, <1>3, <1>4, <1>5, <1>6, PartsMove

LEMMA FormPartParts ==
  ASSUME PartsInv, NEW f \in Forms, NEW p \in Parts, Q!FormPart(f, p)
  PROVE  PartsInv'
<1> DEFINE news == IF part[p] = "open" /\ form[f].inner THEN {p} ELSE {}
<1>1. /\ part' = [part EXCEPT ![p] = "spent"] /\ qlog' = qlog
      /\ form' = [form EXCEPT ![f].is_async = @ \/ p \in AsyncParts,
                    ![f].parts = IF part[p] = "open" /\ form[f].inner THEN @ \union {p} ELSE @]
  BY DEF Q!FormPart
<1>2. form \in [Forms -> FormRecords] /\ part \in [Parts -> {"open", "spent"}]
  BY DEF PartsInv, PartTypes
<1>3. PICK mark, more:
        /\ mark \in BOOLEAN /\ mark = (form[f].is_async \/ p \in AsyncParts)
        /\ more = form[f].parts \union news
        /\ form' = [form EXCEPT ![f].is_async = mark, ![f].parts = more]
  <2>1. form[f].parts \union news = IF part[p] = "open" /\ form[f].inner THEN form[f].parts \union {p}
                                    ELSE form[f].parts
    OBVIOUS
  <2> HIDE DEF news
  <2>2. PICK mark, more: mark = (form[f].is_async \/ p \in AsyncParts) /\ more = form[f].parts \union news
    OBVIOUS
  <2>3. form' = [form EXCEPT ![f].is_async = mark, ![f].parts = more]
    BY <1>1, <2>1, <2>2, Zenon
  <2>4. mark \in BOOLEAN
    BY <2>2
  <2> QED
    BY <2>2, <2>3, <2>4, Zenon
<1>4. news \in SUBSET Parts
  OBVIOUS
<1>5. \A q \in news \intersect Parts: part[q] # "spent" /\ part'[q] = "spent"
  BY <1>1, <1>2
<1>6. \A q \in Parts: part[q] = "spent" => part'[q] = "spent"
  BY <1>1, <1>2
<1>7. news \intersect AsyncParts # {} => p \in AsyncParts
  OBVIOUS
<1> HIDE DEF news
<1>8. PartTypes'
  <2>1. more \in SUBSET (Parts \union {"file"})
    BY <1>2, <1>3, <1>4 DEF FormRecords
  <2>2. form' \in [Forms -> FormRecords]
    <3>1. mark \in BOOLEAN /\ form' = [form EXCEPT ![f].is_async = mark, ![f].parts = more]
      BY <1>3
    <3>2. PICK half: half = [form EXCEPT ![f].is_async = mark]
      OBVIOUS
    <3>3. half \in [Forms -> FormRecords]
      BY <1>2, <3>1, <3>2 DEF FormRecords
    <3>4. form' = [half EXCEPT ![f].parts = more]
      BY <3>1, <3>2
    <3> QED
      BY <2>1, <3>3, <3>4 DEF FormRecords
  <2>3. part' \in [Parts -> {"open", "spent"}]
    BY <1>1, <1>2
  <2> QED
    BY <2>2, <2>3 DEF PartTypes, FormRecords
<1>9. SameSwallowed
  BY <1>1 DEF SameSwallowed, Swallowed
<1>10. \A g \in Forms: /\ form'[g].inner = form[g].inner
                       /\ form'[g].parts = IF g = f THEN more ELSE form[g].parts
                       /\ form'[g].is_async = IF g = f THEN mark ELSE form[g].is_async
  BY <1>2, <1>3 DEF FormRecords
<1>11. \A g \in Forms: /\ form'[g].inner => form[g].inner
                       /\ form'[g].parts = form[g].parts \union (IF g = f THEN news ELSE {})
                       /\ form[g].is_async => form'[g].is_async
                       /\ g = f /\ news \intersect AsyncParts # {} => form'[g].is_async
  BY <1>3, <1>7, <1>10
<1> QED
  BY <1>5, <1>6, <1>8, <1>9, <1>11, PartsMove

LEMMA EndFileParts ==
  ASSUME PartsInv, NEW f \in Forms, NEW opened \in BOOLEAN, Q!EndFile(f, opened)
  PROVE  PartsInv'
<1> DEFINE news == IF opened /\ form[f].inner THEN {"file"} ELSE {}
<1>1. /\ part' = part /\ qlog' = qlog
      /\ form' = IF opened /\ form[f].inner THEN [form EXCEPT ![f].parts = @ \union {"file"}] ELSE form
  BY DEF Q!EndFile
<1>2. form \in [Forms -> FormRecords] /\ part \in [Parts -> {"open", "spent"}]
  BY DEF PartsInv, PartTypes
<1>3. news \in SUBSET {"file"} /\ news \intersect Parts = {} /\ news \intersect AsyncParts = {}
  BY BuildersAssumption
<1>4. \A g \in Forms: /\ form'[g].inner = form[g].inner
                      /\ form'[g].parts = form[g].parts \union (IF g = f THEN news ELSE {})
                      /\ form'[g].is_async = form[g].is_async
  BY <1>1, <1>2 DEF FormRecords
<1>5. PartTypes'
  BY <1>1, <1>2 DEF PartTypes, FormRecords
<1> HIDE DEF news
<1>6. SameSwallowed
  BY <1>1 DEF SameSwallowed, Swallowed
<1>7. /\ \A q \in Parts: part[q] = "spent" => part'[q] = "spent"
      /\ \A q \in news \intersect Parts: part[q] # "spent" /\ part'[q] = "spent"
  BY <1>1, <1>3
<1>8. \A g \in Forms: /\ form'[g].inner => form[g].inner
                      /\ form'[g].parts = form[g].parts \union (IF g = f THEN news ELSE {})
                      /\ form[g].is_async => form'[g].is_async
                      /\ g = f /\ news \intersect AsyncParts # {} => form'[g].is_async
  BY <1>3, <1>4
<1> QED
  BY <1>5, <1>6, <1>7, <1>8, PartsMove

LEMMA SetterParts ==
  ASSUME RequestInv, PartsInv, NEW r \in Requests, NEW op, op # "multipart", NEW arg, NEW b,
         Q!Setter(r, op, arg, b)
  PROVE  PartsInv'
<1> DEFINE e == <<op, arg, IF rq[r].inner THEN "returned" ELSE "raised">>
<1>1. qlog' = [qlog EXCEPT ![r] = Longer(qlog[r], e)] /\ form' = form /\ part' = part
  BY DEF Q!Setter, Q!Called, Q!formVars, Longer
<1>2. e[1] # "multipart"
  OBVIOUS
<1> HIDE DEF e
<1>3. SameSwallowed
  BY <1>1, <1>2, SwallowedStay
<1> QED
  BY <1>1, <1>3, PartsStay

LEMMA RequestKept ==
  ASSUME RequestInv, PartsInv, NEW r \in Requests, Q!RequestNext(r)
  PROVE  RequestInv' /\ PartsInv'
<1>1. ASSUME NEW v \in Values, Q!SetOption(r, v) PROVE RequestInv' /\ PartsInv'
  BY <1>1, RequestSetOption, SetterParts DEF Q!SetOption
<1>2. ASSUME NEW v \in Values \union {Bad}, Q!Apply(r, v) PROVE RequestInv' /\ PartsInv'
  BY <1>2, RequestApply, SetterParts DEF Q!Apply
<1>3. ASSUME NEW k \in Keys, NEW v \in Values, Q!Header(r, k, v) PROVE RequestInv' /\ PartsInv'
  BY <1>3, RequestHeader, SetterParts DEF Q!Header
<1>4. ASSUME NEW h \in Fields, Q!Headers(r, h) PROVE RequestInv' /\ PartsInv'
  BY <1>4, RequestHeaders, SetterParts DEF Q!Headers
<1>5. ASSUME NEW kind \in {"json", "any"}, Q!SetBody(r, kind) PROVE RequestInv' /\ PartsInv'
  BY <1>5, RequestSetBody, SetterParts DEF Q!SetBody
<1>6. ASSUME NEW m \in Middlewares, Q!WithMiddleware(r, m) PROVE RequestInv' /\ PartsInv'
  <2> DEFINE e == <<"middleware", m, IF rq[r].inner THEN "returned" ELSE "raised">>
  <2>1. qlog' = [qlog EXCEPT ![r] = Longer(qlog[r], e)] /\ form' = form /\ part' = part
    BY <1>6 DEF Q!WithMiddleware, Q!Called, Q!formVars, Longer
  <2>2. e[1] # "multipart"
    OBVIOUS
  <2> HIDE DEF e
  <2>3. SameSwallowed
    BY <2>1, <2>2, SwallowedStay
  <2> QED
    BY <1>6, <2>1, <2>3, RequestWithMiddleware, PartsStay
<1>7. ASSUME NEW f \in Forms, Q!Multipart(r, f) PROVE RequestInv' /\ PartsInv'
  <2>1. form[f].parts \in SUBSET (Parts \union {"file"})
    BY DEF PartsInv, PartTypes, FormRecords
  <2> QED
    BY <1>7, <2>1, RequestMultipart, MultipartParts
<1>8. ASSUME Q!BodyRefused(r) PROVE RequestInv' /\ PartsInv'
  <2> DEFINE e == <<"body", Bad, "raised">>
  <2>1. qlog' = [qlog EXCEPT ![r] = Longer(qlog[r], e)] /\ form' = form /\ part' = part
    BY <1>8 DEF Q!BodyRefused, Q!Called, Q!formVars, Longer
  <2>2. e[1] # "multipart"
    OBVIOUS
  <2> HIDE DEF e
  <2>3. SameSwallowed
    BY <2>1, <2>2, SwallowedStay
  <2> QED
    BY <1>8, <2>1, <2>3, RequestBodyRefused, PartsStay
<1>9. ASSUME Q!UrlEncoded(r) PROVE RequestInv' /\ PartsInv'
  BY <1>9, RequestUrlEncoded, SetterParts DEF Q!UrlEncoded
<1>10. ASSUME Q!Build(r) PROVE RequestInv' /\ PartsInv'
  <2> DEFINE good == rq[r].inner /\ rq[r].native # Bad /\ ~(rq[r].form # None /\ rq[r].body # None)
             e == <<"build", None, IF good THEN "returned" ELSE "raised">>
  <2>1. qlog' = [qlog EXCEPT ![r] = Longer(qlog[r], e)] /\ form' = form /\ part' = part
    BY <1>10 DEF Q!Build, Q!formVars, Longer
  <2>2. e[1] # "multipart"
    OBVIOUS
  <2> HIDE DEF e
  <2>3. SameSwallowed
    BY <2>1, <2>2, SwallowedStay
  <2> QED
    BY <1>10, <2>1, <2>3, RequestBuild, PartsStay
<1> QED
  BY <1>1, <1>2, <1>3, <1>4, <1>5, <1>6, <1>7, <1>8, <1>9, <1>10 DEF Q!RequestNext

LEMMA CreateKept ==
  ASSUME RequestInv, PartsInv, NEW r \in Requests, NEW made \in C!ClientBuilders, Q!Create(r, made)
  PROVE  RequestInv' /\ PartsInv'
<1> DEFINE e == <<"create", made, "returned">>
<1>1. /\ rq[r] = None /\ qlog' = [qlog EXCEPT ![r] = <<e>>] /\ form' = form /\ part' = part
  BY DEF Q!Create, Q!formVars
<1>2. qlog[r] = <<>>
  BY <1>1 DEF RequestInv, RequestBuilt
<1>3. Longer(qlog[r], e) = <<e>> /\ e[1] # "multipart"
  BY <1>2 DEF Longer
<1> HIDE DEF e
<1>4. SameSwallowed
  BY <1>1, <1>3, SwallowedStay
<1> QED
  BY <1>1, <1>4, PartsStay, RequestCreate

LEMMA RequestStays ==
  ASSUME RequestInv, rq' = rq, request' = request, qlog' = qlog
  PROVE  RequestInv' /\ SameSwallowed
<1>1. RequestTypes'
  BY DEF RequestInv, RequestTypes, Q!RequestBuilders, Q!Texts, Q!TextsIn, Headed
<1>2. ASSUME NEW r \in Requests PROVE RequestBuilt(r)'
  <2>1. RequestBuilt(r)
    BY DEF RequestInv
  <2> QED
    BY <2>1 DEF RequestBuilt, C!ClientBuilders, C!Optional, C!ProxyStates
<1>3. SameSwallowed
  BY DEF SameSwallowed, Swallowed
<1> QED
  BY <1>1, <1>2, <1>3 DEF RequestInv

LEMMA FormKept ==
  ASSUME RequestInv, PartsInv, Q!FormNext
  PROVE  RequestInv' /\ PartsInv'
<1>1. rq' = rq /\ request' = request /\ qlog' = qlog
  BY DEF Q!FormNext, Q!PartRefuses, Q!FormPart, Q!BeginFile, Q!EndFile
<1>2. RequestInv' /\ SameSwallowed
  BY <1>1, RequestStays
<1>3. ASSUME NEW f \in Forms, Q!BeginFile(f) PROVE PartsInv'
  <2>1. form' = form /\ part' = part
    BY <1>3 DEF Q!BeginFile
  <2> QED
    BY <1>2, <2>1, PartsStay
<1>4. PartsInv'
  BY <1>3, PartRefusesParts, FormPartParts, EndFileParts DEF Q!FormNext
<1> QED
  BY <1>2, <1>4

LEMMA RequestUntouched ==
  ASSUME RequestInv, PartsInv, UNCHANGED requestVars
  PROVE  RequestInv' /\ PartsInv'
<1>1. rq' = rq /\ request' = request /\ qlog' = qlog /\ form' = form /\ part' = part
  BY DEF requestVars
<1> QED
  BY <1>1, RequestStays, PartsStay

LEMMA RequestBegins ==
  ASSUME Q!QInit
  PROVE  RequestInv /\ PartsInv
<1>1. RequestTypes
  BY EmptyLog DEF RequestTypes, Q!QInit
<1>2. ASSUME NEW r \in Requests PROVE RequestBuilt(r)
  <2>1. rq[r] = None /\ request[r] = None /\ qlog[r] = <<>>
    BY DEF Q!QInit
  <2> QED
    BY <2>1, EmptyLog DEF RequestBuilt
<1>3. PartTypes /\ FormsApart
  BY DEF PartTypes, FormsApart, FormRecords, Q!QInit
<1>4. \A r \in Requests: Swallowed(r) = {}
  BY EmptyLog DEF Swallowed, Q!QInit
<1>5. SwallowedApart
  BY <1>4 DEF SwallowedApart
<1> QED
  BY <1>1, <1>2, <1>3, <1>5 DEF RequestInv, PartsInv
-----------------------------------------------------------------------------
Inv == ClientInv /\ RequestInv /\ PartsInv /\ ResponseInv

LEMMA InvBegins ==
  ASSUME Init
  PROVE  Inv
BY ClientBegins, RequestBegins, ResponseBegins DEF Init, Inv

LEMMA InvKept ==
  ASSUME Inv, [Next]_vars
  PROVE  Inv'
<1>1. CASE ClientCall
  <2>1. C!CNext /\ UNCHANGED requestVars /\ UNCHANGED responseVars
    BY <1>1 DEF ClientCall
  <2> QED
    BY <2>1, ClientKept, RequestUntouched, ResponseUntouched DEF Inv
<1>2. CASE RequestCall
  <2>1. UNCHANGED clientVars /\ UNCHANGED responseVars
    BY <1>2 DEF RequestCall, CreateRequest, CreateOneOff
  <2>2. ClientInv' /\ ResponseInv'
    BY <2>1, ClientUntouched, ResponseUntouched DEF Inv
  <2>3. ASSUME NEW c \in Clients, NEW r \in Requests, CreateRequest(c, r) PROVE RequestInv' /\ PartsInv'
    <3>1. client[c] \in C!ClientBuilders /\ Q!Create(r, client[c])
      BY <2>3 DEF CreateRequest, Inv, ClientInv, ClientTypes
    <3> QED
      BY <3>1, CreateKept DEF Inv
  <2>4. ASSUME NEW r \in Requests, CreateOneOff(r) PROVE RequestInv' /\ PartsInv'
    BY <2>4, NewBuilderIs, CreateKept DEF CreateOneOff, Inv
  <2>5. RequestInv' /\ PartsInv'
    BY <1>2, <2>3, <2>4, RequestKept, FormKept DEF RequestCall, Inv
  <2> QED
    BY <2>2, <2>5 DEF Inv
<1>3. CASE ResponseCall
  <2>1. (\E s \in Responses: S!ResponseNext(s)) /\ UNCHANGED clientVars /\ UNCHANGED requestVars
    BY <1>3 DEF ResponseCall
  <2> QED
    BY <2>1, ClientUntouched, RequestUntouched, ResponseKept DEF Inv
<1>4. CASE UNCHANGED vars
  <2>1. UNCHANGED clientVars /\ UNCHANGED requestVars /\ UNCHANGED responseVars
    BY <1>4 DEF vars
  <2> QED
    BY <2>1, ClientUntouched, RequestUntouched, ResponseUntouched DEF Inv
<1> QED
  BY <1>1, <1>2, <1>3, <1>4 DEF Next

(* The invariant behind the theorems below: what every builder, form and    *)
(* part is, as its history tells.                                           *)
THEOREM BuildersInvariant == Spec => []Inv
<1>1. Init => Inv
  BY InvBegins
<1>2. Inv /\ [Next]_vars => Inv'
  BY InvKept
<1> QED
  BY <1>1, <1>2, PTL DEF Spec

(* A client has the settings of the calls of its builder that returned, and *)
(* of no other, whatever is called in whatever order.                       *)
THEOREM ClientsAsAsked == Spec => []ClientAsAsked
<1>1. Inv => ClientAsAsked
  BY DEF Inv, ClientInv, ClientBuilt, ClientAsAsked, C!ClientAsAsked
<1> QED
  BY <1>1, BuildersInvariant, PTL

(* A request is what the calls of its builder asked for over the settings   *)
(* of its client.                                                           *)
THEOREM RequestsAsAsked == Spec => []RequestAsAsked
<1>1. Inv => RequestAsAsked
  BY DEF Inv, RequestInv, RequestBuilt, RequestAsAsked, Q!RequestAsAsked
<1> QED
  BY <1>1, BuildersInvariant, PTL

(* A response is what the calls before its build asked for, copies of its   *)
(* builder and later calls notwithstanding.                                 *)
THEOREM ResponsesAsAsked == Spec => []ResponseAsAsked
<1>1. Inv => ResponseAsAsked
  BY ResponsesFit DEF Inv, ResponseAsAsked
<1> QED
  BY <1>1, BuildersInvariant, PTL

(* Builders make one product; proxies, parts and forms are in one product   *)
(* each, and no part of an async stream is in a blocking request.           *)
THEOREM SwallowedIsOnce == Spec => []SwallowedOnce
<1>1. ASSUME ClientInv PROVE C!ClientOnce
  <2>1. \A log, op: C!Returned(log, op) = Returned(log, op)
    BY ClientReads
  <2>2. ASSUME NEW c \in Clients
        PROVE  /\ \A i, j \in C!Returned(clog[c], "build"): i = j
               /\ client[c] # None => ~cb[c].inner
    BY <1>1, <2>1 DEF ClientInv, ClientBuilt
  <2> QED
    BY <1>1, <2>2 DEF ClientInv, ProxiesApart, C!ClientOnce
<1>2. ASSUME RequestInv, PartsInv PROVE Q!RequestOnce
  <2>1. \A log, op: Q!Returned(log, op) = Returned(log, op)
    BY RequestReads
  <2>2. ASSUME NEW r \in Requests PROVE \A i, j \in Q!Returned(qlog[r], "build"): i = j
    BY <1>2, <2>1 DEF RequestInv, RequestBuilt
  <2>3. \A f, g \in Forms: f # g => form[f].parts \intersect form[g].parts \intersect Parts = {}
    BY <1>2 DEF PartsInv, FormsApart
  <2>4. ASSUME NEW r \in Requests, NEW s \in Requests, NEW i \in Q!Returned(qlog[r], "multipart"),
               NEW j \in Q!Returned(qlog[s], "multipart"), r # s \/ i # j
        PROVE  qlog[r][i][2] \intersect qlog[s][j][2] \intersect Parts = {}
    BY <1>2, <2>1, <2>4 DEF PartsInv, SwallowedApart, Swallowed
  <2>5. ASSUME NEW r \in Blocking, NEW i \in Q!Returned(qlog[r], "multipart")
        PROVE  qlog[r][i][2] \intersect AsyncParts = {}
    BY <1>2, <2>1, BuildersAssumption DEF PartsInv, SwallowedApart, SwallowedWell, Swallowed
  <2> QED
    BY <2>2, <2>3, <2>4, <2>5 DEF Q!RequestOnce
<1>3. Inv => SwallowedOnce
  BY <1>1, <1>2 DEF Inv, SwallowedOnce
<1> QED
  BY <1>3, BuildersInvariant, PTL
=============================================================================
