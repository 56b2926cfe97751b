--------------------------- MODULE HeaderMapProofs ---------------------------
(***************************************************************************)
(* Theorems of HeaderMap: the items iterator beside a map that changes,    *)
(* the values that are marked as sensitive, the refinement of MultiMap,    *)
(* what the views compare, and that nobody waits in a ring.                *)
(***************************************************************************)
EXTENDS HeaderMap, SequenceLemmas

(* What the vector of http::HeaderMap may hold, with values out of C.       *)
Entries(C) == [key: Keys, vals: Seq(C) \ {<<>>}]
Tables(C) == {e \in Seq(Entries(C)): \A i, j \in DOMAIN e: e[i].key = e[j].key => i = j}

(* The values that are never shown in clear if they are secret, and those   *)
(* that a map may hold: any, once one map may have been merged into another. *)
SafeCells == {c \in Cells: c.v \in Secrets => c.s}
MayHold == IF long > 0 /\ world.from # {} THEN Cells ELSE SafeCells

Ops == {"update", "extend", "eq"}
Calls == {Idle}
         \union [kind: {"map"}, on: Maps, src: Maps, op: Ops]
         \union [kind: {"python"}, on: Maps, op: Ops]
         \union [kind: {"blocked"}, on: Maps]

(* The mutex of a map belongs to the one thread that is inside a long call  *)
(* on that map.                                                             *)
LockInv == /\ gone \subseteq Maps /\ world \in Worlds /\ long \in 0..MaxLong
           /\ holder \in [Maps -> Threads \union {Nobody}] /\ gil \in Threads \union {Nobody}
           /\ call \in [Threads -> Calls]
           /\ \A m \in Maps: holder[m] # Nobody => /\ call[holder[m]].kind \in {"map", "python"}
                                                   /\ call[holder[m]].on = m
           /\ \A t \in Threads: call[t].kind = "map" => long > 0 /\ world.from # {}

TablesInv == map \in [Maps -> Tables(MayHold)]

(* The iterator has passed the first Done keys of its base.                 *)
Iterators == [open: {TRUE}, on: Maps, keys: Seq(Keys), cur: Seq(Cells), base: Tables(Cells),
              seen: SUBSET (Keys \X Seq(Cells)), touched: SUBSET Keys, changes: Nat,
              out: Seq(Keys \X Cells), panicked: BOOLEAN]
Done == Len(iter.base) - Len(iter.keys)

(* The keys still to come are the rest of the base.                         *)
KeysLeft == /\ Done >= 0
            /\ \A i \in 1..Len(iter.keys): iter.keys[i] = iter.base[Done + i].key
            /\ iter.cur # <<>> => iter.keys # <<>>

(* What is out belongs to the keys that were passed and, while some of its  *)
(* values are still to come, to the one in front, in the order of the base. *)
OutInOrder ==
  /\ \A i \in DOMAIN iter.out: /\ HasKey(iter.base, iter.out[i][1])
                               /\ At(iter.base, iter.out[i][1]) <= Done + (IF iter.cur = <<>> THEN 0 ELSE 1)
  /\ \A i, j \in DOMAIN iter.out:
       i < j => At(iter.base, iter.out[i][1]) <= At(iter.base, iter.out[j][1])

(* The values of a passed key are those of one moment; so are those of the  *)
(* key in front, when the ones still to come are added.                     *)
OutWasSeen ==
  /\ \A i \in 1..Done: <<iter.base[i].key, Yielded(iter.base[i].key)>> \in iter.seen
  /\ iter.cur # <<>> => <<iter.keys[1], Yielded(iter.keys[1]) \o iter.cur>> \in iter.seen

SeenInv ==
  /\ \A k \in Keys: <<k, GetAll(map[iter.on], k)>> \in iter.seen
  /\ \A k \in Keys \ iter.touched: \A x: <<k, x>> \in iter.seen => x = GetAll(iter.base, k)
  /\ iter.panicked => \E k \in iter.touched: HasKey(iter.base, k) /\ <<k, <<>>>> \in iter.seen

IterInv == \/ iter = NoIter
           \/ iter \in Iterators /\ KeysLeft /\ OutInOrder /\ OutWasSeen /\ SeenInv

HeaderInv == LockInv /\ TablesInv /\ IterInv

-----------------------------------------------------------------------------
(* The operations on a table.                                               *)
LEMMA AtIs ==
  ASSUME NEW C, NEW e \in Tables(C), NEW k, HasKey(e, k)
  PROVE  At(e, k) \in DOMAIN e /\ e[At(e, k)].key = k
BY DEF HasKey, At

LEMMA AtUnique ==
  ASSUME NEW C, NEW e \in Tables(C), NEW i \in DOMAIN e
  PROVE  HasKey(e, e[i].key) /\ At(e, e[i].key) = i /\ GetAll(e, e[i].key) = e[i].vals
<1>1. HasKey(e, e[i].key)
  BY DEF HasKey
<1>2. At(e, e[i].key) = i
  BY <1>1, AtIs DEF Tables
<1> QED
  BY <1>1, <1>2 DEF GetAll

LEMMA GetAllType ==
  ASSUME NEW C, NEW e \in Tables(C), NEW k \in Keys
  PROVE  GetAll(e, k) \in Seq(C) /\ (HasKey(e, k) <=> GetAll(e, k) # <<>>)
<1>1. CASE HasKey(e, k)
  <2>1. At(e, k) \in DOMAIN e
    BY <1>1, AtIs
  <2>2. e[At(e, k)] \in Entries(C)
    BY <2>1 DEF Tables
  <2> QED
    BY <1>1, <2>2 DEF Entries, GetAll
<1>2. CASE ~HasKey(e, k)
  BY <1>2 DEF GetAll
<1> QED
  BY <1>1, <1>2

LEMMA TablesGrow ==
  ASSUME NEW C, NEW D, C \subseteq D
  PROVE  Tables(C) \subseteq Tables(D)
<1>1. Seq(C) \subseteq Seq(D)
  OBVIOUS
<1>2. Entries(C) \subseteq Entries(D)
  BY <1>1 DEF Entries
<1>3. Seq(Entries(C)) \subseteq Seq(Entries(D))
  BY <1>2
<1> QED
  BY <1>3 DEF Tables

LEMMA EmptyTable ==
  ASSUME NEW C
  PROVE  <<>> \in Tables(C)
BY DEF Tables

(* A value list is replaced, or a new entry goes to the end.                *)
LEMMA WriteKeepsTable ==
  ASSUME NEW C, NEW e \in Tables(C), NEW k \in Keys, NEW vs \in Seq(C) \ {<<>>}
  PROVE  /\ HasKey(e, k) => [e EXCEPT ![At(e, k)].vals = vs] \in Tables(C)
         /\ ~HasKey(e, k) => Append(e, [key |-> k, vals |-> vs]) \in Tables(C)
<1>1. e \in Seq(Entries(C))
  BY DEF Tables
<1>2. ASSUME HasKey(e, k) PROVE [e EXCEPT ![At(e, k)].vals = vs] \in Tables(C)
  <2>1. PICK a \in DOMAIN e: a = At(e, k)
    BY <1>2, AtIs
  <2> DEFINE f == [e EXCEPT ![a].vals = vs]
  <2>2. e[a] \in Entries(C) /\ DOMAIN f = DOMAIN e
    BY <1>1
  <2>3. [e[a] EXCEPT !.vals = vs] \in Entries(C) /\ [e[a] EXCEPT !.vals = vs].key = e[a].key
    BY <2>2 DEF Entries
  <2>4. f \in Seq(Entries(C))
    BY <1>1, <2>3
  <2>5. \A i \in DOMAIN f: f[i].key = e[i].key
    BY <1>1, <2>3
  <2> HIDE DEF f
  <2>6. f \in Tables(C)
    BY <2>2, <2>4, <2>5 DEF Tables
  <2> QED
    BY <2>1, <2>6 DEF f
<1>3. ASSUME ~HasKey(e, k) PROVE Append(e, [key |-> k, vals |-> vs]) \in Tables(C)
  <2>1. PICK x \in Entries(C): x = [key |-> k, vals |-> vs]
    BY DEF Entries
  <2>2. PICK f, n: f = Append(e, x) /\ n = Len(e)
    OBVIOUS
  <2>3. /\ f \in Seq(Entries(C)) /\ DOMAIN f = 1..(n + 1) /\ DOMAIN e = 1..n /\ n \in Nat
        /\ f[n + 1] = x /\ \A i \in 1..n: f[i] = e[i]
    BY <1>1, <2>2
  <2>4. x.key = k /\ \A i \in 1..n: e[i].key # k
    BY <1>3, <2>1, <2>3 DEF HasKey
  <2>5. ASSUME NEW i \in 1..(n + 1), NEW j \in 1..(n + 1), f[i].key = f[j].key PROVE i = j
    <3>1. (i \in 1..n \/ i = n + 1) /\ (j \in 1..n \/ j = n + 1)
      BY <2>3
    <3>2. CASE i \in 1..n /\ j \in 1..n
      <4>1. e[i].key = e[j].key
        BY <2>3, <2>5, <3>2
      <4> QED
        BY <2>3, <3>2, <4>1 DEF Tables
    <3> QED
      BY <2>3, <2>4, <2>5, <3>1, <3>2
  <2>6. f \in Tables(C)
    BY <2>3, <2>5 DEF Tables
  <2> QED
    BY <2>1, <2>2, <2>6
<1> QED
  BY <1>2, <1>3

LEMMA PutKeepsTable ==
  ASSUME NEW C, NEW e \in Tables(C), NEW k \in Keys, NEW c \in C
  PROVE  Put(e, k, c) \in Tables(C)
<1>1. <<c>> \in Seq(C) \ {<<>>}
  OBVIOUS
<1> QED
  BY <1>1, WriteKeepsTable DEF Put

LEMMA AddKeepsTable ==
  ASSUME NEW C, NEW e \in Tables(C), NEW k \in Keys, NEW c \in C
  PROVE  Add(e, k, c) \in Tables(C)
<1>1. CASE HasKey(e, k)
  <2>1. PICK a \in DOMAIN e: a = At(e, k)
    BY <1>1, AtIs
  <2>2. e[a] \in Entries(C)
    BY DEF Tables
  <2>3. Append(e[a].vals, c) \in Seq(C) \ {<<>>}
    BY <2>2 DEF Entries
  <2>4. [e EXCEPT ![a].vals = Append(e[a].vals, c)] \in Tables(C)
    BY <1>1, <2>1, <2>3, WriteKeepsTable
  <2> QED
    BY <1>1, <2>1, <2>4 DEF Add
<1>2. CASE ~HasKey(e, k)
  <2>1. <<c>> \in Seq(C) \ {<<>>}
    OBVIOUS
  <2> QED
    BY <1>2, <2>1, WriteKeepsTable DEF Add
<1> QED
  BY <1>1, <1>2

(* swap_remove: the last entry takes the place of the one that goes.        *)
LEMMA RemoveKeepsTable ==
  ASSUME NEW C, NEW e \in Tables(C), NEW k \in Keys
  PROVE  RemoveKey(e, k) \in Tables(C)
<1>1. CASE ~HasKey(e, k)
  BY <1>1 DEF RemoveKey
<1>2. CASE HasKey(e, k)
  <2>1. PICK a \in DOMAIN e: a = At(e, k)
    BY <1>2, AtIs
  <2>2. PICK n \in Nat: n = Len(e)
    BY DEF Tables
  <2>3. e \in Seq(Entries(C)) /\ DOMAIN e = 1..n /\ n # 0 /\ n \in 1..n
    BY <2>1, <2>2 DEF Tables
  <2> DEFINE f == [e EXCEPT ![a] = e[n]]
             g == SubSeq(f, 1, n - 1)
  <2>4. f \in Seq(Entries(C)) /\ Len(f) = n
    BY <2>2, <2>3
  <2>5. g \in Seq(Entries(C)) /\ DOMAIN g = 1..(n - 1) /\ \A i \in 1..(n - 1): g[i] = f[i]
    BY <2>3, <2>4
  <2>6. ASSUME NEW i \in 1..(n - 1), NEW j \in 1..(n - 1), g[i].key = g[j].key PROVE i = j
    <3>1. i \in 1..n /\ j \in 1..n /\ i # n /\ j # n
      OBVIOUS
    <3>2. /\ f[i] = (IF i = a THEN e[n] ELSE e[i])
          /\ f[j] = (IF j = a THEN e[n] ELSE e[j])
      BY <2>3, <3>1
    <3> HIDE DEF f, g
    <3> QED
      BY <2>3, <2>5, <2>6, <3>1, <3>2 DEF Tables
  <2> HIDE DEF g
  <2>7. g \in Tables(C)
    BY <2>5, <2>6 DEF Tables
  <2> QED
    BY <1>2, <2>1, <2>2, <2>4, <2>7 DEF RemoveKey, Front, Last, g
<1> QED
  BY <1>1, <1>2

-----------------------------------------------------------------------------
(* Operations over a list of values or pairs: FoldLeft is a function on     *)
(* sets of positions, which stays within the tables one position after the  *)
(* other.                                                                   *)
Stepwise(c, F, V, n) ==
  /\ c[{}] \in V
  /\ \A i \in 1..n: F[i] \in [V -> V] /\ (c[1..(i - 1)] \in V => c[1..i] = F[i][c[1..(i - 1)]])
Walks(h, c, F, n) ==
  h[0] = c[{}] /\ h[n] = c[1..n] /\ \A i \in 1..n: h[i] = F[i][h[i - 1]]

LEMMA FoldClimbs ==
  ASSUME NEW V, NEW F, NEW m \in Nat, NEW c, Stepwise(c, F, V, m)
  PROVE  \E h \in [0..m -> V]: Walks(h, c, F, m)
<1> DEFINE P == {n \in Nat: n <= m => c[1..n] \in V}
           h == [n \in 0..m |-> c[1..n]]
<1>0. 1..0 = {}
  OBVIOUS
<1>1. 0 \in P
  BY <1>0 DEF Stepwise
<1>2. ASSUME NEW n \in Nat, n \in P PROVE n + 1 \in P
  <2> SUFFICES ASSUME n + 1 <= m PROVE c[1..(n + 1)] \in V
    OBVIOUS
  <2>1. n + 1 \in 1..m /\ (n + 1) - 1 = n
    OBVIOUS
  <2>2. c[1..n] \in V
    BY <1>2
  <2>3. c[1..(n + 1)] = F[n + 1][c[1..n]] /\ F[n + 1] \in [V -> V]
    BY <2>1, <2>2 DEF Stepwise
  <2> QED
    BY <2>1, <2>2, <2>3
<1> HIDE DEF P
<1>3. \A n \in Nat: n \in P
  BY <1>1, <1>2, Induction
<1>4. \A n \in 0..m: c[1..n] \in V
  BY <1>3 DEF P
<1>5. h \in [0..m -> V] /\ h[0] = c[{}] /\ h[m] = c[1..m]
  BY <1>0, <1>4
<1>6. ASSUME NEW n \in 1..m PROVE h[n] = F[n][h[n - 1]]
  <2>1. n - 1 \in 0..m /\ n \in 0..m
    OBVIOUS
  <2> QED
    BY <1>4, <2>1 DEF Stepwise
<1> HIDE DEF h
<1>7. Walks(h, c, F, m)
  BY <1>5, <1>6 DEF Walks
<1> QED
  BY <1>5, <1>7

LEMMA AddAllClimbs ==
  ASSUME NEW C, NEW e \in Tables(C), NEW k \in Keys, NEW cs \in Seq(C)
  PROVE  \E h \in [0..Len(cs) -> Tables(C)]:
           /\ h[0] = e /\ h[Len(cs)] = AddAll(e, k, cs)
           /\ \A m \in 1..Len(cs): h[m] = Add(h[m - 1], k, cs[m])
<1> DEFINE V == Tables(C)
           n == Len(cs)
           F == [i \in 1..n |-> [v \in V |-> Add(v, k, cs[i])]]
           Def(g) == g = [s \in SUBSET (DOMAIN cs) |->
                            IF s = {} THEN e ELSE Add(g[s \ {Max(s)}], k, cs[Max(s)])]
           c == CHOOSE g: Def(g)
<1>1. n \in Nat /\ DOMAIN cs = 1..n
  OBVIOUS
<1>2. \A i \in 1..n: F[i] \in [V -> V]
  BY AddKeepsTable
<1>3. PICK h \in [SUBSET (1..n) -> V]: Climbs(h, F, e, n)
  <2> HIDE DEF F, V
  <2>1. e \in V
    BY DEF V
  <2> QED
    BY <1>1, <1>2, <2>1, ClimbsExists
<1>4. Def(h)
  <2>1. ASSUME NEW s \in SUBSET (1..n), s # {}
        PROVE  h[s] = Add(h[s \ {Max(s)}], k, cs[Max(s)])
    <3>1. Max(s) \in 1..n /\ h[s \ {Max(s)}] \in V
      BY <1>1, <2>1, MaxIs
    <3>2. h[s] = F[Max(s)][h[s \ {Max(s)}]]
      BY <1>3, <2>1 DEF Climbs
    <3> QED
      BY <3>1, <3>2
  <2>2. h[{}] = e
    BY <1>3 DEF Climbs
  <2> QED
    BY <1>1, <1>3, <2>1, <2>2
<1>5. Def(c)
  BY <1>4
<1>6. AddAll(e, k, cs) = c[1..n]
  BY <1>1 DEF AddAll, FoldLeft, MapThenFoldSet
<1> HIDE DEF c
<1>7. c[{}] = e
  BY <1>1, <1>5
<1>8. ASSUME NEW m \in 1..n, c[1..(m - 1)] \in V
      PROVE  c[1..m] = F[m][c[1..(m - 1)]]
  <2>1. 1..m # {} /\ Max(1..m) = m /\ (1..m) \ {m} = 1..(m - 1) /\ 1..m \in SUBSET (1..n)
    <3>1. m \in Nat /\ m # 0 /\ 1..m \in SUBSET (1..n)
      BY <1>1
    <3> QED
      BY <3>1, MaxOfFront
  <2>2. c[1..m] = Add(c[1..(m - 1)], k, cs[m])
    BY <1>1, <1>5, <2>1
  <2> QED
    BY <1>8, <2>2
<1>9. PICK f \in [0..n -> V]: Walks(f, c, F, n)
  <2>1. e \in V
    BY DEF V
  <2> HIDE DEF F, V, n
  <2>2. Stepwise(c, F, V, n)
    BY <1>2, <1>7, <1>8, <2>1 DEF Stepwise
  <2> QED
    BY <1>1, <2>2, FoldClimbs
<1>10. ASSUME NEW m \in 1..n PROVE f[m] = Add(f[m - 1], k, cs[m])
  <2>1. f[m - 1] \in V
    <3> HIDE DEF V, n
    <3> QED
      BY <1>1
  <2> QED
    BY <1>9, <2>1 DEF Walks
<1> QED
  BY <1>6, <1>7, <1>9, <1>10 DEF Walks

LEMMA AddAllKeepsTable ==
  ASSUME NEW C, NEW e \in Tables(C), NEW k \in Keys, NEW cs \in Seq(C)
  PROVE  AddAll(e, k, cs) \in Tables(C)
<1>1. PICK h \in [0..Len(cs) -> Tables(C)]: h[Len(cs)] = AddAll(e, k, cs)
  BY AddAllClimbs
<1> QED
  BY <1>1

LEMMA PutPairsClimbs ==
  ASSUME NEW C, NEW e \in Tables(C), NEW ps \in Seq(Keys \X C)
  PROVE  \E h \in [0..Len(ps) -> Tables(C)]:
           /\ h[0] = e /\ h[Len(ps)] = PutPairs(e, ps)
           /\ \A m \in 1..Len(ps): h[m] = Put(h[m - 1], ps[m][1], ps[m][2])
<1> DEFINE V == Tables(C)
           n == Len(ps)
           F == [i \in 1..n |-> [v \in V |-> Put(v, ps[i][1], ps[i][2])]]
           Def(g) == g = [s \in SUBSET (DOMAIN ps) |->
                            IF s = {} THEN e ELSE Put(g[s \ {Max(s)}], ps[Max(s)][1], ps[Max(s)][2])]
           c == CHOOSE g: Def(g)
<1>1. n \in Nat /\ DOMAIN ps = 1..n
  OBVIOUS
<1>2. \A i \in 1..n: F[i] \in [V -> V]
  BY PutKeepsTable
<1>3. PICK h \in [SUBSET (1..n) -> V]: Climbs(h, F, e, n)
  <2> HIDE DEF F, V
  <2>1. e \in V
    BY DEF V
  <2> QED
    BY <1>1, <1>2, <2>1, ClimbsExists
<1>4. Def(h)
  <2>1. ASSUME NEW s \in SUBSET (1..n), s # {}
        PROVE  h[s] = Put(h[s \ {Max(s)}], ps[Max(s)][1], ps[Max(s)][2])
    <3>1. Max(s) \in 1..n /\ h[s \ {Max(s)}] \in V
      BY <1>1, <2>1, MaxIs
    <3>2. h[s] = F[Max(s)][h[s \ {Max(s)}]]
      BY <1>3, <2>1 DEF Climbs
    <3> QED
      BY <3>1, <3>2
  <2>2. h[{}] = e
    BY <1>3 DEF Climbs
  <2> QED
    BY <1>1, <1>3, <2>1, <2>2
<1>5. Def(c)
  BY <1>4
<1>6. PutPairs(e, ps) = c[1..n]
  BY <1>1 DEF PutPairs, FoldLeft, MapThenFoldSet
<1> HIDE DEF c
<1>7. c[{}] = e
  BY <1>1, <1>5
<1>8. ASSUME NEW m \in 1..n, c[1..(m - 1)] \in V
      PROVE  c[1..m] = F[m][c[1..(m - 1)]]
  <2>1. 1..m # {} /\ Max(1..m) = m /\ (1..m) \ {m} = 1..(m - 1) /\ 1..m \in SUBSET (1..n)
    <3>1. m \in Nat /\ m # 0 /\ 1..m \in SUBSET (1..n)
      BY <1>1
    <3> QED
      BY <3>1, MaxOfFront
  <2>2. c[1..m] = Put(c[1..(m - 1)], ps[m][1], ps[m][2])
    BY <1>1, <1>5, <2>1
  <2> QED
    BY <1>8, <2>2
<1>9. PICK f \in [0..n -> V]: Walks(f, c, F, n)
  <2>1. e \in V
    BY DEF V
  <2> HIDE DEF F, V, n
  <2>2. Stepwise(c, F, V, n)
    BY <1>2, <1>7, <1>8, <2>1 DEF Stepwise
  <2> QED
    BY <1>1, <2>2, FoldClimbs
<1>10. ASSUME NEW m \in 1..n PROVE f[m] = Put(f[m - 1], ps[m][1], ps[m][2])
  <2>1. f[m - 1] \in V
    <3> HIDE DEF V, n
    <3> QED
      BY <1>1
  <2> QED
    BY <1>9, <2>1 DEF Walks
<1> QED
  BY <1>6, <1>7, <1>9, <1>10 DEF Walks

LEMMA PutPairsKeepTable ==
  ASSUME NEW C, NEW e \in Tables(C), NEW ps \in Seq(Keys \X C)
  PROVE  PutPairs(e, ps) \in Tables(C)
<1>1. PICK h \in [0..Len(ps) -> Tables(C)]: h[Len(ps)] = PutPairs(e, ps)
  BY PutPairsClimbs
<1> QED
  BY <1>1

LEMMA AddPairsClimbs ==
  ASSUME NEW C, NEW e \in Tables(C), NEW ps \in Seq(Keys \X C)
  PROVE  \E h \in [0..Len(ps) -> Tables(C)]:
           /\ h[0] = e /\ h[Len(ps)] = AddPairs(e, ps)
           /\ \A m \in 1..Len(ps): h[m] = Add(h[m - 1], ps[m][1], ps[m][2])
<1> DEFINE V == Tables(C)
           n == Len(ps)
           F == [i \in 1..n |-> [v \in V |-> Add(v, ps[i][1], ps[i][2])]]
           Def(g) == g = [s \in SUBSET (DOMAIN ps) |->
                            IF s = {} THEN e ELSE Add(g[s \ {Max(s)}], ps[Max(s)][1], ps[Max(s)][2])]
           c == CHOOSE g: Def(g)
<1>1. n \in Nat /\ DOMAIN ps = 1..n
  OBVIOUS
<1>2. \A i \in 1..n: F[i] \in [V -> V]
  BY AddKeepsTable
<1>3. PICK h \in [SUBSET (1..n) -> V]: Climbs(h, F, e, n)
  <2> HIDE DEF F, V
  <2>1. e \in V
    BY DEF V
  <2> QED
    BY <1>1, <1>2, <2>1, ClimbsExists
<1>4. Def(h)
  <2>1. ASSUME NEW s \in SUBSET (1..n), s # {}
        PROVE  h[s] = Add(h[s \ {Max(s)}], ps[Max(s)][1], ps[Max(s)][2])
    <3>1. Max(s) \in 1..n /\ h[s \ {Max(s)}] \in V
      BY <1>1, <2>1, MaxIs
    <3>2. h[s] = F[Max(s)][h[s \ {Max(s)}]]
      BY <1>3, <2>1 DEF Climbs
    <3> QED
      BY <3>1, <3>2
  <2>2. h[{}] = e
    BY <1>3 DEF Climbs
  <2> QED
    BY <1>1, <1>3, <2>1, <2>2
<1>5. Def(c)
  BY <1>4
<1>6. AddPairs(e, ps) = c[1..n]
  BY <1>1 DEF AddPairs, FoldLeft, MapThenFoldSet
<1> HIDE DEF c
<1>7. c[{}] = e
  BY <1>1, <1>5
<1>8. ASSUME NEW m \in 1..n, c[1..(m - 1)] \in V
      PROVE  c[1..m] = F[m][c[1..(m - 1)]]
  <2>1. 1..m # {} /\ Max(1..m) = m /\ (1..m) \ {m} = 1..(m - 1) /\ 1..m \in SUBSET (1..n)
    <3>1. m \in Nat /\ m # 0 /\ 1..m \in SUBSET (1..n)
      BY <1>1
    <3> QED
      BY <3>1, MaxOfFront
  <2>2. c[1..m] = Add(c[1..(m - 1)], ps[m][1], ps[m][2])
    BY <1>1, <1>5, <2>1
  <2> QED
    BY <1>8, <2>2
<1>9. PICK f \in [0..n -> V]: Walks(f, c, F, n)
  <2>1. e \in V
    BY DEF V
  <2> HIDE DEF F, V, n
  <2>2. Stepwise(c, F, V, n)
    BY <1>2, <1>7, <1>8, <2>1 DEF Stepwise
  <2> QED
    BY <1>1, <2>2, FoldClimbs
<1>10. ASSUME NEW m \in 1..n PROVE f[m] = Add(f[m - 1], ps[m][1], ps[m][2])
  <2>1. f[m - 1] \in V
    <3> HIDE DEF V, n
    <3> QED
      BY <1>1
  <2> QED
    BY <1>9, <2>1 DEF Walks
<1> QED
  BY <1>6, <1>7, <1>9, <1>10 DEF Walks

LEMMA AddPairsKeepTable ==
  ASSUME NEW C, NEW e \in Tables(C), NEW ps \in Seq(Keys \X C)
  PROVE  AddPairs(e, ps) \in Tables(C)
<1>1. PICK h \in [0..Len(ps) -> Tables(C)]: h[Len(ps)] = AddPairs(e, ps)
  BY AddPairsClimbs
<1> QED
  BY <1>1


LEMMA PopKeepsTable ==
  ASSUME NEW C, NEW e \in Tables(C), NEW k \in Keys, HasKey(e, k)
  PROVE  PopInner(e, k) \in Tables(C)
<1>1. GetAll(e, k) \in Seq(C) /\ GetAll(e, k) # <<>>
  BY GetAllType
<1>2. Tail(GetAll(e, k)) \in Seq(C)
  BY <1>1
<1> QED
  BY <1>2, RemoveKeepsTable, AddAllKeepsTable DEF PopInner

LEMMA ItemsType ==
  ASSUME NEW C, NEW e \in Tables(C)
  PROVE  ItemsOf(e) \in Seq(Keys \X C)
<1> DEFINE s == [i \in DOMAIN e |-> [j \in DOMAIN e[i].vals |-> <<e[i].key, e[i].vals[j]>>]]
<1>1. e \in Seq(Entries(C))
  BY DEF Tables
<1>2. ASSUME NEW i \in DOMAIN e
      PROVE  [j \in DOMAIN e[i].vals |-> <<e[i].key, e[i].vals[j]>>] \in Seq(Keys \X C)
  <2>1. e[i] \in Entries(C)
    BY <1>1
  <2>2. e[i].key \in Keys /\ e[i].vals \in Seq(C)
    BY <2>1 DEF Entries
  <2> QED
    BY <2>2
<1>3. Len(e) \in Nat /\ DOMAIN e = 1..Len(e)
  BY <1>1
<1>4. s \in [1..Len(e) -> Seq(Keys \X C)]
  BY <1>2, <1>3
<1> HIDE DEF s
<1>5. s \in Seq(Seq(Keys \X C))
  BY <1>3, <1>4
<1>6. ItemsOf(e) = FlattenSeq(s)
  BY DEF ItemsOf, s
<1> QED
  BY <1>5, <1>6, FlattenAppend, EmptySeq
-----------------------------------------------------------------------------
(* What the operations do to the values of each key.                        *)
LEMMA SameValues ==
  ASSUME NEW C, NEW e \in Tables(C), NEW f \in Tables(C), NEW j \in Keys,
         \A i \in DOMAIN e: e[i].key = j => \E l \in DOMAIN f: f[l] = e[i],
         \A i \in DOMAIN f: f[i].key = j => \E l \in DOMAIN e: e[l] = f[i]
  PROVE  GetAll(f, j) = GetAll(e, j)
<1>1. CASE HasKey(e, j)
  <2>1. PICK i \in DOMAIN e: e[i].key = j
    BY <1>1 DEF HasKey
  <2>2. PICK l \in DOMAIN f: f[l] = e[i]
    BY <2>1
  <2>3. GetAll(e, j) = e[i].vals
    BY <2>1, AtUnique
  <2>4. GetAll(f, j) = f[l].vals
    BY <2>1, <2>2, AtUnique
  <2> QED
    BY <2>2, <2>3, <2>4
<1>2. CASE ~HasKey(e, j)
  <2>1. ~HasKey(f, j)
    BY <1>2 DEF HasKey
  <2> QED
    BY <1>2, <2>1 DEF GetAll
<1> QED
  BY <1>1, <1>2

Written(e, k, vs) == IF HasKey(e, k) THEN [e EXCEPT ![At(e, k)].vals = vs]
                                     ELSE Append(e, [key |-> k, vals |-> vs])

LEMMA WriteValues ==
  ASSUME NEW C, NEW e \in Tables(C), NEW k \in Keys, NEW vs \in Seq(C) \ {<<>>}, NEW j \in Keys
  PROVE  GetAll(Written(e, k, vs), j) = IF j = k THEN vs ELSE GetAll(e, j)
<1>1. e \in Seq(Entries(C))
  BY DEF Tables
<1>2. ASSUME HasKey(e, k)
      PROVE  GetAll([e EXCEPT ![At(e, k)].vals = vs], j) = IF j = k THEN vs ELSE GetAll(e, j)
  <2>1. PICK a \in DOMAIN e: a = At(e, k) /\ e[a].key = k
    BY <1>2, AtIs
  <2>2. PICK f \in Tables(C): f = [e EXCEPT ![a].vals = vs]
    BY <1>2, <2>1, WriteKeepsTable
  <2>3. /\ DOMAIN f = DOMAIN e /\ \A i \in DOMAIN e: i # a => f[i] = e[i]
        /\ f[a].key = k /\ f[a].vals = vs
    <3>1. e[a] \in Entries(C)
      BY <1>1
    <3> QED
      BY <1>1, <2>1, <2>2, <3>1 DEF Entries
  <2>4. CASE j = k
    <3>1. GetAll(f, k) = vs
      BY <2>3, AtUnique
    <3> QED
      BY <2>1, <2>2, <2>4, <3>1
  <2>5. CASE j # k
    <3>1. \A i \in DOMAIN e: e[i].key = j => f[i] = e[i]
      BY <2>1, <2>3, <2>5
    <3>2. \A i \in DOMAIN f: f[i].key = j => e[i] = f[i]
      BY <2>3, <2>5
    <3>3. GetAll(f, j) = GetAll(e, j)
      BY <2>3, <3>1, <3>2, SameValues
    <3> QED
      BY <2>1, <2>2, <2>5, <3>3
  <2> QED
    BY <2>4, <2>5
<1>3. ASSUME ~HasKey(e, k)
      PROVE  GetAll(Append(e, [key |-> k, vals |-> vs]), j) = IF j = k THEN vs ELSE GetAll(e, j)
  <2>1. PICK x \in Entries(C): x = [key |-> k, vals |-> vs]
    BY DEF Entries
  <2>2. PICK f \in Tables(C): f = Append(e, x)
    BY <1>3, <2>1, WriteKeepsTable
  <2>3. PICK n \in Nat: n = Len(e)
    BY <1>1
  <2>4. /\ DOMAIN f = 1..(n + 1) /\ DOMAIN e = 1..n
        /\ f[n + 1] = x /\ \A i \in 1..n: f[i] = e[i]
    BY <1>1, <2>2, <2>3
  <2>5. x.key = k /\ x.vals = vs
    BY <2>1
  <2>6. CASE j = k
    <3>1. n + 1 \in DOMAIN f
      BY <2>4
    <3>2. GetAll(f, k) = vs
      BY <2>4, <2>5, <3>1, AtUnique
    <3> QED
      BY <2>1, <2>2, <2>6, <3>2
  <2>7. CASE j # k
    <3>1. \A i \in DOMAIN e: i \in DOMAIN f /\ f[i] = e[i]
      BY <2>4
    <3>2. ASSUME NEW i \in DOMAIN f, f[i].key = j PROVE i \in DOMAIN e /\ e[i] = f[i]
      <4>1. i # n + 1
        BY <2>4, <2>5, <2>7, <3>2
      <4> QED
        BY <2>4, <4>1
    <3>3. GetAll(f, j) = GetAll(e, j)
      BY <3>1, <3>2, SameValues
    <3> QED
      BY <2>1, <2>2, <2>7, <3>3
  <2> QED
    BY <2>6, <2>7
<1> QED
  BY <1>2, <1>3 DEF Written

LEMMA PutValues ==
  ASSUME NEW C, NEW e \in Tables(C), NEW k \in Keys, NEW c \in C, NEW j \in Keys
  PROVE  GetAll(Put(e, k, c), j) = IF j = k THEN <<c>> ELSE GetAll(e, j)
<1>1. PICK vs \in Seq(C) \ {<<>>}: vs = <<c>>
  <2>1. <<c>> \in Seq(C) \ {<<>>}
    OBVIOUS
  <2> QED
    BY <2>1
<1>2. HasKey(e, k) => At(e, k) \in DOMAIN e
  BY AtIs
<1>3. Put(e, k, c) = Written(e, k, vs)
  BY <1>1, <1>2 DEF Put, Written
<1>4. GetAll(Written(e, k, vs), j) = IF j = k THEN vs ELSE GetAll(e, j)
  BY WriteValues
<1> QED
  BY <1>1, <1>3, <1>4

LEMMA AddValues ==
  ASSUME NEW C, NEW e \in Tables(C), NEW k \in Keys, NEW c \in C, NEW j \in Keys
  PROVE  GetAll(Add(e, k, c), j) = IF j = k THEN Append(GetAll(e, k), c) ELSE GetAll(e, j)
<1>1. PICK us \in Seq(C): us = GetAll(e, k)
  BY GetAllType
<1>2. PICK vs \in Seq(C) \ {<<>>}: vs = Append(us, c)
  <2>1. Append(us, c) \in Seq(C) /\ Append(us, c) # <<>>
    BY AppendProperties
  <2> QED
    BY <2>1
<1>3. Add(e, k, c) = Written(e, k, vs)
  <2>1. CASE HasKey(e, k)
    <3>1. us = e[At(e, k)].vals
      BY <1>1, <2>1 DEF GetAll
    <3> QED
      BY <1>2, <2>1, <3>1 DEF Add, Written
  <2>2. CASE ~HasKey(e, k)
    <3>1. us = <<>>
      BY <1>1, <2>2 DEF GetAll
    <3>2. vs = <<c>>
      BY <1>2, <3>1
    <3> QED
      BY <2>2, <3>2 DEF Add, Written
  <2> QED
    BY <2>1, <2>2
<1>4. GetAll(Written(e, k, vs), j) = IF j = k THEN vs ELSE GetAll(e, j)
  BY WriteValues
<1> QED
  BY <1>1, <1>2, <1>3, <1>4

LEMMA RemoveValues ==
  ASSUME NEW C, NEW e \in Tables(C), NEW k \in Keys, NEW j \in Keys
  PROVE  GetAll(RemoveKey(e, k), j) = IF j = k THEN <<>> ELSE GetAll(e, j)
<1>1. CASE ~HasKey(e, k)
  BY <1>1 DEF RemoveKey, GetAll
<1>2. CASE HasKey(e, k)
  <2>1. PICK a \in DOMAIN e: a = At(e, k) /\ e[a].key = k
    BY <1>2, AtIs
  <2>2. PICK n \in Nat: n = Len(e)
    BY DEF Tables
  <2>3. e \in Seq(Entries(C)) /\ DOMAIN e = 1..n /\ n # 0 /\ n \in 1..n
    BY <2>1, <2>2 DEF Tables
  <2>4. PICK f: f = [e EXCEPT ![a] = e[n]]
    OBVIOUS
  <2>5. f \in Seq(Entries(C)) /\ Len(f) = n /\ \A i \in 1..n: f[i] = IF i = a THEN e[n] ELSE e[i]
    BY <2>2, <2>3, <2>4
  <2>6. PICK g \in Tables(C): g = RemoveKey(e, k)
    BY RemoveKeepsTable
  <2>7. DOMAIN g = 1..(n - 1) /\ \A i \in 1..(n - 1): g[i] = IF i = a THEN e[n] ELSE e[i]
    <3>1. g = SubSeq(f, 1, n - 1)
      BY <1>2, <2>1, <2>2, <2>4, <2>5, <2>6 DEF RemoveKey, Front, Last
    <3> QED
      BY <2>3, <2>5, <3>1
  <2>8. \A i \in 1..n: e[i].key = k => i = a
    BY <2>1, <2>3 DEF Tables
  <2>9. CASE j = k
    <3>1. \A i \in 1..(n - 1): g[i].key # k
      BY <2>3, <2>7, <2>8
    <3>2. ~HasKey(g, k)
      BY <2>7, <3>1 DEF HasKey
    <3> QED
      BY <2>6, <2>9, <3>2 DEF GetAll
  <2>10. CASE j # k
    <3>1. ASSUME NEW i \in DOMAIN e, e[i].key = j PROVE \E l \in DOMAIN g: g[l] = e[i]
      <4>1. i # a /\ i \in 1..n
        BY <2>1, <2>3, <2>10, <3>1
      <4>2. CASE i = n
        <5>1. a \in 1..(n - 1)
          BY <2>3, <4>1, <4>2
        <5> QED
          BY <2>7, <4>2, <5>1
      <4>3. CASE i # n
        <5>1. i \in 1..(n - 1)
          BY <4>1, <4>3
        <5> QED
          BY <2>7, <4>1, <5>1
      <4> QED
        BY <4>2, <4>3
    <3>2. ASSUME NEW i \in DOMAIN g PROVE \E l \in DOMAIN e: e[l] = g[i]
      <4>1. i \in 1..n
        BY <2>7
      <4> QED
        BY <2>3, <2>7, <4>1
    <3>3. GetAll(g, j) = GetAll(e, j)
      BY <3>1, <3>2, SameValues
    <3> QED
      BY <2>6, <2>10, <3>3
  <2> QED
    BY <2>9, <2>10
<1> QED
  BY <1>1, <1>2

(* A list grows at its end, with something in front of it or not.           *)
LEMMA PrefixGrows ==
  ASSUME NEW S, NEW s \in Seq(S), NEW m \in 1..Len(s)
  PROVE  SubSeq(s, 1, m) = Append(SubSeq(s, 1, m - 1), s[m])
<1>1. SubSeq(s, 1, m) \in Seq(S) /\ SubSeq(s, 1, m - 1) \in Seq(S)
  BY SubSeqProperties
<1>2. PICK t \in Seq(S), u \in Seq(S): t = SubSeq(s, 1, m) /\ u = SubSeq(s, 1, m - 1)
  BY <1>1
<1>3. Len(t) = m /\ \A i \in 1..m: t[i] = s[i]
  BY <1>2
<1>4. Len(u) = m - 1 /\ \A i \in 1..(m - 1): u[i] = s[i]
  BY <1>2
<1>5. PICK v \in Seq(S): v = Append(u, s[m])
  <2>1. Append(u, s[m]) \in Seq(S)
    BY <1>2
  <2> QED
    BY <2>1
<1>6. Len(v) = m /\ \A i \in 1..m: v[i] = IF i = m THEN s[m] ELSE u[i]
  BY <1>4, <1>5
<1>7. \A i \in 1..m: v[i] = t[i]
  BY <1>3, <1>4, <1>6
<1>8. v = t
  BY <1>3, <1>6, <1>7, SeqEqual
<1> QED
  BY <1>2, <1>5, <1>8

Joined(s, t) == s \o t

LEMMA ConcatAppend ==
  ASSUME NEW S, NEW s \in Seq(S), NEW t \in Seq(S), NEW x \in S
  PROVE  Longer(Joined(s, t), x) = Joined(s, Longer(t, x))
<1>1. PICK one \in Seq(S): one = <<x>>
  <2>1. <<x>> \in Seq(S)
    OBVIOUS
  <2> QED
    BY <2>1
<1>2. s \o t \in Seq(S)
  BY ConcatProperties
<1>3. Append(s \o t, x) = (s \o t) \o one
  BY <1>1, <1>2, AppendIsConcat
<1>4. Append(t, x) = t \o one
  BY <1>1, AppendIsConcat
<1>5. (s \o t) \o one = s \o (t \o one)
  BY ConcatAssociative
<1> QED
  BY <1>3, <1>4, <1>5 DEF Longer, Joined

LEMMA AddAllValues ==
  ASSUME NEW C, NEW e \in Tables(C), NEW k \in Keys, NEW cs \in Seq(C), NEW j \in Keys
  PROVE  GetAll(AddAll(e, k, cs), j) = IF j = k THEN GetAll(e, k) \o cs ELSE GetAll(e, j)
<1> DEFINE n == Len(cs)
<1>1. n \in Nat /\ GetAll(e, k) \in Seq(C)
  BY GetAllType
<1>2. PICK h \in [0..n -> Tables(C)]:
         /\ h[0] = e /\ h[n] = AddAll(e, k, cs)
         /\ \A m \in 1..n: h[m] = Add(h[m - 1], k, cs[m])
  BY AddAllClimbs
<1> DEFINE Is(m) == GetAll(h[m], j) = IF j = k THEN GetAll(e, k) \o SubSeq(cs, 1, m) ELSE GetAll(e, j)
           P == {m \in Nat: m <= n => Is(m)}
<1>3. Is(0)
  <2>1. SubSeq(cs, 1, 0) = <<>>
    OBVIOUS
  <2>2. GetAll(e, k) \o <<>> = GetAll(e, k)
    BY <1>1, ConcatEmptySeq
  <2> QED
    BY <1>2, <2>1, <2>2
<1>4. ASSUME NEW m \in Nat, Is(m), m + 1 <= n PROVE Is(m + 1)
  <2>1. m + 1 \in 1..n /\ (m + 1) - 1 = m /\ m \in 0..n /\ cs[m + 1] \in C
    BY <1>1, <1>4
  <2>2. h[m + 1] = Add(h[m], k, cs[m + 1])
    BY <1>2, <2>1
  <2>3. PICK f \in Tables(C), c \in C: f = h[m] /\ c = cs[m + 1]
    BY <1>2, <2>1
  <2>4. GetAll(h[m + 1], j) = IF j = k THEN Append(GetAll(h[m], k), c) ELSE GetAll(h[m], j)
    <3>1. GetAll(Add(f, k, c), j) = IF j = k THEN Append(GetAll(f, k), c) ELSE GetAll(f, j)
      BY AddValues
    <3> QED
      BY <2>2, <2>3, <3>1
  <2>5. PICK us \in Seq(C), t \in Seq(C): us = GetAll(e, k) /\ t = SubSeq(cs, 1, m)
    BY <1>1, <2>1, SubSeqProperties
  <2>6. SubSeq(cs, 1, m + 1) = Append(t, c)
    BY <2>1, <2>3, <2>5, PrefixGrows
  <2>7. Longer(Joined(us, t), c) = Joined(us, Longer(t, c))
    BY ConcatAppend
  <2>8. CASE j = k
    BY <1>4, <2>4, <2>5, <2>6, <2>7, <2>8, Zenon DEF Longer, Joined
  <2>9. CASE j # k
    BY <1>4, <2>4, <2>9, Zenon
  <2> QED
    BY <2>8, <2>9
<1> HIDE DEF Is
<1>5. 0 \in P /\ \A m \in Nat: m \in P => m + 1 \in P
  BY <1>3, <1>4
<1> HIDE DEF P
<1>6. n \in P
  BY <1>1, <1>5, Induction
<1>7. Is(n)
  BY <1>1, <1>6 DEF P
<1>8. SubSeq(cs, 1, n) = cs
  BY SubSeqFull
<1> QED
  BY <1>2, <1>7, <1>8 DEF Is

LEMMA PopValues ==
  ASSUME NEW C, NEW e \in Tables(C), NEW k \in Keys, HasKey(e, k), NEW j \in Keys
  PROVE  GetAll(PopInner(e, k), j) = IF j = k THEN Tail(GetAll(e, k)) ELSE GetAll(e, j)
<1>1. GetAll(e, k) \in Seq(C) /\ GetAll(e, k) # <<>>
  BY GetAllType
<1>2. PICK rest \in Seq(C): rest = Tail(GetAll(e, k))
  <2>1. Tail(GetAll(e, k)) \in Seq(C)
    BY <1>1
  <2> QED
    BY <2>1
<1>3. PICK f \in Tables(C): f = RemoveKey(e, k)
  BY RemoveKeepsTable
<1>4. GetAll(f, k) = <<>> /\ (j # k => GetAll(f, j) = GetAll(e, j))
  BY <1>3, RemoveValues
<1>5. <<>> \o rest = rest
  BY ConcatEmptySeq
<1>6. GetAll(AddAll(f, k, rest), j) = IF j = k THEN GetAll(f, k) \o rest ELSE GetAll(f, j)
  BY AddAllValues
<1> QED
  BY <1>2, <1>3, <1>4, <1>5, <1>6 DEF PopInner

-----------------------------------------------------------------------------
(* What a step does to the maps and to the iterator.                        *)
Contents == Tables(MayHold)
IterStep == DropIter \/ (\E t \in Threads: NextItem(t)) \/ (\E t \in Threads, m \in Maps: NewItems(t, m))
MapStep == \/ UNCHANGED <<map, iter>>
           \/ \E m \in Maps: \E e \in Contents: Store(m, e)
           \/ IterStep

LEMMA CellsAre ==
  /\ PlainCells \subseteq MayHold
  /\ \A v \in Vals: Given(v) \in MayHold
  /\ MayHold \subseteq Cells
  /\ \A c \in Cells: Plain(c) \in Cells
<1>1. SafeCells \subseteq Cells
  BY DEF SafeCells
<1>2. \A v \in Vals, b \in BOOLEAN: Cell(v, b) \in Cells /\ Cell(v, b).v = v /\ Cell(v, b).s = b
  BY DEF Cells, Cell
<1>3. PlainCells \subseteq SafeCells
  <2> SUFFICES ASSUME NEW c \in PlainCells PROVE c \in SafeCells
    OBVIOUS
  <2>1. PICK v \in Vals \ Secrets: c = Cell(v, FALSE)
    BY DEF PlainCells
  <2> QED
    BY <1>2, <2>1 DEF SafeCells
<1>4. ASSUME NEW v \in Vals PROVE Given(v) \in SafeCells
  <2>1. CASE v \in Secrets
    <3>1. Given(v) = Cell(v, TRUE)
      BY <2>1, Zenon DEF Given
    <3> QED
      BY <1>2, <3>1 DEF SafeCells
  <2>2. CASE v \notin Secrets
    <3>1. (v \in Secrets) = FALSE
      BY <2>2
    <3>2. Given(v) = Cell(v, FALSE)
      BY <3>1, Zenon DEF Given
    <3> QED
      BY <1>2, <2>2, <3>2 DEF SafeCells
  <2> QED
    BY <2>1, <2>2
<1>5. ASSUME NEW c \in Cells PROVE Plain(c) \in Cells
  <2>1. PICK v \in Vals, b \in BOOLEAN: c = Cell(v, b)
    BY DEF Cells
  <2>2. Plain(c) = Cell(v, FALSE)
    BY <1>2, <2>1 DEF Plain
  <2> QED
    BY <1>2, <2>2
<1> QED
  BY <1>1, <1>3, <1>4, <1>5 DEF MayHold

(* The pairs of a call are pairs of a key in use and a plain value.         *)
LEMMA PairsType ==
  ASSUME LockInv, NEW ps \in SomePairs
  PROVE  ps \in Seq(Keys \X MayHold)
<1>1. PICK n \in 0..MaxPairs: ps \in [1..n -> world.keys \X PlainCells]
  BY DEF SomePairs, BoundedSeq, SeqOf
<1>2. n \in Nat /\ world.keys \subseteq Keys
  BY <1>1, HeaderAssumption DEF LockInv
<1>3. ps \in [1..n -> Keys \X MayHold]
  BY <1>1, <1>2, CellsAre
<1> QED
  BY <1>2, <1>3

LEMMA WorldType ==
  ASSUME LockInv
  PROVE  world.threads \subseteq Threads /\ world.maps \subseteq Maps /\ world.keys \subseteq Keys
BY HeaderAssumption DEF LockInv

LEMMA KeyCallStep ==
  ASSUME HeaderInv, NEW t \in Threads, NEW m \in Maps, NEW k \in Keys, KeyCall(t, m, k)
  PROVE  MapStep /\ UNCHANGED <<gone, locks>>
<1>1. map[m] \in Contents
  BY DEF HeaderInv, TablesInv, Contents
<1>2. UNCHANGED <<gone, locks>>
  BY DEF KeyCall, DelItem, Pop, PopAll, Answer
<1>3. RemoveKey(map[m], k) \in Contents
  BY <1>1, RemoveKeepsTable DEF Contents
<1>4. HasKey(map[m], k) => PopInner(map[m], k) \in Contents
  BY <1>1, PopKeepsTable DEF Contents
<1> QED
  BY <1>2, <1>3, <1>4 DEF KeyCall, DelItem, Pop, PopAll, PopKey, MapStep

LEMMA ValueCallStep ==
  ASSUME HeaderInv, NEW t \in Threads, NEW m \in Maps, NEW k \in Keys, ValueCall(t, m, k)
  PROVE  MapStep /\ UNCHANGED <<gone, locks>>
<1>1. map[m] \in Contents
  BY DEF HeaderInv, TablesInv, Contents
<1>2. \A c \in MayHold: Put(map[m], k, c) \in Contents /\ Add(map[m], k, c) \in Contents
  BY <1>1, PutKeepsTable, AddKeepsTable DEF Contents
<1>3. CASE \E c \in PlainCells: SetItem(t, m, k, c) \/ SetDefault(t, m, k, c)
  BY <1>2, <1>3, CellsAre DEF SetItem, SetDefault, MapStep, Answer
<1>4. CASE \E v \in Vals: Insert(t, m, k, v) \/ AppendValue(t, m, k, v)
  BY <1>2, <1>4, CellsAre DEF Insert, AppendValue, MapStep, Answer
<1> QED
  BY <1>3, <1>4 DEF ValueCall

LEMMA PairsCallStep ==
  ASSUME HeaderInv, NEW t \in Threads, NEW m \in Maps, PairsCall(t, m)
  PROVE  MapStep /\ UNCHANGED <<gone, locks>>
<1>1. map[m] \in Contents
  BY DEF HeaderInv, TablesInv, Contents
<1>2. \A ps \in SomePairs: PutPairs(map[m], ps) \in Contents /\ AddPairs(map[m], ps) \in Contents
  BY <1>1, PairsType, PutPairsKeepTable, AddPairsKeepTable DEF Contents, HeaderInv
<1> QED
  BY <1>2 DEF PairsCall, UpdatePairs, ExtendPairs, MapStep, Answer

LEMMA MapCallStep ==
  ASSUME HeaderInv, NEW t \in Threads, NEW m \in Maps, MapCall(t, m)
  PROVE  MapStep
<1>1. map[m] \in Contents
  BY DEF HeaderInv, TablesInv, Contents
<1>2. CASE PopItem(t, m)
  <2>1. CASE map[m] = <<>>
    BY <1>2, <2>1 DEF PopItem, MapStep
  <2>2. CASE map[m] # <<>>
    <3>1. 1 \in DOMAIN map[m] /\ map[m][1] \in Entries(MayHold)
      BY <1>1, <2>2, EmptySeq DEF Contents, Tables
    <3>2. PICK k \in Keys: k = map[m][1].key
      BY <3>1 DEF Entries
    <3>3. PopKey(m, k)
      BY <1>2, <2>2, <3>2 DEF PopItem
    <3>4. HasKey(map[m], k) => PopInner(map[m], k) \in Contents
      BY <1>1, PopKeepsTable DEF Contents
    <3> QED
      BY <3>3, <3>4 DEF PopKey, MapStep
  <2> QED
    BY <2>1, <2>2
<1>3. CASE Clear(t, m)
  BY <1>3, EmptyTable DEF Clear, MapStep, Contents
<1>4. CASE Take(t, m)
  BY <1>4 DEF Take, MapStep
<1>5. CASE PairsCall(t, m)
  BY <1>5, PairsCallStep
<1>6. CASE LongCall(t, m)
  BY <1>6 DEF LongCall, StartFromPython, StartFromMap, Start, MapStep
<1>7. CASE Block(t, m)
  BY <1>7 DEF Block, MapStep
<1>8. CASE NewItems(t, m)
  BY <1>8 DEF MapStep, IterStep
<1>9. CASE \E n \in world.maps: Copy(t, m, n)
  <2>1. PICK n \in Maps: Copy(t, m, n)
    BY <1>9, WorldType DEF HeaderInv
  <2> QED
    BY <1>1, <2>1 DEF Copy, MapStep
<1>10. CASE \E k \in world.keys: KeyCall(t, m, k) \/ ValueCall(t, m, k)
  <2>1. PICK k \in Keys: KeyCall(t, m, k) \/ ValueCall(t, m, k)
    BY <1>10, WorldType DEF HeaderInv
  <2> QED
    BY <2>1, KeyCallStep, ValueCallStep
<1> QED
  BY <1>2, <1>3, <1>4, <1>5, <1>6, <1>7, <1>8, <1>9, <1>10 DEF MapCall

LEMMA ProceedStep ==
  ASSUME HeaderInv, NEW t \in Threads, Proceed(t)
  PROVE  MapStep
<1>1. call[t] \in Calls
  BY DEF HeaderInv, LockInv
<1>2. CASE FinishFromMap(t)
  <2>1. call[t].kind = "map"
    BY <1>2 DEF FinishFromMap
  <2>2. PICK m \in Maps, n \in Maps: m = call[t].on /\ n = call[t].src
    BY <1>1, <2>1 DEF Calls, Idle
  <2>3. MayHold = Cells /\ map[m] \in Tables(Cells) /\ map[n] \in Tables(Cells)
    BY <2>1 DEF HeaderInv, LockInv, TablesInv, MayHold
  <2> DEFINE is == ItemsOf(map[n])
             ps == [i \in DOMAIN is |-> <<is[i][1], Plain(is[i][2])>>]
  <2>4. is \in Seq(Keys \X Cells)
    BY <2>3, ItemsType
  <2>5. ps \in Seq(Keys \X Cells)
    <3> HIDE DEF is
    <3> QED
      BY <2>4, CellsAre
  <2>6. PutPairs(map[m], ps) \in Contents /\ AddPairs(map[m], ps) \in Contents
    <3> HIDE DEF ps
    <3> QED
      BY <2>3, <2>5, PutPairsKeepTable, AddPairsKeepTable DEF Contents
  <2>7. \/ UNCHANGED <<map, iter>>
        \/ MergePairs(call[t].op, m, ps, "ok")
    BY <1>2, <2>2 DEF FinishFromMap
  <2> QED
    BY <2>6, <2>7 DEF MergePairs, MapStep
<1>3. CASE Wake(t)
  BY <1>3 DEF Wake, MapStep
<1>4. CASE \E ps \in SomePairs: FinishFromPython(t, ps)
  <2>1. PICK ps \in SomePairs: FinishFromPython(t, ps)
    BY <1>4
  <2>2. PICK m \in Maps: m = call[t].on
    BY <1>1, <2>1 DEF Calls, Idle, FinishFromPython
  <2>3. map[m] \in Tables(MayHold) /\ ps \in Seq(Keys \X MayHold)
    BY PairsType DEF HeaderInv, TablesInv
  <2>4. PutPairs(map[m], ps) \in Contents /\ AddPairs(map[m], ps) \in Contents
    BY <2>3, PutPairsKeepTable, AddPairsKeepTable DEF Contents
  <2> QED
    BY <2>1, <2>2, <2>4 DEF FinishFromPython, MergePairs, MapStep
<1> QED
  BY <1>2, <1>3, <1>4 DEF Proceed

LEMMA NextIsMapStep ==
  ASSUME HeaderInv, Next
  PROVE  MapStep
<1>1. CASE DropIter
  BY <1>1 DEF MapStep, IterStep
<1>2. ASSUME NEW t \in world.threads,
             Proceed(t) \/ NextItem(t) \/ \E m \in world.maps: MapCall(t, m)
      PROVE  MapStep
  <2>1. t \in Threads /\ world.maps \subseteq Maps
    BY WorldType DEF HeaderInv
  <2>2. CASE NextItem(t)
    BY <2>1, <2>2 DEF MapStep, IterStep
  <2> QED
    BY <1>2, <2>1, <2>2, ProceedStep, MapCallStep
<1> QED
  BY <1>1, <1>2 DEF Next

-----------------------------------------------------------------------------
(* The mutexes.                                                             *)
Grows == long' >= long /\ world' = world

LEMMA SameLocks ==
  ASSUME LockInv, UNCHANGED locks, gone' \subseteq Maps
  PROVE  LockInv' /\ Grows
<1>1. long' = long /\ long \in Nat
  BY HeaderAssumption DEF LockInv, locks
<1> QED
  BY <1>1 DEF LockInv, locks, Grows

LEMMA StartKeepsLocks ==
  ASSUME LockInv, NEW t \in Threads, NEW m \in Maps, NEW c \in Calls, Start(t, m, c),
         c.kind \in {"map", "python"}, c.on = m, c.kind = "map" => world.from # {},
         gil' \in Threads \union {Nobody}
  PROVE  LockInv' /\ Grows
<1>1. long \in Nat /\ long' = long + 1 /\ long' \in 0..MaxLong /\ world' = world /\ gone' = gone
  BY HeaderAssumption DEF LockInv, Start
<1>2. /\ call' = [call EXCEPT ![t] = c] /\ call' \in [Threads -> Calls]
      /\ holder' = [holder EXCEPT ![m] = t] /\ holder' \in [Maps -> Threads \union {Nobody}]
  BY DEF LockInv, Start
<1>3. call[t].kind = "idle"
  BY DEF Start, Enter, Idle
<1>4. \A n \in Maps \ {m}: holder[n] # Nobody => holder[n] # t
  BY <1>3 DEF LockInv
<1>5. \A n \in Maps: holder'[n] # Nobody => /\ call'[holder'[n]].kind \in {"map", "python"}
                                            /\ call'[holder'[n]].on = n
  <2> SUFFICES ASSUME NEW n \in Maps, holder'[n] # Nobody
               PROVE  /\ call'[holder'[n]].kind \in {"map", "python"}
                      /\ call'[holder'[n]].on = n
    OBVIOUS
  <2>1. CASE n = m
    <3>1. holder'[n] = t /\ call'[t] = c
      BY <1>2, <2>1 DEF LockInv
    <3> QED
      BY <2>1, <3>1
  <2>2. CASE n # m
    <3>1. holder'[n] = holder[n] /\ holder[n] \in Threads /\ holder[n] # t
      BY <1>2, <1>4, <2>2 DEF LockInv
    <3>2. call'[holder[n]] = call[holder[n]]
      BY <1>2, <3>1 DEF LockInv
    <3> QED
      BY <3>1, <3>2 DEF LockInv
  <2> QED
    BY <2>1, <2>2
<1>6. \A u \in Threads: call'[u].kind = "map" => long' > 0 /\ world'.from # {}
  <2> SUFFICES ASSUME NEW u \in Threads, call'[u].kind = "map" PROVE long' > 0 /\ world'.from # {}
    OBVIOUS
  <2>1. CASE u = t
    BY <1>1, <1>2, <2>1 DEF LockInv
  <2>2. CASE u # t
    <3>1. call'[u] = call[u]
      BY <1>2, <2>2 DEF LockInv
    <3> QED
      BY <1>1, <3>1 DEF LockInv
  <2> QED
    BY <2>1, <2>2
<1> QED
  BY <1>1, <1>2, <1>5, <1>6 DEF LockInv, Grows

(* A thread that is not inside a long call, or leaves the one it is in.     *)
LEMMA CallKeepsLocks ==
  ASSUME LockInv, NEW t \in Threads, NEW c \in Calls, c.kind \in {"idle", "blocked"},
         call' = [call EXCEPT ![t] = c],
         NEW m,
         holder' = [holder EXCEPT ![m] = Nobody] \/ UNCHANGED holder,
         \A n \in Maps: holder[n] = t /\ t # Nobody => holder'[n] = Nobody,
         gil' \in Threads \union {Nobody}, UNCHANGED <<gone, long, world>>
  PROVE  LockInv' /\ Grows
<1>1. long' = long /\ long \in Nat /\ world' = world /\ gone' = gone
  BY HeaderAssumption DEF LockInv
<1>2. /\ call' \in [Threads -> Calls]
      /\ holder' \in [Maps -> Threads \union {Nobody}]
      /\ \A n \in Maps: holder'[n] \in {Nobody, holder[n]}
  BY DEF LockInv
<1>3. ASSUME NEW n \in Maps, holder'[n] # Nobody
      PROVE  call'[holder'[n]].kind \in {"map", "python"} /\ call'[holder'[n]].on = n
  <2>1. holder'[n] = holder[n] /\ holder[n] # t /\ holder[n] \in Threads
    BY <1>2, <1>3 DEF LockInv
  <2>2. call'[holder[n]] = call[holder[n]]
    BY <2>1 DEF LockInv
  <2> QED
    BY <1>3, <2>1, <2>2 DEF LockInv
<1>4. ASSUME NEW u \in Threads, call'[u].kind = "map"
      PROVE  long' > 0 /\ world'.from # {}
  <2>1. u # t
    BY <1>4 DEF LockInv
  <2>2. call'[u] = call[u]
    BY <2>1 DEF LockInv
  <2> QED
    BY <1>1, <1>4, <2>2 DEF LockInv
<1> QED
  BY <1>1, <1>2, <1>3, <1>4 DEF LockInv, Grows

LEMMA LongCallLocks ==
  ASSUME LockInv, NEW t \in Threads, NEW m \in Maps, LongCall(t, m)
  PROVE  LockInv' /\ Grows
<1>1. PICK op \in Ops: StartFromPython(t, m, op) \/ \E n \in world.maps: StartFromMap(t, m, n, op)
  BY DEF LongCall, Ops
<1>2. CASE StartFromPython(t, m, op)
  <2> DEFINE c == [kind |-> "python", on |-> m, op |-> op]
  <2>1. c \in Calls /\ c.kind = "python" /\ c.on = m
    BY DEF Calls
  <2>2. Start(t, m, c) /\ gil' \in Threads \union {Nobody}
    BY <1>2 DEF StartFromPython, LockInv
  <2> HIDE DEF c
  <2> QED
    BY <2>1, <2>2, StartKeepsLocks
<1>3. CASE \E n \in world.maps: StartFromMap(t, m, n, op)
  <2>1. PICK n \in Maps: StartFromMap(t, m, n, op)
    BY <1>3, WorldType
  <2> DEFINE c == [kind |-> "map", on |-> m, src |-> n, op |-> op]
  <2>2. c \in Calls /\ c.kind = "map" /\ c.on = m
    BY DEF Calls
  <2>3. Start(t, m, c) /\ gil' \in Threads \union {Nobody} /\ world.from # {}
    BY <2>1 DEF StartFromMap
  <2> HIDE DEF c
  <2> QED
    BY <2>2, <2>3, StartKeepsLocks
<1> QED
  BY <1>1, <1>2, <1>3

LEMMA MapCallLocks ==
  ASSUME HeaderInv, NEW t \in Threads, NEW m \in Maps, MapCall(t, m)
  PROVE  LockInv' /\ Grows
<1>1. LockInv /\ gone \subseteq Maps
  BY DEF HeaderInv, LockInv
<1>2. CASE LongCall(t, m)
  BY <1>1, <1>2, LongCallLocks
<1>3. CASE Block(t, m)
  <2> DEFINE c == [kind |-> "blocked", on |-> m]
  <2>1. c \in Calls /\ c.kind = "blocked"
    BY DEF Calls
  <2>2. /\ call' = [call EXCEPT ![t] = c] /\ gil' \in Threads \union {Nobody}
        /\ UNCHANGED <<gone, holder, long, world>> /\ call[t].kind = "idle"
    BY <1>3 DEF Block, Idle
  <2>3. \A n \in Maps: holder[n] = t /\ t # Nobody => holder'[n] = Nobody
    BY <1>1, <2>2 DEF LockInv
  <2> HIDE DEF c
  <2> QED
    BY <1>1, <2>1, <2>2, <2>3, CallKeepsLocks
<1>4. CASE Take(t, m)
  <2>1. UNCHANGED locks /\ gone' \subseteq Maps
    BY <1>1, <1>4 DEF Take
  <2> QED
    BY <1>1, <2>1, SameLocks
<1>5. CASE \/ PopItem(t, m) \/ Clear(t, m) \/ PairsCall(t, m) \/ NewItems(t, m)
           \/ \E n \in world.maps: Copy(t, m, n)
           \/ \E k \in world.keys: KeyCall(t, m, k) \/ ValueCall(t, m, k)
  <2>1. UNCHANGED <<gone, locks>>
    <3>1. CASE PairsCall(t, m)
      BY <3>1, PairsCallStep
    <3>2. CASE \E k \in world.keys: KeyCall(t, m, k) \/ ValueCall(t, m, k)
      BY <1>1, <3>2, WorldType, KeyCallStep, ValueCallStep
    <3> QED
      BY <1>5, <3>1, <3>2 DEF PopItem, Clear, NewItems, Copy, Answer
  <2> QED
    BY <1>1, <2>1, SameLocks
<1> QED
  BY <1>2, <1>3, <1>4, <1>5 DEF MapCall

LEMMA ProceedLocks ==
  ASSUME LockInv, NEW t \in Threads, Proceed(t)
  PROVE  LockInv' /\ Grows
<1>1. Idle \in Calls /\ Idle.kind = "idle"
  BY DEF Calls, Idle
<1>2. call[t] \in Calls
  BY DEF LockInv
<1>3. ASSUME NEW m, Finish(t, m), call[t].on = m PROVE LockInv' /\ Grows
  <2>1. /\ call' = [call EXCEPT ![t] = Idle] /\ holder' = [holder EXCEPT ![m] = Nobody]
        /\ gil' \in Threads \union {Nobody} /\ UNCHANGED <<gone, long, world>>
    BY <1>3 DEF Finish, LockInv
  <2>2. \A n \in Maps: holder[n] = t /\ t # Nobody => holder'[n] = Nobody
    BY <1>3, <2>1 DEF LockInv
  <2> QED
    BY <1>1, <2>1, <2>2, CallKeepsLocks
<1>4. CASE Wake(t)
  <2>1. /\ call' = [call EXCEPT ![t] = Idle] /\ UNCHANGED holder
        /\ gil' \in Threads \union {Nobody} /\ UNCHANGED <<gone, long, world>>
        /\ call[t].kind = "blocked"
    BY <1>4 DEF Wake, LockInv
  <2>2. \A n \in Maps: holder[n] = t /\ t # Nobody => holder'[n] = Nobody
    BY <2>1 DEF LockInv
  <2> QED
    BY <1>1, <2>1, <2>2, CallKeepsLocks
<1> QED
  BY <1>3, <1>4 DEF Proceed, FinishFromMap, FinishFromPython

LEMMA LocksStep ==
  ASSUME HeaderInv, Next
  PROVE  LockInv' /\ Grows
<1>1. LockInv /\ gone \subseteq Maps
  BY DEF HeaderInv, LockInv
<1>2. CASE DropIter
  BY <1>1, <1>2, SameLocks DEF DropIter
<1>3. ASSUME NEW t \in world.threads,
             Proceed(t) \/ NextItem(t) \/ \E m \in world.maps: MapCall(t, m)
      PROVE  LockInv' /\ Grows
  <2>1. t \in Threads /\ world.maps \subseteq Maps
    BY <1>1, WorldType
  <2>2. CASE NextItem(t)
    <3>1. UNCHANGED <<gone, locks>>
      BY <2>2 DEF NextItem
    <3> QED
      BY <1>1, <3>1, SameLocks
  <2> QED
    BY <1>1, <1>3, <2>1, <2>2, ProceedLocks, MapCallLocks
<1> QED
  BY <1>2, <1>3 DEF Next

-----------------------------------------------------------------------------
(* What an iterator has yielded for a key.                                  *)
Yields(out, k) == FlattenSeq([i \in DOMAIN out |-> IF out[i][1] = k THEN <<out[i][2]>> ELSE <<>>])

LEMMA YieldsParts ==
  ASSUME NEW out \in Seq(Keys \X Cells), NEW k
  PROVE  /\ [i \in DOMAIN out |-> IF out[i][1] = k THEN <<out[i][2]>> ELSE <<>>] \in Seq(Seq(Cells))
         /\ Yields(out, k) \in Seq(Cells)
<1>1. [i \in DOMAIN out |-> IF out[i][1] = k THEN <<out[i][2]>> ELSE <<>>] \in Seq(Seq(Cells))
  <2>1. ASSUME NEW i \in DOMAIN out
        PROVE  (IF out[i][1] = k THEN <<out[i][2]>> ELSE <<>>) \in Seq(Cells)
    <3>1. out[i] \in Keys \X Cells
      OBVIOUS
    <3>2. PICK c \in Cells: c = out[i][2]
      BY <3>1
    <3>3. <<c>> \in Seq(Cells) /\ <<>> \in Seq(Cells)
      OBVIOUS
    <3> QED
      BY <3>2, <3>3
  <2>2. DOMAIN out = 1..Len(out) /\ Len(out) \in Nat
    OBVIOUS
  <2> QED
    BY <2>1, <2>2
<1> QED
  BY <1>1, FlattenAppend, EmptySeq DEF Yields

LEMMA YieldsLonger ==
  ASSUME NEW out \in Seq(Keys \X Cells), NEW p \in Keys \X Cells, NEW k
  PROVE  Yields(Longer(out, p), k) = IF p[1] = k THEN Longer(Yields(out, k), p[2]) ELSE Yields(out, k)
<1> DEFINE part(s) == [i \in DOMAIN s |-> IF s[i][1] = k THEN <<s[i][2]>> ELSE <<>>]
           x == IF p[1] = k THEN <<p[2]>> ELSE <<>>
<1>1. PICK t \in Seq(Keys \X Cells): t = Append(out, p)
  BY AppendProperties
<1>2. PICK n \in Nat: n = Len(out)
  OBVIOUS
<1>3. /\ DOMAIN t = 1..(n + 1) /\ DOMAIN out = 1..n
      /\ t[n + 1] = p /\ \A i \in 1..n: t[i] = out[i]
  BY <1>1, <1>2
<1>4. part(out) \in Seq(Seq(Cells)) /\ part(t) \in Seq(Seq(Cells)) /\ x \in Seq(Cells)
  <2>1. <<p[2]>> \in Seq(Cells) /\ <<>> \in Seq(Cells)
    OBVIOUS
  <2>2. x \in Seq(Cells)
    BY <2>1
  <2> HIDE DEF x
  <2> QED
    BY <2>2, YieldsParts
<1>5. part(t) = Append(part(out), x)
  <2>1. Append(part(out), x) \in Seq(Seq(Cells)) /\ Len(part(out)) = n
    BY <1>2, <1>4
  <2>2. Len(part(t)) = n + 1 /\ Len(Append(part(out), x)) = n + 1
    BY <1>2, <1>3, <1>4, <2>1
  <2>3. ASSUME NEW i \in 1..(n + 1) PROVE part(t)[i] = Append(part(out), x)[i]
    <3>1. CASE i = n + 1
      <4>1. part(t)[i] = x
        BY <1>3, <3>1
      <4>2. Append(part(out), x)[n + 1] = x
        <5> HIDE DEF part, x
        <5> QED
          BY <1>4, <2>1
      <4> QED
        BY <3>1, <4>1, <4>2
    <3>2. CASE i \in 1..n
      <4>1. part(t)[i] = part(out)[i]
        BY <1>3, <3>2
      <4>2. Append(part(out), x)[i] = part(out)[i]
        <5> HIDE DEF part, x
        <5> QED
          BY <1>4, <2>1, <3>2
      <4> QED
        BY <4>1, <4>2
    <3> QED
      BY <1>2, <3>1, <3>2
  <2> HIDE DEF part, x
  <2> QED
    BY <1>4, <2>1, <2>2, <2>3, SeqEqual
<1>6. Yields(t, k) = Yields(out, k) \o x
  <2>1. Yields(t, k) = FlattenSeq(part(t)) /\ Yields(out, k) = FlattenSeq(part(out))
    BY DEF Yields
  <2> HIDE DEF part, x
  <2> QED
    BY <1>4, <1>5, <2>1, FlattenAppend
<1>7. PICK ys \in Seq(Cells), c \in Cells: ys = Yields(out, k) /\ c = p[2]
  BY YieldsParts
<1>8. ys \o <<>> = ys /\ ys \o <<c>> = Append(ys, c)
  BY ConcatEmptySeq, AppendIsConcat
<1>9. CASE p[1] = k
  BY <1>1, <1>6, <1>7, <1>8, <1>9, Zenon DEF Longer
<1>10. CASE p[1] # k
  BY <1>1, <1>6, <1>7, <1>8, <1>10, Zenon DEF Longer
<1> QED
  BY <1>9, <1>10

LEMMA YieldsNothing ==
  ASSUME NEW out \in Seq(Keys \X Cells), NEW k, \A i \in DOMAIN out: out[i][1] # k
  PROVE  Yields(out, k) = <<>>
<1> DEFINE s == [i \in DOMAIN out |-> IF out[i][1] = k THEN <<out[i][2]>> ELSE <<>>]
<1>1. s \in Seq(Seq(Cells)) /\ Yields(out, k) \in Seq(Cells)
  BY YieldsParts
<1>2. \A i \in 1..Len(s): Held(s[i]) = {}
  BY DEF Held
<1>3. Held(Yields(out, k)) = {}
  <2>1. Yields(out, k) = FlattenSeq(s)
    BY DEF Yields
  <2> HIDE DEF s
  <2>2. UNION {Held(s[i]): i \in 1..Len(s)} = {}
    BY <1>2
  <2> QED
    BY <1>1, <2>1, <2>2, FlattenHolds
<1>4. PICK q \in Seq(Cells): q = Yields(out, k)
  BY <1>1
<1>5. \A i \in 1..Len(q): FALSE
  BY <1>3, <1>4 DEF Held
<1>6. Len(q) = 0
  <2>1. Len(q) \in Nat
    OBVIOUS
  <2>2. Len(q) # 0 => 1 \in 1..Len(q)
    BY <2>1
  <2> QED
    BY <1>5, <2>2
<1> QED
  BY <1>4, <1>6, EmptySeq

LEMMA YieldedIs == \A k: Yielded(k) = Yields(iter.out, k)
BY DEF Yielded, Yields
-----------------------------------------------------------------------------
(* The maps, and an iterator beside a map that gets a new content.          *)
LEMMA TablesStep ==
  ASSUME HeaderInv, MapStep, LockInv', Grows
  PROVE  TablesInv'
<1>1. MayHold \subseteq MayHold'
  <2>1. long \in Nat /\ long' \in Nat /\ long' >= long /\ world' = world
    BY HeaderAssumption DEF HeaderInv, LockInv, Grows
  <2>2. SafeCells \subseteq Cells
    BY DEF SafeCells
  <2> QED
    BY <2>1, <2>2 DEF MayHold
<1>2. Tables(MayHold) \subseteq Tables(MayHold')
  BY <1>1, TablesGrow
<1>3. map \in [Maps -> Tables(MayHold)]
  BY DEF HeaderInv, TablesInv
<1>4. map' \in [Maps -> Tables(MayHold)]
  <2>1. CASE UNCHANGED map
    BY <1>3, <2>1
  <2>2. CASE \E m \in Maps: \E e \in Contents: Store(m, e)
    BY <1>3, <2>2 DEF Store, Contents
  <2> QED
    BY <2>1, <2>2 DEF MapStep, IterStep, DropIter, NextItem, NewItems
<1> QED
  BY <1>2, <1>4 DEF TablesInv

LEMMA MapIsTable ==
  ASSUME TablesInv
  PROVE  /\ \A m \in Maps: map[m] \in Tables(Cells)
         /\ Contents \subseteq Tables(Cells)
<1>1. Tables(MayHold) \subseteq Tables(Cells)
  BY CellsAre, TablesGrow
<1> QED
  BY <1>1 DEF TablesInv, Contents

LEMMA StoreKeepsIter ==
  ASSUME HeaderInv, NEW m \in Maps, NEW e \in Contents, Store(m, e)
  PROVE  IterInv'
<1>1. e \in Tables(Cells) /\ map \in [Maps -> Tables(MayHold)] /\ map' = [map EXCEPT ![m] = e]
  BY MapIsTable DEF HeaderInv, TablesInv, Store
<1>2. CASE ~iter.open
  <2>1. iter = NoIter
    BY <1>2 DEF HeaderInv, IterInv, Iterators
  <2>2. iter' = NoIter
    BY <2>1 DEF Store, Observe, NoIter
  <2> QED
    BY <2>2 DEF IterInv
<1>3. ASSUME iter.open PROVE iter \in Iterators /\ KeysLeft /\ OutInOrder /\ OutWasSeen /\ SeenInv
  BY <1>3 DEF HeaderInv, IterInv, NoIter
<1>4. CASE iter.open /\ iter.on # m
  <2>1. iter' = iter /\ map'[iter.on] = map[iter.on]
    BY <1>1, <1>3, <1>4 DEF Store, Observe, Iterators
  <2>2. iter' \in Iterators /\ KeysLeft' /\ OutInOrder' /\ OutWasSeen'
    BY <1>3, <1>4, <2>1 DEF KeysLeft, Done, OutInOrder, OutWasSeen, Yielded
  <2>3. SeenInv'
    BY <1>3, <1>4, <2>1 DEF SeenInv
  <2> QED
    BY <2>2, <2>3 DEF IterInv
<1>5. CASE iter.open /\ iter.on = m
  <2> DEFINE seen == iter.seen \union {<<k, GetAll(e, k)>>: k \in Keys}
             touched == iter.touched \union {k \in Keys: GetAll(e, k) # GetAll(map[m], k)}
  <2>1. iter \in Iterators
    BY <1>3, <1>5
  <2>2. iter' = [iter EXCEPT !.changes = @ + 1, !.seen = seen, !.touched = touched]
    BY <1>5 DEF Store, Observe
  <2>3. seen \in SUBSET (Keys \X Seq(Cells))
    BY <1>1, <2>1, GetAllType DEF Iterators
  <2>4. touched \in SUBSET Keys
    BY <2>1 DEF Iterators
  <2> HIDE DEF seen, touched
  <2>5. /\ iter' \in Iterators
        /\ iter'.on = iter.on /\ iter'.keys = iter.keys /\ iter'.cur = iter.cur /\ iter'.base = iter.base
        /\ iter'.out = iter.out /\ iter'.panicked = iter.panicked
        /\ iter'.seen = seen /\ iter'.touched = touched
    <3>1. iter.changes + 1 \in Nat
      BY <2>1 DEF Iterators
    <3>2. /\ iter'.on = iter.on /\ iter'.keys = iter.keys /\ iter'.cur = iter.cur
          /\ iter'.base = iter.base /\ iter'.out = iter.out /\ iter'.panicked = iter.panicked
      BY <2>1, <2>2 DEF Iterators
    <3>3. iter'.seen = seen /\ iter'.touched = touched /\ iter'.changes = iter.changes + 1
      BY <2>1, <2>2 DEF Iterators
    <3>4. iter' \in Iterators
      BY <2>1, <2>2, <2>3, <2>4, <3>1 DEF Iterators
    <3> QED
      BY <3>2, <3>3, <3>4
  <2>6. KeysLeft' /\ OutInOrder'
    BY <1>3, <1>5, <2>5 DEF KeysLeft, Done, OutInOrder
  <2>7. OutWasSeen'
    <3>1. iter.seen \subseteq iter'.seen
      BY <2>5 DEF seen
    <3>2. \A k: Yielded(k)' = Yielded(k)
      BY <2>5 DEF Yielded
    <3>3. Done' = Done
      BY <2>5 DEF Done
    <3> QED
      BY <1>3, <1>5, <2>5, <3>1, <3>2, <3>3 DEF OutWasSeen
  <2>8. SeenInv'
    <3>1. map'[iter.on] = e /\ map[iter.on] = map[m]
      BY <1>1, <1>5
    <3>2. \A k \in Keys: <<k, GetAll(e, k)>> \in seen
      BY DEF seen
    <3>3. ASSUME NEW k \in Keys \ touched, NEW x, <<k, x>> \in seen
          PROVE  x = GetAll(iter.base, k)
      <4>1. k \notin iter.touched /\ GetAll(e, k) = GetAll(map[m], k)
        BY <3>3 DEF touched
      <4>2. GetAll(map[m], k) = GetAll(iter.base, k)
        BY <1>3, <1>5, <4>1 DEF SeenInv
      <4>3. <<k, x>> \in iter.seen \/ x = GetAll(e, k)
        BY <3>3 DEF seen
      <4> QED
        BY <1>3, <1>5, <4>1, <4>2, <4>3 DEF SeenInv
    <3>4. iter.panicked => \E k \in touched: HasKey(iter.base, k) /\ <<k, <<>>>> \in seen
      BY <1>3, <1>5 DEF SeenInv, seen, touched
    <3> QED
      BY <2>5, <3>1, <3>2, <3>3, <3>4 DEF SeenInv
  <2> QED
    BY <2>5, <2>6, <2>7, <2>8 DEF IterInv
<1> QED
  BY <1>2, <1>4, <1>5

-----------------------------------------------------------------------------
(* The steps of the iterator.                                               *)
LEMMA NewItemsKeepsIter ==
  ASSUME HeaderInv, NEW t \in Threads, NEW m \in Maps, NewItems(t, m)
  PROVE  IterInv'
<1> DEFINE e == map[m]
           seen == {<<k, GetAll(e, k)>>: k \in Keys}
<1>1. e \in Tables(Cells) /\ map' = map
  BY MapIsTable DEF HeaderInv, NewItems
<1>2. KeysOnce(e) \in Seq(Keys) /\ Len(KeysOnce(e)) = Len(e) /\ \A i \in 1..Len(e): KeysOnce(e)[i] = e[i].key
  <2> HIDE DEF e
  <2>1. e \in Seq(Entries(Cells))
    BY <1>1 DEF Tables
  <2>2. \A i \in 1..Len(e): e[i] \in Entries(Cells)
    BY <2>1
  <2>3. \A i \in 1..Len(e): e[i].key \in Keys
    BY <2>2 DEF Entries
  <2> QED
    BY <2>1, <2>3 DEF KeysOnce
<1>3. seen \in SUBSET (Keys \X Seq(Cells))
  BY <1>1, GetAllType
<1>4. iter' = [open |-> TRUE, on |-> m, keys |-> KeysOnce(e), cur |-> <<>>, base |-> e, seen |-> seen,
               touched |-> {}, changes |-> 0, out |-> <<>>, panicked |-> FALSE]
  BY DEF NewItems
<1>5. iter' \in Iterators
  <2> HIDE DEF e, seen
  <2>1. KeysOnce(e) \in Seq(Keys)
    BY <1>2
  <2> QED
    BY <1>1, <1>3, <1>4, <2>1 DEF Iterators
<1>6. /\ iter'.on = m /\ iter'.keys = KeysOnce(e) /\ iter'.cur = <<>> /\ iter'.base = e
      /\ iter'.seen = seen /\ iter'.touched = {} /\ iter'.out = <<>> /\ iter'.panicked = FALSE
  <2> HIDE DEF e, seen
  <2> QED
    BY <1>4
<1>7. Done' = 0
  <2>1. Len(e) \in Nat
    BY <1>1 DEF Tables
  <2> HIDE DEF e
  <2> QED
    BY <1>2, <1>6, <2>1 DEF Done
<1>8. KeysLeft'
  <2> HIDE DEF e, seen
  <2> QED
    BY <1>2, <1>6, <1>7 DEF KeysLeft
<1>9. OutInOrder'
  BY <1>6 DEF OutInOrder
<1>10. OutWasSeen'
  <2> HIDE DEF e, seen
  <2> QED
    BY <1>6, <1>7 DEF OutWasSeen
<1>11. SeenInv'
  <2>1. map'[iter'.on] = e
    BY <1>1, <1>6
  <2>2. \A k \in Keys: <<k, GetAll(e, k)>> \in seen
    OBVIOUS
  <2>3. \A k \in Keys: \A x: <<k, x>> \in seen => x = GetAll(e, k)
    OBVIOUS
  <2> HIDE DEF e, seen
  <2> QED
    BY <1>6, <2>1, <2>2, <2>3 DEF SeenInv
<1> QED
  BY <1>5, <1>8, <1>9, <1>10, <1>11 DEF IterInv

(* The key in front, and the values that __next__ takes from.               *)
LEMMA FrontOfIter ==
  ASSUME HeaderInv, NEW t \in Threads, NextItem(t)
  PROVE  /\ iter \in Iterators /\ KeysLeft /\ OutInOrder /\ OutWasSeen /\ SeenInv
         /\ Done \in Nat /\ Done + 1 \in DOMAIN iter.base /\ iter.keys[1] \in Keys
         /\ HasKey(iter.base, iter.keys[1]) /\ At(iter.base, iter.keys[1]) = Done + 1
         /\ \A i \in 1..Done: /\ i \in DOMAIN iter.base /\ iter.base[i].key \in Keys
                              /\ iter.base[i].key # iter.keys[1]
         /\ GetAll(iter.base, iter.keys[1]) # <<>>
<1>1. iter \in Iterators /\ KeysLeft /\ OutInOrder /\ OutWasSeen /\ SeenInv
  BY DEF HeaderInv, IterInv, NextItem, NoIter
<1>2. PICK e \in Tables(Cells), ks \in Seq(Keys): e = iter.base /\ ks = iter.keys
  BY <1>1 DEF Iterators
<1>3. ks # <<>> /\ Len(ks) \in Nat /\ Len(ks) # 0
  BY <1>2, EmptySeq DEF NextItem
<1>4. PICK d \in Nat: d = Done
  <2>1. Len(e) \in Nat
    BY DEF Tables
  <2>2. Done = Len(e) - Len(ks)
    BY <1>2 DEF Done
  <2>3. Done >= 0
    BY <1>1 DEF KeysLeft
  <2> QED
    BY <1>3, <2>1, <2>2, <2>3
<1>5. DOMAIN e = 1..Len(e) /\ Len(e) \in Nat /\ Len(e) = d + Len(ks)
  <2>1. DOMAIN e = 1..Len(e) /\ Len(e) \in Nat
    BY DEF Tables
  <2> QED
    BY <1>2, <1>3, <1>4, <2>1 DEF Done
<1>6. d + 1 \in DOMAIN e /\ ks[1] = e[d + 1].key
  <2>1. 1 \in 1..Len(ks)
    BY <1>3
  <2> QED
    BY <1>1, <1>2, <1>3, <1>4, <1>5, <2>1 DEF KeysLeft
<1>7. ks[1] \in Keys
  BY <1>3
<1>8. HasKey(e, ks[1]) /\ At(e, ks[1]) = d + 1 /\ GetAll(e, ks[1]) # <<>>
  <2>1. HasKey(e, ks[1]) /\ At(e, ks[1]) = d + 1
    BY <1>6, AtUnique
  <2> QED
    BY <1>7, <2>1, GetAllType
<1>9. ASSUME NEW i \in 1..d
      PROVE  i \in DOMAIN e /\ e[i].key \in Keys /\ e[i].key # ks[1]
  <2>1. i \in DOMAIN e /\ i # d + 1
    BY <1>5, <1>9
  <2>2. e[i] \in Entries(Cells)
    BY <2>1 DEF Tables
  <2> QED
    BY <1>6, <2>1, <2>2 DEF Tables, Entries
<1> QED
  BY <1>1, <1>2, <1>4, <1>6, <1>7, <1>8, <1>9

(* Nothing is out for a key that was not reached.                           *)
LEMMA NotReached ==
  ASSUME iter \in Iterators, OutInOrder, NEW k,
         HasKey(iter.base, k) => At(iter.base, k) > Done + (IF iter.cur = <<>> THEN 0 ELSE 1),
         Done \in Int
  PROVE  Yielded(k) = <<>>
<1>1. PICK b \in {0, 1}: b = IF iter.cur = <<>> THEN 0 ELSE 1
  OBVIOUS
<1>2. iter.out \in Seq(Keys \X Cells) /\ iter.base \in Tables(Cells)
  BY DEF Iterators
<1>3. ASSUME NEW i \in DOMAIN iter.out PROVE iter.out[i][1] # k
  <2> SUFFICES ASSUME iter.out[i][1] = k PROVE FALSE
    OBVIOUS
  <2>1. HasKey(iter.base, k) /\ At(iter.base, k) <= Done + b /\ At(iter.base, k) > Done + b
    BY <1>1 DEF OutInOrder
  <2>2. At(iter.base, k) \in Nat
    <3>1. PICK e \in Tables(Cells): e = iter.base
      BY <1>2
    <3>2. At(e, k) \in DOMAIN e
      BY <2>1, <3>1, AtIs
    <3>3. \A n \in DOMAIN e: n \in Nat
      BY DEF Tables
    <3> QED
      BY <3>1, <3>2, <3>3
  <2> QED
    BY <1>1, <2>1, <2>2
<1> QED
  BY <1>2, <1>3, YieldsNothing, YieldedIs

LEMMA NextItemKeepsIter ==
  ASSUME HeaderInv, NEW t \in Threads, NextItem(t)
  PROVE  IterInv'
<1>1. PICK k \in Keys: k = iter.keys[1]
  BY FrontOfIter
<1>2. PICK d \in Nat: d = Done
  BY FrontOfIter
<1>3. /\ iter \in Iterators /\ KeysLeft /\ OutInOrder /\ OutWasSeen /\ SeenInv
      /\ d + 1 \in DOMAIN iter.base /\ HasKey(iter.base, k) /\ At(iter.base, k) = d + 1
      /\ \A i \in 1..d: /\ i \in DOMAIN iter.base /\ iter.base[i].key \in Keys
                        /\ iter.base[i].key # k
      /\ GetAll(iter.base, k) # <<>>
  BY <1>1, <1>2, FrontOfIter
<1> DEFINE fetched == GetAll(map[iter.on], k)
<1>4. iter.on \in Maps /\ fetched \in Seq(Cells) /\ iter.cur \in Seq(Cells)
  BY <1>3, MapIsTable, GetAllType DEF HeaderInv, Iterators
<1>5. PICK cs \in Seq(Cells): cs = IF iter.cur # <<>> THEN iter.cur ELSE fetched
  BY <1>4
<1>6. /\ map' = map
      /\ iter' = IF cs = <<>>
                   THEN [iter EXCEPT !.panicked = TRUE]
                   ELSE [iter EXCEPT !.cur = Tail(cs),
                                     !.keys = IF Len(cs) = 1 THEN Tail(@) ELSE @,
                                     !.out = Append(@, <<k, Head(cs)>>)]
  BY <1>1, <1>5 DEF NextItem
<1>7. <<k, fetched>> \in iter.seen
  BY <1>3 DEF SeenInv
<1> HIDE DEF fetched
<1>8. CASE cs = <<>>
  <2>1. iter.cur = <<>> /\ <<k, <<>>>> \in iter.seen
    BY <1>5, <1>7, <1>8
  <2>2. k \in iter.touched
    BY <1>3, <2>1 DEF SeenInv
  <2>3. iter' \in Iterators
    BY <1>3, <1>6, <1>8 DEF Iterators
  <2>4. /\ iter'.on = iter.on /\ iter'.keys = iter.keys /\ iter'.cur = iter.cur
        /\ iter'.base = iter.base /\ iter'.out = iter.out /\ iter'.seen = iter.seen
        /\ iter'.touched = iter.touched
    BY <1>3, <1>6, <1>8 DEF Iterators
  <2>5. KeysLeft' /\ OutInOrder' /\ OutWasSeen'
    <3>1. Done' = Done /\ \A j: Yielded(j)' = Yielded(j)
      BY <2>4 DEF Done, Yielded
    <3>2. KeysLeft' /\ OutInOrder'
      BY <1>3, <2>4, <3>1 DEF KeysLeft, OutInOrder
    <3>3. OutWasSeen'
      BY <1>3, <2>4, <3>1 DEF OutWasSeen
    <3> QED
      BY <3>2, <3>3
  <2>6. SeenInv'
    BY <1>3, <1>6, <2>1, <2>2, <2>4 DEF SeenInv
  <2> QED
    BY <2>3, <2>5, <2>6 DEF IterInv
<1>9. CASE cs # <<>>
  <2>1. PICK c \in Cells, rest \in Seq(Cells): c = Head(cs) /\ rest = Tail(cs)
    BY <1>9, HeadTailProperties
  <2>2. /\ Len(cs) \in Nat \ {0} /\ (Len(cs) = 1 <=> rest = <<>>) /\ cs = <<c>> \o rest
    BY <1>9, <2>1, EmptySeq
  <2>3. iter.keys \in Seq(Keys) /\ iter.keys # <<>> /\ iter.out \in Seq(Keys \X Cells)
        /\ iter.base \in Tables(Cells)
    BY <1>3 DEF NextItem, Iterators
  <2>4. PICK n \in Nat: n = Len(iter.keys)
    BY <2>3
  <2>5. PICK out \in Seq(Keys \X Cells): out = Append(iter.out, <<k, c>>)
    <3>1. <<k, c>> \in Keys \X Cells
      OBVIOUS
    <3> QED
      BY <2>3, <3>1, AppendProperties
  <2>6. PICK ks \in Seq(Keys): ks = IF rest = <<>> THEN Tail(iter.keys) ELSE iter.keys
    BY <2>3, HeadTailProperties
  <2>7. iter' = [iter EXCEPT !.cur = rest, !.keys = ks, !.out = out]
    BY <1>3, <1>6, <1>9, <2>1, <2>2, <2>5, <2>6 DEF Iterators
  <2>8. /\ iter' \in Iterators
        /\ iter'.on = iter.on /\ iter'.base = iter.base /\ iter'.seen = iter.seen
        /\ iter'.touched = iter.touched /\ iter'.panicked = iter.panicked
        /\ iter'.keys = ks /\ iter'.cur = rest /\ iter'.out = out
    BY <1>3, <2>7 DEF Iterators
  <2>9. PICK b \in {0, 1}: b = IF rest = <<>> THEN 1 ELSE 0
    OBVIOUS
  <2>10. /\ Len(ks) = n - b /\ Done' = d + b /\ n # 0 /\ Len(iter.base) = d + n
         /\ \A i \in 1..(n - b): ks[i] = iter.keys[i + b]
    <3>1. n # 0
      BY <2>3, <2>4, EmptySeq
    <3>2. Len(ks) = n - b /\ \A i \in 1..(n - b): ks[i] = iter.keys[i + b]
      BY <2>3, <2>4, <2>6, <2>9, <3>1
    <3>3. PICK l \in Nat: l = Len(iter.base)
      BY <2>3 DEF Tables
    <3>4. d = l - n
      BY <1>2, <2>4, <3>3 DEF Done
    <3>5. Done' = l - (n - b)
      BY <2>8, <3>2, <3>3 DEF Done
    <3> QED
      BY <3>1, <3>2, <3>3, <3>4, <3>5
  <2>11. KeysLeft'
    <3>1. ASSUME NEW i \in 1..Len(ks) PROVE ks[i] = iter.base[Done' + i].key
      <4>1. i \in 1..(n - b) /\ i + b \in 1..n
        BY <2>9, <2>10, <3>1
      <4>2. iter.keys[i + b] = iter.base[d + (i + b)].key
        BY <1>2, <1>3, <2>4, <4>1 DEF KeysLeft
      <4>3. d + (i + b) = Done' + i
        BY <2>9, <2>10
      <4> QED
        BY <2>10, <4>1, <4>2, <4>3
    <3>2. Done' >= 0
      BY <2>9, <2>10
    <3>3. rest # <<>> => ks # <<>>
      BY <2>3, <2>6
    <3> QED
      BY <2>8, <3>1, <3>2, <3>3 DEF KeysLeft
  <2>12. /\ \A i \in DOMAIN iter.out: /\ HasKey(iter.base, iter.out[i][1])
                                      /\ At(iter.base, iter.out[i][1]) \in Nat
                                      /\ At(iter.base, iter.out[i][1]) <= d + 1
         /\ DOMAIN iter.out = 1..Len(iter.out) /\ DOMAIN out = 1..(Len(iter.out) + 1)
         /\ out[Len(iter.out) + 1] = <<k, c>> /\ \A i \in DOMAIN iter.out: out[i] = iter.out[i]
         /\ Len(iter.out) \in Nat
    <3>1. ASSUME NEW i \in DOMAIN iter.out
          PROVE  /\ HasKey(iter.base, iter.out[i][1])
                 /\ At(iter.base, iter.out[i][1]) \in Nat
                 /\ At(iter.base, iter.out[i][1]) <= d + 1
      <4>1. HasKey(iter.base, iter.out[i][1])
        BY <1>3 DEF OutInOrder
      <4>2. At(iter.base, iter.out[i][1]) \in Nat
        <5>1. At(iter.base, iter.out[i][1]) \in DOMAIN iter.base
          BY <2>3, <4>1, AtIs
        <5> QED
          BY <2>3, <5>1 DEF Tables
      <4> QED
        BY <1>2, <1>3, <4>1, <4>2 DEF OutInOrder
    <3> QED
      BY <2>3, <2>5, <3>1
  <2>13. OutInOrder'
    <3>1. (Done' + (IF rest = <<>> THEN 0 ELSE 1)) = d + 1
      BY <2>9, <2>10
    <3>2. \A i \in DOMAIN out: /\ HasKey(iter.base, out[i][1])
                               /\ At(iter.base, out[i][1]) <= d + 1
      <4>1. ASSUME NEW i \in DOMAIN out
            PROVE  HasKey(iter.base, out[i][1]) /\ At(iter.base, out[i][1]) <= d + 1
        <5>1. CASE i \in DOMAIN iter.out
          BY <2>12, <5>1
        <5>2. CASE i = Len(iter.out) + 1
          <6>1. out[i][1] = k
            BY <2>12, <5>2
          <6> QED
            BY <1>3, <6>1
        <5> QED
          BY <2>12, <5>1, <5>2
      <4> QED
        BY <4>1
    <3>3. ASSUME NEW i \in DOMAIN out, NEW j \in DOMAIN out, i < j
          PROVE  At(iter.base, out[i][1]) <= At(iter.base, out[j][1])
      <4>1. i \in DOMAIN iter.out /\ (j \in DOMAIN iter.out \/ j = Len(iter.out) + 1)
        BY <2>12, <3>3
      <4>2. CASE j \in DOMAIN iter.out
        BY <1>3, <2>12, <3>3, <4>1, <4>2 DEF OutInOrder
      <4>3. CASE j = Len(iter.out) + 1
        <5>1. out[j][1] = k /\ out[i] = iter.out[i]
          BY <2>12, <4>1, <4>3
        <5> QED
          BY <1>3, <2>12, <4>1, <5>1
      <4> QED
        BY <4>1, <4>2, <4>3
    <3> QED
      BY <2>8, <3>1, <3>2, <3>3 DEF OutInOrder
  <2>14. PICK y \in Seq(Cells): y = Yielded(k)
    BY <2>3, YieldsParts, YieldedIs
  <2>15. <<k, y \o cs>> \in iter.seen
    <3>1. CASE iter.cur # <<>>
      BY <1>1, <1>3, <1>5, <2>14, <3>1 DEF OutWasSeen
    <3>2. CASE iter.cur = <<>>
      <4>1. Yielded(k) = <<>>
        BY <1>2, <1>3, <3>2, NotReached
      <4>2. y \o cs = cs
        BY <2>14, <4>1, ConcatEmptySeq
      <4> QED
        BY <1>5, <1>7, <3>2, <4>2
    <3> QED
      BY <3>1, <3>2
  <2>16. Append(y, c) \o rest = y \o cs
    <3>1. PICK p \in Seq(Cells), q \in Seq(Cells): p = y \o cs /\ q = Append(y, c) \o rest
      BY ConcatProperties, AppendProperties
    <3>2. Len(p) = Len(y) + Len(cs) /\ Len(q) = (Len(y) + 1) + Len(rest) /\ Len(cs) = 1 + Len(rest)
      BY <2>2, <3>1
    <3>3. ASSUME NEW i \in 1..Len(p) PROVE p[i] = q[i]
      BY <1>9, <2>1, <3>1, <3>2
    <3>4. Len(p) = Len(q)
      <4>1. Len(y) \in Nat /\ Len(rest) \in Nat
        OBVIOUS
      <4> QED
        BY <3>2, <4>1
    <3>5. p = q
      BY <3>3, <3>4, SeqEqual
    <3> QED
      BY <3>1, <3>5, Zenon
  <2>17. Yielded(k)' = Append(y, c) /\ \A j: j # k => Yielded(j)' = Yielded(j)
    <3>1. \A j: Yielded(j)' = Yields(out, j)
      BY <2>8 DEF Yielded, Yields
    <3>2. PICK o \in Seq(Keys \X Cells): o = iter.out
      BY <2>3
    <3>3. PICK p \in Keys \X Cells: p = <<k, c>> /\ p[1] = k /\ p[2] = c
      <4>1. <<k, c>> \in Keys \X Cells /\ <<k, c>>[1] = k /\ <<k, c>>[2] = c
        OBVIOUS
      <4> QED
        BY <4>1, Zenon
    <3>4. \A j: Yields(Longer(o, p), j) = IF p[1] = j THEN Longer(Yields(o, j), p[2]) ELSE Yields(o, j)
      BY YieldsLonger
    <3>5. Yields(Append(o, <<k, c>>), k) = Append(Yields(o, k), c)
      BY <3>3, <3>4, Zenon DEF Longer
    <3>6. ASSUME NEW j, j # k
          PROVE  Yields(Append(o, <<k, c>>), j) = Yields(o, j)
      BY <3>3, <3>4, <3>6, Zenon DEF Longer
    <3> QED
      BY <2>5, <2>14, <3>1, <3>2, <3>5, <3>6, YieldedIs
  <2>18. OutWasSeen'
    <3>1. ASSUME NEW i \in 1..Done'
          PROVE  <<iter.base[i].key, Yielded(iter.base[i].key)'>> \in iter.seen
      <4>1. CASE i \in 1..d
        <5>1. iter.base[i].key # k /\ <<iter.base[i].key, Yielded(iter.base[i].key)>> \in iter.seen
          BY <1>2, <1>3, <4>1 DEF OutWasSeen
        <5>2. Yielded(iter.base[i].key)' = Yielded(iter.base[i].key)
          BY <2>8, <2>17, <5>1
        <5> QED
          BY <5>1, <5>2
      <4>2. CASE i = d + 1 /\ b = 1
        <5>1. iter.base[i].key = k
          BY <1>3, <2>3, <4>2, AtIs
        <5>2. rest = <<>>
          BY <2>9, <4>2
        <5>3. Append(y, c) \o rest = Append(y, c)
          BY <5>2, ConcatEmptySeq, AppendProperties
        <5> QED
          BY <2>8, <2>15, <2>16, <2>17, <5>1, <5>3
      <4> QED
        BY <2>9, <2>10, <3>1, <4>1, <4>2
    <3>2. rest # <<>> => <<ks[1], Yielded(ks[1])' \o rest>> \in iter.seen
      BY <1>1, <2>6, <2>15, <2>16, <2>17
    <3> QED
      BY <2>8, <3>1, <3>2 DEF OutWasSeen
  <2>19. SeenInv'
    BY <1>3, <1>6, <2>8 DEF SeenInv
  <2> QED
    BY <2>8, <2>11, <2>13, <2>18, <2>19 DEF IterInv
<1> QED
  BY <1>8, <1>9

-----------------------------------------------------------------------------
LEMMA IterStepKeeps ==
  ASSUME HeaderInv, MapStep
  PROVE  IterInv'
<1>1. CASE UNCHANGED <<map, iter>>
  <2>1. iter' = iter /\ map' = map
    BY <1>1
  <2>2. Done' = Done /\ \A k: Yielded(k)' = Yielded(k)
    BY <2>1 DEF Done, Yielded
  <2>3. CASE iter = NoIter
    BY <2>1, <2>3 DEF IterInv
  <2>4. CASE iter \in Iterators /\ KeysLeft /\ OutInOrder /\ OutWasSeen /\ SeenInv
    <3>1. KeysLeft' /\ OutInOrder' /\ OutWasSeen' /\ SeenInv'
      BY <2>1, <2>2, <2>4 DEF KeysLeft, OutInOrder, OutWasSeen, SeenInv
    <3> QED
      BY <2>1, <2>4, <3>1 DEF IterInv
  <2> QED
    BY <2>3, <2>4 DEF HeaderInv, IterInv
<1>2. CASE \E m \in Maps: \E e \in Contents: Store(m, e)
  BY <1>2, StoreKeepsIter
<1>3. CASE IterStep
  <2>1. DropIter => IterInv'
    BY DEF DropIter, IterInv
  <2> QED
    BY <1>3, <2>1, NextItemKeepsIter, NewItemsKeepsIter DEF IterStep
<1> QED
  BY <1>1, <1>2, <1>3 DEF MapStep

LEMMA HeaderInit ==
  ASSUME Init
  PROVE  HeaderInv
<1>1. LockInv
  <2>1. Idle \in Calls /\ Idle.kind = "idle" /\ 0 \in 0..MaxLong
    BY HeaderAssumption DEF Calls, Idle
  <2>2. \A m \in Maps: holder[m] = Nobody
    BY DEF Init
  <2>3. \A t \in Threads: call[t].kind = "idle"
    BY <2>1 DEF Init
  <2> QED
    BY <2>1, <2>2, <2>3 DEF Init, LockInv
<1>2. TablesInv
  BY EmptyTable DEF Init, TablesInv
<1>3. IterInv
  BY DEF Init, IterInv
<1> QED
  BY <1>1, <1>2, <1>3 DEF HeaderInv

LEMMA HeaderNext ==
  ASSUME HeaderInv, [Next]_vars
  PROVE  HeaderInv'
<1>1. CASE Next
  <2>1. MapStep /\ LockInv' /\ Grows
    BY <1>1, NextIsMapStep, LocksStep
  <2> QED
    BY <2>1, TablesStep, IterStepKeeps DEF HeaderInv
<1>2. CASE UNCHANGED vars
  <2>1. UNCHANGED <<map, iter>> /\ UNCHANGED locks /\ gone' = gone
    BY <1>2 DEF vars
  <2>2. LockInv' /\ Grows
    BY <2>1, SameLocks DEF HeaderInv, LockInv
  <2>3. MapStep
    BY <2>1 DEF MapStep
  <2> QED
    BY <2>2, <2>3, TablesStep, IterStepKeeps DEF HeaderInv
<1> QED
  BY <1>1, <1>2

(* The entries, the mutexes and the iterator stay consistent, whatever      *)
(* calls run beside each other.                                             *)
THEOREM HeaderInvariant == Spec => []HeaderInv
<1>1. Init => HeaderInv
  BY HeaderInit
<1>2. HeaderInv /\ [Next]_vars => HeaderInv'
  BY HeaderNext
<1> QED
  BY <1>1, <1>2, PTL DEF Spec
-----------------------------------------------------------------------------
LEMMA TypesHold ==
  ASSUME HeaderInv
  PROVE  TypeOK
<1>1. ASSUME NEW m \in Maps, NEW i \in DOMAIN map[m]
      PROVE  /\ map[m][i].key \in Keys
             /\ map[m][i].vals \in Seq(Cells) \ {<<>>}
             /\ \A j \in 1..(i - 1): map[m][j].key # map[m][i].key
  <2>1. PICK e \in Tables(Cells): e = map[m]
    BY MapIsTable DEF HeaderInv
  <2>2. i \in DOMAIN e /\ DOMAIN e = 1..Len(e) /\ Len(e) \in Nat /\ e[i] \in Entries(Cells)
    BY <1>1, <2>1 DEF Tables
  <2>3. \A j \in 1..(i - 1): j \in DOMAIN e /\ j # i
    BY <2>2
  <2>4. \A j \in 1..(i - 1): e[j].key # e[i].key
    BY <2>2, <2>3 DEF Tables
  <2> QED
    BY <2>1, <2>2, <2>4 DEF Entries
<1> QED
  BY <1>1 DEF HeaderInv, LockInv, TypeOK

LEMMA PrefixOf ==
  ASSUME NEW S, NEW s \in Seq(S), NEW t \in Seq(S)
  PROVE  IsPrefix(s, s \o t) /\ IsPrefix(<<>>, t)
<1>1. PICK c \in Seq(S): c = s \o t
  BY ConcatProperties
<1>2. Len(c) = Len(s) + Len(t) /\ Len(s) \in Nat /\ Len(t) \in Nat /\ \A i \in 1..Len(s): c[i] = s[i]
  BY <1>1
<1>3. Len(s) <= Len(c) /\ SubSeq(s, 1, Len(s)) = SubSeq(c, 1, Len(s))
  <2>1. Len(s) <= Len(c)
    BY <1>2
  <2>2. SubSeq(s, 1, Len(s)) \in Seq(S) /\ SubSeq(c, 1, Len(s)) \in Seq(S)
    BY <1>2
  <2>3. Len(SubSeq(s, 1, Len(s))) = Len(s) /\ Len(SubSeq(c, 1, Len(s))) = Len(s)
    BY <1>2, <2>1
  <2>4. \A i \in 1..Len(s): SubSeq(s, 1, Len(s))[i] = s[i] /\ SubSeq(c, 1, Len(s))[i] = s[i]
    BY <1>2, <2>1
  <2> QED
    BY <2>1, <2>2, <2>3, <2>4, SeqEqual
<1>4. Len(<<>>) <= Len(t) /\ SubSeq(<<>>, 1, Len(<<>>)) = SubSeq(t, 1, Len(<<>>))
  BY <1>2
<1> QED
  BY <1>1, <1>3, <1>4 DEF IsPrefix

LEMMA YieldsAreSound ==
  ASSUME HeaderInv
  PROVE  YieldsSound
<1> SUFFICES ASSUME iter.open PROVE YieldsSound
  BY DEF YieldsSound
<1>1. iter \in Iterators /\ KeysLeft /\ OutInOrder /\ OutWasSeen /\ SeenInv
  BY DEF HeaderInv, IterInv, NoIter
<1>2. PICK e \in Tables(Cells), ks \in Seq(Keys): e = iter.base /\ ks = iter.keys
  BY <1>1 DEF Iterators
<1>3. iter.out \in Seq(Keys \X Cells) /\ iter.cur \in Seq(Cells) /\ iter.on \in Maps
      /\ iter.seen \in SUBSET (Keys \X Seq(Cells))
  BY <1>1 DEF Iterators
<1>4. PICK d \in Nat: d = Done /\ Len(e) = d + Len(ks)
  <2>1. Len(e) \in Nat /\ Len(ks) \in Nat
    BY DEF Tables
  <2>2. Done = Len(e) - Len(ks) /\ Done >= 0
    BY <1>1, <1>2 DEF Done, KeysLeft
  <2> QED
    BY <2>1, <2>2
<1>5. DOMAIN e = 1..Len(e) /\ Len(e) \in Nat /\ Len(ks) \in Nat
  BY DEF Tables
<1>6. \A k: Yielded(k) \in Seq(Cells)
  BY <1>3, YieldsParts, YieldedIs
<1>7. ASSUME NEW k \in Keys, HasKey(e, k)
      PROVE  At(e, k) \in 1..Len(e) /\ e[At(e, k)].key = k
  BY <1>5, <1>7, AtIs
<1>8. ASSUME NEW k \in Keys, ~HasKey(e, k)
      PROVE  Yielded(k) = <<>> /\ GetAll(e, k) = <<>>
  <2>1. Yielded(k) = <<>>
    BY <1>1, <1>2, <1>4, <1>8, NotReached
  <2> QED
    BY <1>8, <2>1 DEF GetAll
<1>9. ASSUME NEW k \in Keys, Passed(k), HasKey(e, k)
      PROVE  <<k, Yielded(k)>> \in iter.seen
  <2>1. PICK a \in 1..Len(e): a = At(e, k) /\ e[a].key = k
    BY <1>7, <1>9
  <2>2. a <= d
    <3> SUFFICES ASSUME a > d PROVE FALSE
      BY <1>5
    <3>1. a - d \in 1..Len(ks) /\ d + (a - d) = a
      BY <1>4, <1>5
    <3>2. ks[a - d] = e[a].key
      BY <1>1, <1>2, <1>4, <3>1 DEF KeysLeft
    <3>3. k \in Range(ks)
      BY <2>1, <3>1, <3>2 DEF Range
    <3> QED
      BY <1>2, <1>9, <3>3 DEF Passed
  <2> QED
    BY <1>1, <1>2, <1>4, <2>1, <2>2 DEF OutWasSeen
<1>10. ASSUME NEW k \in Keys
       PROVE  \E s \in iter.seen: s[1] = k /\ IsPrefix(Yielded(k), s[2])
  <2>1. ASSUME NEW x \in Seq(Cells), <<k, x>> \in iter.seen, IsPrefix(Yielded(k), x)
        PROVE  \E s \in iter.seen: s[1] = k /\ IsPrefix(Yielded(k), s[2])
    <3>1. <<k, x>>[1] = k /\ <<k, x>>[2] = x
      OBVIOUS
    <3> QED
      BY <2>1, <3>1
  <2>2. CASE Yielded(k) = <<>>
    <3>1. PICK x \in Seq(Cells): x = GetAll(map[iter.on], k)
      BY <1>3, MapIsTable, GetAllType DEF HeaderInv
    <3>2. <<k, x>> \in iter.seen
      BY <1>1, <3>1 DEF SeenInv
    <3>3. IsPrefix(Yielded(k), x)
      BY <2>2, PrefixOf
    <3> QED
      BY <2>1, <3>2, <3>3
  <2>3. CASE HasKey(e, k) /\ At(e, k) <= d
    <3>1. <<k, Yielded(k)>> \in iter.seen
      BY <1>1, <1>2, <1>4, <1>5, <1>7, <2>3 DEF OutWasSeen
    <3>2. Yielded(k) \o <<>> = Yielded(k) /\ <<>> \in Seq(Cells)
      BY <1>6, ConcatEmptySeq
    <3>3. IsPrefix(Yielded(k), Yielded(k))
      BY <1>6, <3>2, PrefixOf
    <3> QED
      BY <1>6, <2>1, <3>1, <3>3
  <2>4. CASE HasKey(e, k) /\ At(e, k) = d + 1 /\ iter.cur # <<>>
    <3>1. ks[1] = k
      <4>1. ks # <<>> /\ 1 \in 1..Len(ks)
        BY <1>1, <1>2, <2>4, EmptySeq DEF KeysLeft
      <4> QED
        BY <1>1, <1>2, <1>4, <1>7, <2>4, <4>1 DEF KeysLeft
    <3>2. <<k, Yielded(k) \o iter.cur>> \in iter.seen
      BY <1>1, <1>2, <2>4, <3>1 DEF OutWasSeen
    <3>3. Yielded(k) \o iter.cur \in Seq(Cells) /\ IsPrefix(Yielded(k), Yielded(k) \o iter.cur)
      BY <1>3, <1>6, ConcatProperties, PrefixOf
    <3> QED
      BY <2>1, <3>2, <3>3
  <2>5. CASE /\ HasKey(e, k) => At(e, k) > d
             /\ HasKey(e, k) /\ At(e, k) = d + 1 => iter.cur = <<>>
    <3>1. PICK b \in {0, 1}: b = IF iter.cur = <<>> THEN 0 ELSE 1
      OBVIOUS
    <3>2. HasKey(e, k) => At(e, k) > d + b
      BY <1>5, <1>7, <2>5, <3>1
    <3>3. Yielded(k) = <<>>
      BY <1>1, <1>2, <1>4, <3>1, <3>2, NotReached
    <3> QED
      BY <2>2, <3>3
  <2> QED
    BY <1>5, <1>7, <2>3, <2>4, <2>5
<1>11. ASSUME NEW k \in Keys, k \notin iter.touched, Passed(k)
       PROVE  Yielded(k) = GetAll(e, k)
  <2>1. CASE HasKey(e, k)
    BY <1>1, <1>2, <1>9, <1>11, <2>1 DEF SeenInv
  <2> QED
    BY <1>8, <2>1
<1>12. iter.panicked => \E k \in iter.touched: HasKey(iter.base, k) /\ <<k, <<>>>> \in iter.seen
  BY <1>1 DEF SeenInv
<1>13. \A i, j \in DOMAIN iter.out:
         i < j => At(iter.base, iter.out[i][1]) <= At(iter.base, iter.out[j][1])
  BY <1>1 DEF OutInOrder
<1> QED
  BY <1>2, <1>8, <1>9, <1>10, <1>11, <1>12, <1>13 DEF YieldsSound

(* An iteration over items() beside a map that changes is sound: no map has *)
(* a key twice, and what the iterator yields for a key was there at one     *)
(* moment, comes in the order of the keys, and is complete when nobody      *)
(* touches the key.                                                         *)
THEOREM IterationIsSound == Spec => []IterationSound
<1>1. HeaderInv => IterationSound
  BY TypesHold, YieldsAreSound DEF IterationSound
<1> QED
  BY <1>1, HeaderInvariant, PTL

LEMMA SafeIsHidden ==
  ASSUME NEW e \in Tables(SafeCells), NEW p \in Range(Shown(e))
  PROVE  p[2] \notin Secrets
<1>1. ItemsOf(e) \in Seq(Keys \X SafeCells)
  BY ItemsType
<1>2. PICK is \in Seq(Keys \X SafeCells): is = ItemsOf(e)
  BY <1>1
<1>3. PICK i \in DOMAIN is: p = <<is[i][1], IF is[i][2].s THEN Sensitive ELSE is[i][2].v>>
  BY <1>2 DEF Shown, Range
<1>4. is[i] \in Keys \X SafeCells
  BY <1>3
<1>5. PICK c \in SafeCells: c = is[i][2]
  BY <1>4
<1>6. p[2] = IF c.s THEN Sensitive ELSE c.v
  BY <1>3, <1>5
<1>7. 0 \notin Secrets
  BY HeaderAssumption
<1> QED
  BY <1>6, <1>7 DEF SafeCells, Sensitive

(* A value that was added as sensitive is never shown in clear, whatever    *)
(* calls moved it, until a map may have been merged into another.           *)
THEOREM SecretsAreHidden == Spec => []SecretsStaySecret
<1>1. HeaderInv => SecretsStaySecret
  <2> SUFFICES ASSUME HeaderInv, NEW m \in Maps, NEW p \in Range(Shown(map[m])), p[2] \in Secrets
               PROVE  long > 0 /\ world.from # {}
    BY DEF SecretsStaySecret
  <2> SUFFICES ASSUME ~(long > 0 /\ world.from # {}) PROVE FALSE
    OBVIOUS
  <2>1. map[m] \in Tables(SafeCells)
    BY DEF HeaderInv, TablesInv, MayHold
  <2> QED
    BY <2>1, SafeIsHidden
<1> QED
  BY <1>1, HeaderInvariant, PTL
-----------------------------------------------------------------------------
(* The promise of MultiMap.  What a list of pairs gives a key, pair by pair; *)
(* MultiMap writes it as Of.                                                *)
LEMMA YieldsPrefix ==
  ASSUME NEW ps \in Seq(Keys \X Cells), NEW m \in 1..Len(ps), NEW k
  PROVE  /\ Yields(SubSeq(ps, 1, m - 1), k) \in Seq(Cells)
         /\ ps[m][1] \in Keys /\ ps[m][2] \in Cells
         /\ Yields(SubSeq(ps, 1, m), k) =
              IF ps[m][1] = k THEN Longer(Yields(SubSeq(ps, 1, m - 1), k), ps[m][2])
                              ELSE Yields(SubSeq(ps, 1, m - 1), k)
<1>1. PICK p \in Keys \X Cells: p = ps[m] /\ p[1] \in Keys /\ p[2] \in Cells
  OBVIOUS
<1>2. PICK s \in Seq(Keys \X Cells): s = SubSeq(ps, 1, m - 1)
  <2>1. SubSeq(ps, 1, m - 1) \in Seq(Keys \X Cells)
    BY SubSeqProperties
  <2> QED
    BY <2>1
<1>3. SubSeq(ps, 1, m) = Longer(s, p)
  BY <1>1, <1>2, PrefixGrows DEF Longer
<1>4. Yields(s, k) \in Seq(Cells)
  BY YieldsParts
<1>5. Yields(Longer(s, p), k) = IF p[1] = k THEN Longer(Yields(s, k), p[2]) ELSE Yields(s, k)
  <2>1. \A j: Yields(Longer(s, p), j) = IF p[1] = j THEN Longer(Yields(s, j), p[2]) ELSE Yields(s, j)
    BY YieldsLonger
  <2> QED
    BY <2>1, Zenon
<1> QED
  BY <1>1, <1>2, <1>3, <1>4, <1>5, Zenon

LEMMA YieldsEnds ==
  ASSUME NEW ps \in Seq(Keys \X Cells), NEW k
  PROVE  /\ Len(ps) \in Nat
         /\ Yields(SubSeq(ps, 1, 0), k) = <<>>
         /\ SubSeq(ps, 1, Len(ps)) = ps
<1>1. PICK s \in Seq(Keys \X Cells): s = SubSeq(ps, 1, 0)
  <2>1. SubSeq(ps, 1, 0) \in Seq(Keys \X Cells)
    BY SubSeqProperties
  <2> QED
    BY <2>1
<1>2. \A i \in DOMAIN s: FALSE
  BY <1>1
<1>3. Yields(s, k) = <<>>
  BY <1>2, YieldsNothing
<1>4. SubSeq(ps, 1, Len(ps)) = ps
  BY SubSeqFull
<1> QED
  BY <1>1, <1>3, <1>4

(* update(): the last value given wins.                                     *)
LEMMA PutPairsValues ==
  ASSUME NEW e \in Tables(Cells), NEW ps \in Seq(Keys \X Cells), NEW j \in Keys
  PROVE  GetAll(PutPairs(e, ps), j) = IF Yields(ps, j) = <<>> THEN GetAll(e, j)
                                                              ELSE <<Last(Yields(ps, j))>>
<1> DEFINE n == Len(ps)
           o(m) == Yields(SubSeq(ps, 1, m), j)
<1>1. PICK h \in [0..n -> Tables(Cells)]:
         /\ h[0] = e /\ h[n] = PutPairs(e, ps)
         /\ \A m \in 1..n: h[m] = Put(h[m - 1], ps[m][1], ps[m][2])
  BY PutPairsClimbs
<1> DEFINE Is(m) == GetAll(h[m], j) = IF o(m) = <<>> THEN GetAll(e, j) ELSE <<Last(o(m))>>
           P == {m \in Nat: m <= n => Is(m)}
<1>2. n \in Nat /\ o(0) = <<>> /\ o(n) = Yields(ps, j)
  BY YieldsEnds
<1>3. Is(0)
  BY <1>1, <1>2
<1>4. ASSUME NEW m \in Nat, Is(m), m + 1 <= n PROVE Is(m + 1)
  <2>1. m + 1 \in 1..n /\ (m + 1) - 1 = m /\ m \in 0..n
    BY <1>2, <1>4
  <2>2. PICK k \in Keys, c \in Cells: k = ps[m + 1][1] /\ c = ps[m + 1][2]
    BY <2>1, YieldsPrefix
  <2>3. PICK f \in Tables(Cells): f = h[m]
    BY <1>1, <2>1
  <2>4. h[m + 1] = Put(f, k, c)
    BY <1>1, <2>1, <2>2, <2>3
  <2>5. GetAll(Put(f, k, c), j) = IF j = k THEN <<c>> ELSE GetAll(f, j)
    BY PutValues
  <2>6. PICK was \in Seq(Cells): was = o(m)
    BY <2>1, YieldsPrefix
  <2>7. o(m + 1) = IF k = j THEN Longer(was, c) ELSE was
    <3>1. PICK i \in 1..n: i = m + 1 /\ i - 1 = m
      BY <2>1
    <3>2. o(i) = IF ps[i][1] = j THEN Longer(o(i - 1), ps[i][2]) ELSE o(i - 1)
      BY YieldsPrefix
    <3> HIDE DEF o
    <3> QED
      BY <2>2, <2>6, <3>1, <3>2
  <2>8. Longer(was, c) # <<>> /\ Last(Longer(was, c)) = c
    BY DEF Longer, Last
  <2> HIDE DEF o
  <2>9. CASE j = k
    BY <2>4, <2>5, <2>7, <2>8, <2>9, Zenon
  <2>10. CASE j # k
    BY <1>4, <2>3, <2>4, <2>5, <2>6, <2>7, <2>10, Zenon
  <2> QED
    BY <2>9, <2>10
<1> HIDE DEF Is
<1>5. 0 \in P /\ \A m \in Nat: m \in P => m + 1 \in P
  BY <1>2, <1>3, <1>4
<1> HIDE DEF P
<1>6. n \in P
  BY <1>2, <1>5, Induction
<1>7. Is(n)
  BY <1>2, <1>6 DEF P
<1> QED
  BY <1>1, <1>2, <1>7, Zenon DEF Is

(* extend(): the values given come behind those that were there.            *)
LEMMA AddPairsValues ==
  ASSUME NEW e \in Tables(Cells), NEW ps \in Seq(Keys \X Cells), NEW j \in Keys
  PROVE  GetAll(AddPairs(e, ps), j) = Joined(GetAll(e, j), Yields(ps, j))
<1> DEFINE n == Len(ps)
           o(m) == Yields(SubSeq(ps, 1, m), j)
<1>1. PICK h \in [0..n -> Tables(Cells)]:
         /\ h[0] = e /\ h[n] = AddPairs(e, ps)
         /\ \A m \in 1..n: h[m] = Add(h[m - 1], ps[m][1], ps[m][2])
  BY AddPairsClimbs
<1>2. PICK us \in Seq(Cells): us = GetAll(e, j)
  BY GetAllType
<1> DEFINE Is(m) == GetAll(h[m], j) = Joined(us, o(m))
           P == {m \in Nat: m <= n => Is(m)}
<1>3. n \in Nat /\ o(0) = <<>> /\ o(n) = Yields(ps, j)
  BY YieldsEnds
<1>4. Is(0)
  <2>1. us \o <<>> = us
    BY ConcatEmptySeq
  <2> QED
    BY <1>1, <1>2, <1>3, <2>1 DEF Joined
<1>5. ASSUME NEW m \in Nat, Is(m), m + 1 <= n PROVE Is(m + 1)
  <2>1. m + 1 \in 1..n /\ (m + 1) - 1 = m /\ m \in 0..n
    BY <1>3, <1>5
  <2>2. PICK k \in Keys, c \in Cells: k = ps[m + 1][1] /\ c = ps[m + 1][2]
    BY <2>1, YieldsPrefix
  <2>3. PICK f \in Tables(Cells): f = h[m]
    BY <1>1, <2>1
  <2>4. h[m + 1] = Add(f, k, c)
    BY <1>1, <2>1, <2>2, <2>3
  <2>5. GetAll(Add(f, k, c), j) = IF j = k THEN Longer(GetAll(f, k), c) ELSE GetAll(f, j)
    BY AddValues DEF Longer
  <2>6. PICK was \in Seq(Cells): was = o(m)
    BY <2>1, YieldsPrefix
  <2>7. o(m + 1) = IF k = j THEN Longer(was, c) ELSE was
    <3>1. PICK i \in 1..n: i = m + 1 /\ i - 1 = m
      BY <2>1
    <3>2. o(i) = IF ps[i][1] = j THEN Longer(o(i - 1), ps[i][2]) ELSE o(i - 1)
      BY YieldsPrefix
    <3> HIDE DEF o
    <3> QED
      BY <2>2, <2>6, <3>1, <3>2
  <2>8. Longer(Joined(us, was), c) = Joined(us, Longer(was, c))
    BY ConcatAppend
  <2> HIDE DEF o
  <2>9. CASE j = k
    BY <1>5, <2>3, <2>4, <2>5, <2>6, <2>7, <2>8, <2>9, Zenon
  <2>10. CASE j # k
    BY <1>5, <2>3, <2>4, <2>5, <2>6, <2>7, <2>10, Zenon
  <2> QED
    BY <2>9, <2>10
<1> HIDE DEF Is
<1>6. 0 \in P /\ \A m \in Nat: m \in P => m + 1 \in P
  BY <1>3, <1>4, <1>5
<1> HIDE DEF P
<1>7. n \in P
  BY <1>3, <1>6, Induction
<1>8. Is(n)
  BY <1>3, <1>7 DEF P
<1> QED
  BY <1>1, <1>2, <1>3, <1>8, Zenon DEF Is

(* The pairs that another map passes: its values, without their marks.      *)
Blank(ps) == [i \in DOMAIN ps |-> <<ps[i][1], Plain(ps[i][2])>>]
Unmarked(cs) == [i \in DOMAIN cs |-> Plain(cs[i])]

LEMMA UnmarkedLonger ==
  ASSUME NEW s \in Seq(Cells), NEW c \in Cells
  PROVE  /\ Unmarked(s) \in Seq(Cells)
         /\ Unmarked(Longer(s, c)) = Longer(Unmarked(s), Plain(c))
<1>1. PICK n \in Nat: n = Len(s)
  OBVIOUS
<1>2. DOMAIN s = 1..n /\ \A i \in 1..n: s[i] \in Cells
  BY <1>1
<1>3. PICK d \in Cells: d = Plain(c)
  BY CellsAre
<1>4. PICK t \in Seq(Cells): t = Unmarked(s) /\ Len(t) = n
  <2>1. Unmarked(s) \in [1..n -> Cells]
    BY <1>2, CellsAre DEF Unmarked
  <2> QED
    BY <1>1, <2>1
<1>5. PICK u: u = Longer(s, c)
  OBVIOUS
<1>6. DOMAIN u = 1..(n + 1) /\ u[n + 1] = c /\ \A i \in 1..n: u[i] = s[i]
  BY <1>1, <1>5 DEF Longer
<1>7. PICK v: v = Longer(t, d)
  OBVIOUS
<1>8. v \in Seq(Cells) /\ Len(v) = n + 1 /\ v[n + 1] = d /\ \A i \in 1..n: v[i] = t[i]
  <2>1. /\ Append(t, d) \in Seq(Cells) /\ Len(Append(t, d)) = Len(t) + 1
        /\ \A i \in 1..Len(t): Append(t, d)[i] = t[i]
        /\ Append(t, d)[Len(t) + 1] = d
    BY AppendProperties
  <2> QED
    BY <1>4, <1>7, <2>1, Zenon DEF Longer
<1>9. \A i \in 1..n: t[i] = Plain(s[i])
  BY <1>2, <1>4 DEF Unmarked
<1>10. Unmarked(u) = [i \in 1..(n + 1) |-> Plain(u[i])]
  BY <1>6 DEF Unmarked
<1>11. \A i \in 1..(n + 1): Plain(u[i]) = v[i]
  <2>1. \A i \in 1..(n + 1): i = n + 1 \/ i \in 1..n
    OBVIOUS
  <2> QED
    BY <1>3, <1>6, <1>8, <1>9, <2>1
<1>12. v = [i \in 1..(n + 1) |-> v[i]]
  BY <1>8
<1> HIDE DEF Unmarked
<1>13. Unmarked(u) = v
  BY <1>10, <1>11, <1>12
<1> QED
  BY <1>3, <1>4, <1>5, <1>7, <1>13

LEMMA BlankValues ==
  ASSUME NEW ps \in Seq(Keys \X Cells), NEW k
  PROVE  Blank(ps) \in Seq(Keys \X Cells) /\ Yields(Blank(ps), k) = Unmarked(Yields(ps, k))
<1>1. PICK n \in Nat: n = Len(ps)
  OBVIOUS
<1>2. \A i \in 1..n: /\ ps[i][1] \in Keys /\ Plain(ps[i][2]) \in Cells
                     /\ <<ps[i][1], Plain(ps[i][2])>> \in Keys \X Cells
  BY <1>1, CellsAre
<1>3. Blank(ps) \in [1..n -> Keys \X Cells]
  BY <1>1, <1>2 DEF Blank
<1>4. PICK bs \in Seq(Keys \X Cells): bs = Blank(ps) /\ Len(bs) = n
  BY <1>3
<1>5. \A i \in 1..n: bs[i][1] = ps[i][1] /\ bs[i][2] = Plain(ps[i][2])
  BY <1>1, <1>4 DEF Blank
<1> DEFINE o(m) == Yields(SubSeq(ps, 1, m), k)
           b(m) == Yields(SubSeq(bs, 1, m), k)
           P == {m \in Nat: m <= n => b(m) = Unmarked(o(m))}
<1>6. o(0) = <<>> /\ b(0) = <<>> /\ o(n) = Yields(ps, k) /\ b(n) = Yields(bs, k)
  BY <1>1, <1>4, YieldsEnds
<1>7. Unmarked(<<>>) = <<>>
  BY DEF Unmarked
<1>8. ASSUME NEW m \in Nat, b(m) = Unmarked(o(m)), m + 1 <= n PROVE b(m + 1) = Unmarked(o(m + 1))
  <2>1. PICK i \in 1..n: i = m + 1 /\ i - 1 = m
    BY <1>8
  <2>2. /\ o(i) = IF ps[i][1] = k THEN Longer(o(i - 1), ps[i][2]) ELSE o(i - 1)
        /\ o(i - 1) \in Seq(Cells) /\ ps[i][2] \in Cells
    BY <1>1, YieldsPrefix
  <2>3. b(i) = IF bs[i][1] = k THEN Longer(b(i - 1), bs[i][2]) ELSE b(i - 1)
    BY <1>4, YieldsPrefix
  <2> HIDE DEF o, b
  <2>4. PICK was \in Seq(Cells), c \in Cells: was = o(i - 1) /\ c = ps[i][2]
    BY <2>2
  <2>5. Unmarked(Longer(was, c)) = Longer(Unmarked(was), Plain(c))
    BY UnmarkedLonger
  <2>6. bs[i][1] = ps[i][1] /\ bs[i][2] = Plain(c)
    BY <1>5, <2>4
  <2>7. b(i - 1) = Unmarked(was)
    BY <1>8, <2>1, <2>4
  <2>8. b(i) = Unmarked(o(i))
    BY <2>2, <2>3, <2>4, <2>5, <2>6, <2>7, Zenon
  <2> QED
    BY <2>1, <2>8
<1> HIDE DEF o, b
<1>9. 0 \in P /\ \A m \in Nat: m \in P => m + 1 \in P
  BY <1>6, <1>7, <1>8
<1> HIDE DEF P
<1>10. n \in P
  BY <1>9, Induction
<1>11. b(n) = Unmarked(o(n))
  BY <1>10 DEF P
<1> QED
  BY <1>4, <1>6, <1>11

LEMMA YieldsConcat ==
  ASSUME NEW s \in Seq(Keys \X Cells), NEW u \in Seq(Keys \X Cells), NEW k
  PROVE  Yields(Joined(s, u), k) = Joined(Yields(s, k), Yields(u, k))
<1> DEFINE part(t) == [i \in DOMAIN t |-> IF t[i][1] = k THEN <<t[i][2]>> ELSE <<>>]
<1>1. PICK n \in Nat, m \in Nat: n = Len(s) /\ m = Len(u)
  OBVIOUS
<1>2. PICK t \in Seq(Keys \X Cells): t = s \o u
  <2>1. s \o u \in Seq(Keys \X Cells)
    BY ConcatProperties
  <2> QED
    BY <2>1
<1>3. /\ DOMAIN t = 1..(n + m) /\ DOMAIN s = 1..n /\ DOMAIN u = 1..m
      /\ \A i \in 1..(n + m): t[i] = IF i <= n THEN s[i] ELSE u[i - n]
  BY <1>1, <1>2
<1>4. part(s) \in Seq(Seq(Cells)) /\ part(u) \in Seq(Seq(Cells)) /\ part(t) \in Seq(Seq(Cells))
  BY YieldsParts
<1>5. /\ Len(part(s)) = n /\ Len(part(u)) = m /\ Len(part(t)) = n + m
  BY <1>3, <1>4
<1>6. \A i \in 1..(n + m): part(t)[i] = IF i <= n THEN part(s)[i] ELSE part(u)[i - n]
  <2> SUFFICES ASSUME NEW i \in 1..(n + m)
               PROVE  part(t)[i] = IF i <= n THEN part(s)[i] ELSE part(u)[i - n]
    OBVIOUS
  <2>1. i <= n => i \in 1..n
    OBVIOUS
  <2>2. ~(i <= n) => i - n \in 1..m
    OBVIOUS
  <2> QED
    BY <1>3, <2>1, <2>2
<1> HIDE DEF part
<1>7. PICK v \in Seq(Seq(Cells)): v = part(s) \o part(u)
  <2>1. part(s) \o part(u) \in Seq(Seq(Cells))
    BY <1>4, ConcatProperties
  <2> QED
    BY <2>1
<1>8. Len(v) = n + m /\ \A i \in 1..(n + m): v[i] = IF i <= n THEN part(s)[i] ELSE part(u)[i - n]
  <2>1. PICK x \in Seq(Seq(Cells)), y \in Seq(Seq(Cells)): x = part(s) /\ y = part(u)
    BY <1>4
  <2>2. /\ Len(x \o y) = Len(x) + Len(y)
        /\ \A i \in 1..Len(x) + Len(y):
             (x \o y)[i] = IF i <= Len(x) THEN x[i] ELSE y[i - Len(x)]
    BY ConcatProperties
  <2> QED
    BY <1>5, <1>7, <2>1, <2>2, Zenon
<1>9. part(t) = v
  BY <1>4, <1>5, <1>6, <1>8, SeqEqual
<1>10. FlattenSeq(part(s) \o part(u)) = FlattenSeq(part(s)) \o FlattenSeq(part(u))
  BY <1>4, FlattenConcat
<1>11. /\ Yields(t, k) = FlattenSeq(part(t)) /\ Yields(s, k) = FlattenSeq(part(s))
       /\ Yields(u, k) = FlattenSeq(part(u))
  BY DEF Yields, part
<1> QED
  BY <1>2, <1>7, <1>9, <1>10, <1>11, Zenon DEF Joined


(* The items of a map: entry by entry, the key with each of its values.     *)
Row(x) == [i \in DOMAIN x.vals |-> <<x.key, x.vals[i]>>]
Rows(e) == [i \in DOMAIN e |-> Row(e[i])]

LEMMA RowYields ==
  ASSUME NEW x \in Entries(Cells), NEW k
  PROVE  /\ Row(x) \in Seq(Keys \X Cells) /\ x.vals \in Seq(Cells)
         /\ Yields(Row(x), k) = IF x.key = k THEN x.vals ELSE <<>>
<1>1. PICK j \in Keys, vs \in Seq(Cells): j = x.key /\ vs = x.vals
  BY DEF Entries
<1>2. PICK n \in Nat: n = Len(vs)
  OBVIOUS
<1>3. DOMAIN vs = 1..n /\ \A i \in 1..n: vs[i] \in Cells
  BY <1>2
<1>4. Row(x) = [i \in 1..n |-> <<j, vs[i]>>]
  BY <1>1, <1>3 DEF Row
<1>5. Row(x) \in [1..n -> Keys \X Cells]
  BY <1>3, <1>4
<1>6. PICK ps \in Seq(Keys \X Cells): ps = Row(x) /\ Len(ps) = n
  BY <1>5
<1>7. \A i \in 1..n: ps[i][1] = j /\ ps[i][2] = vs[i]
  BY <1>4, <1>6
<1>8. CASE j # k
  <2>1. \A i \in DOMAIN ps: ps[i][1] # k
    BY <1>6, <1>7, <1>8
  <2>2. Yields(ps, k) = <<>>
    BY <2>1, YieldsNothing
  <2> QED
    BY <1>1, <1>6, <1>8, <2>2
<1>9. CASE j = k
  <2> DEFINE b(m) == Yields(SubSeq(ps, 1, m), k)
             v(m) == SubSeq(vs, 1, m)
             P == {m \in Nat: m <= n => b(m) = v(m)}
  <2>1. b(0) = <<>> /\ b(n) = Yields(ps, k)
    BY <1>6, YieldsEnds
  <2>2. v(0) = <<>> /\ v(n) = vs
    BY <1>2, SubSeqFull
  <2>3. ASSUME NEW m \in Nat, b(m) = v(m), m + 1 <= n PROVE b(m + 1) = v(m + 1)
    <3>1. PICK i \in 1..n: i = m + 1 /\ i - 1 = m
      BY <2>3
    <3>2. b(i) = IF ps[i][1] = k THEN Longer(b(i - 1), ps[i][2]) ELSE b(i - 1)
      BY <1>6, YieldsPrefix
    <3>3. v(i) = Append(v(i - 1), vs[i])
      BY <1>2, PrefixGrows
    <3> HIDE DEF b, v
    <3>4. v(i) = Longer(v(i - 1), vs[i])
      BY <3>3 DEF Longer
    <3>5. b(i) = v(i)
      BY <1>7, <1>9, <2>3, <3>1, <3>2, <3>4
    <3> QED
      BY <3>1, <3>5
  <2> HIDE DEF b, v
  <2>4. 0 \in P /\ \A m \in Nat: m \in P => m + 1 \in P
    BY <2>1, <2>2, <2>3
  <2> HIDE DEF P
  <2>5. n \in P
    BY <2>4, Induction
  <2>6. b(n) = v(n)
    BY <2>5 DEF P
  <2> QED
    BY <1>1, <1>6, <1>9, <2>1, <2>2, <2>6
<1> QED
  BY <1>8, <1>9

(* items() has the values of each key in their order.                       *)
LEMMA ItemsValues ==
  ASSUME NEW e \in Tables(Cells), NEW k \in Keys
  PROVE  Yields(ItemsOf(e), k) = GetAll(e, k)
<1>1. PICK n \in Nat: n = Len(e) /\ DOMAIN e = 1..n
  BY DEF Tables
<1>2. \A i \in 1..n: e[i] \in Entries(Cells)
  BY <1>1 DEF Tables
<1>3. PICK R \in Seq(Seq(Keys \X Cells)): R = Rows(e) /\ Len(R) = n /\ \A i \in 1..n: R[i] = Row(e[i])
  <2>1. \A i \in 1..n: Row(e[i]) \in Seq(Keys \X Cells)
    BY <1>2, RowYields
  <2>2. Rows(e) \in [1..n -> Seq(Keys \X Cells)] /\ \A i \in 1..n: Rows(e)[i] = Row(e[i])
    BY <1>1, <2>1 DEF Rows
  <2> HIDE DEF Rows
  <2> QED
    BY <2>2
<1> DEFINE part(m) == FlattenSeq(SubSeq(R, 1, m))
           y(m) == Yields(part(m), k)
           Has(m) == \E i \in 1..m: e[i].key = k
           Is(m) == y(m) = IF Has(m) THEN GetAll(e, k) ELSE <<>>
           P == {m \in Nat: m <= n => Is(m)}
<1>4. PICK vs \in Seq(Cells): vs = GetAll(e, k)
  BY GetAllType
<1>5. Is(0)
  <2>1. SubSeq(R, 1, 0) = <<>>
    OBVIOUS
  <2>2. part(0) = <<>>
    BY <2>1, FlattenEmpty
  <2>3. <<>> \in Seq(Keys \X Cells) /\ \A i \in DOMAIN <<>>: FALSE
    OBVIOUS
  <2>4. Yields(<<>>, k) = <<>>
    BY <2>3, YieldsNothing
  <2>5. ~Has(0)
    OBVIOUS
  <2> QED
    BY <2>2, <2>4, <2>5
<1>6. \A m \in 0..n: part(m) \in Seq(Keys \X Cells) /\ y(m) \in Seq(Cells)
  <2> SUFFICES ASSUME NEW m \in 0..n PROVE part(m) \in Seq(Keys \X Cells) /\ y(m) \in Seq(Cells)
    OBVIOUS
  <2>1. SubSeq(R, 1, m) \in Seq(Seq(Keys \X Cells))
    BY <1>3, SubSeqProperties
  <2>2. part(m) \in Seq(Keys \X Cells)
    BY <2>1, FlattenAppend, EmptySeq
  <2> QED
    BY <2>2, YieldsParts
<1>7. ASSUME NEW i \in 1..n PROVE y(i) = Joined(y(i - 1), Yields(Row(e[i]), k))
  <2>1. PICK s \in Seq(Seq(Keys \X Cells)): s = SubSeq(R, 1, i - 1)
    <3>1. SubSeq(R, 1, i - 1) \in Seq(Seq(Keys \X Cells))
      BY <1>3, SubSeqProperties
    <3> QED
      BY <3>1
  <2>2. PICK r \in Seq(Keys \X Cells): r = Row(e[i]) /\ r = R[i]
    BY <1>2, <1>3, RowYields
  <2>3. SubSeq(R, 1, i) = Append(s, r)
    BY <1>3, <2>1, <2>2, PrefixGrows
  <2>4. FlattenSeq(Append(s, r)) = FlattenSeq(s) \o r
    BY FlattenAppend
  <2>5. PICK f \in Seq(Keys \X Cells): f = FlattenSeq(s)
    BY FlattenAppend, EmptySeq
  <2>6. Yields(Joined(f, r), k) = Joined(Yields(f, k), Yields(r, k))
    BY YieldsConcat
  <2> QED
    BY <2>1, <2>2, <2>3, <2>4, <2>5, <2>6, Zenon DEF Joined
<1> HIDE DEF y, part
<1>8. ASSUME NEW m \in Nat, Is(m), m + 1 <= n PROVE Is(m + 1)
  <2>1. PICK i \in 1..n: i = m + 1 /\ i - 1 = m
    BY <1>8
  <2>2. PICK was \in Seq(Cells): was = y(m)
    BY <1>6, <2>1
  <2>3. PICK x \in Entries(Cells): x = e[i]
    BY <1>2
  <2>4. y(i) = Joined(was, IF x.key = k THEN x.vals ELSE <<>>) /\ x.vals \in Seq(Cells)
    BY <1>7, <2>1, <2>2, <2>3, RowYields
  <2>5. CASE x.key = k
    <3>1. ~Has(m)
      <4>1. \A l \in 1..m: l \in 1..n /\ l # i
        BY <2>1
      <4>2. \A l \in 1..n: e[l].key = e[i].key => l = i
        BY <1>1 DEF Tables
      <4> QED
        BY <2>3, <2>5, <4>1, <4>2
    <3>2. GetAll(e, k) = x.vals
      BY <1>1, <2>3, <2>5, AtUnique
    <3>3. <<>> \o x.vals = x.vals
      BY <2>4, ConcatEmptySeq
    <3>4. Has(i)
      BY <2>3, <2>5
    <3> HIDE DEF Has
    <3>5. y(i) = GetAll(e, k)
      BY <1>8, <2>2, <2>4, <2>5, <3>1, <3>2, <3>3, Zenon DEF Joined
    <3> QED
      BY <2>1, <3>4, <3>5
  <2>6. CASE x.key # k
    <3>1. was \o <<>> = was
      BY ConcatEmptySeq
    <3>2. Has(i) <=> Has(m)
      <4>1. \A l \in 1..i: l = i \/ l \in 1..m
        BY <2>1
      <4>2. \A l \in 1..m: l \in 1..i
        BY <2>1
      <4> QED
        BY <2>3, <2>6, <4>1, <4>2
    <3> HIDE DEF Has
    <3>3. y(i) = y(m)
      BY <2>2, <2>4, <2>6, <3>1, Zenon DEF Joined
    <3> QED
      BY <1>8, <2>1, <3>2, <3>3
  <2> QED
    BY <2>5, <2>6
<1> HIDE DEF Is
<1>9. 0 \in P /\ \A m \in Nat: m \in P => m + 1 \in P
  BY <1>5, <1>8
<1> HIDE DEF P
<1>10. n \in P
  BY <1>9, Induction
<1>11. Is(n)
  BY <1>10 DEF P
<1>12. part(n) = ItemsOf(e)
  <2>1. SubSeq(R, 1, n) = R
    BY <1>3, SubSeqFull
  <2>2. ItemsOf(e) = FlattenSeq(Rows(e))
    BY DEF ItemsOf, Rows, Row
  <2> QED
    BY <1>3, <2>1, <2>2 DEF part
<1>13. ~Has(n) => GetAll(e, k) = <<>>
  BY <1>1 DEF GetAll, HasKey
<1> HIDE DEF Has
<1> QED
  BY <1>11, <1>12, <1>13 DEF Is, y

-----------------------------------------------------------------------------
(* What the maps mean: the values of each key, without the order of the     *)
(* entries.                                                                 *)
Content(e) == [k \in Keys |-> GetAll(e, k)]
Values == [m \in Maps |-> Content(map[m])]

LEMMA PutContent ==
  ASSUME NEW e \in Tables(Cells), NEW k \in Keys, NEW c \in Cells
  PROVE  Content(Put(e, k, c)) = [Content(e) EXCEPT ![k] = <<c>>]
<1>1. \A j \in Keys: GetAll(Put(e, k, c), j) = IF j = k THEN <<c>> ELSE GetAll(e, j)
  BY PutValues
<1> QED
  BY <1>1 DEF Content

LEMMA AddContent ==
  ASSUME NEW e \in Tables(Cells), NEW k \in Keys, NEW c \in Cells
  PROVE  Content(Add(e, k, c)) = [Content(e) EXCEPT ![k] = Append(@, c)]
<1>1. \A j \in Keys: GetAll(Add(e, k, c), j) = IF j = k THEN Longer(GetAll(e, k), c) ELSE GetAll(e, j)
  BY AddValues DEF Longer
<1>2. Content(Add(e, k, c)) = [Content(e) EXCEPT ![k] = Longer(Content(e)[k], c)]
  BY <1>1 DEF Content
<1> QED
  BY <1>2 DEF Longer

LEMMA RemoveContent ==
  ASSUME NEW e \in Tables(Cells), NEW k \in Keys
  PROVE  Content(RemoveKey(e, k)) = [Content(e) EXCEPT ![k] = <<>>]
<1>1. \A j \in Keys: GetAll(RemoveKey(e, k), j) = IF j = k THEN <<>> ELSE GetAll(e, j)
  BY RemoveValues
<1> QED
  BY <1>1 DEF Content

LEMMA PopContent ==
  ASSUME NEW e \in Tables(Cells), NEW k \in Keys, HasKey(e, k)
  PROVE  Content(PopInner(e, k)) = [Content(e) EXCEPT ![k] = Tail(@)]
<1>1. \A j \in Keys: GetAll(PopInner(e, k), j) = IF j = k THEN Tail(GetAll(e, k)) ELSE GetAll(e, j)
  BY PopValues
<1> QED
  BY <1>1 DEF Content

LEMMA EmptyContent == Content(<<>>) = [k \in Keys |-> <<>>]
BY DEF Content, GetAll, HasKey

LEMMA StoreBecomes ==
  ASSUME TablesInv, NEW m \in Maps, NEW e, Store(m, e)
  PROVE  Promise!Become(m, Content(e))
<1>1. map \in [Maps -> Tables(MayHold)] /\ map' = [map EXCEPT ![m] = e]
  BY DEF TablesInv, Store
<1>2. Values' = [Values EXCEPT ![m] = Content(e)]
  BY <1>1 DEF Values, Content
<1> QED
  BY <1>2 DEF Promise!Become, Values, Content

LEMMA SetItemMaps ==
  ASSUME HeaderInv, NEW t, NEW m \in Maps, NEW k \in Keys, NEW c \in PlainCells, SetItem(t, m, k, c)
  PROVE  Promise!Set(m, k, c) /\ gone' = gone
<1>1. map[m] \in Tables(Cells) /\ c \in Cells
  BY CellsAre, MapIsTable DEF HeaderInv
<1>2. Promise!Become(m, Content(Put(map[m], k, c)))
  BY StoreBecomes DEF SetItem, HeaderInv
<1>3. Promise!Become(m, [Content(map[m]) EXCEPT ![k] = <<c>>])
  BY <1>1, <1>2, PutContent
<1>4. Promise!Answer("set", m, "ok") /\ gone' = gone
  BY DEF SetItem, Enter, Answer, Promise!Answer
<1> QED
  BY <1>3, <1>4 DEF Promise!Set, Content

LEMMA DelItemMaps ==
  ASSUME HeaderInv, NEW t, NEW m \in Maps, NEW k \in Keys, DelItem(t, m, k)
  PROVE  Promise!Delete(m, k) /\ gone' = gone
<1>1. map[m] \in Tables(Cells)
  BY MapIsTable DEF HeaderInv
<1>2. Promise!Become(m, Content(RemoveKey(map[m], k)))
  BY StoreBecomes DEF DelItem, HeaderInv
<1>3. Promise!Become(m, [Content(map[m]) EXCEPT ![k] = <<>>])
  BY <1>1, <1>2, RemoveContent
<1>4. HasKey(map[m], k) <=> GetAll(map[m], k) # <<>>
  BY <1>1, GetAllType
<1>5. /\ Promise!Answer("del", m, IF Promise!Has(m, k) THEN <<"ok">> ELSE Promise!KeyError)
      /\ gone' = gone
  BY <1>4 DEF DelItem, Enter, Answer, KeyError, Promise!Answer, Promise!Has, Promise!KeyError
<1> QED
  BY <1>3, <1>5 DEF Promise!Delete, Content

LEMMA PopKeyMaps ==
  ASSUME HeaderInv, NEW m \in Maps, NEW k \in Keys, PopKey(m, k)
  PROVE  /\ HasKey(map[m], k) <=> Promise!Has(m, k)
         /\ Promise!Has(m, k) => Promise!Become(m, [Content(map[m]) EXCEPT ![k] = Tail(@)])
         /\ ~Promise!Has(m, k) => UNCHANGED Values
<1>1. map[m] \in Tables(Cells)
  BY MapIsTable DEF HeaderInv
<1>2. HasKey(map[m], k) <=> Promise!Has(m, k)
  BY <1>1, GetAllType DEF Promise!Has
<1>3. CASE HasKey(map[m], k)
  <2>1. Promise!Become(m, Content(PopInner(map[m], k)))
    BY <1>3, StoreBecomes DEF PopKey, HeaderInv
  <2> QED
    BY <1>1, <1>2, <1>3, <2>1, PopContent
<1>4. CASE ~HasKey(map[m], k)
  BY <1>2, <1>4 DEF PopKey, Values
<1> QED
  BY <1>2, <1>3, <1>4

LEMMA PopMaps ==
  ASSUME HeaderInv, NEW t, NEW m \in Maps, NEW k \in Keys, Pop(t, m, k)
  PROVE  Promise!Pop(m, k) /\ gone' = gone
<1>1. /\ HasKey(map[m], k) <=> Promise!Has(m, k)
      /\ Promise!Has(m, k) => Promise!Become(m, [Content(map[m]) EXCEPT ![k] = Tail(@)])
      /\ ~Promise!Has(m, k) => UNCHANGED Values
  BY PopKeyMaps DEF Pop
<1>2. /\ m \notin gone /\ gone' = gone
      /\ last' = <<"pop", m, IF HasKey(map[m], k) THEN <<Head(GetAll(map[m], k))>> ELSE <<>> >>
  BY DEF Pop, Enter, Answer, KeyError
<1> QED
  BY <1>1, <1>2 DEF Promise!Pop, Promise!Answer, Promise!KeyError, Values, Content

LEMMA PopItemMaps ==
  ASSUME HeaderInv, NEW t, NEW m \in Maps, PopItem(t, m)
  PROVE  Promise!PopItem(m) /\ gone' = gone
<1>1. map[m] \in Tables(Cells)
  BY MapIsTable DEF HeaderInv
<1>2. m \notin gone
  BY DEF PopItem, Enter
<1>3. CASE map[m] = <<>>
  <2>1. \A k \in Keys: ~Promise!Has(m, k)
    BY <1>3 DEF Promise!Has, GetAll, HasKey
  <2>2. last' = <<"popitem", m, <<>> >> /\ gone' = gone /\ map' = map
    BY <1>3 DEF PopItem, Answer, KeyError
  <2> QED
    BY <1>2, <2>1, <2>2 DEF Promise!PopItem, Promise!Answer, Promise!KeyError
<1>4. CASE map[m] # <<>>
  <2>1. 1 \in DOMAIN map[m] /\ map[m][1] \in Entries(Cells)
    BY <1>1, <1>4, EmptySeq DEF Tables
  <2>2. PICK k \in Keys: k = map[m][1].key
    BY <2>1 DEF Entries
  <2>3. PopKey(m, k) /\ last' = <<"popitem", m, <<k, Head(GetAll(map[m], k))>> >> /\ gone' = gone
    BY <1>4, <2>2 DEF PopItem, Answer
  <2>4. HasKey(map[m], k)
    BY <2>1, <2>2 DEF HasKey
  <2>5. Promise!Has(m, k) /\ Promise!Become(m, [Content(map[m]) EXCEPT ![k] = Tail(@)])
    BY <2>3, <2>4, PopKeyMaps
  <2> QED
    BY <1>2, <2>3, <2>5 DEF Promise!PopItem, Promise!Answer, Content
<1> QED
  BY <1>3, <1>4

LEMMA PopAllMaps ==
  ASSUME HeaderInv, NEW t, NEW m \in Maps, NEW k \in Keys, PopAll(t, m, k)
  PROVE  Promise!PopAll(m, k) /\ gone' = gone
<1>1. map[m] \in Tables(Cells)
  BY MapIsTable DEF HeaderInv
<1>2. Promise!Become(m, Content(RemoveKey(map[m], k)))
  BY StoreBecomes DEF PopAll, HeaderInv
<1>3. Promise!Become(m, [Content(map[m]) EXCEPT ![k] = <<>>])
  BY <1>1, <1>2, RemoveContent
<1>4. m \notin gone /\ last' = <<"popall", m, GetAll(map[m], k)>> /\ gone' = gone
  BY DEF PopAll, Enter, Answer
<1> QED
  BY <1>3, <1>4 DEF Promise!PopAll, Promise!Answer, Content

LEMMA ClearMaps ==
  ASSUME HeaderInv, NEW t, NEW m \in Maps, Clear(t, m)
  PROVE  Promise!Clear(m) /\ gone' = gone
<1>1. Promise!Become(m, [k \in Keys |-> <<>>])
  BY StoreBecomes, EmptyContent DEF Clear, HeaderInv
<1> QED
  BY <1>1 DEF Clear, Enter, Answer, Promise!Clear, Promise!Answer

LEMMA SetDefaultMaps ==
  ASSUME HeaderInv, NEW t, NEW m \in Maps, NEW k \in Keys, NEW c \in PlainCells, SetDefault(t, m, k, c)
  PROVE  Promise!SetDefault(m, k, c) /\ gone' = gone
<1>1. map[m] \in Tables(Cells) /\ c \in Cells
  BY CellsAre, MapIsTable DEF HeaderInv
<1>2. HasKey(map[m], k) <=> Promise!Has(m, k)
  BY <1>1, GetAllType DEF Promise!Has
<1>3. m \notin gone
  BY DEF SetDefault, Enter
<1>4. CASE HasKey(map[m], k)
  <2>1. last' = <<"setdefault", m, <<Head(GetAll(map[m], k))>> >> /\ gone' = gone /\ map' = map
    BY <1>4 DEF SetDefault, Answer
  <2> QED
    BY <1>2, <1>3, <1>4, <2>1 DEF Promise!SetDefault, Promise!Answer
<1>5. CASE ~HasKey(map[m], k)
  <2>1. Promise!Become(m, Content(Put(map[m], k, c)))
    BY <1>5, StoreBecomes DEF SetDefault, HeaderInv
  <2>2. Promise!Become(m, [Content(map[m]) EXCEPT ![k] = <<c>>])
    BY <1>1, <2>1, PutContent
  <2>3. last' = <<"setdefault", m, <<c>> >> /\ gone' = gone
    BY <1>5 DEF SetDefault, Answer
  <2> QED
    BY <1>2, <1>3, <1>5, <2>2, <2>3 DEF Promise!SetDefault, Promise!Answer, Content
<1> QED
  BY <1>4, <1>5

LEMMA InsertMaps ==
  ASSUME HeaderInv, NEW t, NEW m \in Maps, NEW k \in Keys, NEW v \in Vals, Insert(t, m, k, v)
  PROVE  Promise!Insert(m, k, Given(v)) /\ Given(v) \in Cells /\ gone' = gone
<1>1. map[m] \in Tables(Cells) /\ Given(v) \in Cells
  BY CellsAre, MapIsTable DEF HeaderInv
<1>2. PICK c \in Cells: c = Given(v)
  BY <1>1
<1>3. Promise!Become(m, Content(Put(map[m], k, c)))
  BY <1>2, StoreBecomes DEF Insert, HeaderInv
<1>4. Promise!Become(m, [Content(map[m]) EXCEPT ![k] = <<c>>])
  BY <1>1, <1>3, PutContent
<1>5. m \notin gone /\ last' = <<"insert", m, GetAll(map[m], k)>> /\ gone' = gone
  BY DEF Insert, Enter, Answer
<1>6. Promise!Insert(m, k, c)
  BY <1>4, <1>5 DEF Promise!Insert, Promise!Answer, Content
<1> QED
  BY <1>2, <1>5, <1>6

LEMMA AppendValueMaps ==
  ASSUME HeaderInv, NEW t, NEW m \in Maps, NEW k \in Keys, NEW v \in Vals, AppendValue(t, m, k, v)
  PROVE  Promise!Append1(m, k, Given(v)) /\ Given(v) \in Cells /\ gone' = gone
<1>1. map[m] \in Tables(Cells) /\ Given(v) \in Cells
  BY CellsAre, MapIsTable DEF HeaderInv
<1>2. PICK c \in Cells: c = Given(v)
  BY <1>1
<1>3. Promise!Become(m, Content(Add(map[m], k, c)))
  BY <1>2, StoreBecomes DEF AppendValue, HeaderInv
<1>4. Promise!Become(m, [Content(map[m]) EXCEPT ![k] = Append(@, c)])
  BY <1>1, <1>3, AddContent
<1>5. m \notin gone /\ last' = <<"append", m, HasKey(map[m], k)>> /\ gone' = gone
  BY DEF AppendValue, Enter, Answer
<1>6. HasKey(map[m], k) = Promise!Has(m, k)
  <2>1. HasKey(map[m], k) <=> GetAll(map[m], k) # <<>>
    BY <1>1, GetAllType
  <2>2. HasKey(map[m], k) \in BOOLEAN
    BY DEF HasKey
  <2>3. Promise!Has(m, k) = (GetAll(map[m], k) # <<>>)
    BY DEF Promise!Has
  <2> QED
    BY <2>1, <2>2, <2>3
<1>7. Promise!Answer("append", m, Promise!Has(m, k))
  BY <1>5, <1>6, Zenon DEF Promise!Answer
<1>8. Promise!Append1(m, k, c)
  BY <1>4, <1>7 DEF Promise!Append1, Content
<1> QED
  BY <1>2, <1>5, <1>8

LEMMA CopyMaps ==
  ASSUME HeaderInv, NEW t, NEW m \in Maps, NEW n \in Maps, Copy(t, m, n)
  PROVE  Promise!Copy(m, n) /\ n \notin gone /\ gone' = gone
<1>1. Promise!Become(n, Content(map[m]))
  BY StoreBecomes DEF Copy, HeaderInv
<1> QED
  BY <1>1 DEF Copy, Enter, Answer, Promise!Copy, Promise!Answer, Content

LEMMA OfIs ==
  ASSUME NEW ps, NEW k
  PROVE  Promise!Of(ps, k) = Yields(ps, k)
BY DEF Promise!Of, Yields, Promise!FlattenSeq, FlattenSeq

LEMMA PairsAre ==
  ASSUME LockInv, NEW ps \in SomePairs
  PROVE  ps \in Seq(Keys \X Cells) /\ ps \in BoundedSeq(Keys \X PlainCells, MaxPairs)
<1>1. PICK n \in 0..MaxPairs: ps \in [1..n -> world.keys \X PlainCells]
  BY DEF SomePairs, BoundedSeq, SeqOf
<1>2. world.keys \subseteq Keys /\ n \in Nat
  BY <1>1, WorldType
<1>3. ps \in [1..n -> Keys \X PlainCells]
  BY <1>1, <1>2
<1>4. PlainCells \subseteq Cells
  BY CellsAre
<1>5. ps \in [1..n -> Keys \X Cells]
  BY <1>3, <1>4
<1> QED
  BY <1>2, <1>3, <1>5 DEF BoundedSeq, SeqOf

LEMMA PairsContent ==
  ASSUME NEW m \in Maps, map[m] \in Tables(Cells), NEW ps \in Seq(Keys \X Cells)
  PROVE  /\ Content(PutPairs(map[m], ps)) = Promise!Updated(m, ps)
         /\ Content(AddPairs(map[m], ps)) = Promise!Extended(m, ps)
<1>1. \A k \in Keys: Promise!Of(ps, k) = Yields(ps, k)
  BY OfIs
<1>2. Content(PutPairs(map[m], ps)) = Promise!Updated(m, ps)
  <2>1. \A k \in Keys: GetAll(PutPairs(map[m], ps), k)
                         = IF Yields(ps, k) = <<>> THEN GetAll(map[m], k) ELSE <<Last(Yields(ps, k))>>
    BY PutPairsValues
  <2>2. \A s: Promise!Last(s) = Last(s)
    BY DEF Promise!Last, Last
  <2> QED
    BY <1>1, <2>1, <2>2 DEF Content, Promise!Updated
<1>3. Content(AddPairs(map[m], ps)) = Promise!Extended(m, ps)
  <2>1. \A k \in Keys: GetAll(AddPairs(map[m], ps), k) = GetAll(map[m], k) \o Yields(ps, k)
    BY AddPairsValues DEF Joined
  <2> QED
    BY <1>1, <2>1 DEF Content, Promise!Extended
<1> QED
  BY <1>2, <1>3

LEMMA UpdatePairsMaps ==
  ASSUME HeaderInv, NEW t, NEW m \in Maps, NEW ps \in SomePairs, NEW bad, UpdatePairs(t, m, ps, bad)
  PROVE  Promise!Update(m) /\ gone' = gone
<1>1. map[m] \in Tables(Cells)
  BY MapIsTable DEF HeaderInv
<1>2. ps \in Seq(Keys \X Cells) /\ ps \in BoundedSeq(Keys \X PlainCells, MaxPairs)
  BY PairsAre DEF HeaderInv
<1>3. Promise!Become(m, Content(PutPairs(map[m], ps)))
  BY StoreBecomes DEF UpdatePairs, HeaderInv
<1>4. Promise!Become(m, Promise!Updated(m, ps))
  BY <1>1, <1>2, <1>3, PairsContent
<1>5. Promise!Merged("update", m) /\ gone' = gone
  BY DEF UpdatePairs, Enter, Answer, Promise!Merged, Promise!Answer
<1> QED
  BY <1>2, <1>4, <1>5 DEF Promise!Update

LEMMA ExtendPairsMaps ==
  ASSUME HeaderInv, NEW t, NEW m \in Maps, NEW ps \in SomePairs, NEW bad, ExtendPairs(t, m, ps, bad)
  PROVE  Promise!Extend(m) /\ gone' = gone
<1>1. map[m] \in Tables(Cells)
  BY MapIsTable DEF HeaderInv
<1>2. ps \in Seq(Keys \X Cells) /\ ps \in BoundedSeq(Keys \X PlainCells, MaxPairs)
  BY PairsAre DEF HeaderInv
<1>3. Promise!Become(m, Content(AddPairs(map[m], ps)))
  BY StoreBecomes DEF ExtendPairs, HeaderInv
<1>4. Promise!Become(m, Promise!Extended(m, ps))
  BY <1>1, <1>2, <1>3, PairsContent
<1>5. Promise!Merged("extend", m) /\ gone' = gone
  BY DEF ExtendPairs, Enter, Answer, Promise!Merged, Promise!Answer
<1> QED
  BY <1>2, <1>4, <1>5 DEF Promise!Extend

(* The items of one map, merged into another.                               *)
LEMMA ItemsContent ==
  ASSUME NEW m \in Maps, NEW n \in Maps, map[m] \in Tables(Cells), map[n] \in Tables(Cells)
  PROVE  /\ Blank(ItemsOf(map[n])) \in Seq(Keys \X Cells)
         /\ Content(PutPairs(map[m], Blank(ItemsOf(map[n])))) = Promise!UpdatedFrom(m, n)
         /\ Content(AddPairs(map[m], Blank(ItemsOf(map[n])))) = Promise!ExtendedFrom(m, n)
<1>1. PICK is \in Seq(Keys \X Cells): is = ItemsOf(map[n])
  BY ItemsType
<1>2. PICK ps \in Seq(Keys \X Cells): ps = Blank(is)
  BY BlankValues
<1>3. \A k \in Keys: Yields(ps, k) = Unmarked(GetAll(map[n], k))
  BY <1>1, <1>2, BlankValues, ItemsValues
<1>4. \A k \in Keys: Unmarked(GetAll(map[n], k)) = Promise!Unmarked(GetAll(map[n], k))
  BY DEF Unmarked, Plain, Cell, Promise!Unmarked
<1>5. \A k \in Keys: Unmarked(GetAll(map[n], k)) = <<>> <=> GetAll(map[n], k) = <<>>
  <2> SUFFICES ASSUME NEW k \in Keys
               PROVE  Unmarked(GetAll(map[n], k)) = <<>> <=> GetAll(map[n], k) = <<>>
    OBVIOUS
  <2>1. PICK s \in Seq(Cells): s = GetAll(map[n], k)
    BY GetAllType
  <2>2. DOMAIN Unmarked(s) = DOMAIN s
    BY DEF Unmarked
  <2>3. s = <<>> => Unmarked(s) = <<>>
    BY DEF Unmarked
  <2>4. s # <<>> => 1 \in DOMAIN s
    BY EmptySeq
  <2> QED
    BY <2>1, <2>2, <2>3, <2>4
<1>6. Content(PutPairs(map[m], ps)) = Promise!UpdatedFrom(m, n)
  <2>1. \A k \in Keys: GetAll(PutPairs(map[m], ps), k)
                         = IF Yields(ps, k) = <<>> THEN GetAll(map[m], k) ELSE <<Last(Yields(ps, k))>>
    BY PutPairsValues
  <2>2. \A s: Promise!Last(s) = Last(s)
    BY DEF Promise!Last, Last
  <2>3. \A k \in Keys: GetAll(PutPairs(map[m], ps), k)
                         = IF GetAll(map[n], k) # <<>>
                             THEN <<Promise!Last(Promise!Unmarked(GetAll(map[n], k)))>>
                             ELSE GetAll(map[m], k)
    BY <1>3, <1>4, <1>5, <2>1, <2>2
  <2> QED
    BY <2>3 DEF Content, Promise!UpdatedFrom, Promise!Has
<1>7. Content(AddPairs(map[m], ps)) = Promise!ExtendedFrom(m, n)
  <2>1. \A k \in Keys: GetAll(AddPairs(map[m], ps), k) = GetAll(map[m], k) \o Yields(ps, k)
    BY AddPairsValues DEF Joined
  <2> QED
    BY <1>3, <1>4, <2>1 DEF Content, Promise!ExtendedFrom
<1> QED
  BY <1>1, <1>2, <1>6, <1>7

(* ==: the same keys, each with the same values in the same order.          *)
LEMMA SameIs ==
  ASSUME NEW e \in Tables(Cells), NEW f \in Tables(Cells)
  PROVE  SameHeaders(e, f) <=> \A k \in Keys: Bare(GetAll(e, k)) = Bare(GetAll(f, k))
<1>1. ASSUME NEW s \in Seq(Cells) PROVE Bare(s) = <<>> <=> s = <<>>
  <2>1. DOMAIN Bare(s) = DOMAIN s
    BY DEF Bare
  <2>2. s = <<>> => Bare(s) = <<>>
    BY DEF Bare
  <2>3. s # <<>> => 1 \in DOMAIN s
    BY EmptySeq
  <2> QED
    BY <2>1, <2>2, <2>3
<1>2. ASSUME NEW g \in Tables(Cells), NEW k \in Keys
      PROVE  HasKey(g, k) <=> Bare(GetAll(g, k)) # <<>>
  <2>1. GetAll(g, k) \in Seq(Cells) /\ (HasKey(g, k) <=> GetAll(g, k) # <<>>)
    BY GetAllType
  <2> QED
    BY <1>1, <2>1
<1>3. ASSUME NEW g \in Tables(Cells), NEW i \in DOMAIN g
      PROVE  g[i].key \in Keys /\ HasKey(g, g[i].key) /\ GetAll(g, g[i].key) = g[i].vals
  <2>1. g[i] \in Entries(Cells)
    BY DEF Tables
  <2> QED
    BY <2>1, AtUnique DEF Entries
<1>4. ASSUME SameHeaders(e, f), NEW k \in Keys
      PROVE  Bare(GetAll(e, k)) = Bare(GetAll(f, k))
  <2>1. HasKey(e, k) <=> HasKey(f, k)
    BY <1>4 DEF SameHeaders, HasKey
  <2>2. CASE HasKey(e, k)
    <3>1. PICK i \in DOMAIN e: e[i].key = k
      BY <2>2 DEF HasKey
    <3> QED
      BY <1>3, <1>4, <3>1 DEF SameHeaders
  <2>3. CASE ~HasKey(e, k)
    BY <1>2, <2>1, <2>3
  <2> QED
    BY <2>2, <2>3
<1>5. ASSUME \A k \in Keys: Bare(GetAll(e, k)) = Bare(GetAll(f, k))
      PROVE  SameHeaders(e, f)
  <2>1. \A k \in Keys: HasKey(e, k) <=> HasKey(f, k)
    BY <1>2, <1>5
  <2>2. ASSUME NEW i \in DOMAIN e
        PROVE  e[i].key \in {f[j].key: j \in DOMAIN f} /\ Bare(e[i].vals) = Bare(GetAll(f, e[i].key))
    <3>1. e[i].key \in Keys /\ HasKey(f, e[i].key) /\ GetAll(e, e[i].key) = e[i].vals
      BY <1>3, <2>1
    <3> QED
      BY <1>5, <3>1 DEF HasKey
  <2>3. ASSUME NEW i \in DOMAIN f
        PROVE  f[i].key \in {e[j].key: j \in DOMAIN e}
    <3>1. f[i].key \in Keys /\ HasKey(e, f[i].key)
      BY <1>3, <2>1
    <3> QED
      BY <3>1 DEF HasKey
  <2> QED
    BY <2>2, <2>3 DEF SameHeaders
<1> QED
  BY <1>4, <1>5

-----------------------------------------------------------------------------
(* Whoever is inside a long call on a map holds its mutex, and the content  *)
(* of such a map cannot be taken away.                                      *)
OwnersInv == /\ \A m \in Maps: holder[m] # Nobody => m \notin gone
             /\ \A t \in Threads: call[t].kind \in {"map", "python"} => holder[call[t].on] = t

LEMMA OnMap ==
  ASSUME LockInv, NEW t \in Threads, call[t].kind \in {"map", "python"}
  PROVE  /\ call[t].on \in Maps /\ call[t].op \in Ops
         /\ call[t].kind = "map" => call[t].src \in Maps
<1>1. call[t] \in Calls
  BY DEF LockInv
<1> QED
  BY <1>1 DEF Calls, Idle

LEMMA StartKeepsOwners ==
  ASSUME LockInv, OwnersInv, NEW t \in Threads, NEW m \in Maps, NEW c, c.on = m, Start(t, m, c)
  PROVE  OwnersInv'
<1>1. /\ holder[m] = Nobody /\ m \notin gone /\ gone' = gone
      /\ holder' = [holder EXCEPT ![m] = t] /\ call' = [call EXCEPT ![t] = c]
  BY DEF Start, Enter
<1>2. holder \in [Maps -> Threads \union {Nobody}] /\ call \in [Threads -> Calls]
  BY DEF LockInv
<1>3. ASSUME NEW n \in Maps, holder'[n] # Nobody PROVE n \notin gone'
  BY <1>1, <1>2, <1>3 DEF OwnersInv
<1>4. ASSUME NEW u \in Threads, call'[u].kind \in {"map", "python"}
      PROVE  holder'[call'[u].on] = u
  <2>1. CASE u = t
    BY <1>1, <1>2, <2>1
  <2>2. CASE u # t
    <3>1. call'[u] = call[u]
      BY <1>1, <1>2, <2>2
    <3>2. PICK n \in Maps: n = call[u].on
      BY <1>4, <3>1, OnMap
    <3>3. holder[n] = u /\ u # Nobody
      BY <1>4, <3>1, <3>2, HeaderAssumption DEF OwnersInv
    <3> QED
      BY <1>1, <1>2, <3>1, <3>2, <3>3
  <2> QED
    BY <2>1, <2>2
<1> QED
  BY <1>3, <1>4 DEF OwnersInv

(* A thread leaves its long call, or is in none.                            *)
LEMMA FinishKeepsOwners ==
  ASSUME LockInv, OwnersInv, NEW t \in Threads, NEW m \in Maps, holder[m] = t, Finish(t, m)
  PROVE  OwnersInv'
<1>1. /\ gone' = gone /\ holder' = [holder EXCEPT ![m] = Nobody] /\ call' = [call EXCEPT ![t] = Idle]
      /\ Idle.kind = "idle"
  BY DEF Finish, Idle
<1>2. holder \in [Maps -> Threads \union {Nobody}] /\ call \in [Threads -> Calls]
  BY DEF LockInv
<1>3. ASSUME NEW n \in Maps, holder'[n] # Nobody PROVE n \notin gone'
  BY <1>1, <1>2, <1>3 DEF OwnersInv
<1>4. ASSUME NEW u \in Threads, call'[u].kind \in {"map", "python"}
      PROVE  holder'[call'[u].on] = u
  <2>1. u # t
    BY <1>1, <1>2, <1>4
  <2>2. call'[u] = call[u]
    BY <1>1, <1>2, <2>1
  <2>3. PICK n \in Maps: n = call[u].on
    BY <1>4, <2>2, OnMap
  <2>4. holder[n] = u
    BY <1>4, <2>2, <2>3 DEF OwnersInv
  <2> QED
    BY <1>1, <1>2, <2>1, <2>2, <2>3, <2>4
<1> QED
  BY <1>3, <1>4 DEF OwnersInv

LEMMA WaitKeepsOwners ==
  ASSUME LockInv, OwnersInv, NEW t \in Threads, NEW c \in Calls, c.kind \in {"idle", "blocked"},
         call' = [call EXCEPT ![t] = c], UNCHANGED <<holder, gone>>
  PROVE  OwnersInv'
<1>1. \A u \in Threads: call'[u].kind \in {"map", "python"} => call'[u] = call[u]
  BY DEF LockInv
<1> QED
  BY <1>1 DEF OwnersInv

LEMMA OwnersMapCall ==
  ASSUME HeaderInv, OwnersInv, NEW t \in Threads, NEW m \in Maps, MapCall(t, m)
  PROVE  OwnersInv'
<1>1. LockInv
  BY DEF HeaderInv
<1>2. CASE LongCall(t, m)
  <2>1. PICK op \in Ops: StartFromPython(t, m, op) \/ \E n \in world.maps: StartFromMap(t, m, n, op)
    BY <1>2 DEF LongCall, Ops
  <2>2. CASE StartFromPython(t, m, op)
    <3>1. PICK c: c = [kind |-> "python", on |-> m, op |-> op]
      OBVIOUS
    <3>2. c.on = m
      BY <3>1
    <3> QED
      BY <1>1, <2>2, <3>1, <3>2, StartKeepsOwners DEF StartFromPython
  <2>3. CASE \E n \in world.maps: StartFromMap(t, m, n, op)
    <3>1. PICK n: StartFromMap(t, m, n, op)
      BY <2>3
    <3>2. PICK c: c = [kind |-> "map", on |-> m, src |-> n, op |-> op]
      OBVIOUS
    <3>3. c.on = m
      BY <3>2
    <3> QED
      BY <1>1, <3>1, <3>2, <3>3, StartKeepsOwners DEF StartFromMap
  <2> QED
    BY <2>1, <2>2, <2>3
<1>3. CASE Block(t, m)
  <2>1. PICK c \in Calls: c = [kind |-> "blocked", on |-> m]
    BY DEF Calls
  <2>2. c.kind \in {"idle", "blocked"}
    BY <2>1
  <2>3. call' = [call EXCEPT ![t] = c] /\ UNCHANGED <<holder, gone>>
    BY <1>3, <2>1 DEF Block
  <2> QED
    BY <1>1, <2>2, <2>3, WaitKeepsOwners
<1>4. CASE Take(t, m)
  <2>1. holder[m] = Nobody /\ gone' = gone \union {m} /\ UNCHANGED <<holder, call>>
    BY <1>4 DEF Take, Enter, locks
  <2> QED
    BY <2>1 DEF OwnersInv
<1>5. CASE \/ PopItem(t, m) \/ Clear(t, m) \/ PairsCall(t, m) \/ NewItems(t, m)
           \/ \E n \in world.maps: Copy(t, m, n)
           \/ \E k \in world.keys: KeyCall(t, m, k) \/ ValueCall(t, m, k)
  <2>1. UNCHANGED <<gone, locks>>
    <3>1. CASE PairsCall(t, m)
      BY <3>1, PairsCallStep
    <3>2. CASE \E k \in world.keys: KeyCall(t, m, k) \/ ValueCall(t, m, k)
      BY <1>1, <3>2, WorldType, KeyCallStep, ValueCallStep
    <3> QED
      BY <1>5, <3>1, <3>2 DEF PopItem, Clear, NewItems, Copy, Answer
  <2> QED
    BY <2>1 DEF OwnersInv, locks
<1> QED
  BY <1>2, <1>3, <1>4, <1>5 DEF MapCall

LEMMA OwnersProceed ==
  ASSUME LockInv, OwnersInv, NEW t \in Threads, Proceed(t)
  PROVE  OwnersInv'
<1>1. CASE Wake(t)
  <2>1. Idle \in Calls /\ Idle.kind \in {"idle", "blocked"}
    BY DEF Calls, Idle
  <2>2. call' = [call EXCEPT ![t] = Idle] /\ UNCHANGED <<holder, gone>>
    BY <1>1 DEF Wake
  <2> QED
    BY <2>1, <2>2, WaitKeepsOwners
<1>2. ASSUME call[t].kind \in {"map", "python"}, Finish(t, call[t].on) PROVE OwnersInv'
  <2>1. PICK m \in Maps: m = call[t].on
    BY <1>2, OnMap
  <2>2. holder[m] = t
    BY <1>2, <2>1 DEF OwnersInv
  <2> QED
    BY <1>2, <2>1, <2>2, FinishKeepsOwners
<1> QED
  BY <1>1, <1>2 DEF Proceed, FinishFromMap, FinishFromPython

LEMMA OwnersNext ==
  ASSUME HeaderInv, OwnersInv, [Next]_vars
  PROVE  OwnersInv'
<1>1. LockInv
  BY DEF HeaderInv
<1>2. CASE UNCHANGED vars
  BY <1>2 DEF vars, locks, OwnersInv
<1>3. CASE DropIter
  BY <1>3 DEF DropIter, locks, OwnersInv
<1>4. ASSUME NEW t \in world.threads,
             Proceed(t) \/ NextItem(t) \/ \E m \in world.maps: MapCall(t, m)
      PROVE  OwnersInv'
  <2>1. t \in Threads /\ world.maps \subseteq Maps
    BY <1>1, WorldType
  <2>2. CASE NextItem(t)
    BY <2>2 DEF NextItem, locks, OwnersInv
  <2> QED
    BY <1>1, <1>4, <2>1, <2>2, OwnersProceed, OwnersMapCall
<1> QED
  BY <1>2, <1>3, <1>4 DEF Next

LEMMA OwnersInvariant == Spec => []OwnersInv
<1>1. Init => OwnersInv
  BY DEF Init, Idle, OwnersInv
<1>2. HeaderInv /\ OwnersInv /\ [Next]_vars => OwnersInv'
  BY OwnersNext
<1> QED
  BY <1>1, <1>2, HeaderInvariant, PTL DEF Spec

LEMMA FinishFromMapMaps ==
  ASSUME HeaderInv, OwnersInv, NEW t \in Threads, FinishFromMap(t)
  PROVE  /\ gone' = gone
         /\ \/ UNCHANGED <<map, last>>
            \/ \E m \in Maps, n \in Maps \ gone:
                 Promise!Equal(m, n) \/ Promise!UpdateFrom(m, n) \/ Promise!ExtendFrom(m, n)
<1>1. call[t].kind = "map" /\ gone' = gone
  BY DEF FinishFromMap, Finish
<1>2. PICK m \in Maps, n \in Maps, op \in Ops: m = call[t].on /\ n = call[t].src /\ op = call[t].op
  BY <1>1, OnMap DEF HeaderInv
<1>3. m \notin gone
  <2>1. holder[m] = t /\ t # Nobody
    BY <1>1, <1>2, HeaderAssumption DEF OwnersInv
  <2> QED
    BY <2>1 DEF OwnersInv
<1>4. map[m] \in Tables(Cells) /\ map[n] \in Tables(Cells)
  BY MapIsTable DEF HeaderInv
<1>5. CASE n \in gone
  BY <1>1, <1>2, <1>5 DEF FinishFromMap
<1>6. CASE n \notin gone /\ op = "eq"
  <2>1. last' = <<"eq", m, SameHeaders(map[m], map[n])>> /\ map' = map
    BY <1>2, <1>6 DEF FinishFromMap
  <2>2. SameHeaders(map[m], map[n]) = \A k \in Keys: Bare(GetAll(map[m], k)) = Bare(GetAll(map[n], k))
    BY <1>4, SameIs DEF SameHeaders
  <2>3. Promise!Equal(m, n)
    BY <1>3, <2>1, <2>2 DEF Promise!Equal, Promise!Answer, Bare
  <2> QED
    BY <1>1, <1>6, <2>3
<1>7. CASE n \notin gone /\ op # "eq"
  <2>1. PICK ps: ps = Blank(ItemsOf(map[n]))
    OBVIOUS
  <2>2. MergePairs(op, m, ps, "ok")
    BY <1>2, <1>7, <2>1 DEF FinishFromMap, Blank
  <2>3. CASE op = "update"
    <3>1. Promise!Become(m, Content(PutPairs(map[m], ps)))
      BY <2>2, <2>3, StoreBecomes DEF MergePairs, HeaderInv
    <3>2. Promise!Become(m, Promise!UpdatedFrom(m, n))
      BY <1>4, <2>1, <3>1, ItemsContent
    <3>3. last' = <<"update", m, "ok">>
      BY <2>2, <2>3 DEF MergePairs
    <3>4. Promise!UpdateFrom(m, n)
      BY <1>3, <3>2, <3>3 DEF Promise!UpdateFrom, Promise!Answer
    <3> QED
      BY <1>1, <1>7, <3>4
  <2>4. CASE op = "extend"
    <3>1. Promise!Become(m, Content(AddPairs(map[m], ps)))
      BY <2>2, <2>4, StoreBecomes DEF MergePairs, HeaderInv
    <3>2. Promise!Become(m, Promise!ExtendedFrom(m, n))
      BY <1>4, <2>1, <3>1, ItemsContent
    <3>3. last' = <<"extend", m, "ok">>
      BY <2>2, <2>4 DEF MergePairs
    <3>4. Promise!ExtendFrom(m, n)
      BY <1>3, <3>2, <3>3 DEF Promise!ExtendFrom, Promise!Answer
    <3> QED
      BY <1>1, <1>7, <3>4
  <2> QED
    BY <1>7, <2>3, <2>4 DEF Ops
<1> QED
  BY <1>5, <1>6, <1>7

LEMMA FinishFromPythonMaps ==
  ASSUME HeaderInv, OwnersInv, NEW t \in Threads, NEW ps \in SomePairs, FinishFromPython(t, ps)
  PROVE  /\ gone' = gone
         /\ \/ UNCHANGED <<map, last>>
            \/ \E m \in Maps: Promise!Update(m) \/ Promise!Extend(m)
<1>1. call[t].kind = "python" /\ gone' = gone
  BY DEF FinishFromPython, Finish
<1>2. PICK m \in Maps, op \in Ops: m = call[t].on /\ op = call[t].op
  BY <1>1, OnMap DEF HeaderInv
<1>3. m \notin gone
  <2>1. holder[m] = t /\ t # Nobody
    BY <1>1, <1>2, HeaderAssumption DEF OwnersInv
  <2> QED
    BY <2>1 DEF OwnersInv
<1>4. map[m] \in Tables(Cells)
  BY MapIsTable DEF HeaderInv
<1>5. ps \in Seq(Keys \X Cells) /\ ps \in BoundedSeq(Keys \X PlainCells, MaxPairs)
  BY PairsAre DEF HeaderInv
<1>6. CASE op = "eq"
  BY <1>1, <1>2, <1>6 DEF FinishFromPython
<1>7. CASE op # "eq"
  <2>1. MergePairs(op, m, ps, "ok")
    BY <1>2, <1>7 DEF FinishFromPython
  <2>2. CASE op = "update"
    <3>1. Promise!Become(m, Content(PutPairs(map[m], ps)))
      BY <2>1, <2>2, StoreBecomes DEF MergePairs, HeaderInv
    <3>2. Promise!Become(m, Promise!Updated(m, ps))
      BY <1>4, <1>5, <3>1, PairsContent
    <3>3. last' = <<"update", m, "ok">>
      BY <2>1, <2>2 DEF MergePairs
    <3>4. Promise!Update(m)
      BY <1>3, <1>5, <3>2, <3>3 DEF Promise!Update, Promise!Merged, Promise!Answer
    <3> QED
      BY <1>1, <3>4
  <2>3. CASE op = "extend"
    <3>1. Promise!Become(m, Content(AddPairs(map[m], ps)))
      BY <2>1, <2>3, StoreBecomes DEF MergePairs, HeaderInv
    <3>2. Promise!Become(m, Promise!Extended(m, ps))
      BY <1>4, <1>5, <3>1, PairsContent
    <3>3. last' = <<"extend", m, "ok">>
      BY <2>1, <2>3 DEF MergePairs
    <3>4. Promise!Extend(m)
      BY <1>3, <1>5, <3>2, <3>3 DEF Promise!Extend, Promise!Merged, Promise!Answer
    <3> QED
      BY <1>1, <3>4
  <2> QED
    BY <1>7, <2>2, <2>3 DEF Ops
<1> QED
  BY <1>6, <1>7

LEMMA MapCallMaps ==
  ASSUME HeaderInv, NEW t \in Threads, NEW m \in Maps, MapCall(t, m)
  PROVE  Promise!Next \/ UNCHANGED <<map, gone, last>>
<1>1. LockInv /\ world.maps \subseteq Maps /\ world.keys \subseteq Keys
  BY WorldType DEF HeaderInv
<1>2. (Promise!Call(m) /\ gone' = gone) \/ Promise!Take(m) => Promise!Next
  BY DEF Promise!Next
<1>3. CASE PopItem(t, m)
  BY <1>2, <1>3, PopItemMaps DEF Promise!Call
<1>4. CASE Clear(t, m)
  BY <1>2, <1>4, ClearMaps DEF Promise!Call
<1>5. CASE Take(t, m)
  <2>1. Promise!Take(m)
    BY <1>5 DEF Take, Enter, Promise!Take, Promise!Answer
  <2> QED
    BY <1>2, <2>1
<1>6. CASE PairsCall(t, m)
  <2>1. PICK ps \in SomePairs, bad \in BOOLEAN: UpdatePairs(t, m, ps, bad) \/ ExtendPairs(t, m, ps, bad)
    BY <1>6 DEF PairsCall
  <2> QED
    BY <1>2, <2>1, UpdatePairsMaps, ExtendPairsMaps DEF Promise!Call
<1>7. CASE LongCall(t, m)
  BY <1>7 DEF LongCall, StartFromPython, StartFromMap, Start
<1>8. CASE Block(t, m)
  BY <1>8 DEF Block
<1>9. CASE NewItems(t, m)
  BY <1>9 DEF NewItems
<1>10. CASE \E n \in world.maps: Copy(t, m, n)
  <2>1. PICK n \in Maps: Copy(t, m, n)
    BY <1>1, <1>10
  <2> QED
    BY <1>2, <2>1, CopyMaps DEF Promise!Call
<1>11. ASSUME NEW k \in world.keys, KeyCall(t, m, k) PROVE Promise!Next
  <2>1. k \in Keys
    BY <1>1
  <2>2. (Promise!Delete(m, k) \/ Promise!Pop(m, k) \/ Promise!PopAll(m, k)) /\ gone' = gone
    BY <1>11, <2>1, DelItemMaps, PopMaps, PopAllMaps DEF KeyCall
  <2> QED
    BY <1>2, <2>1, <2>2 DEF Promise!Call
<1>12. ASSUME NEW k \in world.keys, ValueCall(t, m, k) PROVE Promise!Next
  <2>1. k \in Keys
    BY <1>1
  <2>2. \E c \in Cells: /\ \/ Promise!Set(m, k, c) \/ Promise!SetDefault(m, k, c)
                           \/ Promise!Insert(m, k, c) \/ Promise!Append1(m, k, c)
                        /\ gone' = gone
    <3>1. CASE \E c \in PlainCells: SetItem(t, m, k, c) \/ SetDefault(t, m, k, c)
      BY <2>1, <3>1, SetItemMaps, SetDefaultMaps, CellsAre
    <3>2. CASE \E v \in Vals: Insert(t, m, k, v) \/ AppendValue(t, m, k, v)
      BY <2>1, <3>2, InsertMaps, AppendValueMaps
    <3> QED
      BY <1>12, <3>1, <3>2 DEF ValueCall
  <2> QED
    BY <1>2, <2>1, <2>2 DEF Promise!Call
<1> QED
  BY <1>3, <1>4, <1>5, <1>6, <1>7, <1>8, <1>9, <1>10, <1>11, <1>12 DEF MapCall

LEMMA ProceedMaps ==
  ASSUME HeaderInv, OwnersInv, NEW t \in Threads, Proceed(t)
  PROVE  Promise!Next \/ UNCHANGED <<map, gone, last>>
<1>1. \A m \in Maps: Promise!Call(m) /\ gone' = gone => Promise!Next
  BY DEF Promise!Next
<1>2. CASE FinishFromMap(t)
  BY <1>1, <1>2, FinishFromMapMaps DEF Promise!Call
<1>3. CASE Wake(t)
  BY <1>3 DEF Wake
<1>4. CASE \E ps \in SomePairs: FinishFromPython(t, ps)
  BY <1>1, <1>4, FinishFromPythonMaps DEF Promise!Call
<1> QED
  BY <1>2, <1>3, <1>4 DEF Proceed

LEMMA NextMaps ==
  ASSUME HeaderInv, OwnersInv, [Next]_vars
  PROVE  [Promise!Next]_(Promise!mvars)
<1>1. UNCHANGED <<map, gone, last>> => UNCHANGED Promise!mvars
  BY DEF Promise!mvars
<1>2. CASE UNCHANGED vars
  BY <1>1, <1>2 DEF vars
<1>3. CASE DropIter
  BY <1>1, <1>3 DEF DropIter
<1>4. ASSUME NEW t \in world.threads,
             Proceed(t) \/ NextItem(t) \/ \E m \in world.maps: MapCall(t, m)
      PROVE  Promise!Next \/ UNCHANGED <<map, gone, last>>
  <2>1. t \in Threads /\ world.maps \subseteq Maps
    BY WorldType DEF HeaderInv
  <2>2. CASE NextItem(t)
    BY <2>2 DEF NextItem
  <2> QED
    BY <1>4, <2>1, <2>2, ProceedMaps, MapCallMaps
<1> QED
  BY <1>1, <1>2, <1>3, <1>4 DEF Next

(* Whatever the entries went through, swaps, removals and re-additions in   *)
(* the vector of http::HeaderMap, and whoever calls meanwhile, each call    *)
(* changes and answers what MultiMap says of it, for any number of threads, *)
(* maps and keys.                                                           *)
THEOREM ImplementsMultiMap == Spec => KeepsPromise
<1>1. Init => Promise!Init
  BY DEF Init, Promise!Init, GetAll, HasKey
<1>2. HeaderInv /\ OwnersInv /\ [Next]_vars => [Promise!Next]_(Promise!mvars)
  BY NextMaps
<1> QED
  BY <1>1, <1>2, HeaderInvariant, OwnersInvariant, PTL DEF Spec, KeepsPromise, Promise!Spec
-----------------------------------------------------------------------------
(* Before orders the pairs of numbers.                                      *)
Pairs == Nat \X Nat

LEMMA BeforeIs ==
  ASSUME NEW x \in Pairs, NEW y \in Pairs
  PROVE  /\ ~Before(x, x)
         /\ Before(x, y) => ~Before(y, x)
         /\ x = y \/ Before(x, y) \/ Before(y, x)
         /\ \A z \in Pairs: Before(x, y) /\ Before(y, z) => Before(x, z)
<1>1. \A z \in Pairs: z[1] \in Nat /\ z[2] \in Nat /\ z = <<z[1], z[2]>>
  BY DEF Pairs
<1> QED
  BY <1>1 DEF Before

(* Each element of a list has a place of its own, behind those before it.   *)
LEMMA PlacesClimb ==
  ASSUME NEW s \in Seq(Pairs), NEW j \in DOMAIN s, NEW k \in DOMAIN s,
         Before(s[j], s[k]) \/ (s[j] = s[k] /\ j < k)
  PROVE  Place(s, j) < Place(s, k)
<1> DEFINE UpTo(i) == {l \in DOMAIN s: Before(s[l], s[i]) \/ (s[l] = s[i] /\ l <= i)}
<1>1. DOMAIN s = 1..Len(s) /\ Len(s) \in Nat /\ \A i \in DOMAIN s: s[i] \in Pairs /\ i \in Nat
  OBVIOUS
<1>2. k \in UpTo(k)
  BY <1>1
<1>3. k \notin UpTo(j)
  <2>1. Before(s[j], s[k]) => ~Before(s[k], s[j]) /\ s[k] # s[j]
    BY <1>1, BeforeIs
  <2>2. s[j] = s[k] => ~Before(s[k], s[j])
    BY <1>1, BeforeIs
  <2> QED
    BY <1>1, <2>1, <2>2
<1>4. ASSUME NEW l \in UpTo(j) PROVE l \in UpTo(k)
  <2>1. l \in DOMAIN s /\ (Before(s[l], s[j]) \/ (s[l] = s[j] /\ l <= j))
    OBVIOUS
  <2>2. Before(s[l], s[j]) /\ Before(s[j], s[k]) => Before(s[l], s[k])
    BY <1>1, <2>1, BeforeIs
  <2>3. l <= j /\ j < k => l <= k
    BY <1>1, <2>1
  <2> QED
    BY <2>1, <2>2, <2>3
<1>5. IsFiniteSet(UpTo(k))
  <2>1. IsFiniteSet(DOMAIN s)
    BY <1>1, FS_Interval
  <2>2. UpTo(k) \in SUBSET (DOMAIN s)
    OBVIOUS
  <2> HIDE DEF UpTo
  <2> QED
    BY <2>1, <2>2, FS_Subset
<1>6. Place(s, j) = Cardinality(UpTo(j)) /\ Place(s, k) = Cardinality(UpTo(k))
  BY DEF Place
<1> HIDE DEF UpTo
<1>7. /\ IsFiniteSet(UpTo(j)) /\ Cardinality(UpTo(j)) <= Cardinality(UpTo(k))
      /\ Cardinality(UpTo(j)) # Cardinality(UpTo(k))
  <2>1. UpTo(j) \in SUBSET UpTo(k) /\ UpTo(j) # UpTo(k)
    BY <1>2, <1>3, <1>4
  <2> QED
    BY <1>5, <2>1, FS_Subset
<1>8. Cardinality(UpTo(j)) \in Nat /\ Cardinality(UpTo(k)) \in Nat
  BY <1>5, <1>7, FS_CardinalityType
<1> QED
  BY <1>6, <1>7, <1>8

LEMMA PlacesAre ==
  ASSUME NEW s \in Seq(Pairs)
  PROVE  /\ \A j \in DOMAIN s: Place(s, j) \in DOMAIN s
         /\ \A j, k \in DOMAIN s: Place(s, j) = Place(s, k) => j = k
         /\ \A i \in DOMAIN s: \E j \in DOMAIN s: Place(s, j) = i
<1>1. PICK n \in Nat: n = Len(s) /\ DOMAIN s = 1..n
  OBVIOUS
<1>2. IsFiniteSet(1..n) /\ Cardinality(1..n) = n
  BY FS_Interval
<1>3. ASSUME NEW j \in 1..n PROVE Place(s, j) \in 1..n
  <2> DEFINE U == {k \in DOMAIN s: Before(s[k], s[j]) \/ (s[k] = s[j] /\ k <= j)}
  <2>1. U \in SUBSET (1..n) /\ j \in U
    BY <1>1
  <2>2. Place(s, j) = Cardinality(U)
    BY DEF Place
  <2> HIDE DEF U
  <2>3. IsFiniteSet(U) /\ Cardinality(U) <= n
    BY <1>2, <2>1, FS_Subset
  <2>4. Cardinality(U) \in Nat /\ Cardinality(U) # 0
    BY <2>1, <2>3, FS_CardinalityType, FS_EmptySet
  <2> QED
    BY <2>2, <2>3, <2>4
<1>4. ASSUME NEW j \in 1..n, NEW k \in 1..n, Place(s, j) = Place(s, k) PROVE j = k
  <2>1. s[j] \in Pairs /\ s[k] \in Pairs
    BY <1>1
  <2>2. /\ Before(s[j], s[k]) \/ (s[j] = s[k] /\ j < k) => Place(s, j) < Place(s, k)
        /\ Before(s[k], s[j]) \/ (s[k] = s[j] /\ k < j) => Place(s, k) < Place(s, j)
    BY <1>1, PlacesClimb
  <2>3. s[j] = s[k] \/ Before(s[j], s[k]) \/ Before(s[k], s[j])
    BY <2>1, BeforeIs
  <2>4. Place(s, j) \in 1..n /\ Place(s, k) \in 1..n
    BY <1>3
  <2> QED
    BY <1>4, <2>2, <2>3, <2>4
<1> DEFINE p == [j \in 1..n |-> Place(s, j)]
<1>5. p \in Injection(1..n, 1..n)
  BY <1>3, <1>4 DEF Injection, IsInjective
<1>6. p \in Surjection(1..n, 1..n)
  <2> HIDE DEF p
  <2> QED
    BY <1>2, <1>5, FS_Injection
<1>7. \A i \in 1..n: \E j \in 1..n: Place(s, j) = i
  BY <1>6 DEF Surjection
<1> QED
  BY <1>1, <1>3, <1>4, <1>7

(* A sorted list is in order and holds what the list held, as often.        *)
InOrder(s) == \A i, j \in DOMAIN s: i < j => ~Before(s[j], s[i])

LEMMA SortedIs ==
  ASSUME NEW s \in Seq(Pairs)
  PROVE  /\ Sorted(s) \in Seq(Pairs) /\ InOrder(Sorted(s))
         /\ \A x: Hits(Sorted(s), {x}) = Hits(s, {x})
<1>1. PICK n \in Nat: n = Len(s) /\ DOMAIN s = 1..n
  OBVIOUS
<1> DEFINE c == [i \in 1..n |-> CHOOSE j \in 1..n: Place(s, j) = i]
<1>2. \A i \in 1..n: c[i] \in 1..n /\ Place(s, c[i]) = i
  BY <1>1, PlacesAre
<1>3. Sorted(s) = [i \in 1..n |-> s[c[i]]]
  BY <1>1 DEF Sorted
<1> HIDE DEF c
<1>4. ASSUME NEW j \in 1..n PROVE Place(s, j) \in 1..n /\ c[Place(s, j)] = j
  <2>1. Place(s, j) \in 1..n
    BY <1>1, PlacesAre
  <2>2. PICK k \in 1..n: k = c[Place(s, j)] /\ Place(s, k) = Place(s, j)
    BY <1>2, <2>1
  <2> QED
    BY <1>1, <2>1, <2>2, PlacesAre
<1>5. PICK t: t = Sorted(s) /\ t \in Seq(Pairs) /\ DOMAIN t = 1..n /\ \A i \in 1..n: t[i] = s[c[i]]
  <2>1. Sorted(s) \in [1..n -> Pairs]
    BY <1>1, <1>2, <1>3
  <2> QED
    BY <1>3, <2>1
<1>6. InOrder(t)
  <2> SUFFICES ASSUME NEW i \in 1..n, NEW j \in 1..n, i < j, Before(s[c[j]], s[c[i]])
               PROVE  FALSE
    BY <1>5 DEF InOrder
  <2>1. Place(s, c[j]) < Place(s, c[i])
    BY <1>1, <1>2, PlacesClimb
  <2> QED
    BY <1>2, <2>1
<1>7. ASSUME NEW x PROVE Hits(t, {x}) = Hits(s, {x})
  <2> DEFINE I == {i \in DOMAIN t: t[i] \in {x}}
             J == {i \in DOMAIN s: s[i] \in {x}}
             f == [i \in I |-> c[i]]
  <2>1. \A i \in I: i \in 1..n /\ c[i] \in J
    BY <1>1, <1>2, <1>5
  <2>2. \A i, k \in I: c[i] = c[k] => i = k
    BY <1>2, <2>1
  <2>3. ASSUME NEW j \in J PROVE \E i \in I: c[i] = j
    <3>1. PICK i \in 1..n: c[i] = j
      BY <1>1, <1>4
    <3> QED
      BY <1>5, <3>1
  <2>4. IsFiniteSet(I)
    <3>1. t \in Seq(Pairs)
      BY <1>5
    <3> QED
      BY <3>1, HitsType
  <2> HIDE DEF I, J
  <2>5. f \in Injection(I, J) /\ f \in Surjection(I, J)
    BY <2>1, <2>2, <2>3 DEF Injection, IsInjective, Surjection
  <2>6. ExistsBijection(I, J)
    <3> HIDE DEF f
    <3> QED
      BY <2>5 DEF ExistsBijection, Bijection
  <2>7. Cardinality(I) = Cardinality(J)
    BY <2>4, <2>6, FS_Bijection
  <2> QED
    BY <2>7 DEF I, J, Hits
<1> QED
  BY <1>5, <1>6, <1>7

(* The first place where two lists differ decides which is less.            *)
LessAt(a, b, i) == /\ i \in 1..Len(b) /\ i <= Len(a) + 1
                   /\ \A j \in 1..(i - 1): a[j] = b[j]
                   /\ i <= Len(a) => Before(a[i], b[i])

LEMMA LexLessIs ==
  ASSUME NEW a, NEW b
  PROVE  LexLess(a, b) <=> \E i \in 1..Len(b): LessAt(a, b, i)
BY DEF LexLess, LessAt

LEMMA LexNotBoth ==
  ASSUME NEW a \in Seq(Pairs), NEW b \in Seq(Pairs), NEW i, NEW j,
         LessAt(a, b, i), LessAt(b, a, j)
  PROVE  i > j
<1>1. i \in 1..Len(b) /\ j \in 1..Len(a) /\ Len(a) \in Nat /\ Len(b) \in Nat
  BY DEF LessAt
<1>2. CASE i < j
  <2>1. i \in 1..(j - 1) /\ i <= Len(a) /\ i \in 1..Len(a)
    BY <1>1, <1>2
  <2>2. Before(a[i], b[i]) /\ b[i] = a[i] /\ a[i] \in Pairs
    BY <2>1 DEF LessAt
  <2> QED
    BY <2>2, BeforeIs
<1>3. CASE i = j
  <2>1. i <= Len(a) /\ i <= Len(b) /\ a[i] \in Pairs /\ b[i] \in Pairs
    BY <1>1, <1>3
  <2>2. Before(a[i], b[i]) /\ Before(b[i], a[i])
    BY <1>3, <2>1 DEF LessAt
  <2> QED
    BY <2>1, <2>2, BeforeIs
<1> QED
  BY <1>1, <1>2, <1>3

LEMMA LexTotal ==
  ASSUME NEW a \in Seq(Pairs), NEW b \in Seq(Pairs)
  PROVE  /\ a = b \/ LexLess(a, b) \/ LexLess(b, a)
         /\ ~LexLess(a, a)
         /\ ~(LexLess(a, b) /\ LexLess(b, a))
<1>1. \A u, v \in Seq(Pairs): ~(LexLess(u, v) /\ LexLess(v, u))
  <2> SUFFICES ASSUME NEW u \in Seq(Pairs), NEW v \in Seq(Pairs), LexLess(u, v), LexLess(v, u)
               PROVE  FALSE
    OBVIOUS
  <2>1. PICK i \in 1..Len(v), j \in 1..Len(u): LessAt(u, v, i) /\ LessAt(v, u, j)
    BY LexLessIs
  <2>2. i > j
    BY <2>1, LexNotBoth
  <2>3. j > i
    BY <2>1, LexNotBoth
  <2> QED
    BY <2>2, <2>3
<1>2. a = b \/ LexLess(a, b) \/ LexLess(b, a)
  <2> DEFINE T == {i \in 1..(Len(a) + 1): i > Len(a) \/ i > Len(b) \/ a[i] # b[i]}
  <2>1. PICK m \in T: \A k \in T: m <= k
    <3>1. T \subseteq Nat /\ Len(a) + 1 \in T
      OBVIOUS
    <3> HIDE DEF T
    <3> QED
      BY <3>1, LeastNumber
  <2>2. m \in 1..(Len(a) + 1) /\ m \in Nat /\ Len(a) \in Nat /\ Len(b) \in Nat
    OBVIOUS
  <2>3. \A j \in 1..(m - 1): j <= Len(a) /\ j <= Len(b) /\ a[j] = b[j]
    <3> SUFFICES ASSUME NEW j \in 1..(m - 1)
                 PROVE  j <= Len(a) /\ j <= Len(b) /\ a[j] = b[j]
      OBVIOUS
    <3>1. j \notin T /\ j \in 1..(Len(a) + 1)
      <4> HIDE DEF T
      <4> QED
        BY <2>1, <2>2
    <3> QED
      BY <2>2, <3>1
  <2>4. m <= Len(a) + 1 /\ m <= Len(b) + 1
    <3>1. CASE m = 1
      BY <2>2, <3>1
    <3>2. CASE m # 1
      <4>1. m - 1 \in 1..(m - 1)
        BY <2>2, <3>2
      <4> QED
        BY <2>2, <2>3, <4>1
    <3> QED
      BY <3>1, <3>2
  <2>5. CASE m <= Len(a) /\ m <= Len(b)
    <3>1. a[m] # b[m] /\ a[m] \in Pairs /\ b[m] \in Pairs
      BY <2>2, <2>5
    <3>2. Before(a[m], b[m]) \/ Before(b[m], a[m])
      BY <3>1, BeforeIs
    <3> HIDE DEF T
    <3>3. CASE Before(a[m], b[m])
      <4>1. LessAt(a, b, m) /\ m \in 1..Len(b)
        BY <2>2, <2>3, <2>4, <2>5, <3>3 DEF LessAt
      <4> QED
        BY <4>1, LexLessIs
    <3>4. CASE Before(b[m], a[m])
      <4>1. LessAt(b, a, m) /\ m \in 1..Len(a)
        BY <2>2, <2>3, <2>4, <2>5, <3>4 DEF LessAt
      <4> QED
        BY <4>1, LexLessIs
    <3> QED
      BY <3>2, <3>3, <3>4
  <2> HIDE DEF T
  <2>6. CASE m > Len(a) /\ m <= Len(b)
    <3>1. LessAt(a, b, m) /\ m \in 1..Len(b)
      BY <2>2, <2>3, <2>4, <2>6 DEF LessAt
    <3> QED
      BY <3>1, LexLessIs
  <2>7. CASE m <= Len(a) /\ m > Len(b)
    <3>1. LessAt(b, a, m) /\ m \in 1..Len(a)
      BY <2>2, <2>3, <2>4, <2>7 DEF LessAt
    <3> QED
      BY <3>1, LexLessIs
  <2>8. CASE m > Len(a) /\ m > Len(b)
    <3>1. Len(a) = Len(b) /\ m - 1 = Len(a)
      BY <2>2, <2>4, <2>8
    <3>2. \A j \in 1..Len(a): a[j] = b[j]
      BY <2>3, <3>1
    <3>3. a = b
      BY <3>1, <3>2, SeqEqual
    <3> QED
      BY <3>3
  <2> QED
    BY <2>2, <2>5, <2>6, <2>7, <2>8
<1> QED
  BY <1>1, <1>2

(* When a list is less than one in order, some element is in one of them    *)
(* more often than in the other.                                            *)
LEMMA LessIsOther ==
  ASSUME NEW a \in Seq(Pairs), NEW b \in Seq(Pairs), LexLess(a, b), InOrder(b)
  PROVE  \E x: Hits(a, {x}) # Hits(b, {x})
<1> DEFINE I(x) == {j \in DOMAIN a: a[j] \in {x}}
           J(x) == {j \in DOMAIN b: b[j] \in {x}}
<1>1. PICK i \in 1..Len(b): LessAt(a, b, i)
  BY LexLessIs
<1>2. /\ i <= Len(a) + 1 /\ \A j \in 1..(i - 1): a[j] = b[j]
      /\ i <= Len(a) => Before(a[i], b[i])
      /\ DOMAIN a = 1..Len(a) /\ DOMAIN b = 1..Len(b) /\ Len(a) \in Nat /\ Len(b) \in Nat
  BY <1>1 DEF LessAt
<1>3. \A x: IsFiniteSet(I(x)) /\ IsFiniteSet(J(x))
  BY HitsType
<1>4. \A x: Hits(a, {x}) = Cardinality(I(x)) /\ Hits(b, {x}) = Cardinality(J(x))
  BY DEF Hits
<1>5. CASE i <= Len(a)
  <2>1. PICK x \in Pairs: x = a[i]
    BY <1>2, <1>5
  <2>2. i \in I(x)
    BY <1>2, <1>5, <2>1
  <2>3. J(x) \subseteq I(x) /\ i \notin J(x)
    <3> SUFFICES ASSUME NEW j \in J(x) PROVE j \in I(x) /\ j # i
      OBVIOUS
    <3>1. j \in 1..Len(b) /\ b[j] = x /\ i \in 1..Len(b)
      BY <1>2
    <3>2. Before(x, b[i]) /\ b[i] \in Pairs
      BY <1>2, <1>5, <2>1
    <3>3. j # i
      BY <2>1, <3>1, <3>2, BeforeIs
    <3>4. ~(i < j)
      <4> SUFFICES ASSUME i < j PROVE FALSE
        OBVIOUS
      <4>1. ~Before(b[j], b[i])
        BY <1>2, <3>1 DEF InOrder
      <4> QED
        BY <3>1, <3>2, <4>1
    <3>5. j \in 1..(i - 1) /\ j \in 1..Len(a)
      BY <1>2, <1>5, <3>1, <3>3, <3>4
    <3> QED
      BY <1>2, <3>1, <3>3, <3>5
  <2> HIDE DEF I, J
  <2>4. Cardinality(J(x)) # Cardinality(I(x))
    <3>1. J(x) \in SUBSET I(x) /\ I(x) # J(x) /\ IsFiniteSet(I(x))
      BY <1>3, <2>2, <2>3
    <3> QED
      BY <3>1, FS_Subset
  <2> QED
    BY <1>4, <2>4
<1>6. CASE i = Len(a) + 1
  <2>1. PICK x \in Pairs: x = b[i]
    BY <1>2
  <2>2. i \in J(x) /\ i \notin I(x)
    BY <1>2, <1>6, <2>1
  <2>3. I(x) \subseteq J(x)
    BY <1>2, <1>6
  <2> HIDE DEF I, J
  <2>4. Cardinality(I(x)) # Cardinality(J(x))
    <3>1. I(x) \in SUBSET J(x) /\ I(x) # J(x) /\ IsFiniteSet(J(x))
      BY <1>3, <2>2, <2>3
    <3> QED
      BY <3>1, FS_Subset
  <2> QED
    BY <1>4, <2>4
<1>7. i <= Len(a) \/ i = Len(a) + 1
  <2>1. i \in Nat /\ Len(a) \in Nat /\ i <= Len(a) + 1
    BY <1>2
  <2> QED
    BY <2>1
<1> QED
  BY <1>5, <1>6, <1>7

(* Two lists are equal when they are sorted exactly if they hold the same   *)
(* elements, each as often; of <, == and > one holds.                       *)
LEMMA RichCmpIs ==
  ASSUME NEW s \in Seq(Pairs), NEW u \in Seq(Pairs)
  PROVE  LET holds == {op \in {"lt", "eq", "gt"}: RichCmp(op, s, u)}
         IN  /\ holds = {"eq"} <=> \A x: Hits(s, {x}) = Hits(u, {x})
             /\ Cardinality(holds) = 1
<1> DEFINE holds == {op \in {"lt", "eq", "gt"}: RichCmp(op, s, u)}
<1>1. PICK a \in Seq(Pairs), b \in Seq(Pairs):
        /\ a = Sorted(s) /\ b = Sorted(u) /\ InOrder(a) /\ InOrder(b)
        /\ \A x: Hits(a, {x}) = Hits(s, {x}) /\ Hits(b, {x}) = Hits(u, {x})
  <2>1. Sorted(s) \in Seq(Pairs) /\ InOrder(Sorted(s)) /\ \A x: Hits(Sorted(s), {x}) = Hits(s, {x})
    BY SortedIs
  <2>2. Sorted(u) \in Seq(Pairs) /\ InOrder(Sorted(u)) /\ \A x: Hits(Sorted(u), {x}) = Hits(u, {x})
    BY SortedIs
  <2> QED
    BY <2>1, <2>2
<1>2. /\ RichCmp("lt", s, u) <=> LexLess(a, b)
      /\ RichCmp("eq", s, u) <=> a = b
      /\ RichCmp("gt", s, u) <=> LexLess(b, a)
  BY <1>1 DEF RichCmp
<1>3. /\ a = b \/ LexLess(a, b) \/ LexLess(b, a)
      /\ ~LexLess(a, a) /\ ~(LexLess(a, b) /\ LexLess(b, a))
  BY LexTotal
<1>4. \/ holds = {"lt"} /\ a # b
      \/ holds = {"eq"} /\ a = b
      \/ holds = {"gt"} /\ a # b
  BY <1>2, <1>3
<1>5. a = b <=> \A x: Hits(a, {x}) = Hits(b, {x})
  <2>1. LexLess(a, b) => \E x: Hits(a, {x}) # Hits(b, {x})
    BY <1>1, LessIsOther
  <2>2. LexLess(b, a) => \E x: Hits(b, {x}) # Hits(a, {x})
    BY <1>1, LessIsOther
  <2> QED
    BY <1>3, <2>1, <2>2
<1> HIDE DEF holds
<1>6. holds = {"eq"} <=> a = b
  BY <1>4
<1>7. Cardinality(holds) = 1
  <2>1. \A op: Cardinality({op}) = 1
    BY FS_Singleton
  <2> QED
    BY <1>4, <2>1
<1>8. holds = {"eq"} <=> \A x: Hits(s, {x}) = Hits(u, {x})
  BY <1>1, <1>5, <1>6
<1> QED
  BY <1>7, <1>8 DEF holds

(* What a list of pairs gives a key is as often in the list.                *)
LEMMA YieldsHits ==
  ASSUME NEW ps \in Seq(Keys \X Cells), NEW k, NEW V
  PROVE  Hits(ps, {k} \X V) = Hits(Yields(ps, k), V)
<1> DEFINE W == {k} \X V
           a(m) == Hits(SubSeq(ps, 1, m), W)
           b(m) == Hits(Yields(SubSeq(ps, 1, m), k), V)
           P == {m \in Nat: m <= Len(ps) => a(m) = b(m)}
<1>1. Len(ps) \in Nat /\ a(0) = b(0)
  <2>1. Yields(SubSeq(ps, 1, 0), k) = <<>> /\ Len(ps) \in Nat
    BY YieldsEnds
  <2>2. SubSeq(ps, 1, 0) = <<>>
    OBVIOUS
  <2>3. \A U: Hits(<<>>, U) = 0
    <3>1. <<>> \in Seq({}) /\ \A i \in DOMAIN <<>>: FALSE
      OBVIOUS
    <3> QED
      BY <3>1, HitsType
  <2> QED
    BY <2>1, <2>2, <2>3
<1>2. ASSUME NEW m \in 1..Len(ps), a(m - 1) = b(m - 1) PROVE a(m) = b(m)
  <2>1. PICK p \in Keys \X Cells: p = ps[m]
    OBVIOUS
  <2>2. PICK s \in Seq(Keys \X Cells): s = SubSeq(ps, 1, m - 1)
    <3>1. SubSeq(ps, 1, m - 1) \in Seq(Keys \X Cells)
      BY SubSeqProperties
    <3> QED
      BY <3>1
  <2>3. SubSeq(ps, 1, m) = Longer(s, p)
    BY <2>1, <2>2, PrefixGrows DEF Longer
  <2>4. PICK y \in Seq(Cells): y = Yields(s, k)
    <3>1. Yields(s, k) \in Seq(Cells)
      BY YieldsParts
    <3> QED
      BY <3>1
  <2>5. PICK c \in Cells: c = p[2]
    OBVIOUS
  <2>6. Yields(Longer(s, p), k) = IF p[1] = k THEN Longer(y, c) ELSE y
    <3>1. \A j: Yields(Longer(s, p), j) = IF p[1] = j THEN Longer(Yields(s, j), p[2]) ELSE Yields(s, j)
      BY YieldsLonger
    <3> QED
      BY <2>4, <2>5, <3>1, Zenon
  <2>7. Hits(Longer(s, p), W) = IF p \in W THEN Hits(s, W) + 1 ELSE Hits(s, W)
    <3>1. PICK S: s \in Seq(S) /\ p \in S
      BY <2>1, <2>2
    <3> QED
      BY <3>1, HitsLonger
  <2>8. Hits(Longer(y, c), V) = IF c \in V THEN Hits(y, V) + 1 ELSE Hits(y, V)
    BY HitsLonger
  <2>9. p \in W <=> p[1] = k /\ c \in V
    BY <2>5
  <2>10. Hits(s, W) = Hits(y, V)
    BY <1>2, <2>2, <2>4
  <2> HIDE DEF W
  <2>11. Hits(Longer(s, p), W) = Hits(Yields(Longer(s, p), k), V)
    BY <2>6, <2>7, <2>8, <2>9, <2>10
  <2> QED
    BY <2>3, <2>11
<1> HIDE DEF a, b
<1>3. 0 \in P
  BY <1>1
<1>4. ASSUME NEW n \in Nat, n \in P PROVE n + 1 \in P
  <2> SUFFICES ASSUME n + 1 <= Len(ps) PROVE a(n + 1) = b(n + 1)
    OBVIOUS
  <2>1. PICK m \in 1..Len(ps): m = n + 1 /\ m - 1 = n
    BY <1>1
  <2>2. a(m - 1) = b(m - 1)
    BY <1>1, <1>4, <2>1
  <2> QED
    BY <1>2, <2>1, <2>2
<1> HIDE DEF P
<1>5. \A n \in Nat: n \in P
  BY <1>3, <1>4, Induction
<1>6. a(Len(ps)) = b(Len(ps))
  BY <1>1, <1>5 DEF P
<1>7. SubSeq(ps, 1, Len(ps)) = ps
  BY YieldsEnds
<1> QED
  BY <1>6, <1>7 DEF a, b

LEMMA ItemHits ==
  ASSUME NEW e \in Tables(Cells), NEW k \in Keys, NEW V
  PROVE  Hits(ItemsOf(e), {k} \X V) = Hits(GetAll(e, k), V)
<1>1. PICK ps \in Seq(Keys \X Cells): ps = ItemsOf(e)
  BY ItemsType
<1>2. Hits(ps, {k} \X V) = Hits(Yields(ps, k), V)
  BY YieldsHits
<1>3. Yields(ps, k) = GetAll(e, k)
  BY <1>1, ItemsValues
<1> QED
  BY <1>1, <1>2, <1>3

(* The views hold each value, and each key, as often as the map.            *)
Worth(v) == {c \in Cells: c.v = v}

LEMMA ViewsAre ==
  ASSUME NEW e \in Tables(Cells)
  PROVE  /\ ItemsView(e) \in Seq(Keys \X Vals) /\ KeysView(e) \in Seq(Keys \X {0})
         /\ \A k \in Keys, v \in Vals: Hits(ItemsView(e), {<<k, v>>}) = Hits(GetAll(e, k), Worth(v))
         /\ \A k \in Keys: Hits(KeysView(e), {<<k, 0>>}) = Hits(GetAll(e, k), Cells)
<1>1. PICK ps \in Seq(Keys \X Cells): ps = ItemsOf(e)
  BY ItemsType
<1>2. PICK n \in Nat: n = Len(ps) /\ DOMAIN ps = 1..n
  OBVIOUS
<1>3. /\ ItemsView(e) = [i \in 1..n |-> <<ps[i][1], ps[i][2].v>>]
      /\ KeysView(e) = [i \in 1..n |-> <<ps[i][1], 0>>]
  BY <1>1, <1>2 DEF ItemsView, KeysView
<1>4. \A i \in 1..n: /\ ps[i] = <<ps[i][1], ps[i][2]>>
                     /\ ps[i][1] \in Keys /\ ps[i][2] \in Cells /\ ps[i][2].v \in Vals
  <2>1. \A c \in Cells: c.v \in Vals
    BY DEF Cells, Cell
  <2>2. \A i \in 1..n: ps[i] \in Keys \X Cells
    BY <1>2
  <2> QED
    BY <2>1, <2>2
<1>5. PICK is: /\ is = ItemsView(e) /\ is \in Seq(Keys \X Vals)
               /\ DOMAIN is = 1..n /\ \A i \in 1..n: is[i] = <<ps[i][1], ps[i][2].v>>
  <2>1. PICK is: is = [i \in 1..n |-> <<ps[i][1], ps[i][2].v>>]
    OBVIOUS
  <2>2. is \in [1..n -> Keys \X Vals]
    BY <1>4, <2>1
  <2>3. is \in Seq(Keys \X Vals) /\ DOMAIN is = 1..n /\ \A i \in 1..n: is[i] = <<ps[i][1], ps[i][2].v>>
    BY <2>1, <2>2
  <2> QED
    BY <1>3, <2>1, <2>3, Zenon
<1>6. PICK ks: /\ ks = KeysView(e) /\ ks \in Seq(Keys \X {0})
               /\ DOMAIN ks = 1..n /\ \A i \in 1..n: ks[i] = <<ps[i][1], 0>>
  <2>1. PICK ks: ks = [i \in 1..n |-> <<ps[i][1], 0>>]
    OBVIOUS
  <2>2. ks \in [1..n -> Keys \X {0}]
    BY <1>4, <2>1
  <2>3. ks \in Seq(Keys \X {0}) /\ DOMAIN ks = 1..n /\ \A i \in 1..n: ks[i] = <<ps[i][1], 0>>
    BY <2>1, <2>2
  <2> QED
    BY <1>3, <2>1, <2>3, Zenon
<1>7. ASSUME NEW k \in Keys, NEW v \in Vals
      PROVE  Hits(is, {<<k, v>>}) = Hits(GetAll(e, k), Worth(v))
  <2>1. \A i \in 1..n: is[i] \in {<<k, v>>} <=> ps[i] \in {k} \X Worth(v)
    <3> SUFFICES ASSUME NEW i \in 1..n
                 PROVE  is[i] \in {<<k, v>>} <=> ps[i] \in {k} \X Worth(v)
      OBVIOUS
    <3>1. PICK j \in Keys, c \in Cells: ps[i] = <<j, c>>
      BY <1>4
    <3>2. is[i] = <<j, c.v>>
      BY <1>5, <3>1
    <3>3. c \in Worth(v) <=> c.v = v
      BY DEF Worth
    <3> QED
      BY <3>1, <3>2, <3>3
  <2>2. Hits(is, {<<k, v>>}) = Hits(ps, {k} \X Worth(v))
    BY <1>2, <1>5, <2>1 DEF Hits
  <2>3. \A V: Hits(ItemsOf(e), {k} \X V) = Hits(GetAll(e, k), V)
    BY ItemHits
  <2> QED
    BY <1>1, <2>2, <2>3, Zenon
<1>8. ASSUME NEW k \in Keys
      PROVE  Hits(ks, {<<k, 0>>}) = Hits(GetAll(e, k), Cells)
  <2>1. \A i \in 1..n: ks[i] \in {<<k, 0>>} <=> ps[i] \in {k} \X Cells
    BY <1>4, <1>6
  <2>2. Hits(ks, {<<k, 0>>}) = Hits(ps, {k} \X Cells)
    BY <1>2, <1>6, <2>1 DEF Hits
  <2>3. \A V: Hits(ItemsOf(e), {k} \X V) = Hits(GetAll(e, k), V)
    BY ItemHits
  <2> QED
    BY <1>1, <2>2, <2>3, Zenon
<1> QED
  BY <1>5, <1>6, <1>7, <1>8

(* What a view shows as a set.                                              *)
LEMMA ViewRanges ==
  ASSUME NEW e \in Tables(Cells)
  PROVE  /\ Range(ItemsView(e)) = {x \in Keys \X Vals: x[2] \in Range(Bare(GetAll(e, x[1])))}
         /\ Range(KeysView(e)) = {<<k, 0>>: k \in {j \in Keys: HasKey(e, j)}}
<1>1. PICK is, ks: /\ is = ItemsView(e) /\ ks = KeysView(e)
                   /\ is \in Seq(Keys \X Vals) /\ ks \in Seq(Keys \X {0})
  BY ViewsAre
<1>2. Range(is) \subseteq Keys \X Vals /\ Range(ks) \subseteq Keys \X {0}
  BY <1>1 DEF Range
<1>3. ASSUME NEW k \in Keys, NEW v \in Vals
      PROVE  <<k, v>> \in Range(is) <=> v \in Range(Bare(GetAll(e, k)))
  <2>1. PICK s \in Seq(Cells): s = GetAll(e, k)
    BY GetAllType
  <2>2. <<k, v>> \in Range(is) <=> Hits(s, Worth(v)) # 0
    <3>1. <<k, v>> \in Range(is) <=> Hits(is, {<<k, v>>}) # 0
      BY <1>1, RangeHits
    <3> QED
      BY <1>1, <2>1, <3>1, ViewsAre
  <2>3. Hits(s, Worth(v)) # 0 <=> \E i \in DOMAIN s: s[i] \in Worth(v)
    BY HitsType
  <2>4. \A i \in DOMAIN s: s[i] \in Worth(v) <=> s[i].v = v
    BY DEF Worth
  <2>5. v \in Range(Bare(s)) <=> \E i \in DOMAIN s: s[i].v = v
    BY DEF Bare, Range
  <2> QED
    BY <2>1, <2>2, <2>3, <2>4, <2>5
<1>4. ASSUME NEW k \in Keys PROVE <<k, 0>> \in Range(ks) <=> HasKey(e, k)
  <2>1. PICK s \in Seq(Cells): s = GetAll(e, k) /\ (HasKey(e, k) <=> s # <<>>)
    BY GetAllType
  <2>2. <<k, 0>> \in Range(ks) <=> Hits(s, Cells) # 0
    <3>1. <<k, 0>> \in Range(ks) <=> Hits(ks, {<<k, 0>>}) # 0
      BY <1>1, RangeHits
    <3> QED
      BY <1>1, <2>1, <3>1, ViewsAre
  <2>3. Hits(s, Cells) # 0 <=> \E i \in DOMAIN s: s[i] \in Cells
    BY HitsType
  <2>4. s # <<>> <=> \E i \in DOMAIN s: s[i] \in Cells
    <3>1. s # <<>> => 1 \in DOMAIN s /\ s[1] \in Cells
      BY EmptySeq
    <3> QED
      BY <3>1
  <2> QED
    BY <2>1, <2>2, <2>3, <2>4
<1>5. Range(is) = {x \in Keys \X Vals: x[2] \in Range(Bare(GetAll(e, x[1])))}
  BY <1>2, <1>3
<1>6. Range(ks) = {<<k, 0>>: k \in {j \in Keys: HasKey(e, j)}}
  BY <1>2, <1>4
<1> QED
  BY <1>1, <1>5, <1>6

(* The views of two maps: items() sort to the same list exactly if each key *)
(* has each value as often in both.                                         *)
LEMMA ViewsSort ==
  ASSUME NEW e \in Tables(Cells)
  PROVE  ItemsView(e) \in Seq(Pairs) /\ KeysView(e) \in Seq(Pairs)
<1>1. Keys \X Vals \subseteq Pairs /\ Keys \X {0} \subseteq Pairs
  BY HeaderAssumption DEF Pairs
<1>2. Seq(Keys \X Vals) \subseteq Seq(Pairs)
  BY <1>1
<1>3. Seq(Keys \X {0}) \subseteq Seq(Pairs)
  BY <1>1
<1> QED
  BY <1>2, <1>3, ViewsAre

LEMMA NothingElse ==
  ASSUME NEW e \in Tables(Cells), NEW x
  PROVE  /\ x \notin Keys \X Vals => Hits(ItemsView(e), {x}) = 0
         /\ x \notin Keys \X {0} => Hits(KeysView(e), {x}) = 0
<1>1. PICK is \in Seq(Keys \X Vals), ks \in Seq(Keys \X {0}): is = ItemsView(e) /\ ks = KeysView(e)
  BY ViewsAre
<1>2. x \notin Keys \X Vals => Hits(is, {x}) = 0
  BY OutsideHits
<1>3. x \notin Keys \X {0} => Hits(ks, {x}) = 0
  BY OutsideHits
<1> QED
  BY <1>1, <1>2, <1>3

LEMMA SameItems ==
  ASSUME NEW e \in Tables(Cells), NEW f \in Tables(Cells)
  PROVE  (\A x: Hits(ItemsView(e), {x}) = Hits(ItemsView(f), {x}))
           <=> \A k \in Keys, v \in Vals: Hits(GetAll(e, k), Worth(v)) = Hits(GetAll(f, k), Worth(v))
<1>1. \A x: x \notin Keys \X Vals =>
        Hits(ItemsView(e), {x}) = 0 /\ Hits(ItemsView(f), {x}) = 0
  BY NothingElse
<1>2. \A k \in Keys, v \in Vals:
        /\ Hits(ItemsView(e), {<<k, v>>}) = Hits(GetAll(e, k), Worth(v))
        /\ Hits(ItemsView(f), {<<k, v>>}) = Hits(GetAll(f, k), Worth(v))
  BY ViewsAre
<1>3. ASSUME \A k \in Keys, v \in Vals: Hits(GetAll(e, k), Worth(v)) = Hits(GetAll(f, k), Worth(v)),
             NEW x
      PROVE  Hits(ItemsView(e), {x}) = Hits(ItemsView(f), {x})
  <2>1. CASE x \notin Keys \X Vals
    BY <1>1, <2>1
  <2>2. CASE x \in Keys \X Vals
    <3>1. PICK k \in Keys, v \in Vals: x = <<k, v>>
      BY <2>2
    <3>2. Hits(ItemsView(e), {<<k, v>>}) = Hits(ItemsView(f), {<<k, v>>})
      BY <1>2, <1>3, Zenon
    <3> QED
      BY <3>1, <3>2
  <2> QED
    BY <2>1, <2>2
<1>4. ASSUME \A x: Hits(ItemsView(e), {x}) = Hits(ItemsView(f), {x}), NEW k \in Keys, NEW v \in Vals
      PROVE  Hits(GetAll(e, k), Worth(v)) = Hits(GetAll(f, k), Worth(v))
  <2>1. Hits(ItemsView(e), {<<k, v>>}) = Hits(ItemsView(f), {<<k, v>>})
    BY <1>4
  <2> QED
    BY <1>2, <2>1, Zenon
<1> QED
  BY <1>3, <1>4, Zenon

LEMMA SameKeys ==
  ASSUME NEW e \in Tables(Cells), NEW f \in Tables(Cells),
         \A k \in Keys: Hits(GetAll(e, k), Cells) = Hits(GetAll(f, k), Cells)
  PROVE  \A x: Hits(KeysView(e), {x}) = Hits(KeysView(f), {x})
<1>1. \A x: x \notin Keys \X {0} =>
        Hits(KeysView(e), {x}) = 0 /\ Hits(KeysView(f), {x}) = 0
  BY NothingElse
<1>2. \A k \in Keys: /\ Hits(KeysView(e), {<<k, 0>>}) = Hits(GetAll(e, k), Cells)
                     /\ Hits(KeysView(f), {<<k, 0>>}) = Hits(GetAll(f, k), Cells)
  BY ViewsAre
<1> SUFFICES ASSUME NEW x PROVE Hits(KeysView(e), {x}) = Hits(KeysView(f), {x})
  OBVIOUS
<1>3. CASE x \notin Keys \X {0}
  BY <1>1, <1>3
<1>4. CASE x \in Keys \X {0}
  <2>1. PICK k \in Keys: x = <<k, 0>>
    BY <1>4
  <2>2. Hits(KeysView(e), {<<k, 0>>}) = Hits(KeysView(f), {<<k, 0>>})
    BY <1>2, Zenon
  <2> QED
    BY <2>1, <2>2
<1> QED
  BY <1>3, <1>4

(* Lists of values that differ in marks only hold each value as often.      *)
LEMMA BareHits ==
  ASSUME NEW s \in Seq(Cells), NEW u \in Seq(Cells), Bare(s) = Bare(u)
  PROVE  /\ Hits(s, Cells) = Hits(u, Cells)
         /\ \A v: Hits(s, Worth(v)) = Hits(u, Worth(v))
<1>1. DOMAIN Bare(s) = DOMAIN s /\ DOMAIN Bare(u) = DOMAIN u
  BY DEF Bare
<1>2. DOMAIN s = DOMAIN u
  BY <1>1
<1>3. \A i \in DOMAIN s: s[i].v = u[i].v /\ s[i] \in Cells /\ u[i] \in Cells
  <2>1. \A i \in DOMAIN s: Bare(s)[i] = s[i].v /\ Bare(u)[i] = u[i].v
    BY <1>2 DEF Bare
  <2> QED
    BY <1>2, <2>1
<1>4. Hits(s, Cells) = Hits(u, Cells)
  <2>1. {i \in DOMAIN s: s[i] \in Cells} = {i \in DOMAIN u: u[i] \in Cells}
    BY <1>2, <1>3
  <2> QED
    BY <2>1 DEF Hits
<1>5. ASSUME NEW v PROVE Hits(s, Worth(v)) = Hits(u, Worth(v))
  <2>1. {i \in DOMAIN s: s[i] \in Worth(v)} = {i \in DOMAIN u: u[i] \in Worth(v)}
    BY <1>2, <1>3 DEF Worth
  <2> QED
    BY <2>1 DEF Hits
<1> QED
  BY <1>4, <1>5

LEMMA TimesIs ==
  ASSUME NEW s \in Seq(Cells), NEW v
  PROVE  Cardinality({i \in DOMAIN s: s[i].v = v}) = Hits(s, Worth(v))
<1>1. {i \in DOMAIN s: s[i].v = v} = {i \in DOMAIN s: s[i] \in Worth(v)}
  BY DEF Worth
<1> QED
  BY <1>1 DEF Hits

LEMMA SetOpsAre ==
  ASSUME NEW e \in Tables(Cells), NEW f \in Tables(Cells)
  PROVE  /\ SetOp("and", KeysView(e), KeysView(f)) = {<<k, 0>>: k \in {j \in Keys: HasKey(e, j) /\ HasKey(f, j)}}
         /\ SetOp("xor", ItemsView(e), ItemsView(f)) = {}
              <=> \A k \in Keys: Range(Bare(GetAll(e, k))) = Range(Bare(GetAll(f, k)))
<1> DEFINE K(g) == {<<k, 0>>: k \in {j \in Keys: HasKey(g, j)}}
           I(g) == {x \in Keys \X Vals: x[2] \in Range(Bare(GetAll(g, x[1])))}
<1>1. /\ Range(ItemsView(e)) = I(e) /\ Range(KeysView(e)) = K(e)
      /\ Range(ItemsView(f)) = I(f) /\ Range(KeysView(f)) = K(f)
  BY ViewRanges
<1>2. SetOp("and", KeysView(e), KeysView(f)) = K(e) \intersect K(f)
  <2> HIDE DEF K, I
  <2> QED
    BY <1>1 DEF SetOp
<1>3. SetOp("xor", ItemsView(e), ItemsView(f)) = (I(e) \ I(f)) \union (I(f) \ I(e))
  <2> HIDE DEF K, I
  <2> QED
    BY <1>1 DEF SetOp
<1>4. K(e) \intersect K(f) = {<<k, 0>>: k \in {j \in Keys: HasKey(e, j) /\ HasKey(f, j)}}
  OBVIOUS
<1>5. \A k \in Keys: Range(Bare(GetAll(e, k))) \subseteq Vals /\ Range(Bare(GetAll(f, k))) \subseteq Vals
  <2> SUFFICES ASSUME NEW g \in Tables(Cells), NEW k \in Keys
               PROVE  Range(Bare(GetAll(g, k))) \subseteq Vals
    OBVIOUS
  <2>1. PICK s \in Seq(Cells): s = GetAll(g, k)
    BY GetAllType
  <2>2. \A i \in DOMAIN s: s[i].v \in Vals
    <3>1. \A c \in Cells: c.v \in Vals
      BY DEF Cells, Cell
    <3> QED
      BY <3>1
  <2> QED
    BY <2>1, <2>2 DEF Bare, Range
<1>6. (I(e) \ I(f)) \union (I(f) \ I(e)) = {} <=> I(e) = I(f)
  <2> HIDE DEF I
  <2> QED
    OBVIOUS
<1>7. I(e) = I(f) <=> \A k \in Keys: Range(Bare(GetAll(e, k))) = Range(Bare(GetAll(f, k)))
  <2>1. ASSUME I(e) = I(f), NEW k \in Keys
        PROVE  Range(Bare(GetAll(e, k))) = Range(Bare(GetAll(f, k)))
    <3>1. \A v \in Vals: /\ <<k, v>> \in I(e) <=> v \in Range(Bare(GetAll(e, k)))
                         /\ <<k, v>> \in I(f) <=> v \in Range(Bare(GetAll(f, k)))
      OBVIOUS
    <3> HIDE DEF I
    <3> QED
      BY <1>5, <2>1, <3>1
  <2>2. ASSUME \A k \in Keys: Range(Bare(GetAll(e, k))) = Range(Bare(GetAll(f, k)))
        PROVE  I(e) = I(f)
    <3>1. \A x \in Keys \X Vals: x[1] \in Keys
      OBVIOUS
    <3> QED
      BY <2>2, <3>1
  <2> QED
    BY <2>1, <2>2
<1> QED
  BY <1>2, <1>3, <1>4, <1>6, <1>7

LEMMA ViewsCompare ==
  ASSUME HeaderInv
  PROVE  ViewsCompareContent
<1> DEFINE Holds(s, u) == {op \in {"lt", "eq", "gt"}: RichCmp(op, s, u)}
           Times(g, k, v) == Cardinality({i \in DOMAIN GetAll(g, k): GetAll(g, k)[i].v = v})
<1>1. \A m \in Maps: map[m] \in Tables(Cells)
  BY MapIsTable DEF HeaderInv
<1> SUFFICES ASSUME NEW e \in Tables(Cells), NEW f \in Tables(Cells)
             PROVE  /\ Holds(ItemsView(e), ItemsView(f)) = {"eq"}
                         <=> \A k \in Keys, v \in Vals: Times(e, k, v) = Times(f, k, v)
                    /\ SameHeaders(e, f) => /\ Holds(ItemsView(e), ItemsView(f)) = {"eq"}
                                            /\ Holds(KeysView(e), KeysView(f)) = {"eq"}
                    /\ Cardinality(Holds(ItemsView(e), ItemsView(f))) = 1
                    /\ Cardinality(Holds(KeysView(e), KeysView(f))) = 1
                    /\ SetOp("and", KeysView(e), KeysView(f)) = {<<k, 0>>: k \in {j \in Keys: HasKey(e, j) /\ HasKey(f, j)}}
                    /\ SetOp("xor", ItemsView(e), ItemsView(f)) = {}
                         <=> \A k \in Keys: Range(Bare(GetAll(e, k))) = Range(Bare(GetAll(f, k)))
  BY <1>1, ZenonT(30) DEF ViewsCompareContent
<1>2. /\ ItemsView(e) \in Seq(Pairs) /\ KeysView(e) \in Seq(Pairs)
      /\ ItemsView(f) \in Seq(Pairs) /\ KeysView(f) \in Seq(Pairs)
  BY ViewsSort
<1>3. \A s, u \in Seq(Pairs): /\ Holds(s, u) = {"eq"} <=> \A x: Hits(s, {x}) = Hits(u, {x})
                              /\ Cardinality(Holds(s, u)) = 1
  BY RichCmpIs
<1>4. \A k \in Keys: GetAll(e, k) \in Seq(Cells) /\ GetAll(f, k) \in Seq(Cells)
  BY GetAllType
<1>5. \A k \in Keys, v \in Vals: /\ Times(e, k, v) = Hits(GetAll(e, k), Worth(v))
                                 /\ Times(f, k, v) = Hits(GetAll(f, k), Worth(v))
  <2>1. \A s \in Seq(Cells), v \in Vals: Cardinality({i \in DOMAIN s: s[i].v = v}) = Hits(s, Worth(v))
    BY TimesIs
  <2> QED
    BY <1>4, <2>1, Zenon
<1> HIDE DEF Holds, Times
<1>6. Holds(ItemsView(e), ItemsView(f)) = {"eq"}
        <=> \A k \in Keys, v \in Vals: Times(e, k, v) = Times(f, k, v)
  <2>1. Holds(ItemsView(e), ItemsView(f)) = {"eq"}
          <=> \A x: Hits(ItemsView(e), {x}) = Hits(ItemsView(f), {x})
    BY <1>2, <1>3, Zenon
  <2>2. (\A x: Hits(ItemsView(e), {x}) = Hits(ItemsView(f), {x}))
          <=> \A k \in Keys, v \in Vals: Hits(GetAll(e, k), Worth(v)) = Hits(GetAll(f, k), Worth(v))
    BY SameItems
  <2> QED
    BY <1>5, <2>1, <2>2, ZenonT(30)
<1>7. ASSUME SameHeaders(e, f)
      PROVE  Holds(ItemsView(e), ItemsView(f)) = {"eq"} /\ Holds(KeysView(e), KeysView(f)) = {"eq"}
  <2>1. \A k \in Keys: Bare(GetAll(e, k)) = Bare(GetAll(f, k))
    BY <1>7, SameIs
  <2>2. \A k \in Keys: /\ Hits(GetAll(e, k), Cells) = Hits(GetAll(f, k), Cells)
                       /\ \A v: Hits(GetAll(e, k), Worth(v)) = Hits(GetAll(f, k), Worth(v))
    BY <1>4, <2>1, BareHits
  <2>3. Holds(ItemsView(e), ItemsView(f)) = {"eq"}
    BY <1>5, <1>6, <2>2, Zenon
  <2>4. \A x: Hits(KeysView(e), {x}) = Hits(KeysView(f), {x})
    BY <2>2, SameKeys
  <2>5. Holds(KeysView(e), KeysView(f)) = {"eq"}
    BY <1>2, <1>3, <2>4, Zenon
  <2> QED
    BY <2>3, <2>5
<1>8. /\ Cardinality(Holds(ItemsView(e), ItemsView(f))) = 1
      /\ Cardinality(Holds(KeysView(e), KeysView(f))) = 1
  BY <1>2, <1>3, Zenon
<1> QED
  BY <1>6, <1>7, <1>8, SetOpsAre

(* __richcmp__ and the set operations of the views say something of what    *)
(* the maps hold, never of the order of the entries.                        *)
THEOREM ViewsCompareContents == Spec => []ViewsCompareContent
BY HeaderInvariant, ViewsCompare, PTL

-----------------------------------------------------------------------------
(* Who waits for nobody: no mutex is held that the call needs, and no one   *)
(* keeps the GIL from the Python code that it runs.                         *)
CanGoOn(t) == \/ call[t].kind = "map" /\ holder[call[t].src] = Nobody
              \/ call[t].kind = "python" /\ gil = Nobody
              \/ call[t].kind = "blocked" /\ holder[call[t].on] = Nobody

(* With a GIL no call runs Python code under a mutex and no map is merged   *)
(* with itself; without, there is no ring of maps, each merged with the     *)
(* next: every set of maps has one that is merged with none of them.        *)
Harmless(w) ==
  IF w.gil THEN ~w.python /\ \A m \in Maps: <<m, m>> \notin w.from
           ELSE \A S \in SUBSET Maps \ {{}}: \E m \in S: \A n \in S: <<m, n>> \notin w.from

(* Threads in calls never wait in a ring: for mutexes that they hold while  *)
(* they lock another map, or for the GIL that one of them keeps while it    *)
(* waits.  This needs the condition of EveryCallReturns.                    *)
SomebodyGoesOn ==
  Harmless(world) /\ (\E t \in Threads: call[t] # Idle) => \E t \in Threads: CanGoOn(t)

(* Who is in a call without Python code keeps the GIL.                      *)
GilInv == /\ ~world.gil => gil = Nobody
          /\ world.gil /\ ~world.python => \A t \in Threads: call[t] # Idle => gil = t
          /\ \A t \in Threads: call[t].kind = "python" => world.python
          /\ \A t \in Threads: call[t].kind = "map" => <<call[t].on, call[t].src>> \in world.from

LEMMA EnterKeepsGil ==
  ASSUME LockInv, GilInv, NEW t \in Threads, NEW c, gil = Nobody,
         call' = [call EXCEPT ![t] = c], world' = world,
         world.gil /\ ~world.python => gil' = t, ~world.gil => gil' = Nobody,
         c.kind = "python" => world.python, c.kind = "map" => <<c.on, c.src>> \in world.from
  PROVE  GilInv'
<1>1. call'[t] = c /\ \A u \in Threads \ {t}: call'[u] = call[u]
  BY DEF LockInv
<1>2. \A u \in Threads: u # gil
  BY HeaderAssumption
<1>3. world.gil /\ ~world.python => \A u \in Threads: call'[u] # Idle => gil' = u
  BY <1>1, <1>2 DEF GilInv
<1>4. \A u \in Threads: /\ call'[u].kind = "python" => world.python
                        /\ call'[u].kind = "map" => <<call'[u].on, call'[u].src>> \in world.from
  BY <1>1 DEF GilInv
<1> QED
  BY <1>3, <1>4 DEF GilInv

LEMMA LeaveKeepsGil ==
  ASSUME LockInv, GilInv, NEW t \in Threads, call[t] # Idle,
         call' = [call EXCEPT ![t] = Idle], world' = world,
         gil' = IF gil = t THEN Nobody ELSE gil
  PROVE  GilInv'
<1>1. call'[t] = Idle /\ \A u \in Threads \ {t}: call'[u] = call[u]
  BY DEF LockInv
<1>2. Idle.kind = "idle"
  BY DEF Idle
<1>3. world.gil /\ ~world.python => \A u \in Threads: call'[u] # Idle => gil' = u
  BY <1>1 DEF GilInv
<1>4. \A u \in Threads: /\ call'[u].kind = "python" => world.python
                        /\ call'[u].kind = "map" => <<call'[u].on, call'[u].src>> \in world.from
  BY <1>1, <1>2 DEF GilInv
<1> QED
  BY <1>3, <1>4 DEF GilInv

LEMMA GilMapCall ==
  ASSUME HeaderInv, GilInv, NEW t \in Threads, NEW m \in Maps, MapCall(t, m)
  PROVE  GilInv'
<1>1. LockInv
  BY DEF HeaderInv
<1>2. CASE LongCall(t, m)
  <2>1. PICK op \in Ops: StartFromPython(t, m, op) \/ \E n \in world.maps: StartFromMap(t, m, n, op)
    BY <1>2 DEF LongCall, Ops
  <2>2. CASE StartFromPython(t, m, op)
    <3>1. PICK c: c = [kind |-> "python", on |-> m, op |-> op]
      OBVIOUS
    <3>2. /\ gil = Nobody /\ gil' = Nobody /\ world' = world /\ world.python
          /\ call' = [call EXCEPT ![t] = c] /\ c.kind = "python"
      BY <2>2, <3>1 DEF StartFromPython, Start, Enter
    <3> QED
      BY <1>1, <3>2, EnterKeepsGil
  <2>3. CASE \E n \in world.maps: StartFromMap(t, m, n, op)
    <3>1. PICK n: StartFromMap(t, m, n, op)
      BY <2>3
    <3>2. PICK c: c = [kind |-> "map", on |-> m, src |-> n, op |-> op]
      OBVIOUS
    <3>3. /\ gil = Nobody /\ gil' = (IF world.gil THEN t ELSE Nobody) /\ world' = world
          /\ call' = [call EXCEPT ![t] = c] /\ <<m, n>> \in world.from
          /\ c.kind = "map" /\ c.on = m /\ c.src = n
      BY <3>1, <3>2 DEF StartFromMap, Start, Enter
    <3> QED
      BY <1>1, <3>3, EnterKeepsGil
  <2> QED
    BY <2>1, <2>2, <2>3
<1>3. CASE Block(t, m)
  <2>1. PICK c: c = [kind |-> "blocked", on |-> m]
    OBVIOUS
  <2>2. /\ gil = Nobody /\ gil' = (IF world.gil THEN t ELSE Nobody) /\ world' = world
        /\ call' = [call EXCEPT ![t] = c] /\ c.kind = "blocked"
    BY <1>3, <2>1 DEF Block
  <2> QED
    BY <1>1, <2>2, EnterKeepsGil
<1>4. CASE \/ PopItem(t, m) \/ Clear(t, m) \/ Take(t, m) \/ PairsCall(t, m) \/ NewItems(t, m)
           \/ \E n \in world.maps: Copy(t, m, n)
           \/ \E k \in world.keys: KeyCall(t, m, k) \/ ValueCall(t, m, k)
  <2>1. UNCHANGED locks
    <3>1. CASE PairsCall(t, m)
      BY <3>1, PairsCallStep
    <3>2. CASE \E k \in world.keys: KeyCall(t, m, k) \/ ValueCall(t, m, k)
      BY <1>1, <3>2, WorldType, KeyCallStep, ValueCallStep
    <3> QED
      BY <1>4, <3>1, <3>2 DEF PopItem, Clear, Take, NewItems, Copy, Answer
  <2> QED
    BY <2>1 DEF GilInv, locks
<1> QED
  BY <1>2, <1>3, <1>4 DEF MapCall

LEMMA GilProceed ==
  ASSUME LockInv, GilInv, NEW t \in Threads, Proceed(t)
  PROVE  GilInv'
<1>1. Idle.kind = "idle"
  BY DEF Idle
<1>2. /\ call[t].kind # "idle" /\ call' = [call EXCEPT ![t] = Idle] /\ world' = world
      /\ gil' = IF gil = t THEN Nobody ELSE gil
  BY DEF Proceed, FinishFromMap, FinishFromPython, Wake, Finish
<1>3. call[t] # Idle
  BY <1>1, <1>2
<1> QED
  BY <1>2, <1>3, LeaveKeepsGil

LEMMA GilNext ==
  ASSUME HeaderInv, GilInv, [Next]_vars
  PROVE  GilInv'
<1>1. LockInv
  BY DEF HeaderInv
<1>2. CASE UNCHANGED vars
  BY <1>2 DEF vars, locks, GilInv
<1>3. CASE DropIter
  BY <1>3 DEF DropIter, locks, GilInv
<1>4. ASSUME NEW t \in world.threads,
             Proceed(t) \/ NextItem(t) \/ \E m \in world.maps: MapCall(t, m)
      PROVE  GilInv'
  <2>1. t \in Threads /\ world.maps \subseteq Maps
    BY <1>1, WorldType
  <2>2. CASE NextItem(t)
    BY <2>2 DEF NextItem, locks, GilInv
  <2> QED
    BY <1>1, <1>4, <2>1, <2>2, GilProceed, GilMapCall
<1> QED
  BY <1>2, <1>3, <1>4 DEF Next

(* A mutex is held by a thread inside a long call on its map.               *)
LEMMA HolderIs ==
  ASSUME LockInv, NEW m \in Maps, holder[m] # Nobody
  PROVE  /\ holder[m] \in Threads /\ call[holder[m]] # Idle
         /\ call[holder[m]].kind \in {"map", "python"} /\ call[holder[m]].on = m
<1>1. Idle.kind = "idle"
  BY DEF Idle
<1> QED
  BY <1>1 DEF LockInv

LEMMA NobodyWaitsInARing ==
  ASSUME LockInv, GilInv
  PROVE  SomebodyGoesOn
<1> SUFFICES ASSUME Harmless(world), NEW t \in Threads, call[t] # Idle,
                    \A u \in Threads: ~CanGoOn(u)
             PROVE  FALSE
  BY DEF SomebodyGoesOn
<1>1. ASSUME NEW u \in Threads, call[u] # Idle
      PROVE  /\ call[u].kind \in {"map", "python", "blocked"} /\ call[u].on \in Maps
             /\ call[u].kind = "map" => call[u].src \in Maps
  <2>1. call[u] \in Calls
    BY DEF LockInv
  <2> QED
    BY <1>1, <2>1 DEF Calls
<1>2. CASE world.gil
  <2>1. gil = t /\ ~world.python /\ \A m \in Maps: <<m, m>> \notin world.from
    BY <1>2 DEF Harmless, GilInv
  <2>2. ASSUME NEW m \in Maps, holder[m] # Nobody PROVE call[t].kind = "map" /\ call[t].on = m
    <3>1. gil = holder[m] /\ call[holder[m]].kind = "map" /\ call[holder[m]].on = m
      BY <1>2, <2>1, <2>2, HolderIs DEF GilInv
    <3> QED
      BY <2>1, <3>1
  <2>3. CASE call[t].kind = "map"
    <3>1. PICK m \in Maps: m = call[t].src /\ holder[m] # Nobody
      BY <1>1, <2>3 DEF CanGoOn
    <3>2. <<m, m>> \in world.from
      BY <2>2, <2>3, <3>1 DEF GilInv
    <3> QED
      BY <2>1, <3>2
  <2>4. CASE call[t].kind = "blocked"
    <3>1. PICK m \in Maps: m = call[t].on /\ holder[m] # Nobody
      BY <1>1, <2>4 DEF CanGoOn
    <3> QED
      BY <2>2, <2>4, <3>1
  <2> QED
    BY <1>1, <2>1, <2>3, <2>4 DEF GilInv
<1>3. CASE ~world.gil
  <2> DEFINE Merging == {u \in Threads: call[u].kind = "map"}
             Sources == {call[u].src: u \in Merging}
  <2>1. \A u \in Threads: call[u].kind # "python"
    BY <1>3 DEF CanGoOn, GilInv
  <2>2. ASSUME NEW m \in Maps, holder[m] # Nobody
        PROVE  \E u \in Merging: call[u].on = m
    BY <2>1, <2>2, HolderIs
  <2>3. \A u \in Merging: call[u].src \in Maps /\ holder[call[u].src] # Nobody
    <3>1. \A u \in Merging: call[u] # Idle
      BY DEF Idle
    <3> QED
      BY <1>1, <3>1 DEF CanGoOn
  <2>4. Merging # {}
    <3>1. CASE call[t].kind = "blocked"
      <4>1. PICK m \in Maps: m = call[t].on /\ holder[m] # Nobody
        BY <1>1, <3>1 DEF CanGoOn
      <4> QED
        BY <2>2, <4>1
    <3> QED
      BY <1>1, <2>1, <3>1
  <2>5. \A u \in Merging: <<call[u].on, call[u].src>> \in world.from
    BY DEF GilInv
  <2> HIDE DEF Merging
  <2>6. PICK m \in Sources: \A n \in Sources: <<m, n>> \notin world.from
    <3>1. Sources \in SUBSET Maps /\ Sources # {}
      BY <2>3, <2>4
    <3> HIDE DEF Sources
    <3> QED
      BY <1>3, <3>1 DEF Harmless
  <2>7. m \in Maps /\ holder[m] # Nobody
    BY <2>3
  <2>8. PICK w \in Merging: call[w].on = m
    BY <2>2, <2>7
  <2> QED
    BY <2>5, <2>6, <2>8
<1> QED
  BY <1>2, <1>3

(* update(), extend() and == with other maps or with Python code never lock *)
(* up under the condition of EveryCallReturns: whenever threads are inside  *)
(* calls one of them waits for nobody, for any number of threads and maps.  *)
THEOREM NoDeadlock == Spec => []SomebodyGoesOn
<1>1. Init => GilInv
  BY DEF Init, Idle, GilInv
<1>2. HeaderInv /\ GilInv /\ [Next]_vars => GilInv'
  BY GilNext
<1>3. HeaderInv /\ GilInv => SomebodyGoesOn
  BY NobodyWaitsInARing DEF HeaderInv
<1> QED
  BY <1>1, <1>2, <1>3, HeaderInvariant, PTL DEF Spec

==============================================================================
