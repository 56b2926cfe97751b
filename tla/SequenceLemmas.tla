--------------------------- MODULE SequenceLemmas ---------------------------
(***************************************************************************)
(* Induction over the natural numbers, stated of a set rather than of a    *)
(* predicate so that first-order provers can use it, and what it gives:    *)
(* the laws of the recursive operators on sequences that the modules of    *)
(* this project use.                                                       *)
(***************************************************************************)
EXTENDS Integers, SequencesExt, SequenceTheorems, FiniteSetTheorems,
        WellFoundedInduction, TLAPS

(* Append, under a name that stays folded unless a proof expands it.        *)
Longer(s, x) == Append(s, x)

(* Every set of natural numbers has a least member, since the intervals     *)
(* below its members are finite sets, ordered by inclusion.                 *)
LEMMA LeastNumber ==
  ASSUME NEW T, T \subseteq Nat, T # {}
  PROVE  \E m \in T: \A k \in T: m <= k
<1> DEFINE Below == {1..n: n \in T}
<1>1. Below \subseteq FiniteSubsetsOf(Nat)
  <2>1. \A n \in T: 1..n \subseteq Nat /\ IsFiniteSet(1..n)
    BY FS_Interval
  <2> QED
    BY <2>1 DEF FiniteSubsetsOf
<1>2. Below # {}
  OBVIOUS
<1>3. PICK b \in Below: \A c \in Below: <<c, b>> \notin StrictSubsetOrdering(Nat)
  <2>1. IsWellFoundedOn(StrictSubsetOrdering(Nat), FiniteSubsetsOf(Nat))
    BY FS_StrictSubsetOrderingWellFounded
  <2> HIDE DEF Below
  <2> QED
    BY <1>1, <1>2, <2>1, WFMin
<1>4. PICK m \in T: b = 1..m
  OBVIOUS
<1>5. ASSUME NEW k \in T, k < m
      PROVE  FALSE
  <2>1. 1..k \in Below
    OBVIOUS
  <2>2. 1..k \subseteq 1..m /\ m \in 1..m /\ m \notin 1..k
    BY <1>5
  <2>3. <<1..k, 1..m>> \in StrictSubsetOrdering(Nat)
    BY <2>2 DEF StrictSubsetOrdering
  <2> QED
    BY <1>3, <1>4, <2>1, <2>3
<1> QED
  BY <1>5

(* Induction: a set with 0 that is closed under + 1 has every number.       *)
LEMMA Induction ==
  ASSUME NEW P, 0 \in P, \A n \in Nat: n \in P => n + 1 \in P
  PROVE  \A n \in Nat: n \in P
<1> SUFFICES ASSUME Nat \ P # {} PROVE FALSE
  OBVIOUS
<1>1. PICK m \in Nat \ P: \A k \in Nat \ P: m <= k
  BY LeastNumber
<1>2. m # 0 /\ m - 1 \in Nat
  OBVIOUS
<1>3. m - 1 \in P
  BY <1>1, <1>2
<1> QED
  BY <1>1, <1>2, <1>3
-----------------------------------------------------------------------------
(* FlattenSeq: the function that it defines by recursion exists and is the  *)
(* only one.                                                                *)
Joins(s, f, n) == \A i \in 1..n: f[i] = IF i = 1 THEN s[i] ELSE f[i - 1] \o s[i]

LEMMA JoinsExists ==
  ASSUME NEW S, NEW s \in Seq(Seq(S))
  PROVE  \A n \in Nat: n <= Len(s) => \E f \in [1..n -> Seq(S)]: Joins(s, f, n)
<1> DEFINE P == {n \in Nat: n <= Len(s) => \E f \in [1..n -> Seq(S)]: Joins(s, f, n)}
<1>1. 0 \in P
  <2> DEFINE f == [i \in 1..0 |-> <<>>]
  <2>1. f \in [1..0 -> Seq(S)] /\ Joins(s, f, 0)
    BY DEF Joins
  <2> QED
    BY <2>1
<1>2. ASSUME NEW n \in Nat, n \in P PROVE n + 1 \in P
  <2> SUFFICES ASSUME n + 1 <= Len(s)
               PROVE  \E f \in [1..(n + 1) -> Seq(S)]: Joins(s, f, n + 1)
    OBVIOUS
  <2>1. PICK f \in [1..n -> Seq(S)]: Joins(s, f, n)
    BY <1>2
  <2> DEFINE x == IF n = 0 THEN s[n + 1] ELSE f[n] \o s[n + 1]
             g == [i \in 1..(n + 1) |-> IF i <= n THEN f[i] ELSE x]
  <2>2. x \in Seq(S)
    <3>1. s[n + 1] \in Seq(S)
      OBVIOUS
    <3>2. n # 0 => f[n] \in Seq(S)
      OBVIOUS
    <3> QED
      BY <3>1, <3>2, ConcatProperties
  <2>3. g \in [1..(n + 1) -> Seq(S)]
    BY <2>2
  <2>4. Joins(s, g, n + 1)
    <3> SUFFICES ASSUME NEW i \in 1..(n + 1)
                 PROVE  g[i] = IF i = 1 THEN s[i] ELSE g[i - 1] \o s[i]
      BY DEF Joins
    <3> HIDE DEF x
    <3>1. CASE i <= n
      <4>1. g[i] = f[i] /\ (i # 1 => g[i - 1] = f[i - 1])
        BY <3>1
      <4>2. i \in 1..n
        BY <3>1
      <4>3. f[i] = IF i = 1 THEN s[i] ELSE f[i - 1] \o s[i]
        BY <2>1, <4>2, Zenon DEF Joins
      <4> HIDE DEF g
      <4> QED
        BY <4>1, <4>3
    <3>2. CASE i = n + 1 /\ n # 0
      <4>1. x = f[n] \o s[n + 1]
        BY <3>2 DEF x
      <4> QED
        BY <3>2, <4>1
    <3>3. CASE i = n + 1 /\ n = 0
      BY <3>3 DEF x
    <3> QED
      BY <3>1, <3>2, <3>3
  <2> QED
    BY <2>3, <2>4
<1> HIDE DEF P
<1>3. \A n \in Nat: n \in P
  BY <1>1, <1>2, Induction
<1> QED
  BY <1>3 DEF P

LEMMA JoinsUnique ==
  ASSUME NEW s, NEW f, NEW g, NEW m \in Nat, Joins(s, f, m), Joins(s, g, m)
  PROVE  \A n \in 1..m: f[n] = g[n]
<1> DEFINE P == {n \in Nat: n + 1 <= m => f[n + 1] = g[n + 1]}
<1>1. 0 \in P
  BY DEF Joins
<1>2. ASSUME NEW n \in Nat, n \in P PROVE n + 1 \in P
  BY <1>2 DEF Joins
<1> HIDE DEF P
<1>3. \A n \in Nat: n \in P
  BY <1>1, <1>2, Induction
<1> QED
  <2> SUFFICES ASSUME NEW n \in 1..m PROVE f[n] = g[n]
    OBVIOUS
  <2>1. n - 1 \in P
    BY <1>3
  <2> QED
    BY <2>1 DEF P

LEMMA FlattenIs ==
  ASSUME NEW S, NEW s \in Seq(Seq(S)), s # <<>>, NEW f, Joins(s, f, Len(s))
  PROVE  FlattenSeq(s) = f[Len(s)]
<1> DEFINE Def(g) == g = [i \in 1..Len(s) |-> IF i = 1 THEN s[i] ELSE g[i - 1] \o s[i]]
           c == CHOOSE g: Def(g)
<1>1. \E g: Def(g)
  <2>1. PICK g \in [1..Len(s) -> Seq(S)]: Joins(s, g, Len(s))
    BY JoinsExists
  <2>2. Def(g)
    BY <2>1 DEF Joins
  <2> QED
    BY <2>2
<1>2. Def(c)
  BY <1>1
<1>3. Joins(s, c, Len(s))
  <2> HIDE DEF c
  <2> QED
    BY <1>2 DEF Joins
<1>4. c[Len(s)] = f[Len(s)]
  <2> HIDE DEF c
  <2> QED
    BY <1>3, JoinsUnique
<1>5. FlattenSeq(s) = c[Len(s)]
  BY DEF FlattenSeq
<1> QED
  BY <1>4, <1>5

LEMMA FlattenEmpty == FlattenSeq(<<>>) = <<>>
BY DEF FlattenSeq

LEMMA FlattenAppend ==
  ASSUME NEW S, NEW s \in Seq(Seq(S)), NEW x \in Seq(S)
  PROVE  /\ FlattenSeq(s) \in Seq(S)
         /\ FlattenSeq(Append(s, x)) = FlattenSeq(s) \o x
<1>1. PICK f \in [1..Len(s) -> Seq(S)]: Joins(s, f, Len(s))
  BY JoinsExists
<1>2. PICK t, n: n \in Nat /\ t = Append(s, x) /\ n = Len(s)
  <2>1. Len(s) \in Nat
    OBVIOUS
  <2> QED
    BY <2>1
<1>3. /\ t \in Seq(Seq(S)) /\ Len(t) = n + 1 /\ t # <<>>
      /\ t[n + 1] = x /\ \A i \in 1..n: t[i] = s[i]
  BY <1>2, AppendProperties
<1>4. PICK g \in [1..(n + 1) -> Seq(S)]: Joins(t, g, n + 1)
  BY <1>3, JoinsExists
<1>5. FlattenSeq(t) = g[n + 1]
  BY <1>3, <1>4, FlattenIs
<1>6. CASE s = <<>>
  <2>1. g[1] = x /\ n = 0
    BY <1>2, <1>3, <1>4, <1>6 DEF Joins
  <2>2. FlattenSeq(s) = <<>> /\ <<>> \in Seq(S) /\ <<>> \o x = x
    BY <1>6, FlattenEmpty, ConcatEmptySeq, EmptySeq
  <2> QED
    BY <1>2, <1>5, <2>1, <2>2
<1>7. CASE s # <<>>
  <2>1. n \in 1..n
    BY <1>2, <1>7, EmptySeq
  <2>2. FlattenSeq(s) = f[n] /\ f[n] \in Seq(S)
    BY <1>1, <1>2, <1>7, <2>1, FlattenIs
  <2>3. Joins(s, g, n)
    <3>1. \A i \in 1..n: i \in 1..(n + 1) /\ t[i] = s[i]
      BY <1>2, <1>3
    <3> QED
      BY <1>4, <3>1, Zenon DEF Joins
  <2>4. g[n] = f[n]
    BY <1>1, <1>2, <2>1, <2>3, JoinsUnique
  <2>5. g[n + 1] = g[n] \o x
    <3>1. n + 1 # 1 /\ n + 1 \in 1..(n + 1) /\ (n + 1) - 1 = n
      BY <1>2, <2>1
    <3> QED
      BY <1>3, <1>4, <3>1 DEF Joins
  <2> QED
    BY <1>2, <1>5, <2>2, <2>4, <2>5
<1> QED
  BY <1>6, <1>7

LEMMA FlattenConcat ==
  ASSUME NEW S, NEW s \in Seq(Seq(S)), NEW t \in Seq(Seq(S))
  PROVE  FlattenSeq(s \o t) = FlattenSeq(s) \o FlattenSeq(t)
<1> DEFINE P == {n \in Nat: \A u \in Seq(Seq(S)): Len(u) = n =>
                    FlattenSeq(s \o u) = FlattenSeq(s) \o FlattenSeq(u)}
<1>1. 0 \in P
  <2> SUFFICES ASSUME NEW u \in Seq(Seq(S)), Len(u) = 0
               PROVE  FlattenSeq(s \o u) = FlattenSeq(s) \o FlattenSeq(u)
    OBVIOUS
  <2>1. u = <<>>
    BY EmptySeq
  <2> QED
    BY <2>1, FlattenEmpty, FlattenAppend, ConcatEmptySeq, EmptySeq
<1>2. ASSUME NEW n \in Nat, n \in P PROVE n + 1 \in P
  <2> SUFFICES ASSUME NEW u \in Seq(Seq(S)), Len(u) = n + 1
               PROVE  FlattenSeq(s \o u) = FlattenSeq(s) \o FlattenSeq(u)
    OBVIOUS
  <2>1. PICK v \in Seq(Seq(S)), x \in Seq(S): u = Append(v, x)
    <3>1. u # <<>>
      BY EmptySeq
    <3> QED
      BY <3>1, SequenceEmptyOrAppend
  <2>2. Len(v) = n
    BY <2>1
  <2>3. FlattenSeq(s \o v) = FlattenSeq(s) \o FlattenSeq(v)
    BY <1>2, <2>2
  <2>4. s \o u = Append(s \o v, x) /\ s \o v \in Seq(Seq(S))
    BY <2>1
  <2>5. FlattenSeq(s \o u) = (FlattenSeq(s) \o FlattenSeq(v)) \o x
    BY <2>3, <2>4, FlattenAppend
  <2>6. FlattenSeq(u) = FlattenSeq(v) \o x
    BY <2>1, FlattenAppend
  <2>7. PICK a \in Seq(S), b \in Seq(S): a = FlattenSeq(s) /\ b = FlattenSeq(v)
    BY FlattenAppend
  <2>8. (a \o b) \o x = a \o (b \o x)
    <3>1. /\ a \o b \in Seq(S) /\ b \o x \in Seq(S)
          /\ (a \o b) \o x \in Seq(S) /\ a \o (b \o x) \in Seq(S)
      BY ConcatProperties
    <3>2. Len((a \o b) \o x) = Len(a \o (b \o x))
      BY <3>1, ConcatProperties
    <3>3. ASSUME NEW i \in 1..Len((a \o b) \o x)
          PROVE  ((a \o b) \o x)[i] = (a \o (b \o x))[i]
      BY <3>1, <3>2
    <3> QED
      BY <3>1, <3>2, <3>3, SeqEqual
  <2> QED
    BY <2>5, <2>6, <2>7, <2>8, Zenon
<1> HIDE DEF P
<1>3. \A n \in Nat: n \in P
  BY <1>1, <1>2, Induction
<1> QED
  <2>1. Len(t) \in P
    BY <1>3
  <2> QED
    BY <2>1 DEF P

LEMMA FlattenOne ==
  ASSUME NEW S, NEW x \in Seq(S)
  PROVE  FlattenSeq(<<x>>) = x
<1>1. <<>> \in Seq(Seq(S)) /\ Append(<<>>, x) = <<x>>
  OBVIOUS
<1>2. FlattenSeq(<<x>>) = FlattenSeq(<<>>) \o x
  BY <1>1, FlattenAppend
<1> QED
  BY <1>2, FlattenEmpty, ConcatEmptySeq

(* The head of a sequence of sequences comes first. *)
LEMMA FlattenHead ==
  ASSUME NEW S, NEW s \in Seq(Seq(S)), s # <<>>
  PROVE  FlattenSeq(s) = Head(s) \o FlattenSeq(Tail(s))
<1>1. Head(s) \in Seq(S) /\ Tail(s) \in Seq(Seq(S)) /\ s = <<Head(s)>> \o Tail(s)
  OBVIOUS
<1>2. <<Head(s)>> \in Seq(Seq(S))
  BY <1>1
<1>3. FlattenSeq(s) = FlattenSeq(<<Head(s)>>) \o FlattenSeq(Tail(s))
  BY <1>1, <1>2, FlattenConcat
<1> QED
  BY <1>1, <1>3, FlattenOne

-----------------------------------------------------------------------------
(* Sequences that hold nothing twice, and what they hold. *)
Once(s) == \A i, j \in 1..Len(s): s[i] = s[j] => i = j
Held(s) == {s[i]: i \in 1..Len(s)}

(* SetToSeq lists a finite set, every member once. *)
LEMMA SetToSeqIs ==
  ASSUME NEW S, IsFiniteSet(S)
  PROVE  SetToSeq(S) \in Seq(S) /\ Once(SetToSeq(S)) /\ Held(SetToSeq(S)) = S
<1> DEFINE n == Cardinality(S)
           Lists(f) == f \in [1..n -> S] /\ IsInjective(f)
           c == CHOOSE f: Lists(f)
<1>1. n \in Nat /\ ExistsBijection(1..n, S)
  BY FS_CardinalityType
<1>2. PICK f \in [1..n -> S]: IsInjective(f)
  BY <1>1 DEF ExistsBijection, Bijection, Injection, IsInjective
<1>3. Lists(c)
  BY <1>2 DEF IsInjective
<1>4. SetToSeq(S) = c
  BY DEF SetToSeq
<1> HIDE DEF c
<1>5. c \in Seq(S) /\ Len(c) = n
  BY <1>1, <1>3
<1>6. Once(c)
  BY <1>3, <1>5 DEF Once, IsInjective
<1>7. c \in Surjection(1..n, S)
  <2>1. IsFiniteSet(1..n) /\ Cardinality(1..n) = n
    BY <1>1, FS_Interval
  <2>2. c \in Injection(1..n, S)
    BY <1>3 DEF Injection, IsInjective
  <2> QED
    BY <2>1, <2>2, FS_Injection
<1>8. Held(c) = S
  BY <1>3, <1>5, <1>7 DEF Held, Surjection
<1> QED
  BY <1>4, <1>5, <1>6, <1>8

(* A sequence that lists the numbers up to n once has length n. *)
LEMMA OnceLength ==
  ASSUME NEW n \in Nat, NEW s \in Seq(1..n), Once(s), Held(s) = 1..n
  PROVE  Len(s) = n
<1>1. Len(s) \in Nat /\ s \in [1..Len(s) -> 1..n]
  OBVIOUS
<1>2. /\ IsFiniteSet(1..Len(s)) /\ Cardinality(1..Len(s)) = Len(s)
      /\ IsFiniteSet(1..n) /\ Cardinality(1..n) = n
  <2>1. \A k \in Nat: IsFiniteSet(1..k) /\ Cardinality(1..k) = k
    BY FS_Interval
  <2> QED
    BY <1>1, <2>1
<1>3. s \in Injection(1..Len(s), 1..n)
  BY <1>1 DEF Injection, IsInjective, Once
<1>4. s \in Surjection(1..Len(s), 1..n)
  BY <1>1 DEF Surjection, Held
<1> QED
  BY <1>2, <1>3, <1>4, FS_Injection

LEMMA ConcatOnce ==
  ASSUME NEW S, NEW s \in Seq(S), NEW t \in Seq(S)
  PROVE  /\ Held(s \o t) = Held(s) \union Held(t)
         /\ Once(s) /\ Once(t) /\ Held(s) \intersect Held(t) = {} => Once(s \o t)
<1>1. PICK c \in Seq(S): c = s \o t
  BY ConcatProperties
<1>2. /\ Len(c) = Len(s) + Len(t) /\ Len(s) \in Nat /\ Len(t) \in Nat
      /\ \A i \in 1..Len(s): c[i] = s[i]
      /\ \A i \in 1..Len(c): i > Len(s) => c[i] = t[i - Len(s)]
  BY <1>1
<1>3. \A i \in 1..Len(c): \/ i \in 1..Len(s)
                          \/ i > Len(s) /\ i - Len(s) \in 1..Len(t)
  BY <1>2
<1>4. Held(c) = Held(s) \union Held(t)
  <2>1. Held(c) \subseteq Held(s) \union Held(t)
    BY <1>2, <1>3 DEF Held
  <2>2. Held(s) \subseteq Held(c)
    BY <1>2 DEF Held
  <2>3. Held(t) \subseteq Held(c)
    <3>1. \A j \in 1..Len(t): Len(s) + j \in 1..Len(c) /\ c[Len(s) + j] = t[j]
      BY <1>2
    <3> QED
      BY <3>1 DEF Held
  <2> QED
    BY <2>1, <2>2, <2>3
<1>5. ASSUME Once(s), Once(t), Held(s) \intersect Held(t) = {} PROVE Once(c)
  <2>1. \A i \in 1..Len(s), j \in 1..Len(t): s[i] # t[j]
    BY <1>5 DEF Held
  <2> SUFFICES ASSUME NEW i \in 1..Len(c), NEW j \in 1..Len(c), c[i] = c[j]
               PROVE  i = j
    BY DEF Once
  <2>2. CASE i \in 1..Len(s) /\ j \in 1..Len(s)
    BY <1>2, <1>5, <2>2 DEF Once
  <2>3. CASE i > Len(s) /\ j > Len(s)
    <3>1. t[i - Len(s)] = t[j - Len(s)]
      BY <1>2, <2>3
    <3>2. i - Len(s) \in 1..Len(t) /\ j - Len(s) \in 1..Len(t)
      BY <1>2, <2>3
    <3>3. i - Len(s) = j - Len(s)
      BY <1>5, <3>1, <3>2 DEF Once
    <3> QED
      BY <1>2, <3>3
  <2>4. CASE i \in 1..Len(s) /\ j > Len(s)
    BY <1>2, <1>3, <2>1, <2>4
  <2>5. CASE j \in 1..Len(s) /\ i > Len(s)
    BY <1>2, <1>3, <2>1, <2>5
  <2> QED
    BY <1>3, <2>2, <2>3, <2>4, <2>5
<1> QED
  BY <1>1, <1>4, <1>5

(* FlattenSeq keeps what its parts hold; and if no part holds anything      *)
(* twice, and no two parts the same, neither does the whole.                *)
LEMMA FlattenHolds ==
  ASSUME NEW S, NEW s \in Seq(Seq(S))
  PROVE  /\ Held(FlattenSeq(s)) = UNION {Held(s[i]): i \in 1..Len(s)}
         /\ /\ \A i \in 1..Len(s): Once(s[i])
            /\ \A i, j \in 1..Len(s): i # j => Held(s[i]) \intersect Held(s[j]) = {}
            => Once(FlattenSeq(s))
<1> DEFINE Parts(u) == UNION {Held(u[i]): i \in 1..Len(u)}
           Apart(u) == /\ \A i \in 1..Len(u): Once(u[i])
                       /\ \A i, j \in 1..Len(u): i # j => Held(u[i]) \intersect Held(u[j]) = {}
           Good(u) == /\ Held(FlattenSeq(u)) = Parts(u)
                      /\ Apart(u) => Once(FlattenSeq(u))
           P == {n \in Nat: \A u \in Seq(Seq(S)): Len(u) = n => Good(u)}
<1> HIDE DEF Good
<1>1. 0 \in P
  <2> SUFFICES ASSUME NEW u \in Seq(Seq(S)), Len(u) = 0 PROVE Good(u)
    OBVIOUS
  <2>1. FlattenSeq(u) = <<>>
    BY EmptySeq, FlattenEmpty
  <2>2. Held(<<>>) = {} /\ Once(<<>>)
    BY DEF Held, Once
  <2> QED
    BY <2>1, <2>2 DEF Good
<1>2. ASSUME NEW n \in Nat, n \in P PROVE n + 1 \in P
  <2> SUFFICES ASSUME NEW u \in Seq(Seq(S)), Len(u) = n + 1 PROVE Good(u)
    OBVIOUS
  <2>1. PICK v \in Seq(Seq(S)), x \in Seq(S): u = Append(v, x)
    <3>1. u # <<>>
      BY EmptySeq
    <3> QED
      BY <3>1, SequenceEmptyOrAppend
  <2>2. Len(v) = n /\ u[n + 1] = x /\ \A i \in 1..n: u[i] = v[i]
    BY <2>1
  <2>3. Good(v)
    BY <1>2, <2>2
  <2>4. FlattenSeq(v) \in Seq(S) /\ FlattenSeq(u) = FlattenSeq(v) \o x
    BY <2>1, FlattenAppend
  <2> HIDE DEF Parts
  <2>5. PICK w \in Seq(S): w = FlattenSeq(v)
    BY <2>4
  <2>6. Parts(u) = Parts(v) \union Held(x)
    <3>1. \A i \in 1..(n + 1): i \in 1..n \/ i = n + 1
      OBVIOUS
    <3>2. n + 1 \in 1..(n + 1) /\ \A i \in 1..n: i \in 1..(n + 1)
      OBVIOUS
    <3> QED
      BY <2>2, <3>1, <3>2 DEF Parts
  <2>7. Held(FlattenSeq(u)) = Parts(u)
    BY <2>3, <2>4, <2>6, <2>5, ConcatOnce DEF Good
  <2>8. ASSUME Apart(u) PROVE Once(FlattenSeq(u))
    <3>1. n + 1 \in 1..(n + 1) /\ \A i \in 1..n: i \in 1..(n + 1) /\ i # n + 1
      OBVIOUS
    <3>2. Apart(v) /\ Once(x) /\ \A i \in 1..n: Held(v[i]) \intersect Held(x) = {}
      BY <2>2, <2>8, <3>1
    <3>3. Held(w) = Parts(v) /\ Once(w)
      BY <2>3, <2>5, <3>2 DEF Good
    <3>4. Held(w) \intersect Held(x) = {}
      BY <2>2, <3>2, <3>3 DEF Parts
    <3> QED
      BY <2>4, <2>5, <3>2, <3>3, <3>4, ConcatOnce
  <2> QED
    BY <2>7, <2>8 DEF Good
<1> HIDE DEF P
<1>3. \A n \in Nat: n \in P
  BY <1>1, <1>2, Induction
<1> QED
  <2>1. Len(s) \in P
    BY <1>3
  <2> QED
    BY <2>1 DEF P, Good

-----------------------------------------------------------------------------
(* FoldLeft folds over sets of positions, the greatest last.  F[i] is what  *)
(* the element at position i does to a value.                               *)
LEMMA MaxIs ==
  ASSUME NEW n \in Nat, NEW s \in SUBSET (1..n), s # {}
  PROVE  Max(s) \in s /\ Max(s) \in 1..n /\ \A y \in s: y <= Max(s)
<1> DEFINE U == {m \in Nat: \A y \in s: y <= m}
<1>1. n \in U
  OBVIOUS
<1>2. PICK m \in U: \A k \in U: m <= k
  BY <1>1, LeastNumber
<1>3. m \in s
  <2> SUFFICES ASSUME m \notin s PROVE FALSE
    OBVIOUS
  <2>1. PICK y \in s: TRUE
    OBVIOUS
  <2>2. m - 1 \in Nat /\ \A z \in s: z <= m - 1
    BY <2>1
  <2>3. m - 1 \in U
    BY <2>2
  <2> QED
    BY <1>2, <2>3
<1>4. \E z \in s: \A y \in s: z >= y
  BY <1>3
<1>5. Max(s) = CHOOSE z \in s: \A y \in s: z >= y
  BY DEF Max
<1>6. Max(s) \in s /\ \A y \in s: Max(s) >= y
  BY <1>4, <1>5
<1> QED
  BY <1>6

LEMMA MaxOfFront ==
  ASSUME NEW n \in Nat, n # 0
  PROVE  1..n # {} /\ Max(1..n) = n /\ (1..n) \ {n} = 1..(n - 1)
<1>1. 1..n # {} /\ n \in 1..n
  OBVIOUS
<1>2. Max(1..n) \in 1..n /\ n <= Max(1..n)
  BY <1>1, MaxIs
<1>3. Max(1..n) = n
  BY <1>2
<1> QED
  BY <1>1, <1>3

Climbs(h, F, x, n) ==
  \A s \in SUBSET (1..n): h[s] = IF s = {} THEN x ELSE F[Max(s)][h[s \ {Max(s)}]]

LEMMA ClimbsExists ==
  ASSUME NEW V, NEW x \in V, NEW F, NEW m \in Nat, \A i \in 1..m: F[i] \in [V -> V]
  PROVE  \E h \in [SUBSET (1..m) -> V]: Climbs(h, F, x, m)
<1> DEFINE Some(n) == \E h \in [SUBSET (1..n) -> V]: Climbs(h, F, x, n)
           P == {n \in Nat: n <= m => Some(n)}
<1>1. Some(0)
  <2> DEFINE h == [s \in SUBSET (1..0) |-> x]
  <2>1. h \in [SUBSET (1..0) -> V] /\ Climbs(h, F, x, 0)
    BY DEF Climbs
  <2> QED
    BY <2>1
<1>2. ASSUME NEW n \in Nat, Some(n), n + 1 <= m PROVE Some(n + 1)
  <2>1. PICK h \in [SUBSET (1..n) -> V]: Climbs(h, F, x, n)
    BY <1>2
  <2> DEFINE T == SUBSET (1..(n + 1))
             g == [s \in T |-> IF n + 1 \in s THEN F[n + 1][h[s \ {n + 1}]] ELSE h[s]]
  <2>2. \A s \in T: /\ n + 1 \in s => s \ {n + 1} \in SUBSET (1..n)
                    /\ n + 1 \notin s => s \in SUBSET (1..n)
    <3>1. 1..(n + 1) = (1..n) \union {n + 1}
      OBVIOUS
    <3> QED
      BY <3>1
  <2>3. F[n + 1] \in [V -> V]
    <3>1. n + 1 \in 1..m
      BY <1>2
    <3> QED
      BY <3>1
  <2>4. g \in [T -> V]
    BY <2>2, <2>3
  <2>5. ASSUME NEW s \in T
        PROVE  g[s] = IF s = {} THEN x ELSE F[Max(s)][g[s \ {Max(s)}]]
    <3>1. CASE n + 1 \in s
      <4>1. s # {} /\ Max(s) \in 1..(n + 1) /\ n + 1 <= Max(s)
        BY <3>1, MaxIs
      <4>2. Max(s) = n + 1
        BY <4>1
      <4>3. s \ {n + 1} \in T /\ n + 1 \notin s \ {n + 1}
        OBVIOUS
      <4> QED
        BY <3>1, <4>1, <4>2, <4>3
    <3>2. CASE n + 1 \notin s
      <4>1. s \in SUBSET (1..n) /\ g[s] = h[s]
        BY <2>2, <3>2
      <4>2. CASE s = {}
        BY <2>1, <4>1, <4>2 DEF Climbs
      <4>3. CASE s # {}
        <5>1. Max(s) \in s
          BY <4>1, <4>3, MaxIs
        <5>2. s \ {Max(s)} \in SUBSET (1..n) /\ s \ {Max(s)} \in T /\ n + 1 \notin s \ {Max(s)}
          BY <3>2, <4>1
        <5>3. g[s \ {Max(s)}] = h[s \ {Max(s)}]
          BY <5>2
        <5> QED
          BY <2>1, <4>1, <4>3, <5>3 DEF Climbs
      <4> QED
        BY <4>2, <4>3
    <3> QED
      BY <3>1, <3>2
  <2> HIDE DEF g
  <2>6. Climbs(g, F, x, n + 1)
    BY <2>5 DEF Climbs
  <2> QED
    BY <2>4, <2>6
<1> HIDE DEF Some
<1>3. 0 \in P /\ \A n \in Nat: n \in P => n + 1 \in P
  BY <1>1, <1>2
<1> HIDE DEF P
<1>4. m \in P
  BY <1>3, Induction
<1>5. Some(m)
  BY <1>4 DEF P
<1> QED
  BY <1>5 DEF Some

-----------------------------------------------------------------------------
(* How many positions of s hold a member of V.                              *)
Hits(s, V) == Cardinality({i \in DOMAIN s: s[i] \in V})

LEMMA HitsType ==
  ASSUME NEW S, NEW s \in Seq(S), NEW V
  PROVE  /\ IsFiniteSet({i \in DOMAIN s: s[i] \in V})
         /\ Hits(s, V) \in Nat
         /\ Hits(s, V) # 0 <=> \E i \in DOMAIN s: s[i] \in V
<1> DEFINE I == {i \in DOMAIN s: s[i] \in V}
<1>1. IsFiniteSet(DOMAIN s)
  <2>1. Len(s) \in Nat /\ DOMAIN s = 1..Len(s)
    OBVIOUS
  <2>2. IsFiniteSet(1..Len(s))
    BY <2>1, FS_Interval
  <2> QED
    BY <2>1, <2>2
<1>2. I \in SUBSET (DOMAIN s)
  OBVIOUS
<1>3. IsFiniteSet(I)
  <2> HIDE DEF I
  <2> QED
    BY <1>1, <1>2, FS_Subset
<1>4. Cardinality(I) \in Nat
  <2> HIDE DEF I
  <2> QED
    BY <1>3, FS_CardinalityType
<1>5. Cardinality(I) = 0 <=> I = {}
  <2> HIDE DEF I
  <2> QED
    BY <1>3, FS_EmptySet
<1> QED
  BY <1>3, <1>4, <1>5 DEF Hits

LEMMA HitsLonger ==
  ASSUME NEW S, NEW s \in Seq(S), NEW x \in S, NEW V
  PROVE  Hits(Longer(s, x), V) = IF x \in V THEN Hits(s, V) + 1 ELSE Hits(s, V)
<1> DEFINE I == {i \in DOMAIN s: s[i] \in V}
           J == {i \in DOMAIN Longer(s, x): Longer(s, x)[i] \in V}
<1>1. PICK t, n: t = Longer(s, x) /\ n = Len(s)
  OBVIOUS
<1>2. /\ DOMAIN t = 1..(n + 1) /\ DOMAIN s = 1..n /\ n \in Nat
      /\ t[n + 1] = x /\ \A i \in 1..n: t[i] = s[i]
  BY <1>1, AppendProperties DEF Longer
<1>3. IsFiniteSet(I) /\ n + 1 \notin I
  <2>1. IsFiniteSet(I)
    BY HitsType
  <2> QED
    BY <1>2, <2>1
<1>4. CASE x \in V
  <2>1. J = I \union {n + 1}
    BY <1>1, <1>2, <1>4
  <2> HIDE DEF I, J
  <2>2. Cardinality(I \union {n + 1}) = Cardinality(I) + 1
    BY <1>3, FS_AddElement
  <2> QED
    BY <1>4, <2>1, <2>2 DEF Hits, I, J
<1>5. CASE x \notin V
  <2>1. J = I
    BY <1>1, <1>2, <1>5
  <2> QED
    BY <1>5, <2>1 DEF Hits
<1> QED
  BY <1>4, <1>5

LEMMA OutsideHits ==
  ASSUME NEW S, NEW s \in Seq(S), NEW x, x \notin S
  PROVE  Hits(s, {x}) = 0
<1>1. \A i \in DOMAIN s: s[i] \notin {x}
  OBVIOUS
<1>2. Hits(s, {x}) # 0 <=> \E i \in DOMAIN s: s[i] \in {x}
  BY HitsType
<1> QED
  BY <1>1, <1>2

LEMMA RangeHits ==
  ASSUME NEW S, NEW s \in Seq(S), NEW x
  PROVE  x \in Range(s) <=> Hits(s, {x}) # 0
<1>1. Hits(s, {x}) # 0 <=> \E i \in DOMAIN s: s[i] \in {x}
  BY HitsType
<1> QED
  BY <1>1 DEF Range

==============================================================================
