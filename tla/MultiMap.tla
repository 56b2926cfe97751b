------------------------------ MODULE MultiMap ------------------------------
(***************************************************************************)
(* What the documentation of HeaderMap promises: several maps that give    *)
(* each key a sequence of values, the Python operations on them, and what  *)
(* each operation answers.  Nothing is said of the order of the keys.      *)
(***************************************************************************)
EXTENDS Naturals, Sequences, SequencesExt, FiniteSets

CONSTANTS Maps, Keys, Cells, Pairs

VARIABLES vals,   \* vals[m][k]: the values of key k in map m
          gone,   \* the maps whose content was taken away
          last    \* the last call: <<operation, map, answer>>

KeyError == <<>>   \* the answer of a call that raises it

mvars == <<vals, gone, last>>

Has(m, k) == vals[m][k] # <<>>

(* The values that a list of pairs has for a key. *)
Of(ps, k) == FlattenSeq([i \in DOMAIN ps |-> IF ps[i][1] = k THEN <<ps[i][2]>> ELSE <<>>])

Become(m, f) == vals' = [vals EXCEPT ![m] = f]

Answer(op, m, a) == m \notin gone /\ last' = <<op, m, a>>

(* update: the last pair of a key wins; extend: all pairs are appended. *)
Updated(m, ps) == [k \in Keys |-> IF Of(ps, k) = <<>> THEN vals[m][k] ELSE <<Last(Of(ps, k))>>]
Extended(m, ps) == [k \in Keys |-> vals[m][k] \o Of(ps, k)]

(* From another map come the values, without their marks. *)
Unmarked(cs) == [i \in DOMAIN cs |-> [v |-> cs[i].v, s |-> FALSE]]
UpdatedFrom(m, n) == [k \in Keys |-> IF Has(n, k) THEN <<Last(Unmarked(vals[n][k]))>> ELSE vals[m][k]]
ExtendedFrom(m, n) == [k \in Keys |-> vals[m][k] \o Unmarked(vals[n][k])]

Init == /\ vals = [m \in Maps |-> [k \in Keys |-> <<>>]]
        /\ gone = {}
        /\ last = <<"new">>

Set(m, k, c) == Answer("set", m, "ok") /\ Become(m, [vals[m] EXCEPT ![k] = <<c>>])

Delete(m, k) == /\ Answer("del", m, IF Has(m, k) THEN <<"ok">> ELSE KeyError)
                /\ Become(m, [vals[m] EXCEPT ![k] = <<>>])

Pop(m, k) == IF Has(m, k)
               THEN /\ Answer("pop", m, <<Head(vals[m][k])>>)
                    /\ Become(m, [vals[m] EXCEPT ![k] = Tail(@)])
               ELSE Answer("pop", m, KeyError) /\ UNCHANGED vals

PopItem(m) == \/ \E k \in Keys: /\ Has(m, k)
                                /\ Answer("popitem", m, <<k, Head(vals[m][k])>>)
                                /\ Become(m, [vals[m] EXCEPT ![k] = Tail(@)])
              \/ /\ \A k \in Keys: ~Has(m, k)
                 /\ Answer("popitem", m, KeyError)
                 /\ UNCHANGED vals

PopAll(m, k) == /\ Answer("popall", m, vals[m][k])
                /\ Become(m, [vals[m] EXCEPT ![k] = <<>>])

Clear(m) == Answer("clear", m, "ok") /\ Become(m, [k \in Keys |-> <<>>])

SetDefault(m, k, c) == IF Has(m, k)
                         THEN Answer("setdefault", m, <<Head(vals[m][k])>>) /\ UNCHANGED vals
                         ELSE /\ Answer("setdefault", m, <<c>>)
                              /\ Become(m, [vals[m] EXCEPT ![k] = <<c>>])

Insert(m, k, c) == /\ Answer("insert", m, vals[m][k])
                   /\ Become(m, [vals[m] EXCEPT ![k] = <<c>>])

Append1(m, k, c) == /\ Answer("append", m, Has(m, k))
                    /\ Become(m, [vals[m] EXCEPT ![k] = Append(@, c)])

(* With a pair that is no header, the pairs before it have been merged. *)
Merged(op, m) == \E a \in {"ok", "ValueError"}: Answer(op, m, a)

Update(m) == Merged("update", m) /\ \E ps \in Pairs: Become(m, Updated(m, ps))

Extend(m) == Merged("extend", m) /\ \E ps \in Pairs: Become(m, Extended(m, ps))

UpdateFrom(m, n) == Answer("update", m, "ok") /\ Become(m, UpdatedFrom(m, n))

ExtendFrom(m, n) == Answer("extend", m, "ok") /\ Become(m, ExtendedFrom(m, n))

Copy(m, n) == Answer("copy", m, n) /\ Become(n, vals[m])

Take(m) == Answer("take", m, "ok") /\ gone' = gone \union {m} /\ UNCHANGED vals

(* Two maps are equal when every key has the same values in the same order. *)
Equal(m, n) == /\ Answer("eq", m, \A k \in Keys: [i \in DOMAIN vals[m][k] |-> vals[m][k][i].v]
                                                = [i \in DOMAIN vals[n][k] |-> vals[n][k][i].v])
               /\ UNCHANGED vals

Call(m) == \/ Clear(m) \/ PopItem(m)
           \/ \E k \in Keys: Delete(m, k) \/ Pop(m, k) \/ PopAll(m, k)
           \/ \E k \in Keys, c \in Cells: \/ Set(m, k, c) \/ SetDefault(m, k, c)
                                          \/ Insert(m, k, c) \/ Append1(m, k, c)
           \/ Update(m) \/ Extend(m)
           \/ \E n \in Maps \ gone: \/ Equal(m, n) \/ Copy(m, n)
                                     \/ UpdateFrom(m, n) \/ ExtendFrom(m, n)

Next == \E m \in Maps: Take(m) \/ (Call(m) /\ UNCHANGED gone)

Spec == Init /\ [][Next]_mvars
=============================================================================
