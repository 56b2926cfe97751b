------------------------------ MODULE HeaderMap ------------------------------
(***************************************************************************)
(* The header map of http/header_map/: a Python MutableMapping around      *)
(* Arc<Mutex<Option<http::HeaderMap>>>, its views, and the iterator over   *)
(* its items, which walks a snapshot of the keys beside the live map.      *)
(*                                                                         *)
(* http::HeaderMap keeps one entry per key in a vector: a new key goes to  *)
(* the end, and a removed one is replaced by the last (swap_remove).       *)
(*                                                                         *)
(* A call locks the mutex, works and unlocks in one step.  The exceptions  *)
(* are update(), extend() and == with another map or with an object that   *)
(* is written in Python: they keep the mutex while they lock the other map *)
(* or run that object.  A thread that waits for a mutex waits in native    *)
(* code and keeps the GIL, if the interpreter has one.  Calls on a map     *)
(* whose content was taken raise and change nothing: they are left out.    *)
(***************************************************************************)
EXTENDS Naturals, Sequences, SequencesExt, FiniteSets

CONSTANTS
  Threads, Maps,
  Keys, Vals,     \* numbers: the views sort them
  Secrets,        \* the values that are added with is_sensitive=True
  Nobody,
  MaxPairs,       \* bound: pairs in the list of one update() or extend()
  MaxChanges,     \* bound: changes of a map under one iterator
  MaxLong,        \* bound: calls that hold a mutex across other code
  Worlds          \* what may happen: see world

ASSUME HeaderAssumption ==
  /\ Keys \subseteq Nat /\ Vals \subseteq Nat \ {0} /\ Secrets \subseteq Vals
  /\ MaxPairs \in Nat /\ MaxLong \in Nat /\ Nobody \notin Threads
  /\ \A w \in Worlds: w.threads \subseteq Threads /\ w.maps \subseteq Maps /\ w.keys \subseteq Keys

VARIABLES
  map,      \* map[m]: the entries, a sequence of [key, vals]
  gone,     \* maps whose content was taken (None in the Option)
  last,     \* the last call that finished, with its answer
  holder,   \* holder[m]: the thread inside a long call on m, or Nobody
  gil,      \* the thread that waits in native code with the GIL, or Nobody
  call,     \* call[t]: the unfinished call of thread t
  long,     \* number of long calls so far
  world,    \* of this behaviour: the threads, maps and keys in use, a bound
            \* on the values stored by single calls, whether there is a GIL,
            \* which <<m, n>> may meet in a long call of m, whether such a
            \* call may run Python code, and whether items() is iterated
  iter      \* the items iterator, and what has happened since its creation

locks == <<holder, gil, call, long, world>>
vars == <<map, gone, last, locks, iter>>

Idle == [kind |-> "idle"]
NoIter == [open |-> FALSE]
KeyError == <<>>

Cell(v, s) == [v |-> v, s |-> s]
Given(v) == Cell(v, v \in Secrets)
Plain(c) == Cell(c.v, FALSE)
PlainCells == {Cell(v, FALSE): v \in Vals \ Secrets}
Cells == {Cell(v, s): v \in Vals, s \in BOOLEAN}
----------------------------------------------------------------------------
(* http::HeaderMap. *)
KeysOnce(e) == [i \in DOMAIN e |-> e[i].key]
HasKey(e, k) == \E i \in DOMAIN e: e[i].key = k
At(e, k) == CHOOSE i \in DOMAIN e: e[i].key = k
GetAll(e, k) == IF HasKey(e, k) THEN e[At(e, k)].vals ELSE <<>>

Put(e, k, c) == IF HasKey(e, k) THEN [e EXCEPT ![At(e, k)].vals = <<c>>]
                                ELSE Append(e, [key |-> k, vals |-> <<c>>])
Add(e, k, c) == IF HasKey(e, k) THEN [e EXCEPT ![At(e, k)].vals = Append(@, c)]
                                ELSE Append(e, [key |-> k, vals |-> <<c>>])
RemoveKey(e, k) == IF HasKey(e, k) THEN Front([e EXCEPT ![At(e, k)] = Last(e)]) ELSE e

AddAll(e, k, cs) == FoldLeft(LAMBDA a, c: Add(a, k, c), e, cs)
PutPairs(e, ps) == FoldLeft(LAMBDA a, p: Put(a, p[1], p[2]), e, ps)
AddPairs(e, ps) == FoldLeft(LAMBDA a, p: Add(a, p[1], p[2]), e, ps)

(* ==: keys in any order, the values of a key in theirs; marks do not count. *)
Bare(cs) == [i \in DOMAIN cs |-> cs[i].v]
SameHeaders(e, f) == /\ {e[i].key: i \in DOMAIN e} = {f[i].key: i \in DOMAIN f}
                     /\ \A i \in DOMAIN e: Bare(e[i].vals) = Bare(GetAll(f, e[i].key))

ItemsOf(e) == FlattenSeq([i \in DOMAIN e |->
                [j \in DOMAIN e[i].vals |-> <<e[i].key, e[i].vals[j]>>]])
Length(e) == FoldLeft(LAMBDA n, x: n + Len(x.vals), 0, e)

(* A wrong pop_inner, which drops the values behind the first. *)
PopRestLost(e, k) == RemoveKey(e, k)
(* A wrong pop_inner, which adds the other values back as new, plain ones. *)
PopRestPlain(e, k) ==
  AddAll(RemoveKey(e, k), k, [i \in 1..Len(Tail(GetAll(e, k))) |-> Plain(Tail(GetAll(e, k))[i])])

(* pop_inner: the key goes with all its values, all but the first come back. *)
PopInner(e, k) == AddAll(RemoveKey(e, k), k, Tail(GetAll(e, k)))
----------------------------------------------------------------------------
Init == /\ map = [m \in Maps |-> <<>>]
        /\ gone = {}
        /\ last = <<"new">>
        /\ holder = [m \in Maps |-> Nobody]
        /\ gil = Nobody
        /\ call = [t \in Threads |-> Idle]
        /\ long = 0
        /\ world \in Worlds
        /\ iter = NoIter

Stored == FoldSet(LAMBDA m, n: Length(map[m]) + n, 0, Maps)

(* Thread t runs Python and gets the mutex of m at once; m has its content. *)
Enter(t, m) == /\ call[t] = Idle /\ gil = Nobody
               /\ holder[m] = Nobody /\ m \notin gone

(* What a new content e of m means to an iterator over m. *)
Observe(m, e) ==
  IF iter.open /\ iter.on = m
    THEN [iter EXCEPT !.changes = @ + 1,
                      !.seen = @ \union {<<k, GetAll(e, k)>>: k \in Keys},
                      !.touched = @ \union {k \in Keys: GetAll(e, k) # GetAll(map[m], k)}]
    ELSE iter

Store(m, e) == /\ iter.open /\ iter.on = m => iter.changes < MaxChanges
               /\ map' = [map EXCEPT ![m] = e] /\ iter' = Observe(m, e)

Answer(op, m, a) == last' = <<op, m, a>> /\ UNCHANGED <<gone, locks>>

Room(n) == Stored + n <= world.cells
----------------------------------------------------------------------------
(* MutableMapping. *)
SetItem(t, m, k, c) == /\ Enter(t, m) /\ Room(1)
                       /\ Store(m, Put(map[m], k, c)) /\ Answer("set", m, "ok")

DelItem(t, m, k) == /\ Enter(t, m)
                    /\ Store(m, RemoveKey(map[m], k))
                    /\ Answer("del", m, IF HasKey(map[m], k) THEN <<"ok">> ELSE KeyError)

PopKey(m, k) == IF HasKey(map[m], k) THEN Store(m, PopInner(map[m], k)) ELSE UNCHANGED <<map, iter>>

Pop(t, m, k) == /\ Enter(t, m)
                /\ PopKey(m, k)
                /\ Answer("pop", m, IF HasKey(map[m], k) THEN <<Head(GetAll(map[m], k))>> ELSE KeyError)

PopItem(t, m) ==
  /\ Enter(t, m)
  /\ IF map[m] = <<>>
       THEN UNCHANGED <<map, iter>> /\ Answer("popitem", m, KeyError)
       ELSE LET k == map[m][1].key
            IN PopKey(m, k) /\ Answer("popitem", m, <<k, Head(GetAll(map[m], k))>>)

Clear(t, m) == Enter(t, m) /\ Store(m, <<>>) /\ Answer("clear", m, "ok")

SetDefault(t, m, k, c) ==
  /\ Enter(t, m) /\ Room(1)
  /\ IF HasKey(map[m], k)
       THEN UNCHANGED <<map, iter>> /\ Answer("setdefault", m, <<Head(GetAll(map[m], k))>>)
       ELSE Store(m, Put(map[m], k, c)) /\ Answer("setdefault", m, <<c>>)

(* update with a list or a tuple; bad: the pair behind ps is no header. *)
UpdatePairs(t, m, ps, bad) ==
  /\ Enter(t, m) /\ Room(Len(ps))
  /\ Store(m, PutPairs(map[m], ps)) /\ Answer("update", m, IF bad THEN "ValueError" ELSE "ok")

(* The operations a dict does not have. *)
Insert(t, m, k, v) == /\ Enter(t, m) /\ Room(1)
                      /\ Store(m, Put(map[m], k, Given(v)))
                      /\ Answer("insert", m, GetAll(map[m], k))

AppendValue(t, m, k, v) == /\ Enter(t, m) /\ Room(1)
                           /\ Store(m, Add(map[m], k, Given(v)))
                           /\ Answer("append", m, HasKey(map[m], k))

ExtendPairs(t, m, ps, bad) ==
  /\ Enter(t, m) /\ Room(Len(ps))
  /\ Store(m, AddPairs(map[m], ps)) /\ Answer("extend", m, IF bad THEN "ValueError" ELSE "ok")

PopAll(t, m, k) == /\ Enter(t, m)
                   /\ Store(m, RemoveKey(map[m], k)) /\ Answer("popall", m, GetAll(map[m], k))

(* copy(): here n is the name of the new map. *)
Copy(t, m, n) == /\ Enter(t, m) /\ m # n /\ Enter(t, n) /\ Stored - Length(map[n]) + Length(map[m]) <= world.cells
                 /\ ~(iter.open /\ iter.on = n)
                 /\ Store(n, map[m]) /\ Answer("copy", m, n)

(* try_take_inner: the headers leave with the request that is sent. *)
Take(t, m) == /\ Enter(t, m)
              /\ gone' = gone \union {m}
              /\ last' = <<"take", m, "ok">>
              /\ UNCHANGED <<map, iter, locks>>
----------------------------------------------------------------------------
(* Calls that keep the mutex of m while other code runs. *)
Start(t, m, c) == /\ Enter(t, m) /\ long < MaxLong
                  /\ holder' = [holder EXCEPT ![m] = t]
                  /\ call' = [call EXCEPT ![t] = c]
                  /\ long' = long + 1
                  /\ UNCHANGED <<map, gone, last, world, iter>>

(* A wrong call that detaches from the interpreter while it reads the other map. *)
StartFromMapDetached(t, m, n, op) ==
  /\ <<m, n>> \in world.from
  /\ Start(t, m, [kind |-> "map", on |-> m, src |-> n, op |-> op])
  /\ gil' = gil

(* The other side is a header map: its items() locks it in native code. *)
StartFromMap(t, m, n, op) ==
  /\ <<m, n>> \in world.from
  /\ Start(t, m, [kind |-> "map", on |-> m, src |-> n, op |-> op])
  /\ gil' = IF world.gil THEN t ELSE Nobody

(* The other side is written in Python: other threads may get the GIL. *)
StartFromPython(t, m, op) ==
  /\ world.python
  /\ Start(t, m, [kind |-> "python", on |-> m, op |-> op])
  /\ gil' = gil

Finish(t, m) == /\ holder' = [holder EXCEPT ![m] = Nobody]
                /\ call' = [call EXCEPT ![t] = Idle]
                /\ gil' = IF gil = t THEN Nobody ELSE gil
                /\ UNCHANGED <<gone, long, world>>

MergePairs(op, m, ps, a) == /\ Store(m, IF op = "update" THEN PutPairs(map[m], ps) ELSE AddPairs(map[m], ps))
                            /\ last' = <<op, m, a>>

(* The items of the other map come as Python strings: the mark is_sensitive *)
(* is lost on the way.                                                      *)
FinishFromMap(t) ==
  LET c == call[t]
  IN /\ c.kind = "map" /\ holder[c.src] = Nobody
     /\ Finish(t, c.on)
     /\ IF c.src \in gone
          THEN UNCHANGED <<map, last, iter>>
          ELSE IF c.op = "eq"
            THEN /\ last' = <<"eq", c.on, SameHeaders(map[c.on], map[c.src])>>
                 /\ UNCHANGED <<map, iter>>
            ELSE LET ps == [i \in DOMAIN ItemsOf(map[c.src]) |->
                              <<ItemsOf(map[c.src])[i][1], Plain(ItemsOf(map[c.src])[i][2])>>]
                 IN MergePairs(c.op, c.on, ps, "ok")

(* An object written in Python yields its pairs, or raises behind some. *)
FinishFromPython(t, ps) ==
  LET c == call[t]
  IN /\ c.kind = "python" /\ gil = Nobody
     /\ Finish(t, c.on)
     /\ IF c.op = "eq" THEN UNCHANGED <<map, last, iter>>
                       ELSE MergePairs(c.op, c.on, ps, "ok")

(* Any call on a map whose mutex is held waits for it in native code. *)
Block(t, m) == /\ call[t] = Idle /\ gil = Nobody /\ holder[m] # Nobody
               /\ call' = [call EXCEPT ![t] = [kind |-> "blocked", on |-> m]]
               /\ gil' = IF world.gil THEN t ELSE Nobody
               /\ UNCHANGED <<map, gone, last, holder, long, world, iter>>

Wake(t) == /\ call[t].kind = "blocked" /\ holder[call[t].on] = Nobody
           /\ call' = [call EXCEPT ![t] = Idle]
           /\ gil' = IF gil = t THEN Nobody ELSE gil
           /\ UNCHANGED <<map, gone, last, holder, long, world, iter>>
----------------------------------------------------------------------------
(* HeaderMapItemsIter. *)
NewItems(t, m) == /\ Enter(t, m) /\ world.iterate /\ ~iter.open
                  /\ iter' = [open |-> TRUE, on |-> m, keys |-> KeysOnce(map[m]), cur |-> <<>>,
                              base |-> map[m], seen |-> {<<k, GetAll(map[m], k)>>: k \in Keys},
                              touched |-> {}, changes |-> 0, out |-> <<>>, panicked |-> FALSE]
                  /\ UNCHANGED <<map, gone, last, locks>>

(* A wrong __next__, which goes to the next key when the values are fetched. *)
NextSkipsKey(t) ==
  LET fetched == GetAll(map[iter.on], iter.keys[1])
      cs == IF iter.cur # <<>> THEN iter.cur ELSE fetched
  IN /\ iter.open /\ iter.keys # <<>> /\ call[t] = Idle
     /\ cs # <<>>
     /\ iter' = [iter EXCEPT !.cur = Tail(cs), !.keys = IF iter.cur = <<>> THEN Tail(@) ELSE @,
                             !.out = Append(@, <<iter.keys[1], Head(cs)>>)]
     /\ UNCHANGED <<map, gone, last, locks>>

(* __next__: the values of a key are fetched when it is reached; the key    *)
(* stays in front until the last of them is out.  A key that has gone from  *)
(* the map fails the assertion, and the iterator stays as it is.            *)
NextItem(t) ==
  LET fetched == GetAll(map[iter.on], iter.keys[1])
      cs == IF iter.cur # <<>> THEN iter.cur ELSE fetched
  IN /\ iter.open /\ iter.keys # <<>> /\ call[t] = Idle
     /\ iter.cur = <<>> => Enter(t, iter.on)
     /\ iter' = IF cs = <<>>
                  THEN [iter EXCEPT !.panicked = TRUE]
                  ELSE [iter EXCEPT !.cur = Tail(cs),
                                    !.keys = IF Len(cs) = 1 THEN Tail(@) ELSE @,
                                    !.out = Append(@, <<iter.keys[1], Head(cs)>>)]
     /\ UNCHANGED <<map, gone, last, locks>>

DropIter == iter.open /\ iter' = NoIter /\ UNCHANGED <<map, gone, last, locks>>
----------------------------------------------------------------------------
(* The pairs a caller passes, with values that are not marked. *)
SomePairs == BoundedSeq(world.keys \X PlainCells, MaxPairs)

KeyCall(t, m, k) == DelItem(t, m, k) \/ Pop(t, m, k) \/ PopAll(t, m, k)

ValueCall(t, m, k) == \/ \E c \in PlainCells: SetItem(t, m, k, c) \/ SetDefault(t, m, k, c)
                      \/ \E v \in Vals: Insert(t, m, k, v) \/ AppendValue(t, m, k, v)

(* A pair that is no header is tried in lists that are shorter than the bound. *)
PairsCall(t, m) == \E ps \in SomePairs, bad \in BOOLEAN:
                     /\ bad => Len(ps) < MaxPairs
                     /\ UpdatePairs(t, m, ps, bad) \/ ExtendPairs(t, m, ps, bad)

LongCall(t, m) == \E op \in {"update", "extend", "eq"}:
                    StartFromPython(t, m, op) \/ \E n \in world.maps: StartFromMap(t, m, n, op)

MapCall(t, m) == \/ PopItem(t, m) \/ Clear(t, m) \/ Take(t, m)
                 \/ PairsCall(t, m) \/ LongCall(t, m)
                 \/ Block(t, m) \/ NewItems(t, m)
                 \/ \E n \in world.maps: Copy(t, m, n)
                 \/ \E k \in world.keys: KeyCall(t, m, k) \/ ValueCall(t, m, k)

Proceed(t) == FinishFromMap(t) \/ Wake(t) \/ \E ps \in SomePairs: FinishFromPython(t, ps)

Next == \/ \E t \in world.threads: Proceed(t) \/ NextItem(t) \/ \E m \in world.maps: MapCall(t, m)
        \/ DropIter

(* A thread that can go on does: the scheduler and the GIL serve everybody, *)
(* and only MaxLong calls compete for a mutex.                              *)
Spec == Init /\ [][Next]_vars /\ \A t \in Threads: WF_vars(Proceed(t))
----------------------------------------------------------------------------
(* The views read the live map; each call of theirs is one lock. *)
ItemsView(e) == [i \in DOMAIN ItemsOf(e) |-> <<ItemsOf(e)[i][1], ItemsOf(e)[i][2].v>>]
KeysView(e) == [i \in DOMAIN ItemsOf(e) |-> <<ItemsOf(e)[i][1], 0>>]

Before(x, y) == x[1] < y[1] \/ (x[1] = y[1] /\ x[2] < y[2])

(* sort: an element comes behind those before it and behind earlier equals. *)
Place(s, j) == Cardinality({k \in DOMAIN s: Before(s[k], s[j]) \/ (s[k] = s[j] /\ k <= j)})
Sorted(s) == [i \in DOMAIN s |-> s[CHOOSE j \in DOMAIN s: Place(s, j) = i]]

LexLess(s, u) ==
  \E i \in 1..Len(u): /\ i <= Len(s) + 1
                      /\ \A j \in 1..(i - 1): s[j] = u[j]
                      /\ i <= Len(s) => Before(s[i], u[i])

(* A wrong __richcmp__, which compares in the order of the entries. *)
RichCmpUnsorted(op, s, u) ==
  CASE op = "lt" -> LexLess(s, u)
    [] op = "eq" -> s = u
    [] op = "gt" -> LexLess(u, s)

(* __richcmp__: both sides are sorted, then compared as lists. *)
RichCmp(op, s, u) ==
  LET a == Sorted(s)  b == Sorted(u)
  IN CASE op = "lt" -> LexLess(a, b)
       [] op = "eq" -> a = b
       [] op = "gt" -> LexLess(b, a)

(* The operations of a set: both sides become Python sets. *)
SetOp(op, s, u) ==
  LET S == Range(s)  U == Range(u)
  IN CASE op = "and" -> S \intersect U
       [] op = "or"  -> S \union U
       [] op = "sub" -> S \ U
       [] op = "xor" -> (S \ U) \union (U \ S)

(* str() and repr(): a marked value is shown as the word "Sensitive". *)
Sensitive == 0
Shown(e) == [i \in DOMAIN ItemsOf(e) |->
               <<ItemsOf(e)[i][1], IF ItemsOf(e)[i][2].s THEN Sensitive ELSE ItemsOf(e)[i][2].v>>]
----------------------------------------------------------------------------
(* Types; no map has two entries for a key or an entry without a value,     *)
(* which the items iterator relies on.                                      *)
TypeOK ==
  /\ \A m \in Maps: \A i \in DOMAIN map[m]:
       /\ map[m][i].key \in Keys
       /\ map[m][i].vals \in Seq(Cells) \ {<<>>}
       /\ \A j \in 1..(i - 1): map[m][j].key # map[m][i].key
  /\ gone \subseteq Maps /\ world \in Worlds /\ long \in 0..MaxLong
  /\ holder \in [Maps -> Threads \union {Nobody}] /\ gil \in Threads \union {Nobody}
  /\ \A m \in Maps: holder[m] # Nobody => call[holder[m]].kind \in {"map", "python"}

(* Whatever the entries went through, swaps, removals and re-additions in   *)
(* the vector of http::HeaderMap, each call changes and answers what the    *)
(* documentation says of a mapping from keys to lists of values.            *)
Promise == INSTANCE MultiMap WITH
             vals <- [m \in Maps |-> [k \in Keys |-> GetAll(map[m], k)]],
             Pairs <- BoundedSeq(Keys \X PlainCells, MaxPairs)
KeepsPromise == Promise!Spec

Yielded(k) == FlattenSeq([i \in DOMAIN iter.out |->
                IF iter.out[i][1] = k THEN <<iter.out[i][2]>> ELSE <<>>])
Passed(k) == k \notin Range(iter.keys)

(* An iteration over items() beside a map that changes yields the keys it   *)
(* started with, in their order; the values of a key are those it had at    *)
(* one moment since; a key nobody touched comes whole and once.  It panics  *)
(* only over a key that was removed.                                        *)
YieldsSound ==
  iter.open =>
    /\ \A i, j \in DOMAIN iter.out:
         i < j => At(iter.base, iter.out[i][1]) <= At(iter.base, iter.out[j][1])
    /\ \A k \in Keys:
         /\ ~HasKey(iter.base, k) => Yielded(k) = <<>>
         /\ \E s \in iter.seen: s[1] = k /\ IsPrefix(Yielded(k), s[2])
         /\ Passed(k) /\ HasKey(iter.base, k) => <<k, Yielded(k)>> \in iter.seen
         /\ k \notin iter.touched /\ Passed(k) => Yielded(k) = GetAll(iter.base, k)
    /\ iter.panicked => \E k \in iter.touched: HasKey(iter.base, k) /\ <<k, <<>>>> \in iter.seen

(* The iterator relies on no key having two entries, or none of its values. *)
IterationSound == TypeOK /\ YieldsSound

(* Comparing two views says something of their contents, never of the order *)
(* that earlier removals gave the entries: items() are equal exactly when   *)
(* each key has the same values, however often each; equal maps have equal  *)
(* views; of <, == and > one holds.                                         *)
ViewsCompareContent ==
  \A m, n \in Maps:
    LET e == map[m]  f == map[n]
        Times(g, k, v) == Cardinality({i \in DOMAIN GetAll(g, k): GetAll(g, k)[i].v = v})
        Holds(s, u) == {op \in {"lt", "eq", "gt"}: RichCmp(op, s, u)}
        items == Holds(ItemsView(e), ItemsView(f))
        keys == Holds(KeysView(e), KeysView(f))
    IN /\ items = {"eq"} <=> \A k \in Keys, v \in Vals: Times(e, k, v) = Times(f, k, v)
       /\ SameHeaders(e, f) => items = {"eq"} /\ keys = {"eq"}
       /\ Cardinality(items) = 1 /\ Cardinality(keys) = 1
       /\ SetOp("and", KeysView(e), KeysView(f)) = {<<k, 0>>: k \in {j \in Keys: HasKey(e, j) /\ HasKey(f, j)}}
       /\ SetOp("xor", ItemsView(e), ItemsView(f)) = {}
            <=> \A k \in Keys: Range(Bare(GetAll(e, k))) = Range(Bare(GetAll(f, k)))

(* A value that was added as sensitive is never shown in clear by a map,    *)
(* whatever calls moved it, until update() or extend() takes it from one    *)
(* map into another.                                                        *)
SecretsStaySecret ==
  (\E m \in Maps: \E p \in Range(Shown(map[m])): p[2] \in Secrets) => long > 0 /\ world.from # {}

(* Every call returns: nobody waits for ever on a mutex.  It holds without  *)
(* a GIL when no two maps are merged into each other, and with a GIL when   *)
(* no call runs Python code under the mutex; never for a map with itself.   *)
EveryCallReturns == \A t \in Threads: call[t] # Idle ~> call[t] = Idle

(* "HeaderMap is thread-safe": the same, whatever two threads do with one   *)
(* map, or with two.                                                        *)
ThreadSafe == EveryCallReturns
=============================================================================
