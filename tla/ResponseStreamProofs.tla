------------------------- MODULE ResponseStreamProofs -------------------------
(***************************************************************************)
(* Proofs about ResponseStream, for every set of tasks, body length, frame *)
(* size, buffer limit and set of disturbances.                             *)
(***************************************************************************)
EXTENDS ResponseStream, SequenceLemmas

Bytes == 1..BodyLen
Whole(chunks) == \A i \in DOMAIN chunks : chunks[i] # <<>>

(* What a message can be: the error of a failing body, or a batch.          *)
Sendable(w) ==
    {m \in Messages : \/ m = Failure /\ "fail" \in w
                      \/ m.ok /\ m.chunks # <<>> /\ Whole(m.chunks)}

Shapes ==
    /\ limit \in Limits /\ world \in Worlds
    /\ arrived \in 0..BodyLen /\ taken \in 0..arrived /\ readBytes \in 0..taken
    /\ phase \in {"head", "body", "failed", "gone"}
    /\ rstate \in {"none", "reading", "sending", "finishing", "ended"}
    /\ pending \in Chunks /\ Whole(pending)
    /\ buffer \in Chunks /\ Whole(buffer)
    /\ outbox \in Seq(Sendable(world)) /\ channel \in Seq(Sendable(world))
    /\ Len(outbox) <= 1 /\ Len(channel) <= ChannelSize
    /\ token \in BOOLEAN /\ rxAlive \in BOOLEAN /\ handle \in BOOLEAN
    /\ borrower \subseteq Tasks /\ running \subseteq Tasks /\ cancelled \subseteq Tasks
    /\ lockQ \in Seq(Tasks \cup {Exit})
    /\ call \in [Tasks -> Calls \cup {Idle}]
    /\ got \in [Tasks -> Seq(Bytes)]
    /\ cache \in Seq(Bytes) \cup {Nothing}
    /\ exit \in {"open", "locking", "closed", "busy", "cancelled"}
    /\ sawEnd \in BOOLEAN /\ out \in Seq(Bytes)

(* The reader task: one message at a time, and none besides a batch.        *)
ReaderInv ==
    /\ rstate # "reading" => buffer = <<>>
    /\ rstate \notin {"sending", "finishing"} => outbox = <<>>
    /\ rstate = "none" => channel = <<>> /\ ~token
    /\ rstate # "none" => /\ limit \in Nat /\ phase \in {"body", "gone"}
                          /\ rxAlive \/ phase = "gone"

(* The queue q for the mutex while the tasks are in the calls c: who waits   *)
(* is in a call, and waits once.                                            *)
InCalls(q, c) ==
    /\ \A i \in 1..Len(q) : q[i] # Exit => c[q[i]] # Idle
    /\ \A i, j \in 1..Len(q) : q[i] = q[j] /\ q[i] # Exit => i = j

(* The mutex: only its owner runs, and only who runs has collected data.    *)
LockInv ==
    /\ lockQ # <<>> => phase = "body"
    /\ InCalls(lockQ, call)
    /\ ~handle => lockQ = <<>> \/ \E t \in Tasks : borrower = {t} /\ lockQ = <<t>>
    /\ \A t \in running : Owns(t)
    /\ \A t \in Tasks : got[t] # <<>> => t \in running
    /\ \A t \in running :
         /\ call[t].op = "chunk" => got[t] = <<>>
         /\ call[t].op = "read" => Len(got[t]) < call[t].amount

(* A run of the body: the bytes that follow position a.                     *)
Follows(a, s) == \A i \in DOMAIN s : s[i] = a + i

Laid(a, c, p, m, o, b) ==
    /\ Follows(a, c)
    /\ Follows(a + Len(c), p)
    /\ Follows(a + Len(c) + Len(p), m)
    /\ Follows(a + Len(c) + Len(p) + Len(m), o)
    /\ Follows(a + Len(c) + Len(p) + Len(m) + Len(o), b)

Total(c, p, m, o, b) == Len(c) + Len(p) + Len(m) + Len(o) + Len(b)

(* The places from position a on hold a run of the body that ends at k.     *)
Spans(k, a, c, p, m, o, b) == Laid(a, c, p, m, o, b) /\ a + Total(c, p, m, o, b) = k

(* Where the bytes between reqwest and the callers are.                     *)
Placed ==
    phase # "gone" =>
        \E k \in 0..arrived :
            /\ Spans(k, taken, Collected, Flat(pending), InMessages(channel),
                     InMessages(outbox), Flat(buffer))
            /\ \/ k = arrived
               \/ rstate \in {"finishing", "ended"} /\ (token \/ "fail" \in world)

(* What came out is behind what was taken.                                  *)
OutInv == ReadsInOrder /\ \A i \in DOMAIN out : out[i] <= taken

PipelineInv == Shapes /\ ReaderInv /\ LockInv /\ Placed /\ OutInv

(* How much there is at each place.                                         *)
Small(messages) == \A i \in DOMAIN messages : Size(messages[i].chunks) <= Batch

BoundInv ==
    limit # NoLimit =>
        /\ phase = "head" => arrived = 0 \/ arrived < limit
        /\ Size(pending) <= Batch
        /\ Small(channel) /\ Small(outbox)
        /\ buffer = <<>> \/ Size(buffer) < limit

(* With nothing going wrong around it: nothing stops the reader before the  *)
(* end of the body, and all that was taken was handed out, by the reads or  *)
(* by one bytes().                                                          *)
Calm ==
    /\ token = FALSE /\ phase \in {"head", "body"} /\ cancelled = {}
    /\ \A i \in 1..Len(lockQ) : lockQ[i] # Exit
    /\ phase = "body" /\ rstate \in {"none", "finishing", "ended"} => arrived = BodyLen

HandedOut ==
    \/ cache = Nothing /\ taken = readBytes /\ Len(out) = taken /\ Follows(0, out)
    \/ cache = Body /\ taken = BodyLen /\ readBytes = BodyLen

QuietInv ==
    world = {} =>
        /\ Calm /\ HandedOut
        /\ sawEnd => taken = BodyLen
        /\ \A t \in running : call[t].op = "bytes" => cache = Nothing /\ readBytes = 0

-----------------------------------------------------------------------------
(* Runs of the body.                                                        *)
LEMMA FollowsConcat ==
  ASSUME NEW S, NEW s \in Seq(S), NEW t \in Seq(S), NEW a \in Nat
  PROVE  /\ s \o t \in Seq(S) /\ Len(s \o t) = Len(s) + Len(t)
         /\ Follows(a, s \o t) <=> Follows(a, s) /\ Follows(a + Len(s), t)
<1>1. PICK u, m, n : /\ u = s \o t /\ m = Len(s) /\ n = Len(t)
                     /\ m \in Nat /\ n \in Nat
  BY LenProperties
<1>2. /\ u \in Seq(S) /\ Len(u) = m + n
      /\ \A i \in 1..(m + n) : u[i] = IF i <= m THEN s[i] ELSE t[i - m]
  BY <1>1, ConcatProperties
<1>3. DOMAIN u = 1..(m + n) /\ DOMAIN s = 1..m /\ DOMAIN t = 1..n
  BY <1>1, <1>2, LenProperties
<1>4. ASSUME Follows(a, u) PROVE Follows(a, s) /\ Follows(a + m, t)
  <2>1. \A i \in 1..(m + n) : u[i] = a + i
    BY <1>3, <1>4 DEF Follows
  <2>2. ASSUME NEW i \in 1..m PROVE s[i] = a + i
    BY <1>1, <1>2, <2>1
  <2>3. ASSUME NEW i \in 1..n PROVE t[i] = (a + m) + i
    <3>1. m + i \in 1..(m + n) /\ ~(m + i <= m) /\ (m + i) - m = i
      BY <1>1
    <3>2. u[m + i] = t[i] /\ u[m + i] = a + (m + i)
      BY <1>2, <2>1, <3>1
    <3> QED
      BY <1>1, <3>2
  <2> QED
    BY <1>3, <2>2, <2>3 DEF Follows
<1>5. ASSUME Follows(a, s), Follows(a + m, t) PROVE Follows(a, u)
  <2>1. /\ \A i \in 1..m : s[i] = a + i
        /\ \A i \in 1..n : t[i] = (a + m) + i
    BY <1>3, <1>5 DEF Follows
  <2>2. ASSUME NEW i \in 1..(m + n) PROVE u[i] = a + i
    <3>1. CASE i <= m
      BY <1>1, <1>2, <2>1, <3>1
    <3>2. CASE ~(i <= m)
      <4>1. i - m \in 1..n /\ (a + m) + (i - m) = a + i
        BY <1>1, <3>2
      <4> QED
        BY <1>2, <2>1, <3>2, <4>1
    <3> QED
      BY <3>1, <3>2
  <2> QED
    BY <1>3, <2>2 DEF Follows
<1> QED
  BY <1>1, <1>2, <1>4, <1>5

LEMMA FollowsEmpty == \A a : Follows(a, <<>>)
BY EmptySeq DEF Follows

(* Two runs from the same place and of the same length are equal.           *)
LEMMA FollowsSame ==
  ASSUME NEW S, NEW s \in Seq(S), NEW t \in Seq(S), NEW a,
         Follows(a, s), Follows(a, t), Len(s) = Len(t)
  PROVE  s = t
<1>1. DOMAIN s = 1..Len(s) /\ DOMAIN t = 1..Len(t)
  BY LenProperties
<1>2. \A i \in 1..Len(s) : s[i] = t[i]
  BY <1>1 DEF Follows
<1> QED
  BY <1>2, SeqEqual

(* A slice of the body is the run after its first position.                 *)
LEMMA SliceFollows ==
  ASSUME NEW a \in Nat, NEW n \in Nat, a + n <= BodyLen
  PROVE  /\ SubSeq(Body, a + 1, a + n) \in Seq(Bytes)
         /\ Len(SubSeq(Body, a + 1, a + n)) = n
         /\ Follows(a, SubSeq(Body, a + 1, a + n))
<1>1. BodyLen \in Nat
  BY SizesAssumption
<1>2. Body \in Seq(Bytes) /\ Len(Body) = BodyLen
  BY <1>1 DEF Body, Bytes
<1>3. PICK s : s = SubSeq(Body, a + 1, a + n)
  OBVIOUS
<1>4. /\ Len(s) = n /\ DOMAIN s = 1..n /\ s \in Seq(Bytes)
      /\ \A i \in 1..n : s[i] = Body[(a + 1) + i - 1]
  BY <1>1, <1>2, <1>3
<1>5. ASSUME NEW i \in 1..n PROVE s[i] = a + i
  <2>1. (a + 1) + i - 1 = a + i /\ a + i \in 1..BodyLen
    BY <1>1
  <2> QED
    BY <1>4, <2>1 DEF Body
<1> QED
  BY <1>3, <1>4, <1>5 DEF Follows

(* The front and the rest of a chunk.                                       *)
LEMMA ChunkSplits ==
  ASSUME NEW S, NEW s \in Seq(S), NEW n \in 0..Len(s)
  PROVE  /\ SubSeq(s, 1, n) \in Seq(S) /\ Len(SubSeq(s, 1, n)) = n
         /\ SubSeq(s, n + 1, Len(s)) \in Seq(S)
         /\ Len(SubSeq(s, n + 1, Len(s))) = Len(s) - n
         /\ s = SubSeq(s, 1, n) \o SubSeq(s, n + 1, Len(s))
<1>1. PICK u, v : u = SubSeq(s, 1, n) /\ v = SubSeq(s, n + 1, Len(s))
  OBVIOUS
<1>2. /\ u \in Seq(S) /\ Len(u) = n /\ v \in Seq(S) /\ Len(v) = Len(s) - n
      /\ \A i \in 1..n : u[i] = s[i]
      /\ \A i \in 1..(Len(s) - n) : v[i] = s[n + i]
  BY <1>1
<1>3. /\ u \o v \in Seq(S) /\ Len(u \o v) = Len(s)
  BY <1>2, ConcatProperties
<1>4. ASSUME NEW i \in 1..Len(s) PROVE s[i] = (u \o v)[i]
  <2>1. CASE i <= n
    BY <1>2, <1>3, <2>1
  <2>2. CASE ~(i <= n)
    <3>1. i - n \in 1..(Len(s) - n) /\ n + (i - n) = i
      BY <2>2
    <3>2. v[i - n] = s[i]
      BY <1>2, <3>1
    <3>3. (u \o v)[i] = v[i - n]
      BY <1>2, <2>2
    <3> QED
      BY <3>2, <3>3
  <2> QED
    BY <2>1, <2>2
<1>5. s = u \o v
  BY <1>3, <1>4, SeqEqual
<1> QED
  BY <1>1, <1>2, <1>5

-----------------------------------------------------------------------------
(* Chunks and messages.                                                     *)
LEMMA ChunksFlat ==
  ASSUME NEW c \in Chunks
  PROVE  Flat(c) \in Seq(Bytes) /\ Size(c) \in Nat /\ Size(c) = Len(Flat(c))
<1>1. <<>> \in Seq(Bytes)
  OBVIOUS
<1>2. Flat(c) \in Seq(Bytes)
  BY <1>1, FlattenAppend DEF Flat, Chunks, Bytes
<1> QED
  BY <1>2, LenProperties DEF Size

LEMMA FlatEmpty == Flat(<<>>) = <<>> /\ Size(<<>>) = 0 /\ <<>> \in Chunks /\ Whole(<<>>)
BY FlattenEmpty, EmptySeq DEF Flat, Size, Chunks, Whole

LEMMA FlatAppend ==
  ASSUME NEW c \in Chunks, NEW x \in Seq(Bytes)
  PROVE  /\ Append(c, x) \in Chunks /\ Append(c, x) # <<>>
         /\ Flat(Append(c, x)) = Flat(c) \o x
         /\ Size(Append(c, x)) = Size(c) + Len(x)
         /\ Whole(c) /\ x # <<>> => Whole(Append(c, x))
<1>1. Append(c, x) \in Chunks /\ Append(c, x) # <<>>
  BY AppendProperties DEF Chunks, Bytes
<1>2. Flat(Append(c, x)) = Flat(c) \o x
  BY FlattenAppend DEF Flat, Chunks, Bytes
<1>3. Size(Append(c, x)) = Size(c) + Len(x)
  BY <1>2, ChunksFlat, ConcatProperties DEF Size
<1>4. ASSUME Whole(c), x # <<>> PROVE Whole(Append(c, x))
  BY <1>4, AppendProperties DEF Chunks, Bytes, Whole
<1> QED
  BY <1>1, <1>2, <1>3, <1>4

(* Taking n bytes of the first chunk and putting its rest back keeps the    *)
(* order of what is there.                                                  *)
LEMMA PutBackKeeps ==
  ASSUME NEW c \in Chunks, c # <<>>, Whole(c), NEW n \in 0..Len(Head(c)), NEW a \in Nat,
         Follows(a, Flat(c))
  PROVE  LET rest == PutBack(Head(c), n, Tail(c)) IN
         /\ rest \in Chunks /\ Whole(rest)
         /\ Flat(rest) \in Seq(Bytes)
         /\ Len(Flat(c)) = n + Len(Flat(rest))
         /\ SubSeq(Head(c), 1, n) \in Seq(Bytes) /\ Len(SubSeq(Head(c), 1, n)) = n
         /\ Follows(a, SubSeq(Head(c), 1, n))
         /\ Follows(a + n, Flat(rest))
<1>1. PICK h, t : h = Head(c) /\ t = Tail(c)
  OBVIOUS
<1>2. /\ h \in Seq(Bytes) /\ t \in Chunks /\ Whole(t)
      /\ Flat(c) = h \o Flat(t) /\ Flat(t) \in Seq(Bytes)
  <2>1. h \in Seq(Bytes) /\ t \in Chunks
    BY <1>1 DEF Chunks, Bytes
  <2>2. Whole(t)
    <3>1. DOMAIN t = 1..(Len(c) - 1) /\ DOMAIN c = 1..Len(c)
      BY <1>1 DEF Chunks
    <3>2. \A i \in 1..(Len(c) - 1) : t[i] = c[i + 1] /\ i + 1 \in 1..Len(c)
      BY <1>1 DEF Chunks
    <3> QED
      BY <3>1, <3>2 DEF Whole
  <2>3. Flat(c) = h \o Flat(t)
    BY <1>1, FlattenHead DEF Chunks, Flat, Bytes
  <2> QED
    BY <2>1, <2>2, <2>3, ChunksFlat
<1>3. PICK x, y : x = SubSeq(h, 1, n) /\ y = SubSeq(h, n + 1, Len(h))
  OBVIOUS
<1>4. /\ x \in Seq(Bytes) /\ Len(x) = n /\ y \in Seq(Bytes) /\ Len(y) = Len(h) - n
      /\ h = x \o y
  BY <1>1, <1>2, <1>3, ChunkSplits
<1>5. /\ Follows(a, x) /\ Follows(a + n, y) /\ Follows(a + Len(h), Flat(t))
      /\ Len(Flat(c)) = Len(h) + Len(Flat(t))
  <2>1. /\ Follows(a, h) /\ Follows(a + Len(h), Flat(t))
        /\ Len(Flat(c)) = Len(h) + Len(Flat(t))
    BY <1>2, FollowsConcat
  <2>2. Follows(a, x) /\ Follows(a + n, y)
    BY <1>4, <2>1, FollowsConcat
  <2> QED
    BY <2>1, <2>2
<1>6. PICK rest : rest = PutBack(h, n, t)
  OBVIOUS
<1>7. CASE n = Len(h)
  <2>1. rest = t
    BY <1>6, <1>7 DEF PutBack
  <2> QED
    BY <1>1, <1>2, <1>3, <1>4, <1>5, <1>6, <1>7, <2>1
<1>8. CASE n # Len(h)
  <2>1. rest = <<y>> \o t
    BY <1>3, <1>6, <1>8 DEF PutBack
  <2>2. <<y>> \in Seq(Seq(Bytes)) /\ Len(<<y>>) = 1 /\ t \in Seq(Seq(Bytes))
    BY <1>2, <1>4 DEF Chunks, Bytes
  <2>3. rest \in Chunks /\ Len(rest) = 1 + Len(t)
    BY <2>1, <2>2, ConcatProperties DEF Chunks, Bytes
  <2>4. Flat(rest) = y \o Flat(t)
    <3>1. FlattenSeq(<<y>>) = y
      BY <1>4, FlattenOne
    <3> QED
      BY <2>1, <2>2, <3>1, FlattenConcat DEF Flat
  <2>5. Whole(rest)
    <3>1. y # <<>>
      BY <1>1, <1>4, <1>8, LenProperties, EmptySeq
    <3>2. DOMAIN rest = 1..(1 + Len(t)) /\ DOMAIN t = 1..Len(t) /\ Len(t) \in Nat
      BY <2>2, <2>3, LenProperties DEF Chunks
    <3>3. rest[1] = y
      BY <2>1, <2>2
    <3>4. ASSUME NEW i \in 1..(1 + Len(t)), i # 1 PROVE rest[i] = t[i - 1] /\ i - 1 \in 1..Len(t)
      BY <2>1, <2>2, <3>2, <3>4
    <3> QED
      BY <1>2, <3>1, <3>2, <3>3, <3>4 DEF Whole
  <2>6. PICK k, m : k = Len(h) /\ m = Len(Flat(t)) /\ k \in Nat /\ m \in Nat
    BY <1>2, LenProperties
  <2>7. n \in 0..k /\ a + n \in Nat /\ Len(y) = k - n /\ (a + n) + Len(y) = a + k
    <3>1. n \in 0..k /\ Len(y) = k - n
      BY <1>1, <1>4, <2>6, Zenon
    <3> QED
      BY <2>6, <3>1
  <2>8. /\ Flat(rest) \in Seq(Bytes) /\ Len(Flat(rest)) = (k - n) + m
        /\ Follows(a + n, Flat(rest))
    <3>1. Follows((a + n) + Len(y), Flat(t))
      BY <1>5, <2>6, <2>7
    <3>2. PICK b \in Nat, z \in Seq(Bytes) : b = a + n /\ z = Flat(t)
      BY <1>2, <2>7
    <3>3. /\ y \o z \in Seq(Bytes) /\ Len(y \o z) = Len(y) + Len(z)
          /\ Follows(b, y \o z) <=> Follows(b, y) /\ Follows(b + Len(y), z)
      BY <1>4, FollowsConcat, Zenon
    <3> QED
      BY <1>5, <2>4, <2>6, <2>7, <3>1, <3>2, <3>3, Zenon
  <2>9. Len(Flat(c)) = n + Len(Flat(rest))
    BY <1>5, <2>6, <2>7, <2>8
  <2> QED
    BY <1>1, <1>3, <1>4, <1>5, <1>6, <2>3, <2>5, <2>8, <2>9
<1> QED
  BY <1>7, <1>8

LEMMA MessageShape ==
  ASSUME NEW m \in Messages
  PROVE  m.chunks \in Chunks /\ m.ok \in BOOLEAN
<1>1. <<>> \in Chunks
  BY FlatEmpty
<1>2. CASE m = Failure
  BY <1>1, <1>2 DEF Failure
<1>3. CASE \E c \in Chunks : m = Data(c)
  BY <1>3 DEF Data
<1> QED
  BY <1>2, <1>3 DEF Messages

(* The data of messages, message by message.                                *)
Bodies(messages) == [i \in DOMAIN messages |-> Flat(messages[i].chunks)]

LEMMA BodiesShape ==
  ASSUME NEW M \in Seq(Messages)
  PROVE  /\ Bodies(M) \in Seq(Seq(Bytes)) /\ Len(Bodies(M)) = Len(M)
         /\ \A i \in 1..Len(M) : Bodies(M)[i] = Flat(M[i].chunks)
         /\ InMessages(M) = FlattenSeq(Bodies(M))
<1>1. DOMAIN M = 1..Len(M) /\ Len(M) \in Nat
  OBVIOUS
<1>2. \A i \in 1..Len(M) : Flat(M[i].chunks) \in Seq(Bytes)
  BY <1>1, MessageShape, ChunksFlat
<1>3. Bodies(M) \in [1..Len(M) -> Seq(Bytes)]
  BY <1>1, <1>2 DEF Bodies
<1>4. Bodies(M) \in Seq(Seq(Bytes)) /\ Len(Bodies(M)) = Len(M)
  BY <1>1, <1>3
<1> QED
  BY <1>1, <1>3, <1>4 DEF Bodies, InMessages, Flat

LEMMA MessagesType ==
  ASSUME NEW M \in Seq(Messages)
  PROVE  InMessages(M) \in Seq(Bytes)
BY BodiesShape, FlattenAppend, EmptySeq

LEMMA MessagesEmpty == InMessages(<<>>) = <<>>
<1>1. <<>> \in Seq(Messages)
  OBVIOUS
<1>2. Bodies(<<>>) \in Seq(Seq(Bytes)) /\ Len(Bodies(<<>>)) = 0
  BY <1>1, BodiesShape
<1>3. Bodies(<<>>) = <<>>
  BY <1>2, EmptySeq
<1> QED
  BY <1>1, <1>3, BodiesShape, FlattenEmpty

LEMMA MessagesOne ==
  ASSUME NEW m \in Messages
  PROVE  InMessages(<<m>>) = Flat(m.chunks)
<1>1. <<m>> \in Seq(Messages) /\ Len(<<m>>) = 1 /\ <<m>>[1] = m
  OBVIOUS
<1>2. PICK b : b = Bodies(<<m>>) /\ b \in Seq(Seq(Bytes)) /\ Len(b) = 1 /\ b[1] = Flat(m.chunks)
  <2>1. /\ Bodies(<<m>>) \in Seq(Seq(Bytes)) /\ Len(Bodies(<<m>>)) = 1
        /\ \A i \in 1..1 : Bodies(<<m>>)[i] = Flat(<<m>>[i].chunks)
    BY <1>1, BodiesShape
  <2>2. Bodies(<<m>>)[1] = Flat(m.chunks)
    BY <2>1
  <2> QED
    BY <2>1, <2>2, Zenon
<1>3. b = <<b[1]>> /\ b[1] \in Seq(Bytes)
  BY <1>2
<1>4. FlattenSeq(b) = b[1]
  BY <1>3, FlattenOne
<1> QED
  BY <1>1, <1>2, <1>4, BodiesShape

LEMMA MessagesConcat ==
  ASSUME NEW M \in Seq(Messages), NEW N \in Seq(Messages)
  PROVE  M \o N \in Seq(Messages) /\ InMessages(M \o N) = InMessages(M) \o InMessages(N)
<1>1. PICK k, m, n : /\ k = M \o N /\ m = Len(M) /\ n = Len(N)
                     /\ m \in Nat /\ n \in Nat
  BY LenProperties
<1>2. /\ k \in Seq(Messages) /\ Len(k) = m + n
      /\ \A i \in 1..(m + n) : k[i] = IF i <= m THEN M[i] ELSE N[i - m]
  BY <1>1, ConcatProperties
<1>3. PICK a, b, c : a = Bodies(M) /\ b = Bodies(N) /\ c = Bodies(k)
  OBVIOUS
<1>4. /\ a \in Seq(Seq(Bytes)) /\ Len(a) = m /\ \A i \in 1..m : a[i] = Flat(M[i].chunks)
      /\ b \in Seq(Seq(Bytes)) /\ Len(b) = n /\ \A i \in 1..n : b[i] = Flat(N[i].chunks)
      /\ c \in Seq(Seq(Bytes)) /\ Len(c) = m + n
      /\ \A i \in 1..(m + n) : c[i] = Flat(k[i].chunks)
  <2>1. /\ Bodies(M) \in Seq(Seq(Bytes)) /\ Len(Bodies(M)) = m
        /\ \A i \in 1..m : Bodies(M)[i] = Flat(M[i].chunks)
    BY <1>1, BodiesShape
  <2>2. /\ Bodies(N) \in Seq(Seq(Bytes)) /\ Len(Bodies(N)) = n
        /\ \A i \in 1..n : Bodies(N)[i] = Flat(N[i].chunks)
    BY <1>1, BodiesShape
  <2>3. /\ Bodies(k) \in Seq(Seq(Bytes)) /\ Len(Bodies(k)) = m + n
        /\ \A i \in 1..(m + n) : Bodies(k)[i] = Flat(k[i].chunks)
    BY <1>2, BodiesShape
  <2> QED
    BY <1>3, <2>1, <2>2, <2>3, Zenon
<1>5. /\ a \o b \in Seq(Seq(Bytes)) /\ Len(a \o b) = m + n
      /\ \A i \in 1..(m + n) : (a \o b)[i] = IF i <= m THEN a[i] ELSE b[i - m]
  BY <1>4, ConcatProperties
<1>6. ASSUME NEW i \in 1..(m + n) PROVE c[i] = (a \o b)[i]
  <2>1. CASE i <= m
    BY <1>1, <1>2, <1>4, <1>5, <2>1
  <2>2. CASE ~(i <= m)
    <3>1. i - m \in 1..n
      BY <1>1, <2>2
    <3>2. c[i] = Flat(k[i].chunks) /\ k[i] = N[i - m] /\ (a \o b)[i] = b[i - m]
      BY <1>2, <1>4, <1>5, <2>2, Zenon
    <3>3. b[i - m] = Flat(N[i - m].chunks)
      BY <1>4, <3>1, Zenon
    <3> QED
      BY <3>2, <3>3, Zenon
  <2> QED
    BY <2>1, <2>2
<1>7. c = a \o b
  <2>1. PICK d : d = a \o b
    OBVIOUS
  <2>2. d \in Seq(Seq(Bytes)) /\ Len(c) = Len(d) /\ \A i \in 1..Len(c) : c[i] = d[i]
    BY <1>4, <1>5, <1>6, <2>1, Zenon
  <2> QED
    BY <1>4, <2>1, <2>2, SeqEqual
<1>8. FlattenSeq(c) = FlattenSeq(a) \o FlattenSeq(b)
  BY <1>4, <1>7, FlattenConcat
<1>9. InMessages(M) = FlattenSeq(a) /\ InMessages(N) = FlattenSeq(b) /\ InMessages(k) = FlattenSeq(c)
  BY <1>2, <1>3, BodiesShape
<1> QED
  BY <1>1, <1>2, <1>8, <1>9

LEMMA MessagesHead ==
  ASSUME NEW M \in Seq(Messages), M # <<>>
  PROVE  /\ Head(M) \in Messages /\ Tail(M) \in Seq(Messages)
         /\ InMessages(M) = Flat(Head(M).chunks) \o InMessages(Tail(M))
<1>1. PICK h, t : h = Head(M) /\ t = Tail(M)
  OBVIOUS
<1>2. h \in Messages /\ t \in Seq(Messages) /\ <<h>> \in Seq(Messages) /\ M = <<h>> \o t
  BY <1>1
<1>3. InMessages(M) = InMessages(<<h>>) \o InMessages(t)
  BY <1>2, MessagesConcat
<1> QED
  BY <1>1, <1>2, <1>3, MessagesOne

-----------------------------------------------------------------------------
(* Bytes move from one place to the next.                                   *)
LEMMA TotalIsNat ==
  ASSUME NEW c \in Seq(Bytes), NEW p \in Seq(Bytes), NEW m \in Seq(Bytes),
         NEW o \in Seq(Bytes), NEW b \in Seq(Bytes)
  PROVE  Total(c, p, m, o, b) \in Nat
BY LenProperties DEF Total

(* One sequence is the concatenation of two others.                         *)
Glued(y, b, x) == y = b \o x

LEMMA GluedFollows ==
  ASSUME NEW b \in Seq(Bytes), NEW x \in Seq(Bytes), NEW y, Glued(y, b, x)
  PROVE  /\ y \in Seq(Bytes) /\ Len(y) = Len(b) + Len(x)
         /\ \A k \in Nat : Follows(k, y) <=> Follows(k, b) /\ Follows(k + Len(b), x)
BY FollowsConcat DEF Glued

(* A frame goes into the batch, and the batch may become the message.       *)
LEMMA SpansFrame ==
  ASSUME NEW c \in Seq(Bytes), NEW p \in Seq(Bytes), NEW m \in Seq(Bytes),
         NEW b \in Seq(Bytes), NEW x \in Seq(Bytes), NEW a \in Nat, NEW k,
         NEW y \in Seq(Bytes), Glued(y, b, x), NEW n, n = Len(x),
         Spans(k, a, c, p, m, <<>>, b), Follows(k, x)
  PROVE  Spans(k + n, a, c, p, m, <<>>, y) /\ Spans(k + n, a, c, p, m, y, <<>>)
<1>1. Len(<<>>) = 0 /\ Len(y) = Len(b) + n /\ n \in Nat
  BY EmptySeq, LenProperties, GluedFollows
<1>2. PICK i \in Nat : i = a + Len(c) + Len(p) + Len(m)
  BY LenProperties
<1>3. /\ i + Len(<<>>) = i /\ i + Len(b) = k
      /\ Follows(a, c) /\ Follows(a + Len(c), p) /\ Follows(a + Len(c) + Len(p), m)
      /\ Follows(i, b)
  BY <1>1, <1>2, LenProperties DEF Spans, Laid, Total
<1>4. Follows(i, y)
  BY <1>2, <1>3, GluedFollows
<1>5. Laid(a, c, p, m, <<>>, y) /\ Laid(a, c, p, m, y, <<>>)
  BY <1>2, <1>3, <1>4, FollowsEmpty DEF Laid
<1>6. a + Total(c, p, m, <<>>, y) = k + n /\ a + Total(c, p, m, y, <<>>) = k + n
  BY <1>1, <1>2, <1>3, LenProperties DEF Total
<1> QED
  BY <1>5, <1>6 DEF Spans

(* The batch becomes the message to send as it is.                          *)
LEMMA SpansBatch ==
  ASSUME NEW c \in Seq(Bytes), NEW p \in Seq(Bytes), NEW m \in Seq(Bytes),
         NEW b \in Seq(Bytes), NEW a \in Nat, NEW k, Spans(k, a, c, p, m, <<>>, b)
  PROVE  Spans(k, a, c, p, m, b, <<>>)
<1>1. Len(<<>>) = 0
  BY EmptySeq
<1>2. a + Len(c) + Len(p) + Len(m) + Len(<<>>) = a + Len(c) + Len(p) + Len(m)
  BY <1>1, LenProperties
<1> QED
  BY <1>1, <1>2, FollowsEmpty, LenProperties DEF Spans, Laid, Total

(* A frame goes into the pending chunks, before there is a reader.          *)
LEMMA SpansAhead ==
  ASSUME NEW p \in Seq(Bytes), NEW x \in Seq(Bytes), NEW a \in Nat, NEW k,
         NEW q \in Seq(Bytes), Glued(q, p, x), NEW n, n = Len(x),
         Spans(k, a, <<>>, p, <<>>, <<>>, <<>>), Follows(k, x)
  PROVE  Spans(k + n, a, <<>>, q, <<>>, <<>>, <<>>)
<1>1. Len(<<>>) = 0 /\ Len(q) = Len(p) + n /\ n \in Nat /\ a + Len(<<>>) = a
  BY EmptySeq, LenProperties, GluedFollows
<1>2. Follows(a, p) /\ a + Len(p) = k
  BY <1>1, LenProperties DEF Spans, Laid, Total
<1>3. Follows(a, q)
  BY <1>2, GluedFollows
<1>4. Laid(a, <<>>, q, <<>>, <<>>, <<>>)
  BY <1>1, <1>3, FollowsEmpty, Zenon DEF Laid
<1>5. a + Total(<<>>, q, <<>>, <<>>, <<>>) = k + n
  BY <1>1, <1>2, LenProperties DEF Total
<1> QED
  BY <1>4, <1>5 DEF Spans

(* The message goes into the channel.                                       *)
LEMMA SpansSends ==
  ASSUME NEW c \in Seq(Bytes), NEW p \in Seq(Bytes), NEW m \in Seq(Bytes),
         NEW o \in Seq(Bytes), NEW b \in Seq(Bytes), NEW a \in Nat, NEW k,
         NEW y \in Seq(Bytes), Glued(y, m, o), Spans(k, a, c, p, m, o, b)
  PROVE  Spans(k, a, c, p, y, <<>>, b)
<1>1. PICK i \in Nat : i = a + Len(c) + Len(p)
  BY LenProperties
<1>2. /\ Follows(a, c) /\ Follows(a + Len(c), p)
      /\ Follows(i, m) /\ Follows(i + Len(m), o) /\ Follows(i + Len(m) + Len(o), b)
  BY <1>1 DEF Spans, Laid
<1>3. Follows(i, y) /\ Len(y) = Len(m) + Len(o)
  BY <1>2, GluedFollows
<1>4. i + Len(y) + Len(<<>>) = i + Len(m) + Len(o)
  BY <1>3, EmptySeq, LenProperties
<1>5. Follows(i + Len(y), <<>>) /\ Follows(i + Len(y) + Len(<<>>), b)
  BY <1>2, <1>4, FollowsEmpty, Zenon
<1>6. Laid(a, c, p, y, <<>>, b)
  BY <1>1, <1>2, <1>3, <1>5 DEF Laid
<1>7. Total(c, p, y, <<>>, b) = Total(c, p, m, o, b)
  BY <1>3, EmptySeq, LenProperties DEF Total
<1> QED
  BY <1>6, <1>7 DEF Spans

(* The reader gives up what it holds.                                       *)
LEMMA SpansStops ==
  ASSUME NEW c \in Seq(Bytes), NEW p \in Seq(Bytes), NEW m \in Seq(Bytes),
         NEW o \in Seq(Bytes), NEW b \in Seq(Bytes), NEW a \in Nat, NEW k,
         Spans(k, a, c, p, m, o, b)
  PROVE  \E j \in Nat : j <= k /\ Spans(j, a, c, p, m, <<>>, <<>>)
<1>1. Laid(a, c, p, m, <<>>, <<>>)
  BY FollowsEmpty DEF Spans, Laid
<1>2. PICK j : j = a + Total(c, p, m, <<>>, <<>>)
  OBVIOUS
<1>3. j \in Nat /\ j <= k
  BY <1>2, EmptySeq, LenProperties DEF Spans, Total
<1> QED
  BY <1>1, <1>2, <1>3 DEF Spans

(* The first message becomes the pending chunks.                            *)
LEMMA SpansReceives ==
  ASSUME NEW c \in Seq(Bytes), NEW h \in Seq(Bytes), NEW m \in Seq(Bytes),
         NEW o \in Seq(Bytes), NEW b \in Seq(Bytes), NEW a \in Nat, NEW k,
         NEW y \in Seq(Bytes), Glued(y, h, m), Spans(k, a, c, <<>>, y, o, b)
  PROVE  Spans(k, a, c, h, m, o, b)
<1>1. PICK i \in Nat : i = a + Len(c)
  BY LenProperties
<1>2. Len(y) = Len(h) + Len(m) /\ Len(<<>>) = 0 /\ Len(h) \in Nat /\ Len(m) \in Nat
  BY GluedFollows, EmptySeq, LenProperties
<1>3. i + Len(<<>>) = i /\ i + Len(<<>>) + Len(y) = i + Len(h) + Len(m)
  BY <1>2
<1>4. /\ Follows(a, c) /\ Follows(i, y) /\ Follows(i + Len(h) + Len(m), o)
      /\ Follows(i + Len(h) + Len(m) + Len(o), b)
  BY <1>1, <1>3, Zenon DEF Spans, Laid
<1>5. Follows(i, h) /\ Follows(i + Len(h), m)
  BY <1>4, GluedFollows
<1>6. Laid(a, c, h, m, o, b)
  BY <1>1, <1>4, <1>5, Zenon DEF Laid
<1>7. Total(c, h, m, o, b) = Total(c, <<>>, y, o, b)
  BY <1>2, LenProperties DEF Total
<1> QED
  BY <1>6, <1>7 DEF Spans

(* A call takes the front of the pending chunks.                            *)
LEMMA SpansTakes ==
  ASSUME NEW c \in Seq(Bytes), NEW p \in Seq(Bytes), NEW m \in Seq(Bytes),
         NEW o \in Seq(Bytes), NEW b \in Seq(Bytes), NEW a \in Nat, NEW k,
         NEW x \in Seq(Bytes), NEW q \in Seq(Bytes), NEW y \in Seq(Bytes), Glued(y, c, x),
         Spans(k, a, c, p, m, o, b), Follows(a + Len(c), x), Follows(a + Len(c) + Len(x), q),
         Len(p) = Len(x) + Len(q)
  PROVE  Spans(k, a, y, q, m, o, b)
<1>1. Follows(a, y) /\ Len(y) = Len(c) + Len(x)
  BY GluedFollows DEF Spans, Laid
<1>2. a + Len(y) = a + Len(c) + Len(x) /\ a + Len(y) + Len(q) = a + Len(c) + Len(p)
  BY <1>1, LenProperties
<1>3. Laid(a, y, q, m, o, b)
  BY <1>1, <1>2, Zenon DEF Spans, Laid
<1>4. Total(y, q, m, o, b) = Total(c, p, m, o, b)
  BY <1>1, LenProperties DEF Total
<1> QED
  BY <1>3, <1>4 DEF Spans

(* A call ends.                                                             *)
LEMMA SpansReturns ==
  ASSUME NEW c \in Seq(Bytes), NEW p \in Seq(Bytes), NEW m \in Seq(Bytes),
         NEW o \in Seq(Bytes), NEW b \in Seq(Bytes), NEW a \in Nat, NEW k,
         Spans(k, a, c, p, m, o, b)
  PROVE  Spans(k, a + Len(c), <<>>, p, m, o, b) /\ Follows(a, c) /\ a + Len(c) <= k
<1>1. Len(<<>>) = 0 /\ Len(c) \in Nat /\ (a + Len(c)) + Len(<<>>) = a + Len(c)
  BY EmptySeq, LenProperties
<1>2. Laid(a + Len(c), <<>>, p, m, o, b)
  BY <1>1, FollowsEmpty, Zenon DEF Spans, Laid
<1>3. (a + Len(c)) + Total(<<>>, p, m, o, b) = k /\ a + Len(c) <= k
  BY <1>1, LenProperties DEF Spans, Total
<1> QED
  BY <1>2, <1>3 DEF Spans, Laid
-----------------------------------------------------------------------------
(* The invariant.                                                           *)
LEMMA PipelineInit == Init => PipelineInv
<1> SUFFICES ASSUME Init PROVE PipelineInv
  OBVIOUS
<1> USE DEF Init
<1>1. BodyLen \in Nat /\ <<>> \in Seq(Bytes) /\ DOMAIN <<>> = {} /\ Len(<<>>) = 0
  BY SizesAssumption, EmptySeq
<1>2. Shapes
  <2>1. /\ arrived \in 0..BodyLen /\ taken \in 0..arrived /\ readBytes \in 0..taken
        /\ Len(outbox) <= 1 /\ Len(channel) <= ChannelSize
    BY <1>1 DEF ChannelSize
  <2>2. pending \in Chunks /\ Whole(pending) /\ buffer \in Chunks /\ Whole(buffer)
    BY FlatEmpty
  <2>3. \A S : <<>> \in Seq(S)
    OBVIOUS
  <2>4. call \in [Tasks -> Calls \cup {Idle}] /\ got \in [Tasks -> Seq(Bytes)]
    BY <1>1
  <2> QED
    BY <2>1, <2>2, <2>3, <2>4 DEF Shapes
<1>3. ReaderInv /\ LockInv
  BY <1>1 DEF ReaderInv, LockInv, InCalls
<1>4. Placed
  BY <1>1, FlatEmpty, MessagesEmpty, FollowsEmpty DEF Placed, Spans, Laid, Total, Collected
<1>5. OutInv
  BY <1>1 DEF OutInv, ReadsInOrder
<1> QED
  BY <1>2, <1>3, <1>4, <1>5 DEF PipelineInv

LEMMA Places ==
  ASSUME PipelineInv
  PROVE  /\ channel \in Seq(Messages) /\ outbox \in Seq(Messages)
         /\ Collected \in Seq(Bytes) /\ Flat(pending) \in Seq(Bytes)
         /\ InMessages(channel) \in Seq(Bytes) /\ InMessages(outbox) \in Seq(Bytes)
         /\ Flat(buffer) \in Seq(Bytes)
         /\ \A t \in Tasks : Owns(t) => Collected = got[t]
         /\ (\A t \in Tasks : ~Owns(t)) => Collected = <<>>
         /\ arrived \in Nat /\ taken \in Nat /\ readBytes \in Nat /\ BodyLen \in Nat
<1> USE DEF PipelineInv, Shapes
<1>1. Sendable(world) \subseteq Messages
  BY DEF Sendable
<1>2. channel \in Seq(Messages) /\ outbox \in Seq(Messages)
  <2>1. \A s \in Seq(Sendable(world)) : s \in Seq(Messages)
    BY <1>1
  <2> QED
    BY <2>1
<1>3. /\ \A t \in Tasks : Owns(t) => Collected = got[t]
      /\ (\A t \in Tasks : ~Owns(t)) => Collected = <<>>
  BY DEF Collected, Owns
<1>4. Collected \in Seq(Bytes)
  BY <1>3, EmptySeq
<1>5. arrived \in Nat /\ taken \in Nat /\ readBytes \in Nat /\ BodyLen \in Nat
  BY SizesAssumption
<1> QED
  BY <1>2, <1>3, <1>4, <1>5, ChunksFlat, MessagesType

(* The numbers among them. *)
LEMMA Counts ==
  ASSUME PipelineInv
  PROVE  /\ arrived \in Nat /\ taken \in Nat /\ readBytes \in Nat /\ BodyLen \in Nat
         /\ arrived <= BodyLen /\ taken <= arrived
BY SizesAssumption DEF PipelineInv, Shapes

LEMMA NobodyRuns ==
  ASSUME PipelineInv, \A t \in Tasks : Owns(t) => t \notin running
  PROVE  /\ running = {} /\ Collected = <<>>
         /\ \A t \in Tasks : got[t] = <<>>
<1>1. running = {} /\ \A t \in Tasks : got[t] = <<>>
  BY DEF PipelineInv, Shapes, LockInv
<1> QED
  BY <1>1, Places DEF Collected

LEMMA RemoveAtKeeps ==
  ASSUME NEW S, NEW s \in Seq(S), NEW i \in 1..Len(s)
  PROVE  /\ RemoveAt(s, i) \in Seq(S)
         /\ i # 1 => RemoveAt(s, i) # <<>> /\ Head(RemoveAt(s, i)) = Head(s)
         /\ \A j \in 1..Len(RemoveAt(s, i)) :
              LET k == IF j < i THEN j ELSE j + 1
              IN k \in 1..Len(s) /\ RemoveAt(s, i)[j] = s[k]
<1>1. PICK u, v : u = SubSeq(s, 1, i - 1) /\ v = SubSeq(s, i + 1, Len(s))
  OBVIOUS
<1>2. u \in Seq(S) /\ v \in Seq(S) /\ Len(u) = i - 1 /\ \A j \in 1..(i - 1) : u[j] = s[j]
  BY <1>1
<1>3. RemoveAt(s, i) = u \o v
  BY <1>1 DEF RemoveAt
<1>4. u \o v \in Seq(S) /\ Len(u \o v) = Len(u) + Len(v)
  BY <1>2, ConcatProperties
<1>5. ASSUME i # 1 PROVE u \o v # <<>> /\ Head(u \o v) = Head(s)
  <2>1. Len(u) >= 1 /\ u[1] = s[1] /\ Len(v) \in Nat /\ s # <<>>
    BY <1>2, <1>5
  <2>2. (u \o v)[1] = u[1]
    BY <1>2, <2>1
  <2>3. Len(u \o v) # 0
    BY <1>2, <1>4, <2>1
  <2> QED
    BY <1>4, <2>1, <2>2, <2>3, EmptySeq
<1>6. ASSUME NEW j \in 1..Len(u \o v)
      PROVE  LET k == IF j < i THEN j ELSE j + 1
             IN k \in 1..Len(s) /\ (u \o v)[j] = s[k]
  <2>1. Len(v) = Len(s) - i /\ \A l \in 1..(Len(s) - i) : v[l] = s[i + l]
    BY <1>1
  <2>2. CASE j < i
    BY <1>2, <1>4, <2>1, <2>2
  <2>3. CASE ~(j < i)
    <3>1. j - (i - 1) \in 1..(Len(s) - i) /\ i + (j - (i - 1)) = j + 1
      BY <1>2, <1>4, <2>1, <2>3
    <3>2. (u \o v)[j] = v[j - (i - 1)]
      BY <1>2, <1>4, <2>3
    <3>3. v[j - (i - 1)] = s[j + 1]
      BY <2>1, <3>1
    <3>4. j + 1 \in 1..Len(s)
      BY <2>1, <2>3, <3>1
    <3> QED
      BY <2>3, <3>2, <3>3, <3>4
  <2> QED
    BY <2>2, <2>3
<1> QED
  BY <1>3, <1>4, <1>5, <1>6

(* How the queue changes.                                                   *)
LEMMA InCallsChanges ==
  ASSUME NEW q \in Seq(Tasks \cup {Exit}), NEW c \in [Tasks -> Calls \cup {Idle}],
         InCalls(q, c)
  PROVE  /\ \A t \in Tasks : \A k \in Calls :
              c[t] = Idle => InCalls(Append(q, t), [c EXCEPT ![t] = k])
         /\ InCalls(Append(q, Exit), c)
         /\ q # <<>> => InCalls(Tail(q), [c EXCEPT ![Head(q)] = Idle])
         /\ q # <<>> => InCalls(Tail(q), c)
         /\ \A i \in 1..Len(q) : InCalls(RemoveAt(q, i), c)
<1>1. \A i \in 1..Len(q) : q[i] \in Tasks \cup {Exit}
  OBVIOUS
<1>2. \A k \in Calls : k # Idle
  BY DEF Calls, Idle
<1>3. ASSUME NEW t \in Tasks, NEW k \in Calls, c[t] = Idle
      PROVE  InCalls(Append(q, t), [c EXCEPT ![t] = k])
  <2>1. PICK r, d : r = Append(q, t) /\ d = [c EXCEPT ![t] = k]
    OBVIOUS
  <2>2. /\ Len(r) = Len(q) + 1 /\ r[Len(q) + 1] = t
        /\ \A i \in 1..Len(q) : r[i] = q[i] /\ q[i] # t
    BY <1>3, <2>1, TasksAssumption DEF InCalls
  <2>3. d[t] = k /\ \A u \in Tasks : u # t => d[u] = c[u]
    BY <2>1
  <2>4. ASSUME NEW i \in 1..(Len(q) + 1), r[i] # Exit PROVE d[r[i]] # Idle
    BY <1>1, <1>2, <2>2, <2>3, <2>4 DEF InCalls
  <2>5. ASSUME NEW i \in 1..(Len(q) + 1), NEW j \in 1..(Len(q) + 1), r[i] = r[j], r[i] # Exit
        PROVE  i = j
    BY <1>1, <2>2, <2>5 DEF InCalls
  <2> QED
    BY <2>1, <2>2, <2>4, <2>5 DEF InCalls
<1>4. InCalls(Append(q, Exit), c)
  <2>1. PICK r : r = Append(q, Exit)
    OBVIOUS
  <2>2. Len(r) = Len(q) + 1 /\ r[Len(q) + 1] = Exit /\ \A i \in 1..Len(q) : r[i] = q[i]
    BY <2>1
  <2> QED
    BY <2>1, <2>2 DEF InCalls
<1>5. ASSUME q # <<>>
      PROVE  InCalls(Tail(q), [c EXCEPT ![Head(q)] = Idle]) /\ InCalls(Tail(q), c)
  <2>1. PICK r, h, d : r = Tail(q) /\ h = Head(q) /\ d = [c EXCEPT ![h] = Idle]
    OBVIOUS
  <2>2. /\ Len(r) = Len(q) - 1 /\ h = q[1] /\ 1 \in 1..Len(q)
        /\ \A i \in 1..(Len(q) - 1) : r[i] = q[i + 1] /\ i + 1 \in 1..Len(q) /\ i + 1 # 1
    BY <1>5, <2>1
  <2>3. \A u \in Tasks : u # h => d[u] = c[u]
    BY <2>1
  <2>4. ASSUME NEW i \in 1..(Len(q) - 1), r[i] # Exit
        PROVE  c[r[i]] # Idle /\ r[i] \in Tasks /\ r[i] # h
    BY <1>1, <2>2, <2>4 DEF InCalls
  <2>5. ASSUME NEW i \in 1..(Len(q) - 1), NEW j \in 1..(Len(q) - 1), r[i] = r[j], r[i] # Exit
        PROVE  i = j
    <3>1. i + 1 = j + 1
      BY <2>2, <2>5 DEF InCalls
    <3> QED
      BY <3>1
  <2> QED
    BY <2>1, <2>2, <2>3, <2>4, <2>5 DEF InCalls
<1>6. ASSUME NEW i \in 1..Len(q) PROVE InCalls(RemoveAt(q, i), c)
  <2>1. PICK r : r = RemoveAt(q, i)
    OBVIOUS
  <2>2. \A j \in 1..Len(r) :
          LET k == IF j < i THEN j ELSE j + 1
          IN k \in 1..Len(q) /\ r[j] = q[k]
    BY <2>1, RemoveAtKeeps
  <2>3. ASSUME NEW j \in 1..Len(r), r[j] # Exit PROVE c[r[j]] # Idle
    BY <2>2, <2>3 DEF InCalls
  <2>4. ASSUME NEW j \in 1..Len(r), NEW l \in 1..Len(r), r[j] = r[l], r[j] # Exit
        PROVE  j = l
    <3>1. PICK k \in 1..Len(q) : k = (IF j < i THEN j ELSE j + 1) /\ r[j] = q[k]
      BY <2>2
    <3>2. PICK m \in 1..Len(q) : m = (IF l < i THEN l ELSE l + 1) /\ r[l] = q[m]
      BY <2>2
    <3>3. k = m
      BY <2>4, <3>1, <3>2, Zenon DEF InCalls
    <3> QED
      BY <3>1, <3>2, <3>3
  <2> QED
    BY <2>1, <2>3, <2>4 DEF InCalls
<1> QED
  BY <1>3, <1>4, <1>5, <1>6

(* What holds when a step changes only who gets at the reader.              *)
LEMMA AccessKeeps ==
  ASSUME PipelineInv,
         UNCHANGED <<setup, arrived, phase, readerVars, channel, rxAlive, dataVars>>,
         token' \in BOOLEAN, token => token', token' => rstate # "none",
         handle' \in BOOLEAN, borrower' \subseteq Tasks, running' \subseteq Tasks,
         cancelled' \subseteq Tasks, lockQ' \in Seq(Tasks \cup {Exit}),
         call' \in [Tasks -> Calls \cup {Idle}],
         exit' \in {"open", "locking", "closed", "busy", "cancelled"},
         Collected' = Collected, LockInv'
  PROVE  PipelineInv'
<1> USE DEF PipelineInv, setup, readerVars, dataVars
<1>1. Shapes'
  BY DEF Shapes
<1>2. ReaderInv'
  BY DEF ReaderInv
<1>3. Placed'
  BY DEF Placed
<1>4. OutInv'
  BY DEF OutInv, ReadsInOrder
<1> QED
  BY <1>1, <1>2, <1>3, <1>4

(* Getting in line for the reader.                                          *)
LEMMA InLine ==
  ASSUME PipelineInv, NEW x \in Tasks \cup {Exit}, lockQ' = Append(lockQ, x),
         UNCHANGED <<got, running>>
  PROVE  /\ lockQ' \in Seq(Tasks \cup {Exit}) /\ lockQ' # <<>>
         /\ Collected' = Collected
         /\ \A t \in running : Owns(t)'
<1>1. lockQ \in Seq(Tasks \cup {Exit})
  BY DEF PipelineInv, Shapes
<1>2. /\ lockQ' \in Seq(Tasks \cup {Exit}) /\ lockQ' # <<>>
      /\ lockQ # <<>> => Head(lockQ') = Head(lockQ)
  BY <1>1
<1>3. CASE lockQ # <<>>
  BY <1>2, <1>3 DEF Collected, Owns, PipelineInv, LockInv
<1>4. CASE lockQ = <<>>
  <2>1. running = {} /\ Collected = <<>> /\ \A t \in Tasks : got[t] = <<>>
    BY <1>4, NobodyRuns DEF Owns
  <2> QED
    BY <1>2, <2>1 DEF Collected
<1> QED
  BY <1>2, <1>3, <1>4

LEMMA TakeHandlePreserves == PipelineInv /\ TakeHandle => PipelineInv'
<1> SUFFICES ASSUME PipelineInv, TakeHandle PROVE PipelineInv'
  OBVIOUS
<1> USE DEF TakeHandle, setup, readerVars, dataVars
<1>1. Collected' = Collected
  BY DEF Collected
<1>2. LockInv'
  BY DEF PipelineInv, LockInv, Owns
<1>3. token' => rstate # "none"
  BY DEF PipelineInv, ReaderInv, Shapes
<1> QED
  BY <1>1, <1>2, <1>3, AccessKeeps DEF PipelineInv, Shapes

LEMMA StartCallPreserves ==
  ASSUME PipelineInv, NEW t \in Tasks, NEW c \in Calls, StartCall(t, c),
         \/ borrower = {} /\ borrower' = {t}
         \/ handle /\ borrower' = borrower
  PROVE  PipelineInv'
<1> USE DEF StartCall, setup, readerVars, dataVars
<1>1. /\ lockQ' \in Seq(Tasks \cup {Exit}) /\ lockQ' # <<>>
      /\ Collected' = Collected
      /\ \A r \in running : Owns(r)'
  BY InLine
<1>2. call \in [Tasks -> Calls \cup {Idle}] /\ call' \in [Tasks -> Calls \cup {Idle}]
  BY DEF PipelineInv, Shapes
<1>3. LockInv'
  <2>1. t \notin running
    <3>1. lockQ # <<>> => Head(lockQ) = lockQ[1] /\ 1 \in 1..Len(lockQ)
      BY DEF PipelineInv, Shapes
    <3> QED
      BY <3>1, TasksAssumption DEF PipelineInv, LockInv, InCalls, Owns
  <2>2. \A r \in running : call'[r] = call[r]
    BY <1>2, <2>1 DEF PipelineInv, Shapes
  <2>3. ~handle => lockQ' = <<t>> /\ borrower' = {t}
    <3>1. ASSUME ~handle PROVE lockQ = <<>>
      BY <3>1 DEF PipelineInv, LockInv
    <3> QED
      BY <3>1
  <2>4. /\ \A r \in Tasks : got'[r] # <<>> => r \in running'
        /\ \A r \in running' :
             /\ call'[r].op = "chunk" => got'[r] = <<>>
             /\ call'[r].op = "read" => Len(got'[r]) < call'[r].amount
    BY <2>2 DEF PipelineInv, LockInv
  <2>5. InCalls(lockQ', call')
    BY <1>2, InCallsChanges DEF PipelineInv, Shapes, LockInv
  <2> QED
    BY <1>1, <2>3, <2>4, <2>5 DEF LockInv
<1>4. token' => rstate # "none"
  BY DEF PipelineInv, ReaderInv, Shapes
<1>5. borrower' \subseteq Tasks
  BY DEF PipelineInv, Shapes
<1> QED
  BY <1>1, <1>2, <1>3, <1>4, <1>5, AccessKeeps DEF PipelineInv, Shapes

LEMMA CancelPreserves ==
  ASSUME PipelineInv, NEW t \in Tasks, Cancel(t)
  PROVE  PipelineInv'
<1> USE DEF Cancel, setup, readerVars, dataVars
<1>1. Collected' = Collected
  BY DEF Collected
<1>2. LockInv'
  BY DEF PipelineInv, LockInv, Owns
<1>3. token' => rstate # "none"
  BY DEF PipelineInv, ReaderInv, Shapes
<1> QED
  BY <1>1, <1>2, <1>3, AccessKeeps DEF PipelineInv, Shapes

LEMMA BeginPreserves ==
  ASSUME PipelineInv, NEW t \in Tasks, Begin(t)
  PROVE  PipelineInv'
<1> USE DEF Begin, setup, readerVars, dataVars
<1>1. Collected' = Collected
  BY DEF Collected
<1>2. LockInv'
  <2>1. running' = {t} /\ \A r \in Tasks : got[r] = <<>>
    <3>1. \A r \in Tasks : Owns(r) => r = t
      BY DEF Owns
    <3> QED
      BY <3>1, NobodyRuns
  <2>2. \A r \in running' :
          /\ call[r].op = "chunk" => got[r] = <<>>
          /\ call[r].op = "read" => Len(got[r]) < call[r].amount
    <3>1. call[t].op = "read" => call[t].amount \in Nat \ {0}
      <4>1. call[t] \in Calls \cup {Idle}
        BY DEF PipelineInv, Shapes
      <4> QED
        <5>1. ASSUME call[t].op = "read" PROVE call[t].amount \in Amounts
          BY <4>1, <5>1 DEF Calls, Idle
        <5>2. ASSUME call[t].op = "read" PROVE call[t].amount # 0
          BY <5>2 DEF NeedsNoData
        <5> QED
          BY <5>1, <5>2, SizesAssumption
    <3>2. Len(got[t]) = 0
      BY <2>1, EmptySeq
    <3> QED
      BY <2>1, <3>1, <3>2
  <2> QED
    BY <2>1, <2>2 DEF PipelineInv, LockInv, Owns
<1>3. token' => rstate # "none"
  BY DEF PipelineInv, ReaderInv, Shapes
<1> QED
  BY <1>1, <1>2, <1>3, AccessKeeps DEF PipelineInv, Shapes

(* A call that returns gives the mutex to the next in line, who has read    *)
(* nothing yet.                                                             *)
LEMMA ReturnGivesMutex ==
  ASSUME PipelineInv, NEW t \in Tasks, Owns(t), Return(t), phase' = phase,
         \A r \in Tasks : got'[r] = <<>>
  PROVE  /\ LockInv' /\ Collected' = <<>>
         /\ lockQ' \in Seq(Tasks \cup {Exit}) /\ call' \in [Tasks -> Calls \cup {Idle}]
         /\ handle' \in BOOLEAN /\ borrower' \subseteq Tasks /\ running' \subseteq Tasks
         /\ cancelled' \subseteq Tasks
         /\ exit' \in {"open", "locking", "closed", "busy", "cancelled"}
<1> USE DEF Return
<1>1. /\ lockQ \in Seq(Tasks \cup {Exit}) /\ lockQ # <<>> /\ Head(lockQ) = t
      /\ call \in [Tasks -> Calls \cup {Idle}]
  BY DEF PipelineInv, Shapes, Owns
<1>2. lockQ' \in Seq(Tasks \cup {Exit})
  BY <1>1
<1>3. running' = {}
  BY <1>1 DEF PipelineInv, LockInv, Owns
<1>4. InCalls(lockQ', call')
  BY <1>1, InCallsChanges DEF PipelineInv, LockInv
<1>5. ~handle' => lockQ' = <<>>
  BY <1>1 DEF PipelineInv, LockInv
<1>6. LockInv'
  BY <1>1, <1>3, <1>4, <1>5 DEF PipelineInv, LockInv
<1>7. Collected' = <<>>
  BY DEF Collected
<1> QED
  BY <1>1, <1>2, <1>3, <1>6, <1>7 DEF PipelineInv, Shapes

LEMMA ReturnAtOncePreserves ==
  ASSUME PipelineInv, NEW t \in Tasks, ReturnAtOnce(t)
  PROVE  PipelineInv'
<1> USE DEF ReturnAtOnce, setup, readerVars, dataVars
<1>1. Collected = <<>> /\ \A r \in Tasks : got'[r] = <<>>
  <2>1. \A r \in Tasks : Owns(r) => r = t
    BY DEF Owns
  <2> QED
    BY <2>1, NobodyRuns
<1>2. token' => rstate # "none"
  BY DEF PipelineInv, ReaderInv, Shapes
<1>3. token' \in BOOLEAN
  BY DEF PipelineInv, Shapes
<1> QED
  BY <1>1, <1>2, <1>3, ReturnGivesMutex, AccessKeeps

LEMMA ExitFindsBorrowPreserves == PipelineInv /\ ExitFindsBorrow => PipelineInv'
<1> SUFFICES ASSUME PipelineInv, ExitFindsBorrow PROVE PipelineInv'
  OBVIOUS
<1> USE DEF ExitFindsBorrow, setup, readerVars, dataVars
<1>1. Collected' = Collected
  BY DEF Collected
<1>2. LockInv'
  BY DEF PipelineInv, LockInv, Owns
<1>3. token' => rstate # "none"
  BY DEF PipelineInv, ReaderInv, Shapes
<1> QED
  BY <1>1, <1>2, <1>3, AccessKeeps DEF PipelineInv, Shapes

LEMMA ExitWaitsPreserves == PipelineInv /\ ExitWaits => PipelineInv'
<1> SUFFICES ASSUME PipelineInv, ExitWaits PROVE PipelineInv'
  OBVIOUS
<1> USE DEF ExitWaits, setup, readerVars, dataVars
<1>1. /\ lockQ' \in Seq(Tasks \cup {Exit}) /\ lockQ' # <<>>
      /\ Collected' = Collected
      /\ \A r \in running : Owns(r)'
  BY InLine
<1>2. InCalls(lockQ', call')
  BY InCallsChanges DEF PipelineInv, Shapes, LockInv
<1>3. LockInv'
  BY <1>1, <1>2 DEF PipelineInv, LockInv
<1>4. token' => rstate # "none"
  BY DEF PipelineInv, ReaderInv, Shapes
<1> QED
  BY <1>1, <1>3, <1>4, AccessKeeps DEF PipelineInv, Shapes

LEMMA ExitLockedPreserves == PipelineInv /\ ExitLocked => PipelineInv'
<1> SUFFICES ASSUME PipelineInv, ExitLocked PROVE PipelineInv'
  OBVIOUS
<1> USE DEF ExitLocked, setup, readerVars, dataVars
<1>1. lockQ \in Seq(Tasks \cup {Exit}) /\ lockQ # <<>> /\ Head(lockQ) = Exit
  BY DEF Owns, PipelineInv, Shapes
<1>2. running = {} /\ Collected = <<>> /\ \A t \in Tasks : got[t] = <<>>
  BY <1>1, NobodyRuns, TasksAssumption DEF Owns
<1>3. lockQ' \in Seq(Tasks \cup {Exit})
  BY <1>1
<1>4. Collected' = Collected
  BY <1>2 DEF Collected
<1>5. handle
  BY <1>1, TasksAssumption DEF PipelineInv, LockInv
<1>6. InCalls(lockQ', call')
  BY <1>1, InCallsChanges DEF PipelineInv, Shapes, LockInv
<1>7. LockInv'
  BY <1>1, <1>2, <1>5, <1>6 DEF PipelineInv, LockInv
<1>8. token' \in BOOLEAN /\ (token => token') /\ (token' => rstate # "none")
  BY DEF HasReceiver, PipelineInv, ReaderInv, Shapes
<1> QED
  BY <1>3, <1>4, <1>7, <1>8, AccessKeeps DEF PipelineInv, Shapes

LEMMA ExitCancelledPreserves == PipelineInv /\ ExitCancelled => PipelineInv'
<1> SUFFICES ASSUME PipelineInv, ExitCancelled PROVE PipelineInv'
  OBVIOUS
<1> USE DEF ExitCancelled, setup, readerVars, dataVars
<1>1. lockQ \in Seq(Tasks \cup {Exit}) /\ DOMAIN lockQ = 1..Len(lockQ)
  BY DEF PipelineInv, Shapes
<1>2. PICK i \in 1..Len(lockQ) : lockQ[i] = Exit /\ lockQ' = RemoveAt(lockQ, i)
  BY <1>1
<1>3. /\ lockQ' \in Seq(Tasks \cup {Exit})
      /\ i # 1 => lockQ' # <<>> /\ Head(lockQ') = Head(lockQ)
      /\ lockQ # <<>> /\ Head(lockQ) = lockQ[1]
  BY <1>1, <1>2, RemoveAtKeeps
<1>4. Collected' = Collected /\ \A t \in running : Owns(t)'
  <2>1. CASE i = 1
    <3>1. running = {} /\ Collected = <<>> /\ \A t \in Tasks : got[t] = <<>>
      BY <1>2, <1>3, <2>1, NobodyRuns, TasksAssumption DEF Owns
    <3> QED
      BY <3>1 DEF Collected
  <2>2. CASE i # 1
    BY <1>3, <2>2 DEF Collected, Owns, PipelineInv, LockInv
  <2> QED
    BY <2>1, <2>2
<1>5. handle
  <2>1. \A t \in Tasks : lockQ # <<t>>
    BY <1>2, TasksAssumption
  <2> QED
    BY <1>3, <2>1 DEF PipelineInv, LockInv
<1>6. InCalls(lockQ', call')
  BY <1>1, <1>2, InCallsChanges DEF PipelineInv, Shapes, LockInv
<1>7. LockInv'
  BY <1>3, <1>4, <1>5, <1>6 DEF PipelineInv, LockInv
<1>8. token' => rstate # "none"
  BY DEF PipelineInv, ReaderInv, Shapes
<1> QED
  BY <1>3, <1>4, <1>7, <1>8, AccessKeeps DEF PipelineInv, Shapes

-----------------------------------------------------------------------------
(* A step of the body and its reader leaves the calls alone.                *)
LEMMA CallsKeep ==
  ASSUME PipelineInv, UNCHANGED <<accessVars, got>>, phase' = phase \/ lockQ = <<>>
  PROVE  LockInv' /\ Collected' = Collected
BY DEF PipelineInv, LockInv, Owns, Collected, accessVars

(* A frame is the next run of the body.                                     *)
LEMMA FrameArrives ==
  ASSUME PipelineInv, NEW n \in FrameSizes
  PROVE  /\ n \in Nat \ {0} /\ n <= MaxFrame
         /\ arrived + n \in 0..BodyLen
         /\ Frame(n) \in Seq(Bytes) /\ Frame(n) # <<>> /\ Len(Frame(n)) = n
         /\ Follows(arrived, Frame(n))
<1>1. n \in Nat \ {0} /\ n <= MaxFrame /\ arrived \in Nat /\ arrived + n \in 0..BodyLen
  BY Places, SizesAssumption DEF FrameSizes
<1>2. Frame(n) \in Seq(Bytes) /\ Len(Frame(n)) = n /\ Follows(arrived, Frame(n))
  <2>1. arrived + n <= BodyLen /\ n \in Nat
    BY <1>1, SizesAssumption
  <2> QED
    BY <1>1, <2>1, SliceFollows DEF Frame
<1> QED
  BY <1>1, <1>2, EmptySeq

(* Before the reader starts, all there is is pending.                       *)
LEMMA AheadOnly ==
  ASSUME PipelineInv, phase = "head"
  PROVE  /\ rstate = "none" /\ lockQ = <<>> /\ channel = <<>> /\ outbox = <<>> /\ buffer = <<>>
         /\ ~token /\ Collected = <<>>
<1>1. rstate = "none" /\ lockQ = <<>>
  BY DEF PipelineInv, ReaderInv, LockInv
<1> QED
  BY <1>1 DEF PipelineInv, ReaderInv, Collected

LEMMA SkipReadAheadPreserves == PipelineInv /\ SkipReadAhead => PipelineInv'
<1> SUFFICES ASSUME PipelineInv, SkipReadAhead PROVE PipelineInv'
  OBVIOUS
<1> USE DEF SkipReadAhead, StartReader, setup, accessVars, dataVars
<1>1. LockInv' /\ Collected' = Collected
  BY AheadOnly, CallsKeep
<1>2. Shapes'
  BY DEF PipelineInv, Shapes
<1>3. ReaderInv'
  BY AheadOnly DEF PipelineInv, ReaderInv
<1>4. Placed' /\ OutInv'
  BY <1>1, AheadOnly DEF PipelineInv, Placed, OutInv, ReadsInOrder
<1> QED
  BY <1>1, <1>2, <1>3, <1>4 DEF PipelineInv

LEMMA ReadAheadPreserves ==
  ASSUME PipelineInv, NEW n \in FrameSizes, ReadAhead(n)
  PROVE  PipelineInv'
<1> USE DEF ReadAhead, StartReader, setup, accessVars
<1>1. LockInv' /\ Collected' = Collected
  BY AheadOnly, CallsKeep
<1>2. PICK x \in Seq(Bytes) : /\ x = Frame(n) /\ x # <<>> /\ Len(x) = n /\ Follows(arrived, x)
                              /\ arrived + n \in 0..BodyLen /\ n \in Nat
  BY FrameArrives
<1>3. pending' = Append(pending, x) /\ arrived' = arrived + n
  BY <1>2
<1>4. /\ pending' \in Chunks /\ Whole(pending')
      /\ Flat(pending') = Flat(pending) \o x
  BY <1>2, <1>3, FlatAppend DEF PipelineInv, Shapes
<1>5. Shapes'
  <2>1. arrived \in Nat /\ taken \in 0..arrived' /\ arrived' \in 0..BodyLen
    BY <1>2, <1>3, Places DEF PipelineInv, Shapes
  <2> QED
    BY <1>4, <2>1 DEF PipelineInv, Shapes
<1>6. ReaderInv'
  BY AheadOnly, SizesAssumption DEF PipelineInv, ReaderInv, Shapes
<1>7. Placed'
  <2>1. PICK p \in Seq(Bytes), q \in Seq(Bytes) : p = Flat(pending) /\ Glued(q, p, x)
    BY <1>2, Places, ConcatProperties DEF Glued
  <2>2. Spans(arrived, taken, <<>>, p, <<>>, <<>>, <<>>)
    BY <2>1, AheadOnly, FlatEmpty, MessagesEmpty DEF PipelineInv, Placed
  <2>3. Spans(arrived + n, taken, <<>>, q, <<>>, <<>>, <<>>)
    BY <1>2, <2>1, <2>2, Places, SpansAhead
  <2>4. Flat(pending') = q /\ arrived + n \in Nat
    BY <1>2, <1>4, <2>1, Places DEF Glued
  <2> QED
    BY <1>1, <1>3, <2>3, <2>4, AheadOnly, FlatEmpty, MessagesEmpty DEF Placed
<1>8. OutInv'
  BY DEF PipelineInv, OutInv, ReadsInOrder
<1> QED
  BY <1>1, <1>5, <1>6, <1>7, <1>8 DEF PipelineInv

LEMMA ReadAheadEndsPreserves == PipelineInv /\ ReadAheadEnds => PipelineInv'
<1> SUFFICES ASSUME PipelineInv, ReadAheadEnds PROVE PipelineInv'
  OBVIOUS
<1> USE DEF ReadAheadEnds, NoReader, setup, accessVars, dataVars
<1>1. LockInv' /\ Collected' = Collected
  BY AheadOnly, CallsKeep
<1>2. Shapes'
  BY DEF PipelineInv, Shapes
<1>3. ReaderInv'
  BY AheadOnly DEF PipelineInv, ReaderInv
<1>4. Placed' /\ OutInv'
  BY <1>1, AheadOnly DEF PipelineInv, Placed, OutInv, ReadsInOrder
<1> QED
  BY <1>1, <1>2, <1>3, <1>4 DEF PipelineInv

LEMMA ReadAheadFailsPreserves == PipelineInv /\ ReadAheadFails => PipelineInv'
<1> SUFFICES ASSUME PipelineInv, ReadAheadFails PROVE PipelineInv'
  OBVIOUS
<1> USE DEF ReadAheadFails, setup, readerVars, accessVars, dataVars
<1>1. LockInv' /\ Collected' = Collected
  BY AheadOnly, CallsKeep
<1>2. Shapes'
  BY DEF PipelineInv, Shapes
<1>3. ReaderInv'
  BY AheadOnly DEF PipelineInv, ReaderInv
<1>4. Placed' /\ OutInv'
  BY <1>1, AheadOnly DEF PipelineInv, Placed, OutInv, ReadsInOrder
<1> QED
  BY <1>1, <1>2, <1>3, <1>4 DEF PipelineInv

(* While the reader reads, it holds nothing but its batch, and nothing is   *)
(* missing.                                                                 *)
LEMMA WhileReading ==
  ASSUME PipelineInv, rstate = "reading"
  PROVE  /\ outbox = <<>> /\ limit \in Nat /\ phase \in {"body", "gone"}
         /\ phase # "gone" => Spans(arrived, taken, Collected, Flat(pending),
                                    InMessages(channel), <<>>, Flat(buffer))
BY MessagesEmpty DEF PipelineInv, ReaderInv, Placed

LEMMA BatchIsSendable ==
  ASSUME NEW w, NEW c \in Chunks, Whole(c), c # <<>>
  PROVE  /\ Data(c) \in Sendable(w) /\ Data(c) \in Messages
         /\ <<Data(c)>> \in Seq(Sendable(w)) /\ Len(<<Data(c)>>) = 1
         /\ InMessages(<<Data(c)>>) = Flat(c)
<1>1. Data(c) \in Messages /\ Data(c).chunks = c /\ Data(c).ok
  BY DEF Messages, Data
<1>2. Data(c) \in Sendable(w)
  BY <1>1 DEF Sendable
<1> QED
  BY <1>1, <1>2, MessagesOne

LEMMA ReaderFramePreserves ==
  ASSUME PipelineInv, NEW n \in FrameSizes, ReaderFrame(n)
  PROVE  PipelineInv'
<1> USE DEF ReaderFrame, setup, accessVars, dataVars
<1>1. LockInv' /\ Collected' = Collected
  BY CallsKeep
<1>2. PICK x \in Seq(Bytes) : /\ x = Frame(n) /\ x # <<>> /\ Len(x) = n /\ Follows(arrived, x)
                              /\ arrived + n \in 0..BodyLen /\ n \in Nat
  BY FrameArrives
<1>3. PICK batch : batch = Append(buffer, x)
  OBVIOUS
<1>4. /\ batch \in Chunks /\ Whole(batch) /\ batch # <<>>
      /\ Flat(batch) = Flat(buffer) \o x
  BY <1>2, <1>3, FlatAppend DEF PipelineInv, Shapes
<1>5. \/ buffer' = batch /\ rstate' = "reading" /\ outbox' = <<>>
      \/ buffer' = <<>> /\ outbox' = <<Data(batch)>> /\ rstate' = "sending"
  BY <1>2, <1>3, WhileReading
<1>6. Shapes'
  <2>1. arrived \in Nat /\ taken \in 0..arrived' /\ arrived' \in 0..BodyLen
    BY <1>2, Places DEF PipelineInv, Shapes
  <2>2. buffer' \in Chunks /\ Whole(buffer')
    BY <1>4, <1>5, FlatEmpty
  <2>3. outbox' \in Seq(Sendable(world)) /\ Len(outbox') <= 1
    <3>1. <<>> \in Seq(Sendable(world)) /\ Len(<<>>) <= 1
      BY EmptySeq
    <3>2. <<Data(batch)>> \in Seq(Sendable(world)) /\ Len(<<Data(batch)>>) = 1
      BY <1>4, BatchIsSendable, Zenon
    <3> HIDE DEF ReaderFrame
    <3>3. outbox' \in Seq(Sendable(world)) /\ (outbox' = <<>> \/ outbox' = <<Data(batch)>>)
      BY <1>5, <3>1, <3>2, Zenon
    <3>4. CASE outbox' = <<>>
      BY <3>1, <3>4
    <3>5. CASE outbox' = <<Data(batch)>>
      <4>1. Len(outbox') = 1
        BY <3>2, <3>5
      <4> QED
        BY <3>2, <3>5, <4>1
    <3> QED
      BY <3>3, <3>4, <3>5
  <2>4. rstate' \in {"none", "reading", "sending", "finishing", "ended"}
    BY <1>5
  <2> QED
    BY <2>1, <2>2, <2>3, <2>4 DEF PipelineInv, Shapes
<1>7. ReaderInv'
  BY <1>5 DEF PipelineInv, ReaderInv
<1>8. Placed'
  <2> SUFFICES ASSUME phase # "gone" PROVE Placed'
    BY DEF Placed
  <2>0. /\ UNCHANGED <<phase, pending, channel, taken, world, token>> /\ arrived' = arrived + n
        /\ rstate = "reading"
    OBVIOUS
  <2> HIDE DEF ReaderFrame
  <2>1. PICK c \in Seq(Bytes), p \in Seq(Bytes), m \in Seq(Bytes), b \in Seq(Bytes) :
          c = Collected /\ p = Flat(pending) /\ m = InMessages(channel) /\ b = Flat(buffer)
    BY Places
  <2>2. Spans(arrived, taken, c, p, m, <<>>, b) /\ taken \in Nat
    BY <2>0, <2>1, Places, WhileReading
  <2>3. PICK y \in Seq(Bytes) : Glued(y, b, x)
    BY ConcatProperties DEF Glued
  <2>4. /\ Spans(arrived + n, taken, c, p, m, <<>>, y)
        /\ Spans(arrived + n, taken, c, p, m, y, <<>>)
    BY <1>2, <2>2, <2>3, SpansFrame
  <2>5. arrived + n \in Nat
    BY <1>2
  <2>6. CASE buffer' = batch /\ rstate' = "reading" /\ outbox' = <<>>
    <3>1. Flat(buffer') = y /\ InMessages(outbox') = <<>>
      BY <1>4, <2>1, <2>3, <2>6, MessagesEmpty DEF Glued
    <3> QED
      BY <1>1, <2>0, <2>1, <2>4, <2>5, <3>1 DEF Placed
  <2>7. CASE buffer' = <<>> /\ outbox' = <<Data(batch)>>
    <3>1. Flat(buffer') = <<>> /\ InMessages(outbox') = y
      BY <1>4, <2>1, <2>3, <2>7, FlatEmpty, BatchIsSendable DEF Glued
    <3> QED
      BY <1>1, <2>0, <2>1, <2>4, <2>5, <3>1 DEF Placed
  <2> QED
    BY <1>5, <2>6, <2>7
<1>9. OutInv'
  BY DEF PipelineInv, OutInv, ReadsInOrder
<1> QED
  BY <1>1, <1>6, <1>7, <1>8, <1>9 DEF PipelineInv

LEMMA FailureIsSendable ==
  ASSUME NEW w, "fail" \in w
  PROVE  /\ <<Failure>> \in Seq(Sendable(w)) /\ Len(<<Failure>>) = 1
         /\ InMessages(<<Failure>>) = <<>>
<1>1. Failure \in Messages /\ Failure.chunks = <<>>
  BY DEF Messages, Failure
<1>2. Failure \in Sendable(w)
  BY <1>1 DEF Sendable
<1> QED
  BY <1>1, <1>2, MessagesOne, FlatEmpty

(* The reader may drop what it holds when the body fails or the token is    *)
(* cancelled.                                                               *)
LEMMA StopsPlaced ==
  ASSUME PipelineInv, UNCHANGED <<arrived, phase, pending, channel, taken>>,
         Collected' = Collected, InMessages(outbox') = <<>>, Flat(buffer') = <<>>,
         rstate' \in {"finishing", "ended"}, phase # "gone" => token' \/ "fail" \in world'
  PROVE  Placed'
<1> SUFFICES ASSUME phase # "gone" PROVE Placed'
  BY DEF Placed
<1>1. PICK c \in Seq(Bytes), p \in Seq(Bytes), m \in Seq(Bytes), o \in Seq(Bytes), b \in Seq(Bytes) :
        /\ c = Collected /\ p = Flat(pending) /\ m = InMessages(channel)
        /\ o = InMessages(outbox) /\ b = Flat(buffer)
  BY Places
<1>2. PICK k \in 0..arrived : Spans(k, taken, c, p, m, o, b)
  BY <1>1 DEF PipelineInv, Placed
<1>3. PICK j \in Nat : j <= k /\ Spans(j, taken, c, p, m, <<>>, <<>>)
  BY <1>2, Places, SpansStops
<1>4. j \in 0..arrived'
  BY <1>2, <1>3, Counts
<1> QED
  BY <1>1, <1>3, <1>4 DEF Placed

LEMMA ReaderEndsPreserves == PipelineInv /\ ReaderEnds => PipelineInv'
<1> SUFFICES ASSUME PipelineInv, ReaderEnds PROVE PipelineInv'
  OBVIOUS
<1> USE DEF ReaderEnds, setup, accessVars, dataVars
<1>1. LockInv' /\ Collected' = Collected
  BY CallsKeep
<1>2. \/ buffer = <<>> /\ buffer' = <<>> /\ outbox' = <<>> /\ rstate' = "ended"
      \/ buffer # <<>> /\ buffer' = <<>> /\ outbox' = <<Data(buffer)>> /\ rstate' = "finishing"
  BY WhileReading
<1>3. /\ buffer \in Chunks /\ Whole(buffer)
      /\ buffer # <<>> => /\ <<Data(buffer)>> \in Seq(Sendable(world)) /\ Len(<<Data(buffer)>>) = 1
                          /\ InMessages(<<Data(buffer)>>) = Flat(buffer)
  BY BatchIsSendable DEF PipelineInv, Shapes
<1>4. Shapes'
  <2>1. buffer' \in Chunks /\ Whole(buffer')
    BY <1>2, FlatEmpty
  <2>2. outbox' \in Seq(Sendable(world)) /\ Len(outbox') <= 1
    <3>1. <<>> \in Seq(Sendable(world)) /\ Len(<<>>) <= 1
      BY EmptySeq
    <3>2. CASE buffer = <<>>
      BY <1>2, <3>1, <3>2
    <3>3. CASE buffer # <<>>
      <4>1. outbox' = <<Data(buffer)>>
        BY <1>2, <3>3
      <4>2. outbox' \in Seq(Sendable(world)) /\ Len(outbox') = 1
        BY <1>3, <3>3, <4>1, Zenon
      <4> QED
        BY <4>2
    <3> QED
      BY <3>2, <3>3
  <2>3. rstate' \in {"none", "reading", "sending", "finishing", "ended"}
    BY <1>2
  <2> QED
    BY <2>1, <2>2, <2>3 DEF PipelineInv, Shapes
<1>5. ReaderInv'
  BY <1>2 DEF PipelineInv, ReaderInv
<1>6. Placed'
  <2> SUFFICES ASSUME phase # "gone" PROVE Placed'
    BY DEF Placed
  <2>1. PICK c \in Seq(Bytes), p \in Seq(Bytes), m \in Seq(Bytes), b \in Seq(Bytes) :
          c = Collected /\ p = Flat(pending) /\ m = InMessages(channel) /\ b = Flat(buffer)
    BY Places
  <2>2. Spans(arrived, taken, c, p, m, <<>>, b) /\ taken \in Nat
    BY <2>1, Places, WhileReading
  <2>3. Spans(arrived, taken, c, p, m, b, <<>>)
    BY <2>2, SpansBatch
  <2>4. InMessages(outbox') = b /\ Flat(buffer') = <<>>
    BY <1>2, <1>3, <2>1, FlatEmpty, MessagesEmpty
  <2> QED
    BY <1>1, <2>1, <2>3, <2>4, Places DEF Placed
<1>7. OutInv'
  BY DEF PipelineInv, OutInv, ReadsInOrder
<1> QED
  BY <1>1, <1>4, <1>5, <1>6, <1>7 DEF PipelineInv

LEMMA ReaderFailsPreserves == PipelineInv /\ ReaderFails => PipelineInv'
<1> SUFFICES ASSUME PipelineInv, ReaderFails PROVE PipelineInv'
  OBVIOUS
<1> USE DEF ReaderFails, setup, accessVars, dataVars
<1>1. LockInv' /\ Collected' = Collected
  BY CallsKeep
<1>2. /\ outbox' \in Seq(Sendable(world)) /\ Len(outbox') = 1 /\ InMessages(outbox') = <<>>
      /\ Flat(buffer') = <<>>
  BY FailureIsSendable, FlatEmpty
<1>3. Shapes'
  BY <1>2, FlatEmpty DEF PipelineInv, Shapes
<1>4. ReaderInv'
  BY DEF PipelineInv, ReaderInv
<1>5. Placed'
  BY <1>1, <1>2, StopsPlaced
<1>6. OutInv'
  BY DEF PipelineInv, OutInv, ReadsInOrder
<1> QED
  BY <1>1, <1>3, <1>4, <1>5, <1>6 DEF PipelineInv

LEMMA ReaderStopsPreserves ==
  ASSUME PipelineInv, ReaderStops, rstate # "none", phase = "gone" \/ token
  PROVE  PipelineInv'
<1> USE DEF ReaderStops, setup, accessVars, dataVars
<1>1. LockInv' /\ Collected' = Collected
  BY CallsKeep
<1>2. /\ outbox' \in Seq(Sendable(world)) /\ Len(outbox') <= 1 /\ InMessages(outbox') = <<>>
      /\ Flat(buffer') = <<>>
  BY EmptySeq, FlatEmpty, MessagesEmpty
<1>3. Shapes'
  BY <1>2, FlatEmpty DEF PipelineInv, Shapes
<1>4. ReaderInv'
  BY DEF PipelineInv, ReaderInv
<1>5. Placed'
  BY <1>1, <1>2, StopsPlaced
<1>6. OutInv'
  BY DEF PipelineInv, OutInv, ReadsInOrder
<1> QED
  BY <1>1, <1>3, <1>4, <1>5, <1>6 DEF PipelineInv

LEMMA ReaderSendsPreserves == PipelineInv /\ ReaderSends => PipelineInv'
<1> SUFFICES ASSUME PipelineInv, ReaderSends PROVE PipelineInv'
  OBVIOUS
<1> USE DEF ReaderSends, setup, accessVars, dataVars
<1>1. LockInv' /\ Collected' = Collected
  BY CallsKeep
<1>2. rstate \in {"sending", "finishing"} /\ rstate' \in {"reading", "ended"}
      /\ (rstate = "finishing" => rstate' = "ended") /\ buffer = <<>> /\ buffer' = <<>>
  BY DEF PipelineInv, ReaderInv
<1>3. /\ channel' \in Seq(Sendable(world)) /\ Len(channel') <= ChannelSize
      /\ InMessages(channel') = InMessages(channel) \o InMessages(outbox)
      /\ outbox' \in Seq(Sendable(world)) /\ Len(outbox') <= 1 /\ InMessages(outbox') = <<>>
  <2>1. /\ channel \in Seq(Sendable(world)) /\ outbox \in Seq(Sendable(world))
        /\ Len(channel) < 2 /\ Len(outbox) <= 1
    BY DEF PipelineInv, Shapes, ChannelSize
  <2>2. channel' \in Seq(Sendable(world)) /\ Len(channel') = Len(channel) + Len(outbox)
    BY <2>1, ConcatProperties
  <2>3. Len(channel') <= ChannelSize
    BY <2>1, <2>2, LenProperties DEF ChannelSize
  <2>4. InMessages(channel') = InMessages(channel) \o InMessages(outbox)
    BY Places, MessagesConcat
  <2>5. outbox' \in Seq(Sendable(world)) /\ Len(outbox') <= 1 /\ InMessages(outbox') = <<>>
    BY EmptySeq, MessagesEmpty
  <2> QED
    BY <2>2, <2>3, <2>4, <2>5
<1>4. Shapes'
  BY <1>2, <1>3 DEF PipelineInv, Shapes
<1>5. ReaderInv'
  BY <1>2 DEF PipelineInv, ReaderInv
<1>6. Placed'
  <2> SUFFICES ASSUME phase # "gone" PROVE Placed'
    BY DEF Placed
  <2>0. UNCHANGED <<arrived, phase, pending, taken, world, token>>
    OBVIOUS
  <2> HIDE DEF ReaderSends
  <2>1. PICK c \in Seq(Bytes), p \in Seq(Bytes), m \in Seq(Bytes), o \in Seq(Bytes), b \in Seq(Bytes) :
          /\ c = Collected /\ p = Flat(pending) /\ m = InMessages(channel)
          /\ o = InMessages(outbox) /\ b = Flat(buffer)
    BY Places
  <2>2. PICK k \in 0..arrived :
          /\ Spans(k, taken, c, p, m, o, b)
          /\ \/ k = arrived
             \/ rstate \in {"finishing", "ended"} /\ (token \/ "fail" \in world)
    BY <2>1 DEF PipelineInv, Placed
  <2>3. PICK y \in Seq(Bytes) : Glued(y, m, o)
    BY ConcatProperties DEF Glued
  <2>4. Spans(k, taken, c, p, y, <<>>, b)
    BY <2>2, <2>3, Places, SpansSends
  <2>5. InMessages(channel') = y /\ Flat(buffer') = b
    BY <1>2, <1>3, <2>1, <2>3 DEF Glued
  <2>6. \/ k = arrived
        \/ rstate' \in {"finishing", "ended"} /\ (token \/ "fail" \in world)
    BY <1>2, <2>2
  <2> QED
    BY <1>1, <1>3, <2>0, <2>1, <2>4, <2>5, <2>6 DEF Placed
<1>7. OutInv'
  BY DEF PipelineInv, OutInv, ReadsInOrder
<1> QED
  BY <1>1, <1>4, <1>5, <1>6, <1>7 DEF PipelineInv

LEMMA ReaderWakesPreserves == PipelineInv /\ ReaderWakes => PipelineInv'
<1> SUFFICES ASSUME PipelineInv, ReaderWakes PROVE PipelineInv'
  OBVIOUS
<1>1. CASE ReaderSends
  BY <1>1, ReaderSendsPreserves
<1>2. CASE ReaderSendFails
  <2>1. rstate # "none" /\ phase = "gone" /\ ReaderStops
    BY <1>2 DEF ReaderSendFails, PipelineInv, ReaderInv
  <2> QED
    BY <2>1, ReaderStopsPreserves
<1>3. CASE ReaderSeesToken
  BY <1>3, ReaderStopsPreserves DEF ReaderSeesToken
<1> QED
  BY <1>1, <1>2, <1>3 DEF ReaderWakes

-----------------------------------------------------------------------------
(* What a call takes is the run that follows what was taken before.         *)
LEMMA OutGrows ==
  ASSUME NEW s \in Seq(Bytes), NEW x \in Seq(Bytes), NEW a \in Nat, Follows(a, x),
         \A i \in DOMAIN s : s[i] <= a,
         \A i, j \in DOMAIN s : i < j => s[i] < s[j],
         NEW y \in Seq(Bytes), Glued(y, s, x)
  PROVE  /\ \A i \in DOMAIN y : y[i] <= a + Len(x)
         /\ \A i, j \in DOMAIN y : i < j => y[i] < y[j]
<1>1. PICK m, n : m = Len(s) /\ n = Len(x) /\ m \in Nat /\ n \in Nat
  BY LenProperties
<1>2. /\ DOMAIN s = 1..m /\ DOMAIN x = 1..n /\ DOMAIN y = 1..(m + n)
      /\ \A i \in 1..(m + n) : y[i] = IF i <= m THEN s[i] ELSE x[i - m]
  BY <1>1, LenProperties, ConcatProperties DEF Glued
<1>3. BodyLen \in Nat
  BY SizesAssumption
<1>4. ASSUME NEW i \in 1..m PROVE s[i] \in Nat /\ s[i] <= a
  <2>1. s[i] \in Bytes
    BY <1>1
  <2>2. s[i] <= a
    BY <1>2, Zenon
  <2>3. s[i] \in Nat
    BY <1>3, <2>1 DEF Bytes
  <2> QED
    BY <2>2, <2>3
<1>5. ASSUME NEW i \in 1..n PROVE x[i] = a + i
  BY <1>2, <1>5 DEF Follows
<1>6. ASSUME NEW i \in 1..(m + n)
      PROVE  \/ i <= m /\ y[i] = s[i] /\ s[i] \in Nat /\ s[i] <= a
             \/ ~(i <= m) /\ y[i] = a + (i - m) /\ i - m \in 1..n
  <2>1. CASE i <= m
    BY <1>1, <1>2, <1>4, <2>1
  <2>2. CASE ~(i <= m)
    <3>1. i - m \in 1..n
      BY <1>1, <2>2
    <3> QED
      BY <1>2, <1>5, <2>2, <3>1
  <2> QED
    BY <2>1, <2>2
<1>7. ASSUME NEW i \in 1..(m + n) PROVE y[i] <= a + n
  BY <1>1, <1>6
<1>8. ASSUME NEW i \in 1..(m + n), NEW j \in 1..(m + n), i < j PROVE y[i] < y[j]
  <2>1. CASE j <= m
    <3>1. y[i] = s[i] /\ y[j] = s[j] /\ i \in 1..m /\ j \in 1..m
      BY <1>1, <1>6, <1>8, <2>1
    <3> QED
      BY <1>2, <1>8, <3>1
  <2>2. CASE ~(j <= m)
    BY <1>1, <1>6, <1>8, <2>2
  <2> QED
    BY <2>1, <2>2
<1> QED
  BY <1>1, <1>2, <1>7, <1>8

(* The call that runs owns the mutex, so only it has collected anything.    *)
LEMMA Runner ==
  ASSUME PipelineInv, NEW t \in Tasks, Runs(t)
  PROVE  /\ Owns(t) /\ phase = "body" /\ Collected = got[t] /\ got[t] \in Seq(Bytes)
         /\ \A r \in Tasks : r # t => got[r] = <<>>
         /\ running = {t}
         /\ call[t] \in Calls \cup {Idle}
<1>1. Owns(t) /\ t \in running /\ lockQ # <<>> /\ Head(lockQ) = t
  BY DEF Runs, Owns
<1>2. Collected = got[t] /\ got[t] \in Seq(Bytes) /\ call[t] \in Calls \cup {Idle}
  BY <1>1 DEF Collected, PipelineInv, Shapes
<1>3. \A r \in running : r = t
  BY <1>1 DEF PipelineInv, LockInv, Owns
<1> QED
  BY <1>1, <1>2, <1>3 DEF PipelineInv, LockInv

LEMMA MessageIsData ==
  ASSUME NEW w, NEW m \in Sendable(w), m.chunks # <<>>
  PROVE  m.chunks \in Chunks /\ Whole(m.chunks)
BY MessageShape DEF Sendable, Failure

(* The chunks a call can have without waiting, with the message they came   *)
(* in taken off the channel.                                                *)
LEMMA Received ==
  ASSUME PipelineInv, NEW t \in Tasks, Runs(t), NextChunks # <<>>,
         channel' = IF pending = <<>> THEN Tail(channel) ELSE channel
  PROVE  /\ NextChunks \in Chunks /\ Whole(NextChunks)
         /\ channel' \in Seq(Sendable(world)) /\ Len(channel') <= ChannelSize
         /\ channel = <<>> => channel' = <<>>
         /\ InMessages(channel') \in Seq(Bytes)
         /\ \E k \in 0..arrived :
              /\ Spans(k, taken, got[t], Flat(NextChunks), InMessages(channel'),
                       InMessages(outbox), Flat(buffer))
              /\ \/ k = arrived
                 \/ rstate \in {"finishing", "ended"} /\ (token \/ "fail" \in world)
<1>1. PICK k \in 0..arrived :
        /\ Spans(k, taken, got[t], Flat(pending), InMessages(channel),
                 InMessages(outbox), Flat(buffer))
        /\ \/ k = arrived
           \/ rstate \in {"finishing", "ended"} /\ (token \/ "fail" \in world)
  <2>1. phase # "gone" /\ Collected = got[t]
    BY Runner
  <2> QED
    BY <2>1 DEF PipelineInv, Placed
<1>2. CASE pending # <<>>
  BY <1>1, <1>2, Places DEF NextChunks, PipelineInv, Shapes
<1>3. CASE pending = <<>>
  <2>1. PICK h, u : h = Head(channel) /\ u = Tail(channel)
    OBVIOUS
  <2>2. channel # <<>> /\ NextChunks = h.chunks /\ channel' = u
    BY <1>3, <2>1 DEF NextChunks
  <2>3. /\ channel \in Seq(Sendable(world)) /\ Len(channel) <= 2
    BY DEF PipelineInv, Shapes, ChannelSize
  <2>4. h \in Sendable(world) /\ u \in Seq(Sendable(world)) /\ Len(u) <= 2
    BY <2>1, <2>2, <2>3
  <2>5. NextChunks \in Chunks /\ Whole(NextChunks)
    BY <2>2, <2>4, MessageIsData
  <2>6. u \in Seq(Messages) /\ InMessages(channel) = Flat(h.chunks) \o InMessages(u)
    BY <2>1, <2>2, Places, MessagesHead
  <2>7. PICK c \in Seq(Bytes), f \in Seq(Bytes), m \in Seq(Bytes), o \in Seq(Bytes), b \in Seq(Bytes),
             y \in Seq(Bytes) :
          /\ c = got[t] /\ f = Flat(NextChunks) /\ m = InMessages(u)
          /\ o = InMessages(outbox) /\ b = Flat(buffer) /\ y = InMessages(channel)
    BY <2>5, <2>6, Places, Runner, ChunksFlat, MessagesType
  <2>8. Glued(y, f, m)
    BY <2>2, <2>6, <2>7 DEF Glued
  <2>9. Spans(k, taken, c, <<>>, y, o, b)
    BY <1>1, <1>3, <2>7, FlatEmpty
  <2>10. Spans(k, taken, c, f, m, o, b)
    BY <2>8, <2>9, Places, SpansReceives
  <2> QED
    BY <1>1, <2>2, <2>4, <2>5, <2>7, <2>10 DEF ChannelSize
<1> QED
  BY <1>2, <1>3

(* A call never takes more of a chunk than there is, nor more than it was   *)
(* asked for.                                                               *)
LEMMA UsableFits ==
  ASSUME PipelineInv, NEW t \in Tasks, Runs(t), NEW x \in Seq(Bytes)
  PROVE  /\ Usable(t, x) \in 0..Len(x)
         /\ call[t].op = "read" => Len(got[t]) + Usable(t, x) <= call[t].amount
         /\ call[t].op = "read" => call[t].amount \in Nat /\ Len(got[t]) < call[t].amount
<1>1. Len(x) \in Nat /\ Len(got[t]) \in Nat
  BY Runner, LenProperties
<1>2. CASE call[t].op = "read"
  <2>1. call[t].amount \in Nat
    <3>1. call[t] \in Calls
      BY <1>2, Runner DEF Idle
    <3> QED
      BY <1>2, <3>1, SizesAssumption DEF Calls
  <2>2. Len(got[t]) < call[t].amount
    BY <1>2 DEF PipelineInv, LockInv, Runs
  <2> QED
    BY <1>1, <1>2, <2>1, <2>2 DEF Usable
<1>3. CASE call[t].op # "read"
  BY <1>1, <1>3 DEF Usable
<1> QED
  BY <1>2, <1>3

(* The data of a call that ends has left the pipeline.                      *)
LEMMA EndPlaced ==
  ASSUME PipelineInv, NEW t \in Tasks, NEW k \in 0..arrived, NEW x \in Seq(Bytes),
         Spans(k, taken, x, Flat(pending'), InMessages(channel'), InMessages(outbox), Flat(buffer)),
         \/ k = arrived
         \/ rstate \in {"finishing", "ended"} /\ (token \/ "fail" \in world),
         pending' \in Chunks, InMessages(channel') \in Seq(Bytes),
         Collected' = <<>>, taken' = taken + Len(x),
         UNCHANGED <<world, arrived, token, outbox, buffer, rstate>>
  PROVE  /\ Placed' /\ Follows(taken, x)
         /\ taken' \in 0..arrived /\ taken + Len(x) \in Nat
<1>1. PICK p \in Seq(Bytes), m \in Seq(Bytes), o \in Seq(Bytes), b \in Seq(Bytes) :
        /\ p = Flat(pending') /\ m = InMessages(channel')
        /\ o = InMessages(outbox) /\ b = Flat(buffer)
  BY Places, ChunksFlat
<1>2. Spans(k, taken, x, p, m, o, b) /\ taken \in Nat /\ arrived \in Nat
  BY <1>1, Places
<1>3. Spans(k, taken + Len(x), <<>>, p, m, o, b) /\ Follows(taken, x) /\ taken + Len(x) <= k
  BY <1>2, SpansReturns
<1>4. taken + Len(x) \in Nat /\ taken' \in 0..arrived
  BY <1>2, <1>3, LenProperties
<1>5. Placed'
  BY <1>1, <1>3 DEF Placed
<1> QED
  BY <1>3, <1>4, <1>5

(* What a call takes changes the types of nothing else. *)
LEMMA ShapesTaken ==
  ASSUME Shapes, got' \in [Tasks -> Seq(Bytes)], pending' \in Chunks, Whole(pending'),
         channel' \in Seq(Sendable(world)), Len(channel') <= ChannelSize,
         UNCHANGED <<limit, world, arrived, phase, rstate, buffer, outbox, token, rxAlive>>,
         UNCHANGED <<handle, borrower, lockQ, call, running, cancelled, exit, cache, readBytes,
                     taken, out, sawEnd>>
  PROVE  Shapes'
BY DEF Shapes

LEMMA TakeChunkPreserves ==
  ASSUME PipelineInv, NEW t \in Tasks, TakeChunk(t)
  PROVE  PipelineInv'
<1>0. /\ Runs(t) /\ NextChunks # <<>>
      /\ channel' = IF pending = <<>> THEN Tail(channel) ELSE channel
      /\ UNCHANGED <<limit, world, arrived, phase, rstate, buffer, outbox, token, rxAlive>>
  BY DEF TakeChunk, setup, readerVars
<1>1. PICK c, n : c = NextChunks /\ n = Usable(t, Head(c))
  OBVIOUS
<1>2. /\ c \in Chunks /\ Whole(c) /\ c # <<>>
      /\ channel' \in Seq(Sendable(world)) /\ Len(channel') <= ChannelSize
      /\ channel = <<>> => channel' = <<>>
      /\ InMessages(channel') \in Seq(Bytes)
  BY <1>0, <1>1, Received
<1>3. PICK k \in 0..arrived :
        /\ Spans(k, taken, got[t], Flat(c), InMessages(channel'), InMessages(outbox), Flat(buffer))
        /\ \/ k = arrived
           \/ rstate \in {"finishing", "ended"} /\ (token \/ "fail" \in world)
  BY <1>0, <1>1, Received
<1>4. Head(c) \in Seq(Bytes) /\ n \in 0..Len(Head(c))
  <2>1. Head(c) \in Seq(Bytes)
    BY <1>2 DEF Chunks, Bytes
  <2> QED
    BY <1>0, <1>1, <2>1, UsableFits
<1>5. PICK g \in Seq(Bytes) : g = got[t]
  BY <1>0, Runner
<1>5a. PICK x, q : x = SubSeq(Head(c), 1, n) /\ q = PutBack(Head(c), n, Tail(c))
  OBVIOUS
<1>6. PICK f \in Seq(Bytes), m \in Seq(Bytes), o \in Seq(Bytes), b \in Seq(Bytes) :
        /\ f = Flat(c) /\ m = InMessages(channel') /\ o = InMessages(outbox) /\ b = Flat(buffer)
  BY <1>2, Places, ChunksFlat
<1>7. Spans(k, taken, g, f, m, o, b) /\ Follows(taken + Len(g), Flat(c)) /\ taken + Len(g) \in Nat
  <2>1. Spans(k, taken, g, f, m, o, b)
    BY <1>3, <1>5, <1>5a, <1>6
  <2>2. taken + Len(g) \in Nat
    BY Counts, LenProperties
  <2> QED
    BY <1>6, <2>1, <2>2 DEF Spans, Laid
<1>8. /\ q \in Chunks /\ Whole(q) /\ Flat(q) \in Seq(Bytes) /\ Len(f) = n + Len(Flat(q))
      /\ x \in Seq(Bytes) /\ Len(x) = n
      /\ Follows(taken + Len(g), x) /\ Follows((taken + Len(g)) + n, Flat(q))
  <2>1. PICK a \in Nat : a = taken + Len(g) /\ Follows(a, Flat(c))
    BY <1>7
  <2> QED
    BY <1>2, <1>4, <1>5, <1>5a, <1>6, <2>1, PutBackKeeps
<1>9. PICK all \in Seq(Bytes) : all = g \o x /\ Glued(all, g, x) /\ Len(all) = Len(g) + n
  BY <1>8, ConcatProperties DEF Glued
<1>10. Spans(k, taken, all, Flat(q), m, o, b)
  <2>1. PICK r \in Seq(Bytes) : r = Flat(q)
    BY <1>8
  <2> QED
    BY <1>7, <1>8, <1>9, <2>1, Places, SpansTakes
<1>11. /\ pending' = q
       /\ \/ Return(t) /\ Deliver(t, all)
          \/ /\ call[t].op # "chunk" /\ (call[t].op = "read" => Len(all) # call[t].amount)
             /\ got' = [got EXCEPT ![t] = all]
             /\ UNCHANGED <<accessVars, cache, readBytes, taken, out, sawEnd>>
  BY <1>1, <1>5, <1>5a, <1>9 DEF TakeChunk
<1>12. Spans(k, taken, all, Flat(pending'), InMessages(channel'), InMessages(outbox), Flat(buffer))
  BY <1>6, <1>10, <1>11
<1>13. ReaderInv'
  BY <1>0, <1>2 DEF PipelineInv, ReaderInv
<1>14. CASE Return(t) /\ Deliver(t, all)
  <2>1. /\ out' = out \o all /\ readBytes' = readBytes + Len(all) /\ taken' = taken + Len(all)
        /\ got' = [got EXCEPT ![t] = <<>>] /\ UNCHANGED <<cache, sawEnd>>
    BY <1>14 DEF Deliver
  <2>2. \A r \in Tasks : got'[r] = <<>>
    BY <1>0, <2>1, Runner DEF PipelineInv, Shapes
  <2>3. /\ LockInv' /\ Collected' = <<>>
        /\ lockQ' \in Seq(Tasks \cup {Exit}) /\ call' \in [Tasks -> Calls \cup {Idle}]
        /\ handle' \in BOOLEAN /\ borrower' \subseteq Tasks /\ running' \subseteq Tasks
        /\ cancelled' \subseteq Tasks
        /\ exit' \in {"open", "locking", "closed", "busy", "cancelled"}
    BY <1>0, <1>14, <2>2, Runner, ReturnGivesMutex
  <2>4. /\ Placed' /\ Follows(taken, all)
        /\ taken' \in 0..arrived /\ taken + Len(all) \in Nat
    BY <1>0, <1>2, <1>3, <1>8, <1>11, <1>12, <2>1, <2>3, EndPlaced
  <2>5. PICK s \in Seq(Bytes) : s = out /\ out' \in Seq(Bytes) /\ Glued(out', s, all)
    BY <2>1, ConcatProperties DEF Glued, PipelineInv, Shapes
  <2>6. OutInv'
    <3>1. /\ \A i \in DOMAIN s : s[i] <= taken
          /\ \A i, j \in DOMAIN s : i < j => s[i] < s[j]
      BY <2>5 DEF PipelineInv, OutInv, ReadsInOrder
    <3>2. /\ \A i \in DOMAIN out' : out'[i] <= taken + Len(all)
          /\ \A i, j \in DOMAIN out' : i < j => out'[i] < out'[j]
      BY <2>4, <2>5, <3>1, Places, OutGrows
    <3> QED
      BY <2>1, <3>2 DEF OutInv, ReadsInOrder
  <2>7. Shapes'
    <3>1. readBytes' \in 0..taken'
      BY <2>1, <2>4, Places, LenProperties DEF PipelineInv, Shapes
    <3>2. got' \in [Tasks -> Seq(Bytes)]
      BY <2>1, EmptySeq DEF PipelineInv, Shapes
    <3> QED
      BY <1>0, <1>2, <1>8, <1>11, <2>1, <2>3, <2>4, <2>5, <3>1, <3>2 DEF PipelineInv, Shapes
  <2> QED
    BY <1>13, <2>3, <2>4, <2>6, <2>7 DEF PipelineInv
<1>15. CASE /\ call[t].op # "chunk" /\ (call[t].op = "read" => Len(all) # call[t].amount)
            /\ got' = [got EXCEPT ![t] = all]
            /\ UNCHANGED <<accessVars, cache, readBytes, taken, out, sawEnd>>
  <2>1. /\ got' \in [Tasks -> Seq(Bytes)] /\ got'[t] = all
        /\ \A r \in Tasks : r # t => got'[r] = <<>>
    BY <1>0, <1>15, Runner DEF PipelineInv, Shapes
  <2>2. UNCHANGED <<handle, borrower, lockQ, call, running, cancelled, exit, cache, readBytes,
                    taken, out, sawEnd>>
    BY <1>15 DEF accessVars
  <2>3. Collected' = all
    BY <1>0, <2>1, <2>2, Runner DEF Collected, Owns
  <2>4. call[t].op = "read" => Len(all) < call[t].amount
    <3>1. ASSUME call[t].op = "read"
          PROVE  Len(g) + n <= call[t].amount /\ call[t].amount \in Nat
      BY <1>0, <1>1, <1>4, <1>5, <1>5a, <3>1, UsableFits
    <3>2. n \in Nat /\ Len(g) \in Nat
      BY <1>4, LenProperties
    <3>3. PICK j, l : j = Len(g) /\ l = call[t].amount
      OBVIOUS
    <3>4. ASSUME call[t].op = "read" PROVE j + n # l
      BY <1>9, <1>15, <3>3, <3>4
    <3>5. ASSUME call[t].op = "read" PROVE j + n < l
      <4>1. j \in Nat /\ l \in Nat /\ j + n <= l
        BY <3>1, <3>2, <3>3, <3>5
      <4>2. j + n # l
        BY <3>4, <3>5
      <4> QED
        BY <3>2, <4>1, <4>2
    <3> QED
      BY <1>9, <3>3, <3>5
  <2>5. LockInv'
    BY <1>0, <1>15, <2>1, <2>2, <2>4, Runner DEF PipelineInv, LockInv, Owns
  <2>6. Placed'
    BY <1>0, <1>3, <1>12, <2>2, <2>3 DEF Placed
  <2>7. OutInv'
    BY <2>2 DEF PipelineInv, OutInv, ReadsInOrder
  <2>8. Shapes'
    <3>1. Shapes
      BY <1>0 DEF PipelineInv
    <3>2. got' \in [Tasks -> Seq(Bytes)] /\ pending' \in Chunks /\ Whole(pending')
      BY <1>8, <1>11, <2>1, <3>1 DEF Shapes
    <3> QED
      <4>1. /\ UNCHANGED <<limit, world, arrived, phase, rstate, buffer, outbox, token, rxAlive>>
            /\ channel' \in Seq(Sendable(world)) /\ Len(channel') <= ChannelSize
        BY <1>0, <1>2
      <4> QED
        BY <2>2, <3>1, <3>2, <4>1, ShapesTaken
  <2> QED
    BY <1>13, <2>5, <2>6, <2>7, <2>8 DEF PipelineInv
<1> QED
  BY <1>11, <1>14, <1>15

LEMMA TakeEndPreserves ==
  ASSUME PipelineInv, NEW t \in Tasks, TakeEnd(t)
  PROVE  PipelineInv'
<1>1. /\ Runs(t) /\ channel = <<>> /\ rstate \in {"none", "ended"} /\ Return(t)
      /\ UNCHANGED <<limit, world, arrived, phase, pending, rstate, buffer, outbox, channel, token,
                     rxAlive>>
  BY DEF TakeEnd, setup, readerVars
<1>2. PICK g \in Seq(Bytes) : g = got[t]
  BY <1>1, Runner
<1>2a. \/ /\ taken' = taken + Len(g) /\ got' = [got EXCEPT ![t] = <<>>]
          /\ readBytes' = Len(g) /\ cache' = g /\ UNCHANGED <<out, sawEnd>>
       \/ /\ taken' = taken + Len(g) /\ got' = [got EXCEPT ![t] = <<>>]
          /\ Deliver(t, g)
       \/ /\ g = <<>> /\ sawEnd' = TRUE /\ UNCHANGED <<got, cache, readBytes, taken, out>>
  <2>1. \/ /\ cache' = got[t] /\ readBytes' = Len(got[t])
           /\ taken' = taken + Len(got[t])
           /\ got' = [got EXCEPT ![t] = <<>>]
           /\ UNCHANGED <<out, sawEnd>>
        \/ Deliver(t, got[t])
        \/ /\ got[t] = <<>>
           /\ sawEnd' = TRUE
           /\ UNCHANGED <<got, cache, readBytes, taken, out>>
    BY Zenon DEF TakeEnd
  <2> QED
    BY <1>2, <2>1 DEF Deliver
<1>3. \A r \in Tasks : got'[r] = <<>>
  <2>1. \/ got' = [got EXCEPT ![t] = <<>>]
        \/ got' = got /\ got[t] = <<>>
    BY <1>2, <1>2a
  <2> QED
    BY <1>1, <2>1, Runner DEF PipelineInv, Shapes
<1>4. /\ LockInv' /\ Collected' = <<>>
      /\ lockQ' \in Seq(Tasks \cup {Exit}) /\ call' \in [Tasks -> Calls \cup {Idle}]
      /\ handle' \in BOOLEAN /\ borrower' \subseteq Tasks /\ running' \subseteq Tasks
      /\ cancelled' \subseteq Tasks
      /\ exit' \in {"open", "locking", "closed", "busy", "cancelled"}
  BY <1>1, <1>3, Runner, ReturnGivesMutex
<1>5. taken' = taken + Len(g)
  <2>1. \/ taken' = taken + Len(g)
        \/ taken' = taken /\ g = <<>>
    BY <1>2, <1>2a
  <2>2. Len(<<>>) = 0 /\ taken + 0 = taken
    BY EmptySeq, Places
  <2> QED
    BY <2>1, <2>2
<1>6. PICK k \in 0..arrived :
        /\ Spans(k, taken, g, Flat(pending'), InMessages(channel'), InMessages(outbox), Flat(buffer))
        /\ \/ k = arrived
           \/ rstate \in {"finishing", "ended"} /\ (token \/ "fail" \in world)
  BY <1>1, <1>2, Runner DEF PipelineInv, Placed
<1>7. pending' \in Chunks /\ InMessages(channel') \in Seq(Bytes)
  BY <1>1, Places DEF PipelineInv, Shapes
<1>8. Placed' /\ Follows(taken, g) /\ taken' \in 0..arrived /\ taken + Len(g) \in Nat
  BY <1>1, <1>4, <1>5, <1>6, <1>7, EndPlaced
<1>9. /\ \/ out' = out /\ readBytes' \in 0..taken'
         \/ Deliver(t, g)
      /\ cache' \in Seq(Bytes) \cup {Nothing} /\ sawEnd' \in BOOLEAN
  <2>1. readBytes \in 0..taken /\ cache \in Seq(Bytes) \cup {Nothing} /\ sawEnd \in BOOLEAN
    BY DEF PipelineInv, Shapes
  <2>2. readBytes \in 0..taken' /\ Len(g) \in 0..taken'
    BY <1>5, <2>1, Places, LenProperties
  <2> QED
    BY <1>2, <2>1, <2>2 DEF TakeEnd, Deliver
<1>10. CASE out' = out /\ readBytes' \in 0..taken'
  <2>1. OutInv'
    <3>1. \A i \in DOMAIN out : out[i] <= taken + Len(g)
      <4>1. ASSUME NEW i \in DOMAIN out PROVE out[i] <= taken + Len(g)
        <5>1. out[i] \in Nat
          <6>1. out[i] \in Bytes
            BY DEF PipelineInv, Shapes
          <6> QED
            BY <6>1, Places DEF Bytes
        <5>2. out[i] <= taken
          BY DEF PipelineInv, OutInv
        <5> QED
          BY <5>1, <5>2, Places, LenProperties
      <4> QED
        BY <4>1
    <3> QED
      BY <1>5, <1>10, <3>1 DEF PipelineInv, OutInv, ReadsInOrder
  <2>2. Shapes'
    <3>1. got' \in [Tasks -> Seq(Bytes)]
      BY <1>2, EmptySeq DEF TakeEnd, Deliver, PipelineInv, Shapes
    <3> QED
      BY <1>1, <1>4, <1>8, <1>9, <1>10, <3>1 DEF PipelineInv, Shapes
  <2>3. ReaderInv'
    BY <1>1 DEF PipelineInv, ReaderInv
  <2> QED
    BY <1>4, <1>8, <2>1, <2>2, <2>3 DEF PipelineInv
<1>11. CASE Deliver(t, g)
  <2>1. out' = out \o g /\ readBytes' = readBytes + Len(g) /\ got' = [got EXCEPT ![t] = <<>>]
    BY <1>11 DEF Deliver
  <2>2. PICK s \in Seq(Bytes) : s = out /\ out' \in Seq(Bytes) /\ Glued(out', s, g)
    BY <2>1, ConcatProperties DEF Glued, PipelineInv, Shapes
  <2>3. OutInv'
    <3>1. /\ \A i \in DOMAIN s : s[i] <= taken
          /\ \A i, j \in DOMAIN s : i < j => s[i] < s[j]
      BY <2>2 DEF PipelineInv, OutInv, ReadsInOrder
    <3>2. /\ \A i \in DOMAIN out' : out'[i] <= taken + Len(g)
          /\ \A i, j \in DOMAIN out' : i < j => out'[i] < out'[j]
      BY <1>8, <2>2, <3>1, Places, OutGrows
    <3> QED
      BY <1>5, <3>2 DEF OutInv, ReadsInOrder
  <2>4. Shapes'
    <3>1. readBytes' \in 0..taken'
      BY <1>5, <1>8, <2>1, Places, LenProperties DEF PipelineInv, Shapes
    <3>2. got' \in [Tasks -> Seq(Bytes)]
      BY <2>1, EmptySeq DEF PipelineInv, Shapes
    <3> QED
      BY <1>1, <1>4, <1>8, <1>9, <2>2, <3>1, <3>2 DEF PipelineInv, Shapes
  <2>5. ReaderInv'
    BY <1>1 DEF PipelineInv, ReaderInv
  <2> QED
    BY <1>4, <1>8, <2>3, <2>4, <2>5 DEF PipelineInv
<1> QED
  BY <1>9, <1>10, <1>11

(* A call that ends with an error gives up what it had collected, but not   *)
(* its place in the body.                                                   *)
LEMMA LosePreserves ==
  ASSUME PipelineInv, NEW t \in Tasks, Runs(t), Return(t), Lose(t),
         UNCHANGED <<setup, arrived, phase, readerVars, token, rxAlive>>,
         channel' \in Seq(Sendable(world)), Len(channel') <= ChannelSize,
         channel = <<>> => channel' = <<>>, InMessages(channel') = InMessages(channel)
  PROVE  PipelineInv'
<1> USE DEF setup, readerVars
<1>1. PICK g \in Seq(Bytes) : g = got[t]
  BY Runner
<1>2. /\ UNCHANGED <<cache, readBytes, out, sawEnd, pending>>
      /\ taken' = taken + Len(g) /\ got' = [got EXCEPT ![t] = <<>>]
  BY <1>1 DEF Lose
<1>3. \A r \in Tasks : got'[r] = <<>>
  BY <1>2, Runner DEF PipelineInv, Shapes
<1>4. /\ LockInv' /\ Collected' = <<>>
      /\ lockQ' \in Seq(Tasks \cup {Exit}) /\ call' \in [Tasks -> Calls \cup {Idle}]
      /\ handle' \in BOOLEAN /\ borrower' \subseteq Tasks /\ running' \subseteq Tasks
      /\ cancelled' \subseteq Tasks
      /\ exit' \in {"open", "locking", "closed", "busy", "cancelled"}
  BY <1>3, Runner, ReturnGivesMutex
<1>5. PICK k \in 0..arrived :
        /\ Spans(k, taken, g, Flat(pending'), InMessages(channel'), InMessages(outbox), Flat(buffer))
        /\ \/ k = arrived
           \/ rstate \in {"finishing", "ended"} /\ (token \/ "fail" \in world)
  BY <1>1, <1>2, Runner DEF PipelineInv, Placed
<1>6. pending' \in Chunks /\ InMessages(channel') \in Seq(Bytes)
  BY <1>2, Places DEF PipelineInv, Shapes
<1>7. Placed' /\ taken' \in 0..arrived /\ taken <= taken'
  BY <1>2, <1>4, <1>5, <1>6, EndPlaced, Places, LenProperties
<1>8. OutInv'
  <2>1. ASSUME NEW i \in DOMAIN out PROVE out[i] <= taken'
    <3>1. out[i] \in Nat
      <4>1. out[i] \in Bytes
        BY DEF PipelineInv, Shapes
      <4> QED
        BY <4>1, Places DEF Bytes
    <3>2. out[i] <= taken
      BY DEF PipelineInv, OutInv
    <3> QED
      BY <1>7, <3>1, <3>2, Places
  <2> QED
    BY <1>2, <2>1 DEF PipelineInv, OutInv, ReadsInOrder
<1>9. Shapes'
  <2>1. got' \in [Tasks -> Seq(Bytes)]
    BY <1>2, EmptySeq DEF PipelineInv, Shapes
  <2>2. readBytes' \in 0..taken'
    BY <1>2, <1>7, Places DEF PipelineInv, Shapes
  <2> QED
    BY <1>2, <1>4, <1>7, <2>1, <2>2 DEF PipelineInv, Shapes
<1>10. ReaderInv'
  BY DEF PipelineInv, ReaderInv
<1> QED
  BY <1>4, <1>7, <1>8, <1>9, <1>10 DEF PipelineInv

LEMMA TakeFailurePreserves ==
  ASSUME PipelineInv, NEW t \in Tasks, TakeFailure(t)
  PROVE  PipelineInv'
<1> USE DEF TakeFailure
<1>1. /\ channel \in Seq(Sendable(world)) /\ channel # <<>> /\ channel' = Tail(channel)
      /\ Head(channel).chunks = <<>> /\ Len(channel) <= 2
  BY DEF NextChunks, PipelineInv, Shapes, ChannelSize
<1>2. channel' \in Seq(Sendable(world)) /\ Len(channel') <= ChannelSize
  BY <1>1 DEF ChannelSize
<1>3. InMessages(channel') = InMessages(channel)
  <2>1. PICK m \in Seq(Bytes) : m = InMessages(channel')
    BY <1>1, Places, MessagesHead, MessagesType
  <2>2. InMessages(channel) = Flat(<<>>) \o m
    BY <1>1, <2>1, Places, MessagesHead
  <2>3. InMessages(channel) = <<>> \o m
    BY <2>2, FlatEmpty
  <2> QED
    BY <2>1, <2>3
<1> QED
  BY <1>1, <1>2, <1>3, LosePreserves

LEMMA TakeCancelPreserves ==
  ASSUME PipelineInv, NEW t \in Tasks, TakeCancel(t)
  PROVE  PipelineInv'
<1> USE DEF TakeCancel
<1>1. channel' \in Seq(Sendable(world)) /\ Len(channel') <= ChannelSize
  BY DEF PipelineInv, Shapes
<1> QED
  BY <1>1, LosePreserves

-----------------------------------------------------------------------------
(* The receiver goes, with what it held.                                    *)
LEMMA DropPreserves ==
  ASSUME PipelineInv, DropReceiver, phase = "body", lockQ = <<>>,
         UNCHANGED <<setup, arrived, readerVars>>,
         UNCHANGED <<handle, borrower, lockQ, call, running, cancelled>>,
         UNCHANGED <<got, cache, readBytes, taken, out, sawEnd>>,
         exit' \in {"open", "locking", "closed", "busy", "cancelled"},
         token' \in BOOLEAN, token' => rstate # "none"
  PROVE  PipelineInv'
<1> USE DEF DropReceiver, setup, readerVars
<1>1. Shapes'
  <2>1. /\ pending' \in Chunks /\ Whole(pending')
        /\ channel' \in Seq(Sendable(world)) /\ Len(channel') <= ChannelSize
    BY FlatEmpty, EmptySeq DEF ChannelSize
  <2> QED
    BY <2>1 DEF PipelineInv, Shapes
<1>2. ReaderInv'
  BY DEF PipelineInv, ReaderInv
<1>3. LockInv'
  BY DEF PipelineInv, LockInv, Owns
<1>4. Placed' /\ OutInv'
  BY DEF PipelineInv, Placed, OutInv, ReadsInOrder
<1> QED
  BY <1>1, <1>2, <1>3, <1>4 DEF PipelineInv

LEMMA ExitClosesPreserves == PipelineInv /\ ExitCloses => PipelineInv'
<1> SUFFICES ASSUME PipelineInv, ExitCloses PROVE PipelineInv'
  OBVIOUS
<1>1. lockQ = <<>>
  BY DEF PipelineInv, LockInv, ExitCloses
<1>2. token' \in BOOLEAN /\ (token' => rstate # "none")
  BY DEF ExitCloses, HasReceiver
<1> QED
  BY <1>1, <1>2, DropPreserves DEF ExitCloses

LEMMA DropReaderPreserves == PipelineInv /\ DropReader => PipelineInv'
<1> SUFFICES ASSUME PipelineInv, DropReader PROVE PipelineInv'
  OBVIOUS
<1>1. /\ UNCHANGED <<setup, arrived, readerVars, token, handle, borrower, lockQ, call, running,
                     cancelled, exit, got, cache, readBytes, taken, out, sawEnd>>
      /\ DropReceiver /\ phase = "body" /\ lockQ = <<>>
  BY DEF DropReader, accessVars
<1>2. /\ token' \in BOOLEAN /\ (token' => rstate # "none")
      /\ exit' \in {"open", "locking", "closed", "busy", "cancelled"}
  BY <1>1 DEF PipelineInv, ReaderInv, Shapes
<1> QED
  BY <1>1, <1>2, DropPreserves

LEMMA StutterPreserves == PipelineInv /\ UNCHANGED vars => PipelineInv'
<1> SUFFICES ASSUME PipelineInv, UNCHANGED vars PROVE PipelineInv'
  OBVIOUS
<1> USE DEF vars, setup, readerVars, dataVars
<1>1. Collected' = Collected
  BY DEF Collected
<1>2. LockInv'
  BY DEF PipelineInv, LockInv, Owns
<1>3. token' => rstate # "none"
  BY DEF PipelineInv, ReaderInv, Shapes
<1> QED
  BY <1>1, <1>2, <1>3, AccessKeeps DEF PipelineInv, Shapes

LEMMA PipelineStep == PipelineInv /\ [Next]_vars => PipelineInv'
<1> SUFFICES ASSUME PipelineInv, [Next]_vars PROVE PipelineInv'
  OBVIOUS
<1>1. CASE HeadStep
  BY <1>1, SkipReadAheadPreserves, ReadAheadEndsPreserves, ReadAheadFailsPreserves,
     ReadAheadPreserves DEF HeadStep
<1>2. CASE NetworkStep
  BY <1>2, ReaderEndsPreserves, ReaderFailsPreserves, ReaderFramePreserves DEF NetworkStep
<1>3. CASE ReaderWakes
  BY <1>3, ReaderWakesPreserves
<1>4. ASSUME NEW t \in Tasks, CallResponse(t) PROVE PipelineInv'
  <2>1. [op |-> "bytes", amount |-> 0] \in Calls
    BY DEF Calls
  <2> QED
    BY <1>4, <2>1, StartCallPreserves DEF CallResponse
<1>5. ASSUME NEW t \in Tasks, NEW c \in Calls, CallReader(t, c) PROVE PipelineInv'
  BY <1>5, StartCallPreserves DEF CallReader
<1>6. ASSUME NEW t \in Tasks, Cancel(t) PROVE PipelineInv'
  BY <1>6, CancelPreserves
<1>7. ASSUME NEW t \in Tasks, CallStep(t) PROVE PipelineInv'
  BY <1>7, ReturnAtOncePreserves, BeginPreserves, TakeChunkPreserves, TakeEndPreserves,
     TakeFailurePreserves, TakeCancelPreserves DEF CallStep
<1>8. CASE TakeHandle \/ ExitStep \/ DropReader
  BY <1>8, TakeHandlePreserves, ExitFindsBorrowPreserves, ExitClosesPreserves, ExitWaitsPreserves,
     ExitLockedPreserves, ExitCancelledPreserves, DropReaderPreserves DEF ExitStep
<1>9. CASE UNCHANGED vars
  BY <1>9, StutterPreserves
<1> QED
  BY <1>1, <1>2, <1>3, <1>4, <1>5, <1>6, <1>7, <1>8, <1>9, Zenon DEF Next

(* The inductive invariant of the pipeline: every byte between reqwest and  *)
(* the callers has its place in it, whatever fails, is cancelled or closed. *)
THEOREM PipelineInvariant == Spec => []PipelineInv
<1>1. Init => PipelineInv
  BY PipelineInit
<1>2. PipelineInv /\ [Next]_vars => PipelineInv'
  BY PipelineStep
<1> QED
  BY <1>1, <1>2, PTL DEF Spec

-----------------------------------------------------------------------------
(* What the invariant says of the whole pipeline.                           *)
Joined(w, c, p, m, o, b) == w = c \o p \o m \o o \o b

LEMMA SpansIntact ==
  ASSUME NEW c \in Seq(Bytes), NEW p \in Seq(Bytes), NEW m \in Seq(Bytes),
         NEW o \in Seq(Bytes), NEW b \in Seq(Bytes), NEW a \in Nat, NEW k \in Nat,
         Spans(k, a, c, p, m, o, b), NEW w, Joined(w, c, p, m, o, b)
  PROVE  w \in Seq(Bytes) /\ Follows(a, w) /\ a + Len(w) = k
<1>1. PICK u \in Seq(Bytes) : Glued(u, c, p)
  BY ConcatProperties DEF Glued
<1>2. PICK v \in Seq(Bytes) : Glued(v, u, m)
  BY ConcatProperties DEF Glued
<1>3. PICK x \in Seq(Bytes) : Glued(x, v, o)
  BY ConcatProperties DEF Glued
<1>4. Glued(w, x, b)
  BY <1>1, <1>2, <1>3, Zenon DEF Glued, Joined
<1>5. /\ Follows(a, c) /\ Follows(a + Len(c), p) /\ Follows(a + Len(c) + Len(p), m)
      /\ Follows(a + Len(c) + Len(p) + Len(m), o)
      /\ Follows(a + Len(c) + Len(p) + Len(m) + Len(o), b)
      /\ a + (Len(c) + Len(p) + Len(m) + Len(o) + Len(b)) = k
  BY DEF Spans, Laid, Total
<1>6. Follows(a, u) /\ Len(u) = Len(c) + Len(p)
  BY <1>1, <1>5, GluedFollows
<1>7. Follows(a, v) /\ Len(v) = Len(c) + Len(p) + Len(m)
  <2>1. a + Len(u) = a + Len(c) + Len(p)
    BY <1>6, LenProperties
  <2>2. v \in Seq(Bytes) /\ Len(v) = Len(u) + Len(m)
    BY <1>2, GluedFollows
  <2>3. Follows(a, v)
    <3>1. Follows(a, u) /\ Follows(a + Len(u), m)
      BY <1>5, <1>6, <2>1, Zenon
    <3> QED
      BY <1>2, <3>1, GluedFollows
  <2>4. Len(v) = Len(c) + Len(p) + Len(m)
    BY <1>6, <2>2
  <2> QED
    BY <2>2, <2>3, <2>4
<1>8. Follows(a, x) /\ Len(x) = Len(c) + Len(p) + Len(m) + Len(o)
  <2>1. a + Len(v) = a + Len(c) + Len(p) + Len(m)
    BY <1>7, LenProperties
  <2>2. x \in Seq(Bytes) /\ Len(x) = Len(v) + Len(o)
    BY <1>3, GluedFollows
  <2>3. Follows(a, x)
    <3>1. Follows(a, v) /\ Follows(a + Len(v), o)
      BY <1>5, <1>7, <2>1, Zenon
    <3> QED
      BY <1>3, <3>1, GluedFollows
  <2>4. Len(x) = Len(c) + Len(p) + Len(m) + Len(o)
    BY <1>7, <2>2
  <2> QED
    BY <2>2, <2>3, <2>4
<1>9. Follows(a, w) /\ Len(w) = Len(c) + Len(p) + Len(m) + Len(o) + Len(b) /\ w \in Seq(Bytes)
  <2>1. a + Len(x) = a + Len(c) + Len(p) + Len(m) + Len(o)
    BY <1>8, LenProperties
  <2>2. w \in Seq(Bytes) /\ Len(w) = Len(x) + Len(b)
    BY <1>4, GluedFollows
  <2>3. Follows(a, w)
    <3>1. Follows(a, x) /\ Follows(a + Len(x), b)
      BY <1>5, <1>8, <2>1, Zenon
    <3> QED
      BY <1>4, <3>1, GluedFollows
  <2>4. Len(w) = Len(c) + Len(p) + Len(m) + Len(o) + Len(b)
    BY <1>8, <2>2
  <2> QED
    BY <2>2, <2>3, <2>4
<1> QED
  BY <1>5, <1>9

LEMMA IntactFromPlaced == PipelineInv => PipelineIntact
<1> SUFFICES ASSUME PipelineInv, phase # "gone"
             PROVE  /\ Pipeline = SubSeq(Body, taken + 1, taken + Len(Pipeline))
                    /\ \/ taken + Len(Pipeline) = arrived
                       \/ token \/ "fail" \in world
  BY DEF PipelineIntact
<1>1. PICK c \in Seq(Bytes), p \in Seq(Bytes), m \in Seq(Bytes), o \in Seq(Bytes), b \in Seq(Bytes) :
        /\ c = Collected /\ p = Flat(pending) /\ m = InMessages(channel)
        /\ o = InMessages(outbox) /\ b = Flat(buffer)
  BY Places
<1>2. PICK k \in 0..arrived :
        /\ Spans(k, taken, c, p, m, o, b)
        /\ k = arrived \/ token \/ "fail" \in world
  BY <1>1 DEF PipelineInv, Placed
<1>3. k \in Nat /\ k <= BodyLen /\ taken \in Nat
  BY <1>2, Counts
<1>4. PICK w : w = Pipeline /\ Joined(w, c, p, m, o, b)
  BY <1>1 DEF Pipeline, Joined
<1>5. w \in Seq(Bytes) /\ Follows(taken, w) /\ taken + Len(w) = k
  <2>1. Spans(k, taken, c, p, m, o, b) /\ Joined(w, c, p, m, o, b) /\ taken \in Nat /\ k \in Nat
    BY <1>2, <1>3, <1>4
  <2> HIDE <1>1
  <2> QED
    BY <2>1, SpansIntact, SMTT(60)
<1>6. PICK n \in Nat : n = Len(w) /\ taken + n = k
  BY <1>5, LenProperties
<1>7. PICK v : v = SubSeq(Body, taken + 1, taken + n)
  OBVIOUS
<1>8. v \in Seq(Bytes) /\ Len(v) = n /\ Follows(taken, v)
  BY <1>3, <1>6, <1>7, SliceFollows
<1>9. w = v
  BY <1>5, <1>6, <1>8, FollowsSame
<1> QED
  BY <1>2, <1>4, <1>6, <1>7, <1>9

LEMMA TypeFromShapes == PipelineInv => TypeOK
<1> SUFFICES ASSUME PipelineInv PROVE TypeOK
  OBVIOUS
<1> USE DEF PipelineInv, Shapes
<1>1. ASSUME NEW s \in Seq(Bytes) PROVE ToSet(s) \subseteq 1..BodyLen
  <2>1. DOMAIN s = 1..Len(s) /\ \A i \in 1..Len(s) : s[i] \in Bytes
    OBVIOUS
  <2> QED
    BY <2>1 DEF ToSet, Bytes
<1>2. /\ \A i \in DOMAIN pending : pending[i] \in Seq(Bytes)
      /\ \A i \in DOMAIN buffer : buffer[i] \in Seq(Bytes)
  BY DEF Chunks, Bytes
<1>3. \A i \in DOMAIN pending : pending[i] # <<>> /\ ToSet(pending[i]) \subseteq 1..BodyLen
  BY <1>1, <1>2 DEF Whole
<1>4. \A i \in DOMAIN buffer : ToSet(buffer[i]) \subseteq 1..BodyLen
  BY <1>1, <1>2
<1>5. \A t \in Tasks : ToSet(got[t]) \subseteq 1..BodyLen
  BY <1>1
<1>6. cache = Nothing \/ ToSet(cache) \subseteq 1..BodyLen
  BY <1>1
<1>7. readBytes \in 0..BodyLen /\ taken \in 0..BodyLen
  BY Places
<1> QED
  BY <1>3, <1>4, <1>5, <1>6, <1>7 DEF TypeOK

(* No byte is lost, repeated or reordered between reqwest and the callers,  *)
(* for every body, frame size, buffer limit and number of callers.          *)
THEOREM PipelineIsSound == Spec => []PipelineSound
<1>1. PipelineInv => PipelineSound
  BY IntactFromPlaced, TypeFromShapes DEF PipelineInv, OutInv, PipelineSound
<1> QED
  BY <1>1, PipelineInvariant, PTL

-----------------------------------------------------------------------------
(* Back-pressure.                                                           *)
LEMMA BatchSize ==
  ASSUME PipelineInv, limit # NoLimit
  PROVE  /\ limit \in Nat /\ Batch \in Nat
         /\ limit # 0 => Batch = limit - 1 + MaxFrame /\ limit <= Batch
         /\ MaxFrame \in Nat /\ MaxFrame <= Batch
BY SizesAssumption DEF PipelineInv, Shapes, Batch

LEMMA SmallData ==
  ASSUME NEW c, Size(c) <= Batch PROVE Small(<<Data(c)>>)
BY DEF Small, Data

LEMMA SmallEmpty == Small(<<>>)
BY EmptySeq DEF Small

(* Taking something away leaves little where there was little.              *)
LEMMA SmallTail ==
  ASSUME NEW M \in Seq(Messages), M # <<>>, Small(M)
  PROVE  Small(Tail(M)) /\ Size(Head(M).chunks) <= Batch
<1>1. DOMAIN M = 1..Len(M) /\ 1 \in 1..Len(M) /\ Head(M) = M[1]
  OBVIOUS
<1>2. /\ DOMAIN Tail(M) = 1..(Len(M) - 1)
      /\ \A i \in 1..(Len(M) - 1) : Tail(M)[i] = M[i + 1] /\ i + 1 \in 1..Len(M)
  OBVIOUS
<1> QED
  BY <1>1, <1>2 DEF Small

LEMMA SmallConcat ==
  ASSUME NEW M \in Seq(Messages), NEW N \in Seq(Messages), Small(M), Small(N)
  PROVE  Small(M \o N)
<1>1. PICK k, m, n : k = M \o N /\ m = Len(M) /\ n = Len(N) /\ m \in Nat /\ n \in Nat
  BY LenProperties
<1>2. /\ DOMAIN k = 1..(m + n) /\ DOMAIN M = 1..m /\ DOMAIN N = 1..n
      /\ \A i \in 1..(m + n) : k[i] = IF i <= m THEN M[i] ELSE N[i - m]
  BY <1>1, LenProperties, ConcatProperties
<1>3. ASSUME NEW i \in 1..(m + n) PROVE Size(k[i].chunks) <= Batch
  <2>1. CASE i <= m
    <3>1. i \in 1..m /\ k[i] = M[i]
      BY <1>1, <1>2, <2>1
    <3> QED
      BY <1>2, <3>1 DEF Small
  <2>2. CASE ~(i <= m)
    <3>1. i - m \in 1..n /\ k[i] = N[i - m]
      BY <1>1, <1>2, <2>2
    <3> QED
      BY <1>2, <3>1 DEF Small
  <2> QED
    BY <2>1, <2>2
<1> QED
  BY <1>1, <1>2, <1>3 DEF Small

(* What stays with a step that moves nothing.                               *)
LEMMA BoundKeeps ==
  ASSUME BoundInv, UNCHANGED <<limit, pending, channel, outbox, buffer>>,
         phase' = "head" => phase = "head" /\ arrived' = arrived
  PROVE  BoundInv'
BY DEF BoundInv, Small, Batch

LEMMA ReadAheadBounded ==
  ASSUME PipelineInv, BoundInv, NEW n \in FrameSizes, ReadAhead(n)
  PROVE  BoundInv'
<1> SUFFICES ASSUME limit # NoLimit PROVE BoundInv'
  BY DEF BoundInv, ReadAhead, setup
<1>1. /\ phase = "head" /\ limit # 0 /\ limit' = limit
      /\ pending' = Append(pending, Frame(n)) /\ arrived' = arrived + n
      /\ phase' = "head" => arrived + n < limit
      /\ UNCHANGED <<channel, outbox, buffer>>
  <2>1. arrived + n \in Nat /\ limit \in Nat
    BY FrameArrives, Places, BatchSize
  <2>2. ~(arrived + n >= limit) => arrived + n < limit
    BY <2>1
  <2> QED
    BY <2>2 DEF ReadAhead, setup, StartReader
<1>2. /\ limit \in Nat /\ Batch \in Nat /\ Batch = limit - 1 + MaxFrame
      /\ MaxFrame \in Nat /\ MaxFrame <= Batch
  BY <1>1, BatchSize
<1>3. Frame(n) \in Seq(Bytes) /\ Len(Frame(n)) = n /\ n \in Nat /\ n <= MaxFrame
  BY FrameArrives
<1>4. Size(pending') = Size(pending) + n /\ Size(pending) \in Nat
  BY <1>1, <1>3, FlatAppend, ChunksFlat DEF PipelineInv, Shapes
<1>5. Size(pending) <= arrived
  <2>1. PICK p \in Seq(Bytes) : p = Flat(pending)
    BY Places
  <2>2. Spans(arrived, taken, <<>>, p, <<>>, <<>>, <<>>)
    BY <1>1, <2>1, AheadOnly, FlatEmpty, MessagesEmpty DEF PipelineInv, Placed
  <2>3. taken + Total(<<>>, p, <<>>, <<>>, <<>>) = arrived
    BY <2>2 DEF Spans
  <2>4. Len(p) <= arrived
    BY <2>3, EmptySeq, Places, LenProperties DEF Total
  <2> QED
    BY <2>1, <2>4 DEF Size
<1>6. arrived = 0 \/ arrived < limit
  BY <1>1 DEF BoundInv
<1>7. Size(pending') <= Batch
  BY <1>2, <1>3, <1>4, <1>5, <1>6, Counts
<1>8. Batch' = Batch
  BY <1>1 DEF Batch
<1>9. Small(channel)' /\ Small(outbox)' /\ buffer' = <<>>
  BY <1>1, AheadOnly, SmallEmpty DEF Small
<1> QED
  BY <1>1, <1>7, <1>8, <1>9 DEF BoundInv

LEMMA ReaderFrameBounded ==
  ASSUME PipelineInv, BoundInv, NEW n \in FrameSizes, ReaderFrame(n)
  PROVE  BoundInv'
<1> SUFFICES ASSUME limit # NoLimit PROVE BoundInv'
  BY DEF BoundInv, ReaderFrame, setup
<1>1. PICK batch : batch = Append(buffer, Frame(n))
  OBVIOUS
<1>2. /\ \/ Size(batch) < limit /\ buffer' = batch /\ outbox' = outbox
         \/ buffer' = <<>> /\ outbox' = <<Data(batch)>>
      /\ UNCHANGED <<limit, pending, channel, phase>> /\ rstate = "reading"
  BY <1>1 DEF ReaderFrame, setup, dataVars
<1>3. Frame(n) \in Seq(Bytes) /\ Len(Frame(n)) = n /\ n \in Nat /\ n <= MaxFrame
  BY FrameArrives
<1>4. Size(batch) = Size(buffer) + n /\ Size(buffer) \in Nat
  BY <1>1, <1>3, FlatAppend, ChunksFlat DEF PipelineInv, Shapes
<1>5. /\ limit \in Nat /\ Batch \in Nat /\ MaxFrame \in Nat /\ MaxFrame <= Batch
      /\ limit # 0 => Batch = limit - 1 + MaxFrame
  BY BatchSize
<1>6. Size(batch) <= Batch
  <2>1. CASE buffer = <<>>
    <3>1. Size(buffer) = 0
      BY <2>1, FlatEmpty
    <3> QED
      BY <1>3, <1>4, <1>5, <3>1
  <2>2. CASE buffer # <<>>
    <3>1. Size(buffer) < limit
      BY <2>2 DEF BoundInv
    <3> QED
      BY <1>3, <1>4, <1>5, <3>1
  <2> QED
    BY <2>1, <2>2
<1>7. Batch' = Batch
  BY <1>2 DEF Batch
<1>8. phase' # "head"
  BY <1>2, WhileReading
<1>9. Small(channel)' /\ Size(pending') <= Batch'
  BY <1>2, <1>7 DEF Small, BoundInv
<1>10. Small(outbox)'
  <2>1. Small(outbox)
    BY DEF BoundInv
  <2>2. Small(<<Data(batch)>>)
    BY <1>6, SmallData
  <2> QED
    BY <1>2, <1>7, <2>1, <2>2 DEF Small
<1>11. buffer' = <<>> \/ Size(buffer') < limit'
  BY <1>2
<1> QED
  BY <1>8, <1>9, <1>10, <1>11 DEF BoundInv

LEMMA ReaderEndsBounded ==
  ASSUME PipelineInv, BoundInv, ReaderEnds
  PROVE  BoundInv'
<1> SUFFICES ASSUME limit # NoLimit PROVE BoundInv'
  BY DEF BoundInv, ReaderEnds, setup
<1>1. /\ buffer' = <<>>
      /\ \/ outbox' = outbox
         \/ buffer # <<>> /\ outbox' = <<Data(buffer)>>
      /\ UNCHANGED <<limit, pending, channel, phase>> /\ rstate = "reading"
  BY DEF ReaderEnds, setup, dataVars
<1>2. Batch' = Batch
  BY <1>1 DEF Batch
<1>3. Small(<<Data(buffer)>>) \/ buffer = <<>>
  <2>1. ASSUME buffer # <<>> PROVE Size(buffer) <= Batch
    <3>1. Size(buffer) < limit
      BY <2>1 DEF BoundInv
    <3>2. Size(buffer) \in Nat
      BY ChunksFlat DEF PipelineInv, Shapes
    <3> QED
      BY <3>1, <3>2, BatchSize
  <2> QED
    BY <2>1, SmallData
<1>4. Small(outbox)'
  <2>1. Small(outbox)
    BY DEF BoundInv
  <2> QED
    BY <1>1, <1>2, <1>3, <2>1 DEF Small
<1>5. phase' # "head"
  BY <1>1, WhileReading
<1>6. Small(channel)' /\ Size(pending') <= Batch'
  BY <1>1, <1>2 DEF Small, BoundInv
<1> QED
  BY <1>1, <1>4, <1>5, <1>6 DEF BoundInv

LEMMA ReaderFailsBounded ==
  ASSUME PipelineInv, BoundInv, ReaderFails
  PROVE  BoundInv'
<1>1. Size(Failure.chunks) = 0
  BY FlatEmpty DEF Failure
<1>2. limit # NoLimit => Small(<<Failure>>)
  BY <1>1, BatchSize DEF Small
<1> QED
  BY <1>2 DEF BoundInv, ReaderFails, setup, dataVars, Small, Batch

LEMMA ReaderWakesBounded ==
  ASSUME PipelineInv, BoundInv, ReaderWakes
  PROVE  BoundInv'
<1> SUFFICES ASSUME limit # NoLimit PROVE BoundInv'
  BY DEF BoundInv, ReaderWakes, ReaderSends, ReaderSendFails, ReaderSeesToken, ReaderStops, setup
<1>1. CASE ReaderSends
  <2>1. Small(channel \o outbox)
    BY Places, SmallConcat DEF BoundInv
  <2> QED
    BY <1>1, <2>1, SmallEmpty DEF BoundInv, ReaderSends, setup, dataVars, Small, Batch
<1>2. CASE ReaderStops
  BY <1>2, SmallEmpty DEF BoundInv, ReaderStops, setup, dataVars, Small, Batch
<1> QED
  BY <1>1, <1>2 DEF ReaderWakes, ReaderSendFails, ReaderSeesToken

LEMMA TakeChunkBounded ==
  ASSUME PipelineInv, BoundInv, NEW t \in Tasks, TakeChunk(t)
  PROVE  BoundInv'
<1> SUFFICES ASSUME limit # NoLimit PROVE BoundInv'
  BY DEF BoundInv, TakeChunk, setup
<1>1. /\ Runs(t) /\ NextChunks # <<>>
      /\ channel' = IF pending = <<>> THEN Tail(channel) ELSE channel
      /\ UNCHANGED <<limit, phase, arrived, outbox, buffer>>
  BY DEF TakeChunk, setup, readerVars
<1>2. PICK c, n : c = NextChunks /\ n = Usable(t, Head(c))
  OBVIOUS
<1>3. c \in Chunks /\ Whole(c) /\ c # <<>> /\ pending' = PutBack(Head(c), n, Tail(c))
  BY <1>1, <1>2, Received DEF TakeChunk
<1>4. n \in 0..Len(Head(c))
  <2>1. Head(c) \in Seq(Bytes)
    BY <1>3 DEF Chunks, Bytes
  <2> QED
    BY <1>1, <1>2, <2>1, UsableFits
<1>5. Size(c) <= Batch /\ Small(channel')
  <2>1. CASE pending # <<>>
    BY <1>1, <1>2, <2>1 DEF NextChunks, BoundInv
  <2>2. CASE pending = <<>>
    <3>1. channel # <<>> /\ c = Head(channel).chunks /\ channel' = Tail(channel)
      BY <1>1, <1>2, <2>2 DEF NextChunks
    <3> QED
      BY <3>1, Places, SmallTail DEF BoundInv
  <2> QED
    BY <2>1, <2>2
<1>6. Size(pending') <= Size(c) /\ Size(c) \in Nat /\ Size(pending') \in Nat
  <2>1. PICK a \in Nat : Follows(a, Flat(c))
    <3>1. PICK k \in 0..arrived :
            Spans(k, taken, got[t], Flat(c), InMessages(channel'), InMessages(outbox), Flat(buffer))
      BY <1>1, <1>2, Received
    <3>2. taken + Len(got[t]) \in Nat
      <4>1. PICK g \in Seq(Bytes) : g = got[t]
        BY <1>1, Runner
      <4> QED
        BY <1>1, <4>1, Counts, LenProperties
    <3> QED
      BY <3>1, <3>2 DEF Spans, Laid
  <2>2. Len(Flat(c)) = n + Len(Flat(pending')) /\ pending' \in Chunks
    BY <1>3, <1>4, <2>1, PutBackKeeps
  <2>3. Size(c) = n + Size(pending') /\ Size(c) \in Nat /\ Size(pending') \in Nat
    BY <1>3, <2>2, ChunksFlat
  <2>4. n \in Nat
    BY <1>4
  <2> QED
    BY <2>3, <2>4
<1>7. Size(pending') <= Batch
  BY <1>5, <1>6, BatchSize
<1>8. Batch' = Batch
  BY <1>1 DEF Batch
<1>9. Small(channel)' /\ Small(outbox)'
  BY <1>1, <1>5, <1>8 DEF BoundInv, Small
<1> QED
  BY <1>1, <1>7, <1>8, <1>9 DEF BoundInv

LEMMA TakeFailureBounded ==
  ASSUME PipelineInv, BoundInv, NEW t \in Tasks, TakeFailure(t)
  PROVE  BoundInv'
<1>1. /\ UNCHANGED <<limit, phase, arrived, pending, outbox, buffer>>
      /\ channel # <<>> /\ channel' = Tail(channel)
  BY DEF TakeFailure, Lose, setup, readerVars
<1>2. ASSUME limit # NoLimit PROVE Small(channel')
  BY <1>1, <1>2, Places, SmallTail DEF BoundInv
<1> QED
  BY <1>1, <1>2 DEF BoundInv, Small, Batch

LEMMA DropBounded ==
  ASSUME PipelineInv, BoundInv, DropReceiver, UNCHANGED <<limit, outbox, buffer>>
  PROVE  BoundInv'
<1>1. limit # NoLimit => Size(<<>>) <= Batch
  BY FlatEmpty, BatchSize
<1> QED
  BY <1>1, SmallEmpty DEF BoundInv, DropReceiver, Small, Batch

LEMMA BoundStep == PipelineInv /\ BoundInv /\ [Next]_vars => BoundInv'
<1> SUFFICES ASSUME PipelineInv, BoundInv, [Next]_vars PROVE BoundInv'
  OBVIOUS
<1>1. CASE HeadStep
  <2>1. CASE SkipReadAhead
    BY <2>1, BoundKeeps DEF SkipReadAhead, StartReader, setup, dataVars
  <2>2. CASE ReadAheadEnds
    BY <2>2, BoundKeeps DEF ReadAheadEnds, NoReader, setup, dataVars
  <2>3. CASE ReadAheadFails
    BY <2>3, BoundKeeps DEF ReadAheadFails, setup, readerVars, dataVars
  <2> QED
    BY <1>1, <2>1, <2>2, <2>3, ReadAheadBounded DEF HeadStep
<1>2. CASE NetworkStep
  BY <1>2, ReaderEndsBounded, ReaderFailsBounded, ReaderFrameBounded DEF NetworkStep
<1>3. CASE ReaderWakes
  BY <1>3, ReaderWakesBounded
<1>4. ASSUME NEW t \in Tasks, \/ CallResponse(t) \/ (\E c \in Calls : CallReader(t, c))
                              \/ Cancel(t) \/ ReturnAtOnce(t) \/ Begin(t)
      PROVE  BoundInv'
  BY <1>4, BoundKeeps
     DEF CallResponse, CallReader, StartCall, Cancel, ReturnAtOnce, Begin, setup, readerVars, dataVars
<1>5. ASSUME NEW t \in Tasks, TakeEnd(t) \/ TakeCancel(t) PROVE BoundInv'
  BY <1>5, BoundKeeps DEF TakeEnd, TakeCancel, Lose, setup, readerVars
<1>6. ASSUME NEW t \in Tasks, TakeChunk(t) \/ TakeFailure(t) PROVE BoundInv'
  BY <1>6, TakeChunkBounded, TakeFailureBounded
<1>7. CASE TakeHandle \/ ExitFindsBorrow \/ ExitWaits \/ ExitLocked \/ ExitCancelled
  BY <1>7, BoundKeeps
     DEF TakeHandle, ExitFindsBorrow, ExitWaits, ExitLocked, ExitCancelled, setup, readerVars, dataVars
<1>8. CASE ExitCloses \/ DropReader
  BY <1>8, DropBounded DEF ExitCloses, DropReader, setup, readerVars
<1>9. CASE UNCHANGED vars
  BY <1>9, BoundKeeps DEF vars, setup
<1> QED
  BY <1>1, <1>2, <1>3, <1>4, <1>5, <1>6, <1>7, <1>8, <1>9, Zenon DEF Next, CallStep, ExitStep

LEMMA BoundInit == Init => BoundInv
<1> SUFFICES ASSUME Init, limit # NoLimit PROVE BoundInv
  BY DEF BoundInv
<1>1. Size(<<>>) <= Batch
  BY FlatEmpty, PipelineInit, BatchSize
<1> QED
  BY <1>1, SmallEmpty DEF Init, BoundInv

(* What bounds each place on the way, inductively.                          *)
THEOREM BoundInvariant == Spec => []BoundInv
BY PipelineInvariant, PipelineInit, PipelineStep, BoundInit, BoundStep, PTL DEF Spec

(* At most so many messages of at most so many bytes.                       *)
LEMMA SmallMessages ==
  ASSUME NEW M \in Seq(Messages), Small(M), Batch \in Nat
  PROVE  /\ Len(InMessages(M)) \in Nat
         /\ Len(M) <= 1 => Len(InMessages(M)) <= Batch
         /\ Len(M) <= 2 => Len(InMessages(M)) <= 2 * Batch
<1>1. Len(InMessages(M)) \in Nat
  BY MessagesType, LenProperties
<1>2. Len(InMessages(<<>>)) = 0
  BY MessagesEmpty, EmptySeq
<1>3. ASSUME NEW N \in Seq(Messages), Small(N), N # <<>>
      PROVE  /\ Len(InMessages(N)) <= Batch + Len(InMessages(Tail(N)))
             /\ Len(InMessages(Tail(N))) \in Nat /\ Len(InMessages(N)) \in Nat
             /\ Tail(N) \in Seq(Messages) /\ Small(Tail(N)) /\ Len(Tail(N)) = Len(N) - 1
  <2>1. PICK h, u : h = Head(N) /\ u = Tail(N)
    OBVIOUS
  <2>2. /\ h \in Messages /\ u \in Seq(Messages) /\ InMessages(N) = Flat(h.chunks) \o InMessages(u)
        /\ Small(u) /\ Size(h.chunks) <= Batch
    BY <1>3, <2>1, MessagesHead, SmallTail
  <2>3. Flat(h.chunks) \in Seq(Bytes) /\ InMessages(u) \in Seq(Bytes)
    BY <2>2, MessageShape, ChunksFlat, MessagesType
  <2>4. /\ Len(InMessages(N)) = Len(Flat(h.chunks)) + Len(InMessages(u))
        /\ Len(Flat(h.chunks)) \in Nat /\ Len(InMessages(u)) \in Nat
    BY <2>2, <2>3, ConcatProperties, LenProperties
  <2>5. Len(Flat(h.chunks)) <= Batch
    BY <2>2 DEF Size
  <2>6. Len(u) = Len(N) - 1
    BY <1>3, <2>1
  <2> QED
    BY <2>1, <2>2, <2>4, <2>5, <2>6
<1>4. \A N \in Seq(Messages) : Len(N) \in Nat /\ (N = <<>> <=> Len(N) = 0)
  OBVIOUS
<1>5. ASSUME NEW N \in Seq(Messages), Small(N), Len(N) = 1 PROVE Len(InMessages(N)) <= Batch
  <2>1. N # <<>>
    <3>1. Len(N) # 0
      BY <1>5
    <3> QED
      BY <1>4, <3>1, Zenon
  <2>2. PICK u \in Seq(Messages) : u = Tail(N) /\ Len(u) = Len(N) - 1
    BY <1>3, <1>5, <2>1
  <2>3. u = <<>>
    BY <1>4, <1>5, <2>2
  <2>4. Len(InMessages(N)) <= Batch + Len(InMessages(u))
    BY <1>3, <1>5, <2>1, <2>2
  <2> QED
    BY <1>2, <2>3, <2>4
<1>6. ASSUME NEW N \in Seq(Messages), Small(N), Len(N) = 2 PROVE Len(InMessages(N)) <= 2 * Batch
  <2>1. N # <<>>
    BY <1>4, <1>6
  <2>2. PICK u \in Seq(Messages) : u = Tail(N) /\ Len(u) = Len(N) - 1 /\ Small(u)
    BY <1>3, <1>6, <2>1
  <2>3. Len(u) = 1
    BY <1>6, <2>2
  <2>4. Len(InMessages(u)) <= Batch
    BY <1>5, <2>2, <2>3
  <2>5. /\ Len(InMessages(N)) <= Batch + Len(InMessages(u))
        /\ Len(InMessages(u)) \in Nat /\ Len(InMessages(N)) \in Nat
    BY <1>3, <1>6, <2>1, <2>2
  <2> QED
    BY <2>4, <2>5
<1>7. CASE M = <<>>
  BY <1>1, <1>2, <1>7
<1>8. CASE Len(M) = 1
  BY <1>1, <1>5, <1>8
<1>9. CASE Len(M) = 2
  BY <1>1, <1>6, <1>9
<1>10. CASE Len(M) > 2
  BY <1>1, <1>10
<1>11. M = <<>> \/ Len(M) = 1 \/ Len(M) = 2 \/ Len(M) > 2
  <2>1. PICK n \in Nat : n = Len(M)
    BY <1>4
  <2>2. n = 0 \/ n = 1 \/ n = 2 \/ n > 2
    OBVIOUS
  <2>3. n = 0 => M = <<>>
    BY <1>4, <2>1, Zenon
  <2> QED
    BY <2>1, <2>2, <2>3, Zenon
<1> QED
  BY <1>7, <1>8, <1>9, <1>10, <1>11

(* Whatever the server sends and however slowly the callers read, no more   *)
(* than four batches of the body are ever held.                             *)
THEOREM BufferIsBounded == Spec => []BufferBound
<1>1. PipelineInv /\ BoundInv => BufferBound
  <2> SUFFICES ASSUME PipelineInv, BoundInv, limit # NoLimit PROVE Buffered <= 4 * Batch
    BY DEF BufferBound
  <2>1. Batch \in Nat
    BY BatchSize
  <2>2. Size(pending) <= Batch /\ Size(pending) \in Nat
    BY ChunksFlat DEF BoundInv, PipelineInv, Shapes
  <2>3. Len(InMessages(channel)) <= 2 * Batch /\ Len(InMessages(channel)) \in Nat
    <3>1. Len(channel) <= 2 /\ Small(channel)
      BY DEF PipelineInv, Shapes, ChannelSize, BoundInv
    <3> QED
      BY <2>1, <3>1, Places, SmallMessages
  <2>4. Len(InMessages(outbox)) <= Batch /\ Len(InMessages(outbox)) \in Nat
    <3>1. Len(outbox) <= 1 /\ Small(outbox)
      BY DEF PipelineInv, Shapes, BoundInv
    <3> QED
      BY <2>1, <3>1, Places, SmallMessages
  <2>5. Size(buffer) <= Batch /\ Size(buffer) \in Nat
    <3>1. Size(buffer) \in Nat
      BY ChunksFlat DEF PipelineInv, Shapes
    <3>2. CASE buffer = <<>>
      BY <2>1, <3>2, FlatEmpty
    <3>3. CASE buffer # <<>>
      <4>1. Size(buffer) < limit
        BY <3>3 DEF BoundInv
      <4> QED
        BY <3>1, <4>1, BatchSize
    <3> QED
      BY <3>1, <3>2, <3>3
  <2>6. Len(InMessages(outbox)) + Size(buffer) <= Batch
    <3>1. CASE outbox = <<>>
      <4>1. Len(InMessages(outbox)) = 0
        BY <3>1, MessagesEmpty, EmptySeq
      <4> QED
        BY <2>1, <2>5, <4>1
    <3>2. CASE outbox # <<>>
      <4>1. Size(buffer) = 0
        BY <3>2, FlatEmpty DEF PipelineInv, ReaderInv
      <4> QED
        BY <2>1, <2>4, <4>1
    <3> QED
      BY <3>1, <3>2
  <2> QED
    BY <2>1, <2>2, <2>3, <2>4, <2>5, <2>6 DEF Buffered
<1> QED
  BY <1>1, PipelineInvariant, BoundInvariant, PTL

-----------------------------------------------------------------------------
(* With nothing going wrong around it.                                      *)
Quiet == PipelineInv /\ QuietInv /\ world = {}

LEMMA QuietFacts ==
  ASSUME Quiet
  PROVE  /\ Calm /\ HandedOut /\ (sawEnd => taken = BodyLen)
         /\ \A t \in running : call[t].op = "bytes" => cache = Nothing /\ readBytes = 0
         /\ \A m \in Sendable(world) : m.ok /\ m.chunks # <<>>
BY DEF Quiet, QuietInv, Calm, PipelineInv, Shapes, ReaderInv, Sendable

(* A step that hands nothing out and ends no call.                          *)
LEMMA QuietKeeps ==
  ASSUME Quiet, Calm', UNCHANGED <<cache, taken, readBytes, out, sawEnd>>,
         \A t \in running' : \/ t \in running /\ call'[t] = call[t]
                             \/ call'[t].op = "bytes" => cache = Nothing /\ readBytes = 0
  PROVE  QuietInv'
<1>1. HandedOut' /\ (sawEnd' => taken' = BodyLen)
  BY QuietFacts DEF HandedOut, Body
<1>2. \A t \in running' : call'[t].op = "bytes" => cache' = Nothing /\ readBytes' = 0
  BY QuietFacts
<1> QED
  BY <1>1, <1>2 DEF QuietInv

LEMMA QueueKeeps ==
  ASSUME Quiet
  PROVE  /\ \A t \in Tasks : lockQ' = Append(lockQ, t) => \A i \in 1..Len(lockQ') : lockQ'[i] # Exit
         /\ lockQ # <<>> /\ lockQ' = Tail(lockQ) => \A i \in 1..Len(lockQ') : lockQ'[i] # Exit
<1>1. lockQ \in Seq(Tasks \cup {Exit}) /\ \A i \in 1..Len(lockQ) : lockQ[i] # Exit
  BY QuietFacts DEF Quiet, PipelineInv, Shapes, Calm
<1>2. ASSUME NEW t \in Tasks, lockQ' = Append(lockQ, t)
      PROVE  \A i \in 1..Len(lockQ') : lockQ'[i] # Exit
  BY <1>1, <1>2, TasksAssumption
<1>3. ASSUME lockQ # <<>>, lockQ' = Tail(lockQ)
      PROVE  \A i \in 1..Len(lockQ') : lockQ'[i] # Exit
  <2>1. /\ Len(lockQ') = Len(lockQ) - 1
        /\ \A i \in 1..(Len(lockQ) - 1) : lockQ'[i] = lockQ[i + 1] /\ i + 1 \in 1..Len(lockQ)
    BY <1>1, <1>3
  <2> QED
    BY <1>1, <2>1
<1> QED
  BY <1>2, <1>3

(* The head of the body, and its reader.                                    *)
LEMMA NetworkQuiet ==
  ASSUME Quiet, HeadStep \/ NetworkStep \/ ReaderWakes
  PROVE  QuietInv'
<1>1. UNCHANGED <<cache, taken, readBytes, out, sawEnd, running, call, token, cancelled, lockQ>>
  BY DEF HeadStep, NetworkStep, ReaderWakes, SkipReadAhead, ReadAhead, ReadAheadEnds,
         ReadAheadFails, ReaderEnds, ReaderFails, ReaderFrame, ReaderSends, ReaderSendFails,
         ReaderSeesToken, ReaderStops, accessVars, dataVars
<1>2. Calm
  BY QuietFacts
<1>3. ASSUME HeadStep PROVE Calm'
  <2>1. CASE SkipReadAhead
    <3>1. rstate' = "reading" /\ phase' = "body"
      BY <2>1 DEF SkipReadAhead, StartReader
    <3> QED
      BY <1>1, <1>2, <3>1 DEF Calm
  <2>4. CASE ReadAheadEnds
    <3>1. arrived' = BodyLen /\ phase' = "body"
      BY <2>4 DEF ReadAheadEnds, NoReader
    <3> QED
      BY <1>1, <1>2, <3>1 DEF Calm
  <2>2. CASE ReadAheadFails
    BY <2>2 DEF ReadAheadFails, Quiet
  <2>3. ASSUME NEW n \in FrameSizes, ReadAhead(n) PROVE Calm'
    BY <1>1, <1>2, <2>3 DEF Calm, ReadAhead, StartReader
  <2> QED
    BY <1>3, <2>1, <2>2, <2>3, <2>4, Zenon DEF HeadStep
<1>4. ASSUME NetworkStep PROVE Calm'
  <2>1. CASE ReaderEnds
    <3>1. arrived' = BodyLen /\ phase' = phase
      BY <2>1 DEF ReaderEnds
    <3> QED
      BY <1>1, <1>2, <3>1 DEF Calm
  <2>2. CASE ReaderFails
    BY <2>2 DEF ReaderFails, Quiet
  <2>3. ASSUME NEW n \in FrameSizes, ReaderFrame(n) PROVE Calm'
    <3>1. rstate' \in {"reading", "sending"} /\ phase' = phase
      BY <2>3 DEF ReaderFrame
    <3> QED
      BY <1>1, <1>2, <3>1 DEF Calm
  <2> QED
    BY <1>4, <2>1, <2>2, <2>3, Zenon DEF NetworkStep
<1>5. ASSUME ReaderWakes PROVE Calm'
  <2>1. CASE ReaderSends
    <3>1. rstate \in {"sending", "finishing"} /\ phase' = phase /\ arrived' = arrived
      BY <2>1 DEF ReaderSends, Quiet, PipelineInv, ReaderInv
    <3>2. rstate = "sending" => rstate' = "reading"
      BY <2>1 DEF ReaderSends
    <3> QED
      BY <1>1, <1>2, <3>1, <3>2 DEF Calm
  <2>2. CASE ReaderSendFails
    <3>1. rstate # "none" /\ ~rxAlive
      BY <2>2 DEF ReaderSendFails, Quiet, PipelineInv, ReaderInv
    <3>2. phase = "gone"
      BY <3>1 DEF Quiet, PipelineInv, ReaderInv
    <3> QED
      BY <1>2, <3>2 DEF Calm
  <2>3. CASE ReaderSeesToken
    BY <1>2, <2>3 DEF ReaderSeesToken, Calm
  <2> QED
    BY <1>5, <2>1, <2>2, <2>3, Zenon DEF ReaderWakes
<1>6. \A t \in running' : t \in running /\ call'[t] = call[t]
  BY <1>1
<1> QED
  BY <1>1, <1>3, <1>4, <1>5, <1>6, QuietKeeps

(* Getting at the reader.                                                   *)
LEMMA AccessQuiet ==
  ASSUME Quiet,
         \/ \E t \in Tasks : \/ CallResponse(t) \/ (\E c \in Calls : CallReader(t, c))
                             \/ Cancel(t) \/ ReturnAtOnce(t) \/ Begin(t)
         \/ TakeHandle \/ ExitStep \/ DropReader \/ UNCHANGED vars
  PROVE  QuietInv'
<1>1. Calm
  BY QuietFacts
<1>2. ASSUME NEW t \in Tasks, NEW c \in Calls, StartCall(t, c) PROVE QuietInv'
  <2>1. UNCHANGED <<cache, taken, readBytes, out, sawEnd, running, token, cancelled, phase, rstate,
                    arrived>> /\ lockQ' = Append(lockQ, t) /\ call' = [call EXCEPT ![t] = c]
        /\ call[t] = Idle
    BY <1>2 DEF StartCall, dataVars, readerVars
  <2>2. Calm'
    BY <1>1, <2>1, QueueKeeps DEF Calm
  <2>3. \A r \in running : r # t
    <3>1. lockQ # <<>> => Head(lockQ) = lockQ[1] /\ 1 \in 1..Len(lockQ)
      BY DEF Quiet, PipelineInv, Shapes
    <3> QED
      BY <2>1, <3>1, TasksAssumption DEF Quiet, PipelineInv, LockInv, InCalls, Owns
  <2>4. \A r \in running' : r \in running /\ call'[r] = call[r]
    BY <2>1, <2>3 DEF Quiet, PipelineInv, Shapes
  <2> QED
    BY <2>1, <2>2, <2>4, QuietKeeps
<1>3. ASSUME NEW t \in Tasks, CallResponse(t) PROVE QuietInv'
  <2>1. [op |-> "bytes", amount |-> 0] \in Calls
    BY DEF Calls
  <2> QED
    BY <1>2, <1>3, <2>1 DEF CallResponse
<1>4. ASSUME NEW t \in Tasks, NEW c \in Calls, CallReader(t, c) PROVE QuietInv'
  BY <1>2, <1>4 DEF CallReader
<1>5. ASSUME NEW t \in Tasks, Cancel(t) PROVE QuietInv'
  BY <1>5 DEF Cancel, Quiet
<1>6. ASSUME NEW t \in Tasks, ReturnAtOnce(t) PROVE QuietInv'
  <2>1. /\ UNCHANGED <<cache, taken, readBytes, out, sawEnd, token, phase, rstate, arrived>>
        /\ Owns(t) /\ t \notin running /\ lockQ' = Tail(lockQ) /\ running' = running \ {t}
        /\ call' = [call EXCEPT ![t] = Idle] /\ cancelled' = cancelled \ {t}
    BY <1>6 DEF ReturnAtOnce, Return, dataVars, readerVars
  <2>2. lockQ # <<>>
    BY <2>1 DEF Owns
  <2>3. Calm'
    BY <1>1, <2>1, <2>2, QueueKeeps DEF Calm
  <2>4. \A r \in running' : r \in running /\ call'[r] = call[r]
    BY <2>1 DEF Quiet, PipelineInv, Shapes
  <2> QED
    BY <2>1, <2>3, <2>4, QuietKeeps
<1>7. ASSUME NEW t \in Tasks, Begin(t) PROVE QuietInv'
  <2>1. /\ UNCHANGED <<cache, taken, readBytes, out, sawEnd, token, phase, rstate, arrived, lockQ,
                       call, cancelled>>
        /\ running' = running \cup {t} /\ ~NeedsNoData(t)
    BY <1>7 DEF Begin, dataVars, readerVars
  <2>2. Calm'
    BY <1>1, <2>1 DEF Calm
  <2>3. call[t].op = "bytes" => cache = Nothing /\ readBytes = 0
    <3>1. readBytes \in Nat
      BY Places DEF Quiet
    <3> QED
      BY <2>1, <3>1 DEF NeedsNoData
  <2> QED
    BY <2>1, <2>2, <2>3, QuietKeeps
<1>8. CASE TakeHandle
  BY <1>1, <1>8, QuietKeeps DEF TakeHandle, dataVars, readerVars, Calm
<1>9. CASE ExitStep
  <2>1. CASE ExitLocked
    <3>1. Head(lockQ) = lockQ[1] /\ 1 \in 1..Len(lockQ)
      BY <2>1 DEF ExitLocked, Owns, Quiet, PipelineInv, Shapes
    <3> QED
      BY <1>1, <2>1, <3>1 DEF ExitLocked, Owns, Calm
  <2> QED
    BY <1>9, <2>1 DEF ExitStep, ExitFindsBorrow, ExitCloses, ExitWaits, ExitCancelled, Quiet
<1>10. CASE DropReader
  BY <1>10 DEF DropReader, Quiet
<1>11. CASE UNCHANGED vars
  BY <1>1, <1>11, QuietKeeps DEF vars, Calm
<1> QED
  BY <1>3, <1>4, <1>5, <1>6, <1>7, <1>8, <1>9, <1>10, <1>11, Zenon

(* What a call takes goes out after what went out before.                   *)
LEMMA DeliverQuiet ==
  ASSUME Quiet, NEW t \in Tasks, NEW x \in Seq(Bytes), Follows(taken, x),
         taken + Len(x) <= BodyLen, Deliver(t, x)
  PROVE  HandedOut' /\ (sawEnd' => taken' = BodyLen)
<1>1. /\ out' = out \o x /\ readBytes' = readBytes + Len(x) /\ taken' = taken + Len(x)
      /\ UNCHANGED <<cache, sawEnd>>
  BY DEF Deliver
<1>2. Len(x) \in Nat /\ taken \in Nat /\ BodyLen \in Nat /\ out \in Seq(Bytes)
  BY LenProperties, Places DEF Quiet, PipelineInv, Shapes
<1>3. taken = BodyLen => Len(x) = 0
  BY <1>2
<1>4. CASE cache = Nothing /\ taken = readBytes /\ Len(out) = taken /\ Follows(0, out)
  <2>1. PICK s \in Seq(Bytes) : s = out /\ out' \in Seq(Bytes) /\ Glued(out', s, x)
    BY <1>1, <1>2, ConcatProperties DEF Glued
  <2>2. 0 + Len(s) = taken /\ Follows(0, s)
    BY <1>2, <1>4, <2>1
  <2>3. Follows(0, out') /\ Len(out') = Len(s) + Len(x)
    <3>1. Follows(0 + Len(s), x)
      BY <2>2
    <3> QED
      BY <2>1, <2>2, <3>1, GluedFollows
  <2>4. cache' = Nothing /\ taken' = readBytes' /\ Len(out') = taken'
    BY <1>1, <1>4, <2>1, <2>3
  <2>5. sawEnd' => taken' = BodyLen
    BY <1>1, <1>2, <1>3, QuietFacts
  <2> QED
    BY <2>3, <2>4, <2>5 DEF HandedOut
<1>5. CASE cache = Body /\ taken = BodyLen /\ readBytes = BodyLen
  <2>1. taken' = BodyLen /\ readBytes' = BodyLen /\ cache' = Body
    BY <1>1, <1>2, <1>3, <1>5
  <2> QED
    BY <2>1 DEF HandedOut, Body
<1> QED
  BY <1>4, <1>5, QuietFacts DEF HandedOut

(* A call that returns leaves the quiet as it is.                           *)
LEMMA ReturnQuiet ==
  ASSUME Quiet, NEW t \in Tasks, Runs(t), Return(t), HandedOut', sawEnd' => taken' = BodyLen,
         UNCHANGED <<token, phase, rstate, arrived>>
  PROVE  QuietInv'
<1>1. running' = {} /\ lockQ # <<>> /\ lockQ' = Tail(lockQ) /\ cancelled' = cancelled \ {t}
  BY Runner DEF Quiet, Return, Runs, Owns
<1>2. Calm'
  BY <1>1, QuietFacts, QueueKeeps DEF Calm
<1> QED
  BY <1>1, <1>2 DEF QuietInv

LEMMA TakeChunkQuiet ==
  ASSUME Quiet, NEW t \in Tasks, TakeChunk(t)
  PROVE  QuietInv'
<1>0. /\ Runs(t) /\ NextChunks # <<>>
      /\ channel' = IF pending = <<>> THEN Tail(channel) ELSE channel
      /\ UNCHANGED <<limit, world, arrived, phase, rstate, buffer, outbox, token, rxAlive>>
  BY DEF TakeChunk, setup, readerVars
<1>1. PipelineInv /\ Calm
  BY QuietFacts DEF Quiet
<1>2. PICK c, n : c = NextChunks /\ n = Usable(t, Head(c))
  OBVIOUS
<1>3. PICK x, all : x = SubSeq(Head(c), 1, n) /\ all = got[t] \o x
  OBVIOUS
<1>4. \/ Return(t) /\ Deliver(t, all)
      \/ UNCHANGED <<accessVars, cache, readBytes, taken, out, sawEnd>>
  BY <1>2, <1>3 DEF TakeChunk
<1>5. CASE UNCHANGED <<accessVars, cache, readBytes, taken, out, sawEnd>>
  <2>1. Calm'
    BY <1>0, <1>1, <1>5 DEF Calm, accessVars
  <2> QED
    BY <1>5, <2>1, QuietKeeps DEF accessVars
<1>6. CASE Return(t) /\ Deliver(t, all)
  <2>1. PICK k \in 0..arrived :
          Spans(k, taken, got[t], Flat(c), InMessages(channel'), InMessages(outbox), Flat(buffer))
    BY <1>0, <1>1, <1>2, Received
  <2>2. /\ c \in Chunks /\ Whole(c) /\ c # <<>> /\ InMessages(channel') \in Seq(Bytes)
    BY <1>0, <1>1, <1>2, Received
  <2>3. n \in 0..Len(Head(c))
    <3>1. Head(c) \in Seq(Bytes)
      BY <2>2 DEF Chunks, Bytes
    <3> QED
      BY <1>0, <1>1, <1>2, <3>1, UsableFits
  <2>4. PICK g \in Seq(Bytes) : g = got[t]
    BY <1>0, <1>1, Runner
  <2>5. PICK f \in Seq(Bytes), m \in Seq(Bytes), o \in Seq(Bytes), b \in Seq(Bytes) :
          /\ f = Flat(c) /\ m = InMessages(channel') /\ o = InMessages(outbox) /\ b = Flat(buffer)
    BY <1>1, <2>2, Places, ChunksFlat
  <2>6. /\ Spans(k, taken, g, f, m, o, b) /\ Follows(taken, g) /\ Follows(taken + Len(g), f)
        /\ taken \in Nat /\ taken + Len(g) \in Nat
    <3>1. Spans(k, taken, g, f, m, o, b)
      BY <2>1, <2>4, <2>5
    <3>2. taken \in Nat /\ Len(g) \in Nat
      BY <1>1, Places, LenProperties
    <3> QED
      BY <3>1, <3>2 DEF Spans, Laid
  <2>7. /\ x \in Seq(Bytes) /\ Len(x) = n /\ Follows(taken + Len(g), x)
        /\ Flat(PutBack(Head(c), n, Tail(c))) \in Seq(Bytes)
        /\ Len(f) = n + Len(Flat(PutBack(Head(c), n, Tail(c))))
    BY <1>3, <2>2, <2>3, <2>5, <2>6, PutBackKeeps
  <2>8. all \in Seq(Bytes) /\ Glued(all, g, x) /\ Len(all) = Len(g) + n
    BY <1>3, <2>4, <2>7, ConcatProperties DEF Glued
  <2>9. Follows(taken, all)
    BY <2>6, <2>7, <2>8, GluedFollows
  <2>10. taken + Len(all) <= BodyLen
    <3>1. taken + Total(g, f, m, o, b) = k /\ k \in Nat /\ k <= arrived
      BY <1>1, <2>6, Counts DEF Spans
    <3>2. n \in Nat /\ n <= Len(f)
      BY <2>3, <2>7, LenProperties
    <3>3. taken + (Len(g) + n) <= k
      BY <2>6, <3>1, <3>2, LenProperties DEF Total
    <3>4. arrived <= BodyLen /\ arrived \in Nat /\ taken \in Nat /\ BodyLen \in Nat
      BY <1>1, Counts
    <3> QED
      BY <2>8, <3>1, <3>3, <3>4
  <2>11. HandedOut' /\ (sawEnd' => taken' = BodyLen)
    BY <1>6, <2>8, <2>9, <2>10, DeliverQuiet
  <2> QED
    BY <1>0, <1>6, <2>11, ReturnQuiet
<1> QED
  BY <1>4, <1>5, <1>6

(* At the end of the body there is nothing between it and the call.         *)
LEMMA TakeEndQuiet ==
  ASSUME Quiet, NEW t \in Tasks, TakeEnd(t)
  PROVE  QuietInv'
<1>0. /\ Runs(t) /\ NextChunks = <<>> /\ channel = <<>> /\ rstate \in {"none", "ended"} /\ Return(t)
      /\ UNCHANGED <<token, phase, rstate, arrived>>
  BY DEF TakeEnd, readerVars
<1>1. PipelineInv /\ Calm
  BY QuietFacts DEF Quiet
<1>2. PICK g \in Seq(Bytes) : g = got[t]
  BY <1>0, <1>1, Runner
<1>3. arrived = BodyLen /\ pending = <<>> /\ outbox = <<>> /\ buffer = <<>> /\ phase = "body"
  BY <1>0, <1>1, Runner DEF Calm, NextChunks, PipelineInv, ReaderInv
<1>4. Spans(BodyLen, taken, g, <<>>, <<>>, <<>>, <<>>)
  <2>1. PICK k \in 0..arrived :
          /\ Spans(k, taken, Collected, Flat(pending), InMessages(channel),
                   InMessages(outbox), Flat(buffer))
          /\ \/ k = arrived
             \/ token \/ "fail" \in world
    BY <1>1, <1>3 DEF PipelineInv, Placed
  <2>2. k = BodyLen
    BY <1>1, <1>3, <2>1 DEF Calm, Quiet
  <2> QED
    BY <1>0, <1>1, <1>2, <1>3, <2>1, <2>2, Runner, FlatEmpty, MessagesEmpty
<1>5. taken \in Nat /\ Follows(taken, g) /\ taken + Len(g) = BodyLen /\ BodyLen \in Nat /\ Len(g) \in Nat
  <2>1. taken \in Nat /\ BodyLen \in Nat /\ Len(g) \in Nat
    BY <1>1, Places, LenProperties
  <2>2. taken + Total(g, <<>>, <<>>, <<>>, <<>>) = BodyLen /\ Follows(taken, g)
    BY <1>4 DEF Spans, Laid
  <2>3. Total(g, <<>>, <<>>, <<>>, <<>>) = Len(g)
    BY <2>1, EmptySeq DEF Total
  <2> QED
    BY <2>1, <2>2, <2>3
<1>6. \/ /\ call[t].op = "bytes"
         /\ cache' = g /\ readBytes' = Len(g) /\ taken' = taken + Len(g)
         /\ UNCHANGED <<out, sawEnd>>
      \/ Deliver(t, g)
      \/ /\ g = <<>> /\ sawEnd' = TRUE /\ UNCHANGED <<cache, readBytes, taken, out>>
  <2>1. \/ /\ call[t].op = "bytes"
           /\ cache' = got[t] /\ readBytes' = Len(got[t])
           /\ taken' = taken + Len(got[t])
           /\ UNCHANGED <<out, sawEnd>>
        \/ Deliver(t, got[t])
        \/ got[t] = <<>> /\ sawEnd' = TRUE /\ UNCHANGED <<cache, readBytes, taken, out>>
    BY Zenon DEF TakeEnd
  <2> QED
    BY <1>2, <2>1
<1>7. CASE /\ call[t].op = "bytes"
           /\ cache' = g /\ readBytes' = Len(g) /\ taken' = taken + Len(g)
           /\ UNCHANGED <<out, sawEnd>>
  <2>1. taken = 0
    <3>1. cache = Nothing /\ readBytes = 0
      BY <1>0, <1>7, QuietFacts DEF Runs
    <3> QED
      BY <3>1, QuietFacts DEF HandedOut
  <2>2. Len(g) = BodyLen /\ Follows(0, g)
    BY <1>5, <2>1
  <2>3. Body \in Seq(Bytes) /\ Len(Body) = BodyLen /\ Follows(0, Body)
    BY <1>5 DEF Body, Bytes, Follows
  <2>4. g = Body
    BY <2>2, <2>3, FollowsSame
  <2>5. cache' = Body /\ taken' = BodyLen /\ readBytes' = BodyLen
    BY <1>5, <1>7, <2>2, <2>4
  <2>6. HandedOut' /\ (sawEnd' => taken' = BodyLen)
    BY <2>5 DEF HandedOut, Body
  <2> QED
    BY <1>0, <2>6, ReturnQuiet
<1>8. CASE Deliver(t, g)
  <2>1. HandedOut' /\ (sawEnd' => taken' = BodyLen)
    BY <1>5, <1>8, DeliverQuiet
  <2> QED
    BY <1>0, <2>1, ReturnQuiet
<1>9. CASE g = <<>> /\ sawEnd' = TRUE /\ UNCHANGED <<cache, readBytes, taken, out>>
  <2>1. taken' = BodyLen
    BY <1>5, <1>9, EmptySeq
  <2>2. HandedOut'
    BY <1>9, QuietFacts DEF HandedOut
  <2> QED
    BY <1>0, <2>1, <2>2, ReturnQuiet
<1> QED
  BY <1>6, <1>7, <1>8, <1>9

LEMMA QuietStep == PipelineInv /\ QuietInv /\ [Next]_vars => QuietInv'
<1> SUFFICES ASSUME PipelineInv, QuietInv, [Next]_vars PROVE QuietInv'
  OBVIOUS
<1>1. world' = world
  BY DEF Next, vars, HeadStep, NetworkStep, ReaderWakes, SkipReadAhead, ReadAhead, ReadAheadEnds,
         ReadAheadFails, ReaderEnds, ReaderFails, ReaderFrame, ReaderSends, ReaderSendFails,
         ReaderSeesToken, ReaderStops, CallResponse, CallReader, StartCall, Cancel, CallStep,
         ReturnAtOnce, Begin, TakeChunk, TakeEnd, TakeFailure, TakeCancel, TakeHandle, ExitStep,
         ExitFindsBorrow, ExitCloses, ExitWaits, ExitLocked, ExitCancelled, DropReader, setup
<1> SUFFICES ASSUME world = {} PROVE QuietInv'
  BY <1>1 DEF QuietInv
<1>2. Quiet
  BY DEF Quiet
<1>3. ASSUME NEW t \in Tasks, TakeFailure(t) PROVE FALSE
  <2>1. channel # <<>> /\ channel \in Seq(Sendable(world)) /\ NextChunks = <<>>
    BY <1>3 DEF TakeFailure, PipelineInv, Shapes
  <2>2. Head(channel) \in Sendable(world)
    BY <2>1
  <2> QED
    BY <1>2, <2>1, <2>2, QuietFacts DEF NextChunks
<1>4. ASSUME NEW t \in Tasks, TakeCancel(t) PROVE FALSE
  BY <1>2, <1>4, QuietFacts DEF TakeCancel, Calm
<1> QED
  BY <1>2, <1>3, <1>4, NetworkQuiet, AccessQuiet, TakeChunkQuiet, TakeEndQuiet, Zenon
     DEF Next, CallStep

LEMMA QuietInit == Init => QuietInv
<1> SUFFICES ASSUME Init PROVE QuietInv
  OBVIOUS
<1>1. Calm
  BY EmptySeq DEF Init, Calm
<1>2. HandedOut
  BY EmptySeq, FollowsEmpty DEF Init, HandedOut
<1> QED
  BY <1>1, <1>2 DEF Init, QuietInv

(* Undisturbed, bytes() returns the whole body or raises, and a reader that *)
(* is told that the stream is exhausted has been given all of it.           *)
THEOREM UndisturbedIsWhole == Spec => []WholeUndisturbed
<1>1. PipelineInv /\ QuietInv => WholeUndisturbed
  <2> SUFFICES ASSUME PipelineInv, QuietInv, world = {}
               PROVE  BytesWhole /\ (sawEnd => out = Body \/ cache = Body)
    BY DEF WholeUndisturbed
  <2>1. HandedOut /\ (sawEnd => taken = BodyLen)
    BY DEF QuietInv
  <2>2. Body \in Seq(Bytes) /\ Len(Body) = BodyLen /\ Follows(0, Body)
    BY Places DEF Body, Bytes, Follows
  <2>3. Len(out) = BodyLen /\ Follows(0, out) => out = Body
    BY <2>2, FollowsSame DEF PipelineInv, Shapes
  <2> QED
    BY <2>1, <2>3 DEF HandedOut, BytesWhole
<1> QED
  BY <1>1, PipelineInvariant, PipelineInit, PipelineStep, QuietInit, QuietStep, PTL DEF Spec
===============================================================================
