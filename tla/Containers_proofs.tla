-------------------------- MODULE Containers_proofs --------------------------
(* Proofs that the ring of RingQueue is a sequence for every type of items, *)
(* initial capacity and bound, and keeps track of its objects when Calls is *)
(* empty; and that the two dictionaries of DictMK are a map with two keys   *)
(* for every sets of keys and every hash, until a call that breaks them.    *)
EXTENDS RingQueue, DictMK, FiniteSetTheorems, SequenceTheorems, WellFoundedInduction, TLAPS

Content == Item \cup {Raw}

\* A buffer b of c slots with its objects between h and t: how many they are,
\* the slot of each, and their sequence.
IsRing(b, c, h, t) ==
  c \in Nat /\ c > 1 /\ h \in 0..(c - 1) /\ t \in 0..(c - 1) /\ b \in [0..(c - 1) -> Content]
Size(c, h, t) == IF h <= t THEN t - h ELSE t + (c - h)
SlotOf(c, h, k) == IF h + k < c THEN h + k ELSE h + k - c
View(b, c, h, t) == [i \in 1..Size(c, h, t) |-> b[SlotOf(c, h, i - 1)]]

\* The first n objects of a ring are those that follow k others in another.
Copied(d, m, g, b, c, h, k, n) ==
  \A i \in 1..n : d[SlotOf(m, g, i - 1)] = b[SlotOf(c, h, k + i - 1)]

LEMMA Consts == MinCap \in Nat /\ MinCap > 1 /\ MaxCap \in Nat /\ Raw \notin Item
  BY QueueAssumption DEF QueueAssumption

LEMMA Views ==
  /\ Count = Size(cap, head, tail)
  /\ \A k : At(k) = SlotOf(cap, head, k)
  /\ queue = View(buf, cap, head, tail) /\ queue' = View(buf', cap', head', tail')
  BY DEF queue, Count, At, View, Size, SlotOf

LEMMA Indices ==
  ASSUME NEW b, NEW c, NEW h, NEW t, IsRing(b, c, h, t)
  PROVE  /\ Size(c, h, t) \in 0..(c - 1) /\ (Size(c, h, t) = 0 <=> h = t)
         /\ \A k \in 0..(c - 1) : SlotOf(c, h, k) \in 0..(c - 1)
  BY DEF IsRing, Size, SlotOf

LEMMA Viewed ==
  ASSUME NEW b, NEW c, NEW h, NEW t, IsRing(b, c, h, t)
  PROVE  /\ View(b, c, h, t) \in Seq(Content) /\ Len(View(b, c, h, t)) = Size(c, h, t)
         /\ \A i \in 1..Size(c, h, t) : View(b, c, h, t)[i] = b[SlotOf(c, h, i - 1)]
<1>1. PICK n \in Nat : n = Size(c, h, t) /\ n < c BY Indices DEF IsRing
<1>2. \A i \in 1..n : SlotOf(c, h, i - 1) \in 0..(c - 1)
  <2>1. \A i \in 1..n : i - 1 \in 0..(c - 1) BY <1>1 DEF IsRing
  <2> QED BY <2>1, Indices
<1>3. View(b, c, h, t) \in [1..n -> Content] BY <1>1, <1>2 DEF View, IsRing
<1>4. View(b, c, h, t) \in Seq(Content) BY <1>3, SeqDef
<1>5. Len(View(b, c, h, t)) = n BY <1>3, <1>4, LenProperties
<1> QED BY <1>1, <1>4, <1>5 DEF View

\* A sequence is the ring's when it has its length and its elements.
LEMMA SameView ==
  ASSUME NEW b, NEW c, NEW h, NEW t, IsRing(b, c, h, t), NEW s \in Seq(Content),
         Len(s) = Size(c, h, t), \A i \in 1..Len(s) : s[i] = b[SlotOf(c, h, i - 1)]
  PROVE  View(b, c, h, t) = s
<1>1. View(b, c, h, t) \in Seq(Content) BY Viewed
<1>2. Len(View(b, c, h, t)) = Len(s) BY Viewed
<1>3. \A i \in 1..Len(s) : View(b, c, h, t)[i] = b[SlotOf(c, h, i - 1)] BY Viewed
<1>4. \A i \in 1..Len(s) : View(b, c, h, t)[i] = s[i] BY <1>3
<1> QED BY <1>1, <1>2, <1>4, SeqEqual

\* The sequence of a ring, with its length as a number.
LEMMA Shown ==
  ASSUME NEW b, NEW c, NEW h, NEW t, IsRing(b, c, h, t)
  PROVE  \E v \in Seq(Content), n \in Nat :
           /\ v = View(b, c, h, t) /\ n = Size(c, h, t) /\ Len(v) = n
           /\ \A i \in 1..n : v[i] = b[SlotOf(c, h, i - 1)]
<1>1. PICK v \in Seq(Content) : v = View(b, c, h, t) BY Viewed
<1>2. PICK n \in Nat : n = Size(c, h, t) BY Indices
<1>3. Len(v) = n BY <1>1, <1>2, Viewed
<1>4. \A i \in 1..Size(c, h, t) : View(b, c, h, t)[i] = b[SlotOf(c, h, i - 1)] BY Viewed
<1> QED BY <1>1, <1>2, <1>3, <1>4

-----------------------------------------------------------------------------
(* What the operations do to the sequence. *)

\* A ring that holds the objects of another and x behind them.
LEMMA More ==
  ASSUME NEW b, NEW c, NEW h, NEW t, IsRing(b, c, h, t), NEW x \in Content,
         NEW d, NEW m, NEW g, NEW u, IsRing(d, m, g, u),
         Size(m, g, u) = Size(c, h, t) + 1, d[SlotOf(m, g, Size(c, h, t))] = x,
         Copied(d, m, g, b, c, h, 0, Size(c, h, t))
  PROVE  View(d, m, g, u) = Append(View(b, c, h, t), x)
<1>1. PICK v \in Seq(Content), n \in Nat :
           /\ v = View(b, c, h, t) /\ n = Size(c, h, t) /\ Len(v) = n
           /\ \A i \in 1..n : v[i] = b[SlotOf(c, h, i - 1)]
  BY Shown
<1>2. /\ Append(v, x) \in Seq(Content) /\ Len(Append(v, x)) = n + 1 /\ Append(v, x)[n + 1] = x
      /\ \A i \in 1..n : Append(v, x)[i] = v[i]
  BY <1>1, AppendProperties
<1>3. PICK s \in Seq(Content) : s = Append(v, x) BY <1>2
<1>4. ASSUME NEW i \in 1..(n + 1) PROVE s[i] = d[SlotOf(m, g, i - 1)]
  <2>1. CASE i \in 1..n
    <3>1. d[SlotOf(m, g, i - 1)] = b[SlotOf(c, h, i - 1)] BY <1>1, <2>1 DEF Copied
    <3> QED BY <1>1, <1>2, <1>3, <2>1, <3>1
  <2>2. CASE i = n + 1
    <3>1. i - 1 = n BY <2>2
    <3> QED BY <1>1, <1>2, <1>3, <2>2, <3>1
  <2> QED BY <2>1, <2>2
<1>5. Len(s) = Size(m, g, u) BY <1>1, <1>2, <1>3
<1>6. \A i \in 1..Len(s) : s[i] = d[SlotOf(m, g, i - 1)] BY <1>2, <1>3, <1>4
<1>7. View(d, m, g, u) = s BY <1>5, <1>6, SameView
<1> QED BY <1>1, <1>3, <1>7

\* A ring that holds the objects k + 1 to q of another, in order.
LEMMA Part ==
  ASSUME NEW b, NEW c, NEW h, NEW t, IsRing(b, c, h, t),
         NEW k \in Nat, NEW q \in Nat, q <= Size(c, h, t), k <= q,
         NEW d, NEW m, NEW g, NEW u, IsRing(d, m, g, u), Size(m, g, u) = q - k,
         Copied(d, m, g, b, c, h, k, q - k)
  PROVE  View(d, m, g, u) = SubSeq(View(b, c, h, t), k + 1, q)
<1>1. PICK v \in Seq(Content), n \in Nat :
           /\ v = View(b, c, h, t) /\ n = Size(c, h, t) /\ Len(v) = n
           /\ \A i \in 1..n : v[i] = b[SlotOf(c, h, i - 1)]
  BY Shown
<1>2. \A i \in (k + 1)..q : v[i] \in Content BY <1>1, ElementOfSeq
<1>3. /\ SubSeq(v, k + 1, q) \in Seq(Content)
      /\ Len(SubSeq(v, k + 1, q)) = q - k
      /\ \A i \in 1..(q - k) : SubSeq(v, k + 1, q)[i] = v[k + i]
  BY <1>1, <1>2
<1>4. PICK s \in Seq(Content) : s = SubSeq(v, k + 1, q) BY <1>3
<1>5. Len(s) = q - k BY <1>3, <1>4
<1>6. ASSUME NEW i \in 1..(q - k) PROVE s[i] = d[SlotOf(m, g, i - 1)]
  <2>1. k + i \in 1..n BY <1>1
  <2>2. s[i] = v[k + i] BY <1>3, <1>4
  <2>3. v[k + i] = b[SlotOf(c, h, k + i - 1)] BY <1>1, <2>1
  <2>4. d[SlotOf(m, g, i - 1)] = b[SlotOf(c, h, k + i - 1)] BY DEF Copied
  <2> QED BY <2>2, <2>3, <2>4
<1>7. \A i \in 1..Len(s) : s[i] = d[SlotOf(m, g, i - 1)] BY <1>5, <1>6
<1>8. View(d, m, g, u) = s BY <1>5, <1>7, SameView
<1> QED BY <1>1, <1>4, <1>8

-----------------------------------------------------------------------------
(* The operations. *)

LEMMA InitTypes == Init => TypeOK /\ Sequence!Init
<1> SUFFICES ASSUME Init PROVE TypeOK /\ Sequence!Init OBVIOUS
<1>1. TypeOK BY Consts DEF Init, TypeOK, Slots
<1>2. Count = 0 BY Consts DEF Init, Count
<1>3. queue = <<>> BY <1>2 DEF queue
<1> QED BY <1>1, <1>3 DEF Sequence!Init

\* The state, in the terms of these lemmas.
LEMMA Ring ==
  ASSUME TypeOK
  PROVE  /\ IsRing(buf, cap, head, tail)
         /\ queue \in Seq(Content) /\ Len(queue) = Count /\ Count \in 0..(cap - 1)
<1>1. IsRing(buf, cap, head, tail) BY Consts DEF TypeOK, Slots, Content, IsRing
<1> QED BY <1>1, Views, Viewed, Indices

LEMMA EmplaceStep ==
  ASSUME TypeOK, NEW x \in Item, Emplace(x)
  PROVE  TypeOK' /\ queue' = Append(queue, x)
<1>0. IsRing(buf, cap, head, tail) BY Ring
<1>1. /\ cap \in Nat /\ cap > 1 /\ head \in 0..(cap - 1) /\ tail \in 0..(cap - 1)
      /\ buf \in [0..(cap - 1) -> Content] /\ x \in Content
  BY <1>0 DEF IsRing, Content
<1>2. PICK next \in 0..(cap - 1) : next = IF tail + 1 = cap THEN 0 ELSE tail + 1
  BY <1>1
<1>3. PICK b \in [0..(cap - 1) -> Content] : b = [buf EXCEPT ![tail] = x]
  BY <1>1
<1>4. b[tail] = x /\ \A i \in 0..(cap - 1) : i # tail => b[i] = buf[i]
  BY <1>1, <1>3
<1>5. CASE next # head
  <2>1. /\ buf' = b /\ tail' = next /\ ret' = {tail} /\ sound' \in BOOLEAN
        /\ UNCHANGED <<trivial, cap, head>>
    BY <1>2, <1>3, <1>5 DEF Emplace, EmplaceTo, TypeOK
  <2>2. TypeOK' BY <1>1, <2>1 DEF TypeOK, Slots, Content
  <2>3. View(b, cap, head, next) = Append(View(buf, cap, head, tail), x)
    <3>1. Size(cap, head, next) = Size(cap, head, tail) + 1 /\ IsRing(b, cap, head, next)
      BY <1>1, <1>2, <1>5 DEF Size, IsRing
    <3>2. b[SlotOf(cap, head, Size(cap, head, tail))] = x
      BY <1>1, <1>4 DEF Size, SlotOf
    <3>3. Copied(b, cap, head, buf, cap, head, 0, Size(cap, head, tail))
      BY <1>1, <1>4 DEF Size, SlotOf, Copied
    <3> QED BY <1>0, <1>1, <3>1, <3>2, <3>3, More
  <2> QED BY <2>1, <2>2, <2>3, Views
<1>6. CASE next = head
  <2>1. Grow(b, next) /\ sound' \in BOOLEAN
    BY <1>2, <1>3, <1>6 DEF Emplace, EmplaceTo, TypeOK
  <2>2. PICK n \in (2 * cap)..MaxCap : ReserveTo(b, next, n, cap) /\ ret' = {cap - 1}
    BY <2>1 DEF Grow, GrowReturning
  <2>3. n \in Nat /\ n > cap BY <1>1, <2>2, Consts
  <2>4. Moved(next) = cap BY <1>1, <1>6 DEF Moved
  <2>5. /\ buf' = [i \in 0..(n - 1) |-> IF i < cap THEN b[At(i)] ELSE Raw]
        /\ cap' = n /\ head' = 0 /\ tail' = cap /\ UNCHANGED trivial /\ ret' = {cap - 1}
    BY <2>2, <2>4 DEF ReserveTo
  <2>6. \A i \in 0..(cap - 1) : At(i) \in 0..(cap - 1) /\ At(i) = SlotOf(cap, head, i)
    BY <1>0, Indices, Views
  <2>7. PICK d \in [0..(n - 1) -> Content] : d = buf'
    <3>1. \A i \in 0..(n - 1) : (IF i < cap THEN b[At(i)] ELSE Raw) \in Content
      BY <1>1, <2>3, <2>6 DEF Content
    <3> QED BY <2>5, <3>1
  <2>8. TypeOK'
    <3>1. trivial' \in BOOLEAN /\ cap' \in Nat /\ cap' >= MinCap /\ sound' \in BOOLEAN
      BY <1>1, <2>1, <2>3, <2>5, Consts DEF TypeOK
    <3>2. Slots' = 0..(n - 1) BY <2>5 DEF Slots
    <3>3. head' \in Slots' /\ tail' \in Slots' /\ ret' \subseteq Slots'
      BY <1>1, <2>3, <2>5, <3>2
    <3>4. buf' \in [Slots' -> Item \cup {Raw}] BY <2>7, <3>2 DEF Content
    <3> QED BY <3>1, <3>3, <3>4 DEF TypeOK
  <2>9. ASSUME NEW i \in 0..(cap - 1)
        PROVE  d[i] = IF SlotOf(cap, head, i) = tail THEN x ELSE buf[SlotOf(cap, head, i)]
    <3>1. i \in 0..(n - 1) /\ i < cap BY <1>1, <2>3
    <3>2. d[i] = b[At(i)] BY <2>5, <2>7, <3>1
    <3> QED BY <1>4, <2>6, <3>2
  <2>10. View(d, n, 0, cap) = Append(View(buf, cap, head, tail), x)
    <3>1. /\ Size(n, 0, cap) = Size(cap, head, tail) + 1 /\ Size(cap, head, tail) = cap - 1
          /\ IsRing(d, n, 0, cap)
      BY <1>1, <1>2, <1>6, <2>3 DEF Size, IsRing
    <3>2. \A i \in 0..(cap - 1) : SlotOf(n, 0, i) = i BY <1>1, <2>3 DEF SlotOf
    <3>3. d[SlotOf(n, 0, Size(cap, head, tail))] = x
      <4>1. cap - 1 \in 0..(cap - 1) /\ SlotOf(cap, head, cap - 1) = tail
        BY <1>1, <1>2, <1>6 DEF SlotOf
      <4> QED BY <2>9, <3>1, <3>2, <4>1
    <3>4. Copied(d, n, 0, buf, cap, head, 0, Size(cap, head, tail))
      <4>1. \A i \in 1..(cap - 1) : i - 1 \in 0..(cap - 1) /\ SlotOf(cap, head, i - 1) # tail
        BY <1>1, <1>2, <1>6 DEF SlotOf
      <4>2. \A i \in 1..(cap - 1) : d[SlotOf(n, 0, i - 1)] = buf[SlotOf(cap, head, i - 1)]
        BY <2>9, <3>2, <4>1
      <4> QED BY <1>1, <3>1, <4>2 DEF Copied
    <3> QED BY <1>0, <1>1, <3>1, <3>3, <3>4, More
  <2> QED BY <2>5, <2>7, <2>8, <2>10, Views
<1> QED BY <1>5, <1>6

\* Destructors change the slots they are given.
LEMMA Destroyed ==
  ASSUME TypeOK, NEW S, Destroy(S)
  PROVE  /\ buf' \in [0..(cap - 1) -> Content] /\ sound' \in BOOLEAN
         /\ \A i \in 0..(cap - 1) : i \notin S => buf'[i] = buf[i]
  BY DEF TypeOK, Destroy, Slots, Content

\* k objects go at the front, and with them the slots of S.
LEMMA FrontStep ==
  ASSUME TypeOK, NEW k \in 1..Count, NEW S, Destroy(S),
         \A i \in k..(Count - 1) : SlotOf(cap, head, i) \notin S,
         head' = SlotOf(cap, head, k), ret' = {}, UNCHANGED <<trivial, cap, tail>>
  PROVE  TypeOK' /\ queue' = SubSeq(queue, k + 1, Len(queue))
<1>0. IsRing(buf, cap, head, tail) BY Ring
<1>1. /\ cap \in Nat /\ cap > 1 /\ head \in 0..(cap - 1) /\ tail \in 0..(cap - 1)
      /\ buf \in [0..(cap - 1) -> Content]
  BY <1>0 DEF IsRing
<1>2. PICK n \in 0..(cap - 1) : n = Count /\ n = Size(cap, head, tail) /\ n = Len(queue)
  BY Ring, Views
<1>3. k \in 1..n /\ head' \in 0..(cap - 1) BY <1>1, <1>2 DEF SlotOf
<1>4. Size(cap, head', tail) = n - k BY <1>1, <1>2, <1>3 DEF Size, SlotOf
<1>5. /\ buf' \in [0..(cap - 1) -> Content] /\ sound' \in BOOLEAN
      /\ \A i \in 0..(cap - 1) : i \notin S => buf'[i] = buf[i]
  BY Destroyed
<1>6. TypeOK' BY <1>1, <1>3, <1>5 DEF TypeOK, Slots, Content
<1>7. Copied(buf', cap, head', buf, cap, head, k, n - k)
  <2>1. ASSUME NEW i \in 1..(n - k)
        PROVE  buf'[SlotOf(cap, head', i - 1)] = buf[SlotOf(cap, head, k + i - 1)]
    <3>1. SlotOf(cap, head', i - 1) = SlotOf(cap, head, k + i - 1)
      BY <1>1, <1>2, <1>3 DEF SlotOf
    <3>2. k + i - 1 \in k..(n - 1) /\ k + i - 1 \in 0..(cap - 1) BY <1>1, <1>3
    <3>3. SlotOf(cap, head, k + i - 1) \notin S BY <1>2, <3>2
    <3>4. SlotOf(cap, head, k + i - 1) \in 0..(cap - 1) BY <1>0, <3>2, Indices
    <3> QED BY <1>5, <3>1, <3>3, <3>4
  <2> QED BY <2>1 DEF Copied
<1>8. IsRing(buf', cap, head', tail) BY <1>1, <1>3, <1>5 DEF IsRing
<1>9. View(buf', cap, head', tail) = SubSeq(View(buf, cap, head, tail), k + 1, n)
  <2>1. k \in Nat /\ n \in Nat /\ n <= Size(cap, head, tail) /\ k <= n BY <1>2, <1>3
  <2> QED BY <1>0, <1>4, <1>7, <1>8, <2>1, Part
<1> QED BY <1>2, <1>6, <1>9, Views

LEMMA PopStep ==
  ASSUME TypeOK, Pop
  PROVE  TypeOK' /\ queue' = SubSeq(queue, 2, Len(queue)) /\ Len(queue) # 0
<1>1. /\ cap \in Nat /\ cap > 1 /\ head \in 0..(cap - 1) /\ tail \in 0..(cap - 1)
  BY Ring DEF IsRing
<1>2. /\ head # tail /\ Destroy({head}) /\ head' = SlotOf(cap, head, 1) /\ ret' = {}
      /\ UNCHANGED <<trivial, cap, tail>>
  BY <1>1 DEF Pop, PopTo, SlotOf
<1>3. PICK n \in 1..(cap - 1) : n = Count
  BY <1>1, <1>2, Views DEF Size
<1>4. \A i \in 1..(Count - 1) : SlotOf(cap, head, i) \notin {head}
  BY <1>1, <1>3 DEF SlotOf
<1>5. 1 \in 1..Count /\ Len(queue) # 0 BY <1>3, Ring
<1>6. TypeOK' /\ queue' = SubSeq(queue, 1 + 1, Len(queue))
  BY <1>2, <1>4, <1>5, FrontStep
<1> QED BY <1>5, <1>6

LEMMA ClearStep ==
  ASSUME TypeOK, Clear
  PROVE  TypeOK' /\ queue' = SubSeq(queue, Len(queue) + 1, Len(queue)) /\ Len(queue) # 0
<1>0. IsRing(buf, cap, head, tail) BY Ring
<1>1. /\ cap \in Nat /\ cap > 1 /\ head \in 0..(cap - 1) /\ tail \in 0..(cap - 1)
      /\ buf \in [0..(cap - 1) -> Content]
  BY <1>0 DEF IsRing
<1>2. PICK n \in 0..(cap - 1) : n = Count /\ n = Size(cap, head, tail) /\ n = Len(queue)
  BY Ring, Views
<1>3. PICK S : Destroy(S)
  BY DEF Clear, ClearOf
<1>4. head # tail /\ head' = 0 /\ tail' = 0 /\ ret' = {} /\ UNCHANGED <<trivial, cap>>
  BY DEF Clear, ClearOf
<1>5. buf' \in [0..(cap - 1) -> Content] /\ sound' \in BOOLEAN BY <1>3, Destroyed
<1>6. TypeOK' BY <1>1, <1>4, <1>5 DEF TypeOK, Slots, Content
<1>7. n # 0 /\ Size(cap, 0, 0) = n - n /\ Copied(buf', cap, 0, buf, cap, head, n, n - n)
  BY <1>1, <1>2, <1>4 DEF Size, Copied
<1>8. IsRing(buf', cap, 0, 0) BY <1>1, <1>5 DEF IsRing
<1>9. View(buf', cap, 0, 0) = SubSeq(View(buf, cap, head, tail), n + 1, n)
  <2>1. n \in Nat /\ n <= Size(cap, head, tail) /\ n <= n BY <1>2
  <2> QED BY <1>0, <1>7, <1>8, <2>1, Part
<1> QED BY <1>2, <1>4, <1>6, <1>7, <1>9, Views

LEMMA PopLastStep ==
  ASSUME TypeOK, PopLast
  PROVE  TypeOK' /\ queue' = SubSeq(queue, 1, Len(queue) - 1) /\ Len(queue) # 0
<1>0. IsRing(buf, cap, head, tail) BY Ring
<1>1. /\ cap \in Nat /\ cap > 1 /\ head \in 0..(cap - 1) /\ tail \in 0..(cap - 1)
      /\ buf \in [0..(cap - 1) -> Content]
  BY <1>0 DEF IsRing
<1>2. PICK n \in 0..(cap - 1) : n = Count /\ n = Size(cap, head, tail) /\ n = Len(queue)
  BY Ring, Views
<1>3. /\ head # tail /\ Destroy({tail}) /\ tail' = LastAt /\ ret' = {}
      /\ UNCHANGED <<trivial, cap, head>>
  BY DEF PopLast
<1>4. PICK last \in 0..(cap - 1) : last = LastAt BY <1>1 DEF LastAt
<1>5. n # 0 /\ n - 1 \in Nat /\ Size(cap, head, last) = n - 1
  BY <1>1, <1>2, <1>3, <1>4 DEF Size, LastAt
<1>6. /\ buf' \in [0..(cap - 1) -> Content] /\ sound' \in BOOLEAN
      /\ \A i \in 0..(cap - 1) : i \notin {tail} => buf'[i] = buf[i]
  BY <1>3, Destroyed
<1>7. TypeOK' BY <1>1, <1>3, <1>4, <1>6 DEF TypeOK, Slots, Content
<1>8. Copied(buf', cap, head, buf, cap, head, 0, n - 1)
  <2>1. ASSUME NEW i \in 1..(n - 1)
        PROVE  buf'[SlotOf(cap, head, i - 1)] = buf[SlotOf(cap, head, 0 + i - 1)]
    <3>1. /\ 0 + i - 1 = i - 1 /\ SlotOf(cap, head, i - 1) \in 0..(cap - 1)
          /\ SlotOf(cap, head, i - 1) # tail
      BY <1>1, <1>2 DEF SlotOf, Size
    <3> QED BY <1>6, <3>1
  <2> QED BY <2>1 DEF Copied
<1>9. IsRing(buf', cap, head, last) BY <1>1, <1>6 DEF IsRing
<1>10. View(buf', cap, head, last) = SubSeq(View(buf, cap, head, tail), 0 + 1, n - 1)
  <2>1. (n - 1) - 0 = n - 1 /\ n - 1 <= Size(cap, head, tail) /\ 0 <= n - 1 BY <1>2, <1>5
  <2> QED BY <1>0, <1>5, <1>8, <1>9, <2>1, Part
<1> QED BY <1>2, <1>3, <1>4, <1>5, <1>7, <1>10, Views
LEMMA PopMultiStep ==
  ASSUME TypeOK, NEW count \in 1..MaxCap, PopMulti(count)
  PROVE  /\ TypeOK' /\ Len(queue) # 0
         /\ \E k \in 1..Len(queue) : queue' = SubSeq(queue, k + 1, Len(queue))
<1>1. CASE count >= Count
  <2>1. Clear BY <1>1 DEF PopMulti
  <2>2. Len(queue) \in 1..Len(queue) BY <2>1, ClearStep, Ring
  <2> QED BY <2>1, <2>2, ClearStep
<1>2. CASE ~(count >= Count)
  <2>1. /\ cap \in Nat /\ cap > 1 /\ head \in 0..(cap - 1) /\ tail \in 0..(cap - 1)
    BY Ring DEF IsRing
  <2>2. PICK n \in 0..(cap - 1) : n = Count /\ n = Size(cap, head, tail) /\ n = Len(queue)
    BY Ring, Views
  <2>3. count \in 1..Count /\ count \in 1..(n - 1) BY <1>2, <2>2, Consts
  <2>4. PopSome(count, cap - head) BY <1>2 DEF PopMulti
  <2>5. ret' = {} /\ UNCHANGED <<trivial, cap, tail>> BY <2>4 DEF PopSome
  <2>6. CASE head < tail \/ count < cap - head
    <3>1. Destroy(head..(head + count - 1)) /\ head' = head + count
      BY <2>4, <2>6 DEF PopSome
    <3>2. head' = SlotOf(cap, head, count) BY <2>1, <2>2, <2>3, <2>6, <3>1 DEF SlotOf, Size
    <3>3. \A i \in count..(Count - 1) : SlotOf(cap, head, i) \notin head..(head + count - 1)
      BY <2>1, <2>2, <2>3 DEF SlotOf
    <3>4. TypeOK' /\ queue' = SubSeq(queue, count + 1, Len(queue))
      BY <2>3, <2>5, <3>1, <3>2, <3>3, FrontStep
    <3> QED BY <2>2, <2>3, <3>4
  <2>7. CASE ~(head < tail \/ count < cap - head)
    <3>1. /\ Destroy(head..(cap - 1) \cup 0..(count - (cap - head) - 1))
          /\ head' = count - (cap - head)
      BY <2>4, <2>7 DEF PopSome
    <3>2. head' = SlotOf(cap, head, count) BY <2>1, <2>3, <2>7, <3>1 DEF SlotOf
    <3>3. ASSUME NEW i \in count..(Count - 1)
          PROVE  SlotOf(cap, head, i) \notin head..(cap - 1) \cup 0..(count - (cap - head) - 1)
      BY <2>1, <2>2, <2>3, <2>7 DEF SlotOf
    <3>4. TypeOK' /\ queue' = SubSeq(queue, count + 1, Len(queue))
      BY <2>3, <2>5, <3>1, <3>2, <3>3, FrontStep
    <3> QED BY <2>2, <2>3, <3>4
  <2> QED BY <2>6, <2>7
<1> QED BY <1>1, <1>2

LEMMA ReserveStep ==
  ASSUME TypeOK, NEW n \in 1..MaxCap, Reserve(n)
  PROVE  TypeOK' /\ queue' = queue
<1>0. IsRing(buf, cap, head, tail) BY Ring
<1>1. /\ cap \in Nat /\ cap > 1 /\ head \in 0..(cap - 1) /\ tail \in 0..(cap - 1)
      /\ buf \in [0..(cap - 1) -> Content]
  BY <1>0 DEF IsRing
<1>2. PICK q \in 0..(cap - 1) : q = Count /\ q = Size(cap, head, tail)
  BY Ring, Views
<1>3. n > cap /\ ReserveTo(buf, tail, n, Count) /\ ret' = {} /\ sound' \in BOOLEAN
  BY DEF Reserve, TypeOK
<1>4. PICK m \in 0..cap : m = Moved(tail) /\ q <= m
  <2>1. CASE head = tail
    <3>1. Moved(tail) = cap BY <1>1, <2>1 DEF Moved
    <3> QED BY <1>1, <1>2, <3>1
  <2>2. CASE head # tail
    <3>1. Moved(tail) = q BY <1>1, <1>2, <2>2 DEF Moved, Size
    <3> QED BY <1>1, <1>2, <3>1
  <2> QED BY <2>1, <2>2
<1>5. /\ buf' = [i \in 0..(n - 1) |-> IF i < m THEN buf[At(i)] ELSE Raw]
      /\ cap' = n /\ head' = 0 /\ tail' = q /\ UNCHANGED trivial
  BY <1>2, <1>3, <1>4 DEF ReserveTo
<1>6. n \in Nat /\ n > cap BY <1>3, Consts
<1>7. \A i \in 0..(cap - 1) : At(i) \in 0..(cap - 1) /\ At(i) = SlotOf(cap, head, i)
  BY <1>0, Indices, Views
<1>8. PICK d \in [0..(n - 1) -> Content] : d = buf'
  <2>1. ASSUME NEW i \in 0..(n - 1)
        PROVE  (IF i < m THEN buf[At(i)] ELSE Raw) \in Content
    <3>1. CASE i < m
      <4>1. At(i) \in 0..(cap - 1) BY <1>1, <1>6, <1>7, <3>1
      <4> QED BY <1>1, <3>1, <4>1
    <3>2. CASE ~(i < m) BY <3>2 DEF Content
    <3> QED BY <3>1, <3>2
  <2> QED BY <1>5, <2>1
<1>9. TypeOK'
  <2>1. trivial' \in BOOLEAN /\ cap' \in Nat /\ cap' >= MinCap /\ sound' \in BOOLEAN
    BY <1>1, <1>3, <1>5, <1>6, Consts DEF TypeOK
  <2>2. Slots' = 0..(n - 1) BY <1>5 DEF Slots
  <2>3. head' \in Slots' /\ tail' \in Slots' /\ ret' \subseteq Slots'
    BY <1>1, <1>3, <1>5, <1>6, <2>2
  <2>4. buf' \in [Slots' -> Item \cup {Raw}] BY <1>8, <2>2 DEF Content
  <2> QED BY <2>1, <2>3, <2>4 DEF TypeOK
<1>10. PICK v \in Seq(Content) : /\ v = View(buf, cap, head, tail) /\ Len(v) = q
                                /\ \A i \in 1..q : v[i] = buf[SlotOf(cap, head, i - 1)]
  <2>1. View(buf, cap, head, tail) \in Seq(Content) /\ Len(View(buf, cap, head, tail)) = q
    BY <1>0, <1>2, Viewed
  <2>2. \A i \in 1..q : View(buf, cap, head, tail)[i] = buf[SlotOf(cap, head, i - 1)]
    BY <1>0, <1>2, Viewed
  <2> QED BY <2>1, <2>2
<1>11. View(d, n, 0, q) = v
  <2>1. IsRing(d, n, 0, q) /\ Size(n, 0, q) = q BY <1>1, <1>6, <1>8 DEF IsRing, Size
  <2>2. ASSUME NEW i \in 1..q PROVE v[i] = d[SlotOf(n, 0, i - 1)]
    <3>1. i - 1 \in 0..(cap - 1) /\ i - 1 \in 0..(n - 1) /\ i - 1 < m BY <1>1, <1>4, <1>6
    <3>2. SlotOf(n, 0, i - 1) = i - 1 BY <1>6, <3>1 DEF SlotOf
    <3>3. d[i - 1] = buf[At(i - 1)] BY <1>5, <1>8, <3>1
    <3> QED BY <1>7, <1>10, <3>1, <3>2, <3>3
  <2> QED BY <1>10, <2>1, <2>2, SameView
<1> QED BY <1>5, <1>8, <1>9, <1>10, <1>11, Views

LEMMA NextStep ==
  ASSUME TypeOK, [Next]_vars
  PROVE  TypeOK' /\ [Sequence!Next]_queue
<1>0. Len(queue) \in Nat BY Ring
<1>1. ASSUME NEW x \in Item, Emplace(x) PROVE TypeOK' /\ Sequence!Push
  BY <1>1, EmplaceStep DEF Sequence!Push
<1>2. CASE Pop
  <2>1. TypeOK' /\ queue' = SubSeq(queue, 2, Len(queue)) /\ Len(queue) # 0 BY <1>2, PopStep
  <2>2. 1 \in 1..Len(queue) /\ 1 + 1 = 2 BY <1>0, <2>1
  <2> QED BY <2>1, <2>2 DEF Sequence!Next, Sequence!PopMulti
<1>3. CASE PopLast
  <2>1. /\ TypeOK' /\ queue' = SubSeq(queue, 1, Len(queue) - 1) /\ Len(queue) # 0
    BY <1>3, PopLastStep
  <2>2. queue # <<>> BY <2>1, EmptySeq
  <2> QED BY <2>1, <2>2 DEF Sequence!Next, Sequence!PopLast
<1>4. CASE Clear
  <2>1. Len(queue) \in 1..Len(queue) BY <1>0, <1>4, ClearStep
  <2> QED BY <1>4, <2>1, ClearStep DEF Sequence!Next, Sequence!PopMulti
<1>5. ASSUME NEW n \in 1..MaxCap, PopMulti(n) PROVE TypeOK' /\ Sequence!PopMulti
  BY <1>5, PopMultiStep DEF Sequence!PopMulti
<1>6. ASSUME NEW n \in 1..MaxCap, Reserve(n) PROVE TypeOK' /\ queue' = queue
  BY <1>6, ReserveStep
<1>7. CASE UNCHANGED vars
  <2>1. UNCHANGED <<trivial, buf, cap, head, tail, sound, ret>> BY <1>7 DEF vars
  <2>2. TypeOK' BY <2>1 DEF TypeOK, Slots
  <2>3. queue' = queue BY <2>1, Views
  <2> QED BY <2>2, <2>3
<1> QED BY <1>1, <1>2, <1>3, <1>4, <1>5, <1>6, <1>7 DEF Next, Sequence!Next

-----------------------------------------------------------------------------
(* What Emplace returns, and where the objects live. *)

LEMMA ReturnStep ==
  ASSUME TypeOK, ReturnsLast, [Next]_vars
  PROVE  ReturnsLast'
<1>1. cap \in Nat /\ cap > 1 /\ head \in 0..(cap - 1) /\ tail \in 0..(cap - 1)
  BY Ring DEF IsRing
<1>2. ASSUME NEW x \in Item, Emplace(x) PROVE ReturnsLast'
  <2>1. PICK next \in 0..(cap - 1) : next = IF tail + 1 = cap THEN 0 ELSE tail + 1
    BY <1>1
  <2>2. CASE next # head
    <3>1. ret' = {tail} /\ tail' = next /\ head' = head /\ cap' = cap
      BY <1>2, <2>1, <2>2 DEF Emplace, EmplaceTo
    <3> QED BY <1>1, <2>1, <2>2, <3>1 DEF ReturnsLast, LastAt
  <2>3. CASE next = head
    <3>1. PICK b : Grow(b, next) BY <1>2, <2>1, <2>3 DEF Emplace, EmplaceTo
    <3>2. ret' = {cap - 1} /\ head' = 0 /\ tail' = cap
      BY <3>1 DEF Grow, GrowReturning, ReserveTo
    <3> QED BY <1>1, <3>2 DEF ReturnsLast, LastAt
  <2> QED BY <2>2, <2>3
<1>3. Clear => ret' = {} BY DEF Clear, ClearOf
<1>4. ASSUME NEW n, PopMulti(n) \/ Reserve(n) PROVE ret' = {}
  BY <1>3, <1>4 DEF PopMulti, PopSome, Reserve
<1>5. Pop \/ PopLast => ret' = {} BY DEF Pop, PopTo, PopLast
<1>6. ASSUME UNCHANGED vars PROVE ReturnsLast'
  BY <1>6 DEF vars, ReturnsLast, LastAt
<1>7. ret' = {} => ReturnsLast' BY DEF ReturnsLast
<1> QED BY <1>2, <1>3, <1>4, <1>5, <1>6, <1>7 DEF Next

\* Where the objects of a type that is not trivial live.
Placed == sound /\ \A i \in 0..(cap - 1) : buf[i] # Raw <=> InUse(i)

\* Destructors of objects that leave the ring.
LEMMA Emptied ==
  ASSUME TypeOK, Placed, ~trivial, NEW S, Destroy(S), cap' = cap,
         \A i \in S : i \in 0..(cap - 1) /\ InUse(i),
         \A i \in 0..(cap - 1) : InUse(i)' <=> InUse(i) /\ i \notin S
  PROVE  Placed'
<1>1. sound' BY DEF Placed, Destroy
<1>2. \A i \in 0..(cap - 1) : buf'[i] = IF i \in S THEN Raw ELSE buf[i]
  BY DEF TypeOK, Destroy, Slots
<1>3. \A i \in 0..(cap - 1) : buf'[i] # Raw <=> InUse(i)'
  BY <1>2 DEF Placed
<1> QED BY <1>1, <1>3 DEF Placed

LEMMA EmplacePlaces ==
  ASSUME TypeOK, Placed, ~trivial, NEW x \in Item, Emplace(x)
  PROVE  Placed'
<1>1. /\ cap \in Nat /\ cap > 1 /\ head \in 0..(cap - 1) /\ tail \in 0..(cap - 1)
      /\ buf \in [0..(cap - 1) -> Content] /\ x # Raw
  BY Ring, Consts DEF IsRing
<1>2. PICK next \in 0..(cap - 1) : next = IF tail + 1 = cap THEN 0 ELSE tail + 1
  BY <1>1
<1>3. PICK b \in [0..(cap - 1) -> Content] : b = [buf EXCEPT ![tail] = x]
  BY <1>1 DEF Content
<1>4. b[tail] = x /\ \A i \in 0..(cap - 1) : i # tail => b[i] = buf[i]
  BY <1>1, <1>3
<1>5. buf[tail] = Raw
  <2>1. ~InUse(tail) BY <1>1 DEF InUse
  <2> QED BY <1>1, <2>1 DEF Placed
<1>6. CASE next # head
  <2>1. buf' = b /\ tail' = next /\ cap' = cap /\ head' = head /\ sound'
    BY <1>2, <1>3, <1>5, <1>6 DEF Emplace, EmplaceTo, Placed
  <2>2. ASSUME NEW i \in 0..(cap - 1) PROVE InUse(i)' <=> InUse(i) \/ i = tail
    BY <1>1, <1>2, <1>6, <2>1 DEF InUse
  <2>3. \A i \in 0..(cap - 1) : buf'[i] # Raw <=> InUse(i)'
    BY <1>1, <1>4, <2>1, <2>2 DEF Placed
  <2> QED BY <2>1, <2>3 DEF Placed
<1>7. CASE next = head
  <2>1. Grow(b, next) /\ sound' = (sound /\ Movable(b, next))
    BY <1>2, <1>3, <1>5, <1>7 DEF Emplace, EmplaceTo
  <2>2. PICK n \in (2 * cap)..MaxCap : ReserveTo(b, next, n, cap)
    BY <2>1 DEF Grow, GrowReturning
  <2>3. n \in Nat /\ n > cap BY <1>1, <2>2, Consts
  <2>4. Moved(next) = cap BY <1>1, <1>7 DEF Moved
  <2>5. /\ buf' = [i \in 0..(n - 1) |-> IF i < cap THEN b[At(i)] ELSE Raw]
        /\ cap' = n /\ head' = 0 /\ tail' = cap
    BY <2>2, <2>4 DEF ReserveTo
  <2>6. \A i \in 0..(cap - 1) : i # tail => InUse(i) BY <1>1, <1>2, <1>7 DEF InUse
  <2>7. \A i \in 0..(cap - 1) : b[i] # Raw BY <1>1, <1>4, <2>6 DEF Placed
  <2>8. \A i \in 0..(cap - 1) : b[At(i)] # Raw
    <3>1. \A i \in 0..(cap - 1) : At(i) \in 0..(cap - 1) BY <1>1 DEF At
    <3> QED BY <2>7, <3>1
  <2>9. sound' BY <2>1, <2>4, <2>8 DEF Movable, Placed
  <2>10. ASSUME NEW i \in 0..(n - 1) PROVE buf'[i] # Raw <=> InUse(i)'
    <3>1. InUse(i)' <=> i < cap BY <1>1, <2>3, <2>5 DEF InUse
    <3>2. buf'[i] = IF i < cap THEN b[At(i)] ELSE Raw BY <2>5
    <3>3. i < cap => i \in 0..(cap - 1) BY <1>1, <2>3
    <3> QED BY <2>8, <3>1, <3>2, <3>3
  <2> QED BY <2>5, <2>9, <2>10 DEF Placed
<1> QED BY <1>6, <1>7

LEMMA ClearPlaces ==
  ASSUME TypeOK, Placed, ~trivial, Clear
  PROVE  Placed'
<1>1. cap \in Nat /\ cap > 1 /\ head \in 0..(cap - 1) /\ tail \in 0..(cap - 1)
  BY Ring DEF IsRing
<1>2. head # tail /\ head' = 0 /\ tail' = 0 /\ cap' = cap
  BY DEF Clear, ClearOf
<1>3. PICK S : /\ Destroy(S)
               /\ S = IF head < tail THEN head..(tail - 1)
                      ELSE 0..(tail - 1) \cup head..(cap - 1)
  BY DEF Clear, ClearOf
<1>4. \A i \in S : i \in 0..(cap - 1) /\ InUse(i) BY <1>1, <1>2, <1>3 DEF InUse
<1>5. ASSUME NEW i \in 0..(cap - 1) PROVE InUse(i)' <=> InUse(i) /\ i \notin S
  BY <1>1, <1>2, <1>3 DEF InUse
<1> QED BY <1>2, <1>3, <1>4, <1>5, Emptied

LEMMA PopPlaces ==
  ASSUME TypeOK, Placed, ~trivial, Pop
  PROVE  Placed'
<1>1. cap \in Nat /\ cap > 1 /\ head \in 0..(cap - 1) /\ tail \in 0..(cap - 1)
  BY Ring DEF IsRing
<1>2. /\ head # tail /\ Destroy({head}) /\ cap' = cap /\ tail' = tail
      /\ head' = IF head + 1 = cap THEN 0 ELSE head + 1
  BY DEF Pop, PopTo
<1>3. \A i \in {head} : i \in 0..(cap - 1) /\ InUse(i) BY <1>1, <1>2 DEF InUse
<1>4. ASSUME NEW i \in 0..(cap - 1) PROVE InUse(i)' <=> InUse(i) /\ i \notin {head}
  BY <1>1, <1>2 DEF InUse
<1> QED BY <1>2, <1>3, <1>4, Emptied

LEMMA PopMultiPlaces ==
  ASSUME TypeOK, Placed, ~trivial, NEW count \in 1..MaxCap, PopMulti(count)
  PROVE  Placed'
<1>1. CASE count >= Count BY <1>1, ClearPlaces DEF PopMulti
<1>2. CASE ~(count >= Count)
  <2>1. cap \in Nat /\ cap > 1 /\ head \in 0..(cap - 1) /\ tail \in 0..(cap - 1)
    BY Ring DEF IsRing
  <2>2. PopSome(count, cap - head) BY <1>2 DEF PopMulti
  <2>3. tail' = tail /\ cap' = cap BY <2>2 DEF PopSome
  <2>4. /\ count \in Nat /\ count > 0 /\ Count \in Nat /\ count < Count
        /\ Count = IF head <= tail THEN tail - head ELSE tail + (cap - head)
    BY <1>2, <2>1, Consts DEF Count
  <2>5. CASE head < tail \/ count < cap - head
    <3>1. Destroy(head..(head + count - 1)) /\ head' = head + count
      BY <2>2, <2>5 DEF PopSome
    <3>2. \A i \in head..(head + count - 1) : i \in 0..(cap - 1) /\ InUse(i)
      BY <2>1, <2>4, <2>5 DEF InUse
    <3>3. ASSUME NEW i \in 0..(cap - 1)
          PROVE  InUse(i)' <=> InUse(i) /\ i \notin head..(head + count - 1)
      BY <2>1, <2>3, <2>4, <2>5, <3>1 DEF InUse
    <3> QED BY <2>3, <3>1, <3>2, <3>3, Emptied
  <2>6. CASE ~(head < tail \/ count < cap - head)
    <3>1. PICK S : /\ Destroy(S) /\ head' = count - (cap - head)
                   /\ S = head..(cap - 1) \cup 0..(count - (cap - head) - 1)
      BY <2>2, <2>6 DEF PopSome
    <3>2. \A i \in S : i \in 0..(cap - 1) /\ InUse(i)
      BY <2>1, <2>4, <2>6, <3>1 DEF InUse
    <3>3. ASSUME NEW i \in 0..(cap - 1) PROVE InUse(i)' <=> InUse(i) /\ i \notin S
      BY <2>1, <2>3, <2>4, <2>6, <3>1 DEF InUse
    <3> QED BY <2>3, <3>1, <3>2, <3>3, Emptied
  <2> QED BY <2>5, <2>6
<1> QED BY <1>1, <1>2

LEMMA ReservePlaces ==
  ASSUME TypeOK, Placed, ~trivial, Calls = {}, NEW n \in 1..MaxCap, Reserve(n)
  PROVE  Placed'
<1>1. cap \in Nat /\ cap > 1 /\ head \in 0..(cap - 1) /\ tail \in 0..(cap - 1)
  BY Ring DEF IsRing
<1>2. /\ n > cap /\ head # tail /\ ReserveTo(buf, tail, n, Count)
      /\ sound' = (sound /\ Movable(buf, tail))
  BY DEF Reserve
<1>3. PICK q \in 0..(cap - 1) : q = Count /\ q = Moved(tail)
  BY <1>1, <1>2 DEF Count, Moved
<1>4. /\ buf' = [i \in 0..(n - 1) |-> IF i < q THEN buf[At(i)] ELSE Raw]
      /\ cap' = n /\ head' = 0 /\ tail' = q
  BY <1>2, <1>3 DEF ReserveTo
<1>5. \A i \in 0..(q - 1) : At(i) \in 0..(cap - 1) /\ InUse(At(i))
  BY <1>1, <1>2, <1>3 DEF At, InUse, Count
<1>6. \A i \in 0..(q - 1) : buf[At(i)] # Raw BY <1>5 DEF Placed
<1>7. sound' BY <1>2, <1>3, <1>6 DEF Movable, Placed
<1>8. ASSUME NEW i \in 0..(n - 1) PROVE buf'[i] # Raw <=> InUse(i)'
  <2>1. n \in Nat BY Consts
  <2>2. InUse(i)' <=> i < q BY <1>1, <1>3, <1>4, <2>1 DEF InUse
  <2>3. buf'[i] = IF i < q THEN buf[At(i)] ELSE Raw BY <1>4
  <2>4. i < q => i \in 0..(q - 1) BY <1>3, <2>1
  <2> QED BY <1>6, <2>2, <2>3, <2>4
<1> QED BY <1>4, <1>7, <1>8 DEF Placed

LEMMA PlacedStep ==
  ASSUME TypeOK, Lifetimes, Calls = {}, [Next]_vars
  PROVE  Lifetimes'
<1>1. trivial' = trivial
  <2>1. ASSUME NEW x \in Item, Emplace(x) PROVE trivial' = trivial
    BY <2>1 DEF Emplace, EmplaceTo, Grow, GrowReturning, ReserveTo
  <2>2. ASSUME NEW n, PopMulti(n) \/ Reserve(n) PROVE trivial' = trivial
    BY <2>2 DEF PopMulti, Clear, ClearOf, PopSome, Reserve, ReserveTo
  <2>3. Pop \/ PopLast \/ Clear => trivial' = trivial
    BY DEF Pop, PopTo, PopLast, Clear, ClearOf
  <2> QED BY <2>1, <2>2, <2>3 DEF Next, vars
<1>2. CASE trivial BY <1>1, <1>2 DEF Lifetimes
<1>3. CASE ~trivial
  <2>1. Placed BY <1>3 DEF Lifetimes, Placed, Slots
  <2>2. ~PopLast BY <1>3 DEF PopLast
  <2>3. ASSUME UNCHANGED vars PROVE Placed'
    BY <2>1, <2>3 DEF vars, Placed, InUse
  <2>4. Placed'
    BY <1>3, <2>1, <2>2, <2>3, EmplacePlaces, PopPlaces, ClearPlaces, PopMultiPlaces, ReservePlaces
    DEF Next
  <2> QED BY <2>4 DEF Lifetimes, Placed, Slots
<1> QED BY <1>2, <1>3

-----------------------------------------------------------------------------
(* The theorems. *)

\* head, tail and what Emplace returns are slots of the buffer, whatever is done.
THEOREM Types == Spec => []TypeOK
<1>1. Init => TypeOK BY InitTypes
<1>2. TypeOK /\ [Next]_vars => TypeOK' BY NextStep
<1> QED BY <1>1, <1>2, PTL DEF Spec

\* The ring is a sequence: Emplace (and the growth it may need), Pop, TryPop,
\* PopLast, PopMulti, Clear and Reserve do to the objects what Fifo says.
THEOREM Implements == Spec => IsFifo
<1>1. Init => Sequence!Init BY InitTypes
<1>2. TypeOK /\ [Next]_vars => [Sequence!Next]_queue BY NextStep
<1> QED BY <1>1, <1>2, Types, PTL DEF Spec, IsFifo, Sequence!Spec

\* What Emplace returns is the object behind which the next will be made, also
\* when the buffer had to grow (lines 132-141).
THEOREM Returned == Spec => []ReturnsLast
<1>1. Init => ReturnsLast BY DEF Init, ReturnsLast
<1>2. TypeOK /\ ReturnsLast /\ [Next]_vars => ReturnsLast' BY ReturnStep
<1> QED BY <1>1, <1>2, Types, PTL DEF Spec

\* Every object is built once, moved from where it lives and destroyed once, if
\* PopLast and Reserve on an empty queue are kept to trivial types.
THEOREM KeptTrackOf == ASSUME Calls = {} PROVE Spec => []Lifetimes
<1>1. Init => Lifetimes
  <2> SUFFICES ASSUME Init PROVE Lifetimes OBVIOUS
  <2>1. \A i \in Slots : buf[i] = Raw /\ ~InUse(i) BY DEF Init, InUse, Slots
  <2>2. sound BY DEF Init
  <2> QED BY <2>1, <2>2 DEF Lifetimes
<1>2. TypeOK /\ Lifetimes /\ [Next]_vars => Lifetimes' BY PlacedStep
<1> QED BY <1>1, <1>2, Types, PTL DEF Spec

-----------------------------------------------------------------------------
(* DictMK: numbers and finite sets. *)

\* A set of natural numbers has a least one.
LEMMA NatMin ==
  ASSUME NEW S \in SUBSET Nat, S # {}
  PROVE  \E m \in S : \A k \in S : m <= k
<1> DEFINE R == {ss \in Nat \X Nat : ss[1] < ss[2]}
<1>1. IsWellFoundedOn(R, Nat) BY NatLessThanWellFounded DEF OpToRel
<1>2. \A x, y \in Nat : y < x => <<y, x>> \in R OBVIOUS
<1> HIDE DEF R
<1>3. \E x \in S : \A y \in S : ~(<<y, x>> \in R) BY <1>1, WFMin
<1>4. \A x, y \in S : x <= y \/ y < x OBVIOUS
<1> QED BY <1>2, <1>3, <1>4

LEMMA LeastIs ==
  ASSUME NEW S \in SUBSET Nat, S # {}
  PROVE  Min(S) \in S /\ \A k \in S : Min(S) <= k
BY NatMin DEF Min

LEMMA GreatestIs ==
  ASSUME NEW n \in Nat, NEW S \in SUBSET (0..n), S # {}
  PROVE  Max(S) \in S /\ \A k \in S : Max(S) >= k
<1> DEFINE T == {k \in Nat : n - k \in S}
<1>1. PICK s \in S : TRUE OBVIOUS
<1>2. n - s \in T OBVIOUS
<1>3. PICK m \in T : \A k \in T : m <= k BY <1>2, NatMin
<1>4. \A s2 \in S : n - s2 \in T OBVIOUS
<1>5. n - m \in S /\ \A s2 \in S : n - m >= s2 BY <1>3, <1>4
<1> QED BY <1>5 DEF Max

\* f goes on from a to what g says, n times.
Iterates(f, S, a, g, n) ==
  f \in [0..n -> S] /\ f[0] = a /\ \A m \in 1..n : f[m] = g[f[m - 1]]

LEMMA Iterated ==
  ASSUME NEW S, NEW a \in S, NEW g \in [S -> S], NEW n \in Nat
  PROVE  \E f : Iterates(f, S, a, g, n)
<1> DEFINE Ok(k) == \E f \in [0..k -> S] : f[0] = a /\ \A m \in 1..k : f[m] = g[f[m - 1]]
           B == {k \in Nat : ~Ok(k)}
<1>1. B = {}
  <2> SUFFICES ASSUME B # {} PROVE FALSE OBVIOUS
  <2>1. PICK k \in B : \A j \in B : k <= j
    <3>1. B \in SUBSET Nat OBVIOUS
    <3> HIDE DEF B
    <3> QED BY <3>1, NatMin
  <2>2. Ok(0)
    <3>1. [j \in 0..0 |-> a] \in [0..0 -> S] /\ [j \in 0..0 |-> a][0] = a OBVIOUS
    <3>2. 1..0 = {} OBVIOUS
    <3> QED BY <3>1, <3>2
  <2>3. k # 0 BY <2>2
  <2>4. k - 1 \in Nat /\ ~(k <= k - 1) BY <2>3
  <2>5. Ok(k - 1) BY <2>1, <2>4
  <2>6. PICK f \in [0..(k - 1) -> S] : f[0] = a /\ \A m \in 1..(k - 1) : f[m] = g[f[m - 1]]
    BY <2>5
  <2> DEFINE e == [j \in 0..k |-> IF j = k THEN g[f[k - 1]] ELSE f[j]]
  <2>7. e \in [0..k -> S]
    <3>1. f[k - 1] \in S BY <2>4
    <3>2. \A j \in 0..k : j # k => f[j] \in S BY <2>4
    <3> QED BY <3>1, <3>2
  <2>8. e[0] = a BY <2>3, <2>6
  <2>9. \A m \in 1..k : e[m] = g[e[m - 1]]
    <3> TAKE m \in 1..k
    <3>1. CASE m = k BY <3>1, <2>4
    <3>2. CASE m # k
      <4>1. m \in 1..(k - 1) /\ m - 1 # k /\ m \in 0..k /\ m - 1 \in 0..k BY <3>2
      <4>2. e[m] = f[m] /\ e[m - 1] = f[m - 1] BY <3>2, <4>1
      <4> QED BY <4>1, <4>2, <2>6
    <3> QED BY <3>1, <3>2
  <2>10. Ok(k)
    <3> HIDE DEF e
    <3> QED BY <2>7, <2>8, <2>9
  <2> QED BY <2>1, <2>10
<1> QED BY <1>1 DEF Iterates

LEMMA Interval ==
  ASSUME NEW n \in Nat
  PROVE  IsFiniteSet(0..(n - 1)) /\ Cardinality(0..(n - 1)) = n
<1>1. n - 1 \in Int /\ 0 \in Int OBVIOUS
<1>2. Cardinality(0..(n - 1)) = IF 0 > n - 1 THEN 0 ELSE n - 1 - 0 + 1 BY <1>1, FS_Interval
<1> QED BY <1>1, <1>2, FS_Interval

LEMMA TooMany ==
  ASSUME NEW n \in Nat, NEW f \in [0..n -> 0..(n - 1)]
  PROVE  \E x, y \in 0..n : x # y /\ f[x] = f[y]
<1> DEFINE S == 0..n
           T == 0..(n - 1)
<1>1. n + 1 \in Nat /\ S = 0..(n + 1 - 1) OBVIOUS
<1>2. IsFiniteSet(S) /\ Cardinality(S) = n + 1 BY <1>1, Interval
<1>3. IsFiniteSet(T) /\ Cardinality(T) = n BY Interval
<1>4. f \in [S -> T] OBVIOUS
<1>5. Cardinality(T) < Cardinality(S) BY <1>2, <1>3
<1> HIDE DEF S, T
<1>6. \E x, y \in S : x # y /\ f[x] = f[y] BY <1>2, <1>3, <1>4, <1>5, FS_PigeonHole
<1> QED BY <1>6 DEF S

LEMMA DictConsts ==
  /\ \A k \in Key \cup Key1 : Hash[k] \in Nat
  /\ None = -1 /\ Gone = -2 /\ None # Gone
BY DictAssumption DEF DictAssumption, None, Gone

LEMMA Remainder ==
  ASSUME NEW h \in Nat, NEW n \in Nat, n > 0
  PROVE  BucketOf(h, n) \in 0..(n - 1)
BY SMT DEF BucketOf

\* The last prime of the table, and the last with another prime that is twice as large.
LargestPrime == 1073741789
SecondLargest == 536870909

LEMMA Primes == \A p \in primes2n : p \in Nat /\ p > 0 /\ p <= LargestPrime
BY DEF primes2n, LargestPrime

LEMMA Prime ==
  ASSUME NEW c \in Nat, c <= LargestPrime
  PROVE  GetPrime(c) \in primes2n /\ GetPrime(c) >= c
<1> DEFINE S == {p \in primes2n : p >= c}
<1>1. S \in SUBSET Nat BY Primes
<1>2. LargestPrime \in S BY DEF primes2n, LargestPrime
<1> HIDE DEF S
<1>3. Min(S) \in S BY <1>1, <1>2, LeastIs
<1> QED BY <1>3 DEF GetPrime, S

\* Up to there the table can double.
LEMMA Doubled ==
  ASSUME NEW p \in primes2n, p < SecondLargest
  PROVE  2 * p <= LargestPrime
BY DEF primes2n, LargestPrime, SecondLargest

-----------------------------------------------------------------------------
(* The lists of the buckets. *)

LEMMA DictFacts ==
  ASSUME NEW d, NEW keys, NEW values, IsDict(d, keys, values)
  PROVE  /\ d.bucketsLen \in primes2n /\ d.bucketsLen \in Nat /\ d.bucketsLen > 0
         /\ d.count \in Nat /\ d.count <= d.bucketsLen
         /\ d.freeCount \in Nat /\ d.freeCount <= d.count
         /\ DOMAIN d.buckets = 0..(d.bucketsLen - 1) /\ DOMAIN d.nodes = 0..(d.count - 1)
         /\ \A b \in 0..(d.bucketsLen - 1) : d.buckets[b] \in {None} \cup 0..(d.count - 1)
         /\ \A i \in 0..(d.count - 1) :
              /\ d.nodes[i].hashCode \in Nat /\ d.nodes[i].next \in {None} \cup 0..(d.count - 1)
              /\ d.nodes[i].key \in keys /\ d.nodes[i].value \in values
              /\ d.nodes[i].prev \in {Gone, None} \cup 0..(d.count - 1)
         /\ d.buckets \in [0..(d.bucketsLen - 1) -> {None} \cup 0..(d.count - 1)]
<1>1. d.bucketsLen \in primes2n /\ d.count \in 0..d.bucketsLen /\ d.freeCount \in 0..d.count
  BY DEF IsDict
<1>2. d.bucketsLen \in Nat /\ d.bucketsLen > 0 BY <1>1, Primes
<1>3. d.buckets \in [0..(d.bucketsLen - 1) -> {None} \cup 0..(d.count - 1)] BY DEF IsDict
<1> DEFINE I == 0..(d.count - 1)
           N == [hashCode : Nat, next : {None} \cup I, key : keys, value : values,
                 prev : {Gone, None} \cup I]
<1>4. d.nodes \in [I -> N] BY DEF IsDict
<1>5. \A x \in N : /\ x.hashCode \in Nat /\ x.next \in {None} \cup I
                   /\ x.key \in keys /\ x.value \in values /\ x.prev \in {Gone, None} \cup I
  OBVIOUS
<1> HIDE DEF N
<1>6. DOMAIN d.nodes = I /\ \A i \in I : d.nodes[i] \in N BY <1>4
<1> QED BY <1>1, <1>2, <1>3, <1>5, <1>6

LEMMA Buckets ==
  ASSUME NEW d, NEW keys, NEW values, IsDict(d, keys, values), NEW h \in Nat
  PROVE  Bucket(d, h) \in 0..(d.bucketsLen - 1)
BY DictFacts, Remainder DEF Bucket

Home(d, i) == Bucket(d, d.nodes[i].hashCode)

\* The nodes V are linked to lists that end, each to the one of its bucket.
Ranked(d, V) ==
  \E hi \in Nat, r \in [V -> Nat] :
    \A i \in V : r[i] <= hi /\ (d.nodes[i].next # None => r[d.nodes[i].next] < r[i])
Headed(d, V) ==
  \A b \in 0..(d.bucketsLen - 1) :
    LET i == d.buckets[b] IN i # None => i \in V /\ Home(d, i) = b /\ d.nodes[i].prev = None
Nexts(d, V) ==
  \A i \in V :
    LET n == d.nodes[i].next IN
    n # None => n \in V /\ Home(d, n) = Home(d, i) /\ d.nodes[n].prev = i
Prevs(d, V) ==
  \A i \in V :
    LET p == d.nodes[i].prev IN
    IF p = None THEN d.buckets[Home(d, i)] = i
    ELSE p \in V /\ Home(d, p) = Home(d, i) /\ d.nodes[p].next = i
Woven(d, V) ==
  V \subseteq 0..(d.count - 1) /\ Ranked(d, V) /\ Headed(d, V) /\ Nexts(d, V) /\ Prevs(d, V)

\* What the recursion of Chain is.
LEMMA ChainIs ==
  ASSUME NEW d, NEW keys, NEW values, IsDict(d, keys, values), NEW V, Woven(d, V),
         NEW b \in 0..(d.bucketsLen - 1)
  PROVE  \E at \in [0..d.count -> {None} \cup V] :
           /\ Chain(d, b) = at /\ at[0] = d.buckets[b]
           /\ \A n \in 1..d.count :
                at[n] = IF at[n - 1] = None THEN None ELSE d.nodes[at[n - 1]].next
<1> DEFINE S == {None} \cup V
           g == [i \in S |-> IF i = None THEN None ELSE d.nodes[i].next]
           F(at) == [n \in 0..d.count |->
                       IF n = 0 THEN d.buckets[b]
                       ELSE IF at[n - 1] = None THEN None ELSE d.nodes[at[n - 1]].next]
           at0 == CHOOSE at : at = F(at)
<1>1. d.count \in Nat BY DictFacts
<1>2. d.buckets[b] \in S BY DictFacts DEF Woven, Headed
<1>3. g \in [S -> S] BY DictFacts DEF Woven, Nexts
<1>4. PICK f \in [0..d.count -> S] :
        f[0] = d.buckets[b] /\ \A m \in 1..d.count : f[m] = g[f[m - 1]]
  <2> HIDE DEF S, g
  <2>1. \E f : Iterates(f, S, d.buckets[b], g, d.count) BY <1>1, <1>2, <1>3, Iterated
  <2> QED BY <2>1 DEF Iterates
<1>5. \A m \in 1..d.count : f[m - 1] \in S BY <1>1
<1>6. \A m \in 1..d.count : f[m] = IF f[m - 1] = None THEN None ELSE d.nodes[f[m - 1]].next
  BY <1>4, <1>5
<1>7. f = F(f)
  <2>1. \A n \in 0..d.count : n # 0 => n \in 1..d.count BY <1>1
  <2>2. \A n \in 0..d.count : f[n] = F(f)[n] BY <1>4, <1>6, <2>1
  <2> QED BY <2>2
<1>8. Chain(d, b) = at0 BY DEF Chain
<1>9. at0 = F(at0) BY <1>7
<1> HIDE DEF at0
<1>10. /\ DOMAIN at0 = 0..d.count /\ at0[0] = d.buckets[b]
       /\ \A n \in 1..d.count :
            at0[n] = IF at0[n - 1] = None THEN None ELSE d.nodes[at0[n - 1]].next
  <2>1. DOMAIN at0 = 0..d.count BY <1>9
  <2>2. \A n \in 0..d.count : at0[n] = F(at0)[n] BY <1>9
  <2>3. 0 \in 0..d.count /\ \A n \in 1..d.count : n \in 0..d.count /\ n # 0 BY <1>1
  <2> QED BY <2>1, <2>2, <2>3
<1> DEFINE B == {n \in 0..d.count : at0[n] # f[n]}
<1>11. B = {}
  <2> SUFFICES ASSUME B # {} PROVE FALSE OBVIOUS
  <2>1. PICK m \in B : \A k \in B : m <= k
    <3>1. B \in SUBSET Nat OBVIOUS
    <3> HIDE DEF B
    <3> QED BY <3>1, NatMin
  <2>2. m # 0 BY <1>4, <1>10
  <2>3. m - 1 \in 0..d.count /\ m \in 1..d.count /\ ~(m <= m - 1) BY <1>1, <2>2
  <2>4. at0[m - 1] = f[m - 1] BY <2>1, <2>3
  <2>5. at0[m] = f[m] BY <1>6, <1>10, <2>3, <2>4
  <2> QED BY <2>1, <2>5
<1>12. at0 = f
  <2>1. at0 = [n \in 0..d.count |-> at0[n]] BY <1>9
  <2> QED BY <2>1, <1>11
<1> QED BY <1>4, <1>6, <1>8, <1>12

\* A list has its nodes one after the other, each once, and ends within the arrays.
IsList(d, V, b, at, len) ==
  /\ at \in [0..d.count -> {None} \cup V] /\ len \in 0..d.count
  /\ Chain(d, b) = at
  /\ \A n \in 0..d.count : at[n] # None <=> n < len
  /\ \A n \in 0..(len - 1) :
       /\ at[n] \in V /\ Home(d, at[n]) = b
       /\ d.nodes[at[n]].prev = IF n = 0 THEN None ELSE at[n - 1]
  /\ \A i \in V : Home(d, i) = b => \E n \in 0..(len - 1) : at[n] = i

LEMMA Chained ==
  ASSUME NEW d, NEW keys, NEW values, IsDict(d, keys, values), NEW V, Woven(d, V),
         NEW b \in 0..(d.bucketsLen - 1)
  PROVE  \E at, len : IsList(d, V, b, at, len)
<1>1. d.count \in Nat BY DictFacts
<1>2. V \subseteq 0..(d.count - 1) BY DEF Woven
<1>3. None \notin V BY <1>1, <1>2 DEF None
<1>4. PICK at \in [0..d.count -> {None} \cup V] :
        /\ Chain(d, b) = at /\ at[0] = d.buckets[b]
        /\ \A n \in 1..d.count :
             at[n] = IF at[n - 1] = None THEN None ELSE d.nodes[at[n - 1]].next
  BY ChainIs
<1>5. PICK hi \in Nat, r \in [V -> Nat] :
        \A i \in V : r[i] <= hi /\ (d.nodes[i].next # None => r[d.nodes[i].next] < r[i])
  BY DEF Woven, Ranked
\* ranks fall along the list
<1>6. \A n \in 0..d.count, m \in 0..d.count :
        m < n /\ at[n] # None => at[m] # None /\ r[at[n]] < r[at[m]]
  <2> DEFINE Ok(n) == \A m \in 0..d.count :
                        m < n /\ at[n] # None => at[m] # None /\ r[at[n]] < r[at[m]]
             B == {n \in 0..d.count : ~Ok(n)}
  <2>1. B = {}
    <3> SUFFICES ASSUME B # {} PROVE FALSE OBVIOUS
    <3>1. PICK n \in B : \A k \in B : n <= k
      <4>1. B \in SUBSET Nat OBVIOUS
      <4> HIDE DEF B
      <4> QED BY <4>1, NatMin
    <3>2. PICK m \in 0..d.count : m < n /\ at[n] # None /\ ~(at[m] # None /\ r[at[n]] < r[at[m]])
      OBVIOUS
    <3>3. n \in 1..d.count /\ n - 1 \in 0..d.count /\ ~(n <= n - 1) /\ m <= n - 1 BY <1>1, <3>2
    <3>4. at[n - 1] # None /\ at[n] = d.nodes[at[n - 1]].next BY <1>4, <3>2, <3>3
    <3>5. at[n - 1] \in V /\ at[n] \in V BY <3>2, <3>3, <3>4
    <3>6. r[at[n]] < r[at[n - 1]] BY <1>5, <3>2, <3>4, <3>5
    <3>7. Ok(n - 1) BY <3>1, <3>3
    <3>8. m # n - 1 BY <3>2, <3>4, <3>6
    <3>9. at[m] # None /\ r[at[n - 1]] < r[at[m]] BY <3>3, <3>4, <3>7, <3>8
    <3>10. at[m] \in V BY <3>9
    <3>11. r[at[n]] \in Nat /\ r[at[n - 1]] \in Nat /\ r[at[m]] \in Nat BY <3>5, <3>10
    <3> QED BY <3>2, <3>6, <3>9, <3>11
  <2> QED BY <2>1
\* so that it ends
<1>7. \E n \in 0..d.count : at[n] = None
  <2> SUFFICES ASSUME \A n \in 0..d.count : at[n] # None PROVE FALSE OBVIOUS
  <2>1. at \in [0..d.count -> 0..(d.count - 1)] BY <1>2
  <2>4. PICK x, y \in 0..d.count : x # y /\ at[x] = at[y] BY <1>1, <2>1, TooMany
  <2>5. x < y \/ y < x BY <1>1, <2>4
  <2>6. r[at[x]] < r[at[y]] \/ r[at[y]] < r[at[x]] BY <1>6, <2>5
  <2>7. at[x] \in V BY <2>4
  <2>8. r[at[x]] \in Nat BY <2>7
  <2> QED BY <2>4, <2>6, <2>8
<1>8. PICK len \in 0..d.count : at[len] = None /\ \A n \in 0..d.count : at[n] = None => len <= n
  <2> DEFINE B == {n \in 0..d.count : at[n] = None}
  <2>1. B \in SUBSET Nat /\ B # {} BY <1>1, <1>7
  <2>2. PICK len \in B : \A n \in B : len <= n
    <3> HIDE DEF B
    <3> QED BY <2>1, NatMin
  <2> QED BY <2>2
<1>9. \A n \in 0..d.count : at[n] # None <=> n < len
  <2> TAKE n \in 0..d.count
  <2>1. n \in Nat /\ len \in Nat BY <1>1
  <2>2. n < len => at[n] # None BY <1>8, <2>1
  <2>3. len < n => at[n] = None BY <1>6, <1>8
  <2>4. n < len \/ n = len \/ len < n BY <2>1
  <2> QED BY <1>8, <2>1, <2>2, <2>3, <2>4
<1>10. \A n \in 0..(len - 1) : n \in 0..d.count /\ n < len /\ at[n] # None /\ at[n] \in V
  <2> TAKE n \in 0..(len - 1)
  <2>1. n \in 0..d.count /\ n < len BY <1>1
  <2> QED BY <1>9, <2>1
<1>11. \A n \in 0..(len - 1) : Home(d, at[n]) = b
  <2> DEFINE B == {n \in 0..(len - 1) : Home(d, at[n]) # b}
  <2> SUFFICES ASSUME B # {} PROVE FALSE OBVIOUS
  <2>1. PICK m \in B : \A k \in B : m <= k
    <3>1. B \in SUBSET Nat OBVIOUS
    <3> HIDE DEF B
    <3> QED BY <3>1, NatMin
  <2>2. m # 0 BY <1>4, <1>10, <2>1 DEF Woven, Headed
  <2>3. m - 1 \in 0..(len - 1) /\ ~(m <= m - 1) /\ m \in 1..d.count BY <1>1, <2>2
  <2>4. Home(d, at[m - 1]) = b BY <2>1, <2>3
  <2>5. at[m] = d.nodes[at[m - 1]].next BY <1>4, <1>10, <2>3
  <2>6. Home(d, at[m]) = b BY <1>10, <2>3, <2>4, <2>5 DEF Woven, Nexts
  <2> QED BY <2>1, <2>6
<1>12. \A n \in 0..(len - 1) : d.nodes[at[n]].prev = IF n = 0 THEN None ELSE at[n - 1]
  <2> TAKE n \in 0..(len - 1)
  <2>1. CASE n = 0 BY <1>4, <1>10, <2>1 DEF Woven, Headed
  <2>2. CASE n # 0
    <3>1. n - 1 \in 0..(len - 1) /\ n \in 1..d.count BY <1>1, <2>2
    <3>2. at[n] = d.nodes[at[n - 1]].next BY <1>4, <1>10, <3>1
    <3>3. d.nodes[at[n]].prev = at[n - 1] BY <1>10, <3>1, <3>2 DEF Woven, Nexts
    <3> QED BY <2>2, <3>3
  <2> QED BY <2>1, <2>2
\* no node of the bucket is left out: nothing is before the one of them with the highest rank
<1>13. \A i \in V : Home(d, i) = b => \E n \in 0..(len - 1) : at[n] = i
  <2> DEFINE Out == {i \in V : Home(d, i) = b /\ \A n \in 0..(len - 1) : at[n] # i}
             B == {hi - r[i] : i \in Out}
  <2> SUFFICES ASSUME Out # {} PROVE FALSE OBVIOUS
  <2>1. PICK i \in Out : \A j \in Out : r[j] <= r[i]
    <3>1. \A j \in Out : j \in V /\ r[j] \in Nat /\ r[j] <= hi BY <1>5
    <3> HIDE DEF Out
    <3>2. B \in SUBSET Nat /\ B # {} BY <3>1
    <3>3. PICK m \in B : \A k \in B : m <= k
      <4> HIDE DEF B
      <4> QED BY <3>2, NatMin
    <3>4. PICK i \in Out : m = hi - r[i] OBVIOUS
    <3>5. \A j \in Out : hi - r[i] <= hi - r[j] BY <3>3, <3>4
    <3> QED BY <3>1, <3>4, <3>5
  <2>2. i \in V /\ Home(d, i) = b /\ \A n \in 0..(len - 1) : at[n] # i BY <2>1
  <2>3. i \in 0..(d.count - 1) /\ i # None BY <1>2, <1>3, <2>2
  <2>4. CASE d.nodes[i].prev = None
    <3>1. d.buckets[b] = i BY <2>2, <2>4 DEF Woven, Prevs
    <3>2. 0 \in 0..d.count BY <1>1
    <3>3. 0 < len BY <1>4, <1>9, <2>3, <3>1, <3>2
    <3>4. 0 \in 0..(len - 1) BY <3>3, <1>1
    <3> QED BY <1>4, <2>2, <3>1, <3>4
  <2>5. CASE d.nodes[i].prev # None
    <3>1. PICK p \in V : p = d.nodes[i].prev /\ Home(d, p) = b /\ d.nodes[p].next = i
      BY <2>2, <2>5 DEF Woven, Prevs
    <3>2. r[i] < r[p] BY <1>5, <2>3, <3>1
    <3>3. r[i] \in Nat /\ r[p] \in Nat BY <2>2
    <3>4. p \notin Out BY <2>1, <3>2, <3>3
    <3>5. PICK n \in 0..(len - 1) : at[n] = p BY <3>1, <3>4
    <3>6. n + 1 \in 1..d.count /\ n + 1 - 1 = n /\ n + 1 \in 0..d.count BY <1>1
    <3>7. at[n + 1] = i BY <1>4, <1>10, <3>1, <3>5, <3>6
    <3>8. n + 1 < len BY <1>9, <2>3, <3>6, <3>7
    <3>9. n + 1 \in 0..(len - 1) BY <1>1, <3>8
    <3> QED BY <2>2, <3>7, <3>9
  <2> QED BY <2>4, <2>5
<1>14. IsList(d, V, b, at, len) BY <1>4, <1>9, <1>10, <1>11, <1>12, <1>13 DEF IsList
<1> QED BY <1>14

-----------------------------------------------------------------------------
(* What Find and Linked say of a dictionary. *)

\* s are the free nodes, the one that was freed last at the end.
Stacked(d, s) ==
  /\ s \in [1..d.freeCount -> 0..(d.count - 1)]
  /\ \A j, k \in 1..d.freeCount : s[j] = s[k] => j = k
  /\ \A i \in 0..(d.count - 1) : i \notin Used(d) <=> \E k \in 1..d.freeCount : s[k] = i
  /\ d.freeList \in {None} \cup 0..(d.count - 1)
  /\ d.freeCount > 0 => d.freeList = s[d.freeCount]
  /\ \A k \in 2..d.freeCount : d.nodes[s[k]].next = s[k - 1]

\* The keys in use differ.
Keyed(d) ==
  /\ \A i \in Used(d) : d.nodes[i].hashCode = Hash[d.nodes[i].key]
  /\ \A i, j \in Used(d) : d.nodes[i].key = d.nodes[j].key => i = j

Shape(d) ==
  d = [freeList |-> d.freeList, freeCount |-> d.freeCount, count |-> d.count,
       bucketsLen |-> d.bucketsLen, buckets |-> d.buckets, nodes |-> d.nodes]

Fit(d, keys, values, s) ==
  Shape(d) /\ IsDict(d, keys, values) /\ Woven(d, Used(d)) /\ Stacked(d, s) /\ Keyed(d)

LEMMA UsedNodes ==
  ASSUME NEW d, NEW keys, NEW values, IsDict(d, keys, values)
  PROVE  /\ Used(d) \subseteq 0..(d.count - 1)
         /\ \A i \in Used(d) : d.nodes[i].prev \in {None} \cup 0..(d.count - 1)
BY DictFacts DEF Used

LEMMA LinkedLists ==
  ASSUME NEW d, NEW keys, NEW values, IsDict(d, keys, values), Woven(d, Used(d))
  PROVE  \A b \in DOMAIN d.buckets :
           LET at == Chain(d, b)
               len == Cardinality({n \in DOMAIN at : at[n] # None})
           IN /\ {at[n] : n \in 0..(len - 1)}
                   = {i \in Used(d) : Bucket(d, d.nodes[i].hashCode) = b}
              /\ \A n \in 0..(len - 1) :
                   d.nodes[at[n]].prev = IF n = 0 THEN None ELSE at[n - 1]
<1> SUFFICES ASSUME NEW b \in 0..(d.bucketsLen - 1)
             PROVE  LET at == Chain(d, b)
                        len == Cardinality({n \in DOMAIN at : at[n] # None})
                    IN /\ {at[n] : n \in 0..(len - 1)} = {i \in Used(d) : Home(d, i) = b}
                       /\ \A n \in 0..(len - 1) :
                            d.nodes[at[n]].prev = IF n = 0 THEN None ELSE at[n - 1]
  BY DictFacts DEF Home
<1>1. PICK q, w : IsList(d, Used(d), b, q, w) BY Chained
<1>2. /\ q \in [0..d.count -> {None} \cup Used(d)] /\ w \in 0..d.count
      /\ Chain(d, b) = q
      /\ \A n \in 0..d.count : q[n] # None <=> n < w
      /\ \A n \in 0..(w - 1) :
           /\ q[n] \in Used(d) /\ Home(d, q[n]) = b
           /\ d.nodes[q[n]].prev = IF n = 0 THEN None ELSE q[n - 1]
      /\ \A i \in Used(d) : Home(d, i) = b => \E n \in 0..(w - 1) : q[n] = i
  BY <1>1 DEF IsList
<1>3. d.count \in Nat /\ w \in Nat /\ w <= d.count BY <1>2, DictFacts
<1>4. {n \in DOMAIN q : q[n] # None} = 0..(w - 1)
  <2>1. \A n \in 0..(w - 1) : n \in 0..d.count /\ n < w BY <1>3
  <2>2. \A n \in 0..d.count : n < w => n \in 0..(w - 1) BY <1>3
  <2> QED BY <1>2, <2>1, <2>2
<1>5. Cardinality({n \in DOMAIN q : q[n] # None}) = w BY <1>3, <1>4, Interval
<1>6. {q[n] : n \in 0..(w - 1)} = {i \in Used(d) : Home(d, i) = b} BY <1>2
<1> DEFINE at == Chain(d, b)
           len == Cardinality({n \in DOMAIN at : at[n] # None})
<1>7. at = q BY <1>2
<1> HIDE DEF at
<1>8. len = w BY <1>5, <1>7
<1> HIDE DEF len
<1>9. {at[n] : n \in 0..(len - 1)} = {i \in Used(d) : Home(d, i) = b} BY <1>6, <1>7, <1>8
<1>10. \A n \in 0..(len - 1) : d.nodes[at[n]].prev = IF n = 0 THEN None ELSE at[n - 1]
  BY <1>2, <1>7, <1>8
<1> QED BY <1>9, <1>10 DEF at, len

\* The free list is that sequence from its end.
LEMMA LinkedFree ==
  ASSUME NEW d, NEW keys, NEW values, IsDict(d, keys, values), NEW s, Stacked(d, s)
  PROVE  LET free[n \in 0..d.freeCount] ==
               IF n = 0 THEN d.freeList ELSE d.nodes[free[n - 1]].next
         IN /\ {free[n] : n \in 0..(d.freeCount - 1)} = 0..(d.count - 1) \ Used(d)
            /\ Cardinality(Used(d)) = d.count - d.freeCount
            /\ d.count <= d.bucketsLen
<1> DEFINE c == d.freeCount
           F(free) == [n \in 0..c |-> IF n = 0 THEN d.freeList ELSE d.nodes[free[n - 1]].next]
           free0 == CHOOSE free : free = F(free)
           f == [n \in 0..c |-> IF n < c THEN s[c - n]
                                ELSE IF c = 0 THEN d.freeList ELSE d.nodes[s[1]].next]
<1>1. c \in Nat /\ d.count \in Nat /\ d.count <= d.bucketsLen BY DictFacts
<1>2. /\ s \in [1..c -> 0..(d.count - 1)]
      /\ \A j, k \in 1..c : s[j] = s[k] => j = k
      /\ \A i \in 0..(d.count - 1) : i \notin Used(d) <=> \E k \in 1..c : s[k] = i
      /\ c > 0 => d.freeList = s[c]
      /\ \A k \in 2..c : d.nodes[s[k]].next = s[k - 1]
  BY DEF Stacked
<1> HIDE DEF c
<1>3. f = F(f)
  <2>1. \A n \in 0..c : f[n] = F(f)[n]
    <3> TAKE n \in 0..c
    <3>1. CASE n = 0 BY <1>1, <1>2, <3>1
    <3>2. CASE n # 0 /\ n < c
      <4>1. n - 1 \in 0..c /\ n - 1 < c /\ c - (n - 1) \in 2..c /\ c - (n - 1) - 1 = c - n
        BY <1>1, <3>2
      <4>2. f[n - 1] = s[c - (n - 1)] /\ f[n] = s[c - n] BY <3>2, <4>1
      <4>3. d.nodes[f[n - 1]].next = s[c - n] BY <1>2, <4>1, <4>2
      <4> QED BY <3>2, <4>2, <4>3
    <3>3. CASE n # 0 /\ ~(n < c)
      <4>1. n = c /\ n - 1 \in 0..c /\ n - 1 < c /\ c - (n - 1) = 1 BY <1>1, <3>3
      <4>2. f[n - 1] = s[1] /\ f[n] = d.nodes[s[1]].next BY <3>3, <4>1
      <4> QED BY <3>3, <4>2
    <3> QED BY <3>1, <3>2, <3>3
  <2> QED BY <2>1
<1>4. free0 = F(free0)
  <2> HIDE DEF f
  <2> QED BY <1>3
<1> HIDE DEF free0
<1>5. \A n \in 0..c : free0[n] = IF n = 0 THEN d.freeList ELSE d.nodes[free0[n - 1]].next
  BY <1>4
<1>6. \A n \in 0..c : f[n] = IF n = 0 THEN d.freeList ELSE d.nodes[f[n - 1]].next
  <2> HIDE DEF f
  <2> QED BY <1>3
<1> DEFINE B == {n \in 0..c : free0[n] # f[n]}
<1>7. B = {}
  <2> SUFFICES ASSUME B # {} PROVE FALSE OBVIOUS
  <2> HIDE DEF f
  <2>1. PICK m \in B : \A k \in B : m <= k
    <3>1. B \in SUBSET Nat OBVIOUS
    <3> HIDE DEF B
    <3> QED BY <3>1, NatMin
  <2>2. m # 0 BY <1>5, <1>6
  <2>3. m - 1 \in 0..c /\ ~(m <= m - 1) BY <1>1, <2>2
  <2>4. free0[m - 1] = f[m - 1] BY <2>1, <2>3
  <2>5. free0[m] = f[m] BY <1>5, <1>6, <2>2, <2>4
  <2> QED BY <2>1, <2>5
<1>8. \A n \in 0..(c - 1) : n \in 0..c /\ free0[n] = s[c - n] /\ c - n \in 1..c
  <2> TAKE n \in 0..(c - 1)
  <2>1. n \in 0..c /\ n < c /\ c - n \in 1..c BY <1>1
  <2>2. f[n] = s[c - n] BY <2>1
  <2> HIDE DEF f
  <2> QED BY <1>7, <2>1, <2>2
<1> HIDE DEF f
<1>9. \A k \in 1..c : c - k \in 0..(c - 1) /\ c - (c - k) = k BY <1>1
<1>10. {free0[n] : n \in 0..(c - 1)} = 0..(d.count - 1) \ Used(d)
  <2>1. \A n \in 0..(c - 1) : free0[n] \in 0..(d.count - 1) \ Used(d) BY <1>2, <1>8
  <2>2. ASSUME NEW i \in 0..(d.count - 1) \ Used(d) PROVE \E n \in 0..(c - 1) : free0[n] = i
    <3>1. PICK k \in 1..c : s[k] = i BY <1>2
    <3>2. free0[c - k] = i BY <1>8, <1>9, <3>1
    <3> QED BY <1>9, <3>2
  <2> QED BY <2>1, <2>2
<1>11. Cardinality(Used(d)) = d.count - c
  <2> DEFINE I == 0..(d.count - 1)
             T == I \ Used(d)
  <2>1. IsFiniteSet(I) /\ Cardinality(I) = d.count BY <1>1, Interval
  <2>2. Used(d) \subseteq I BY UsedNodes
  <2>3. s \in Bijection(1..c, T)
    <3>1. s \in [1..c -> T] BY <1>2
    <3>2. \A i \in T : \E k \in 1..c : s[k] = i BY <1>2
    <3> HIDE DEF T
    <3> QED BY <1>2, <3>1, <3>2 DEF Bijection, Injection, Surjection, IsInjective
  <2>4. Cardinality(T) = c
    <3> HIDE DEF T
    <3>1. ExistsBijection(1..c, T) BY <2>3 DEF ExistsBijection
    <3> QED BY <1>1, <3>1, FS_CountingElements
  <2>5. IsFiniteSet(T) /\ T \subseteq I BY <2>1, FS_Difference
  <2> HIDE DEF I
  <2>6. Cardinality(I \ T) = Cardinality(I) - Cardinality(I \cap T) BY <2>1, FS_Difference
  <2>7. I \cap T = T /\ I \ T = Used(d) BY <2>2
  <2> QED BY <1>1, <2>1, <2>4, <2>6, <2>7
<1> QED BY <1>1, <1>10, <1>11 DEF c, free0, F

\* Find finds a key if and only if it is there.
LEMMA Found ==
  ASSUME NEW d, NEW keys, NEW values, IsDict(d, keys, values), Woven(d, Used(d)), Keyed(d),
         NEW k \in keys, Hash[k] \in Nat
  PROVE  {i \in Used(d) : d.nodes[i].key = k} = {Find(d, k)} \ {None}
<1> DEFINE b == Bucket(d, Hash[k])
<1>1. b \in 0..(d.bucketsLen - 1) BY Buckets
<1> HIDE DEF b
<1>2. PICK at, len : IsList(d, Used(d), b, at, len) BY <1>1, Chained
<1>3. /\ at \in [0..d.count -> {None} \cup Used(d)] /\ len \in 0..d.count
      /\ Chain(d, b) = at
      /\ \A n \in 0..d.count : at[n] # None <=> n < len
      /\ \A n \in 0..(len - 1) :
           /\ at[n] \in Used(d) /\ Home(d, at[n]) = b
           /\ d.nodes[at[n]].prev = IF n = 0 THEN None ELSE at[n - 1]
      /\ \A i \in Used(d) : Home(d, i) = b => \E n \in 0..(len - 1) : at[n] = i
  BY <1>2 DEF IsList
<1>4. d.count \in Nat /\ Used(d) \subseteq 0..(d.count - 1) /\ None \notin Used(d)
  BY DictFacts, UsedNodes DEF None
<1> DEFINE hits == {n \in DOMAIN at : at[n] # None /\ d.nodes[at[n]].hashCode = Hash[k]
                                                    /\ d.nodes[at[n]].key = k}
<1>5. Find(d, k) = IF hits = {} THEN None ELSE at[Min(hits)] BY <1>3 DEF Find, b
<1>6. \A n \in hits : at[n] \in Used(d) /\ d.nodes[at[n]].key = k BY <1>3
<1>7. hits \in SUBSET Nat BY <1>3, <1>4
<1>8. \A i \in Used(d) : d.nodes[i].key = k => hits # {}
  <2> SUFFICES ASSUME NEW i \in Used(d), d.nodes[i].key = k PROVE hits # {} OBVIOUS
  <2>1. d.nodes[i].hashCode = Hash[k] BY DEF Keyed
  <2>2. Home(d, i) = b BY <2>1 DEF Home, b
  <2>3. PICK n \in 0..(len - 1) : at[n] = i BY <1>3, <2>2
  <2>4. n \in 0..d.count BY <1>3, <1>4
  <2>5. n \in hits BY <1>3, <1>4, <2>1, <2>3, <2>4
  <2> QED BY <2>5
<1> HIDE DEF hits
<1>9. CASE hits = {} BY <1>5, <1>8, <1>9
<1>10. CASE hits # {}
  <2>1. Min(hits) \in hits BY <1>7, <1>10, LeastIs
  <2>2. Find(d, k) \in Used(d) /\ d.nodes[Find(d, k)].key = k BY <1>5, <1>6, <1>10, <2>1
  <2>3. Find(d, k) # None BY <1>4, <2>2
  <2>4. \A i \in Used(d) : d.nodes[i].key = k => i = Find(d, k) BY <2>2 DEF Keyed
  <2> QED BY <2>2, <2>3, <2>4
<1> QED BY <1>9, <1>10

LEMMA FitFinds ==
  ASSUME NEW d, NEW keys, NEW values, NEW s, Fit(d, keys, values, s),
         \A k \in keys : Hash[k] \in Nat
  PROVE  Finds(d, keys)
<1>1. IsDict(d, keys, values) /\ Woven(d, Used(d)) /\ Stacked(d, s) /\ Keyed(d) BY DEF Fit
<1>2. Linked(d) BY <1>1, LinkedLists, LinkedFree DEF Linked
<1>3. \A k \in keys : {i \in Used(d) : d.nodes[i].key = k} = {Find(d, k)} \ {None}
  BY <1>1, Found
<1> QED BY <1>2, <1>3 DEF Finds

-----------------------------------------------------------------------------
(* What the operations do to a dictionary. *)

DictNode(n, keys, values) ==
  [hashCode : Nat, next : {None} \cup 0..(n - 1), key : keys, value : values,
   prev : {Gone, None} \cup 0..(n - 1)]

\* e has the records of d, whatever has become of the lists.
Alike(d, e) ==
  /\ Shape(e) /\ e.count = d.count /\ e.freeCount = d.freeCount /\ e.freeList = d.freeList
  /\ \A i \in 0..(d.count - 1) : /\ e.nodes[i].hashCode = d.nodes[i].hashCode
                                 /\ e.nodes[i].key = d.nodes[i].key
                                 /\ e.nodes[i].value = d.nodes[i].value

\* Lists stay what they are as long as their nodes do.
LEMMA WovenSame ==
  ASSUME NEW d, NEW V, Woven(d, V), NEW e, V \subseteq 0..(e.count - 1),
         e.bucketsLen = d.bucketsLen, e.buckets = d.buckets,
         \A i \in V : /\ e.nodes[i].next = d.nodes[i].next /\ e.nodes[i].prev = d.nodes[i].prev
                      /\ Home(e, i) = Home(d, i)
  PROVE  Woven(e, V)
<1>1. Ranked(e, V) BY DEF Woven, Ranked
<1>2. Headed(e, V) BY DEF Woven, Headed
<1>3. Nexts(e, V)
  <2>1. ASSUME NEW i \in V, e.nodes[i].next # None
        PROVE  LET n == e.nodes[i].next IN
               n \in V /\ Home(e, n) = Home(e, i) /\ e.nodes[n].prev = i
    <3>1. PICK n \in V : n = d.nodes[i].next /\ Home(d, n) = Home(d, i) /\ d.nodes[n].prev = i
      BY <2>1 DEF Woven, Nexts
    <3> QED BY <3>1
  <2> QED BY <2>1 DEF Nexts
<1>4. Prevs(e, V)
  <2>1. ASSUME NEW i \in V
        PROVE  LET p == e.nodes[i].prev IN
               IF p = None THEN e.buckets[Home(e, i)] = i
               ELSE p \in V /\ Home(e, p) = Home(e, i) /\ e.nodes[p].next = i
    <3>1. CASE d.nodes[i].prev = None
      <4>1. d.buckets[Home(d, i)] = i BY <3>1 DEF Woven, Prevs
      <4> QED BY <3>1, <4>1
    <3>2. CASE d.nodes[i].prev # None
      <4>1. PICK p \in V : p = d.nodes[i].prev /\ Home(d, p) = Home(d, i) /\ d.nodes[p].next = i
        BY <3>2 DEF Woven, Prevs
      <4> QED BY <3>2, <4>1
    <3> QED BY <3>1, <3>2
  <2> QED BY <2>1 DEF Prevs
<1> QED BY <1>1, <1>2, <1>3, <1>4 DEF Woven

LEMMA NodesOf ==
  ASSUME NEW d, NEW keys, NEW values, IsDict(d, keys, values)
  PROVE  /\ d.nodes \in [0..(d.count - 1) -> DictNode(d.count, keys, values)]
         /\ \A i \in 0..(d.count - 1) : d.nodes[i] \in DictNode(d.count, keys, values)
<1>1. d.nodes \in [0..(d.count - 1) -> DictNode(d.count, keys, values)] BY DEF IsDict, DictNode
<1> HIDE DEF DictNode
<1> QED BY <1>1

Linking(d, i, j) ==
  IF j = i THEN [d.nodes[j] EXCEPT !.next = d.buckets[Home(d, i)], !.prev = None]
  ELSE IF j = d.buckets[Home(d, i)] THEN [d.nodes[j] EXCEPT !.prev = i] ELSE d.nodes[j]

LEMMA LinkIs ==
  ASSUME NEW d, Shape(d), NEW i
  PROVE  Link(d, i) = [freeList |-> d.freeList, freeCount |-> d.freeCount, count |-> d.count,
                       bucketsLen |-> d.bucketsLen,
                       buckets |-> [d.buckets EXCEPT ![Home(d, i)] = i],
                       nodes |-> [j \in DOMAIN d.nodes |-> Linking(d, i, j)]]
<1> DEFINE b == Home(d, i)
           nodes == [j \in DOMAIN d.nodes |-> Linking(d, i, j)]
<1>1. Link(d, i) = [d EXCEPT !.buckets[b] = i, !.nodes = nodes] BY DEF Link, Linking, Home
<1> HIDE DEF b, nodes
<1>2. Link(d, i) = [freeList |-> d.freeList, freeCount |-> d.freeCount, count |-> d.count,
                    bucketsLen |-> d.bucketsLen, buckets |-> [d.buckets EXCEPT ![b] = i],
                    nodes |-> nodes]
  BY <1>1 DEF Shape
<1> QED BY <1>2 DEF b, nodes

LEMMA LinkNodes ==
  ASSUME NEW d, NEW keys, NEW values, Shape(d), IsDict(d, keys, values),
         NEW i \in 0..(d.count - 1)
  PROVE  LET e == Link(d, i)
             old == d.buckets[Home(d, i)]
         IN /\ Alike(d, e) /\ IsDict(e, keys, values)
            /\ e.bucketsLen = d.bucketsLen
            /\ \A b \in 0..(d.bucketsLen - 1) :
                 e.buckets[b] = IF b = Home(d, i) THEN i ELSE d.buckets[b]
            /\ \A j \in 0..(d.count - 1) :
                 /\ e.nodes[j].next = IF j = i THEN old ELSE d.nodes[j].next
                 /\ e.nodes[j].prev = IF j = i THEN None ELSE IF j = old THEN i
                                      ELSE d.nodes[j].prev
<1> DEFINE e == Link(d, i)
           b == Home(d, i)
           old == d.buckets[b]
           N == DictNode(d.count, keys, values)
           n(j) == Linking(d, i, j)
<1>1. /\ Shape(e) /\ e.count = d.count /\ e.freeCount = d.freeCount
      /\ e.freeList = d.freeList /\ e.bucketsLen = d.bucketsLen
      /\ e.buckets = [d.buckets EXCEPT ![b] = i]
      /\ e.nodes = [j \in DOMAIN d.nodes |-> n(j)]
  BY LinkIs DEF Shape
<1> HIDE DEF e
<1>2. b \in 0..(d.bucketsLen - 1) BY DictFacts, Buckets DEF Home
<1>3. old \in {None} \cup 0..(d.count - 1) BY <1>2, DictFacts
<1>4. \A j \in 0..(d.count - 1) :
        /\ n(j) \in N
        /\ n(j).next = IF j = i THEN old ELSE d.nodes[j].next
        /\ n(j).prev = IF j = i THEN None ELSE IF j = old THEN i ELSE d.nodes[j].prev
        /\ n(j).hashCode = d.nodes[j].hashCode /\ n(j).key = d.nodes[j].key
        /\ n(j).value = d.nodes[j].value
  <2> HIDE DEF old
  <2> TAKE j \in 0..(d.count - 1)
  <2>1. d.nodes[j] \in N BY NodesOf
  <2>2. CASE j = i
    <3>1. n(j) = [d.nodes[j] EXCEPT !.next = old, !.prev = None] BY <2>2 DEF Linking, old
    <3> HIDE DEF n
    <3> QED BY <1>3, <2>1, <2>2, <3>1 DEF DictNode
  <2>3. CASE j # i /\ j = old
    <3>1. n(j) = [d.nodes[j] EXCEPT !.prev = i] BY <2>3 DEF Linking, old
    <3> HIDE DEF n
    <3> QED BY <2>1, <2>3, <3>1 DEF DictNode
  <2>4. CASE j # i /\ j # old BY <2>1, <2>4 DEF Linking, old
  <2> QED BY <2>2, <2>3, <2>4
<1> HIDE DEF n, N, b
<1>5. DOMAIN d.nodes = 0..(d.count - 1) BY DictFacts
<1>6. \A j \in 0..(d.count - 1) : e.nodes[j] = n(j) BY <1>1, <1>5
<1>7. e.nodes \in [0..(d.count - 1) -> N] BY <1>1, <1>4, <1>5
<1>8. e.buckets \in [0..(d.bucketsLen - 1) -> {None} \cup 0..(d.count - 1)]
  BY <1>1, <1>2, DictFacts
<1>9. IsDict(e, keys, values) BY <1>1, <1>7, <1>8 DEF IsDict, N, DictNode
<1>10. \A c \in 0..(d.bucketsLen - 1) : e.buckets[c] = IF c = b THEN i ELSE d.buckets[c]
  BY <1>1, <1>2, DictFacts
<1>11. Alike(d, e) BY <1>1, <1>4, <1>6 DEF Alike
<1> QED BY <1>1, <1>4, <1>6, <1>9, <1>10, <1>11 DEF e, b

\* Link brings a node that is in no list to the front of the list of its bucket.
LEMMA LinkWoven ==
  ASSUME NEW d, NEW keys, NEW values, Shape(d), IsDict(d, keys, values),
         NEW V, Woven(d, V), NEW i \in 0..(d.count - 1), i \notin V
  PROVE  LET e == Link(d, i)
         IN /\ Alike(d, e) /\ IsDict(e, keys, values) /\ e.bucketsLen = d.bucketsLen
            /\ Woven(e, V \cup {i})
            /\ \A j \in 0..(d.count - 1) :
                 /\ j # i => e.nodes[j].next = d.nodes[j].next
                 /\ e.nodes[j].prev = Gone <=> j # i /\ d.nodes[j].prev = Gone
<1> DEFINE e == Link(d, i)
           b == Home(d, i)
           old == d.buckets[b]
           W == V \cup {i}
<1>1. /\ Alike(d, e) /\ IsDict(e, keys, values) /\ e.bucketsLen = d.bucketsLen
      /\ \A c \in 0..(d.bucketsLen - 1) : e.buckets[c] = IF c = b THEN i ELSE d.buckets[c]
      /\ \A j \in 0..(d.count - 1) :
           /\ e.nodes[j].next = IF j = i THEN old ELSE d.nodes[j].next
           /\ e.nodes[j].prev = IF j = i THEN None ELSE IF j = old THEN i ELSE d.nodes[j].prev
  BY LinkNodes
<1> HIDE DEF e
<1>2. b \in 0..(d.bucketsLen - 1) BY DictFacts, Buckets DEF Home
<1>3. \A j \in 0..(d.count - 1) : Home(e, j) = Home(d, j) BY <1>1 DEF Home, Alike, Bucket
<1>4. V \subseteq 0..(d.count - 1) /\ e.count = d.count BY <1>1 DEF Woven, Alike
<1>5. d.count \in Nat BY DictFacts
<1>6. i # None /\ i # Gone /\ None \notin V BY <1>4, <1>5 DEF None, Gone
<1>7. old # None => old \in V /\ Home(d, old) = b /\ d.nodes[old].prev = None
  BY <1>2 DEF Woven, Headed
<1>8. Home(d, i) = b OBVIOUS
<1> HIDE DEF b, old
<1>9. Ranked(e, W)
  <2>1. PICK hi \in Nat, r \in [V -> Nat] :
          \A j \in V : r[j] <= hi /\ (d.nodes[j].next # None => r[d.nodes[j].next] < r[j])
    BY DEF Woven, Ranked
  <2> DEFINE q == [j \in W |-> IF j = i THEN hi + 1 ELSE r[j]]
  <2>2. q \in [W -> Nat] OBVIOUS
  <2>3. \A j \in W : q[j] <= hi + 1 BY <2>1
  <2>4. \A j \in W : e.nodes[j].next # None => q[e.nodes[j].next] < q[j]
    <3> SUFFICES ASSUME NEW j \in W, e.nodes[j].next # None PROVE q[e.nodes[j].next] < q[j]
      OBVIOUS
    <3>1. CASE j = i
      <4>1. e.nodes[j].next = old /\ old \in V BY <1>1, <1>7, <3>1
      <4>2. q[old] = r[old] /\ q[j] = hi + 1 /\ r[old] <= hi /\ r[old] \in Nat
        BY <2>1, <3>1, <4>1
      <4> QED BY <4>1, <4>2
    <3>2. CASE j # i
      <4>1. j \in V /\ e.nodes[j].next = d.nodes[j].next BY <1>1, <1>4, <3>2
      <4>2. d.nodes[j].next \in V BY <4>1 DEF Woven, Nexts
      <4>3. d.nodes[j].next # i BY <4>2
      <4> QED BY <2>1, <3>2, <4>1, <4>2, <4>3
    <3> QED BY <3>1, <3>2
  <2>5. hi + 1 \in Nat OBVIOUS
  <2> HIDE DEF q, W
  <2> QED BY <2>2, <2>3, <2>4, <2>5 DEF Ranked
<1>10. Headed(e, W)
  <2> SUFFICES ASSUME NEW c \in 0..(d.bucketsLen - 1), e.buckets[c] # None
               PROVE  /\ e.buckets[c] \in W /\ Home(e, e.buckets[c]) = c
                      /\ e.nodes[e.buckets[c]].prev = None
    BY <1>1 DEF Headed
  <2>1. CASE c = b BY <1>1, <1>3, <1>8, <2>1
  <2>2. CASE c # b
    <3>1. e.buckets[c] = d.buckets[c] BY <1>1, <2>2
    <3>2. d.buckets[c] \in V /\ Home(d, d.buckets[c]) = c /\ d.nodes[d.buckets[c]].prev = None
      BY <3>1 DEF Woven, Headed
    <3>3. d.buckets[c] # old BY <1>6, <1>7, <2>2, <3>2
    <3> QED BY <1>1, <1>3, <1>4, <3>1, <3>2, <3>3
  <2> QED BY <2>1, <2>2
<1>11. Nexts(e, W)
  <2> SUFFICES ASSUME NEW j \in W, e.nodes[j].next # None
               PROVE  /\ e.nodes[j].next \in W /\ Home(e, e.nodes[j].next) = Home(e, j)
                      /\ e.nodes[e.nodes[j].next].prev = j
    BY DEF Nexts
  <2>1. CASE j = i
    <3>1. e.nodes[j].next = old /\ old \in V BY <1>1, <1>7, <2>1
    <3>2. e.nodes[old].prev = i BY <1>1, <1>4, <3>1
    <3> QED BY <1>3, <1>4, <1>7, <1>8, <2>1, <3>1, <3>2
  <2>2. CASE j # i
    <3>1. j \in V /\ e.nodes[j].next = d.nodes[j].next BY <1>1, <1>4, <2>2
    <3>2. PICK n \in V : n = d.nodes[j].next /\ Home(d, n) = Home(d, j) /\ d.nodes[n].prev = j
      BY <3>1 DEF Woven, Nexts
    <3>3. n # old BY <1>6, <1>7, <3>1, <3>2
    <3>4. n # i BY <3>2
    <3>5. e.nodes[n].prev = j BY <1>1, <1>4, <3>2, <3>3, <3>4
    <3> QED BY <1>3, <1>4, <3>1, <3>2, <3>5
  <2> QED BY <2>1, <2>2
<1>12. Prevs(e, W)
  <2> SUFFICES ASSUME NEW j \in W
               PROVE  IF e.nodes[j].prev = None THEN e.buckets[Home(e, j)] = j
                      ELSE /\ e.nodes[j].prev \in W /\ Home(e, e.nodes[j].prev) = Home(e, j)
                           /\ e.nodes[e.nodes[j].prev].next = j
    BY DEF Prevs
  <2>1. CASE j = i BY <1>1, <1>2, <1>3, <1>8, <2>1
  <2>2. CASE j # i /\ j = old
    <3>1. e.nodes[j].prev = i /\ e.nodes[i].next = j BY <1>1, <1>4, <2>2
    <3>2. Home(e, i) = Home(e, j) BY <1>3, <1>4, <1>6, <1>7, <1>8, <2>2
    <3> QED BY <1>6, <3>1, <3>2
  <2>3. CASE j # i /\ j # old
    <3>1. j \in V /\ j \in 0..(d.count - 1) /\ e.nodes[j].prev = d.nodes[j].prev BY <1>1, <1>4, <2>3
    <3>2. CASE d.nodes[j].prev = None
      <4>1. d.buckets[Home(d, j)] = j BY <3>1, <3>2 DEF Woven, Prevs
      <4>2. Home(d, j) # b BY <2>3, <4>1 DEF old
      <4>3. Home(d, j) \in 0..(d.bucketsLen - 1) BY <3>1, DictFacts, Buckets DEF Home
      <4>4. e.buckets[Home(d, j)] = j BY <1>1, <4>1, <4>2, <4>3
      <4> QED BY <1>3, <3>1, <3>2, <4>4
    <3>3. CASE d.nodes[j].prev # None
      <4>1. PICK p \in V : p = d.nodes[j].prev /\ Home(d, p) = Home(d, j) /\ d.nodes[p].next = j
        BY <3>1, <3>3 DEF Woven, Prevs
      <4>2. e.nodes[p].next = j BY <1>1, <1>4, <4>1
      <4> QED BY <1>3, <1>4, <3>1, <3>3, <4>1, <4>2
    <3> QED BY <3>2, <3>3
  <2> QED BY <2>1, <2>2, <2>3
<1>13. Woven(e, W) BY <1>4, <1>9, <1>10, <1>11, <1>12 DEF Woven
<1>14. \A j \in 0..(d.count - 1) :
         /\ j # i => e.nodes[j].next = d.nodes[j].next
         /\ e.nodes[j].prev = Gone <=> j # i /\ d.nodes[j].prev = Gone
  <2> TAKE j \in 0..(d.count - 1)
  <2>1. j = old => d.nodes[j].prev # Gone BY <1>5, <1>7, DictConsts DEF None
  <2> QED BY <1>1, <1>6, <2>1, DictConsts
<1> QED BY <1>1, <1>13, <1>14 DEF e

Unlinking(d, i, j) ==
  IF j = d.nodes[i].prev THEN [d.nodes[j] EXCEPT !.next = d.nodes[i].next]
  ELSE IF j = d.nodes[i].next THEN [d.nodes[j] EXCEPT !.prev = d.nodes[i].prev] ELSE d.nodes[j]

LEMMA UnlinkIs ==
  ASSUME NEW d, Shape(d), NEW i
  PROVE  Unlink(d, i) =
           [freeList |-> d.freeList, freeCount |-> d.freeCount, count |-> d.count,
            bucketsLen |-> d.bucketsLen,
            buckets |-> IF d.nodes[i].prev < 0
                        THEN [d.buckets EXCEPT ![Home(d, i)] = d.nodes[i].next] ELSE d.buckets,
            nodes |-> [j \in DOMAIN d.nodes |-> Unlinking(d, i, j)]]
<1> DEFINE b == Home(d, i)
           nodes == [j \in DOMAIN d.nodes |-> Unlinking(d, i, j)]
           p == d.nodes[i].prev
           n == d.nodes[i].next
<1>1. Unlink(d, i) = [d EXCEPT !.buckets = IF p < 0 THEN [@ EXCEPT ![b] = n] ELSE @,
                               !.nodes = nodes]
  BY DEF Unlink, UnlinkTelling, Unlinking, Home
<1> HIDE DEF b, nodes, p, n
<1>2. Unlink(d, i) =
        [freeList |-> d.freeList, freeCount |-> d.freeCount, count |-> d.count,
         bucketsLen |-> d.bucketsLen,
         buckets |-> IF p < 0 THEN [d.buckets EXCEPT ![b] = n] ELSE d.buckets, nodes |-> nodes]
  BY <1>1 DEF Shape
<1> QED BY <1>2 DEF b, nodes, p, n

\* The places of a node that is in a list.
LEMMA Neighbours ==
  ASSUME NEW d, NEW keys, NEW values, IsDict(d, keys, values),
         NEW V, Woven(d, V), NEW i \in V
  PROVE  LET p == d.nodes[i].prev   n == d.nodes[i].next   b == Home(d, i)
         IN /\ b \in 0..(d.bucketsLen - 1)
            /\ n # None => n \in V /\ n # i /\ n # p /\ Home(d, n) = b /\ d.nodes[n].prev = i
            /\ p = None => d.buckets[b] = i
            /\ p # None => p \in V /\ p # i /\ Home(d, p) = b /\ d.nodes[p].next = i
            /\ \A j \in V : j # p => d.nodes[j].next # i
            /\ \A j \in V : j # n => d.nodes[j].prev # i
            /\ \A c \in 0..(d.bucketsLen - 1) : d.buckets[c] = i => p = None /\ c = b
<1> DEFINE p == d.nodes[i].prev
           n == d.nodes[i].next
           b == Home(d, i)
<1>1. V \subseteq 0..(d.count - 1) /\ d.count \in Nat BY DictFacts DEF Woven
<1>2. None \notin V BY <1>1 DEF None
<1>3. PICK r \in [V -> Nat] :
        \A j \in V : d.nodes[j].next # None => r[d.nodes[j].next] < r[j]
  BY DEF Woven, Ranked
<1>4. b \in 0..(d.bucketsLen - 1) BY <1>1, DictFacts, Buckets DEF Home
<1>5. p = None => d.buckets[b] = i BY DEF Woven, Prevs
<1>6. p # None => p \in V /\ Home(d, p) = b /\ d.nodes[p].next = i BY DEF Woven, Prevs
<1>7. n # None => n \in V /\ Home(d, n) = b /\ d.nodes[n].prev = i BY DEF Woven, Nexts
<1>8. \A j \in V : d.nodes[j].next = i => j = p BY <1>2 DEF Woven, Nexts
<1>9. \A j \in V : d.nodes[j].prev = i => j = n BY <1>2 DEF Woven, Prevs
<1>10. \A c \in 0..(d.bucketsLen - 1) : d.buckets[c] = i => p = None /\ c = b
  BY <1>2 DEF Woven, Headed
<1>11. n # None => n # i
  <2> SUFFICES ASSUME n # None, n = i PROVE FALSE OBVIOUS
  <2>1. r[i] < r[i] /\ r[i] \in Nat BY <1>3
  <2> QED BY <2>1
<1>12. p # None => p # i BY <1>6, <1>11
<1>13. n # None => n # p
  <2> SUFFICES ASSUME n # None, n = p PROVE FALSE OBVIOUS
  <2>1. r[i] < r[p] /\ r[p] < r[i] /\ r[i] \in Nat /\ r[p] \in Nat BY <1>2, <1>3, <1>6
  <2> QED BY <2>1
<1> HIDE DEF p, n, b
<1> QED BY <1>4, <1>5, <1>6, <1>7, <1>8, <1>9, <1>10, <1>11, <1>12, <1>13 DEF p, n, b

LEMMA UnlinkNodes ==
  ASSUME NEW d, NEW keys, NEW values, Shape(d), IsDict(d, keys, values),
         NEW V, Woven(d, V), NEW i \in V
  PROVE  LET e == Unlink(d, i)
             p == d.nodes[i].prev
             n == d.nodes[i].next
         IN /\ Alike(d, e) /\ IsDict(e, keys, values)
            /\ e.bucketsLen = d.bucketsLen
            /\ \A b \in 0..(d.bucketsLen - 1) :
                 e.buckets[b] = IF p = None /\ b = Home(d, i) THEN n ELSE d.buckets[b]
            /\ \A j \in 0..(d.count - 1) :
                 /\ e.nodes[j].next = IF j = p THEN n ELSE d.nodes[j].next
                 /\ e.nodes[j].prev = IF j = n THEN p ELSE d.nodes[j].prev
<1> DEFINE e == Unlink(d, i)
           b == Home(d, i)
           p == d.nodes[i].prev
           n == d.nodes[i].next
           N == DictNode(d.count, keys, values)
           u(j) == Unlinking(d, i, j)
           buckets == IF p < 0 THEN [d.buckets EXCEPT ![b] = n] ELSE d.buckets
<1>1. /\ Shape(e) /\ e.count = d.count /\ e.freeCount = d.freeCount
      /\ e.freeList = d.freeList /\ e.bucketsLen = d.bucketsLen
      /\ e.buckets = buckets
      /\ e.nodes = [j \in DOMAIN d.nodes |-> u(j)]
  <2>1. e = [freeList |-> d.freeList, freeCount |-> d.freeCount, count |-> d.count,
             bucketsLen |-> d.bucketsLen, buckets |-> buckets,
             nodes |-> [j \in DOMAIN d.nodes |-> u(j)]]
    BY UnlinkIs
  <2> HIDE DEF e, buckets, u
  <2> QED BY <2>1 DEF Shape
<1> HIDE DEF e
<1>2. V \subseteq 0..(d.count - 1) /\ d.count \in Nat BY DictFacts DEF Woven
<1>3. /\ b \in 0..(d.bucketsLen - 1)
      /\ n # None => n \in V /\ n # p
      /\ p # None => p \in V
  BY Neighbours
<1>4. n \in {None} \cup 0..(d.count - 1) /\ p \in {None} \cup 0..(d.count - 1) BY <1>2, <1>3
<1>5. p < 0 <=> p = None BY <1>2, <1>4 DEF None
<1>6. \A j \in 0..(d.count - 1) : j # None BY <1>2 DEF None
<1>7. \A j : u(j) = IF j = p THEN [d.nodes[j] EXCEPT !.next = n]
                   ELSE IF j = n THEN [d.nodes[j] EXCEPT !.prev = p] ELSE d.nodes[j]
  BY DEF Unlinking
<1> HIDE DEF u, p, n, b
<1>8. \A j \in 0..(d.count - 1) :
        /\ u(j) \in N
        /\ u(j).next = IF j = p THEN n ELSE d.nodes[j].next
        /\ u(j).prev = IF j = n THEN p ELSE d.nodes[j].prev
        /\ u(j).hashCode = d.nodes[j].hashCode /\ u(j).key = d.nodes[j].key
        /\ u(j).value = d.nodes[j].value
  <2> TAKE j \in 0..(d.count - 1)
  <2>1. d.nodes[j] \in N BY NodesOf
  <2>2. CASE j = p
    <3>1. u(j) = [d.nodes[j] EXCEPT !.next = n] BY <1>7, <2>2
    <3>2. j # n BY <1>3, <1>6, <2>2
    <3> QED BY <1>4, <2>1, <2>2, <3>1, <3>2 DEF DictNode
  <2>3. CASE j # p /\ j = n
    <3>1. u(j) = [d.nodes[j] EXCEPT !.prev = p] BY <1>7, <2>3
    <3> QED BY <1>4, <2>1, <2>3, <3>1 DEF DictNode
  <2>4. CASE j # p /\ j # n
    <3>1. u(j) = d.nodes[j] BY <1>7, <2>4
    <3> QED BY <2>1, <2>4, <3>1
  <2> QED BY <2>2, <2>3, <2>4
<1> HIDE DEF N
<1>9. DOMAIN d.nodes = 0..(d.count - 1) BY DictFacts
<1>10. \A j \in 0..(d.count - 1) : e.nodes[j] = u(j) BY <1>1, <1>9
<1>11. e.nodes \in [0..(d.count - 1) -> N] BY <1>1, <1>8, <1>9
<1>12. e.buckets \in [0..(d.bucketsLen - 1) -> {None} \cup 0..(d.count - 1)]
  BY <1>1, <1>3, <1>4, DictFacts
<1>13. \A c \in 0..(d.bucketsLen - 1) :
         e.buckets[c] = IF p = None /\ c = b THEN n ELSE d.buckets[c]
  BY <1>1, <1>3, <1>5, DictFacts
<1>14. IsDict(e, keys, values) BY <1>1, <1>11, <1>12 DEF IsDict, N, DictNode
<1>15. Alike(d, e) BY <1>1, <1>8, <1>10 DEF Alike
<1> QED BY <1>1, <1>8, <1>10, <1>13, <1>14, <1>15 DEF e, b, p, n

\* Unlink takes a node out of its list.
LEMMA UnlinkWoven ==
  ASSUME NEW d, NEW keys, NEW values, Shape(d), IsDict(d, keys, values),
         NEW V, Woven(d, V), NEW i \in V
  PROVE  LET e == Unlink(d, i)
         IN /\ Alike(d, e) /\ IsDict(e, keys, values) /\ e.bucketsLen = d.bucketsLen
            /\ Woven(e, V \ {i}) /\ e # d
            /\ \A j \in 0..(d.count - 1) :
                 /\ j \notin V => e.nodes[j].next = d.nodes[j].next
                 /\ e.nodes[j].prev = Gone <=> d.nodes[j].prev = Gone
<1> DEFINE e == Unlink(d, i)
           b == Home(d, i)
           p == d.nodes[i].prev
           n == d.nodes[i].next
           W == V \ {i}
<1>1. /\ Alike(d, e) /\ IsDict(e, keys, values) /\ e.bucketsLen = d.bucketsLen
      /\ \A c \in 0..(d.bucketsLen - 1) :
           e.buckets[c] = IF p = None /\ c = b THEN n ELSE d.buckets[c]
      /\ \A j \in 0..(d.count - 1) :
           /\ e.nodes[j].next = IF j = p THEN n ELSE d.nodes[j].next
           /\ e.nodes[j].prev = IF j = n THEN p ELSE d.nodes[j].prev
  BY UnlinkNodes
<1> HIDE DEF e
<1>2. V \subseteq 0..(d.count - 1) /\ d.count \in Nat /\ e.count = d.count
  BY <1>1, DictFacts DEF Woven, Alike
<1>3. None \notin V /\ i # Gone BY <1>2 DEF None, Gone
<1>4. /\ b \in 0..(d.bucketsLen - 1)
      /\ n # None => n \in V /\ n # i /\ n # p /\ Home(d, n) = b /\ d.nodes[n].prev = i
      /\ p = None => d.buckets[b] = i
      /\ p # None => p \in V /\ p # i /\ Home(d, p) = b /\ d.nodes[p].next = i
      /\ \A j \in V : j # p => d.nodes[j].next # i
      /\ \A j \in V : j # n => d.nodes[j].prev # i
      /\ \A c \in 0..(d.bucketsLen - 1) : d.buckets[c] = i => p = None /\ c = b
  BY Neighbours
<1>5. \A j \in 0..(d.count - 1) : Home(e, j) = Home(d, j) BY <1>1 DEF Home, Alike, Bucket
<1> HIDE DEF b, p, n
<1>6. Ranked(e, W)
  <2>1. PICK hi \in Nat, r \in [V -> Nat] :
          \A j \in V : r[j] <= hi /\ (d.nodes[j].next # None => r[d.nodes[j].next] < r[j])
    BY DEF Woven, Ranked
  <2> DEFINE q == [j \in W |-> r[j]]
  <2>2. q \in [W -> Nat] /\ \A j \in W : q[j] <= hi BY <2>1
  <2>3. \A j \in W : e.nodes[j].next # None => q[e.nodes[j].next] < q[j]
    <3> SUFFICES ASSUME NEW j \in W, e.nodes[j].next # None PROVE q[e.nodes[j].next] < q[j]
      OBVIOUS
    <3>1. CASE j = p
      <4>1. e.nodes[j].next = n /\ n \in W BY <1>1, <1>2, <1>4, <3>1
      <4>2. d.nodes[p].next = i /\ d.nodes[i].next = n /\ p \in V BY <1>3, <1>4, <3>1 DEF n
      <4>3. r[i] < r[p] /\ r[n] < r[i] BY <1>3, <2>1, <3>1, <4>1, <4>2
      <4>4. r[i] \in Nat /\ r[n] \in Nat /\ r[p] \in Nat BY <4>1, <4>2
      <4>5. q[n] = r[n] /\ q[p] = r[p] BY <3>1, <4>1
      <4> HIDE DEF q
      <4> QED BY <3>1, <4>1, <4>3, <4>4, <4>5
    <3>2. CASE j # p
      <4>1. e.nodes[j].next = d.nodes[j].next /\ d.nodes[j].next # i BY <1>1, <1>2, <1>4, <3>2
      <4>2. d.nodes[j].next \in W BY <4>1 DEF Woven, Nexts
      <4> QED BY <2>1, <4>1, <4>2
    <3> QED BY <3>1, <3>2
  <2> HIDE DEF q, W
  <2> QED BY <2>2, <2>3 DEF Ranked
<1>7. Headed(e, W)
  <2> SUFFICES ASSUME NEW c \in 0..(d.bucketsLen - 1), e.buckets[c] # None
               PROVE  /\ e.buckets[c] \in W /\ Home(e, e.buckets[c]) = c
                      /\ e.nodes[e.buckets[c]].prev = None
    BY <1>1 DEF Headed
  <2>1. CASE p = None /\ c = b
    <3>1. e.buckets[c] = n BY <1>1, <2>1
    <3>2. n \in V /\ n # i /\ Home(d, n) = b BY <1>4, <3>1
    <3>3. e.nodes[n].prev = p BY <1>1, <1>2, <3>2
    <3> QED BY <1>2, <1>5, <2>1, <3>1, <3>2, <3>3
  <2>2. CASE ~(p = None /\ c = b)
    <3>1. e.buckets[c] = d.buckets[c] BY <1>1, <2>2
    <3>2. d.buckets[c] \in V /\ Home(d, d.buckets[c]) = c /\ d.nodes[d.buckets[c]].prev = None
      BY <3>1 DEF Woven, Headed
    <3>3. d.buckets[c] # i BY <1>4, <2>2
    <3>4. d.buckets[c] # n BY <1>3, <1>4, <3>2
    <3>5. e.nodes[d.buckets[c]].prev = None BY <1>1, <1>2, <3>2, <3>4
    <3> QED BY <1>2, <1>5, <3>1, <3>2, <3>3, <3>5
  <2> QED BY <2>1, <2>2
<1>8. Nexts(e, W)
  <2> SUFFICES ASSUME NEW j \in W, e.nodes[j].next # None
               PROVE  /\ e.nodes[j].next \in W /\ Home(e, e.nodes[j].next) = Home(e, j)
                      /\ e.nodes[e.nodes[j].next].prev = j
    BY DEF Nexts
  <2>1. CASE j = p
    <3>1. e.nodes[j].next = n BY <1>1, <1>2, <2>1
    <3>2. n \in W /\ Home(d, n) = Home(d, j) BY <1>3, <1>4, <2>1, <3>1
    <3>3. e.nodes[n].prev = j BY <1>1, <1>2, <2>1, <3>2
    <3> QED BY <1>2, <1>5, <3>1, <3>2, <3>3
  <2>2. CASE j # p
    <3>1. e.nodes[j].next = d.nodes[j].next /\ d.nodes[j].next # i BY <1>1, <1>2, <1>4, <2>2
    <3>2. PICK m \in V : m = d.nodes[j].next /\ Home(d, m) = Home(d, j) /\ d.nodes[m].prev = j
      BY <3>1 DEF Woven, Nexts
    <3>3. m # n BY <1>3, <1>4, <3>2
    <3>4. e.nodes[m].prev = j BY <1>1, <1>2, <3>2, <3>3
    <3> QED BY <1>2, <1>5, <3>1, <3>2, <3>4
  <2> QED BY <2>1, <2>2
<1>9. Prevs(e, W)
  <2> SUFFICES ASSUME NEW j \in W
               PROVE  IF e.nodes[j].prev = None THEN e.buckets[Home(e, j)] = j
                      ELSE /\ e.nodes[j].prev \in W /\ Home(e, e.nodes[j].prev) = Home(e, j)
                           /\ e.nodes[e.nodes[j].prev].next = j
    BY DEF Prevs
  <2>1. CASE j = n
    <3>1. e.nodes[j].prev = p /\ n \in V /\ Home(d, n) = b /\ Home(e, j) = b
      BY <1>1, <1>2, <1>3, <1>4, <1>5, <2>1
    <3>2. CASE p = None
      <4>1. e.buckets[b] = n BY <1>1, <1>4, <3>2
      <4> QED BY <2>1, <3>1, <3>2, <4>1
    <3>3. CASE p # None
      <4>1. p \in W /\ Home(e, p) = b BY <1>2, <1>4, <1>5, <3>3
      <4>2. e.nodes[p].next = n BY <1>1, <1>2, <4>1
      <4> QED BY <2>1, <3>1, <3>3, <4>1, <4>2
    <3> QED BY <3>2, <3>3
  <2>2. CASE j # n
    <3>1. j \in V /\ e.nodes[j].prev = d.nodes[j].prev /\ d.nodes[j].prev # i
      BY <1>1, <1>2, <1>4, <2>2
    <3>2. CASE d.nodes[j].prev = None
      <4>1. d.buckets[Home(d, j)] = j BY <3>1, <3>2 DEF Woven, Prevs
      <4>2. ~(p = None /\ Home(d, j) = b) BY <1>4, <4>1
      <4>3. Home(d, j) \in 0..(d.bucketsLen - 1) BY <1>2, <3>1, DictFacts, Buckets DEF Home
      <4>4. e.buckets[Home(d, j)] = j BY <1>1, <4>1, <4>2, <4>3
      <4> QED BY <1>2, <1>5, <3>1, <3>2, <4>4
    <3>3. CASE d.nodes[j].prev # None
      <4>1. PICK m \in V : m = d.nodes[j].prev /\ Home(d, m) = Home(d, j) /\ d.nodes[m].next = j
        BY <3>1, <3>3 DEF Woven, Prevs
      <4>2. m # p BY <1>4, <1>3, <4>1
      <4>3. e.nodes[m].next = j BY <1>1, <1>2, <4>1, <4>2
      <4> QED BY <1>2, <1>5, <3>1, <3>3, <4>1, <4>3
    <3> QED BY <3>2, <3>3
  <2> QED BY <2>1, <2>2
<1>10. Woven(e, W) BY <1>2, <1>6, <1>7, <1>8, <1>9 DEF Woven
<1>11. \A j \in 0..(d.count - 1) :
         /\ j \notin V => e.nodes[j].next = d.nodes[j].next
         /\ e.nodes[j].prev = Gone <=> d.nodes[j].prev = Gone
  <2> TAKE j \in 0..(d.count - 1)
  <2>1. j = p => p # None BY <1>2 DEF None
  <2>2. j = n => n # None BY <1>2 DEF None
  <2>3. p # Gone BY <1>2, <1>4, DictConsts DEF None, Gone
  <2> QED BY <1>1, <1>3, <1>4, <2>1, <2>2, <2>3
<1>12. e # d
  <2>1. CASE p = None
    <3>1. e.buckets[b] = n /\ d.buckets[b] = i /\ n # i BY <1>1, <1>3, <1>4, <2>1
    <3> QED BY <3>1
  <2>2. CASE p # None
    <3>1. e.nodes[p].next = n /\ d.nodes[p].next = i /\ n # i BY <1>1, <1>2, <1>3, <1>4, <2>2
    <3> QED BY <3>1
  <2> QED BY <2>1, <2>2
<1> QED BY <1>1, <1>10, <1>11, <1>12 DEF e, W

LEMMA FirstAndLast ==
  ASSUME NEW n \in Nat, NEW S \in SUBSET (0..(n - 1))
  PROVE  /\ S = {} => LastOf(S) = None /\ FirstOf(S) = None
         /\ S # {} => /\ LastOf(S) \in S /\ \A k \in S : k <= LastOf(S)
                      /\ FirstOf(S) \in S /\ \A k \in S : k >= FirstOf(S)
         /\ LastOf(S) \in {None} \cup S /\ FirstOf(S) \in {None} \cup S
<1>1. S \in SUBSET Nat /\ S \in SUBSET (0..n) OBVIOUS
<1>2. S # {} => Max(S) \in S /\ \A k \in S : Max(S) >= k BY <1>1, GreatestIs
<1>3. S # {} => Min(S) \in S /\ \A k \in S : Min(S) <= k BY <1>1, LeastIs
<1> QED BY <1>1, <1>2, <1>3 DEF LastOf, FirstOf

\* Reserve makes the lists of all nodes anew.
LEMMA ReserveWoven ==
  ASSUME NEW d, NEW keys, NEW values, Shape(d), IsDict(d, keys, values),
         NEW capacity \in Nat, capacity > d.bucketsLen, capacity <= LargestPrime
  PROVE  LET e == ReserveDict(d, capacity)
         IN /\ Alike(d, e) /\ IsDict(e, keys, values) /\ e.bucketsLen = GetPrime(capacity)
            /\ e.bucketsLen >= capacity /\ Woven(e, 0..(d.count - 1))
            /\ \A i \in 0..(d.count - 1) : e.nodes[i].prev # Gone
<1> DEFINE e == ReserveDict(d, capacity)
           I == 0..(d.count - 1)
           N == DictNode(d.count, keys, values)
<1>1. PICK len : len = GetPrime(capacity) OBVIOUS
<1> DEFINE h(i) == BucketOf(d.nodes[i].hashCode, len)
<1>2. /\ len \in primes2n /\ len \in Nat /\ len > 0 /\ len >= capacity
      /\ d.bucketsLen \in Nat /\ d.count \in Nat /\ d.count <= d.bucketsLen
  BY <1>1, Prime, Primes, DictFacts
<1>3. DOMAIN d.nodes = I /\ \A i \in I : d.nodes[i] \in N /\ d.nodes[i].hashCode \in Nat
  BY DictFacts, NodesOf
<1>4. \A i \in I : h(i) \in 0..(len - 1)
  <2>1. \A n \in Nat : BucketOf(n, len) \in 0..(len - 1) BY <1>2, Remainder
  <2> QED BY <1>3, <2>1
<1>5. /\ Shape(e) /\ e.count = d.count /\ e.freeCount = d.freeCount /\ e.freeList = d.freeList
      /\ e.bucketsLen = len
      /\ e.buckets = [b \in 0..(len - 1) |-> LastOf(Peers(d, len, b))]
      /\ e.nodes = [i \in I |-> Rehashing(d, len, i)]
  <2> DEFINE buckets == [b \in 0..(len - 1) |-> LastOf(Peers(d, len, b))]
             nodes == [i \in I |-> Rehashing(d, len, i)]
  <2>1. e = [freeList |-> d.freeList, freeCount |-> d.freeCount, count |-> d.count,
             bucketsLen |-> len, buckets |-> buckets, nodes |-> nodes]
    <3>1. ~(capacity <= d.bucketsLen) BY <1>2
    <3> QED BY <1>1, <1>3, <3>1 DEF ReserveDict, Rehashed
  <2> HIDE DEF e, buckets, nodes
  <2> QED BY <2>1 DEF Shape, buckets, nodes
<1> HIDE DEF e
<1> DEFINE peers(b) == Peers(d, len, b)
           below(i) == {j \in peers(h(i)) : j < i}
           above(i) == {j \in peers(h(i)) : j > i}
<1>6. \A b : peers(b) \in SUBSET I BY DEF Peers
<1>7. \A i \in I : below(i) \in SUBSET I /\ above(i) \in SUBSET I BY <1>6
<1>8. \A b, i : i \in peers(b) <=> i \in I /\ h(i) = b BY <1>1 DEF Peers
<1>9. \A i \in I : Rehashing(d, len, i) = [d.nodes[i] EXCEPT !.next = LastOf(below(i)),
                                                          !.prev = FirstOf(above(i))]
  BY <1>1 DEF Rehashing, Below, Above
<1> HIDE DEF peers
<1>10. \A S \in SUBSET I :
         /\ S = {} => LastOf(S) = None /\ FirstOf(S) = None
         /\ S # {} => /\ LastOf(S) \in S /\ \A k \in S : k <= LastOf(S)
                      /\ FirstOf(S) \in S /\ \A k \in S : k >= FirstOf(S)
         /\ LastOf(S) \in {None} \cup S /\ FirstOf(S) \in {None} \cup S
  BY <1>2, FirstAndLast
<1> HIDE DEF below, above, h
<1>11. \A i \in I : LastOf(below(i)) \in {None} \cup I /\ FirstOf(above(i)) \in {None} \cup I
  BY <1>7, <1>10
<1>12. \A i \in I :
         /\ Rehashing(d, len, i) \in N
         /\ Rehashing(d, len, i).next = LastOf(below(i))
         /\ Rehashing(d, len, i).prev = FirstOf(above(i))
         /\ Rehashing(d, len, i).hashCode = d.nodes[i].hashCode
         /\ Rehashing(d, len, i).key = d.nodes[i].key
         /\ Rehashing(d, len, i).value = d.nodes[i].value
  <2> TAKE i \in I
  <2>1. d.nodes[i] \in N BY <1>3
  <2> DEFINE n == LastOf(below(i))
             p == FirstOf(above(i))
  <2>2. n \in {None} \cup I /\ p \in {None} \cup I BY <1>11
  <2>3. Rehashing(d, len, i) = [d.nodes[i] EXCEPT !.next = n, !.prev = p] BY <1>9
  <2> HIDE DEF n, p
  <2>4. /\ Rehashing(d, len, i) \in N
        /\ Rehashing(d, len, i).next = n /\ Rehashing(d, len, i).prev = p
        /\ Rehashing(d, len, i).hashCode = d.nodes[i].hashCode
        /\ Rehashing(d, len, i).key = d.nodes[i].key
        /\ Rehashing(d, len, i).value = d.nodes[i].value
    BY <2>1, <2>2, <2>3 DEF DictNode
  <2> QED BY <2>4 DEF n, p
<1>13. \A i \in I : e.nodes[i] = Rehashing(d, len, i) BY <1>5
<1>14. e.nodes \in [I -> N] BY <1>5, <1>12
<1>15. \A b \in 0..(len - 1) :
         e.buckets[b] = LastOf(peers(b)) /\ LastOf(peers(b)) \in {None} \cup I
  BY <1>5, <1>6, <1>10 DEF peers
<1>16. e.buckets \in [0..(len - 1) -> {None} \cup I] BY <1>5, <1>15
<1>17. IsDict(e, keys, values)
  <2>1. d.freeCount \in 0..d.count /\ (d.freeCount > 0 => d.freeList \in I) BY DEF IsDict
  <2>2. d.count \in 0..len BY <1>2
  <2> QED BY <1>2, <1>5, <1>14, <1>16, <2>1, <2>2 DEF IsDict, DictNode
<1>18. Alike(d, e) BY <1>5, <1>12, <1>13 DEF Alike
<1>19. \A i \in I : Home(e, i) = h(i) BY <1>1, <1>5, <1>12, <1>13 DEF Home, Bucket, h
<1>20. \A i \in I : e.nodes[i].next = LastOf(below(i)) /\ e.nodes[i].prev = FirstOf(above(i))
  BY <1>12, <1>13
<1>21. None \notin I /\ Gone \notin I /\ None # Gone BY <1>2 DEF None, Gone
<1>22. \A i \in I : \A j : j \in below(i) <=> j \in I /\ h(j) = h(i) /\ j < i BY <1>8 DEF below
<1>23. \A i \in I : \A j : j \in above(i) <=> j \in I /\ h(j) = h(i) /\ j > i BY <1>8 DEF above
<1>24. Ranked(e, I)
  <2> DEFINE q == [i \in I |-> i]
  <2>1. q \in [I -> Nat] /\ \A i \in I : q[i] <= d.count BY <1>2
  <2>2. \A i \in I : e.nodes[i].next # None => q[e.nodes[i].next] < q[i]
    <3> TAKE i \in I
    <3>1. e.nodes[i].next # None => e.nodes[i].next \in below(i) BY <1>7, <1>10, <1>20
    <3> QED BY <1>22, <3>1
  <2> HIDE DEF q
  <2> QED BY <1>2, <2>1, <2>2 DEF Ranked
<1>25. Headed(e, I)
  <2> SUFFICES ASSUME NEW b \in 0..(len - 1), e.buckets[b] # None
               PROVE  /\ e.buckets[b] \in I /\ Home(e, e.buckets[b]) = b
                      /\ e.nodes[e.buckets[b]].prev = None
    BY <1>5 DEF Headed
  <2>1. PICK i \in I : i = e.buckets[b] /\ h(i) = b /\ \A k \in peers(b) : k <= i
    BY <1>6, <1>8, <1>10, <1>15
  <2>2. above(i) = {}
    <3>1. ASSUME NEW j \in above(i) PROVE FALSE
      <4>1. j \in I /\ j > i /\ j \in peers(b) BY <1>8, <1>23, <2>1
      <4>2. j <= i BY <2>1, <4>1
      <4> QED BY <1>2, <4>1, <4>2
    <3> QED BY <3>1
  <2>3. e.nodes[i].prev = None BY <1>7, <1>10, <1>20, <2>2
  <2> QED BY <1>19, <2>1, <2>3
<1>26. Nexts(e, I)
  <2> SUFFICES ASSUME NEW i \in I, e.nodes[i].next # None
               PROVE  /\ e.nodes[i].next \in I /\ Home(e, e.nodes[i].next) = Home(e, i)
                      /\ e.nodes[e.nodes[i].next].prev = i
    BY DEF Nexts
  <2>1. PICK n \in I : /\ n = e.nodes[i].next /\ n \in below(i)
                       /\ \A k \in below(i) : k <= n
    BY <1>7, <1>10, <1>20
  <2>2. h(n) = h(i) /\ n < i BY <1>22, <2>1
  <2>3. i \in above(n) BY <1>2, <1>23, <2>2
  <2>4. PICK j \in I : j = e.nodes[n].prev /\ j \in above(n) /\ j <= i
    BY <1>7, <1>10, <1>20, <2>3
  <2>5. h(j) = h(i) /\ j > n BY <1>23, <2>2, <2>4
  <2>6. j < i => j <= n BY <1>22, <2>1, <2>5
  <2>7. j = i BY <1>2, <2>4, <2>5, <2>6
  <2> QED BY <1>19, <2>1, <2>2, <2>4, <2>7
<1>27. Prevs(e, I)
  <2> SUFFICES ASSUME NEW i \in I
               PROVE  IF e.nodes[i].prev = None THEN e.buckets[Home(e, i)] = i
                      ELSE /\ e.nodes[i].prev \in I /\ Home(e, e.nodes[i].prev) = Home(e, i)
                           /\ e.nodes[e.nodes[i].prev].next = i
    BY DEF Prevs
  <2>1. CASE e.nodes[i].prev = None
    <3>1. above(i) = {} BY <1>7, <1>10, <1>20, <1>21, <2>1
    <3>2. i \in peers(h(i)) BY <1>8
    <3>3. PICK j \in I : j = e.buckets[h(i)] /\ j \in peers(h(i)) /\ i <= j
      BY <1>1, <1>4, <1>6, <1>10, <1>15, <3>2
    <3>4. ~(j > i) BY <1>8, <1>23, <3>1, <3>3
    <3>5. j = i BY <1>2, <3>3, <3>4
    <3> QED BY <1>19, <2>1, <3>3, <3>5
  <2>2. CASE e.nodes[i].prev # None
    <3>1. PICK p \in I : /\ p = e.nodes[i].prev /\ p \in above(i)
                         /\ \A k \in above(i) : k >= p
      BY <1>7, <1>10, <1>20, <2>2
    <3>2. h(p) = h(i) /\ p > i BY <1>23, <3>1
    <3>3. i \in below(p) BY <1>2, <1>22, <3>2
    <3>4. PICK j \in I : j = e.nodes[p].next /\ j \in below(p) /\ i <= j
      BY <1>7, <1>10, <1>20, <3>3
    <3>5. h(j) = h(i) /\ j < p BY <1>22, <3>2, <3>4
    <3>6. j > i => j >= p BY <1>23, <3>1, <3>5
    <3>7. j = i BY <1>2, <3>4, <3>5, <3>6
    <3> QED BY <1>19, <2>2, <3>1, <3>2, <3>4, <3>7
  <2> QED BY <2>1, <2>2
<1>28. Woven(e, I) BY <1>5, <1>24, <1>25, <1>26, <1>27 DEF Woven
<1>29. \A i \in I : e.nodes[i].prev # Gone BY <1>11, <1>20, <1>21
<1>30. /\ Alike(d, e) /\ IsDict(e, keys, values) /\ e.bucketsLen = GetPrime(capacity)
       /\ e.bucketsLen >= capacity /\ Woven(e, I) /\ \A i \in I : e.nodes[i].prev # Gone
  BY <1>1, <1>2, <1>5, <1>17, <1>18, <1>28, <1>29
<1> QED BY <1>30 DEF e

\* d with node x at i, and what else is assigned with it.
Put(d, i, n, list, freed, x) ==
  [freeList |-> list, freeCount |-> freed, count |-> n, bucketsLen |-> d.bucketsLen,
   buckets |-> d.buckets,
   nodes |-> [j \in DOMAIN d.nodes \cup {i} |-> IF j = i THEN x ELSE d.nodes[j]]]

Puttable(d, i, n, list, freed, x, V, keys, values) ==
  /\ IsDict(d, keys, values) /\ Woven(d, V)
  /\ n \in Nat /\ n >= d.count /\ n <= d.bucketsLen
  /\ i \in 0..(n - 1) /\ 0..(n - 1) = 0..(d.count - 1) \cup {i}
  /\ list \in {None} \cup 0..(n - 1) /\ freed \in 0..n /\ (freed > 0 => list \in 0..(n - 1))
  /\ x \in DictNode(n, keys, values)
  /\ i \in V => /\ x.next = d.nodes[i].next /\ x.prev = d.nodes[i].prev
                 /\ Bucket(d, x.hashCode) = Home(d, i)

LEMMA PutWoven ==
  ASSUME NEW d, NEW i, NEW n, NEW list, NEW freed, NEW x, NEW V, NEW keys, NEW values,
         Puttable(d, i, n, list, freed, x, V, keys, values)
  PROVE  LET e == Put(d, i, n, list, freed, x)
         IN /\ Shape(e) /\ IsDict(e, keys, values) /\ Woven(e, V)
            /\ e.count = n /\ e.freeCount = freed /\ e.freeList = list
            /\ e.bucketsLen = d.bucketsLen /\ e.nodes[i] = x
            /\ \A j \in 0..(d.count - 1) : j # i => e.nodes[j] = d.nodes[j]
<1> DEFINE e == Put(d, i, n, list, freed, x)
           N == DictNode(n, keys, values)
<1> USE DEF Puttable
<1>1. DOMAIN d.nodes = 0..(d.count - 1) /\ d.count \in Nat BY DictFacts
<1>2. /\ Shape(e) /\ e.count = n /\ e.freeCount = freed /\ e.freeList = list
      /\ e.bucketsLen = d.bucketsLen /\ e.buckets = d.buckets
      /\ e.nodes = [j \in 0..(n - 1) |-> IF j = i THEN x ELSE d.nodes[j]]
  BY <1>1 DEF Put, Shape
<1> HIDE DEF e
<1>3. 0..(d.count - 1) \subseteq 0..(n - 1) BY <1>1
<1>4. \A j \in 0..(d.count - 1) : d.nodes[j] \in N
  <2> TAKE j \in 0..(d.count - 1)
  <2>1. d.nodes[j] \in DictNode(d.count, keys, values) BY NodesOf
  <2> QED BY <1>3, <2>1 DEF DictNode
<1> HIDE DEF N
<1>5. e.nodes \in [0..(n - 1) -> N] BY <1>2, <1>4 DEF N
<1>6. IsDict(e, keys, values)
  <2>1. d.bucketsLen \in primes2n /\ n \in 0..d.bucketsLen BY DictFacts
  <2>2. d.buckets \in [0..(d.bucketsLen - 1) -> {None} \cup 0..(n - 1)] BY <1>3, DictFacts
  <2> QED BY <1>2, <1>5, <2>1, <2>2 DEF IsDict, N, DictNode
<1>7. e.nodes[i] = x /\ \A j \in 0..(d.count - 1) : j # i => e.nodes[j] = d.nodes[j]
  BY <1>2, <1>3
<1>8. Woven(e, V)
  <2>1. V \subseteq 0..(d.count - 1) BY DEF Woven
  <2>2. V \subseteq 0..(e.count - 1) BY <1>2, <1>3, <2>1
  <2>3. \A j \in V : j # i => e.nodes[j] = d.nodes[j] BY <1>7, <2>1
  <2>4. \A j \in V : /\ e.nodes[j].next = d.nodes[j].next /\ e.nodes[j].prev = d.nodes[j].prev
                     /\ Home(e, j) = Home(d, j)
    <3> TAKE j \in V
    <3>1. CASE j # i BY <1>2, <2>3, <3>1 DEF Home, Bucket
    <3>2. CASE j = i BY <1>2, <1>7, <3>2 DEF Home, Bucket
    <3> QED BY <3>1, <3>2
  <2>5. /\ e.bucketsLen = d.bucketsLen /\ e.buckets = d.buckets
        /\ \A j \in V : /\ e.nodes[j].next = d.nodes[j].next /\ e.nodes[j].prev = d.nodes[j].prev
                        /\ Home(e, j) = Home(d, j)
    BY <1>2, <2>4
  <2>6. Woven(d, V) OBVIOUS
  <2> HIDE DEF e
  <2> QED BY <2>2, <2>5, <2>6, WovenSame
<1> QED BY <1>2, <1>6, <1>7, <1>8 DEF e

FreshNode(k, v) == [hashCode |-> Hash[k], next |-> None, key |-> k, value |-> v, prev |-> None]

\* The table grows when there is no node left.
Roomy(d) == IF d.count = d.bucketsLen THEN ReserveDict(d, 2 * d.count) ELSE d

LEMMA AddIs ==
  ASSUME NEW d, Shape(d), Shape(Roomy(d)), Roomy(d).freeList = d.freeList,
         Roomy(d).freeCount = d.freeCount, Roomy(d).count = d.count, NEW k, NEW v
  PROVE  Add(d, k, v) =
           IF d.freeCount > 0
           THEN Link(Put(d, d.freeList, d.count, d.nodes[d.freeList].next, d.freeCount - 1,
                         FreshNode(k, v)), d.freeList)
           ELSE Link(Put(Roomy(d), d.count, d.count + 1, d.freeList, d.freeCount,
                         FreshNode(k, v)), d.count)
<1> DEFINE i == IndexFor(d)
           e == IF d.freeCount > 0
                THEN [d EXCEPT !.freeList = d.nodes[i].next, !.freeCount = @ - 1]
                ELSE [Roomy(d) EXCEPT !.count = @ + 1]
           x == FreshNode(k, v)
           nodes == [j \in DOMAIN e.nodes \cup {i} |-> IF j = i THEN x ELSE e.nodes[j]]
<1>1. Add(d, k, v) = Link([e EXCEPT !.nodes = nodes], i) BY DEF Add, Roomy, FreshNode
<1>2. CASE d.freeCount > 0
  <2>1. i = d.freeList BY <1>2 DEF IndexFor
  <2> DEFINE y == d.nodes[i].next
             f == d.freeCount - 1
  <2>2. e = [d EXCEPT !.freeList = y, !.freeCount = f] BY <1>2
  <2> HIDE DEF i, x, e, y, f
  <2>3. e = [freeList |-> y, freeCount |-> f, count |-> d.count, bucketsLen |-> d.bucketsLen,
             buckets |-> d.buckets, nodes |-> d.nodes]
    BY <2>2 DEF Shape
  <2>4. e.nodes = d.nodes BY <2>3
  <2>5. nodes = [j \in DOMAIN d.nodes \cup {i} |-> IF j = i THEN x ELSE d.nodes[j]] BY <2>4
  <2> HIDE DEF nodes
  <2>6. [e EXCEPT !.nodes = nodes] =
          [freeList |-> y, freeCount |-> f, count |-> d.count, bucketsLen |-> d.bucketsLen,
           buckets |-> d.buckets, nodes |-> nodes]
    BY <2>3
  <2>7. [e EXCEPT !.nodes = nodes] = Put(d, i, d.count, y, f, x) BY <2>5, <2>6 DEF Put
  <2> QED BY <1>1, <1>2, <2>1, <2>7 DEF y, f, x
<1>3. CASE ~(d.freeCount > 0)
  <2>1. i = d.count BY <1>3 DEF IndexFor
  <2> DEFINE g == Roomy(d)
             n == g.count + 1
  <2>2. e = [g EXCEPT !.count = n] BY <1>3
  <2> HIDE DEF i, x, e, g, n
  <2>3. e = [freeList |-> g.freeList, freeCount |-> g.freeCount, count |-> n,
             bucketsLen |-> g.bucketsLen, buckets |-> g.buckets, nodes |-> g.nodes]
    BY <2>2 DEF Shape, g
  <2>4. e.nodes = g.nodes BY <2>3
  <2>5. nodes = [j \in DOMAIN g.nodes \cup {i} |-> IF j = i THEN x ELSE g.nodes[j]] BY <2>4
  <2> HIDE DEF nodes
  <2>6. [e EXCEPT !.nodes = nodes] =
          [freeList |-> g.freeList, freeCount |-> g.freeCount, count |-> n,
           bucketsLen |-> g.bucketsLen, buckets |-> g.buckets, nodes |-> nodes]
    BY <2>3
  <2>7. [e EXCEPT !.nodes = nodes] = Put(g, i, n, g.freeList, g.freeCount, x)
    BY <2>5, <2>6 DEF Put
  <2> QED BY <1>1, <1>3, <2>1, <2>7 DEF g, n, x
<1> QED BY <1>2, <1>3

LEMMA StackFacts ==
  ASSUME NEW d, NEW keys, NEW values, NEW s, Fit(d, keys, values, s)
  PROVE  /\ s \in [1..d.freeCount -> 0..(d.count - 1)]
         /\ \A j, k \in 1..d.freeCount : s[j] = s[k] => j = k
         /\ \A i \in 0..(d.count - 1) : i \notin Used(d) <=> \E k \in 1..d.freeCount : s[k] = i
         /\ d.freeList \in {None} \cup 0..(d.count - 1)
         /\ d.freeCount > 0 => d.freeList = s[d.freeCount]
         /\ \A k \in 2..d.freeCount : d.nodes[s[k]].next = s[k - 1]
         /\ d.freeCount = 0 => Used(d) = 0..(d.count - 1)
<1>1. IsDict(d, keys, values) /\ Stacked(d, s) BY DEF Fit
<1>2. /\ s \in [1..d.freeCount -> 0..(d.count - 1)]
      /\ \A j, k \in 1..d.freeCount : s[j] = s[k] => j = k
      /\ \A i \in 0..(d.count - 1) : i \notin Used(d) <=> \E k \in 1..d.freeCount : s[k] = i
      /\ d.freeList \in {None} \cup 0..(d.count - 1)
      /\ d.freeCount > 0 => d.freeList = s[d.freeCount]
      /\ \A k \in 2..d.freeCount : d.nodes[s[k]].next = s[k - 1]
  BY <1>1 DEF Stacked
<1>3. d.freeCount = 0 => Used(d) = 0..(d.count - 1)
  <2>1. d.freeCount = 0 => \A i \in 0..(d.count - 1) : i \in Used(d) BY <1>2
  <2> QED BY <2>1 DEF Used
<1> QED BY <1>2, <1>3

\* Where there are no free nodes growing changes the lists only.
LEMMA Roomed ==
  ASSUME NEW d, NEW keys, NEW values, NEW s, Fit(d, keys, values, s), d.freeCount = 0,
         d.count = d.bucketsLen => d.count < SecondLargest
  PROVE  LET g == Roomy(d)
         IN /\ Alike(d, g) /\ IsDict(g, keys, values) /\ Woven(g, Used(d))
            /\ g.bucketsLen = IF d.count = d.bucketsLen THEN GetPrime(2 * d.count)
                              ELSE d.bucketsLen
            /\ d.count < g.bucketsLen
            /\ \A i \in 0..(d.count - 1) : g.nodes[i].prev # Gone
<1>1. Shape(d) /\ IsDict(d, keys, values) /\ Woven(d, Used(d)) BY DEF Fit
<1>2. Used(d) = 0..(d.count - 1) BY StackFacts
<1>3. /\ d.count \in Nat /\ d.bucketsLen \in Nat /\ d.count <= d.bucketsLen
      /\ d.bucketsLen > 0 /\ d.bucketsLen \in primes2n
  BY <1>1, DictFacts
<1>4. CASE d.count = d.bucketsLen
  <2>1. 2 * d.count \in Nat /\ 2 * d.count > d.bucketsLen /\ 2 * d.count <= LargestPrime
    BY <1>3, <1>4, Doubled
  <2>2. Roomy(d) = ReserveDict(d, 2 * d.count) BY <1>4 DEF Roomy
  <2>3. /\ Alike(d, Roomy(d)) /\ IsDict(Roomy(d), keys, values)
        /\ Roomy(d).bucketsLen = GetPrime(2 * d.count)
        /\ Roomy(d).bucketsLen >= 2 * d.count /\ Woven(Roomy(d), 0..(d.count - 1))
        /\ \A i \in 0..(d.count - 1) : Roomy(d).nodes[i].prev # Gone
    BY <1>1, <2>1, <2>2, ReserveWoven
  <2>4. Roomy(d).bucketsLen \in Nat BY <2>3, DictFacts
  <2> QED BY <1>2, <1>3, <1>4, <2>1, <2>3, <2>4
<1>5. CASE d.count # d.bucketsLen
  <2>1. Roomy(d) = d BY <1>5 DEF Roomy
  <2>2. \A i \in 0..(d.count - 1) : d.nodes[i].prev # Gone BY <1>2 DEF Used
  <2> QED BY <1>1, <1>3, <1>5, <2>1, <2>2 DEF Alike
<1> QED BY <1>4, <1>5

LEMMA ReserveShape ==
  ASSUME NEW d, Shape(d), NEW capacity
  PROVE  LET e == ReserveDict(d, capacity)
         IN /\ Shape(e) /\ e.count = d.count /\ e.freeCount = d.freeCount
            /\ e.freeList = d.freeList
<1> DEFINE e == ReserveDict(d, capacity)
<1>1. CASE capacity <= d.bucketsLen BY <1>1 DEF ReserveDict
<1>2. CASE ~(capacity <= d.bucketsLen)
  <2> DEFINE len == GetPrime(capacity)
             buckets == [b \in 0..(len - 1) |-> LastOf(Peers(d, len, b))]
             nodes == [i \in DOMAIN d.nodes |-> Rehashing(d, len, i)]
  <2>1. e = [freeList |-> d.freeList, freeCount |-> d.freeCount, count |-> d.count,
             bucketsLen |-> len, buckets |-> buckets, nodes |-> nodes]
    BY <1>2 DEF ReserveDict, Rehashed
  <2> HIDE DEF e, len, buckets, nodes
  <2> QED BY <2>1 DEF Shape, e
<1> QED BY <1>1, <1>2

\* The free nodes when Add has taken one.
Taken(d, s) == IF d.freeCount > 0 THEN [j \in 1..(d.freeCount - 1) |-> s[j]] ELSE s

\* A dictionary e that is d with node i linked in, for key k.
Gains(d, e, i, k, v) ==
  /\ i \in 0..(e.count - 1) /\ i \notin Used(d) /\ Used(e) = Used(d) \cup {i}
  /\ e.nodes[i].key = k /\ e.nodes[i].value = v
  /\ \A j \in Used(d) : e.nodes[j].key = d.nodes[j].key /\ e.nodes[j].value = d.nodes[j].value

LEMMA FreshKeyed ==
  ASSUME NEW d, Keyed(d), NEW e, NEW i, NEW k, NEW v, Gains(d, e, i, k, v),
         e.nodes[i].hashCode = Hash[k],
         \A j \in Used(d) : e.nodes[j].hashCode = d.nodes[j].hashCode,
         \A j \in Used(d) : d.nodes[j].key # k
  PROVE  Keyed(e)
<1>1. /\ Used(e) = Used(d) \cup {i} /\ e.nodes[i].key = k
      /\ \A j \in Used(d) : e.nodes[j].key = d.nodes[j].key
  BY DEF Gains
<1>2. \A j \in Used(d) : d.nodes[j].hashCode = Hash[d.nodes[j].key] BY DEF Keyed
<1>3. \A j, m \in Used(d) : d.nodes[j].key = d.nodes[m].key => j = m BY DEF Keyed
<1>4. \A j \in Used(e) : e.nodes[j].hashCode = Hash[e.nodes[j].key]
  <2> TAKE j \in Used(e)
  <2>1. CASE j = i BY <1>1, <2>1
  <2>2. CASE j \in Used(d) BY <1>1, <1>2, <2>2
  <2> QED BY <1>1, <2>1, <2>2
<1>5. \A j, m \in Used(e) : e.nodes[j].key = e.nodes[m].key => j = m
  <2> TAKE j, m \in Used(e)
  <2>1. CASE j = i /\ m = i BY <2>1
  <2>2. CASE j = i /\ m \in Used(d) BY <1>1, <2>2
  <2>3. CASE j \in Used(d) /\ m = i BY <1>1, <2>3
  <2>4. CASE j \in Used(d) /\ m \in Used(d) BY <1>1, <1>3, <2>4
  <2> QED BY <1>1, <2>1, <2>2, <2>3, <2>4
<1> QED BY <1>4, <1>5 DEF Keyed

LEMMA AddToFree ==
  ASSUME NEW d, NEW keys, NEW values, NEW s, Fit(d, keys, values, s),
         NEW k \in keys, NEW v \in values, Hash[k] \in Nat,
         \A j \in Used(d) : d.nodes[j].key # k, d.freeCount > 0
  PROVE  LET e == Add(d, k, v)
         IN /\ Fit(e, keys, values, Taken(d, s)) /\ Gains(d, e, d.freeList, k, v)
            /\ e.count = d.count /\ e.freeCount = d.freeCount - 1
            /\ e.bucketsLen = d.bucketsLen
<1> DEFINE e == Add(d, k, v)
           i == d.freeList
           c == d.freeCount
           n == d.count
           x == FreshNode(k, v)
           m == Put(d, i, n, d.nodes[i].next, c - 1, x)
           t == [j \in 1..(c - 1) |-> s[j]]
<1>1. Shape(d) /\ IsDict(d, keys, values) /\ Woven(d, Used(d)) /\ Keyed(d) BY DEF Fit
<1>2. /\ n \in Nat /\ n <= d.bucketsLen /\ d.bucketsLen \in Nat
      /\ c \in Nat /\ c > 0 /\ c <= n
  BY <1>1, DictFacts
<1>3. /\ s \in [1..c -> 0..(n - 1)]
      /\ \A j, l \in 1..c : s[j] = s[l] => j = l
      /\ \A j \in 0..(n - 1) : j \notin Used(d) <=> \E l \in 1..c : s[l] = j
      /\ i = s[c]
      /\ \A l \in 2..c : d.nodes[s[l]].next = s[l - 1]
  BY StackFacts
<1>4. i \in 0..(n - 1) /\ i \notin Used(d) BY <1>2, <1>3
<1>5. d.nodes[i].next \in {None} \cup 0..(n - 1) BY <1>1, <1>4, DictFacts
<1>6. \A l \in 2..c : l - 1 \in 1..c BY <1>2
<1>7. c > 1 => d.nodes[i].next = s[c - 1] /\ s[c - 1] \in 0..(n - 1)
  <2>1. c > 1 => c \in 2..c /\ c - 1 \in 1..c BY <1>2
  <2> QED BY <1>3, <2>1
<1>8. e = Link(m, i)
  <2>1. /\ Shape(Roomy(d)) /\ Roomy(d).freeList = d.freeList
        /\ Roomy(d).freeCount = d.freeCount /\ Roomy(d).count = d.count
    BY <1>1, <1>2, ReserveShape DEF Roomy
  <2> QED BY <1>1, <1>2, <2>1, AddIs
<1> HIDE DEF e
<1>9. /\ Shape(m) /\ IsDict(m, keys, values) /\ Woven(m, Used(d))
      /\ m.count = n /\ m.freeCount = c - 1 /\ m.freeList = d.nodes[i].next
      /\ m.bucketsLen = d.bucketsLen /\ m.nodes[i] = x
      /\ \A j \in 0..(n - 1) : j # i => m.nodes[j] = d.nodes[j]
  <2>1. x \in DictNode(n, keys, values) BY DEF FreshNode, DictNode
  <2>2. c - 1 \in 0..n BY <1>2
  <2>3. c - 1 > 0 => d.nodes[i].next \in 0..(n - 1) BY <1>2, <1>7
  <2>4. 0..(n - 1) = 0..(d.count - 1) \cup {i} BY <1>4
  <2>5. n >= d.count BY <1>2
  <2> DEFINE y == d.nodes[i].next
             f == c - 1
  <2>6. y \in {None} \cup 0..(n - 1) /\ f \in 0..n /\ (f > 0 => y \in 0..(n - 1))
    BY <1>5, <2>2, <2>3
  <2> HIDE DEF x, y, f
  <2>7. LET p == Put(d, i, n, y, f, x)
        IN /\ Shape(p) /\ IsDict(p, keys, values) /\ Woven(p, Used(d))
           /\ p.count = n /\ p.freeCount = f /\ p.freeList = y
           /\ p.bucketsLen = d.bucketsLen /\ p.nodes[i] = x
           /\ \A j \in 0..(d.count - 1) : j # i => p.nodes[j] = d.nodes[j]
    <3> HIDE DEF i, n
    <3>1. Puttable(d, i, n, y, f, x, Used(d), keys, values)
      BY <1>1, <1>2, <1>4, <2>1, <2>4, <2>5, <2>6 DEF Puttable
    <3> QED BY <3>1, PutWoven
  <2> QED BY <2>7 DEF y, f
<1> HIDE DEF m
<1>10. /\ Alike(m, e) /\ IsDict(e, keys, values) /\ e.bucketsLen = m.bucketsLen
       /\ Woven(e, Used(d) \cup {i})
       /\ \A j \in 0..(m.count - 1) :
            /\ j # i => e.nodes[j].next = m.nodes[j].next
            /\ e.nodes[j].prev = Gone <=> j # i /\ m.nodes[j].prev = Gone
  <2>1. Shape(m) /\ IsDict(m, keys, values) /\ Woven(m, Used(d)) /\ i \in 0..(m.count - 1)
    BY <1>4, <1>9
  <2> DEFINE V == Used(d)
  <2> HIDE DEF i, n, c, x, V
  <2>2. i \notin V BY <1>4 DEF V
  <2>3. LET p == Link(m, i)
        IN /\ Alike(m, p) /\ IsDict(p, keys, values) /\ p.bucketsLen = m.bucketsLen
           /\ Woven(p, V \cup {i})
           /\ \A j \in 0..(m.count - 1) :
                /\ j # i => p.nodes[j].next = m.nodes[j].next
                /\ p.nodes[j].prev = Gone <=> j # i /\ m.nodes[j].prev = Gone
    BY <2>1, <2>2, LinkWoven DEF V
  <2> QED BY <1>8, <2>3 DEF V
<1>11. /\ Shape(e) /\ e.count = n /\ e.freeCount = c - 1 /\ e.freeList = d.nodes[i].next
       /\ e.nodes[i].hashCode = Hash[k] /\ e.nodes[i].key = k /\ e.nodes[i].value = v
       /\ \A j \in 0..(n - 1) : j # i =>
            /\ e.nodes[j].hashCode = d.nodes[j].hashCode /\ e.nodes[j].key = d.nodes[j].key
            /\ e.nodes[j].value = d.nodes[j].value /\ e.nodes[j].next = d.nodes[j].next
       /\ \A j \in 0..(n - 1) : e.nodes[j].prev = Gone <=> j # i /\ d.nodes[j].prev = Gone
  BY <1>4, <1>9, <1>10 DEF Alike, FreshNode
<1>12. Used(e) = Used(d) \cup {i} BY <1>4, <1>11 DEF Used
<1>13. Gains(d, e, i, k, v)
  <2>1. \A j \in Used(d) : j \in 0..(n - 1) /\ j # i BY <1>4 DEF Used
  <2> QED BY <1>4, <1>11, <1>12, <2>1 DEF Gains
<1>14. Keyed(e)
  <2>1. \A j \in Used(d) : j \in 0..(n - 1) /\ j # i BY <1>4 DEF Used
  <2>2. \A j \in Used(d) : e.nodes[j].hashCode = d.nodes[j].hashCode BY <1>11, <2>1
  <2> QED BY <1>1, <1>11, <1>13, <2>2, FreshKeyed
<1>15. Stacked(e, t)
  <2>1. \A j \in 1..(c - 1) : j \in 1..c /\ j # c BY <1>2
  <2>2. t \in [1..(c - 1) -> 0..(n - 1)] BY <1>3, <2>1
  <2>3. \A j \in 1..(c - 1) : t[j] = s[j] /\ s[j] # i BY <1>2, <1>3, <2>1
  <2>4. \A j, l \in 1..(c - 1) : t[j] = t[l] => j = l BY <1>3, <2>1, <2>3
  <2> HIDE DEF t
  <2>5. \A j \in 0..(n - 1) : j \notin Used(e) <=> \E l \in 1..(c - 1) : t[l] = j
    <3> TAKE j \in 0..(n - 1)
    <3>1. ASSUME j \notin Used(e) PROVE \E l \in 1..(c - 1) : t[l] = j
      <4>1. j \notin Used(d) /\ j # i BY <1>12, <3>1
      <4>2. PICK l \in 1..c : s[l] = j BY <1>3, <4>1
      <4>3. l # c BY <1>3, <4>1, <4>2
      <4>4. l \in 1..(c - 1) BY <1>2, <4>3
      <4> QED BY <2>3, <4>2, <4>4
    <3>2. ASSUME NEW l \in 1..(c - 1), t[l] = j PROVE j \notin Used(e)
      <4>1. s[l] = j /\ j # i /\ l \in 1..c BY <2>1, <2>3, <3>2
      <4>2. j \notin Used(d) BY <1>3, <4>1
      <4> QED BY <1>12, <4>1, <4>2
    <3> QED BY <3>1, <3>2
  <2>6. c - 1 > 0 => e.freeList = t[c - 1]
    <3>1. c - 1 > 0 => c > 1 /\ c - 1 \in 1..(c - 1) BY <1>2
    <3> QED BY <1>7, <1>11, <2>3, <3>1
  <2>7. \A l \in 2..(c - 1) : e.nodes[t[l]].next = t[l - 1]
    <3> TAKE l \in 2..(c - 1)
    <3>1. l \in 2..c /\ l \in 1..(c - 1) /\ l - 1 \in 1..(c - 1) BY <1>2
    <3>2. t[l] = s[l] /\ s[l] # i /\ t[l - 1] = s[l - 1] /\ s[l] \in 0..(n - 1)
      BY <1>3, <2>1, <2>3, <3>1
    <3> QED BY <1>3, <1>11, <3>1, <3>2
  <2> QED BY <1>5, <1>11, <2>2, <2>4, <2>5, <2>6, <2>7 DEF Stacked
<1>16. Fit(e, keys, values, t) BY <1>10, <1>11, <1>12, <1>14, <1>15 DEF Fit
<1>17. Taken(d, s) = t BY <1>2 DEF Taken
<1> QED BY <1>9, <1>10, <1>11, <1>13, <1>16, <1>17 DEF e

LEMMA AddBehind ==
  ASSUME NEW d, NEW keys, NEW values, NEW s, Fit(d, keys, values, s),
         NEW k \in keys, NEW v \in values, Hash[k] \in Nat,
         \A j \in Used(d) : d.nodes[j].key # k, d.freeCount = 0,
         d.count = d.bucketsLen => d.count < SecondLargest
  PROVE  LET e == Add(d, k, v)
         IN /\ Fit(e, keys, values, Taken(d, s)) /\ Gains(d, e, d.count, k, v)
            /\ e.count = d.count + 1 /\ e.freeCount = 0
            /\ e.bucketsLen = IF d.count = d.bucketsLen THEN GetPrime(2 * d.count)
                              ELSE d.bucketsLen
<1> DEFINE e == Add(d, k, v)
           i == d.count
           n == d.count + 1
           x == FreshNode(k, v)
           g == Roomy(d)
           m == Put(g, i, n, d.freeList, d.freeCount, x)
<1>1. Shape(d) /\ IsDict(d, keys, values) /\ Woven(d, Used(d)) /\ Keyed(d) BY DEF Fit
<1>2. i \in Nat /\ n \in Nat /\ i \in 0..(n - 1) BY <1>1, DictFacts
<1>3. Used(d) = 0..(i - 1) /\ i \notin Used(d) /\ d.freeList \in {None} \cup 0..(i - 1)
  BY <1>2, StackFacts
<1>4. /\ Alike(d, g) /\ IsDict(g, keys, values) /\ Woven(g, Used(d))
      /\ g.bucketsLen = IF d.count = d.bucketsLen THEN GetPrime(2 * d.count) ELSE d.bucketsLen
      /\ d.count < g.bucketsLen
      /\ \A j \in 0..(d.count - 1) : g.nodes[j].prev # Gone
  BY Roomed
<1>5. /\ Shape(g) /\ g.count = i /\ g.freeList = d.freeList /\ g.freeCount = d.freeCount
  BY <1>4 DEF Alike
<1>6. e = Link(m, i)
  <2>1. Add(d, k, v) = Link(Put(Roomy(d), d.count, d.count + 1, d.freeList, d.freeCount,
                                FreshNode(k, v)), d.count)
    BY <1>1, <1>5, AddIs
  <2> QED BY <2>1
<1> HIDE DEF e, g
<1>7. /\ Shape(m) /\ IsDict(m, keys, values) /\ Woven(m, Used(d))
      /\ m.count = n /\ m.freeCount = 0 /\ m.freeList = d.freeList
      /\ m.bucketsLen = g.bucketsLen /\ m.nodes[i] = x
      /\ \A j \in 0..(i - 1) : m.nodes[j] = g.nodes[j]
  <2>1. x \in DictNode(n, keys, values) BY DEF FreshNode, DictNode
  <2>2. g.bucketsLen \in Nat BY <1>4, DictFacts
  <2>3. n >= g.count /\ n <= g.bucketsLen BY <1>2, <1>4, <1>5, <2>2
  <2>4. 0..(n - 1) = 0..(g.count - 1) \cup {i} BY <1>2, <1>5
  <2>5. d.freeList \in {None} \cup 0..(n - 1) /\ 0 \in 0..n BY <1>2, <1>3
  <2> DEFINE l == d.freeList
  <2> HIDE DEF x, l, n, i
  <2>6. LET p == Put(g, i, n, l, 0, x)
        IN /\ Shape(p) /\ IsDict(p, keys, values) /\ Woven(p, Used(d))
           /\ p.count = n /\ p.freeCount = 0 /\ p.freeList = l
           /\ p.bucketsLen = g.bucketsLen /\ p.nodes[i] = x
           /\ \A j \in 0..(g.count - 1) : j # i => p.nodes[j] = g.nodes[j]
    <3>1. l \in {None} \cup 0..(n - 1) BY <2>5 DEF l
    <3>2. n \in Nat /\ i \in 0..(n - 1) /\ ~(0 > 0) BY <1>2
    <3>3. IsDict(g, keys, values) /\ Woven(g, Used(d)) /\ i \notin Used(d) BY <1>3, <1>4
    <3>4. 0 \in 0..n BY <2>5
    <3>5. 0 > 0 => l \in 0..(n - 1) BY <3>2
    <3>6. Puttable(g, i, n, l, 0, x, Used(d), keys, values)
      BY <2>1, <2>3, <2>4, <3>1, <3>2, <3>3, <3>4, <3>5 DEF Puttable
    <3> QED BY <3>6, PutWoven
  <2>7. \A j \in 0..(i - 1) : j # i BY <1>2
  <2> QED BY <1>5, <2>6, <2>7 DEF l
<1> HIDE DEF m
<1>8. /\ Alike(m, e) /\ IsDict(e, keys, values) /\ e.bucketsLen = m.bucketsLen
      /\ Woven(e, Used(d) \cup {i})
      /\ \A j \in 0..(m.count - 1) :
           /\ j # i => e.nodes[j].next = m.nodes[j].next
           /\ e.nodes[j].prev = Gone <=> j # i /\ m.nodes[j].prev = Gone
  <2>1. Shape(m) /\ IsDict(m, keys, values) /\ Woven(m, Used(d)) /\ i \in 0..(m.count - 1)
    BY <1>2, <1>7
  <2> DEFINE V == Used(d)
  <2> HIDE DEF i, n, x, V
  <2>2. i \notin V BY <1>3 DEF V
  <2>3. LET p == Link(m, i)
        IN /\ Alike(m, p) /\ IsDict(p, keys, values) /\ p.bucketsLen = m.bucketsLen
           /\ Woven(p, V \cup {i})
           /\ \A j \in 0..(m.count - 1) :
                /\ j # i => p.nodes[j].next = m.nodes[j].next
                /\ p.nodes[j].prev = Gone <=> j # i /\ m.nodes[j].prev = Gone
    BY <2>1, <2>2, LinkWoven DEF V
  <2> QED BY <1>6, <2>3 DEF V
<1>9. \A j \in 0..(n - 1) : j # i => j \in 0..(i - 1) BY <1>2
<1>10. \A j \in 0..(i - 1) : j \in 0..(n - 1) /\ j # i BY <1>2
<1>11. /\ Shape(e) /\ e.count = n /\ e.freeCount = 0 /\ e.freeList = d.freeList
       /\ e.nodes[i].hashCode = Hash[k] /\ e.nodes[i].key = k /\ e.nodes[i].value = v
       /\ \A j \in 0..(i - 1) :
            /\ e.nodes[j].hashCode = d.nodes[j].hashCode /\ e.nodes[j].key = d.nodes[j].key
            /\ e.nodes[j].value = d.nodes[j].value /\ e.nodes[j].prev # Gone
       /\ e.nodes[i].prev # Gone
  BY <1>2, <1>4, <1>7, <1>8, <1>10 DEF Alike, FreshNode
<1>12. Used(e) = Used(d) \cup {i} BY <1>2, <1>3, <1>9, <1>10, <1>11 DEF Used
<1>13. Gains(d, e, i, k, v) BY <1>2, <1>3, <1>11, <1>12 DEF Gains
<1>14. Keyed(e)
  <2>1. \A j \in Used(d) : e.nodes[j].hashCode = d.nodes[j].hashCode BY <1>3, <1>11
  <2> QED BY <1>1, <1>11, <1>13, <2>1, FreshKeyed
<1>15. Stacked(e, s)
  <2>1. s \in [1..0 -> 0..(n - 1)]
    <3>1. s \in [1..0 -> 0..(i - 1)] BY StackFacts
    <3> QED BY <3>1
  <2>2. 0..(n - 1) = Used(e) BY <1>2, <1>3, <1>9, <1>10, <1>12
  <2>3. e.freeList \in {None} \cup 0..(n - 1) BY <1>3, <1>10, <1>11
  <2>4. 1..0 = {} /\ 2..0 = {} /\ ~(0 > 0) OBVIOUS
  <2>5. e.freeCount = 0 /\ e.count = n BY <1>11
  <2>6. \A j, l \in 1..0 : s[j] = s[l] => j = l BY <2>4
  <2>7. \A j \in 0..(n - 1) : j \notin Used(e) <=> \E l \in 1..0 : s[l] = j BY <2>2, <2>4
  <2>8. \A l \in 2..0 : e.nodes[s[l]].next = s[l - 1] BY <2>4
  <2>9. 0 > 0 => e.freeList = s[0] BY <2>4
  <2> HIDE DEF n
  <2> QED BY <2>1, <2>3, <2>5, <2>6, <2>7, <2>8, <2>9 DEF Stacked
<1>16. Fit(e, keys, values, s) BY <1>8, <1>11, <1>12, <1>14, <1>15 DEF Fit
<1>17. Taken(d, s) = s BY DEF Taken
<1> QED BY <1>4, <1>7, <1>8, <1>11, <1>13, <1>16, <1>17 DEF e, g

LEMMA PlainNode ==
  ASSUME NEW x, NEW n, NEW keys, NEW values, x \in DictNode(n, keys, values)
  PROVE  x = [hashCode |-> x.hashCode, next |-> x.next, key |-> x.key, value |-> x.value,
              prev |-> x.prev]
BY DEF DictNode

\* Writing into node i is putting another one there.
LEMMA Written ==
  ASSUME NEW d, Shape(d), NEW i \in DOMAIN d.nodes, NEW x
  PROVE  [d EXCEPT !.nodes[i] = x] = Put(d, i, d.count, d.freeList, d.freeCount, x)
<1> DEFINE nodes == [d.nodes EXCEPT ![i] = x]
<1>1. [d EXCEPT !.nodes[i] = x] = [d EXCEPT !.nodes = nodes] OBVIOUS
<1>2. nodes = [j \in DOMAIN d.nodes \cup {i} |-> IF j = i THEN x ELSE d.nodes[j]] OBVIOUS
<1> HIDE DEF nodes
<1>3. [d EXCEPT !.nodes = nodes] =
        [freeList |-> d.freeList, freeCount |-> d.freeCount, count |-> d.count,
         bucketsLen |-> d.bucketsLen, buckets |-> d.buckets, nodes |-> nodes]
  BY DEF Shape
<1> QED BY <1>1, <1>2, <1>3 DEF Put

\* What RemoveAt leaves at i.
FreeNode(x, next) ==
  [hashCode |-> x.hashCode, next |-> next, key |-> x.key, value |-> x.value, prev |-> Gone]

LEMMA RemoveIs ==
  ASSUME NEW d, NEW i, NEW e, e = Unlink(d, i), Shape(e), i \in DOMAIN e.nodes,
         NEW n, NEW keys, NEW values, e.nodes[i] \in DictNode(n, keys, values)
  PROVE  RemoveAt(d, i) = Put(e, i, e.count, i, e.freeCount + 1, FreeNode(e.nodes[i], d.freeList))
<1> DEFINE l == d.freeList
           x == e.nodes[i]
           x1 == [x EXCEPT !.next = l]
           x2 == [x1 EXCEPT !.prev = Gone]
           e1 == [e EXCEPT !.nodes[i] = x1]
           e2 == [e1 EXCEPT !.nodes[i] = x2]
           e3 == [e2 EXCEPT !.freeList = i]
           c == e3.freeCount + 1
<1>1. RemoveAt(d, i) = [e3 EXCEPT !.freeCount = c] BY DEF RemoveAt
<1>2. x = [hashCode |-> x.hashCode, next |-> x.next, key |-> x.key, value |-> x.value,
           prev |-> x.prev]
  BY PlainNode
<1> HIDE DEF c
<1>3. e3 = [freeList |-> i, freeCount |-> e.freeCount, count |-> e.count,
            bucketsLen |-> e.bucketsLen, buckets |-> e.buckets,
            nodes |-> [e.nodes EXCEPT ![i] = x2]]
  <2> HIDE DEF x, x1, x2, l
  <2>1. e1 = [freeList |-> e.freeList, freeCount |-> e.freeCount, count |-> e.count,
              bucketsLen |-> e.bucketsLen, buckets |-> e.buckets,
              nodes |-> [e.nodes EXCEPT ![i] = x1]]
    BY DEF Shape
  <2> HIDE DEF e1
  <2>2. e2 = [freeList |-> e.freeList, freeCount |-> e.freeCount, count |-> e.count,
              bucketsLen |-> e.bucketsLen, buckets |-> e.buckets,
              nodes |-> [[e.nodes EXCEPT ![i] = x1] EXCEPT ![i] = x2]]
    BY <2>1
  <2>3. [[e.nodes EXCEPT ![i] = x1] EXCEPT ![i] = x2] = [e.nodes EXCEPT ![i] = x2] OBVIOUS
  <2> HIDE DEF e2
  <2> QED BY <2>2, <2>3
<1>4. x2 = FreeNode(x, l)
  <2> HIDE DEF x, l
  <2>1. x1 = [hashCode |-> x.hashCode, next |-> l, key |-> x.key, value |-> x.value,
              prev |-> x.prev]
    BY <1>2
  <2> HIDE DEF x1
  <2> QED BY <2>1 DEF FreeNode
<1>5. c = e.freeCount + 1
  <2> HIDE DEF e3
  <2> QED BY <1>3 DEF c
<1>6. [e.nodes EXCEPT ![i] = x2] =
        [j \in DOMAIN e.nodes \cup {i} |-> IF j = i THEN x2 ELSE e.nodes[j]]
  <2> HIDE DEF x2
  <2> QED OBVIOUS
<1> HIDE DEF e3, x2
<1>7. [e3 EXCEPT !.freeCount = c] =
        [freeList |-> i, freeCount |-> c, count |-> e.count, bucketsLen |-> e.bucketsLen,
         buckets |-> e.buckets, nodes |-> [e.nodes EXCEPT ![i] = x2]]
  BY <1>3
<1>8. RemoveAt(d, i) = Put(e, i, e.count, i, c, x2) BY <1>1, <1>6, <1>7 DEF Put
<1> QED BY <1>4, <1>5, <1>8

\* What UpdateAt leaves at i.
Rekeyed(x, k) ==
  [hashCode |-> Hash[k], next |-> x.next, key |-> k, value |-> x.value, prev |-> x.prev]

Rekeying(e, i, k) == [e EXCEPT !.nodes[i].hashCode = Hash[k], !.nodes[i].key = k]

LEMMA RekeyedIs ==
  ASSUME NEW e, Shape(e), NEW i \in DOMAIN e.nodes,
         NEW n, NEW keys, NEW values, e.nodes[i] \in DictNode(n, keys, values), NEW k
  PROVE  Rekeying(e, i, k) = Put(e, i, e.count, e.freeList, e.freeCount, Rekeyed(e.nodes[i], k))
<1> DEFINE x == e.nodes[i]
           x1 == [x EXCEPT !.hashCode = Hash[k]]
           x2 == [x1 EXCEPT !.key = k]
           e1 == [e EXCEPT !.nodes[i] = x1]
           e2 == [e1 EXCEPT !.nodes[i] = x2]
<1>1. Rekeying(e, i, k) = e2 BY DEF Rekeying
<1>2. x = [hashCode |-> x.hashCode, next |-> x.next, key |-> x.key, value |-> x.value,
           prev |-> x.prev]
  BY PlainNode
<1>3. e2 = [freeList |-> e.freeList, freeCount |-> e.freeCount, count |-> e.count,
            bucketsLen |-> e.bucketsLen, buckets |-> e.buckets,
            nodes |-> [e.nodes EXCEPT ![i] = x2]]
  <2> HIDE DEF x, x1, x2
  <2>1. e1 = [freeList |-> e.freeList, freeCount |-> e.freeCount, count |-> e.count,
              bucketsLen |-> e.bucketsLen, buckets |-> e.buckets,
              nodes |-> [e.nodes EXCEPT ![i] = x1]]
    BY DEF Shape
  <2> HIDE DEF e1
  <2>2. e2 = [freeList |-> e.freeList, freeCount |-> e.freeCount, count |-> e.count,
              bucketsLen |-> e.bucketsLen, buckets |-> e.buckets,
              nodes |-> [[e.nodes EXCEPT ![i] = x1] EXCEPT ![i] = x2]]
    BY <2>1
  <2>3. [[e.nodes EXCEPT ![i] = x1] EXCEPT ![i] = x2] = [e.nodes EXCEPT ![i] = x2] OBVIOUS
  <2> HIDE DEF e2
  <2> QED BY <2>2, <2>3
<1>4. x2 = Rekeyed(x, k)
  <2> HIDE DEF x
  <2>1. x1 = [hashCode |-> Hash[k], next |-> x.next, key |-> x.key, value |-> x.value,
              prev |-> x.prev]
    BY <1>2
  <2> HIDE DEF x1
  <2> QED BY <2>1 DEF Rekeyed
<1>5. [e.nodes EXCEPT ![i] = x2] =
        [j \in DOMAIN e.nodes \cup {i} |-> IF j = i THEN x2 ELSE e.nodes[j]]
  <2> HIDE DEF x2
  <2> QED OBVIOUS
<1> HIDE DEF e2, x2
<1>6. e2 = Put(e, i, e.count, e.freeList, e.freeCount, x2) BY <1>3, <1>5 DEF Put
<1> QED BY <1>1, <1>4, <1>6

\* What SetValue leaves at i.
Revalued(x, v) ==
  [hashCode |-> x.hashCode, next |-> x.next, key |-> x.key, value |-> v, prev |-> x.prev]

Revaluing(e, i, v) == [e EXCEPT !.nodes[i].value = v]

LEMMA RevaluedIs ==
  ASSUME NEW e, Shape(e), NEW i \in DOMAIN e.nodes,
         NEW n, NEW keys, NEW values, e.nodes[i] \in DictNode(n, keys, values), NEW v
  PROVE  Revaluing(e, i, v) = Put(e, i, e.count, e.freeList, e.freeCount, Revalued(e.nodes[i], v))
<1> DEFINE x == e.nodes[i]
           x1 == [x EXCEPT !.value = v]
<1>1. x = [hashCode |-> x.hashCode, next |-> x.next, key |-> x.key, value |-> x.value,
           prev |-> x.prev]
  BY PlainNode
<1>2. Revaluing(e, i, v) = [e EXCEPT !.nodes[i] = x1] BY DEF Revaluing
<1>3. x1 = Revalued(x, v)
  <2> HIDE DEF x
  <2> QED BY <1>1 DEF Revalued
<1> HIDE DEF x1
<1>4. [e EXCEPT !.nodes[i] = x1] = Put(e, i, e.count, e.freeList, e.freeCount, x1) BY Written
<1> QED BY <1>2, <1>3, <1>4

\* The free nodes when RemoveAt has pushed i.
Pushed(d, s, i) ==
  [j \in 1..(d.freeCount + 1) |-> IF j = d.freeCount + 1 THEN i ELSE s[j]]

\* A dictionary e that is d without the record at i.
Loses(d, e, i) ==
  /\ i \in Used(d) /\ Used(e) = Used(d) \ {i}
  /\ \A j \in Used(e) : e.nodes[j].key = d.nodes[j].key /\ e.nodes[j].value = d.nodes[j].value

LEMMA RemoveFit ==
  ASSUME NEW d, NEW keys, NEW values, NEW s, Fit(d, keys, values, s), NEW i \in Used(d)
  PROVE  LET e == RemoveAt(d, i)
         IN /\ Fit(e, keys, values, Pushed(d, s, i)) /\ Loses(d, e, i)
            /\ e.count = d.count /\ e.freeCount = d.freeCount + 1
            /\ e.bucketsLen = d.bucketsLen
<1> DEFINE u == Unlink(d, i)
           e == RemoveAt(d, i)
           n == d.count
           c == d.freeCount
           V == Used(d)
           W == V \ {i}
           t == Pushed(d, s, i)
<1>1. Shape(d) /\ IsDict(d, keys, values) /\ Woven(d, V) /\ Keyed(d) BY DEF Fit
<1>2. /\ n \in Nat /\ n <= d.bucketsLen /\ d.bucketsLen \in Nat
      /\ c \in Nat /\ c <= n
  BY <1>1, DictFacts
<1>3. /\ s \in [1..c -> 0..(n - 1)]
      /\ \A j, l \in 1..c : s[j] = s[l] => j = l
      /\ \A j \in 0..(n - 1) : j \notin V <=> \E l \in 1..c : s[l] = j
      /\ d.freeList \in {None} \cup 0..(n - 1)
      /\ c > 0 => d.freeList = s[c]
      /\ \A l \in 2..c : d.nodes[s[l]].next = s[l - 1]
  BY StackFacts
<1>4. i \in 0..(n - 1) /\ V \subseteq 0..(n - 1) BY DEF Used
<1>5. c + 1 <= n
  <2> SUFFICES ASSUME c = n PROVE FALSE BY <1>2
  <2> DEFINE f == [j \in 0..c |-> IF j = 0 THEN i ELSE s[j]]
  <2>1. \A j \in 1..c : s[j] # i /\ s[j] \in 0..(n - 1) BY <1>3, <1>4
  <2>2. f \in [0..c -> 0..(c - 1)] BY <1>2, <1>4, <2>1
  <2>3. \A j \in 0..c : j # 0 => j \in 1..c BY <1>2
  <2>4. \A j, l \in 0..c : f[j] = f[l] => j = l BY <1>3, <2>1, <2>3
  <2> HIDE DEF f
  <2> QED BY <1>2, <2>2, <2>4, TooMany
<1>6. /\ Alike(d, u) /\ IsDict(u, keys, values) /\ u.bucketsLen = d.bucketsLen
      /\ Woven(u, W)
      /\ \A j \in 0..(n - 1) :
           /\ j \notin V => u.nodes[j].next = d.nodes[j].next
           /\ u.nodes[j].prev = Gone <=> d.nodes[j].prev = Gone
  <2> HIDE DEF V
  <2>1. i \in V BY DEF V
  <2> QED BY <1>1, <2>1, UnlinkWoven
<1>7. Shape(u) /\ u.count = n /\ u.freeCount = c /\ u.freeList = d.freeList
  BY <1>6 DEF Alike
<1>8. DOMAIN u.nodes = 0..(n - 1) /\ u.nodes[i] \in DictNode(n, keys, values)
  <2> HIDE DEF u
  <2> QED BY <1>4, <1>6, <1>7, DictFacts, NodesOf
<1> DEFINE x == FreeNode(u.nodes[i], d.freeList)
<1>9. e = Put(u, i, n, i, c + 1, x)
  <2>1. PICK u0 : u0 = Unlink(d, i) OBVIOUS
  <2> HIDE DEF n
  <2>2. Shape(u0) /\ i \in DOMAIN u0.nodes /\ u0.nodes[i] \in DictNode(n, keys, values)
    BY <1>4, <1>7, <1>8, <2>1
  <2>3. RemoveAt(d, i) = Put(u0, i, u0.count, i, u0.freeCount + 1,
                             FreeNode(u0.nodes[i], d.freeList))
    BY <2>1, <2>2, RemoveIs
  <2> QED BY <1>7, <2>1, <2>3
<1> HIDE DEF u, e
<1>10. /\ Shape(e) /\ IsDict(e, keys, values) /\ Woven(e, W)
       /\ e.count = n /\ e.freeCount = c + 1 /\ e.freeList = i
       /\ e.bucketsLen = d.bucketsLen /\ e.nodes[i] = x
       /\ \A j \in 0..(n - 1) : j # i => e.nodes[j] = u.nodes[j]
  <2>1. x \in DictNode(n, keys, values) BY <1>3, <1>8 DEF FreeNode, DictNode
  <2>2. 0..(n - 1) = 0..(u.count - 1) \cup {i} BY <1>4, <1>7
  <2> DEFINE f == c + 1
  <2>3. f \in 0..n BY <1>2, <1>5
  <2> HIDE DEF n, c, f, x, V
  <2>4. Puttable(u, i, n, i, f, x, W, keys, values)
    BY <1>2, <1>4, <1>6, <1>7, <2>1, <2>2, <2>3 DEF Puttable
  <2> HIDE DEF W
  <2>5. LET p == Put(u, i, n, i, f, x)
        IN /\ Shape(p) /\ IsDict(p, keys, values) /\ Woven(p, W)
           /\ p.count = n /\ p.freeCount = f /\ p.freeList = i
           /\ p.bucketsLen = u.bucketsLen /\ p.nodes[i] = x
           /\ \A j \in 0..(u.count - 1) : j # i => p.nodes[j] = u.nodes[j]
    BY <2>4, PutWoven
  <2> QED BY <1>6, <1>7, <1>9, <2>5 DEF f
<1>11. /\ e.nodes[i].prev = Gone /\ e.nodes[i].next = d.freeList
       /\ \A j \in 0..(n - 1) : j # i =>
            /\ e.nodes[j].hashCode = d.nodes[j].hashCode /\ e.nodes[j].key = d.nodes[j].key
            /\ e.nodes[j].value = d.nodes[j].value
            /\ e.nodes[j].prev = Gone <=> d.nodes[j].prev = Gone
            /\ j \notin V => e.nodes[j].next = d.nodes[j].next
  <2>1. x.prev = Gone /\ x.next = d.freeList BY DEF FreeNode
  <2> HIDE DEF x, V
  <2> QED BY <1>6, <1>10, <2>1 DEF Alike
<1>12. Used(e) = W BY <1>10, <1>11 DEF Used
<1>13. Loses(d, e, i) BY <1>4, <1>11, <1>12 DEF Loses
<1>14. Keyed(e)
  <2>1. \A j \in W : /\ e.nodes[j].hashCode = d.nodes[j].hashCode
                     /\ e.nodes[j].key = d.nodes[j].key /\ j \in V
    BY <1>4, <1>11
  <2> HIDE DEF V, W
  <2> QED BY <1>1, <1>12, <2>1 DEF Keyed, V
<1>15. Stacked(e, t)
  <2>1. \A j \in 1..(c + 1) : j # c + 1 => j \in 1..c BY <1>2
  <2>2. \A j \in 1..(c + 1) : t[j] = IF j = c + 1 THEN i ELSE s[j] BY DEF Pushed
  <2>3. t \in [1..(c + 1) -> 0..(n - 1)] BY <1>3, <1>4, <2>1 DEF Pushed
  <2> HIDE DEF t
  <2>4. \A j \in 1..c : j \in 1..(c + 1) /\ j # c + 1 /\ t[j] = s[j] /\ s[j] # i
    BY <1>2, <1>3, <1>4, <2>2
  <2>5. c + 1 \in 1..(c + 1) /\ t[c + 1] = i BY <1>2, <2>2
  <2>6. \A j, l \in 1..(c + 1) : t[j] = t[l] => j = l BY <1>3, <2>1, <2>4, <2>5
  <2>7. \A j \in 0..(n - 1) : j \notin Used(e) <=> \E l \in 1..(c + 1) : t[l] = j
    <3> TAKE j \in 0..(n - 1)
    <3>1. CASE j = i BY <1>12, <2>5, <3>1
    <3>2. CASE j # i
      <4>1. j \notin Used(e) <=> \E l \in 1..c : s[l] = j BY <1>3, <1>12, <3>2
      <4>2. \A l \in 1..(c + 1) : t[l] = j => l \in 1..c BY <2>1, <2>5, <3>2
      <4> QED BY <2>4, <4>1, <4>2
    <3> QED BY <3>1, <3>2
  <2>8. \A l \in 2..(c + 1) : e.nodes[t[l]].next = t[l - 1]
    <3> TAKE l \in 2..(c + 1)
    <3>1. l - 1 \in 1..c BY <1>2
    <3>2. CASE l = c + 1
      <4>1. c > 0 /\ l - 1 = c BY <1>2, <3>2
      <4> QED BY <1>3, <1>11, <2>4, <2>5, <3>1, <3>2, <4>1
    <3>3. CASE l # c + 1
      <4>1. l \in 2..c /\ l \in 1..c BY <1>2, <3>3
      <4>2. t[l] = s[l] /\ s[l] # i /\ t[l - 1] = s[l - 1] /\ s[l] \in 0..(n - 1) /\ s[l] \notin V
        BY <1>3, <2>4, <3>1, <4>1
      <4> QED BY <1>3, <1>11, <4>1, <4>2
    <3> QED BY <3>2, <3>3
  <2> HIDE DEF n, c
  <2> QED BY <1>4, <1>10, <2>3, <2>5, <2>6, <2>7, <2>8 DEF Stacked
<1>16. Fit(e, keys, values, t) BY <1>10, <1>12, <1>14, <1>15 DEF Fit
<1> QED BY <1>6, <1>10, <1>13, <1>16 DEF e

LEMMA StackedSame ==
  ASSUME NEW d, NEW s, Stacked(d, s), NEW e, e.count = d.count, e.freeCount = d.freeCount,
         e.freeList = d.freeList, Used(e) = Used(d), d.freeCount \in Nat,
         \A j \in 0..(d.count - 1) : j \notin Used(d) => e.nodes[j].next = d.nodes[j].next
  PROVE  Stacked(e, s)
<1>1. /\ s \in [1..d.freeCount -> 0..(d.count - 1)]
      /\ \A j, k \in 1..d.freeCount : s[j] = s[k] => j = k
      /\ \A i \in 0..(d.count - 1) : i \notin Used(d) <=> \E k \in 1..d.freeCount : s[k] = i
      /\ d.freeList \in {None} \cup 0..(d.count - 1)
      /\ d.freeCount > 0 => d.freeList = s[d.freeCount]
      /\ \A k \in 2..d.freeCount : d.nodes[s[k]].next = s[k - 1]
  BY DEF Stacked
<1>2. \A k \in 2..d.freeCount : k \in 1..d.freeCount OBVIOUS
<1>3. \A k \in 2..d.freeCount : e.nodes[s[k]].next = s[k - 1] BY <1>1, <1>2
<1> QED BY <1>1, <1>3 DEF Stacked

\* A dictionary e that is d with another value or key at i.
Writes(d, e, i, k, v) ==
  /\ i \in Used(d) /\ Used(e) = Used(d) /\ e.nodes[i].key = k /\ e.nodes[i].value = v
  /\ \A j \in Used(d) \ {i} : /\ e.nodes[j].key = d.nodes[j].key
                              /\ e.nodes[j].value = d.nodes[j].value

LEMMA UpdateFit ==
  ASSUME NEW d, NEW keys, NEW values, NEW s, Fit(d, keys, values, s), NEW i \in Used(d),
         NEW k \in keys, Hash[k] \in Nat, \A j \in Used(d) : d.nodes[j].key # k
  PROVE  LET e == UpdateAt(d, i, k)
         IN /\ Fit(e, keys, values, s) /\ Writes(d, e, i, k, d.nodes[i].value)
            /\ e.count = d.count /\ e.freeCount = d.freeCount /\ e.freeList = d.freeList
            /\ e.bucketsLen = d.bucketsLen
<1> DEFINE e == UpdateAt(d, i, k)
           n == d.count
           V == Used(d)
           same == Home(d, i) = Bucket(d, Hash[k])
           W == IF same THEN V ELSE V \ {i}
           u == IF same THEN d ELSE Unlink(d, i)
           x == Rekeyed(u.nodes[i], k)
           f == Put(u, i, n, d.freeList, d.freeCount, x)
<1>1. Shape(d) /\ IsDict(d, keys, values) /\ Woven(d, V) /\ Keyed(d) /\ Stacked(d, s)
  BY DEF Fit
<1>2. /\ n \in Nat /\ n <= d.bucketsLen /\ d.bucketsLen \in Nat
      /\ d.freeCount \in 0..n /\ d.freeList \in {None} \cup 0..(n - 1)
      /\ d.freeCount > 0 => d.freeList \in 0..(n - 1)
  <2>1. n \in Nat /\ n <= d.bucketsLen /\ d.bucketsLen \in Nat BY <1>1, DictFacts
  <2>2. d.freeCount \in 0..n /\ (d.freeCount > 0 => d.freeList \in 0..(n - 1))
    BY <1>1 DEF IsDict
  <2>3. d.freeList \in {None} \cup 0..(n - 1) BY <1>1 DEF Stacked
  <2> QED BY <2>1, <2>2, <2>3
<1>3. i \in 0..(n - 1) /\ V \subseteq 0..(n - 1) /\ d.nodes[i].prev # Gone BY DEF Used
<1> HIDE DEF same
<1>4. /\ Alike(d, u) /\ IsDict(u, keys, values) /\ u.bucketsLen = d.bucketsLen
      /\ Woven(u, W) /\ (u = d <=> same)
      /\ \A j \in 0..(n - 1) :
           /\ j \notin V => u.nodes[j].next = d.nodes[j].next
           /\ u.nodes[j].prev = Gone <=> d.nodes[j].prev = Gone
  <2>1. CASE same
    <3>1. u = d /\ W = V BY <2>1
    <3> HIDE DEF u, W
    <3> QED BY <1>1, <2>1, <3>1 DEF Alike
  <2>2. CASE ~same
    <3>1. /\ Alike(d, Unlink(d, i)) /\ IsDict(Unlink(d, i), keys, values)
          /\ Unlink(d, i).bucketsLen = d.bucketsLen
          /\ Woven(Unlink(d, i), V \ {i}) /\ Unlink(d, i) # d
          /\ \A j \in 0..(n - 1) :
               /\ j \notin V => Unlink(d, i).nodes[j].next = d.nodes[j].next
               /\ Unlink(d, i).nodes[j].prev = Gone <=> d.nodes[j].prev = Gone
      <4> HIDE DEF V
      <4>1. i \in V BY DEF V
      <4> QED BY <1>1, <4>1, UnlinkWoven
    <3>2. u = Unlink(d, i) /\ W = V \ {i} BY <2>2
    <3> HIDE DEF u, W
    <3> QED BY <2>2, <3>1, <3>2
  <2> QED BY <2>1, <2>2
<1>5. Shape(u) /\ u.count = n /\ u.freeCount = d.freeCount /\ u.freeList = d.freeList
  BY <1>4 DEF Alike
<1>6. DOMAIN u.nodes = 0..(n - 1) /\ u.nodes[i] \in DictNode(n, keys, values)
  <2> HIDE DEF u
  <2> QED BY <1>3, <1>4, <1>5, DictFacts, NodesOf
<1>7. e = IF same THEN f ELSE Link(f, i)
  <2>1. PICK u0 : u0 = u OBVIOUS
  <2> DEFINE g == Rekeying(u0, i, k)
  <2>2. e = IF u0 = d THEN g ELSE Link(g, i)
    BY <2>1 DEF UpdateAt, UpdateRehashing, Home, same, Rekeying
  <2> HIDE DEF u, n, g, e
  <2>3. Shape(u0) /\ i \in DOMAIN u0.nodes /\ u0.nodes[i] \in DictNode(n, keys, values)
    BY <1>3, <1>5, <1>6, <2>1
  <2>4. g = Put(u0, i, u0.count, u0.freeList, u0.freeCount, Rekeyed(u0.nodes[i], k))
    BY <2>3, RekeyedIs DEF g
  <2>5. g = f BY <1>5, <2>1, <2>4
  <2> QED BY <1>4, <2>1, <2>2, <2>5
<1> HIDE DEF u, e
<1>8. /\ x.hashCode = Hash[k] /\ x.key = k /\ x.value = d.nodes[i].value
      /\ x.next = u.nodes[i].next /\ x.prev = u.nodes[i].prev
      /\ x \in DictNode(n, keys, values)
  <2>1. u.nodes[i].value = d.nodes[i].value BY <1>3, <1>4 DEF Alike
  <2> QED BY <1>6, <2>1 DEF Rekeyed, DictNode
<1>9. /\ Shape(f) /\ IsDict(f, keys, values) /\ Woven(f, W)
      /\ f.count = n /\ f.freeCount = d.freeCount /\ f.freeList = d.freeList
      /\ f.bucketsLen = d.bucketsLen /\ f.nodes[i] = x
      /\ \A j \in 0..(n - 1) : j # i => f.nodes[j] = u.nodes[j]
  <2>1. 0..(n - 1) = 0..(u.count - 1) \cup {i} BY <1>3, <1>5
  <2>2. i \in W => Bucket(u, x.hashCode) = Home(u, i)
    <3>1. i \in W => same OBVIOUS
    <3>2. same => u = d BY <1>4
    <3> HIDE DEF x, W
    <3> QED BY <1>8, <3>1, <3>2 DEF same
  <2> DEFINE l == d.freeList
             c == d.freeCount
  <2> HIDE DEF n, l, c, x, V, W
  <2>3. l \in {None} \cup 0..(n - 1) /\ c \in 0..n /\ (c > 0 => l \in 0..(n - 1))
    BY <1>2 DEF l, c
  <2>4. Puttable(u, i, n, l, c, x, W, keys, values)
    BY <1>2, <1>3, <1>4, <1>5, <1>8, <2>1, <2>2, <2>3 DEF Puttable
  <2>5. LET p == Put(u, i, n, l, c, x)
        IN /\ Shape(p) /\ IsDict(p, keys, values) /\ Woven(p, W)
           /\ p.count = n /\ p.freeCount = c /\ p.freeList = l
           /\ p.bucketsLen = u.bucketsLen /\ p.nodes[i] = x
           /\ \A j \in 0..(u.count - 1) : j # i => p.nodes[j] = u.nodes[j]
    BY <2>4, PutWoven
  <2> QED BY <1>4, <1>5, <2>5 DEF l, c
<1>10. /\ f.nodes[i].hashCode = Hash[k] /\ f.nodes[i].key = k
       /\ f.nodes[i].value = d.nodes[i].value /\ f.nodes[i].prev # Gone
       /\ \A j \in 0..(n - 1) : j # i =>
            /\ f.nodes[j].hashCode = d.nodes[j].hashCode /\ f.nodes[j].key = d.nodes[j].key
            /\ f.nodes[j].value = d.nodes[j].value
            /\ f.nodes[j].prev = Gone <=> d.nodes[j].prev = Gone
            /\ j \notin V => f.nodes[j].next = d.nodes[j].next
  <2> HIDE DEF f, x, V
  <2> QED BY <1>3, <1>4, <1>8, <1>9 DEF Alike
<1> HIDE DEF f, x
<1>11. /\ Alike(f, e) /\ IsDict(e, keys, values) /\ e.bucketsLen = d.bucketsLen
       /\ Woven(e, V)
       /\ \A j \in 0..(n - 1) :
            /\ j # i => e.nodes[j].next = f.nodes[j].next
            /\ e.nodes[j].prev = Gone <=> j # i /\ f.nodes[j].prev = Gone
  <2>1. CASE same
    <3>1. e = f /\ W = V BY <1>7, <2>1
    <3> HIDE DEF W, V, n
    <3> QED BY <1>9, <1>10, <3>1 DEF Alike
  <2>2. CASE ~same
    <3>1. e = Link(f, i) /\ W = V \ {i} BY <1>7, <2>2
    <3>2. i \notin W /\ V = W \cup {i} BY <3>1
    <3> HIDE DEF W, V
    <3>3. LET p == Link(f, i)
          IN /\ Alike(f, p) /\ IsDict(p, keys, values) /\ p.bucketsLen = f.bucketsLen
             /\ Woven(p, W \cup {i})
             /\ \A j \in 0..(f.count - 1) :
                  /\ j # i => p.nodes[j].next = f.nodes[j].next
                  /\ p.nodes[j].prev = Gone <=> j # i /\ f.nodes[j].prev = Gone
      <4>1. i \in 0..(f.count - 1) BY <1>3, <1>9
      <4> QED BY <1>9, <3>2, <4>1, LinkWoven
    <3> QED BY <1>9, <3>1, <3>2, <3>3
  <2> QED BY <2>1, <2>2
<1>12. /\ Shape(e) /\ e.count = n /\ e.freeCount = d.freeCount /\ e.freeList = d.freeList
       /\ e.nodes[i].hashCode = Hash[k] /\ e.nodes[i].key = k
       /\ e.nodes[i].value = d.nodes[i].value /\ e.nodes[i].prev # Gone
       /\ \A j \in 0..(n - 1) : j # i =>
            /\ e.nodes[j].hashCode = d.nodes[j].hashCode /\ e.nodes[j].key = d.nodes[j].key
            /\ e.nodes[j].value = d.nodes[j].value
            /\ e.nodes[j].prev = Gone <=> d.nodes[j].prev = Gone
            /\ j \notin V => e.nodes[j].next = d.nodes[j].next
  <2> HIDE DEF V
  <2> QED BY <1>3, <1>9, <1>10, <1>11 DEF Alike
<1>13. Used(e) = V BY <1>3, <1>12 DEF Used
<1>14. Writes(d, e, i, k, d.nodes[i].value) BY <1>3, <1>12, <1>13 DEF Writes
<1>15. Keyed(e)
  <2>1. \A j \in V : j # i => /\ e.nodes[j].hashCode = d.nodes[j].hashCode
                              /\ e.nodes[j].key = d.nodes[j].key
    BY <1>3, <1>12
  <2>2. \A j \in V : d.nodes[j].key # k OBVIOUS
  <2> HIDE DEF V
  <2> QED BY <1>1, <1>12, <1>13, <2>1, <2>2 DEF Keyed, V
<1>16. Stacked(e, s)
  <2>1. d.freeCount \in Nat BY <1>2
  <2>2. \A j \in 0..(d.count - 1) : j \notin Used(d) => e.nodes[j].next = d.nodes[j].next
    BY <1>12, <1>3
  <2> QED BY <1>1, <1>12, <1>13, <2>1, <2>2, StackedSame
<1>17. Fit(e, keys, values, s) BY <1>11, <1>12, <1>13, <1>15, <1>16 DEF Fit
<1> QED BY <1>11, <1>12, <1>14, <1>17 DEF e

LEMMA SetFit ==
  ASSUME NEW d, NEW keys, NEW values, NEW s, Fit(d, keys, values, s), NEW i \in Used(d),
         NEW v \in values
  PROVE  LET e == [d EXCEPT !.nodes[i].value = v]
         IN /\ Fit(e, keys, values, s) /\ Writes(d, e, i, d.nodes[i].key, v)
            /\ e.count = d.count /\ e.freeCount = d.freeCount /\ e.freeList = d.freeList
            /\ e.bucketsLen = d.bucketsLen
<1> DEFINE e == [d EXCEPT !.nodes[i].value = v]
           n == d.count
           V == Used(d)
           x == Revalued(d.nodes[i], v)
<1>1. Shape(d) /\ IsDict(d, keys, values) /\ Woven(d, V) /\ Keyed(d) /\ Stacked(d, s)
  BY DEF Fit
<1>2. n \in Nat /\ n <= d.bucketsLen /\ d.bucketsLen \in Nat BY <1>1, DictFacts
<1>3. /\ d.freeCount \in 0..n /\ d.freeList \in {None} \cup 0..(n - 1)
      /\ d.freeCount > 0 => d.freeList \in 0..(n - 1)
  BY <1>1 DEF IsDict, Stacked
<1>4. i \in 0..(n - 1) /\ V \subseteq 0..(n - 1) BY DEF Used
<1>5. DOMAIN d.nodes = 0..(n - 1) /\ d.nodes[i] \in DictNode(n, keys, values)
  BY <1>1, <1>4, DictFacts, NodesOf
<1>6. e = Put(d, i, n, d.freeList, d.freeCount, x)
  <2>1. Revaluing(d, i, v) = Put(d, i, n, d.freeList, d.freeCount, x)
    <3> HIDE DEF e
    <3> QED BY <1>1, <1>4, <1>5, RevaluedIs
  <2> QED BY <2>1 DEF Revaluing
<1>7. /\ x.hashCode = d.nodes[i].hashCode /\ x.key = d.nodes[i].key /\ x.value = v
      /\ x.next = d.nodes[i].next /\ x.prev = d.nodes[i].prev
      /\ x \in DictNode(n, keys, values)
  BY <1>5 DEF Revalued, DictNode
<1> HIDE DEF e, x
<1>8. /\ Shape(e) /\ IsDict(e, keys, values) /\ Woven(e, V)
      /\ e.count = n /\ e.freeCount = d.freeCount /\ e.freeList = d.freeList
      /\ e.bucketsLen = d.bucketsLen /\ e.nodes[i] = x
      /\ \A j \in 0..(n - 1) : j # i => e.nodes[j] = d.nodes[j]
  <2>1. 0..(n - 1) = 0..(d.count - 1) \cup {i} BY <1>4
  <2>2. Bucket(d, x.hashCode) = Home(d, i) BY <1>7 DEF Home
  <2>3. n >= d.count BY <1>2
  <2> DEFINE l == d.freeList
             c == d.freeCount
  <2> HIDE DEF n, l, c, V
  <2>4. l \in {None} \cup 0..(n - 1) /\ c \in 0..n /\ (c > 0 => l \in 0..(n - 1))
    BY <1>3 DEF l, c
  <2>5. Puttable(d, i, n, l, c, x, V, keys, values)
    BY <1>1, <1>2, <1>4, <1>7, <2>1, <2>2, <2>3, <2>4 DEF Puttable
  <2>6. LET p == Put(d, i, n, l, c, x)
        IN /\ Shape(p) /\ IsDict(p, keys, values) /\ Woven(p, V)
           /\ p.count = n /\ p.freeCount = c /\ p.freeList = l
           /\ p.bucketsLen = d.bucketsLen /\ p.nodes[i] = x
           /\ \A j \in 0..(d.count - 1) : j # i => p.nodes[j] = d.nodes[j]
    BY <2>5, PutWoven
  <2>7. 0..(n - 1) = 0..(d.count - 1) BY DEF n
  <2> QED BY <1>6, <2>6, <2>7 DEF l, c
<1>9. \A j \in 0..(n - 1) : /\ e.nodes[j].hashCode = d.nodes[j].hashCode
                            /\ e.nodes[j].key = d.nodes[j].key
                            /\ e.nodes[j].next = d.nodes[j].next
                            /\ e.nodes[j].prev = d.nodes[j].prev
                            /\ j # i => e.nodes[j].value = d.nodes[j].value
  BY <1>7, <1>8
<1>10. Used(e) = V BY <1>8, <1>9 DEF Used
<1>11. Writes(d, e, i, d.nodes[i].key, v) BY <1>4, <1>7, <1>8, <1>9, <1>10 DEF Writes
<1>12. Keyed(e) BY <1>1, <1>4, <1>9, <1>10 DEF Keyed
<1>13. Stacked(e, s)
  <2>1. d.freeCount \in Nat BY <1>2, <1>3
  <2>2. \A j \in 0..(d.count - 1) : j \notin Used(d) => e.nodes[j].next = d.nodes[j].next
    BY <1>9
  <2> QED BY <1>1, <1>8, <1>10, <2>1, <2>2, StackedSame
<1>14. Fit(e, keys, values, s) BY <1>8, <1>10, <1>12, <1>13 DEF Fit
<1> QED BY <1>8, <1>11, <1>14 DEF e

\* Reserve for a dictionary without free nodes.
LEMMA ReserveFit ==
  ASSUME NEW d, NEW keys, NEW values, NEW s, Fit(d, keys, values, s), d.freeCount = 0,
         NEW capacity \in Nat, capacity > d.bucketsLen, capacity <= LargestPrime
  PROVE  LET e == ReserveDict(d, capacity)
         IN /\ Fit(e, keys, values, s) /\ Used(e) = Used(d)
            /\ \A j \in Used(d) : e.nodes[j].key = d.nodes[j].key
                                  /\ e.nodes[j].value = d.nodes[j].value
            /\ e.count = d.count /\ e.freeCount = 0 /\ e.bucketsLen = GetPrime(capacity)
<1> DEFINE e == ReserveDict(d, capacity)
           n == d.count
<1>1. Shape(d) /\ IsDict(d, keys, values) /\ Keyed(d) /\ Stacked(d, s) BY DEF Fit
<1>2. Used(d) = 0..(n - 1) BY StackFacts
<1>3. /\ Alike(d, e) /\ IsDict(e, keys, values) /\ e.bucketsLen = GetPrime(capacity)
      /\ Woven(e, 0..(n - 1)) /\ \A i \in 0..(n - 1) : e.nodes[i].prev # Gone
  BY <1>1, ReserveWoven
<1> HIDE DEF e
<1>4. Shape(e) /\ e.count = n /\ e.freeCount = 0 /\ e.freeList = d.freeList BY <1>3 DEF Alike
<1>5. Used(e) = 0..(n - 1) BY <1>3, <1>4 DEF Used
<1>6. \A j \in 0..(n - 1) : /\ e.nodes[j].hashCode = d.nodes[j].hashCode
                            /\ e.nodes[j].key = d.nodes[j].key
                            /\ e.nodes[j].value = d.nodes[j].value
  BY <1>3 DEF Alike
<1>7. Keyed(e) BY <1>1, <1>2, <1>5, <1>6 DEF Keyed
<1>8. Stacked(e, s)
  <2>1. \A j \in 0..(d.count - 1) : j \notin Used(d) => e.nodes[j].next = d.nodes[j].next
    BY <1>2
  <2>2. d.freeCount \in Nat OBVIOUS
  <2> QED BY <1>1, <1>2, <1>4, <1>5, <2>1, <2>2, StackedSame
<1>9. Fit(e, keys, values, s) BY <1>2, <1>3, <1>4, <1>5, <1>7, <1>8 DEF Fit
<1> QED BY <1>2, <1>3, <1>4, <1>5, <1>6, <1>9 DEF e

NoneFree == [j \in 1..0 |-> 0]

EmptyDict(d) ==
  /\ Shape(d) /\ d.count = 0 /\ d.freeCount = 0 /\ d.freeList = None /\ d.nodes = <<>>
  /\ d.bucketsLen \in primes2n /\ d.buckets = [b \in 0..(d.bucketsLen - 1) |-> None]

LEMMA EmptyFit ==
  ASSUME NEW d, NEW keys, NEW values, EmptyDict(d)
  PROVE  Fit(d, keys, values, NoneFree) /\ Used(d) = {}
<1>1. /\ Shape(d) /\ d.count = 0 /\ d.freeCount = 0 /\ d.freeList = None /\ d.nodes = <<>>
      /\ d.bucketsLen \in primes2n /\ d.buckets = [b \in 0..(d.bucketsLen - 1) |-> None]
  BY DEF EmptyDict
<1>2. d.bucketsLen \in Nat /\ d.bucketsLen > 0 BY <1>1, Primes
<1>3. 0..(0 - 1) = {} /\ 1..0 = {} /\ 2..0 = {} /\ ~(0 > 0) OBVIOUS
<1>4. Used(d) = {} BY <1>1, <1>3 DEF Used
<1>5. IsDict(d, keys, values)
  <2>1. <<>> \in [{} -> DictNode(0, keys, values)] BY DEF DictNode
  <2>2. d.nodes \in [0..(d.count - 1) -> DictNode(d.count, keys, values)] BY <1>1, <1>3, <2>1
  <2>3. d.buckets \in [0..(d.bucketsLen - 1) -> {None} \cup 0..(d.count - 1)] BY <1>1
  <2>4. d.count \in 0..d.bucketsLen /\ d.freeCount \in 0..d.count BY <1>1, <1>2
  <2> QED BY <1>1, <1>3, <2>2, <2>3, <2>4 DEF IsDict, DictNode
<1>6. Woven(d, {})
  <2>1. Ranked(d, {})
    <3>1. [j \in {} |-> 0] \in [{} -> Nat] OBVIOUS
    <3> QED BY <3>1 DEF Ranked
  <2>2. Headed(d, {}) BY <1>1 DEF Headed
  <2>3. Nexts(d, {}) /\ Prevs(d, {}) BY DEF Nexts, Prevs
  <2> QED BY <2>1, <2>2, <2>3 DEF Woven
<1>7. Stacked(d, NoneFree)
  <2>1. NoneFree \in [1..0 -> {}] BY <1>3 DEF NoneFree
  <2> QED BY <1>1, <1>3, <1>4, <2>1 DEF Stacked
<1>8. Keyed(d) BY <1>4 DEF Keyed
<1> QED BY <1>1, <1>4, <1>5, <1>6, <1>7, <1>8 DEF Fit

LEMMA NewEmpty == EmptyDict(NewDict(1))
<1> DEFINE len == GetPrime(1)
           buckets == [b \in 0..(len - 1) |-> None]
<1>1. len \in primes2n
  <2>1. 1 \in Nat /\ 1 <= LargestPrime BY DEF LargestPrime
  <2> QED BY <2>1, Prime
<1>2. NewDict(1) = [freeList |-> None, freeCount |-> 0, count |-> 0, bucketsLen |-> len,
                    buckets |-> buckets, nodes |-> <<>>]
  BY DEF NewDict
<1>3. buckets = [b \in 0..(len - 1) |-> None] OBVIOUS
<1> HIDE DEF len, buckets
<1>4. PICK d : d = NewDict(1) OBVIOUS
<1>5. /\ Shape(d) /\ d.count = 0 /\ d.freeCount = 0 /\ d.freeList = None /\ d.nodes = <<>>
      /\ d.bucketsLen = len /\ d.buckets = buckets
  BY <1>2, <1>4 DEF Shape
<1>6. EmptyDict(d) BY <1>1, <1>3, <1>5 DEF EmptyDict
<1> QED BY <1>4, <1>6

LEMMA ClearEmpty ==
  ASSUME NEW d, NEW keys, NEW values, Shape(d), IsDict(d, keys, values)
  PROVE  EmptyDict(ClearDict(d)) /\ ClearDict(d).bucketsLen = d.bucketsLen
<1> DEFINE buckets == [b \in DOMAIN d.buckets |-> None]
           d1 == [d EXCEPT !.buckets = buckets]
           d2 == [d1 EXCEPT !.nodes = <<>>]
           d3 == [d2 EXCEPT !.freeList = None]
           d4 == [d3 EXCEPT !.freeCount = 0]
<1>1. ClearDict(d) = [d4 EXCEPT !.count = 0] BY DEF ClearDict
<1>2. d.bucketsLen \in primes2n /\ buckets = [b \in 0..(d.bucketsLen - 1) |-> None]
  BY DictFacts
<1>3. d4 = [freeList |-> None, freeCount |-> 0, count |-> d.count, bucketsLen |-> d.bucketsLen,
            buckets |-> buckets, nodes |-> <<>>]
  <2> HIDE DEF buckets
  <2>1. d1 = [freeList |-> d.freeList, freeCount |-> d.freeCount, count |-> d.count,
              bucketsLen |-> d.bucketsLen, buckets |-> buckets, nodes |-> d.nodes]
    BY DEF Shape
  <2> HIDE DEF d1
  <2>2. d2 = [freeList |-> d.freeList, freeCount |-> d.freeCount, count |-> d.count,
              bucketsLen |-> d.bucketsLen, buckets |-> buckets, nodes |-> <<>>]
    BY <2>1
  <2> HIDE DEF d2
  <2>3. d3 = [freeList |-> None, freeCount |-> d.freeCount, count |-> d.count,
              bucketsLen |-> d.bucketsLen, buckets |-> buckets, nodes |-> <<>>]
    BY <2>2
  <2> HIDE DEF d3
  <2> QED BY <2>3
<1> HIDE DEF d4, buckets
<1>4. ClearDict(d) = [freeList |-> None, freeCount |-> 0, count |-> 0,
                      bucketsLen |-> d.bucketsLen, buckets |-> buckets, nodes |-> <<>>]
  BY <1>1, <1>3
<1> QED BY <1>2, <1>4 DEF EmptyDict, Shape

-----------------------------------------------------------------------------
(* The two dictionaries of DictMK. *)

\* What callers look after, and what the table of primes allows.
Sized ==
  /\ IsFiniteSet(Key)
  /\ Cardinality(Key) <= SecondLargest /\ MaxReserve <= LargestPrime

Paired(d, e, s) ==
  /\ Fit(d, Key, Value, s) /\ Fit(e, Key1, Index, s)
  /\ d.count = e.count /\ d.freeCount = e.freeCount /\ d.bucketsLen = e.bucketsLen
  /\ d.count <= Cardinality(Key)

Mapped == broken = "none" /\ \E s : Paired(dict, dicts, s)
DictInv == Mapped \/ broken \in {"rollback", "reserve"}

LEMMA FitBasics ==
  ASSUME NEW d, NEW keys, NEW values, NEW s, Fit(d, keys, values, s)
  PROVE  /\ Shape(d) /\ IsDict(d, keys, values)
         /\ d.count \in Nat /\ d.freeCount \in Nat /\ d.freeCount <= d.count
         /\ d.bucketsLen \in Nat /\ d.count <= d.bucketsLen
         /\ Used(d) \subseteq 0..(d.count - 1)
         /\ \A i \in Used(d) : d.nodes[i].key \in keys /\ d.nodes[i].value \in values
         /\ \A i, j \in Used(d) : d.nodes[i].key = d.nodes[j].key => i = j
         /\ d.freeCount > 0 => d.freeList = s[d.freeCount] /\ d.freeList \in 0..(d.count - 1)
<1>1. Shape(d) /\ IsDict(d, keys, values) /\ Keyed(d) /\ Stacked(d, s) BY DEF Fit
<1>2. /\ d.count \in Nat /\ d.freeCount \in Nat /\ d.freeCount <= d.count
      /\ d.bucketsLen \in Nat /\ d.count <= d.bucketsLen
      /\ \A i \in 0..(d.count - 1) : d.nodes[i].key \in keys /\ d.nodes[i].value \in values
  BY <1>1, DictFacts
<1>3. d.freeCount > 0 => d.freeList = s[d.freeCount] /\ d.freeList \in 0..(d.count - 1)
  BY <1>1 DEF Stacked, IsDict
<1> QED BY <1>1, <1>2, <1>3 DEF Used, Keyed

\* Find in a dictionary.
LEMMA FindFit ==
  ASSUME NEW d, NEW keys, NEW values, NEW s, Fit(d, keys, values, s),
         NEW k \in keys, Hash[k] \in Nat
  PROVE  /\ Find(d, k) = None => \A i \in Used(d) : d.nodes[i].key # k
         /\ Find(d, k) # None => Find(d, k) \in Used(d) /\ d.nodes[Find(d, k)].key = k
<1>1. IsDict(d, keys, values) /\ Woven(d, Used(d)) /\ Keyed(d) BY DEF Fit
<1>2. {i \in Used(d) : d.nodes[i].key = k} = {Find(d, k)} \ {None} BY <1>1, Found
<1>3. None \notin Used(d)
  <2>1. Used(d) \subseteq 0..(d.count - 1) /\ d.count \in Nat BY FitBasics
  <2> QED BY <2>1 DEF None
<1>4. ASSUME Find(d, k) = None, NEW i \in Used(d) PROVE d.nodes[i].key # k
  BY <1>2, <1>3, <1>4
<1>5. ASSUME Find(d, k) # None PROVE Find(d, k) \in Used(d) /\ d.nodes[Find(d, k)].key = k
  BY <1>2, <1>5
<1> QED BY <1>4, <1>5

LEMMA SameUsed ==
  ASSUME NEW d, NEW e, NEW s, Paired(d, e, s)
  PROVE  Used(d) = Used(e) /\ IndexFor(d) = IndexFor(e)
<1>1. /\ Fit(d, Key, Value, s) /\ Fit(e, Key1, Index, s)
      /\ d.count = e.count /\ d.freeCount = e.freeCount /\ d.count <= Cardinality(Key)
  BY DEF Paired
<1>2. /\ \A i \in 0..(d.count - 1) : i \notin Used(d) <=> \E k \in 1..d.freeCount : s[k] = i
      /\ \A i \in 0..(e.count - 1) : i \notin Used(e) <=> \E k \in 1..e.freeCount : s[k] = i
  BY <1>1, StackFacts
<1>3. Used(d) \subseteq 0..(d.count - 1) /\ Used(e) \subseteq 0..(e.count - 1) BY <1>1, FitBasics
<1>4. Used(d) = Used(e) BY <1>1, <1>2, <1>3
<1>5. /\ d.freeCount > 0 => d.freeList = s[d.freeCount]
      /\ e.freeCount > 0 => e.freeList = s[e.freeCount]
  BY <1>1, FitBasics
<1> QED BY <1>1, <1>4, <1>5 DEF IndexFor

\* Without free nodes there is a record for each index, and a key for each record.
LEMMA FewerThanKeys ==
  ASSUME NEW d, NEW values, NEW s, Fit(d, Key, values, s), d.freeCount = 0,
         IsFiniteSet(Key), NEW k \in Key, \A j \in Used(d) : d.nodes[j].key # k
  PROVE  d.count + 1 <= Cardinality(Key) /\ Cardinality(Key) \in Nat
<1> DEFINE I == 0..(d.count - 1)
           T == Key \ {k}
           f == [j \in I |-> d.nodes[j].key]
<1>1. Used(d) = I BY StackFacts
<1>2. d.count \in Nat BY FitBasics
<1>3. \A j \in I : d.nodes[j].key \in T BY <1>1, FitBasics
<1>4. \A i, j \in I : d.nodes[i].key = d.nodes[j].key => i = j BY <1>1, FitBasics
<1>5. f \in [I -> T] BY <1>3
<1>6. f \in Injection(I, T) BY <1>4, <1>5 DEF Injection, IsInjective
<1>7. IsFiniteSet(T) /\ Cardinality(T) = Cardinality(Key) - 1 BY FS_RemoveElement
<1>8. Cardinality(I) = d.count BY <1>2, Interval
<1> HIDE DEF I, T, f
<1>9. Cardinality(I) <= Cardinality(T) BY <1>6, <1>7, FS_Injection
<1>10. Cardinality(Key) \in Nat BY FS_CardinalityType
<1> QED BY <1>2, <1>7, <1>8, <1>9, <1>10

-----------------------------------------------------------------------------
(* The operations on both. *)

LEMMA PairAdd ==
  ASSUME Sized, NEW d, NEW e, NEW s, Paired(d, e, s),
         NEW k \in Key, NEW l \in Key1, NEW v \in Value,
         Find(d, k) = None, Find(e, l) = None
  PROVE  LET i == IndexFor(d)
         IN /\ Paired(Add(d, k, v), Add(e, l, i), Taken(d, s))
            /\ Gains(d, Add(d, k, v), i, k, v) /\ Gains(e, Add(e, l, i), i, l, i)
            /\ i \in Index /\ i \notin Used(d)
            /\ \A j \in Used(d) : d.nodes[j].key # k
            /\ \A j \in Used(d) : e.nodes[j].key # l
<1>1. /\ Fit(d, Key, Value, s) /\ Fit(e, Key1, Index, s)
      /\ d.count = e.count /\ d.freeCount = e.freeCount /\ d.bucketsLen = e.bucketsLen
      /\ d.count <= Cardinality(Key)
  BY DEF Paired
<1>2. Hash[k] \in Nat /\ Hash[l] \in Nat BY DictConsts
<1>3. (\A j \in Used(d) : d.nodes[j].key # k) /\ (\A j \in Used(e) : e.nodes[j].key # l)
  BY <1>1, <1>2, FindFit
<1>4. IsFiniteSet(Key) /\ Cardinality(Key) \in Nat /\ Cardinality(Key) <= SecondLargest
  BY FS_CardinalityType DEF Sized
<1>5. /\ d.count \in Nat /\ d.freeCount \in Nat
      /\ d.freeCount > 0 => d.freeList = s[d.freeCount] /\ d.freeList \in 0..(d.count - 1)
      /\ e.freeCount > 0 => e.freeList = s[e.freeCount]
  BY <1>1, FitBasics
<1>6. Taken(d, s) = Taken(e, s) BY <1>1 DEF Taken
<1>7. Used(d) = Used(e) BY SameUsed
<1>8. CASE d.freeCount > 0
  <2>1. PICK i : i = d.freeList OBVIOUS
  <2>2. i = IndexFor(d) /\ i = e.freeList BY <1>1, <1>5, <1>8, <2>1 DEF IndexFor
  <2>3. i \in Index BY <1>1, <1>4, <1>5, <1>8, <2>1 DEF Index
  <2>4. /\ Fit(Add(d, k, v), Key, Value, Taken(d, s)) /\ Gains(d, Add(d, k, v), i, k, v)
        /\ Add(d, k, v).count = d.count /\ Add(d, k, v).freeCount = d.freeCount - 1
        /\ Add(d, k, v).bucketsLen = d.bucketsLen
    BY <1>1, <1>2, <1>3, <1>8, <2>1, AddToFree
  <2>5. /\ Fit(Add(e, l, i), Key1, Index, Taken(e, s)) /\ Gains(e, Add(e, l, i), i, l, i)
        /\ Add(e, l, i).count = e.count /\ Add(e, l, i).freeCount = e.freeCount - 1
        /\ Add(e, l, i).bucketsLen = e.bucketsLen
    <3>1. e.freeCount > 0 BY <1>1, <1>8
    <3> QED BY <1>1, <1>2, <1>3, <2>2, <2>3, <3>1, AddToFree
  <2>6. Paired(Add(d, k, v), Add(e, l, i), Taken(d, s)) BY <1>1, <1>6, <2>4, <2>5 DEF Paired
  <2>7. i \notin Used(d) BY <2>4 DEF Gains
  <2> QED BY <1>3, <1>7, <2>2, <2>3, <2>4, <2>5, <2>6, <2>7
<1>9. CASE ~(d.freeCount > 0)
  <2>1. d.freeCount = 0 /\ e.freeCount = 0 BY <1>1, <1>5, <1>9
  <2>2. d.count + 1 <= Cardinality(Key) BY <1>1, <1>3, <1>4, <2>1, FewerThanKeys
  <2>3. PICK i : i = d.count OBVIOUS
  <2>4. i = IndexFor(d) /\ i = e.count BY <1>1, <1>9, <2>3 DEF IndexFor
  <2>5. i \in Index BY <1>4, <1>5, <2>2, <2>3 DEF Index
  <2>6. d.count < SecondLargest /\ e.count < SecondLargest
    <3>1. SecondLargest \in Nat BY DEF SecondLargest
    <3> QED BY <1>1, <1>4, <1>5, <2>2, <3>1
  <2>7. /\ Fit(Add(d, k, v), Key, Value, Taken(d, s)) /\ Gains(d, Add(d, k, v), i, k, v)
        /\ Add(d, k, v).count = d.count + 1 /\ Add(d, k, v).freeCount = 0
        /\ Add(d, k, v).bucketsLen = IF d.count = d.bucketsLen THEN GetPrime(2 * d.count)
                                     ELSE d.bucketsLen
    BY <1>1, <1>2, <1>3, <2>1, <2>3, <2>6, AddBehind
  <2>8. /\ Fit(Add(e, l, i), Key1, Index, Taken(e, s)) /\ Gains(e, Add(e, l, i), i, l, i)
        /\ Add(e, l, i).count = e.count + 1 /\ Add(e, l, i).freeCount = 0
        /\ Add(e, l, i).bucketsLen = IF e.count = e.bucketsLen THEN GetPrime(2 * e.count)
                                     ELSE e.bucketsLen
    BY <1>1, <1>2, <1>3, <2>1, <2>4, <2>5, <2>6, AddBehind
  <2>9. Paired(Add(d, k, v), Add(e, l, i), Taken(d, s))
    BY <1>1, <1>6, <2>2, <2>7, <2>8 DEF Paired
  <2>10. i \notin Used(d) BY <2>7 DEF Gains
  <2> QED BY <1>3, <1>7, <2>4, <2>5, <2>7, <2>8, <2>9, <2>10
<1> QED BY <1>8, <1>9

\* What the first dictionary gains of an Add, if the second has the second key or not.
LEMMA FirstAdd ==
  ASSUME Sized, NEW d, NEW e, NEW s, Paired(d, e, s),
         NEW k \in Key, NEW v \in Value, Find(d, k) = None
  PROVE  Gains(d, Add(d, k, v), IndexFor(d), k, v) /\ IndexFor(d) \notin Used(d)
<1>1. /\ Fit(d, Key, Value, s)
      /\ d.count = e.count /\ d.freeCount = e.freeCount /\ d.bucketsLen = e.bucketsLen
      /\ d.count <= Cardinality(Key)
  BY DEF Paired
<1>2. Hash[k] \in Nat BY DictConsts
<1>3. \A j \in Used(d) : d.nodes[j].key # k BY <1>1, <1>2, FindFit
<1>4. IsFiniteSet(Key) /\ Cardinality(Key) \in Nat /\ Cardinality(Key) <= SecondLargest
  BY FS_CardinalityType DEF Sized
<1>5. d.count \in Nat /\ d.freeCount \in Nat BY <1>1, FitBasics
<1>6. CASE d.freeCount > 0
  <2>1. PICK i : i = d.freeList OBVIOUS
  <2>2. i = IndexFor(d) BY <1>6, <2>1 DEF IndexFor
  <2>3. Gains(d, Add(d, k, v), i, k, v) BY <1>1, <1>2, <1>3, <1>6, <2>1, AddToFree
  <2> QED BY <2>2, <2>3 DEF Gains
<1>7. CASE ~(d.freeCount > 0)
  <2>1. d.freeCount = 0 BY <1>5, <1>7
  <2>2. d.count + 1 <= Cardinality(Key) BY <1>1, <1>3, <1>4, <2>1, FewerThanKeys
  <2>3. PICK i : i = d.count OBVIOUS
  <2>4. i = IndexFor(d) BY <1>7, <2>3 DEF IndexFor
  <2>5. d.count < SecondLargest
    <3>1. SecondLargest \in Nat BY DEF SecondLargest
    <3> QED BY <1>4, <1>5, <2>2, <3>1
  <2>6. Gains(d, Add(d, k, v), i, k, v) BY <1>1, <1>2, <1>3, <2>1, <2>3, <2>5, AddBehind
  <2> QED BY <2>4, <2>6 DEF Gains
<1> QED BY <1>6, <1>7

LEMMA PairRemove ==
  ASSUME NEW d, NEW e, NEW s, Paired(d, e, s), NEW i \in Used(d)
  PROVE  /\ Paired(RemoveAt(d, i), RemoveAt(e, i), Pushed(d, s, i))
         /\ Loses(d, RemoveAt(d, i), i) /\ Loses(e, RemoveAt(e, i), i)
<1>1. /\ Fit(d, Key, Value, s) /\ Fit(e, Key1, Index, s)
      /\ d.count = e.count /\ d.freeCount = e.freeCount /\ d.bucketsLen = e.bucketsLen
      /\ d.count <= Cardinality(Key)
  BY DEF Paired
<1>2. i \in Used(e) BY SameUsed
<1>3. Pushed(d, s, i) = Pushed(e, s, i) BY <1>1 DEF Pushed
<1>4. /\ Fit(RemoveAt(d, i), Key, Value, Pushed(d, s, i)) /\ Loses(d, RemoveAt(d, i), i)
      /\ RemoveAt(d, i).count = d.count /\ RemoveAt(d, i).freeCount = d.freeCount + 1
      /\ RemoveAt(d, i).bucketsLen = d.bucketsLen
  BY <1>1, RemoveFit
<1>5. /\ Fit(RemoveAt(e, i), Key1, Index, Pushed(e, s, i)) /\ Loses(e, RemoveAt(e, i), i)
      /\ RemoveAt(e, i).count = e.count /\ RemoveAt(e, i).freeCount = e.freeCount + 1
      /\ RemoveAt(e, i).bucketsLen = e.bucketsLen
  BY <1>1, <1>2, RemoveFit
<1> QED BY <1>1, <1>3, <1>4, <1>5 DEF Paired

LEMMA PairUpdate ==
  ASSUME NEW d, NEW e, NEW s, Paired(d, e, s), NEW k \in Key, NEW new \in Key,
         Find(d, k) # None, Find(d, new) = None
  PROVE  LET i == Find(d, k)
         IN /\ Paired(UpdateAt(d, i, new), e, s)
            /\ Writes(d, UpdateAt(d, i, new), i, new, d.nodes[i].value)
            /\ \A j \in Used(d) : d.nodes[j].key # new
<1>1. /\ Fit(d, Key, Value, s) /\ Fit(e, Key1, Index, s)
      /\ d.count = e.count /\ d.freeCount = e.freeCount /\ d.bucketsLen = e.bucketsLen
      /\ d.count <= Cardinality(Key)
  BY DEF Paired
<1>2. Hash[k] \in Nat /\ Hash[new] \in Nat BY DictConsts
<1>3. PICK i : i = Find(d, k) OBVIOUS
<1>4. i \in Used(d) /\ \A j \in Used(d) : d.nodes[j].key # new BY <1>1, <1>2, <1>3, FindFit
<1>5. /\ Fit(UpdateAt(d, i, new), Key, Value, s)
      /\ Writes(d, UpdateAt(d, i, new), i, new, d.nodes[i].value)
      /\ UpdateAt(d, i, new).count = d.count /\ UpdateAt(d, i, new).freeCount = d.freeCount
      /\ UpdateAt(d, i, new).bucketsLen = d.bucketsLen
  BY <1>1, <1>2, <1>4, UpdateFit
<1>6. Paired(UpdateAt(d, i, new), e, s) BY <1>1, <1>5 DEF Paired
<1> QED BY <1>3, <1>4, <1>5, <1>6

LEMMA PairUpdate1 ==
  ASSUME NEW d, NEW e, NEW s, Paired(d, e, s), NEW l \in Key1, NEW new \in Key1,
         Find(e, l) # None, Find(e, new) = None
  PROVE  LET i == Find(e, l)
         IN /\ Paired(d, UpdateAt(e, i, new), s)
            /\ Writes(e, UpdateAt(e, i, new), i, new, e.nodes[i].value)
            /\ \A j \in Used(e) : e.nodes[j].key # new
<1>1. /\ Fit(d, Key, Value, s) /\ Fit(e, Key1, Index, s)
      /\ d.count = e.count /\ d.freeCount = e.freeCount /\ d.bucketsLen = e.bucketsLen
      /\ d.count <= Cardinality(Key)
  BY DEF Paired
<1>2. Hash[l] \in Nat /\ Hash[new] \in Nat BY DictConsts
<1>3. PICK i : i = Find(e, l) OBVIOUS
<1>4. i \in Used(e) /\ \A j \in Used(e) : e.nodes[j].key # new BY <1>1, <1>2, <1>3, FindFit
<1>5. /\ Fit(UpdateAt(e, i, new), Key1, Index, s)
      /\ Writes(e, UpdateAt(e, i, new), i, new, e.nodes[i].value)
      /\ UpdateAt(e, i, new).count = e.count /\ UpdateAt(e, i, new).freeCount = e.freeCount
      /\ UpdateAt(e, i, new).bucketsLen = e.bucketsLen
  BY <1>1, <1>2, <1>4, UpdateFit
<1>6. Paired(d, UpdateAt(e, i, new), s) BY <1>1, <1>5 DEF Paired
<1> QED BY <1>3, <1>4, <1>5, <1>6

LEMMA PairSet ==
  ASSUME NEW d, NEW e, NEW s, Paired(d, e, s), NEW i \in Used(d), NEW v \in Value
  PROVE  LET f == [d EXCEPT !.nodes[i].value = v]
         IN Paired(f, e, s) /\ Writes(d, f, i, d.nodes[i].key, v)
<1> DEFINE f == [d EXCEPT !.nodes[i].value = v]
<1>1. /\ Fit(d, Key, Value, s) /\ Fit(e, Key1, Index, s)
      /\ d.count = e.count /\ d.freeCount = e.freeCount /\ d.bucketsLen = e.bucketsLen
      /\ d.count <= Cardinality(Key)
  BY DEF Paired
<1>2. /\ Fit(f, Key, Value, s) /\ Writes(d, f, i, d.nodes[i].key, v)
      /\ f.count = d.count /\ f.freeCount = d.freeCount /\ f.bucketsLen = d.bucketsLen
  BY <1>1, SetFit
<1> HIDE DEF f
<1> QED BY <1>1, <1>2 DEF Paired, f

LEMMA PairReserve ==
  ASSUME Sized, NEW d, NEW e, NEW s, Paired(d, e, s), d.freeCount = 0,
         NEW n \in 1..MaxReserve, n > d.bucketsLen
  PROVE  LET f == ReserveDict(d, n)   g == ReserveDict(e, n)
         IN /\ Paired(f, g, s) /\ Used(f) = Used(d)
            /\ \A j \in Used(d) : /\ f.nodes[j].key = d.nodes[j].key
                                  /\ f.nodes[j].value = d.nodes[j].value
                                  /\ g.nodes[j].key = e.nodes[j].key
<1> DEFINE f == ReserveDict(d, n)
           g == ReserveDict(e, n)
<1>1. /\ Fit(d, Key, Value, s) /\ Fit(e, Key1, Index, s)
      /\ d.count = e.count /\ d.freeCount = e.freeCount /\ d.bucketsLen = e.bucketsLen
      /\ d.count <= Cardinality(Key)
  BY DEF Paired
<1>2. n \in Nat /\ n <= LargestPrime
  <2>1. MaxReserve \in Nat /\ MaxReserve <= LargestPrime /\ LargestPrime \in Nat
    BY DictAssumption DEF DictAssumption, Sized, LargestPrime
  <2> QED BY <2>1
<1>3. Used(d) = Used(e) BY SameUsed
<1>4. /\ Fit(f, Key, Value, s) /\ Used(f) = Used(d)
      /\ \A j \in Used(d) : f.nodes[j].key = d.nodes[j].key /\ f.nodes[j].value = d.nodes[j].value
      /\ f.count = d.count /\ f.freeCount = 0 /\ f.bucketsLen = GetPrime(n)
  BY <1>1, <1>2, ReserveFit
<1>5. /\ Fit(g, Key1, Index, s)
      /\ \A j \in Used(e) : g.nodes[j].key = e.nodes[j].key
      /\ g.count = e.count /\ g.freeCount = 0 /\ g.bucketsLen = GetPrime(n)
  BY <1>1, <1>2, ReserveFit
<1> HIDE DEF f, g
<1>6. Paired(f, g, s) BY <1>1, <1>4, <1>5 DEF Paired
<1> QED BY <1>3, <1>4, <1>5, <1>6 DEF f, g

LEMMA PairEmpty ==
  ASSUME IsFiniteSet(Key), NEW d, NEW e, EmptyDict(d), EmptyDict(e), d.bucketsLen = e.bucketsLen
  PROVE  Paired(d, e, NoneFree) /\ Used(d) = {}
<1>1. Fit(d, Key, Value, NoneFree) /\ Fit(e, Key1, Index, NoneFree) /\ Used(d) = {} BY EmptyFit
<1>2. d.count = 0 /\ e.count = 0 /\ d.freeCount = 0 /\ e.freeCount = 0 BY DEF EmptyDict
<1>3. Cardinality(Key) \in Nat BY FS_CardinalityType
<1>4. 0 <= Cardinality(Key) BY <1>3
<1> QED BY <1>1, <1>2, <1>4 DEF Paired

-----------------------------------------------------------------------------
(* The steps. *)

Entry(k, l, v) == [key |-> k, key1 |-> l, value |-> v]
Rec(d, e) ==
  [i \in Used(d) \cap Used(e) |-> Entry(d.nodes[i].key, e.nodes[i].key, d.nodes[i].value)]

LEMMA RecordsAre == records = Rec(dict, dicts) /\ records' = Rec(dict', dicts')
BY DEF records, Rec, Entry

LEMMA RecOf ==
  ASSUME NEW d, NEW e, NEW s, Paired(d, e, s)
  PROVE  /\ DOMAIN Rec(d, e) = Used(d)
         /\ \A i \in Used(d) : /\ Rec(d, e)[i].key = d.nodes[i].key
                               /\ Rec(d, e)[i].key1 = e.nodes[i].key
                               /\ Rec(d, e)[i].value = d.nodes[i].value
BY SameUsed DEF Rec, Entry

LEMMA AddStep ==
  ASSUME Sized, Mapped, NEW k \in Key, NEW l \in Key1, NEW v \in Value, AddRecord(k, l, v),
         Find(dicts, l) = None
  PROVE  Mapped' /\ Map!Add
<1>1. PICK s : Paired(dict, dicts, s) BY DEF Mapped
<1>2. PICK i : i = IndexFor(dict) OBVIOUS
<1>3. /\ Find(dict, k) = None /\ Find(dicts, l) = None
      /\ dict' = Add(dict, k, v) /\ dicts' = Add(dicts, l, i) /\ broken' = broken
  BY <1>2 DEF AddRecord
<1>4. /\ Paired(dict', dicts', Taken(dict, s))
      /\ Gains(dict, dict', i, k, v) /\ Gains(dicts, dicts', i, l, i)
      /\ i \in Index /\ i \notin Used(dict)
      /\ \A j \in Used(dict) : dict.nodes[j].key # k
      /\ \A j \in Used(dict) : dicts.nodes[j].key # l
  BY <1>1, <1>2, <1>3, PairAdd
<1>5. Mapped' BY <1>3, <1>4 DEF Mapped
<1>6. Used(dict) = Used(dicts) BY <1>1, SameUsed
<1>7. /\ DOMAIN records = Used(dict)
      /\ \A j \in Used(dict) : /\ records[j].key = dict.nodes[j].key
                               /\ records[j].key1 = dicts.nodes[j].key
      /\ \A j \in Used(dict) : records[j] = Entry(dict.nodes[j].key, dicts.nodes[j].key,
                                                  dict.nodes[j].value)
  <2>1. \A j \in Used(dict) : records[j] = Entry(dict.nodes[j].key, dicts.nodes[j].key,
                                                 dict.nodes[j].value)
    BY <1>6, RecordsAre DEF Rec
  <2> QED BY <1>1, <2>1, RecordsAre, RecOf
<1>8. records' = [j \in DOMAIN records \cup {i} |->
                    IF j = i THEN [key |-> k, key1 |-> l, value |-> v] ELSE records[j]]
  <2>1. records' = [j \in Used(dict) \cup {i} |->
                      Entry(dict'.nodes[j].key, dicts'.nodes[j].key, dict'.nodes[j].value)]
    BY <1>4, <1>6, RecordsAre DEF Rec, Gains
  <2>2. Entry(dict'.nodes[i].key, dicts'.nodes[i].key, dict'.nodes[i].value) = Entry(k, l, v)
    BY <1>4 DEF Gains
  <2>3. \A j \in Used(dict) :
          Entry(dict'.nodes[j].key, dicts'.nodes[j].key, dict'.nodes[j].value) = records[j]
    BY <1>4, <1>6, <1>7 DEF Gains
  <2> QED BY <1>4, <1>7, <2>1, <2>2, <2>3 DEF Entry
<1>9. k \in Key \ Map!Keys /\ l \in Key1 \ Map!Keys1 BY <1>4, <1>7 DEF Map!Keys, Map!Keys1
<1>10. i \in Index \ DOMAIN records BY <1>4, <1>7
<1> QED BY <1>5, <1>8, <1>9, <1>10 DEF Map!Add

\* The rollback of an Add whose second key is in use fails, and the map is what it was.
LEMMA RollbackStep ==
  ASSUME Sized, Mapped, NEW k \in Key, NEW l \in Key1, NEW v \in Value, AddRecord(k, l, v),
         Find(dicts, l) # None
  PROVE  broken' = "rollback" /\ records' = records
<1>1. PICK s : Paired(dict, dicts, s) BY DEF Mapped
<1>2. PICK i : i = IndexFor(dict) OBVIOUS
<1>3. /\ Find(dict, k) = None /\ dict' = Add(dict, k, v) /\ dicts' = dicts
      /\ broken' = IF i \in Used(dicts) THEN "other" ELSE "rollback"
  BY <1>2 DEF AddRecord
<1>4. Gains(dict, dict', i, k, v) /\ i \notin Used(dict) BY <1>1, <1>2, <1>3, FirstAdd
<1>5. Used(dict) = Used(dicts) BY <1>1, SameUsed
<1>6. records' = records
  <2>1. Used(dict') = Used(dict) \cup {i} BY <1>4 DEF Gains
  <2>2. Used(dict') \cap Used(dicts') = Used(dict) /\ Used(dict) \cap Used(dicts) = Used(dict)
    BY <1>3, <1>4, <1>5, <2>1
  <2>3. \A j \in Used(dict) : /\ dict'.nodes[j].key = dict.nodes[j].key
                              /\ dict'.nodes[j].value = dict.nodes[j].value
                              /\ dicts'.nodes[j].key = dicts.nodes[j].key
    BY <1>3, <1>4 DEF Gains
  <2> QED BY <2>2, <2>3, RecordsAre DEF Rec
<1> QED BY <1>3, <1>4, <1>5, <1>6

LEMMA RemoveStep ==
  ASSUME Mapped, NEW i \in Used(dict), RemoveRecord(i)
  PROVE  Mapped' /\ Map!Remove
<1>1. PICK s : Paired(dict, dicts, s) BY DEF Mapped
<1>2. Used(dict) = Used(dicts) BY <1>1, SameUsed
<1>3. dict' = RemoveAt(dict, i) /\ dicts' = RemoveAt(dicts, i) /\ broken' = broken
  BY <1>2, <1>1, SameUsed DEF RemoveRecord, Asserted, Mapped
<1>4. /\ Paired(dict', dicts', Pushed(dict, s, i))
      /\ Loses(dict, dict', i) /\ Loses(dicts, dicts', i)
  BY <1>1, <1>3, PairRemove
<1>5. Mapped' BY <1>3, <1>4 DEF Mapped
<1>6. /\ DOMAIN records = Used(dict)
      /\ \A j \in Used(dict) : records[j] = Entry(dict.nodes[j].key, dicts.nodes[j].key,
                                                  dict.nodes[j].value)
  BY <1>1, <1>2, RecordsAre, RecOf DEF Rec
<1>7. records' = [j \in DOMAIN records \ {i} |-> records[j]]
  <2>1. records' = [j \in Used(dict) \ {i} |->
                      Entry(dict'.nodes[j].key, dicts'.nodes[j].key, dict'.nodes[j].value)]
    BY <1>2, <1>4, RecordsAre DEF Rec, Loses
  <2>2. \A j \in Used(dict) \ {i} :
          Entry(dict'.nodes[j].key, dicts'.nodes[j].key, dict'.nodes[j].value) = records[j]
    BY <1>2, <1>4, <1>6 DEF Loses
  <2> QED BY <1>6, <2>1, <2>2
<1> QED BY <1>5, <1>6, <1>7 DEF Map!Remove

LEMMA FoundIn ==
  ASSUME Mapped
  PROVE  /\ \A k \in Key : Find(dict, k) # None => Find(dict, k) \in Used(dict)
         /\ \A l \in Key1 : Find(dicts, l) # None => Find(dicts, l) \in Used(dict)
<1>1. PICK s : Paired(dict, dicts, s) BY DEF Mapped
<1>2. Used(dict) = Used(dicts) BY <1>1, SameUsed
<1>3. Fit(dict, Key, Value, s) /\ Fit(dicts, Key1, Index, s) BY <1>1 DEF Paired
<1>4. ASSUME NEW k \in Key, Find(dict, k) # None PROVE Find(dict, k) \in Used(dict)
  BY <1>3, <1>4, DictConsts, FindFit
<1>5. ASSUME NEW l \in Key1, Find(dicts, l) # None PROVE Find(dicts, l) \in Used(dict)
  BY <1>2, <1>3, <1>5, DictConsts, FindFit
<1> QED BY <1>4, <1>5

\* A record with another key or value.
WithKey(r, i, k) == [r EXCEPT ![i].key = k]
WithKey1(r, i, l) == [r EXCEPT ![i].key1 = l]
WithValue(r, i, v) == [r EXCEPT ![i].value = v]

LEMMA Rewritten ==
  ASSUME NEW d, NEW e, NEW s, Paired(d, e, s), NEW i \in Used(d)
  PROVE  /\ \A f, k : Writes(d, f, i, k, d.nodes[i].value) =>
              Rec(f, e) = WithKey(Rec(d, e), i, k)
         /\ \A f, l : Writes(e, f, i, l, e.nodes[i].value) =>
              Rec(d, f) = WithKey1(Rec(d, e), i, l)
         /\ \A f, v : Writes(d, f, i, d.nodes[i].key, v) =>
              Rec(f, e) = WithValue(Rec(d, e), i, v)
<1> DEFINE V == Used(d)
           r == [j \in V |-> Entry(d.nodes[j].key, e.nodes[j].key, d.nodes[j].value)]
<1>1. Used(e) = V BY SameUsed
<1>2. Rec(d, e) = r BY <1>1 DEF Rec
<1>3. ASSUME NEW f, NEW k, Writes(d, f, i, k, d.nodes[i].value)
      PROVE  Rec(f, e) = WithKey(r, i, k)
  <2>1. Used(f) = V /\ f.nodes[i].key = k /\ f.nodes[i].value = d.nodes[i].value
        /\ \A j \in V \ {i} : f.nodes[j].key = d.nodes[j].key /\ f.nodes[j].value = d.nodes[j].value
    BY <1>3 DEF Writes
  <2>2. Rec(f, e) = [j \in V |-> Entry(f.nodes[j].key, e.nodes[j].key, f.nodes[j].value)]
    BY <1>1, <2>1 DEF Rec
  <2> QED BY <2>1, <2>2 DEF Entry, WithKey
<1>4. ASSUME NEW f, NEW l, Writes(e, f, i, l, e.nodes[i].value)
      PROVE  Rec(d, f) = WithKey1(r, i, l)
  <2>1. Used(f) = V /\ f.nodes[i].key = l
        /\ \A j \in V \ {i} : f.nodes[j].key = e.nodes[j].key
    BY <1>1, <1>4 DEF Writes
  <2>2. Rec(d, f) = [j \in V |-> Entry(d.nodes[j].key, f.nodes[j].key, d.nodes[j].value)]
    BY <2>1 DEF Rec
  <2> QED BY <2>1, <2>2 DEF Entry, WithKey1
<1>5. ASSUME NEW f, NEW v, Writes(d, f, i, d.nodes[i].key, v)
      PROVE  Rec(f, e) = WithValue(r, i, v)
  <2>1. Used(f) = V /\ f.nodes[i].key = d.nodes[i].key /\ f.nodes[i].value = v
        /\ \A j \in V \ {i} : f.nodes[j].key = d.nodes[j].key /\ f.nodes[j].value = d.nodes[j].value
    BY <1>5 DEF Writes
  <2>2. Rec(f, e) = [j \in V |-> Entry(f.nodes[j].key, e.nodes[j].key, f.nodes[j].value)]
    BY <1>1, <2>1 DEF Rec
  <2> QED BY <2>1, <2>2 DEF Entry, WithValue
<1> QED BY <1>2, <1>3, <1>4, <1>5

LEMMA UpdateStep ==
  ASSUME Mapped, NEW k \in Key, NEW new \in Key, Update(k, new)
  PROVE  Mapped' /\ Map!Change
<1>1. PICK s : Paired(dict, dicts, s) BY DEF Mapped
<1>2. PICK i : i = Find(dict, k) OBVIOUS
<1>3. /\ i # None /\ Find(dict, new) = None
      /\ dict' = UpdateAt(dict, i, new) /\ dicts' = dicts /\ broken' = broken
  BY <1>2 DEF Update
<1>4. /\ Paired(dict', dicts', s) /\ Writes(dict, dict', i, new, dict.nodes[i].value)
      /\ \A j \in Used(dict) : dict.nodes[j].key # new
  BY <1>1, <1>2, <1>3, PairUpdate
<1>5. Mapped' BY <1>3, <1>4 DEF Mapped
<1>6. i \in Used(dict) BY <1>4 DEF Writes
<1>7. records' = [records EXCEPT ![i].key = new]
  <2>1. records' = WithKey(records, i, new) BY <1>1, <1>3, <1>4, <1>6, Rewritten, RecordsAre
  <2> QED BY <2>1 DEF WithKey
<1>8. new \in Key \ Map!Keys /\ i \in DOMAIN records
  BY <1>1, <1>4, <1>6, RecOf, RecordsAre DEF Map!Keys
<1> QED BY <1>5, <1>7, <1>8 DEF Map!Change

LEMMA UpdateStep1 ==
  ASSUME Mapped, NEW l \in Key1, NEW new \in Key1, Update1(l, new)
  PROVE  Mapped' /\ Map!Change
<1>1. PICK s : Paired(dict, dicts, s) BY DEF Mapped
<1>2. PICK i : i = Find(dicts, l) OBVIOUS
<1>3. /\ i # None /\ Find(dicts, new) = None
      /\ dicts' = UpdateAt(dicts, i, new) /\ dict' = dict /\ broken' = broken
  BY <1>2 DEF Update1
<1>4. /\ Paired(dict', dicts', s) /\ Writes(dicts, dicts', i, new, dicts.nodes[i].value)
      /\ \A j \in Used(dicts) : dicts.nodes[j].key # new
  BY <1>1, <1>2, <1>3, PairUpdate1
<1>5. Mapped' BY <1>3, <1>4 DEF Mapped
<1>6. Used(dict) = Used(dicts) BY <1>1, SameUsed
<1>7. i \in Used(dict) BY <1>4, <1>6 DEF Writes
<1>8. records' = [records EXCEPT ![i].key1 = new]
  <2>1. records' = WithKey1(records, i, new) BY <1>1, <1>3, <1>4, <1>7, Rewritten, RecordsAre
  <2> QED BY <2>1 DEF WithKey1
<1>9. new \in Key1 \ Map!Keys1 /\ i \in DOMAIN records
  BY <1>1, <1>4, <1>6, <1>7, RecOf, RecordsAre DEF Map!Keys1
<1> QED BY <1>5, <1>8, <1>9 DEF Map!Change

LEMMA SetStep ==
  ASSUME Mapped, NEW l \in Key1, NEW v \in Value, SetValue(l, v)
  PROVE  Mapped' /\ Map!Change
<1>1. PICK s : Paired(dict, dicts, s) BY DEF Mapped
<1>2. PICK i : i = Find(dicts, l) OBVIOUS
<1>3. i # None /\ i \in Used(dict) BY <1>2, FoundIn DEF SetValue
<1>4. /\ dict' = [dict EXCEPT !.nodes[i].value = v] /\ dicts' = dicts
      /\ broken' = broken
  BY <1>2, <1>3 DEF SetValue, Asserted, Mapped
<1>5. Paired(dict', dicts', s) /\ Writes(dict, dict', i, dict.nodes[i].key, v)
  BY <1>1, <1>3, <1>4, PairSet
<1>6. Mapped' BY <1>4, <1>5 DEF Mapped
<1>7. records' = [records EXCEPT ![i].value = v]
  <2>1. records' = WithValue(records, i, v) BY <1>1, <1>3, <1>4, <1>5, Rewritten, RecordsAre
  <2> QED BY <2>1 DEF WithValue
<1>8. i \in DOMAIN records BY <1>1, <1>3, RecOf, RecordsAre
<1> QED BY <1>6, <1>7, <1>8 DEF Map!Change

LEMMA NoRecords ==
  ASSUME NEW d, NEW e, Used(d) = {}
  PROVE  Rec(d, e) = <<>>
BY DEF Rec

LEMMA ClearAllStep ==
  ASSUME Sized, Mapped, ClearAll
  PROVE  Mapped' /\ Map!Clear
<1>1. PICK s : Paired(dict, dicts, s) BY DEF Mapped
<1>2. /\ Fit(dict, Key, Value, s) /\ Fit(dicts, Key1, Index, s)
      /\ dict.bucketsLen = dicts.bucketsLen
  BY <1>1 DEF Paired
<1>3. dict' = ClearDict(dict) /\ dicts' = ClearDict(dicts) /\ broken' = broken
  BY DEF ClearAll
<1>4. /\ EmptyDict(dict') /\ dict'.bucketsLen = dict.bucketsLen
      /\ EmptyDict(dicts') /\ dicts'.bucketsLen = dicts.bucketsLen
  BY <1>2, <1>3, FitBasics, ClearEmpty
<1>5. Paired(dict', dicts', NoneFree) /\ Used(dict') = {} BY <1>2, <1>4, PairEmpty DEF Sized
<1>6. records' = <<>> BY <1>5, NoRecords, RecordsAre
<1> QED BY <1>3, <1>5, <1>6 DEF Mapped, Map!Clear

LEMMA ReserveBothStep ==
  ASSUME Sized, Mapped, NEW n \in 1..MaxReserve, ReserveBoth(n),
         broken' # "reserve"
  PROVE  Mapped' /\ records' = records
<1>1. PICK s : Paired(dict, dicts, s) BY DEF Mapped
<1>2. /\ n > dict.bucketsLen /\ ~(dict.freeCount > 0)
      /\ dict' = ReserveDict(dict, n) /\ dicts' = ReserveDict(dicts, n) /\ broken' = broken
  BY DEF ReserveBoth, Mapped
<1>3. dict.freeCount = 0
  <2>1. dict.freeCount \in Nat BY <1>1, FitBasics DEF Paired
  <2> QED BY <1>2, <2>1
<1>4. /\ Paired(dict', dicts', s) /\ Used(dict') = Used(dict)
      /\ \A j \in Used(dict) : /\ dict'.nodes[j].key = dict.nodes[j].key
                               /\ dict'.nodes[j].value = dict.nodes[j].value
                               /\ dicts'.nodes[j].key = dicts.nodes[j].key
  BY <1>1, <1>2, <1>3, PairReserve
<1>5. Used(dict) = Used(dicts) /\ Used(dict') = Used(dicts') BY <1>1, <1>4, SameUsed
<1>6. records' = records BY <1>4, <1>5, RecordsAre DEF Rec
<1> QED BY <1>2, <1>4, <1>6 DEF Mapped

LEMMA MappedStep ==
  ASSUME Sized, Mapped, [DictNext]_dictVars
  PROVE  DictInv' /\ ([Map!Next]_records \/ broken' = "reserve")
<1> USE DEF DictInv
<1>1. CASE UNCHANGED dictVars
  <2>1. dict' = dict /\ dicts' = dicts /\ broken' = broken BY <1>1 DEF dictVars
  <2>2. records' = records BY <2>1, RecordsAre
  <2> QED BY <2>1, <2>2 DEF Mapped
<1>2. ASSUME NEW k \in Key, NEW l \in Key1, NEW v \in Value, AddRecord(k, l, v)
      PROVE  DictInv' /\ [Map!Next]_records
  <2>1. CASE Find(dicts, l) = None BY <1>2, <2>1, AddStep DEF Map!Next
  <2>2. CASE Find(dicts, l) # None BY <1>2, <2>2, RollbackStep
  <2> QED BY <2>1, <2>2
<1>3. ASSUME NEW i \in Used(dict), RemoveRecord(i) PROVE DictInv' /\ [Map!Next]_records
  BY <1>3, RemoveStep DEF Map!Next
<1>4. ASSUME NEW k \in Key, Remove(k) PROVE DictInv' /\ [Map!Next]_records
  <2>1. Find(dict, k) \in Used(dict) /\ RemoveRecord(Find(dict, k))
    BY <1>4, FoundIn DEF Remove, RemoveRecord
  <2> QED BY <1>3, <2>1
<1>5. ASSUME NEW l \in Key1, Remove1(l) PROVE DictInv' /\ [Map!Next]_records
  <2>1. Find(dicts, l) \in Used(dict) /\ RemoveRecord(Find(dicts, l))
    BY <1>5, FoundIn DEF Remove1, RemoveRecord
  <2> QED BY <1>3, <2>1
<1>6. ASSUME NEW k \in Key, NEW new \in Key, Update(k, new) PROVE DictInv' /\ [Map!Next]_records
  BY <1>6, UpdateStep DEF Map!Next
<1>7. ASSUME NEW l \in Key1, NEW new \in Key1, Update1(l, new)
      PROVE  DictInv' /\ [Map!Next]_records
  BY <1>7, UpdateStep1 DEF Map!Next
<1>8. ASSUME NEW l \in Key1, NEW v \in Value, SetValue(l, v) PROVE DictInv' /\ [Map!Next]_records
  BY <1>8, SetStep DEF Map!Next
<1>9. ASSUME ClearAll PROVE DictInv' /\ [Map!Next]_records BY <1>9, ClearAllStep DEF Map!Next
<1>10. ASSUME NEW n \in 1..MaxReserve, ReserveBoth(n)
       PROVE  DictInv' /\ ([Map!Next]_records \/ broken' = "reserve")
  <2>1. CASE broken' = "reserve" BY <2>1
  <2>2. CASE broken' # "reserve" BY <1>10, <2>2, ReserveBothStep
  <2> QED BY <2>1, <2>2
<1> QED BY <1>1, <1>2, <1>4, <1>5, <1>6, <1>7, <1>8, <1>9, <1>10 DEF DictNext

LEMMA DictStep ==
  ASSUME Sized, DictInv, [DictNext]_dictVars
  PROVE  DictInv' /\ [Map!Next \/ broken' = "reserve"]_records
<1>1. CASE Mapped BY <1>1, MappedStep
<1>2. CASE broken \in {"rollback", "reserve"}
  <2>1. dict' = dict /\ dicts' = dicts /\ broken' = broken BY <1>2 DEF DictNext, dictVars
  <2>2. records' = records BY <2>1, RecordsAre
  <2> QED BY <1>2, <2>1, <2>2 DEF DictInv
<1> QED BY <1>1, <1>2 DEF DictInv

LEMMA DictStart ==
  ASSUME Sized, DictInit
  PROVE  DictInv /\ Map!Init
<1>1. dict = NewDict(1) /\ dicts = NewDict(1) /\ broken = "none" BY DEF DictInit
<1>2. EmptyDict(dict) /\ EmptyDict(dicts) /\ dict.bucketsLen = dicts.bucketsLen BY <1>1, NewEmpty
<1>3. Paired(dict, dicts, NoneFree) /\ Used(dict) = {} BY <1>2, PairEmpty DEF Sized
<1>4. records = <<>> BY <1>3, NoRecords, RecordsAre
<1> QED BY <1>1, <1>3, <1>4 DEF DictInv, Mapped, Map!Init

LEMMA DictInvIs == DictInv => SameIndices
<1>1. CASE Mapped
  <2>1. PICK s : Paired(dict, dicts, s) BY <1>1 DEF Mapped
  <2>2. Fit(dict, Key, Value, s) /\ Fit(dicts, Key1, Index, s) /\ broken = "none"
    BY <1>1, <2>1 DEF Paired, Mapped
  <2>3. Used(dict) = Used(dicts) BY <2>1, SameUsed
  <2>4. Finds(dict, Key) /\ Finds(dicts, Key1) BY <2>2, DictConsts, FitFinds
  <2>5. DictTypeOK BY <2>2 DEF Fit, DictTypeOK
  <2> QED BY <2>2, <2>3, <2>4, <2>5 DEF SameIndices
<1>2. CASE broken \in {"rollback", "reserve"} BY <1>2 DEF SameIndices
<1> QED BY <1>1, <1>2 DEF DictInv

-----------------------------------------------------------------------------
(* The theorems. *)

\* The two dictionaries of DictMK have the same indices, and each finds by its
\* chains just what it has, after any additions, removals, changes of keys and
\* growth, as long as the table of primes goes (line 8 of xx_dict_mk.h): until a
\* call adds a second key that is in use or reserves with free nodes.
THEOREM IndicesMatch == ASSUME Sized PROVE DictSpec => []SameIndices
<1>1. DictInit => DictInv BY DictStart
<1>2. DictInv /\ [DictNext]_dictVars => DictInv' BY DictStep
<1>3. DictInv => SameIndices BY DictInvIs
<1> QED BY <1>1, <1>2, <1>3, PTL DEF DictSpec

\* It is a map with two keys, either of which identifies a record, and no record
\* moves to another index; an Add that fails leaves the map as it was.
THEOREM TwoKeyed == ASSUME Sized PROVE DictSpec => IsMap
<1>1. DictInit => DictInv /\ Map!Init BY DictStart
<1>2. DictInv /\ [DictNext]_dictVars => DictInv' /\ [Map!Next \/ broken' = "reserve"]_records
  BY DictStep
<1> QED BY <1>1, <1>2, PTL DEF DictSpec, IsMap
=============================================================================
