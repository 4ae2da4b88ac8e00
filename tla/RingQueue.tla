----------------------------- MODULE RingQueue -----------------------------
(***************************************************************************)
(* Queue (xx_queue.h): a ring buffer that grows.  A slot of buf holds an   *)
(* object or is Raw memory; sound turns FALSE when the code destroys or    *)
(* moves what is no object, or builds one over another.  Types that are    *)
(* trivial have no destructor and are moved by memcpy.                     *)
(***************************************************************************)
EXTENDS Integers, Sequences

CONSTANTS Item, Raw,
          Calls,    \* what is called though Item is not trivial: "popLast", "reserveEmpty"
          MinCap,   \* 8 in the code
          MaxCap    \* bound on the capacity

ASSUME QueueAssumption ==
  /\ Raw \notin Item
  /\ MinCap \in Nat /\ MinCap > 1 /\ MaxCap \in Nat

VARIABLES trivial,  \* is the type of the items trivial?
          buf, cap, head, tail,
          sound,
          ret       \* history: the slot that Emplace has just returned, if any

vars == <<trivial, buf, cap, head, tail, sound, ret>>

Slots == 0..(cap - 1)

TypeOK ==
  /\ trivial \in BOOLEAN
  /\ cap \in Nat /\ cap >= MinCap
  /\ buf \in [Slots -> Item \cup {Raw}]
  /\ head \in Slots /\ tail \in Slots
  /\ sound \in BOOLEAN /\ ret \subseteq Slots

Init ==
  /\ trivial \in BOOLEAN
  /\ cap = MinCap /\ buf = [i \in Slots |-> Raw]
  /\ head = 0 /\ tail = 0
  /\ sound = TRUE /\ ret = {}

-----------------------------------------------------------------------------
Count == IF head <= tail THEN tail - head ELSE tail + (cap - head)

At(idx) == IF head + idx < cap THEN head + idx ELSE head + idx - cap

LastAt == IF tail = 0 THEN cap - 1 ELSE tail - 1

\* ~T of the objects in the slots of S; nothing for a trivial type.
Destroy(S) ==
  /\ buf' = [i \in Slots |-> IF i \in S /\ ~trivial THEN Raw ELSE buf[i]]
  /\ sound' = (sound /\ (trivial \/ \A i \in S : buf[i] # Raw))

\* Reserve a buffer of n slots when the objects of b end at t: those from head
\* on go to its front.  head = t is taken for a full buffer (line 251).
MovedUnlessFull(t) == IF head <= t THEN t - head ELSE cap - head + t   \* mutant
Moved(t) == IF head < t THEN t - head ELSE cap - head + t
Movable(b, t) == trivial \/ \A i \in 0..(Moved(t) - 1) : b[At(i)] # Raw
ReserveTo(b, t, n, dataLen) ==
  /\ buf' = [i \in 0..(n - 1) |-> IF i < Moved(t) THEN b[At(i)] ELSE Raw]
  /\ cap' = n /\ head' = 0 /\ tail' = dataLen
  /\ UNCHANGED trivial

-----------------------------------------------------------------------------
\* A capacity is doubled, and rounded up so that its bytes are a power of two.
GrowReturning(b, t, idx) ==
  \E n \in (2 * cap)..MaxCap : ReserveTo(b, t, n, cap) /\ ret' = {idx}
GrowStaleIndex(b, t) == GrowReturning(b, t, tail)                    \* mutant
Grow(b, t) == GrowReturning(b, t, cap - 1)

EmplaceTo(x, next) ==
  LET b == [buf EXCEPT ![tail] = x]   fresh == trivial \/ buf[tail] = Raw IN
  IF next = head
  THEN Grow(b, next) /\ sound' = (sound /\ fresh /\ Movable(b, next))
  ELSE /\ buf' = b /\ tail' = next /\ ret' = {tail} /\ sound' = (sound /\ fresh)
       /\ UNCHANGED <<trivial, cap, head>>
Emplace(x) == EmplaceTo(x, IF tail + 1 = cap THEN 0 ELSE tail + 1)

\* Pop, and TryPop, which moves the object out first.
PopTo(next) ==
  /\ head # tail
  /\ Destroy({head})
  /\ head' = next
  /\ ret' = {} /\ UNCHANGED <<trivial, cap, tail>>
PopNoCycle == PopTo(head + 1)                                        \* mutant
Pop == PopTo(IF head + 1 = cap THEN 0 ELSE head + 1)

\* What is destroyed is the slot behind the last object.
PopLast ==
  /\ (trivial \/ "popLast" \in Calls) /\ head # tail
  /\ Destroy({tail})
  /\ tail' = LastAt
  /\ ret' = {} /\ UNCHANGED <<trivial, cap, head>>

ClearOf(S) ==
  /\ head # tail
  /\ Destroy(S)
  /\ head' = 0 /\ tail' = 0
  /\ ret' = {} /\ UNCHANGED <<trivial, cap>>
ClearNoCycle == ClearOf(head..(tail - 1))                            \* mutant
Clear == ClearOf(IF head < tail THEN head..(tail - 1) ELSE 0..(tail - 1) \cup head..(cap - 1))

PopSome(count, front) ==
  /\ IF head < tail \/ count < front
     THEN Destroy(head..(head + count - 1)) /\ head' = head + count
     ELSE Destroy(head..(cap - 1) \cup 0..(count - front - 1)) /\ head' = count - front
  /\ ret' = {} /\ UNCHANGED <<trivial, cap, tail>>
PopMulti(count) == IF count >= Count THEN Clear ELSE PopSome(count, cap - head)

Reserve(n) ==
  /\ n > cap /\ (head = tail => trivial \/ "reserveEmpty" \in Calls)
  /\ ReserveTo(buf, tail, n, Count)
  /\ sound' = (sound /\ Movable(buf, tail)) /\ ret' = {}

Next == \/ \E x \in Item : Emplace(x)
        \/ Pop \/ PopLast \/ Clear
        \/ \E n \in 1..MaxCap : PopMulti(n) \/ Reserve(n)

Spec == Init /\ [][Next]_vars

-----------------------------------------------------------------------------
\* Objects live in the slots between head and tail and nowhere else, however
\* these have gone round the buffer, and none is built, moved or destroyed twice.
\* (It is so for types with a destructor only as long as nobody calls PopLast, or
\* Reserve on an empty queue, for them.)
InUse(i) == IF head <= tail THEN head <= i /\ i < tail ELSE head <= i \/ i < tail
Lifetimes == trivial \/ (sound /\ \A i \in Slots : buf[i] # Raw <=> InUse(i))

\* Emplace returns the object it has made, in the new buffer if it had to grow
\* ("[ tail++ ] = T( ps )", line 38; lines 132-141).
ReturnsLast == \A i \in ret : head # tail /\ i = LastAt

\* The ring is a sequence: its Count objects, read with At, are those that were
\* pushed and not yet popped, in order.
queue == [i \in 1..Count |-> buf[At(i - 1)]]
Sequence == INSTANCE Fifo
IsFifo == Sequence!Spec
=============================================================================
