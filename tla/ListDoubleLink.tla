--------------------------- MODULE ListDoubleLink ---------------------------
(***************************************************************************)
(* ListDoubleLink (xx_listdoublelink.h): a list in an array of nodes.      *)
(* Nodes that were removed form a free list through next; a node is known  *)
(* outside by its index and version.  The operators give the list that an  *)
(* operation leaves; the destructors that it runs are the caller's.        *)
(***************************************************************************)
EXTENDS Integers, Sequences, FiniteSets, Functions

CONSTANT VersionMod   \* versions have 32 or 64 bits

ASSUME VersionAssumption == VersionMod \in Nat /\ VersionMod > 1

None == -1
Nobody == [index |-> None, version |-> 0]
Blank == [next |-> None, prev |-> None, version |-> 0, value |-> 0]

NewList(n) ==
  [buf |-> [i \in 0..(n - 1) |-> Blank], cap |-> n, len |-> 0, head |-> None, tail |-> None,
   freeHead |-> None, freeCount |-> 0, version |-> 0]

Reserve(l, n) ==
  IF n <= l.cap THEN l
  ELSE [l EXCEPT !.cap = n,
                 !.buf = [i \in 0..(n - 1) |-> IF i < l.cap THEN l.buf[i] ELSE Blank]]

-----------------------------------------------------------------------------
\* A node for x becomes the last; v is its version.
AddVersioned(l, x, v) ==
  LET reuse == l.freeCount > 0
      m   == IF reuse \/ l.len < l.cap THEN l ELSE Reserve(l, IF l.cap = 0 THEN 8 ELSE l.cap * 2)
      idx == IF reuse THEN l.freeHead ELSE l.len
      old == IF l.tail = None THEN m.buf ELSE [m.buf EXCEPT ![l.tail].next = idx]
  IN [m EXCEPT !.buf = [old EXCEPT ![idx] =
                          [next |-> None, prev |-> l.tail, version |-> v, value |-> x]],
               !.tail = idx,
               !.head = IF l.tail = None THEN idx ELSE @,
               !.freeHead = IF reuse THEN l.buf[idx].next ELSE @,
               !.freeCount = IF reuse THEN @ - 1 ELSE @,
               !.len = IF reuse THEN @ ELSE @ + 1,
               !.version = v]
AddUnversioned(l, x) == AddVersioned(l, x, 1)                        \* mutant
AddCore(l, x) == AddVersioned(l, x, (l.version + 1) % VersionMod)

TailOf(l) == [index |-> l.tail, version |-> l.buf[l.tail].version]

ExistsByIndex(l, iv) == iv.index \in 0..(l.len - 1)                  \* mutant
Exists(l, iv) == iv.index \in 0..(l.len - 1) /\ l.buf[iv.index].version = iv.version

\* Unlink node idx and put it at the front of the free list; back is what the node
\* behind it is linked back to.
Unlink(l, idx, back) ==
  LET node == l.buf[idx] IN
  [l EXCEPT
    !.buf = [i \in DOMAIN l.buf |->
               IF i = idx THEN [node EXCEPT !.next = l.freeHead, !.prev = None, !.version = 0]
               ELSE [l.buf[i] EXCEPT !.next = IF i = node.prev THEN node.next ELSE @,
                                     !.prev = IF i = node.next THEN back ELSE @]],
    !.head = IF idx = l.head THEN node.next ELSE @,
    !.tail = IF idx = l.tail THEN node.prev ELSE @,
    !.freeHead = idx, !.freeCount = @ + 1]
RemoveOneWay(l, idx) == Unlink(l, idx, idx)                          \* mutant
RemoveNode(l, idx) == Unlink(l, idx, l.buf[idx].prev)

\* The nodes keep their contents; their versions are not used again.
Clear(l) == [l EXCEPT !.head = None, !.tail = None, !.freeHead = None, !.freeCount = 0, !.len = 0]

Count(l) == l.len - l.freeCount

-----------------------------------------------------------------------------
\* n nodes from i on, along a field of the nodes.
Chain(l, i, field, n) ==
  LET at[k \in 1..n] == IF k = 1 THEN i
                        ELSE IF at[k - 1] \in DOMAIN l.buf THEN l.buf[at[k - 1]][field] ELSE None
  IN [k \in 1..n |-> at[k]]

Order(l) == Chain(l, l.head, "next", Count(l))

\* The list is the same read from both ends, and each node in use is either in it
\* or in the free list.
Linked(l) ==
  LET free == Chain(l, l.freeHead, "next", l.freeCount) IN
  /\ Chain(l, l.tail, "prev", Count(l)) = [k \in 1..Count(l) |-> Order(l)[Count(l) + 1 - k]]
  /\ Range(Order(l)) \cup Range(free) = 0..(l.len - 1)
  /\ Range(Order(l)) \cap Range(free) = {}
  /\ Cardinality(Range(Order(l))) = Count(l)
  /\ Count(l) = 0 => l.head = None /\ l.tail = None
=============================================================================
