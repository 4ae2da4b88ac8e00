-------------------------------- MODULE Dict --------------------------------
(***************************************************************************)
(* Dict (xx_dict.h): buckets of doubly linked nodes in arrays, with a list *)
(* of free nodes.  Each operation is an operator that gives the dictionary *)
(* it leaves.  nodes and items, which have the same indices, are one array *)
(* here, up to count; prev is Gone in a node that is free.                 *)
(***************************************************************************)
EXTENDS Integers, FiniteSets, FiniteSetsExt

CONSTANT Hash   \* of the keys of all dictionaries

None == -1
Gone == -2

primes2n == {1, 2, 3, 7, 13, 31, 61, 127, 251, 509, 1021, 2039, 4093, 8191, 16381, 32749, 65521,
             131071, 262139, 524287, 1048573, 2097143, 4194301, 8388593, 16777213, 33554393,
             67108859, 134217689, 268435399, 536870909, 1073741789}
GetPrime(capacity) == Min({p \in primes2n : p >= capacity})

NewDict(capacity) ==
  [freeList |-> None, freeCount |-> 0, count |-> 0, bucketsLen |-> GetPrime(capacity),
   buckets |-> [b \in 0..(GetPrime(capacity) - 1) |-> None], nodes |-> <<>>]

BucketOf(h, len) == h % len
Bucket(d, h) == BucketOf(h, d.bucketsLen)
Used(d) == {i \in 0..(d.count - 1) : d.nodes[i].prev # Gone}

\* The chain of a bucket, followed by None.
Chain(d, b) ==
  LET at[n \in 0..d.count] == IF n = 0 THEN d.buckets[b]
                              ELSE IF at[n - 1] = None THEN None ELSE d.nodes[at[n - 1]].next
  IN at

Find(d, k) ==
  LET at == Chain(d, Bucket(d, Hash[k]))
      hits == {n \in DOMAIN at : at[n] # None /\ d.nodes[at[n]].hashCode = Hash[k]
                                              /\ d.nodes[at[n]].key = k}
  IN IF hits = {} THEN None ELSE at[Min(hits)]

\* The nodes that belong to bucket b of len, and those of them before and after node i.
Peers(d, len, b) == {i \in 0..(d.count - 1) : BucketOf(d.nodes[i].hashCode, len) = b}
Below(d, len, i) == {j \in Peers(d, len, BucketOf(d.nodes[i].hashCode, len)) : j < i}
Above(d, len, i) == {j \in Peers(d, len, BucketOf(d.nodes[i].hashCode, len)) : j > i}
LastOf(S) == IF S = {} THEN None ELSE Max(S)
FirstOf(S) == IF S = {} THEN None ELSE Min(S)

\* All nodes go to their new buckets, one after the other, each to the front.
Rehashing(d, len, i) ==
  [d.nodes[i] EXCEPT !.next = LastOf(Below(d, len, i)), !.prev = FirstOf(Above(d, len, i))]
Rehashed(d, len) ==
  [freeList |-> d.freeList, freeCount |-> d.freeCount, count |-> d.count, bucketsLen |-> len,
   buckets |-> [b \in 0..(len - 1) |-> LastOf(Peers(d, len, b))],
   nodes |-> [i \in DOMAIN d.nodes |-> Rehashing(d, len, i)]]
ReserveDict(d, capacity) ==
  IF capacity <= d.bucketsLen THEN d ELSE Rehashed(d, GetPrime(capacity))

\* Node i comes to the front of the bucket of its hash code.
Link(d, i) ==
  LET b == Bucket(d, d.nodes[i].hashCode)
      old == d.buckets[b]
  IN [d EXCEPT !.buckets[b] = i,
        !.nodes = [j \in DOMAIN d.nodes |->
           IF j = i THEN [d.nodes[j] EXCEPT !.next = old, !.prev = None]
           ELSE IF j = old THEN [d.nodes[j] EXCEPT !.prev = i] ELSE d.nodes[j]]]

UnlinkTelling(d, i, p) ==
  LET node == d.nodes[i] IN
  [d EXCEPT !.buckets = IF node.prev < 0
                        THEN [@ EXCEPT ![Bucket(d, node.hashCode)] = node.next] ELSE @,
     !.nodes = [j \in DOMAIN d.nodes |->
        IF j = node.prev THEN [d.nodes[j] EXCEPT !.next = node.next]
        ELSE IF j = node.next THEN [d.nodes[j] EXCEPT !.prev = p] ELSE d.nodes[j]]]
UnlinkOneWay(d, i) == UnlinkTelling(d, i, d.nodes[d.nodes[i].next].prev)   \* mutant
Unlink(d, i) == UnlinkTelling(d, i, d.nodes[i].prev)

\* k is not in d.  The first free node is taken, or the one behind the last, for which
\* the arrays may have to grow.
IndexFor(d) == IF d.freeCount > 0 THEN d.freeList ELSE d.count
Add(d, k, v) ==
  LET i == IndexFor(d)
      e == IF d.freeCount > 0
           THEN [d EXCEPT !.freeList = d.nodes[i].next, !.freeCount = @ - 1]
           ELSE [IF d.count = d.bucketsLen THEN ReserveDict(d, 2 * d.count) ELSE d
                 EXCEPT !.count = @ + 1]
      node == [hashCode |-> Hash[k], next |-> None, key |-> k, value |-> v, prev |-> None]
  IN Link([e EXCEPT !.nodes = [j \in DOMAIN e.nodes \cup {i} |->
                                 IF j = i THEN node ELSE e.nodes[j]]], i)

RemoveAt(d, i) ==
  LET e == Unlink(d, i)
  IN [e EXCEPT !.nodes[i].next = d.freeList, !.nodes[i].prev = Gone,
               !.freeList = i, !.freeCount = @ + 1]

\* k is not in d.
UpdateRehashing(d, i, k, h) ==
  LET e == IF Bucket(d, d.nodes[i].hashCode) = Bucket(d, Hash[k]) THEN d ELSE Unlink(d, i)
      f == [e EXCEPT !.nodes[i].hashCode = h, !.nodes[i].key = k]
  IN IF e = d THEN f ELSE Link(f, i)
UpdateKeyOnly(d, i, k) ==   \* mutant
  UpdateRehashing(d, i, k, IF Bucket(d, d.nodes[i].hashCode) = Bucket(d, Hash[k])
                           THEN d.nodes[i].hashCode ELSE Hash[k])
UpdateAt(d, i, k) == UpdateRehashing(d, i, k, Hash[k])

ClearDict(d) ==
  [d EXCEPT !.buckets = [b \in DOMAIN @ |-> None], !.nodes = <<>>,
            !.freeList = None, !.freeCount = 0, !.count = 0]

-----------------------------------------------------------------------------
\* Each bucket is a list of the used nodes with its hash codes, the same in both
\* directions; the other nodes are those of the free list.
Linked(d) ==
  /\ \A b \in DOMAIN d.buckets :
       LET at == Chain(d, b)
           len == Cardinality({n \in DOMAIN at : at[n] # None})
       IN /\ {at[n] : n \in 0..(len - 1)} = {i \in Used(d) : Bucket(d, d.nodes[i].hashCode) = b}
          /\ \A n \in 0..(len - 1) : d.nodes[at[n]].prev = IF n = 0 THEN None ELSE at[n - 1]
  /\ LET free[n \in 0..d.freeCount] == IF n = 0 THEN d.freeList ELSE d.nodes[free[n - 1]].next
     IN /\ {free[n] : n \in 0..(d.freeCount - 1)} = 0..(d.count - 1) \ Used(d)
        /\ Cardinality(Used(d)) = d.count - d.freeCount
        /\ d.count <= d.bucketsLen
=============================================================================
