-------------------------------- MODULE Fifo --------------------------------
(***************************************************************************)
(* What xx::Queue promises (xx_queue.h): a sequence, filled at one end,    *)
(* taken from at the other, one or several at a time, or its last element  *)
(* taken back.                                                             *)
(***************************************************************************)
EXTENDS Naturals, Sequences

CONSTANT Item

VARIABLE queue

Init == queue = <<>>

Push == \E x \in Item : queue' = Append(queue, x)
PopMulti == \E n \in 1..Len(queue) : queue' = SubSeq(queue, n + 1, Len(queue))
PopLast == queue # <<>> /\ queue' = SubSeq(queue, 1, Len(queue) - 1)

Next == Push \/ PopMulti \/ PopLast

Spec == Init /\ [][Next]_queue
=============================================================================
