---------------------------- MODULE PeerChannel ----------------------------
(***************************************************************************)
(* What a peer of xx_asio promises its user, whatever coroutines, timers   *)
(* and queues it is made of: connections follow one another; the bytes of  *)
(* connection g are the messages accepted while it was up, in that order,  *)
(* none twice and none left out before a later one; nothing is written     *)
(* when it is down; and while it stays up every message is written.        *)
(***************************************************************************)
EXTENDS Naturals, Sequences

CONSTANTS Msg, MaxGen

VARIABLES up, gen, sent, wire

vars == <<up, gen, sent, wire>>

Init ==
  /\ up = FALSE /\ gen = 0
  /\ sent = [g \in 1..MaxGen |-> <<>>] /\ wire = [g \in 1..MaxGen |-> <<>>]

Open   == ~up /\ up' = TRUE /\ gen' = gen + 1 /\ UNCHANGED <<sent, wire>>
Close  == up /\ up' = FALSE /\ UNCHANGED <<gen, sent, wire>>
Accept == /\ up
          /\ \E m \in Msg : sent' = [sent EXCEPT ![gen] = Append(@, m)]
          /\ UNCHANGED <<up, gen, wire>>
Emit   == /\ up /\ Len(wire[gen]) < Len(sent[gen])
          /\ wire' = [wire EXCEPT ![gen] = Append(@, sent[gen][Len(@) + 1])]
          /\ UNCHANGED <<up, gen, sent>>

Next == Open \/ Close \/ Accept \/ Emit

Safety == Init /\ [][Next]_vars
Spec   == Safety /\ WF_vars(Emit)
=============================================================================
