------------------------------ MODULE TcpPeer ------------------------------
(***************************************************************************)
(* PeerTcpBaseCode (xx_asio_tcp_base.h): one TCP peer driven by the        *)
(* single-threaded io_context.  A Start spawns a Read and a Write          *)
(* coroutine; Stop closes the socket and aborts whatever they wait for;    *)
(* a client peer may Connect and Start again.                              *)
(*                                                                         *)
(* A coroutine that is suspended is either an operation in "pend" (the     *)
(* kernel or the timer owns it) or a completion in "ready", the FIFO of    *)
(* handlers of the io_context; one that has returned is in neither.  The   *)
(* number gen tells the coroutines of successive Starts apart; sent and    *)
(* wire are histories: what Send accepted and what the socket took, per    *)
(* generation.                                                             *)
(***************************************************************************)
EXTENDS Naturals, Sequences

CONSTANTS Msg,                 \* messages
          WriteQueueSizeLimit, \* template parameter writeQueueSizeLimit
          MaxGen,              \* bound: number of Starts
          MaxSend              \* bound: messages accepted per generation

ASSUME TcpAssumption == /\ WriteQueueSizeLimit \in Nat \ {0}
                        /\ MaxGen \in Nat /\ MaxSend \in Nat

VARIABLES stoped, open, writeQueue, gen, pend, ready, sent, wire

vars == <<stoped, open, writeQueue, gen, pend, ready, sent, wire>>

Gen == 1..MaxGen
\* What a coroutine can be suspended on.
Op == [who : {"read", "write", "timer", "connect"}, gen : 0..MaxGen]
Completion == [op : Op, ec : {"ok", "err"}]

Read(g)  == [who |-> "read", gen |-> g]
Write(g) == [who |-> "write", gen |-> g]
Timer(g) == [who |-> "timer", gen |-> g]     \* writeBlocker.async_wait
Dial     == [who |-> "connect", gen |-> 0]
Done(op, ec) == [op |-> op, ec |-> ec]

TypeOK ==
  /\ stoped \in BOOLEAN /\ open \in BOOLEAN
  /\ gen \in 0..MaxGen
  /\ writeQueue \in Seq(Msg)
  /\ pend \in SUBSET Op
  /\ ready \in Seq(Completion)
  /\ sent \in [Gen -> Seq(Msg)] /\ wire \in [Gen -> Seq(Msg)]

\* A client peer has no socket yet; a server peer is given an accepted one.
Init ==
  /\ stoped = TRUE /\ open \in BOOLEAN
  /\ writeQueue = <<>> /\ gen = 0 /\ pend = {} /\ ready = <<>>
  /\ sent = [g \in Gen |-> <<>>] /\ wire = [g \in Gen |-> <<>>]

-----------------------------------------------------------------------------
(* Start and Stop are called inside other handlers: rest is what the ready *)
(* queue holds when they are.                                              *)

\* Connect and the accept handler call Start inside the io_context, where
\* co_spawn runs a coroutine up to its first co_await: the reader asks for
\* bytes, the writer finds the queue empty.
StartWith(rest, queue) ==
  /\ stoped
  /\ stoped' = FALSE /\ writeQueue' = queue /\ gen' = gen + 1 /\ open' = TRUE
  /\ pend' = pend \cup {Read(gen + 1), Timer(gen + 1)} /\ ready' = rest
  /\ UNCHANGED <<sent, wire>>

StartWithoutClear(rest) == StartWith(rest, writeQueue)   \* mutant
Start(rest) == StartWith(rest, <<>>)

\* The ways the aborted waits, two at most, line up behind the handlers at hand.
Orders(S) == {f \in UNION {[1..n -> S] : n \in 0..2} :
                 /\ \A i, j \in DOMAIN f : f[i] = f[j] => i = j
                 /\ S = {f[i] : i \in DOMAIN f}}

StopAborting(rest, aborted) ==
  IF stoped
  THEN ready' = rest /\ UNCHANGED <<stoped, open, pend>>
  ELSE /\ stoped' = TRUE /\ open' = FALSE /\ pend' = pend \ aborted
       /\ \E order \in Orders(aborted) :
             ready' = rest \o [i \in DOMAIN order |-> Done(order[i], "err")]

StopWithoutCancel(rest) == StopAborting(rest, {op \in pend : op.who # "timer"})  \* mutant
StopKeepsReader(rest)   == StopAborting(rest, {op \in pend : op.who # "read"})   \* mutant
StopWithoutClose(rest)  == StopAborting(rest, {op \in pend : op.who = "timer"})  \* mutant
\* socket.close and writeBlocker.cancel abort every wait of the peer.
Stop(rest) == StopAborting(rest, pend)

-----------------------------------------------------------------------------
(* Calls of the user's code.                                               *)

StartAccepted ==
  /\ stoped /\ open /\ gen < MaxGen
  /\ Start(ready)

\* Dial makes one Connect of a peer at a time.
NotDialing == Dial \notin pend /\ \A i \in DOMAIN ready : ready[i].op # Dial

Connect ==
  /\ stoped /\ NotDialing /\ gen < MaxGen
  /\ pend' = pend \cup {Dial} /\ open' = FALSE           \* the old socket is dropped
  /\ UNCHANGED <<stoped, writeQueue, gen, ready, sent, wire>>

NoCancel == UNCHANGED <<pend, ready>>                     \* mutant
\* writeBlocker.cancel_one
CancelOne ==
  \/ \E op \in pend : /\ op.who = "timer"
                      /\ pend' = pend \ {op} /\ ready' = Append(ready, Done(op, "ok"))
  \/ (\A op \in pend : op.who # "timer") /\ UNCHANGED <<pend, ready>>

SendMoving(m, queued) ==
  /\ ~stoped /\ Len(sent[gen]) < MaxSend
  /\ writeQueue' = Append(writeQueue, queued)
  /\ sent' = [sent EXCEPT ![gen] = Append(@, m)]
  /\ CancelOne
  /\ UNCHANGED <<stoped, open, gen, wire>>
SendMovedFrom(m) == SendMoving(m, <<>>)    \* mutant: queues what a move has left of m
Send(m) == SendMoving(m, m)

UserStop ==
  /\ ~stoped
  /\ Stop(ready)
  /\ UNCHANGED <<writeQueue, gen, sent, wire>>

-----------------------------------------------------------------------------
(* The kernel completes an operation.  async_write delivers all of its     *)
(* buffer or fails; what a failed one left on a closed socket is not a     *)
(* whole message and the receiver never sees it as one.                    *)

Complete(op, ec) ==
  /\ pend' = pend \ {op} /\ ready' = Append(ready, Done(op, ec))
  /\ UNCHANGED <<stoped, open, writeQueue, gen, sent>>

KernelRead == \E op \in pend, ec \in {"ok", "err"} :
  op.who = "read" /\ Complete(op, ec) /\ UNCHANGED wire

KernelWrite == \E op \in pend :
  /\ op.who = "write"
  /\ \/ Complete(op, "err") /\ UNCHANGED wire
     \/ /\ Complete(op, "ok")
        /\ wire' = [wire EXCEPT ![op.gen] = Append(@, Head(writeQueue))]

KernelConnect == \E ec \in {"ok", "err"} :
  Dial \in pend /\ Complete(Dial, ec) /\ UNCHANGED wire

-----------------------------------------------------------------------------
(* The io_context runs the next handler: a coroutine goes on to its next   *)
(* co_await or returns.                                                    *)

Running(who, ec) == ready # <<>> /\ Head(ready).op.who = who /\ Head(ready).ec = ec

ConnectResume ==
  /\ ready # <<>> /\ Head(ready).op = Dial
  /\ IF Head(ready).ec = "ok"
     THEN Start(Tail(ready))
     ELSE ready' = Tail(ready)
          /\ UNCHANGED <<stoped, open, writeQueue, gen, pend, sent, wire>>

ReadResume == LET op == Head(ready).op IN
  /\ ready # <<>> /\ op.who = "read"
  /\ UNCHANGED <<writeQueue, gen, sent, wire>>
  /\ \/ Running("read", "err") /\ Stop(Tail(ready))
     \/ /\ Running("read", "ok") /\ stoped
        /\ ready' = Tail(ready) /\ UNCHANGED <<stoped, open, pend>>
     \/ /\ Running("read", "ok") /\ ~stoped      \* HandleData accepts or refuses
        /\ \/ /\ pend' = pend \cup {op} /\ ready' = Tail(ready)
              /\ UNCHANGED <<stoped, open>>
           \/ Stop(Tail(ready))

\* One round of the loop of Write for the queue q, from the size check on.
WriteFront(g, q) ==
  IF Len(q) > WriteQueueSizeLimit
  THEN Stop(Tail(ready))
  ELSE /\ pend' = pend \cup {Write(g)} /\ ready' = Tail(ready)
       /\ UNCHANGED <<stoped, open>>

\* The loop of Write from its head.
WriteLoop(g, q) ==
  IF ~open THEN Stop(Tail(ready))
  ELSE IF q = <<>>
  THEN /\ pend' = pend \cup {Timer(g)} /\ ready' = Tail(ready)
       /\ UNCHANGED <<stoped, open>>
  ELSE WriteFront(g, q)

WriteResume == LET g == Head(ready).op.gen IN
  /\ ready # <<>> /\ Head(ready).op.who \in {"write", "timer"}
  /\ UNCHANGED <<gen, sent, wire>>
  /\ \/ /\ Running("write", "err") /\ Stop(Tail(ready)) /\ UNCHANGED writeQueue
     \/ /\ stoped /\ (Running("timer", "ok") \/ Running("timer", "err") \/ Running("write", "ok"))
        /\ ready' = Tail(ready) /\ UNCHANGED <<stoped, open, pend, writeQueue>>
     \/ /\ ~stoped /\ (Running("timer", "ok") \/ Running("timer", "err"))
        /\ WriteFront(g, writeQueue) /\ UNCHANGED writeQueue
     \/ /\ ~stoped /\ Running("write", "ok")
        /\ writeQueue' = Tail(writeQueue) /\ WriteLoop(g, Tail(writeQueue))

User   == StartAccepted \/ Connect \/ UserStop \/ \E m \in Msg : Send(m)
Kernel == KernelRead \/ KernelWrite \/ KernelConnect
Resume == ConnectResume \/ ReadResume \/ WriteResume
Next   == User \/ Kernel \/ Resume

\* The program keeps polling the io_context; the kernel brings every write
\* to an end (delivered, or failed by its own timeouts).
Spec == Init /\ [][Next]_vars /\ WF_vars(Resume) /\ WF_vars(KernelWrite)

-----------------------------------------------------------------------------
Suspended == pend \cup {ready[i].op : i \in DOMAIN ready}
Readers == {op \in Suspended : op.who = "read"}
Writers == {op \in Suspended : op.who \in {"write", "timer"}}
Signalled(op, ec) == \E i \in DOMAIN ready : ready[i] = Done(op, ec)

\* A stopped peer waits for nothing but the outcome of a Connect, and the
\* handlers that Stop woke are all served before that outcome: a late error
\* of the old socket cannot close the new one.
Quiet ==
  /\ stoped => pend \subseteq {Dial}
  /\ stoped /\ open => pend = {} /\ ready = <<>>
  /\ Dial \in Suspended => stoped /\ gen < MaxGen
  /\ \A i \in DOMAIN ready : ready[i].op = Dial => i = Len(ready) /\ Dial \notin pend

\* While the peer runs it has exactly one Read and one Write coroutine, of
\* the latest Start: those of an earlier connection, woken by Stop, are gone
\* before a Connect can succeed and never meet the flag and the queue of the
\* next connection (stoped is all they test: lines 78 and 95).
OneOfEach ==
  ~stoped => /\ gen \in Gen
             /\ Readers = {Read(gen)} /\ Writers \in {{Write(gen)}, {Timer(gen)}}
             /\ \A i, j \in DOMAIN ready : ready[i].op = ready[j].op => i = j
             /\ \A i \in DOMAIN ready : ready[i].op \notin pend

\* No coroutine of one connection meets another connection.
Apart == Quiet /\ OneOfEach

\* Send's cancel_one is never lost (line 54): the writer sleeps on
\* writeBlocker only when there is nothing to send, and one that was woken
\* finds a message when it reads front() without testing again (line 86).
NoLostWakeup ==
  ~stoped => /\ open /\ ~Signalled(Timer(gen), "err")
             /\ Timer(gen) \in pend => writeQueue = <<>>
             /\ Signalled(Timer(gen), "ok") \/ Write(gen) \in Suspended => writeQueue # <<>>

\* What was sent is on the wire or in the queue, in order and once, the
\* message the socket has just taken but Write has not yet popped aside.
Backlog ==
  /\ ~stoped => sent[gen] = wire[gen] \o IF Signalled(Write(gen), "ok") THEN Tail(writeQueue)
                                                                       ELSE writeQueue
  /\ \A g \in Gen : g > gen => sent[g] = <<>> /\ wire[g] = <<>>

\* After a Stop every coroutine of the peer runs to its end and releases the
\* peer it holds (memHolder), unless a new connection is made.
Drained == stoped ~> Readers \cup Writers = {} \/ ~stoped

\* The peer is a sequence of ordered connections, each of which writes all it
\* accepts while it stays up.
Channel == INSTANCE PeerChannel WITH up <- ~stoped
ImplementsChannel == Channel!Spec
=============================================================================
