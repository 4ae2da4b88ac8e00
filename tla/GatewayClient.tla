--------------------------- MODULE GatewayClient ---------------------------
(***************************************************************************)
(* The gateway client (xx_asio_gateway_client.h, xx_asio_gateway_helpers.h)*)
(* over a TCP or a KCP peer: Dial with its handshakes and Reset, the open  *)
(* and close commands of the gateway, the packages it sends, and the       *)
(* user's coroutines that wait for them in Pop and WaitOpens.  One thread  *)
(* runs everything; a user's coroutine calls the client between two        *)
(* handlers of the io_context.                                             *)
(*                                                                         *)
(* A suspended call is pending until its timer or operation ends; then it  *)
(* stands in ready, the FIFO of the io_context, and resumes in its turn.   *)
(* TcpPeer shows what the peer itself does: here it is up or down.         *)
(***************************************************************************)
EXTENDS Naturals, Sequences, FiniteSets, SequencesExt

CONSTANTS Server,   \* server ids
          Popper,   \* user's coroutines that call Pop
          Opener,   \* user's coroutines that call WaitOpens
          Dialer,   \* the coroutine that dials (busy in the lua binding)
          Alarm,    \* the handler of the timer of KPeer::Connect
          Wants,    \* bound: the sets of servers that Pop and WaitOpens are called for
          Asked,    \* bound: the ways in which the n-th peer may be dialled
          MaxPeer,  \* bound: number of peers made
          MaxQueue  \* bound: unread packages of one queue

Ways == {"tcp", "encrypted", "kcp"}   \* isTcp, enableTcpEncrypt

ASSUME ClientAssumption ==
  /\ IsFiniteSet(Popper \cup Opener)
  /\ MaxPeer \in Nat /\ MaxQueue \in Nat /\ Asked \in [1..MaxPeer -> SUBSET Ways]
  /\ Wants \subseteq (SUBSET Server) \ {{}}
  /\ Popper \cap Opener = {} /\ Dialer \notin Popper \cup Opener
  /\ Alarm \notin Popper \cup Opener \cup {Dialer}

Co == Popper \cup Opener \cup {Dialer}

VARIABLES
  peer,               \* number of peers made: tpeer or kpeer is the last one
  way,                \* of the last Dial: isTcp and enableTcpEncrypt
  up,                 \* operator bool: the peer is connected and not stoped
  line,               \* its socket: open, closed, or not read any more
  alarm,              \* the KPeer whose Connect set a timer that has not run, or 0
  secret,             \* secret.len > 0
  openServerIds, openWaitServerIds,
  recvObjs,           \* per server: the number of its unread packages
  recvDatas,          \* the number of unread packages of others
  waitingObject,
  call,               \* what each coroutine is suspended in
  ready               \* coroutines and handlers that can run, in order

peers == <<peer, way, up, line, alarm, secret>>
opens == <<openServerIds, openWaitServerIds>>
queues == <<recvObjs, recvDatas>>
vars == <<peers, opens, queues, waitingObject, call, ready>>

Ops == {"none", "pop", "opens", "resolve", "connect", "secret", "bind", "send", "receive"}
\* ids: the servers waited for; gen: the peer at the time of the call; late:
\* the timeout of a WaitOpens has passed, or a wait of Dial ended with an error; seen:
\* all of ids were open at a moment of the wait.
Call == [op : Ops, ids : SUBSET Server, gen : 0..MaxPeer, late : BOOLEAN, seen : BOOLEAN]
Idle == [op |-> "none", ids |-> {}, gen |-> 0, late |-> FALSE, seen |-> FALSE]
NewCall(op, ids, gen) == [Idle EXCEPT !.op = op, !.ids = ids, !.gen = gen]
TypeOK ==
  /\ peer \in 0..MaxPeer /\ way \in Ways /\ up \in BOOLEAN /\ alarm \in 0..MaxPeer
  /\ line \in {"open", "closed", "deaf"} /\ secret \in BOOLEAN
  /\ openServerIds \subseteq Server /\ openWaitServerIds \subseteq Server
  /\ recvObjs \in [Server -> 0..MaxQueue] /\ recvDatas \in 0..MaxQueue
  /\ waitingObject \in BOOLEAN /\ call \in [Co -> Call] /\ ready \in Seq(Co \cup {Alarm})
  /\ \A c \in Co : call[c].op = "none" => \A i \in DOMAIN ready : ready[i] # c

Init ==
  /\ peer = 0 /\ way = "tcp" /\ up = FALSE /\ line = "open" /\ alarm = 0 /\ secret = FALSE
  /\ openServerIds = {} /\ openWaitServerIds = {}
  /\ recvObjs = [s \in Server |-> 0] /\ recvDatas = 0 /\ waitingObject = FALSE
  /\ call = [c \in Co |-> Idle] /\ ready = <<>>

Woken == ToSet(ready)
Waiting(op) == {c \in Co : call[c].op = op} \ Woken
\* timer.cancel(): every wait of the set ends, in some order.
Wake(S) == \E order \in SetToSeqs(S) : ready' = ready \o order

-----------------------------------------------------------------------------
(* The peer and its end. *)

\* Client::Cleanup, by Stop_ of the peer that stops.
CleanupKeeping(S, key) ==
  /\ secret' = key /\ recvDatas' = 0 /\ recvObjs' = [s \in Server |-> 0]
  /\ openServerIds' = {} /\ openWaitServerIds' = {} /\ waitingObject' = FALSE
  /\ Wake(S)
CleanupKeepsSecret == CleanupKeeping(Waiting("opens") \cup Waiting("pop"), secret)  \* mutant
CleanupOpensOnly == CleanupKeeping(Waiting("opens"), FALSE)                         \* mutant
Cleanup == CleanupKeeping(Waiting("opens") \cup Waiting("pop"), FALSE)

\* The network fails, the gateway disconnects or the user stops the peer.
PeerStop ==
  /\ up /\ up' = FALSE
  /\ Cleanup
  /\ UNCHANGED <<peer, way, line, alarm, call>>

\* KPeer::Read ends without Stop when ikcp_input does not accept what it gets.
GoesDeaf ==
  /\ up /\ way = "kcp" /\ line = "open" /\ line' = "deaf"
  /\ UNCHANGED <<peer, way, up, alarm, secret, opens, queues, waitingObject,
                 call, ready>>

\* The lua binding forbids calls of the client while it dials (busy).
NotBusy == call[Dialer].op = "none"

\* Reset: the old peer stops, a new one takes its place.
Replace ==
  /\ NotBusy /\ peer < MaxPeer
  /\ peer' = peer + 1 /\ up' = FALSE
  /\ IF up THEN Cleanup ELSE UNCHANGED <<secret, opens, queues, waitingObject, ready>>
  /\ UNCHANGED <<alarm>>
Reset == Replace /\ UNCHANGED <<way, line, call>>

-----------------------------------------------------------------------------
(* Dial: Reset, resolve the domain, and the waits of Connect of the peer. *)

Dial(w) ==
  /\ Replace /\ w \in Asked[peer + 1]
  /\ way' = w /\ line' = "open"
  /\ call' = [call EXCEPT ![Dialer] = NewCall("resolve", {}, peer + 1)]

Waits == [tcp |-> <<"resolve", "connect">>,
          encrypted |-> <<"resolve", "connect", "secret">>,
          kcp |-> <<"resolve", "bind", "send", "receive">>]
\* One wait of the last Dial after another.
Follows(op, next) ==
  \E n \in 1..(Len(Waits[way]) - 1) : Waits[way][n] = op /\ Waits[way][n + 1] = next
Dialing(op) == op \in UNION {ToSet(Waits[w]) : w \in Ways}

\* A wait ends well or not.  Nothing works with a closed socket.
NetDone == \E failed \in BOOLEAN :
  /\ Dialing(call[Dialer].op) /\ Dialer \notin Woken
  /\ line = "closed" => failed
  /\ call' = [call EXCEPT ![Dialer].late = failed]
  /\ ready' = Append(ready, Dialer)
  /\ UNCHANGED <<peers, opens, queues, waitingObject>>

First == ready # <<>> /\ Head(ready) = Dialer
Failed == call[Dialer].late
IsLast == call[Dialer].op = Last(Waits[way])

\* Dial returns 0.  When the peer has stopped while the secret was written, Cleanup has
\* changed secret.len and line 121 finds the number of bytes wrong.
Succeeds == First /\ ~Failed /\ IsLast /\ (call[Dialer].op = "secret" => secret)

\* The timer of KPeer::Connect is set before its first wait and lasts until its last, but
\* what is in ready is not taken back.
DialResume ==
  LET op == call[Dialer].op
      starts == ~Failed /\ op \in {"connect", "receive"}
  IN
  /\ First /\ ready' = Tail(ready)
  /\ IF Failed \/ IsLast THEN call' = [call EXCEPT ![Dialer] = Idle]
     ELSE \E next \in Ops : /\ Follows(op, next)
                            /\ call' = [call EXCEPT ![Dialer] = [Idle EXCEPT !.op = next]]
  /\ up' = (up \/ starts)
  /\ secret' = IF op = "connect" /\ ~Failed THEN way = "encrypted"
               ELSE secret \/ (op = "bind" /\ ~Failed)
  /\ alarm' = IF way = "kcp" /\ op = "resolve" /\ ~Failed THEN peer
              ELSE IF (Failed \/ IsLast) /\ Alarm \notin Woken THEN 0 ELSE alarm
  /\ UNCHANGED <<peer, way, line, opens, queues, waitingObject>>

AlarmExpires ==
  /\ alarm # 0 /\ Alarm \notin Woken
  /\ ready' = Append(ready, Alarm)
  /\ UNCHANGED <<peers, opens, queues, waitingObject, call>>

\* The timer's handler closes the socket of its peer.  Of a peer that is gone it writes
\* to memory that is free, or that has become the socket of the new one.
AlarmRuns ==
  /\ ready # <<>> /\ Head(ready) = Alarm
  /\ alarm' = 0
  /\ \E closes \in {TRUE, alarm = peer} :
       LET ends == closes /\ Dialing(call[Dialer].op) /\ call[Dialer].op # "resolve"
                          /\ Dialer \notin Woken
       IN /\ line' = IF closes /\ call[Dialer].op # "resolve" THEN "closed" ELSE line
          /\ call' = IF ends THEN [call EXCEPT ![Dialer].late = TRUE] ELSE call
          /\ ready' = Tail(ready) \o (IF ends THEN <<Dialer>> ELSE <<>>)
  /\ UNCHANGED <<peer, way, up, secret, opens, queues, waitingObject>>

-----------------------------------------------------------------------------
(* Packages of the gateway, handled by Read of the peer. *)

\* HandleData, HandleTargetMessage: what is not of cppServerId is kept for lua.  The user
\* may change cppServerId between any two packages, so either may come from any server.
ReceiveData ==
  /\ up /\ line = "open" /\ recvDatas < MaxQueue
  /\ recvDatas' = recvDatas + 1
  /\ UNCHANGED <<peers, opens, recvObjs, waitingObject, call, ready>>

\* ReceiveTargetRequest, ReceiveTargetPush
ReceiveWaking(s, S) ==
  /\ up /\ line = "open" /\ recvObjs[s] < MaxQueue
  /\ recvObjs' = [recvObjs EXCEPT ![s] = @ + 1]
  /\ IF waitingObject THEN waitingObject' = FALSE /\ Wake(S)
                      ELSE UNCHANGED <<waitingObject, ready>>
  /\ UNCHANGED <<peers, opens, recvDatas, call>>
ReceiveSilently(s) == ReceiveWaking(s, {})                       \* mutant: no cancel
ReceiveTarget(s) == ReceiveWaking(s, Waiting("pop"))

\* ReceveCommand "open": CheckOpens empties the list when all are open.
ReceiveOpenLeaving(s, rest) ==
  /\ up /\ line = "open"
  /\ openServerIds' = openServerIds \cup {s}
  /\ call' = [c \in Co |-> [call[c] EXCEPT !.seen =
                 @ \/ (call[c].op = "opens" /\ call[c].ids \subseteq openServerIds')]]
  /\ IF openWaitServerIds # {} /\ openWaitServerIds \subseteq openServerIds'
     THEN openWaitServerIds' = rest /\ Wake(Waiting("opens"))
     ELSE UNCHANGED <<openWaitServerIds, ready>>
  /\ UNCHANGED <<peers, queues, waitingObject>>
ReceiveOpenKeepsList(s) == ReceiveOpenLeaving(s, openWaitServerIds)   \* mutant
ReceiveOpen(s) == ReceiveOpenLeaving(s, {})

\* ReceveCommand "close": without any open server the peer stops.
ReceiveClose(s) ==
  /\ up /\ line = "open"
  /\ IF openServerIds \ {s} = {}
     THEN up' = FALSE /\ Cleanup
     ELSE /\ openServerIds' = openServerIds \ {s}
          /\ UNCHANGED <<up, secret, openWaitServerIds, queues, waitingObject, ready>>
  /\ UNCHANGED <<peer, way, line, alarm, call>>

-----------------------------------------------------------------------------
(* Pop and WaitOpens. *)

\* TryPop: any server of ids that has a package, whatever its type.
Take(ids) == \E s \in ids : recvObjs[s] > 0 /\ recvObjs' = [recvObjs EXCEPT ![s] = @ - 1]
NothingFor(ids) == \A s \in ids : recvObjs[s] = 0

TryPop(ids) ==
  /\ up /\ Take(ids)
  /\ UNCHANGED <<peers, opens, recvDatas, waitingObject, call, ready>>

TryPopData ==
  /\ up /\ recvDatas > 0 /\ recvDatas' = recvDatas - 1
  /\ UNCHANGED <<peers, opens, recvObjs, waitingObject, call, ready>>

\* expires_after ends the waits that the timer has; then the caller waits.
Await(c, op, ids) ==
  /\ call' = [call EXCEPT ![c] = NewCall(op, ids, peer)]
  /\ Wake(Waiting(op))

\* It returns at once, and changes nothing, when the client is down or a Pop
\* already waits; with what TryPop takes when there is something.
Pop(c, ids) ==
  /\ call[c].op = "none" /\ up /\ ~waitingObject
  /\ UNCHANGED <<peers, opens, recvDatas>>
  /\ \/ Take(ids) /\ UNCHANGED <<waitingObject, call, ready>>
     \/ /\ NothingFor(ids) /\ waitingObject' = TRUE
        /\ Await(c, "pop", ids)
        /\ UNCHANGED recvObjs

\* The flag is not touched: whoever woke the caller has cleared it, or not.
PopResume(c) ==
  /\ ready # <<>> /\ Head(ready) = c /\ call[c].op = "pop"
  /\ ready' = Tail(ready) /\ call' = [call EXCEPT ![c] = Idle]
  /\ UNCHANGED <<peers, opens, recvDatas, waitingObject>>
  /\ \/ up /\ Take(call[c].ids)
     \/ (~up \/ NothingFor(call[c].ids)) /\ UNCHANGED recvObjs

\* It returns at once when the client is down, a WaitOpens already waits or all
\* of ids are open.
WaitOpens(c, ids) ==
  /\ call[c].op = "none" /\ up /\ openWaitServerIds = {} /\ ~(ids \subseteq openServerIds)
  /\ openWaitServerIds' = ids
  /\ Await(c, "opens", ids)
  /\ UNCHANGED <<peers, openServerIds, queues, waitingObject>>

\* What WaitOpens returns when it resumes.
OpensResult == up /\ openWaitServerIds = {}

OpensResume(c) ==
  /\ ready # <<>> /\ Head(ready) = c /\ call[c].op = "opens"
  /\ ready' = Tail(ready) /\ call' = [call EXCEPT ![c] = Idle]
  /\ openWaitServerIds' = IF up THEN {} ELSE openWaitServerIds
  /\ UNCHANGED <<peers, openServerIds, queues, waitingObject>>

\* objectWaiter or openWaiter expires.
NoTimeout(op) == FALSE                                  \* mutant: no expires_after
Timeout(op) ==
  /\ Waiting(op) # {}
  /\ call' = [c \in Co |-> [call[c] EXCEPT !.late = @ \/ (op = "opens" /\ c \in Waiting(op))]]
  /\ Wake(Waiting(op))
  /\ UNCHANGED <<peers, opens, queues, waitingObject>>

User == \/ \E c \in Popper, ids \in Wants : Pop(c, ids)
        \/ \E ids \in Wants : TryPop(ids)
        \/ TryPopData
        \/ \E c \in Opener, ids \in Wants : WaitOpens(c, ids)
        \/ Reset \/ \E w \in Ways : Dial(w)
Gateway == \/ PeerStop \/ GoesDeaf \/ ReceiveData
           \/ \E s \in Server : ReceiveTarget(s) \/ ReceiveOpen(s) \/ ReceiveClose(s)
Resume == DialResume \/ AlarmRuns \/ \E c \in Co : PopResume(c) \/ OpensResume(c)
Next == User \/ Gateway \/ Resume \/ NetDone \/ AlarmExpires \/ Timeout("pop") \/ Timeout("opens")

\* Update polls the io_context every frame; waits have timeouts.
Spec == /\ Init /\ [][Next]_vars
        /\ WF_vars(Resume) /\ WF_vars(NetDone) /\ WF_vars(Timeout("pop")) /\ WF_vars(Timeout("opens"))

-----------------------------------------------------------------------------
\* A stopped client has forgotten everything of its connection, and the next
\* connection starts from nothing: no package, no open server, no wait of the
\* old one is left for it (Cleanup, lines 401-411).
CleanWhenDown ==
  ~up => /\ openServerIds = {} /\ openWaitServerIds = {} /\ ~waitingObject
         /\ recvDatas = 0 /\ \A s \in Server : recvObjs[s] = 0

\* A call that was suspended when its connection ended resumes before the next
\* one is up, so that it sees the end: a Pop never takes a package, a WaitOpens
\* never an empty list, of a connection it did not wait for.  What a connection sends
\* and reads is ciphered as its own Dial has agreed, whatever Dials were before it.
OwnConnection ==
  /\ TypeOK /\ CleanWhenDown
  /\ up => (secret <=> way # "tcp")
  /\ \A c \in Popper \cup Opener :
       call[c].op # "none" => IF up THEN call[c].gen = peer ELSE c \in Woken

\* Nobody sleeps in Pop on a package it could take.
PopAwake == \A c \in Waiting("pop") : NothingFor(call[c].ids)

\* While its connection lasts a WaitOpens that resumes returns true exactly when
\* all its servers were open at a moment of its wait, and false only after its
\* timeout (line 62).
OpensAnswer ==
  \A c \in Opener : up /\ ready # <<>> /\ Head(ready) = c =>
    (OpensResult <=> call[c].seen) /\ (OpensResult \/ call[c].late)

\* Dial returns 0 only for a peer that is connected ("成功连上返回 0", line 59), also when
\* the connection ends while the secret is written.
DialTells == [][DialResume /\ Succeeds => up']_vars

\* Every call returns, whatever becomes of the connection.
CallsReturn == \A c \in Co : call[c].op # "none" ~> call[c].op = "none"

\* Not so, and checked by no run.  waitingObject says that a Pop waits ("数据包等待状态",
\* line 45): a Pop that times out leaves it set.
WaitingMeansWaited == waitingObject => \E c \in Popper : call[c].op = "pop"
\* A peer is up only when it reads: it may be closed by its alarm, or deaf.
UpReads == up => line = "open"
\* The timer of a Connect runs only for the peer that set it.
AlarmOwned == alarm \in {0, peer}
\* Dial that fails leaves the client down: not when the secret could not be written.
FailureIsDown == [][DialResume /\ Failed => ~up']_vars
=============================================================================
