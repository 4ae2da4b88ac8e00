---------------------------- MODULE PeerRequest ----------------------------
(***************************************************************************)
(* PeerRequestCode (xx_asio_request.h) and its twin in                     *)
(* TcpKcpRequestTargetCodes (xx_asio_gateway_helpers.h): a coroutine sends *)
(* a request under a serial, waits on a timer kept in reqs under it, and   *)
(* is released by the response or by the timeout.                          *)
(*                                                                         *)
(* A request is known by the number it would have if serials never ended   *)
(* (count); its serial is that number modulo Modulus (0x7FFFFFFF).  Stop   *)
(* loses what is in flight.  The peer lives while the client owns it or    *)
(* its own Read and Write coroutines still hold it.                        *)
(***************************************************************************)
EXTENDS Naturals, Sequences, FiniteSets, SequencesExt

CONSTANTS Co,        \* user's coroutines that send requests
          Modulus,   \* 0x7FFFFFFF in the code
          MaxCount,  \* bound: requests sent
          MaxGen     \* bound: connections

ASSUME RequestAssumption ==
  IsFiniteSet(Co) /\ Modulus \in Nat \ {0} /\ MaxCount \in Nat /\ MaxGen \in Nat

VARIABLES
  stoped, gen,     \* the connection
  owned, held,     \* by the client, by the coroutines of the peer
  count,           \* requests sent so far; reqAutoId is count % Modulus
  reqs,            \* serial -> [data, expired]: data is 0 or an answered request
  flying,          \* requests and responses on the connection
  call,            \* per coroutine: 0, or the request it waits for
  ready,           \* <<coroutine, cancelled>>: coroutines that can resume
  ret              \* history: the last call that returned

vars == <<stoped, gen, owned, held, count, reqs, flying, call, ready, ret>>

Count == 1..MaxCount
Serial == 0..(Modulus - 1)
SerialOfOneBit(n) == n % 2                    \* mutant: serials come back too soon
SerialOf(n) == n % Modulus
Entry == [data : 0..MaxCount, expired : BOOLEAN]
\* The wire carries serial -s for the request s, s for its response, and 0
\* for a push: a request of serial 0 reaches the server as a push.
Packet == [kind : {"request", "push", "response"}, serial : Serial, of : Count]

TypeOK ==
  /\ stoped \in BOOLEAN /\ gen \in 0..MaxGen /\ owned \in BOOLEAN /\ held \in BOOLEAN
  /\ count \in 0..MaxCount
  /\ DOMAIN reqs \subseteq Serial /\ \A s \in DOMAIN reqs : reqs[s] \in Entry
  /\ flying \subseteq Packet
  /\ call \in [Co -> 0..MaxCount]
  /\ ready \in Seq(Co \X BOOLEAN)
  /\ \A i, j \in DOMAIN ready : ready[i][1] = ready[j][1] => i = j
  /\ \A i \in DOMAIN ready : call[ready[i][1]] # 0

Init ==
  /\ stoped = TRUE /\ gen = 0 /\ owned = TRUE /\ held = FALSE
  /\ count = 0 /\ reqs = <<>> /\ flying = {}
  /\ call = [c \in Co |-> 0] /\ ready = <<>>
  /\ ret = [of |-> 0, answer |-> 0, stoped |-> FALSE, late |-> FALSE]

Alive == owned \/ held
Resumable == {ready[i][1] : i \in DOMAIN ready}
\* The coroutines suspended on the timer of an entry.
WaitingAgain(S) == {c \in Co : call[c] # 0 /\ SerialOf(call[c]) \in S}  \* mutant: ends twice
Waiting(S) == {c \in Co \ Resumable : call[c] # 0 /\ SerialOf(call[c]) \in S}
Wake(S, cancelled) ==
  \E order \in SetToSeqs(S) : ready' = ready \o [i \in DOMAIN order |-> <<order[i], cancelled>>]

-----------------------------------------------------------------------------
(* The peer: see TcpPeer. *)

Start ==
  /\ stoped /\ owned /\ ~held /\ gen < MaxGen
  /\ stoped' = FALSE /\ gen' = gen + 1 /\ held' = TRUE
  /\ UNCHANGED <<owned, count, reqs, flying, call, ready, ret>>

\* Stop leaves reqs and its timers alone.
Stop ==
  /\ ~stoped
  /\ stoped' = TRUE /\ flying' = {}
  /\ UNCHANGED <<gen, owned, held, count, reqs, call, ready, ret>>

\* Read and Write end; if nobody owns the peer it goes, with its timers.
CoroutinesEnd ==
  /\ stoped /\ held /\ held' = FALSE
  /\ IF owned THEN UNCHANGED <<reqs, ready>>
              ELSE reqs' = <<>> /\ Wake(Waiting(DOMAIN reqs), TRUE)
  /\ UNCHANGED <<stoped, gen, owned, count, flying, call, ret>>

\* Client::Reset: tpeer->Stop(); tpeer.Reset()
Drop ==
  /\ owned /\ owned' = FALSE /\ stoped' = TRUE /\ flying' = {}
  /\ IF held THEN UNCHANGED <<reqs, ready>>
             ELSE reqs' = <<>> /\ Wake(Waiting(DOMAIN reqs), TRUE)
  /\ UNCHANGED <<gen, held, count, call, ret>>

-----------------------------------------------------------------------------
(* Requests. *)

\* When the serial is in use emplace does nothing and the callers share the
\* entry; a timer that has already expired releases the new one at once.
SendRequest(c) == LET s == SerialOf(count + 1) IN
  /\ ~stoped /\ owned /\ call[c] = 0 /\ count < MaxCount
  /\ count' = count + 1
  /\ call' = [call EXCEPT ![c] = count + 1]
  /\ reqs' = [x \in DOMAIN reqs \cup {s} |->
                IF x \in DOMAIN reqs THEN reqs[x] ELSE [data |-> 0, expired |-> FALSE]]
  /\ flying' = flying \cup {[kind |-> IF s = 0 THEN "push" ELSE "request", serial |-> s, of |-> count + 1]}
  /\ ready' = IF reqs'[s].expired THEN Append(ready, <<c, FALSE>>) ELSE ready
  /\ UNCHANGED <<stoped, gen, owned, held, ret>>

\* The server answers a request, in its own time, or never.
ServerAnswers == \E p \in flying :
  /\ p.kind = "request"
  /\ flying' = (flying \ {p}) \cup {[p EXCEPT !.kind = "response"]}
  /\ UNCHANGED <<stoped, gen, owned, held, count, reqs, call, ready, ret>>

\* HandleMessage, HandleData: a response nobody waits for is dropped.
HandleWaking(all) == \E p \in flying :
  /\ p.kind = "response" /\ ~stoped
  /\ flying' = flying \ {p}
  /\ IF p.serial \in DOMAIN reqs
     THEN /\ reqs' = [reqs EXCEPT ![p.serial].data = p.of]
          /\ Wake(Waiting(IF all THEN DOMAIN reqs ELSE {p.serial}), TRUE)
     ELSE UNCHANGED <<reqs, ready>>
  /\ UNCHANGED <<stoped, gen, owned, held, count, call, ret>>
HandleWakesAll == HandleWaking(TRUE)                 \* mutant: wakes every caller
HandleMessage == HandleWaking(FALSE)

NoTimeout == FALSE                                                   \* mutant
Timeout == \E s \in DOMAIN reqs :
  /\ ~reqs[s].expired
  /\ reqs' = [reqs EXCEPT ![s].expired = TRUE]
  /\ Wake(Waiting({s}), FALSE)
  /\ UNCHANGED <<stoped, gen, owned, held, count, flying, call, ret>>

\* The end of SendRequest: on a stopped peer the entry stays in reqs.  On a
\* peer that is gone (~Alive) the code reads freed memory; the model lets it
\* read the stopped peer that was there, and PeerOutlivesCalls is about it.
ResumeErasing(answered) == LET c == Head(ready)[1]   cancelled == Head(ready)[2]   s == SerialOf(call[c]) IN
  /\ ready # <<>>
  /\ ready' = Tail(ready) /\ call' = [call EXCEPT ![c] = 0]
  /\ IF stoped \/ s \notin DOMAIN reqs
     THEN /\ ret' = [of |-> call[c], answer |-> 0, stoped |-> stoped, late |-> ~cancelled]
          /\ UNCHANGED reqs
     ELSE /\ ret' = [of |-> call[c], answer |-> reqs[s].data, stoped |-> FALSE, late |-> ~cancelled]
          /\ reqs' = [x \in DOMAIN reqs \ (IF reqs[s].data = 0 /\ answered THEN {} ELSE {s}) |-> reqs[x]]
  /\ UNCHANGED <<stoped, gen, owned, held, count, flying>>
ResumeKeepsLate == ResumeErasing(TRUE)             \* mutant: erases answered requests only
Resume == ResumeErasing(FALSE)

Next == \/ Start \/ Stop \/ CoroutinesEnd \/ Drop
        \/ \E c \in Co : SendRequest(c)
        \/ ServerAnswers \/ HandleMessage \/ Timeout \/ Resume

\* The io_context is polled; every timer expires in the end.
Spec == Init /\ [][Next]_vars /\ WF_vars(Resume) /\ WF_vars(Timeout)

-----------------------------------------------------------------------------
\* A call returns the response to its own request, or nothing, though late
\* responses arrive under serials whose callers have long gone.
\* Nothing is returned only after the timeout of the call or when the peer stopped.
AnswerIsMine ==
  /\ ret.answer \in {0, ret.of}
  /\ ret.of # 0 /\ ret.answer = 0 => ret.late \/ ret.stoped

\* While a peer has only had one connection reqs holds just the requests that
\* are waited for: none is forgotten in it, and every waiting call has one.
NoLeak ==
  gen = 1 /\ ~stoped =>
    /\ DOMAIN reqs = {SerialOf(call[c]) : c \in {x \in Co : call[x] # 0}}
    /\ \A c, d \in Co : call[c] # 0 /\ c # d => call[c] # call[d]

\* Every call returns.
CallsReturn == \A c \in Co : call[c] # 0 ~> call[c] = 0

\* Not so, and checked by no run: a call that is suspended in a peer finds it when it
\* resumes.  Reset drops the peer under the call.
PeerOutlivesCalls == (\E c \in Co : call[c] # 0) => Alive
=============================================================================
