--------------------------- MODULE TcpPeer_proofs ---------------------------
(* Proofs that the invariants of TcpPeer hold, and that it implements the   *)
(* safety part of PeerChannel, for all messages, limits and bounds.         *)
EXTENDS TcpPeer, SequenceTheorems, TLAPS

Inv == TypeOK /\ Quiet /\ OneOfEach /\ NoLostWakeup /\ Backlog

LEMMA Consts == WriteQueueSizeLimit \in Nat \ {0} /\ MaxGen \in Nat /\ MaxSend \in Nat
  BY TcpAssumption DEF TcpAssumption

\* What a handler finds when it runs: the rest of the ready queue.
LEMMA Rest ==
  ASSUME NEW S, NEW s \in Seq(S), s # <<>>
  PROVE  /\ Len(s) \in Nat \ {0} /\ DOMAIN s = 1..Len(s)
         /\ Head(s) = s[1] /\ Head(s) \in S
         /\ Tail(s) \in Seq(S) /\ DOMAIN Tail(s) = 1..(Len(s) - 1) /\ Len(Tail(s)) = Len(s) - 1
         /\ \A i \in 1..(Len(s) - 1) : Tail(s)[i] = s[i + 1]
  BY HeadTailProperties, LenProperties, EmptySeq

LEMMA Added ==
  ASSUME NEW S, NEW s \in Seq(S), NEW e \in S
  PROVE  /\ Append(s, e) \in Seq(S) /\ DOMAIN s = 1..Len(s) /\ Len(s) \in Nat
         /\ DOMAIN Append(s, e) = 1..(Len(s) + 1) /\ Len(Append(s, e)) = Len(s) + 1
         /\ \A i \in 1..Len(s) : Append(s, e)[i] = s[i]
         /\ Append(s, e)[Len(s) + 1] = e
  BY LenProperties

LEMMA InitInv == Init => Inv
  BY Consts, EmptySeq DEF Init, Inv, TypeOK, Quiet, OneOfEach, NoLostWakeup, Backlog, Suspended, Gen

\* Stop leaves a stopped peer nobody will wake but the handlers lined up
\* behind rest, none of which is the outcome of a Connect.
LEMMA StopTypes ==
  ASSUME NEW STATE rest, rest \in Seq(Completion), ~stoped, TypeOK, Dial \notin pend,
         \A i \in DOMAIN rest : rest[i].op # Dial,
         Stop(rest)
  PROVE  /\ stoped' = TRUE /\ open' = FALSE /\ pend' = {} /\ ready' \in Seq(Completion)
         /\ \A i \in DOMAIN ready' : ready'[i].op # Dial
<1>1. stoped' = TRUE /\ open' = FALSE /\ pend' = {}
  BY DEF Stop, StopAborting
<1>2. PICK order \in Orders(pend) :
         ready' = rest \o [i \in DOMAIN order |-> Done(order[i], "err")]
  BY DEF Stop, StopAborting
<1> DEFINE errs == [i \in DOMAIN order |-> Done(order[i], "err")]
<1>3. errs \in Seq(Completion) /\ \A i \in DOMAIN errs : errs[i].op # Dial
  <2>1. PICK n \in Nat : order \in [1..n -> pend]
    <3>1. order \in UNION {[1..n -> pend] : n \in 0..2} BY <1>2 DEF Orders
    <3>2. PICK n \in 0..2 : order \in [1..n -> pend] BY <3>1
    <3> QED BY <3>2
  <2>2. errs \in [1..n -> Completion]
    BY <2>1 DEF Done, Completion, TypeOK, errs
  <2>3. \A i \in 1..n : errs[i].op = order[i] /\ order[i] # Dial
    BY <2>1 DEF Done, errs
  <2>4. errs \in Seq(Completion) /\ DOMAIN errs = 1..n
    BY <2>1, <2>2, SeqDef
  <2> QED BY <2>3, <2>4
<1>4. /\ ready' = rest \o errs /\ ready' \in Seq(Completion)
      /\ Len(ready') = Len(rest) + Len(errs)
      /\ DOMAIN ready' = 1..Len(ready')
      /\ \A i \in 1..Len(ready') : ready'[i] = IF i <= Len(rest) THEN rest[i] ELSE errs[i - Len(rest)]
  <2> HIDE DEF errs
  <2>1. ready' = rest \o errs BY <1>2 DEF errs
  <2>2. rest \o errs \in Seq(Completion) /\ Len(rest \o errs) = Len(rest) + Len(errs)
        /\ \A i \in 1..(Len(rest) + Len(errs)) : (rest \o errs)[i] = IF i <= Len(rest) THEN rest[i] ELSE errs[i - Len(rest)]
    BY <1>3, ConcatProperties
  <2> QED BY <2>1, <2>2, LenProperties
<1>5. \A i \in DOMAIN ready' : ready'[i].op # Dial
  <2> HIDE DEF errs
  <2>1. SUFFICES ASSUME NEW i \in 1..Len(ready') PROVE ready'[i].op # Dial
    BY <1>4
  <2>2. DOMAIN rest = 1..Len(rest) /\ Len(rest) \in Nat /\ DOMAIN errs = 1..Len(errs) /\ Len(errs) \in Nat
    BY <1>3, LenProperties
  <2>3. CASE i <= Len(rest) BY <1>4, <2>2, <2>3
  <2>4. CASE i > Len(rest)
    <3>1. i - Len(rest) \in DOMAIN errs BY <1>4, <2>2, <2>4
    <3>2. ready'[i] = errs[i - Len(rest)] BY <1>4, <2>2, <2>4
    <3> QED BY <3>1, <3>2, <1>3
  <2> QED BY <2>2, <2>3, <2>4
<1> QED BY <1>1, <1>4, <1>5

\* While the peer runs no outcome of a Connect is under way.
LEMMA NoDial ==
  ASSUME Quiet, ~stoped
  PROVE  Dial \notin pend /\ \A i \in DOMAIN ready : ready[i].op # Dial
BY DEF Quiet, Suspended

\* Whoever calls Stop, the invariants hold after it.
LEMMA StopInv ==
  ASSUME Inv, ~stoped, NEW STATE rest, rest \in Seq(Completion),
         \A i \in DOMAIN rest : rest[i].op # Dial,
         Stop(rest), UNCHANGED <<gen, sent, wire>>, writeQueue' \in Seq(Msg)
  PROVE  Inv'
<1>1. /\ stoped' = TRUE /\ open' = FALSE /\ pend' = {} /\ ready' \in Seq(Completion)
      /\ \A i \in DOMAIN ready' : ready'[i].op # Dial
  BY StopTypes, NoDial DEF Inv
<1>2. TypeOK' BY <1>1 DEF Inv, TypeOK
<1>3. Quiet' BY <1>1 DEF Quiet, Suspended
<1> QED BY <1>1, <1>2, <1>3 DEF Inv, OneOfEach, NoLostWakeup, Backlog

\* A wait that ends moves from pend to the end of the ready queue.
LEMMA Woken ==
  ASSUME Inv, NEW op \in pend, NEW ec \in {"ok", "err"},
         pend' = pend \ {op}, ready' = Append(ready, Done(op, ec)),
         UNCHANGED <<stoped, open, gen>>
  PROVE  /\ pend' \in SUBSET Op /\ ready' \in Seq(Completion)
         /\ Quiet' /\ OneOfEach' /\ Suspended' = Suspended
         /\ \A o, e : Signalled(o, e)' <=> Signalled(o, e) \/ (o = op /\ e = ec)
<1> DEFINE d == Done(op, ec)
<1>1. op \in Op /\ d \in Completion /\ d.op = op /\ d.ec = ec /\ pend \subseteq Op
  BY DEF Inv, TypeOK, Done, Completion
<1> HIDE DEF d
<1>2. /\ ready' \in Seq(Completion) /\ DOMAIN ready = 1..Len(ready) /\ Len(ready) \in Nat
      /\ DOMAIN ready' = 1..(Len(ready) + 1) /\ Len(ready') = Len(ready) + 1
      /\ \A i \in 1..Len(ready) : ready'[i] = ready[i]
      /\ ready'[Len(ready) + 1] = d
  BY <1>1, Added DEF Inv, TypeOK, d
<1>3. Suspended' = Suspended
  BY <1>1, <1>2 DEF Suspended
<1>4. \A o, e : Signalled(o, e)' <=> Signalled(o, e) \/ (o = op /\ e = ec)
  <2>1. \A o, e : Done(o, e) = d <=> o = op /\ e = ec BY DEF Done, d
  <2> QED BY <1>2, <2>1 DEF Signalled
<1>5. OneOfEach'
  <2>1. SUFFICES ASSUME ~stoped PROVE OneOfEach' BY DEF OneOfEach
  <2>2. Readers' = Readers /\ Writers' = Writers BY <1>3 DEF Readers, Writers
  <2>3. \A i \in DOMAIN ready : ready[i].op # op BY <2>1 DEF Inv, OneOfEach
  <2>4. \A i, j \in DOMAIN ready' : ready'[i].op = ready'[j].op => i = j
    BY <2>1, <2>3, <1>1, <1>2 DEF Inv, OneOfEach
  <2>5. \A i \in DOMAIN ready' : ready'[i].op \notin pend'
    BY <2>1, <1>1, <1>2 DEF Inv, OneOfEach
  <2> QED BY <2>1, <2>2, <2>4, <2>5 DEF Inv, OneOfEach, Read, Write, Timer
<1>6. Quiet'
  <2>1. \A i \in DOMAIN ready' : ready'[i].op = Dial => i = Len(ready') /\ Dial \notin pend'
    <3>1. SUFFICES ASSUME NEW i \in 1..(Len(ready) + 1), ready'[i].op = Dial
                   PROVE  i = Len(ready') /\ Dial \notin pend'
      BY <1>2
    <3>2. CASE i <= Len(ready)
      <4>1. ready[i].op = Dial /\ i \in DOMAIN ready BY <1>2, <3>1, <3>2
      <4>2. stoped /\ Dial \notin pend BY <4>1 DEF Inv, Quiet, Suspended
      <4> QED BY <4>2 DEF Inv, Quiet
    <3>3. CASE i = Len(ready) + 1
      BY <1>1, <1>2, <3>1, <3>3
    <3> QED BY <1>2, <3>2, <3>3
  <2> QED BY <1>3, <2>1 DEF Inv, Quiet
<1> QED BY <1>1, <1>2, <1>3, <1>4, <1>5, <1>6

\* A coroutine that runs and waits again moves from the head of the ready
\* queue to pend.
LEMMA Again ==
  ASSUME Inv, ~stoped, ready # <<>>,
         NEW STATE op, op \in Op, op.gen = gen,
         \/ Head(ready).op.who = "read" /\ op.who = "read"
         \/ Head(ready).op.who \in {"write", "timer"} /\ op.who \in {"write", "timer"},
         pend' = pend \cup {op}, ready' = Tail(ready),
         UNCHANGED <<stoped, gen>>
  PROVE  /\ pend' \in SUBSET Op /\ ready' \in Seq(Completion)
         /\ Quiet' /\ OneOfEach'
         /\ \A o, e : Signalled(o, e)' <=> o # Head(ready).op /\ Signalled(o, e)
         /\ Suspended' = (Suspended \ {Head(ready).op}) \cup {op}
<1> DEFINE h == Head(ready)
<1>1. /\ Len(ready) \in Nat \ {0} /\ DOMAIN ready = 1..Len(ready)
      /\ h = ready[1] /\ h \in Completion
      /\ ready' \in Seq(Completion) /\ DOMAIN ready' = 1..(Len(ready) - 1) /\ Len(ready') = Len(ready) - 1
      /\ \A i \in 1..(Len(ready) - 1) : ready'[i] = ready[i + 1]
  BY Rest DEF Inv, TypeOK
<1> HIDE DEF h
<1>2. /\ Readers = {Read(gen)} /\ Writers \in {{Write(gen)}, {Timer(gen)}}
      /\ \A i, j \in DOMAIN ready : ready[i].op = ready[j].op => i = j
      /\ \A i \in DOMAIN ready : ready[i].op \notin pend
  BY DEF Inv, OneOfEach
<1>3. Suspended' = (Suspended \ {h.op}) \cup {op}
  <2>1. \A i \in 1..(Len(ready) - 1) : ready'[i].op # h.op
    BY <1>1, <1>2
  <2>2. {ready'[i].op : i \in DOMAIN ready'} = {ready[i].op : i \in DOMAIN ready} \ {h.op}
    <3>1. \A i \in DOMAIN ready : i # 1 => i - 1 \in DOMAIN ready' /\ ready[i] = ready'[i - 1]
      BY <1>1
    <3>2. \A i \in DOMAIN ready' : i + 1 \in DOMAIN ready /\ ready'[i] = ready[i + 1]
      BY <1>1
    <3>3. \A o \in {ready'[i].op : i \in DOMAIN ready'} : o \in {ready[i].op : i \in DOMAIN ready} \ {h.op}
      BY <3>2, <2>1, <1>1
    <3>4. \A o \in {ready[i].op : i \in DOMAIN ready} \ {h.op} : o \in {ready'[i].op : i \in DOMAIN ready'}
      <4>1. SUFFICES ASSUME NEW i \in DOMAIN ready, ready[i].op # h.op
                     PROVE  ready[i].op \in {ready'[j].op : j \in DOMAIN ready'}
        OBVIOUS
      <4>2. i # 1 BY <4>1, <1>1
      <4> QED BY <4>2, <3>1
    <3> QED BY <3>3, <3>4
  <2>3. h.op \notin pend BY <1>1, <1>2
  <2> QED BY <2>2, <2>3 DEF Suspended
<1>4. h.op \in Suspended BY <1>1 DEF Suspended
<1>5. \A i \in DOMAIN ready' : ready'[i].op \in Suspended /\ ready'[i].op # h.op /\ ready'[i].op \notin pend
  BY <1>1, <1>2 DEF Suspended
<1>6. Readers' = Readers /\ Writers' \in {{Write(gen)}, {Timer(gen)}} /\ op \notin {ready'[i].op : i \in DOMAIN ready'}
  <2>1. CASE h.op.who = "read" /\ op.who = "read"
    <3>1. h.op = Read(gen) BY <1>2, <1>4, <2>1 DEF Readers
    <3>2. op = Read(gen) BY <2>1 DEF Op, Read
    <3> QED BY <3>1, <3>2, <1>3, <1>5, <1>2, <1>4 DEF Readers, Writers
  <2>2. CASE h.op.who \in {"write", "timer"} /\ op.who \in {"write", "timer"}
    <3>1. h.op \in {Write(gen), Timer(gen)} /\ Writers = {h.op} BY <1>2, <1>4, <2>2 DEF Writers
    <3>2. op \in {Write(gen), Timer(gen)} BY <2>2 DEF Op, Write, Timer
    <3>3. Writers' = {op} BY <3>1, <3>2, <1>3, <1>2, <1>4, <2>2 DEF Writers
    <3>4. Readers' = Readers BY <1>3, <2>2 DEF Readers
    <3>5. \A i \in DOMAIN ready' : ready'[i].op.who \notin {"write", "timer"}
      BY <3>1, <1>5 DEF Writers
    <3> QED BY <3>2, <3>3, <3>4, <3>5, <2>2
  <2> QED BY <2>1, <2>2 DEF h
<1>7. OneOfEach'
  <2>1. \A i, j \in DOMAIN ready' : ready'[i].op = ready'[j].op => i = j
    <3>1. SUFFICES ASSUME NEW i \in DOMAIN ready', NEW j \in DOMAIN ready', ready'[i].op = ready'[j].op
                   PROVE i = j
      OBVIOUS
    <3>2. i + 1 \in DOMAIN ready /\ j + 1 \in DOMAIN ready /\ i \in Nat /\ j \in Nat
          /\ ready'[i] = ready[i + 1] /\ ready'[j] = ready[j + 1] BY <1>1
    <3>3. i + 1 = j + 1 BY <3>1, <3>2, <1>2
    <3> QED BY <3>2, <3>3
  <2>2. \A i \in DOMAIN ready' : ready'[i].op \notin pend' BY <1>5, <1>6
  <2>3. gen \in Gen BY DEF Inv, OneOfEach
  <2>4. Readers' = {Read(gen')} /\ Writers' \in {{Write(gen')}, {Timer(gen')}}
    BY <1>6, <1>2
  <2> QED BY <2>1, <2>2, <2>3, <2>4 DEF OneOfEach, Gen
<1>8. Dial \notin Suspended /\ op # Dial BY DEF Inv, Quiet, Dial
<1>9. Dial \notin Suspended' BY <1>3, <1>8
<1>10. Quiet' BY <1>9 DEF Quiet, Suspended
<1>11. \A o, e : Signalled(o, e)' <=> o # h.op /\ Signalled(o, e)
  <2>1. SUFFICES ASSUME NEW o, NEW e PROVE Signalled(o, e)' <=> o # h.op /\ Signalled(o, e)
    OBVIOUS
  <2>2. Done(o, e).op = o BY DEF Done
  <2>3. ASSUME Signalled(o, e)' PROVE o # h.op /\ Signalled(o, e)
    <3>1. PICK i \in DOMAIN ready' : ready'[i] = Done(o, e) BY <2>3 DEF Signalled
    <3>2. i + 1 \in DOMAIN ready /\ ready[i + 1] = Done(o, e) BY <3>1, <1>1
    <3> QED BY <3>1, <3>2, <2>2, <1>5 DEF Signalled
  <2>4. ASSUME o # h.op, Signalled(o, e) PROVE Signalled(o, e)'
    <3>1. PICK i \in DOMAIN ready : ready[i] = Done(o, e) BY <2>4 DEF Signalled
    <3>2. i # 1 BY <3>1, <2>2, <2>4, <1>1
    <3>3. i - 1 \in DOMAIN ready' /\ ready'[i - 1] = Done(o, e) BY <3>1, <3>2, <1>1
    <3> QED BY <3>3 DEF Signalled
  <2> QED BY <2>3, <2>4
<1>13. pend' \in SUBSET Op BY DEF Inv, TypeOK
<1> QED BY <1>1, <1>3, <1>7, <1>10, <1>11, <1>13 DEF h

\* A handler of a stopped peer, the outcome of a Connect aside, just ends.
LEMMA Ends ==
  ASSUME Inv, stoped, ready # <<>>, ready' = Tail(ready),
         UNCHANGED <<stoped, open, writeQueue, gen, pend, sent, wire>>
  PROVE  Inv'
<1>1. /\ Len(ready) \in Nat \ {0} /\ DOMAIN ready = 1..Len(ready)
      /\ ready' \in Seq(Completion) /\ DOMAIN ready' = 1..(Len(ready) - 1) /\ Len(ready') = Len(ready) - 1
      /\ \A i \in 1..(Len(ready) - 1) : ready'[i] = ready[i + 1]
  BY Rest DEF Inv, TypeOK
<1>2. TypeOK' BY <1>1 DEF Inv, TypeOK
<1>3. \A i \in DOMAIN ready' : i + 1 \in DOMAIN ready /\ ready'[i] = ready[i + 1]
  BY <1>1
<1>4. Suspended' \subseteq Suspended
  BY <1>3 DEF Suspended
<1>5. \A i \in DOMAIN ready' : ready'[i].op = Dial => i = Len(ready') /\ Dial \notin pend'
  <2>1. SUFFICES ASSUME NEW i \in DOMAIN ready', ready'[i].op = Dial
                 PROVE  i = Len(ready') /\ Dial \notin pend'
    OBVIOUS
  <2>2. i + 1 = Len(ready) /\ Dial \notin pend BY <1>3, <2>1 DEF Inv, Quiet
  <2> QED BY <2>1, <2>2, <1>1
<1>6. Quiet' BY <1>4, <1>5 DEF Inv, Quiet
<1> QED BY <1>2, <1>6 DEF Inv, OneOfEach, NoLostWakeup, Backlog

\* Start brings up one reader and one writer, on an empty queue.
LEMMA StartInv ==
  ASSUME Inv, NEW STATE rest, Start(rest), rest = <<>>, pend = {}, gen < MaxGen
  PROVE  Inv'
<1>1. /\ stoped' = FALSE /\ writeQueue' = <<>> /\ gen' = gen + 1 /\ open' = TRUE
      /\ pend' = {Read(gen + 1), Timer(gen + 1)} /\ ready' = <<>> /\ UNCHANGED <<sent, wire>>
  BY DEF Start, StartWith
<1>2. gen + 1 \in Gen /\ gen + 1 \in 0..MaxGen
  BY Consts DEF Inv, TypeOK, Gen
<1>3. TypeOK'
  <2>1. pend' \in SUBSET Op BY <1>1, <1>2 DEF Op, Read, Timer
  <2>2. writeQueue' \in Seq(Msg) /\ ready' \in Seq(Completion) BY <1>1, EmptySeq
  <2> QED BY <1>1, <1>2, <2>1, <2>2 DEF Inv, TypeOK
<1>4. DOMAIN ready' = {} BY <1>1, EmptySeq
<1>5. Suspended' = {Read(gen'), Timer(gen')} BY <1>1, <1>4 DEF Suspended
<1>6. Quiet' BY <1>1, <1>4, <1>5 DEF Quiet, Dial, Read, Timer
<1>7. OneOfEach' BY <1>1, <1>2, <1>4, <1>5 DEF OneOfEach, Readers, Writers, Read, Timer, Write
<1>8. NoLostWakeup'
  BY <1>1, <1>4, <1>5 DEF NoLostWakeup, Signalled, Read, Timer, Write
<1>9. Backlog'
  <2>1. gen + 1 \in Gen /\ gen + 1 > gen /\ gen \in Nat BY <1>2 DEF Inv, TypeOK
  <2>2. sent[gen + 1] = <<>> /\ wire[gen + 1] = <<>> BY <2>1 DEF Inv, Backlog
  <2>3. ~Signalled(Write(gen), "ok")' BY <1>4 DEF Signalled
  <2>4. \A g \in Gen : g > gen' => sent'[g] = <<>> /\ wire'[g] = <<>>
    BY <1>1, <2>1 DEF Inv, Backlog, Gen
  <2>5. <<>> = <<>> \o <<>> BY ConcatEmptySeq, EmptySeq
  <2> QED BY <1>1, <2>2, <2>3, <2>4, <2>5 DEF Backlog
<1> QED BY <1>3, <1>6, <1>7, <1>8, <1>9 DEF Inv

-----------------------------------------------------------------------------
(* One lemma per action. *)

LEMMA ConnectInv == ASSUME Inv, Connect PROVE Inv'
<1> USE DEF Connect
<1>1. Dial \in Op BY Consts DEF Dial, Op
<1>2. TypeOK' BY <1>1 DEF Inv, TypeOK
<1>3. Quiet' BY DEF Inv, Quiet, Suspended, NotDialing
<1> QED BY <1>2, <1>3 DEF Inv, OneOfEach, NoLostWakeup, Backlog

LEMMA UserStopInv == ASSUME Inv, UserStop PROVE Inv'
<1>1. ~stoped /\ Stop(ready) /\ UNCHANGED <<writeQueue, gen, sent, wire>> BY DEF UserStop
<1>2. ready \in Seq(Completion) /\ writeQueue' \in Seq(Msg) BY <1>1 DEF Inv, TypeOK
<1>3. \A i \in DOMAIN ready : ready[i].op # Dial BY <1>1, NoDial DEF Inv
<1> QED BY <1>1, <1>2, <1>3, StopInv

LEMMA ConnectResumeInv == ASSUME Inv, ConnectResume PROVE Inv'
<1>1. ready # <<>> /\ Head(ready).op = Dial BY DEF ConnectResume
<1>2. /\ Len(ready) \in Nat \ {0} /\ DOMAIN ready = 1..Len(ready) /\ Head(ready) = ready[1]
      /\ Tail(ready) \in Seq(Completion) /\ Len(Tail(ready)) = Len(ready) - 1
  BY <1>1, Rest DEF Inv, TypeOK
<1>3. 1 \in DOMAIN ready /\ ready[1].op = Dial BY <1>1, <1>2
<1>4. Len(ready) = 1 /\ Dial \notin pend BY <1>3 DEF Inv, Quiet
<1>5. Tail(ready) = <<>>
  <2>1. Len(Tail(ready)) = 0 BY <1>2, <1>4
  <2>2. Tail(ready) # <<>> => Len(Tail(ready)) \in Nat \ {0} BY <1>2, EmptySeq
  <2> QED BY <2>1, <2>2
<1>6. stoped /\ gen < MaxGen BY <1>3 DEF Inv, Quiet, Suspended
<1>7. pend = {} BY <1>4, <1>6 DEF Inv, Quiet
<1>8. CASE Head(ready).ec = "ok"
  BY <1>5, <1>6, <1>7, <1>8, StartInv DEF ConnectResume
<1>9. CASE Head(ready).ec # "ok"
  BY <1>1, <1>6, <1>9, Ends DEF ConnectResume
<1> QED BY <1>8, <1>9

LEMMA StartAcceptedInv == ASSUME Inv, StartAccepted PROVE Inv'
<1>1. pend = {} /\ ready = <<>> /\ gen < MaxGen /\ Start(ready) BY DEF StartAccepted, Inv, Quiet
<1> QED BY <1>1, StartInv

\* The three completions share all but the history of the wire.
LEMMA CompleteInv ==
  ASSUME Inv, NEW op \in pend, NEW ec \in {"ok", "err"}, op.who # "timer", Complete(op, ec),
         wire' \in [Gen -> Seq(Msg)],
         ~stoped => sent[gen] = wire'[gen] \o IF Signalled(Write(gen), "ok")' THEN Tail(writeQueue)
                                                                               ELSE writeQueue,
         \A g \in Gen : g > gen => wire'[g] = wire[g]
  PROVE  Inv'
<1>1. /\ pend' = pend \ {op} /\ ready' = Append(ready, Done(op, ec))
      /\ UNCHANGED <<stoped, open, writeQueue, gen, sent>>
  BY DEF Complete
<1>2. /\ pend' \in SUBSET Op /\ ready' \in Seq(Completion)
      /\ Quiet' /\ OneOfEach' /\ Suspended' = Suspended
      /\ \A o, e : Signalled(o, e)' <=> Signalled(o, e) \/ (o = op /\ e = ec)
  BY <1>1, Woken
<1>3. TypeOK' BY <1>1, <1>2 DEF Inv, TypeOK
<1>4. op # Timer(gen) BY DEF Timer
<1>5. NoLostWakeup' BY <1>1, <1>2, <1>4 DEF Inv, NoLostWakeup, Timer
<1>6. Backlog' BY <1>1 DEF Inv, Backlog
<1> QED BY <1>2, <1>3, <1>5, <1>6 DEF Inv

LEMMA KernelReadInv == ASSUME Inv, KernelRead PROVE Inv'
<1>1. PICK op \in pend, ec \in {"ok", "err"} : op.who = "read" /\ Complete(op, ec) /\ UNCHANGED wire
  BY DEF KernelRead
<1>2. \A o, e : Signalled(o, e)' <=> Signalled(o, e) \/ (o = op /\ e = ec)
  BY <1>1, Woken DEF Complete
<1>3. UNCHANGED gen /\ (Signalled(Write(gen), "ok")' <=> Signalled(Write(gen), "ok"))
  BY <1>1, <1>2 DEF Write, Complete
<1>4. wire' \in [Gen -> Seq(Msg)] BY <1>1 DEF Inv, TypeOK
<1>5. ~stoped => sent[gen] = wire'[gen] \o IF Signalled(Write(gen), "ok")' THEN Tail(writeQueue)
                                                                           ELSE writeQueue
  BY <1>1, <1>3 DEF Inv, Backlog
<1> QED BY <1>1, <1>4, <1>5, CompleteInv

LEMMA KernelConnectInv == ASSUME Inv, KernelConnect PROVE Inv'
<1>1. PICK ec \in {"ok", "err"} : Dial \in pend /\ Complete(Dial, ec) /\ UNCHANGED wire
  BY DEF KernelConnect
<1>2. stoped BY <1>1 DEF Inv, Quiet, Suspended
<1>3. wire' \in [Gen -> Seq(Msg)] /\ Dial.who # "timer" BY <1>1 DEF Inv, TypeOK, Dial
<1> QED BY <1>1, <1>2, <1>3, CompleteInv

\* What the socket takes is the front of the queue, so the wire grows by the
\* message the queue loses.
LEMMA KernelWriteInv == ASSUME Inv, KernelWrite PROVE Inv'
<1>1. PICK op \in pend : /\ op.who = "write"
                         /\ \/ Complete(op, "err") /\ UNCHANGED wire
                            \/ /\ Complete(op, "ok")
                               /\ wire' = [wire EXCEPT ![op.gen] = Append(@, Head(writeQueue))]
  BY DEF KernelWrite
<1>2. ~stoped /\ op = Write(gen) /\ gen \in Gen /\ gen \in Nat
  <2>1. op # Dial BY <1>1 DEF Dial
  <2>2. ~stoped BY <2>1 DEF Inv, Quiet
  <2>3. op \in Writers BY <1>1 DEF Writers, Suspended
  <2> QED BY <1>1, <2>2, <2>3 DEF Inv, TypeOK, OneOfEach, Write, Timer
<1>3. writeQueue # <<>> /\ writeQueue \in Seq(Msg)
  BY <1>2 DEF Inv, TypeOK, NoLostWakeup, Suspended
<1>4. ~Signalled(Write(gen), "ok")
  <2>1. Done(Write(gen), "ok").op = Write(gen) BY DEF Done
  <2> QED BY <1>2, <2>1 DEF Inv, OneOfEach, Signalled
<1>5. sent[gen] = wire[gen] \o writeQueue BY <1>2, <1>4 DEF Inv, Backlog
<1>6. CASE Complete(op, "err") /\ UNCHANGED wire
  <2>1. \A o, e : Signalled(o, e)' <=> Signalled(o, e) \/ (o = op /\ e = "err")
    BY <1>6, Woken DEF Complete
  <2>2. UNCHANGED gen /\ ~Signalled(Write(gen), "ok")' BY <1>4, <1>6, <2>1 DEF Complete
  <2>3. wire' \in [Gen -> Seq(Msg)] BY <1>6 DEF Inv, TypeOK
  <2> QED BY <1>1, <1>5, <1>6, <2>2, <2>3, CompleteInv
<1>7. CASE /\ Complete(op, "ok")
           /\ wire' = [wire EXCEPT ![op.gen] = Append(@, Head(writeQueue))]
  <2>1. \A o, e : Signalled(o, e)' <=> Signalled(o, e) \/ (o = op /\ e = "ok")
    BY <1>7, Woken DEF Complete
  <2>2. UNCHANGED gen /\ Signalled(Write(gen), "ok")' BY <1>2, <1>7, <2>1 DEF Complete
  <2>3. wire[gen] \in Seq(Msg) /\ Head(writeQueue) \in Msg /\ Tail(writeQueue) \in Seq(Msg) /\ op.gen = gen
    BY <1>2, <1>3, Rest DEF Inv, TypeOK, Write
  <2>4. wire' \in [Gen -> Seq(Msg)] /\ wire'[gen] = Append(wire[gen], Head(writeQueue))
    BY <1>2, <1>7, <2>3 DEF Inv, TypeOK
  <2>5. sent[gen] = wire'[gen] \o Tail(writeQueue)
    <3>1. <<Head(writeQueue)>> \in Seq(Msg) /\ writeQueue = <<Head(writeQueue)>> \o Tail(writeQueue)
      BY <1>3, <2>3
    <3>2. Append(wire[gen], Head(writeQueue)) = wire[gen] \o <<Head(writeQueue)>>
      BY <2>3
    <3>3. (wire[gen] \o <<Head(writeQueue)>>) \o Tail(writeQueue) = wire[gen] \o (<<Head(writeQueue)>> \o Tail(writeQueue))
      BY <2>3, <3>1, ConcatAssociative
    <3> QED BY <1>5, <2>4, <3>1, <3>2, <3>3
  <2>6. \A g \in Gen : g > gen => wire'[g] = wire[g]
    BY <1>2, <1>7, <2>3 DEF Inv, TypeOK, Gen
  <2> QED BY <1>1, <1>7, <2>2, <2>4, <2>5, <2>6, CompleteInv
<1> QED BY <1>1, <1>6, <1>7

LEMMA SendInv == ASSUME Inv, NEW m \in Msg, Send(m) PROVE Inv'
<1>1. /\ ~stoped /\ UNCHANGED <<stoped, open, gen, wire>>
      /\ writeQueue' = Append(writeQueue, m)
      /\ sent' = [sent EXCEPT ![gen] = Append(@, m)]
      /\ CancelOne
  BY DEF Send, SendMoving
<1>2. gen \in Gen /\ gen \in Nat /\ writeQueue \in Seq(Msg) /\ sent[gen] \in Seq(Msg) /\ wire[gen] \in Seq(Msg)
  BY <1>1 DEF Inv, TypeOK, OneOfEach
<1>3. /\ writeQueue' \in Seq(Msg) /\ writeQueue' # <<>>
      /\ sent' \in [Gen -> Seq(Msg)] /\ sent'[gen] = Append(sent[gen], m)
      /\ \A g \in Gen : g > gen => sent'[g] = sent[g]
  <2>1. sent \in [Gen -> Seq(Msg)] BY DEF Inv, TypeOK
  <2>2. Append(sent[gen], m) \in Seq(Msg) BY <1>2
  <2>3. Append(writeQueue, m) \in Seq(Msg) /\ Len(Append(writeQueue, m)) = Len(writeQueue) + 1 /\ Len(writeQueue) \in Nat
    BY <1>2
  <2>4. Append(writeQueue, m) # <<>> BY <2>3, EmptySeq
  <2>5. \A g \in Gen : g > gen => g # gen BY <1>2
  <2> QED BY <1>1, <1>2, <2>1, <2>2, <2>3, <2>4, <2>5
<1>4. /\ pend' \in SUBSET Op /\ ready' \in Seq(Completion) /\ Quiet' /\ OneOfEach'
      /\ Suspended' = Suspended /\ Timer(gen) \notin pend' /\ ~Signalled(Timer(gen), "err")'
      /\ Signalled(Write(gen), "ok")' <=> Signalled(Write(gen), "ok")
  <2>1. ASSUME NEW op \in pend, op.who = "timer", pend' = pend \ {op}, ready' = Append(ready, Done(op, "ok"))
        PROVE  <1>4!:
    <3>1. /\ pend' \in SUBSET Op /\ ready' \in Seq(Completion) /\ Quiet' /\ OneOfEach'
          /\ Suspended' = Suspended
          /\ \A o, e : Signalled(o, e)' <=> Signalled(o, e) \/ (o = op /\ e = "ok")
      BY <1>1, <2>1, Woken
    <3>2. op = Timer(gen)
      <4>1. op \in Writers BY <2>1 DEF Writers, Suspended
      <4> QED BY <1>1, <2>1, <4>1 DEF Inv, OneOfEach, Write, Timer
    <3>3. Timer(gen) \notin pend' BY <2>1, <3>2
    <3>4. ~Signalled(Timer(gen), "err")' BY <1>1, <3>1 DEF Inv, NoLostWakeup
    <3>5. Signalled(Write(gen), "ok")' <=> Signalled(Write(gen), "ok")
      BY <1>1, <2>1, <3>1 DEF Write
    <3> QED BY <3>1, <3>3, <3>4, <3>5
  <2>2. ASSUME \A op \in pend : op.who # "timer", UNCHANGED <<pend, ready>>
        PROVE  <1>4!:
    <3>1. Timer(gen) \notin pend BY <2>2 DEF Timer
    <3>2. Quiet' /\ OneOfEach' /\ Suspended' = Suspended
      BY <1>1, <2>2 DEF Inv, Quiet, OneOfEach, Suspended, Readers, Writers
    <3> QED BY <1>1, <2>2, <3>1, <3>2 DEF Inv, TypeOK, NoLostWakeup, Signalled
  <2> QED BY <1>1, <2>1, <2>2 DEF CancelOne
<1>5. TypeOK' BY <1>1, <1>3, <1>4 DEF Inv, TypeOK
<1>6. NoLostWakeup' BY <1>1, <1>3, <1>4 DEF Inv, NoLostWakeup
<1>7. Backlog'
  <2>0. \A s, t \in Seq(Msg) : Append(s \o t, m) = s \o Append(t, m)
    <3>1. SUFFICES ASSUME NEW s \in Seq(Msg), NEW t \in Seq(Msg)
                   PROVE  Append(s \o t, m) = s \o Append(t, m)
      OBVIOUS
    <3>2. <<m>> \in Seq(Msg) /\ s \o t \in Seq(Msg) BY ConcatProperties
    <3>3. Append(s \o t, m) = (s \o t) \o <<m>> BY <3>2
    <3>4. Append(t, m) = t \o <<m>> OBVIOUS
    <3>5. (s \o t) \o <<m>> = s \o (t \o <<m>>) BY <3>2, ConcatAssociative
    <3> QED BY <3>3, <3>4, <3>5
  <2>1. CASE Signalled(Write(gen), "ok")
    <3>1. writeQueue # <<>> /\ sent[gen] = wire[gen] \o Tail(writeQueue)
      <4>1. Write(gen) \in Suspended
        <5>1. Done(Write(gen), "ok").op = Write(gen) BY DEF Done
        <5> QED BY <2>1, <5>1 DEF Signalled, Suspended
      <4> QED BY <1>1, <2>1, <4>1 DEF Inv, NoLostWakeup, Backlog
    <3>2. Tail(writeQueue) \in Seq(Msg) /\ Tail(Append(writeQueue, m)) = Append(Tail(writeQueue), m)
      BY <1>2, <3>1
    <3>3. Append(wire[gen] \o Tail(writeQueue), m) = wire[gen] \o Append(Tail(writeQueue), m)
      BY <1>2, <3>2, <2>0
    <3> QED BY <1>1, <1>3, <1>4, <2>1, <3>1, <3>2, <3>3 DEF Inv, Backlog
  <2>2. CASE ~Signalled(Write(gen), "ok")
    <3>1. Append(wire[gen] \o writeQueue, m) = wire[gen] \o Append(writeQueue, m)
      BY <1>2, <2>0
    <3> QED BY <1>1, <1>3, <1>4, <2>2, <3>1 DEF Inv, Backlog
  <2> QED BY <2>1, <2>2
<1> QED BY <1>4, <1>5, <1>6, <1>7 DEF Inv

\* The rest of the ready queue of a running peer, as Stop finds it.
LEMMA RestQuiet ==
  ASSUME Inv, ~stoped, ready # <<>>
  PROVE  Tail(ready) \in Seq(Completion) /\ \A i \in DOMAIN Tail(ready) : Tail(ready)[i].op # Dial
<1>1. /\ Tail(ready) \in Seq(Completion) /\ DOMAIN Tail(ready) = 1..(Len(ready) - 1)
      /\ Len(ready) \in Nat \ {0} /\ DOMAIN ready = 1..Len(ready)
      /\ \A i \in 1..(Len(ready) - 1) : Tail(ready)[i] = ready[i + 1]
  BY Rest DEF Inv, TypeOK
<1>2. \A i \in 1..(Len(ready) - 1) : i + 1 \in DOMAIN ready BY <1>1
<1> QED BY <1>1, <1>2, NoDial DEF Inv

\* In a stopped peer Stop only returns.
LEMMA StopAgain ==
  ASSUME Inv, stoped, ready # <<>>, Stop(Tail(ready)), UNCHANGED <<writeQueue, gen, sent, wire>>
  PROVE  Inv'
<1>1. ready' = Tail(ready) /\ UNCHANGED <<stoped, open, pend>> BY DEF Stop, StopAborting
<1> QED BY <1>1, Ends

LEMMA HeadFacts ==
  ASSUME Inv, ready # <<>>
  PROVE  /\ Head(ready) \in Completion /\ Head(ready).op \in Op
         /\ Head(ready).op \in Suspended
         /\ Head(ready) = Done(Head(ready).op, Head(ready).ec)
         /\ \A o, e : Head(ready) = Done(o, e) => Signalled(o, e)
<1>1. 1 \in DOMAIN ready /\ Head(ready) = ready[1] /\ Head(ready) \in Completion
  BY Rest DEF Inv, TypeOK
<1> QED BY <1>1 DEF Completion, Suspended, Signalled, Done

LEMMA ReadResumeInv == ASSUME Inv, ReadResume PROVE Inv'
<1> DEFINE op == Head(ready).op
<1>1. ready # <<>> /\ op.who = "read" /\ UNCHANGED <<writeQueue, gen, sent, wire>>
  BY DEF ReadResume
<1>2. CASE Stop(Tail(ready))
  <2>1. CASE stoped BY <1>1, <1>2, <2>1, StopAgain
  <2>2. CASE ~stoped
    <3>1. writeQueue' \in Seq(Msg) BY <1>1 DEF Inv, TypeOK
    <3> QED BY <1>1, <1>2, <2>2, <3>1, RestQuiet, StopInv
  <2> QED BY <2>1, <2>2
<1>3. CASE stoped /\ ready' = Tail(ready) /\ UNCHANGED <<stoped, open, pend>>
  BY <1>1, <1>3, Ends
<1>4. CASE ~stoped /\ pend' = pend \cup {op} /\ ready' = Tail(ready) /\ UNCHANGED <<stoped, open>>
  <2>1. op = Read(gen) /\ op \in Op
    BY <1>1, <1>4, HeadFacts DEF Inv, OneOfEach, Readers
  <2>2. op.gen = gen BY <2>1 DEF Read
  <2> HIDE DEF op
  <2>3. op = Head(ready).op BY DEF op
  <2>4. /\ pend' \in SUBSET Op /\ ready' \in Seq(Completion) /\ Quiet' /\ OneOfEach'
        /\ \A o, e : Signalled(o, e)' <=> o # Head(ready).op /\ Signalled(o, e)
        /\ Suspended' = (Suspended \ {Head(ready).op}) \cup {op}
    BY <1>1, <1>4, <2>1, <2>2, <2>3, Again
  <2>5. TypeOK' BY <1>1, <1>4, <2>4 DEF Inv, TypeOK
  <2>6. Timer(gen) # op /\ Write(gen) # op BY <2>1 DEF Read, Timer, Write
  <2>7. /\ \A e : (Signalled(Timer(gen), e)' <=> Signalled(Timer(gen), e)) /\ (Signalled(Write(gen), e)' <=> Signalled(Write(gen), e))
        /\ Timer(gen) \in pend' <=> Timer(gen) \in pend
        /\ Write(gen) \in Suspended' <=> Write(gen) \in Suspended
    BY <1>1, <1>4, <2>3, <2>4, <2>6
  <2>8. NoLostWakeup' BY <1>1, <1>4, <2>7 DEF Inv, NoLostWakeup
  <2>9. Backlog' BY <1>1, <1>4, <2>7 DEF Inv, Backlog
  <2> QED BY <2>4, <2>5, <2>8, <2>9 DEF Inv
<1> QED BY <1>2, <1>3, <1>4 DEF ReadResume

\* Write goes on to its next wait, on a queue whose backlog is what the
\* running handler left of it.
LEMMA WriterAgain ==
  ASSUME Inv, ~stoped, ready # <<>>, Head(ready).op.who \in {"write", "timer"},
         NEW STATE op, op \in {Write(gen), Timer(gen)},
         pend' = pend \cup {op}, ready' = Tail(ready), UNCHANGED <<stoped, open, gen, sent, wire>>,
         writeQueue' \in Seq(Msg), sent[gen] = wire[gen] \o writeQueue',
         op = Timer(gen) <=> writeQueue' = <<>>
  PROVE  Inv'
<1> DEFINE h == Head(ready).op
<1>1. gen \in Gen /\ open BY DEF Inv, OneOfEach, NoLostWakeup
<1>2. op \in Op /\ op.gen = gen /\ op.who \in {"write", "timer"} /\ Write(gen) # Timer(gen)
  BY <1>1, Consts DEF Gen, Op, Write, Timer
<1>3. h \in {Write(gen), Timer(gen)} /\ Writers = {h}
  BY HeadFacts DEF Inv, OneOfEach, Writers
<1>4. /\ pend' \in SUBSET Op /\ ready' \in Seq(Completion) /\ Quiet' /\ OneOfEach'
      /\ \A o, e : Signalled(o, e)' <=> o # h /\ Signalled(o, e)
      /\ Suspended' = (Suspended \ {h}) \cup {op}
  BY <1>2, Again
<1>5. \A o, e : Signalled(o, e) => o \in Suspended
  BY DEF Signalled, Suspended, Done
<1>6. \A o \in {Write(gen), Timer(gen)} : o \in Suspended => o = h
  BY <1>3 DEF Writers, Write, Timer
<1>7. \A o \in {Write(gen), Timer(gen)} : \A e : ~Signalled(o, e)'
  BY <1>4, <1>5, <1>6
<1>8. \A o \in {Write(gen), Timer(gen)} : o \in Suspended' => o = op
  BY <1>4, <1>6
<1>9. TypeOK' BY <1>2, <1>4 DEF Inv, TypeOK
<1>10. NoLostWakeup'
  <2>1. Timer(gen) \in pend' => Timer(gen) = op BY <1>8 DEF Suspended
  <2>2. Write(gen) \in Suspended' => op # Timer(gen) BY <1>2, <1>8
  <2> QED BY <1>1, <1>7, <2>1, <2>2 DEF NoLostWakeup
<1>11. Backlog' BY <1>7 DEF Inv, Backlog
<1> QED BY <1>4, <1>9, <1>10, <1>11 DEF Inv

LEMMA WriteResumeInv == ASSUME Inv, WriteResume PROVE Inv'
<1> DEFINE h == Head(ready).op
<1>1. ready # <<>> /\ h.who \in {"write", "timer"} /\ UNCHANGED <<gen, sent, wire>>
  BY DEF WriteResume
<1>2. CASE stoped /\ ready' = Tail(ready) /\ UNCHANGED <<stoped, open, pend, writeQueue>>
  BY <1>1, <1>2, Ends
<1>3. CASE Stop(Tail(ready)) /\ writeQueue' \in Seq(Msg) /\ (stoped => UNCHANGED writeQueue)
  <2>1. CASE stoped BY <1>1, <1>3, <2>1, StopAgain
  <2>2. CASE ~stoped BY <1>1, <1>3, <2>2, RestQuiet, StopInv
  <2> QED BY <2>1, <2>2
<1>4. CASE Running("write", "err") /\ Stop(Tail(ready)) /\ UNCHANGED writeQueue
  BY <1>3, <1>4 DEF Inv, TypeOK
<1>5. ASSUME ~stoped PROVE /\ gen \in Gen /\ writeQueue \in Seq(Msg) /\ wire[gen] \in Seq(Msg)
                           /\ h \in {Write(gen), Timer(gen)} /\ Writers = {h} /\ h.gen = gen
  <2>1. h \in {Write(gen), Timer(gen)} /\ Writers = {h}
    BY <1>1, <1>5, HeadFacts DEF Inv, OneOfEach, Writers
  <2> QED BY <1>5, <2>1 DEF Inv, TypeOK, OneOfEach, Write, Timer
<1>6. CASE ~stoped /\ (Running("timer", "ok") \/ Running("timer", "err"))
           /\ WriteFront(h.gen, writeQueue) /\ UNCHANGED writeQueue
  <2>1. h = Timer(gen) /\ Write(gen) \notin Suspended
    BY <1>5, <1>6 DEF Running, Writers, Write, Timer
  <2>2. Head(ready).ec \in {"ok", "err"} /\ Signalled(Timer(gen), Head(ready).ec)
    BY <1>1, <2>1, HeadFacts DEF Completion
  <2>3. writeQueue # <<>> BY <1>6, <2>2 DEF Inv, NoLostWakeup
  <2>4. ~Signalled(Write(gen), "ok") BY <2>1 DEF Signalled, Suspended, Done
  <2>5. sent[gen] = wire[gen] \o writeQueue BY <1>6, <2>4 DEF Inv, Backlog
  <2>6. CASE Stop(Tail(ready)) BY <1>3, <1>5, <1>6, <2>6
  <2>7. CASE pend' = pend \cup {Write(gen)} /\ ready' = Tail(ready) /\ UNCHANGED <<stoped, open>>
    <3>1. Write(gen) # Timer(gen) BY DEF Write, Timer
    <3> QED BY <1>1, <1>5, <1>6, <2>3, <2>5, <2>7, <3>1, WriterAgain
  <2> QED BY <1>5, <1>6, <2>6, <2>7 DEF WriteFront
<1>7. CASE ~stoped /\ Running("write", "ok")
           /\ writeQueue' = Tail(writeQueue) /\ WriteLoop(h.gen, Tail(writeQueue))
  <2>1. h = Write(gen) /\ Write(gen) \in Suspended
    BY <1>1, <1>5, <1>7, HeadFacts DEF Running, Write, Timer
  <2>2. Signalled(Write(gen), "ok") BY <1>1, <1>7, <2>1, HeadFacts DEF Running
  <2>3. writeQueue # <<>> BY <1>7, <2>1 DEF Inv, NoLostWakeup
  <2>4. Tail(writeQueue) \in Seq(Msg) BY <1>5, <1>7, <2>3, Rest
  <2>5. sent[gen] = wire[gen] \o Tail(writeQueue) BY <1>7, <2>2 DEF Inv, Backlog
  <2>6. CASE Stop(Tail(ready)) BY <1>3, <1>7, <2>4, <2>6
  <2>7. CASE /\ Tail(writeQueue) = <<>>
             /\ pend' = pend \cup {Timer(gen)} /\ ready' = Tail(ready) /\ UNCHANGED <<stoped, open>>
    BY <1>1, <1>5, <1>7, <2>4, <2>5, <2>7, WriterAgain
  <2>8. CASE /\ Tail(writeQueue) # <<>>
             /\ pend' = pend \cup {Write(gen)} /\ ready' = Tail(ready) /\ UNCHANGED <<stoped, open>>
    <3>1. Write(gen) # Timer(gen) BY DEF Write, Timer
    <3> QED BY <1>1, <1>5, <1>7, <2>4, <2>5, <2>8, <3>1, WriterAgain
  <2> QED BY <1>5, <1>7, <2>6, <2>7, <2>8 DEF WriteLoop, WriteFront
<1> QED BY <1>2, <1>4, <1>6, <1>7 DEF WriteResume

-----------------------------------------------------------------------------
\* The invariant is inductive.
LEMMA NextInv == ASSUME Inv, [Next]_vars PROVE Inv'
<1>1. CASE UNCHANGED vars
  <2>1. UNCHANGED <<stoped, open, writeQueue, gen, pend, ready, sent, wire>> BY <1>1 DEF vars
  <2>2. Suspended' = Suspended /\ \A o, e : Signalled(o, e)' <=> Signalled(o, e)
    BY <2>1 DEF Suspended, Signalled
  <2>3. TypeOK' BY <2>1 DEF Inv, TypeOK
  <2>4. Quiet' BY <2>1, <2>2 DEF Inv, Quiet
  <2>5. OneOfEach' BY <2>1, <2>2 DEF Inv, OneOfEach, Readers, Writers
  <2>6. NoLostWakeup' BY <2>1, <2>2 DEF Inv, NoLostWakeup
  <2>7. Backlog' BY <2>1, <2>2 DEF Inv, Backlog
  <2> QED BY <2>3, <2>4, <2>5, <2>6, <2>7 DEF Inv
<1>2. CASE User
  BY <1>2, StartAcceptedInv, ConnectInv, UserStopInv, SendInv DEF User
<1>3. CASE Kernel
  BY <1>3, KernelReadInv, KernelWriteInv, KernelConnectInv DEF Kernel
<1>4. CASE Resume
  BY <1>4, ConnectResumeInv, ReadResumeInv, WriteResumeInv DEF Resume
<1> QED BY <1>1, <1>2, <1>3, <1>4 DEF Next

LEMMA Invariance == Spec => []Inv
<1>1. Init => Inv BY InitInv
<1>2. Inv /\ [Next]_vars => Inv' BY NextInv
<1> QED BY <1>1, <1>2, PTL DEF Spec

\* The state of a peer keeps its shape.
THEOREM TypeCorrect == Spec => []TypeOK
BY Invariance, PTL DEF Inv

\* The coroutines of an earlier connection are all gone before the next one
\* starts, however late the handlers run.
THEOREM QuietHolds == Spec => []Quiet
BY Invariance, PTL DEF Inv

\* A running peer has exactly one Read and one Write coroutine, its own.
THEOREM OneOfEachHolds == Spec => []OneOfEach
BY Invariance, PTL DEF Inv

\* No coroutine of one connection meets another connection.
THEOREM ApartHolds == Spec => []Apart
BY QuietHolds, OneOfEachHolds, PTL DEF Apart

\* No Send leaves the writer asleep, no wake-up finds the queue empty.
THEOREM NoLostWakeupHolds == Spec => []NoLostWakeup
BY Invariance, PTL DEF Inv

\* The wire followed by the queue is what was sent.
THEOREM BacklogHolds == Spec => []Backlog
BY Invariance, PTL DEF Inv

-----------------------------------------------------------------------------
(* Refinement of the safety part of PeerChannel.                           *)

\* A Stop closes the channel, or stutters when it is closed.
LEMMA StopStep ==
  ASSUME NEW STATE rest, Stop(rest), UNCHANGED <<gen, sent, wire>>
  PROVE  [Channel!Next]_(Channel!vars)
<1>1. CASE stoped BY <1>1 DEF Stop, StopAborting, Channel!vars
<1>2. CASE ~stoped BY <1>2 DEF Stop, StopAborting, Channel!Next, Channel!Close
<1> QED BY <1>1, <1>2

LEMMA StartStep ==
  ASSUME NEW STATE rest, Start(rest)
  PROVE  Channel!Next
BY DEF Start, StartWith, Channel!Next, Channel!Open

\* The socket takes the next message accepted, neither an old nor a later one.
LEMMA KernelWriteStep == ASSUME Inv, KernelWrite PROVE [Channel!Next]_(Channel!vars)
<1>1. PICK op \in pend : /\ op.who = "write"
                         /\ \/ Complete(op, "err") /\ UNCHANGED wire
                            \/ /\ Complete(op, "ok")
                               /\ wire' = [wire EXCEPT ![op.gen] = Append(@, Head(writeQueue))]
  BY DEF KernelWrite
<1>2. ~stoped /\ op = Write(gen) /\ op.gen = gen /\ gen \in Gen
  <2>1. op # Dial BY <1>1 DEF Dial
  <2>2. ~stoped BY <2>1 DEF Inv, Quiet
  <2>3. op \in Writers BY <1>1 DEF Writers, Suspended
  <2> QED BY <1>1, <2>2, <2>3 DEF Inv, OneOfEach, Write, Timer
<1>3. CASE UNCHANGED wire /\ Complete(op, "err") BY <1>3 DEF Complete, Channel!vars
<1>4. CASE /\ Complete(op, "ok")
           /\ wire' = [wire EXCEPT ![op.gen] = Append(@, Head(writeQueue))]
  <2>1. writeQueue # <<>> /\ writeQueue \in Seq(Msg) /\ wire[gen] \in Seq(Msg)
    BY <1>2 DEF Inv, TypeOK, NoLostWakeup, Suspended
  <2>2. ~Signalled(Write(gen), "ok")
    <3>1. Done(Write(gen), "ok").op = Write(gen) BY DEF Done
    <3> QED BY <1>2, <3>1 DEF Inv, OneOfEach, Signalled
  <2>3. sent[gen] = wire[gen] \o writeQueue BY <1>2, <2>2 DEF Inv, Backlog
  <2>4. Len(writeQueue) \in Nat \ {0} /\ Head(writeQueue) = writeQueue[1] /\ Len(wire[gen]) \in Nat
    BY <2>1, Rest, LenProperties
  <2>5. /\ Len(sent[gen]) = Len(wire[gen]) + Len(writeQueue)
        /\ sent[gen][Len(wire[gen]) + 1] = writeQueue[1]
    <3>1. /\ Len(wire[gen] \o writeQueue) = Len(wire[gen]) + Len(writeQueue)
          /\ \A i \in 1..(Len(wire[gen]) + Len(writeQueue)) :
               (wire[gen] \o writeQueue)[i] = IF i <= Len(wire[gen]) THEN wire[gen][i]
                                                                    ELSE writeQueue[i - Len(wire[gen])]
      BY <2>1, ConcatProperties
    <3>2. Len(wire[gen]) + 1 \in 1..(Len(wire[gen]) + Len(writeQueue)) BY <2>4
    <3> QED BY <2>3, <2>4, <3>1, <3>2
  <2>6. wire' = [wire EXCEPT ![gen] = Append(@, sent[gen][Len(@) + 1])]
    BY <1>2, <1>4, <2>4, <2>5 DEF Inv, TypeOK
  <2>7. Channel!Emit
    BY <1>2, <1>4, <2>4, <2>5, <2>6 DEF Channel!Emit, Complete
  <2> QED BY <2>7 DEF Channel!Next
<1> QED BY <1>1, <1>3, <1>4

\* Whatever its coroutines do, a peer behaves as a sequence of ordered
\* connections that lose, repeat and reorder nothing while they are up.
THEOREM Refinement == Spec => Channel!Safety
<1>1. Init => Channel!Init BY DEF Init, Channel!Init, Gen
<1>2. ASSUME Inv, [Next]_vars PROVE [Channel!Next]_(Channel!vars)
  <2>1. CASE UNCHANGED vars BY <2>1 DEF vars, Channel!vars
  <2>2. CASE StartAccepted BY <2>2, StartStep DEF StartAccepted
  <2>3. CASE Connect BY <2>3 DEF Connect, Channel!vars
  <2>4. CASE UserStop BY <2>4, StopStep DEF UserStop
  <2>5. CASE \E m \in Msg : Send(m)
    <3>0. PICK m \in Msg : Send(m) BY <2>5
    <3>1. Channel!Accept
      <4>1. ~stoped /\ UNCHANGED <<stoped, gen, wire>> BY <3>0 DEF Send, SendMoving
      <4>2. \E x \in Msg : sent' = [sent EXCEPT ![gen] = Append(@, x)] BY <3>0 DEF Send, SendMoving
      <4> QED BY <4>1, <4>2 DEF Channel!Accept
    <3> QED BY <3>1 DEF Channel!Next
  <2>6. CASE KernelRead BY <2>6 DEF KernelRead, Complete, Channel!vars
  <2>7. CASE KernelWrite BY <1>2, <2>7, KernelWriteStep
  <2>8. CASE KernelConnect BY <2>8 DEF KernelConnect, Complete, Channel!vars
  <2>9. CASE ConnectResume
    <3>1. CASE Start(Tail(ready)) BY <3>1, StartStep
    <3>2. CASE UNCHANGED <<stoped, gen, sent, wire>> BY <3>2 DEF Channel!vars
    <3> QED BY <2>9, <3>1, <3>2 DEF ConnectResume
  <2>10. CASE ReadResume
    <3>1. CASE Stop(Tail(ready)) BY <2>10, <3>1, StopStep DEF ReadResume
    <3>2. CASE UNCHANGED stoped BY <2>10, <3>2 DEF ReadResume, Channel!vars
    <3> QED BY <2>10, <3>1, <3>2 DEF ReadResume
  <2>11. CASE WriteResume
    <3>1. UNCHANGED <<gen, sent, wire>> BY <2>11 DEF WriteResume
    <3>2. CASE Stop(Tail(ready)) BY <3>1, <3>2, StopStep
    <3>3. CASE UNCHANGED stoped BY <3>1, <3>3 DEF Channel!vars
    <3> QED BY <2>11, <3>2, <3>3 DEF WriteResume, WriteLoop, WriteFront
  <2> QED BY <1>2, <2>1, <2>2, <2>3, <2>4, <2>5, <2>6, <2>7, <2>8, <2>9, <2>10, <2>11 DEF Next, User, Kernel, Resume
<1> QED BY <1>1, <1>2, Invariance, PTL DEF Spec, Channel!Safety
=============================================================================
