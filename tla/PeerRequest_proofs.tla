-------------------------- MODULE PeerRequest_proofs --------------------------
(* Proofs that the invariants of PeerRequest hold for every number of       *)
(* coroutines, requests and connections, as long as no serial comes back    *)
(* while something still goes by it; and that none does before the serials  *)
(* are used up.                                                             *)
EXTENDS PeerRequest, FiniteSetTheorems, SequenceTheorems, TLAPS

\* A request gets a serial by which nothing goes: no call, no entry, no packet.
Fresh == count' # count => LET s == SerialOf(count') IN
  /\ s \notin DOMAIN reqs
  /\ \A p \in flying : p.serial # s
  /\ \A c \in Co : call[c] # 0 => SerialOf(call[c]) # s

\* What goes by the serial of a call is of that call.
Mine ==
  /\ \A c, d \in Co : call[c] # 0 /\ call[d] # 0 /\ SerialOf(call[c]) = SerialOf(call[d]) => c = d
  /\ \A c \in Co, p \in flying : call[c] # 0 /\ p.serial = SerialOf(call[c]) => p.of = call[c]
  /\ \A c \in Co : call[c] # 0 /\ SerialOf(call[c]) \in DOMAIN reqs
                     => reqs[SerialOf(call[c])].data \in {0, call[c]}

\* A call whose timer was cancelled has its answer, or the peer has been dropped for ever.
Answered ==
  /\ ~owned => stoped
  /\ \A i \in DOMAIN ready : ready[i][2] =>
       \/ ~owned
       \/ LET s == SerialOf(call[ready[i][1]]) IN s \in DOMAIN reqs /\ reqs[s].data # 0

\* The first connection begins with nothing.
Begun == gen = 0 => stoped /\ DOMAIN reqs = {} /\ \A c \in Co : call[c] = 0

IInv == TypeOK /\ Mine /\ Answered /\ Begun /\ AnswerIsMine /\ NoLeak

\* What goes by a serial was sent.
Sent ==
  /\ \A c \in Co : call[c] <= count
  /\ \A p \in flying : p.of <= count /\ p.serial = SerialOf(p.of)
  /\ \A s \in DOMAIN reqs : \E n \in 1..count : s = SerialOf(n)

LEMMA Consts == IsFiniteSet(Co) /\ Modulus \in Nat \ {0} /\ MaxCount \in Nat /\ MaxGen \in Nat
  BY RequestAssumption DEF RequestAssumption

LEMMA Serials == \A n \in Nat : SerialOf(n) \in Serial
  BY Consts DEF SerialOf, Serial

-----------------------------------------------------------------------------
\* The elements of a finite set in some order.
LEMMA Orders ==
  ASSUME NEW S, IsFiniteSet(S), NEW order \in SetToSeqs(S)
  PROVE  /\ order \in Seq(S) /\ Len(order) \in Nat /\ DOMAIN order = 1..Len(order)
         /\ \A i, j \in DOMAIN order : order[i] = order[j] => i = j
<1>1. Cardinality(S) \in Nat BY FS_CardinalityType
<1>2. order \in [1..Cardinality(S) -> S] /\ \A i, j \in 1..Cardinality(S) : i # j => order[i] # order[j]
  BY DEF SetToSeqs
<1>3. order \in Seq(S) BY <1>1, <1>2, SeqDef
<1> QED BY <1>2, <1>3, LenProperties

\* What stands in ready once the coroutines of S are woken.
Woken(S, cancelled) ==
  /\ ready' \in Seq(Co \X BOOLEAN)
  /\ \A i \in DOMAIN ready : i \in DOMAIN ready' /\ ready'[i] = ready[i]
  /\ \A i \in DOMAIN ready' \ DOMAIN ready : ready'[i][1] \in S /\ ready'[i][2] = cancelled
  /\ \A i, j \in DOMAIN ready' : ready'[i][1] = ready'[j][1] => i = j

LEMMA WakeReady ==
  ASSUME TypeOK, NEW S \in SUBSET (Co \ Resumable), NEW b \in BOOLEAN, Wake(S, b)
  PROVE  Woken(S, b)
<1>1. IsFiniteSet(S) BY Consts, FS_Subset
<1>2. PICK order \in SetToSeqs(S) : ready' = ready \o [i \in DOMAIN order |-> <<order[i], b>>]
  BY DEF Wake
<1>3. /\ order \in Seq(S) /\ Len(order) \in Nat /\ DOMAIN order = 1..Len(order)
      /\ \A i, j \in DOMAIN order : order[i] = order[j] => i = j
  BY <1>1, Orders
<1> DEFINE news == [i \in DOMAIN order |-> <<order[i], b>>]
<1>4. \A i \in 1..Len(order) : order[i] \in S BY <1>3, ElementOfSeq
<1>5. news \in [1..Len(order) -> Co \X BOOLEAN] BY <1>3, <1>4
<1>6. news \in Seq(Co \X BOOLEAN) /\ Len(news) = Len(order)
  <2>1. news \in Seq(Co \X BOOLEAN) BY <1>3, <1>5, SeqDef
  <2> QED BY <2>1, <1>3, <1>5, LenProperties
<1>7. \A i \in 1..Len(order) : news[i][1] = order[i] /\ news[i][2] = b BY <1>3
<1>8. ready \in Seq(Co \X BOOLEAN) /\ Len(ready) \in Nat /\ DOMAIN ready = 1..Len(ready)
  BY LenProperties DEF TypeOK
<1> HIDE DEF news
<1>9. /\ ready' \in Seq(Co \X BOOLEAN) /\ Len(ready') = Len(ready) + Len(order)
      /\ \A i \in 1..(Len(ready) + Len(order)) :
           ready'[i] = IF i <= Len(ready) THEN ready[i] ELSE news[i - Len(ready)]
  <2>1. ready' = ready \o news BY <1>2 DEF news
  <2> DEFINE both == ready \o news
  <2>2. /\ both \in Seq(Co \X BOOLEAN) /\ Len(both) = Len(ready) + Len(news)
        /\ \A i \in 1..(Len(ready) + Len(news)) :
             both[i] = IF i <= Len(ready) THEN ready[i] ELSE news[i - Len(ready)]
    <3> DEFINE T == Co \X BOOLEAN
    <3>1. ready \in Seq(T) /\ news \in Seq(T) BY <1>6, <1>8
    <3> HIDE DEF T
    <3>2. /\ both \in Seq(T) /\ Len(both) = Len(ready) + Len(news)
          /\ \A i \in 1..(Len(ready) + Len(news)) :
               both[i] = IF i <= Len(ready) THEN ready[i] ELSE news[i - Len(ready)]
      BY <3>1, ConcatProperties
    <3> QED BY <3>2 DEF T
  <2>3. ready' = both BY <2>1
  <2>4. Len(news) = Len(order) BY <1>6
  <2> HIDE DEF both
  <2> QED BY <2>2, <2>3, <2>4
<1>10. DOMAIN ready' = 1..(Len(ready) + Len(order)) BY <1>9, LenProperties
<1>11. \A i \in DOMAIN ready : i \in DOMAIN ready' /\ ready'[i] = ready[i]
  BY <1>3, <1>8, <1>9, <1>10
<1>12. \A i \in DOMAIN ready' \ DOMAIN ready :
          i - Len(ready) \in 1..Len(order) /\ ready'[i] = news[i - Len(ready)]
  BY <1>3, <1>8, <1>9, <1>10
<1>13. \A i \in DOMAIN ready' \ DOMAIN ready :
          ready'[i][1] = order[i - Len(ready)] /\ ready'[i][1] \in S /\ ready'[i][2] = b
  BY <1>12, <1>7, <1>4
<1>14. \A i, j \in DOMAIN ready' : ready'[i][1] = ready'[j][1] => i = j
  <2>1. SUFFICES ASSUME NEW i \in DOMAIN ready', NEW j \in DOMAIN ready', ready'[i][1] = ready'[j][1]
                 PROVE  i = j
    OBVIOUS
  <2>2. CASE i \in DOMAIN ready /\ j \in DOMAIN ready BY <2>1, <2>2, <1>11 DEF TypeOK
  <2>3. CASE i \in DOMAIN ready /\ j \notin DOMAIN ready BY <2>1, <2>3, <1>11, <1>13 DEF Resumable
  <2>4. CASE i \notin DOMAIN ready /\ j \in DOMAIN ready BY <2>1, <2>4, <1>11, <1>13 DEF Resumable
  <2>5. CASE i \notin DOMAIN ready /\ j \notin DOMAIN ready
    <3>1. i - Len(ready) = j - Len(ready) BY <2>1, <2>5, <1>12, <1>13, <1>3
    <3> QED BY <3>1, <1>8, <1>10
  <2> QED BY <2>2, <2>3, <2>4, <2>5
<1> QED BY <1>9, <1>11, <1>13, <1>14 DEF Woken

-----------------------------------------------------------------------------
\* Coroutines that are woken while nothing else of ready changes.
LEMMA WokenTypes ==
  ASSUME TypeOK, NEW S \in SUBSET Waiting(Serial), NEW b \in BOOLEAN, Wake(S, b), call' = call
  PROVE  /\ Woken(S, b)
         /\ \A i \in DOMAIN ready' : call'[ready'[i][1]] # 0
<1>1. S \subseteq Co \ Resumable /\ \A c \in S : call[c] # 0 BY DEF Waiting
<1>2. Woken(S, b) BY <1>1, WakeReady
<1>3. \A i \in DOMAIN ready' : call[ready'[i][1]] # 0
  <2>1. SUFFICES ASSUME NEW i \in DOMAIN ready' PROVE call[ready'[i][1]] # 0 OBVIOUS
  <2>2. CASE i \in DOMAIN ready BY <2>2, <1>2 DEF Woken, TypeOK
  <2>3. CASE i \notin DOMAIN ready
    <3>1. ready'[i][1] \in S BY <2>1, <2>3, <1>2 DEF Woken
    <3> QED BY <3>1, <1>1
  <2> QED BY <2>2, <2>3
<1> QED BY <1>2, <1>3

LEMMA WaitingIn == \A S \in SUBSET Serial : Waiting(S) \in SUBSET Waiting(Serial)
  BY DEF Waiting


LEMMA InitTypes == Init => TypeOK
<1> SUFFICES ASSUME Init PROVE TypeOK OBVIOUS
<1>1. ready = <<>> /\ DOMAIN ready = {} /\ ready \in Seq(Co \X BOOLEAN)
  BY EmptySeq DEF Init
<1>2. reqs = <<>> /\ DOMAIN reqs = {} BY DEF Init
<1>3. 0 \in 0..MaxCount /\ 0 \in 0..MaxGen BY Consts
<1>4. call \in [Co -> 0..MaxCount] BY <1>3 DEF Init
<1> QED BY <1>1, <1>2, <1>3, <1>4 DEF Init, TypeOK

\* Timers that go, all with the entries or one by one.
LEMMA WakeTypes ==
  ASSUME TypeOK, NEW S \in SUBSET Serial, NEW b \in BOOLEAN, Wake(Waiting(S), b),
         DOMAIN reqs' \subseteq Serial, \A s \in DOMAIN reqs' : reqs'[s] \in Entry,
         flying' \subseteq Packet, stoped' \in BOOLEAN, owned' \in BOOLEAN, held' \in BOOLEAN,
         UNCHANGED <<gen, count, call>>
  PROVE  TypeOK'
<1>1. Woken(Waiting(S), b) /\ \A i \in DOMAIN ready' : call'[ready'[i][1]] # 0
  BY WaitingIn, WokenTypes
<1> QED BY <1>1 DEF TypeOK, Woken

LEMMA SendTypes == ASSUME TypeOK, NEW c \in Co, SendRequest(c) PROVE TypeOK'
<1> DEFINE s == SerialOf(count + 1)
<1>1. count + 1 \in Count /\ s \in Serial /\ count' = count + 1
  <2>1. count \in 0..MaxCount /\ count < MaxCount BY DEF TypeOK, SendRequest
  <2>2. count + 1 \in Count /\ count + 1 \in Nat BY <2>1, Consts DEF Count
  <2> QED BY <2>2, Serials DEF SendRequest
<1> HIDE DEF s
<1>2. DOMAIN reqs' = DOMAIN reqs \cup {s} /\ \A x \in DOMAIN reqs' : reqs'[x] \in Entry
  <2>1. reqs' = [x \in DOMAIN reqs \cup {s} |->
                  IF x \in DOMAIN reqs THEN reqs[x] ELSE [data |-> 0, expired |-> FALSE]]
    BY DEF SendRequest, s
  <2>2. [data |-> 0, expired |-> FALSE] \in Entry BY Consts DEF Entry
  <2> QED BY <2>1, <2>2 DEF TypeOK
<1>3. flying' \subseteq Packet
  <2>1. [kind |-> IF s = 0 THEN "push" ELSE "request", serial |-> s, of |-> count + 1] \in Packet
    BY <1>1 DEF Packet
  <2> QED BY <2>1 DEF TypeOK, SendRequest, s
<1>4. call' = [call EXCEPT ![c] = count + 1] /\ call' \in [Co -> 0..MaxCount] /\ count + 1 # 0
  BY <1>1, Consts DEF SendRequest, TypeOK, Count
<1>5. ready \in Seq(Co \X BOOLEAN) /\ DOMAIN ready = 1..Len(ready) /\ Len(ready) \in Nat
  BY LenProperties DEF TypeOK
<1>6. \A i \in DOMAIN ready : ready[i][1] \in Co /\ ready[i][1] # c
  <2>1. \A i \in DOMAIN ready : ready[i] \in Co \X BOOLEAN BY <1>5, ElementOfSeq
  <2>2. call[c] = 0 BY DEF SendRequest
  <2> QED BY <2>1, <2>2 DEF TypeOK
<1>7. /\ ready' \in Seq(Co \X BOOLEAN)
      /\ \A i, j \in DOMAIN ready' : ready'[i][1] = ready'[j][1] => i = j
      /\ \A i \in DOMAIN ready' : call'[ready'[i][1]] # 0
  <2>1. CASE ready' = ready BY <2>1, <1>4, <1>6 DEF TypeOK
  <2>2. CASE ready' = Append(ready, <<c, FALSE>>)
    <3>1. <<c, FALSE>> \in Co \X BOOLEAN /\ <<c, FALSE>>[1] = c OBVIOUS
    <3>2. /\ ready' \in Seq(Co \X BOOLEAN) /\ Len(ready') = Len(ready) + 1
          /\ \A i \in 1..Len(ready) : ready'[i] = ready[i]
          /\ ready'[Len(ready) + 1][1] = c
      BY <2>2, <3>1, <1>5, AppendProperties
    <3>3. DOMAIN ready' = 1..(Len(ready) + 1) BY <3>2, LenProperties
    <3>4. \A i \in DOMAIN ready' : i \in DOMAIN ready \/ i = Len(ready) + 1 BY <3>3, <1>5
    <3>5. \A i, j \in DOMAIN ready' : ready'[i][1] = ready'[j][1] => i = j
      BY <3>2, <3>4, <1>5, <1>6 DEF TypeOK
    <3>6. \A i \in DOMAIN ready' : call'[ready'[i][1]] # 0
      BY <3>2, <3>4, <1>4, <1>5, <1>6, <1>1 DEF TypeOK
    <3> QED BY <3>2, <3>5, <3>6
  <2> QED BY <2>1, <2>2 DEF SendRequest
<1>8. count' \in 0..MaxCount BY <1>1, Consts DEF Count
<1> QED BY <1>1, <1>2, <1>3, <1>4, <1>7, <1>8 DEF TypeOK, SendRequest

\* The coroutine at the head of ready, and those behind it.
LEMMA HeadTypes ==
  ASSUME TypeOK, ready # <<>>
  PROVE  /\ Len(ready) \in Nat \ {0} /\ DOMAIN ready = 1..Len(ready)
         /\ Head(ready) = ready[1] /\ Head(ready)[1] \in Co /\ Head(ready)[2] \in BOOLEAN
         /\ call[Head(ready)[1]] \in Count
         /\ Tail(ready) \in Seq(Co \X BOOLEAN) /\ DOMAIN Tail(ready) = 1..(Len(ready) - 1)
         /\ \A i \in DOMAIN Tail(ready) :
              /\ i + 1 \in DOMAIN ready /\ Tail(ready)[i] = ready[i + 1]
              /\ ready[i + 1][1] \in Co /\ ready[i + 1][1] # Head(ready)[1]
<1>1. ready \in Seq(Co \X BOOLEAN) BY DEF TypeOK
<1>2. Len(ready) \in Nat \ {0} /\ DOMAIN ready = 1..Len(ready) BY <1>1, EmptySeq, LenProperties
<1>3. Head(ready) = ready[1] /\ 1 \in DOMAIN ready BY <1>1, <1>2
<1>4. \A i \in DOMAIN ready : ready[i] \in Co \X BOOLEAN BY <1>1, <1>2, ElementOfSeq
<1>5. call[Head(ready)[1]] \in Count BY <1>3, <1>4, Consts DEF TypeOK, Count
<1>6. /\ Tail(ready) \in Seq(Co \X BOOLEAN) /\ Len(Tail(ready)) = Len(ready) - 1
      /\ \A i \in 1..Len(Tail(ready)) : Tail(ready)[i] = ready[i + 1]
  BY <1>1, HeadTailProperties
<1>7. DOMAIN Tail(ready) = 1..(Len(ready) - 1) BY <1>6, LenProperties
<1>8. \A i \in 1..(Len(ready) - 1) : i + 1 \in DOMAIN ready /\ i + 1 # 1 BY <1>2
<1>9. \A i \in 1..(Len(ready) - 1) : ready[i + 1][1] # ready[1][1]
  BY <1>8, <1>3 DEF TypeOK
<1> QED BY <1>2, <1>3, <1>4, <1>5, <1>6, <1>7, <1>8, <1>9

LEMMA ResumeTypes == ASSUME TypeOK, Resume PROVE TypeOK'
<1>1. ready # <<>> BY DEF Resume, ResumeErasing
<1> DEFINE c == Head(ready)[1]
<1>2. ready' = Tail(ready) /\ call' = [call EXCEPT ![c] = 0] BY DEF Resume, ResumeErasing
<1>3. c \in Co /\ call' \in [Co -> 0..MaxCount] BY <1>1, <1>2, HeadTypes, Consts DEF TypeOK
<1>4. /\ ready' \in Seq(Co \X BOOLEAN)
      /\ \A i, j \in DOMAIN ready' : ready'[i][1] = ready'[j][1] => i = j
      /\ \A i \in DOMAIN ready' : call'[ready'[i][1]] # 0
  <2> HIDE DEF c
  <2>1. \A i \in DOMAIN ready' : /\ i \in Nat /\ i + 1 \in DOMAIN ready
                                 /\ ready'[i] = ready[i + 1] /\ ready[i + 1][1] # c
    BY <1>1, <1>2, HeadTypes DEF c
  <2>2. \A i, j \in DOMAIN ready' : ready'[i][1] = ready'[j][1] => i = j
    <3>1. SUFFICES ASSUME NEW i \in DOMAIN ready', NEW j \in DOMAIN ready', ready'[i][1] = ready'[j][1]
                   PROVE  i = j
      OBVIOUS
    <3>2. i + 1 = j + 1 BY <3>1, <2>1 DEF TypeOK
    <3> QED BY <3>2, <2>1
  <2>3. \A i \in DOMAIN ready' : call'[ready'[i][1]] # 0
    BY <2>1, <1>2, <1>3 DEF TypeOK
  <2> QED BY <2>2, <2>3, <1>1, <1>2, HeadTypes
<1>5. DOMAIN reqs' \subseteq DOMAIN reqs /\ \A s \in DOMAIN reqs' : reqs'[s] = reqs[s]
  <2>1. CASE reqs' = reqs BY <2>1
  <2>2. CASE reqs' # reqs
    <3>1. \E D : reqs' = [x \in DOMAIN reqs \ D |-> reqs[x]]
      BY <2>2 DEF Resume, ResumeErasing
    <3> QED BY <3>1
  <2> QED BY <2>1, <2>2
<1> QED BY <1>3, <1>4, <1>5 DEF TypeOK, Resume, ResumeErasing

LEMMA NextTypes == ASSUME TypeOK, [Next]_vars PROVE TypeOK'
<1>1. CASE Start
  <2>1. gen' \in 0..MaxGen BY <1>1, Consts DEF Start, TypeOK
  <2> QED BY <1>1, <2>1 DEF Start, TypeOK
<1>2. CASE Stop BY <1>2 DEF Stop, TypeOK
<1>3. CASE CoroutinesEnd
  <2>1. CASE owned BY <1>3, <2>1 DEF CoroutinesEnd, TypeOK
  <2>2. CASE ~owned
    <3>1. reqs' = <<>> /\ Wake(Waiting(DOMAIN reqs), TRUE)
      BY <1>3, <2>2 DEF CoroutinesEnd
    <3>2. DOMAIN reqs' = {} BY <3>1
    <3> QED BY <1>3, <3>1, <3>2, WakeTypes DEF CoroutinesEnd, TypeOK
  <2> QED BY <2>1, <2>2
<1>4. CASE Drop
  <2>1. CASE held BY <1>4, <2>1 DEF Drop, TypeOK
  <2>2. CASE ~held
    <3>1. reqs' = <<>> /\ Wake(Waiting(DOMAIN reqs), TRUE)
      BY <1>4, <2>2 DEF Drop
    <3>2. DOMAIN reqs' = {} BY <3>1
    <3> QED BY <1>4, <3>1, <3>2, WakeTypes DEF Drop, TypeOK
  <2> QED BY <2>1, <2>2
<1>5. CASE \E c \in Co : SendRequest(c) BY <1>5, SendTypes
<1>6. CASE ServerAnswers
  <2>1. PICK p \in flying : flying' = (flying \ {p}) \cup {[p EXCEPT !.kind = "response"]}
    BY <1>6 DEF ServerAnswers
  <2>2. flying' \subseteq Packet BY <2>1 DEF TypeOK, Packet
  <2> QED BY <1>6, <2>2 DEF ServerAnswers, TypeOK
<1>7. CASE HandleMessage
  <2>1. PICK p \in flying :
          /\ flying' = flying \ {p}
          /\ IF p.serial \in DOMAIN reqs
             THEN reqs' = [reqs EXCEPT ![p.serial].data = p.of] /\ Wake(Waiting({p.serial}), TRUE)
             ELSE UNCHANGED <<reqs, ready>>
          /\ UNCHANGED <<stoped, gen, owned, held, count, call, ret>>
    BY <1>7 DEF HandleMessage, HandleWaking
  <2>2. p.serial \in Serial /\ p.of \in 0..MaxCount BY Consts DEF TypeOK, Packet, Count
  <2>3. CASE p.serial \in DOMAIN reqs
    <3>3. reqs' = [reqs EXCEPT ![p.serial].data = p.of] BY <2>1, <2>3
    <3>4. DOMAIN reqs' = DOMAIN reqs /\ \A x \in DOMAIN reqs : x # p.serial => reqs'[x] = reqs[x] BY <3>3
    <3>5. reqs'[p.serial] = [reqs[p.serial] EXCEPT !.data = p.of] BY <2>3, <3>3
    <3>6. reqs'[p.serial] \in Entry BY <2>2, <2>3, <3>5 DEF TypeOK, Entry
    <3>1. DOMAIN reqs' \subseteq Serial /\ \A x \in DOMAIN reqs' : reqs'[x] \in Entry
      BY <3>4, <3>6 DEF TypeOK
    <3>2. {p.serial} \in SUBSET Serial BY <2>2
    <3> QED BY <2>1, <2>3, <3>1, <3>2, WakeTypes DEF TypeOK
  <2>4. CASE p.serial \notin DOMAIN reqs BY <2>1, <2>4 DEF TypeOK
  <2> QED BY <2>3, <2>4
<1>8. CASE Timeout
  <2>1. PICK s \in DOMAIN reqs : /\ reqs' = [reqs EXCEPT ![s].expired = TRUE]
                                 /\ Wake(Waiting({s}), FALSE)
                                 /\ UNCHANGED <<stoped, gen, owned, held, count, flying, call, ret>>
    BY <1>8 DEF Timeout
  <2>4. DOMAIN reqs' = DOMAIN reqs /\ \A x \in DOMAIN reqs : x # s => reqs'[x] = reqs[x] BY <2>1
  <2>5. reqs[s] \in Entry /\ reqs'[s] = [reqs[s] EXCEPT !.expired = TRUE] BY <2>1 DEF TypeOK
  <2>6. reqs'[s] \in Entry BY <2>5 DEF Entry
  <2>2. DOMAIN reqs' \subseteq Serial /\ \A x \in DOMAIN reqs' : reqs'[x] \in Entry
    BY <2>4, <2>6 DEF TypeOK
  <2>3. {s} \in SUBSET Serial BY DEF TypeOK
  <2> QED BY <2>1, <2>2, <2>3, WakeTypes DEF TypeOK
<1>9. CASE Resume BY <1>9, ResumeTypes
<1>10. CASE UNCHANGED vars BY <1>10 DEF vars, TypeOK
<1> QED BY <1>1, <1>2, <1>3, <1>4, <1>5, <1>6, <1>7, <1>8, <1>9, <1>10 DEF Next

\* The type invariant, whatever serials come back.
THEOREM TypeCorrect == Spec => []TypeOK
<1>1. Init => TypeOK BY InitTypes
<1>2. TypeOK /\ [Next]_vars => TypeOK' BY NextTypes
<1> QED BY <1>1, <1>2, PTL DEF Spec

-----------------------------------------------------------------------------
LEMMA InitInv == Init => IInv
<1> SUFFICES ASSUME Init PROVE IInv OBVIOUS
<1>1. DOMAIN ready = {} /\ DOMAIN reqs = {} BY DEF Init
<1>2. \A c \in Co : call[c] = 0 BY DEF Init
<1>3. Mine /\ Begun BY <1>1, <1>2 DEF Mine, Begun, Init
<1>4. Answered /\ AnswerIsMine /\ NoLeak BY <1>1 DEF Init, Answered, AnswerIsMine, NoLeak
<1> QED BY <1>3, <1>4, InitTypes DEF IInv

LEMMA StartInv == ASSUME IInv, Start PROVE IInv'
<1> USE DEF Start
<1>1. TypeOK' BY NextTypes DEF IInv, Next
<1>2. Mine' BY DEF IInv, Mine
<1>3. Answered' BY DEF IInv, Answered
<1>4. gen \in Nat BY Consts DEF IInv, TypeOK
<1>5. Begun' BY <1>4
      DEF Begun
<1>6. AnswerIsMine' BY DEF IInv, AnswerIsMine
<1>7. NoLeak'
  <2>1. SUFFICES ASSUME gen = 0 PROVE NoLeak' BY <1>4 DEF NoLeak
  <2>2. DOMAIN reqs = {} /\ \A c \in Co : call[c] = 0 BY <2>1 DEF IInv, Begun
  <2> QED BY <2>2 DEF NoLeak
<1> QED BY <1>1, <1>2, <1>3, <1>5, <1>6, <1>7 DEF IInv

LEMMA StopInv == ASSUME IInv, Stop PROVE IInv'
<1> USE DEF Stop
<1>1. TypeOK' BY NextTypes DEF IInv, Next
<1>2. Mine' BY DEF IInv, Mine
<1>3. Answered' BY DEF IInv, Answered
<1>4. Begun' BY DEF IInv, Begun
<1>5. AnswerIsMine' /\ NoLeak' BY DEF IInv, AnswerIsMine, NoLeak
<1> QED BY <1>1, <1>2, <1>3, <1>4, <1>5 DEF IInv

\* A peer that nobody owns goes, and with it its timers.
LEMMA Gone ==
  ASSUME IInv, TypeOK', owned' = FALSE, stoped' = TRUE, reqs' = <<>>, flying' \subseteq flying,
         UNCHANGED <<gen, count, call, ret>>
  PROVE  IInv'
<1>1. DOMAIN reqs' = {} OBVIOUS
<1>2. Mine' BY <1>1 DEF IInv, Mine
<1>3. Answered' BY DEF Answered
<1>4. Begun' BY <1>1 DEF IInv, Begun
<1>5. AnswerIsMine' /\ NoLeak' BY DEF IInv, AnswerIsMine, NoLeak
<1> QED BY <1>2, <1>3, <1>4, <1>5 DEF IInv

LEMMA CoroutinesEndInv == ASSUME IInv, CoroutinesEnd PROVE IInv'
<1>1. CASE owned
  <2> USE <1>1 DEF CoroutinesEnd
  <2>1. TypeOK' BY NextTypes DEF IInv, Next
  <2>2. Mine' BY DEF IInv, Mine
  <2>3. Answered' BY DEF IInv, Answered
  <2>4. Begun' BY DEF IInv, Begun
  <2>5. AnswerIsMine' /\ NoLeak' BY DEF IInv, AnswerIsMine, NoLeak
  <2> QED BY <2>1, <2>2, <2>3, <2>4, <2>5 DEF IInv
<1>2. CASE ~owned
  <2>1. owned' = FALSE /\ stoped' = TRUE
    BY <1>2 DEF CoroutinesEnd, IInv, TypeOK
  <2>2. TypeOK' BY NextTypes DEF IInv, Next
  <2> QED BY <1>2, <2>1, <2>2, Gone DEF CoroutinesEnd
<1> QED BY <1>1, <1>2

LEMMA DropInv == ASSUME IInv, Drop PROVE IInv'
<1>1. CASE ~held
  <2>1. TypeOK' BY NextTypes DEF IInv, Next
  <2> QED BY <1>1, <2>1, Gone DEF Drop
<1>2. CASE held
  <2> USE <1>2 DEF Drop
  <2>1. TypeOK' BY NextTypes DEF IInv, Next
  <2>2. Mine' BY DEF IInv, Mine
  <2>3. Answered' BY DEF Answered
  <2>4. Begun' BY DEF IInv, Begun
  <2>5. AnswerIsMine' /\ NoLeak' BY DEF IInv, AnswerIsMine, NoLeak
  <2> QED BY <2>1, <2>2, <2>3, <2>4, <2>5 DEF IInv
<1> QED BY <1>1, <1>2

\* A wait that ends leaves what is waiting for its turn as it is.
LEMMA AnsweredStays ==
  ASSUME IInv, NEW S \in SUBSET Serial, NEW b \in BOOLEAN, Wake(Waiting(S), b),
         b => \A s \in S : s \in DOMAIN reqs' /\ reqs'[s].data # 0,
         \A s \in DOMAIN reqs : s \in DOMAIN reqs' /\ (reqs[s].data # 0 => reqs'[s].data # 0),
         UNCHANGED <<stoped, owned, call>>
  PROVE  Answered'
<1>1. Woken(Waiting(S), b) BY WaitingIn, WokenTypes DEF IInv
<1>2. SUFFICES ASSUME NEW i \in DOMAIN ready', ready'[i][2]
               PROVE  \/ ~owned
                      \/ LET s == SerialOf(call[ready'[i][1]]) IN s \in DOMAIN reqs' /\ reqs'[s].data # 0
  BY DEF IInv, Answered
<1>3. CASE i \in DOMAIN ready BY <1>1, <1>2, <1>3 DEF IInv, Answered, Woken
<1>4. CASE i \notin DOMAIN ready
  <2>1. ready'[i][1] \in Waiting(S) /\ b BY <1>1, <1>2, <1>4 DEF Woken
  <2>2. SerialOf(call[ready'[i][1]]) \in S BY <2>1 DEF Waiting
  <2> QED BY <2>1, <2>2
<1> QED BY <1>3, <1>4

LEMMA SendInv == ASSUME IInv, NEW c \in Co, SendRequest(c), Fresh PROVE IInv'
<1> DEFINE s == SerialOf(count + 1)
<1>1. TypeOK' BY NextTypes DEF IInv, Next
<1>2. /\ count' = count + 1 /\ count + 1 \in Count /\ count + 1 # 0 /\ count' # count
      /\ call[c] = 0 /\ call' = [call EXCEPT ![c] = count + 1] /\ ~stoped /\ owned
  BY Consts DEF SendRequest, IInv, TypeOK, Count
<1>3. /\ s \notin DOMAIN reqs
      /\ \A p \in flying : p.serial # s
      /\ \A d \in Co : call[d] # 0 => SerialOf(call[d]) # s
  BY <1>2 DEF Fresh
<1>4. reqs' = [x \in DOMAIN reqs \cup {s} |->
                 IF x \in DOMAIN reqs THEN reqs[x] ELSE [data |-> 0, expired |-> FALSE]]
  BY DEF SendRequest
<1> DEFINE new == [kind |-> IF s = 0 THEN "push" ELSE "request", serial |-> s, of |-> count + 1]
<1>5. new.serial = s /\ new.of = count + 1 /\ flying' = flying \cup {new}
  <2>1. flying' = flying \cup {new} BY DEF SendRequest
  <2> HIDE DEF s
  <2>2. new.serial = s /\ new.of = count + 1 OBVIOUS
  <2> QED BY <2>1, <2>2
<1> HIDE DEF new
<1>6. call' \in [Co -> 0..MaxCount] /\ call'[c] = count + 1 /\ \A d \in Co : d # c => call'[d] = call[d]
  BY <1>1, <1>2 DEF IInv, TypeOK
<1> HIDE DEF s
<1>7. /\ DOMAIN reqs' = DOMAIN reqs \cup {s} /\ \A x \in DOMAIN reqs : reqs'[x] = reqs[x]
      /\ reqs'[s].data = 0 /\ ~reqs'[s].expired
  BY <1>3, <1>4
<1>8. SerialOf(call'[c]) = s BY <1>6 DEF s
<1>9. ready' = ready
  BY <1>7 DEF SendRequest, s
<1>10. Mine'
  <2>1. \A d, e \in Co : call'[d] # 0 /\ call'[e] # 0 /\ SerialOf(call'[d]) = SerialOf(call'[e]) => d = e
    BY <1>3, <1>6, <1>8 DEF IInv, Mine
  <2>2. \A d \in Co, p \in flying' : call'[d] # 0 /\ p.serial = SerialOf(call'[d]) => p.of = call'[d]
    <3>1. SUFFICES ASSUME NEW d \in Co, NEW p \in flying', call'[d] # 0, p.serial = SerialOf(call'[d])
                   PROVE  p.of = call'[d]
      OBVIOUS
    <3>2. CASE p = new
      <4>1. d = c BY <3>1, <3>2, <1>3, <1>5, <1>6
      <4> QED BY <4>1, <3>2, <1>5, <1>6
    <3>3. CASE p \in flying
      <4>1. d # c BY <3>1, <3>3, <1>3, <1>8
      <4> QED BY <4>1, <3>1, <3>3, <1>6 DEF IInv, Mine
    <3> QED BY <3>2, <3>3, <1>5
  <2>3. \A d \in Co : call'[d] # 0 /\ SerialOf(call'[d]) \in DOMAIN reqs'
                        => reqs'[SerialOf(call'[d])].data \in {0, call'[d]}
    BY <1>3, <1>6, <1>7, <1>8 DEF IInv, Mine
  <2> QED BY <2>1, <2>2, <2>3 DEF Mine
<1>11. Answered'
  <2>1. \A i \in DOMAIN ready : call[ready[i][1]] # 0 BY DEF IInv, TypeOK
  <2>2. \A i \in DOMAIN ready : ready[i][1] # c BY <2>1, <1>2
  <2>3. \A i \in DOMAIN ready : ready[i][1] \in Co
    <3>1. ready \in Seq(Co \X BOOLEAN) BY DEF IInv, TypeOK
    <3> QED BY <3>1, LenProperties, ElementOfSeq
  <2>4. \A i \in DOMAIN ready : call'[ready[i][1]] = call[ready[i][1]] BY <2>2, <2>3, <1>6
  <2> QED BY <2>4, <1>2, <1>7, <1>9 DEF IInv, Answered, SendRequest
<1>12. Begun' BY <1>2 DEF IInv, Begun, SendRequest
<1>13. AnswerIsMine' BY DEF IInv, AnswerIsMine, SendRequest
<1>14. NoLeak'
  <2>1. SUFFICES ASSUME gen = 1
                 PROVE  /\ DOMAIN reqs' = {SerialOf(call'[d]) : d \in {x \in Co : call'[x] # 0}}
                        /\ \A d, e \in Co : call'[d] # 0 /\ d # e => call'[d] # call'[e]
    BY DEF NoLeak, SendRequest
  <2>2. DOMAIN reqs = {SerialOf(call[d]) : d \in {x \in Co : call[x] # 0}}
    BY <2>1, <1>2 DEF IInv, NoLeak
  <2>3. DOMAIN reqs' \subseteq {SerialOf(call'[d]) : d \in {x \in Co : call'[x] # 0}}
    BY <2>2, <1>2, <1>6, <1>7, <1>8
  <2>4. {SerialOf(call'[d]) : d \in {x \in Co : call'[x] # 0}} \subseteq DOMAIN reqs'
    BY <2>2, <1>2, <1>6, <1>7, <1>8
  <2>5. \A d, e \in Co : call'[d] # 0 /\ d # e => call'[d] # call'[e]
    BY <1>10 DEF Mine
  <2> QED BY <2>3, <2>4, <2>5
<1> QED BY <1>1, <1>10, <1>11, <1>12, <1>13, <1>14 DEF IInv

LEMMA ServerAnswersInv == ASSUME IInv, ServerAnswers PROVE IInv'
<1>1. TypeOK' BY NextTypes DEF IInv, Next
<1>2. PICK p \in flying : flying' = (flying \ {p}) \cup {[p EXCEPT !.kind = "response"]}
  BY DEF ServerAnswers
<1>3. [p EXCEPT !.kind = "response"].serial = p.serial /\ [p EXCEPT !.kind = "response"].of = p.of
  <2>1. p \in Packet BY DEF IInv, TypeOK
  <2> QED BY <2>1 DEF Packet
<1>4. \A q \in flying' : \E r \in flying : q.serial = r.serial /\ q.of = r.of BY <1>2, <1>3
<1>5. Mine' BY <1>4 DEF IInv, Mine, ServerAnswers
<1>6. Answered' BY DEF IInv, Answered, ServerAnswers
<1>7. Begun' BY DEF IInv, Begun, ServerAnswers
<1>8. AnswerIsMine' /\ NoLeak' BY DEF IInv, AnswerIsMine, NoLeak, ServerAnswers
<1> QED BY <1>1, <1>5, <1>6, <1>7, <1>8 DEF IInv

LEMMA HandleInv == ASSUME IInv, HandleMessage PROVE IInv'
<1>1. TypeOK' BY NextTypes DEF IInv, Next
<1>2. PICK p \in flying :
        /\ flying' = flying \ {p}
        /\ IF p.serial \in DOMAIN reqs
           THEN reqs' = [reqs EXCEPT ![p.serial].data = p.of] /\ Wake(Waiting({p.serial}), TRUE)
           ELSE UNCHANGED <<reqs, ready>>
        /\ UNCHANGED <<stoped, gen, owned, held, count, call, ret>>
  BY DEF HandleMessage, HandleWaking
<1>3. p.serial \in Serial /\ p.of \in Count BY DEF IInv, TypeOK, Packet
<1>4. CASE p.serial \notin DOMAIN reqs
  <2> USE <1>2, <1>4
  <2>1. Mine' BY DEF IInv, Mine
  <2>2. Answered' BY DEF IInv, Answered
  <2>3. Begun' BY DEF IInv, Begun
  <2>4. AnswerIsMine' /\ NoLeak' BY DEF IInv, AnswerIsMine, NoLeak
  <2> QED BY <1>1, <2>1, <2>2, <2>3, <2>4 DEF IInv
<1>5. CASE p.serial \in DOMAIN reqs
  <2>1. /\ DOMAIN reqs' = DOMAIN reqs
        /\ \A x \in DOMAIN reqs : x # p.serial => reqs'[x] = reqs[x]
        /\ reqs'[p.serial] = [reqs[p.serial] EXCEPT !.data = p.of]
    BY <1>2, <1>5
  <2>2. reqs'[p.serial].data = p.of /\ p.of # 0
    BY <1>3, <1>5, <2>1 DEF IInv, TypeOK, Entry, Count
  <2>3. Mine'
    <3>1. \A c \in Co : call[c] # 0 /\ SerialOf(call[c]) \in DOMAIN reqs
                          => reqs'[SerialOf(call[c])].data \in {0, call[c]}
      BY <2>1, <2>2 DEF IInv, Mine
    <3> QED BY <3>1, <1>2, <2>1 DEF IInv, Mine
  <2>4. Answered'
    <3>1. Wake(Waiting({p.serial}), TRUE) /\ {p.serial} \in SUBSET Serial
      BY <1>2, <1>3, <1>5
    <3>2. \A s \in {p.serial} : s \in DOMAIN reqs' /\ reqs'[s].data # 0
      BY <1>5, <2>1, <2>2
    <3>3. \A s \in DOMAIN reqs : s \in DOMAIN reqs' /\ (reqs[s].data # 0 => reqs'[s].data # 0)
      BY <2>1, <2>2
    <3> QED BY <3>1, <3>2, <3>3, <1>2, AnsweredStays
  <2>5. Begun' BY <1>2, <2>1 DEF IInv, Begun
  <2>6. AnswerIsMine' /\ NoLeak' BY <1>2, <2>1 DEF IInv, AnswerIsMine, NoLeak
  <2> QED BY <1>1, <2>3, <2>4, <2>5, <2>6 DEF IInv
<1> QED BY <1>4, <1>5

LEMMA TimeoutInv == ASSUME IInv, Timeout PROVE IInv'
<1>1. TypeOK' BY NextTypes DEF IInv, Next
<1>2. PICK s \in DOMAIN reqs : /\ reqs' = [reqs EXCEPT ![s].expired = TRUE]
                               /\ Wake(Waiting({s}), FALSE)
                               /\ UNCHANGED <<stoped, gen, owned, held, count, flying, call, ret>>
  BY DEF Timeout
<1>3. /\ DOMAIN reqs' = DOMAIN reqs
      /\ \A x \in DOMAIN reqs : x # s => reqs'[x] = reqs[x]
      /\ reqs'[s] = [reqs[s] EXCEPT !.expired = TRUE]
  BY <1>2
<1>4. \A x \in DOMAIN reqs : reqs'[x].data = reqs[x].data
  <2>1. reqs[s] \in Entry BY DEF IInv, TypeOK
  <2>2. reqs'[s].data = reqs[s].data BY <1>3, <2>1 DEF Entry
  <2> QED BY <1>3, <2>2
<1>5. Mine' BY <1>2, <1>3, <1>4 DEF IInv, Mine
<1>6. Answered'
  <2>1. {s} \in SUBSET Serial BY <1>2 DEF IInv, TypeOK
  <2> QED BY <1>2, <1>3, <1>4, <2>1, AnsweredStays
<1>7. Begun' BY <1>2, <1>3 DEF IInv, Begun
<1>8. AnswerIsMine' /\ NoLeak' BY <1>2, <1>3 DEF IInv, AnswerIsMine, NoLeak
<1> QED BY <1>1, <1>5, <1>6, <1>7, <1>8 DEF IInv

LEMMA ResumeInv == ASSUME IInv, Resume PROVE IInv'
<1>1. TypeOK' BY NextTypes DEF IInv, Next
<1> DEFINE c == Head(ready)[1]
           cancelled == Head(ready)[2]
           s == SerialOf(call[c])
<1>2. /\ ready # <<>> /\ ready' = Tail(ready) /\ call' = [call EXCEPT ![c] = 0]
      /\ UNCHANGED <<stoped, gen, owned, held, count, flying>>
  BY DEF Resume, ResumeErasing
<1>3. IF stoped \/ s \notin DOMAIN reqs
      THEN /\ ret' = [of |-> call[c], answer |-> 0, stoped |-> stoped, late |-> ~cancelled]
           /\ UNCHANGED reqs
      ELSE /\ ret' = [of |-> call[c], answer |-> reqs[s].data, stoped |-> FALSE, late |-> ~cancelled]
           /\ reqs' = [x \in DOMAIN reqs \ {s} |-> reqs[x]]
  BY DEF Resume, ResumeErasing
<1>4. c \in Co /\ call[c] # 0 /\ c = ready[1][1] /\ cancelled = ready[1][2] /\ 1 \in DOMAIN ready
      /\ cancelled \in BOOLEAN
  BY <1>2, HeadTypes DEF IInv, Count
<1>5. \A i \in DOMAIN ready' : /\ i + 1 \in DOMAIN ready /\ ready'[i] = ready[i + 1]
                               /\ ready[i + 1][1] \in Co /\ ready[i + 1][1] # c
  BY <1>2, HeadTypes DEF IInv
<1>6. cancelled => ~owned \/ (s \in DOMAIN reqs /\ reqs[s].data # 0)
  BY <1>4 DEF IInv, Answered
<1>7. ~owned => stoped BY DEF IInv, Answered
<1>8. s \in DOMAIN reqs => reqs[s].data \in {0, call[c]} BY <1>4 DEF IInv, Mine
<1>9. \A d \in Co : d # c /\ call[d] # 0 => SerialOf(call[d]) # s BY <1>4 DEF IInv, Mine
<1> HIDE DEF c, cancelled, s
<1>10. call'[c] = 0 /\ \A d \in Co : d # c => call'[d] = call[d]
  BY <1>2, <1>4 DEF IInv, TypeOK
<1>11. /\ DOMAIN reqs' \subseteq DOMAIN reqs /\ DOMAIN reqs \ {s} \subseteq DOMAIN reqs'
       /\ \A x \in DOMAIN reqs' : reqs'[x] = reqs[x]
  BY <1>3
<1>12. Mine' BY <1>2, <1>10, <1>11 DEF IInv, Mine
<1>13. Answered'
  <2>1. SUFFICES ASSUME NEW i \in DOMAIN ready', ready'[i][2], owned
                 PROVE  LET z == SerialOf(call'[ready'[i][1]]) IN z \in DOMAIN reqs' /\ reqs'[z].data # 0
    BY <1>2 DEF IInv, Answered
  <2> DEFINE d == ready[i + 1][1]
             z == SerialOf(call[d])
  <2>2. d \in Co /\ d # c /\ i + 1 \in DOMAIN ready /\ ready'[i] = ready[i + 1] BY <1>5
  <2>3. call'[d] = call[d] /\ call[d] # 0 BY <2>2, <1>10 DEF IInv, TypeOK
  <2>4. z \in DOMAIN reqs /\ reqs[z].data # 0 BY <2>1, <2>2 DEF IInv, Answered
  <2>5. z # s BY <2>2, <2>3, <1>9
  <2> QED BY <2>2, <2>3, <2>4, <2>5, <1>11
<1>14. Begun' BY <1>2, <1>4 DEF IInv, Begun
<1>15. AnswerIsMine'
  <2>1. CASE stoped \/ s \notin DOMAIN reqs
    <3>1. ret'.of = call[c] /\ ret'.answer = 0 /\ ret'.stoped = stoped /\ ret'.late = ~cancelled
      BY <1>3, <2>1
    <3>2. stoped \/ ~cancelled BY <2>1, <1>6, <1>7
    <3> QED BY <3>1, <3>2 DEF AnswerIsMine
  <2>2. CASE ~stoped /\ s \in DOMAIN reqs
    <3>1. ret'.of = call[c] /\ ret'.answer = reqs[s].data /\ ret'.late = ~cancelled
      BY <1>3, <2>2
    <3>2. reqs[s].data = 0 => ~cancelled BY <2>2, <1>6, <1>7
    <3> QED BY <3>1, <3>2, <2>2, <1>8 DEF AnswerIsMine
  <2> QED BY <2>1, <2>2
<1>16. NoLeak'
  <2>1. SUFFICES ASSUME gen = 1, ~stoped
                 PROVE  /\ DOMAIN reqs' = {SerialOf(call'[d]) : d \in {x \in Co : call'[x] # 0}}
                        /\ \A d, e \in Co : call'[d] # 0 /\ d # e => call'[d] # call'[e]
    BY <1>2 DEF NoLeak
  <2>2. DOMAIN reqs = {SerialOf(call[d]) : d \in {x \in Co : call[x] # 0}}
    BY <2>1 DEF IInv, NoLeak
  <2>3. s \in DOMAIN reqs BY <2>2, <1>4 DEF s
  <2>4. DOMAIN reqs' = DOMAIN reqs \ {s} BY <1>3, <2>1, <2>3
  <2>5. DOMAIN reqs' \subseteq {SerialOf(call'[d]) : d \in {x \in Co : call'[x] # 0}}
    <3>1. SUFFICES ASSUME NEW x \in DOMAIN reqs
                   PROVE  x # s => x \in {SerialOf(call'[d]) : d \in {y \in Co : call'[y] # 0}}
      BY <2>4
    <3>2. PICK d \in Co : call[d] # 0 /\ x = SerialOf(call[d]) BY <2>2
    <3> QED BY <3>2, <1>10 DEF s
  <2>6. {SerialOf(call'[d]) : d \in {x \in Co : call'[x] # 0}} \subseteq DOMAIN reqs'
    BY <2>2, <2>4, <1>9, <1>10
  <2>7. \A d, e \in Co : call'[d] # 0 /\ d # e => call'[d] # call'[e]
    BY <1>12 DEF Mine
  <2> QED BY <2>5, <2>6, <2>7
<1> QED BY <1>1, <1>12, <1>13, <1>14, <1>15, <1>16 DEF IInv

LEMMA NextInv == ASSUME IInv, [Next]_vars, [Fresh]_vars PROVE IInv'
<1>1. CASE UNCHANGED vars
  <2> USE <1>1 DEF vars
  <2>1. TypeOK' BY NextTypes DEF IInv
  <2>2. Mine' /\ Begun' BY DEF IInv, Mine, Begun
  <2>3. Answered' BY DEF IInv, Answered
  <2>4. AnswerIsMine' /\ NoLeak' BY DEF IInv, AnswerIsMine, NoLeak
  <2> QED BY <2>1, <2>2, <2>3, <2>4 DEF IInv
<1>2. CASE Next /\ Fresh
  BY <1>2, StartInv, StopInv, CoroutinesEndInv, DropInv, SendInv, ServerAnswersInv,
     HandleInv, TimeoutInv, ResumeInv DEF Next
<1> QED BY <1>1, <1>2

-----------------------------------------------------------------------------
\* As long as no serial is given again while something goes by it, a call returns its own
\* answer, or nothing when it is late or the peer has stopped, and on the first
\* connection no entry is forgotten: for any number of requests, serials that have
\* gone round included.
THEOREM FreshSerials == Spec /\ [][Fresh]_vars => [](AnswerIsMine /\ NoLeak)
<1>1. Init => IInv BY InitInv
<1>2. IInv /\ [Next]_vars /\ [Fresh]_vars => IInv' BY NextInv
<1>3. IInv => AnswerIsMine /\ NoLeak BY DEF IInv
<1> QED BY <1>1, <1>2, <1>3, PTL DEF Spec

-----------------------------------------------------------------------------
(* No serial is given again before they are used up. *)

SentInv == TypeOK /\ Sent

LEMMA InitSent == Init => SentInv
<1> SUFFICES ASSUME Init PROVE SentInv OBVIOUS
<1>1. DOMAIN reqs = {} /\ flying = {} /\ count = 0 /\ \A c \in Co : call[c] = 0 BY DEF Init
<1>2. Sent BY <1>1 DEF Sent
<1> QED BY <1>2, InitTypes DEF SentInv

LEMMA NextSent == ASSUME SentInv, [Next]_vars PROVE SentInv'
<1>1. TypeOK' BY NextTypes DEF SentInv
<1>2. count \in Nat BY Consts DEF SentInv, TypeOK
<1>3. CASE \E c \in Co : SendRequest(c)
  <2>1. PICK c \in Co : SendRequest(c) BY <1>3
  <2> DEFINE s == SerialOf(count + 1)
             new == [kind |-> IF s = 0 THEN "push" ELSE "request", serial |-> s, of |-> count + 1]
  <2>2. /\ count' = count + 1 /\ call' = [call EXCEPT ![c] = count + 1]
        /\ DOMAIN reqs' = DOMAIN reqs \cup {s} /\ flying' = flying \cup {new}
    BY <2>1 DEF SendRequest
  <2>3. new.of = count + 1 /\ new.serial = SerialOf(new.of) OBVIOUS
  <2> HIDE DEF new
  <2>4. \A p \in flying : p.of \in Nat BY Consts DEF SentInv, TypeOK, Packet, Count
  <2>5. \A d \in Co : call[d] \in Nat BY Consts DEF SentInv, TypeOK
  <2>6. \A d \in Co : call'[d] <= count'
    BY <2>2, <2>5, <1>2 DEF SentInv, Sent, TypeOK
  <2>7. \A p \in flying' : p.of <= count' /\ p.serial = SerialOf(p.of)
    BY <2>2, <2>3, <2>4, <1>2 DEF SentInv, Sent
  <2>8. \A x \in DOMAIN reqs' : \E n \in 1..count' : x = SerialOf(n)
    <3>1. count + 1 \in 1..count' /\ 1..count \subseteq 1..count' BY <2>2, <1>2
    <3> QED BY <2>2, <3>1 DEF SentInv, Sent
  <2> QED BY <2>6, <2>7, <2>8, <1>1 DEF SentInv, Sent
<1>4. CASE ~\E c \in Co : SendRequest(c)
  <2>1. count' = count
    BY <1>4 DEF Next, vars, Start, Stop, CoroutinesEnd, Drop, ServerAnswers, HandleMessage,
       HandleWaking, Timeout, Resume, ResumeErasing
  <2>2. \A c \in Co : call'[c] \in {call[c], 0}
    BY <1>4 DEF Next, vars, Start, Stop, CoroutinesEnd, Drop, ServerAnswers, HandleMessage,
       HandleWaking, Timeout, Resume, ResumeErasing, SentInv, TypeOK
  <2>3. \A p \in flying' : \E q \in flying : p.of = q.of /\ p.serial = q.serial
    <3>1. CASE ServerAnswers
      <4>1. PICK q \in flying : flying' = (flying \ {q}) \cup {[q EXCEPT !.kind = "response"]}
        BY <3>1 DEF ServerAnswers
      <4>2. [q EXCEPT !.kind = "response"].serial = q.serial /\ [q EXCEPT !.kind = "response"].of = q.of
        BY DEF SentInv, TypeOK, Packet
      <4> QED BY <4>1, <4>2
    <3>2. CASE ~ServerAnswers
      <4>1. flying' \subseteq flying
        BY <1>4, <3>2 DEF Next, vars, Start, Stop, CoroutinesEnd, Drop, HandleMessage,
           HandleWaking, Timeout, Resume, ResumeErasing
      <4> QED BY <4>1
    <3> QED BY <3>1, <3>2
  <2>4. DOMAIN reqs' \subseteq DOMAIN reqs
    <3>1. \/ reqs' = reqs \/ reqs' = <<>>
          \/ \E s \in DOMAIN reqs : \E e : reqs' = [reqs EXCEPT ![s] = e]
          \/ \E D : reqs' = [x \in DOMAIN reqs \ D |-> reqs[x]]
      <4>1. CASE Start \/ Stop \/ ServerAnswers \/ UNCHANGED vars
        BY <4>1 DEF Start, Stop, ServerAnswers, vars
      <4>2. CASE CoroutinesEnd \/ Drop BY <4>2 DEF CoroutinesEnd, Drop
      <4>3. CASE HandleMessage BY <4>3 DEF HandleMessage, HandleWaking
      <4>4. CASE Timeout BY <4>4 DEF Timeout
      <4>5. CASE Resume BY <4>5 DEF Resume, ResumeErasing
      <4> QED BY <1>4, <4>1, <4>2, <4>3, <4>4, <4>5 DEF Next
    <3>2. DOMAIN <<>> = {} OBVIOUS
    <3> QED BY <3>1, <3>2
  <2>5. \A c \in Co : call'[c] <= count' BY <2>1, <2>2, <1>2 DEF SentInv, Sent
  <2> QED BY <2>1, <2>3, <2>4, <2>5, <1>1 DEF SentInv, Sent
<1> QED BY <1>3, <1>4

\* Serials of requests that are less than Modulus apart differ.
LEMMA SerialsDiffer ==
  ASSUME NEW m \in Nat, NEW n \in Nat, 1 <= m, m < n, n <= Modulus
  PROVE  SerialOf(m) # SerialOf(n)
<1>1. m % Modulus = m /\ m # 0 BY Consts
<1>2. CASE n = Modulus
  <2>1. n % Modulus = 0 BY <1>2, Consts
  <2> QED BY <1>1, <2>1 DEF SerialOf
<1>3. CASE n < Modulus
  <2>1. n % Modulus = n BY <1>3, Consts
  <2> QED BY <1>1, <2>1 DEF SerialOf
<1> QED BY <1>2, <1>3, Consts

LEMMA SentFresh == ASSUME MaxCount <= Modulus, SentInv, [Next]_vars PROVE [Fresh]_vars
<1>1. SUFFICES ASSUME count' # count PROVE Fresh BY DEF Fresh
<1>2. PICK c \in Co : SendRequest(c)
  BY <1>1 DEF Next, vars, Start, Stop, CoroutinesEnd, Drop, ServerAnswers, HandleMessage,
     HandleWaking, Timeout, Resume, ResumeErasing
<1>3. count' = count + 1 /\ count \in Nat /\ count + 1 <= Modulus
  BY <1>2, Consts DEF SendRequest, SentInv, TypeOK
<1>4. \A n \in 1..count : SerialOf(n) # SerialOf(count')
  BY <1>3, SerialsDiffer
<1>5. \A d \in Co : call[d] # 0 => call[d] \in 1..count
  BY <1>3, Consts DEF SentInv, Sent, TypeOK
<1>6. \A p \in flying : p.of \in 1..count
  BY <1>3, Consts DEF SentInv, Sent, TypeOK, Packet, Count
<1> QED BY <1>4, <1>5, <1>6 DEF Fresh, SentInv, Sent

\* So a call returns its own answer, or nothing when it is late or the peer has stopped,
\* at least until the 0x7FFFFFFF serials are used up.
THEOREM OwnAnswers == MaxCount <= Modulus => (Spec => []AnswerIsMine)
<1> SUFFICES ASSUME MaxCount <= Modulus PROVE Spec => []AnswerIsMine OBVIOUS
<1>1. Init => SentInv BY InitSent
<1>2. SentInv /\ [Next]_vars => SentInv' BY NextSent
<1>3. SentInv /\ [Next]_vars => [Fresh]_vars BY SentFresh
<1>4. Spec => [][Fresh]_vars BY <1>1, <1>2, <1>3, PTL DEF Spec
<1> QED BY <1>4, FreshSerials, PTL

\* And no entry is forgotten in reqs on the first connection of a peer until then.
THEOREM NothingForgotten == MaxCount <= Modulus => (Spec => []NoLeak)
<1> SUFFICES ASSUME MaxCount <= Modulus PROVE Spec => []NoLeak OBVIOUS
<1>1. Init => SentInv BY InitSent
<1>2. SentInv /\ [Next]_vars => SentInv' BY NextSent
<1>3. SentInv /\ [Next]_vars => [Fresh]_vars BY SentFresh
<1>4. Spec => [][Fresh]_vars BY <1>1, <1>2, <1>3, PTL DEF Spec
<1> QED BY <1>4, FreshSerials, PTL
=============================================================================
