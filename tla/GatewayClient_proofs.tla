------------------------ MODULE GatewayClient_proofs ------------------------
(* Proofs that a call of the gateway client sees only its own connection,   *)
(* that none sleeps on a package, and that Dial tells what it did, for any  *)
(* number of coroutines, servers and peers; and, when only one coroutine    *)
(* calls WaitOpens, that it gets the right answer.                          *)
EXTENDS GatewayClient, FiniteSetTheorems, SequenceTheorems, TLAPS

Callers == Popper \cup Opener
\* The waits during which the peer is not up.
Early == {"resolve", "connect", "bind", "send", "receive"}

Distinct(s) == \A i, j \in DOMAIN s : s[i] = s[j] => i = j
\* Calls that are ready resume before the Dialer.
Behind(s) == \A i, j \in DOMAIN s : s[i] = Dialer /\ i < j => s[j] \notin Callers

Once == Distinct(ready)

\* Who waits for what; the waits of the Dialer are those of its way.
Kinds ==
  /\ \A c \in Popper : call[c].op \in {"none", "pop"}
  /\ \A c \in Opener : call[c].op \in {"none", "opens"}
  /\ LET op == call[Dialer].op IN
       /\ op \in {"none", "resolve", "secret"} \cup Early
       /\ op = "connect" => way # "kcp"
       /\ op = "secret" => way = "encrypted"
       /\ op \in {"bind", "send", "receive"} => way = "kcp"

\* The peer is not up before the last wait but that for the secret, and has its secret
\* as soon as it is agreed.
Agreed ==
  LET op == call[Dialer].op IN
    /\ op \in Early => ~up
    /\ op \in {"send", "receive"} => secret
    /\ op = "secret" => (secret <=> up)

Turns == call[Dialer].op \in Early => Behind(ready)

PopWaits == Waiting("pop") # {} => waitingObject

\* The parts of TypeOK and OwnConnection.
Typed ==
  /\ peer \in 0..MaxPeer /\ way \in Ways /\ up \in BOOLEAN /\ alarm \in 0..MaxPeer
  /\ line \in {"open", "closed", "deaf"} /\ secret \in BOOLEAN
  /\ openServerIds \subseteq Server /\ openWaitServerIds \subseteq Server
  /\ recvObjs \in [Server -> 0..MaxQueue] /\ recvDatas \in 0..MaxQueue
  /\ waitingObject \in BOOLEAN /\ call \in [Co -> Call] /\ ready \in Seq(Co \cup {Alarm})
IdleAside == \A c \in Co : call[c].op = "none" => c \notin Woken
Ciphered == up => (secret <=> way # "tcp")
Current == \A c \in Callers : call[c].op # "none" => IF up THEN call[c].gen = peer ELSE c \in Woken

IInv == /\ Typed /\ IdleAside /\ Once /\ Kinds /\ Agreed /\ Turns
        /\ CleanWhenDown /\ Ciphered /\ Current /\ PopAwake /\ PopWaits

\* The list belongs to the only WaitOpens, and is empty as soon as all of it was open.
Opening ==
  \A c \in Opener : LET ids == call[c].ids IN
    up /\ call[c].op = "opens" =>
      /\ ids # {}
      /\ c \notin Woken => /\ openWaitServerIds = ids /\ ~call[c].seen
                           /\ ~(ids \subseteq openServerIds)
      /\ c \in Woken => /\ openWaitServerIds \in {{}, ids}
                        /\ openWaitServerIds = {} <=> call[c].seen
                        /\ openWaitServerIds = {} \/ call[c].late

LEMMA Consts ==
  /\ Popper \subseteq Co /\ Opener \subseteq Co /\ Callers \subseteq Co /\ Co = Callers \cup {Dialer}
  /\ Dialer \in Co /\ Dialer \notin Callers /\ Alarm \notin Co
  /\ Popper \cap Opener = {} /\ MaxPeer \in Nat /\ MaxQueue \in Nat
  /\ \A ids \in Wants : ids \in SUBSET Server /\ ids # {}
  /\ Asked \in [1..MaxPeer -> SUBSET Ways]
  BY ClientAssumption DEF ClientAssumption, Co, Callers

LEMMA Finite == \A S \in SUBSET Co : IsFiniteSet(S)
<1>1. IsFiniteSet(Popper \cup Opener) BY ClientAssumption DEF ClientAssumption
<1>2. IsFiniteSet((Popper \cup Opener) \cup {Dialer}) BY <1>1, FS_AddElement
<1>3. IsFiniteSet(Co) BY <1>2 DEF Co
<1> QED BY <1>3, FS_Subset

\* A step that is nothing to those who wait in WaitOpens.
OpenersKept ==
  \A c \in Opener : /\ c \in Woken' <=> c \in Woken
                    /\ call'[c].op = call[c].op /\ call'[c].ids = call[c].ids
                    /\ call'[c].late = call[c].late /\ call'[c].seen = call[c].seen

-----------------------------------------------------------------------------
(* Queues: what is in them, in which order. *)

LEMMA Queues ==
  ASSUME NEW T, NEW s \in Seq(T)
  PROVE  Len(s) \in Nat /\ DOMAIN s = 1..Len(s) /\ \A i \in DOMAIN s : s[i] \in T
<1>1. Len(s) \in Nat /\ DOMAIN s = 1..Len(s) BY LenProperties
<1> QED BY <1>1, ElementOfSeq

LEMMA AppendQueue ==
  ASSUME NEW T, NEW s \in Seq(T), NEW x \in T, x \notin ToSet(s), Distinct(s)
  PROVE  /\ Append(s, x) \in Seq(T) /\ Distinct(Append(s, x))
         /\ ToSet(Append(s, x)) = ToSet(s) \cup {x}
         /\ Behind(s) /\ x \notin Callers => Behind(Append(s, x))
<1> DEFINE u == Append(s, x)
<1>1. Len(s) \in Nat /\ DOMAIN s = 1..Len(s) BY Queues
<1>2. /\ u \in Seq(T) /\ Len(u) = Len(s) + 1
      /\ \A i \in 1..Len(s) : u[i] = s[i]
      /\ u[Len(s) + 1] = x
  BY AppendProperties
<1> HIDE DEF u
<1>3. DOMAIN u = 1..(Len(s) + 1) BY <1>2, LenProperties
<1>4. \A i \in DOMAIN s : i \in DOMAIN u /\ u[i] = s[i] /\ i < Len(s) + 1 BY <1>1, <1>2, <1>3
<1>5. \A i \in DOMAIN u : i \in DOMAIN s \/ i = Len(s) + 1 BY <1>1, <1>3
<1>6. Len(s) + 1 \in DOMAIN u BY <1>1, <1>3
<1>7. ToSet(u) = ToSet(s) \cup {x} BY <1>2, <1>4, <1>5, <1>6 DEF ToSet
<1>8. Distinct(u) BY <1>2, <1>4, <1>5 DEF Distinct, ToSet
<1>9. Behind(s) /\ x \notin Callers => Behind(u) 
  <2> SUFFICES ASSUME Behind(s), x \notin Callers, NEW i \in DOMAIN u, NEW j \in DOMAIN u,
                      u[i] = Dialer, i < j
               PROVE  u[j] \notin Callers
    BY DEF Behind
  <2>1. CASE j \in DOMAIN s
    <3>1. i \in DOMAIN s BY <2>1, <1>1, <1>3
    <3> QED BY <2>1, <3>1, <1>4 DEF Behind
  <2>2. CASE j = Len(s) + 1 BY <2>2, <1>2
  <2> QED BY <2>1, <2>2, <1>5
<1> QED BY <1>2, <1>7, <1>8, <1>9 DEF u

LEMMA TailQueue ==
  ASSUME NEW T, NEW s \in Seq(T), s # <<>>, Distinct(s)
  PROVE  /\ Tail(s) \in Seq(T) /\ Distinct(Tail(s))
         /\ Head(s) \in ToSet(s) /\ ToSet(Tail(s)) = ToSet(s) \ {Head(s)}
         /\ Behind(s) => Behind(Tail(s))
         /\ Behind(s) /\ Head(s) = Dialer => ToSet(s) \cap Callers = {}
<1> DEFINE u == Tail(s)
<1>1. Len(s) \in Nat /\ DOMAIN s = 1..Len(s) /\ Len(s) # 0 BY Queues, EmptySeq
<1>2. u \in Seq(T) /\ Len(u) = Len(s) - 1 /\ \A i \in 1..Len(u) : u[i] = s[i + 1]
  BY HeadTailProperties
<1>3. Head(s) = s[1] /\ 1 \in DOMAIN s BY <1>1
<1> HIDE DEF u
<1>4. DOMAIN u = 1..(Len(s) - 1) BY <1>2, LenProperties
<1>5. \A i \in DOMAIN u : i + 1 \in DOMAIN s /\ i + 1 # 1 /\ u[i] = s[i + 1] BY <1>1, <1>2, <1>4
<1>6. \A i \in DOMAIN s : i = 1 \/ (i - 1 \in DOMAIN u /\ u[i - 1] = s[i])
  <2> SUFFICES ASSUME NEW i \in DOMAIN s, i # 1 PROVE i - 1 \in DOMAIN u /\ u[i - 1] = s[i] OBVIOUS
  <2>1. i - 1 \in DOMAIN u /\ (i - 1) + 1 = i BY <1>1, <1>4
  <2> QED BY <2>1, <1>5
<1>7. ToSet(u) = ToSet(s) \ {Head(s)}
  <2>1. \A y \in ToSet(u) : y \in ToSet(s) /\ y # Head(s) BY <1>3, <1>5 DEF ToSet, Distinct
  <2>2. \A y \in ToSet(s) : y # Head(s) => y \in ToSet(u) BY <1>3, <1>6 DEF ToSet
  <2> QED BY <2>1, <2>2
<1>8. Distinct(u)
  <2> SUFFICES ASSUME NEW i \in DOMAIN u, NEW j \in DOMAIN u, u[i] = u[j] PROVE i = j
    BY DEF Distinct
  <2>1. i + 1 = j + 1 BY <1>5 DEF Distinct
  <2> QED BY <2>1, <1>1, <1>4
<1>9. Behind(s) => Behind(u)
  <2> SUFFICES ASSUME Behind(s), NEW i \in DOMAIN u, NEW j \in DOMAIN u, u[i] = Dialer, i < j
               PROVE  u[j] \notin Callers
    BY DEF Behind
  <2>1. i + 1 < j + 1 BY <1>1, <1>4
  <2> QED BY <2>1, <1>5 DEF Behind
<1>10. ASSUME Behind(s), Head(s) = Dialer PROVE ToSet(s) \cap Callers = {}
  <2>1. \A j \in DOMAIN s : j = 1 \/ 1 < j BY <1>1
  <2>2. \A j \in DOMAIN s : s[j] \notin Callers BY <2>1, <1>3, <1>10, Consts DEF Behind
  <2> QED BY <2>2 DEF ToSet
<1>11. Head(s) \in ToSet(s) BY <1>3 DEF ToSet
<1> QED BY <1>2, <1>7, <1>8, <1>9, <1>10, <1>11 DEF u

LEMMA ConcatQueue ==
  ASSUME NEW T, NEW s \in Seq(T), NEW t \in Seq(T), Distinct(s), Distinct(t), ToSet(s) \cap ToSet(t) = {}
  PROVE  s \o t \in Seq(T) /\ Distinct(s \o t) /\ ToSet(s \o t) = ToSet(s) \cup ToSet(t)
<1> DEFINE u == s \o t
<1>1. /\ Len(s) \in Nat /\ DOMAIN s = 1..Len(s)
      /\ Len(t) \in Nat /\ DOMAIN t = 1..Len(t)
  BY Queues
<1>2. /\ u \in Seq(T) /\ Len(u) = Len(s) + Len(t)
      /\ \A i \in 1..(Len(s) + Len(t)) : u[i] = IF i <= Len(s) THEN s[i] ELSE t[i - Len(s)]
  BY ConcatProperties
<1> HIDE DEF u
<1>3. DOMAIN u = 1..(Len(s) + Len(t)) BY <1>2, LenProperties
<1>4. \A i \in DOMAIN s : i \in DOMAIN u /\ u[i] = s[i] BY <1>1, <1>2, <1>3
<1>5. \A i \in DOMAIN u \ DOMAIN s : i - Len(s) \in DOMAIN t /\ u[i] = t[i - Len(s)]
  BY <1>1, <1>2, <1>3
<1>6. \A k \in DOMAIN t : k + Len(s) \in DOMAIN u \ DOMAIN s /\ u[k + Len(s)] = t[k]
  <2> SUFFICES ASSUME NEW k \in DOMAIN t
               PROVE  k + Len(s) \in DOMAIN u \ DOMAIN s /\ u[k + Len(s)] = t[k]
    OBVIOUS
  <2>1. k + Len(s) \in DOMAIN u \ DOMAIN s /\ (k + Len(s)) - Len(s) = k BY <1>1, <1>3
  <2> QED BY <2>1, <1>5
<1>7. ToSet(u) = ToSet(s) \cup ToSet(t)
  <2>1. \A y \in ToSet(u) : y \in ToSet(s) \cup ToSet(t) BY <1>4, <1>5 DEF ToSet
  <2>2. \A y \in ToSet(s) \cup ToSet(t) : y \in ToSet(u) BY <1>4, <1>6 DEF ToSet
  <2> QED BY <2>1, <2>2
<1>8. Distinct(u)
  <2> SUFFICES ASSUME NEW i \in DOMAIN u, NEW j \in DOMAIN u, u[i] = u[j] PROVE i = j
    BY DEF Distinct
  <2>1. CASE i \in DOMAIN s /\ j \in DOMAIN s BY <2>1, <1>4 DEF Distinct
  <2>2. \A k \in DOMAIN u : IF k \in DOMAIN s THEN u[k] \in ToSet(s) ELSE u[k] \in ToSet(t)
    BY <1>4, <1>5 DEF ToSet
  <2>3. i \in DOMAIN s <=> j \in DOMAIN s BY <2>2
  <2>4. CASE i \notin DOMAIN s /\ j \notin DOMAIN s
    <3>1. i - Len(s) = j - Len(s) BY <2>4, <1>5 DEF Distinct
    <3> QED BY <3>1, <1>1, <1>3
  <2> QED BY <2>1, <2>3, <2>4
<1> QED BY <1>2, <1>7, <1>8 DEF u

\* The coroutines of S wake, and each stands in ready once.
Stands(W) == ready' \in Seq(Co \cup {Alarm}) /\ Once' /\ Woken' = W

LEMMA Orders ==
  ASSUME NEW S \in SUBSET Co, NEW order \in SetToSeqs(S)
  PROVE  order \in Seq(S) /\ Distinct(order) /\ ToSet(order) = S
<1> DEFINE n == Cardinality(S)
<1>1. IsFiniteSet(S) /\ n \in Nat BY Finite, FS_CardinalityType
<1>2. order \in [1..n -> S] /\ \A i, j \in 1..n : i # j => order[i] # order[j] BY DEF SetToSeqs
<1>3. order \in Seq(S) /\ DOMAIN order = 1..n BY <1>1, <1>2, SeqDef
<1>4. IsFiniteSet(1..n) /\ Cardinality(1..n) = n
  <2> HIDE DEF n
  <2>1. IsFiniteSet(1..n) /\ Cardinality(1..n) = IF 1 > n THEN 0 ELSE n - 1 + 1 BY <1>1, FS_Interval
  <2> QED BY <2>1, <1>1
<1>5. order \in Injection(1..n, S) BY <1>2 DEF Injection, IsInjective
<1>6. order \in Surjection(1..n, S) BY <1>1, <1>4, <1>5, FS_Injection
<1>7. \A x \in S : \E i \in 1..n : order[i] = x BY <1>6 DEF Surjection
<1>8. ToSet(order) = S BY <1>2, <1>3, <1>7 DEF ToSet
<1> QED BY <1>2, <1>3, <1>8 DEF Distinct

LEMMA WakeReady ==
  ASSUME Typed, Once, NEW S \in SUBSET (Co \ Woken), Wake(S)
  PROVE  Stands(Woken \cup S) /\ (S = {} => ready' = ready)
<1>1. S \in SUBSET Co /\ S \cap Woken = {} OBVIOUS
<1>2. PICK order \in SetToSeqs(S) : ready' = ready \o order BY DEF Wake
<1>3. order \in Seq(S) /\ Distinct(order) /\ ToSet(order) = S BY <1>1, Orders
<1>4. order \in Seq(Co \cup {Alarm}) /\ ready \in Seq(Co \cup {Alarm})
  <2>1. S \subseteq Co \cup {Alarm} BY <1>1
  <2> QED BY <2>1, <1>3, SeqMonotonic DEF Typed
<1>5. /\ ready \o order \in Seq(Co \cup {Alarm}) /\ Distinct(ready \o order)
      /\ ToSet(ready \o order) = ToSet(ready) \cup ToSet(order)
  <2>1. ToSet(ready) \cap ToSet(order) = {} BY <1>1, <1>3 DEF Woken
  <2> QED BY <2>1, <1>3, <1>4, ConcatQueue DEF Once
<1>6. ASSUME S = {} PROVE ready' = ready
  <2>1. Len(order) = 0
    <3>1. Len(order) \in Nat /\ DOMAIN order = 1..Len(order) BY <1>3, Queues
    <3>2. DOMAIN order = {} BY <1>3, <1>6 DEF ToSet
    <3> QED BY <3>1, <3>2
  <2>2. order = <<>> BY <2>1, <1>3, EmptySeq
  <2> QED BY <2>2, <1>2, <1>4, ConcatEmptySeq
<1> QED BY <1>2, <1>3, <1>5, <1>6 DEF Stands, Once, Woken

LEMMA AppendReady ==
  ASSUME Typed, Once, NEW x \in Co \cup {Alarm}, x \notin Woken, ready' = Append(ready, x)
  PROVE  Stands(Woken \cup {x}) /\ (Behind(ready) /\ x \notin Callers => Behind(ready)')
<1>1. ready \in Seq(Co \cup {Alarm}) /\ x \notin ToSet(ready) /\ Distinct(ready)
  BY DEF Typed, Woken, Once
<1>2. /\ Append(ready, x) \in Seq(Co \cup {Alarm}) /\ Distinct(Append(ready, x))
      /\ ToSet(Append(ready, x)) = ToSet(ready) \cup {x}
      /\ Behind(ready) /\ x \notin Callers => Behind(Append(ready, x))
  BY <1>1, AppendQueue
<1> QED BY <1>2 DEF Stands, Once, Woken

LEMMA TailReady ==
  ASSUME Typed, Once, ready # <<>>, ready' = Tail(ready)
  PROVE  /\ Stands(Woken \ {Head(ready)}) /\ (Behind(ready) => Behind(ready)')
         /\ Head(ready) \in Woken
         /\ Behind(ready) /\ Head(ready) = Dialer => Woken \cap Callers = {}
<1>1. ready \in Seq(Co \cup {Alarm}) /\ Distinct(ready) BY DEF Typed, Once
<1>2. /\ Tail(ready) \in Seq(Co \cup {Alarm}) /\ Distinct(Tail(ready))
      /\ Head(ready) \in ToSet(ready) /\ ToSet(Tail(ready)) = ToSet(ready) \ {Head(ready)}
      /\ Behind(ready) => Behind(Tail(ready))
      /\ Behind(ready) /\ Head(ready) = Dialer => ToSet(ready) \cap Callers = {}
  BY <1>1, TailQueue
<1> QED BY <1>2 DEF Stands, Once, Woken

LEMMA Parts == IInv => TypeOK /\ OwnConnection
<1>1. IdleAside <=> \A c \in Co : call[c].op = "none" => \A i \in DOMAIN ready : ready[i] # c
  BY DEF IdleAside, Woken, ToSet
<1>2. IInv => TypeOK BY <1>1 DEF IInv, Typed, TypeOK
<1> QED BY <1>2 DEF IInv, OwnConnection, Ciphered, Current, Callers

-----------------------------------------------------------------------------
(* Calls. *)

LEMMA Calls ==
  /\ Idle \in Call /\ Idle.op = "none"
  /\ \A op \in Ops, ids \in SUBSET Server, gen \in 0..MaxPeer :
       LET r == NewCall(op, ids, gen) IN
         /\ r \in Call /\ r.op = op /\ r.ids = ids /\ r.gen = gen
         /\ r.late = FALSE /\ r.seen = FALSE
  /\ \A op \in Ops : [Idle EXCEPT !.op = op] \in Call /\ [Idle EXCEPT !.op = op].op = op
  /\ \A r \in Call, b \in BOOLEAN :
       LET s == [r EXCEPT !.late = b] IN
         /\ s \in Call /\ s.op = r.op /\ s.ids = r.ids /\ s.gen = r.gen
         /\ s.late = b /\ s.seen = r.seen
  /\ \A r \in Call, b \in BOOLEAN :
       LET s == [r EXCEPT !.seen = b] IN
         /\ s \in Call /\ s.op = r.op /\ s.ids = r.ids /\ s.gen = r.gen
         /\ s.late = r.late /\ s.seen = b
<1>1. Idle \in Call /\ Idle.op = "none"
  <2>1. 0 \in 0..MaxPeer BY Consts
  <2> QED BY <2>1 DEF Idle, Call, Ops
<1>2. \A op \in Ops, ids \in SUBSET Server, gen \in 0..MaxPeer :
       LET r == NewCall(op, ids, gen) IN
         /\ r \in Call /\ r.op = op /\ r.ids = ids /\ r.gen = gen
         /\ r.late = FALSE /\ r.seen = FALSE
  BY DEF NewCall, Idle, Call
<1>3. \A op \in Ops : [Idle EXCEPT !.op = op] \in Call /\ [Idle EXCEPT !.op = op].op = op
  <2>1. 0 \in 0..MaxPeer BY Consts
  <2> QED BY <2>1 DEF Idle, Call
<1> QED BY <1>1, <1>2, <1>3 DEF Call

\* The waits of the Dialer, one after another.
LEMMA NextWaits ==
  ASSUME way \in Ways, NEW op, NEW next, Follows(op, next)
  PROVE  \/ op = "resolve" /\ next = "connect" /\ way # "kcp"
         \/ op = "connect" /\ next = "secret" /\ way = "encrypted"
         \/ op = "resolve" /\ next = "bind" /\ way = "kcp"
         \/ op = "bind" /\ next = "send" /\ way = "kcp"
         \/ op = "send" /\ next = "receive" /\ way = "kcp"
<1>1. PICK n \in 1..(Len(Waits[way]) - 1) : Waits[way][n] = op /\ Waits[way][n + 1] = next
  BY DEF Follows
<1>2. CASE way = "tcp"
  <2>1. Waits[way] = <<"resolve", "connect">> BY <1>2 DEF Waits
  <2>2. n = 1 BY <2>1, <1>1
  <2> QED BY <2>1, <2>2, <1>1, <1>2
<1>3. CASE way = "encrypted"
  <2>1. Waits[way] = <<"resolve", "connect", "secret">> BY <1>3 DEF Waits
  <2>2. n \in {1, 2} BY <2>1, <1>1
  <2> QED BY <2>1, <2>2, <1>1, <1>3
<1>4. CASE way = "kcp"
  <2>1. Waits[way] = <<"resolve", "bind", "send", "receive">> BY <1>4 DEF Waits
  <2>2. n \in {1, 2, 3} BY <2>1, <1>1
  <2> QED BY <2>1, <2>2, <1>1, <1>4
<1> QED BY <1>2, <1>3, <1>4 DEF Ways

LEMMA LastWaits ==
  ASSUME way \in Ways, IsLast
  PROVE  \/ way = "tcp" /\ call[Dialer].op = "connect"
         \/ way = "encrypted" /\ call[Dialer].op = "secret"
         \/ way = "kcp" /\ call[Dialer].op = "receive"
<1>1. CASE way = "tcp"
  <2>1. Waits[way] = <<"resolve", "connect">> BY <1>1 DEF Waits
  <2> QED BY <2>1, <1>1 DEF IsLast, Last
<1>2. CASE way = "encrypted"
  <2>1. Waits[way] = <<"resolve", "connect", "secret">> BY <1>2 DEF Waits
  <2> QED BY <2>1, <1>2 DEF IsLast, Last
<1>3. CASE way = "kcp"
  <2>1. Waits[way] = <<"resolve", "bind", "send", "receive">> BY <1>3 DEF Waits
  <2> QED BY <2>1, <1>3 DEF IsLast, Last
<1> QED BY <1>1, <1>2, <1>3 DEF Ways

LEMMA DialingOps == ~Dialing("none") /\ ~Dialing("pop") /\ ~Dialing("opens")
<1>1. \A w \in Ways : \A n \in DOMAIN Waits[w] : Waits[w][n] \notin {"none", "pop", "opens"}
  <2>1. Waits["tcp"] = <<"resolve", "connect">> BY DEF Waits
  <2>2. Waits["encrypted"] = <<"resolve", "connect", "secret">> BY DEF Waits
  <2>3. Waits["kcp"] = <<"resolve", "bind", "send", "receive">> BY DEF Waits
  <2> QED BY <2>1, <2>2, <2>3 DEF Ways
<1> QED BY <1>1 DEF Dialing, ToSet

LEMMA WaitingCallers ==
  ASSUME Typed, Kinds
  PROVE  /\ Waiting("pop") \in SUBSET (Co \ Woken) /\ Waiting("opens") \in SUBSET (Co \ Woken)
         /\ Waiting("pop") \subseteq Popper /\ Waiting("opens") \subseteq Opener
<1>1. \A c \in Co : /\ call[c].op = "pop" => c \in Popper
                    /\ call[c].op = "opens" => c \in Opener
  BY Consts DEF Kinds, Callers, Early
<1> QED BY <1>1 DEF Waiting

-----------------------------------------------------------------------------
(* Init, and the steps of the peer. *)

LEMMA InitHolds == Init => IInv
<1> SUFFICES ASSUME Init PROVE IInv OBVIOUS
<1>1. ready = <<>> /\ DOMAIN ready = {} /\ ready \in Seq(Co \cup {Alarm}) /\ Woken = {}
  <2>1. ready = <<>> BY DEF Init
  <2>2. DOMAIN ready = {} BY <2>1
  <2> QED BY <2>1, <2>2, EmptySeq DEF Woken, ToSet
<1>2. 0 \in 0..MaxPeer /\ 0 \in 0..MaxQueue BY Consts
<1>3. call \in [Co -> Call] /\ \A c \in Co : call[c].op = "none" BY Calls DEF Init
<1>4. Typed BY <1>1, <1>2, <1>3 DEF Init, Typed, Ways
<1>5. IdleAside BY <1>1 DEF IdleAside
<1>6. Once /\ Turns BY <1>1 DEF Once, Distinct, Turns, Behind
<1>7. Kinds /\ Agreed BY <1>3, Consts DEF Kinds, Agreed, Early
<1>8. CleanWhenDown /\ Ciphered BY DEF Init, CleanWhenDown, Ciphered
<1>9. Current BY <1>3, Consts DEF Current
<1>10. Waiting("pop") = {} BY <1>3 DEF Waiting
<1> QED BY <1>4, <1>5, <1>6, <1>7, <1>8, <1>9, <1>10 DEF IInv, PopAwake, PopWaits

\* Steps that take packages or change the socket: no call is concerned.
LEMMA SameCalls ==
  ASSUME IInv, UNCHANGED <<peer, way, up, secret, call, ready>>
  PROVE  /\ IdleAside' /\ Once' /\ Kinds' /\ Agreed' /\ Turns' /\ Ciphered' /\ Current'
         /\ Woken' = Woken /\ Waiting("pop")' = Waiting("pop")
<1> USE DEF IInv
<1>1. Woken' = Woken BY DEF Woken
<1>2. Waiting("pop")' = Waiting("pop") BY <1>1 DEF Waiting
<1>3. IdleAside' /\ Current' BY <1>1 DEF IdleAside, Current
<1>4. Once' /\ Turns' BY DEF Once, Distinct, Turns, Behind
<1>5. Kinds' /\ Agreed' /\ Ciphered' BY DEF Kinds, Agreed, Ciphered
<1> QED BY <1>1, <1>2, <1>3, <1>4, <1>5

\* The peer ends, or was down, and what waited is ready.
Ends == \/ up /\ Cleanup
        \/ ~up /\ UNCHANGED <<secret, opens, queues, waitingObject, ready>>

LEMMA EndsWaits ==
  ASSUME IInv, Ends, ~up', \A c \in Callers : call'[c] = call[c],
         \A c \in Co \ Callers : call'[c].op # "pop"
  PROVE  /\ ready' \in Seq(Co \cup {Alarm}) /\ Once' /\ CleanWhenDown' /\ Ciphered' /\ Current'
         /\ PopAwake' /\ PopWaits'
         /\ \A c \in Callers : call[c].op = "none" => c \notin Woken'
         /\ Dialer \in Woken' <=> Dialer \in Woken
         /\ ~up => ready' = ready /\ secret' = secret
         /\ up => ~secret'
         /\ secret' \in BOOLEAN /\ openServerIds' = {} /\ openWaitServerIds' = {}
         /\ recvObjs' \in [Server -> 0..MaxQueue] /\ recvDatas' \in 0..MaxQueue
         /\ waitingObject' = FALSE
<1> USE DEF IInv
<1>1. Waiting("opens") \cup Waiting("pop") \in SUBSET (Co \ Woken)
      /\ Waiting("opens") \cup Waiting("pop") \subseteq Callers
  BY WaitingCallers DEF Callers
<1>2. 0 \in 0..MaxQueue BY Consts
<1>3. /\ ready' \in Seq(Co \cup {Alarm}) /\ Once'
      /\ \A c \in Callers : call[c].op # "none" => c \in Woken'
      /\ \A c \in Callers : call[c].op = "none" => c \notin Woken'
      /\ Dialer \in Woken' <=> Dialer \in Woken
  <2>1. CASE up
    <3>1. Stands(Woken \cup (Waiting("opens") \cup Waiting("pop")))
      BY <1>1, <2>1, WakeReady DEF Ends, Cleanup, CleanupKeeping
    <3>2. \A c \in Callers : call[c].op # "none" => c \in Woken \cup (Waiting("opens") \cup Waiting("pop"))
      BY Consts DEF Kinds, Waiting, Callers
    <3>3. \A c \in Callers : call[c].op = "none" => c \notin Woken \cup (Waiting("opens") \cup Waiting("pop"))
      BY Consts DEF IdleAside, Waiting
    <3>4. Dialer \notin Waiting("opens") \cup Waiting("pop") BY <1>1, Consts
    <3> QED BY <3>1, <3>2, <3>3, <3>4 DEF Stands
  <2>2. CASE ~up
    <3>1. ready' = ready BY <2>2 DEF Ends
    <3>2. Woken' = Woken /\ Once' BY <3>1 DEF Woken, Once, Distinct
    <3> QED BY <2>2, <3>1, <3>2, Consts DEF Typed, Current, IdleAside
  <2> QED BY <2>1, <2>2
<1>4. /\ secret' \in BOOLEAN /\ openServerIds' = {} /\ openWaitServerIds' = {}
      /\ recvObjs' \in [Server -> 0..MaxQueue] /\ recvDatas' = 0
      /\ waitingObject' = FALSE /\ \A s \in Server : recvObjs'[s] = 0
      /\ ~up => ready' = ready /\ secret' = secret
      /\ up => ~secret'
  <2>1. CASE up BY <2>1, <1>2 DEF Ends, Cleanup, CleanupKeeping
  <2>2. CASE ~up BY <2>2 DEF Ends, CleanWhenDown, opens, queues, Typed
  <2> QED BY <2>1, <2>2
<1>5. CleanWhenDown' /\ Ciphered' BY <1>4 DEF CleanWhenDown, Ciphered
<1>6. Current' BY <1>3 DEF Current
<1>7. Waiting("pop")' = {} BY <1>3, Consts DEF Waiting
<1> QED BY <1>2, <1>3, <1>4, <1>5, <1>6, <1>7 DEF PopAwake, PopWaits

\* The peer ends while nothing is dialled, or a Dial goes on.
LEMMA EndHolds ==
  ASSUME IInv, Ends, ~up', up' \in BOOLEAN, peer' \in 0..MaxPeer, UNCHANGED <<way, line, alarm, call>>
  PROVE  IInv'
<1> USE DEF IInv
<1>1. \A c \in Co \ Callers : call'[c].op # "pop" BY Consts DEF Kinds, Early
<1>2. /\ ready' \in Seq(Co \cup {Alarm}) /\ Once' /\ CleanWhenDown' /\ Ciphered' /\ Current'
      /\ PopAwake' /\ PopWaits'
      /\ \A c \in Callers : call[c].op = "none" => c \notin Woken'
      /\ Dialer \in Woken' <=> Dialer \in Woken
      /\ ~up => ready' = ready /\ secret' = secret
      /\ up => ~secret'
      /\ secret' \in BOOLEAN /\ openServerIds' = {} /\ openWaitServerIds' = {}
      /\ recvObjs' \in [Server -> 0..MaxQueue] /\ recvDatas' \in 0..MaxQueue
      /\ waitingObject' = FALSE
  BY <1>1, EndsWaits
<1>3. Typed' BY <1>2 DEF Typed
<1>4. IdleAside' BY <1>2, Consts DEF IdleAside
<1>5. Kinds' BY DEF Kinds
<1>6. Agreed' BY <1>2 DEF Agreed, Early
<1>7. Turns' BY <1>2 DEF Turns, Agreed, Behind
<1> QED BY <1>2, <1>3, <1>4, <1>5, <1>6, <1>7

LEMMA PeerStopHolds == ASSUME IInv, PeerStop PROVE IInv'
<1>1. Ends /\ ~up' /\ up' \in BOOLEAN BY DEF PeerStop, Ends
<1>2. peer' \in 0..MaxPeer /\ UNCHANGED <<way, line, alarm, call>> BY DEF PeerStop, IInv, Typed
<1> QED BY <1>1, <1>2, EndHolds

LEMMA Replaced ==
  ASSUME Typed, Replace
  PROVE  /\ Ends /\ ~up' /\ up' \in BOOLEAN /\ peer' \in 0..MaxPeer /\ alarm' = alarm
         /\ peer + 1 \in 1..MaxPeer /\ peer' = peer + 1 /\ call[Dialer].op = "none"
<1>1. Ends
  <2>1. CASE up BY <2>1 DEF Replace, Ends
  <2>2. CASE ~up BY <2>2 DEF Replace, Ends
  <2> QED BY <2>1, <2>2 DEF Typed
<1>2. peer \in 0..MaxPeer /\ peer < MaxPeer /\ peer' = peer + 1 BY DEF Replace, Typed
<1>3. peer + 1 \in 1..MaxPeer /\ peer + 1 \in 0..MaxPeer BY <1>2, Consts
<1>4. up' = FALSE /\ alarm' = alarm /\ call[Dialer].op = "none" BY DEF Replace, NotBusy
<1> QED BY <1>1, <1>2, <1>3, <1>4

LEMMA ResetHolds == ASSUME IInv, Reset PROVE IInv'
<1>1. Ends /\ ~up' /\ up' \in BOOLEAN /\ peer' \in 0..MaxPeer /\ alarm' = alarm
  BY Replaced DEF Reset, IInv
<1>2. UNCHANGED <<way, line, call>> BY DEF Reset
<1> QED BY <1>1, <1>2, EndHolds

LEMMA DialHolds == ASSUME IInv, NEW w \in Ways, Dial(w) PROVE IInv'
<1> USE DEF IInv
<1>1. /\ Ends /\ ~up' /\ up' \in BOOLEAN /\ peer' \in 0..MaxPeer /\ alarm' = alarm
      /\ peer + 1 \in 0..MaxPeer /\ call[Dialer].op = "none"
  BY Replaced, Consts DEF Dial, Typed
<1> DEFINE r == NewCall("resolve", {}, peer + 1)
<1>2. r \in Call /\ r.op = "resolve" BY <1>1, Calls DEF Ops
<1>3. way' = w /\ line' = "open" /\ call' = [call EXCEPT ![Dialer] = r] BY DEF Dial
<1> HIDE DEF r
<1>4. call' \in [Co -> Call] /\ call'[Dialer] = r /\ \A c \in Callers : call'[c] = call[c]
  BY <1>2, <1>3, Consts DEF Typed
<1>5. \A c \in Co \ Callers : call'[c].op # "pop" BY <1>2, <1>4, Consts
<1>6. /\ ready' \in Seq(Co \cup {Alarm}) /\ Once' /\ CleanWhenDown' /\ Ciphered' /\ Current'
      /\ PopAwake' /\ PopWaits'
      /\ \A c \in Callers : call[c].op = "none" => c \notin Woken'
      /\ Dialer \in Woken' <=> Dialer \in Woken
      /\ secret' \in BOOLEAN /\ openServerIds' = {} /\ openWaitServerIds' = {}
      /\ recvObjs' \in [Server -> 0..MaxQueue] /\ recvDatas' \in 0..MaxQueue
      /\ waitingObject' = FALSE
  BY <1>1, <1>4, <1>5, EndsWaits
<1>7. Typed' BY <1>1, <1>3, <1>4, <1>6 DEF Typed
<1>8. IdleAside' BY <1>2, <1>4, <1>6, Consts DEF IdleAside
<1>9. Kinds'
  <2>1. \A c \in Popper : call'[c].op \in {"none", "pop"} BY <1>4 DEF Kinds, Callers
  <2>2. \A c \in Opener : call'[c].op \in {"none", "opens"} BY <1>4 DEF Kinds, Callers
  <2> QED BY <2>1, <2>2, <1>2, <1>4 DEF Kinds
<1>10. Agreed' BY <1>1, <1>2, <1>4 DEF Agreed
<1>11. Turns'
  <2>1. Dialer \notin Woken' BY <1>1, <1>6, Consts DEF IdleAside
  <2> QED BY <2>1 DEF Turns, Behind, Woken, ToSet
<1> QED BY <1>6, <1>7, <1>8, <1>9, <1>10, <1>11

-----------------------------------------------------------------------------
(* Packages. *)

LEMMA GoesDeafHolds == ASSUME IInv, GoesDeaf PROVE IInv'
<1> USE DEF IInv
<1>1. /\ IdleAside' /\ Once' /\ Kinds' /\ Agreed' /\ Turns' /\ Ciphered' /\ Current'
      /\ Waiting("pop")' = Waiting("pop")
  BY SameCalls DEF GoesDeaf
<1>2. Typed' /\ CleanWhenDown' BY DEF GoesDeaf, opens, queues, Typed, CleanWhenDown
<1>3. PopAwake' /\ PopWaits'
  BY <1>1 DEF GoesDeaf, queues, PopAwake, PopWaits, NothingFor
<1> QED BY <1>1, <1>2, <1>3

\* Taking a package, or getting one for lua, leaves those that wait what they have.
LEMMA DataHolds ==
  ASSUME IInv, up, UNCHANGED <<peers, opens, waitingObject, call, ready>>,
         recvDatas' \in 0..MaxQueue, recvObjs' \in [Server -> 0..MaxQueue],
         \A s \in Server : recvObjs[s] = 0 => recvObjs'[s] = 0
  PROVE  IInv'
<1> USE DEF IInv
<1>1. /\ IdleAside' /\ Once' /\ Kinds' /\ Agreed' /\ Turns' /\ Ciphered' /\ Current'
      /\ Waiting("pop")' = Waiting("pop")
  BY SameCalls DEF peers
<1>2. Typed' /\ CleanWhenDown' BY DEF peers, opens, Typed, CleanWhenDown
<1>3. PopAwake' /\ PopWaits'
  <2>1. \A c \in Waiting("pop") : call[c].ids \subseteq Server BY DEF Waiting, Typed, Call
  <2> QED BY <1>1, <2>1 DEF PopAwake, PopWaits, NothingFor
<1> QED BY <1>1, <1>2, <1>3

LEMMA Taken ==
  ASSUME Typed, NEW ids \in SUBSET Server, Take(ids)
  PROVE  recvObjs' \in [Server -> 0..MaxQueue] /\ \A s \in Server : recvObjs[s] = 0 => recvObjs'[s] = 0
<1>1. PICK s \in ids : recvObjs[s] > 0 /\ recvObjs' = [recvObjs EXCEPT ![s] = @ - 1] BY DEF Take
<1>2. recvObjs[s] \in 0..MaxQueue /\ recvObjs[s] - 1 \in 0..MaxQueue BY <1>1, Consts DEF Typed
<1> QED BY <1>1, <1>2 DEF Typed

LEMMA ReceiveDataHolds == ASSUME IInv, ReceiveData PROVE IInv'
<1>1. recvDatas' \in 0..MaxQueue BY Consts DEF ReceiveData, IInv, Typed
<1> QED BY <1>1, DataHolds DEF ReceiveData, IInv, Typed

LEMMA TryPopHolds == ASSUME IInv, NEW ids \in Wants, TryPop(ids) PROVE IInv'
<1>1. recvObjs' \in [Server -> 0..MaxQueue] /\ \A s \in Server : recvObjs[s] = 0 => recvObjs'[s] = 0
  BY Taken, Consts DEF TryPop, IInv
<1>2. recvDatas' \in 0..MaxQueue BY DEF TryPop, IInv, Typed
<1> QED BY <1>1, <1>2, DataHolds DEF TryPop

LEMMA TryPopDataHolds == ASSUME IInv, TryPopData PROVE IInv'
<1>1. recvDatas' \in 0..MaxQueue BY Consts DEF TryPopData, IInv, Typed
<1> QED BY <1>1, DataHolds DEF TryPopData, IInv, Typed

\* While the peer is up and nothing but ready and the waits of callers changes.
LEMMA Woke ==
  ASSUME IInv, up, NEW S \in SUBSET Callers, Stands(Woken \cup S), UNCHANGED <<peer, way, up, secret>>,
         \A c \in S : call[c].op # "none",
         \A c \in Co : call'[c].op = call[c].op /\ call'[c].gen = call[c].gen
  PROVE  /\ IdleAside' /\ Once' /\ Kinds' /\ Agreed' /\ Turns' /\ Ciphered' /\ Current'
         /\ Waiting("pop")' = Waiting("pop") \ S /\ Waiting("opens")' = Waiting("opens") \ S
<1> USE DEF IInv
<1>1. Once' /\ Woken' = Woken \cup S BY DEF Stands
<1>2. IdleAside' BY <1>1, Consts DEF IdleAside
<1>3. Kinds' BY Consts DEF Kinds, Callers
<1>4. call'[Dialer].op = call[Dialer].op BY Consts
<1>5. Agreed' /\ Ciphered' BY <1>4 DEF Agreed, Ciphered
<1>6. Turns' BY <1>4 DEF Turns, Agreed
<1>7. Current' BY Consts DEF Current
<1>8. Waiting("pop")' = Waiting("pop") \ S /\ Waiting("opens")' = Waiting("opens") \ S
  BY <1>1 DEF Waiting
<1> QED BY <1>1, <1>2, <1>3, <1>5, <1>6, <1>7, <1>8

LEMMA ReceiveTargetHolds == ASSUME IInv, NEW s \in Server, ReceiveTarget(s) PROVE IInv' /\ OpenersKept
<1> USE DEF IInv
<1>1. /\ up /\ recvObjs[s] < MaxQueue /\ recvObjs' = [recvObjs EXCEPT ![s] = @ + 1]
      /\ UNCHANGED <<peers, opens, recvDatas, call>>
  BY DEF ReceiveTarget, ReceiveWaking
<1>2. recvObjs' \in [Server -> 0..MaxQueue]
  <2>1. recvObjs[s] + 1 \in 0..MaxQueue BY <1>1, Consts DEF Typed
  <2> QED BY <1>1, <2>1 DEF Typed
<1> DEFINE S == Waiting("pop")
<1>3. S \in SUBSET (Co \ Woken) /\ S \subseteq Callers /\ \A c \in S : call[c].op # "none"
  BY WaitingCallers DEF Waiting, Callers
<1>4. Stands(Woken \cup S) /\ waitingObject' \in BOOLEAN
  <2>1. CASE waitingObject BY <2>1, <1>3, WakeReady DEF ReceiveTarget, ReceiveWaking
  <2>2. CASE ~waitingObject
    <3>1. S = {} BY <2>2 DEF PopWaits
    <3>2. UNCHANGED <<waitingObject, ready>> BY <2>2 DEF ReceiveTarget, ReceiveWaking
    <3> QED BY <3>1, <3>2 DEF Stands, Typed, Once, Distinct, Woken
  <2> QED BY <2>1, <2>2
<1>5. /\ IdleAside' /\ Once' /\ Kinds' /\ Agreed' /\ Turns' /\ Ciphered' /\ Current'
      /\ Waiting("pop")' = {}
  <2>1. Waiting("pop") \ S = {} OBVIOUS
  <2> HIDE DEF S
  <2> QED BY <1>1, <1>3, <1>4, <2>1, Woke DEF peers
<1>6. Typed' BY <1>1, <1>2, <1>4 DEF Typed, peers, opens, Stands
<1>7. CleanWhenDown' BY <1>1 DEF CleanWhenDown, peers
<1>8. OpenersKept
  <2>1. \A c \in Opener : c \notin S BY WaitingCallers, Consts
  <2> QED BY <1>1, <1>4, <2>1 DEF OpenersKept, Stands
<1> QED BY <1>5, <1>6, <1>7, <1>8 DEF PopAwake, PopWaits

LEMMA ReceiveOpenHolds == ASSUME IInv, NEW s \in Server, ReceiveOpen(s) PROVE IInv'
<1> USE DEF IInv
<1>1. /\ up /\ openServerIds' = openServerIds \cup {s}
      /\ UNCHANGED <<peers, queues, waitingObject>>
  BY DEF ReceiveOpen, ReceiveOpenLeaving
<1>2. /\ call' \in [Co -> Call]
      /\ \A c \in Co : /\ call'[c].op = call[c].op /\ call'[c].gen = call[c].gen
                       /\ call'[c].ids = call[c].ids
  <2>1. \A c \in Co : \E b \in BOOLEAN : call'[c] = [call[c] EXCEPT !.seen = b]
    <3> SUFFICES ASSUME NEW c \in Co PROVE \E b \in BOOLEAN : call'[c] = [call[c] EXCEPT !.seen = b]
      OBVIOUS
    <3>1. call[c].seen \in BOOLEAN BY DEF Typed, Call
    <3>2. (call[c].seen \/ (call[c].op = "opens" /\ call[c].ids \subseteq openServerIds')) \in BOOLEAN
      OBVIOUS
    <3> QED BY <3>2 DEF ReceiveOpen, ReceiveOpenLeaving
  <2>2. \A c \in Co : call[c] \in Call BY DEF Typed
  <2>3. \A c \in Co : /\ call'[c] \in Call
                      /\ call'[c].op = call[c].op /\ call'[c].gen = call[c].gen
                      /\ call'[c].ids = call[c].ids
    <3> SUFFICES ASSUME NEW c \in Co
                 PROVE  /\ call'[c] \in Call
                        /\ call'[c].op = call[c].op /\ call'[c].gen = call[c].gen
                        /\ call'[c].ids = call[c].ids
      OBVIOUS
    <3>1. PICK b \in BOOLEAN : call'[c] = [call[c] EXCEPT !.seen = b] BY <2>1
    <3> QED BY <3>1, <2>2, Calls
  <2>4. DOMAIN call' = Co /\ call' = [c \in Co |-> call'[c]] BY DEF ReceiveOpen, ReceiveOpenLeaving
  <2> QED BY <2>3, <2>4
<1> DEFINE opened == openWaitServerIds # {} /\ openWaitServerIds \subseteq openServerIds'
           S == IF opened THEN Waiting("opens") ELSE {}
<1>3. S \in SUBSET (Co \ Woken) /\ S \subseteq Callers /\ \A c \in S : call[c].op # "none"
  BY WaitingCallers DEF Waiting, Callers
<1>4. Stands(Woken \cup S) /\ openWaitServerIds' \subseteq Server
  <2>1. CASE opened
    <3>1. openWaitServerIds' = {} /\ Wake(S) BY <2>1 DEF ReceiveOpen, ReceiveOpenLeaving
    <3> HIDE DEF S
    <3> QED BY <3>1, <1>3, WakeReady
  <2>2. CASE ~opened
    <3>1. UNCHANGED <<openWaitServerIds, ready>> BY <2>2 DEF ReceiveOpen, ReceiveOpenLeaving
    <3> QED BY <2>2, <3>1 DEF Stands, Typed, Once, Distinct, Woken
  <2> QED BY <2>1, <2>2
<1>5. /\ IdleAside' /\ Once' /\ Kinds' /\ Agreed' /\ Turns' /\ Ciphered' /\ Current'
      /\ Waiting("pop")' \subseteq Waiting("pop")
  <2> HIDE DEF S
  <2> QED BY <1>1, <1>2, <1>3, <1>4, Woke DEF peers
<1>6. Typed' BY <1>1, <1>2, <1>4 DEF Typed, peers, queues, Stands
<1>7. CleanWhenDown' BY <1>1 DEF CleanWhenDown, peers
<1>8. PopAwake' /\ PopWaits'
  <2>1. \A c \in Waiting("pop") : call'[c].ids = call[c].ids BY <1>2 DEF Waiting
  <2> QED BY <1>1, <1>5, <2>1 DEF PopAwake, PopWaits, NothingFor, queues
<1> QED BY <1>5, <1>6, <1>7, <1>8

LEMMA ReceiveCloseHolds == ASSUME IInv, NEW s \in Server, ReceiveClose(s) PROVE IInv'
<1> USE DEF IInv
<1>1. CASE openServerIds \ {s} = {}
  <2>1. Ends /\ ~up' /\ up' \in BOOLEAN BY <1>1 DEF ReceiveClose, Ends
  <2>2. peer' \in 0..MaxPeer /\ UNCHANGED <<way, line, alarm, call>> BY DEF ReceiveClose, Typed
  <2> QED BY <2>1, <2>2, EndHolds
<1>2. CASE openServerIds \ {s} # {}
  <2>1. /\ up /\ openServerIds' = openServerIds \ {s}
        /\ UNCHANGED <<up, secret, openWaitServerIds, queues, waitingObject, ready>>
        /\ UNCHANGED <<peer, way, line, alarm, call>>
    BY <1>2 DEF ReceiveClose
  <2>2. /\ IdleAside' /\ Once' /\ Kinds' /\ Agreed' /\ Turns' /\ Ciphered' /\ Current'
        /\ Waiting("pop")' = Waiting("pop")
    BY <2>1, SameCalls
  <2>3. Typed' /\ CleanWhenDown' BY <2>1 DEF Typed, CleanWhenDown, queues
  <2>4. PopAwake' /\ PopWaits' BY <2>1, <2>2 DEF PopAwake, PopWaits, NothingFor, queues
  <2> QED BY <2>2, <2>3, <2>4
<1> QED BY <1>1, <1>2

-----------------------------------------------------------------------------
(* Pop, WaitOpens and their timers. *)

LEMMA PopHolds == ASSUME IInv, NEW c \in Popper, NEW ids \in Wants, Pop(c, ids) PROVE IInv' /\ OpenersKept
<1> USE DEF IInv
<1>1. c \in Co /\ c \in Callers /\ ids \in SUBSET Server BY Consts DEF Callers
<1>2. call[c].op = "none" /\ up /\ ~waitingObject /\ UNCHANGED <<peers, opens, recvDatas>> BY DEF Pop
<1>3. CASE Take(ids) /\ UNCHANGED <<waitingObject, call, ready>>
  <2>1. recvObjs' \in [Server -> 0..MaxQueue] /\ \A s \in Server : recvObjs[s] = 0 => recvObjs'[s] = 0
    BY <1>1, <1>3, Taken
  <2>2. OpenersKept BY <1>3 DEF OpenersKept, Woken
  <2> QED BY <1>2, <1>3, <2>1, <2>2, DataHolds DEF Typed
<1>4. CASE NothingFor(ids) /\ waitingObject' = TRUE /\ Await(c, "pop", ids) /\ UNCHANGED recvObjs
  <2> DEFINE r == NewCall("pop", ids, peer)
  <2>1. r \in Call /\ r.op = "pop" /\ r.ids = ids /\ r.gen = peer BY <1>1, Calls DEF Typed, Ops
  <2>2. call' = [call EXCEPT ![c] = r] BY <1>4 DEF Await
  <2> HIDE DEF r
  <2>3. /\ call' \in [Co -> Call] /\ call'[c] = r
        /\ \A d \in Co : d # c => call'[d] = call[d]
        /\ c # Dialer /\ c \notin Woken
    BY <1>1, <1>2, <2>1, <2>2, Consts DEF Typed, IdleAside
  <2>4. Waiting("pop") = {} BY <1>2 DEF PopWaits
  <2>5. ready' = ready /\ Stands(Woken)
    <3>1. Wake({}) BY <1>4, <2>4 DEF Await
    <3>2. Stands(Woken \cup {}) /\ ready' = ready BY <3>1, WakeReady
    <3> QED BY <3>2
  <2>6. Typed' BY <1>2, <1>4, <2>3, <2>5 DEF Typed, peers, opens
  <2>7. Woken' = Woken /\ Once' BY <2>5 DEF Stands
  <2>8. IdleAside' BY <2>1, <2>3, <2>7 DEF IdleAside
  <2>9. Kinds'
    <3>1. \A d \in Popper : call'[d].op \in {"none", "pop"} BY <2>1, <2>3, Consts DEF Kinds
    <3>2. \A d \in Opener : call'[d].op \in {"none", "opens"} BY <2>3, Consts DEF Kinds
    <3>3. call'[Dialer] = call[Dialer] BY <2>3, Consts
    <3> QED BY <1>2, <3>1, <3>2, <3>3 DEF Kinds, peers
  <2>10. Agreed' /\ Turns' /\ Ciphered' /\ CleanWhenDown'
    <3>1. call'[Dialer] = call[Dialer] BY <2>3, Consts
    <3> QED BY <1>2, <2>5, <3>1 DEF Agreed, Turns, Behind, Ciphered, CleanWhenDown, peers
  <2>11. Current' BY <1>2, <2>1, <2>3, <2>7, Consts DEF Current, peers
  <2>12. PopAwake' /\ PopWaits'
    <3>1. Waiting("pop")' \subseteq {c} BY <2>3, <2>4, <2>7 DEF Waiting
    <3>2. \A s \in ids : recvObjs'[s] = 0 BY <1>4 DEF NothingFor
    <3>3. \A d \in Waiting("pop")' : \A s \in call'[d].ids : recvObjs'[s] = 0 BY <3>1, <3>2, <2>1, <2>3
    <3> QED BY <3>3, <1>4 DEF PopAwake, PopWaits, NothingFor
  <2>13. OpenersKept BY <2>3, <2>7, Consts DEF OpenersKept
  <2> QED BY <2>6, <2>7, <2>8, <2>9, <2>10, <2>11, <2>12, <2>13
<1> QED BY <1>3, <1>4 DEF Pop

LEMMA WaitOpensHolds == ASSUME IInv, NEW c \in Opener, NEW ids \in Wants, WaitOpens(c, ids) PROVE IInv'
<1> USE DEF IInv
<1>1. c \in Co /\ c \in Callers /\ ids \in SUBSET Server BY Consts DEF Callers
<1>2. /\ call[c].op = "none" /\ up /\ openWaitServerIds' = ids
      /\ Await(c, "opens", ids)
      /\ UNCHANGED <<peers, openServerIds, queues, waitingObject>>
  BY DEF WaitOpens
<1> DEFINE r == NewCall("opens", ids, peer)
<1>3. r \in Call /\ r.op = "opens" /\ r.gen = peer BY <1>1, Calls DEF Typed, Ops
<1>4. call' = [call EXCEPT ![c] = r] BY <1>2 DEF Await
<1> HIDE DEF r
<1>5. /\ call' \in [Co -> Call] /\ call'[c] = r
      /\ \A d \in Co : d # c => call'[d] = call[d]
      /\ c # Dialer /\ c \notin Woken
  BY <1>1, <1>2, <1>3, <1>4, Consts DEF Typed, IdleAside
<1> DEFINE S == Waiting("opens")
<1>6. S \in SUBSET (Co \ Woken) /\ S \subseteq Opener /\ \A d \in S : call[d].op = "opens"
  BY WaitingCallers DEF Waiting
<1>7. Wake(S) BY <1>2 DEF Await
<1>8. c \notin S BY <1>2, <1>6
<1> HIDE DEF S
<1>9. Stands(Woken \cup S) BY <1>6, <1>7, WakeReady
<1>10. Once' /\ Woken' = Woken \cup S BY <1>9 DEF Stands
<1>11. Typed' BY <1>1, <1>2, <1>5, <1>9 DEF Typed, peers, queues, Stands
<1>12. IdleAside' BY <1>3, <1>5, <1>6, <1>10 DEF IdleAside
<1>13. call'[Dialer] = call[Dialer] BY <1>5, Consts
<1>14. Kinds'
  <2>1. \A d \in Popper : call'[d].op \in {"none", "pop"} BY <1>5, Consts DEF Kinds
  <2>2. \A d \in Opener : call'[d].op \in {"none", "opens"} BY <1>3, <1>5, Consts DEF Kinds
  <2> QED BY <1>2, <1>13, <2>1, <2>2 DEF Kinds, peers
<1>15. Agreed' /\ Turns' /\ Ciphered' /\ CleanWhenDown'
  BY <1>2, <1>13 DEF Agreed, Turns, Ciphered, CleanWhenDown, peers
<1>16. Current' BY <1>2, <1>3, <1>5, <1>10, Consts DEF Current, peers
<1>17. PopAwake' /\ PopWaits'
  <2>1. \A d \in Waiting("pop")' : d \in Waiting("pop") /\ call'[d] = call[d]
    BY <1>3, <1>5, <1>10 DEF Waiting
  <2> QED BY <1>2, <2>1 DEF PopAwake, PopWaits, NothingFor, queues
<1> QED BY <1>10, <1>11, <1>12, <1>14, <1>15, <1>16, <1>17

LEMMA TimeoutHolds == ASSUME IInv, NEW op \in {"pop", "opens"}, Timeout(op) PROVE IInv'
<1> USE DEF IInv
<1> DEFINE S == Waiting(op)
<1>1. S \in SUBSET (Co \ Woken) /\ S \subseteq Callers /\ \A c \in S : call[c].op # "none"
  BY WaitingCallers DEF Waiting, Callers
<1>2. Wake(S) /\ S # {} /\ UNCHANGED <<peers, opens, queues, waitingObject>> BY DEF Timeout
<1>3. up
  <2>1. PICK c \in S : c \in Callers /\ call[c].op # "none" /\ c \notin Woken BY <1>1, <1>2
  <2> QED BY <2>1 DEF Current, Typed
<1>4. /\ call' \in [Co -> Call]
      /\ \A c \in Co : /\ call'[c].op = call[c].op /\ call'[c].gen = call[c].gen
                       /\ call'[c].ids = call[c].ids
  <2>1. \A c \in Co : /\ call'[c] \in Call
                      /\ call'[c].op = call[c].op /\ call'[c].gen = call[c].gen
                      /\ call'[c].ids = call[c].ids
    <3> SUFFICES ASSUME NEW c \in Co
                 PROVE  /\ call'[c] \in Call
                        /\ call'[c].op = call[c].op /\ call'[c].gen = call[c].gen
                        /\ call'[c].ids = call[c].ids
      OBVIOUS
    <3>1. call[c] \in Call /\ call[c].late \in BOOLEAN BY DEF Typed, Call
    <3> DEFINE b == call[c].late \/ (op = "opens" /\ c \in Waiting(op))
    <3>2. b \in BOOLEAN /\ call'[c] = [call[c] EXCEPT !.late = b] BY DEF Timeout
    <3> HIDE DEF b
    <3> QED BY <3>1, <3>2, Calls
  <2>2. DOMAIN call' = Co /\ call' = [c \in Co |-> call'[c]] BY DEF Timeout
  <2> QED BY <2>1, <2>2
<1> HIDE DEF S
<1>5. Stands(Woken \cup S) BY <1>1, <1>2, WakeReady
<1>6. /\ IdleAside' /\ Once' /\ Kinds' /\ Agreed' /\ Turns' /\ Ciphered' /\ Current'
      /\ Waiting("pop")' = Waiting("pop") \ S
  BY <1>1, <1>2, <1>3, <1>4, <1>5, Woke DEF peers
<1>7. Typed' BY <1>2, <1>4, <1>5 DEF Typed, peers, opens, queues, Stands
<1>8. CleanWhenDown' BY <1>2 DEF CleanWhenDown, peers, opens, queues
<1>9. PopAwake' /\ PopWaits'
  <2>1. \A c \in Waiting("pop") : call'[c].ids = call[c].ids BY <1>4 DEF Waiting
  <2> QED BY <1>2, <1>6, <2>1 DEF PopAwake, PopWaits, NothingFor, queues
<1> QED BY <1>6, <1>7, <1>8, <1>9

\* A caller resumes.
LEMMA Resumed ==
  ASSUME IInv, NEW c \in Callers, ready # <<>>, Head(ready) = c, ready' = Tail(ready),
         call' = [call EXCEPT ![c] = Idle], UNCHANGED <<peer, way, up, secret>>
  PROVE  /\ IdleAside' /\ Once' /\ Kinds' /\ Agreed' /\ Turns' /\ Ciphered' /\ Current'
         /\ Stands(Woken \ {c}) /\ call' \in [Co -> Call]
         /\ \A d \in Co : d # c => call'[d] = call[d]
         /\ Waiting("pop")' = Waiting("pop")
<1> USE DEF IInv
<1>1. /\ Stands(Woken \ {c}) /\ c \in Woken /\ c \in Co /\ c # Dialer
      /\ Behind(ready) => Behind(ready)'
  BY TailReady, Consts
<1>2. Idle \in Call /\ Idle.op = "none" BY Calls
<1>3. call' \in [Co -> Call] /\ call'[c] = Idle /\ \A d \in Co : d # c => call'[d] = call[d]
  BY <1>1, <1>2 DEF Typed
<1>4. Once' /\ Woken' = Woken \ {c} BY <1>1 DEF Stands
<1>5. IdleAside' BY <1>3, <1>4 DEF IdleAside
<1>6. call'[Dialer] = call[Dialer] BY <1>1, <1>3, Consts
<1>7. Kinds'
  <2>1. \A d \in Popper : call'[d].op \in {"none", "pop"} BY <1>2, <1>3, Consts DEF Kinds
  <2>2. \A d \in Opener : call'[d].op \in {"none", "opens"} BY <1>2, <1>3, Consts DEF Kinds
  <2> QED BY <1>6, <2>1, <2>2 DEF Kinds
<1>8. Agreed' /\ Turns' /\ Ciphered' BY <1>1, <1>6 DEF Agreed, Turns, Ciphered
<1>9. Current' BY <1>2, <1>3, <1>4, Consts DEF Current
<1>10. Waiting("pop")' = Waiting("pop") BY <1>1, <1>2, <1>3, <1>4 DEF Waiting
<1> QED BY <1>1, <1>3, <1>4, <1>5, <1>7, <1>8, <1>9, <1>10

LEMMA PopResumeHolds == ASSUME IInv, NEW c \in Co, PopResume(c) PROVE IInv' /\ OpenersKept
<1> USE DEF IInv
<1>1. c \in Callers /\ call[c].ids \in SUBSET Server
  BY Consts DEF PopResume, Kinds, Early, Typed, Call
<1>2. /\ ready # <<>> /\ Head(ready) = c /\ ready' = Tail(ready) /\ call' = [call EXCEPT ![c] = Idle]
      /\ UNCHANGED <<peers, opens, recvDatas, waitingObject>>
  BY DEF PopResume
<1>3. /\ IdleAside' /\ Once' /\ Kinds' /\ Agreed' /\ Turns' /\ Ciphered' /\ Current'
      /\ Stands(Woken \ {c}) /\ call' \in [Co -> Call]
      /\ \A d \in Co : d # c => call'[d] = call[d]
      /\ Waiting("pop")' = Waiting("pop")
  BY <1>1, <1>2, Resumed DEF peers
<1>4. /\ recvObjs' \in [Server -> 0..MaxQueue] /\ \A s \in Server : recvObjs[s] = 0 => recvObjs'[s] = 0
      /\ ~up => recvObjs' = recvObjs
  <2>1. CASE up /\ Take(call[c].ids) BY <1>1, <2>1, Taken
  <2>2. CASE UNCHANGED recvObjs BY <2>2 DEF Typed
  <2> QED BY <2>1, <2>2 DEF PopResume
<1>5. Typed' BY <1>2, <1>3, <1>4 DEF Typed, peers, opens, Stands
<1>6. CleanWhenDown' BY <1>2, <1>4 DEF CleanWhenDown, peers, opens
<1>7. PopAwake' /\ PopWaits'
  <2>1. c \in Woken BY <1>2, TailReady
  <2>2. \A d \in Waiting("pop") : call'[d] = call[d] /\ call[d].ids \subseteq Server
    BY <1>3, <2>1 DEF Waiting, Typed, Call
  <2> QED BY <1>2, <1>3, <1>4, <2>2 DEF PopAwake, PopWaits, NothingFor
<1>8. OpenersKept
  <2>1. c \notin Opener BY DEF PopResume, Kinds
  <2> QED BY <1>3, <2>1, Consts DEF OpenersKept, Stands
<1> QED BY <1>3, <1>5, <1>6, <1>7, <1>8

LEMMA OpensResumeHolds == ASSUME IInv, NEW c \in Co, OpensResume(c) PROVE IInv'
<1> USE DEF IInv
<1>1. c \in Callers BY Consts DEF OpensResume, Kinds, Early
<1>2. /\ ready # <<>> /\ Head(ready) = c /\ ready' = Tail(ready) /\ call' = [call EXCEPT ![c] = Idle]
      /\ openWaitServerIds' = IF up THEN {} ELSE openWaitServerIds
      /\ UNCHANGED <<peers, openServerIds, queues, waitingObject>>
  BY DEF OpensResume
<1>3. /\ IdleAside' /\ Once' /\ Kinds' /\ Agreed' /\ Turns' /\ Ciphered' /\ Current'
      /\ Stands(Woken \ {c}) /\ call' \in [Co -> Call]
      /\ \A d \in Co : d # c => call'[d] = call[d]
      /\ Waiting("pop")' = Waiting("pop")
  BY <1>1, <1>2, Resumed DEF peers
<1>4. Typed' BY <1>2, <1>3 DEF Typed, peers, queues, Stands
<1>5. CleanWhenDown' BY <1>2 DEF CleanWhenDown, peers, queues
<1>6. PopAwake' /\ PopWaits'
  <2>1. c \in Woken BY <1>2, TailReady
  <2>2. \A d \in Waiting("pop") : call'[d] = call[d] BY <1>3, <2>1 DEF Waiting
  <2> QED BY <1>2, <1>3, <2>2 DEF PopAwake, PopWaits, NothingFor, queues
<1> QED BY <1>3, <1>4, <1>5, <1>6

-----------------------------------------------------------------------------
(* Dial and the alarm. *)

\* Only the Dialer and what it does to the peer change.
LEMMA CallersKept ==
  ASSUME IInv, call' \in [Co -> Call], \A d \in Callers : call'[d] = call[d],
         \A d \in Callers : d \in Woken' <=> d \in Woken,
         call'[Dialer].op \notin {"pop", "opens"},
         UNCHANGED <<opens, queues, waitingObject>>, ~up' => ~up
  PROVE  /\ \A c \in Popper : call'[c].op \in {"none", "pop"}
         /\ \A c \in Opener : call'[c].op \in {"none", "opens"}
         /\ \A c \in Callers : call'[c].op = "none" => c \notin Woken'
         /\ CleanWhenDown' /\ PopAwake' /\ PopWaits'
<1> USE DEF IInv
<1>1. \A c \in Popper : call'[c].op \in {"none", "pop"} BY DEF Kinds, Callers
<1>2. \A c \in Opener : call'[c].op \in {"none", "opens"} BY DEF Kinds, Callers
<1>3. \A c \in Callers : call'[c].op = "none" => c \notin Woken' BY Consts DEF IdleAside
<1>4. CleanWhenDown' BY DEF CleanWhenDown, opens, queues
<1>5. \A c \in Waiting("pop")' : c \in Callers /\ c \in Waiting("pop") /\ call'[c] = call[c]
  BY Consts DEF Waiting
<1>6. PopAwake' /\ PopWaits' BY <1>5 DEF PopAwake, PopWaits, NothingFor, queues
<1> QED BY <1>1, <1>2, <1>3, <1>4, <1>6

LEMMA NetDoneHolds == ASSUME IInv, NetDone PROVE IInv' /\ OpenersKept
<1> USE DEF IInv
<1>1. PICK failed \in BOOLEAN : call' = [call EXCEPT ![Dialer].late = failed] BY DEF NetDone
<1>2. /\ Dialing(call[Dialer].op) /\ Dialer \notin Woken /\ ready' = Append(ready, Dialer)
      /\ UNCHANGED <<peers, opens, queues, waitingObject>>
  BY DEF NetDone
<1> DEFINE r == [call[Dialer] EXCEPT !.late = failed]
<1>3. r \in Call /\ r.op = call[Dialer].op /\ call' = [call EXCEPT ![Dialer] = r]
  BY <1>1, Calls, Consts DEF Typed
<1> HIDE DEF r
<1>4. call' \in [Co -> Call] /\ call'[Dialer] = r /\ \A d \in Callers : call'[d] = call[d]
  BY <1>3, Consts DEF Typed
<1>5. Stands(Woken \cup {Dialer}) /\ (Behind(ready) => Behind(ready)')
  BY <1>2, Consts, AppendReady
<1>6. Once' /\ Woken' = Woken \cup {Dialer} BY <1>5 DEF Stands
<1>7. Typed' BY <1>2, <1>4, <1>5 DEF Typed, peers, opens, queues, Stands
<1>8. call[Dialer].op \notin {"none", "pop", "opens"} BY <1>2, DialingOps
<1>9. /\ \A c \in Popper : call'[c].op \in {"none", "pop"}
      /\ \A c \in Opener : call'[c].op \in {"none", "opens"}
      /\ \A c \in Callers : call'[c].op = "none" => c \notin Woken'
      /\ CleanWhenDown' /\ PopAwake' /\ PopWaits'
  <2>1. \A d \in Callers : d \in Woken' <=> d \in Woken BY <1>6, Consts
  <2>2. call'[Dialer].op \notin {"pop", "opens"} BY <1>3, <1>4, <1>8
  <2>3. ~up' => ~up BY <1>2 DEF peers
  <2> QED BY <1>2, <1>4, <2>1, <2>2, <2>3, CallersKept
<1>10. IdleAside' BY <1>3, <1>4, <1>8, <1>9, Consts DEF IdleAside
<1>11. Kinds' /\ Agreed' /\ Turns' /\ Ciphered'
  <2>1. call'[Dialer].op = call[Dialer].op BY <1>3, <1>4
  <2>2. Kinds' BY <1>2, <1>9, <2>1 DEF Kinds, peers
  <2>3. Agreed' /\ Turns' /\ Ciphered' BY <1>2, <1>5, <2>1 DEF Agreed, Turns, Ciphered, peers
  <2> QED BY <2>2, <2>3
<1>12. Current' BY <1>2, <1>4, <1>6, Consts DEF Current, peers
<1>13. OpenersKept BY <1>4, <1>6, Consts DEF OpenersKept, Callers
<1> QED BY <1>6, <1>7, <1>9, <1>10, <1>11, <1>12, <1>13

LEMMA AlarmExpiresHolds == ASSUME IInv, AlarmExpires PROVE IInv' /\ OpenersKept
<1> USE DEF IInv
<1>1. /\ Alarm \notin Woken /\ ready' = Append(ready, Alarm)
      /\ UNCHANGED <<peers, opens, queues, waitingObject, call>>
  BY DEF AlarmExpires
<1>2. Stands(Woken \cup {Alarm}) /\ (Behind(ready) => Behind(ready)')
  <2>1. Alarm \notin Callers BY Consts
  <2> QED BY <1>1, <2>1, AppendReady
<1>3. Once' /\ \A c \in Co : c \in Woken' <=> c \in Woken BY <1>2, Consts DEF Stands
<1>4. Typed' BY <1>1, <1>2 DEF Typed, peers, opens, queues, Stands
<1>5. /\ CleanWhenDown' /\ PopAwake' /\ PopWaits'
  <2>1. call[Dialer].op \notin {"pop", "opens"} BY DEF Kinds, Early
  <2>2. \A d \in Callers : d \in Woken' <=> d \in Woken BY <1>3, Consts
  <2>3. ~up' => ~up BY <1>1 DEF peers
  <2>4. call' \in [Co -> Call] /\ call' = call BY <1>1, <1>4 DEF Typed
  <2> QED BY <1>1, <2>1, <2>2, <2>3, <2>4, CallersKept
<1>6. IdleAside' BY <1>1, <1>3 DEF IdleAside
<1>7. Kinds' /\ Agreed' /\ Turns' /\ Ciphered' BY <1>1, <1>2 DEF Kinds, Agreed, Turns, Ciphered, peers
<1>8. Current' BY <1>1, <1>3, Consts DEF Current, peers
<1>9. OpenersKept BY <1>1, <1>3, Consts DEF OpenersKept
<1> QED BY <1>3, <1>4, <1>5, <1>6, <1>7, <1>8, <1>9

LEMMA AlarmRunsHolds == ASSUME IInv, AlarmRuns PROVE IInv' /\ OpenersKept
<1> USE DEF IInv
<1>1. ready # <<>> /\ Head(ready) = Alarm /\ alarm' = 0
      /\ UNCHANGED <<peer, way, up, secret, opens, queues, waitingObject>>
  BY DEF AlarmRuns
<1>2. PICK closes \in {TRUE, alarm = peer} :
        LET ends == closes /\ Dialing(call[Dialer].op) /\ call[Dialer].op # "resolve"
                           /\ Dialer \notin Woken
        IN /\ line' = IF closes /\ call[Dialer].op # "resolve" THEN "closed" ELSE line
           /\ call' = IF ends THEN [call EXCEPT ![Dialer].late = TRUE] ELSE call
           /\ ready' = Tail(ready) \o (IF ends THEN <<Dialer>> ELSE <<>>)
  BY DEF AlarmRuns
<1> DEFINE ends == closes /\ Dialing(call[Dialer].op) /\ call[Dialer].op # "resolve"
                          /\ Dialer \notin Woken
           q == Tail(ready)
<1>3. line' \in {"open", "closed", "deaf"} BY <1>2 DEF Typed
<1>4. /\ q \in Seq(Co \cup {Alarm}) /\ Distinct(q) /\ ToSet(q) = Woken \ {Alarm}
      /\ Behind(ready) => Behind(q)
  <2>1. ready \in Seq(Co \cup {Alarm}) /\ Distinct(ready) BY DEF Typed, Once
  <2> QED BY <1>1, <2>1, TailQueue DEF Woken
<1>5. CASE ends
  <2>1. ready' = Append(q, Dialer)
    <3>1. Append(q, Dialer) = q \o <<Dialer>> BY <1>4, Consts, AppendIsConcat
    <3> QED BY <3>1, <1>2, <1>5
  <2>2. call' = [call EXCEPT ![Dialer].late = TRUE] BY <1>2, <1>5
  <2>3. Dialing(call[Dialer].op) /\ Dialer \notin Woken BY <1>5
  <2> HIDE DEF ends, q
  <2> DEFINE r == [call[Dialer] EXCEPT !.late = TRUE]
  <2>4. r \in Call /\ r.op = call[Dialer].op /\ call' = [call EXCEPT ![Dialer] = r]
    BY <2>2, Calls, Consts DEF Typed
  <2> HIDE DEF r
  <2>5. call' \in [Co -> Call] /\ call'[Dialer] = r /\ \A d \in Callers : call'[d] = call[d]
    BY <2>4, Consts DEF Typed
  <2>6. /\ ready' \in Seq(Co \cup {Alarm}) /\ Once' /\ Woken' = (Woken \ {Alarm}) \cup {Dialer}
        /\ Behind(ready) => Behind(ready)'
    <3>1. Dialer \notin ToSet(q) /\ Dialer \in Co \cup {Alarm} BY <1>4, <2>3, Consts
    <3>2. /\ Append(q, Dialer) \in Seq(Co \cup {Alarm}) /\ Distinct(Append(q, Dialer))
          /\ ToSet(Append(q, Dialer)) = ToSet(q) \cup {Dialer}
          /\ Behind(q) /\ Dialer \notin Callers => Behind(Append(q, Dialer))
      BY <1>4, <3>1, AppendQueue
    <3> QED BY <3>2, <2>1, <1>4, Consts DEF Once, Woken
  <2>7. Typed'
    <3>1. alarm' \in 0..MaxPeer BY <1>1, Consts
    <3> QED BY <1>1, <1>3, <2>5, <2>6, <3>1 DEF Typed, opens, queues
  <2>8. call[Dialer].op \notin {"none", "pop", "opens"} BY <2>3, DialingOps
  <2>9. /\ \A c \in Popper : call'[c].op \in {"none", "pop"}
        /\ \A c \in Opener : call'[c].op \in {"none", "opens"}
        /\ \A c \in Callers : call'[c].op = "none" => c \notin Woken'
        /\ CleanWhenDown' /\ PopAwake' /\ PopWaits'
    <3>1. \A d \in Callers : d \in Woken' <=> d \in Woken BY <2>6, Consts
    <3>2. call'[Dialer].op \notin {"pop", "opens"} BY <2>4, <2>5, <2>8
    <3>3. ~up' => ~up BY <1>1
    <3> QED BY <1>1, <2>5, <3>1, <3>2, <3>3, CallersKept
  <2>10. IdleAside' BY <2>4, <2>5, <2>8, <2>9, Consts DEF IdleAside
  <2>11. Kinds' /\ Agreed' /\ Turns' /\ Ciphered'
    <3>1. call'[Dialer].op = call[Dialer].op BY <2>4, <2>5
    <3>2. Kinds' BY <1>1, <2>9, <3>1 DEF Kinds
    <3>3. Agreed' /\ Turns' /\ Ciphered' BY <1>1, <2>6, <3>1 DEF Agreed, Turns, Ciphered
    <3> QED BY <3>2, <3>3
  <2>12. Current' BY <1>1, <2>5, <2>6, Consts DEF Current
  <2>13. OpenersKept BY <2>5, <2>6, Consts DEF OpenersKept, Callers
  <2> QED BY <2>6, <2>7, <2>9, <2>10, <2>11, <2>12, <2>13
<1>6. CASE ~ends
  <2>1. ready' = q
    <3>1. q \o <<>> = q BY <1>4, ConcatEmptySeq
    <3> QED BY <3>1, <1>2, <1>6
  <2>2. call' = call BY <1>2, <1>6
  <2> HIDE DEF ends, q
  <2>3. /\ ready' \in Seq(Co \cup {Alarm}) /\ Once' /\ Woken' = Woken \ {Alarm}
        /\ Behind(ready) => Behind(ready)'
    BY <1>4, <2>1 DEF Once, Woken
  <2>4. \A c \in Co : c \in Woken' <=> c \in Woken BY <2>3, Consts
  <2>5. Typed'
    <3>1. alarm' \in 0..MaxPeer BY <1>1, Consts
    <3> QED BY <1>1, <1>3, <2>2, <2>3, <3>1 DEF Typed, opens, queues
  <2>6. /\ CleanWhenDown' /\ PopAwake' /\ PopWaits'
    <3>1. call[Dialer].op \notin {"pop", "opens"} BY DEF Kinds, Early
    <3>2. \A d \in Callers : d \in Woken' <=> d \in Woken BY <2>4, Consts
    <3>3. ~up' => ~up BY <1>1
    <3>4. call' \in [Co -> Call] BY <2>2 DEF Typed
    <3> QED BY <1>1, <2>2, <3>1, <3>2, <3>3, <3>4, CallersKept
  <2>7. IdleAside' BY <2>2, <2>4 DEF IdleAside
  <2>8. Kinds' /\ Agreed' /\ Turns' /\ Ciphered' BY <1>1, <2>2, <2>3 DEF Kinds, Agreed, Turns, Ciphered
  <2>9. Current' BY <1>1, <2>2, <2>4, Consts DEF Current
  <2>10. OpenersKept BY <2>2, <2>4, Consts DEF OpenersKept
  <2> QED BY <2>3, <2>5, <2>6, <2>7, <2>8, <2>9, <2>10
<1> QED BY <1>5, <1>6

LEMMA DialResumeHolds == ASSUME IInv, DialResume PROVE IInv' /\ OpenersKept
<1> USE DEF IInv
<1> DEFINE op == call[Dialer].op
           starts == ~Failed /\ op \in {"connect", "receive"}
<1>1. /\ First /\ ready' = Tail(ready) /\ ready # <<>> /\ Head(ready) = Dialer
      /\ up' = (up \/ starts)
      /\ secret' = IF op = "connect" /\ ~Failed THEN way = "encrypted"
                   ELSE secret \/ (op = "bind" /\ ~Failed)
      /\ UNCHANGED <<peer, way, line, opens, queues, waitingObject>>
  BY DEF DialResume, First
<1>2. alarm' \in 0..MaxPeer
  <2>1. alarm' \in {peer, 0, alarm} BY DEF DialResume
  <2> QED BY <2>1, Consts DEF Typed
<1>3. /\ Stands(Woken \ {Dialer}) /\ Dialer \in Woken
      /\ Behind(ready) => Behind(ready)'
      /\ Behind(ready) => Woken \cap Callers = {}
  BY <1>1, TailReady
<1>4. op # "none" BY <1>3, Consts DEF IdleAside
\* What the Dialer is suspended in afterwards.
<1>5. PICK r \in Call : /\ call' = [call EXCEPT ![Dialer] = r]
                        /\ \/ r.op = "none"
                           \/ ~Failed /\ Follows(op, r.op)
  <2>1. CASE Failed \/ IsLast
    <3>1. call' = [call EXCEPT ![Dialer] = Idle] BY <2>1 DEF DialResume
    <3> QED BY <3>1, Calls
  <2>2. CASE ~(Failed \/ IsLast)
    <3>1. PICK next \in Ops : /\ Follows(op, next)
                              /\ call' = [call EXCEPT ![Dialer] = [Idle EXCEPT !.op = next]]
      BY <2>2 DEF DialResume
    <3>2. [Idle EXCEPT !.op = next] \in Call /\ [Idle EXCEPT !.op = next].op = next BY Calls
    <3> QED BY <2>2, <3>1, <3>2
  <2> QED BY <2>1, <2>2
<1>6. \/ r.op = "none"
      \/ ~Failed /\ op = "resolve" /\ r.op = "connect" /\ way # "kcp"
      \/ ~Failed /\ op = "connect" /\ r.op = "secret" /\ way = "encrypted"
      \/ ~Failed /\ op = "resolve" /\ r.op = "bind" /\ way = "kcp"
      \/ ~Failed /\ op = "bind" /\ r.op = "send" /\ way = "kcp"
      \/ ~Failed /\ op = "send" /\ r.op = "receive" /\ way = "kcp"
  BY <1>5, NextWaits DEF Typed
<1>7. call' \in [Co -> Call] /\ call'[Dialer] = r /\ \A d \in Callers : call'[d] = call[d]
  BY <1>5, Consts DEF Typed
<1>8. Failed \in BOOLEAN BY Consts DEF Failed, Typed, Call
<1> HIDE DEF starts
<1>9. ~up' => ~up /\ ~starts BY <1>1
<1>10. up' \in BOOLEAN /\ secret' \in BOOLEAN
  <2>1. starts \in BOOLEAN BY <1>8 DEF starts
  <2> QED BY <1>1, <1>8, <2>1 DEF Typed
<1>11. Once' /\ Woken' = Woken \ {Dialer} BY <1>3 DEF Stands
<1>12. Typed' BY <1>1, <1>2, <1>3, <1>7, <1>10 DEF Typed, opens, queues, Stands
<1>13. /\ \A c \in Popper : call'[c].op \in {"none", "pop"}
       /\ \A c \in Opener : call'[c].op \in {"none", "opens"}
       /\ \A c \in Callers : call'[c].op = "none" => c \notin Woken'
       /\ CleanWhenDown' /\ PopAwake' /\ PopWaits'
  <2>1. \A d \in Callers : d \in Woken' <=> d \in Woken BY <1>11, Consts
  <2>2. call'[Dialer].op \notin {"pop", "opens"} BY <1>6, <1>7
  <2> QED BY <1>1, <1>7, <1>9, <2>1, <2>2, CallersKept
<1>14. IdleAside' BY <1>11, <1>13, Consts DEF IdleAside
<1>15. Kinds' BY <1>1, <1>6, <1>7, <1>13 DEF Kinds, Early
<1>16. Turns'
  <2>1. r.op \in Early => op \in Early BY <1>6 DEF Early
  <2> QED BY <2>1, <1>3, <1>7 DEF Turns
<1>17. op \in Early => ~up BY DEF Agreed
<1>18. Agreed'
  <2>1. r.op \in Early => ~up'
    <3>1. r.op \in Early => ~starts /\ ~up BY <1>6, <1>17 DEF Early, starts
    <3> QED BY <3>1, <1>1
  <2>2. r.op \in {"send", "receive"} => secret'
    <3>1. r.op = "send" => op = "bind" /\ ~Failed BY <1>6
    <3>2. r.op = "receive" => op = "send" /\ secret BY <1>6 DEF Agreed
    <3> QED BY <3>1, <3>2, <1>1
  <2>3. r.op = "secret" => (secret' <=> up')
    <3>1. r.op = "secret" => starts /\ op = "connect" /\ ~Failed /\ way = "encrypted" BY <1>6 DEF starts
    <3> QED BY <3>1, <1>1
  <2> QED BY <2>1, <2>2, <2>3, <1>7 DEF Agreed
<1>19. Ciphered'
  <2> SUFFICES ASSUME up' PROVE secret' <=> way # "tcp" BY <1>1 DEF Ciphered
  <2>1. CASE starts /\ op = "connect"
    <3>1. secret' = (way = "encrypted") /\ way # "kcp" BY <1>1, <2>1 DEF starts, Kinds
    <3> QED BY <3>1 DEF Typed, Ways
  <2>2. CASE starts /\ op # "connect"
    <3>1. op = "receive" BY <2>2 DEF starts
    <3>2. secret /\ way = "kcp" BY <3>1 DEF Agreed, Kinds
    <3> QED BY <3>1, <3>2, <1>1
  <2>3. CASE ~starts
    <3>1. up BY <2>3, <1>1
    <3>2. op \notin Early BY <3>1, <1>17
    <3>3. secret' = secret BY <3>2, <1>1, <1>10 DEF Early, Typed
    <3> QED BY <3>1, <3>3 DEF Ciphered
  <2> QED BY <2>1, <2>2, <2>3
<1>20. Current'
  <2> SUFFICES ASSUME NEW c \in Callers, call'[c].op # "none"
               PROVE  IF up' THEN call'[c].gen = peer ELSE c \in Woken'
    BY <1>1 DEF Current
  <2>1. call[c].op # "none" BY <1>7
  <2>2. CASE starts
    <3>1. op \in Early BY <2>2 DEF starts, Early
    <3>2. Behind(ready) /\ ~up BY <3>1, <1>17 DEF Turns
    <3>3. c \in Woken BY <2>1, <3>2 DEF Current
    <3> QED BY <3>2, <3>3, <1>3
  <2>3. CASE ~starts
    <3>1. up' = up BY <2>3, <1>1, <1>10 DEF Typed
    <3>2. IF up THEN call[c].gen = peer ELSE c \in Woken BY <2>1 DEF Current
    <3> QED BY <3>1, <3>2, <1>7, <1>11, Consts
  <2> QED BY <2>2, <2>3
<1>21. OpenersKept BY <1>7, <1>11, Consts DEF OpenersKept, Callers
<1> QED BY <1>11, <1>12, <1>13, <1>14, <1>15, <1>16, <1>18, <1>19, <1>20, <1>21

LEMMA NextHolds == ASSUME IInv, [Next]_vars PROVE IInv'
<1>1. CASE UNCHANGED vars
  <2>1. UNCHANGED <<peer, way, up, secret, call, ready>> BY <1>1 DEF vars, peers
  <2>2. /\ IdleAside' /\ Once' /\ Kinds' /\ Agreed' /\ Turns' /\ Ciphered' /\ Current'
        /\ Waiting("pop")' = Waiting("pop")
    BY <2>1, SameCalls
  <2>3. Typed' /\ CleanWhenDown' BY <1>1 DEF IInv, vars, peers, opens, queues, Typed, CleanWhenDown
  <2>4. PopAwake' /\ PopWaits' BY <1>1, <2>2 DEF IInv, vars, queues, PopAwake, PopWaits, NothingFor
  <2> QED BY <2>2, <2>3, <2>4 DEF IInv
<1>2. CASE User
  BY <1>2, PopHolds, TryPopHolds, TryPopDataHolds, WaitOpensHolds, ResetHolds, DialHolds DEF User
<1>3. CASE Gateway
  BY <1>3, PeerStopHolds, GoesDeafHolds, ReceiveDataHolds, ReceiveTargetHolds, ReceiveOpenHolds,
     ReceiveCloseHolds DEF Gateway
<1>4. CASE Resume
  BY <1>4, DialResumeHolds, AlarmRunsHolds, PopResumeHolds, OpensResumeHolds DEF Resume
<1>5. CASE NetDone BY <1>5, NetDoneHolds
<1>6. CASE AlarmExpires BY <1>6, AlarmExpiresHolds
<1>7. CASE Timeout("pop") BY <1>7, TimeoutHolds
<1>8. CASE Timeout("opens") BY <1>8, TimeoutHolds
<1> QED BY <1>1, <1>2, <1>3, <1>4, <1>5, <1>6, <1>7, <1>8 DEF Next

LEMMA Always == Spec => []IInv
<1>1. Init => IInv BY InitHolds
<1>2. IInv /\ [Next]_vars => IInv' BY NextHolds
<1> QED BY <1>1, <1>2, PTL DEF Spec

\* Whatever the connections, a call sees only the one it was made in, what is left of a
\* connection that has ended is nothing (Cleanup, line 401), and what a connection sends is
\* ciphered as its own Dial agreed.
THEOREM SeesItsOwn == Spec => []OwnConnection
<1>1. IInv => OwnConnection BY Parts
<1> QED BY <1>1, Always, PTL

\* No coroutine sleeps in Pop (line 536) on a package it could take, for any number of them.
THEOREM NoneSleeps == Spec => []PopAwake
<1>1. IInv => PopAwake BY DEF IInv
<1> QED BY <1>1, Always, PTL

\* Dial returns 0 (line 453) only for a peer that is up.
THEOREM DialTellsTheTruth == Spec => DialTells
<1>1. IInv /\ [Next]_vars => [DialResume /\ Succeeds => up']_vars
  <2> SUFFICES ASSUME IInv, DialResume, Succeeds PROVE up' OBVIOUS
  <2>1. /\ ~Failed /\ IsLast /\ way \in Ways
        /\ call[Dialer].op = "secret" => secret
    BY DEF Succeeds, IInv, Typed
  <2>2. CASE call[Dialer].op \in {"connect", "receive"} BY <2>1, <2>2 DEF DialResume
  <2>3. CASE call[Dialer].op = "secret"
    <3>1. up BY <2>1, <2>3 DEF IInv, Agreed
    <3> QED BY <3>1 DEF DialResume
  <2> QED BY <2>1, <2>2, <2>3, LastWaits
<1> QED BY <1>1, Always, PTL DEF Spec, DialTells

-----------------------------------------------------------------------------
(* WaitOpens, when one coroutine calls it. *)

OneOpener == \A c, d \in Opener : c = d

LEMMA OpeningKept ==
  ASSUME Opening, OpenersKept, UNCHANGED opens, up' => up
  PROVE  Opening'
<1> SUFFICES ASSUME NEW c \in Opener, up', call'[c].op = "opens"
             PROVE  LET ids == call'[c].ids IN
                      /\ ids # {}
                      /\ c \notin Woken' => /\ openWaitServerIds' = ids /\ ~call'[c].seen
                                            /\ ~(ids \subseteq openServerIds')
                      /\ c \in Woken' => /\ openWaitServerIds' \in {{}, ids}
                                         /\ openWaitServerIds' = {} <=> call'[c].seen
                                         /\ openWaitServerIds' = {} \/ call'[c].late
  BY DEF Opening
<1> QED BY DEF Opening, OpenersKept, opens

\* When the peer comes up nobody waits.
LEMMA StartsAlone ==
  ASSUME IInv, DialResume, ~up, up'
  PROVE  \A c \in Callers : call[c].op = "none"
<1> USE DEF IInv
<1>1. ready # <<>> /\ Head(ready) = Dialer /\ ready' = Tail(ready) BY DEF DialResume, First
<1>2. call[Dialer].op \in {"connect", "receive"} BY DEF DialResume
<1>3. Behind(ready) BY <1>2 DEF Turns, Early
<1>4. Woken \cap Callers = {} BY <1>1, <1>3, TailReady
<1> QED BY <1>4 DEF Current

LEMMA WaitOpensOpening ==
  ASSUME OneOpener, IInv, NEW c \in Opener, NEW ids \in Wants, WaitOpens(c, ids)
  PROVE  Opening'
<1> USE DEF IInv
<1>1. c \in Co /\ ids \in SUBSET Server /\ ids # {} BY Consts
<1>2. /\ call[c].op = "none" /\ openWaitServerIds' = ids /\ ~(ids \subseteq openServerIds)
      /\ Await(c, "opens", ids) /\ UNCHANGED openServerIds
  BY DEF WaitOpens
<1> DEFINE r == NewCall("opens", ids, peer)
<1>3. r \in Call /\ r.ids = ids /\ r.seen = FALSE BY <1>1, Calls DEF Typed, Ops
<1>4. call' = [call EXCEPT ![c] = r] BY <1>2 DEF Await
<1> HIDE DEF r
<1>5. call'[c] = r BY <1>1, <1>4 DEF Typed
<1>6. c \notin Woken'
  <2>1. Stands(Woken \cup Waiting("opens")) BY <1>2, WaitingCallers, WakeReady DEF Await
  <2>2. c \notin Woken \cup Waiting("opens") BY <1>1, <1>2 DEF IdleAside, Waiting
  <2> QED BY <2>1, <2>2 DEF Stands
<1>7. \A d \in Opener : d = c BY DEF OneOpener
<1> QED BY <1>1, <1>2, <1>3, <1>5, <1>6, <1>7 DEF Opening

LEMMA OpensResumeOpening ==
  ASSUME OneOpener, IInv, NEW c \in Co, OpensResume(c)
  PROVE  Opening'
<1>1. c \in Opener
  <2>1. call[c].op = "opens" BY DEF OpensResume
  <2> QED BY <2>1, Consts DEF IInv, Kinds, Early, Callers
<1>2. call'[c] = Idle BY DEF OpensResume, IInv, Typed
<1>3. Idle.op = "none" BY Calls
<1>4. \A d \in Opener : d = c BY <1>1 DEF OneOpener
<1> QED BY <1>2, <1>3, <1>4 DEF Opening

LEMMA ReceiveOpenOpening ==
  ASSUME OneOpener, IInv, Opening, NEW s \in Server, ReceiveOpen(s)
  PROVE  Opening'
<1> USE DEF IInv
<1>1. up /\ openServerIds' = openServerIds \cup {s} BY DEF ReceiveOpen, ReceiveOpenLeaving
<1>2. SUFFICES ASSUME NEW c \in Opener, call'[c].op = "opens"
               PROVE  LET ids == call'[c].ids IN
                        /\ ids # {}
                        /\ c \notin Woken' => /\ openWaitServerIds' = ids /\ ~call'[c].seen
                                              /\ ~(ids \subseteq openServerIds')
                        /\ c \in Woken' => /\ openWaitServerIds' \in {{}, ids}
                                           /\ openWaitServerIds' = {} <=> call'[c].seen
                                           /\ openWaitServerIds' = {} \/ call'[c].late
  BY DEF Opening
<1> DEFINE ids == call[c].ids
           b == call[c].seen \/ (call[c].op = "opens" /\ ids \subseteq openServerIds')
<1>3. c \in Co /\ call[c] \in Call /\ call[c].seen \in BOOLEAN /\ call[c].late \in BOOLEAN
  BY Consts DEF Typed, Call
<1>4. b \in BOOLEAN /\ call'[c] = [call[c] EXCEPT !.seen = b]
  BY <1>3 DEF ReceiveOpen, ReceiveOpenLeaving
<1>5. call'[c].op = call[c].op /\ call'[c].ids = ids /\ call'[c].late = call[c].late /\ call'[c].seen = b
  <2> HIDE DEF b
  <2> QED BY <1>3, <1>4, Calls
<1>6. call[c].op = "opens" /\ b = (call[c].seen \/ ids \subseteq openServerIds') BY <1>2, <1>3, <1>5
<1>7. /\ ids # {}
      /\ c \notin Woken => /\ openWaitServerIds = ids /\ ~call[c].seen
                           /\ ~(ids \subseteq openServerIds)
      /\ c \in Woken => /\ openWaitServerIds \in {{}, ids}
                        /\ openWaitServerIds = {} <=> call[c].seen
                        /\ openWaitServerIds = {} \/ call[c].late
  BY <1>1, <1>6 DEF Opening
<1> HIDE DEF ids, b
<1>8. CASE openWaitServerIds # {} /\ openWaitServerIds \subseteq openServerIds'
  <2>1. openWaitServerIds' = {} /\ Wake(Waiting("opens"))
    BY <1>8 DEF ReceiveOpen, ReceiveOpenLeaving
  <2>2. Stands(Woken \cup Waiting("opens")) BY <2>1, WaitingCallers, WakeReady
  <2>3. c \in Woken' BY <2>2, <1>3, <1>6 DEF Stands, Waiting
  <2>4. openWaitServerIds = ids BY <1>7, <1>8
  <2>5. b BY <2>4, <1>6, <1>8
  <2> QED BY <2>1, <2>3, <2>5, <1>5, <1>7
<1>9. CASE ~(openWaitServerIds # {} /\ openWaitServerIds \subseteq openServerIds')
  <2>1. UNCHANGED <<openWaitServerIds, ready>> BY <1>9 DEF ReceiveOpen, ReceiveOpenLeaving
  <2>2. Woken' = Woken BY <2>1 DEF Woken
  <2>3. CASE openWaitServerIds = {} BY <2>1, <2>2, <2>3, <1>5, <1>6, <1>7
  <2>4. CASE openWaitServerIds # {}
    <3>1. openWaitServerIds = ids /\ ~(ids \subseteq openServerIds') BY <2>4, <1>7, <1>9
    <3>2. ~call[c].seen BY <2>4, <1>7
    <3> QED BY <2>1, <2>2, <2>4, <3>1, <3>2, <1>5, <1>6, <1>7
  <2> QED BY <2>3, <2>4
<1> QED BY <1>8, <1>9

LEMMA TimeoutOpening ==
  ASSUME IInv, Opening, NEW op \in {"pop", "opens"}, Timeout(op)
  PROVE  Opening'
<1> USE DEF IInv
<1>1. UNCHANGED <<peers, opens>> /\ Stands(Woken \cup Waiting(op))
  <2>1. Waiting(op) \in SUBSET (Co \ Woken) BY WaitingCallers
  <2> QED BY <2>1, WakeReady DEF Timeout
<1>2. SUFFICES ASSUME NEW c \in Opener, up, call'[c].op = "opens"
               PROVE  LET ids == call'[c].ids IN
                        /\ ids # {}
                        /\ c \notin Woken' => /\ openWaitServerIds = ids /\ ~call'[c].seen
                                              /\ ~(ids \subseteq openServerIds)
                        /\ c \in Woken' => /\ openWaitServerIds \in {{}, ids}
                                           /\ openWaitServerIds = {} <=> call'[c].seen
                                           /\ openWaitServerIds = {} \/ call'[c].late
  BY <1>1 DEF Opening, peers, opens
<1> DEFINE b == call[c].late \/ (op = "opens" /\ c \in Waiting(op))
<1>3. c \in Co /\ call[c] \in Call /\ call[c].late \in BOOLEAN BY Consts DEF Typed, Call
<1>4. b \in BOOLEAN /\ call'[c] = [call[c] EXCEPT !.late = b] BY <1>3 DEF Timeout
<1>5. /\ call'[c].op = call[c].op /\ call'[c].ids = call[c].ids
      /\ call'[c].seen = call[c].seen /\ call'[c].late = b
  <2> HIDE DEF b
  <2> QED BY <1>3, <1>4, Calls
<1>6. /\ call[c].ids # {}
      /\ c \notin Woken => /\ openWaitServerIds = call[c].ids /\ ~call[c].seen
                           /\ ~(call[c].ids \subseteq openServerIds)
      /\ c \in Woken => /\ openWaitServerIds \in {{}, call[c].ids}
                        /\ openWaitServerIds = {} <=> call[c].seen
                        /\ openWaitServerIds = {} \/ call[c].late
  BY <1>2, <1>5 DEF Opening
<1>7. c \in Woken' <=> c \in Woken \/ (op = "opens" /\ c \in Waiting(op))
  BY <1>1, <1>2, <1>5 DEF Stands, Waiting
<1>8. b <=> call[c].late \/ (op = "opens" /\ c \in Waiting(op)) OBVIOUS
<1>9. c \in Waiting(op) => c \notin Woken BY DEF Waiting
<1> HIDE DEF b
<1> QED BY <1>5, <1>6, <1>7, <1>8, <1>9

LEMMA ReceiveCloseOpening == ASSUME Opening, NEW s \in Server, ReceiveClose(s) PROVE Opening'
<1>1. CASE openServerIds \ {s} = {}
  <2>1. ~up' BY <1>1 DEF ReceiveClose
  <2> QED BY <2>1 DEF Opening
<1>2. CASE openServerIds \ {s} # {}
  <2>1. openServerIds' \subseteq openServerIds /\ UNCHANGED <<up, openWaitServerIds, ready, call>>
    BY <1>2 DEF ReceiveClose
  <2>2. Woken' = Woken BY <2>1 DEF Woken
  <2> QED BY <2>1, <2>2 DEF Opening
<1> QED BY <1>1, <1>2

LEMMA OpeningNext == ASSUME OneOpener, IInv, Opening, [Next]_vars PROVE Opening'
<1>1. ASSUME UNCHANGED <<call, ready>> PROVE OpenersKept BY <1>1 DEF OpenersKept, Woken
<1>2. CASE UNCHANGED vars
  <2>1. UNCHANGED <<call, ready, opens, up>> BY <1>2 DEF vars, peers
  <2> QED BY <2>1, <1>1, OpeningKept
<1>3. CASE User
  <2>1. ASSUME NEW c \in Popper, NEW ids \in Wants, Pop(c, ids) PROVE Opening'
    <3>1. OpenersKept BY <2>1, PopHolds
    <3>2. UNCHANGED opens /\ (up' => up) BY <2>1 DEF Pop, peers
    <3> QED BY <3>1, <3>2, OpeningKept
  <2>2. ASSUME NEW ids \in Wants, TryPop(ids) PROVE Opening'
    <3>1. UNCHANGED <<call, ready, opens, up>> BY <2>2 DEF TryPop, peers
    <3> QED BY <3>1, <1>1, OpeningKept
  <2>3. CASE TryPopData
    <3>1. UNCHANGED <<call, ready, opens, up>> BY <2>3 DEF TryPopData, peers
    <3> QED BY <3>1, <1>1, OpeningKept
  <2>4. ASSUME NEW c \in Opener, NEW ids \in Wants, WaitOpens(c, ids) PROVE Opening'
    BY <2>4, WaitOpensOpening
  <2>5. CASE Reset
    <3>1. ~up' BY <2>5 DEF Reset, Replace
    <3> QED BY <3>1 DEF Opening
  <2>6. ASSUME NEW w \in Ways, Dial(w) PROVE Opening'
    <3>1. ~up' BY <2>6 DEF Dial, Replace
    <3> QED BY <3>1 DEF Opening
  <2> QED BY <1>3, <2>1, <2>2, <2>3, <2>4, <2>5, <2>6 DEF User
<1>4. CASE Gateway
  <2>1. CASE PeerStop
    <3>1. ~up' BY <2>1 DEF PeerStop
    <3> QED BY <3>1 DEF Opening
  <2>2. CASE GoesDeaf
    <3>1. UNCHANGED <<call, ready, opens, up>> BY <2>2 DEF GoesDeaf
    <3> QED BY <3>1, <1>1, OpeningKept
  <2>3. CASE ReceiveData
    <3>1. UNCHANGED <<call, ready, opens, up>> BY <2>3 DEF ReceiveData, peers
    <3> QED BY <3>1, <1>1, OpeningKept
  <2>4. ASSUME NEW s \in Server, ReceiveTarget(s) PROVE Opening'
    <3>1. OpenersKept BY <2>4, ReceiveTargetHolds
    <3>2. UNCHANGED opens /\ (up' => up) BY <2>4 DEF ReceiveTarget, ReceiveWaking, peers
    <3> QED BY <3>1, <3>2, OpeningKept
  <2>5. ASSUME NEW s \in Server, ReceiveOpen(s) PROVE Opening' BY <2>5, ReceiveOpenOpening
  <2>6. ASSUME NEW s \in Server, ReceiveClose(s) PROVE Opening' BY <2>6, ReceiveCloseOpening
  <2> QED BY <1>4, <2>1, <2>2, <2>3, <2>4, <2>5, <2>6 DEF Gateway
<1>5. CASE DialResume
  <2>1. OpenersKept BY <1>5, DialResumeHolds
  <2>2. UNCHANGED opens BY <1>5 DEF DialResume
  <2>3. CASE up' => up BY <2>1, <2>2, <2>3, OpeningKept
  <2>4. CASE ~up /\ up'
    <3>1. \A c \in Opener : call'[c].op = "none"
      BY <1>5, <2>1, <2>4, StartsAlone DEF OpenersKept, Callers
    <3> QED BY <3>1 DEF Opening
  <2> QED BY <2>3, <2>4
<1>6. CASE AlarmRuns
  <2>1. OpenersKept BY <1>6, AlarmRunsHolds
  <2>2. UNCHANGED opens /\ (up' => up) BY <1>6 DEF AlarmRuns
  <2> QED BY <2>1, <2>2, OpeningKept
<1>7. ASSUME NEW c \in Co, PopResume(c) PROVE Opening'
  <2>1. OpenersKept BY <1>7, PopResumeHolds
  <2>2. UNCHANGED opens /\ (up' => up) BY <1>7 DEF PopResume, peers
  <2> QED BY <2>1, <2>2, OpeningKept
<1>8. ASSUME NEW c \in Co, OpensResume(c) PROVE Opening' BY <1>8, OpensResumeOpening
<1>9. CASE NetDone
  <2>1. OpenersKept BY <1>9, NetDoneHolds
  <2>2. UNCHANGED opens /\ (up' => up) BY <1>9 DEF NetDone, peers
  <2> QED BY <2>1, <2>2, OpeningKept
<1>10. CASE AlarmExpires
  <2>1. OpenersKept BY <1>10, AlarmExpiresHolds
  <2>2. UNCHANGED opens /\ (up' => up) BY <1>10 DEF AlarmExpires, peers
  <2> QED BY <2>1, <2>2, OpeningKept
<1>11. CASE Timeout("pop") BY <1>11, TimeoutOpening
<1>12. CASE Timeout("opens") BY <1>12, TimeoutOpening
<1> QED BY <1>2, <1>3, <1>4, <1>5, <1>6, <1>7, <1>8, <1>9, <1>10, <1>11, <1>12 DEF Next, Resume

\* As long as one coroutine calls WaitOpens (line 548; the list openWaitServerIds has no
\* owner), it returns true exactly when all its servers were open at a moment of its wait,
\* and false only after its timeout.
THEOREM RightAnswer == OneOpener => (Spec => []OpensAnswer)
<1> SUFFICES ASSUME OneOpener PROVE Spec => []OpensAnswer OBVIOUS
<1>1. Init => Opening BY DEF Init, Opening
<1>2. IInv /\ Opening /\ [Next]_vars => Opening' BY OpeningNext
<1>3. IInv /\ Opening => OpensAnswer
  <2> SUFFICES ASSUME IInv, Opening, NEW c \in Opener, up, ready # <<>>, Head(ready) = c
               PROVE  (OpensResult <=> call[c].seen) /\ (OpensResult \/ call[c].late)
    BY DEF OpensAnswer
  <2>1. c \in Woken
    <3>1. ready \in Seq(Co \cup {Alarm}) /\ Distinct(ready) BY DEF IInv, Typed, Once
    <3> QED BY <3>1, TailQueue DEF Woken
  <2>2. call[c].op = "opens" BY <2>1, Consts DEF IInv, IdleAside, Kinds
  <2> QED BY <2>1, <2>2 DEF Opening, OpensResult
<1> QED BY <1>1, <1>2, <1>3, Always, PTL DEF Spec
=============================================================================
