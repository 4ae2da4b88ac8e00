-------------------------- MODULE Schedulers_proofs --------------------------
(* Proofs that the invariants of Tasks and of EventTasks hold for any number *)
(* of coroutines, for lists of any capacity and for any timeout, and for all *)
(* that a program may call: where the code then uses what is gone, which the *)
(* models name, they stop.                                                   *)
EXTENDS Tasks, EventTasks, FiniteSetTheorems, SequenceTheorems, WellFoundedInduction, TLAPS

\* A set of natural numbers has a least one.
LEMMA NatMin ==
  ASSUME NEW S \in SUBSET Nat, S # {}
  PROVE  \E m \in S : \A k \in S : m <= k
<1> DEFINE R == {ss \in Nat \X Nat : ss[1] < ss[2]}
<1>1. IsWellFoundedOn(R, Nat) BY NatLessThanWellFounded DEF OpToRel
<1>2. \A x, y \in Nat : y < x => <<y, x>> \in R OBVIOUS
<1> HIDE DEF R
<1>3. \E x \in S : \A y \in S : ~(<<y, x>> \in R) BY <1>1, WFMin
<1>4. \A x, y \in S : x <= y \/ y < x OBVIOUS
<1> QED BY <1>2, <1>3, <1>4

-----------------------------------------------------------------------------
(* EventTasks. *)

\* Those that have not ended: a list holds their frames, or held them until they were robbed.
Living == (frames \ leaked) \cup robbed

\* Each of them is in one place of one list, and no other is; in events with its frame.
Kept ==
  /\ leaked \subseteq frames /\ robbed \cap frames = {}
  /\ \A n \in DOMAIN tasks : tasks[n] \in Living
  /\ \A n \in DOMAIN events : events[n].coro \in frames \ leaked
  /\ \A m, n \in DOMAIN tasks : tasks[m] = tasks[n] => m = n
  /\ \A m, n \in DOMAIN events : events[m].coro = events[n].coro => m = n
  /\ \A m \in DOMAIN tasks, n \in DOMAIN events : tasks[m] # events[n].coro
  /\ \A c \in Living : \/ \E n \in DOMAIN tasks : tasks[n] = c
                       \/ \E n \in DOMAIN events : events[n].coro = c

\* An event is that of the coroutine in it, and knows how long it has waited, unless it
\* is one that went on after an error.
Asks ==
  \A n \in DOMAIN events :
    LET c == events[n].coro IN
    /\ events[n].p = c
    /\ c \notin stale => events[n].key = asked[c] /\ events[n].left = Timeout - age[c]

\* One that went on after an error asks for nothing, and is not in tasks.
Stayed == \A c \in stale : /\ asked[c] = Null /\ c \in frames
                           /\ \A n \in DOMAIN tasks : tasks[n] # c

\* An answer is there for the coroutine that runs now.
Answers ==
  /\ \A c \in Coro : answer[c] # Null => answer[c] = asked[c] /\ ev > 0 /\ c = events[ev].coro
  /\ ev > 0 /\ answer[events[ev].coro] = Null =>
       age[events[ev].coro] > Timeout \/ events[ev].coro \in stale

\* Where the loops are: what they are to look at next lies before what is resumed now.
Loops ==
  /\ loop = "idle" => i = 0 /\ up = 0
  /\ loop = "events" => up = 0 /\ (ev > 0 => i = ev - 1)
  /\ loop = "updates" => (up > 0 => i = up - 1) /\ (ev > 0 => up > 0)
  /\ up > 0 => tasks[up] \in frames

\* Nothing that is gone has been used, or something has, and it is one of those known.
Sound == TypeOK /\ fault = "none" /\ Kept /\ Asks /\ Stayed /\ Answers /\ Loops
Faulty == TypeOK /\ fault \in {"node", "robbed", "old"}
EInv == Sound \/ Faulty

Event == [key : Key, p : Coro, left : -1..Timeout, coro : Coro]

LEMMA Consts == Timeout \in Nat /\ Null \notin Coro /\ Null \notin Key
  BY EventsAssumption DEF EventsAssumption

\* What the types say of the lists.
LEMMA Lists ==
  ASSUME TypeOK
  PROVE  /\ Len(tasks) \in Nat /\ DOMAIN tasks = 1..Len(tasks)
         /\ Len(events) \in Nat /\ DOMAIN events = 1..Len(events)
         /\ \A n \in DOMAIN tasks : tasks[n] \in Coro
         /\ \A n \in DOMAIN events : /\ events[n] \in Event /\ events[n].key \in Key
                                     /\ events[n].left \in -1..Timeout
                                     /\ events[n].coro \in Coro /\ events[n].p \in Coro
         /\ tasks \in Seq(Coro) /\ events \in Seq(Event)
<1>1. tasks \in Seq(Coro) /\ events \in Seq(Event) BY DEF TypeOK, Event
<1>2. /\ Len(tasks) \in Nat /\ DOMAIN tasks = 1..Len(tasks)
      /\ Len(events) \in Nat /\ DOMAIN events = 1..Len(events)
  BY <1>1, LenProperties
<1>3. \A n \in DOMAIN tasks : tasks[n] \in Coro BY <1>1, <1>2, ElementOfSeq
<1>4. \A n \in DOMAIN events : events[n] \in Event BY <1>1, <1>2, ElementOfSeq
<1>5. \A e \in Event : e.key \in Key /\ e.left \in -1..Timeout /\ e.coro \in Coro /\ e.p \in Coro
  BY DEF Event
<1> QED BY <1>1, <1>2, <1>3, <1>4, <1>5

\* The part of the type that is about the history, and what becomes of it in most steps.
Histories == /\ frames \subseteq Coro /\ robbed \subseteq Coro /\ leaked \subseteq Coro
             /\ stale \subseteq Coro

\* The type in its parts.
LEMMA Typed ==
  ASSUME tasks' \in Seq(Coro), cap' \in Nat, Len(tasks') <= cap', events' \in Seq(Event),
         loop' \in {"idle", "events", "updates"},
         i' \in 0..(IF loop' = "events" THEN Len(events') ELSE Len(tasks')),
         ev' \in 0..Len(events'), up' \in 0..Len(tasks'), Histories',
         asked' \in [Coro -> Key \cup {Null}], answer' \in [Coro -> Key \cup {Null}],
         age' \in [Coro -> 0..(Timeout + 1)],
         fault' \in {"none", "node", "robbed", "old", "other"}
  PROVE  TypeOK'
<1>1. /\ tasks' \in Seq(Coro) /\ cap' \in Nat /\ Len(tasks') <= cap'
      /\ events' \in Seq([key : Key, p : Coro, left : -1..Timeout, coro : Coro])
  BY DEF Event
<1>2. /\ loop' \in {"idle", "events", "updates"}
      /\ i' \in 0..(IF loop' = "events" THEN Len(events') ELSE Len(tasks'))
      /\ ev' \in 0..Len(events') /\ up' \in 0..Len(tasks')
  OBVIOUS
<1>3. /\ frames' \subseteq Coro /\ robbed' \subseteq Coro /\ leaked' \subseteq Coro
      /\ stale' \subseteq Coro
  BY DEF Histories
<1> QED BY <1>1, <1>2, <1>3 DEF TypeOK

LEMMA Types ==
  ASSUME TypeOK
  PROVE  /\ tasks \in Seq(Coro) /\ cap \in Nat /\ Len(tasks) <= cap /\ events \in Seq(Event)
         /\ loop \in {"idle", "events", "updates"}
         /\ i \in 0..(IF loop = "events" THEN Len(events) ELSE Len(tasks))
         /\ ev \in 0..Len(events) /\ up \in 0..Len(tasks) /\ Histories
         /\ asked \in [Coro -> Key \cup {Null}] /\ answer \in [Coro -> Key \cup {Null}]
         /\ age \in [Coro -> 0..(Timeout + 1)]
  BY DEF TypeOK, Histories, Event

\* A bounded one that is not empty has a greatest.
LEMMA NatMax ==
  ASSUME NEW n \in Nat, NEW S \in SUBSET (1..n), S # {}
  PROVE  Max(S) \in S
<1> DEFINE T == {k \in Nat : n - k \in S}
<1>1. PICK s \in S : TRUE OBVIOUS
<1>2. n - s \in T OBVIOUS
<1>3. PICK m \in T : \A k \in T : m <= k BY <1>2, NatMin
<1>4. \A s2 \in S : n - s2 \in T OBVIOUS
<1>5. n - m \in S /\ \A s2 \in S : n - m >= s2 BY <1>3, <1>4
<1> QED BY <1>5 DEF Max

\* SwapRemoveAt.
LEMMA SwapRemove ==
  ASSUME NEW S, NEW s \in Seq(S), NEW n \in 1..Len(s)
  PROVE  /\ Front([s EXCEPT ![n] = Last(s)]) \in Seq(S)
         /\ Len(Front([s EXCEPT ![n] = Last(s)])) = Len(s) - 1
         /\ \A m \in 1..(Len(s) - 1) :
              Front([s EXCEPT ![n] = Last(s)])[m] = IF m = n THEN s[Len(s)] ELSE s[m]
<1> DEFINE t == [s EXCEPT ![n] = Last(s)]
           k == Len(s) - 1
<1>1. Len(s) \in Nat \ {0} BY LenProperties
<1>2. Last(s) = s[Len(s)] /\ s[Len(s)] \in S BY <1>1, ElementOfSeq DEF Last
<1>3. /\ t \in Seq(S) /\ Len(t) = Len(s)
      /\ \A m \in 1..Len(s) : t[m] = IF m = n THEN s[Len(s)] ELSE s[m]
  BY <1>2, ExceptSeq
<1>4. Front(t) = SubSeq(t, 1, k) BY <1>3 DEF Front
<1> HIDE DEF t
<1>5. \A m \in 1..k : t[m] \in S BY <1>1, <1>3, ElementOfSeq
<1>6. /\ SubSeq(t, 1, k) \in Seq(S) /\ Len(SubSeq(t, 1, k)) = IF 1 <= k THEN k - 1 + 1 ELSE 0
      /\ \A m \in 1..(k - 1 + 1) : SubSeq(t, 1, k)[m] = t[1 + m - 1]
  BY <1>1, <1>5, SubSeqProperties
<1>7. Len(Front(t)) = k
  <2>1. k \in Nat BY <1>1
  <2> HIDE DEF k
  <2>2. (IF 1 <= k THEN k - 1 + 1 ELSE 0) = k BY <2>1
  <2> QED BY <1>4, <1>6, <2>2
<1>8. \A m \in 1..k : Front(t)[m] = t[m] BY <1>1, <1>4, <1>6
<1>9. \A m \in 1..k : Front(t)[m] = IF m = n THEN s[Len(s)] ELSE s[m] BY <1>1, <1>3, <1>8
<1> QED BY <1>4, <1>6, <1>7, <1>9 DEF t

\* What is left of s when its n-th has gone: each of the others, once.
Without(s, n, t) ==
  /\ \A m \in DOMAIN t : \E k \in DOMAIN s : k # n /\ t[m] = s[k]
  /\ \A k \in DOMAIN s : k = n \/ \E m \in DOMAIN t : t[m] = s[k]
  /\ \A l, m \in DOMAIN t : l # m => \E j, k \in DOMAIN s : j # k /\ t[l] = s[j] /\ t[m] = s[k]

LEMMA SwapRemoved ==
  ASSUME NEW S, NEW s \in Seq(S), NEW at \in 1..Len(s), NEW t,
         t = Front([s EXCEPT ![at] = Last(s)])
  PROVE  /\ at \in DOMAIN s /\ Len(s) \in Nat
         /\ t \in Seq(S) /\ Len(t) = Len(s) - 1 /\ DOMAIN t = 1..(Len(s) - 1)
         /\ Without(s, at, t)
<1> DEFINE len == Len(s)
<1>1. at \in 1..len /\ len \in Nat /\ DOMAIN s = 1..len BY LenProperties
<1>2. /\ t \in Seq(S) /\ Len(t) = len - 1
      /\ \A m \in 1..(len - 1) : t[m] = IF m = at THEN s[len] ELSE s[m]
  <2> DEFINE u == Front([s EXCEPT ![at] = Last(s)])
  <2>1. /\ u \in Seq(S) /\ Len(u) = Len(s) - 1
        /\ \A m \in 1..(Len(s) - 1) : u[m] = IF m = at THEN s[Len(s)] ELSE s[m]
    BY SwapRemove
  <2>2. t = u OBVIOUS
  <2> HIDE DEF u
  <2> QED BY <2>1, <2>2
<1>3. DOMAIN t = 1..(len - 1) BY <1>2, LenProperties
<1> DEFINE from(n) == IF n = at THEN len ELSE n
<1> HIDE DEF len
<1>4. \A n \in 1..(len - 1) : from(n) \in 1..len /\ from(n) # at /\ t[n] = s[from(n)]
  <2> SUFFICES ASSUME NEW n \in 1..(len - 1)
               PROVE  from(n) \in 1..len /\ from(n) # at /\ t[n] = s[from(n)]
    OBVIOUS
  <2>1. from(n) \in 1..len /\ from(n) # at BY <1>1
  <2>2. t[n] = IF n = at THEN s[len] ELSE s[n] BY <1>2
  <2> QED BY <2>1, <2>2
<1>5. \A m, n \in 1..(len - 1) : m # n => from(m) # from(n) BY <1>1
<1>6. \A m \in 1..len : m = at \/ \E n \in 1..(len - 1) : from(n) = m
  <2> SUFFICES ASSUME NEW m \in 1..len, m # at PROVE \E n \in 1..(len - 1) : from(n) = m OBVIOUS
  <2>1. CASE m = len
    <3>1. at \in 1..(len - 1) /\ from(at) = m BY <1>1, <2>1
    <3> QED BY <3>1
  <2>2. CASE m # len
    <3>1. m \in 1..(len - 1) /\ from(m) = m BY <1>1, <2>2
    <3> QED BY <3>1
  <2> QED BY <2>1, <2>2
<1> HIDE DEF from
<1>7. \A n \in DOMAIN t : \E m \in DOMAIN s : m # at /\ t[n] = s[m] BY <1>1, <1>3, <1>4
<1>8. \A m \in DOMAIN s : m = at \/ \E n \in DOMAIN t : t[n] = s[m]
  <2> SUFFICES ASSUME NEW m \in 1..len, m # at PROVE \E n \in DOMAIN t : t[n] = s[m] BY <1>1
  <2>1. PICK n \in 1..(len - 1) : from(n) = m BY <1>6
  <2>2. n \in DOMAIN t /\ t[n] = s[m] BY <1>3, <1>4, <2>1
  <2> QED BY <2>2
<1>9. \A m, n \in DOMAIN t : m # n => \E j, k \in DOMAIN s : j # k /\ t[m] = s[j] /\ t[n] = s[k]
  <2> SUFFICES ASSUME NEW m \in DOMAIN t, NEW n \in DOMAIN t, m # n
               PROVE  \E j, k \in DOMAIN s : j # k /\ t[m] = s[j] /\ t[n] = s[k]
    OBVIOUS
  <2>1. m \in 1..(len - 1) /\ n \in 1..(len - 1) BY <1>3
  <2>2. from(m) \in 1..len /\ from(n) \in 1..len /\ from(m) # from(n) BY <1>4, <1>5, <2>1
  <2>3. t[m] = s[from(m)] /\ t[n] = s[from(n)] BY <1>4, <2>1
  <2>4. from(m) \in DOMAIN s /\ from(n) \in DOMAIN s BY <1>1, <2>2
  <2> QED BY <2>2, <2>3, <2>4
<1> QED BY <1>1, <1>2, <1>3, <1>7, <1>8, <1>9 DEF len, Without

\* Emplace leaves what was there where it was.
LEMMA Emplaced ==
  ASSUME TypeOK, fault = "none", NEW c \in Coro, EmplaceTask(c)
  PROVE  /\ tasks' \in Seq(Coro) /\ cap' \in Nat /\ Len(tasks') <= cap'
         /\ fault' \in {"none", "node"}
         /\ DOMAIN tasks' = 1..(Len(tasks) + 1) /\ Len(tasks') = Len(tasks) + 1
         /\ \A n \in DOMAIN tasks : tasks'[n] = tasks[n]
         /\ tasks'[Len(tasks) + 1] = c
<1> DEFINE grown == IF Len(tasks) < cap THEN cap ELSE IF cap = 0 THEN 1 ELSE 2 * cap
<1>1. /\ cap' = grown /\ tasks' = Append(tasks, c) /\ fault' \in {"none", "node"}
  BY DEF EmplaceTask
<1>2. cap \in Nat /\ Len(tasks) <= cap /\ Len(tasks) \in Nat BY Lists DEF TypeOK
<1>3. grown \in Nat /\ Len(tasks) + 1 <= grown BY <1>2
<1> HIDE DEF grown
<1>4. /\ tasks' \in Seq(Coro) /\ Len(tasks') = Len(tasks) + 1
      /\ \A n \in 1..Len(tasks) : tasks'[n] = tasks[n]
      /\ tasks'[Len(tasks) + 1] = c
  BY <1>1, Lists, AppendProperties
<1>5. DOMAIN tasks' = 1..(Len(tasks) + 1) BY <1>4, LenProperties
<1> QED BY <1>1, <1>3, <1>4, <1>5, Lists

\* What is left of tasks when the one that is resumed has gone.
LEMMA TaskRemoved ==
  ASSUME Sound, up > 0, NEW owned \in SUBSET {tasks[up]}, RemoveTask(up, owned)
  PROVE  /\ up \in DOMAIN tasks /\ up - 1 \in 0..Len(tasks')
         /\ tasks' \in Seq(Coro) /\ Len(tasks') = Len(tasks) - 1 /\ Len(tasks) \in Nat
         /\ Without(tasks, up, tasks')
         /\ frames' \subseteq Coro /\ robbed' \subseteq Coro /\ leaked' \subseteq Coro
         /\ fault' \in {"none", "robbed"}
         /\ fault' = "none" =>
              /\ leaked' \subseteq frames' /\ robbed' \cap frames' = {}
              /\ Living' = Living \ owned
              /\ frames \ (frames' \cup owned) \subseteq {tasks[n] : n \in DOMAIN tasks}
              /\ leaked' \subseteq leaked \cup owned
              /\ owned = {} => tasks[up] \in frames' \ leaked'
<1> DEFINE last == tasks[Len(tasks)]
<1>1. /\ up \in 1..Len(tasks) /\ Len(tasks) \in Nat /\ DOMAIN tasks = 1..Len(tasks)
      /\ tasks \in Seq(Coro) /\ \A n \in DOMAIN tasks : tasks[n] \in Coro
  <2>1. up \in 0..Len(tasks) BY DEF Sound, TypeOK
  <2>2. /\ Len(tasks) \in Nat /\ DOMAIN tasks = 1..Len(tasks) /\ tasks \in Seq(Coro)
        /\ \A n \in DOMAIN tasks : tasks[n] \in Coro
    BY Lists DEF Sound
  <2> QED BY <2>1, <2>2
<1>2. Last(tasks) = last BY DEF Last
<1>3. /\ tasks' = Front([tasks EXCEPT ![up] = Last(tasks)])
      /\ \/ /\ up < Len(tasks) /\ frames' = frames \ {last} /\ fault' = Gone(last)
            /\ robbed' = robbed \cup {last} /\ leaked' = leaked \cup owned
         \/ /\ ~(up < Len(tasks)) /\ frames' = frames \ owned
            /\ robbed' = robbed /\ leaked' = leaked /\ fault' = fault
  BY <1>2 DEF RemoveTask
<1>4. /\ up \in DOMAIN tasks /\ tasks' \in Seq(Coro) /\ Len(tasks') = Len(tasks) - 1
      /\ Without(tasks, up, tasks')
  BY <1>1, <1>3, SwapRemoved
<1>5. up - 1 \in 0..Len(tasks') BY <1>1, <1>4
<1>6. Len(tasks) \in DOMAIN tasks /\ last \in Living /\ last \in Coro BY <1>1 DEF Sound, Kept
<1>7. /\ tasks[up] \in frames /\ tasks[up] \notin leaked /\ tasks[up] \notin robbed
      /\ leaked \subseteq frames /\ robbed \cap frames = {}
      /\ up < Len(tasks) => tasks[up] # last
  BY <1>1, <1>4, <1>6 DEF Sound, Kept, Loops, Living
<1>8. /\ frames \subseteq Coro /\ robbed \subseteq Coro /\ leaked \subseteq Coro
      /\ owned \subseteq Coro /\ fault = "none"
  BY <1>1 DEF Sound, TypeOK
<1>9. fault' \in {"none", "robbed"} BY <1>3, <1>6, <1>8 DEF Gone, Living
<1>10. frames' \subseteq Coro /\ robbed' \subseteq Coro /\ leaked' \subseteq Coro
  BY <1>3, <1>6, <1>8
<1>11. ASSUME fault' = "none"
       PROVE  /\ leaked' \subseteq frames' /\ robbed' \cap frames' = {}
              /\ Living' = Living \ owned
              /\ frames \ (frames' \cup owned) \subseteq {tasks[n] : n \in DOMAIN tasks}
              /\ leaked' \subseteq leaked \cup owned
              /\ owned = {} => tasks[up] \in frames' \ leaked'
  <2>1. CASE /\ up < Len(tasks) /\ frames' = frames \ {last} /\ fault' = Gone(last)
             /\ robbed' = robbed \cup {last} /\ leaked' = leaked \cup owned
    <3>1. last \in frames /\ last \notin leaked /\ last \notin owned
      BY <1>6, <1>7, <1>8, <1>11, <2>1 DEF Gone, Living
    <3>2. last \in {tasks[n] : n \in DOMAIN tasks} BY <1>6
    <3> HIDE DEF last
    <3>3. Living' = Living \ owned BY <1>7, <2>1, <3>1 DEF Living
    <3> QED BY <1>7, <2>1, <3>1, <3>2, <3>3
  <2>2. CASE /\ ~(up < Len(tasks)) /\ frames' = frames \ owned
             /\ robbed' = robbed /\ leaked' = leaked /\ fault' = fault
    <3>1. Living' = Living \ owned BY <1>7, <2>2 DEF Living
    <3> QED BY <1>7, <2>2, <3>1
  <2> QED BY <1>3, <2>1, <2>2
<1> QED BY <1>1, <1>4, <1>5, <1>9, <1>10, <1>11

-----------------------------------------------------------------------------
(* Each action keeps the invariant. *)

LEMMA EInit == Init => EInv
<1> SUFFICES ASSUME Init PROVE Sound BY DEF EInv
<1>1. DOMAIN tasks = {} /\ DOMAIN events = {} /\ Len(tasks) = 0 /\ Len(events) = 0
  BY DEF Init
<1>2. TypeOK
  <2>1. /\ tasks \in Seq(Coro)
        /\ events \in Seq([key : Key, p : Coro, left : -1..Timeout, coro : Coro])
    BY EmptySeq DEF Init
  <2>2. 0 \in 0..(Timeout + 1) BY Consts
  <2> QED BY <1>1, <2>1, <2>2 DEF Init, TypeOK
<1>3. Kept /\ Asks /\ Stayed BY <1>1 DEF Init, Kept, Asks, Stayed, Living
<1>4. Answers /\ Loops BY DEF Init, Answers, Loops
<1> QED BY <1>2, <1>3, <1>4 DEF Sound, Init

\* A step after which nothing is wrong, or one of the known faults is there.
LEMMA EitherWay ==
  ASSUME TypeOK', fault' \in {"none", "node", "robbed", "old"},
         fault' = "none" => Kept' /\ Asks' /\ Stayed' /\ Answers' /\ Loops'
  PROVE  EInv'
  BY DEF EInv, Sound, Faulty

\* A coroutine comes into tasks that was in neither list.
LEMMA AddInv ==
  ASSUME Sound, NEW c \in Coro, Add(c)
  PROVE  EInv'
<1>1. /\ c \notin frames /\ c \notin robbed /\ EmplaceTask(c) /\ frames' = frames \cup {c}
      /\ UNCHANGED <<events, loop, i, ev, up, asked, age, answer, robbed, leaked, stale>>
  BY DEF Add
<1>2. /\ tasks' \in Seq(Coro) /\ cap' \in Nat /\ Len(tasks') <= cap'
      /\ fault' \in {"none", "node"}
      /\ DOMAIN tasks' = 1..(Len(tasks) + 1) /\ Len(tasks') = Len(tasks) + 1
      /\ \A n \in DOMAIN tasks : tasks'[n] = tasks[n]
      /\ tasks'[Len(tasks) + 1] = c
  BY <1>1, Emplaced DEF Sound
<1>3. Len(tasks) \in Nat /\ DOMAIN tasks = 1..Len(tasks) BY Lists DEF Sound
<1>4. TypeOK'
  <2>1. up' \in 0..Len(tasks') /\ i' \in 0..(IF loop' = "events" THEN Len(events') ELSE Len(tasks'))
    BY <1>1, <1>2, <1>3 DEF Sound, TypeOK
  <2>2. Histories' BY <1>1 DEF Sound, TypeOK, Histories
  <2>3. /\ events' \in Seq(Event) /\ loop' \in {"idle", "events", "updates"}
        /\ ev' \in 0..Len(events')
        /\ asked' \in [Coro -> Key \cup {Null}] /\ answer' \in [Coro -> Key \cup {Null}]
        /\ age' \in [Coro -> 0..(Timeout + 1)]
    BY <1>1, Types DEF Sound
  <2> QED BY <1>2, <2>1, <2>2, <2>3, Typed
<1>5. \A n \in DOMAIN tasks' : \/ n \in DOMAIN tasks /\ tasks'[n] = tasks[n]
                               \/ n = Len(tasks) + 1 /\ tasks'[n] = c
  BY <1>2, <1>3
<1>6. \A n \in DOMAIN tasks : n \in DOMAIN tasks' BY <1>2, <1>3
<1>7. Kept'
  <2>0. /\ c \notin Living /\ Living' = Living \cup {c} /\ frames' \ leaked' = (frames \ leaked) \cup {c}
        /\ leaked' \subseteq frames' /\ robbed' \cap frames' = {}
    BY <1>1 DEF Sound, Kept, Living
  <2>1. \A n \in DOMAIN tasks' : tasks'[n] \in Living' BY <1>5, <2>0 DEF Sound, Kept
  <2>2. \A n \in DOMAIN events' : events'[n].coro \in frames' \ leaked'
    BY <1>1, <2>0 DEF Sound, Kept
  <2>3. \A m, n \in DOMAIN tasks' : tasks'[m] = tasks'[n] => m = n
    BY <1>5, <2>0 DEF Sound, Kept
  <2>4. \A m, n \in DOMAIN events' : events'[m].coro = events'[n].coro => m = n
    BY <1>1 DEF Sound, Kept
  <2>5. \A m \in DOMAIN tasks', n \in DOMAIN events' : tasks'[m] # events'[n].coro
    <3>1. \A n \in DOMAIN events : events[n].coro # c BY <1>1 DEF Sound, Kept
    <3> QED BY <1>1, <1>5, <3>1 DEF Sound, Kept
  <2>6. \A d \in Living' : \/ \E n \in DOMAIN tasks' : tasks'[n] = d
                           \/ \E n \in DOMAIN events' : events'[n].coro = d
    <3>1. Len(tasks) + 1 \in DOMAIN tasks' BY <1>2, <1>3
    <3>2. ASSUME NEW d \in Living PROVE \/ \E n \in DOMAIN tasks' : tasks'[n] = d
                                        \/ \E n \in DOMAIN events' : events'[n].coro = d
      BY <1>1, <1>2, <1>6 DEF Sound, Kept
    <3> QED BY <1>2, <2>0, <3>1, <3>2
  <2> QED BY <2>0, <2>1, <2>2, <2>3, <2>4, <2>5, <2>6 DEF Kept
<1>8. Asks' /\ Answers' BY <1>1 DEF Sound, Asks, Answers
<1>9. Stayed' BY <1>1, <1>5 DEF Sound, Stayed
<1>10. Loops'
  <2>1. up > 0 => tasks'[up] = tasks[up]
    <3>1. up > 0 => up \in DOMAIN tasks BY <1>3 DEF Sound, TypeOK
    <3> QED BY <1>2, <3>1
  <2> QED BY <1>1, <2>1 DEF Sound, Loops
<1> QED BY <1>2, <1>4, <1>7, <1>8, <1>9, <1>10, EitherWay

LEMMA TriggerInv ==
  ASSUME Sound, NEW k \in Key, Trigger(k)
  PROVE  EInv'
<1> DEFINE n == SelectLastInSeq(events, LAMBDA e : e.key = k)
           I == {m \in 1..Len(events) : events[m].key = k}
<1>1. /\ ev = 0 /\ (loop # "idle" => up > 0)
      /\ k \in {e.key : e \in Range(events)}
      /\ UNCHANGED <<tasks, cap, events, loop, i, up, frames, asked, age, robbed, leaked, stale>>
  BY DEF Trigger
<1>2. Len(events) \in Nat /\ DOMAIN events = 1..Len(events) BY Lists DEF Sound
<1>3. I # {} BY <1>1, <1>2 DEF Range
<1>4. n \in I
  <2>1. Max(I) \in I BY <1>2, <1>3, NatMax
  <2> QED BY <1>3, <2>1 DEF SelectLastInSeq
<1>5. /\ answer' = [answer EXCEPT ![events[n].p] = k] /\ ev' = n
      /\ fault' = IF asked[events[n].p] # Null THEN Gone(events[n].coro)
                  ELSE IF events[n].p \in stale THEN "old" ELSE "other"
  BY DEF Trigger
<1> HIDE DEF n, I
<1>6. n \in 1..Len(events) /\ n \in DOMAIN events /\ events[n].key = k BY <1>2, <1>4 DEF I
<1> DEFINE c == events[n].coro
<1>7. /\ c \in Coro /\ events[n].p = c /\ (c \notin stale => k = asked[c])
      /\ (c \in stale => asked[c] = Null)
  BY <1>6, Lists DEF Sound, Asks, Stayed
<1>8. /\ fault' \in {"none", "old"} /\ (fault' = "none" => c \notin stale)
  <2>1. c \in frames BY <1>6 DEF Sound, Kept
  <2>2. c \notin stale => asked[c] # Null BY <1>7, Consts
  <2>3. Gone(c) = "none" BY <2>1 DEF Gone, Sound
  <2>4. fault' = IF asked[c] # Null THEN Gone(c) ELSE IF c \in stale THEN "old" ELSE "other"
    BY <1>5, <1>7
  <2> HIDE DEF c
  <2> QED BY <1>7, <2>2, <2>3, <2>4
<1>9. \A d \in Coro : answer[d] = Null BY <1>1 DEF Sound, Answers
<1>10. answer' = [answer EXCEPT ![c] = k] BY <1>5, <1>7
<1>11. TypeOK'
  <2>1. answer' \in [Coro -> Key \cup {Null}] BY <1>7, <1>10 DEF Sound, TypeOK
  <2>2. ev' \in 0..Len(events') BY <1>1, <1>5, <1>6
  <2> QED BY <1>1, <1>8, <2>1, <2>2 DEF Sound, TypeOK
<1>12. Kept' /\ Asks' /\ Stayed' BY <1>1 DEF Sound, Kept, Asks, Stayed, Living
<1>13. ASSUME fault' = "none" PROVE Answers'
  <2>1. answer'[c] = k /\ \A d \in Coro : d # c => answer'[d] = Null
    BY <1>7, <1>9, <1>10 DEF Sound, TypeOK
  <2>2. ev' > 0 /\ events'[ev'].coro = c /\ asked' = asked BY <1>1, <1>2, <1>5, <1>6
  <2>3. k # Null BY Consts
  <2>4. k = asked[c] BY <1>7, <1>8, <1>13
  <2> HIDE DEF c
  <2> QED BY <2>1, <2>2, <2>3, <2>4 DEF Answers
<1>14. Loops' BY <1>1, <1>5, <1>6, <1>2 DEF Sound, Loops
<1> QED BY <1>8, <1>11, <1>12, <1>13, <1>14, EitherWay

LEMMA NothingInv ==
  ASSUME Sound, Nothing
  PROVE  EInv'
<1>1. /\ tasks' = <<>> /\ cap' = 0 /\ events' = <<>>
      /\ loop' = "idle" /\ i' = 0 /\ ev' = 0 /\ up' = 0 /\ frames' = leaked
      /\ asked' = [c \in Coro |-> Null] /\ answer' = [c \in Coro |-> Null]
      /\ age' = [c \in Coro |-> 0]
      /\ robbed' = {} /\ stale' = {} /\ leaked' = leaked /\ fault' \in {"none", "robbed"}
  BY DEF Nothing, Sound
<1>2. DOMAIN tasks' = {} /\ DOMAIN events' = {} /\ Len(tasks') = 0 /\ Len(events') = 0
  BY <1>1
<1>3. TypeOK'
  <2>1. tasks' \in Seq(Coro) /\ events' \in Seq(Event) BY <1>1, EmptySeq
  <2>2. 0 \in 0..(Timeout + 1) BY Consts
  <2>3. Histories' BY <1>1 DEF Sound, TypeOK, Histories
  <2> QED BY <1>1, <1>2, <2>1, <2>2, <2>3, Typed
<1>4. Kept' /\ Asks' /\ Stayed' BY <1>1, <1>2 DEF Kept, Asks, Stayed, Living
<1>5. Answers' /\ Loops' BY <1>1 DEF Answers, Loops
<1> QED BY <1>1, <1>3, <1>4, <1>5, EitherWay

LEMMA TickInv ==
  ASSUME Sound, Tick
  PROVE  EInv'
<1>1. /\ loop = "idle" /\ ev = 0
      /\ events' = [n \in DOMAIN events |-> [events[n] EXCEPT !.left = IF @ < 0 THEN @ ELSE @ - 1]]
      /\ age' = [c \in Coro |-> IF asked[c] = Null \/ age[c] > Timeout THEN age[c] ELSE age[c] + 1]
      /\ UNCHANGED <<tasks, cap, loop, i, ev, up, frames, asked, answer>>
      /\ UNCHANGED <<robbed, leaked, stale, fault>>
  BY DEF Tick, Idle
<1>2. /\ Len(events) \in Nat /\ DOMAIN events = 1..Len(events)
      /\ \A n \in DOMAIN events : /\ events[n] \in Event /\ events[n].key \in Key
                                  /\ events[n].left \in -1..Timeout
                                  /\ events[n].coro \in Coro /\ events[n].p \in Coro
  BY Lists DEF Sound
<1>3. \A n \in DOMAIN events :
        /\ events'[n] \in Event
        /\ events'[n].key = events[n].key /\ events'[n].p = events[n].p
        /\ events'[n].coro = events[n].coro
        /\ events'[n].left = IF events[n].left < 0 THEN events[n].left ELSE events[n].left - 1
  <2> SUFFICES ASSUME NEW n \in DOMAIN events
               PROVE  /\ events'[n] \in Event
                      /\ events'[n].key = events[n].key /\ events'[n].p = events[n].p
                      /\ events'[n].coro = events[n].coro
                      /\ events'[n].left = IF events[n].left < 0 THEN events[n].left
                                           ELSE events[n].left - 1
    OBVIOUS
  <2>1. events'[n] = [events[n] EXCEPT !.left = IF @ < 0 THEN @ ELSE @ - 1] BY <1>1
  <2>2. (IF events[n].left < 0 THEN events[n].left ELSE events[n].left - 1) \in -1..Timeout
    BY <1>2, Consts
  <2> QED BY <1>2, <2>1, <2>2 DEF Event
<1>4. events' \in Seq(Event) /\ DOMAIN events' = DOMAIN events /\ Len(events') = Len(events)
  <2>1. events' \in [1..Len(events) -> Event] BY <1>1, <1>2, <1>3
  <2>2. events' \in Seq(Event) BY <1>2, <2>1, SeqDef
  <2>3. DOMAIN events' = 1..Len(events') /\ Len(events') \in Nat BY <2>2, LenProperties
  <2>4. DOMAIN events' = 1..Len(events) BY <2>1
  <2>5. \A m, n \in Nat : 1..m = 1..n => m = n
    <3> SUFFICES ASSUME NEW m \in Nat, NEW n \in Nat, 1..m = 1..n PROVE m = n OBVIOUS
    <3>1. (m \in 1..m <=> m > 0) /\ (n \in 1..n <=> n > 0) OBVIOUS
    <3>2. (m > 0 => m \in 1..n) /\ (n > 0 => n \in 1..m) BY <3>1
    <3>3. (m > 0 => m <= n) /\ (n > 0 => n <= m) BY <3>2
    <3> QED BY <3>3
  <2> QED BY <1>2, <2>2, <2>3, <2>4, <2>5
<1>5. \A c \in Coro : age[c] \in 0..(Timeout + 1) /\
        age'[c] = IF asked[c] = Null \/ age[c] > Timeout THEN age[c] ELSE age[c] + 1
  BY <1>1 DEF Sound, TypeOK
<1>6. TypeOK'
  <2>1. age' \in [Coro -> 0..(Timeout + 1)]
    <3>1. \A c \in Coro : age'[c] \in 0..(Timeout + 1) BY <1>5, Consts
    <3> QED BY <1>1, <3>1
  <2>2. events' \in Seq([key : Key, p : Coro, left : -1..Timeout, coro : Coro]) BY <1>4 DEF Event
  <2> QED BY <1>1, <1>4, <2>1, <2>2 DEF Sound, TypeOK
<1>7. Kept'
  <2>1. /\ \A n \in DOMAIN tasks' : tasks'[n] \in Living'
        /\ \A m, n \in DOMAIN tasks' : tasks'[m] = tasks'[n] => m = n
        /\ leaked' \subseteq frames' /\ robbed' \cap frames' = {} /\ Living' = Living
    BY <1>1 DEF Sound, Kept, Living
  <2>2. \A n \in DOMAIN events' : n \in DOMAIN events /\ events'[n].coro = events[n].coro
    BY <1>3, <1>4
  <2>3. \A n \in DOMAIN events' : events'[n].coro \in frames' \ leaked'
    BY <1>1, <2>2 DEF Sound, Kept
  <2>4. \A m, n \in DOMAIN events' : events'[m].coro = events'[n].coro => m = n
    BY <2>2 DEF Sound, Kept
  <2>5. \A m \in DOMAIN tasks', n \in DOMAIN events' : tasks'[m] # events'[n].coro
    BY <1>1, <2>2 DEF Sound, Kept
  <2>6. \A d \in Living' : \/ \E n \in DOMAIN tasks' : tasks'[n] = d
                           \/ \E n \in DOMAIN events' : events'[n].coro = d
    <3>1. \A n \in DOMAIN events : n \in DOMAIN events' /\ events'[n].coro = events[n].coro
      BY <1>3, <1>4
    <3>2. \A d \in Living : \/ \E n \in DOMAIN tasks : tasks[n] = d
                            \/ \E n \in DOMAIN events : events[n].coro = d
      BY DEF Sound, Kept
    <3> QED BY <1>1, <2>1, <3>1, <3>2
  <2> QED BY <2>1, <2>3, <2>4, <2>5, <2>6 DEF Kept
<1>8. Asks'
  <2> SUFFICES ASSUME NEW n \in DOMAIN events
               PROVE  /\ events'[n].p = events'[n].coro
                      /\ events'[n].coro \notin stale' =>
                           /\ events'[n].key = asked'[events'[n].coro]
                           /\ events'[n].left = Timeout - age'[events'[n].coro]
    BY <1>4 DEF Asks
  <2> DEFINE c == events[n].coro
             l == events[n].left
  <2>1. c \in Coro /\ events[n].p = c /\ l \in -1..Timeout BY <1>2 DEF Sound, Asks
  <2>2. events'[n].left = (IF l < 0 THEN l ELSE l - 1) BY <1>3
  <2>3. events'[n].coro = c /\ events'[n].p = c /\ events'[n].key = events[n].key
    BY <1>3, <2>1
  <2>4. ASSUME c \notin stale
        PROVE  events[n].key = asked'[c] /\ events'[n].left = Timeout - age'[c]
    <3>1. asked[c] = events[n].key /\ asked[c] # Null /\ l = Timeout - age[c]
      BY <1>2, <2>4, Consts DEF Sound, Asks
    <3>2. /\ age'[c] = (IF age[c] > Timeout THEN age[c] ELSE age[c] + 1)
          /\ age[c] \in 0..(Timeout + 1)
      BY <1>5, <2>1, <3>1
    <3> HIDE DEF c, l
    <3>3. events'[n].left = Timeout - age'[c] BY <2>1, <2>2, <3>1, <3>2, Consts
    <3> QED BY <1>1, <3>1, <3>3
  <2> QED BY <1>1, <2>3, <2>4
<1>9. Answers' /\ Stayed' BY <1>1 DEF Sound, Answers, Stayed
<1>10. Loops' BY <1>1 DEF Sound, Loops
<1>11. fault' = "none" BY <1>1 DEF Sound
<1> QED BY <1>6, <1>7, <1>8, <1>9, <1>10, <1>11, EitherWay

LEMMA BeginInv ==
  ASSUME Sound, Begin
  PROVE  EInv'
<1>1. /\ loop = "idle" /\ ev = 0 /\ loop' = "events" /\ i' = Len(events)
      /\ UNCHANGED <<tasks, cap, events, ev, up, frames, asked, age, answer>>
      /\ UNCHANGED <<robbed, leaked, stale, fault>>
  BY DEF Begin, Idle
<1>2. Len(events) \in Nat BY Lists DEF Sound
<1>3. TypeOK' BY <1>1, <1>2 DEF Sound, TypeOK
<1>4. Kept' /\ Asks' /\ Stayed' /\ Answers'
  BY <1>1 DEF Sound, Kept, Asks, Stayed, Answers, Living
<1>5. Loops' BY <1>1 DEF Sound, Loops
<1> QED BY <1>1, <1>3, <1>4, <1>5, EitherWay DEF Sound

\* An event is resumed without an answer when it has waited for longer than the timeout.
LEMMA EventsNextInv ==
  ASSUME Sound, EventsNext
  PROVE  EInv'
<1> DEFINE over == {n \in 1..i : events[n].left < 0}
<1>1. /\ loop = "events" /\ ev = 0
      /\ UNCHANGED <<tasks, cap, events, up, frames, asked, age, answer, robbed, leaked, stale>>
      /\ \/ loop' = "updates" /\ i' = Len(tasks) /\ UNCHANGED <<ev, fault>>
         \/ \E n \in over : /\ ev' = n /\ i' = n - 1
                            /\ fault' = Gone(events[n].coro)
                            /\ UNCHANGED loop
  BY DEF EventsNext, ResumeOneOf
<1>2. /\ Len(events) \in Nat /\ DOMAIN events = 1..Len(events) /\ Len(tasks) \in Nat
      /\ i \in 0..Len(events) /\ up = 0
  BY <1>1, Lists DEF Sound, TypeOK, Loops
<1>3. Kept' /\ Asks' /\ Stayed' BY <1>1 DEF Sound, Kept, Asks, Stayed, Living
<1>4. /\ tasks' \in Seq(Coro) /\ cap' \in Nat /\ Len(tasks') <= cap'
      /\ events' \in Seq(Event) /\ up' \in 0..Len(tasks') /\ Histories'
      /\ asked' \in [Coro -> Key \cup {Null}] /\ answer' \in [Coro -> Key \cup {Null}]
      /\ age' \in [Coro -> 0..(Timeout + 1)]
  BY <1>1, Types DEF Sound, Histories
<1>5. CASE loop' = "updates" /\ i' = Len(tasks) /\ UNCHANGED <<ev, fault>>
  <2>1. i' \in 0..(IF loop' = "events" THEN Len(events') ELSE Len(tasks')) BY <1>1, <1>2, <1>5
  <2>2. loop' \in {"idle", "events", "updates"} /\ ev' \in 0..Len(events') /\ fault' = "none"
    BY <1>1, <1>2, <1>5 DEF Sound
  <2>3. TypeOK' BY <1>4, <2>1, <2>2, Typed
  <2>4. Answers' /\ Loops' BY <1>1, <1>2, <1>5 DEF Sound, Answers, Loops
  <2> QED BY <1>3, <2>2, <2>3, <2>4, EitherWay
<1>6. ASSUME NEW n \in over, ev' = n, i' = n - 1, fault' = Gone(events[n].coro), UNCHANGED loop
      PROVE  EInv'
  <2>1. /\ n \in 1..Len(events) /\ n \in DOMAIN events /\ events[n].left < 0
        /\ n - 1 \in 0..Len(events)
    BY <1>2
  <2>2. fault' = "none" BY <1>6, <2>1 DEF Sound, Kept, Gone
  <2>3. i' \in 0..(IF loop' = "events" THEN Len(events') ELSE Len(tasks')) BY <1>1, <1>6, <2>1
  <2>4. ev' \in 0..Len(events') /\ loop' \in {"idle", "events", "updates"}
    BY <1>1, <1>2, <1>6, <2>1
  <2>5. TypeOK' BY <1>4, <2>2, <2>3, <2>4, Typed
  <2> DEFINE c == events[n].coro
  <2>6. age[c] > Timeout \/ c \in stale
    <3> DEFINE l == events[n].left
               a == age[c]
    <3>1. c \in Coro /\ (c \notin stale => l = Timeout - a) /\ a \in 0..(Timeout + 1) /\ l < 0
      BY <2>1, Lists DEF Sound, Asks, TypeOK
    <3> HIDE DEF l, a, c
    <3>2. c \notin stale => a > Timeout BY <3>1, Consts
    <3> QED BY <3>2 DEF a
  <2>7. Answers'
    <3>1. \A d \in Coro : answer'[d] = Null BY <1>1 DEF Sound, Answers
    <3> QED BY <1>1, <1>6, <2>6, <3>1 DEF Answers
  <2>8. Loops' BY <1>1, <1>2, <1>6, <2>1 DEF Loops
  <2> QED BY <1>3, <2>2, <2>5, <2>7, <2>8, EitherWay
<1> QED BY <1>1, <1>5, <1>6

LEMMA UpdatesNextInv ==
  ASSUME Sound, UpdatesNext
  PROVE  EInv'
<1>1. /\ loop = "updates" /\ up = 0 /\ i \in 0..Len(tasks) /\ ev = 0
      /\ UNCHANGED <<tasks, cap, events, ev, frames, asked, age, answer, robbed, leaked, stale>>
      /\ \/ i = 0 /\ loop' = "idle" /\ UNCHANGED <<i, up, fault>>
         \/ /\ i # 0 /\ up' = i /\ i' = i - 1
            /\ fault' = Gone(tasks[i])
            /\ UNCHANGED loop
  <2>1. ev \in 0..Len(events) /\ ~(ev > 0) /\ Len(events) \in Nat
    BY Lists DEF UpdatesNext, Sound, TypeOK, Loops
  <2>2. ev = 0 BY <2>1
  <2> QED BY <2>2 DEF UpdatesNext, Sound, TypeOK
<1>2. Len(tasks) \in Nat /\ DOMAIN tasks = 1..Len(tasks) BY Lists DEF Sound
<1>3. Kept' /\ Asks' /\ Stayed' /\ Answers'
  BY <1>1 DEF Sound, Kept, Asks, Stayed, Answers, Living
<1>4. fault' \in {"none", "robbed"} /\ (i # 0 /\ fault' = "none" => tasks[i] \in frames)
  <2>1. i # 0 => tasks[i] \in Living BY <1>1, <1>2 DEF Sound, Kept
  <2> QED BY <1>1, <2>1 DEF Sound, Living, Gone
<1>5. TypeOK'
  <2>1. /\ up' \in 0..Len(tasks') /\ loop' \in {"idle", "events", "updates"}
        /\ i' \in 0..(IF loop' = "events" THEN Len(events') ELSE Len(tasks'))
    BY <1>1, <1>2
  <2>2. /\ tasks' \in Seq(Coro) /\ cap' \in Nat /\ Len(tasks') <= cap'
        /\ events' \in Seq(Event) /\ ev' \in 0..Len(events') /\ Histories'
        /\ asked' \in [Coro -> Key \cup {Null}] /\ answer' \in [Coro -> Key \cup {Null}]
        /\ age' \in [Coro -> 0..(Timeout + 1)]
    BY <1>1, Types DEF Sound, Histories
  <2> QED BY <1>4, <2>1, <2>2, Typed
<1>6. ASSUME fault' = "none" PROVE Loops'
  <2>1. CASE i = 0 /\ loop' = "idle" /\ UNCHANGED <<i, up>> BY <1>1, <2>1 DEF Loops
  <2>2. CASE i # 0 /\ up' = i /\ i' = i - 1 /\ UNCHANGED loop
    BY <1>1, <1>4, <1>6, <2>2 DEF Loops
  <2> QED BY <1>1, <2>1, <2>2
<1> QED BY <1>3, <1>4, <1>5, <1>6, EitherWay

LEMMA Asked ==
  ASSUME TypeOK, NEW c \in Coro, NEW k \in Key \cup {Null}, Ask(c, k)
  PROVE  /\ asked' \in [Coro -> Key \cup {Null}] /\ answer' \in [Coro -> Key \cup {Null}]
         /\ age' \in [Coro -> 0..(Timeout + 1)]
         /\ asked'[c] = k /\ answer'[c] = Null /\ age'[c] = 0
         /\ \A d \in Coro : d # c => /\ asked'[d] = asked[d] /\ answer'[d] = answer[d]
                                     /\ age'[d] = age[d]
<1>1. /\ asked \in [Coro -> Key \cup {Null}] /\ answer \in [Coro -> Key \cup {Null}]
      /\ age \in [Coro -> 0..(Timeout + 1)]
  BY DEF TypeOK
<1>2. 0 \in 0..(Timeout + 1) BY Consts
<1>3. /\ asked' = [asked EXCEPT ![c] = k] /\ answer' = [answer EXCEPT ![c] = Null]
      /\ age' = [age EXCEPT ![c] = 0]
  BY DEF Ask
<1>4. asked' \in [Coro -> Key \cup {Null}] /\ answer' \in [Coro -> Key \cup {Null}]
  BY <1>1, <1>3
<1>5. age' \in [Coro -> 0..(Timeout + 1)] BY <1>1, <1>2, <1>3
<1> QED BY <1>1, <1>3, <1>4, <1>5

\* The coroutine that is resumed from events.
LEMMA AtEvent ==
  ASSUME Sound, ev > 0
  PROVE  /\ ev \in DOMAIN events /\ ev \in 1..Len(events) /\ Len(events) \in Nat
         /\ Running = events[ev].coro /\ Running \in Coro
         /\ Running \in frames \ leaked /\ Running \notin robbed
         /\ \A m \in DOMAIN tasks : tasks[m] # Running
         /\ \A d \in Coro : d # Running => answer[d] = Null
<1>1. ev \in 0..Len(events) /\ Len(events) \in Nat /\ DOMAIN events = 1..Len(events)
  BY Lists DEF Sound, TypeOK
<1>2. ev \in 1..Len(events) /\ ev \in DOMAIN events /\ Running = events[ev].coro
  BY <1>1 DEF Running
<1>3. Running \in Coro BY <1>2, Lists DEF Sound
<1>4. /\ Running \in frames \ leaked /\ Running \notin robbed
      /\ \A m \in DOMAIN tasks : tasks[m] # Running
  BY <1>2 DEF Sound, Kept
<1>5. \A d \in Coro : d # Running => answer[d] = Null BY <1>2 DEF Sound, Answers
<1> QED BY <1>1, <1>2, <1>3, <1>4, <1>5

\* It is not in events any more.
LEMMA EventGone ==
  ASSUME Sound, ev > 0, events' = WithoutEvent(ev), ev' = 0, Ask(Running, Null), Renewed,
         UNCHANGED <<loop, i, up>>
  PROVE  /\ \A n \in DOMAIN events' : /\ events'[n].coro \in (frames \ leaked) \ {Running}
                                      /\ \A m \in DOMAIN tasks : tasks[m] # events'[n].coro
         /\ \A m, n \in DOMAIN events' : events'[m].coro = events'[n].coro => m = n
         /\ \A d \in Living \ {Running} : \/ \E n \in DOMAIN tasks : tasks[n] = d
                                          \/ \E n \in DOMAIN events' : events'[n].coro = d
         /\ events' \in Seq(Event) /\ Len(events') \in Nat
         /\ asked' \in [Coro -> Key \cup {Null}] /\ answer' \in [Coro -> Key \cup {Null}]
         /\ age' \in [Coro -> 0..(Timeout + 1)]
         /\ loop = "events" => i \in 0..Len(events')
         /\ stale' = stale \ {Running} /\ \A d \in stale' : asked'[d] = Null
         /\ Asks' /\ Answers'
<1> DEFINE c == events[ev].coro
<1>0. /\ ev \in DOMAIN events /\ ev \in 1..Len(events) /\ Len(events) \in Nat
      /\ Running = c /\ c \in Coro /\ \A d \in Coro : d # c => answer[d] = Null
  BY AtEvent
<1>1. /\ events' \in Seq(Event) /\ Len(events') = Len(events) - 1
      /\ Without(events, ev, events')
  <2>1. events' = Front([events EXCEPT ![ev] = Last(events)]) BY DEF WithoutEvent
  <2>2. events \in Seq(Event) BY Lists DEF Sound
  <2> QED BY <1>0, <2>1, <2>2, SwapRemoved
<1>2. /\ \A n \in DOMAIN events' : \E m \in DOMAIN events : m # ev /\ events'[n] = events[m]
      /\ \A m \in DOMAIN events : m = ev \/ \E n \in DOMAIN events' : events'[n] = events[m]
      /\ \A m, n \in DOMAIN events' : m # n =>
           \E k, l \in DOMAIN events : k # l /\ events'[m] = events[k] /\ events'[n] = events[l]
  BY <1>1 DEF Without
<1>3. Ask(c, Null) /\ stale' = stale \ {c} BY <1>0 DEF Renewed
<1>4. /\ asked' \in [Coro -> Key \cup {Null}] /\ answer' \in [Coro -> Key \cup {Null}]
      /\ age' \in [Coro -> 0..(Timeout + 1)]
      /\ asked'[c] = Null /\ answer'[c] = Null
      /\ \A d \in Coro : d # c => /\ asked'[d] = asked[d] /\ answer'[d] = answer[d]
                                  /\ age'[d] = age[d]
  <2>1. TypeOK /\ Null \in Key \cup {Null} BY DEF Sound
  <2> HIDE DEF c
  <2> QED BY <1>0, <1>3, <2>1, Asked
<1>5. \A n \in DOMAIN events' : /\ events'[n].coro \in (frames \ leaked) \ {c}
                                /\ \A m \in DOMAIN tasks : tasks[m] # events'[n].coro
  BY <1>0, <1>2 DEF Sound, Kept
<1>6. \A m, n \in DOMAIN events' : events'[m].coro = events'[n].coro => m = n
  <2> SUFFICES ASSUME NEW m \in DOMAIN events', NEW n \in DOMAIN events', m # n
               PROVE  events'[m].coro # events'[n].coro
    OBVIOUS
  <2>1. PICK k, l \in DOMAIN events : k # l /\ events'[m] = events[k] /\ events'[n] = events[l]
    BY <1>2
  <2>2. events[k].coro # events[l].coro BY <2>1 DEF Sound, Kept
  <2> QED BY <2>1, <2>2
<1>7. \A d \in Living \ {c} : \/ \E n \in DOMAIN tasks : tasks[n] = d
                              \/ \E n \in DOMAIN events' : events'[n].coro = d
  BY <1>2 DEF Sound, Kept
<1>8. \A d \in stale' : asked'[d] = Null
  <2>1. \A d \in stale : d \in Coro /\ asked[d] = Null BY DEF Sound, Stayed, TypeOK
  <2> QED BY <1>3, <1>4, <2>1
<1>9. Asks'
  <2> SUFFICES ASSUME NEW n \in DOMAIN events'
               PROVE  /\ events'[n].p = events'[n].coro
                      /\ events'[n].coro \notin stale' =>
                           /\ events'[n].key = asked'[events'[n].coro]
                           /\ events'[n].left = Timeout - age'[events'[n].coro]
    BY DEF Asks
  <2>1. PICK m \in DOMAIN events : m # ev /\ events'[n] = events[m] BY <1>2
  <2>2. events[m].coro # c /\ events[m].coro \in Coro BY <1>0, <2>1, Lists DEF Sound, Kept
  <2>3. asked'[events[m].coro] = asked[events[m].coro] /\ age'[events[m].coro] = age[events[m].coro]
    BY <1>4, <2>2
  <2>4. events[m].coro \notin stale' => events[m].coro \notin stale BY <1>3, <2>2
  <2> QED BY <2>1, <2>3, <2>4 DEF Sound, Asks
<1>10. Answers'
  <2>1. \A d \in Coro : answer'[d] = Null BY <1>0, <1>4
  <2> QED BY <2>1 DEF Answers
<1>11. Len(events') \in Nat /\ (loop = "events" => i \in 0..Len(events'))
  <2>1. loop = "events" => i = ev - 1 BY DEF Sound, Loops
  <2> QED BY <1>0, <1>1, <2>1
<1> QED BY <1>0, <1>1, <1>3, <1>4, <1>5, <1>6, <1>7, <1>8, <1>9, <1>10, <1>11

LEMMA EventEndsInv ==
  ASSUME Sound, EventEnds
  PROVE  EInv'
<1>1. /\ ev > 0 /\ events' = WithoutEvent(ev) /\ ev' = 0 /\ frames' = frames \ {Running}
      /\ Ask(Running, Null) /\ Renewed
      /\ UNCHANGED <<tasks, cap, loop, i, up, robbed, leaked, fault>>
  BY DEF EventEnds
<1>2. /\ Running \in frames \ leaked /\ Running \notin robbed
      /\ \A m \in DOMAIN tasks : tasks[m] # Running
  BY <1>1, AtEvent
<1>3. /\ \A n \in DOMAIN events' : /\ events'[n].coro \in (frames \ leaked) \ {Running}
                                   /\ \A m \in DOMAIN tasks : tasks[m] # events'[n].coro
      /\ \A m, n \in DOMAIN events' : events'[m].coro = events'[n].coro => m = n
      /\ \A d \in Living \ {Running} : \/ \E n \in DOMAIN tasks : tasks[n] = d
                                       \/ \E n \in DOMAIN events' : events'[n].coro = d
  BY <1>1, EventGone
<1>4. /\ events' \in Seq(Event) /\ Len(events') \in Nat
      /\ asked' \in [Coro -> Key \cup {Null}] /\ answer' \in [Coro -> Key \cup {Null}]
      /\ age' \in [Coro -> 0..(Timeout + 1)]
      /\ loop = "events" => i \in 0..Len(events')
      /\ stale' = stale \ {Running} /\ \A d \in stale' : asked'[d] = Null
      /\ Asks' /\ Answers'
  BY <1>1, EventGone
<1>5. TypeOK'
  <2>1. i' \in 0..(IF loop' = "events" THEN Len(events') ELSE Len(tasks'))
    BY <1>1, <1>4 DEF Sound, TypeOK
  <2>2. ev' \in 0..Len(events') BY <1>1, <1>4
  <2>5. Histories' BY <1>1, <1>4 DEF Sound, TypeOK, Histories
  <2>3. /\ tasks' \in Seq(Coro) /\ cap' \in Nat /\ Len(tasks') <= cap'
        /\ up' \in 0..Len(tasks') /\ loop' \in {"idle", "events", "updates"}
    BY <1>1 DEF Sound, TypeOK
  <2>4. fault' \in {"none", "node", "robbed", "old", "other"} BY <1>1 DEF Sound
  <2> QED BY <1>4, <2>1, <2>2, <2>3, <2>4, <2>5, Typed
<1>6. Kept'
  <2>1. /\ Living' = Living \ {Running} /\ leaked' \subseteq frames' /\ robbed' \cap frames' = {}
        /\ frames' \ leaked' = (frames \ leaked) \ {Running}
    BY <1>1, <1>2 DEF Sound, Kept, Living
  <2>2. \A n \in DOMAIN tasks' : tasks'[n] \in Living' BY <1>1, <1>2, <2>1 DEF Sound, Kept
  <2>3. \A m, n \in DOMAIN tasks' : tasks'[m] = tasks'[n] => m = n BY <1>1 DEF Sound, Kept
  <2> QED BY <1>1, <1>3, <2>1, <2>2, <2>3 DEF Kept
<1>7. Stayed' BY <1>1, <1>2, <1>4 DEF Sound, Stayed
<1>8. Loops'
  <2>1. up > 0 => up \in DOMAIN tasks BY Lists DEF Sound, TypeOK
  <2> QED BY <1>1, <1>2, <2>1 DEF Sound, Loops
<1> QED BY <1>1, <1>4, <1>5, <1>6, <1>7, <1>8, EitherWay DEF Sound

\* It goes from one list to the other, with its frame.
LEMMA EventYieldsInv ==
  ASSUME Sound, EventYields
  PROVE  EInv'
<1> DEFINE c == Running
<1>1. /\ ev > 0 /\ EmplaceTask(c) /\ events' = WithoutEvent(ev) /\ ev' = 0
      /\ Ask(Running, Null) /\ Renewed /\ UNCHANGED <<loop, i, up, frames, robbed, leaked>>
  BY DEF EventYields, EventYieldsTo
<1>2. /\ c \in Coro /\ c \in frames \ leaked /\ c \notin robbed
      /\ \A m \in DOMAIN tasks : tasks[m] # c
  BY <1>1, AtEvent
<1>3. /\ \A n \in DOMAIN events' : /\ events'[n].coro \in (frames \ leaked) \ {c}
                                   /\ \A m \in DOMAIN tasks : tasks[m] # events'[n].coro
      /\ \A m, n \in DOMAIN events' : events'[m].coro = events'[n].coro => m = n
      /\ \A d \in Living \ {c} : \/ \E n \in DOMAIN tasks : tasks[n] = d
                                 \/ \E n \in DOMAIN events' : events'[n].coro = d
  BY <1>1, EventGone
<1>4. /\ events' \in Seq(Event) /\ Len(events') \in Nat
      /\ asked' \in [Coro -> Key \cup {Null}] /\ answer' \in [Coro -> Key \cup {Null}]
      /\ age' \in [Coro -> 0..(Timeout + 1)]
      /\ loop = "events" => i \in 0..Len(events')
      /\ stale' = stale \ {c} /\ \A d \in stale' : asked'[d] = Null
      /\ Asks' /\ Answers'
  BY <1>1, EventGone
<1> HIDE DEF c
<1>5. /\ tasks' \in Seq(Coro) /\ cap' \in Nat /\ Len(tasks') <= cap'
      /\ fault' \in {"none", "node"}
      /\ DOMAIN tasks' = 1..(Len(tasks) + 1) /\ Len(tasks') = Len(tasks) + 1
      /\ \A n \in DOMAIN tasks : tasks'[n] = tasks[n]
      /\ tasks'[Len(tasks) + 1] = c
  BY <1>1, <1>2, Emplaced DEF Sound
<1>6. Len(tasks) \in Nat /\ DOMAIN tasks = 1..Len(tasks) BY Lists DEF Sound
<1>7. /\ \A n \in DOMAIN tasks' : (n \in DOMAIN tasks /\ tasks'[n] = tasks[n])
                                     \/ (n = Len(tasks) + 1 /\ tasks'[n] = c)
      /\ \A n \in DOMAIN tasks : n \in DOMAIN tasks'
      /\ Len(tasks) + 1 \in DOMAIN tasks'
  BY <1>5, <1>6
<1>8. TypeOK'
  <2>1. /\ i \in 0..(IF loop = "events" THEN Len(events) ELSE Len(tasks))
        /\ up \in 0..Len(tasks) /\ loop \in {"idle", "events", "updates"}
    BY DEF Sound, TypeOK
  <2>2. up' \in 0..Len(tasks') /\ loop' \in {"idle", "events", "updates"} BY <1>1, <1>5, <1>6, <2>1
  <2>3. i' \in 0..(IF loop' = "events" THEN Len(events') ELSE Len(tasks'))
    BY <1>1, <1>4, <1>5, <1>6, <2>1
  <2>4. ev' \in 0..Len(events') BY <1>1, <1>4
  <2>5. Histories' BY <1>1, <1>4 DEF Sound, TypeOK, Histories
  <2>6. fault' \in {"none", "node", "robbed", "old", "other"} BY <1>5
  <2> QED BY <1>4, <1>5, <2>2, <2>3, <2>4, <2>5, <2>6, Typed
<1>9. Kept'
  <2>1. /\ Living' = Living /\ c \in Living /\ leaked' \subseteq frames'
        /\ robbed' \cap frames' = {} /\ frames' \ leaked' = frames \ leaked
    BY <1>1, <1>2 DEF Sound, Kept, Living
  <2>2. \A n \in DOMAIN tasks' : tasks'[n] \in Living' BY <1>7, <2>1 DEF Sound, Kept
  <2>3. \A m, n \in DOMAIN tasks' : tasks'[m] = tasks'[n] => m = n
    <3>1. \A m, n \in DOMAIN tasks : tasks[m] = tasks[n] => m = n BY DEF Sound, Kept
    <3> QED BY <1>2, <1>7, <3>1
  <2>4. \A n \in DOMAIN events' : events'[n].coro \in frames' \ leaked' BY <1>3, <2>1
  <2>5. \A m \in DOMAIN tasks', n \in DOMAIN events' : tasks'[m] # events'[n].coro
    BY <1>3, <1>7
  <2>6. \A d \in Living' : \/ \E n \in DOMAIN tasks' : tasks'[n] = d
                           \/ \E n \in DOMAIN events' : events'[n].coro = d
    <3>1. \A n \in DOMAIN tasks : n \in DOMAIN tasks' /\ tasks'[n] = tasks[n] BY <1>5, <1>7
    <3> QED BY <1>3, <1>5, <1>7, <2>1, <3>1
  <2> QED BY <1>3, <2>1, <2>2, <2>3, <2>4, <2>5, <2>6 DEF Kept
<1>10. Stayed' BY <1>1, <1>4, <1>7 DEF Sound, Stayed
<1>11. Loops'
  <2>1. up > 0 => up \in DOMAIN tasks BY Lists DEF Sound, TypeOK
  <2>2. up > 0 => tasks'[up] = tasks[up] BY <1>5, <2>1
  <2> QED BY <1>1, <2>2 DEF Sound, Loops
<1> QED BY <1>4, <1>5, <1>8, <1>9, <1>10, <1>11, EitherWay

\* It keeps its place with what it waited for before.
LEMMA EventGoesOnInv ==
  ASSUME Sound, EventGoesOn
  PROVE  EInv'
<1> DEFINE c == Running
<1>1. /\ ev > 0 /\ loop # "idle" /\ ev' = 0 /\ Ask(c, Null) /\ stale' = stale \cup {c}
      /\ UNCHANGED <<tasks, cap, events, up, frames, robbed, leaked, fault>>
      /\ \/ loop = "events" /\ loop' = "idle" /\ i' = 0
         \/ loop # "events" /\ UNCHANGED <<loop, i>>
  BY DEF EventGoesOn
<1>2. /\ ev \in DOMAIN events /\ ev \in 1..Len(events) /\ Len(events) \in Nat
      /\ c = events[ev].coro /\ c \in Coro /\ c \in frames
      /\ \A m \in DOMAIN tasks : tasks[m] # c
      /\ \A d \in Coro : d # c => answer[d] = Null
  BY <1>1, AtEvent
<1> HIDE DEF c
<1>3. /\ asked' \in [Coro -> Key \cup {Null}] /\ answer' \in [Coro -> Key \cup {Null}]
      /\ age' \in [Coro -> 0..(Timeout + 1)]
      /\ asked'[c] = Null /\ answer'[c] = Null
      /\ \A d \in Coro : d # c => /\ asked'[d] = asked[d] /\ answer'[d] = answer[d]
                                  /\ age'[d] = age[d]
  <2>1. TypeOK /\ Null \in Key \cup {Null} BY DEF Sound
  <2> QED BY <1>1, <1>2, <2>1, Asked
<1>4. loop \in {"events", "updates"} BY <1>1, Types DEF Sound
<1>5. TypeOK'
  <2>1. /\ tasks' \in Seq(Coro) /\ cap' \in Nat /\ Len(tasks') <= cap'
        /\ events' \in Seq(Event) /\ up' \in 0..Len(tasks') /\ Len(tasks) \in Nat
    BY <1>1, Types, Lists DEF Sound
  <2>2. /\ loop' \in {"idle", "events", "updates"} /\ ev' \in 0..Len(events')
        /\ i' \in 0..(IF loop' = "events" THEN Len(events') ELSE Len(tasks'))
    BY <1>1, <1>2, <1>4, <2>1 DEF Sound, TypeOK
  <2>3. Histories' BY <1>1, <1>2 DEF Sound, TypeOK, Histories
  <2>4. fault' \in {"none", "node", "robbed", "old", "other"} BY <1>1 DEF Sound
  <2> QED BY <1>3, <2>1, <2>2, <2>3, <2>4, Typed
<1>6. Kept' BY <1>1 DEF Sound, Kept, Living
<1>7. Asks'
  <2> SUFFICES ASSUME NEW n \in DOMAIN events
               PROVE  /\ events[n].p = events[n].coro
                      /\ events[n].coro \notin stale' =>
                           /\ events[n].key = asked'[events[n].coro]
                           /\ events[n].left = Timeout - age'[events[n].coro]
    BY <1>1 DEF Asks
  <2>1. events[n].coro \in Coro BY Lists DEF Sound
  <2>2. events[n].coro \notin stale' => /\ events[n].coro # c /\ events[n].coro \notin stale
    BY <1>1
  <2> QED BY <1>3, <2>1, <2>2 DEF Sound, Asks
<1>8. Stayed'
  <2>1. \A d \in stale : d \in Coro BY DEF Sound, TypeOK
  <2> QED BY <1>1, <1>2, <1>3, <2>1 DEF Sound, Stayed
<1>9. Answers'
  <2>1. \A d \in Coro : answer'[d] = Null BY <1>2, <1>3
  <2> QED BY <1>1, <2>1 DEF Answers
<1>10. Loops' BY <1>1, <1>4 DEF Sound, Loops
<1> QED BY <1>1, <1>5, <1>6, <1>7, <1>8, <1>9, <1>10, EitherWay DEF Sound

\* What a coroutine begins to wait for now, with its whole time to come.
LEMMA Begun ==
  ASSUME NEW c \in Coro, NEW k \in Key
  PROVE  /\ Waiting(c, k) \in Event
         /\ Waiting(c, k).p = c /\ Waiting(c, k).coro = c /\ Waiting(c, k).key = k
         /\ Waiting(c, k).left = Timeout
<1>1. Timeout \in -1..Timeout BY Consts
<1> QED BY <1>1 DEF Waiting, Event

LEMMA EventRenewsInv ==
  ASSUME Sound, NEW k \in Key, EventRenews(k)
  PROVE  EInv'
<1> DEFINE c == events[ev].coro
<1>0. ev > 0 BY DEF EventRenews, RenewAs
<1>1. /\ ev \in 1..Len(events) /\ Len(events) \in Nat /\ DOMAIN events = 1..Len(events)
      /\ events \in Seq(Event) /\ \A n \in DOMAIN events : events[n].coro \in Coro
  BY <1>0, AtEvent, Lists DEF Sound
<1>2. /\ c \in Coro /\ Running = c /\ \A d \in Coro : d # c => answer[d] = Null
  BY <1>0, AtEvent
<1>3. /\ events' = [events EXCEPT ![ev] = Waiting(c, k)] /\ ev' = 0 /\ Ask(c, k)
      /\ stale' = stale \ {c}
      /\ UNCHANGED <<tasks, cap, loop, i, up, frames, robbed, leaked, fault>>
  BY <1>2 DEF EventRenews, RenewAs, Renewed
<1> DEFINE w == Waiting(c, k)
<1>4. w \in Event /\ w.p = c /\ w.coro = c /\ w.key = k /\ w.left = Timeout BY <1>2, Begun
<1>5. /\ asked' \in [Coro -> Key \cup {Null}] /\ answer' \in [Coro -> Key \cup {Null}]
      /\ age' \in [Coro -> 0..(Timeout + 1)]
      /\ asked'[c] = k /\ answer'[c] = Null /\ age'[c] = 0
      /\ \A d \in Coro : d # c => /\ asked'[d] = asked[d] /\ answer'[d] = answer[d]
                                  /\ age'[d] = age[d]
  <2>1. TypeOK /\ k \in Key \cup {Null} BY DEF Sound
  <2> HIDE DEF c
  <2> QED BY <1>2, <1>3, <2>1, Asked
<1>6. events' = [events EXCEPT ![ev] = w] BY <1>3
<1> HIDE DEF w
<1>7. /\ events' \in Seq(Event) /\ Len(events') = Len(events) /\ DOMAIN events' = DOMAIN events
      /\ \A n \in DOMAIN events : events'[n] = IF n = ev THEN w ELSE events[n]
  <2>1. /\ events' \in Seq(Event) /\ Len(events') = Len(events)
        /\ \A n \in 1..Len(events) : events'[n] = IF n = ev THEN w ELSE events[n]
    BY <1>1, <1>4, <1>6, ExceptSeq
  <2>2. DOMAIN events' = 1..Len(events') BY <2>1, LenProperties
  <2> QED BY <1>1, <2>1, <2>2
<1>8. \A n \in DOMAIN events : events'[n].coro = events[n].coro BY <1>4, <1>7
<1>9. TypeOK'
  <2>1. i' \in 0..(IF loop' = "events" THEN Len(events') ELSE Len(tasks'))
    BY <1>3, <1>7 DEF Sound, TypeOK
  <2>2. ev' \in 0..Len(events') /\ events' \in Seq(Event) BY <1>1, <1>3, <1>7
  <2>3. /\ tasks' \in Seq(Coro) /\ cap' \in Nat /\ Len(tasks') <= cap'
        /\ up' \in 0..Len(tasks') /\ loop' \in {"idle", "events", "updates"}
    BY <1>3 DEF Sound, TypeOK
  <2>4. Histories' BY <1>3 DEF Sound, TypeOK, Histories
  <2>5. fault' \in {"none", "node", "robbed", "old", "other"} BY <1>3 DEF Sound
  <2> QED BY <1>5, <2>1, <2>2, <2>3, <2>4, <2>5, Typed
<1>10. Kept'
  <2>1. /\ \A n \in DOMAIN tasks' : tasks'[n] \in Living'
        /\ \A m, n \in DOMAIN tasks' : tasks'[m] = tasks'[n] => m = n
        /\ leaked' \subseteq frames' /\ robbed' \cap frames' = {} /\ Living' = Living
    BY <1>3 DEF Sound, Kept, Living
  <2>2. \A n \in DOMAIN events' : events'[n].coro \in frames' \ leaked'
    BY <1>3, <1>7, <1>8 DEF Sound, Kept
  <2>3. \A m, n \in DOMAIN events' : events'[m].coro = events'[n].coro => m = n
    BY <1>7, <1>8 DEF Sound, Kept
  <2>4. \A m \in DOMAIN tasks', n \in DOMAIN events' : tasks'[m] # events'[n].coro
    BY <1>3, <1>7, <1>8 DEF Sound, Kept
  <2>5. \A d \in Living' : \/ \E n \in DOMAIN tasks' : tasks'[n] = d
                           \/ \E n \in DOMAIN events' : events'[n].coro = d
    BY <1>3, <1>7, <1>8, <2>1 DEF Sound, Kept
  <2> QED BY <2>1, <2>2, <2>3, <2>4, <2>5 DEF Kept
<1>11. Asks'
  <2> SUFFICES ASSUME NEW n \in DOMAIN events
               PROVE  /\ events'[n].p = events'[n].coro
                      /\ events'[n].coro \notin stale' =>
                           /\ events'[n].key = asked'[events'[n].coro]
                           /\ events'[n].left = Timeout - age'[events'[n].coro]
    BY <1>7 DEF Asks
  <2>1. CASE n = ev
    <3>1. Timeout = Timeout - 0 BY Consts
    <3> QED BY <1>4, <1>5, <1>7, <2>1, <3>1
  <2>2. CASE n # ev
    <3>1. events[n].coro # c /\ events[n].coro \in Coro BY <1>1, <2>2 DEF Sound, Kept
    <3>2. /\ asked'[events[n].coro] = asked[events[n].coro]
          /\ age'[events[n].coro] = age[events[n].coro]
      BY <1>5, <3>1
    <3>3. events'[n] = events[n] /\ (events[n].coro \notin stale' => events[n].coro \notin stale)
      BY <1>3, <1>7, <2>2, <3>1
    <3> QED BY <3>2, <3>3 DEF Sound, Asks
  <2> QED BY <2>1, <2>2
<1>12. Answers'
  <2>1. \A d \in Coro : answer'[d] = Null BY <1>2, <1>5
  <2> QED BY <1>3, <2>1 DEF Answers
<1>13. Loops' BY <1>3 DEF Sound, Loops
<1>14. Stayed'
  <2>1. \A d \in stale : d \in Coro BY DEF Sound, TypeOK
  <2> QED BY <1>3, <1>5, <2>1 DEF Sound, Stayed
<1> QED BY <1>3, <1>9, <1>10, <1>11, <1>12, <1>13, <1>14, EitherWay DEF Sound

-----------------------------------------------------------------------------
(* What the coroutine that was resumed from tasks does. *)

LEMMA AtTask ==
  ASSUME Sound, Resumed
  PROVE  /\ up > 0 /\ ev = 0 /\ up \in DOMAIN tasks /\ Running = tasks[up] /\ Running \in Coro
         /\ loop = "updates" /\ i = up - 1
         /\ \A c \in Coro : answer[c] = Null
<1>1. up > 0 /\ ev = 0 /\ up \in 0..Len(tasks) /\ loop \in {"idle", "events", "updates"}
  BY DEF Resumed, Sound, TypeOK
<1>2. up \in DOMAIN tasks /\ \A n \in DOMAIN tasks : tasks[n] \in Coro BY <1>1, Lists DEF Sound
<1>3. Running = tasks[up] BY <1>1 DEF Running
<1>4. loop = "updates" /\ i = up - 1 BY <1>1 DEF Sound, Loops
<1>5. \A c \in Coro : answer[c] = Null BY <1>1 DEF Sound, Answers
<1> QED BY <1>1, <1>2, <1>3, <1>4, <1>5

\* When it leaves tasks, the others are where they were or in its place.
LEMMA TaskGone ==
  ASSUME Sound, Resumed, NEW owned \in SUBSET {Running}, RemoveTask(up, owned), fault' = "none"
  PROVE  /\ leaked' \subseteq frames' /\ robbed' \cap frames' = {} /\ Living' = Living \ owned
         /\ \A n \in DOMAIN tasks' : tasks'[n] \in Living' /\ tasks'[n] # Running
         /\ \A m, n \in DOMAIN tasks' : tasks'[m] = tasks'[n] => m = n
         /\ \A m \in DOMAIN tasks', n \in DOMAIN events : tasks'[m] # events[n].coro
         /\ \A n \in DOMAIN events : /\ events[n].coro \in frames' \ leaked'
                                     /\ events[n].coro # Running
         /\ \A d \in Living \ {Running} : \/ \E n \in DOMAIN tasks' : tasks'[n] = d
                                          \/ \E n \in DOMAIN events : events[n].coro = d
         /\ \A c \in stale : c \in frames' /\ c # Running /\ \A n \in DOMAIN tasks' : tasks'[n] # c
         /\ Running \in frames /\ (owned = {} => Running \in frames' \ leaked')
<1>1. up > 0 /\ up \in DOMAIN tasks /\ Running = tasks[up] BY AtTask
<1>2. /\ Without(tasks, up, tasks')
      /\ leaked' \subseteq frames' /\ robbed' \cap frames' = {} /\ Living' = Living \ owned
      /\ frames \ (frames' \cup owned) \subseteq {tasks[n] : n \in DOMAIN tasks}
      /\ leaked' \subseteq leaked \cup owned
      /\ owned = {} => Running \in frames' \ leaked'
  BY <1>1, TaskRemoved
<1>3. /\ \A n \in DOMAIN tasks' : \E m \in DOMAIN tasks : m # up /\ tasks'[n] = tasks[m]
      /\ \A m \in DOMAIN tasks : m = up \/ \E n \in DOMAIN tasks' : tasks'[n] = tasks[m]
      /\ \A m, n \in DOMAIN tasks' : m # n =>
           \E k, l \in DOMAIN tasks : k # l /\ tasks'[m] = tasks[k] /\ tasks'[n] = tasks[l]
  BY <1>2 DEF Without
<1>4. \A m, n \in DOMAIN tasks : tasks[m] = tasks[n] => m = n BY DEF Sound, Kept
<1>5. \A n \in DOMAIN tasks' : tasks'[n] \in Living' /\ tasks'[n] # Running
  <2> SUFFICES ASSUME NEW n \in DOMAIN tasks' PROVE tasks'[n] \in Living' /\ tasks'[n] # Running
    OBVIOUS
  <2>1. PICK m \in DOMAIN tasks : m # up /\ tasks'[n] = tasks[m] BY <1>3
  <2>2. tasks[m] \in Living /\ tasks[m] # Running BY <1>1, <1>4, <2>1 DEF Sound, Kept
  <2> QED BY <1>2, <2>1, <2>2
<1>6. \A m, n \in DOMAIN tasks' : tasks'[m] = tasks'[n] => m = n
  <2> SUFFICES ASSUME NEW m \in DOMAIN tasks', NEW n \in DOMAIN tasks', m # n
               PROVE  tasks'[m] # tasks'[n]
    OBVIOUS
  <2>1. PICK k, l \in DOMAIN tasks : k # l /\ tasks'[m] = tasks[k] /\ tasks'[n] = tasks[l]
    BY <1>3
  <2> QED BY <1>4, <2>1
<1>7. \A m \in DOMAIN tasks, n \in DOMAIN events : tasks[m] # events[n].coro BY DEF Sound, Kept
<1>8. \A m \in DOMAIN tasks', n \in DOMAIN events : tasks'[m] # events[n].coro BY <1>3, <1>7
<1>9. \A n \in DOMAIN events : /\ events[n].coro \in frames' \ leaked'
                               /\ events[n].coro # Running
  <2> SUFFICES ASSUME NEW n \in DOMAIN events
               PROVE  events[n].coro \in frames' \ leaked' /\ events[n].coro # Running
    OBVIOUS
  <2>1. events[n].coro # Running BY <1>1, <1>7
  <2>2. events[n].coro \notin {tasks[m] : m \in DOMAIN tasks} BY <1>7
  <2>3. events[n].coro \in frames \ leaked BY DEF Sound, Kept
  <2> QED BY <1>2, <2>1, <2>2, <2>3
<1>10. \A d \in Living \ {Running} : \/ \E n \in DOMAIN tasks' : tasks'[n] = d
                                     \/ \E n \in DOMAIN events : events[n].coro = d
  <2> SUFFICES ASSUME NEW d \in Living, d # Running
               PROVE  \/ \E n \in DOMAIN tasks' : tasks'[n] = d
                      \/ \E n \in DOMAIN events : events[n].coro = d
    OBVIOUS
  <2>1. CASE \E n \in DOMAIN tasks : tasks[n] = d BY <1>1, <1>3, <2>1
  <2> QED BY <2>1 DEF Sound, Kept
<1>11. \A c \in stale : c \in frames' /\ c # Running /\ \A n \in DOMAIN tasks' : tasks'[n] # c
  <2> SUFFICES ASSUME NEW c \in stale
               PROVE  c \in frames' /\ c # Running /\ \A n \in DOMAIN tasks' : tasks'[n] # c
    OBVIOUS
  <2>1. c \in frames /\ \A n \in DOMAIN tasks : tasks[n] # c BY DEF Sound, Stayed
  <2>2. c \notin {tasks[m] : m \in DOMAIN tasks} /\ c # Running BY <1>1, <2>1
  <2> QED BY <1>2, <1>3, <2>1, <2>2
<1>12. Running \in frames BY <1>1 DEF Sound, Loops
<1> QED BY <1>2, <1>5, <1>6, <1>8, <1>9, <1>10, <1>11, <1>12

LEMMA TaskEndsInv ==
  ASSUME Sound, TaskEnds
  PROVE  EInv'
<1>1. /\ Resumed /\ RemoveTask(up, {Running}) /\ up' = 0
      /\ UNCHANGED <<cap, events, loop, i, ev, asked, age, answer, stale>>
  BY DEF TaskEnds
<1>2. /\ up > 0 /\ ev = 0 /\ Running = tasks[up]
      /\ loop = "updates" /\ i = up - 1 /\ \A c \in Coro : answer[c] = Null
  BY <1>1, AtTask
<1>3. /\ up - 1 \in 0..Len(tasks') /\ tasks' \in Seq(Coro) /\ Len(tasks') = Len(tasks) - 1
      /\ Len(tasks) \in Nat
      /\ frames' \subseteq Coro /\ robbed' \subseteq Coro /\ leaked' \subseteq Coro
      /\ fault' \in {"none", "robbed"}
  BY <1>1, <1>2, TaskRemoved
<1>4. TypeOK'
  <2>1. Len(tasks') <= cap' /\ cap' \in Nat BY <1>1, <1>3 DEF Sound, TypeOK
  <2>2. /\ i' \in 0..(IF loop' = "events" THEN Len(events') ELSE Len(tasks'))
        /\ loop' \in {"idle", "events", "updates"} /\ up' \in 0..Len(tasks')
    BY <1>1, <1>2, <1>3
  <2>3. Histories' BY <1>1, <1>3 DEF Sound, TypeOK, Histories
  <2>4. /\ events' \in Seq(Event) /\ ev' \in 0..Len(events')
        /\ asked' \in [Coro -> Key \cup {Null}] /\ answer' \in [Coro -> Key \cup {Null}]
        /\ age' \in [Coro -> 0..(Timeout + 1)]
    BY <1>1, Types DEF Sound
  <2> QED BY <1>3, <2>1, <2>2, <2>3, <2>4, Typed
<1>5. ASSUME fault' = "none" PROVE Kept' /\ Stayed'
  <2>1. /\ leaked' \subseteq frames' /\ robbed' \cap frames' = {} /\ Living' = Living \ {Running}
        /\ \A n \in DOMAIN tasks' : tasks'[n] \in Living' /\ tasks'[n] # Running
        /\ \A m, n \in DOMAIN tasks' : tasks'[m] = tasks'[n] => m = n
        /\ \A m \in DOMAIN tasks', n \in DOMAIN events : tasks'[m] # events[n].coro
        /\ \A n \in DOMAIN events : /\ events[n].coro \in frames' \ leaked'
                                    /\ events[n].coro # Running
        /\ \A d \in Living \ {Running} : \/ \E n \in DOMAIN tasks' : tasks'[n] = d
                                         \/ \E n \in DOMAIN events : events[n].coro = d
        /\ \A c \in stale : c \in frames' /\ c # Running /\ \A n \in DOMAIN tasks' : tasks'[n] # c
    BY <1>1, <1>5, TaskGone
  <2>2. \A m, n \in DOMAIN events : events[m].coro = events[n].coro => m = n BY DEF Sound, Kept
  <2>3. Kept' BY <1>1, <2>1, <2>2 DEF Kept
  <2>4. \A c \in stale : asked[c] = Null BY DEF Sound, Stayed
  <2>5. Stayed' BY <1>1, <2>1, <2>4 DEF Stayed
  <2> QED BY <2>3, <2>5
<1>6. Asks' /\ Answers' BY <1>1, <1>2 DEF Sound, Asks, Answers
<1>7. Loops' BY <1>1, <1>2 DEF Loops
<1> QED BY <1>3, <1>4, <1>5, <1>6, <1>7, EitherWay

\* It leaves tasks for events, with its frame.
LEMMA TaskWaitsInv ==
  ASSUME Sound, NEW k \in Key, TaskWaits(k)
  PROVE  EInv'
<1> DEFINE c == Running
           len == Len(events)
           w == Waiting(c, k)
<1>1. /\ Resumed /\ events' = Append(events, w)
      /\ RemoveTask(up, {}) /\ up' = 0 /\ Ask(c, k)
      /\ UNCHANGED <<cap, loop, i, ev, stale>>
  BY DEF TaskWaits
<1>2. /\ up > 0 /\ ev = 0 /\ up \in DOMAIN tasks /\ c = tasks[up] /\ c \in Coro
      /\ loop = "updates" /\ i = up - 1 /\ \A d \in Coro : answer[d] = Null
  BY <1>1, AtTask
<1>3. /\ up - 1 \in 0..Len(tasks') /\ tasks' \in Seq(Coro) /\ Len(tasks') = Len(tasks) - 1
      /\ Len(tasks) \in Nat
      /\ frames' \subseteq Coro /\ robbed' \subseteq Coro /\ leaked' \subseteq Coro
      /\ fault' \in {"none", "robbed"}
  <2>1. {} \in SUBSET {tasks[up]} OBVIOUS
  <2> QED BY <1>1, <1>2, <2>1, TaskRemoved
<1>4. len \in Nat /\ DOMAIN events = 1..len /\ events \in Seq(Event) BY Lists DEF Sound
<1>5. w \in Event /\ w.p = c /\ w.coro = c /\ w.key = k /\ w.left = Timeout BY <1>2, Begun
<1>6. /\ asked' \in [Coro -> Key \cup {Null}] /\ answer' \in [Coro -> Key \cup {Null}]
      /\ age' \in [Coro -> 0..(Timeout + 1)]
      /\ asked'[c] = k /\ answer'[c] = Null /\ age'[c] = 0
      /\ \A d \in Coro : d # c => /\ asked'[d] = asked[d] /\ answer'[d] = answer[d]
                                  /\ age'[d] = age[d]
  <2>1. TypeOK /\ k \in Key \cup {Null} BY DEF Sound
  <2> HIDE DEF c
  <2> QED BY <1>1, <1>2, <2>1, Asked
<1>7. events' = Append(events, w) BY <1>1
<1> HIDE DEF w
<1>8. /\ events' \in Seq(Event) /\ Len(events') = len + 1
      /\ \A n \in 1..len : events'[n] = events[n]
      /\ events'[len + 1] = w
  BY <1>4, <1>5, <1>7, AppendProperties
<1>9. DOMAIN events' = 1..(len + 1) BY <1>8, LenProperties
<1> HIDE DEF len
<1>10. /\ \A n \in DOMAIN events' : (n \in DOMAIN events /\ events'[n] = events[n])
                                       \/ (n = len + 1 /\ events'[n] = w)
       /\ \A n \in DOMAIN events : n \in DOMAIN events' /\ events'[n] = events[n]
       /\ len + 1 \in DOMAIN events' /\ events'[len + 1] = w
  BY <1>4, <1>8, <1>9
<1>11. TypeOK'
  <2>1. Len(tasks') <= cap' /\ cap' \in Nat BY <1>1, <1>3 DEF Sound, TypeOK
  <2>2. /\ i' \in 0..(IF loop' = "events" THEN Len(events') ELSE Len(tasks'))
        /\ loop' \in {"idle", "events", "updates"} /\ up' \in 0..Len(tasks')
    BY <1>1, <1>2, <1>3
  <2>3. Histories' BY <1>1, <1>3 DEF Sound, TypeOK, Histories
  <2>4. events' \in Seq(Event) /\ ev' \in 0..Len(events') BY <1>1, <1>2, <1>4, <1>8
  <2> QED BY <1>3, <1>6, <2>1, <2>2, <2>3, <2>4, Typed
<1>12. ASSUME fault' = "none" PROVE Kept' /\ Asks' /\ Stayed'
  <2>1. /\ leaked' \subseteq frames' /\ robbed' \cap frames' = {} /\ Living' = Living \ {}
        /\ \A n \in DOMAIN tasks' : tasks'[n] \in Living' /\ tasks'[n] # c
        /\ \A m, n \in DOMAIN tasks' : tasks'[m] = tasks'[n] => m = n
        /\ \A m \in DOMAIN tasks', n \in DOMAIN events : tasks'[m] # events[n].coro
        /\ \A n \in DOMAIN events : /\ events[n].coro \in frames' \ leaked'
                                    /\ events[n].coro # c
        /\ \A d \in Living \ {c} : \/ \E n \in DOMAIN tasks' : tasks'[n] = d
                                   \/ \E n \in DOMAIN events : events[n].coro = d
        /\ \A d \in stale : d \in frames' /\ d # c /\ \A n \in DOMAIN tasks' : tasks'[n] # d
        /\ c \in frames' \ leaked'
    <3>1. {} \in SUBSET {Running} OBVIOUS
    <3> QED BY <1>1, <1>12, <3>1, TaskGone
  <2> HIDE DEF c
  <2>2. Kept'
    <3>1. \A n \in DOMAIN events' : events'[n].coro \in frames' \ leaked' BY <1>5, <1>10, <2>1
    <3>2. \A m, n \in DOMAIN events : events[m].coro = events[n].coro => m = n
      BY DEF Sound, Kept
    <3>3. \A m, n \in DOMAIN events' : events'[m].coro = events'[n].coro => m = n
      BY <1>5, <1>10, <2>1, <3>2
    <3>4. \A m \in DOMAIN tasks', n \in DOMAIN events' : tasks'[m] # events'[n].coro
      BY <1>5, <1>10, <2>1
    <3>5. \A d \in Living' : \/ \E n \in DOMAIN tasks' : tasks'[n] = d
                             \/ \E n \in DOMAIN events' : events'[n].coro = d
      <4> SUFFICES ASSUME NEW d \in Living
                   PROVE  \/ \E n \in DOMAIN tasks' : tasks'[n] = d
                          \/ \E n \in DOMAIN events' : events'[n].coro = d
        BY <2>1
      <4>1. CASE d = c BY <1>5, <1>10, <4>1
      <4>2. CASE d # c BY <1>10, <2>1, <4>2
      <4> QED BY <4>1, <4>2
    <3> QED BY <2>1, <3>1, <3>3, <3>4, <3>5 DEF Kept
  <2>3. Asks'
    <3> SUFFICES ASSUME NEW n \in DOMAIN events'
                 PROVE  /\ events'[n].p = events'[n].coro
                        /\ events'[n].coro \notin stale' =>
                             /\ events'[n].key = asked'[events'[n].coro]
                             /\ events'[n].left = Timeout - age'[events'[n].coro]
      BY DEF Asks
    <3>1. CASE n = len + 1 /\ events'[n] = w
      <4>1. Timeout = Timeout - 0 BY Consts
      <4> QED BY <1>5, <1>6, <3>1, <4>1
    <3>2. CASE n \in DOMAIN events /\ events'[n] = events[n]
      <4>1. events[n].coro # c /\ events[n].coro \in Coro BY <2>1, <3>2, Lists DEF Sound
      <4>2. /\ asked'[events[n].coro] = asked[events[n].coro]
            /\ age'[events[n].coro] = age[events[n].coro]
        BY <1>6, <4>1
      <4> QED BY <1>1, <3>2, <4>2 DEF Sound, Asks
    <3> QED BY <1>10, <3>1, <3>2
  <2>4. Stayed'
    <3>1. \A d \in stale : d \in Coro /\ asked[d] = Null BY DEF Sound, Stayed, TypeOK
    <3>2. \A d \in stale : asked'[d] = Null BY <1>6, <2>1, <3>1
    <3> QED BY <1>1, <2>1, <3>2 DEF Stayed
  <2> QED BY <2>2, <2>3, <2>4
<1>13. Answers'
  <2>1. \A d \in Coro : answer'[d] = Null BY <1>2, <1>6
  <2> QED BY <1>1, <1>2, <2>1 DEF Answers
<1>14. Loops' BY <1>1, <1>2 DEF Loops
<1> QED BY <1>3, <1>11, <1>12, <1>13, <1>14, EitherWay

LEMMA TaskYieldsInv ==
  ASSUME Sound, TaskYields
  PROVE  EInv'
<1>1. /\ Resumed /\ up' = 0
      /\ UNCHANGED <<tasks, cap, events, loop, i, ev, frames, asked, age, answer>>
      /\ UNCHANGED <<robbed, leaked, stale, fault>>
  BY DEF TaskYields
<1>2. loop = "updates" /\ i = up - 1 /\ ev = 0 /\ Len(tasks) \in Nat
  BY <1>1, AtTask, Lists DEF Sound
<1>3. TypeOK' BY <1>1, <1>2 DEF Sound, TypeOK
<1>4. Kept' /\ Asks' /\ Stayed' /\ Answers'
  BY <1>1 DEF Sound, Kept, Asks, Stayed, Answers, Living
<1>5. Loops' BY <1>1, <1>2 DEF Loops
<1> QED BY <1>1, <1>3, <1>4, <1>5, EitherWay DEF Sound

LEMMA TaskFailsInv ==
  ASSUME Sound, TaskFails
  PROVE  EInv'
<1>1. /\ Resumed /\ up' = 0 /\ loop' = "idle" /\ i' = 0
      /\ UNCHANGED <<tasks, cap, events, ev, frames, asked, age, answer>>
      /\ UNCHANGED <<robbed, leaked, stale, fault>>
  BY DEF TaskFails
<1>2. Len(tasks) \in Nat BY Lists DEF Sound
<1>3. TypeOK' BY <1>1, <1>2 DEF Sound, TypeOK
<1>4. Kept' /\ Asks' /\ Stayed' /\ Answers'
  BY <1>1 DEF Sound, Kept, Asks, Stayed, Answers, Living
<1>5. Loops' BY <1>1 DEF Loops
<1> QED BY <1>1, <1>3, <1>4, <1>5, EitherWay DEF Sound

\* No step is taken after a fault.
LEMMA NextInv ==
  ASSUME EInv, Next
  PROVE  EInv'
<1>0. fault = "none" BY DEF Next, Calls, Frames, EventLeaves, TaskLeaves
<1>1. Sound BY <1>0 DEF EInv, Faulty
<1>2. ASSUME NEW c \in Coro, Add(c) PROVE EInv' BY <1>1, <1>2, AddInv
<1>3. ASSUME NEW k \in Key, Trigger(k) PROVE EInv' BY <1>1, <1>3, TriggerInv
<1>4. ASSUME Dispose PROVE EInv' BY <1>1, <1>4, NothingInv DEF Dispose
<1>5. ASSUME Tick PROVE EInv' BY <1>1, <1>5, TickInv
<1>6. ASSUME Frames PROVE EInv'
  BY <1>1, <1>6, BeginInv, EventsNextInv, UpdatesNextInv DEF Frames
<1>7. ASSUME EventLeaves PROVE EInv'
  <2>1. ASSUME EventFails PROVE EInv' BY <1>1, <2>1, NothingInv DEF EventFails
  <2> QED BY <1>1, <1>7, <2>1, EventEndsInv, EventYieldsInv, EventGoesOnInv, EventRenewsInv
          DEF EventLeaves
<1>8. ASSUME TaskLeaves PROVE EInv'
  BY <1>1, <1>8, TaskEndsInv, TaskYieldsInv, TaskFailsInv, TaskWaitsInv DEF TaskLeaves
<1> QED BY <1>2, <1>3, <1>4, <1>5, <1>6, <1>7, <1>8 DEF Next, Calls

LEMMA Invariance == Spec => []EInv
<1>1. ASSUME EInv, [Next]_vars PROVE EInv'
  <2>1. CASE Next BY <1>1, <2>1, NextInv
  <2>2. CASE UNCHANGED vars
    <3>1. /\ UNCHANGED <<tasks, cap, events, loop, i, ev, up, frames, asked, age, answer>>
          /\ UNCHANGED <<robbed, leaked, stale, fault>>
      BY <2>2 DEF vars
    <3>2. TypeOK' = TypeOK BY <3>1 DEF TypeOK
    <3>3. /\ Kept' = Kept /\ Asks' = Asks /\ Stayed' = Stayed /\ Answers' = Answers
          /\ Loops' = Loops
      BY <3>1 DEF Kept, Asks, Stayed, Answers, Loops, Living
    <3> QED BY <1>1, <3>1, <3>2, <3>3 DEF EInv, Sound, Faulty
  <2> QED BY <1>1, <2>1, <2>2
<1> QED BY <1>1, EInit, PTL DEF Spec

-----------------------------------------------------------------------------
(* What it says of the coroutines. *)

LEMMA OnePlace ==
  ASSUME TypeOK, Kept, NEW c \in Coro
  PROVE  Cardinality(Places(c)) = IF c \in Living THEN 1 ELSE 0
<1> DEFINE T == {n \in DOMAIN tasks : tasks[n] = c}
           E == {m \in DOMAIN events : events[m].coro = c}
<1>1. Places(c) = T \cup {Len(tasks) + n : n \in E} BY DEF Places
<1>2. CASE c \in Living
  <2>1. CASE \E n \in DOMAIN tasks : tasks[n] = c
    <3>1. PICK n \in DOMAIN tasks : tasks[n] = c BY <2>1
    <3>2. T = {n} /\ E = {} BY <3>1 DEF Kept
    <3>3. Places(c) = {n} BY <1>1, <3>2
    <3> QED BY <1>2, <3>3, FS_Singleton
  <2>2. CASE \E n \in DOMAIN events : events[n].coro = c
    <3>1. PICK n \in DOMAIN events : events[n].coro = c BY <2>2
    <3>2. T = {} /\ E = {n} BY <3>1 DEF Kept
    <3>3. Places(c) = {Len(tasks) + n} BY <1>1, <3>2
    <3> QED BY <1>2, <3>3, FS_Singleton
  <2> QED BY <1>2, <2>1, <2>2 DEF Kept
<1>3. CASE c \notin Living
  <2>1. T = {} /\ E = {} BY <1>3 DEF Kept, Living
  <2>2. Places(c) = {} BY <1>1, <2>1
  <2> QED BY <1>3, <2>2, FS_EmptySet
<1> QED BY <1>2, <1>3

\* However Add, operator() and Resume move coroutines under the loops of operator()(),
\* each that has not ended is in one place of one list, where all but those are resumed
\* with their frame whose frame went because a task left that was not the last of tasks.
\* What is gone is used only for these, when tasks grows under a task that is resumed,
\* and through the pointer of a coroutine that went on after an error.
THEOREM OnePlaceEach == Spec => []KeptOnce
<1>1. ASSUME EInv PROVE KeptOnce
  <2>1. CASE Sound
    <3>1. \A c \in Coro : Cardinality(Places(c)) = IF c \in Living THEN 1 ELSE 0
      BY <2>1, OnePlace DEF Sound
    <3> QED BY <2>1, <3>1 DEF Sound, Kept, KeptOnce, Living
  <2>2. CASE Faulty BY <2>2 DEF Faulty, KeptOnce
  <2> QED BY <1>1, <2>1, <2>2 DEF EInv
<1> QED BY <1>1, Invariance, PTL

\* As long as nothing that is gone has been used, a wait ends with the answer for its own
\* key, or when its own time is over.
THEOREM AnswersAreOwn == Spec => []OwnAnswer
<1>1. ASSUME EInv PROVE OwnAnswer
  <2>1. CASE fault = "none"
    <3>1. Sound BY <1>1, <2>1 DEF EInv, Faulty
    <3>2. \A e \in Range(events) : e.p = e.coro /\ (asked[e.p] = e.key \/ e.p \in stale)
      BY <3>1 DEF Sound, Asks, Range
    <3>3. \A c \in stale : asked[c] = Null BY <3>1 DEF Sound, Stayed
    <3>4. ev > 0 => Running = events[ev].coro BY DEF Running
    <3> QED BY <3>1, <3>2, <3>3, <3>4 DEF Sound, Answers, OwnAnswer
  <2>2. CASE fault # "none" BY <2>2 DEF OwnAnswer
  <2> QED BY <2>1, <2>2
<1> QED BY <1>1, Invariance, PTL

-----------------------------------------------------------------------------
(* Tasks: the list. *)

Free(l) == Chain(l, l.freeHead, "next", l.freeCount)

\* s are the nodes of list l from head to tail, f those of its free list.  With the
\* nodes named, that each next and prev fits is a matter of each node on its own.
Keeps(l, s, f) ==
  LET n == Count(l)   c == l.freeCount IN
  /\ s \in [1..n -> 0..(l.len - 1)] /\ f \in [1..c -> 0..(l.len - 1)]
  /\ \A j, k \in 1..n : s[j] = s[k] => j = k
  /\ \A j, k \in 1..c : f[j] = f[k] => j = k
  /\ \A j \in 1..n, k \in 1..c : s[j] # f[k]
  /\ \A nd \in 0..(l.len - 1) : (\E j \in 1..n : s[j] = nd) \/ (\E k \in 1..c : f[k] = nd)
  /\ IF n = 0 THEN l.head = None /\ l.tail = None ELSE l.head = s[1] /\ l.tail = s[n]
  /\ \A k \in 1..n : /\ l.buf[s[k]].next = IF k = n THEN None ELSE s[k + 1]
                     /\ l.buf[s[k]].prev = IF k = 1 THEN None ELSE s[k - 1]
  /\ c > 0 => l.freeHead = f[1]
  /\ \A k \in 1..c : l.buf[f[k]].version = 0 /\ (k < c => l.buf[f[k]].next = f[k + 1])

\* q are the n nodes from nd on, along a field.
IsChain(l, nd, field, n, q) ==
  /\ n \in Nat /\ q = [k \in 1..n |-> q[k]]
  /\ n > 0 => q[1] = nd
  /\ \A k \in 2..n : q[k - 1] \in DOMAIN l.buf /\ q[k] = l.buf[q[k - 1]][field]

\* What is linked node by node is what the recursion of Chain finds: there is no first
\* node at which they differ.
LEMMA ChainIs ==
  ASSUME NEW l, NEW nd, NEW field, NEW n, NEW q, IsChain(l, nd, field, n, q)
  PROVE  Chain(l, nd, field, n) = q
<1>0. /\ n \in Nat /\ q = [k \in 1..n |-> q[k]]
      /\ n > 0 => q[1] = nd
      /\ \A k \in 2..n : q[k - 1] \in DOMAIN l.buf /\ q[k] = l.buf[q[k - 1]][field]
  BY DEF IsChain
<1> DEFINE F(at) == [k \in 1..n |-> IF k = 1 THEN nd
                        ELSE IF at[k - 1] \in DOMAIN l.buf THEN l.buf[at[k - 1]][field] ELSE None]
           at0 == CHOOSE at : at = F(at)
<1>1. Chain(l, nd, field, n) = [k \in 1..n |-> at0[k]] BY DEF Chain
<1>2. q = F(q)
  <2>1. \A k \in 1..n : q[k] = F(q)[k]
   <3> TAKE k \in 1..n
   <3>1. CASE k = 1 BY <1>0, <3>1
   <3>2. CASE k # 1
     <4>1. k \in 2..n BY <3>2
     <4>2. q[k - 1] \in DOMAIN l.buf /\ q[k] = l.buf[q[k - 1]][field] BY <1>0, <4>1
     <4> QED BY <3>2, <4>2
   <3> QED BY <3>1, <3>2
  <2> QED BY <1>0, <2>1
<1>3. at0 = F(at0) BY <1>2
<1> HIDE DEF at0
<1>4. \A k \in 1..n : at0[k] = IF k = 1 THEN nd
                        ELSE IF at0[k - 1] \in DOMAIN l.buf THEN l.buf[at0[k - 1]][field] ELSE None
  BY <1>3
<1> DEFINE B == {k \in 1..n : at0[k] # q[k]}
<1>5. B = {}
  <2> SUFFICES ASSUME B # {} PROVE FALSE OBVIOUS
  <2>1. PICK m \in B : \A k \in B : m <= k
    <3>1. B \in SUBSET Nat OBVIOUS
    <3> QED BY <3>1, NatMin
  <2>2. m # 1 BY <1>0, <1>4
  <2>3. m - 1 \in 1..n /\ m \in 2..n /\ ~(m <= m - 1) BY <1>0, <2>2
  <2>4. at0[m - 1] = q[m - 1] BY <2>1, <2>3
  <2>5. at0[m] = IF at0[m - 1] \in DOMAIN l.buf THEN l.buf[at0[m - 1]][field] ELSE None
    BY <1>4, <2>2
  <2>6. at0[m] = q[m] BY <1>0, <2>3, <2>4, <2>5
  <2> QED BY <2>1, <2>6
<1> QED BY <1>0, <1>1, <1>5

Node == [next : Int, prev : Int, version : 0..(VersionMod - 1), value : 0..MaxTask]

\* A list as its operations make it.
Shape(l) ==
  /\ l = [buf |-> l.buf, cap |-> l.cap, len |-> l.len, head |-> l.head, tail |-> l.tail,
          freeHead |-> l.freeHead, freeCount |-> l.freeCount, version |-> l.version]
  /\ l.cap \in Nat /\ l.len \in 0..l.cap /\ l.freeCount \in 0..l.len /\ l.version \in Nat
  /\ l.freeHead \in Int /\ l.buf \in [0..(l.cap - 1) -> Node]

\* m is l without node nd; the fields as the code writes them.
Removed(l, m, nd) ==
  /\ Shape(m)
  /\ m.cap = l.cap /\ m.len = l.len /\ m.version = l.version
  /\ m.freeHead = nd /\ m.freeCount = l.freeCount + 1
  /\ m.head = IF nd = l.head THEN l.buf[nd].next ELSE l.head
  /\ m.tail = IF nd = l.tail THEN l.buf[nd].prev ELSE l.tail
  /\ m.buf[nd].next = l.freeHead /\ m.buf[nd].version = 0
  /\ \A j \in 0..(l.len - 1) : j # nd =>
       /\ m.buf[j].value = l.buf[j].value /\ m.buf[j].version = l.buf[j].version
       /\ m.buf[j].next = IF j = l.buf[nd].prev THEN l.buf[nd].next ELSE l.buf[j].next
       /\ m.buf[j].prev = IF j = l.buf[nd].next THEN l.buf[nd].prev ELSE l.buf[j].prev

\* m is l with x in node nd behind the others.
Added(l, m, nd, x) ==
  /\ Shape(m)
  /\ m.cap >= l.cap /\ nd \in 0..(m.cap - 1) /\ m.version = l.version + 1
  /\ m.tail = nd /\ m.head = IF l.tail = None THEN nd ELSE l.head
  /\ IF l.freeCount > 0
     THEN /\ nd = l.freeHead /\ m.freeHead = l.buf[nd].next
          /\ m.freeCount = l.freeCount - 1 /\ m.len = l.len
     ELSE nd = l.len /\ m.freeHead = l.freeHead /\ m.freeCount = l.freeCount /\ m.len = l.len + 1
  /\ m.buf[nd] = [next |-> None, prev |-> l.tail, version |-> l.version + 1, value |-> x]
  /\ \A j \in 0..(l.len - 1) : j # nd =>
       /\ m.buf[j].value = l.buf[j].value /\ m.buf[j].version = l.buf[j].version
       /\ m.buf[j].prev = l.buf[j].prev
       /\ m.buf[j].next = IF j = l.tail THEN nd ELSE l.buf[j].next

\* One more, one less and one more in front.
Appended(s, n, nd) == [k \in 1..(n + 1) |-> IF k = n + 1 THEN nd ELSE s[k]]
Dropped(s, n, k) == [j \in 1..(n - 1) |-> IF j < k THEN s[j] ELSE s[j + 1]]
Pushed(s, n, nd) == [j \in 1..(n + 1) |-> IF j = 1 THEN nd ELSE s[j - 1]]

LEMMA TaskConsts == /\ VersionMod \in Nat /\ VersionMod > 1 /\ MaxTask \in Nat /\ MaxCap \in Nat
                    /\ Cap \in Nat /\ Cap > 0
  BY VersionAssumption, TasksAssumption DEF VersionAssumption, TasksAssumption

LEMMA SmallMod == ASSUME NEW m \in Nat, NEW n \in Nat, n < m PROVE n % m = n OBVIOUS

\* Growth copies the nodes (realloc).
LEMMA Reserved ==
  ASSUME NEW l, Shape(l), NEW n \in Nat
  PROVE  /\ Shape(Reserve(l, n)) /\ Reserve(l, n).cap >= l.cap /\ Reserve(l, n).cap >= n
         /\ (n <= l.cap => Reserve(l, n) = l)
         /\ \A j \in 0..(l.cap - 1) : Reserve(l, n).buf[j] = l.buf[j]
         /\ Reserve(l, n).len = l.len /\ Reserve(l, n).head = l.head
         /\ Reserve(l, n).tail = l.tail /\ Reserve(l, n).freeHead = l.freeHead
         /\ Reserve(l, n).freeCount = l.freeCount /\ Reserve(l, n).version = l.version
<1>1. CASE n <= l.cap BY <1>1 DEF Reserve, Shape
<1>2. CASE ~(n <= l.cap)
  <2> DEFINE b == [nd \in 0..(n - 1) |-> IF nd < l.cap THEN l.buf[nd] ELSE Blank]
  <2>1. Reserve(l, n) = [l EXCEPT !.cap = n, !.buf = b] BY <1>2 DEF Reserve
  <2>2. l.cap \in Nat /\ l.buf \in [0..(l.cap - 1) -> Node] BY DEF Shape
  <2>3. Blank \in Node BY TaskConsts DEF Blank, Node, None
  <2>4. b \in [0..(n - 1) -> Node] BY <2>2, <2>3
  <2>5. \A j \in 0..(l.cap - 1) : b[j] = l.buf[j] BY <1>2, <2>2
  <2> HIDE DEF b
  <2>6. Reserve(l, n) = [buf |-> b, cap |-> n, len |-> l.len, head |-> l.head, tail |-> l.tail,
          freeHead |-> l.freeHead, freeCount |-> l.freeCount, version |-> l.version]
    BY <2>1 DEF Shape
  <2>7. /\ l.len \in 0..l.cap /\ l.freeCount \in 0..l.len /\ l.version \in Nat /\ l.len \in 0..n
        /\ l.freeHead \in Int
    BY <1>2 DEF Shape
  <2> DEFINE r == Reserve(l, n)
  <2>8. /\ r.buf = b /\ r.cap = n /\ r.len = l.len /\ r.head = l.head /\ r.tail = l.tail
        /\ r.freeHead = l.freeHead /\ r.freeCount = l.freeCount /\ r.version = l.version
    BY <2>6
  <2>9. Shape(r)
    <3>1. r = [buf |-> r.buf, cap |-> r.cap, len |-> r.len, head |-> r.head, tail |-> r.tail,
          freeHead |-> r.freeHead, freeCount |-> r.freeCount, version |-> r.version]
      BY <2>6, <2>8
    <3> QED BY <2>4, <2>7, <2>8, <3>1 DEF Shape
  <2> QED BY <1>2, <2>2, <2>5, <2>8, <2>9
<1> QED BY <1>1, <1>2

\* AddCore, whether it reuses a node, takes one that was never used, or grows.
LEMMA AddFields ==
  ASSUME NEW l, NEW s, NEW f, Shape(l), Keeps(l, s, f), NEW x \in 1..MaxTask,
         l.version + 1 < VersionMod
  PROVE  Added(l, AddCore(l, x), IF l.freeCount > 0 THEN l.freeHead ELSE l.len, x)
<1> DEFINE reuse == l.freeCount > 0
           r == IF reuse \/ l.len < l.cap THEN l ELSE Reserve(l, IF l.cap = 0 THEN 8 ELSE l.cap * 2)
           nd == IF reuse THEN l.freeHead ELSE l.len
           v == (l.version + 1) % VersionMod
           w == [next |-> None, prev |-> l.tail, version |-> v, value |-> x]
           old == IF l.tail = None THEN r.buf ELSE [r.buf EXCEPT ![l.tail].next = nd]
           b == [old EXCEPT ![nd] = w]
           m == AddCore(l, x)
<1>1. /\ l.cap \in Nat /\ l.len \in 0..l.cap /\ l.freeCount \in 0..l.len /\ l.version \in Nat
      /\ l.buf \in [0..(l.cap - 1) -> Node]
  BY DEF Shape
<1>2. v = l.version + 1
  <2>1. l.version + 1 \in Nat BY <1>1
  <2> QED BY <2>1, SmallMod, TaskConsts
<1>3. m = [r EXCEPT !.buf = b,
               !.tail = nd,
               !.head = IF l.tail = None THEN nd ELSE @,
               !.freeHead = IF reuse THEN l.buf[nd].next ELSE @,
               !.freeCount = IF reuse THEN @ - 1 ELSE @,
               !.len = IF reuse THEN @ ELSE @ + 1,
               !.version = v]
  BY DEF AddCore, AddVersioned
<1>4. /\ Shape(r) /\ r.cap >= l.cap
      /\ \A j \in 0..(l.cap - 1) : r.buf[j] = l.buf[j]
      /\ r.len = l.len /\ r.head = l.head /\ r.tail = l.tail /\ r.freeHead = l.freeHead
      /\ r.freeCount = l.freeCount /\ r.version = l.version
      /\ ~reuse => l.len < r.cap
  <2>1. CASE reuse \/ l.len < l.cap BY <1>1, <2>1
  <2>2. CASE ~(reuse \/ l.len < l.cap)
    <3> DEFINE n == IF l.cap = 0 THEN 8 ELSE l.cap * 2
    <3>1. n \in Nat /\ n > l.len BY <1>1
    <3>2. r = Reserve(l, n) BY <2>2
    <3> HIDE DEF n, r
    <3>3. /\ Shape(r) /\ r.cap >= l.cap /\ r.cap >= n
          /\ \A j \in 0..(l.cap - 1) : r.buf[j] = l.buf[j]
          /\ r.len = l.len /\ r.head = l.head /\ r.tail = l.tail /\ r.freeHead = l.freeHead
          /\ r.freeCount = l.freeCount /\ r.version = l.version
      <4> DEFINE q == Reserve(l, n)
      <4>1. /\ Shape(q) /\ q.cap >= l.cap /\ q.cap >= n
            /\ \A j \in 0..(l.cap - 1) : q.buf[j] = l.buf[j]
            /\ q.len = l.len /\ q.head = l.head /\ q.tail = l.tail /\ q.freeHead = l.freeHead
            /\ q.freeCount = l.freeCount /\ q.version = l.version
        BY <3>1, Reserved
      <4>2. r = q BY <3>2
      <4> HIDE DEF q
      <4> QED BY <4>1, <4>2
    <3>4. r.cap \in Nat BY <3>3 DEF Shape
    <3> QED BY <1>1, <3>1, <3>3, <3>4
  <2> QED BY <2>1, <2>2
<1> HIDE DEF r
<1>5. /\ l.freeCount > 0 => nd \in 0..(l.len - 1)
      /\ l.tail = None \/ l.tail \in 0..(l.len - 1)
      /\ l.tail # nd /\ nd # None
  <2> DEFINE n == Count(l)
             c == l.freeCount
  <2>1. n = l.len - c /\ n \in Nat /\ c \in Nat BY <1>1 DEF Count
  <2>2. /\ s \in [1..n -> 0..(l.len - 1)] /\ f \in [1..c -> 0..(l.len - 1)]
        /\ \A j \in 1..n, k \in 1..c : s[j] # f[k]
        /\ IF n = 0 THEN l.head = None /\ l.tail = None ELSE l.head = s[1] /\ l.tail = s[n]
        /\ c > 0 => l.freeHead = f[1]
    BY DEF Keeps
  <2> HIDE DEF n, c
  <2>3. n > 0 => l.tail \in 0..(l.len - 1) /\ l.tail = s[n] /\ n \in 1..n BY <2>1, <2>2
  <2>4. c > 0 => f[1] \in 0..(l.len - 1) /\ l.freeHead = f[1] /\ 1 \in 1..c BY <2>1, <2>2
  <2>5. n = 0 => l.tail = None BY <2>2
  <2>6. reuse <=> c > 0 BY DEF c
  <2>7. c > 0 => nd = f[1] BY <2>4, <2>6
  <2>8. ~(c > 0) => nd = l.len BY <2>6
  <2> HIDE DEF nd, reuse
  <2>9. c > 0 => l.tail # nd BY <1>1, <2>1, <2>2, <2>3, <2>4, <2>5, <2>7 DEF None
  <2>10. ~(c > 0) => l.tail # nd BY <1>1, <2>1, <2>3, <2>5, <2>8 DEF None
  <2>11. nd # None BY <1>1, <2>4, <2>7, <2>8 DEF None
  <2> QED BY <2>1, <2>3, <2>4, <2>5, <2>7, <2>9, <2>10, <2>11 DEF c
<1>6. nd \in 0..(r.cap - 1) /\ (l.tail # None => l.tail \in 0..(r.cap - 1)) /\ r.cap \in Nat
      /\ r.buf \in [0..(r.cap - 1) -> Node]
  <2>1. r.cap \in Nat /\ r.buf \in [0..(r.cap - 1) -> Node] BY <1>4 DEF Shape
  <2>2. ~(l.freeCount > 0) => nd = l.len /\ l.len < r.cap BY <1>4
  <2> HIDE DEF nd
  <2>3. 0..(l.len - 1) \subseteq 0..(r.cap - 1) BY <1>1, <1>4, <2>1
  <2>4. ~(l.freeCount > 0) => nd \in 0..(r.cap - 1) BY <1>1, <2>1, <2>2
  <2> QED BY <1>5, <2>1, <2>3, <2>4
<1> HIDE DEF nd, v
<1>7. w \in Node
  <2>1. l.tail \in Int /\ None \in Int BY <1>1, <1>5 DEF None
  <2>2. v \in 0..(VersionMod - 1) BY <1>1, <1>2, TaskConsts
  <2> QED BY <2>1, <2>2, TaskConsts DEF Node
<1>8. /\ old \in [0..(r.cap - 1) -> Node]
      /\ \A j \in 0..(r.cap - 1) :
           /\ old[j].value = r.buf[j].value /\ old[j].version = r.buf[j].version
           /\ old[j].prev = r.buf[j].prev
           /\ old[j].next = IF j = l.tail THEN nd ELSE r.buf[j].next
  <2>1. CASE l.tail = None
    <3>1. old = r.buf BY <2>1
    <3>2. \A j \in 0..(r.cap - 1) : j # l.tail BY <1>6, <2>1 DEF None
    <3> QED BY <1>6, <3>1, <3>2
  <2>2. CASE l.tail # None
    <3> DEFINE t == l.tail
               g == [r.buf[t] EXCEPT !.next = nd]
    <3>1. t \in 0..(r.cap - 1) /\ nd \in Int BY <1>6, <2>2
    <3>2. r.buf[t] \in Node BY <1>6, <3>1
    <3>3. /\ g \in Node /\ g.value = r.buf[t].value /\ g.version = r.buf[t].version
          /\ g.prev = r.buf[t].prev /\ g.next = nd
      BY <3>1, <3>2 DEF Node
    <3>4. old = [r.buf EXCEPT ![t] = g] BY <2>2
    <3> HIDE DEF g, old, t
    <3>5. /\ old \in [0..(r.cap - 1) -> Node] /\ old[t] = g
          /\ \A j \in 0..(r.cap - 1) : j # t => old[j] = r.buf[j]
      BY <1>6, <3>1, <3>3, <3>4
    <3> QED BY <3>3, <3>5 DEF t
  <2> QED BY <2>1, <2>2
<1>9. /\ b \in [0..(r.cap - 1) -> Node] /\ b[nd] = w
      /\ \A j \in 0..(r.cap - 1) : j # nd => b[j] = old[j]
  BY <1>6, <1>7, <1>8
<1> HIDE DEF b, old, w
<1>10. m = [buf |-> b, cap |-> r.cap, len |-> IF reuse THEN r.len ELSE r.len + 1,
            head |-> IF l.tail = None THEN nd ELSE r.head, tail |-> nd,
            freeHead |-> IF reuse THEN l.buf[nd].next ELSE r.freeHead,
            freeCount |-> IF reuse THEN r.freeCount - 1 ELSE r.freeCount, version |-> v]
  <2>1. r = [buf |-> r.buf, cap |-> r.cap, len |-> r.len, head |-> r.head, tail |-> r.tail,
          freeHead |-> r.freeHead, freeCount |-> r.freeCount, version |-> r.version]
    BY <1>4 DEF Shape
  <2> HIDE DEF reuse, m
  <2> QED BY <1>3, <2>1
<1> HIDE DEF m
<1>11. /\ m.buf = b /\ m.cap = r.cap /\ m.len = IF reuse THEN l.len ELSE l.len + 1
       /\ m.head = IF l.tail = None THEN nd ELSE l.head
       /\ m.tail = nd /\ m.version = v
       /\ m.freeHead = IF reuse THEN l.buf[nd].next ELSE l.freeHead
       /\ m.freeCount = IF reuse THEN l.freeCount - 1 ELSE l.freeCount
  BY <1>4, <1>10
<1>12. Shape(m)
  <2>1. m = [buf |-> m.buf, cap |-> m.cap, len |-> m.len, head |-> m.head, tail |-> m.tail,
          freeHead |-> m.freeHead, freeCount |-> m.freeCount, version |-> m.version]
    BY <1>10, <1>11
  <2>2. m.cap \in Nat /\ m.buf \in [0..(m.cap - 1) -> Node] BY <1>6, <1>9, <1>11
  <2>3. m.version \in Nat /\ m.freeHead \in Int
    <3>1. reuse => l.buf[nd] \in Node BY <1>1, <1>5
    <3>2. l.freeHead \in Int BY DEF Shape
    <3>3. reuse => l.buf[nd].next \in Int BY <3>1 DEF Node
    <3> QED BY <1>1, <1>2, <1>11, <3>2, <3>3
  <2>4. m.len \in 0..m.cap /\ m.freeCount \in 0..m.len
    <3>1. CASE reuse
      <4>1. m.len = l.len /\ m.freeCount = l.freeCount - 1 /\ m.cap = r.cap /\ r.cap >= l.cap
        BY <1>4, <1>11, <3>1
      <4>2. l.freeCount > 0 BY <3>1
      <4> QED BY <1>1, <1>6, <4>1, <4>2
    <3>2. CASE ~reuse
      <4>1. m.len = l.len + 1 /\ m.freeCount = l.freeCount /\ m.cap = r.cap /\ l.len < r.cap
        BY <1>4, <1>11, <3>2
      <4> QED BY <1>1, <1>6, <4>1
    <3> QED BY <3>1, <3>2
  <2> QED BY <2>1, <2>2, <2>3, <2>4 DEF Shape
<1>13. \A j \in 0..(l.len - 1) : j # nd =>
         /\ m.buf[j].value = l.buf[j].value /\ m.buf[j].version = l.buf[j].version
         /\ m.buf[j].prev = l.buf[j].prev
         /\ m.buf[j].next = IF j = l.tail THEN nd ELSE l.buf[j].next
  <2> SUFFICES ASSUME NEW j \in 0..(l.len - 1), j # nd
               PROVE  /\ m.buf[j].value = l.buf[j].value /\ m.buf[j].version = l.buf[j].version
                      /\ m.buf[j].prev = l.buf[j].prev
                      /\ m.buf[j].next = IF j = l.tail THEN nd ELSE l.buf[j].next
    OBVIOUS
  <2>1. j \in 0..(r.cap - 1) /\ j \in 0..(l.cap - 1) BY <1>1, <1>4, <1>6
  <2>2. m.buf[j] = old[j] /\ r.buf[j] = l.buf[j] BY <1>4, <1>9, <1>11, <2>1
  <2> QED BY <1>8, <2>1, <2>2
<1>14. m.buf[nd] = [next |-> None, prev |-> l.tail, version |-> l.version + 1, value |-> x]
  BY <1>2, <1>9, <1>11 DEF w
<1>15. /\ m.cap >= l.cap /\ nd \in 0..(m.cap - 1) /\ m.version = l.version + 1
       /\ m.tail = nd /\ m.head = IF l.tail = None THEN nd ELSE l.head
  BY <1>2, <1>4, <1>6, <1>11
<1>16. IF l.freeCount > 0
       THEN /\ nd = l.freeHead /\ m.freeHead = l.buf[nd].next
            /\ m.freeCount = l.freeCount - 1 /\ m.len = l.len
       ELSE nd = l.len /\ m.freeHead = l.freeHead /\ m.freeCount = l.freeCount /\ m.len = l.len + 1
  BY <1>11 DEF nd
<1>17. Added(l, m, nd, x) BY <1>12, <1>13, <1>14, <1>15, <1>16 DEF Added
<1> QED BY <1>17 DEF m, nd

\* Remove.
LEMMA RemoveFields ==
  ASSUME NEW l, Shape(l), NEW nd \in 0..(l.len - 1), l.freeCount < l.len
  PROVE  Removed(l, RemoveNode(l, nd), nd)
<1> DEFINE node == l.buf[nd]
           back == node.prev
           g(j) == IF j = nd THEN [node EXCEPT !.next = l.freeHead, !.prev = None, !.version = 0]
                   ELSE [l.buf[j] EXCEPT !.next = IF j = node.prev THEN node.next ELSE @,
                                         !.prev = IF j = node.next THEN back ELSE @]
           b == [j \in DOMAIN l.buf |-> g(j)]
           m == RemoveNode(l, nd)
<1>1. /\ l.cap \in Nat /\ l.len \in 0..l.cap /\ l.freeCount \in 0..l.len /\ l.version \in Nat
      /\ l.freeHead \in Int /\ l.buf \in [0..(l.cap - 1) -> Node]
  BY DEF Shape
<1>2. m = [l EXCEPT !.buf = b, !.head = IF nd = l.head THEN node.next ELSE @,
                    !.tail = IF nd = l.tail THEN node.prev ELSE @,
                    !.freeHead = nd, !.freeCount = @ + 1]
  BY DEF RemoveNode, Unlink
<1>3. nd \in 0..(l.cap - 1) /\ 0..(l.len - 1) \subseteq 0..(l.cap - 1) BY <1>1
<1>4. node \in Node /\ node.prev \in Int /\ node.next \in Int
  <2>1. node \in Node BY <1>1, <1>3
  <2> QED BY <2>1 DEF Node
<1>5. /\ g(nd) \in Node /\ g(nd).next = l.freeHead /\ g(nd).version = 0
  <2>1. 0 \in 0..(VersionMod - 1) /\ None \in Int BY TaskConsts DEF None
  <2> QED BY <1>1, <1>4, <2>1 DEF Node
<1>6. \A j \in 0..(l.cap - 1) : j # nd =>
         /\ g(j) \in Node
         /\ g(j).value = l.buf[j].value /\ g(j).version = l.buf[j].version
         /\ g(j).next = IF j = node.prev THEN node.next ELSE l.buf[j].next
         /\ g(j).prev = IF j = node.next THEN node.prev ELSE l.buf[j].prev
  <2> SUFFICES ASSUME NEW j \in 0..(l.cap - 1), j # nd
               PROVE  /\ g(j) \in Node
                      /\ g(j).value = l.buf[j].value /\ g(j).version = l.buf[j].version
                      /\ g(j).next = IF j = node.prev THEN node.next ELSE l.buf[j].next
                      /\ g(j).prev = IF j = node.next THEN node.prev ELSE l.buf[j].prev
    OBVIOUS
  <2> DEFINE h == l.buf[j]
             x == IF j = node.prev THEN node.next ELSE h.next
             y == IF j = node.next THEN node.prev ELSE h.prev
  <2>1. h \in Node BY <1>1
  <2>2. x \in Int /\ y \in Int BY <1>4, <2>1 DEF Node
  <2>3. g(j) = [h EXCEPT !.next = x, !.prev = y] OBVIOUS
  <2> HIDE DEF g, x, y, h
  <2>4. /\ g(j) \in Node /\ g(j).value = h.value /\ g(j).version = h.version
        /\ g(j).next = x /\ g(j).prev = y
    BY <2>1, <2>2, <2>3 DEF Node
  <2> QED BY <2>4 DEF x, y, h
<1> HIDE DEF g
<1>7. b \in [0..(l.cap - 1) -> Node] /\ \A j \in 0..(l.cap - 1) : b[j] = g(j)
  BY <1>1, <1>5, <1>6
<1> HIDE DEF b, m
<1>8. m = [buf |-> b, cap |-> l.cap, len |-> l.len,
           head |-> IF nd = l.head THEN node.next ELSE l.head,
           tail |-> IF nd = l.tail THEN node.prev ELSE l.tail,
           freeHead |-> nd, freeCount |-> l.freeCount + 1, version |-> l.version]
  <2>1. l = [buf |-> l.buf, cap |-> l.cap, len |-> l.len, head |-> l.head, tail |-> l.tail,
          freeHead |-> l.freeHead, freeCount |-> l.freeCount, version |-> l.version]
    BY DEF Shape
  <2> HIDE DEF node
  <2> QED BY <1>2, <2>1
<1>9. /\ m.buf = b /\ m.cap = l.cap /\ m.len = l.len /\ m.version = l.version
      /\ m.freeHead = nd /\ m.freeCount = l.freeCount + 1
      /\ m.head = IF nd = l.head THEN node.next ELSE l.head
      /\ m.tail = IF nd = l.tail THEN node.prev ELSE l.tail
  BY <1>8
<1>10. Shape(m)
  <2>1. m = [buf |-> m.buf, cap |-> m.cap, len |-> m.len, head |-> m.head, tail |-> m.tail,
          freeHead |-> m.freeHead, freeCount |-> m.freeCount, version |-> m.version]
    BY <1>8, <1>9
  <2>2. m.freeCount \in 0..m.len BY <1>1, <1>9
  <2> QED BY <1>1, <1>7, <1>9, <2>1, <2>2 DEF Shape
<1>11. m.buf[nd].next = l.freeHead /\ m.buf[nd].version = 0 BY <1>3, <1>5, <1>7, <1>9
<1>12. \A j \in 0..(l.len - 1) : j # nd =>
       /\ m.buf[j].value = l.buf[j].value /\ m.buf[j].version = l.buf[j].version
       /\ m.buf[j].next = IF j = node.prev THEN node.next ELSE l.buf[j].next
       /\ m.buf[j].prev = IF j = node.next THEN node.prev ELSE l.buf[j].prev
  BY <1>3, <1>6, <1>7, <1>9
<1>13. Removed(l, m, nd) BY <1>9, <1>10, <1>11, <1>12 DEF Removed
<1> QED BY <1>13 DEF m

\* The nodes after AddCore.
LEMMA AddKeeps ==
  ASSUME NEW l, NEW s, NEW f, Shape(l), Keeps(l, s, f), NEW m, NEW x,
         Added(l, m, IF l.freeCount > 0 THEN l.freeHead ELSE l.len, x)
  PROVE  LET nd == IF l.freeCount > 0 THEN l.freeHead ELSE l.len IN
         /\ Keeps(m, Appended(s, Count(l), nd), Dropped(f, l.freeCount, 1))
         /\ Count(m) = Count(l) + 1 /\ \A k \in 1..Count(l) : s[k] # nd /\ s[k] \in 0..(l.len - 1)
<1> DEFINE nd == IF l.freeCount > 0 THEN l.freeHead ELSE l.len
           n == Count(l)
           c == l.freeCount
           N == l.len
           S == Appended(s, n, nd)
           F == Dropped(f, c, 1)
           c2 == m.freeCount
           N2 == m.len
<1>1. /\ s \in [1..n -> 0..(N - 1)] /\ f \in [1..c -> 0..(N - 1)]
      /\ \A j, k \in 1..n : s[j] = s[k] => j = k
      /\ \A j, k \in 1..c : f[j] = f[k] => j = k
      /\ \A j \in 1..n, k \in 1..c : s[j] # f[k]
      /\ \A j \in 0..(N - 1) : (\E k \in 1..n : s[k] = j) \/ (\E k \in 1..c : f[k] = j)
      /\ IF n = 0 THEN l.head = None /\ l.tail = None ELSE l.head = s[1] /\ l.tail = s[n]
      /\ \A k \in 1..n : /\ l.buf[s[k]].next = IF k = n THEN None ELSE s[k + 1]
                         /\ l.buf[s[k]].prev = IF k = 1 THEN None ELSE s[k - 1]
      /\ c > 0 => l.freeHead = f[1]
      /\ \A k \in 1..c : l.buf[f[k]].version = 0 /\ (k < c => l.buf[f[k]].next = f[k + 1])
  BY DEF Keeps
<1>2. N \in Nat /\ c \in 0..N /\ n = N - c /\ n \in Nat /\ c \in Nat BY DEF Shape, Count
<1>3. /\ m.tail = nd /\ m.head = IF l.tail = None THEN nd ELSE l.head
      /\ c > 0 => nd = f[1] /\ m.freeHead = l.buf[nd].next /\ c2 = c - 1 /\ N2 = N
      /\ ~(c > 0) => nd = N /\ c2 = c /\ N2 = N + 1
      /\ m.buf[nd].next = None /\ m.buf[nd].prev = l.tail
      /\ \A j \in 0..(N - 1) : j # nd =>
           /\ m.buf[j].version = l.buf[j].version /\ m.buf[j].prev = l.buf[j].prev
           /\ m.buf[j].next = IF j = l.tail THEN nd ELSE l.buf[j].next
  BY <1>1 DEF Added
<1>4. Count(m) = N2 - c2 BY DEF Count
<1> HIDE DEF nd, n, c, N, c2, N2
<1>5. /\ n + 1 = N2 - c2 /\ N2 \in Nat /\ c2 \in Nat /\ nd \in 0..(N2 - 1)
      /\ \A j \in 0..(N - 1) : j \in 0..(N2 - 1)
      /\ \A k \in 1..n : s[k] # nd
      /\ \A k \in 1..c2 : k \in 1..c /\ k + 1 \in 1..c
      /\ c2 < c \/ c = 0
  <2>1. CASE c > 0
    <3>1. nd = f[1] /\ 1 \in 1..c /\ nd \in 0..(N - 1) BY <1>1, <1>2, <1>3, <2>1
    <3>2. c2 = c - 1 /\ N2 = N BY <1>3, <2>1
    <3>3. \A k \in 1..n : s[k] # nd BY <1>1, <3>1
    <3> QED BY <1>2, <2>1, <3>1, <3>2, <3>3
  <2>2. CASE ~(c > 0)
    <3>1. nd = N /\ c2 = c /\ N2 = N + 1 /\ c = 0 BY <1>2, <1>3, <2>2
    <3>2. \A k \in 1..n : s[k] \in 0..(N - 1) BY <1>1
    <3>3. \A k \in 1..n : s[k] # nd BY <1>2, <3>1, <3>2
    <3> QED BY <1>2, <3>1, <3>3
  <2> QED BY <2>1, <2>2
<1>6. /\ \A k \in 1..n : S[k] = s[k] /\ k \in 1..(n + 1)
      /\ S[n + 1] = nd /\ n + 1 \in 1..(n + 1)
      /\ \A k \in 1..(n + 1) : k \in 1..n \/ k = n + 1
      /\ \A k \in 1..(n + 1) : S[k] = IF k = n + 1 THEN nd ELSE s[k]
  BY <1>2 DEF Appended
<1>7. \A k \in 1..c2 : F[k] = f[k + 1]
  <2>1. \A k \in 1..c2 : k \in 1..(c - 1) /\ ~(k < 1) BY <1>2, <1>5
  <2> QED BY <2>1 DEF Dropped
<1>8. S = [k \in 1..(n + 1) |-> S[k]] /\ F = [k \in 1..c2 |-> F[k]]
  <2>1. 1..(c - 1) = 1..c2 BY <1>2, <1>3
  <2> QED BY <2>1 DEF Appended, Dropped
<1> HIDE DEF S, F
<1>9. \A k \in 1..c2 : F[k] \in 0..(N - 1) /\ F[k] # nd
  <2> TAKE k \in 1..c2
  <2>1. c > 0 /\ k + 1 \in 1..c /\ 1 \in 1..c /\ k + 1 # 1 BY <1>2, <1>3, <1>5
  <2>2. nd = f[1] /\ F[k] = f[k + 1] BY <1>3, <1>7, <2>1
  <2> QED BY <1>1, <2>1, <2>2
<1>10. S \in [1..(n + 1) -> 0..(N2 - 1)]
  <2>1. \A k \in 1..(n + 1) : S[k] \in 0..(N2 - 1) BY <1>1, <1>5, <1>6
  <2> QED BY <1>8, <2>1
<1>11. F \in [1..c2 -> 0..(N2 - 1)]
  <2>1. \A k \in 1..c2 : F[k] \in 0..(N2 - 1) BY <1>5, <1>9
  <2> QED BY <1>8, <2>1
<1>12. \A j, k \in 1..(n + 1) : S[j] = S[k] => j = k BY <1>1, <1>5, <1>6
<1>13. \A j, k \in 1..c2 : F[j] = F[k] => j = k
  <2> SUFFICES ASSUME NEW j \in 1..c2, NEW k \in 1..c2, F[j] = F[k] PROVE j = k OBVIOUS
  <2>1. j + 1 = k + 1 BY <1>1, <1>5, <1>7
  <2> QED BY <2>1
<1>14. \A j \in 1..(n + 1), k \in 1..c2 : S[j] # F[k]
  BY <1>1, <1>5, <1>6, <1>7, <1>9
<1>15. \A j \in 0..(N2 - 1) : (\E k \in 1..(n + 1) : S[k] = j) \/ (\E k \in 1..c2 : F[k] = j)
  <2> SUFFICES ASSUME NEW j \in 0..(N2 - 1), j # nd
               PROVE  (\E k \in 1..(n + 1) : S[k] = j) \/ (\E k \in 1..c2 : F[k] = j)
    BY <1>6
  <2>1. j \in 0..(N - 1) BY <1>2, <1>3
  <2>2. CASE \E k \in 1..n : s[k] = j BY <1>6, <2>2
  <2>3. CASE \E k \in 1..c : f[k] = j
    <3>1. PICK k \in 1..c : f[k] = j BY <2>3
    <3>2. k # 1 BY <1>2, <1>3, <3>1
    <3>3. k - 1 \in 1..c2 /\ (k - 1) + 1 = k BY <1>2, <1>3, <3>2
    <3>4. F[k - 1] = j BY <1>7, <3>1, <3>3
    <3> QED BY <3>3, <3>4
  <2> QED BY <1>1, <2>1, <2>2, <2>3
<1>16. m.head = S[1] /\ m.tail = S[n + 1] /\ n + 1 # 0
  <2>1. CASE n = 0 BY <1>1, <1>2, <1>3, <1>6, <2>1
  <2>2. CASE n # 0
    <3>1. 1 \in 1..n /\ n \in 1..n BY <1>2, <2>2
    <3>2. l.tail \in 0..(N - 1) /\ l.head = s[1] BY <1>1, <2>2, <3>1
    <3>3. l.tail # None BY <1>2, <3>2 DEF None
    <3> QED BY <1>2, <1>3, <1>6, <3>1, <3>2, <3>3
  <2> QED BY <2>1, <2>2
<1>17. \A k \in 1..(n + 1) : /\ m.buf[S[k]].next = IF k = n + 1 THEN None ELSE S[k + 1]
                             /\ m.buf[S[k]].prev = IF k = 1 THEN None ELSE S[k - 1]
  <2> SUFFICES ASSUME NEW k \in 1..(n + 1)
               PROVE  /\ m.buf[S[k]].next = IF k = n + 1 THEN None ELSE S[k + 1]
                      /\ m.buf[S[k]].prev = IF k = 1 THEN None ELSE S[k - 1]
    OBVIOUS
  <2>1. CASE k = n + 1
    <3>1. m.buf[S[k]].next = None /\ m.buf[S[k]].prev = l.tail BY <1>3, <1>6, <2>1
    <3>2. CASE n = 0 BY <1>1, <2>1, <3>1, <3>2
    <3>3. CASE n # 0
      <4>1. k # 1 /\ k - 1 = n /\ n \in 1..n BY <1>2, <2>1, <3>3
      <4> QED BY <1>1, <1>6, <2>1, <3>1, <3>3, <4>1
    <3> QED BY <3>2, <3>3
  <2>2. CASE k \in 1..n
    <3>1. S[k] = s[k] /\ s[k] \in 0..(N - 1) /\ s[k] # nd /\ k # n + 1 /\ n \in 1..n /\ n # 0
      BY <1>1, <1>2, <1>5, <1>6, <2>2
    <3>2. (s[k] = l.tail) <=> (k = n) BY <1>1, <2>2, <3>1
    <3>3. m.buf[S[k]].next = IF k = n THEN nd ELSE s[k + 1]
      BY <1>1, <1>3, <2>2, <3>1, <3>2
    <3>4. k # n => k + 1 \in 1..n BY <1>2, <2>2
    <3>5. k # 1 => k - 1 \in 1..n BY <1>2, <2>2
    <3>6. m.buf[S[k]].prev = IF k = 1 THEN None ELSE s[k - 1]
      <4>1. m.buf[s[k]].prev = l.buf[s[k]].prev BY <1>3, <3>1
      <4>2. l.buf[s[k]].prev = IF k = 1 THEN None ELSE s[k - 1] BY <1>1, <2>2
      <4> QED BY <3>1, <4>1, <4>2
    <3> QED BY <1>6, <3>1, <3>3, <3>4, <3>5, <3>6
  <2> QED BY <1>6, <2>1, <2>2
<1>18. c2 > 0 => m.freeHead = F[1]
  <2>1. c2 > 0 => 1 \in 1..c2 /\ 1 \in 1..c /\ 1 < c /\ c > 0 BY <1>2, <1>3
  <2> QED BY <1>1, <1>3, <1>7, <2>1
<1>19. \A k \in 1..c2 : m.buf[F[k]].version = 0 /\ (k < c2 => m.buf[F[k]].next = F[k + 1])
  <2> SUFFICES ASSUME NEW k \in 1..c2
               PROVE  m.buf[F[k]].version = 0 /\ (k < c2 => m.buf[F[k]].next = F[k + 1])
    OBVIOUS
  <2>1. F[k] = f[k + 1] /\ k + 1 \in 1..c /\ F[k] \in 0..(N - 1) /\ F[k] # nd
    BY <1>5, <1>7, <1>9
  <2>2. F[k] # l.tail
    <3>1. CASE n = 0 BY <1>1, <1>2, <2>1, <3>1 DEF None
    <3>2. CASE n # 0
      <4>1. n \in 1..n BY <1>2, <3>2
      <4> QED BY <1>1, <2>1, <3>2, <4>1
    <3> QED BY <3>1, <3>2
  <2>3. m.buf[F[k]].version = 0 BY <1>1, <1>3, <2>1
  <2>4. m.buf[F[k]].next = l.buf[f[k + 1]].next BY <1>3, <2>1, <2>2
  <2>5. k < c2 => k + 1 \in 1..c2 /\ k + 1 < c BY <1>2, <1>3, <2>1
  <2> QED BY <1>1, <1>7, <2>1, <2>3, <2>4, <2>5
<1>20. Count(m) = n + 1 BY <1>4, <1>5
<1>21. Keeps(m, S, F)
  BY <1>10, <1>11, <1>12, <1>13, <1>14, <1>15, <1>16, <1>17, <1>18, <1>19, <1>20 DEF Keeps, c2, N2
<1> QED BY <1>1, <1>5, <1>20, <1>21 DEF S, F, n, c, nd, N

\* The nodes after Remove: those before and behind it are linked to each other.
LEMMA RemoveKeeps ==
  ASSUME NEW l, NEW s, NEW f, Shape(l), Keeps(l, s, f), NEW p \in 1..Count(l), NEW m,
         Removed(l, m, s[p])
  PROVE  /\ Keeps(m, Dropped(s, Count(l), p), Pushed(f, l.freeCount, s[p]))
         /\ Count(m) = Count(l) - 1 /\ Count(l) \in Nat
         /\ \A k \in 1..Count(l) : s[k] \in 0..(l.len - 1)
<1> DEFINE nd == s[p]
           n == Count(l)
           c == l.freeCount
           N == l.len
           S == Dropped(s, n, p)
           F == Pushed(f, c, nd)
<1>1. /\ s \in [1..n -> 0..(N - 1)] /\ f \in [1..c -> 0..(N - 1)]
      /\ \A j, k \in 1..n : s[j] = s[k] => j = k
      /\ \A j, k \in 1..c : f[j] = f[k] => j = k
      /\ \A j \in 1..n, k \in 1..c : s[j] # f[k]
      /\ \A j \in 0..(N - 1) : (\E k \in 1..n : s[k] = j) \/ (\E k \in 1..c : f[k] = j)
      /\ IF n = 0 THEN l.head = None /\ l.tail = None ELSE l.head = s[1] /\ l.tail = s[n]
      /\ \A k \in 1..n : /\ l.buf[s[k]].next = IF k = n THEN None ELSE s[k + 1]
                         /\ l.buf[s[k]].prev = IF k = 1 THEN None ELSE s[k - 1]
      /\ c > 0 => l.freeHead = f[1]
      /\ \A k \in 1..c : l.buf[f[k]].version = 0 /\ (k < c => l.buf[f[k]].next = f[k + 1])
  BY DEF Keeps
<1>2. N \in Nat /\ c \in 0..N /\ n = N - c /\ n \in Nat /\ c \in Nat /\ n > 0
  <2>1. N \in Nat /\ c \in 0..N /\ n = N - c BY DEF Shape, Count
  <2>2. p \in 1..n OBVIOUS
  <2> HIDE DEF n, c, N
  <2> QED BY <2>1, <2>2
<1>3. /\ m.len = N /\ m.freeHead = nd /\ m.freeCount = c + 1
      /\ m.head = IF nd = l.head THEN l.buf[nd].next ELSE l.head
      /\ m.tail = IF nd = l.tail THEN l.buf[nd].prev ELSE l.tail
      /\ m.buf[nd].next = l.freeHead /\ m.buf[nd].version = 0
      /\ \A j \in 0..(N - 1) : j # nd =>
           /\ m.buf[j].version = l.buf[j].version
           /\ m.buf[j].next = IF j = l.buf[nd].prev THEN l.buf[nd].next ELSE l.buf[j].next
           /\ m.buf[j].prev = IF j = l.buf[nd].next THEN l.buf[nd].prev ELSE l.buf[j].prev
  BY DEF Removed
<1>4. Count(m) = m.len - m.freeCount /\ p \in 1..n BY DEF Count
<1>5. nd \in 0..(N - 1) /\ \A k \in 1..n : s[k] = nd => k = p BY <1>1, <1>4
<1>6. nd = s[p] OBVIOUS
<1> HIDE DEF nd, n, c, N
<1> DEFINE g(k) == IF k < p THEN k ELSE k + 1
<1>7. /\ \A k \in 1..(n - 1) : g(k) \in 1..n /\ g(k) # p
      /\ \A j, k \in 1..(n - 1) : g(j) = g(k) => j = k
      /\ \A k \in 1..n : k = p \/ \E j \in 1..(n - 1) : g(j) = k
  <2>1. \A k \in 1..(n - 1) : g(k) \in 1..n /\ g(k) # p BY <1>2, <1>4
  <2>2. \A j, k \in 1..(n - 1) : g(j) = g(k) => j = k BY <1>2, <1>4
  <2>3. ASSUME NEW k \in 1..n, k # p PROVE \E j \in 1..(n - 1) : g(j) = k
    <3>1. CASE k < p
      <4>1. k \in 1..(n - 1) /\ g(k) = k BY <1>2, <1>4, <3>1
      <4> QED BY <4>1
    <3>2. CASE ~(k < p)
      <4>1. k - 1 \in 1..(n - 1) /\ g(k - 1) = k BY <1>2, <1>4, <2>3, <3>2
      <4> QED BY <4>1
    <3> QED BY <3>1, <3>2
  <2> QED BY <2>1, <2>2, <2>3
<1>8. \A k \in 1..(n - 1) : S[k] = s[g(k)] BY DEF Dropped
<1>9. /\ \A k \in 1..(c + 1) : F[k] = IF k = 1 THEN nd ELSE f[k - 1]
      /\ F[1] = nd /\ 1 \in 1..(c + 1)
      /\ \A k \in 1..c : F[k + 1] = f[k] /\ k + 1 \in 1..(c + 1)
      /\ \A k \in 1..(c + 1) : k = 1 \/ k - 1 \in 1..c
  <2>1. \A k \in 1..(c + 1) : F[k] = IF k = 1 THEN nd ELSE f[k - 1] BY DEF Pushed
  <2> HIDE DEF F
  <2> QED BY <1>2, <2>1
<1>10. S = [k \in 1..(n - 1) |-> S[k]] /\ F = [k \in 1..(c + 1) |-> F[k]] BY DEF Dropped, Pushed
<1> HIDE DEF S, F
<1>11. S \in [1..(n - 1) -> 0..(N - 1)]
  <2> HIDE DEF g
  <2>1. \A k \in 1..(n - 1) : S[k] \in 0..(N - 1)
    <3> TAKE k \in 1..(n - 1)
    <3>1. S[k] = s[g(k)] /\ g(k) \in 1..n BY <1>7, <1>8
    <3> QED BY <1>1, <3>1
  <2> QED BY <1>10, <2>1
<1>12. F \in [1..(c + 1) -> 0..(N - 1)]
  <2>1. \A k \in 1..(c + 1) : F[k] \in 0..(N - 1)
    <3> TAKE k \in 1..(c + 1)
    <3>1. CASE k = 1 BY <1>5, <1>9, <3>1
    <3>2. CASE k # 1
      <4>1. F[k] = f[k - 1] /\ k - 1 \in 1..c BY <1>9, <3>2
      <4>2. f[k - 1] \in 0..(N - 1) BY <1>1, <4>1
      <4> QED BY <4>1, <4>2
    <3> QED BY <3>1, <3>2
  <2> QED BY <1>10, <2>1
<1>13. \A j, k \in 1..(n - 1) : S[j] = S[k] => j = k BY <1>1, <1>7, <1>8
<1>14. \A k \in 1..c : f[k] # nd BY <1>1, <1>4, <1>6
<1>15. \A j, k \in 1..(c + 1) : F[j] = F[k] => j = k
  <2> SUFFICES ASSUME NEW j \in 1..(c + 1), NEW k \in 1..(c + 1), F[j] = F[k] PROVE j = k OBVIOUS
  <2>1. CASE j = 1 BY <1>9, <1>14, <2>1
  <2>2. CASE k = 1 BY <1>9, <1>14, <2>2
  <2>3. CASE j # 1 /\ k # 1
    <3>1. j - 1 \in 1..c /\ k - 1 \in 1..c /\ f[j - 1] = f[k - 1] BY <1>9, <2>3
    <3>2. j - 1 = k - 1 BY <1>1, <3>1
    <3> QED BY <3>2
  <2> QED BY <2>1, <2>2, <2>3
<1>16. \A j \in 1..(n - 1), k \in 1..(c + 1) : S[j] # F[k]
  <2> SUFFICES ASSUME NEW j \in 1..(n - 1), NEW k \in 1..(c + 1) PROVE S[j] # F[k] OBVIOUS
  <2>1. S[j] = s[g(j)] /\ g(j) \in 1..n /\ g(j) # p BY <1>7, <1>8
  <2> HIDE DEF g
  <2>2. S[j] # nd BY <1>5, <2>1
  <2>3. k # 1 => S[j] # f[k - 1] BY <1>1, <1>9, <2>1
  <2> QED BY <1>9, <2>2, <2>3
<1>17. \A j \in 0..(N - 1) : (\E k \in 1..(n - 1) : S[k] = j) \/ (\E k \in 1..(c + 1) : F[k] = j)
  <2> SUFFICES ASSUME NEW j \in 0..(N - 1)
               PROVE  (\E k \in 1..(n - 1) : S[k] = j) \/ (\E k \in 1..(c + 1) : F[k] = j)
    OBVIOUS
  <2>1. CASE \E k \in 1..n : s[k] = j
    <3>1. PICK k \in 1..n : s[k] = j BY <2>1
    <3>2. CASE k = p BY <1>6, <1>9, <3>1, <3>2
    <3>3. CASE k # p
      <4>1. PICK q \in 1..(n - 1) : g(q) = k BY <1>7, <3>3
      <4>2. S[q] = j BY <1>8, <3>1, <4>1
      <4> QED BY <4>2
    <3> QED BY <3>2, <3>3
  <2>2. CASE \E k \in 1..c : f[k] = j BY <1>9, <2>2
  <2> QED BY <1>1, <2>1, <2>2
<1>18. /\ l.buf[nd].next = IF p = n THEN None ELSE s[p + 1]
       /\ l.buf[nd].prev = IF p = 1 THEN None ELSE s[p - 1]
  BY <1>1, <1>4, <1>6
<1>19. 1 \in 1..n /\ n \in 1..n /\ l.head = s[1] /\ l.tail = s[n]
  BY <1>1, <1>2
<1>20. IF n - 1 = 0 THEN m.head = None /\ m.tail = None ELSE m.head = S[1] /\ m.tail = S[n - 1]
  <2>1. CASE n - 1 = 0
    <3>1. n = 1 /\ p = 1 BY <1>2, <1>4, <2>1
    <3> QED BY <1>3, <1>6, <1>18, <1>19, <2>1, <3>1
  <2>2. CASE n - 1 # 0
    <3>1. 1 \in 1..(n - 1) /\ n - 1 \in 1..(n - 1) /\ n # 1 BY <1>2, <2>2
    <3>2. m.head = S[1]
      <4>1. CASE p = 1
        <5>1. S[1] = s[2] BY <1>8, <3>1, <4>1
        <5> QED BY <1>3, <1>6, <1>18, <1>19, <3>1, <4>1, <5>1
      <4>2. CASE p # 1
        <5>1. S[1] = s[1] BY <1>4, <1>8, <3>1, <4>2
        <5>2. nd # l.head BY <1>5, <1>19, <4>2
        <5> QED BY <1>3, <1>19, <5>1, <5>2
      <4> QED BY <4>1, <4>2
    <3>3. m.tail = S[n - 1]
      <4>1. CASE p = n
        <5>1. S[n - 1] = s[n - 1] BY <1>2, <1>8, <3>1, <4>1
        <5> QED BY <1>3, <1>6, <1>18, <1>19, <3>1, <4>1, <5>1
      <4>2. CASE p # n
        <5>1. ~(n - 1 < p) /\ n - 1 + 1 = n BY <1>2, <1>4, <4>2
        <5>2. S[n - 1] = s[n] BY <1>8, <3>1, <5>1
        <5>3. nd # l.tail BY <1>5, <1>19, <4>2
        <5> QED BY <1>3, <1>19, <5>2, <5>3
      <4> QED BY <4>1, <4>2
    <3> QED BY <2>2, <3>2, <3>3
  <2> QED BY <2>1, <2>2
<1>21. \A k \in 1..(n - 1) : /\ m.buf[S[k]].next = IF k = n - 1 THEN None ELSE S[k + 1]
                             /\ m.buf[S[k]].prev = IF k = 1 THEN None ELSE S[k - 1]
  <2> SUFFICES ASSUME NEW k \in 1..(n - 1)
               PROVE  /\ m.buf[S[k]].next = IF k = n - 1 THEN None ELSE S[k + 1]
                      /\ m.buf[S[k]].prev = IF k = 1 THEN None ELSE S[k - 1]
    OBVIOUS
  <2> DEFINE q == g(k)
             nx == IF p = n THEN None ELSE s[p + 1]
             pv == IF p = 1 THEN None ELSE s[p - 1]
  <2>1. S[k] = s[q] /\ q \in 1..n /\ q # p /\ q = IF k < p THEN k ELSE k + 1 BY <1>7, <1>8
  <2>2. s[q] \in 0..(N - 1) /\ s[q] # nd BY <1>1, <1>5, <2>1
  <2> HIDE DEF q
  <2>3. /\ m.buf[s[q]].next = IF s[q] = pv THEN nx ELSE l.buf[s[q]].next
        /\ m.buf[s[q]].prev = IF s[q] = nx THEN pv ELSE l.buf[s[q]].prev
    BY <1>3, <1>18, <2>2
  <2>4. /\ l.buf[s[q]].next = IF q = n THEN None ELSE s[q + 1]
        /\ l.buf[s[q]].prev = IF q = 1 THEN None ELSE s[q - 1]
    BY <1>1, <2>1
  <2>5. (s[q] = pv) <=> (p # 1 /\ q = p - 1)
    <3>1. CASE p = 1 BY <1>2, <2>2, <3>1 DEF None
    <3>2. CASE p # 1
      <4>1. p - 1 \in 1..n BY <1>2, <1>4, <3>2
      <4> QED BY <1>1, <2>1, <3>2, <4>1
    <3> QED BY <3>1, <3>2
  <2>6. (s[q] = nx) <=> (p # n /\ q = p + 1)
    <3>1. CASE p = n BY <1>2, <2>2, <3>1 DEF None
    <3>2. CASE p # n
      <4>1. p + 1 \in 1..n BY <1>2, <1>4, <3>2
      <4> QED BY <1>1, <2>1, <3>2, <4>1
    <3> QED BY <3>1, <3>2
  <2>7. m.buf[S[k]].next = IF k = n - 1 THEN None ELSE S[k + 1]
    <3>1. CASE k = n - 1
      <4>1. CASE k < p
        <5>1. p = n /\ q = p - 1 /\ p # 1 BY <1>2, <1>4, <2>1, <3>1, <4>1
        <5> QED BY <2>1, <2>3, <2>5, <3>1, <5>1
      <4>2. CASE ~(k < p)
        <5>1. q = n /\ q # p - 1 BY <1>2, <1>4, <2>1, <3>1, <4>2
        <5> QED BY <2>1, <2>3, <2>4, <2>5, <3>1, <5>1
      <4> QED BY <4>1, <4>2
    <3>2. CASE k # n - 1
      <4>1. k + 1 \in 1..(n - 1) /\ S[k + 1] = s[g(k + 1)] BY <1>2, <1>8, <3>2
      <4>2. CASE k + 1 = p
        <5>1. q = p - 1 /\ p # 1 /\ p # n /\ g(k + 1) = p + 1 BY <1>2, <1>4, <2>1, <3>2, <4>2
        <5> QED BY <2>1, <2>3, <2>5, <3>2, <4>1, <5>1
      <4>3. CASE k + 1 # p
        <5>1. q # p - 1 /\ q # n /\ g(k + 1) = q + 1 BY <1>2, <1>4, <2>1, <3>2, <4>1, <4>3
        <5> QED BY <2>1, <2>3, <2>4, <2>5, <3>2, <4>1, <5>1
      <4> QED BY <4>2, <4>3
    <3> QED BY <3>1, <3>2
  <2>8. m.buf[S[k]].prev = IF k = 1 THEN None ELSE S[k - 1]
    <3>1. CASE k = 1
      <4>1. CASE p = 1
        <5>1. q = p + 1 /\ p # n BY <1>2, <2>1, <3>1, <4>1
        <5> QED BY <2>1, <2>3, <2>6, <3>1, <4>1, <5>1
      <4>2. CASE p # 1
        <5>1. q = 1 /\ q # p + 1 BY <1>4, <2>1, <3>1, <4>2
        <5> QED BY <2>1, <2>3, <2>4, <2>6, <3>1, <5>1
      <4> QED BY <4>1, <4>2
    <3>2. CASE k # 1
      <4>1. k - 1 \in 1..(n - 1) /\ S[k - 1] = s[g(k - 1)] BY <1>2, <1>8, <3>2
      <4>2. CASE k = p
        <5>1. q = p + 1 /\ p # 1 /\ p # n /\ g(k - 1) = p - 1 BY <1>2, <1>4, <2>1, <3>2, <4>2
        <5> QED BY <2>1, <2>3, <2>6, <3>2, <4>1, <5>1
      <4>3. CASE k # p
        <5>1. q # p + 1 /\ q # 1 /\ g(k - 1) = q - 1 BY <1>2, <1>4, <2>1, <3>2, <4>1, <4>3
        <5> QED BY <2>1, <2>3, <2>4, <2>6, <3>2, <4>1, <5>1
      <4> QED BY <4>2, <4>3
    <3> QED BY <3>1, <3>2
  <2> QED BY <2>7, <2>8
<1>22. m.freeHead = F[1] BY <1>3, <1>9
<1>23. \A k \in 1..(c + 1) : m.buf[F[k]].version = 0 /\ (k < c + 1 => m.buf[F[k]].next = F[k + 1])
  <2> SUFFICES ASSUME NEW k \in 1..(c + 1)
               PROVE  m.buf[F[k]].version = 0 /\ (k < c + 1 => m.buf[F[k]].next = F[k + 1])
    OBVIOUS
  <2>1. CASE k = 1
    <3>1. k < c + 1 => c > 0 /\ 1 \in 1..c BY <1>2, <2>1
    <3> QED BY <1>1, <1>3, <1>9, <2>1, <3>1
  <2>2. CASE k # 1
    <3> DEFINE q == k - 1
    <3>1. q \in 1..c /\ F[k] = f[q] /\ q + 1 = k /\ (k < c + 1 => q < c /\ q + 1 \in 1..c)
      BY <1>2, <1>9, <2>2
    <3> HIDE DEF q
    <3>2. f[q] \in 0..(N - 1) /\ f[q] # nd BY <1>1, <1>14, <3>1
    <3>3. f[q] # l.buf[nd].prev
      <4>1. CASE p = 1 BY <1>2, <1>18, <3>2, <4>1 DEF None
      <4>2. CASE p # 1
        <5>1. p - 1 \in 1..n BY <1>2, <1>4, <4>2
        <5> QED BY <1>1, <1>18, <3>1, <4>2, <5>1
      <4> QED BY <4>1, <4>2
    <3>4. /\ m.buf[f[q]].version = l.buf[f[q]].version
          /\ m.buf[f[q]].next = l.buf[f[q]].next
      BY <1>3, <3>2, <3>3
    <3>5. k < c + 1 => F[k + 1] = f[q + 1] BY <1>9, <3>1
    <3> QED BY <1>1, <3>1, <3>4, <3>5
  <2> QED BY <2>1, <2>2
<1>24. Count(m) = n - 1 BY <1>2, <1>3, <1>4
<1>25. Keeps(m, S, F)
  <2> DEFINE a == n - 1
             d == c + 1
  <2>1. Count(m) = a /\ m.freeCount = d /\ m.len = N BY <1>3, <1>24 DEF N
  <2>2. /\ S \in [1..a -> 0..(N - 1)] /\ F \in [1..d -> 0..(N - 1)]
        /\ \A j, k \in 1..a : S[j] = S[k] => j = k
        /\ \A j, k \in 1..d : F[j] = F[k] => j = k
        /\ \A j \in 1..a, k \in 1..d : S[j] # F[k]
        /\ \A j \in 0..(N - 1) : (\E k \in 1..a : S[k] = j) \/ (\E k \in 1..d : F[k] = j)
        /\ IF a = 0 THEN m.head = None /\ m.tail = None ELSE m.head = S[1] /\ m.tail = S[a]
        /\ \A k \in 1..a : /\ m.buf[S[k]].next = IF k = a THEN None ELSE S[k + 1]
                           /\ m.buf[S[k]].prev = IF k = 1 THEN None ELSE S[k - 1]
        /\ m.freeHead = F[1]
        /\ \A k \in 1..d : m.buf[F[k]].version = 0 /\ (k < d => m.buf[F[k]].next = F[k + 1])
    BY <1>11, <1>12, <1>13, <1>15, <1>16, <1>17, <1>20, <1>21, <1>22, <1>23
  <2> HIDE DEF a, d
  <2> QED BY <2>1, <2>2, SMTT(20) DEF Keeps
<1> QED BY <1>1, <1>2, <1>24, <1>25 DEF S, F, n, c, nd, N

\* The nodes that can be reached are those that are kept.
LEMMA OrderIs ==
  ASSUME NEW l, NEW s, NEW f, Shape(l), Keeps(l, s, f)
  PROVE  /\ Order(l) = s /\ Free(l) = f
         /\ Chain(l, l.tail, "prev", Count(l)) = [k \in 1..Count(l) |-> s[Count(l) + 1 - k]]
<1> DEFINE n == Count(l)
           c == l.freeCount
           N == l.len
           r == [k \in 1..n |-> s[n + 1 - k]]
<1>1. /\ s \in [1..n -> 0..(N - 1)] /\ f \in [1..c -> 0..(N - 1)]
      /\ n > 0 => l.head = s[1] /\ l.tail = s[n]
      /\ \A k \in 1..n : /\ l.buf[s[k]].next = IF k = n THEN None ELSE s[k + 1]
                         /\ l.buf[s[k]].prev = IF k = 1 THEN None ELSE s[k - 1]
      /\ c > 0 => l.freeHead = f[1]
      /\ \A k \in 1..c : k < c => l.buf[f[k]].next = f[k + 1]
  BY DEF Keeps
<1>2. N \in Nat /\ c \in Nat /\ n \in Nat /\ 0..(N - 1) \subseteq DOMAIN l.buf
  <2>1. /\ N \in 0..l.cap /\ c \in 0..N /\ n = N - c /\ l.cap \in Nat
        /\ l.buf \in [0..(l.cap - 1) -> Node]
    BY DEF Shape, Count
  <2> HIDE DEF N, c, n
  <2> QED BY <2>1
<1>3. Order(l) = Chain(l, l.head, "next", n) /\ Free(l) = Chain(l, l.freeHead, "next", c)
  BY DEF Order, Free
<1> HIDE DEF n, c, N
<1>4. Chain(l, l.head, "next", n) = s
  <2>1. \A k \in 2..n : s[k - 1] \in DOMAIN l.buf /\ s[k] = l.buf[s[k - 1]]["next"]
    <3> TAKE k \in 2..n
    <3>1. k - 1 \in 1..n /\ k - 1 # n /\ (k - 1) + 1 = k BY <1>2
    <3>2. s[k - 1] \in DOMAIN l.buf BY <1>1, <1>2, <3>1
    <3> QED BY <1>1, <3>1, <3>2
  <2>2. s = [k \in 1..n |-> s[k]] BY <1>1
  <2>3. n > 0 => s[1] = l.head BY <1>1
  <2>4. n \in Nat BY <1>2
  <2> HIDE DEF n
  <2>5. IsChain(l, l.head, "next", n, s) BY <2>1, <2>2, <2>3, <2>4 DEF IsChain
  <2> QED BY <2>5, ChainIs
<1>5. Chain(l, l.freeHead, "next", c) = f
  <2>1. \A k \in 2..c : f[k - 1] \in DOMAIN l.buf /\ f[k] = l.buf[f[k - 1]]["next"]
    <3> TAKE k \in 2..c
    <3>1. k - 1 \in 1..c /\ k - 1 < c /\ (k - 1) + 1 = k BY <1>2
    <3>2. f[k - 1] \in DOMAIN l.buf BY <1>1, <1>2, <3>1
    <3> QED BY <1>1, <3>1, <3>2
  <2>2. f = [k \in 1..c |-> f[k]] BY <1>1
  <2>3. c > 0 => f[1] = l.freeHead BY <1>1
  <2>4. c \in Nat BY <1>2
  <2>5. IsChain(l, l.freeHead, "next", c, f) BY <2>1, <2>2, <2>3, <2>4 DEF IsChain
  <2> QED BY <2>5, ChainIs
<1>6. Chain(l, l.tail, "prev", n) = r
  <2>1. \A k \in 2..n : r[k - 1] \in DOMAIN l.buf /\ r[k] = l.buf[r[k - 1]]["prev"]
    <3> TAKE k \in 2..n
    <3> DEFINE j == n + 2 - k
    <3>1. j \in 1..n /\ j # 1 /\ r[k - 1] = s[j] /\ r[k] = s[j - 1]
      <4>1. k \in 1..n /\ k - 1 \in 1..n BY <1>2
      <4>2. r[k] = s[n + 1 - k] /\ r[k - 1] = s[n + 1 - (k - 1)] BY <4>1
      <4>3. n + 1 - k = j - 1 /\ n + 1 - (k - 1) = j /\ j \in 1..n /\ j # 1 BY <1>2
      <4> QED BY <4>2, <4>3
    <3> HIDE DEF j, r
    <3>2. s[j] \in DOMAIN l.buf BY <1>1, <1>2, <3>1
    <3> QED BY <1>1, <3>1, <3>2
  <2>2. r = [k \in 1..n |-> r[k]] OBVIOUS
  <2>3. n > 0 => r[1] = l.tail
    <3>1. n > 0 => 1 \in 1..n /\ n + 1 - 1 = n BY <1>2
    <3> QED BY <1>1, <3>1
  <2>4. n \in Nat BY <1>2
  <2> HIDE DEF r
  <2>5. IsChain(l, l.tail, "prev", n, r) BY <2>1, <2>2, <2>3, <2>4 DEF IsChain
  <2> QED BY <2>5, ChainIs
<1> QED BY <1>3, <1>4, <1>5, <1>6 DEF n, c

\* The list is the same read from both ends.
LEMMA LinkedIs ==
  ASSUME NEW l, NEW s, NEW f, Shape(l), Keeps(l, s, f)
  PROVE  Linked(l)
<1> DEFINE n == Count(l)
           c == l.freeCount
<1>1. /\ Order(l) = s /\ Free(l) = f
      /\ Chain(l, l.tail, "prev", n) = [k \in 1..n |-> s[n + 1 - k]]
  BY OrderIs
<1>2. Chain(l, l.freeHead, "next", c) = f BY <1>1 DEF Free
<1>3. /\ s \in [1..n -> 0..(l.len - 1)] /\ f \in [1..c -> 0..(l.len - 1)]
      /\ \A j, k \in 1..n : s[j] = s[k] => j = k
      /\ \A j \in 1..n, k \in 1..c : s[j] # f[k]
      /\ \A nd \in 0..(l.len - 1) : (\E k \in 1..n : s[k] = nd) \/ (\E k \in 1..c : f[k] = nd)
      /\ n = 0 => l.head = None /\ l.tail = None
  BY DEF Keeps
<1>4. n \in Nat
  <2>1. l.len \in Nat /\ c \in 0..l.len /\ n = l.len - c BY DEF Shape, Count
  <2> HIDE DEF n, c
  <2> QED BY <2>1
<1> HIDE DEF n, c
<1>5. Range(s) \cup Range(f) = 0..(l.len - 1) /\ Range(s) \cap Range(f) = {}
  BY <1>3 DEF Range
<1>6. Cardinality(Range(s)) = n
  <2>1. s \in [1..n -> Range(s)] BY <1>3 DEF Range
  <2>2. s \in Injection(1..n, Range(s)) /\ s \in Surjection(1..n, Range(s))
    BY <1>3, <2>1 DEF Injection, IsInjective, Surjection, Range
  <2>3. ExistsBijection(1..n, Range(s)) BY <2>2 DEF Bijection, ExistsBijection
  <2> QED BY <1>4, <2>3, FS_CountingElements
<1>7. \A k \in 1..n : Order(l)[n + 1 - k] = s[n + 1 - k] BY <1>1
<1> QED BY <1>1, <1>2, <1>3, <1>5, <1>6 DEF Linked, n, c

\* Growth keeps the list.
LEMMA ReserveKeeps ==
  ASSUME NEW l, NEW s, NEW f, Shape(l), Keeps(l, s, f), NEW k \in Nat
  PROVE  Keeps(Reserve(l, k), s, f) /\ Count(Reserve(l, k)) = Count(l)
<1> DEFINE m == Reserve(l, k)
<1>1. /\ \A j \in 0..(l.cap - 1) : m.buf[j] = l.buf[j]
      /\ m.len = l.len /\ m.head = l.head /\ m.tail = l.tail /\ m.freeHead = l.freeHead
      /\ m.freeCount = l.freeCount
  BY Reserved
<1>2. Count(m) = Count(l) BY <1>1 DEF Count
<1> HIDE DEF m
<1>3. 0..(l.len - 1) \subseteq 0..(l.cap - 1) BY DEF Shape
<1>4. \A nd \in 0..(l.len - 1) : m.buf[nd] = l.buf[nd] BY <1>1, <1>3
<1>5. Keeps(m, s, f)
  <2>1. /\ \A j \in 1..Count(l) : m.buf[s[j]] = l.buf[s[j]]
        /\ \A j \in 1..l.freeCount : m.buf[f[j]] = l.buf[f[j]]
    BY <1>4 DEF Keeps
  <2> QED BY <1>1, <1>2, <2>1 DEF Keeps
<1> QED BY <1>2, <1>5 DEF m

\* No nodes.
None0 == [k \in 1..0 |-> None]

\* A list without nodes.
LEMMA EmptyKeeps ==
  ASSUME NEW l, l.len = 0, l.freeCount = 0, l.head = None, l.tail = None
  PROVE  Keeps(l, None0, None0) /\ Count(l) = 0
<1>1. Count(l) = 0 BY DEF Count
<1>2. 1..0 = {} /\ 0..(0 - 1) = {} OBVIOUS
<1>3. None0 \in [1..0 -> 0..(0 - 1)] BY <1>2 DEF None0
<1>4. ~(0 > 0) OBVIOUS
<1> QED BY <1>1, <1>2, <1>3, <1>4 DEF Keeps

LEMMA NewShape ==
  ASSUME NEW n \in Nat
  PROVE  /\ Shape(NewList(n)) /\ NewList(n).len = 0 /\ NewList(n).freeCount = 0
         /\ NewList(n).head = None /\ NewList(n).tail = None /\ NewList(n).version = 0
         /\ NewList(n).cap = n
<1> DEFINE b == [nd \in 0..(n - 1) |-> Blank]
<1>1. b \in [0..(n - 1) -> Node]
  <2>1. Blank \in Node BY TaskConsts DEF Blank, Node, None
  <2> QED BY <2>1
<1>2. NewList(n) = [buf |-> b, cap |-> n, len |-> 0, head |-> None, tail |-> None,
                    freeHead |-> None, freeCount |-> 0, version |-> 0]
  BY DEF NewList
<1> HIDE DEF b
<1>3. 0 \in 0..n /\ 0 \in 0..0 /\ None \in Int BY DEF None
<1> QED BY <1>1, <1>2, <1>3 DEF Shape

LEMMA ClearShape ==
  ASSUME NEW l, Shape(l)
  PROVE  /\ Shape(Clear(l)) /\ Clear(l).len = 0 /\ Clear(l).freeCount = 0
         /\ Clear(l).head = None /\ Clear(l).tail = None /\ Clear(l).version = l.version
         /\ Clear(l).cap = l.cap
<1> DEFINE m == Clear(l)
<1>1. m = [l EXCEPT !.head = None, !.tail = None, !.freeHead = None, !.freeCount = 0, !.len = 0]
  BY DEF Clear
<1> HIDE DEF m
<1>2. m = [buf |-> l.buf, cap |-> l.cap, len |-> 0, head |-> None, tail |-> None,
           freeHead |-> None, freeCount |-> 0, version |-> l.version]
  BY <1>1 DEF Shape
<1>3. 0 \in 0..l.cap /\ 0 \in 0..0 /\ None \in Int BY DEF None, Shape
<1>4. Shape(m) BY <1>2, <1>3 DEF Shape
<1> QED BY <1>2, <1>4 DEF m

-----------------------------------------------------------------------------
(* The tasks in the nodes. *)

\* The node that the next task takes.
NextNode(l) == IF l.freeCount > 0 THEN l.freeHead ELSE l.len
TaskAt(l, s, k) == l.buf[s[k]].value
TasksOf(l, s) == {TaskAt(l, s, k) : k \in 1..Count(l)}

\* Tasks stand in the order in which they were added, and h are their handles.
NodesOf(l, s, h) ==
  /\ l.version = Len(h)
  /\ \A k \in 1..Count(l) : /\ TaskAt(l, s, k) \in 1..Len(h)
                            /\ l.buf[s[k]].version = TaskAt(l, s, k)
                            /\ h[TaskAt(l, s, k)].index = s[k]
  /\ \A j, k \in 1..Count(l) : j < k => TaskAt(l, s, j) < TaskAt(l, s, k)

\* nd is resumed and nx is noted, res has been resumed, and d has yet to be.
RoundOf(l, s, nd, nx, res, d) ==
  /\ nd = None => nx = None /\ d = {}
  /\ nd # None =>
       \E k \in 1..Count(l) :
         /\ s[k] = nd
         /\ nx # None => k < Count(l) /\ s[k + 1] = nx
         /\ nx = None => d = {}
         /\ Len(res) > 0 /\ res[Len(res)] = TaskAt(l, s, k)
         /\ \A t \in d : \E j \in (k + 1)..Count(l) : TaskAt(l, s, j) = t

\* A task is in one node.
LEMMA Differ ==
  ASSUME NEW l, NEW s, NEW h, NodesOf(l, s, h), Count(l) \in Nat, Len(h) \in Nat,
         NEW j \in 1..Count(l), NEW k \in 1..Count(l), TaskAt(l, s, j) = TaskAt(l, s, k)
  PROVE  j = k
<1> DEFINE n == Count(l)
<1>1. /\ \A a \in 1..n : TaskAt(l, s, a) \in 1..Len(h)
      /\ \A a, b \in 1..n : a < b => TaskAt(l, s, a) < TaskAt(l, s, b)
  BY DEF NodesOf
<1>2. TaskAt(l, s, j) \in Int BY <1>1
<1>3. ~(j < k) /\ ~(k < j) BY <1>1, <1>2
<1> HIDE DEF n
<1> QED BY <1>3

\* The tasks after Remove.
LEMMA RemoveNodes ==
  ASSUME NEW l, NEW s, NEW f, Shape(l), Keeps(l, s, f), NEW h, Len(h) \in Nat, NodesOf(l, s, h),
         NEW p \in 1..Count(l), NEW m, m = RemoveNode(l, s[p])
  PROVE  /\ Shape(m) /\ Keeps(m, Dropped(s, Count(l), p), Pushed(f, l.freeCount, s[p]))
         /\ Count(m) = Count(l) - 1 /\ m.cap = l.cap
         /\ NodesOf(m, Dropped(s, Count(l), p), h)
         /\ \A k \in 1..(Count(l) - 1) :
              /\ Dropped(s, Count(l), p)[k] = s[IF k < p THEN k ELSE k + 1]
              /\ TaskAt(m, Dropped(s, Count(l), p), k) = TaskAt(l, s, IF k < p THEN k ELSE k + 1)
         /\ TasksOf(m, Dropped(s, Count(l), p)) = TasksOf(l, s) \ {TaskAt(l, s, p)}
<1> DEFINE nd == s[p]
           n == Count(l)
           N == l.len
           S == Dropped(s, n, p)
           g(k) == IF k < p THEN k ELSE k + 1
<1>1. /\ s \in [1..n -> 0..(N - 1)]
      /\ \A j, k \in 1..n : s[j] = s[k] => j = k
  BY DEF Keeps
<1>2. N \in Nat /\ n = N - l.freeCount /\ n \in Nat /\ n > 0 /\ nd \in 0..(N - 1)
      /\ l.freeCount < l.len /\ p \in 1..n
  <2>1. N \in Nat /\ l.freeCount \in 0..N /\ n = N - l.freeCount BY DEF Shape, Count
  <2>2. p \in 1..n OBVIOUS
  <2>3. nd \in 0..(N - 1) BY <1>1, <2>2
  <2> HIDE DEF n, N, nd
  <2>4. n \in Nat BY <2>1
  <2>5. n > 0 BY <2>2, <2>4
  <2>6. l.freeCount < N BY <2>1, <2>5
  <2> QED BY <2>1, <2>2, <2>3, <2>4, <2>5, <2>6 DEF N
<1>3. Removed(l, m, nd) BY <1>2, RemoveFields
<1>4. Keeps(m, S, Pushed(f, l.freeCount, s[p])) /\ Count(m) = n - 1 BY <1>3, RemoveKeeps
<1>5. /\ Shape(m) /\ m.cap = l.cap /\ m.version = l.version
      /\ \A j \in 0..(N - 1) : j # nd =>
           m.buf[j].value = l.buf[j].value /\ m.buf[j].version = l.buf[j].version
  BY <1>3 DEF Removed
<1>6. /\ \A k \in 1..n : TaskAt(l, s, k) \in 1..Len(h) /\ l.buf[s[k]].version = TaskAt(l, s, k)
                         /\ h[TaskAt(l, s, k)].index = s[k]
      /\ \A j, k \in 1..n : j < k => TaskAt(l, s, j) < TaskAt(l, s, k)
      /\ l.version = Len(h)
  BY DEF NodesOf
<1>7. \A j, k \in 1..n : TaskAt(l, s, j) = TaskAt(l, s, k) => j = k BY <1>2, Differ
<1>8. \A k \in 1..(n - 1) : S[k] = s[g(k)] BY DEF Dropped
<1>9. nd = s[p] OBVIOUS
<1> HIDE DEF S, n, N, nd
<1>10. /\ \A k \in 1..(n - 1) : g(k) \in 1..n /\ g(k) # p
       /\ \A j, k \in 1..(n - 1) : j < k => g(j) < g(k)
       /\ \A k \in 1..n : k = p \/ \E j \in 1..(n - 1) : g(j) = k
  <2>1. ASSUME NEW k \in 1..n, k # p PROVE \E j \in 1..(n - 1) : g(j) = k
    <3>1. CASE k < p
      <4>1. k \in 1..(n - 1) /\ g(k) = k BY <1>2, <3>1
      <4> QED BY <4>1
    <3>2. CASE ~(k < p)
      <4>1. k - 1 \in 1..(n - 1) /\ g(k - 1) = k BY <1>2, <2>1, <3>2
      <4> QED BY <4>1
    <3> QED BY <3>1, <3>2
  <2> QED BY <1>2, <2>1
<1>11. \A k \in 1..(n - 1) : S[k] = s[g(k)] BY <1>8
<1> HIDE DEF g
<1>12. \A k \in 1..(n - 1) : S[k] \in 0..(N - 1) /\ S[k] # nd BY <1>1, <1>2, <1>9, <1>10, <1>11
<1>13. \A k \in 1..(n - 1) : TaskAt(m, S, k) = TaskAt(l, s, g(k)) BY <1>5, <1>11, <1>12 DEF TaskAt
<1>14. NodesOf(m, S, h)
  <2>1. \A k \in 1..(n - 1) : /\ TaskAt(m, S, k) \in 1..Len(h)
                              /\ m.buf[S[k]].version = TaskAt(m, S, k)
                              /\ h[TaskAt(m, S, k)].index = S[k]
    BY <1>5, <1>6, <1>10, <1>11, <1>12, <1>13
  <2>2. \A j, k \in 1..(n - 1) : j < k => TaskAt(m, S, j) < TaskAt(m, S, k)
    BY <1>6, <1>10, <1>13
  <2> QED BY <1>4, <1>5, <1>6, <2>1, <2>2 DEF NodesOf
<1>15. TasksOf(m, S) = TasksOf(l, s) \ {TaskAt(l, s, p)}
  <2>1. ASSUME NEW t \in TasksOf(m, S) PROVE t \in TasksOf(l, s) /\ t # TaskAt(l, s, p)
    <3>1. PICK k \in 1..(n - 1) : t = TaskAt(m, S, k) BY <1>4 DEF TasksOf
    <3>2. t = TaskAt(l, s, g(k)) /\ g(k) \in 1..n /\ g(k) # p BY <1>10, <1>13, <3>1
    <3> QED BY <1>2, <1>7, <3>2 DEF TasksOf, n
  <2>2. ASSUME NEW t \in TasksOf(l, s), t # TaskAt(l, s, p) PROVE t \in TasksOf(m, S)
    <3>1. PICK k \in 1..n : t = TaskAt(l, s, k) BY DEF TasksOf, n
    <3>2. PICK j \in 1..(n - 1) : g(j) = k BY <1>10, <2>2, <3>1
    <3>3. t = TaskAt(m, S, j) BY <1>13, <3>1, <3>2
    <3> QED BY <1>4, <3>3 DEF TasksOf
  <2> QED BY <2>1, <2>2
<1> QED BY <1>4, <1>5, <1>11, <1>13, <1>14, <1>15 DEF S, n, nd, g

\* The tasks after AddCore: the new one is the last, and its handle has its number.
LEMMA AddNodes ==
  ASSUME NEW l, NEW s, NEW f, Shape(l), Keeps(l, s, f), handles \in Seq(Handle),
         NodesOf(l, s, handles), Made < MaxTask, MaxTask < VersionMod,
         list' = AddCore(l, Made + 1), handles' = Append(handles, TailOf(list'))
  PROVE  /\ Shape(list') /\ NodesOf(list', Appended(s, Count(l), NextNode(l)), handles')
         /\ Keeps(list', Appended(s, Count(l), NextNode(l)), Dropped(f, l.freeCount, 1))
         /\ Count(list') = Count(l) + 1 /\ list'.cap >= l.cap
         /\ \A k \in 1..Count(l) :
              /\ Appended(s, Count(l), NextNode(l))[k] = s[k]
              /\ TaskAt(list', Appended(s, Count(l), NextNode(l)), k) = TaskAt(l, s, k)
         /\ TasksOf(list', Appended(s, Count(l), NextNode(l))) = TasksOf(l, s) \cup {Made + 1}
         /\ TailOf(list').index \in 0..(list'.cap - 1) /\ TailOf(list').version = Made + 1
         /\ TailOf(list') = [index |-> TailOf(list').index, version |-> TailOf(list').version]
<1> DEFINE nd == IF l.freeCount > 0 THEN l.freeHead ELSE l.len
           n == Count(l)
           N == l.len
           x == Made + 1
           S == Appended(s, n, nd)
           F == Dropped(f, l.freeCount, 1)
<1>1. /\ Len(handles) \in Nat /\ Made = Len(handles) /\ x \in 1..MaxTask
      /\ l.version = Len(handles) /\ l.version + 1 < VersionMod
  <2>1. Len(handles) \in Nat /\ Made = Len(handles) BY LenProperties DEF Made
  <2>2. l.version = Len(handles) BY DEF NodesOf
  <2> QED BY <2>1, <2>2, TaskConsts
<1>2. Added(l, list', nd, x) BY <1>1, AddFields
<1>3. /\ Keeps(list', S, F) /\ Count(list') = n + 1
      /\ \A k \in 1..n : s[k] # nd /\ s[k] \in 0..(N - 1)
  BY <1>2, AddKeeps
<1>4. /\ Shape(list') /\ list'.cap >= l.cap /\ nd \in 0..(list'.cap - 1)
      /\ list'.version = x /\ list'.tail = nd
      /\ list'.buf[nd].version = x /\ list'.buf[nd].value = x
      /\ \A j \in 0..(N - 1) : j # nd =>
           list'.buf[j].value = l.buf[j].value /\ list'.buf[j].version = l.buf[j].version
  BY <1>1, <1>2 DEF Added
<1>5. TailOf(list') = [index |-> nd, version |-> x] BY <1>4 DEF TailOf
<1>6. n \in Nat
  <2>1. N \in Nat /\ l.freeCount \in 0..N /\ n = N - l.freeCount BY DEF Shape, Count
  <2> HIDE DEF n, N
  <2> QED BY <2>1
<1> HIDE DEF nd, n, N
<1>7. /\ \A k \in 1..n : S[k] = s[k] /\ k \in 1..(n + 1)
      /\ S[n + 1] = nd /\ n + 1 \in 1..(n + 1)
      /\ \A k \in 1..(n + 1) : k \in 1..n \/ k = n + 1
  BY <1>6 DEF Appended
<1> HIDE DEF S
<1>8. /\ \A k \in 1..n : /\ TaskAt(list', S, k) = TaskAt(l, s, k)
                         /\ list'.buf[S[k]].version = l.buf[s[k]].version
      /\ TaskAt(list', S, n + 1) = x /\ list'.buf[S[n + 1]].version = x
  BY <1>3, <1>4, <1>7 DEF TaskAt
<1>9. /\ \A k \in 1..n : /\ TaskAt(l, s, k) \in 1..Len(handles)
                         /\ l.buf[s[k]].version = TaskAt(l, s, k)
                         /\ handles[TaskAt(l, s, k)].index = s[k]
      /\ \A j, k \in 1..n : j < k => TaskAt(l, s, j) < TaskAt(l, s, k)
  BY DEF NodesOf, n
<1>10. /\ Len(handles') = x /\ handles'[x].index = nd
       /\ \A t \in 1..Len(handles) : handles'[t] = handles[t] /\ t \in 1..x /\ t < x
  <2>1. /\ Len(handles') = x /\ handles'[x] = TailOf(list')
        /\ \A t \in 1..Len(handles) : handles'[t] = handles[t]
    <3> DEFINE U == Handle \cup {TailOf(list')}
    <3>1. handles \in Seq(U) /\ TailOf(list') \in U
      <4>1. Handle \subseteq U OBVIOUS
      <4> QED BY <4>1, SeqMonotonic
    <3> HIDE DEF U
    <3>2. /\ Len(handles') = Len(handles) + 1 /\ handles'[Len(handles) + 1] = TailOf(list')
          /\ \A t \in 1..Len(handles) : handles'[t] = handles[t]
      BY <3>1, AppendProperties
    <3> QED BY <1>1, <3>2
  <2> HIDE DEF x
  <2>2. x = Len(handles) + 1 BY <1>1 DEF x
  <2>3. x \in 1..x BY <1>1, <2>2
  <2>4. \A t \in 1..Len(handles) : t \in 1..x /\ t # x /\ t < x BY <1>1, <2>2
  <2> QED BY <1>5, <2>1, <2>3, <2>4
<1>11. x \in 1..x BY <1>1
<1> HIDE DEF x
<1>12. NodesOf(list', S, handles')
  <2>1. \A k \in 1..(n + 1) : /\ TaskAt(list', S, k) \in 1..x
                              /\ list'.buf[S[k]].version = TaskAt(list', S, k)
                              /\ handles'[TaskAt(list', S, k)].index = S[k]
    BY <1>7, <1>8, <1>9, <1>10, <1>11
  <2>2. \A j, k \in 1..(n + 1) : j < k => TaskAt(list', S, j) < TaskAt(list', S, k)
    <3> SUFFICES ASSUME NEW j \in 1..(n + 1), NEW k \in 1..(n + 1), j < k
                 PROVE  TaskAt(list', S, j) < TaskAt(list', S, k)
      OBVIOUS
    <3>1. j \in 1..n BY <1>6
    <3> QED BY <1>7, <1>8, <1>9, <1>10, <3>1
  <2> QED BY <1>3, <1>4, <1>10, <2>1, <2>2 DEF NodesOf
<1>13. TasksOf(list', S) = TasksOf(l, s) \cup {x}
  BY <1>3, <1>7, <1>8 DEF TasksOf, n
<1>14. /\ TailOf(list').index \in 0..(list'.cap - 1) /\ TailOf(list').version = x
       /\ TailOf(list') = [index |-> TailOf(list').index, version |-> TailOf(list').version]
  BY <1>4, <1>5
<1> QED BY <1>3, <1>4, <1>7, <1>8, <1>12, <1>13, <1>14 DEF n, x, S, nd, NextNode

\* A task other than those that are resumed and noted leaves the list.
LEMMA RoundRemove ==
  ASSUME NEW l, NEW s, NEW f, Shape(l), Keeps(l, s, f), NEW h, Len(h) \in Nat, NodesOf(l, s, h),
         NEW p \in 1..Count(l), NEW m, m = RemoveNode(l, s[p]),
         NEW nd, NEW nx, NEW res, NEW d, RoundOf(l, s, nd, nx, res, d),
         s[p] # nd, s[p] = nx => nd = None
  PROVE  RoundOf(m, Dropped(s, Count(l), p), nd, nx, res, d \ {TaskAt(l, s, p)})
<1> DEFINE n == Count(l)
           S == Dropped(s, n, p)
           v == TaskAt(l, s, p)
           g(k) == IF k < p THEN k ELSE k + 1
<1>1. /\ Count(m) = n - 1
      /\ \A k \in 1..(n - 1) : S[k] = s[g(k)] /\ TaskAt(m, S, k) = TaskAt(l, s, g(k))
  BY RemoveNodes
<1>2. n \in Nat /\ p \in 1..n
  <2>1. l.len \in Nat /\ l.freeCount \in 0..l.len /\ n = l.len - l.freeCount
    BY DEF Shape, Count
  <2>2. p \in 1..n OBVIOUS
  <2> HIDE DEF n
  <2> QED BY <2>1, <2>2
<1>3. CASE nd = None
  <2>1. nx = None /\ d = {} BY <1>3 DEF RoundOf
  <2>2. d \ {v} = {} BY <2>1
  <2> QED BY <1>3, <2>1, <2>2 DEF RoundOf
<1>4. CASE nd # None
  <2>1. PICK k \in 1..n :
         /\ s[k] = nd
         /\ nx # None => k < n /\ s[k + 1] = nx
         /\ nx = None => d = {}
         /\ Len(res) > 0 /\ res[Len(res)] = TaskAt(l, s, k)
         /\ \A t \in d : \E j \in (k + 1)..n : TaskAt(l, s, j) = t
    BY <1>4 DEF RoundOf
  <2>2. k # p /\ (nx # None => k + 1 # p) BY <1>4, <2>1
  <2> HIDE DEF S, n, v
  <2> DEFINE q == IF k < p THEN k ELSE k - 1
  <2>3. q \in 1..(n - 1) /\ g(q) = k BY <1>2, <2>2
  <2>4. nx # None => q < n - 1 /\ q + 1 \in 1..(n - 1) /\ g(q + 1) = k + 1
    BY <1>2, <2>1, <2>2
  <2>5. ASSUME NEW t \in d \ {v} PROVE \E j \in (q + 1)..(n - 1) : TaskAt(m, S, j) = t
    <3>1. PICK j \in (k + 1)..n : TaskAt(l, s, j) = t BY <2>1, <2>5
    <3>2. j # p BY <2>5, <3>1 DEF v
    <3> DEFINE j2 == IF j < p THEN j ELSE j - 1
    <3>3. j2 \in (q + 1)..(n - 1) /\ j2 \in 1..(n - 1) /\ g(j2) = j
      BY <1>2, <2>2, <3>2
    <3> HIDE DEF j2, g, q
    <3>4. TaskAt(m, S, j2) = t BY <1>1, <3>1, <3>3
    <3> QED BY <3>3, <3>4
  <2> HIDE DEF q, g
  <2>6. S[q] = nd /\ TaskAt(m, S, q) = TaskAt(l, s, k) BY <1>1, <2>1, <2>3
  <2>7. nx # None => S[q + 1] = nx BY <1>1, <2>1, <2>4
  <2>8. RoundOf(m, S, nd, nx, res, d \ {v})
    <3>1. nx = None => d \ {v} = {} BY <2>1
    <3> QED BY <1>1, <1>4, <2>1, <2>3, <2>4, <2>5, <2>6, <2>7, <3>1 DEF RoundOf
  <2> QED BY <2>8 DEF S, v, n
<1> QED BY <1>3, <1>4

\* A task is added behind the others.
LEMMA RoundAdd ==
  ASSUME NEW l, NEW s, NEW m, NEW S, Count(l) \in Nat, Count(m) = Count(l) + 1,
         \A k \in 1..Count(l) : S[k] = s[k] /\ TaskAt(m, S, k) = TaskAt(l, s, k),
         NEW nd, NEW nx, NEW res, NEW d, RoundOf(l, s, nd, nx, res, d)
  PROVE  RoundOf(m, S, nd, nx, res, d)
<1> DEFINE n == Count(l)
<1>1. CASE nd = None BY <1>1 DEF RoundOf
<1>2. CASE nd # None
  <2>1. PICK k \in 1..n :
         /\ s[k] = nd
         /\ nx # None => k < n /\ s[k + 1] = nx
         /\ nx = None => d = {}
         /\ Len(res) > 0 /\ res[Len(res)] = TaskAt(l, s, k)
         /\ \A t \in d : \E j \in (k + 1)..n : TaskAt(l, s, j) = t
    BY <1>2 DEF RoundOf
  <2>2. Count(m) = n + 1 /\ n \in Nat
        /\ \A j \in 1..n : S[j] = s[j] /\ TaskAt(m, S, j) = TaskAt(l, s, j)
    OBVIOUS
  <2> HIDE DEF n
  <2>3. k \in 1..(n + 1) /\ S[k] = nd /\ TaskAt(m, S, k) = TaskAt(l, s, k) BY <2>1, <2>2
  <2>4. nx # None => k < n + 1 /\ S[k + 1] = nx
    <3>1. nx # None => k + 1 \in 1..n /\ k < n + 1 BY <2>1, <2>2
    <3> QED BY <2>1, <2>2, <3>1
  <2>5. \A t \in d : \E j \in (k + 1)..(n + 1) : TaskAt(m, S, j) = t
    <3> TAKE t \in d
    <3>1. PICK j \in (k + 1)..n : TaskAt(l, s, j) = t BY <2>1
    <3>2. j \in 1..n /\ j \in (k + 1)..(n + 1) BY <2>2
    <3> QED BY <2>2, <3>1, <3>2
  <2> QED BY <1>2, <2>1, <2>2, <2>3, <2>4, <2>5 DEF RoundOf
<1> QED BY <1>1, <1>2

-----------------------------------------------------------------------------
(* The invariant. *)

order == Order(list)

\* Fewer tasks than versions.
Tidy == MaxTask < VersionMod

\* No frame is used that is gone but as Misuse says.
Safe == harm \in {"none", "self", "next", "node", "clear"}

TaskTypes ==
  /\ handles \in Seq(Handle) /\ Made <= MaxTask
  /\ deleter \in [Deleter -> Handle]
  /\ alive \subseteq Task /\ resumed \in Seq(Task) /\ due \subseteq Task /\ cleared \in BOOLEAN

\* A handle has the number of its task for its version.
Known ==
  /\ \A t \in 1..Made : handles[t].version = t
  /\ \A d \in Deleter : deleter[d] = Nobody \/ \E t \in 1..Made : deleter[d] = handles[t]

TaskInv ==
  /\ TaskTypes /\ Shape(list)
  /\ Keeps(list, order, Free(list)) /\ NodesOf(list, order, handles) /\ Known
  /\ TasksOf(list, order) \subseteq alive /\ (cleared \/ alive = TasksOf(list, order))
  /\ RoundOf(list, order, idx, next, resumed, due)
  /\ InOrder /\ Safe

\* Any nodes that fit are the nodes of the list.
LEMMA Settled ==
  ASSUME TaskTypes', Known', InOrder', Safe', Shape(list'), NEW S, NEW F, Keeps(list', S, F),
         NodesOf(list', S, handles'),
         TasksOf(list', S) \subseteq alive', cleared' \/ alive' = TasksOf(list', S),
         RoundOf(list', S, idx', next', resumed', due')
  PROVE  TaskInv'
<1>1. Order(list') = S /\ Free(list') = F BY OrderIs
<1>2. order' = S /\ Free(list)' = F BY <1>1 DEF order
<1> QED BY <1>2 DEF TaskInv

\* The bounds.
LEMMA Numbers ==
  ASSUME TaskInv
  PROVE  /\ Count(list) \in Nat /\ Made \in Nat /\ Made <= MaxTask /\ DOMAIN handles = 1..Made
         /\ \A k \in 1..Count(list) : /\ order[k] \in 0..(list.len - 1)
                                      /\ TaskAt(list, order, k) \in 1..Made
                                      /\ TaskAt(list, order, k) \in Task
         /\ list.len \in Nat /\ list.cap \in Nat /\ list.len <= list.cap
<1>1. /\ list.len \in 0..list.cap /\ list.cap \in Nat /\ list.freeCount \in 0..list.len
      /\ Count(list) = list.len - list.freeCount
  BY DEF TaskInv, Shape, Count
<1>2. Made \in Nat /\ DOMAIN handles = 1..Made /\ Made <= MaxTask
  BY LenProperties DEF TaskInv, TaskTypes, Made
<1>3. \A k \in 1..Count(list) : order[k] \in 0..(list.len - 1) BY DEF TaskInv, Keeps
<1>4. \A k \in 1..Count(list) : TaskAt(list, order, k) \in 1..Made BY DEF TaskInv, NodesOf, Made
<1>5. 1..Made \subseteq Task BY <1>2, TaskConsts DEF Task
<1> QED BY <1>1, <1>2, <1>3, <1>4, <1>5

-----------------------------------------------------------------------------
(* Each action keeps the invariant. *)

\* A task is added, by Add or by a deleter that has removed its own.
LEMMA AddedTo ==
  ASSUME Tidy, TaskTypes, NEW l, NEW s, NEW f, Shape(l), Keeps(l, s, f), NodesOf(l, s, handles),
         l.cap = list.cap, NEW d, RoundOf(l, s, idx, next, resumed, d), AddTo(l)
  PROVE  /\ \E S, F :
              /\ Shape(list') /\ Keeps(list', S, F) /\ NodesOf(list', S, handles')
              /\ RoundOf(list', S, idx', next', resumed', d)
              /\ TasksOf(list', S) = TasksOf(l, s) \cup {Made + 1}
         /\ handles' \in Seq(Handle') /\ Made' = Made + 1 /\ Made' <= MaxTask /\ Made + 1 \in Task
         /\ Made \in Nat
         /\ \A t \in 1..Made : handles'[t] = handles[t]
         /\ handles'[Made + 1].version = Made + 1 /\ handles'[Made + 1] \in Handle'
         /\ list'.cap = list.cap \/ NoRound
         /\ Handle \subseteq Handle'
<1> DEFINE n == Count(l)
           S == Appended(s, n, NextNode(l))
           F == Dropped(f, l.freeCount, 1)
<1>1. /\ Made < MaxTask /\ (list'.cap = l.cap \/ NoRound)
      /\ list' = AddCore(l, Made + 1) /\ handles' = Append(handles, TailOf(list'))
      /\ UNCHANGED <<idx, next, resumed, cleared>>
  BY DEF AddTo
<1>2. handles \in Seq(Handle) /\ Made = Len(handles) /\ Made \in Nat /\ MaxTask < VersionMod
  BY LenProperties DEF TaskTypes, Made, Tidy
<1>3. /\ Shape(list') /\ Keeps(list', S, F) /\ NodesOf(list', S, handles')
      /\ Count(list') = n + 1 /\ list'.cap >= l.cap
      /\ \A k \in 1..n : S[k] = s[k] /\ TaskAt(list', S, k) = TaskAt(l, s, k)
      /\ TasksOf(list', S) = TasksOf(l, s) \cup {Made + 1}
      /\ TailOf(list').index \in 0..(list'.cap - 1) /\ TailOf(list').version = Made + 1
      /\ TailOf(list') = [index |-> TailOf(list').index, version |-> TailOf(list').version]
  BY <1>1, <1>2, AddNodes
<1> HIDE DEF S, F
<1>4. n \in Nat
  <2>1. l.len \in Nat /\ l.freeCount \in 0..l.len /\ n = l.len - l.freeCount
    BY DEF Shape, Count
  <2> HIDE DEF n
  <2> QED BY <2>1
<1>5. RoundOf(list', S, idx, next, resumed, d) BY <1>3, <1>4, RoundAdd
<1>6. l.cap \in Nat /\ list'.cap \in Nat BY <1>3 DEF Shape
<1>7. TailOf(list') \in Handle'
  <2>1. Made + 1 \in 0..(VersionMod - 1) BY <1>1, <1>2, TaskConsts
  <2>2. TailOf(list') \in [index : {None} \cup 0..(list'.cap - 1), version : 0..(VersionMod - 1)]
    BY <1>3, <2>1
  <2> QED BY <1>1, <2>2 DEF Handle
<1>8. Handle \subseteq Handle'
  <2>1. 0..(list.cap - 1) \subseteq 0..(list'.cap - 1) BY <1>1, <1>3, <1>6
  <2> QED BY <2>1 DEF Handle
<1>9. /\ handles' \in Seq(Handle') /\ Len(handles') = Made + 1 /\ handles'[Made + 1] = TailOf(list')
      /\ \A t \in 1..Made : handles'[t] = handles[t]
  <2>1. handles \in Seq(Handle') BY <1>2, <1>8, SeqMonotonic
  <2> QED BY <1>1, <1>2, <1>7, <2>1, AppendProperties
<1>10. Made' = Made + 1 BY <1>9 DEF Made
<1>11. Made + 1 <= MaxTask /\ Made + 1 \in Task BY <1>1, <1>2, TaskConsts DEF Task
<1>12. list'.cap = list.cap \/ NoRound BY <1>1 DEF Tidy
<1>13. /\ Shape(list') /\ Keeps(list', S, F) /\ NodesOf(list', S, handles')
       /\ RoundOf(list', S, idx', next', resumed', d)
       /\ TasksOf(list', S) = TasksOf(l, s) \cup {Made + 1}
  BY <1>1, <1>3, <1>5
<1> QED BY <1>2, <1>3, <1>7, <1>8, <1>9, <1>10, <1>11, <1>12, <1>13

LEMMA AddTaskInv ==
  ASSUME Tidy, TaskInv, AddTask
  PROVE  TaskInv'
<1>1. /\ AddTo(list) /\ alive' = alive \cup {Made + 1}
      /\ UNCHANGED <<idx, next, resumed, cleared, deleter, due, harm>>
  BY DEF AddTask, AddTo
<1>2. /\ \E S, F :
              /\ Shape(list') /\ Keeps(list', S, F) /\ NodesOf(list', S, handles')
              /\ RoundOf(list', S, idx', next', resumed', due)
              /\ TasksOf(list', S) = TasksOf(list, order) \cup {Made + 1}
      /\ handles' \in Seq(Handle') /\ Made' = Made + 1 /\ Made' <= MaxTask /\ Made + 1 \in Task
      /\ Made \in Nat
      /\ \A t \in 1..Made : handles'[t] = handles[t]
      /\ handles'[Made + 1].version = Made + 1 /\ handles'[Made + 1] \in Handle'
      /\ list'.cap = list.cap \/ NoRound
      /\ Handle \subseteq Handle'
  BY <1>1, AddedTo DEF TaskInv
<1>3. TaskTypes' BY <1>1, <1>2 DEF TaskInv, TaskTypes
<1>4. Known'
  <2>1. \A t \in 1..(Made + 1) : handles'[t].version = t BY <1>2 DEF TaskInv, Known
  <2>2. \A t \in 1..Made : t \in 1..(Made + 1) BY <1>2
  <2>3. \A e \in Deleter : \/ deleter'[e] = Nobody
                           \/ \E t \in 1..(Made + 1) : deleter'[e] = handles'[t]
    BY <1>1, <1>2, <2>2 DEF TaskInv, Known
  <2> QED BY <1>2, <2>1, <2>3 DEF Known
<1>5. InOrder' /\ Safe' BY <1>1, <1>2 DEF TaskInv, InOrder, Safe
<1>6. PICK S, F :
              /\ Shape(list') /\ Keeps(list', S, F) /\ NodesOf(list', S, handles')
              /\ RoundOf(list', S, idx', next', resumed', due)
              /\ TasksOf(list', S) = TasksOf(list, order) \cup {Made + 1}
  BY <1>2
<1>7. TasksOf(list', S) \subseteq alive' /\ (cleared' \/ alive' = TasksOf(list', S))
  BY <1>1, <1>6 DEF TaskInv
<1>8. RoundOf(list', S, idx', next', resumed', due') BY <1>1, <1>6
<1> QED BY <1>3, <1>4, <1>5, <1>6, <1>7, <1>8, Settled

\* What a handle finds is in the list.
LEMMA Found ==
  ASSUME TaskInv, NEW h, NEW t \in 1..Made, h = handles[t], Exists(list, h)
  PROVE  \E k \in 1..Count(list) : order[k] = h.index /\ TaskAt(list, order, k) = t
<1>1. h.version = t /\ h.index \in 0..(list.len - 1) /\ list.buf[h.index].version = h.version
  BY DEF TaskInv, Known, Exists
<1>2. Made \in Nat BY Numbers
<1>3. t # 0 BY <1>2
<1>4. /\ \A nd \in 0..(list.len - 1) : \/ \E k \in 1..Count(list) : order[k] = nd
                                      \/ \E k \in 1..list.freeCount : Free(list)[k] = nd
      /\ \A k \in 1..list.freeCount : list.buf[Free(list)[k]].version = 0
  BY DEF TaskInv, Keeps
<1>5. PICK k \in 1..Count(list) : order[k] = h.index BY <1>1, <1>3, <1>4
<1>6. list.buf[order[k]].version = TaskAt(list, order, k) BY DEF TaskInv, NodesOf
<1> QED BY <1>1, <1>5, <1>6

LEMMA ByDeleter ==
  ASSUME TaskInv, NEW d \in Deleter, Exists(list, deleter[d])
  PROVE  \E k \in 1..Count(list) :
           order[k] = deleter[d].index /\ TaskAt(list, order, k) = list.buf[deleter[d].index].value
<1>1. deleter[d] # Nobody
  <2>1. list.len \in Nat BY Numbers
  <2>2. Nobody.index = None BY DEF Nobody
  <2>3. None \notin 0..(list.len - 1) BY <2>1 DEF None
  <2> QED BY <2>2, <2>3 DEF Exists
<1>2. PICK t \in 1..Made : deleter[d] = handles[t] BY <1>1 DEF TaskInv, Known
<1>3. PICK k \in 1..Count(list) : order[k] = deleter[d].index BY <1>2, Found
<1> QED BY <1>3 DEF TaskAt

\* The tasks that were resumed stand in order, the last of them before t.
Before(res, t) ==
  /\ res \in Seq(Task) /\ \A a, b \in 1..Len(res) : a < b => res[a] < res[b]
  /\ Len(res) > 0 => res[Len(res)] < t

\* The task in node nd is resumed, those behind it have yet to be.
LEMMA Visited ==
  ASSUME NEW l, NEW s, NEW f, Shape(l), Keeps(l, s, f), NodesOf(l, s, handles),
         Len(handles) \in Nat, Len(handles) <= MaxTask, Safe,
         NEW nd, NEW before, NEW todo \in SUBSET Task, Visit(l, nd, before, todo),
         NEW k \in 1..Count(l), s[k] = nd, TaskAt(l, s, k) \in alive,
         Before(before, TaskAt(l, s, k)),
         \A t \in todo : \E j \in k..Count(l) : TaskAt(l, s, j) = t
  PROVE  /\ RoundOf(l, s, idx', next', resumed', due')
         /\ resumed' \in Seq(Task) /\ due' \subseteq Task /\ InOrder' /\ Safe'
<1> DEFINE n == Count(l)
           x == TaskAt(l, s, k)
<1>1. /\ s \in [1..n -> 0..(l.len - 1)]
      /\ \A j \in 1..n : l.buf[s[j]].next = IF j = n THEN None ELSE s[j + 1]
  BY DEF Keeps
<1>2. l.len \in Nat /\ n \in Nat /\ k \in 1..n
  <2>1. l.len \in Nat /\ l.freeCount \in 0..l.len /\ n = l.len - l.freeCount
    BY DEF Shape, Count
  <2>2. k \in 1..n OBVIOUS
  <2> HIDE DEF n
  <2> QED BY <2>1, <2>2
<1>3. x \in 1..Len(handles) BY DEF NodesOf
<1>4. x \in Task BY <1>3, TaskConsts DEF Task
<1>5. s[k] # None BY <1>1, <1>2 DEF None
<1>6. /\ idx' = nd /\ next' = l.buf[s[k]].next /\ resumed' = Append(before, x)
      /\ due' = todo \ {x} /\ harm' = IF x \in alive THEN harm ELSE "other"
  BY <1>5 DEF Visit, TaskAt
<1>7. /\ before \in Seq(Task) /\ \A a, b \in 1..Len(before) : a < b => before[a] < before[b]
      /\ Len(before) > 0 => before[Len(before)] < x
  BY DEF Before
<1> HIDE DEF n, x
<1>8. next' = IF k = n THEN None ELSE s[k + 1] BY <1>1, <1>2, <1>6
<1>9. next' # None => k < n /\ s[k + 1] = next' BY <1>2, <1>8
<1>10. ASSUME NEW t \in due' PROVE \E j \in (k + 1)..n : TaskAt(l, s, j) = t
  <2>1. PICK j \in k..n : TaskAt(l, s, j) = t BY <1>6 DEF n
  <2>2. j # k BY <1>6, <2>1 DEF x
  <2>3. j \in (k + 1)..n BY <1>2, <2>2
  <2> QED BY <2>1, <2>3
<1>11. next' = None => due' = {}
  <2> SUFFICES ASSUME next' = None, NEW t \in due' PROVE FALSE OBVIOUS
  <2>1. PICK j \in (k + 1)..n : TaskAt(l, s, j) = t BY <1>10
  <2>2. k # n /\ k + 1 \in 1..n BY <1>2
  <2>3. s[k + 1] # None BY <1>1, <1>2, <2>2 DEF None
  <2> QED BY <1>8, <2>2, <2>3
<1>12. /\ Len(before) \in Nat /\ Len(resumed') = Len(before) + 1
       /\ resumed' \in Seq(Task) /\ resumed'[Len(before) + 1] = x
       /\ \A a \in 1..Len(before) : resumed'[a] = before[a] /\ before[a] \in Task
       /\ DOMAIN resumed' = 1..(Len(before) + 1)
  BY <1>4, <1>6, <1>7, AppendProperties, LenProperties, ElementOfSeq
<1>13. InOrder'
  <2> SUFFICES ASSUME NEW a \in DOMAIN resumed', NEW b \in DOMAIN resumed', a < b
               PROVE  resumed'[a] < resumed'[b]
    BY DEF InOrder
  <2> DEFINE m == Len(before)
  <2>0. /\ m \in Nat /\ a \in 1..(m + 1) /\ b \in 1..(m + 1) /\ a \in Int /\ b \in Int
        /\ \A c, d \in 1..m : c < d => before[c] < before[d]
        /\ m > 0 => before[m] < x
        /\ resumed'[m + 1] = x /\ \A c \in 1..m : resumed'[c] = before[c] /\ before[c] \in Int
    <3>1. a \in 1..(m + 1) /\ b \in 1..(m + 1) /\ m \in Nat BY <1>12
    <3>2. /\ \A c, d \in 1..m : c < d => before[c] < before[d]
          /\ m > 0 => before[m] < x /\ resumed'[m + 1] = x
      BY <1>7, <1>12
    <3>3. resumed'[m + 1] = x BY <1>12
    <3>4. \A c \in 1..m : resumed'[c] = before[c] /\ before[c] \in Task BY <1>12
    <3>5. Task \subseteq Int BY TaskConsts DEF Task
    <3> HIDE DEF m
    <3>6. a \in Int /\ b \in Int BY <3>1
    <3>7. \A c \in 1..m : resumed'[c] = before[c] /\ before[c] \in Int BY <3>4, <3>5
    <3> QED BY <3>1, <3>2, <3>3, <3>6, <3>7
  <2> HIDE DEF m
  <2>1. a \in 1..m /\ m > 0 BY <2>0
  <2>2. CASE b = m + 1
    <3>1. x \in Int BY <1>4, TaskConsts DEF Task
    <3>2. CASE a = m BY <2>0, <2>1, <2>2, <3>2
    <3>3. CASE a # m
      <4>1. a < m /\ m \in 1..m BY <2>0, <2>1, <3>3
      <4> QED BY <2>0, <2>1, <2>2, <3>1, <4>1
    <3> QED BY <3>2, <3>3
  <2>3. CASE b # m + 1
    <3>1. b \in 1..m BY <2>0, <2>3
    <3> QED BY <2>0, <2>1, <3>1
  <2> QED BY <2>2, <2>3
<1>14. due' \subseteq Task BY <1>6
<1>15. Safe' BY <1>6 DEF x, Safe
<1>16. Len(resumed') > 0 /\ resumed'[Len(resumed')] = x BY <1>12
<1>17. RoundOf(l, s, idx', next', resumed', due')
  BY <1>5, <1>6, <1>9, <1>10, <1>11, <1>16 DEF RoundOf, n, x
<1> QED BY <1>12, <1>13, <1>14, <1>15, <1>17

\* The round ends.
LEMMA VisitedNone ==
  ASSUME TaskInv, NEW l, Visit(l, None, resumed, {})
  PROVE  /\ \A m, s : RoundOf(m, s, idx', next', resumed', due')
         /\ resumed' \in Seq(Task) /\ due' \subseteq Task /\ InOrder' /\ Safe'
<1>1. idx' = None /\ next' = None /\ resumed' = resumed /\ due' = {} /\ harm' = harm
  BY DEF Visit
<1> QED BY <1>1 DEF RoundOf, TaskInv, TaskTypes, InOrder, Safe

LEMMA BeginRoundInv ==
  ASSUME TaskInv, BeginRound
  PROVE  TaskInv'
<1>1. /\ NoRound /\ list.head # None /\ Visit(list, list.head, <<>>, InList)
      /\ UNCHANGED <<list, deleter, alive, handles, cleared>>
  BY DEF BeginRound
<1>2. Count(list) \in Nat /\ Len(handles) \in Nat /\ Len(handles) <= MaxTask
      /\ \A k \in 1..Count(list) : TaskAt(list, order, k) \in Task
  BY Numbers DEF Made
<1>3. /\ Keeps(list, order, Free(list)) /\ Shape(list) /\ NodesOf(list, order, handles)
      /\ order \in [1..Count(list) -> 0..(list.len - 1)]
      /\ IF Count(list) = 0 THEN list.head = None ELSE list.head = order[1]
      /\ TasksOf(list, order) \subseteq alive /\ Safe
  BY DEF TaskInv, Keeps
<1>4. 1 \in 1..Count(list) /\ order[1] = list.head BY <1>1, <1>2, <1>3
<1>5. InList = TasksOf(list, order)
  BY <1>3 DEF InList, TasksOf, TaskAt, order, Range
<1>6. TasksOf(list, order) \in SUBSET Task BY <1>2 DEF TasksOf
<1>7. TaskAt(list, order, 1) \in alive BY <1>3, <1>4 DEF TasksOf
<1>8. Before(<<>>, TaskAt(list, order, 1)) BY DEF Before
<1>9. \A t \in TasksOf(list, order) : \E j \in 1..Count(list) : TaskAt(list, order, j) = t
  BY DEF TasksOf
<1>10. /\ RoundOf(list, order, idx', next', resumed', due')
       /\ resumed' \in Seq(Task) /\ due' \subseteq Task /\ InOrder' /\ Safe'
  BY <1>1, <1>2, <1>3, <1>4, <1>5, <1>6, <1>7, <1>8, <1>9, Visited
<1>11. order' = order /\ Handle' = Handle /\ Made' = Made BY <1>1 DEF order, Handle, Made
<1>12. TaskTypes' BY <1>1, <1>10, <1>11 DEF TaskInv, TaskTypes
<1>13. Known' BY <1>1, <1>11 DEF TaskInv, Known
<1> QED BY <1>1, <1>3, <1>10, <1>11, <1>12, <1>13, Settled DEF TaskInv

\* The k-th node is resumed.
InRound(k) ==
  /\ k \in 1..Count(list) /\ order[k] = idx
  /\ next # None => k < Count(list) /\ order[k + 1] = next
  /\ next = None => due = {}
  /\ Len(resumed) > 0 /\ resumed[Len(resumed)] = TaskAt(list, order, k)
  /\ \A t \in due : \E j \in (k + 1)..Count(list) : TaskAt(list, order, j) = t

LEMMA Resumes ==
  ASSUME TaskInv, NEW k, InRound(k), next # None
  PROVE  /\ k + 1 \in 1..Count(list) /\ order[k + 1] = next
         /\ TaskAt(list, order, k + 1) \in alive
         /\ TaskAt(list, order, k) # TaskAt(list, order, k + 1)
         /\ Before(resumed, TaskAt(list, order, k + 1))
<1> DEFINE n == Count(list)
<1>1. k \in 1..n /\ k < n /\ order[k + 1] = next /\ n \in Nat BY Numbers DEF InRound
<1>2. /\ Len(resumed) > 0 /\ resumed[Len(resumed)] = TaskAt(list, order, k)
      /\ resumed \in Seq(Task) /\ InOrder
  BY DEF InRound, TaskInv, TaskTypes
<1>3. \A nd, j \in 1..n : nd < j => TaskAt(list, order, nd) < TaskAt(list, order, j)
  BY DEF TaskInv, NodesOf
<1>4. \A j \in 1..n : TaskAt(list, order, j) \in alive /\ TaskAt(list, order, j) \in Task
  BY Numbers DEF TaskInv, TasksOf
<1> HIDE DEF n
<1>5. k + 1 \in 1..n /\ k < k + 1 BY <1>1
<1>6. TaskAt(list, order, k) < TaskAt(list, order, k + 1) BY <1>1, <1>3, <1>5
<1>7. TaskAt(list, order, k) # TaskAt(list, order, k + 1)
  BY <1>1, <1>4, <1>5, <1>6, TaskConsts DEF Task
<1>8. \A a, b \in 1..Len(resumed) : a < b => resumed[a] < resumed[b]
  BY <1>2, LenProperties DEF InOrder
<1> QED BY <1>1, <1>2, <1>4, <1>5, <1>6, <1>7, <1>8 DEF Before, n

LEMMA SuspendInv ==
  ASSUME TaskInv, Suspend
  PROVE  TaskInv'
<1>1. /\ ~NoRound /\ Visit(list, next, resumed, due)
      /\ UNCHANGED <<list, deleter, alive, handles, cleared>>
  BY DEF Suspend
<1>2. PICK k : InRound(k) BY <1>1 DEF NoRound, TaskInv, RoundOf, InRound
<1>3. /\ RoundOf(list, order, idx', next', resumed', due')
      /\ resumed' \in Seq(Task) /\ due' \subseteq Task /\ InOrder' /\ Safe'
  <2>1. CASE next = None
    <3>1. due = {} BY <1>2, <2>1 DEF InRound
    <3> QED BY <1>1, <2>1, <3>1, VisitedNone
  <2>2. CASE next # None
    <3>1. /\ k + 1 \in 1..Count(list) /\ order[k + 1] = next
          /\ TaskAt(list, order, k + 1) \in alive
          /\ Before(resumed, TaskAt(list, order, k + 1))
      BY <1>2, <2>2, Resumes
    <3>2. /\ Keeps(list, order, Free(list)) /\ Shape(list) /\ NodesOf(list, order, handles)
          /\ due \in SUBSET Task /\ Safe
      BY DEF TaskInv, TaskTypes
    <3>3. Len(handles) \in Nat /\ Len(handles) <= MaxTask BY Numbers DEF Made
    <3>4. \A t \in due : \E j \in (k + 1)..Count(list) : TaskAt(list, order, j) = t
      BY <1>2 DEF InRound
    <3> QED BY <1>1, <3>1, <3>2, <3>3, <3>4, Visited
  <2> QED BY <2>1, <2>2
<1>4. order' = order /\ Handle' = Handle /\ Made' = Made BY <1>1 DEF order, Handle, Made
<1>5. TaskTypes' BY <1>1, <1>3, <1>4 DEF TaskInv, TaskTypes
<1>6. Known' BY <1>1, <1>4 DEF TaskInv, Known
<1> QED BY <1>1, <1>3, <1>4, <1>5, <1>6, Settled DEF TaskInv

LEMMA FinishInv ==
  ASSUME TaskInv, Finish
  PROVE  TaskInv'
<1> DEFINE n == Count(list)
           m == RemoveNode(list, idx)
<1>1. /\ ~NoRound /\ list' = m /\ alive' = alive \ {list.buf[idx].value}
      /\ Visit(m, next, resumed, due) /\ UNCHANGED <<deleter, handles, cleared>>
  BY DEF Finish, FinishThen
<1>2. PICK k : InRound(k) BY <1>1 DEF NoRound, TaskInv, RoundOf, InRound
<1> DEFINE S == Dropped(order, n, k)
           F == Pushed(Free(list), list.freeCount, order[k])
           x == TaskAt(list, order, k)
<1>3. k \in 1..n /\ order[k] = idx /\ n \in Nat /\ x = list.buf[idx].value
  BY <1>2, Numbers DEF InRound, TaskAt
<1>4. /\ Keeps(list, order, Free(list)) /\ Shape(list) /\ NodesOf(list, order, handles)
      /\ due \in SUBSET Task /\ Safe
      /\ TasksOf(list, order) \subseteq alive /\ (cleared \/ alive = TasksOf(list, order))
  BY DEF TaskInv, TaskTypes
<1>5. Len(handles) \in Nat /\ Len(handles) <= MaxTask BY Numbers DEF Made
<1>6. m = RemoveNode(list, order[k]) BY <1>3
<1> HIDE DEF m
<1>7. /\ Shape(m) /\ Keeps(m, S, F) /\ Count(m) = n - 1 /\ m.cap = list.cap
      /\ NodesOf(m, S, handles)
      /\ \A j \in 1..(n - 1) : /\ S[j] = order[IF j < k THEN j ELSE j + 1]
                               /\ TaskAt(m, S, j) = TaskAt(list, order, IF j < k THEN j ELSE j + 1)
      /\ TasksOf(m, S) = TasksOf(list, order) \ {x}
  <2> DEFINE r == RemoveNode(list, order[k])
  <2>1. /\ Shape(r) /\ Keeps(r, S, F) /\ Count(r) = n - 1 /\ r.cap = list.cap
        /\ NodesOf(r, S, handles)
        /\ \A j \in 1..(n - 1) :
             /\ S[j] = order[IF j < k THEN j ELSE j + 1]
             /\ TaskAt(r, S, j) = TaskAt(list, order, IF j < k THEN j ELSE j + 1)
        /\ TasksOf(r, S) = TasksOf(list, order) \ {x}
    BY <1>3, <1>4, <1>5, RemoveNodes
  <2> QED BY <1>6, <2>1
<1> HIDE DEF S, F, x
<1>8. /\ RoundOf(m, S, idx', next', resumed', due')
      /\ resumed' \in Seq(Task) /\ due' \subseteq Task /\ InOrder' /\ Safe'
  <2>1. CASE next = None
    <3>1. due = {} BY <1>2, <2>1 DEF InRound
    <3> QED BY <1>1, <2>1, <3>1, VisitedNone
  <2>2. CASE next # None
    <3>1. /\ k + 1 \in 1..n /\ order[k + 1] = next
          /\ TaskAt(list, order, k + 1) \in alive
          /\ Before(resumed, TaskAt(list, order, k + 1))
      BY <1>2, <2>2, Resumes
    <3>2. \A t \in due : \E j \in (k + 1)..n : TaskAt(list, order, j) = t
      BY <1>2 DEF InRound
    <3> HIDE DEF n
    <3>3. k \in 1..(n - 1) /\ ~(k < k) BY <1>3, <3>1
    <3>4. S[k] = next /\ TaskAt(m, S, k) = TaskAt(list, order, k + 1) BY <1>7, <3>1, <3>3
    <3>5. ASSUME NEW t \in due PROVE \E j \in k..(n - 1) : TaskAt(m, S, j) = t
      <4>1. PICK j \in (k + 1)..n : TaskAt(list, order, j) = t BY <3>2
      <4> DEFINE q == j - 1
      <4>2. q \in 1..(n - 1) /\ q \in k..(n - 1) /\ ~(q < k) /\ q + 1 = j BY <1>3
      <4> HIDE DEF q
      <4> QED BY <1>7, <4>1, <4>2
    <3>6. Before(resumed, TaskAt(m, S, k)) /\ TaskAt(m, S, k) \in alive BY <3>1, <3>4
    <3>7. k \in 1..Count(m) /\ \A t \in due : \E j \in k..Count(m) : TaskAt(m, S, j) = t
      BY <1>7, <3>3, <3>5
    <3> QED BY <1>1, <1>4, <1>5, <1>7, <3>4, <3>6, <3>7, Visited
  <2> QED BY <2>1, <2>2
<1>9. Handle' = Handle /\ Made' = Made BY <1>1, <1>7 DEF Handle, Made
<1>10. TaskTypes' BY <1>1, <1>8, <1>9 DEF TaskInv, TaskTypes
<1>11. Known' BY <1>1, <1>9 DEF TaskInv, Known
<1>12. TasksOf(m, S) \subseteq alive' /\ (cleared' \/ alive' = TasksOf(m, S))
  BY <1>1, <1>3, <1>4, <1>7
<1> QED BY <1>1, <1>7, <1>8, <1>10, <1>11, <1>12, Settled

LEMMA GrowInv ==
  ASSUME TaskInv, NEW n \in 1..MaxCap, Grow(n)
  PROVE  TaskInv'
<1>1. /\ NoRound /\ n > list.cap /\ list' = Reserve(list, n)
      /\ UNCHANGED <<idx, next, deleter, alive, handles, resumed, due, harm, cleared>>
  BY DEF Grow
<1>2. n \in Nat BY TaskConsts
<1>3. Shape(list) /\ Keeps(list, order, Free(list)) /\ NodesOf(list, order, handles)
      /\ list.len \in 0..list.cap /\ list.cap \in Nat
      /\ \A k \in 1..Count(list) : order[k] \in 0..(list.len - 1)
  BY DEF TaskInv, Shape, Keeps
<1>4. /\ Shape(list') /\ list'.cap >= list.cap
      /\ \A j \in 0..(list.cap - 1) : list'.buf[j] = list.buf[j]
      /\ list'.version = list.version
  <2>1. /\ Shape(Reserve(list, n)) /\ Reserve(list, n).cap >= list.cap
        /\ \A j \in 0..(list.cap - 1) : Reserve(list, n).buf[j] = list.buf[j]
        /\ Reserve(list, n).version = list.version
    <3>1. Shape(list) /\ n \in Nat BY <1>2, <1>3
    <3> QED BY <3>1, Reserved
  <2> QED BY <1>1, <2>1
<1>5. Keeps(list', order, Free(list)) /\ Count(list') = Count(list)
  BY <1>1, <1>2, <1>3, ReserveKeeps
<1>6. 0..(list.len - 1) \subseteq 0..(list.cap - 1) BY <1>3
<1>7. \A k \in 1..Count(list) : /\ TaskAt(list', order, k) = TaskAt(list, order, k)
                                /\ list'.buf[order[k]].version = list.buf[order[k]].version
  BY <1>3, <1>4, <1>6 DEF TaskAt
<1>8. NodesOf(list', order, handles) BY <1>3, <1>4, <1>5, <1>7 DEF NodesOf
<1>9. TasksOf(list', order) = TasksOf(list, order) BY <1>5, <1>7 DEF TasksOf
<1>10. Handle \subseteq Handle'
  <2>1. list'.cap \in Nat BY <1>4 DEF Shape
  <2>2. 0..(list.cap - 1) \subseteq 0..(list'.cap - 1) BY <1>3, <1>4, <2>1
  <2> QED BY <2>2 DEF Handle
<1>11. handles \in Seq(Handle) /\ deleter \in [Deleter -> Handle] BY DEF TaskInv, TaskTypes
<1>12. handles \in Seq(Handle') BY <1>10, <1>11, SeqMonotonic
<1>13. Made' = Made BY <1>1 DEF Made
<1>14. TaskTypes' BY <1>1, <1>10, <1>11, <1>12, <1>13 DEF TaskInv, TaskTypes
<1>15. Known' BY <1>1, <1>13 DEF TaskInv, Known
<1>16. InOrder' /\ Safe' BY <1>1 DEF TaskInv, InOrder, Safe
<1>17. \A l, s : RoundOf(l, s, idx', next', resumed', due')
  BY <1>1 DEF TaskInv, RoundOf, NoRound
<1>18. TasksOf(list', order) \subseteq alive' /\ (cleared' \/ alive' = TasksOf(list', order))
  BY <1>1, <1>9 DEF TaskInv
<1> QED BY <1>1, <1>4, <1>5, <1>8, <1>14, <1>15, <1>16, <1>17, <1>18, Settled

LEMMA ClearInv ==
  ASSUME TaskInv, ClearTasks
  PROVE  TaskInv'
<1>1. /\ NoRound /\ list' = Clear(list) /\ cleared' = TRUE
      /\ UNCHANGED <<idx, next, deleter, alive, handles, resumed, due, harm>>
  BY DEF ClearTasks
<1>2. /\ Shape(list') /\ list'.len = 0 /\ list'.freeCount = 0 /\ list'.head = None
      /\ list'.tail = None /\ list'.version = list.version /\ list'.cap = list.cap
  BY <1>1, ClearShape DEF TaskInv
<1>3. Keeps(list', None0, None0) /\ Count(list') = 0 BY <1>2, EmptyKeeps
<1>4. 1..0 = {} OBVIOUS
<1>5. NodesOf(list', None0, handles') /\ TasksOf(list', None0) = {}
  BY <1>1, <1>2, <1>3, <1>4 DEF TaskInv, NodesOf, TasksOf
<1>6. Handle' = Handle /\ Made' = Made BY <1>1, <1>2 DEF Handle, Made
<1>7. TaskTypes' BY <1>1, <1>6 DEF TaskInv, TaskTypes
<1>8. Known' BY <1>1, <1>6 DEF TaskInv, Known
<1>9. InOrder' /\ Safe' BY <1>1 DEF TaskInv, InOrder, Safe
<1>10. \A l, s : RoundOf(l, s, idx', next', resumed', due')
  BY <1>1 DEF TaskInv, RoundOf, NoRound
<1> QED BY <1>1, <1>2, <1>3, <1>5, <1>7, <1>8, <1>9, <1>10, Settled

\* The k-th task is removed by a deleter, which is neither resumed nor noted.
LEMMA TakeOut ==
  ASSUME TaskInv, NEW k \in 1..Count(list), order[k] # idx,
         order[k] = next => NoRound
  PROVE  /\ Shape(RemoveNode(list, order[k])) /\ RemoveNode(list, order[k]).cap = list.cap
         /\ Keeps(RemoveNode(list, order[k]), Dropped(order, Count(list), k),
                  Pushed(Free(list), list.freeCount, order[k]))
         /\ NodesOf(RemoveNode(list, order[k]), Dropped(order, Count(list), k), handles)
         /\ TasksOf(RemoveNode(list, order[k]), Dropped(order, Count(list), k))
              = TasksOf(list, order) \ {TaskAt(list, order, k)}
         /\ RoundOf(RemoveNode(list, order[k]), Dropped(order, Count(list), k), idx, next,
                    resumed, due \ {TaskAt(list, order, k)})
         /\ TaskAt(list, order, k) \in alive
<1>1. /\ Keeps(list, order, Free(list)) /\ Shape(list) /\ NodesOf(list, order, handles)
      /\ RoundOf(list, order, idx, next, resumed, due)
  BY DEF TaskInv
<1>2. Len(handles) \in Nat BY Numbers DEF Made
<1>3. order[k] = next => idx = None BY DEF NoRound
<1>4. TaskAt(list, order, k) \in alive BY DEF TaskInv, TasksOf
<1>5. RoundOf(RemoveNode(list, order[k]), Dropped(order, Count(list), k), idx, next,
              resumed, due \ {TaskAt(list, order, k)})
  BY <1>1, <1>2, <1>3, RoundRemove
<1> QED BY <1>1, <1>2, <1>4, <1>5, RemoveNodes

LEMMA DropInv ==
  ASSUME Tidy, TaskInv, NEW d \in Deleter, Drop(d)
  PROVE  TaskInv'
<1>1. /\ Exists(list, deleter[d]) /\ Spared(deleter[d].index)
      /\ list' = RemoveNode(list, deleter[d].index)
      /\ deleter' = [deleter EXCEPT ![d] = Nobody]
      /\ alive' = alive \ {list.buf[deleter[d].index].value}
      /\ due' = due \ {list.buf[deleter[d].index].value}
      /\ harm' = IF {list.buf[deleter[d].index].value} \subseteq alive THEN harm ELSE "other"
      /\ UNCHANGED <<idx, next, handles, resumed, cleared>>
  BY DEF Drop, Destroyed
<1>2. PICK k \in 1..Count(list) :
        order[k] = deleter[d].index /\ TaskAt(list, order, k) = list.buf[deleter[d].index].value
  BY <1>1, ByDeleter
<1>3. order[k] # idx /\ (order[k] = next => NoRound) BY <1>1, <1>2 DEF Spared
<1> DEFINE S == Dropped(order, Count(list), k)
           F == Pushed(Free(list), list.freeCount, order[k])
           x == TaskAt(list, order, k)
<1>4. list' = RemoveNode(list, order[k]) BY <1>1, <1>2
<1>5. /\ Shape(list') /\ list'.cap = list.cap /\ Keeps(list', S, F) /\ NodesOf(list', S, handles)
      /\ TasksOf(list', S) = TasksOf(list, order) \ {x}
      /\ RoundOf(list', S, idx, next, resumed, due \ {x}) /\ x \in alive
  BY <1>3, <1>4, TakeOut
<1> HIDE DEF S, F, x
<1>6. alive' = alive \ {x} /\ due' = due \ {x} /\ Safe'
  BY <1>1, <1>2, <1>3, <1>5 DEF x, TaskInv, Safe
<1>7. Handle' = Handle /\ Made' = Made BY <1>1, <1>5 DEF Handle, Made
<1>8. Nobody \in Handle BY TaskConsts DEF Nobody, Handle
<1>9. TaskTypes' BY <1>1, <1>6, <1>7, <1>8 DEF TaskInv, TaskTypes
<1>10. Known'
  <2>1. \A e \in Deleter : deleter'[e] = Nobody \/ deleter'[e] = deleter[e]
    BY <1>1 DEF TaskInv, TaskTypes
  <2> QED BY <1>1, <1>7, <2>1 DEF TaskInv, Known
<1>11. InOrder' BY <1>1 DEF TaskInv, InOrder
<1>12. TasksOf(list', S) \subseteq alive' /\ (cleared' \/ alive' = TasksOf(list', S))
  BY <1>1, <1>5, <1>6 DEF TaskInv
<1>13. RoundOf(list', S, idx', next', resumed', due') BY <1>1, <1>5, <1>6
<1> QED BY <1>1, <1>5, <1>6, <1>9, <1>10, <1>11, <1>12, <1>13, Settled

\* What changes nothing but a deleter, which then has nobody, or the round, which ends, or
\* says that the model ends, for one of the reasons of Misuse.
LEMMA ListStays ==
  ASSUME TaskInv, UNCHANGED <<list, alive, handles, resumed, cleared>>,
         \/ UNCHANGED deleter
         \/ \E d \in Deleter : deleter' = [deleter EXCEPT ![d] = Nobody],
         \/ UNCHANGED <<idx, next, due>>
         \/ idx' = None /\ next' = None /\ due' = {},
         Safe'
  PROVE  TaskInv'
<1>1. order' = order /\ Free(list)' = Free(list) /\ Handle' = Handle /\ Made' = Made
  BY DEF order, Free, Handle, Made
<1>2. RoundOf(list', order', idx', next', resumed', due')
  <2>1. CASE UNCHANGED <<idx, next, due>> BY <1>1, <2>1 DEF TaskInv
  <2>2. CASE idx' = None /\ next' = None /\ due' = {} BY <2>2 DEF RoundOf
  <2> QED BY <2>1, <2>2
<1>3. Nobody \in Handle BY TaskConsts DEF Nobody, Handle
<1>4. deleter' \in [Deleter -> Handle] BY <1>3 DEF TaskInv, TaskTypes
<1>5. \A e \in Deleter : deleter'[e] = Nobody \/ deleter'[e] = deleter[e]
  BY DEF TaskInv, TaskTypes
<1>6. due' \subseteq Task BY DEF TaskInv, TaskTypes
<1>7. TaskTypes' BY <1>1, <1>4, <1>6 DEF TaskInv, TaskTypes
<1>8. Known' BY <1>1, <1>5 DEF TaskInv, Known
<1>9. InOrder' BY DEF TaskInv, InOrder
<1> QED BY <1>1, <1>2, <1>7, <1>8, <1>9 DEF TaskInv

LEMMA DropGoneInv ==
  ASSUME TaskInv, NEW d \in Deleter, DropGone(d)
  PROVE  TaskInv'
<1>1. /\ UNCHANGED <<list, idx, next, alive, handles, resumed, due, harm, cleared>>
      /\ deleter' = [deleter EXCEPT ![d] = Nobody]
  BY DEF DropGone
<1>2. Safe' BY <1>1 DEF TaskInv, Safe
<1> QED BY <1>1, <1>2, ListStays

LEMMA ThrowInv ==
  ASSUME TaskInv, Throw
  PROVE  TaskInv'
<1>1. /\ UNCHANGED <<list, deleter, alive, handles, resumed, harm, cleared>>
      /\ idx' = None /\ next' = None /\ due' = {}
  BY DEF Throw
<1>2. Safe' BY <1>1 DEF TaskInv, Safe
<1> QED BY <1>1, <1>2, ListStays

LEMMA MisuseInv ==
  ASSUME TaskInv, Misuse
  PROVE  TaskInv'
<1>1. UNCHANGED <<list, idx, next, deleter, alive, handles, resumed, due, cleared>>
  BY DEF Misuse
<1>2. Safe' BY DEF Misuse, Safe
<1> QED BY <1>1, <1>2, ListStays

LEMMA AssignInv ==
  ASSUME Tidy, TaskInv, NEW d \in Deleter, Assign(d)
  PROVE  TaskInv'
<1> DEFINE nd == deleter[d].index
           t == IF Exists(list, deleter[d]) THEN {list.buf[nd].value} ELSE {}
           l == IF t = {} THEN list ELSE RemoveNode(list, nd)
<1>1. /\ t # {} => Spared(nd)
      /\ AddTo(l)
      /\ deleter' = [deleter EXCEPT ![d] = handles'[Made + 1]]
      /\ alive' = (alive \ t) \cup {Made + 1}
      /\ due' = due \ t
      /\ harm' = IF t \subseteq alive THEN harm ELSE "other"
  BY DEF Assign, Destroyed
<1>2. \E s, f : /\ Shape(l) /\ l.cap = list.cap /\ Keeps(l, s, f) /\ NodesOf(l, s, handles)
                /\ TasksOf(l, s) = TasksOf(list, order) \ t
                /\ RoundOf(l, s, idx, next, resumed, due \ t)
                /\ t \subseteq alive /\ (t # {} => nd # idx)
  <2>1. CASE Exists(list, deleter[d])
    <3>1. PICK k \in 1..Count(list) :
            order[k] = nd /\ TaskAt(list, order, k) = list.buf[nd].value
      BY <2>1, ByDeleter
    <3>2. t = {TaskAt(list, order, k)} /\ l = RemoveNode(list, order[k]) BY <2>1, <3>1
    <3> HIDE DEF t, l
    <3>3. order[k] # idx /\ (order[k] = next => NoRound) BY <1>1, <3>1, <3>2 DEF Spared
    <3>4. /\ Shape(l) /\ l.cap = list.cap
          /\ Keeps(l, Dropped(order, Count(list), k), Pushed(Free(list), list.freeCount, order[k]))
          /\ NodesOf(l, Dropped(order, Count(list), k), handles)
          /\ TasksOf(l, Dropped(order, Count(list), k)) = TasksOf(list, order) \ t
          /\ RoundOf(l, Dropped(order, Count(list), k), idx, next, resumed, due \ t)
          /\ t \subseteq alive
      BY <3>2, <3>3, TakeOut
    <3> QED BY <3>1, <3>3, <3>4
  <2>2. CASE ~Exists(list, deleter[d])
    <3>1. t = {} /\ l = list BY <2>2
    <3>2. TasksOf(list, order) \ {} = TasksOf(list, order) /\ due \ {} = due OBVIOUS
    <3> HIDE DEF t, l
    <3> QED BY <3>1, <3>2 DEF TaskInv
  <2> QED BY <2>1, <2>2
<1> HIDE DEF l, t, nd
<1>3. PICK s, f : /\ Shape(l) /\ l.cap = list.cap /\ Keeps(l, s, f) /\ NodesOf(l, s, handles)
                  /\ TasksOf(l, s) = TasksOf(list, order) \ t
                  /\ RoundOf(l, s, idx, next, resumed, due \ t)
                  /\ t \subseteq alive /\ (t # {} => nd # idx)
  BY <1>2
<1>4. /\ \E S, F :
              /\ Shape(list') /\ Keeps(list', S, F) /\ NodesOf(list', S, handles')
              /\ RoundOf(list', S, idx', next', resumed', due \ t)
              /\ TasksOf(list', S) = TasksOf(l, s) \cup {Made + 1}
      /\ handles' \in Seq(Handle') /\ Made' = Made + 1 /\ Made' <= MaxTask /\ Made + 1 \in Task
      /\ Made \in Nat
      /\ \A a \in 1..Made : handles'[a] = handles[a]
      /\ handles'[Made + 1].version = Made + 1 /\ handles'[Made + 1] \in Handle'
      /\ list'.cap = list.cap \/ NoRound
      /\ Handle \subseteq Handle'
  BY <1>1, <1>3, AddedTo DEF TaskInv
<1>5. UNCHANGED <<idx, next, resumed, cleared>> BY <1>1 DEF AddTo
<1>6. TaskTypes' BY <1>1, <1>4, <1>5 DEF TaskInv, TaskTypes
<1>7. Known'
  <2>1. \A a \in 1..(Made + 1) : handles'[a].version = a BY <1>4 DEF TaskInv, Known
  <2>2. \A a \in 1..Made : a \in 1..(Made + 1) BY <1>4
  <2>3. Made + 1 \in 1..(Made + 1) BY <1>4
  <2>4. ASSUME NEW e \in Deleter
        PROVE  deleter'[e] = Nobody \/ \E a \in 1..(Made + 1) : deleter'[e] = handles'[a]
    <3>1. CASE e = d BY <1>1, <2>3, <3>1 DEF TaskInv, TaskTypes
    <3>2. CASE e # d
      <4>1. deleter'[e] = deleter[e] BY <1>1, <3>2 DEF TaskInv, TaskTypes
      <4> QED BY <1>4, <2>2, <4>1 DEF TaskInv, Known
    <3> QED BY <3>1, <3>2
  <2> QED BY <1>4, <2>1, <2>4 DEF Known
<1>8. InOrder' /\ Safe' BY <1>1, <1>3, <1>4, <1>5 DEF TaskInv, InOrder, Safe
<1>9. PICK S, F :
              /\ Shape(list') /\ Keeps(list', S, F) /\ NodesOf(list', S, handles')
              /\ RoundOf(list', S, idx', next', resumed', due \ t)
              /\ TasksOf(list', S) = TasksOf(l, s) \cup {Made + 1}
  BY <1>4
<1>10. TasksOf(list', S) \subseteq alive' /\ (cleared' \/ alive' = TasksOf(list', S))
  <2>1. TasksOf(list', S) = (TasksOf(list, order) \ t) \cup {Made + 1} BY <1>3, <1>9
  <2> QED BY <1>1, <1>5, <2>1 DEF TaskInv
<1>11. RoundOf(list', S, idx', next', resumed', due') BY <1>1, <1>9
<1> QED BY <1>6, <1>7, <1>8, <1>9, <1>10, <1>11, Settled

LEMMA TaskInvInit ==
  ASSUME Tidy, TasksInit
  PROVE  TaskInv
<1>1. /\ list = NewList(Cap) /\ idx = None /\ next = None
      /\ deleter = [d \in Deleter |-> Nobody]
      /\ alive = {} /\ handles = <<>> /\ resumed = <<>> /\ due = {}
      /\ harm = "none" /\ cleared = FALSE
  BY DEF TasksInit
<1>2. /\ Shape(list) /\ list.len = 0 /\ list.freeCount = 0 /\ list.head = None
      /\ list.tail = None /\ list.version = 0 /\ list.cap = Cap
  BY <1>1, NewShape, TaskConsts
<1>3. Keeps(list, None0, None0) /\ Count(list) = 0 BY <1>2, EmptyKeeps
<1>4. order = None0 /\ Free(list) = None0 BY <1>2, <1>3, OrderIs DEF order
<1>5. 1..0 = {} /\ Len(<<>>) = 0 OBVIOUS
<1>6. NodesOf(list, order, handles) /\ TasksOf(list, order) = {}
  BY <1>1, <1>2, <1>3, <1>5 DEF NodesOf, TasksOf
<1>7. Nobody \in Handle BY TaskConsts DEF Nobody, Handle
<1>8. TaskTypes
  <2>1. handles \in Seq(Handle) /\ resumed \in Seq(Task) BY <1>1
  <2>2. Made <= MaxTask BY <1>1, <1>5, TaskConsts DEF Made
  <2>3. deleter \in [Deleter -> Handle] BY <1>1, <1>7
  <2> QED BY <1>1, <2>1, <2>2, <2>3 DEF TaskTypes
<1>9. Known BY <1>1, <1>5 DEF Known, Made
<1>10. RoundOf(list, order, idx, next, resumed, due) /\ InOrder
  BY <1>1 DEF RoundOf, InOrder
<1> QED BY <1>1, <1>2, <1>3, <1>4, <1>6, <1>8, <1>9, <1>10 DEF TaskInv, Safe

LEMMA TaskInvNext ==
  ASSUME Tidy, TaskInv, [TasksNext]_taskVars
  PROVE  TaskInv'
<1>1. CASE AddTask BY <1>1, AddTaskInv
<1>2. CASE ClearTasks BY <1>2, ClearInv
<1>3. CASE BeginRound BY <1>3, BeginRoundInv
<1>4. CASE Suspend BY <1>4, SuspendInv
<1>5. CASE Finish BY <1>5, FinishInv
<1>6. ASSUME NEW d \in Deleter, Assign(d) PROVE TaskInv' BY <1>6, AssignInv
<1>7. ASSUME NEW d \in Deleter, Drop(d) PROVE TaskInv' BY <1>7, DropInv
<1>8. ASSUME NEW n \in 1..MaxCap, Grow(n) PROVE TaskInv' BY <1>8, GrowInv
<1>9. ASSUME NEW d \in Deleter, DropGone(d) PROVE TaskInv' BY <1>9, DropGoneInv
<1>10. CASE Throw BY <1>10, ThrowInv
<1>11. CASE Misuse BY <1>11, MisuseInv
<1>12. CASE UNCHANGED taskVars
  <2>1. UNCHANGED <<list, idx, next, deleter, alive, handles, resumed, due, harm, cleared>>
    BY <1>12 DEF taskVars
  <2>2. Safe' BY <2>1 DEF TaskInv, Safe
  <2> QED BY <2>1, <2>2, ListStays
<1> QED BY <1>1, <1>2, <1>3, <1>4, <1>5, <1>6, <1>7, <1>8, <1>9, <1>10, <1>11, <1>12
        DEF TasksNext

\* TaskInv holds in every state.
LEMMA TasksInvariant == Tidy => (TasksSpec => []TaskInv)
<1> SUFFICES ASSUME Tidy PROVE TasksSpec => []TaskInv OBVIOUS
<1>1. TasksInit => TaskInv BY TaskInvInit
<1>2. TaskInv /\ [TasksNext]_taskVars => TaskInv' BY TaskInvNext
<1> QED BY <1>1, <1>2, PTL DEF TasksSpec

\* Foreach holds nodes of the list.
LEMMA IndexesOf ==
  ASSUME TaskInv
  PROVE  idx \in {None} \cup 0..(list.len - 1) /\ next \in {None} \cup 0..(list.len - 1)
<1>1. \A k \in 1..Count(list) : order[k] \in 0..(list.len - 1) BY Numbers
<1>2. CASE idx = None BY <1>2 DEF TaskInv, RoundOf
<1>3. CASE idx # None
  <2>1. PICK k : InRound(k) BY <1>3 DEF TaskInv, RoundOf, InRound
  <2>2. k \in 1..Count(list) /\ order[k] = idx BY <2>1 DEF InRound
  <2>3. CASE next = None BY <1>1, <2>2, <2>3
  <2>4. CASE next # None BY <1>1, <2>1, <2>2, <2>4, Resumes
  <2> QED BY <2>3, <2>4
<1> QED BY <1>2, <1>3

\* The nodes, the links, the handles and what Foreach holds are in their ranges.
THEOREM TasksTypes == Tidy => (TasksSpec => []TasksTypeOK)
<1> SUFFICES ASSUME Tidy PROVE TasksSpec => []TasksTypeOK OBVIOUS
<1>1. TaskInv => TasksTypeOK
  <2> SUFFICES ASSUME TaskInv PROVE TasksTypeOK OBVIOUS
  <2>1. /\ list.buf \in [0..(list.cap - 1) -> Node] /\ list.len \in 0..list.cap
        /\ list.freeCount \in 0..list.len
    BY DEF TaskInv, Shape
  <2>2. idx \in {None} \cup 0..(list.len - 1) /\ next \in {None} \cup 0..(list.len - 1)
    BY IndexesOf
  <2> QED BY <2>1, <2>2 DEF TaskInv, TaskTypes, TasksTypeOK, Node, Safe
<1> QED BY <1>1, TasksInvariant, PTL

\* A handle finds its task as long as it is in the list and nothing afterwards, though
\* its node is used again; and the list is the same read from both ends, the other nodes
\* being free (Add, Remove, Exists, Reserve and Clear of ListDoubleLink).
THEOREM HandlesAlwaysFind == Tidy => (TasksSpec => []HandlesFind)
<1> SUFFICES ASSUME Tidy PROVE TasksSpec => []HandlesFind OBVIOUS
<1>1. TaskInv => HandlesFind
  <2> SUFFICES ASSUME TaskInv PROVE HandlesFind OBVIOUS
  <2>1. Linked(list) BY LinkedIs DEF TaskInv
  <2> SUFFICES ASSUME NEW t \in 1..Made
               PROVE  IF Exists(list, handles[t]) THEN list.buf[handles[t].index].value = t
                      ELSE t \notin InList
    BY <2>1 DEF HandlesFind
  <2>2. CASE Exists(list, handles[t])
    <3>1. PICK k \in 1..Count(list) :
            order[k] = handles[t].index /\ TaskAt(list, order, k) = t
      BY <2>2, Found
    <3> QED BY <2>2, <3>1 DEF TaskAt
  <2>3. CASE ~Exists(list, handles[t])
    <3> SUFFICES ASSUME t \in InList PROVE FALSE BY <2>3
    <3>1. order \in [1..Count(list) -> 0..(list.len - 1)] BY DEF TaskInv, Keeps
    <3>2. PICK k \in 1..Count(list) : TaskAt(list, order, k) = t
      BY <3>1 DEF InList, TaskAt, order, Range
    <3>3. list.buf[order[k]].version = t /\ handles[t].index = order[k]
      BY <3>2 DEF TaskInv, NodesOf
    <3>4. handles[t].version = t BY DEF TaskInv, Known
    <3> QED BY <2>3, <3>1, <3>3, <3>4 DEF Exists
  <2> QED BY <2>2, <2>3
<1> QED BY <1>1, TasksInvariant, PTL

\* A round of operator() resumes each task at most once, in the order in which they were
\* added, and, unless one throws, every task that was in the list when it began and is still.
THEOREM RoundsResumeOnce == Tidy => (TasksSpec => []ResumedOnce)
<1> SUFFICES ASSUME Tidy PROVE TasksSpec => []ResumedOnce OBVIOUS
<1>1. TaskInv => ResumedOnce BY DEF TaskInv, ResumedOnce, RoundOf, NoRound
<1> QED BY <1>1, TasksInvariant, PTL

\* Neither the loop nor a TaskDeleter resumes or destroys a coroutine that has gone, but
\* by the calls of Misuse; and each coroutine that is left is in the list, unless Clear
\* has dropped it.
THEOREM FramesAreKept == Tidy => (TasksSpec => []FramesKept)
<1> SUFFICES ASSUME Tidy PROVE TasksSpec => []FramesKept OBVIOUS
<1>1. TaskInv => FramesKept
  <2> SUFFICES ASSUME TaskInv PROVE FramesKept OBVIOUS
  <2>1. order \in [1..Count(list) -> 0..(list.len - 1)] BY DEF TaskInv, Keeps
  <2>2. InList = TasksOf(list, order) BY <2>1 DEF InList, TasksOf, TaskAt, order, Range
  <2> QED BY <2>2 DEF TaskInv, FramesKept, Safe
<1> QED BY <1>1, TasksInvariant, PTL
=============================================================================
