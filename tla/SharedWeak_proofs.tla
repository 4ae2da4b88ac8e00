-------------------------- MODULE SharedWeak_proofs --------------------------
(* Proofs that the counts of Shared and Weak are the numbers of handles,    *)
(* that nothing freed is used, and that an object that is gone stays gone,  *)
(* for any number of objects and handles and any depth of destructors and   *)
(* constructors, as long as callers do none of the things that harm names.  *)
EXTENDS SharedWeak, FiniteSetTheorems, SequenceTheorems, TLAPS

After == {"assign", "swap", "emplace"}   \* what follows a Reset
Making == {"construct", "unwind"}
Of == {"destroy", "construct", "unwind"} \* what ends or makes an object
Pointed(o) == {w \in WHandle : wptr[w] = o}

\* The counts, and what they say of the blocks.
CountAt(o) ==
  /\ strong[o] = Cardinality(Pointing(o)) + Cardinality(Temporaries(o)) + Unheld(o)
  /\ weak[o] = Cardinality(Pointed(o))
  /\ block[o] = "free" => strong[o] = 0 /\ weak[o] = 0
  /\ block[o] \in {"live", "dying"} => strong[o] > 0
  /\ block[o] \in {"making", "lost"} => strong[o] = 1 /\ weak[o] = 0
  /\ block[o] = "dead" => strong[o] = 0 /\ weak[o] > 0
Counts == \A o \in Obj : CountAt(o)

\* A call points where it says, the Reset in front of the rest of a call is done, and the
\* Shared that waits for its new object points nowhere.
HeldAt(i) ==
  LET f == stack[i] IN
    /\ f.op = "reset" => i = Len(stack)
    /\ f.op \in {"reset", "destroy"} /\ f.h # Temp => ptr[f.h] = f.o
    /\ f.op = "destroy" => f.o # Null /\ block[f.o] = "dying"
    /\ f.op \in Making => /\ f.o # Null /\ block[f.o] = "making"
                          /\ f.h # Temp /\ ptr[f.h] = Null
    /\ f.op \in After => /\ f.h # Temp /\ f.o = Null
                         /\ i = Len(stack) => ptr[f.h] = Null
                         /\ i # Len(stack) => /\ stack[i + 1].op \in {"reset", "destroy"}
                                              /\ stack[i + 1].h = f.h
Held == \A i \in DOMAIN stack : HeldAt(i)

\* Each object in its destructor has a call that destroys it, and no object has two calls
\* that end or make it.
Dying ==
  /\ \A o \in Obj : block[o] = "dying" =>
       \E i \in DOMAIN stack : stack[i].op = "destroy" /\ stack[i].o = o
  /\ \A i, j \in DOMAIN stack :
       stack[i].op \in Of /\ stack[j].op \in Of /\ stack[i].o = stack[j].o => i = j

\* No Shared is in two calls.
OneCall ==
  \A i, j \in DOMAIN stack :
    i < j /\ stack[i].h = stack[j].h => stack[i].h = Temp \/ (j = i + 1 /\ stack[i].op \in After)

\* The member that a call needs is there: its object is live, or a call further out ends
\* or makes it.
Needs(j, x) == stack[j].h = x \/ stack[j].from = x
Kept(j, x) == \/ block[x] = "live"
              \/ \E i \in 1..(j - 1) : stack[i].op \in Of /\ stack[i].o = x
Members == \A j \in DOMAIN stack, x \in Obj : Needs(j, x) => Kept(j, x)

\* What s is assigned from is another Shared, and what it is swapped with belongs to no
\* call further out.
Sources ==
  \A j \in DOMAIN stack : LET t == stack[j].from IN
    stack[j].op \in {"assign", "swap"} =>
      /\ t # Temp /\ t # stack[j].h
      /\ stack[j].op = "swap" => \A i \in 1..(j - 1) : stack[i].h # t

IInv == TypeOK /\ sound /\ Counts /\ Held /\ Dying /\ OneCall /\ Members /\ Sources

LEMMA Consts ==
  /\ SRoot \cap Obj = {} /\ WRoot \cap Obj = {} /\ Null \notin Obj /\ Temp \notin SHandle
  /\ IsFiniteSet(SHandle) /\ IsFiniteSet(WHandle) /\ Obj \subseteq SHandle /\ Obj \subseteq WHandle
<1>1. SHandle \subseteq Obj \cup SRoot \cup WRoot /\ WHandle \subseteq Obj \cup SRoot \cup WRoot
  BY DEF SHandle, WHandle
<1>2. IsFiniteSet(SHandle) /\ IsFiniteSet(WHandle)
  BY <1>1, FS_Subset, HandlesAssumption DEF HandlesAssumption
<1> QED BY <1>2, HandlesAssumption DEF HandlesAssumption, SHandle, WHandle

-----------------------------------------------------------------------------
(* Counting handles. *)

\* One more, or one less.
LEMMA OneMore ==
  ASSUME NEW S, IsFiniteSet(S), NEW x, x \notin S
  PROVE  IsFiniteSet(S \cup {x}) /\ Cardinality(S) \in Nat /\ Cardinality(S \cup {x}) = Cardinality(S) + 1
  BY FS_AddElement, FS_CardinalityType

LEMMA OneLess ==
  ASSUME NEW S, IsFiniteSet(S), NEW x \in S
  PROVE  IsFiniteSet(S \ {x}) /\ Cardinality(S \ {x}) = Cardinality(S) - 1
         /\ Cardinality(S) \in Nat /\ Cardinality(S) > 0
<1>1. x \notin S \ {x} /\ (S \ {x}) \cup {x} = S OBVIOUS
<1>2. IsFiniteSet(S \ {x}) BY FS_RemoveElement
<1>3. Cardinality(S \ {x}) \in Nat /\ Cardinality(S) = Cardinality(S \ {x}) + 1
  BY <1>1, <1>2, OneMore
<1> QED BY <1>2, <1>3

LEMMA Two ==
  ASSUME NEW S, IsFiniteSet(S), NEW x \in S, NEW y \in S, x # y
  PROVE  Cardinality(S) \in Nat /\ Cardinality(S) > 1
<1>1. IsFiniteSet(S \ {x}) /\ Cardinality(S \ {x}) = Cardinality(S) - 1 /\ Cardinality(S) \in Nat
  BY OneLess
<1>2. y \in S \ {x} OBVIOUS
<1>3. Cardinality(S \ {x}) > 0 BY <1>1, <1>2, OneLess
<1> QED BY <1>1, <1>3

\* One may be added or removed.
LEMMA Changed ==
  ASSUME NEW A, NEW B, NEW h, IsFiniteSet(A), \A k : k # h => (k \in B <=> k \in A)
  PROVE  /\ Cardinality(A) \in Nat /\ Cardinality(B) \in Nat
         /\ h \in A /\ h \notin B => Cardinality(B) = Cardinality(A) - 1
         /\ h \notin A /\ h \in B => Cardinality(B) = Cardinality(A) + 1
         /\ (h \in A <=> h \in B) => Cardinality(B) = Cardinality(A)
<1>1. CASE h \in A /\ h \notin B
  <2>1. B = A \ {h} BY <1>1
  <2> QED BY <1>1, <2>1, OneLess, FS_CardinalityType
<1>2. CASE h \notin A /\ h \in B
  <2>1. B = A \cup {h} BY <1>2
  <2> QED BY <1>2, <2>1, OneMore, FS_CardinalityType
<1>3. CASE h \in A <=> h \in B
  <2>1. B = A BY <1>3
  <2> QED BY <1>3, <2>1, FS_CardinalityType
<1> QED BY <1>1, <1>2, <1>3

\* Two may be exchanged.
LEMMA Exchanged ==
  ASSUME NEW A, NEW B, NEW s, NEW t, IsFiniteSet(A), s # t,
         \A k : k # s /\ k # t => (k \in B <=> k \in A), s \in B <=> t \in A, t \in B <=> s \in A
  PROVE  Cardinality(B) = Cardinality(A)
<1>1. CASE s \in A <=> t \in A
  <2>1. B = A BY <1>1
  <2> QED BY <2>1
<1>2. CASE s \in A /\ t \notin A
  <2>1. B = (A \ {s}) \cup {t} /\ t \notin A \ {s} BY <1>2
  <2>2. IsFiniteSet(A \ {s}) /\ Cardinality(A \ {s}) = Cardinality(A) - 1 /\ Cardinality(A) \in Nat
    BY <1>2, OneLess
  <2>3. Cardinality(B) = Cardinality(A \ {s}) + 1 BY <2>1, <2>2, OneMore
  <2> QED BY <2>2, <2>3
<1>3. CASE t \in A /\ s \notin A
  <2>1. B = (A \ {t}) \cup {s} /\ s \notin A \ {t} BY <1>3
  <2>2. IsFiniteSet(A \ {t}) /\ Cardinality(A \ {t}) = Cardinality(A) - 1 /\ Cardinality(A) \in Nat
    BY <1>3, OneLess
  <2>3. Cardinality(B) = Cardinality(A \ {t}) + 1 BY <2>1, <2>2, OneMore
  <2> QED BY <2>2, <2>3
<1> QED BY <1>1, <1>2, <1>3

LEMMA Cards ==
  ASSUME NEW o
  PROVE  /\ IsFiniteSet(Pointing(o)) /\ Cardinality(Pointing(o)) \in Nat
         /\ IsFiniteSet(Pointed(o)) /\ Cardinality(Pointed(o)) \in Nat
         /\ TypeOK => IsFiniteSet(Temporaries(o)) /\ Cardinality(Temporaries(o)) \in Nat
<1>1. IsFiniteSet(Pointing(o)) BY Consts, FS_Subset DEF Pointing
<1>2. IsFiniteSet(Pointed(o)) BY Consts, FS_Subset DEF Pointed
<1>3. ASSUME TypeOK PROVE IsFiniteSet(Temporaries(o))
  <2>1. DOMAIN stack = 1..Len(stack) /\ Len(stack) \in Nat BY <1>3, LenProperties DEF TypeOK
  <2>2. IsFiniteSet(1..Len(stack)) BY <2>1, FS_Interval
  <2> QED BY <2>1, <2>2, FS_Subset DEF Temporaries
<1> QED BY <1>1, <1>2, <1>3, FS_CardinalityType

LEMMA SharedMoved ==
  ASSUME NEW h \in SHandle, NEW o, \A k \in SHandle : k # h => ptr'[k] = ptr[k]
  PROVE  /\ Cardinality(Pointing(o)) \in Nat /\ Cardinality(Pointing(o)') \in Nat
         /\ ptr[h] = o /\ ptr'[h] # o => Cardinality(Pointing(o)') = Cardinality(Pointing(o)) - 1
         /\ ptr[h] # o /\ ptr'[h] = o => Cardinality(Pointing(o)') = Cardinality(Pointing(o)) + 1
         /\ (ptr[h] = o <=> ptr'[h] = o) => Cardinality(Pointing(o)') = Cardinality(Pointing(o))
<1>1. \A k : k # h => (k \in Pointing(o)' <=> k \in Pointing(o)) BY DEF Pointing
<1>2. (h \in Pointing(o) <=> ptr[h] = o) /\ (h \in Pointing(o)' <=> ptr'[h] = o) BY DEF Pointing
<1>3. IsFiniteSet(Pointing(o)) BY Cards
<1> QED BY <1>1, <1>2, <1>3, Changed

LEMMA SharedSwapped ==
  ASSUME NEW s \in SHandle, NEW t \in SHandle, NEW o, ptr'[s] = ptr[t], ptr'[t] = ptr[s],
         \A k \in SHandle : k # s /\ k # t => ptr'[k] = ptr[k], s # t
  PROVE  Cardinality(Pointing(o)') = Cardinality(Pointing(o))
<1>1. \A k : k # s /\ k # t => (k \in Pointing(o)' <=> k \in Pointing(o)) BY DEF Pointing
<1>2. (s \in Pointing(o)' <=> t \in Pointing(o)) /\ (t \in Pointing(o)' <=> s \in Pointing(o))
  BY DEF Pointing
<1>3. IsFiniteSet(Pointing(o)) BY Cards
<1> QED BY <1>1, <1>2, <1>3, Exchanged

LEMMA WeakMoved ==
  ASSUME NEW h \in WHandle, NEW o, \A k \in WHandle : k # h => wptr'[k] = wptr[k]
  PROVE  /\ Cardinality(Pointed(o)) \in Nat /\ Cardinality(Pointed(o)') \in Nat
         /\ wptr[h] = o /\ wptr'[h] # o => Cardinality(Pointed(o)') = Cardinality(Pointed(o)) - 1
         /\ wptr[h] # o /\ wptr'[h] = o => Cardinality(Pointed(o)') = Cardinality(Pointed(o)) + 1
         /\ (wptr[h] = o <=> wptr'[h] = o) => Cardinality(Pointed(o)') = Cardinality(Pointed(o))
<1>1. \A k : k # h => (k \in Pointed(o)' <=> k \in Pointed(o)) BY DEF Pointed
<1>2. (h \in Pointed(o) <=> wptr[h] = o) /\ (h \in Pointed(o)' <=> wptr'[h] = o) BY DEF Pointed
<1>3. IsFiniteSet(Pointed(o)) BY Cards
<1> QED BY <1>1, <1>2, <1>3, Changed

LEMMA WeakSwapped ==
  ASSUME NEW s \in WHandle, NEW t \in WHandle, NEW o, wptr'[s] = wptr[t], wptr'[t] = wptr[s],
         \A k \in WHandle : k # s /\ k # t => wptr'[k] = wptr[k], s # t
  PROVE  Cardinality(Pointed(o)') = Cardinality(Pointed(o))
<1>1. \A k : k # s /\ k # t => (k \in Pointed(o)' <=> k \in Pointed(o)) BY DEF Pointed
<1>2. (s \in Pointed(o)' <=> t \in Pointed(o)) /\ (t \in Pointed(o)' <=> s \in Pointed(o))
  BY DEF Pointed
<1>3. IsFiniteSet(Pointed(o)) BY Cards
<1> QED BY <1>1, <1>2, <1>3, Exchanged

-----------------------------------------------------------------------------
(* The stack. *)

LEMMA CallFields ==
  ASSUME NEW op, NEW h, NEW o, NEW from
  PROVE  LET c == Call(op, h, o, from)   d == Destroying(h, o)   e == Constructing(h, o) IN
         /\ c.op = op /\ c.h = h /\ c.o = o /\ c.from = from /\ c.todo = {}
         /\ d.op = "destroy" /\ d.h = h /\ d.o = o /\ d.from = Temp /\ d.todo = Part
         /\ e.op = "construct" /\ e.h = h /\ e.o = o /\ e.from = Temp /\ e.todo = {"body"}
  BY DEF Call, Destroying, Constructing

LEMMA CallTypes ==
  ASSUME NEW op \in {"reset", "destroy", "assign", "swap", "emplace", "construct", "unwind"},
         NEW h \in SHandle \cup {Temp},
         NEW o \in Obj \cup {Null}, NEW from \in SHandle \cup {Temp}
  PROVE  Call(op, h, o, from) \in Frame /\ Destroying(h, o) \in Frame /\ Constructing(h, o) \in Frame
  BY DEF Call, Destroying, Constructing, Frame, Part

LEMMA Stacks ==
  ASSUME TypeOK
  PROVE  /\ Len(stack) \in Nat /\ DOMAIN stack = 1..Len(stack)
         /\ \A i \in DOMAIN stack : stack[i] \in Frame
         /\ stack = <<>> <=> Len(stack) = 0
<1>1. stack \in Seq(Frame) BY DEF TypeOK
<1>2. Len(stack) \in Nat /\ DOMAIN stack = 1..Len(stack) BY <1>1, LenProperties
<1>3. \A i \in DOMAIN stack : stack[i] \in Frame BY <1>1, <1>2, ElementOfSeq
<1> QED BY <1>1, <1>2, <1>3, EmptySeq

LEMMA FrameTypes ==
  ASSUME NEW f \in Frame
  PROVE  /\ f.op \in {"reset", "destroy", "assign", "swap", "emplace", "construct", "unwind"}
         /\ f.h \in SHandle \cup {Temp} /\ f.o \in Obj \cup {Null} /\ f.from \in SHandle \cup {Temp}
         /\ f.todo \subseteq Part
  BY DEF Frame

LEMMA Pushing ==
  ASSUME TypeOK, NEW f \in Frame, stack' = Append(stack, f)
  PROVE  /\ stack' \in Seq(Frame) /\ Len(stack') = Len(stack) + 1 /\ DOMAIN stack' = 1..(Len(stack) + 1)
         /\ \A i \in DOMAIN stack : stack'[i] = stack[i]
         /\ stack'[Len(stack) + 1] = f
<1>1. stack \in Seq(Frame) BY DEF TypeOK
<1> QED BY <1>1, AppendProperties, Stacks

LEMMA PushingTwo ==
  ASSUME TypeOK, NEW f \in Frame, NEW g \in Frame, stack' = stack \o <<f, g>>
  PROVE  /\ stack' \in Seq(Frame) /\ Len(stack') = Len(stack) + 2 /\ DOMAIN stack' = 1..(Len(stack) + 2)
         /\ \A i \in DOMAIN stack : stack'[i] = stack[i]
         /\ stack'[Len(stack) + 1] = f /\ stack'[Len(stack) + 2] = g
<1>1. stack \in Seq(Frame) /\ <<f, g>> \in Seq(Frame) BY DEF TypeOK
<1>2. Len(<<f, g>>) = 2 /\ <<f, g>>[1] = f /\ <<f, g>>[2] = g OBVIOUS
<1>3. /\ stack' \in Seq(Frame) /\ Len(stack') = Len(stack) + 2
      /\ \A i \in 1..Len(stack') : stack'[i] = IF i <= Len(stack) THEN stack[i] ELSE <<f, g>>[i - Len(stack)]
  BY <1>1, <1>2, ConcatProperties
<1>4. DOMAIN stack' = 1..Len(stack') BY <1>3, LenProperties
<1>5. Len(stack) + 1 \in 1..Len(stack') /\ Len(stack) + 2 \in 1..Len(stack')
      /\ ~(Len(stack) + 1 <= Len(stack)) /\ ~(Len(stack) + 2 <= Len(stack))
      /\ Len(stack) + 1 - Len(stack) = 1 /\ Len(stack) + 2 - Len(stack) = 2
  BY <1>3, Stacks
<1>6. stack'[Len(stack) + 1] = f /\ stack'[Len(stack) + 2] = g BY <1>2, <1>3, <1>5
<1>7. \A i \in DOMAIN stack : stack'[i] = stack[i] BY <1>3, Stacks
<1> QED BY <1>3, <1>4, <1>6, <1>7

LEMMA Beginning ==
  ASSUME NEW T, NEW s \in Seq(T), NEW n \in Nat, n <= Len(s)
  PROVE  /\ SubSeq(s, 1, n) \in Seq(T) /\ Len(SubSeq(s, 1, n)) = n
         /\ \A i \in 1..n : SubSeq(s, 1, n)[i] = s[i]
<1>1. \A i \in 1..n : s[i] \in T BY LenProperties, ElementOfSeq
<1>2. n - 1 + 1 = n OBVIOUS
<1>3. /\ SubSeq(s, 1, n) \in Seq(T) /\ Len(SubSeq(s, 1, n)) = IF 1 <= n THEN n - 1 + 1 ELSE 0
      /\ \A i \in 1..(n - 1 + 1) : SubSeq(s, 1, n)[i] = s[1 + i - 1]
  BY <1>1, SubSeqProperties
<1>4. \A i \in 1..n : 1 + i - 1 = i OBVIOUS
<1> QED BY <1>2, <1>3, <1>4

LEMMA Popping ==
  ASSUME TypeOK, stack # <<>>
  PROVE  /\ Len(stack) > 0 /\ Len(stack) \in DOMAIN stack
         /\ Below \in Seq(Frame) /\ Len(Below) = Len(stack) - 1 /\ DOMAIN Below = 1..(Len(stack) - 1)
         /\ \A i \in 1..(Len(stack) - 1) : Below[i] = stack[i]
<1>1. stack \in Seq(Frame) /\ Len(stack) \in Nat /\ Len(stack) > 0 BY Stacks DEF TypeOK
<1>2. /\ Below = SubSeq(stack, 1, Len(stack) - 1) /\ Len(stack) - 1 \in Nat /\ Len(stack) - 1 <= Len(stack)
      /\ Len(stack) \in DOMAIN stack /\ 1..(Len(stack) - 1) \subseteq 1..Len(stack)
  BY <1>1, Stacks DEF Below
<1>3. /\ Below \in Seq(Frame) /\ Len(Below) = Len(stack) - 1
      /\ \A i \in 1..(Len(stack) - 1) : Below[i] = stack[i]
  BY <1>1, <1>2, Beginning
<1> QED BY <1>1, <1>2, <1>3, LenProperties

LEMMA Replacing ==
  ASSUME TypeOK, stack # <<>>, NEW f \in Frame, stack' = Append(Below, f)
  PROVE  /\ stack' \in Seq(Frame) /\ Len(stack') = Len(stack) /\ DOMAIN stack' = 1..Len(stack)
         /\ \A i \in 1..(Len(stack) - 1) : stack'[i] = stack[i]
         /\ stack'[Len(stack)] = f
<1>1. /\ Len(stack) \in Nat /\ Len(stack) > 0 /\ Below \in Seq(Frame) /\ Len(Below) = Len(stack) - 1
      /\ \A i \in 1..(Len(stack) - 1) : Below[i] = stack[i]
  BY Popping, Stacks
<1>2. /\ stack' \in Seq(Frame) /\ Len(stack') = Len(Below) + 1
      /\ \A i \in 1..Len(Below) : stack'[i] = Below[i]
      /\ stack'[Len(Below) + 1] = f
  BY <1>1, AppendProperties
<1>3. Len(Below) + 1 = Len(stack) BY <1>1
<1>4. DOMAIN stack' = 1..Len(stack) BY <1>2, <1>3, LenProperties
<1> QED BY <1>1, <1>2, <1>3, <1>4


-----------------------------------------------------------------------------
(* What the invariant says of handles and calls. *)

\* What a Shared points to is there, as is what a Weak has.
LEMMA Alive ==
  ASSUME IInv
  PROVE  /\ \A h \in SHandle : ptr[h] \in Obj => strong[ptr[h]] > 0 /\ block[ptr[h]] \in {"live", "dying"}
         /\ \A i \in DOMAIN stack : stack[i].h = Temp /\ stack[i].o \in Obj =>
              strong[stack[i].o] > 0 /\ block[stack[i].o] \in {"live", "dying"}
         /\ \A w \in WHandle : wptr[w] \in Obj =>
              weak[wptr[w]] > 0 /\ block[wptr[w]] \in {"live", "dying", "dead"}
<1>1. \A o \in Obj : block[o] \in {"free", "making", "live", "dying", "dead", "lost"}
  BY DEF IInv, TypeOK
<1>2. ASSUME NEW o \in Obj, Cardinality(Pointing(o)) > 0 \/ Cardinality(Temporaries(o)) > 0
      PROVE  strong[o] > 0 /\ block[o] \in {"live", "dying"}
  <2>1. CountAt(o) BY DEF IInv, Counts
  <2>2. /\ Cardinality(Pointing(o)) \in Nat /\ Cardinality(Temporaries(o)) \in Nat BY Cards DEF IInv
  <2>3. block[o] \in {"making", "lost"} => FALSE BY <1>2, <2>1, <2>2 DEF CountAt, Unheld
  <2>4. strong[o] > 0 BY <1>1, <1>2, <2>1, <2>2, <2>3 DEF CountAt, Unheld
  <2> QED BY <1>1, <2>1, <2>3, <2>4 DEF CountAt
<1>3. ASSUME NEW h \in SHandle, ptr[h] \in Obj
      PROVE  strong[ptr[h]] > 0 /\ block[ptr[h]] \in {"live", "dying"}
  <2>1. h \in Pointing(ptr[h]) BY DEF Pointing
  <2>2. Cardinality(Pointing(ptr[h])) > 0 BY <2>1, Cards, OneLess
  <2> QED BY <1>2, <1>3, <2>2
<1>4. ASSUME NEW i \in DOMAIN stack, stack[i].h = Temp, stack[i].o \in Obj
      PROVE  strong[stack[i].o] > 0 /\ block[stack[i].o] \in {"live", "dying"}
  <2>1. i \in Temporaries(stack[i].o) BY <1>4 DEF Temporaries
  <2>2. Cardinality(Temporaries(stack[i].o)) > 0 BY <2>1, Cards, OneLess DEF IInv
  <2> QED BY <1>2, <1>4, <2>2
<1>5. ASSUME NEW w \in WHandle, wptr[w] \in Obj
      PROVE  weak[wptr[w]] > 0 /\ block[wptr[w]] \in {"live", "dying", "dead"}
  <2> DEFINE o == wptr[w]
  <2>1. w \in Pointed(o) BY DEF Pointed
  <2>2. Cardinality(Pointed(o)) > 0 BY <2>1, Cards, OneLess
  <2>3. CountAt(o) BY <1>5 DEF IInv, Counts
  <2>4. weak[o] > 0 BY <2>2, <2>3 DEF CountAt
  <2> QED BY <1>1, <1>5, <2>3, <2>4 DEF CountAt
<1> QED BY <1>3, <1>4, <1>5

\* Two holders make a count of more than one.
LEMMA TwoHolders ==
  ASSUME IInv, NEW o \in Obj
  PROVE  /\ \A h, k \in SHandle : h # k /\ ptr[h] = o /\ ptr[k] = o => strong[o] > 1
         /\ \A h \in SHandle, i \in DOMAIN stack :
              ptr[h] = o /\ stack[i].h = Temp /\ stack[i].o = o => strong[o] > 1
         /\ \A i, j \in DOMAIN stack :
              i # j /\ stack[i].h = Temp /\ stack[i].o = o /\ stack[j].h = Temp /\ stack[j].o = o
                => strong[o] > 1
<1>1. /\ Cardinality(Pointing(o)) \in Nat /\ Cardinality(Temporaries(o)) \in Nat
      /\ IsFiniteSet(Pointing(o)) /\ IsFiniteSet(Temporaries(o))
      /\ strong[o] >= Cardinality(Pointing(o)) + Cardinality(Temporaries(o))
  <2>1. CountAt(o) BY DEF IInv, Counts
  <2> QED BY <2>1, Cards DEF IInv, CountAt, Unheld
<1>2. ASSUME NEW h \in SHandle, NEW k \in SHandle, h # k, ptr[h] = o, ptr[k] = o PROVE strong[o] > 1
  <2>1. h \in Pointing(o) /\ k \in Pointing(o) BY <1>2 DEF Pointing
  <2>2. Cardinality(Pointing(o)) > 1 BY <1>1, <1>2, <2>1, Two
  <2>3. strong[o] \in Nat BY DEF IInv, TypeOK
  <2> QED BY <1>1, <2>2, <2>3
<1>3. ASSUME NEW h \in SHandle, NEW i \in DOMAIN stack, ptr[h] = o, stack[i].h = Temp, stack[i].o = o
      PROVE  strong[o] > 1
  <2>1. h \in Pointing(o) /\ i \in Temporaries(o) BY <1>3 DEF Pointing, Temporaries
  <2>2. Cardinality(Pointing(o)) > 0 /\ Cardinality(Temporaries(o)) > 0 BY <1>1, <2>1, OneLess
  <2>3. strong[o] \in Nat BY DEF IInv, TypeOK
  <2> QED BY <1>1, <2>2, <2>3
<1>4. ASSUME NEW i \in DOMAIN stack, NEW j \in DOMAIN stack, i # j, stack[i].h = Temp, stack[i].o = o,
             stack[j].h = Temp, stack[j].o = o
      PROVE  strong[o] > 1
  <2>1. i \in Temporaries(o) /\ j \in Temporaries(o) BY <1>4 DEF Temporaries
  <2>2. Cardinality(Temporaries(o)) > 1 BY <1>1, <1>4, <2>1, Two
  <2>3. strong[o] \in Nat BY DEF IInv, TypeOK
  <2> QED BY <1>1, <2>2, <2>3
<1> QED BY <1>2, <1>3, <1>4

\* A call that ends or makes an object.
LEMMA Owner ==
  ASSUME IInv, NEW i \in DOMAIN stack, stack[i].op \in Of
  PROVE  LET o == stack[i].o   h == stack[i].h IN
         /\ o \in Obj /\ block[o] \in {"dying", "making"}
         /\ stack[i].op = "destroy" => block[o] = "dying" /\ (h # Temp => h \in SHandle /\ ptr[h] = o)
         /\ stack[i].op \in Making => block[o] = "making" /\ h # Temp /\ h \in SHandle /\ ptr[h] = Null
<1> DEFINE o == stack[i].o
           h == stack[i].h
<1>1. stack[i] \in Frame BY Stacks DEF IInv
<1>2. o \in Obj \cup {Null} /\ h \in SHandle \cup {Temp} BY <1>1, FrameTypes
<1>3. HeldAt(i) BY DEF IInv, Held
<1>4. stack[i].op = "destroy" \/ stack[i].op \in Making BY DEF Of, Making
<1> QED BY <1>2, <1>3, <1>4 DEF HeldAt

LEMMA BusyIs ==
  ASSUME NEW h
  PROVE  h \in Busy <=> \E i \in DOMAIN stack : stack[i].h = h
  BY DEF Busy

\* What is under way when a call may be made: nothing that is about to end.
LEMMA Calling ==
  ASSUME IInv, Ready
  PROVE  /\ \A i \in DOMAIN stack : stack[i].op # "reset"
         /\ \A i \in DOMAIN stack : stack[i].op \in After => i # Len(stack)
<1>1. \A i \in DOMAIN stack : stack # <<>> /\ stack[Len(stack)].op \in {"destroy", "construct"}
  BY Stacks DEF IInv, Ready, InBody, Running, Top
<1>2. \A i \in DOMAIN stack : stack[i].op # "reset" BY <1>1 DEF IInv, Held, HeldAt
<1>3. \A i \in DOMAIN stack : stack[i].op \in After => i # Len(stack) BY <1>1 DEF After
<1> QED BY <1>2, <1>3

\* A member that can be used is there for the call.
LEMMA Using ==
  ASSUME IInv, Ready, NEW h \in Obj, Usable(h)
  PROVE  block[h] = "live" \/ \E i \in DOMAIN stack : stack[i].op \in Of /\ stack[i].o = h
<1>1. CASE InBody /\ h = Top.o
  <2>1. /\ Len(stack) \in DOMAIN stack /\ stack[Len(stack)].op \in Of /\ stack[Len(stack)].o = h
    BY <1>1, Popping DEF InBody, Running, Top, IInv, Of
  <2> QED BY <2>1
<1>2. CASE block[h] = "live" BY <1>2
<1> QED BY <1>1, <1>2 DEF Usable

\* The object of a call on top that ends or makes it has no member that a call needs.
LEMMA NotNeeded ==
  ASSUME IInv, NEW j \in DOMAIN stack, stack[Len(stack)].op \in Of, stack # <<>>
  PROVE  stack[j].h # stack[Len(stack)].o /\ stack[j].from # stack[Len(stack)].o
<1> DEFINE n == Len(stack)
           x == stack[n].o
<1>1. n \in Nat /\ n \in DOMAIN stack /\ DOMAIN stack = 1..n BY Popping, Stacks DEF IInv
<1>2. x \in Obj /\ block[x] # "live" BY <1>1, Owner
<1>3. ASSUME Needs(j, x) PROVE FALSE
  <2>1. Kept(j, x) BY <1>2, <1>3 DEF IInv, Members
  <2>2. PICK i \in 1..(j - 1) : stack[i].op \in Of /\ stack[i].o = x BY <1>2, <2>1 DEF Kept
  <2> HIDE DEF n, x
  <2>3. i \in DOMAIN stack /\ i # n BY <1>1, <2>2
  <2> QED BY <1>1, <2>2, <2>3 DEF IInv, Dying, x, n
<1> QED BY <1>3 DEF Needs

\* The member that a call needs is in an object that is live, dying or being made.
LEMMA Standing ==
  ASSUME IInv, NEW j \in DOMAIN stack, NEW x \in Obj, Needs(j, x)
  PROVE  block[x] \in {"live", "dying", "making"}
<1>1. Kept(j, x) BY DEF IInv, Members
<1>2. ASSUME NEW i \in 1..(j - 1), stack[i].op \in Of, stack[i].o = x PROVE block[x] \in {"dying", "making"}
  <2>1. i \in DOMAIN stack BY Stacks DEF IInv
  <2> QED BY <1>2, <2>1, Owner
<1> QED BY <1>1, <1>2 DEF Kept

-----------------------------------------------------------------------------
(* Steps that leave every Shared and every call as it is. *)

StackInv == Held /\ Dying /\ OneCall /\ Members /\ Sources

LEMMA SharedKept ==
  ASSUME IInv, UNCHANGED <<strong, ptr>>, DOMAIN stack' = DOMAIN stack, Len(stack') = Len(stack),
         \A i \in DOMAIN stack : /\ stack'[i].op = stack[i].op /\ stack'[i].h = stack[i].h
                                 /\ stack'[i].o = stack[i].o /\ stack'[i].from = stack[i].from,
         \A o \in Obj : block[o] \in {"live", "dying", "making"} \/ block'[o] \in {"live", "dying", "making"}
                          => block'[o] = block[o]
  PROVE  StackInv' /\ \A o : Pointing(o)' = Pointing(o) /\ Temporaries(o)' = Temporaries(o)
<1>1. /\ Len(stack) \in Nat /\ DOMAIN stack = 1..Len(stack)
      /\ \A i \in DOMAIN stack : stack[i].o \in Obj \cup {Null}
  BY Stacks, FrameTypes DEF IInv
<1>2. Held'
  <2> SUFFICES ASSUME NEW i \in DOMAIN stack PROVE HeldAt(i)' BY DEF Held
  <2>1. i # Len(stack) => i + 1 \in DOMAIN stack BY <1>1
  <2>2. stack[i].op \in Of => block'[stack[i].o] = block[stack[i].o]
    <3>1. stack[i].op \in Of => stack[i].o \in Obj /\ block[stack[i].o] \in {"dying", "making"}
      BY Owner
    <3> QED BY <3>1
  <2>3. HeldAt(i) BY DEF IInv, Held
  <2> QED BY <2>1, <2>2, <2>3 DEF HeldAt, Of, Making
<1>3. Dying' BY DEF IInv, Dying
<1>4. OneCall' BY DEF IInv, OneCall
<1>5. Members'
  <2> SUFFICES ASSUME NEW j \in DOMAIN stack, NEW x \in Obj, Needs(j, x)' PROVE Kept(j, x)'
    BY DEF Members
  <2>1. 1..(j - 1) \subseteq DOMAIN stack BY <1>1
  <2>2. Kept(j, x) BY DEF IInv, Members, Needs
  <2> QED BY <2>1, <2>2 DEF Kept
<1>6. Sources'
  <2>1. \A j \in DOMAIN stack : 1..(j - 1) \subseteq DOMAIN stack BY <1>1
  <2> QED BY <2>1 DEF IInv, Sources
<1>7. \A o : Pointing(o)' = Pointing(o) /\ Temporaries(o)' = Temporaries(o)
  BY DEF Pointing, Temporaries
<1> QED BY <1>2, <1>3, <1>4, <1>5, <1>6, <1>7 DEF StackInv

\* What was done that the code does not look after is the last step.
LEMMA HarmInv ==
  ASSUME IInv, UNCHANGED <<block, strong, weak, ptr, wptr, stack, sound>>,
         harm' \in {"none", "again", "holder", "revived"}
  PROVE  IInv'
<1>1. StackInv' /\ \A o : Pointing(o)' = Pointing(o) /\ Temporaries(o)' = Temporaries(o)
  BY SharedKept
<1>2. \A o : Pointed(o)' = Pointed(o) BY DEF Pointed
<1>3. Counts' BY <1>1, <1>2 DEF IInv, Counts, CountAt, Unheld
<1>4. TypeOK' BY DEF IInv, TypeOK
<1> QED BY <1>1, <1>3, <1>4 DEF IInv, StackInv

\* The call on top goes on.
LEMMA GoesOn ==
  ASSUME IInv, stack # <<>>, NEW p, stack' = Done(p)
  PROVE  /\ stack' \in Seq(Frame) /\ DOMAIN stack' = DOMAIN stack /\ Len(stack') = Len(stack)
         /\ \A i \in DOMAIN stack : /\ stack'[i].op = stack[i].op /\ stack'[i].h = stack[i].h
                                    /\ stack'[i].o = stack[i].o /\ stack'[i].from = stack[i].from
<1> DEFINE f == [Top EXCEPT !.todo = @ \ {p}]
<1>1. Len(stack) \in DOMAIN stack /\ Top = stack[Len(stack)] /\ Top \in Frame
  BY Popping, Stacks DEF IInv, Top
<1>2. f \in Frame /\ f.op = Top.op /\ f.h = Top.h /\ f.o = Top.o /\ f.from = Top.from
  BY <1>1 DEF Frame
<1>3. stack' = Append(Below, f) BY DEF Done
<1>4. /\ stack' \in Seq(Frame) /\ Len(stack') = Len(stack) /\ DOMAIN stack' = 1..Len(stack)
      /\ \A i \in 1..(Len(stack) - 1) : stack'[i] = stack[i]
      /\ stack'[Len(stack)] = f
  BY <1>2, <1>3, Replacing DEF IInv
<1> HIDE DEF f
<1>5. \A i \in DOMAIN stack : i = Len(stack) \/ i \in 1..(Len(stack) - 1) BY Stacks DEF IInv
<1>6. \A i \in DOMAIN stack : /\ stack'[i].op = stack[i].op /\ stack'[i].h = stack[i].h
                              /\ stack'[i].o = stack[i].o /\ stack'[i].from = stack[i].from
  BY <1>1, <1>2, <1>4, <1>5
<1> QED BY <1>4, <1>6, Stacks DEF IInv

LEMMA BodyEndsInv == ASSUME IInv, BodyEnds PROVE IInv'
<1>1. stack # <<>> /\ stack' = Done("body") /\ UNCHANGED <<block, strong, weak, ptr, wptr, sound, harm>>
  BY DEF BodyEnds, Running
<1>2. /\ stack' \in Seq(Frame) /\ DOMAIN stack' = DOMAIN stack /\ Len(stack') = Len(stack)
      /\ \A i \in DOMAIN stack : /\ stack'[i].op = stack[i].op /\ stack'[i].h = stack[i].h
                                 /\ stack'[i].o = stack[i].o /\ stack'[i].from = stack[i].from
  BY <1>1, GoesOn
<1>3. StackInv' /\ \A o : Pointing(o)' = Pointing(o) /\ Temporaries(o)' = Temporaries(o)
  BY <1>1, <1>2, SharedKept
<1>4. \A o : Pointed(o)' = Pointed(o) BY <1>1 DEF Pointed
<1>5. Counts' BY <1>1, <1>3, <1>4 DEF IInv, Counts, CountAt, Unheld
<1>6. TypeOK' /\ sound' BY <1>1, <1>2 DEF IInv, TypeOK
<1> QED BY <1>3, <1>5, <1>6 DEF IInv, StackInv

\* A Weak lets go of one block and takes another.
LEMMA WeakToInv ==
  ASSUME IInv, NEW w \in WHandle, NEW o \in Obj \cup {Null}, WeakTo(w, o), UNCHANGED <<strong, ptr,
           harm>>,
         o # Null => strong[o] > 0 /\ block[o] \in {"live", "dying"},
         stack' \in Seq(Frame), DOMAIN stack' = DOMAIN stack, Len(stack') = Len(stack),
         \A i \in DOMAIN stack : /\ stack'[i].op = stack[i].op /\ stack'[i].h = stack[i].h
                                 /\ stack'[i].o = stack[i].o /\ stack'[i].from = stack[i].from
  PROVE  IInv'
<1> DEFINE b == wptr[w]
           last == b # Null /\ weak[b] = 1 /\ strong[b] = 0
<1>1. b \in Obj \cup {Null} /\ Null \notin Obj /\ wptr \in [WHandle -> Obj \cup {Null}]
      /\ block \in [Obj -> {"free", "making", "live", "dying", "dead", "lost"}]
      /\ weak \in [Obj -> Nat] /\ strong \in [Obj -> Nat]
  BY Consts DEF IInv, TypeOK
<1>2. \A x \in Obj : block'[x] = IF last /\ x = b THEN "free" ELSE block[x]
  BY <1>1 DEF WeakTo
<1>3. \A x \in Obj : weak'[x] = weak[x] + (IF x = b THEN -1 ELSE 0) + (IF x = o THEN 1 ELSE 0)
  <2>1. \A x \in Obj : Counting(b, weak, -1)[x] = weak[x] + (IF x = b THEN -1 ELSE 0)
    BY <1>1 DEF Counting
  <2>2. DOMAIN Counting(b, weak, -1) = Obj BY <1>1 DEF Counting
  <2>3. \A x \in Obj : Counting(b, weak, -1)[x] \in Int
    <3>1. \A x \in Obj : weak[x] \in Int /\ weak[x] + (IF x = b THEN -1 ELSE 0) \in Int BY <1>1
    <3> QED BY <2>1, <3>1
  <2>4. weak' = Counting(o, Counting(b, weak, -1), 1) BY DEF WeakTo
  <2>5. \A x \in Obj : weak'[x] = Counting(b, weak, -1)[x] + (IF x = o THEN 1 ELSE 0)
    BY <1>1, <2>2, <2>3, <2>4 DEF Counting
  <2> QED BY <2>1, <2>5
<1>4. \A v \in WHandle : wptr'[v] = IF v = w THEN o ELSE wptr[v] BY <1>1 DEF WeakTo
<1>5. \A x \in Obj : /\ Cardinality(Pointed(x)) \in Nat /\ Cardinality(Pointed(x)') \in Nat
                     /\ Cardinality(Pointed(x)') = Cardinality(Pointed(x))
                          + (IF x = b THEN -1 ELSE 0) + (IF x = o THEN 1 ELSE 0)
  <2> SUFFICES ASSUME NEW x \in Obj
               PROVE  /\ Cardinality(Pointed(x)) \in Nat /\ Cardinality(Pointed(x)') \in Nat
                      /\ Cardinality(Pointed(x)') = Cardinality(Pointed(x))
                           + (IF x = b THEN -1 ELSE 0) + (IF x = o THEN 1 ELSE 0)
    OBVIOUS
  <2>1. \A v \in WHandle : v # w => wptr'[v] = wptr[v] BY <1>4
  <2>2. wptr'[w] = o BY <1>4
  <2> QED BY <2>1, <2>2, WeakMoved
<1>6. \A x \in Obj : weak'[x] = Cardinality(Pointed(x)') /\ weak'[x] \in Nat
  <2>1. \A x \in Obj : weak[x] = Cardinality(Pointed(x)) BY DEF IInv, Counts, CountAt
  <2> QED BY <1>3, <1>5, <2>1
<1>7. ASSUME last PROVE b \in Obj /\ block[b] = "dead" /\ b # o
  <2>1. b \in Obj /\ strong[b] = 0 /\ weak[b] = 1 BY <1>1, <1>7
  <2>2. block[b] \in {"free", "making", "live", "dying", "dead", "lost"} /\ CountAt(b)
    BY <1>1, <2>1 DEF IInv, Counts
  <2>3. block[b] = "dead" BY <2>1, <2>2 DEF CountAt
  <2>4. b # o BY <1>1, <2>1
  <2> QED BY <2>1, <2>3, <2>4
<1>8. \A x \in Obj : block[x] \in {"live", "dying", "making"} \/ block'[x] \in {"live", "dying", "making"}
                       => block'[x] = block[x]
  BY <1>2, <1>7
<1>9. StackInv' /\ \A x : Pointing(x)' = Pointing(x) /\ Temporaries(x)' = Temporaries(x)
  BY <1>8, SharedKept
<1>10. Counts'
  <2> SUFFICES ASSUME NEW x \in Obj PROVE CountAt(x)' BY DEF Counts
  <2>1. CountAt(x) /\ weak[x] \in Nat /\ strong[x] \in Nat /\ strong'[x] = strong[x]
    BY <1>1 DEF IInv, Counts
  <2>2. x = b => weak[x] > 0 /\ block[x] \in {"live", "dying", "dead"} BY Alive
  <2>3. x = o => block[x] \in {"live", "dying"} BY <1>1
  <2>4. CASE last /\ x = b
    <3>1. weak[x] = 1 /\ strong[x] = 0 /\ x # o /\ block'[x] = "free" /\ block[x] = "dead"
      BY <1>2, <1>7, <2>4
    <3>2. weak'[x] = 0 BY <1>3, <2>4, <3>1
    <3> QED BY <1>6, <1>9, <2>1, <3>1, <3>2 DEF CountAt, Unheld
  <2>5. CASE ~(last /\ x = b)
    <3>1. block'[x] = block[x] BY <1>2, <2>5
    <3>2. block[x] \in {"free", "making", "lost"} => weak'[x] = 0
      BY <1>3, <2>1, <2>2, <2>3 DEF CountAt
    <3>3. block[x] = "dead" => weak'[x] > 0
      <4>1. ASSUME block[x] = "dead", x = b PROVE weak[x] > 1
        <5>1. b # Null /\ strong[b] = 0 BY <1>1, <2>1, <4>1 DEF CountAt
        <5>2. weak[b] # 1 BY <2>5, <4>1, <5>1
        <5> QED BY <2>1, <2>2, <4>1, <5>2
      <4> QED BY <1>3, <2>1, <4>1 DEF CountAt
    <3> QED BY <1>6, <1>9, <2>1, <3>1, <3>2, <3>3 DEF CountAt, Unheld
  <2> QED BY <2>4, <2>5
<1>11. TypeOK'
  <2>1. block' \in [Obj -> {"free", "making", "live", "dying", "dead", "lost"}]
    BY <1>1, <1>7 DEF WeakTo
  <2>2. DOMAIN weak' = Obj /\ weak' = [x \in Obj |-> weak'[x]] BY <1>1 DEF WeakTo, Counting
  <2>3. weak' \in [Obj -> Nat] BY <1>6, <2>2
  <2>4. wptr' \in [WHandle -> Obj \cup {Null}] BY <1>1 DEF WeakTo
  <2>5. sound' \in BOOLEAN BY DEF WeakTo
  <2> QED BY <2>1, <2>3, <2>4, <2>5 DEF IInv, TypeOK
<1>12. sound'
  <2>1. b # Null => block[b] \in {"live", "dying", "dead"} BY <1>1, Alive
  <2> QED BY <2>1 DEF WeakTo, Is, IInv
<1> QED BY <1>9, <1>10, <1>11, <1>12 DEF IInv, StackInv

\* The stack is as it was.
LEMMA Still ==
  ASSUME IInv, stack' = stack
  PROVE  /\ stack' \in Seq(Frame) /\ DOMAIN stack' = DOMAIN stack /\ Len(stack') = Len(stack)
         /\ \A i \in DOMAIN stack : /\ stack'[i].op = stack[i].op /\ stack'[i].h = stack[i].h
                                    /\ stack'[i].o = stack[i].o /\ stack'[i].from = stack[i].from
  BY DEF IInv, TypeOK

LEMMA LinkDestroyedInv == ASSUME IInv, LinkDestroyed PROVE IInv'
<1>1. /\ stack # <<>> /\ stack' = Done("link") /\ Top.op \in Of
      /\ WeakTo(Top.o, Null) /\ UNCHANGED <<strong, ptr, harm>>
  BY DEF LinkDestroyed, Ending, Running, Of
<1>2. /\ stack' \in Seq(Frame) /\ DOMAIN stack' = DOMAIN stack /\ Len(stack') = Len(stack)
      /\ \A i \in DOMAIN stack : /\ stack'[i].op = stack[i].op /\ stack'[i].h = stack[i].h
                                 /\ stack'[i].o = stack[i].o /\ stack'[i].from = stack[i].from
  BY <1>1, GoesOn
<1>3. Len(stack) \in DOMAIN stack /\ Top = stack[Len(stack)] BY <1>1, Popping DEF IInv, Top
<1>4. Top.o \in WHandle BY <1>1, <1>3, Owner, Consts
<1> QED BY <1>1, <1>2, <1>4, WeakToInv

LEMMA WeakResetInv == ASSUME IInv, NEW w \in WHandle, WeakReset(w) PROVE IInv'
<1>1. WeakTo(w, Null) /\ UNCHANGED <<strong, ptr, harm>> /\ stack' = stack BY DEF WeakReset
<1> QED BY <1>1, Still, WeakToInv

LEMMA WeakAssignInv ==
  ASSUME IInv, NEW w \in WHandle, NEW s \in SHandle, WeakAssign(w, s) PROVE IInv'
<1>1. WeakTo(w, ptr[s]) /\ UNCHANGED <<strong, ptr, harm>> /\ stack' = stack /\ ptr[s] # Null
  BY DEF WeakAssign
<1>2. ptr[s] \in Obj BY <1>1 DEF IInv, TypeOK
<1>3. strong[ptr[s]] > 0 /\ block[ptr[s]] \in {"live", "dying"} BY <1>2, Alive
<1> QED BY <1>1, <1>2, <1>3, Still, WeakToInv

LEMMA LockedIs ==
  ASSUME IInv, NEW w \in WHandle, wptr[w] # Null
  PROVE  /\ wptr[w] \in Obj /\ Locked(w) \in {wptr[w], Null}
         /\ Locked(w) # Null => strong[Locked(w)] > 0 /\ block[Locked(w)] \in {"live", "dying"}
<1>1. wptr[w] \in Obj /\ CountAt(wptr[w]) BY DEF IInv, TypeOK, Counts
<1>2. strong[wptr[w]] > 0 => block[wptr[w]] \in {"live", "dying"}
  <2>1. block[wptr[w]] \in {"live", "dying", "dead"} BY <1>1, Alive
  <2> QED BY <1>1, <2>1 DEF CountAt
<1> QED BY <1>1, <1>2 DEF Locked

LEMMA WeakCopyInv ==
  ASSUME IInv, NEW w \in WHandle, NEW v \in WHandle, WeakCopy(w, v) PROVE IInv'
<1>1. WeakTo(w, Locked(v)) /\ UNCHANGED <<strong, ptr, harm>> /\ stack' = stack /\ wptr[v] # Null
  BY DEF WeakCopy, WeakCopyOf
<1>2. Locked(v) \in Obj \cup {Null}
      /\ (Locked(v) # Null => strong[Locked(v)] > 0 /\ block[Locked(v)] \in {"live", "dying"})
  BY <1>1, LockedIs
<1> QED BY <1>1, <1>2, Still, WeakToInv

LEMMA WeakConstructInv ==
  ASSUME IInv, NEW w \in WHandle, NEW v \in WHandle, WeakConstruct(w, v) PROVE IInv'
<1> DEFINE b == wptr[v]
<1>1. /\ b \in Obj /\ wptr[w] = Null /\ Null \notin Obj
      /\ wptr \in [WHandle -> Obj \cup {Null}] /\ weak \in [Obj -> Nat]
  BY Consts DEF IInv, TypeOK, WeakConstruct
<1>2. \A x \in Obj : weak'[x] = weak[x] + (IF x = b THEN 1 ELSE 0)
  BY <1>1 DEF WeakConstruct, Counting
<1>3. \A k \in WHandle : k # w => wptr'[k] = wptr[k] BY <1>1 DEF WeakConstruct
<1>4. wptr'[w] = b BY <1>1 DEF WeakConstruct
<1>5. StackInv' /\ \A x : Pointing(x)' = Pointing(x) /\ Temporaries(x)' = Temporaries(x)
  BY Still, SharedKept DEF WeakConstruct
<1>6. block[b] \in {"live", "dying", "dead"} BY <1>1, Alive
<1>7. Counts'
  <2> SUFFICES ASSUME NEW x \in Obj PROVE CountAt(x)' BY DEF Counts
  <2>1. CountAt(x) /\ weak[x] \in Nat /\ strong'[x] = strong[x] /\ block'[x] = block[x]
    BY DEF IInv, TypeOK, Counts, WeakConstruct
  <2>2. Cardinality(Pointed(x)') = Cardinality(Pointed(x)) + (IF x = b THEN 1 ELSE 0)
    <3>1. wptr[w] # x BY <1>1
    <3> QED BY <1>3, <1>4, <3>1, WeakMoved
  <2>3. weak'[x] = Cardinality(Pointed(x)') BY <1>2, <2>1, <2>2 DEF CountAt
  <2>4. block[x] \in {"free", "making", "lost"} => weak'[x] = 0 BY <1>2, <1>6, <2>1 DEF CountAt
  <2>5. block[x] = "dead" => weak'[x] > 0 BY <1>2, <2>1 DEF CountAt
  <2> QED BY <1>5, <2>1, <2>3, <2>4, <2>5 DEF CountAt, Unheld
<1>8. TypeOK'
  <2>1. weak' \in [Obj -> Nat] BY <1>1 DEF WeakConstruct, Counting
  <2>2. wptr' \in [WHandle -> Obj \cup {Null}] BY <1>1 DEF WeakConstruct
  <2> QED BY <2>1, <2>2 DEF IInv, TypeOK, WeakConstruct
<1>9. sound' BY <1>1, <1>6 DEF WeakConstruct, IInv, Is
<1> QED BY <1>5, <1>7, <1>8, <1>9 DEF IInv, StackInv

LEMMA WeakMoveInv ==
  ASSUME IInv, NEW w \in WHandle, NEW v \in WHandle, WeakMove(w, v) PROVE IInv'
<1>1. wptr \in [WHandle -> Obj \cup {Null}] /\ wptr[w] # wptr[v] BY DEF IInv, TypeOK, WeakMove
<1>2. w # v BY <1>1
<1>3. wptr'[w] = wptr[v] /\ wptr'[v] = wptr[w] BY <1>1 DEF WeakMove
<1>4. \A k \in WHandle : k # w /\ k # v => wptr'[k] = wptr[k] BY <1>1 DEF WeakMove
<1>5. \A x : Cardinality(Pointed(x)') = Cardinality(Pointed(x)) BY <1>2, <1>3, <1>4, WeakSwapped
<1>6. StackInv' /\ \A x : Pointing(x)' = Pointing(x) /\ Temporaries(x)' = Temporaries(x)
  BY Still, SharedKept DEF WeakMove
<1>7. Counts' BY <1>5, <1>6 DEF IInv, Counts, CountAt, Unheld, WeakMove
<1>8. TypeOK' /\ sound' BY <1>1 DEF IInv, TypeOK, WeakMove
<1> QED BY <1>6, <1>7, <1>8 DEF IInv, StackInv

-----------------------------------------------------------------------------
(* Calls. *)

\* The stack of a call that resets s, after which f is to be done if there is an f.
LEMMA Entering ==
  ASSUME IInv, Ready, UNCHANGED <<block, strong, weak, ptr, wptr, sound, harm>>,
         NEW s \in SHandle, Free(s), NEW n \in {1, 2}, NEW f \in Frame,
         stack' \in Seq(Frame), Len(stack') = Len(stack) + n, DOMAIN stack' = 1..(Len(stack) + n),
         \A i \in DOMAIN stack : stack'[i] = stack[i],
         stack'[Len(stack) + n] = Call("reset", s, ptr[s], Temp),
         n = 2 => stack'[Len(stack) + 1] = f,
         f.op \in After /\ f.h = s /\ f.o = Null,
         f.op = "emplace" => f.from = Temp,
         f.op \in {"assign", "swap"} =>
           /\ f.from \in SHandle /\ f.from # s /\ Usable(f.from)
           /\ f.op = "swap" => f.from \notin Busy
  PROVE  IInv'
<1> DEFINE len == Len(stack)
           g == Call("reset", s, ptr[s], Temp)
<1>1. /\ len \in Nat /\ DOMAIN stack = 1..len /\ \A i \in DOMAIN stack : stack[i] \in Frame
      /\ DOMAIN stack' = 1..(len + n)
  BY Stacks DEF IInv
<1>2. /\ \A i \in DOMAIN stack : stack[i].op # "reset"
      /\ \A i \in DOMAIN stack : stack[i].op \in After => i # len
  BY Calling
<1>3. s \notin Busy /\ s # Temp /\ \A i \in DOMAIN stack : stack[i].h # s
  BY BusyIs, Consts DEF Free
<1>4. g.op = "reset" /\ g.h = s /\ g.o = ptr[s] /\ g.from = Temp BY CallFields
<1>5. f.op \in {"assign", "swap", "emplace"} /\ f.op # "reset" /\ f.op \notin Of BY DEF After, Of
<1>6. \A i \in DOMAIN stack' : i \in DOMAIN stack \/ (i = len + 1 /\ n = 2 /\ stack'[i] = f)
                                \/ (i = len + n /\ stack'[i] = g)
  BY <1>1
<1>7. \A i \in DOMAIN stack' : i \notin DOMAIN stack => i > len /\ stack'[i].h = s /\ stack'[i].op \notin Of
  BY <1>1, <1>4, <1>5, <1>6 DEF Of
<1> HIDE DEF g
<1>8. Held'
  <2> SUFFICES ASSUME NEW i \in DOMAIN stack' PROVE HeldAt(i)' BY DEF Held
  <2>1. CASE i \in DOMAIN stack
    <3>1. stack'[i] = stack[i] /\ i # Len(stack') BY <1>1, <2>1
    <3>2. stack[i].op \in After => i + 1 \in DOMAIN stack /\ i # len BY <1>1, <1>2, <2>1
    <3>3. HeldAt(i) BY <2>1 DEF IInv, Held
    <3> QED BY <1>2, <2>1, <3>1, <3>2, <3>3 DEF HeldAt
  <2>2. CASE i = len + 1 /\ n = 2 /\ stack'[i] = f
    <3>1. i # Len(stack') /\ i + 1 = len + n BY <1>1, <2>2
    <3>2. stack'[i + 1] = g BY <3>1 DEF g
    <3> QED BY <1>3, <1>4, <1>5, <2>2, <3>1, <3>2 DEF HeldAt, Making
  <2>3. CASE i = len + n /\ stack'[i] = g BY <1>4, <2>3 DEF HeldAt, After, Making
  <2> QED BY <1>6, <2>1, <2>2, <2>3
<1>9. Dying'
  <2>1. DOMAIN stack \subseteq DOMAIN stack' BY <1>1
  <2> QED BY <1>7, <2>1 DEF IInv, Dying
<1>10. OneCall'
  <2> SUFFICES ASSUME NEW i \in DOMAIN stack', NEW j \in DOMAIN stack', i < j, stack'[i].h = stack'[j].h
               PROVE  stack'[i].h = Temp \/ (j = i + 1 /\ stack'[i].op \in After)
    BY DEF OneCall
  <2>1. CASE j \in DOMAIN stack
    <3>1. i \in DOMAIN stack BY <1>1, <2>1
    <3> QED BY <2>1, <3>1 DEF IInv, OneCall
  <2>2. CASE j \notin DOMAIN stack
    <3>1. stack'[i].h = s BY <1>7, <2>2
    <3>2. i \notin DOMAIN stack BY <1>3, <3>1
    <3>3. i = len + 1 /\ n = 2 /\ stack'[i] = f /\ j = i + 1 BY <1>1, <1>6, <2>2, <3>2
    <3> QED BY <3>3
  <2> QED BY <2>1, <2>2
<1>11. Members'
  <2> SUFFICES ASSUME NEW j \in DOMAIN stack', NEW x \in Obj, Needs(j, x)' PROVE Kept(j, x)'
    BY DEF Members
  <2>1. CASE j \in DOMAIN stack
    <3>1. Kept(j, x) BY <2>1 DEF IInv, Members, Needs
    <3>2. 1..(j - 1) \subseteq DOMAIN stack BY <1>1, <2>1
    <3> QED BY <3>1, <3>2 DEF Kept
  <2>2. CASE j \notin DOMAIN stack
    <3>1. j > len /\ DOMAIN stack \subseteq 1..(j - 1) BY <1>1, <1>7, <2>2
    <3>2. stack'[j] = f \/ stack'[j] = g BY <1>6, <2>2
    <3>3. x = s \/ (f.op \in {"assign", "swap"} /\ x = f.from)
      BY <1>4, <1>5, <3>2, Consts DEF Needs
    <3>4. Usable(x) BY <3>3 DEF Free
    <3>5. block[x] = "live" \/ \E i \in DOMAIN stack : stack[i].op \in Of /\ stack[i].o = x
      BY <3>4, Using
    <3> QED BY <3>1, <3>5 DEF Kept
  <2> QED BY <2>1, <2>2
<1>12. Sources'
  <2> SUFFICES ASSUME NEW j \in DOMAIN stack', stack'[j].op \in {"assign", "swap"}
               PROVE  LET t == stack'[j].from IN
                 /\ t # Temp /\ t # stack'[j].h
                 /\ stack'[j].op = "swap" => \A i \in 1..(j - 1) : stack'[i].h # t
    BY DEF Sources
  <2>1. CASE j \in DOMAIN stack
    <3>1. 1..(j - 1) \subseteq DOMAIN stack BY <1>1, <2>1
    <3> QED BY <2>1, <3>1 DEF IInv, Sources
  <2>2. CASE j = len + 1 /\ n = 2 /\ stack'[j] = f
    <3>1. f.from # Temp /\ f.from # s BY <2>2, Consts
    <3>2. f.op = "swap" => \A i \in 1..(j - 1) : stack'[i].h # f.from
      <4>1. \A i \in 1..(j - 1) : i \in DOMAIN stack BY <1>1, <2>2
      <4> QED BY <2>2, <4>1, BusyIs
    <3> QED BY <2>2, <3>1, <3>2
  <2>3. CASE j = len + n /\ stack'[j] = g BY <1>4, <2>3
  <2> QED BY <1>6, <2>1, <2>2, <2>3
<1>13. Counts'
  <2>1. \A x : Pointing(x)' = Pointing(x) /\ Pointed(x)' = Pointed(x) BY DEF Pointing, Pointed
  <2>2. \A x : Temporaries(x)' = Temporaries(x)
    <3>1. \A i \in DOMAIN stack : i \in DOMAIN stack' BY <1>1
    <3>2. \A i \in DOMAIN stack' : stack'[i].h = Temp => i \in DOMAIN stack BY <1>3, <1>7
    <3> QED BY <3>1, <3>2 DEF Temporaries
  <2> QED BY <2>1, <2>2 DEF IInv, Counts, CountAt, Unheld
<1>14. TypeOK' /\ sound' BY DEF IInv, TypeOK
<1> QED BY <1>8, <1>9, <1>10, <1>11, <1>12, <1>13, <1>14 DEF IInv

LEMMA ResetCallTyped ==
  ASSUME IInv, NEW s \in SHandle
  PROVE  Call("reset", s, ptr[s], Temp) \in Frame
<1>1. ptr[s] \in Obj \cup {Null} BY DEF IInv, TypeOK
<1> QED BY <1>1, CallTypes

LEMMA ResetInv == ASSUME IInv, NEW s \in SHandle, Reset(s) PROVE IInv'
<1> DEFINE f == Call("emplace", s, Null, Temp)
<1>1. f \in Frame /\ f.op = "emplace" /\ f.h = s /\ f.o = Null /\ f.from = Temp
  BY CallTypes, CallFields
<1>2. f.op \in After /\ f.op \notin {"assign", "swap"} BY <1>1 DEF After
<1>3. stack' = Append(stack, Call("reset", s, ptr[s], Temp)) BY DEF Reset
<1>4. /\ stack' \in Seq(Frame) /\ Len(stack') = Len(stack) + 1 /\ DOMAIN stack' = 1..(Len(stack) + 1)
      /\ \A i \in DOMAIN stack : stack'[i] = stack[i]
      /\ stack'[Len(stack) + 1] = Call("reset", s, ptr[s], Temp)
  BY <1>3, ResetCallTyped, Pushing DEF IInv
<1>5. Ready /\ Free(s) /\ UNCHANGED <<block, strong, weak, ptr, wptr, sound, harm>> BY DEF Reset
<1> HIDE DEF f
<1> QED BY <1>1, <1>2, <1>4, <1>5, Entering

LEMMA EmplaceInv == ASSUME IInv, NEW s \in SHandle, Emplace(s) PROVE IInv'
<1> DEFINE f == Call("emplace", s, Null, Temp)
<1>1. f \in Frame /\ f.op = "emplace" /\ f.h = s /\ f.o = Null /\ f.from = Temp
  BY CallTypes, CallFields
<1>2. f.op \in After /\ f.op \notin {"assign", "swap"} BY <1>1 DEF After
<1>3. stack' = stack \o <<f, Call("reset", s, ptr[s], Temp)>> BY DEF Emplace
<1> HIDE DEF f
<1>4. /\ stack' \in Seq(Frame) /\ Len(stack') = Len(stack) + 2 /\ DOMAIN stack' = 1..(Len(stack) + 2)
      /\ \A i \in DOMAIN stack : stack'[i] = stack[i]
      /\ stack'[Len(stack) + 1] = f /\ stack'[Len(stack) + 2] = Call("reset", s, ptr[s], Temp)
  BY <1>1, <1>3, ResetCallTyped, PushingTwo DEF IInv
<1>5. Ready /\ Free(s) /\ UNCHANGED <<block, strong, weak, ptr, wptr, sound, harm>> BY DEF Emplace
<1> QED BY <1>1, <1>2, <1>4, <1>5, Entering

LEMMA AssignInv == ASSUME IInv, NEW s \in SHandle, NEW t \in SHandle, Assign(s, t) PROVE IInv'
<1> DEFINE f == Call("assign", s, Null, t)
<1>1. f \in Frame /\ f.op = "assign" /\ f.h = s /\ f.o = Null /\ f.from = t BY CallTypes, CallFields
<1>2. f.op \in After BY <1>1 DEF After
<1>3. stack' = stack \o <<f, Call("reset", s, ptr[s], Temp)>> BY DEF Assign
<1> HIDE DEF f
<1>4. /\ stack' \in Seq(Frame) /\ Len(stack') = Len(stack) + 2 /\ DOMAIN stack' = 1..(Len(stack) + 2)
      /\ \A i \in DOMAIN stack : stack'[i] = stack[i]
      /\ stack'[Len(stack) + 1] = f /\ stack'[Len(stack) + 2] = Call("reset", s, ptr[s], Temp)
  BY <1>1, <1>3, ResetCallTyped, PushingTwo DEF IInv
<1>5. Ready /\ Free(s) /\ UNCHANGED <<block, strong, weak, ptr, wptr, sound, harm>> BY DEF Assign
<1>6. s # t /\ Usable(t) BY DEF Assign
<1> QED BY <1>1, <1>2, <1>4, <1>5, <1>6, Entering

LEMMA MoveDerivedInv ==
  ASSUME IInv, NEW s \in SHandle, NEW t \in SHandle, MoveDerived(s, t)
  PROVE  IInv'
<1> DEFINE f == Call("swap", s, Null, t)
<1>1. f \in Frame /\ f.op = "swap" /\ f.h = s /\ f.o = Null /\ f.from = t BY CallTypes, CallFields
<1>2. f.op \in After BY <1>1 DEF After
<1>3. stack' = stack \o <<f, Call("reset", s, ptr[s], Temp)>> BY DEF MoveDerived
<1> HIDE DEF f
<1>4. /\ stack' \in Seq(Frame) /\ Len(stack') = Len(stack) + 2 /\ DOMAIN stack' = 1..(Len(stack) + 2)
      /\ \A i \in DOMAIN stack : stack'[i] = stack[i]
      /\ stack'[Len(stack) + 1] = f /\ stack'[Len(stack) + 2] = Call("reset", s, ptr[s], Temp)
  BY <1>1, <1>3, ResetCallTyped, PushingTwo DEF IInv
<1>5. Ready /\ Free(s) /\ UNCHANGED <<block, strong, weak, ptr, wptr, sound, harm>>
  BY DEF MoveDerived
<1>6. s # t /\ Usable(t) /\ t \notin Busy BY DEF MoveDerived, Free
<1> QED BY <1>1, <1>2, <1>4, <1>5, <1>6, Entering

LEMMA MoveInv == ASSUME IInv, NEW s \in SHandle, NEW t \in SHandle, Move(s, t) PROVE IInv'
<1>1. ptr \in [SHandle -> Obj \cup {Null}] /\ s # t BY DEF IInv, TypeOK, Move
<1>2. ptr'[s] = ptr[t] /\ ptr'[t] = ptr[s] BY <1>1 DEF Move
<1>3. \A k \in SHandle : k # s /\ k # t => ptr'[k] = ptr[k] BY <1>1 DEF Move
<1>4. /\ \A i \in DOMAIN stack : stack[i].h # s /\ stack[i].h # t
      /\ \A i \in DOMAIN stack : stack[i].h \in SHandle \cup {Temp}
  BY BusyIs, Stacks, FrameTypes DEF IInv, Move, Free
<1>5. \A i \in DOMAIN stack : stack[i].h # Temp => ptr'[stack[i].h] = ptr[stack[i].h]
  BY <1>3, <1>4
<1>6. UNCHANGED <<block, strong, weak, wptr, stack, sound, harm>> BY DEF Move
<1>7. Held'
  <2> SUFFICES ASSUME NEW i \in DOMAIN stack PROVE HeldAt(i)' BY <1>6 DEF Held
  <2>1. HeldAt(i) BY DEF IInv, Held
  <2> QED BY <1>5, <1>6, <2>1 DEF HeldAt
<1>8. Dying' /\ OneCall' BY <1>6 DEF IInv, Dying, OneCall
<1>9. Sources' BY <1>6 DEF IInv, Sources
<1>10. Members' BY <1>6 DEF IInv, Members, Needs, Kept
<1>11. \A x : Cardinality(Pointing(x)') = Cardinality(Pointing(x))
  BY <1>1, <1>2, <1>3, SharedSwapped
<1>12. \A x : Pointed(x)' = Pointed(x) /\ Temporaries(x)' = Temporaries(x)
  BY <1>6 DEF Pointed, Temporaries
<1>13. Counts' BY <1>6, <1>11, <1>12 DEF IInv, Counts, CountAt, Unheld
<1>14. TypeOK' /\ sound'
  <2>1. ptr' \in [SHandle -> Obj \cup {Null}] BY <1>1 DEF Move
  <2> QED BY <1>6, <2>1 DEF IInv, TypeOK
<1> QED BY <1>7, <1>8, <1>9, <1>10, <1>13, <1>14 DEF IInv

LEMMA LockInv == ASSUME IInv, NEW s \in SHandle, NEW w \in WHandle, Lock(s, w) PROVE IInv'
<1> DEFINE o == Locked(w)
           b == ptr[s]
           len == Len(stack)
           g == Call("reset", Temp, b, Temp)
<1>1. /\ Ready /\ Free(s) /\ wptr[w] # Null
      /\ ptr' = [ptr EXCEPT ![s] = o] /\ strong' = Counting(o, strong, 1) /\ stack' = Append(stack, g)
      /\ sound' = (sound /\ Is(o, {"live", "dying"})) /\ UNCHANGED <<block, weak, wptr, harm>>
  BY DEF Lock, LockAs
<1>2. o \in Obj \cup {Null} /\ (o # Null => strong[o] > 0 /\ block[o] \in {"live", "dying"})
  BY <1>1, LockedIs
<1>3. /\ ptr \in [SHandle -> Obj \cup {Null}] /\ b \in Obj \cup {Null} /\ Null \notin Obj
      /\ strong \in [Obj -> Nat]
  BY Consts DEF IInv, TypeOK
<1>4. g \in Frame /\ g.op = "reset" /\ g.h = Temp /\ g.o = b /\ g.from = Temp
  <2>1. g \in Frame BY <1>3 DEF Call, Frame
  <2> QED BY <2>1, CallFields
<1> HIDE DEF g, o
<1>5. /\ stack' \in Seq(Frame) /\ Len(stack') = len + 1 /\ DOMAIN stack' = 1..(len + 1)
      /\ \A i \in DOMAIN stack : stack'[i] = stack[i]
      /\ stack'[len + 1] = g
  BY <1>1, <1>4, Pushing DEF IInv
<1>6. len \in Nat /\ DOMAIN stack = 1..len /\ \A i \in DOMAIN stack : stack[i].h \in SHandle \cup {Temp}
  BY Stacks, FrameTypes DEF IInv
<1>7. /\ \A i \in DOMAIN stack : stack[i].op # "reset"
      /\ \A i \in DOMAIN stack : stack[i].op \in After => i # len
  BY <1>1, Calling
<1>8. \A i \in DOMAIN stack' : i \in DOMAIN stack \/ i = len + 1 BY <1>5, <1>6
<1>9. Temp \notin Obj /\ "reset" \notin After \cup Of BY Consts DEF After, Of, SHandle
<1>10. \A i \in DOMAIN stack : stack[i].h # Temp => ptr'[stack[i].h] = ptr[stack[i].h]
  <2>1. \A i \in DOMAIN stack : stack[i].h # s BY <1>1, BusyIs DEF Free
  <2> QED BY <1>1, <1>3, <1>6, <2>1
<1>11. Held'
  <2> SUFFICES ASSUME NEW i \in DOMAIN stack' PROVE HeldAt(i)' BY DEF Held
  <2>1. CASE i \in DOMAIN stack
    <3>1. stack'[i] = stack[i] /\ i # Len(stack') BY <1>5, <1>6, <2>1
    <3>2. stack[i].op \in After => i + 1 \in DOMAIN stack /\ i # len BY <1>6, <1>7, <2>1
    <3>3. HeldAt(i) BY <2>1 DEF IInv, Held
    <3> QED BY <1>1, <1>5, <1>7, <1>10, <2>1, <3>1, <3>2, <3>3 DEF HeldAt
  <2>2. CASE i = len + 1 BY <1>4, <1>5, <1>9, <2>2 DEF HeldAt, Making
  <2> QED BY <1>8, <2>1, <2>2
<1>12. Dying'
  <2>1. DOMAIN stack \subseteq DOMAIN stack' BY <1>5, <1>6
  <2>2. \A i \in DOMAIN stack' : stack'[i].op \in Of => i \in DOMAIN stack BY <1>4, <1>5, <1>8, <1>9
  <2> QED BY <1>1, <1>5, <2>1, <2>2 DEF IInv, Dying
<1>13. OneCall'
  <2> SUFFICES ASSUME NEW i \in DOMAIN stack', NEW j \in DOMAIN stack', i < j, stack'[i].h = stack'[j].h
               PROVE  stack'[i].h = Temp \/ (j = i + 1 /\ stack'[i].op \in After)
    BY DEF OneCall
  <2>1. CASE j \in DOMAIN stack
    <3>1. i \in DOMAIN stack BY <1>5, <1>6, <2>1
    <3> QED BY <1>5, <2>1, <3>1 DEF IInv, OneCall
  <2>2. CASE j = len + 1 BY <1>4, <1>5, <2>2
  <2> QED BY <1>8, <2>1, <2>2
<1>14. Members'
  <2> SUFFICES ASSUME NEW j \in DOMAIN stack', NEW x \in Obj, Needs(j, x)' PROVE Kept(j, x)'
    BY DEF Members
  <2>1. j \in DOMAIN stack BY <1>4, <1>5, <1>8, <1>9 DEF Needs
  <2>2. Kept(j, x) BY <1>5, <2>1 DEF IInv, Members, Needs
  <2>3. 1..(j - 1) \subseteq DOMAIN stack BY <1>6, <2>1
  <2> QED BY <1>1, <1>5, <2>2, <2>3 DEF Kept
<1>15. Sources'
  <2> SUFFICES ASSUME NEW j \in DOMAIN stack', stack'[j].op \in {"assign", "swap"}
               PROVE  LET t == stack'[j].from IN
                 /\ t # Temp /\ t # stack'[j].h
                 /\ stack'[j].op = "swap" => \A i \in 1..(j - 1) : stack'[i].h # t
    BY DEF Sources
  <2>1. j \in DOMAIN stack BY <1>4, <1>5, <1>8
  <2>2. stack'[j] = stack[j] /\ 1..(j - 1) \subseteq DOMAIN stack BY <1>5, <1>6, <2>1
  <2> QED BY <1>5, <2>1, <2>2 DEF IInv, Sources
<1>16. \A x \in Obj : strong'[x] = strong[x] + (IF x = o THEN 1 ELSE 0)
  BY <1>1, <1>2, <1>3 DEF Counting
<1>17. Counts'
  <2> SUFFICES ASSUME NEW x \in Obj PROVE CountAt(x)' BY DEF Counts
  <2>1. CountAt(x) /\ strong[x] \in Nat BY DEF IInv, TypeOK, Counts
  <2>2. Pointed(x)' = Pointed(x) BY <1>1 DEF Pointed
  <2>3. \A k \in SHandle : k # s => ptr'[k] = ptr[k] BY <1>1, <1>3
  <2>4. ptr'[s] = o BY <1>1, <1>3
  <2>5. /\ Cardinality(Pointing(x)) \in Nat /\ Cardinality(Pointing(x)') \in Nat
        /\ Cardinality(Pointing(x)') = Cardinality(Pointing(x))
             - (IF x = b THEN 1 ELSE 0) + (IF x = o THEN 1 ELSE 0)
    BY <2>3, <2>4, SharedMoved
  <2>6. /\ Cardinality(Temporaries(x)) \in Nat
        /\ Cardinality(Temporaries(x)') = Cardinality(Temporaries(x)) + (IF x = b THEN 1 ELSE 0)
    <3>1. \A k : k # len + 1 => (k \in Temporaries(x)' <=> k \in Temporaries(x))
      BY <1>5, <1>6, <1>8 DEF Temporaries
    <3>2. len + 1 \notin Temporaries(x) BY <1>6 DEF Temporaries
    <3>3. len + 1 \in Temporaries(x)' <=> x = b BY <1>4, <1>5, <1>6 DEF Temporaries
    <3>4. IsFiniteSet(Temporaries(x)) BY Cards DEF IInv
    <3> QED BY <3>1, <3>2, <3>3, <3>4, Changed
  <2>7. strong'[x] = Cardinality(Pointing(x)') + Cardinality(Temporaries(x)') + Unheld(x)'
    <3>1. Unheld(x)' = Unheld(x) /\ Unheld(x) \in Nat BY <1>1 DEF Unheld
    <3>2. strong[x] = Cardinality(Pointing(x)) + Cardinality(Temporaries(x)) + Unheld(x)
      BY <2>1 DEF CountAt
    <3> QED BY <1>16, <2>1, <2>5, <2>6, <3>1, <3>2
  <2>8. x = o => block[x] \in {"live", "dying"} BY <1>2, <1>3
  <2> QED BY <1>1, <1>16, <2>1, <2>2, <2>7, <2>8 DEF CountAt
<1>18. TypeOK'
  <2>1. ptr' \in [SHandle -> Obj \cup {Null}] BY <1>1, <1>2, <1>3
  <2>2. strong' \in [Obj -> Nat] BY <1>1, <1>2, <1>3 DEF Counting
  <2>3. sound' \in BOOLEAN BY <1>1
  <2> QED BY <1>1, <1>5, <2>1, <2>2, <2>3 DEF IInv, TypeOK
<1>19. sound' BY <1>1, <1>2 DEF IInv, Is
<1> QED BY <1>11, <1>12, <1>13, <1>14, <1>15, <1>17, <1>18, <1>19 DEF IInv

-----------------------------------------------------------------------------
(* The ends of calls. *)

LEMMA OnTop ==
  ASSUME IInv, NEW op, Running(op)
  PROVE  /\ stack # <<>> /\ Len(stack) \in DOMAIN stack /\ Len(stack) \in Nat /\ Len(stack) > 0
         /\ DOMAIN stack = 1..Len(stack) /\ Top = stack[Len(stack)] /\ Top \in Frame /\ Top.op = op
         /\ Top.h \in SHandle \cup {Temp} /\ Top.o \in Obj \cup {Null} /\ Top.from \in SHandle \cup {Temp}
         /\ \A i \in DOMAIN stack : stack[i].h \in SHandle \cup {Temp}
         /\ \A i \in DOMAIN stack : i = Len(stack) \/ i \in 1..(Len(stack) - 1)
<1>1. stack # <<>> /\ Top.op = op /\ Top = stack[Len(stack)] BY DEF Running, Top
<1>2. Len(stack) \in DOMAIN stack /\ Len(stack) > 0 BY <1>1, Popping DEF IInv
<1>3. /\ Len(stack) \in Nat /\ DOMAIN stack = 1..Len(stack) /\ \A i \in DOMAIN stack : stack[i] \in Frame
  BY Stacks DEF IInv
<1> QED BY <1>1, <1>2, <1>3, FrameTypes

\* The calls below the one on top: a Shared that is in two of them is there for what
\* follows a Reset.
LEMMA BelowTop ==
  ASSUME IInv, NEW op, Running(op)
  PROVE  \A i \in 1..(Len(stack) - 1) :
           /\ stack[i].op # "reset" /\ i \in DOMAIN stack /\ i # Len(stack)
           /\ stack[i].h = Top.h /\ Top.h # Temp => i = Len(stack) - 1 /\ stack[i].op \in After
           /\ i = Len(stack) - 1 /\ stack[i].op \in After =>
                op \in {"reset", "destroy"} /\ Top.h = stack[i].h /\ Top.h # Temp
<1> DEFINE n == Len(stack)
<1>1. n \in Nat /\ n \in DOMAIN stack /\ DOMAIN stack = 1..n /\ Top = stack[n] /\ Top.op = op
  BY OnTop
<1> HIDE DEF n
<1> SUFFICES ASSUME NEW i \in 1..(n - 1)
             PROVE  /\ stack[i].op # "reset" /\ i \in DOMAIN stack /\ i # n
                    /\ stack[i].h = Top.h /\ Top.h # Temp => i = n - 1 /\ stack[i].op \in After
                    /\ i = n - 1 /\ stack[i].op \in After =>
                         op \in {"reset", "destroy"} /\ Top.h = stack[i].h /\ Top.h # Temp
  BY DEF n
<1>2. i \in DOMAIN stack /\ i < n /\ i # n /\ (i = n - 1 <=> n = i + 1) BY <1>1
<1>3. HeldAt(i) BY <1>2 DEF IInv, Held
<1>4. stack[i].op # "reset" BY <1>2, <1>3 DEF HeldAt, n
<1>5. stack[i].h = Top.h /\ Top.h # Temp => i = n - 1 /\ stack[i].op \in After
  BY <1>1, <1>2 DEF IInv, OneCall
<1>6. i = n - 1 /\ stack[i].op \in After => op \in {"reset", "destroy"} /\ Top.h = stack[i].h /\ Top.h # Temp
  BY <1>1, <1>2, <1>3 DEF HeldAt, n
<1> QED BY <1>2, <1>4, <1>5, <1>6

\* What the calls further out see of the Shared that the call on top is for: one that was
\* reset for the rest of a call points nowhere.
Handed ==
  \A i \in 1..(Len(stack) - 1) : stack[i].h # Temp =>
    ptr'[stack[i].h] = IF i = Len(stack) - 1 /\ stack[i].op \in After THEN Null ELSE ptr[stack[i].h]

LEMMA Handing ==
  ASSUME IInv, NEW op, Running(op),
         \A i \in 1..(Len(stack) - 1) :
           stack[i].h # Top.h /\ stack[i].h # Temp => ptr'[stack[i].h] = ptr[stack[i].h],
         op \in {"reset", "destroy"} /\ Top.h # Temp => ptr'[Top.h] = Null
  PROVE  Handed
<1> SUFFICES ASSUME NEW i \in 1..(Len(stack) - 1), stack[i].h # Temp
             PROVE  ptr'[stack[i].h] = IF i = Len(stack) - 1 /\ stack[i].op \in After THEN Null
                                       ELSE ptr[stack[i].h]
  BY DEF Handed
<1>1. /\ stack[i].h = Top.h /\ Top.h # Temp => i = Len(stack) - 1 /\ stack[i].op \in After
      /\ i = Len(stack) - 1 /\ stack[i].op \in After =>
           op \in {"reset", "destroy"} /\ Top.h = stack[i].h /\ Top.h # Temp
  BY BelowTop
<1>2. CASE stack[i].h = Top.h
  <2>1. /\ i = Len(stack) - 1 /\ stack[i].op \in After
        /\ op \in {"reset", "destroy"} /\ Top.h = stack[i].h /\ Top.h # Temp
    BY <1>1, <1>2
  <2>2. ptr'[stack[i].h] = Null BY <2>1
  <2> QED BY <2>1, <2>2
<1>3. CASE stack[i].h # Top.h
  <2>1. ~(i = Len(stack) - 1 /\ stack[i].op \in After) BY <1>1, <1>3
  <2>2. ptr'[stack[i].h] = ptr[stack[i].h] BY <1>3
  <2> QED BY <2>1, <2>2
<1> QED BY <1>2, <1>3

\* The call on top ends.
LEMMA Leaving ==
  ASSUME IInv, stack # <<>>, stack' = Below, Handed,
         \A i \in 1..(Len(stack) - 1) : stack[i].op \in Of => block'[stack[i].o] = block[stack[i].o],
         \A x \in Obj : block'[x] = "dying" =>
           \E i \in 1..(Len(stack) - 1) : stack[i].op = "destroy" /\ stack[i].o = x,
         \A i \in 1..(Len(stack) - 1), x \in Obj : Needs(i, x) /\ block[x] = "live" => block'[x] = "live"
  PROVE  /\ StackInv' /\ stack' \in Seq(Frame)
         /\ \A o : Cardinality(Temporaries(o)') = Cardinality(Temporaries(o))
                     - (IF Top.h = Temp /\ Top.o = o THEN 1 ELSE 0)
<1> DEFINE n == Len(stack)
<1>1. /\ n \in Nat /\ n > 0 /\ DOMAIN stack = 1..n
      /\ stack' \in Seq(Frame) /\ Len(stack') = n - 1 /\ DOMAIN stack' = 1..(n - 1)
      /\ \A i \in 1..(n - 1) : stack'[i] = stack[i]
  BY Stacks, Popping DEF IInv
<1>2. \A x \in Obj : block'[x] = "dying" => \E i \in 1..(n - 1) : stack[i].op = "destroy" /\ stack[i].o = x
  OBVIOUS
<1>3. \A i \in 1..(n - 1) : stack[i].h # Temp =>
        ptr'[stack[i].h] = IF i = n - 1 /\ stack[i].op \in After THEN Null ELSE ptr[stack[i].h]
  BY DEF Handed
<1>4. \A i \in 1..(n - 1) : stack[i].op \in Of => block'[stack[i].o] = block[stack[i].o] OBVIOUS
<1>5. \A i \in 1..(n - 1), x \in Obj : Needs(i, x) /\ block[x] = "live" => block'[x] = "live"
  OBVIOUS
<1> HIDE DEF n
<1>6. /\ \A i \in 1..(n - 1) : i \in DOMAIN stack /\ i # n /\ i + 1 \in DOMAIN stack
      /\ \A i \in 1..(n - 1) : i # n - 1 => i + 1 \in 1..(n - 1)
      /\ \A i \in 1..(n - 1) : 1..(i - 1) \subseteq 1..(n - 1)
  BY <1>1
<1>7. Held'
  <2> SUFFICES ASSUME NEW i \in 1..(n - 1) PROVE HeldAt(i)' BY <1>1 DEF Held
  <2>1. i \in DOMAIN stack /\ i # Len(stack) /\ HeldAt(i) BY <1>6 DEF n, IInv, Held
  <2>2. stack[i].op # "reset" BY <2>1 DEF HeldAt
  <2>3. i # n - 1 => stack'[i + 1] = stack[i + 1] BY <1>1, <1>6
  <2>4. stack[i].op \in Of => stack[i].op \notin After BY DEF After, Of
  <2>5. stack[i].op \in Of /\ stack[i].h # Temp => ptr'[stack[i].h] = ptr[stack[i].h] BY <1>3, <2>4
  <2>6. stack'[i].op \in {"reset", "destroy"} /\ stack'[i].h # Temp => ptr'[stack'[i].h] = stack'[i].o
    BY <1>1, <2>1, <2>2, <2>5 DEF HeldAt, Of
  <2>7. stack'[i].op = "destroy" => stack'[i].o # Null /\ block'[stack'[i].o] = "dying"
    BY <1>1, <1>4, <2>1 DEF HeldAt, Of
  <2>8. stack'[i].op \in Making => /\ stack'[i].o # Null /\ block'[stack'[i].o] = "making"
                                   /\ stack'[i].h # Temp /\ ptr'[stack'[i].h] = Null
    <3>1. stack[i].op \in Making => stack[i].op \in Of BY DEF Making, Of
    <3> QED BY <1>1, <1>4, <2>1, <2>5, <3>1 DEF HeldAt
  <2>9. ASSUME stack[i].op \in After
        PROVE  /\ stack[i].h # Temp /\ stack[i].o = Null
               /\ i = n - 1 => ptr'[stack[i].h] = Null
               /\ i # n - 1 => /\ stack'[i + 1].op \in {"reset", "destroy"}
                               /\ stack'[i + 1].h = stack[i].h
    BY <1>3, <2>1, <2>3, <2>9 DEF HeldAt
  <2> QED BY <1>1, <2>2, <2>6, <2>7, <2>8, <2>9 DEF HeldAt
<1>8. Dying'
  <2>1. \A o \in Obj : block'[o] = "dying" => \E i \in DOMAIN stack' : stack'[i].op = "destroy" /\ stack'[i].o = o
    <3> SUFFICES ASSUME NEW o \in Obj, block'[o] = "dying"
                 PROVE  \E i \in DOMAIN stack' : stack'[i].op = "destroy" /\ stack'[i].o = o
      OBVIOUS
    <3>1. PICK i \in 1..(n - 1) : stack[i].op = "destroy" /\ stack[i].o = o BY <1>2
    <3>2. i \in DOMAIN stack' /\ stack'[i] = stack[i] BY <1>1
    <3> QED BY <3>1, <3>2
  <2>2. \A i, j \in DOMAIN stack' :
          stack'[i].op \in Of /\ stack'[j].op \in Of /\ stack'[i].o = stack'[j].o => i = j
    BY <1>1, <1>6 DEF IInv, Dying
  <2> QED BY <2>1, <2>2 DEF Dying
<1>9. OneCall' BY <1>1, <1>6 DEF IInv, OneCall
<1>10. Members'
  <2> SUFFICES ASSUME NEW j \in 1..(n - 1), NEW x \in Obj, Needs(j, x) PROVE Kept(j, x)'
    BY <1>1 DEF Members, Needs
  <2>1. Kept(j, x) BY <1>6 DEF IInv, Members
  <2>2. block[x] = "live" => block'[x] = "live" BY <1>5
  <2>3. \A i \in 1..(j - 1) : stack'[i] = stack[i] BY <1>1, <1>6
  <2> QED BY <2>1, <2>2, <2>3 DEF Kept
<1>11. Sources' BY <1>1, <1>6 DEF IInv, Sources
<1>12. ASSUME NEW o
       PROVE  Cardinality(Temporaries(o)') = Cardinality(Temporaries(o))
                - (IF Top.h = Temp /\ Top.o = o THEN 1 ELSE 0)
  <2>1. \A k \in 1..n : k = n \/ k \in 1..(n - 1) BY <1>1
  <2>2. \A k : k # n => (k \in Temporaries(o)' <=> k \in Temporaries(o))
    BY <1>1, <1>6, <2>1 DEF Temporaries
  <2>3. n \notin Temporaries(o)' BY <1>1 DEF Temporaries
  <2>4. n \in Temporaries(o) <=> Top.h = Temp /\ Top.o = o
    <3>1. n \in DOMAIN stack BY <1>1
    <3>2. Top = stack[n] BY DEF Top, n
    <3> QED BY <3>1, <3>2 DEF Temporaries
  <2>5. IsFiniteSet(Temporaries(o)) BY Cards DEF IInv
  <2>6. /\ Cardinality(Temporaries(o)) \in Nat
        /\ n \in Temporaries(o) => Cardinality(Temporaries(o)') = Cardinality(Temporaries(o)) - 1
        /\ n \notin Temporaries(o) => Cardinality(Temporaries(o)') = Cardinality(Temporaries(o))
    BY <2>2, <2>3, <2>5, Changed
  <2> QED BY <2>4, <2>6
<1> QED BY <1>1, <1>7, <1>8, <1>9, <1>10, <1>11, <1>12 DEF StackInv

\* The call that ends is one that leaves the blocks as they are.
LEMMA RestLeaving ==
  ASSUME IInv, NEW op, op \notin Of, Running(op), stack' = Below, UNCHANGED block, Handed
  PROVE  /\ StackInv' /\ stack' \in Seq(Frame)
         /\ \A x : Cardinality(Temporaries(x)') = Cardinality(Temporaries(x))
                     - (IF Top.h = Temp /\ Top.o = x THEN 1 ELSE 0)
<1>1. stack # <<>> BY DEF Running
<1>2. \A i \in 1..(Len(stack) - 1) : stack[i].op \in Of => block'[stack[i].o] = block[stack[i].o]
  OBVIOUS
<1>3. \A x \in Obj : block'[x] = "dying" =>
        \E i \in 1..(Len(stack) - 1) : stack[i].op = "destroy" /\ stack[i].o = x
  <2> SUFFICES ASSUME NEW x \in Obj, block[x] = "dying"
               PROVE  \E i \in 1..(Len(stack) - 1) : stack[i].op = "destroy" /\ stack[i].o = x
    OBVIOUS
  <2>1. PICK i \in DOMAIN stack : stack[i].op = "destroy" /\ stack[i].o = x BY DEF IInv, Dying
  <2>2. stack[Len(stack)].op # "destroy" BY OnTop DEF Of
  <2>3. i \in 1..(Len(stack) - 1) BY <2>1, <2>2, OnTop
  <2> QED BY <2>1, <2>3
<1>4. \A i \in 1..(Len(stack) - 1), x \in Obj : Needs(i, x) /\ block[x] = "live" => block'[x] = "live"
  OBVIOUS
<1> QED BY <1>1, <1>2, <1>3, <1>4, Leaving

\* The call that ends is one that ends or makes an object.
LEMMA OfLeaving ==
  ASSUME IInv, NEW op \in Of, Running(op), stack' = Below, Handed,
         \A x \in Obj : x # Top.o => block'[x] = block[x], block'[Top.o] # "dying"
  PROVE  /\ StackInv' /\ stack' \in Seq(Frame)
         /\ \A x : Cardinality(Temporaries(x)') = Cardinality(Temporaries(x))
                     - (IF Top.h = Temp /\ Top.o = x THEN 1 ELSE 0)
<1> DEFINE n == Len(stack)
<1>1. /\ stack # <<>> /\ n \in DOMAIN stack /\ Top = stack[n] /\ Top.op = op
      /\ \A i \in DOMAIN stack : i = n \/ i \in 1..(n - 1)
  BY OnTop
<1>2. \A i \in 1..(n - 1) : i \in DOMAIN stack /\ i # n BY BelowTop
<1>3. Top.o \in Obj /\ block[Top.o] \in {"dying", "making"} BY <1>1, Owner
<1> HIDE DEF n
<1>4. \A i \in 1..(n - 1) : stack[i].op \in Of => block'[stack[i].o] = block[stack[i].o]
  <2> SUFFICES ASSUME NEW i \in 1..(n - 1), stack[i].op \in Of
               PROVE  block'[stack[i].o] = block[stack[i].o]
    OBVIOUS
  <2>1. stack[i].o \in Obj BY <1>2, Owner
  <2>2. stack[i].o # Top.o BY <1>1, <1>2 DEF IInv, Dying
  <2> QED BY <2>1, <2>2
<1>5. \A x \in Obj : block'[x] = "dying" =>
        \E i \in 1..(n - 1) : stack[i].op = "destroy" /\ stack[i].o = x
  <2> SUFFICES ASSUME NEW x \in Obj, block'[x] = "dying"
               PROVE  \E i \in 1..(n - 1) : stack[i].op = "destroy" /\ stack[i].o = x
    OBVIOUS
  <2>1. x # Top.o /\ block[x] = "dying" OBVIOUS
  <2>2. PICK i \in DOMAIN stack : stack[i].op = "destroy" /\ stack[i].o = x BY <2>1 DEF IInv, Dying
  <2>3. i \in 1..(n - 1) BY <1>1, <2>1, <2>2
  <2> QED BY <2>2, <2>3
<1>6. \A i \in 1..(n - 1), x \in Obj : Needs(i, x) /\ block[x] = "live" => block'[x] = "live"
  <2>1. \A x \in Obj : block[x] = "live" => x # Top.o BY <1>3
  <2> QED BY <2>1
<1> QED BY <1>1, <1>4, <1>5, <1>6, Leaving DEF n

\* The call on top becomes f, which ends or makes an object that no other call ends, makes
\* or needs.
Becomes(f) ==
  /\ stack # <<>> /\ f \in Frame /\ stack' = Append(Below, f) /\ UNCHANGED ptr
  /\ f.op \in Of /\ f.h = Top.h /\ f.from \in {Top.from, Temp} /\ f.o \in Obj
  /\ Top.op # "destroy" /\ (Top.op = "reset" => f.op = "destroy")
  /\ f.h = Temp => f.o = Top.o
  /\ \A x \in Obj : x # f.o => block'[x] = block[x]
  /\ f.op = "destroy" => block'[f.o] = "dying" /\ (f.h # Temp => ptr[f.h] = f.o)
  /\ f.op \in Making => block'[f.o] = "making" /\ f.h # Temp /\ ptr[f.h] = Null
  /\ \A i \in 1..(Len(stack) - 1) : stack[i].op \in Of => stack[i].o # f.o
  /\ \A i \in DOMAIN stack : ~Needs(i, f.o)

LEMMA Becoming ==
  ASSUME IInv, NEW f, Becomes(f)
  PROVE  /\ StackInv' /\ stack' \in Seq(Frame)
         /\ \A x : Pointing(x)' = Pointing(x) /\ Temporaries(x)' = Temporaries(x)
<1> DEFINE n == Len(stack)
<1>1. /\ stack # <<>> /\ f \in Frame /\ stack' = Append(Below, f) /\ UNCHANGED ptr
      /\ f.op \in Of /\ f.h = Top.h /\ f.from \in {Top.from, Temp} /\ f.o \in Obj
      /\ Top.op # "destroy" /\ (Top.op = "reset" => f.op = "destroy") /\ (f.h = Temp => f.o = Top.o)
      /\ \A x \in Obj : x # f.o => block'[x] = block[x]
      /\ f.op = "destroy" => block'[f.o] = "dying" /\ (f.h # Temp => ptr[f.h] = f.o)
      /\ f.op \in Making => block'[f.o] = "making" /\ f.h # Temp /\ ptr[f.h] = Null
      /\ \A i \in 1..(n - 1) : stack[i].op \in Of => stack[i].o # f.o
      /\ \A i \in DOMAIN stack : ~Needs(i, f.o)
  BY DEF Becomes
<1>2. /\ stack' \in Seq(Frame) /\ Len(stack') = n /\ DOMAIN stack' = 1..n
      /\ \A i \in 1..(n - 1) : stack'[i] = stack[i]
      /\ stack'[n] = f
  BY <1>1, Replacing DEF IInv
<1>3. /\ n \in Nat /\ n \in DOMAIN stack /\ DOMAIN stack = 1..n /\ Top = stack[n]
      /\ Null \notin Obj /\ Temp \notin Obj
  BY <1>1, Popping, Stacks, Consts DEF IInv, Top, SHandle
<1> HIDE DEF n
<1>4. /\ \A i \in 1..n : i = n \/ i \in 1..(n - 1)
      /\ \A i \in 1..(n - 1) : i \in 1..n /\ i # n /\ i + 1 \in 1..n
      /\ \A j \in 1..n : 1..(j - 1) \subseteq 1..(n - 1)
  BY <1>3
<1>5. f.op = "destroy" \/ f.op \in Making BY <1>1 DEF Of, Making
<1>6. f.op \notin After /\ f.op # "reset" BY <1>1 DEF Of, After
<1>7. \A i \in 1..n : stack'[i].h = stack[i].h BY <1>1, <1>2, <1>3, <1>4
<1>8. Held'
  <2> SUFFICES ASSUME NEW i \in 1..n PROVE HeldAt(i)' BY <1>2 DEF Held
  <2>1. CASE i = n
    <3>1. f.op = "destroy" => f.op \notin Making BY DEF Making
    <3> QED BY <1>1, <1>2, <1>3, <1>5, <1>6, <2>1, <3>1 DEF HeldAt
  <2>2. CASE i \in 1..(n - 1)
    <3>1. stack'[i] = stack[i] /\ i # n /\ i \in DOMAIN stack BY <1>2, <1>3, <1>4, <2>2
    <3>2. HeldAt(i) BY <3>1 DEF IInv, Held
    <3>3. stack[i].op \in Of => block'[stack[i].o] = block[stack[i].o]
      <4>1. stack[i].op \in Of => stack[i].o \in Obj /\ stack[i].o # f.o BY <1>1, <2>2, <3>1, Owner
      <4> QED BY <1>1, <4>1
    <3>4. ASSUME stack[i].op \in After
          PROVE  stack'[i + 1].op \in {"reset", "destroy"} /\ stack'[i + 1].h = stack[i].h
      <4>1. stack[i + 1].op \in {"reset", "destroy"} /\ stack[i + 1].h = stack[i].h
        BY <3>1, <3>2, <3>4 DEF HeldAt, n
      <4>2. stack'[i + 1].h = stack[i + 1].h BY <1>4, <1>7, <2>2
      <4>3. CASE i + 1 = n BY <1>1, <1>2, <1>3, <4>1, <4>2, <4>3
      <4>4. CASE i + 1 # n BY <1>2, <1>4, <2>2, <4>1, <4>4
      <4> QED BY <4>3, <4>4
    <3>5. stack[i].op # "reset" BY <3>1, <3>2 DEF HeldAt, n
    <3>6. stack[i].op \in Making => stack[i].op \in Of BY DEF Making, Of
    <3>7. stack[i].op = "destroy" => stack[i].op \in Of BY DEF Of
    <3> QED BY <1>1, <1>2, <3>1, <3>2, <3>3, <3>4, <3>5, <3>6, <3>7 DEF HeldAt
  <2> QED BY <1>4, <2>1, <2>2
<1>9. Dying'
  <2>1. \A x \in Obj : block'[x] = "dying" => \E i \in 1..n : stack'[i].op = "destroy" /\ stack'[i].o = x
    <3> SUFFICES ASSUME NEW x \in Obj, block'[x] = "dying"
                 PROVE  \E i \in 1..n : stack'[i].op = "destroy" /\ stack'[i].o = x
      OBVIOUS
    <3>1. CASE x = f.o BY <1>1, <1>2, <1>3, <1>5, <3>1
    <3>2. CASE x # f.o
      <4>1. block[x] = "dying" BY <1>1, <3>2
      <4>2. PICK i \in 1..n : stack[i].op = "destroy" /\ stack[i].o = x
        BY <1>3, <4>1 DEF IInv, Dying
      <4>3. i \in 1..(n - 1) BY <1>1, <1>3, <1>4, <4>2
      <4> QED BY <1>2, <1>4, <4>2, <4>3
    <3> QED BY <3>1, <3>2
  <2>2. ASSUME NEW i \in 1..n, NEW j \in 1..n,
               stack'[i].op \in Of, stack'[j].op \in Of, stack'[i].o = stack'[j].o
        PROVE  i = j
    <3>1. CASE i \in 1..(n - 1) /\ j \in 1..(n - 1)
      BY <1>2, <1>3, <1>4, <2>2, <3>1 DEF IInv, Dying
    <3>2. CASE i \in 1..(n - 1) /\ j = n
      <4>1. stack[i].op \in Of /\ stack[i].o = f.o BY <1>2, <2>2, <3>2
      <4> QED BY <1>1, <3>2, <4>1
    <3>3. CASE i = n /\ j \in 1..(n - 1)
      <4>1. stack[j].op \in Of /\ stack[j].o = f.o BY <1>2, <2>2, <3>3
      <4> QED BY <1>1, <3>3, <4>1
    <3> QED BY <1>4, <3>1, <3>2, <3>3
  <2> QED BY <1>2, <2>1, <2>2 DEF Dying
<1>10. OneCall'
  <2> SUFFICES ASSUME NEW i \in 1..n, NEW j \in 1..n, i < j, stack'[i].h = stack'[j].h, stack'[i].h # Temp
               PROVE  j = i + 1 /\ stack'[i].op \in After
    BY <1>2 DEF OneCall
  <2>1. stack[i].h = stack[j].h /\ stack[i].h # Temp BY <1>7
  <2>2. j = i + 1 /\ stack[i].op \in After BY <1>3, <2>1 DEF IInv, OneCall
  <2>3. i \in 1..(n - 1) BY <1>3
  <2> QED BY <1>2, <2>2, <2>3
<1>11. Members'
  <2> SUFFICES ASSUME NEW j \in 1..n, NEW x \in Obj, Needs(j, x)' PROVE Kept(j, x)'
    BY <1>2 DEF Members
  <2>1. Needs(j, x) BY <1>1, <1>2, <1>3, <1>4 DEF Needs
  <2>2. x # f.o BY <1>1, <1>3, <2>1
  <2>3. Kept(j, x) BY <1>3, <2>1 DEF IInv, Members
  <2>4. \A i \in 1..(j - 1) : stack'[i] = stack[i] BY <1>2, <1>4
  <2> QED BY <1>1, <2>2, <2>3, <2>4 DEF Kept
<1>12. Sources'
  <2> SUFFICES ASSUME NEW j \in 1..n, stack'[j].op \in {"assign", "swap"}
               PROVE  LET t == stack'[j].from IN
                 /\ t # Temp /\ t # stack'[j].h
                 /\ stack'[j].op = "swap" => \A i \in 1..(j - 1) : stack'[i].h # t
    BY <1>2 DEF Sources
  <2>1. j \in 1..(n - 1) BY <1>2, <1>4, <1>6 DEF After
  <2>2. stack'[j] = stack[j] /\ j \in DOMAIN stack BY <1>2, <1>3, <1>4, <2>1
  <2>3. \A i \in 1..(j - 1) : stack'[i] = stack[i] BY <1>2, <1>4
  <2> QED BY <2>2, <2>3 DEF IInv, Sources
<1>13. ASSUME NEW x PROVE Pointing(x)' = Pointing(x) /\ Temporaries(x)' = Temporaries(x)
  <2>1. Pointing(x)' = Pointing(x) BY <1>1 DEF Pointing
  <2>2. \A i \in 1..n : stack'[i].h = Temp => stack'[i].o = stack[i].o BY <1>1, <1>2, <1>3, <1>4
  <2>3. Temporaries(x)' = Temporaries(x) BY <1>2, <1>3, <1>7, <2>2 DEF Temporaries
  <2> QED BY <2>1, <2>3
<1> QED BY <1>2, <1>8, <1>9, <1>10, <1>11, <1>12, <1>13 DEF StackInv

-----------------------------------------------------------------------------
(* Reset and the destruction of an object. *)

\* A Shared that is not the last of its object lets it go.
LEMMA ResetPopsInv ==
  ASSUME IInv, ResetStep, ~(Top.o # Null /\ strong[Top.o] = 1) PROVE IInv'
<1> DEFINE h == Top.h
           o == Top.o
           n == Len(stack)
<1>1. /\ Running("reset") /\ stack' = Below /\ strong' = Counting(o, strong, -1)
      /\ ptr' = IF h = Temp THEN ptr ELSE [ptr EXCEPT ![h] = Null]
      /\ sound' = (sound /\ Is(o, {"live", "dying"}))
      /\ UNCHANGED <<block, weak, wptr, harm>>
  BY DEF ResetStep, ResetKeeping
<1>2. /\ stack # <<>> /\ n \in DOMAIN stack /\ n \in Nat /\ Top = stack[n] /\ Top.op = "reset"
      /\ h \in SHandle \cup {Temp} /\ o \in Obj \cup {Null}
      /\ \A i \in DOMAIN stack : stack[i].h \in SHandle \cup {Temp}
  BY <1>1, OnTop
<1>3. h # Temp => ptr[h] = o
  <2>1. HeldAt(n) BY <1>2 DEF IInv, Held
  <2> QED BY <1>2, <2>1 DEF HeldAt
<1>4. ptr \in [SHandle -> Obj \cup {Null}] /\ strong \in [Obj -> Nat] /\ Null \notin Obj
  BY Consts DEF IInv, TypeOK
<1>5. \A k \in SHandle : ptr'[k] = IF k = h THEN Null ELSE ptr[k]
  <2>1. \A k \in SHandle : k # Temp BY Consts
  <2> QED BY <1>1, <1>2, <1>4, <2>1
<1>6. Handed
  <2>1. \A i \in 1..(n - 1) : stack[i].h # h /\ stack[i].h # Temp => ptr'[stack[i].h] = ptr[stack[i].h]
    <3>1. \A i \in 1..(n - 1) : i \in DOMAIN stack BY <1>1, BelowTop
    <3> QED BY <1>2, <1>5, <3>1
  <2>2. h # Temp => ptr'[h] = Null BY <1>2, <1>5
  <2> QED BY <1>1, <2>1, <2>2, Handing
<1>7. /\ StackInv' /\ stack' \in Seq(Frame)
      /\ \A x : Cardinality(Temporaries(x)') = Cardinality(Temporaries(x))
                  - (IF h = Temp /\ o = x THEN 1 ELSE 0)
  <2>1. "reset" \notin Of BY DEF Of
  <2> QED BY <1>1, <1>6, <2>1, RestLeaving
<1>8. \A x \in Obj : strong'[x] = strong[x] - (IF x = o THEN 1 ELSE 0)
  BY <1>1, <1>2, <1>4 DEF Counting
<1>9. o # Null => strong[o] > 1 /\ block[o] \in {"live", "dying"}
  <2>1. o # Null => strong[o] > 0 /\ block[o] \in {"live", "dying"} BY <1>2, <1>3, Alive
  <2> QED BY <1>2, <1>4, <2>1
<1>10. Counts'
  <2> SUFFICES ASSUME NEW x \in Obj PROVE CountAt(x)' BY DEF Counts
  <2>1. CountAt(x) /\ strong[x] \in Nat BY DEF IInv, TypeOK, Counts
  <2>2. Pointed(x)' = Pointed(x) BY <1>1 DEF Pointed
  <2>3. /\ Cardinality(Pointing(x)) \in Nat /\ Cardinality(Pointing(x)') \in Nat
        /\ Cardinality(Pointing(x)') = Cardinality(Pointing(x)) - (IF h # Temp /\ x = o THEN 1 ELSE 0)
    <3>1. CASE h = Temp
      <4>1. Pointing(x)' = Pointing(x) BY <1>1, <3>1 DEF Pointing
      <4> QED BY <3>1, <4>1, Cards
    <3>2. CASE h # Temp
      <4>1. h \in SHandle /\ ptr[h] = o /\ ptr'[h] = Null /\ Null # x
        BY <1>2, <1>3, <1>4, <1>5, <3>2
      <4>2. \A k \in SHandle : k # h => ptr'[k] = ptr[k] BY <1>5
      <4> QED BY <3>2, <4>1, <4>2, SharedMoved
    <3> QED BY <3>1, <3>2
  <2>4. Cardinality(Temporaries(x)) \in Nat BY Cards DEF IInv
  <2>5. Unheld(x)' = Unheld(x) /\ Unheld(x) \in Nat BY <1>1 DEF Unheld
  <2> HIDE DEF h, o
  <2>6. strong[x] = Cardinality(Pointing(x)) + Cardinality(Temporaries(x)) + Unheld(x)
    BY <2>1 DEF CountAt
  <2>7. strong'[x] = Cardinality(Pointing(x)') + Cardinality(Temporaries(x)') + Unheld(x)'
    BY <1>7, <1>8, <2>1, <2>3, <2>4, <2>5, <2>6
  <2>8. x = o => block[x] \in {"live", "dying"} /\ strong[x] > 1 BY <1>4, <1>9
  <2> QED BY <1>1, <1>8, <2>1, <2>2, <2>7, <2>8 DEF CountAt
<1>11. TypeOK'
  <2>1. \A x \in Obj : strong'[x] \in Nat
    <3> HIDE DEF o
    <3> QED BY <1>4, <1>8, <1>9
  <2>2. strong' = [x \in Obj |-> strong'[x]] BY <1>1, <1>4 DEF Counting
  <2>3. strong' \in [Obj -> Nat] BY <2>1, <2>2
  <2>4. ptr' \in [SHandle -> Obj \cup {Null}] BY <1>1, <1>4
  <2>5. sound' \in BOOLEAN BY <1>1
  <2> QED BY <1>1, <1>7, <2>3, <2>4, <2>5 DEF IInv, TypeOK
<1>12. sound' BY <1>1, <1>9 DEF IInv, Is
<1> QED BY <1>7, <1>10, <1>11, <1>12 DEF IInv, StackInv

\* The last Shared of an object starts its end.
LEMMA ResetDestroysInv ==
  ASSUME IInv, ResetStep, Top.o # Null, strong[Top.o] = 1, Top.o \notin Needed PROVE IInv'
<1> DEFINE h == Top.h
           o == Top.o
           n == Len(stack)
           f == Destroying(h, o)
<1>1. /\ Running("reset") /\ stack' = Append(Below, f)
      /\ block' = [block EXCEPT ![o] = "dying"] /\ strong' = [strong EXCEPT ![o] = 1]
      /\ sound' = (sound /\ Is(o, {"live"}))
      /\ UNCHANGED <<weak, ptr, wptr, harm>>
  BY DEF ResetStep, ResetKeeping
<1>2. /\ stack # <<>> /\ n \in DOMAIN stack /\ DOMAIN stack = 1..n /\ Top = stack[n]
      /\ Top.op = "reset" /\ h \in SHandle \cup {Temp} /\ o \in Obj
      /\ \A i \in DOMAIN stack : i = n \/ i \in 1..(n - 1)
  BY <1>1, OnTop
<1>3. h # Temp => ptr[h] = o
  <2>1. HeldAt(n) BY <1>2 DEF IInv, Held
  <2> QED BY <1>2, <2>1 DEF HeldAt
<1>4. \A i \in 1..(n - 1) : /\ i \in DOMAIN stack /\ i # n
                            /\ stack[i].h = h /\ h # Temp => stack[i].op \in After
  BY <1>1, BelowTop
<1>5. block[o] = "live"
  <2>1. block[o] \in {"live", "dying"} BY <1>2, <1>3, Alive
  <2>2. ASSUME block[o] = "dying" PROVE FALSE
    <3>1. PICK k \in DOMAIN stack : stack[k].op = "destroy" /\ stack[k].o = o
      BY <1>2, <2>2 DEF IInv, Dying
    <3>2. k # n /\ k \in 1..(n - 1) BY <1>2, <3>1
    <3>3. stack[k].op \notin After /\ stack[k].op \in Of BY <3>1 DEF After, Of
    <3>4. stack[k].h # Temp => stack[k].h \in SHandle /\ ptr[stack[k].h] = o BY <3>1, <3>3, Owner
    <3>5. h # Temp => stack[k].h # h BY <1>4, <3>2, <3>3
    <3>6. ~(strong[o] > 1) OBVIOUS
    <3>7. CASE h = Temp /\ stack[k].h = Temp BY <1>2, <3>1, <3>2, <3>6, <3>7, TwoHolders
    <3>8. CASE h = Temp /\ stack[k].h # Temp BY <1>2, <3>4, <3>6, <3>8, TwoHolders
    <3>9. CASE h # Temp /\ stack[k].h = Temp BY <1>2, <1>3, <3>1, <3>6, <3>9, TwoHolders
    <3>10. CASE h # Temp /\ stack[k].h # Temp BY <1>2, <1>3, <3>4, <3>5, <3>6, <3>10, TwoHolders
    <3> QED BY <3>7, <3>8, <3>9, <3>10
  <2> QED BY <2>1, <2>2
<1>6. /\ block \in [Obj -> {"free", "making", "live", "dying", "dead", "lost"}] /\ strong \in [Obj -> Nat]
      /\ strong' = strong /\ block'[o] = "dying" /\ \A x \in Obj : x # o => block'[x] = block[x]
  BY <1>1, <1>2 DEF IInv, TypeOK
<1>7. Becomes(f)
  <2>1. f \in Frame BY <1>2, Consts, CallTypes
  <2>2. f.op = "destroy" /\ f.h = h /\ f.o = o /\ f.from = Temp
    <3> HIDE DEF h, o
    <3> QED BY DEF Destroying, Call
  <2>3. "destroy" \in Of /\ "destroy" \notin Making BY DEF Of, Making
  <2>4. \A i \in 1..(n - 1) : stack[i].op \in Of => stack[i].o # o
    <3>1. \A i \in 1..(n - 1) : stack[i].op \in Of => block[stack[i].o] \in {"dying", "making"}
      BY <1>4, Owner
    <3> QED BY <1>5, <3>1
  <2>5. \A i \in DOMAIN stack : ~Needs(i, o) BY DEF Needed, Needs
  <2> HIDE DEF f, h, o
  <2>6. f.op \in Of /\ f.op \notin Making BY <2>2, <2>3
  <2>7. /\ f.h = Top.h /\ f.from \in {Top.from, Temp} /\ f.o \in Obj /\ Top.op # "destroy"
        /\ f.h = Temp => f.o = Top.o
    BY <1>2, <2>2 DEF h, o
  <2>8. block'[f.o] = "dying" /\ (f.h # Temp => ptr[f.h] = f.o) BY <1>3, <1>6, <2>2
  <2>9. \A i \in 1..(Len(stack) - 1) : stack[i].op \in Of => stack[i].o # f.o BY <2>2, <2>4 DEF n
  <2> QED BY <1>1, <1>2, <1>6, <2>1, <2>2, <2>5, <2>6, <2>7, <2>8, <2>9 DEF Becomes
<1> HIDE DEF f
<1>8. /\ StackInv' /\ stack' \in Seq(Frame)
      /\ \A x : Pointing(x)' = Pointing(x) /\ Temporaries(x)' = Temporaries(x)
  BY <1>7, Becoming
<1>9. Counts'
  <2> SUFFICES ASSUME NEW x \in Obj PROVE CountAt(x)' BY DEF Counts
  <2>1. CountAt(x) BY DEF IInv, Counts
  <2>2. Pointed(x)' = Pointed(x) BY <1>1 DEF Pointed
  <2>3. x = o => strong[x] = 1 /\ block[x] = "live" /\ block'[x] = "dying" BY <1>5, <1>6
  <2>4. x # o => block'[x] = block[x] BY <1>6
  <2> HIDE DEF o
  <2>5. CASE x = o BY <1>1, <1>6, <1>8, <2>1, <2>2, <2>3, <2>5 DEF CountAt, Unheld
  <2>6. CASE x # o BY <1>1, <1>6, <1>8, <2>1, <2>2, <2>4, <2>6 DEF CountAt, Unheld
  <2> QED BY <2>5, <2>6
<1>10. TypeOK'
  <2>1. block' \in [Obj -> {"free", "making", "live", "dying", "dead", "lost"}] BY <1>1, <1>6
  <2>2. sound' \in BOOLEAN BY <1>1
  <2> QED BY <1>1, <1>6, <1>8, <2>1, <2>2 DEF IInv, TypeOK
<1>11. sound' BY <1>1, <1>5 DEF IInv, Is
<1> QED BY <1>8, <1>9, <1>10, <1>11 DEF IInv, StackInv

LEMMA ResetStepInv == ASSUME IInv, ResetStep PROVE IInv'
<1>1. CASE Top.o # Null /\ strong[Top.o] = 1 /\ Top.o \in Needed
  <2>1. harm' = "holder" /\ UNCHANGED <<block, strong, weak, ptr, wptr, stack, sound>>
    BY <1>1 DEF ResetStep, ResetKeeping
  <2> QED BY <2>1, HarmInv
<1>2. CASE Top.o # Null /\ strong[Top.o] = 1 /\ Top.o \notin Needed BY <1>2, ResetDestroysInv
<1>3. CASE ~(Top.o # Null /\ strong[Top.o] = 1) BY <1>3, ResetPopsInv
<1> QED BY <1>1, <1>2, <1>3

\* The Shared that is a member of the object is reset.
LEMMA NextDestroyedInv == ASSUME IInv, NextDestroyed PROVE IInv'
<1> DEFINE m == Top.o
           n == Len(stack)
           d == [Top EXCEPT !.todo = @ \ {"next"}]
           c == Call("reset", m, ptr[m], Temp)
<1>1. /\ stack # <<>> /\ Top.op \in {"destroy", "unwind"} /\ Running(Top.op)
      /\ stack' = Append(Append(Below, d), c) /\ UNCHANGED <<block, strong, weak, ptr, wptr, sound, harm>>
  BY DEF NextDestroyed, Done, Ending, Running
<1>2. /\ n \in DOMAIN stack /\ DOMAIN stack = 1..n /\ n \in Nat /\ Top = stack[n] /\ Top \in Frame
  BY <1>1, OnTop
<1>3. Top.op \in Of BY <1>1 DEF Of
<1>4. m \in Obj /\ m \in SHandle /\ m # Temp /\ ptr \in [SHandle -> Obj \cup {Null}]
  BY <1>2, <1>3, Owner, Consts DEF IInv, TypeOK
<1>5. d \in Frame /\ d.op = Top.op /\ d.h = Top.h /\ d.o = Top.o /\ d.from = Top.from
  <2>1. Top \in Frame BY <1>2
  <2> QED BY <2>1 DEF Frame
<1>6. c \in Frame /\ c.op = "reset" /\ c.h = m /\ c.o = ptr[m] /\ c.from = Temp
  <2> HIDE DEF m
  <2>1. c \in Frame BY <1>4, ResetCallTyped
  <2> QED BY <2>1 DEF Call
<1>7. \A i \in 1..n : i = n \/ i \in 1..(n - 1)
  <2> HIDE DEF n
  <2> QED BY <1>2
<1>8. /\ stack' \in Seq(Frame) /\ Len(stack') = n + 1 /\ DOMAIN stack' = 1..(n + 1)
      /\ \A i \in 1..n : /\ stack'[i].op = stack[i].op /\ stack'[i].h = stack[i].h
                         /\ stack'[i].o = stack[i].o /\ stack'[i].from = stack[i].from
      /\ stack'[n + 1] = c
  <2>1. /\ n \in Nat /\ n > 0 /\ Below \in Seq(Frame) /\ Len(Below) = n - 1
        /\ \A i \in 1..(n - 1) : Below[i] = stack[i]
    BY <1>1, <1>2, Popping DEF IInv
  <2> DEFINE q == Append(Below, d)
  <2> HIDE DEF n, d, c
  <2>2. /\ q \in Seq(Frame) /\ Len(q) = Len(Below) + 1
        /\ \A i \in 1..Len(Below) : q[i] = Below[i]
        /\ q[Len(Below) + 1] = d
    BY <1>5, <2>1, AppendProperties
  <2>3. Len(Below) + 1 = n /\ Len(q) = n BY <2>1, <2>2
  <2>4. q[n] = d /\ \A i \in 1..(n - 1) : q[i] = stack[i] BY <2>1, <2>2, <2>3
  <2>5. stack' = Append(q, c) BY <1>1
  <2> HIDE DEF q
  <2>6. /\ stack' \in Seq(Frame) /\ Len(stack') = n + 1 /\ \A i \in 1..n : stack'[i] = q[i]
        /\ stack'[n + 1] = c
    BY <1>6, <2>2, <2>3, <2>5, AppendProperties
  <2>7. DOMAIN stack' = 1..(n + 1) BY <2>6, LenProperties
  <2>8. \A i \in 1..n : /\ q[i].op = stack[i].op /\ q[i].h = stack[i].h
                        /\ q[i].o = stack[i].o /\ q[i].from = stack[i].from
    BY <1>2, <1>5, <1>7, <2>4
  <2> QED BY <2>6, <2>7, <2>8
<1>9. stack[n].op \in Of /\ stack[n].o = m /\ stack[n].op \in {"destroy", "unwind"}
  BY <1>1, <1>2, <1>3
<1>10. \A i \in 1..n : stack[i].op # "reset"
  <2>1. \A i \in 1..n : stack[i].op = "reset" => i = n BY <1>2 DEF IInv, Held, HeldAt
  <2> QED BY <1>9, <2>1
<1>11. \A i \in 1..n : stack[i].h # m /\ stack[i].from # m BY <1>1, <1>2, <1>3, NotNeeded
<1> HIDE DEF m, n, d, c
<1>12. \A i \in 1..(n + 1) : i = n + 1 \/ i \in 1..n BY <1>2
<1>13. c.op \notin Of /\ c.op \notin After /\ c.op \notin Making BY <1>6 DEF Of, After, Making
<1>14. Held'
  <2> SUFFICES ASSUME NEW i \in 1..(n + 1) PROVE HeldAt(i)' BY <1>8 DEF Held
  <2>1. CASE i = n + 1
    <3>1. c.op # "destroy" BY <1>6
    <3> QED BY <1>1, <1>6, <1>8, <1>13, <2>1, <3>1 DEF HeldAt
  <2>2. CASE i \in 1..n
    <3>1. HeldAt(i) /\ stack[i].op # "reset" /\ i # n + 1 BY <1>2, <1>10, <2>2 DEF IInv, Held
    <3>2. stack[i].op \in After => /\ stack'[i + 1].op \in {"reset", "destroy"}
                                   /\ stack'[i + 1].h = stack[i].h
      <4>1. stack[i].op \in After => i # n BY <1>9 DEF After
      <4>2. i # n => i + 1 \in 1..n BY <1>2, <2>2
      <4> QED BY <1>8, <3>1, <4>1, <4>2 DEF HeldAt, n
    <3> QED BY <1>1, <1>8, <2>2, <3>1, <3>2 DEF HeldAt
  <2> QED BY <1>12, <2>1, <2>2
<1>15. Dying'
  <2>1. \A x \in Obj : block'[x] = "dying" => \E i \in 1..(n + 1) : stack'[i].op = "destroy" /\ stack'[i].o = x
    <3>1. \A x \in Obj : block[x] = "dying" => \E i \in 1..n : stack[i].op = "destroy" /\ stack[i].o = x
      BY <1>2 DEF IInv, Dying
    <3>2. \A i \in 1..n : i \in 1..(n + 1) BY <1>2
    <3> QED BY <1>1, <1>8, <3>1, <3>2
  <2>2. ASSUME NEW i \in 1..(n + 1), NEW j \in 1..(n + 1),
               stack'[i].op \in Of, stack'[j].op \in Of, stack'[i].o = stack'[j].o
        PROVE  i = j
    <3>1. i \in 1..n /\ j \in 1..n BY <1>8, <1>12, <1>13, <2>2
    <3> QED BY <1>2, <1>8, <2>2, <3>1 DEF IInv, Dying
  <2> QED BY <1>8, <2>1, <2>2 DEF Dying
<1>16. OneCall'
  <2> SUFFICES ASSUME NEW i \in 1..(n + 1), NEW j \in 1..(n + 1), i < j, stack'[i].h = stack'[j].h, stack'[i].h # Temp
               PROVE  j = i + 1 /\ stack'[i].op \in After
    BY <1>8 DEF OneCall
  <2>1. i \in 1..n BY <1>2
  <2>2. j # n + 1 BY <1>6, <1>8, <1>11, <2>1
  <2>3. j \in 1..n BY <1>12, <2>2
  <2> QED BY <1>2, <1>8, <2>1, <2>3 DEF IInv, OneCall
<1>17. Members'
  <2> SUFFICES ASSUME NEW j \in 1..(n + 1), NEW x \in Obj, Needs(j, x)' PROVE Kept(j, x)'
    BY <1>8 DEF Members
  <2>1. CASE j = n + 1
    <3>1. x = m BY <1>6, <1>8, <2>1, Consts DEF Needs
    <3>2. n \in 1..(j - 1) /\ n \in 1..n BY <1>2, <2>1
    <3> QED BY <1>8, <1>9, <3>1, <3>2 DEF Kept
  <2>2. CASE j \in 1..n
    <3>1. Needs(j, x) BY <1>8, <2>2 DEF Needs
    <3>2. Kept(j, x) BY <1>2, <2>2, <3>1 DEF IInv, Members
    <3>3. \A i \in 1..(j - 1) : i \in 1..n BY <1>2, <2>2
    <3> QED BY <1>1, <1>8, <3>2, <3>3 DEF Kept
  <2> QED BY <1>12, <2>1, <2>2
<1>18. Sources'
  <2> SUFFICES ASSUME NEW j \in 1..(n + 1), stack'[j].op \in {"assign", "swap"}
               PROVE  LET t == stack'[j].from IN
                 /\ t # Temp /\ t # stack'[j].h
                 /\ stack'[j].op = "swap" => \A i \in 1..(j - 1) : stack'[i].h # t
    BY <1>8 DEF Sources
  <2>1. j \in 1..n BY <1>6, <1>8, <1>12
  <2>2. \A i \in 1..(j - 1) : i \in 1..n BY <1>2, <2>1
  <2> QED BY <1>2, <1>8, <2>1, <2>2 DEF IInv, Sources
<1>19. Counts'
  <2> SUFFICES ASSUME NEW x \in Obj PROVE CountAt(x)' BY DEF Counts
  <2>1. CountAt(x) BY DEF IInv, Counts
  <2>2. Pointed(x)' = Pointed(x) /\ Pointing(x)' = Pointing(x) BY <1>1 DEF Pointed, Pointing
  <2>3. Temporaries(x)' = Temporaries(x)
    <3>1. \A k : k \in 1..n <=> k \in 1..(n + 1) /\ k # n + 1 BY <1>2
    <3>2. stack'[n + 1].h # Temp BY <1>4, <1>6, <1>8
    <3>3. \A k : k \in Temporaries(x)' <=> k \in Temporaries(x)
      BY <1>2, <1>8, <3>1, <3>2 DEF Temporaries
    <3>4. Temporaries(x) \subseteq 1..n /\ Temporaries(x)' \subseteq 1..(n + 1)
      BY <1>2, <1>8 DEF Temporaries
    <3> QED BY <3>3, <3>4
  <2> QED BY <1>1, <2>1, <2>2, <2>3 DEF CountAt, Unheld
<1>20. TypeOK' BY <1>1, <1>8 DEF IInv, TypeOK
<1> QED BY <1>1, <1>14, <1>15, <1>16, <1>17, <1>18, <1>19, <1>20 DEF IInv, StackInv

\* The object is gone: the Shared that was the last one points nowhere.
LEMMA DestroyedInv == ASSUME IInv, Destroyed PROVE IInv'
<1> DEFINE h == Top.h
           o == Top.o
           n == Len(stack)
<1>1. /\ Running("destroy") /\ stack' = Below /\ strong[o] <= 1
      /\ ptr' = IF h = Temp THEN ptr ELSE [ptr EXCEPT ![h] = Null]
      /\ block' = [block EXCEPT ![o] = IF weak[o] = 0 THEN "free" ELSE "dead"]
      /\ strong' = [strong EXCEPT ![o] = 0]
      /\ sound' = (sound /\ Is(o, {"dying"}) /\ Exists(h))
      /\ UNCHANGED <<weak, wptr, harm>>
  BY DEF Destroyed
<1>2. /\ n \in DOMAIN stack /\ Top = stack[n] /\ Top.op = "destroy" /\ h \in SHandle \cup {Temp}
      /\ \A i \in DOMAIN stack : stack[i].h \in SHandle \cup {Temp}
  BY <1>1, OnTop
<1>3. "destroy" \in Of BY DEF Of
<1>4. o \in Obj /\ block[o] = "dying" /\ (h # Temp => ptr[h] = o) BY <1>2, <1>3, Owner
<1>5. /\ ptr \in [SHandle -> Obj \cup {Null}] /\ strong \in [Obj -> Nat] /\ weak \in [Obj -> Nat]
      /\ block \in [Obj -> {"free", "making", "live", "dying", "dead", "lost"}] /\ Null \notin Obj
  BY Consts DEF IInv, TypeOK
<1>6. strong[o] = 1
  <2>1. CountAt(o) BY <1>4 DEF IInv, Counts
  <2> QED BY <1>1, <1>4, <1>5, <2>1 DEF CountAt
<1>7. \A k \in SHandle : ptr'[k] = IF k = h THEN Null ELSE ptr[k]
  <2>1. \A k \in SHandle : k # Temp BY Consts
  <2> QED BY <1>1, <1>2, <1>5, <2>1
<1>8. Handed
  <2>1. \A i \in 1..(n - 1) : stack[i].h # h /\ stack[i].h # Temp => ptr'[stack[i].h] = ptr[stack[i].h]
    <3>1. \A i \in 1..(n - 1) : i \in DOMAIN stack BY <1>1, BelowTop
    <3> QED BY <1>2, <1>7, <3>1
  <2>2. h # Temp => ptr'[h] = Null BY <1>2, <1>7
  <2> QED BY <1>1, <2>1, <2>2, Handing
<1>9. /\ block'[o] = IF weak[o] = 0 THEN "free" ELSE "dead"
      /\ \A x \in Obj : x # o => block'[x] = block[x]
  BY <1>1, <1>4, <1>5
<1>10. /\ StackInv' /\ stack' \in Seq(Frame)
       /\ \A x : Cardinality(Temporaries(x)') = Cardinality(Temporaries(x))
                   - (IF h = Temp /\ o = x THEN 1 ELSE 0)
  <2>1. block'[o] # "dying" BY <1>9
  <2> QED BY <1>1, <1>3, <1>8, <1>9, <2>1, OfLeaving
<1>11. \A x \in Obj : strong'[x] = strong[x] - (IF x = o THEN 1 ELSE 0) BY <1>1, <1>4, <1>5, <1>6
<1>12. Counts'
  <2> SUFFICES ASSUME NEW x \in Obj PROVE CountAt(x)' BY DEF Counts
  <2>1. CountAt(x) /\ strong[x] \in Nat /\ weak[x] \in Nat BY <1>5 DEF IInv, Counts
  <2>2. Pointed(x)' = Pointed(x) BY <1>1 DEF Pointed
  <2>3. /\ Cardinality(Pointing(x)) \in Nat
        /\ Cardinality(Pointing(x)') = Cardinality(Pointing(x)) - (IF h # Temp /\ x = o THEN 1 ELSE 0)
    <3>1. CASE h = Temp
      <4>1. Pointing(x)' = Pointing(x) BY <1>1, <3>1 DEF Pointing
      <4> QED BY <3>1, <4>1, Cards
    <3>2. CASE h # Temp
      <4>1. h \in SHandle /\ ptr[h] = o /\ ptr'[h] = Null /\ Null # x
        BY <1>2, <1>4, <1>5, <1>7, <3>2
      <4>2. \A k \in SHandle : k # h => ptr'[k] = ptr[k] BY <1>7
      <4> QED BY <3>2, <4>1, <4>2, SharedMoved
    <3> QED BY <3>1, <3>2
  <2>4. Cardinality(Temporaries(x)) \in Nat BY Cards DEF IInv
  <2>5. Unheld(x)' = Unheld(x) /\ Unheld(x) \in Nat BY <1>4, <1>9 DEF Unheld
  <2>6. strong[x] = Cardinality(Pointing(x)) + Cardinality(Temporaries(x)) + Unheld(x)
    BY <2>1 DEF CountAt
  <2>7. x = o => strong'[x] = 0 /\ block'[x] = IF weak[x] = 0 THEN "free" ELSE "dead"
    BY <1>6, <1>9, <1>11
  <2>8. x # o => strong'[x] = strong[x] /\ block'[x] = block[x] BY <1>9, <1>11, <2>1
  <2> HIDE DEF o, h
  <2>9. strong'[x] = Cardinality(Pointing(x)') + Cardinality(Temporaries(x)') + Unheld(x)'
    BY <1>10, <1>11, <2>1, <2>3, <2>4, <2>5, <2>6
  <2>10. CASE x = o BY <1>1, <2>1, <2>2, <2>7, <2>9, <2>10 DEF CountAt
  <2>11. CASE x # o BY <1>1, <2>1, <2>2, <2>8, <2>9, <2>11 DEF CountAt
  <2> QED BY <2>10, <2>11
<1>13. TypeOK'
  <2>1. strong' \in [Obj -> Nat] BY <1>1, <1>4, <1>5
  <2>2. ptr' \in [SHandle -> Obj \cup {Null}] BY <1>1, <1>5
  <2>3. block' \in [Obj -> {"free", "making", "live", "dying", "dead", "lost"}] BY <1>1, <1>5
  <2>4. sound' \in BOOLEAN BY <1>1
  <2> QED BY <1>1, <1>10, <2>1, <2>2, <2>3, <2>4 DEF IInv, TypeOK
<1>14. sound'
  <2>1. Exists(h)
    <3>1. h \in Obj => Needs(n, h) BY <1>2 DEF Needs
    <3>2. h \in Obj => block[h] \in {"live", "dying", "making"} BY <1>2, <3>1, Standing
    <3> QED BY <3>2 DEF Exists
  <2> QED BY <1>1, <1>4, <2>1 DEF IInv, Is
<1> QED BY <1>10, <1>12, <1>13, <1>14 DEF IInv, StackInv

-----------------------------------------------------------------------------
(* What follows a Reset, and constructors. *)

\* The Shared that the rest of a call is for, and the one it takes from.
LEMMA RestIs ==
  ASSUME IInv, NEW op \in After, Running(op)
  PROVE  /\ Top.h \in SHandle /\ ptr[Top.h] = Null /\ Exists(Top.h) /\ op \notin Of
         /\ op \in {"assign", "swap"} =>
              Top.from \in SHandle /\ Top.from # Top.h /\ Exists(Top.from)
         /\ op = "swap" => \A i \in 1..(Len(stack) - 1) : stack[i].h # Top.from
<1> DEFINE n == Len(stack)
<1>1. /\ n \in DOMAIN stack /\ Top = stack[n] /\ Top.op = op
      /\ Top.h \in SHandle \cup {Temp} /\ Top.from \in SHandle \cup {Temp}
  BY OnTop
<1>2. Top.h # Temp /\ ptr[Top.h] = Null
  <2>1. HeldAt(n) BY <1>1 DEF IInv, Held
  <2> QED BY <1>1, <2>1 DEF HeldAt
<1>3. op \in {"assign", "swap"} => Top.from # Temp /\ Top.from # Top.h BY <1>1 DEF IInv, Sources
<1>4. op = "swap" => \A i \in 1..(Len(stack) - 1) : stack[i].h # Top.from
  BY <1>1 DEF IInv, Sources
<1>5. Exists(Top.h) /\ Exists(Top.from)
  <2>1. Needs(n, Top.h) /\ Needs(n, Top.from) BY <1>1 DEF Needs
  <2>2. Top.h \in Obj => block[Top.h] \in {"live", "dying", "making"} BY <1>1, <2>1, Standing
  <2>3. Top.from \in Obj => block[Top.from] \in {"live", "dying", "making"} BY <1>1, <2>1, Standing
  <2> QED BY <2>2, <2>3 DEF Exists
<1>6. op \notin Of BY DEF After, Of
<1> QED BY <1>1, <1>2, <1>3, <1>4, <1>5, <1>6

LEMMA AssignStepInv == ASSUME IInv, AssignStep PROVE IInv'
<1> DEFINE s == Top.h
           t == Top.from
           o == ptr[t]
<1>1. /\ Running("assign") /\ stack' = Below
      /\ ptr' = [ptr EXCEPT ![s] = o] /\ strong' = Counting(o, strong, 1)
      /\ sound' = (sound /\ Exists(s) /\ Exists(t) /\ Is(o, {"live", "dying"}))
      /\ UNCHANGED <<block, weak, wptr, harm>>
  BY DEF AssignStep
<1>2. "assign" \in After BY DEF After
<1>3. /\ s \in SHandle /\ ptr[s] = Null /\ Exists(s) /\ "assign" \notin Of
      /\ t \in SHandle /\ t # s /\ Exists(t)
  BY <1>1, <1>2, RestIs
<1>4. /\ ptr \in [SHandle -> Obj \cup {Null}] /\ strong \in [Obj -> Nat] /\ Null \notin Obj
      /\ \A i \in DOMAIN stack : stack[i].h \in SHandle \cup {Temp}
      /\ \A i \in 1..(Len(stack) - 1) : i \in DOMAIN stack
  BY <1>1, Consts, OnTop, BelowTop DEF IInv, TypeOK
<1>5. o \in Obj \cup {Null} /\ (o # Null => strong[o] > 0 /\ block[o] \in {"live", "dying"})
  BY <1>3, <1>4, Alive
<1>6. \A k \in SHandle : k # s => ptr'[k] = ptr[k] BY <1>1, <1>4
<1>7. ptr'[s] = o BY <1>1, <1>3, <1>4
<1>8. Handed
  <2>1. \A i \in 1..(Len(stack) - 1) : stack[i].h # Top.h /\ stack[i].h # Temp
          => ptr'[stack[i].h] = ptr[stack[i].h]
    BY <1>4, <1>6
  <2> QED BY <1>1, <2>1, Handing
<1>9. /\ StackInv' /\ stack' \in Seq(Frame)
      /\ \A x : Cardinality(Temporaries(x)') = Cardinality(Temporaries(x))
  <2>1. s # Temp BY <1>3, Consts
  <2>2. \A x : Cardinality(Temporaries(x)) \in Nat BY Cards DEF IInv
  <2>3. /\ StackInv' /\ stack' \in Seq(Frame)
        /\ \A x : Cardinality(Temporaries(x)') = Cardinality(Temporaries(x))
                    - (IF Top.h = Temp /\ Top.o = x THEN 1 ELSE 0)
    BY <1>1, <1>3, <1>8, RestLeaving
  <2> QED BY <2>1, <2>2, <2>3
<1> HIDE DEF s, t, o
<1>10. \A x \in Obj : strong'[x] = strong[x] + (IF x = o THEN 1 ELSE 0)
  BY <1>1, <1>4, <1>5 DEF Counting
<1>11. Counts'
  <2> SUFFICES ASSUME NEW x \in Obj PROVE CountAt(x)' BY DEF Counts
  <2>1. CountAt(x) /\ strong[x] \in Nat BY <1>4 DEF IInv, Counts
  <2>2. Pointed(x)' = Pointed(x) BY <1>1 DEF Pointed
  <2>3. /\ Cardinality(Pointing(x)) \in Nat
        /\ Cardinality(Pointing(x)') = Cardinality(Pointing(x)) + (IF x = o THEN 1 ELSE 0)
    <3>1. ptr[s] # x BY <1>3, <1>4
    <3> QED BY <1>3, <1>6, <1>7, <3>1, SharedMoved
  <2>4. Cardinality(Temporaries(x)) \in Nat BY Cards DEF IInv
  <2>5. Unheld(x)' = Unheld(x) /\ Unheld(x) \in Nat BY <1>1 DEF Unheld
  <2>6. strong[x] = Cardinality(Pointing(x)) + Cardinality(Temporaries(x)) + Unheld(x)
    BY <2>1 DEF CountAt
  <2>7. strong'[x] = Cardinality(Pointing(x)') + Cardinality(Temporaries(x)') + Unheld(x)'
    BY <1>9, <1>10, <2>3, <2>4, <2>5, <2>6
  <2>8. x = o => block[x] \in {"live", "dying"} BY <1>4, <1>5
  <2> QED BY <1>1, <1>10, <2>1, <2>2, <2>7, <2>8 DEF CountAt
<1>12. TypeOK'
  <2>1. \A x \in Obj : strong'[x] \in Nat BY <1>4, <1>10
  <2>2. strong' = [x \in Obj |-> strong'[x]] BY <1>1, <1>4 DEF Counting
  <2>3. strong' \in [Obj -> Nat] BY <2>1, <2>2
  <2>4. ptr' \in [SHandle -> Obj \cup {Null}] BY <1>1, <1>4, <1>5
  <2>5. sound' \in BOOLEAN BY <1>1
  <2> QED BY <1>1, <1>9, <2>3, <2>4, <2>5 DEF IInv, TypeOK
<1>13. sound' BY <1>1, <1>3, <1>5 DEF IInv, Is
<1> QED BY <1>9, <1>11, <1>12, <1>13 DEF IInv, StackInv

LEMMA SwapStepInv == ASSUME IInv, SwapStep PROVE IInv'
<1> DEFINE s == Top.h
           t == Top.from
<1>1. /\ Running("swap") /\ stack' = Below
      /\ ptr' = [ptr EXCEPT ![s] = ptr[t], ![t] = ptr[s]]
      /\ sound' = (sound /\ Exists(s) /\ Exists(t))
      /\ UNCHANGED <<block, strong, weak, wptr, harm>>
  BY DEF SwapStep
<1>2. "swap" \in After BY DEF After
<1>3. /\ s \in SHandle /\ ptr[s] = Null /\ Exists(s) /\ "swap" \notin Of
      /\ t \in SHandle /\ t # s /\ Exists(t) /\ \A i \in 1..(Len(stack) - 1) : stack[i].h # t
  BY <1>1, <1>2, RestIs
<1>4. /\ ptr \in [SHandle -> Obj \cup {Null}]
      /\ \A i \in DOMAIN stack : stack[i].h \in SHandle \cup {Temp}
      /\ \A i \in 1..(Len(stack) - 1) : i \in DOMAIN stack
  BY <1>1, OnTop, BelowTop DEF IInv, TypeOK
<1>5. \A k \in SHandle : k # s /\ k # t => ptr'[k] = ptr[k] BY <1>1, <1>4
<1>6. ptr'[s] = ptr[t] /\ ptr'[t] = ptr[s] BY <1>1, <1>3, <1>4
<1>7. Handed
  <2>1. \A i \in 1..(Len(stack) - 1) : stack[i].h # Top.h /\ stack[i].h # Temp
          => ptr'[stack[i].h] = ptr[stack[i].h]
    BY <1>3, <1>4, <1>5
  <2> QED BY <1>1, <2>1, Handing
<1>8. /\ StackInv' /\ stack' \in Seq(Frame)
      /\ \A x : Cardinality(Temporaries(x)') = Cardinality(Temporaries(x))
  <2>1. s # Temp BY <1>3, Consts
  <2>2. \A x : Cardinality(Temporaries(x)) \in Nat BY Cards DEF IInv
  <2>3. /\ StackInv' /\ stack' \in Seq(Frame)
        /\ \A x : Cardinality(Temporaries(x)') = Cardinality(Temporaries(x))
                    - (IF Top.h = Temp /\ Top.o = x THEN 1 ELSE 0)
    BY <1>1, <1>3, <1>7, RestLeaving
  <2> QED BY <2>1, <2>2, <2>3
<1>9. Counts'
  <2> SUFFICES ASSUME NEW x \in Obj PROVE CountAt(x)' BY DEF Counts
  <2>1. CountAt(x) BY DEF IInv, Counts
  <2>2. Pointed(x)' = Pointed(x) BY <1>1 DEF Pointed
  <2>3. Cardinality(Pointing(x)') = Cardinality(Pointing(x))
    <3> HIDE DEF s, t
    <3> QED BY <1>3, <1>5, <1>6, SharedSwapped
  <2> QED BY <1>1, <1>8, <2>1, <2>2, <2>3 DEF CountAt, Unheld
<1>10. TypeOK'
  <2>1. ptr[s] \in Obj \cup {Null} /\ ptr[t] \in Obj \cup {Null} BY <1>3, <1>4
  <2>2. ptr' \in [SHandle -> Obj \cup {Null}] BY <1>1, <1>4, <2>1
  <2>3. sound' \in BOOLEAN BY <1>1
  <2> QED BY <1>1, <1>8, <2>2, <2>3 DEF IInv, TypeOK
<1>11. sound' BY <1>1, <1>3 DEF IInv
<1> QED BY <1>8, <1>9, <1>10, <1>11 DEF IInv, StackInv

\* The new object gets a block that no handle has.
LEMMA EmplaceStepInv == ASSUME IInv, EmplaceStep PROVE IInv'
<1>1. Running("emplace") /\ UNCHANGED <<ptr, wptr, sound, harm>> BY DEF EmplaceStep
<1>2. PICK o \in Obj : /\ block[o] = "free"
                       /\ block' = [block EXCEPT ![o] = "making"]
                       /\ strong' = [strong EXCEPT ![o] = 1]
                       /\ weak' = [weak EXCEPT ![o] = 0]
                       /\ stack' = Append(Below, Constructing(Top.h, o))
  BY DEF EmplaceStep
<1> DEFINE s == Top.h
           f == Constructing(s, o)
<1>3. "emplace" \in After BY DEF After
<1>4. s \in SHandle /\ ptr[s] = Null /\ s # Temp BY <1>1, <1>3, RestIs, Consts
<1>5. /\ stack # <<>> /\ Top.op = "emplace" /\ Top.from \in SHandle \cup {Temp}
      /\ \A i \in 1..(Len(stack) - 1) : i \in DOMAIN stack
  BY <1>1, OnTop, BelowTop
<1>6. /\ strong \in [Obj -> Nat] /\ weak \in [Obj -> Nat]
      /\ block \in [Obj -> {"free", "making", "live", "dying", "dead", "lost"}]
  BY DEF IInv, TypeOK
<1>7. strong[o] = 0 /\ weak[o] = 0
  <2>1. CountAt(o) BY DEF IInv, Counts
  <2> QED BY <1>2, <2>1 DEF CountAt
<1>8. block'[o] = "making" /\ \A x \in Obj : x # o => block'[x] = block[x] BY <1>2, <1>6
<1>9. Becomes(f)
  <2>1. /\ f \in Frame /\ f.op = "construct" /\ f.h = s /\ f.o = o /\ f.from = Temp
    <3> HIDE DEF s
    <3> QED BY <1>4 DEF Constructing, Call, Frame, Part
  <2>2. "construct" \in Of /\ "construct" \in Making BY DEF Of, Making
  <2>3. \A i \in 1..(Len(stack) - 1) : stack[i].op \in Of => stack[i].o # o
    <3>1. \A i \in 1..(Len(stack) - 1) : stack[i].op \in Of => block[stack[i].o] \in {"dying", "making"}
      BY <1>5, Owner
    <3> QED BY <1>2, <3>1
  <2>4. \A i \in DOMAIN stack : ~Needs(i, o) BY <1>2, Standing
  <2> HIDE DEF f
  <2>5. stack' = Append(Below, f) BY <1>2 DEF f
  <2> QED BY <1>1, <1>4, <1>5, <1>8, <2>1, <2>2, <2>3, <2>4, <2>5 DEF Becomes
<1> HIDE DEF f
<1>10. /\ StackInv' /\ stack' \in Seq(Frame)
       /\ \A x : Pointing(x)' = Pointing(x) /\ Temporaries(x)' = Temporaries(x)
  BY <1>9, Becoming
<1>11. Counts'
  <2> SUFFICES ASSUME NEW x \in Obj PROVE CountAt(x)' BY DEF Counts
  <2>1. CountAt(x) /\ strong[x] \in Nat BY <1>6 DEF IInv, Counts
  <2>2. Pointed(x)' = Pointed(x) BY <1>1 DEF Pointed
  <2>3. Cardinality(Pointing(x)) \in Nat /\ Cardinality(Temporaries(x)) \in Nat BY Cards DEF IInv
  <2>4. CASE x = o
    <3>1. strong'[x] = 1 /\ weak'[x] = 0 BY <1>2, <1>6, <2>4
    <3>2. Unheld(x) = 0 /\ Unheld(x)' = 1 BY <1>2, <1>8, <2>4 DEF Unheld
    <3>3. Cardinality(Pointing(x)) = 0 /\ Cardinality(Temporaries(x)) = 0 /\ Cardinality(Pointed(x)) = 0
      BY <1>7, <2>1, <2>3, <2>4, <3>2 DEF CountAt
    <3> QED BY <1>8, <1>10, <2>2, <2>4, <3>1, <3>2, <3>3 DEF CountAt
  <2>5. CASE x # o
    <3>1. strong'[x] = strong[x] /\ weak'[x] = weak[x] /\ block'[x] = block[x]
      BY <1>2, <1>6, <1>8, <2>5
    <3> QED BY <1>10, <2>1, <2>2, <3>1 DEF CountAt, Unheld
  <2> QED BY <2>4, <2>5
<1>12. TypeOK'
  <2>1. /\ strong' \in [Obj -> Nat] /\ weak' \in [Obj -> Nat]
        /\ block' \in [Obj -> {"free", "making", "live", "dying", "dead", "lost"}]
    BY <1>2, <1>6
  <2> QED BY <1>1, <1>10, <2>1 DEF IInv, TypeOK
<1> QED BY <1>1, <1>10, <1>11, <1>12 DEF IInv, StackInv

\* The new object is there, and the Shared that waited for it has it.
LEMMA ConstructedInv == ASSUME IInv, Constructed PROVE IInv'
<1> DEFINE s == Top.h
           o == Top.o
<1>1. /\ Running("construct") /\ stack' = Below
      /\ ptr' = [ptr EXCEPT ![s] = o] /\ block' = [block EXCEPT ![o] = "live"]
      /\ sound' = (sound /\ Exists(s)) /\ UNCHANGED <<strong, weak, wptr, harm>>
  BY DEF Constructed
<1>2. /\ Len(stack) \in DOMAIN stack /\ Top = stack[Len(stack)] /\ Top.op = "construct"
      /\ \A i \in DOMAIN stack : stack[i].h \in SHandle \cup {Temp}
      /\ \A i \in 1..(Len(stack) - 1) : i \in DOMAIN stack
  BY <1>1, OnTop, BelowTop
<1>3. "construct" \in Of /\ "construct" \in Making BY DEF Of, Making
<1>4. o \in Obj /\ block[o] = "making" /\ s # Temp /\ s \in SHandle /\ ptr[s] = Null
  BY <1>2, <1>3, Owner
<1>5. /\ ptr \in [SHandle -> Obj \cup {Null}] /\ strong \in [Obj -> Nat] /\ Null \notin Obj
      /\ block \in [Obj -> {"free", "making", "live", "dying", "dead", "lost"}]
  BY Consts DEF IInv, TypeOK
<1>6. ptr'[s] = o /\ \A k \in SHandle : k # s => ptr'[k] = ptr[k] BY <1>1, <1>4, <1>5
<1>7. block'[o] = "live" /\ \A x \in Obj : x # o => block'[x] = block[x] BY <1>1, <1>4, <1>5
<1>8. Handed
  <2>1. \A i \in 1..(Len(stack) - 1) : stack[i].h # Top.h /\ stack[i].h # Temp
          => ptr'[stack[i].h] = ptr[stack[i].h]
    BY <1>2, <1>6
  <2> QED BY <1>1, <2>1, Handing
<1>9. /\ StackInv' /\ stack' \in Seq(Frame)
      /\ \A x : Cardinality(Temporaries(x)') = Cardinality(Temporaries(x))
  <2>1. \A x : Cardinality(Temporaries(x)) \in Nat BY Cards DEF IInv
  <2>2. block'[o] # "dying" BY <1>7
  <2>3. /\ StackInv' /\ stack' \in Seq(Frame)
        /\ \A x : Cardinality(Temporaries(x)') = Cardinality(Temporaries(x))
                    - (IF Top.h = Temp /\ Top.o = x THEN 1 ELSE 0)
    BY <1>1, <1>3, <1>7, <1>8, <2>2, OfLeaving
  <2> QED BY <1>4, <2>1, <2>3
<1>10. Counts'
  <2> SUFFICES ASSUME NEW x \in Obj PROVE CountAt(x)' BY DEF Counts
  <2>1. CountAt(x) BY DEF IInv, Counts
  <2>2. Pointed(x)' = Pointed(x) BY <1>1 DEF Pointed
  <2>3. /\ Cardinality(Pointing(x)) \in Nat /\ Cardinality(Temporaries(x)) \in Nat
        /\ Cardinality(Pointing(x)') = Cardinality(Pointing(x)) + (IF x = o THEN 1 ELSE 0)
    <3>1. ptr[s] # x BY <1>4, <1>5
    <3> HIDE DEF s, o
    <3> QED BY <1>4, <1>6, <3>1, SharedMoved, Cards DEF IInv
  <2> HIDE DEF s, o
  <2>4. CASE x = o
    <3>1. Unheld(x) = 1 /\ Unheld(x)' = 0 BY <1>4, <1>7, <2>4 DEF Unheld
    <3>2. /\ strong[x] = Cardinality(Pointing(x)) + Cardinality(Temporaries(x)) + Unheld(x)
          /\ strong[x] = 1 /\ weak[x] = Cardinality(Pointed(x))
      BY <1>4, <2>1, <2>4 DEF CountAt
    <3>3. strong'[x] = Cardinality(Pointing(x)') + Cardinality(Temporaries(x)') + Unheld(x)'
      BY <1>1, <1>9, <2>3, <2>4, <3>1, <3>2
    <3> QED BY <1>1, <1>7, <2>2, <2>4, <3>2, <3>3 DEF CountAt
  <2>5. CASE x # o BY <1>1, <1>7, <1>9, <2>1, <2>2, <2>3, <2>5 DEF CountAt, Unheld
  <2> QED BY <2>4, <2>5
<1>11. TypeOK'
  <2>1. ptr' \in [SHandle -> Obj \cup {Null}] BY <1>1, <1>4, <1>5
  <2>2. block' \in [Obj -> {"free", "making", "live", "dying", "dead", "lost"}] BY <1>1, <1>5
  <2>3. sound' \in BOOLEAN BY <1>1
  <2> QED BY <1>1, <1>9, <2>1, <2>2, <2>3 DEF IInv, TypeOK
<1>12. sound'
  <2>1. Needs(Len(stack), s) BY <1>2 DEF Needs
  <2>2. s \in Obj => block[s] \in {"live", "dying", "making"} BY <1>2, <2>1, Standing
  <2> QED BY <1>1, <2>2 DEF IInv, Exists
<1> QED BY <1>9, <1>10, <1>11, <1>12 DEF IInv, StackInv

LEMMA ThrownInv == ASSUME IInv, Thrown PROVE IInv'
<1> DEFINE f == [Top EXCEPT !.op = "unwind", !.todo = {"link", "next"}]
<1>1. /\ Running("construct") /\ stack' = Append(Below, f)
      /\ UNCHANGED <<block, strong, weak, ptr, wptr, sound, harm>>
  BY DEF Thrown
<1>2. /\ stack # <<>> /\ Len(stack) \in DOMAIN stack /\ Top = stack[Len(stack)]
      /\ Top.op = "construct" /\ Top \in Frame
      /\ \A i \in 1..(Len(stack) - 1) : i \in DOMAIN stack /\ i # Len(stack)
  BY <1>1, OnTop, BelowTop
<1>3. "construct" \in Of /\ "construct" \in Making BY DEF Of, Making
<1>4. Top.o \in Obj /\ block[Top.o] = "making" /\ Top.h # Temp /\ ptr[Top.h] = Null
  BY <1>2, <1>3, Owner
<1>5. Becomes(f)
  <2>1. f \in Frame /\ f.op = "unwind" /\ f.h = Top.h /\ f.o = Top.o /\ f.from = Top.from
    <3>1. Top \in Frame BY <1>2
    <3> QED BY <3>1 DEF Frame, Part
  <2>2. "unwind" \in Of /\ "unwind" \in Making BY DEF Of, Making
  <2>3. \A i \in 1..(Len(stack) - 1) : stack[i].op \in Of => stack[i].o # Top.o
    BY <1>2, <1>3 DEF IInv, Dying
  <2>4. \A i \in DOMAIN stack : ~Needs(i, Top.o) BY <1>2, <1>3, NotNeeded DEF Needs
  <2> HIDE DEF f
  <2> QED BY <1>1, <1>2, <1>4, <2>1, <2>2, <2>3, <2>4 DEF Becomes
<1> HIDE DEF f
<1>6. /\ StackInv' /\ stack' \in Seq(Frame)
      /\ \A x : Pointing(x)' = Pointing(x) /\ Temporaries(x)' = Temporaries(x)
  BY <1>5, Becoming
<1>7. Counts'
  <2>1. \A x : Pointed(x)' = Pointed(x) BY <1>1 DEF Pointed
  <2> QED BY <1>1, <1>6, <2>1 DEF IInv, Counts, CountAt, Unheld
<1>8. TypeOK' /\ sound' BY <1>1, <1>6 DEF IInv, TypeOK
<1> QED BY <1>6, <1>7, <1>8 DEF IInv, StackInv

LEMMA UnwoundInv == ASSUME IInv, Unwound PROVE IInv'
<1> DEFINE o == Top.o
<1>1. /\ Running("unwind") /\ stack' = Below /\ block' = [block EXCEPT ![o] = "lost"]
      /\ UNCHANGED <<strong, weak, ptr, wptr, sound, harm>>
  BY DEF Unwound
<1>2. /\ Len(stack) \in DOMAIN stack /\ Top = stack[Len(stack)] /\ Top.op = "unwind"
      /\ \A i \in DOMAIN stack : stack[i].h \in SHandle \cup {Temp}
  BY <1>1, OnTop
<1>3. "unwind" \in Of /\ "unwind" \in Making BY DEF Of, Making
<1>4. o \in Obj /\ block[o] = "making" /\ Top.h # Temp BY <1>2, <1>3, Owner
<1>5. block \in [Obj -> {"free", "making", "live", "dying", "dead", "lost"}] BY DEF IInv, TypeOK
<1>6. block'[o] = "lost" /\ \A x \in Obj : x # o => block'[x] = block[x] BY <1>1, <1>4, <1>5
<1>7. Handed BY <1>1, Handing
<1>8. /\ StackInv' /\ stack' \in Seq(Frame)
      /\ \A x : Cardinality(Temporaries(x)') = Cardinality(Temporaries(x))
  <2>1. \A x : Cardinality(Temporaries(x)) \in Nat BY Cards DEF IInv
  <2>2. block'[o] # "dying" BY <1>6
  <2>3. /\ StackInv' /\ stack' \in Seq(Frame)
        /\ \A x : Cardinality(Temporaries(x)') = Cardinality(Temporaries(x))
                    - (IF Top.h = Temp /\ Top.o = x THEN 1 ELSE 0)
    BY <1>1, <1>3, <1>6, <1>7, <2>2, OfLeaving
  <2> QED BY <1>4, <2>1, <2>3
<1>9. Counts'
  <2> SUFFICES ASSUME NEW x \in Obj PROVE CountAt(x)' BY DEF Counts
  <2>1. CountAt(x) BY DEF IInv, Counts
  <2>2. Pointed(x)' = Pointed(x) /\ Pointing(x)' = Pointing(x) BY <1>1 DEF Pointed, Pointing
  <2>3. Unheld(x)' = Unheld(x) BY <1>4, <1>6 DEF Unheld
  <2>4. x = o => block[x] = "making" /\ block'[x] = "lost" BY <1>4, <1>6
  <2>5. x # o => block'[x] = block[x] BY <1>6
  <2> HIDE DEF o
  <2>6. CASE x = o BY <1>1, <1>8, <2>1, <2>2, <2>3, <2>4, <2>6 DEF CountAt
  <2>7. CASE x # o BY <1>1, <1>8, <2>1, <2>2, <2>3, <2>5, <2>7 DEF CountAt
  <2> QED BY <2>6, <2>7
<1>10. TypeOK' /\ sound'
  <2>1. block' \in [Obj -> {"free", "making", "live", "dying", "dead", "lost"}] BY <1>1, <1>5
  <2> QED BY <1>1, <1>8, <2>1 DEF IInv, TypeOK
<1> QED BY <1>8, <1>9, <1>10 DEF IInv, StackInv

-----------------------------------------------------------------------------
(* The theorems. *)

LEMMA InitInv == ASSUME Init PROVE IInv
<1>1. DOMAIN stack = {} /\ stack \in Seq(Frame) BY EmptySeq DEF Init
<1>2. TypeOK BY <1>1, Consts DEF Init, TypeOK
<1>3. Counts
  <2> SUFFICES ASSUME NEW o \in Obj PROVE CountAt(o) BY DEF Counts
  <2>1. o # Null BY Consts
  <2>2. Pointing(o) = {} /\ Temporaries(o) = {} /\ Pointed(o) = {}
    BY <1>1, <2>1 DEF Init, Pointing, Temporaries, Pointed
  <2>3. Cardinality({}) = 0 BY FS_EmptySet
  <2>4. block[o] = "free" /\ strong[o] = 0 /\ weak[o] = 0 BY DEF Init
  <2> QED BY <2>2, <2>3, <2>4 DEF CountAt, Unheld
<1>4. Held /\ OneCall /\ Members /\ Sources BY <1>1 DEF Held, OneCall, Members, Sources
<1>5. Dying BY <1>1 DEF Init, Dying
<1>6. sound BY DEF Init
<1> QED BY <1>2, <1>3, <1>4, <1>5, <1>6 DEF IInv

LEMMA StepInv == ASSUME IInv, Step PROVE IInv'
<1>1. CASE ResetStep BY <1>1, ResetStepInv
<1>2. CASE BodyEnds BY <1>2, BodyEndsInv
<1>3. CASE LinkDestroyed BY <1>3, LinkDestroyedInv
<1>4. CASE NextDestroyed BY <1>4, NextDestroyedInv
<1>5. CASE Destroyed BY <1>5, DestroyedInv
<1>6. CASE Revived
  <2>1. harm' = "revived" /\ UNCHANGED <<block, strong, weak, ptr, wptr, stack, sound>>
    BY <1>6 DEF Revived
  <2> QED BY <2>1, HarmInv
<1>7. CASE AssignStep BY <1>7, AssignStepInv
<1>8. CASE SwapStep BY <1>8, SwapStepInv
<1>9. CASE EmplaceStep BY <1>9, EmplaceStepInv
<1>10. CASE Constructed BY <1>10, ConstructedInv
<1>11. CASE Thrown BY <1>11, ThrownInv
<1>12. CASE Unwound BY <1>12, UnwoundInv
<1> QED BY <1>1, <1>2, <1>3, <1>4, <1>5, <1>6, <1>7, <1>8, <1>9, <1>10, <1>11, <1>12 DEF Step

LEMMA AgainInv == ASSUME IInv, NEW s \in SHandle, Again(s) PROVE IInv'
<1>1. harm' = "again" /\ UNCHANGED <<block, strong, weak, ptr, wptr, stack, sound>> BY DEF Again
<1> QED BY <1>1, HarmInv

LEMMA NextInv == ASSUME IInv, Next PROVE IInv'
<1>1. CASE Step BY <1>1, StepInv
<1>2. CASE \E s \in SHandle : OneShared(s) BY <1>2, ResetInv, EmplaceInv, AgainInv DEF OneShared
<1>3. CASE \E s, t \in SHandle : TwoShared(s, t)
  BY <1>3, AssignInv, MoveInv, MoveDerivedInv DEF TwoShared
<1>4. CASE \E w \in WHandle : WeakReset(w) BY <1>4, WeakResetInv
<1>5. CASE \E s \in SHandle, w \in WHandle : Lock(s, w) \/ WeakAssign(w, s)
  BY <1>5, LockInv, WeakAssignInv
<1>6. CASE \E w, v \in WHandle : TwoWeak(w, v)
  BY <1>6, WeakCopyInv, WeakConstructInv, WeakMoveInv DEF TwoWeak
<1> QED BY <1>1, <1>2, <1>3, <1>4, <1>5, <1>6 DEF Next

LEMMA SameInv == ASSUME IInv, UNCHANGED vars PROVE IInv'
<1>1. UNCHANGED <<block, strong, weak, ptr, wptr, stack, sound>> /\ harm' = harm BY DEF vars
<1>2. harm' \in {"none", "again", "holder", "revived"} BY <1>1 DEF IInv, TypeOK
<1> QED BY <1>1, <1>2, HarmInv

\* The invariant that the theorems rest on.
THEOREM Invariant == Spec => []IInv
<1>1. Init => IInv BY InitInv
<1>2. IInv /\ [Next]_vars => IInv' BY NextInv, SameInv
<1> QED BY <1>1, <1>2, PTL DEF Spec

\* The counts of xx_ptr.h are the numbers of handles, no block is freed under a handle and
\* no object is destroyed twice, however deep the destructors and constructors nest, up to
\* and at the first use of a Shared again, loss of a needed holder or revival.
THEOREM CountsRight == Spec => []Counted
<1>1. IInv => Counted BY DEF IInv, Counts, CountAt, Counted, Pointed
<1> QED BY <1>1, Invariant, PTL

\* A count that is zero stays zero while a Weak has the block.
LEMMA GoneStaysGone ==
  ASSUME IInv, Next, NEW o \in Obj, strong[o] = 0, weak[o] > 0
  PROVE  strong'[o] = 0
<1>1. strong \in [Obj -> Nat] /\ Null \notin Obj BY Consts DEF IInv, TypeOK
<1>2. CASE ResetStep
  <2>1. Running("reset") /\ Top.o \in Obj \cup {Null} BY <1>2, OnTop DEF ResetStep, ResetKeeping
  <2>2. CASE Top.o # Null /\ strong[Top.o] = 1 BY <1>1, <1>2, <2>1, <2>2 DEF ResetStep, ResetKeeping
  <2>3. CASE ~(Top.o # Null /\ strong[Top.o] = 1)
    <3>1. strong' = Counting(Top.o, strong, -1) BY <1>2, <2>3 DEF ResetStep, ResetKeeping
    <3>2. Top.o # o
      <4>1. Len(stack) \in DOMAIN stack /\ Top = stack[Len(stack)] /\ Top.op = "reset" /\ Top.h \in SHandle \cup {Temp}
        BY <2>1, OnTop
      <4>2. HeldAt(Len(stack)) BY <4>1 DEF IInv, Held
      <4>3. Top.h # Temp => ptr[Top.h] = Top.o BY <4>1, <4>2 DEF HeldAt
      <4>4. Top.o \in Obj => strong[Top.o] > 0 BY <4>1, <4>3, Alive
      <4> QED BY <4>4
    <3> QED BY <1>1, <2>1, <3>1, <3>2 DEF Counting
  <2> QED BY <2>2, <2>3
<1>3. CASE Destroyed
  <2>1. strong' = [strong EXCEPT ![Top.o] = 0] BY <1>3 DEF Destroyed
  <2> QED BY <1>1, <2>1
<1>4. CASE AssignStep
  <2>1. Running("assign") /\ strong' = Counting(ptr[Top.from], strong, 1) BY <1>4 DEF AssignStep
  <2>2. "assign" \in After BY DEF After
  <2>3. Top.from \in SHandle BY <2>1, <2>2, RestIs
  <2>4. ptr[Top.from] # o BY <2>3, Alive
  <2> QED BY <1>1, <2>1, <2>4 DEF Counting
<1>5. CASE EmplaceStep
  <2>1. PICK x \in Obj : block[x] = "free" /\ strong' = [strong EXCEPT ![x] = 1]
    BY <1>5 DEF EmplaceStep
  <2>2. x # o BY <2>1 DEF IInv, Counts, CountAt
  <2> QED BY <1>1, <2>1, <2>2
<1>6. ASSUME NEW s \in SHandle, NEW w \in WHandle, Lock(s, w) PROVE strong'[o] = 0
  <2>1. strong' = Counting(Locked(w), strong, 1) BY <1>6 DEF Lock, LockAs
  <2>2. Locked(w) # o BY <1>1 DEF Locked
  <2> QED BY <1>1, <2>1, <2>2 DEF Counting
<1>7. ASSUME UNCHANGED strong PROVE strong'[o] = 0 BY <1>7
<1>8. CASE Step
  BY <1>2, <1>3, <1>4, <1>5, <1>7, <1>8
  DEF Step, BodyEnds, LinkDestroyed, NextDestroyed, Revived, SwapStep, Constructed, Thrown, Unwound
<1>9. CASE \E s \in SHandle : OneShared(s) BY <1>7, <1>9 DEF OneShared, Reset, Emplace, Again
<1>10. CASE \E s, t \in SHandle : TwoShared(s, t)
  BY <1>7, <1>10 DEF TwoShared, Assign, Move, MoveDerived
<1>11. CASE \E w \in WHandle : WeakReset(w) BY <1>7, <1>11 DEF WeakReset
<1>12. CASE \E s \in SHandle, w \in WHandle : Lock(s, w) \/ WeakAssign(w, s)
  BY <1>6, <1>7, <1>12 DEF WeakAssign
<1>13. CASE \E w, v \in WHandle : TwoWeak(w, v)
  BY <1>7, <1>13 DEF TwoWeak, WeakCopy, WeakCopyOf, WeakConstruct, WeakMove
<1> QED BY <1>8, <1>9, <1>10, <1>11, <1>12, <1>13 DEF Next

\* A Weak of an object that is gone never leads to another one that got its block
\* (Lock and IsAlive of Weak), for the Weak keeps the block from being used again.
THEOREM NeverBack == Spec => DeadStaysDead
<1> DEFINE Stays == \A w \in WHandle : wptr[w] # Null /\ wptr'[w] = wptr[w] /\ strong[wptr[w]] = 0
                                         => strong'[wptr[w]] = 0
<1>1. IInv /\ [Next]_vars => [Stays]_vars
  <2> SUFFICES ASSUME IInv, Next, NEW w \in WHandle, wptr[w] # Null, strong[wptr[w]] = 0
               PROVE  strong'[wptr[w]] = 0
    OBVIOUS
  <2>1. wptr[w] \in Obj BY DEF IInv, TypeOK
  <2>2. weak[wptr[w]] > 0 BY <2>1, Alive
  <2> QED BY <2>1, <2>2, GoneStaysGone
<1>2. Spec => [][Next]_vars BY PTL DEF Spec
<1>3. DeadStaysDead <=> [][Stays]_vars BY DEF DeadStaysDead
<1> HIDE DEF Stays
<1> QED BY <1>1, <1>2, <1>3, Invariant, PTL
=============================================================================
