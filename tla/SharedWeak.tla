----------------------------- MODULE SharedWeak -----------------------------
(***************************************************************************)
(* Shared and Weak (xx_ptr.h): handles to blocks that carry a strong and a *)
(* weak count in front of the object.  The last Shared destroys the object,*)
(* the last handle of either kind frees the block.                         *)
(*                                                                         *)
(* Each object has a Shared and a Weak member, so that destroying one may  *)
(* destroy others, and a destructor with a body that may call any          *)
(* operation, as the body of a constructor may, which may also throw.  The *)
(* calls under way are a stack.  A member is named by its object.  Blocks  *)
(* are used again once they are freed.                                     *)
(*                                                                         *)
(* Three things the code lets callers do, and breaks: harm says which came *)
(* first, and the model stops there.  Left out: a constructor that makes   *)
(* handles to its own object (SharedFromThis), moves to new handles.       *)
(***************************************************************************)
EXTENDS Integers, Sequences, FiniteSets

CONSTANTS Obj,            \* blocks of memory
          SRoot, WRoot,   \* variables of type Shared and Weak
          Null, Temp      \* no object; a Shared that is a temporary

ASSUME HandlesAssumption ==
  /\ SRoot \cap Obj = {} /\ WRoot \cap Obj = {}
  /\ Null \notin Obj /\ Temp \notin Obj \cup SRoot
  /\ IsFiniteSet(Obj \cup SRoot \cup WRoot)

VARIABLES
  block,          \* free; with an object that is being made, is live, dying (in its
                  \* destructor) or dead; or lost, after a constructor that has thrown
  strong, weak,   \* sharedCount and weakCount
  ptr, wptr,      \* pointer of each Shared, h of each Weak
  stack,          \* the calls under way, the innermost last
  sound,          \* FALSE when a freed block is touched or an object destroyed twice
  harm            \* what was done that the code does not look after: a Shared "again" used
                  \* while a call changes it, the "holder" of a member a call still needs
                  \* let go, an object "revived" by a Shared that outlives its destructor

vars == <<block, strong, weak, ptr, wptr, stack, sound, harm>>

SHandle == SRoot \cup Obj
WHandle == WRoot \cup Obj

Part == {"body", "link", "next"}   \* of a destructor: its body and the two members
Frame == [op : {"reset", "destroy", "assign", "swap", "emplace", "construct", "unwind"},
          h : SHandle \cup {Temp}, o : Obj \cup {Null}, from : SHandle \cup {Temp},
          todo : SUBSET Part]

TypeOK ==
  /\ block \in [Obj -> {"free", "making", "live", "dying", "dead", "lost"}]
  /\ strong \in [Obj -> Nat] /\ weak \in [Obj -> Nat]
  /\ ptr \in [SHandle -> Obj \cup {Null}] /\ wptr \in [WHandle -> Obj \cup {Null}]
  /\ stack \in Seq(Frame) /\ sound \in BOOLEAN
  /\ harm \in {"none", "again", "holder", "revived"}

Init ==
  /\ block = [o \in Obj |-> "free"]
  /\ strong = [o \in Obj |-> 0] /\ weak = [o \in Obj |-> 0]
  /\ ptr = [h \in SHandle |-> Null] /\ wptr = [w \in WHandle |-> Null]
  /\ stack = <<>> /\ sound = TRUE /\ harm = "none"

-----------------------------------------------------------------------------
(* What the steps below are made of. *)

Call(op, h, o, from) == [op |-> op, h |-> h, o |-> o, from |-> from, todo |-> {}]
Destroying(h, o) == [Call("destroy", h, o, Temp) EXCEPT !.todo = Part]
Constructing(h, o) == [Call("construct", h, o, Temp) EXCEPT !.todo = {"body"}]

Top == stack[Len(stack)]
Below == SubSeq(stack, 1, Len(stack) - 1)
Running(op) == stack # <<>> /\ Top.op = op
Ending == Running("destroy") \/ Running("unwind")
Needed == {stack[i].h : i \in DOMAIN stack} \cup {stack[i].from : i \in DOMAIN stack}

Counting(o, f, n) == IF o = Null THEN f ELSE [f EXCEPT ![o] = @ + n]
Exists(h) == h \in Obj => block[h] \in {"making", "live", "dying"}
Is(o, states) == o # Null => block[o] \in states

\* A Weak lets go of its block, and takes o.
WeakTo(w, o) ==
  LET b == wptr[w]
      last == b # Null /\ weak[b] = 1 /\ strong[b] = 0
  IN /\ block' = IF last THEN [block EXCEPT ![b] = "free"] ELSE block
     /\ weak' = Counting(o, Counting(b, weak, -1), 1)
     /\ wptr' = [wptr EXCEPT ![w] = o]
     /\ sound' = (sound /\ Is(b, {"live", "dying", "dead"}) /\ Is(o, {"live", "dying"}))

-----------------------------------------------------------------------------
(* Reset and the destruction of an object. *)

\* Reset of a Shared h that points to o.  The count of the last one stays 1 while
\* the object is destroyed, and h still points to it.  No call may need a member of it.
ResetKeeping(n) ==
  LET h == Top.h   o == Top.o IN
  /\ Running("reset")
  /\ IF o # Null /\ strong[o] = 1 /\ o \in Needed
     THEN harm' = "holder" /\ UNCHANGED <<block, strong, ptr, stack, sound>>
     ELSE IF o # Null /\ strong[o] = 1
     THEN /\ stack' = Append(Below, Destroying(h, o))
          /\ block' = [block EXCEPT ![o] = "dying"]
          /\ strong' = [strong EXCEPT ![o] = n]
          /\ sound' = (sound /\ Is(o, {"live"}))
          /\ UNCHANGED <<ptr, harm>>
     ELSE /\ stack' = Below
          /\ strong' = Counting(o, strong, -1)
          /\ ptr' = IF h = Temp THEN ptr ELSE [ptr EXCEPT ![h] = Null]
          /\ sound' = (sound /\ Is(o, {"live", "dying"}))
          /\ UNCHANGED <<block, harm>>
  /\ UNCHANGED <<weak, wptr>>
ResetEarly == ResetKeeping(0)   \* mutant
ResetStep == ResetKeeping(1)

\* The rest of the stack when part p of the end of the object on top is done.
Done(p) == Append(Below, [Top EXCEPT !.todo = @ \ {p}])

BodyEnds ==
  /\ Running("destroy") /\ "body" \in Top.todo
  /\ stack' = Done("body")
  /\ UNCHANGED <<block, strong, weak, ptr, wptr, sound, harm>>

\* The members are destroyed, in either order.
LinkDestroyed ==
  /\ Ending /\ "body" \notin Top.todo /\ "link" \in Top.todo
  /\ WeakTo(Top.o, Null)
  /\ stack' = Done("link")
  /\ UNCHANGED <<strong, ptr, harm>>

NextDestroyed ==
  /\ Ending /\ "body" \notin Top.todo /\ "next" \in Top.todo
  /\ stack' = Append(Done("next"), Call("reset", Top.o, ptr[Top.o], Temp))
  /\ UNCHANGED <<block, strong, weak, ptr, wptr, sound, harm>>

\* The object is gone.  Its block goes too unless some Weak has it.
Destroyed ==
  LET h == Top.h   o == Top.o IN
  /\ Running("destroy") /\ Top.todo = {} /\ strong[o] <= 1
  /\ ptr' = IF h = Temp THEN ptr ELSE [ptr EXCEPT ![h] = Null]
  /\ block' = [block EXCEPT ![o] = IF weak[o] = 0 THEN "free" ELSE "dead"]
  /\ strong' = [strong EXCEPT ![o] = 0]
  /\ stack' = Below
  /\ sound' = (sound /\ Is(o, {"dying"}) /\ Exists(h))
  /\ UNCHANGED <<weak, wptr, harm>>

Revived ==
  /\ Running("destroy") /\ Top.todo = {} /\ strong[Top.o] > 1
  /\ harm' = "revived"
  /\ UNCHANGED <<block, strong, weak, ptr, wptr, stack, sound>>

-----------------------------------------------------------------------------
(* What follows a Reset within operator= and Emplace, and constructors. *)

AssignStep ==
  LET o == ptr[Top.from] IN
  /\ Running("assign")
  /\ ptr' = [ptr EXCEPT ![Top.h] = o]
  /\ strong' = Counting(o, strong, 1)
  /\ stack' = Below
  /\ sound' = (sound /\ Exists(Top.h) /\ Exists(Top.from) /\ Is(o, {"live", "dying"}))
  /\ UNCHANGED <<block, weak, wptr, harm>>

SwapStep ==
  /\ Running("swap")
  /\ ptr' = [ptr EXCEPT ![Top.h] = ptr[Top.from], ![Top.from] = ptr[Top.h]]
  /\ stack' = Below
  /\ sound' = (sound /\ Exists(Top.h) /\ Exists(Top.from))
  /\ UNCHANGED <<block, strong, weak, wptr, harm>>

EmplaceStep ==
  /\ Running("emplace")
  /\ \E o \in Obj :
       /\ block[o] = "free"
       /\ block' = [block EXCEPT ![o] = "making"]
       /\ strong' = [strong EXCEPT ![o] = 1]
       /\ weak' = [weak EXCEPT ![o] = 0]
       /\ stack' = Append(Below, Constructing(Top.h, o))
  /\ UNCHANGED <<ptr, wptr, sound, harm>>

\* The constructor returns, and only now the Shared gets its pointer.
Constructed ==
  /\ Running("construct")
  /\ ptr' = [ptr EXCEPT ![Top.h] = Top.o]
  /\ block' = [block EXCEPT ![Top.o] = "live"]
  /\ stack' = Below
  /\ sound' = (sound /\ Exists(Top.h))
  /\ UNCHANGED <<strong, weak, wptr, harm>>

\* The constructor throws: its members are destroyed, the block is nobody's, and the
\* caller of Emplace goes on, as TryMake does.
Thrown ==
  /\ Running("construct")
  /\ stack' = Append(Below, [Top EXCEPT !.op = "unwind", !.todo = {"link", "next"}])
  /\ UNCHANGED <<block, strong, weak, ptr, wptr, sound, harm>>

Unwound ==
  /\ Running("unwind") /\ Top.todo = {}
  /\ block' = [block EXCEPT ![Top.o] = "lost"]
  /\ stack' = Below
  /\ UNCHANGED <<strong, weak, ptr, wptr, sound, harm>>

-----------------------------------------------------------------------------
(* Calls, by the program or by the body of the destructor or constructor on top. *)

InBody == (Running("destroy") \/ Running("construct")) /\ "body" \in Top.todo
Ready == stack # <<>> => InBody
Busy == {stack[i].h : i \in DOMAIN stack}

\* A member is used through a variable, or by its own object.
Usable(h) == h \in Obj => \/ InBody /\ h = Top.o
                          \/ block[h] = "live" /\ h \in {ptr[r] : r \in SRoot}

\* A Shared that may be changed: a call that changes it already does not look again.
Free(h) == Usable(h) /\ h \notin Busy

Again(s) ==
  /\ Ready /\ Usable(s) /\ s \in Busy
  /\ harm' = "again"
  /\ UNCHANGED <<block, strong, weak, ptr, wptr, stack, sound>>

Reset(s) ==
  /\ Ready /\ Free(s) /\ ptr[s] # Null
  /\ stack' = Append(stack, Call("reset", s, ptr[s], Temp))
  /\ UNCHANGED <<block, strong, weak, ptr, wptr, sound, harm>>

\* s = t, which is Reset(pointer of t); nothing when they are equal.
Assign(s, t) ==
  /\ Ready /\ Free(s) /\ Usable(t)
  /\ ptr[s] # ptr[t]
  /\ stack' = stack \o <<Call("assign", s, Null, t), Call("reset", s, ptr[s], Temp)>>
  /\ UNCHANGED <<block, strong, weak, ptr, wptr, sound, harm>>

\* s = std::move(t): the two are swapped, or, when t is of a derived type, s is reset first.
Move(s, t) ==
  /\ Ready /\ Free(s) /\ Free(t) /\ ptr[s] # ptr[t]
  /\ ptr' = [ptr EXCEPT ![s] = ptr[t], ![t] = ptr[s]]
  /\ UNCHANGED <<block, strong, weak, wptr, stack, sound, harm>>

MoveDerived(s, t) ==
  /\ Ready /\ Free(s) /\ Free(t) /\ s # t /\ ptr[s] # Null
  /\ stack' = stack \o <<Call("swap", s, Null, t), Call("reset", s, ptr[s], Temp)>>
  /\ UNCHANGED <<block, strong, weak, ptr, wptr, sound, harm>>

Emplace(s) ==
  /\ Ready /\ Free(s)
  /\ \E o \in Obj : block[o] = "free"
  /\ stack' = stack \o <<Call("emplace", s, Null, Temp), Call("reset", s, ptr[s], Temp)>>
  /\ UNCHANGED <<block, strong, weak, ptr, wptr, sound, harm>>

\* s = w.Lock(): the result is swapped with s, and then destroyed.
LockAs(s, w, o) ==
  /\ Ready /\ Free(s) /\ Usable(w) /\ wptr[w] # Null
  /\ ptr' = [ptr EXCEPT ![s] = o]
  /\ strong' = Counting(o, strong, 1)
  /\ stack' = Append(stack, Call("reset", Temp, ptr[s], Temp))
  /\ sound' = (sound /\ Is(o, {"live", "dying"}))
  /\ UNCHANGED <<block, weak, wptr, harm>>
Locked(w) == IF strong[wptr[w]] > 0 THEN wptr[w] ELSE Null
LockAnyway(s, w) == LockAs(s, w, wptr[w])   \* mutant
Lock(s, w) == LockAs(s, w, Locked(w))

WeakReset(w) ==
  /\ Ready /\ Usable(w) /\ wptr[w] # Null
  /\ WeakTo(w, Null)
  /\ UNCHANGED <<strong, ptr, stack, harm>>

WeakAssign(w, s) ==
  /\ Ready /\ Usable(w) /\ Usable(s) /\ ptr[s] # Null
  /\ WeakTo(w, ptr[s])
  /\ UNCHANGED <<strong, ptr, stack, harm>>

\* w = v, by way of v.Lock(); its Shared lives for the time of the call.
WeakCopyOf(w, v, o) ==
  /\ Ready /\ Usable(w) /\ Usable(v) /\ w # v /\ wptr[v] # Null
  /\ WeakTo(w, o)
  /\ UNCHANGED <<strong, ptr, stack, harm>>
WeakCopy(w, v) == WeakCopyOf(w, v, Locked(v))

\* Weak w(v): w is new, and takes a dead block too.
WeakConstruct(w, v) ==
  /\ Ready /\ Usable(w) /\ Usable(v) /\ wptr[w] = Null /\ wptr[v] # Null
  /\ weak' = Counting(wptr[v], weak, 1)
  /\ wptr' = [wptr EXCEPT ![w] = wptr[v]]
  /\ sound' = (sound /\ Is(wptr[v], {"live", "dying", "dead"}))
  /\ UNCHANGED <<block, strong, ptr, stack, harm>>

WeakMove(w, v) ==
  /\ Ready /\ Usable(w) /\ Usable(v) /\ wptr[w] # wptr[v]
  /\ wptr' = [wptr EXCEPT ![w] = wptr[v], ![v] = wptr[w]]
  /\ UNCHANGED <<block, strong, weak, ptr, stack, sound, harm>>

Step == \/ ResetStep \/ BodyEnds \/ LinkDestroyed \/ NextDestroyed \/ Destroyed \/ Revived
        \/ AssignStep \/ SwapStep \/ EmplaceStep \/ Constructed \/ Thrown \/ Unwound

OneShared(s) == Reset(s) \/ Emplace(s) \/ Again(s)
TwoShared(s, t) == Assign(s, t) \/ Move(s, t) \/ MoveDerived(s, t)
TwoWeak(w, v) == WeakCopy(w, v) \/ WeakConstruct(w, v) \/ WeakMove(w, v)

Next ==
  /\ harm = "none"
  /\ \/ Step
     \/ \E s \in SHandle : OneShared(s)
     \/ \E s, t \in SHandle : TwoShared(s, t)
     \/ \E w \in WHandle : WeakReset(w)
     \/ \E s \in SHandle, w \in WHandle : Lock(s, w) \/ WeakAssign(w, s)
     \/ \E w, v \in WHandle : TwoWeak(w, v)

Spec == Init /\ [][Next]_vars

-----------------------------------------------------------------------------
Pointing(o) == {h \in SHandle : ptr[h] = o}
Temporaries(o) == {i \in DOMAIN stack : stack[i].h = Temp /\ stack[i].o = o}

Unheld(o) == IF block[o] \in {"making", "lost"} THEN 1 ELSE 0

\* The counts are the numbers of handles, in the middle of nested destructors and
\* constructors too, and decide what there is: a block is kept exactly as long as a handle
\* has it, its object as long as a Shared has it.  A dying object is held by the one that
\* is reset, and by what its destructor has locked.  So no operation touches a freed
\* block, and no object is destroyed twice or given out after its end: "This must not be
\* -1 here, it would make a weak member that points to its own object call free" (comment
\* on line 116).  The exceptions are the three of harm, after which nothing is said, and a
\* block whose constructor has thrown: its count stays 1 though nobody has it.
Counted ==
  /\ TypeOK /\ sound
  /\ \A o \in Obj :
       /\ strong[o] = Cardinality(Pointing(o)) + Cardinality(Temporaries(o)) + Unheld(o)
       /\ weak[o] = Cardinality({w \in WHandle : wptr[w] = o})
       /\ block[o] = "free" => strong[o] = 0 /\ weak[o] = 0
       /\ block[o] \in {"live", "dying"} => strong[o] > 0
       /\ block[o] \in {"making", "lost"} => strong[o] = 1 /\ weak[o] = 0
       /\ block[o] = "dead" => strong[o] = 0 /\ weak[o] > 0

\* A Weak that has seen its object gone never sees one again, though blocks are used
\* again for other objects.
DeadStaysDead ==
  [][\A w \in WHandle : wptr[w] # Null /\ wptr'[w] = wptr[w] /\ strong[wptr[w]] = 0
                          => strong'[wptr[w]] = 0]_vars
=============================================================================
