----------------------------- MODULE EventTasks -----------------------------
(***************************************************************************)
(* EventTasks (xx_task.h): the coroutines of a connection.  Those in tasks *)
(* are resumed in every frame, those in events when an event with their    *)
(* key comes (a response with their serial) or when their time is over.    *)
(*                                                                         *)
(* A coroutine that runs may add another.  One that was resumed from tasks *)
(* may also hand in events, as one that reads a socket does.  A deadline   *)
(* is kept as the time that is left; no time passes within a frame.        *)
(*                                                                         *)
(* Some calls that the code makes of itself, or lets a coroutine make, end *)
(* in the use of memory that is gone (fault).  What happens then is        *)
(* undefined, and the model stops.                                         *)
(***************************************************************************)
EXTENDS Integers, Sequences, FiniteSets, SequencesExt, Functions

CONSTANTS Coro, Key, Null,
          Timeout   \* timeoutSecs

ASSUME EventsAssumption == Timeout \in Nat /\ Null \notin Coro \cup Key

VARIABLES
  tasks, cap,   \* a list with its capacity
  events,       \* of [key, p, left, coro]; p is the coroutine whose variable is written
  loop, i,      \* of operator()(): "idle", "events" or "updates", and the index to come
  ev, up,       \* indices of the event and of the task that are resumed now, or 0
  frames,       \* coroutines whose frame exists
  asked, age,   \* the key that a coroutine waits for, or Null; history: for how long
  answer,       \* what has been written for it, or Null
  robbed,       \* history: those in tasks whose frame went when another left the list
  leaked,       \* history: those that have ended and whose frame was kept by that
  stale,        \* history: those in events that went on after an error
  fault         \* what was used that is gone: a "node" that growth has moved, the frame
                \* of one that was "robbed", a variable of an "old" wait, or an "other"

vars == <<tasks, cap, events, loop, i, ev, up, frames, asked, age, answer,
          robbed, leaked, stale, fault>>

TypeOK ==
  /\ tasks \in Seq(Coro) /\ cap \in Nat /\ Len(tasks) <= cap
  /\ events \in Seq([key : Key, p : Coro, left : -1..Timeout, coro : Coro])
  /\ loop \in {"idle", "events", "updates"}
  /\ i \in 0..(IF loop = "events" THEN Len(events) ELSE Len(tasks))
  /\ ev \in 0..Len(events) /\ up \in 0..Len(tasks)
  /\ frames \subseteq Coro
  /\ asked \in [Coro -> Key \cup {Null}] /\ answer \in [Coro -> Key \cup {Null}]
  /\ age \in [Coro -> 0..(Timeout + 1)]
  /\ robbed \subseteq Coro /\ leaked \subseteq Coro /\ stale \subseteq Coro
  /\ fault \in {"none", "node", "robbed", "old", "other"}

Init ==
  /\ tasks = <<>> /\ cap = 0 /\ events = <<>>
  /\ loop = "idle" /\ i = 0 /\ ev = 0 /\ up = 0
  /\ frames = {}
  /\ asked = [c \in Coro |-> Null] /\ answer = [c \in Coro |-> Null]
  /\ age = [c \in Coro |-> 0]
  /\ robbed = {} /\ leaked = {} /\ stale = {} /\ fault = "none"

Idle == loop = "idle" /\ ev = 0
Running == IF ev > 0 THEN events[ev].coro ELSE IF up > 0 THEN tasks[up] ELSE Null

-----------------------------------------------------------------------------
(* The lists. *)

\* Emplace.  A task that is resumed is held by a reference to its node (line 310), which
\* growth leaves behind.
EmplaceTask(c) ==
  LET grown == IF Len(tasks) < cap THEN cap ELSE IF cap = 0 THEN 1 ELSE 2 * cap IN
  /\ cap' = grown
  /\ tasks' = Append(tasks, c)
  /\ fault' = IF up > 0 /\ grown > cap THEN "node" ELSE fault

\* SwapRemoveAt of events: the last takes the place of the n-th.
WithoutEvent(n) == Front([events EXCEPT ![n] = Last(events)])

\* Gone(c) is the fault when the frame of c is used and is not there.
Gone(c) == IF c \in frames THEN fault ELSE IF c \in robbed THEN "robbed" ELSE "other"

\* SwapRemoveAt of tasks, which are called Pods: the last is copied to the place of
\* the n-th and destroyed there where it was, with its frame (xx_list.h, lines 172-177).
\* Of the n-th, owned is destroyed only if it is the last.
RemoveTask(n, owned) ==
  LET last == Last(tasks) IN
  /\ tasks' = Front([tasks EXCEPT ![n] = last])
  /\ IF n < Len(tasks)
     THEN /\ frames' = frames \ {last} /\ fault' = Gone(last)
          /\ robbed' = robbed \cup {last} /\ leaked' = leaked \cup owned
     ELSE frames' = frames \ owned /\ UNCHANGED <<robbed, leaked, fault>>

\* c waits for k, or for nothing when k is Null.
Ask(c, k) == /\ asked' = [asked EXCEPT ![c] = k]
             /\ answer' = [answer EXCEPT ![c] = Null]
             /\ age' = [age EXCEPT ![c] = 0]

Waiting(c, k) == [key |-> k, p |-> c, left |-> Timeout, coro |-> c]

-----------------------------------------------------------------------------
(* Calls of the program, some of them by the coroutine that runs. *)

Add(c) ==
  /\ Idle \/ Running # Null
  /\ c \notin frames \cup robbed
  /\ EmplaceTask(c)
  /\ frames' = frames \cup {c}
  /\ UNCHANGED <<events, loop, i, ev, up, asked, age, answer, robbed, leaked, stale>>

\* operator()(k, h): the last that waits for k gets its answer and is resumed.  The
\* entry of one that went on after an error has the key and the pointer of before.
Trigger(k) ==
  /\ ev = 0 /\ (loop # "idle" => up > 0)
  /\ k \in {e.key : e \in Range(events)}
  /\ LET n == SelectLastInSeq(events, LAMBDA e : e.key = k) IN
       /\ answer' = [answer EXCEPT ![events[n].p] = k]
       /\ ev' = n
       /\ fault' = IF asked[events[n].p] # Null THEN Gone(events[n].coro)
                   ELSE IF events[n].p \in stale THEN "old" ELSE "other"
  /\ UNCHANGED <<tasks, cap, events, loop, i, up, frames, asked, age, robbed, leaked, stale>>

\* The lists are destroyed with all that is in them.
Nothing ==
  /\ tasks' = <<>> /\ cap' = 0 /\ events' = <<>>
  /\ loop' = "idle" /\ i' = 0 /\ ev' = 0 /\ up' = 0
  /\ frames' = leaked
  /\ asked' = [c \in Coro |-> Null] /\ answer' = [c \in Coro |-> Null]
  /\ age' = [c \in Coro |-> 0]
  /\ fault' = IF robbed = {} THEN fault ELSE "robbed"
  /\ robbed' = {} /\ stale' = {} /\ UNCHANGED leaked

\* The connection ends; another one begins with empty lists.
Dispose == Idle /\ Nothing

Tick ==
  /\ Idle /\ \E e \in Range(events) : e.left >= 0
  /\ events' = [n \in DOMAIN events |-> [events[n] EXCEPT !.left = IF @ < 0 THEN @ ELSE @ - 1]]
  /\ age' = [c \in Coro |-> IF asked[c] = Null \/ age[c] > Timeout THEN age[c] ELSE age[c] + 1]
  /\ UNCHANGED <<tasks, cap, loop, i, ev, up, frames, asked, answer,
                 robbed, leaked, stale, fault>>

-----------------------------------------------------------------------------
(* operator()(): from the ends of the lists to their beginnings, the events *)
(* whose time is over, and then the tasks.                                  *)

Begin ==
  /\ Idle /\ Len(events) + Len(tasks) > 0
  /\ loop' = "events" /\ i' = Len(events)
  /\ UNCHANGED <<tasks, cap, events, ev, up, frames, asked, age, answer,
                 robbed, leaked, stale, fault>>

\* over are the indices that are still to be looked at and whose time is over.
ResumeOneOf(over) ==
  /\ loop = "events" /\ ev = 0
  /\ IF over = {}
     THEN loop' = "updates" /\ i' = Len(tasks) /\ UNCHANGED <<ev, fault>>
     ELSE \E n \in over :
            /\ \A m \in over : m <= n
            /\ ev' = n /\ i' = n - 1
            /\ fault' = Gone(events[n].coro)
            /\ UNCHANGED loop
  /\ UNCHANGED <<tasks, cap, events, up, frames, asked, age, answer, robbed, leaked, stale>>
EventsUntilNotOver ==                                                   \* mutant
  ResumeOneOf({n \in {i} \ {0} : events[n].left < 0})
EventsNext == ResumeOneOf({n \in 1..i : events[n].left < 0})

UpdatesNext ==
  /\ loop = "updates" /\ up = 0
  /\ IF i = 0
     THEN loop' = "idle" /\ UNCHANGED <<i, up, fault>>
     ELSE /\ up' = i /\ i' = i - 1
          /\ fault' = Gone(tasks[i])
          /\ UNCHANGED loop
  /\ UNCHANGED <<tasks, cap, events, ev, frames, asked, age, answer, robbed, leaked, stale>>

-----------------------------------------------------------------------------
(* What the coroutine that was resumed from events does next (Resume). *)

\* What it waited for before is over.
Renewed == stale' = stale \ {Running}

EventEnds ==
  /\ ev > 0
  /\ events' = WithoutEvent(ev) /\ ev' = 0
  /\ frames' = frames \ {Running}
  /\ Ask(Running, Null) /\ Renewed
  /\ UNCHANGED <<tasks, cap, loop, i, up, robbed, leaked, fault>>

\* It waits again, in the same place.
RenewAs(k, e) ==
  /\ ev > 0
  /\ events' = [events EXCEPT ![ev] = e] /\ ev' = 0
  /\ Ask(Running, k) /\ Renewed
  /\ UNCHANGED <<tasks, cap, loop, i, up, frames, robbed, leaked, fault>>
RenewKeyOnly(k) == RenewAs(k, [events[ev] EXCEPT !.key = k])   \* mutant
EventRenews(k) == RenewAs(k, Waiting(Running, k))

EventYieldsTo(s) ==
  /\ ev > 0
  /\ EmplaceTask(Running)
  /\ events' = s /\ ev' = 0
  /\ Ask(Running, Null) /\ Renewed
  /\ UNCHANGED <<loop, i, up, frames, robbed, leaked>>
EventYieldsTwice == EventYieldsTo(events)   \* mutant
EventYields == EventYieldsTo(WithoutEvent(ev))

\* It yields an error, which is returned, and keeps its place in events.  The owner of a
\* connection disposes of it when an event ends so, and when a frame ends with less than
\* 0 (xx_epoll_task.h, lines 389 and 611); after a frame with more it goes on, as does a
\* task that handed in the event.
EventFails == ev > 0 /\ up = 0 /\ Nothing

EventGoesOn ==
  /\ ev > 0 /\ loop # "idle"
  /\ ev' = 0
  /\ IF loop = "events" THEN loop' = "idle" /\ i' = 0 ELSE UNCHANGED <<loop, i>>
  /\ Ask(Running, Null) /\ stale' = stale \cup {Running}
  /\ UNCHANGED <<tasks, cap, events, up, frames, robbed, leaked, fault>>

-----------------------------------------------------------------------------
(* What the coroutine that was resumed from tasks does next. *)

Resumed == up > 0 /\ ev = 0

TaskEnds ==
  /\ Resumed
  /\ RemoveTask(up, {Running}) /\ up' = 0
  /\ UNCHANGED <<cap, events, loop, i, ev, asked, age, answer, stale>>

TaskWaits(k) ==
  /\ Resumed
  /\ events' = Append(events, Waiting(Running, k))
  /\ RemoveTask(up, {}) /\ up' = 0
  /\ Ask(Running, k)
  /\ UNCHANGED <<cap, loop, i, ev, stale>>

TaskYields ==
  /\ Resumed /\ up' = 0
  /\ UNCHANGED <<tasks, cap, events, loop, i, ev, frames, asked, age, answer,
                 robbed, leaked, stale, fault>>

\* The frame ends with its error; the owner goes on, or disposes of the connection.
TaskFails ==
  /\ Resumed /\ up' = 0 /\ loop' = "idle" /\ i' = 0
  /\ UNCHANGED <<tasks, cap, events, ev, frames, asked, age, answer,
                 robbed, leaked, stale, fault>>

EventLeaves ==
  /\ fault = "none"
  /\ EventEnds \/ EventYields \/ EventFails \/ EventGoesOn \/ \E k \in Key : EventRenews(k)
TaskLeaves ==
  /\ fault = "none"
  /\ TaskEnds \/ TaskYields \/ TaskFails \/ \E k \in Key : TaskWaits(k)

Frames ==
  /\ fault = "none"
  /\ Begin \/ EventsNext \/ UpdatesNext
Calls ==
  /\ fault = "none"
  /\ (\E c \in Coro : Add(c)) \/ (\E k \in Key : Trigger(k)) \/ Dispose \/ Tick

Next == Calls \/ Frames \/ EventLeaves \/ TaskLeaves

\* The owner goes on with frames, the clock with time, and each coroutine comes to
\* its next co_yield.
Fairness ==
  /\ SF_vars(fault = "none" /\ Begin) /\ SF_vars(fault = "none" /\ Tick)
  /\ WF_vars(fault = "none" /\ EventsNext) /\ WF_vars(fault = "none" /\ UpdatesNext)
  /\ WF_vars(EventLeaves) /\ SF_vars(TaskLeaves)

Spec == Init /\ [][Next]_vars /\ Fairness

-----------------------------------------------------------------------------
\* As long as nothing that is gone was used, each coroutine that has not ended is in one
\* place of one list and is resumed there only, with its frame, while coroutines move
\* between the lists under the loops that go through them.  There is one exception: when
\* a task leaves that is not the last of tasks, the last one has lost its frame, and the
\* frame of the one that left is kept if it had ended.  And what is gone is used only
\* then, when tasks grows under a task that is resumed, and through the pointer that is
\* left by a coroutine which went on after an error.
Places(c) == {n \in DOMAIN tasks : tasks[n] = c} \cup
             {Len(tasks) + n : n \in {m \in DOMAIN events : events[m].coro = c}}
KeptOnce ==
  /\ TypeOK /\ fault # "other"
  /\ fault = "none" =>
       /\ leaked \subseteq frames /\ robbed \cap frames = {}
       /\ \A c \in Coro :
            Cardinality(Places(c)) = IF c \in (frames \ leaked) \cup robbed THEN 1 ELSE 0

\* A wait ends with an answer for its own key, or without one when its own time is
\* over, and at no other moment: an answer is there only for the coroutine that runs.
\* Only one that has yielded an error is resumed without having asked.
OwnAnswer ==
  fault = "none" =>
    /\ \A e \in Range(events) : e.p = e.coro /\ (asked[e.p] = e.key \/ e.p \in stale)
    /\ \A c \in stale : asked[c] = Null
    /\ \A c \in Coro : answer[c] # Null => answer[c] = asked[c] /\ ev > 0 /\ c = Running
    /\ ev > 0 /\ answer[Running] = Null => age[Running] > Timeout \/ Running \in stale

\* Every wait ends: by its event, or by the frame after its deadline, in whatever order
\* others are added, answered and removed; unless one goes on after an error, which may
\* end each frame before it comes to the others.
WaitEnds ==
  \A c \in Coro : asked[c] # Null /\ Running # c ~>
                    Running = c \/ asked[c] = Null \/ fault # "none" \/ stale # {}
=============================================================================
