------------------------------- MODULE Tasks -------------------------------
(***************************************************************************)
(* Tasks and TaskDeleter (xx_task.h): coroutines in a ListDoubleLink, each *)
(* resumed once per round.  A task that runs may add tasks, and a          *)
(* TaskDeleter drops one by its index and version, at any time.            *)
(*                                                                         *)
(* Task<> is called a Pod (xx_task.h:125): its nodes are moved by realloc, *)
(* and Clear does not destroy the coroutines.                              *)
(*                                                                         *)
(* Some calls of a task that runs take from the loop what it holds         *)
(* (Misuse): what happens then is undefined, and the model stops.          *)
(***************************************************************************)
EXTENDS ListDoubleLink

CONSTANTS Deleter,
          Cap,      \* initial capacity, 8 in the code
          MaxCap, MaxTask   \* bounds on Reserve and on the tasks

ASSUME TasksAssumption == Cap \in Nat \ {0} /\ MaxCap \in Nat /\ MaxTask \in Nat

VARIABLES
  list,
  idx, next,   \* of the Foreach of operator(); idx is None between rounds
  deleter,     \* iv of a TaskDeleter
  alive,       \* tasks whose coroutine frame exists
  handles,     \* history: what Add returned, for tasks 1..Len(handles)
  resumed,     \* history: the tasks resumed in this round
  due,         \* history: tasks of the list at the start of the round that have yet to be
  harm,        \* what was used, or will be, that is gone: the frame of the task that runs
               \* ("self"), the node that Foreach has noted ("next") or its reference is to
               \* ("node"), all that it holds ("clear"), or an "other" frame
  cleared      \* history: has Clear been called?

taskVars == <<list, idx, next, deleter, alive, handles, resumed, due, harm, cleared>>

Task == 1..MaxTask
NoRound == idx = None
Made == Len(handles)
InList == {list.buf[i].value : i \in Range(Order(list))}

Handle == [index : {None} \cup 0..(list.cap - 1), version : 0..(VersionMod - 1)]

TasksTypeOK ==
  /\ list.buf \in [0..(list.cap - 1) -> [next : Int, prev : Int, version : 0..(VersionMod - 1),
                                          value : 0..MaxTask]]
  /\ list.len \in 0..list.cap /\ list.freeCount \in 0..list.len
  /\ idx \in {None} \cup 0..(list.len - 1) /\ next \in {None} \cup 0..(list.len - 1)
  /\ deleter \in [Deleter -> Handle] /\ alive \subseteq Task /\ handles \in Seq(Handle)
  /\ resumed \in Seq(Task) /\ due \subseteq Task
  /\ harm \in {"none", "self", "next", "node", "clear", "other"} /\ cleared \in BOOLEAN

TasksInit ==
  /\ list = NewList(Cap)
  /\ idx = None /\ next = None
  /\ deleter = [d \in Deleter |-> Nobody]
  /\ alive = {} /\ handles = <<>> /\ resumed = <<>> /\ due = {}
  /\ harm = "none" /\ cleared = FALSE

-----------------------------------------------------------------------------
(* What the user, or the task that runs, does. *)

\* Is there nothing that Foreach holds in node i?
Spared(i) == i # idx /\ (i = next => NoRound)

\* l with a new task in it, which is the last.  A task that runs is resumed through a
\* reference to its node, which growth would leave behind.  (A task that has ended
\* already is not added, and nothing changes: line 151.)
AddTo(l) ==
  LET m == AddCore(l, Made + 1) IN
  /\ Made < MaxTask /\ (m.cap = l.cap \/ NoRound)
  /\ list' = m
  /\ handles' = Append(handles, TailOf(m))
  /\ UNCHANGED <<idx, next, resumed, cleared>>

AddTask ==
  /\ AddTo(list)
  /\ alive' = alive \cup {Made + 1}
  /\ UNCHANGED <<deleter, due, harm>>

\* The frame of a task in t is destroyed, which must be there.
Destroyed(t) == harm' = IF t \subseteq alive THEN harm ELSE "other"

\* TaskDeleter: Clear, and then Add.
Assign(d) ==
  LET i == deleter[d].index
      t == IF Exists(list, deleter[d]) THEN {list.buf[i].value} ELSE {}
  IN /\ t # {} => Spared(i)
     /\ AddTo(IF t = {} THEN list ELSE RemoveNode(list, i))
     /\ deleter' = [deleter EXCEPT ![d] = handles'[Made + 1]]
     /\ alive' = (alive \ t) \cup {Made + 1}
     /\ due' = due \ t
     /\ Destroyed(t)

\* Clear alone, or before a task that has ended already, for which Add returns nobody.
Drop(d) ==
  LET i == deleter[d].index   t == list.buf[i].value IN
  /\ Exists(list, deleter[d]) /\ Spared(i)
  /\ list' = RemoveNode(list, i)
  /\ deleter' = [deleter EXCEPT ![d] = Nobody]
  /\ alive' = alive \ {t} /\ due' = due \ {t}
  /\ Destroyed({t})
  /\ UNCHANGED <<idx, next, handles, resumed, cleared>>

DropGone(d) ==
  /\ ~Exists(list, deleter[d])
  /\ deleter' = [deleter EXCEPT ![d] = Nobody]
  /\ UNCHANGED <<list, idx, next, alive, handles, resumed, due, harm, cleared>>

Grow(n) ==
  /\ NoRound /\ n > list.cap
  /\ list' = Reserve(list, n)
  /\ UNCHANGED <<idx, next, deleter, alive, handles, resumed, due, harm, cleared>>

ClearTasks ==
  /\ NoRound /\ list' = Clear(list) /\ cleared' = TRUE
  /\ UNCHANGED <<idx, next, deleter, alive, handles, resumed, due, harm>>

-----------------------------------------------------------------------------
(* operator(): Foreach notes the next node, resumes the task, and removes it *)
(* when the task has ended.                                                  *)

\* i is visited in list l: before are the tasks that were visited in this round,
\* todo those that were not.
Visit(l, i, before, todo) ==
  IF i = None
  THEN /\ idx' = None /\ next' = None /\ resumed' = before /\ due' = todo
       /\ UNCHANGED harm
  ELSE LET t == l.buf[i].value IN
       /\ idx' = i /\ next' = l.buf[i].next
       /\ resumed' = Append(before, t) /\ due' = todo \ {t}
       /\ harm' = IF t \in alive THEN harm ELSE "other"

BeginRound ==
  /\ NoRound /\ list.head # None
  /\ Visit(list, list.head, <<>>, InList)
  /\ UNCHANGED <<list, deleter, alive, handles, cleared>>

\* The task suspends again.
Suspend ==
  /\ ~NoRound
  /\ Visit(list, next, resumed, due)
  /\ UNCHANGED <<list, deleter, alive, handles, cleared>>

\* The task ends.
FinishThen(l, following) ==
  /\ ~NoRound
  /\ list' = l
  /\ alive' = alive \ {list.buf[idx].value}
  /\ Visit(l, following, resumed, due)
  /\ UNCHANGED <<deleter, handles, cleared>>
FinishLate == FinishThen(RemoveNode(list, idx), RemoveNode(list, idx).buf[idx].next)  \* mutant
FinishKept == FinishThen(list, next)                                          \* mutant
Finish == FinishThen(RemoveNode(list, idx), next)

\* The task throws (line 49): Foreach ends and leaves it in the list.  A coroutine that
\* threw runs no more; that a task does nothing before it ends, or never ends, is among
\* what tasks do anyway.  A round that was given up owes nothing.
Throw ==
  /\ ~NoRound
  /\ idx' = None /\ next' = None /\ due' = {}
  /\ UNCHANGED <<list, deleter, alive, handles, resumed, harm, cleared>>

\* What a task that runs must not do and can: drop itself, or the one that Foreach has
\* noted as the next, make the list grow (Add, Reserve), or clear it.
Misuse ==
  /\ ~NoRound
  /\ \/ \E d \in Deleter :
          /\ Exists(list, deleter[d]) /\ ~Spared(deleter[d].index)
          /\ harm' = IF deleter[d].index = idx THEN "self" ELSE "next"
     \/ harm' \in {"node", "clear"}
  /\ UNCHANGED <<list, idx, next, deleter, alive, handles, resumed, due, cleared>>

TasksNext ==
  /\ harm = "none"
  /\ \/ AddTask \/ ClearTasks \/ BeginRound \/ Suspend \/ Finish \/ Throw \/ Misuse
     \/ \E d \in Deleter : Assign(d) \/ Drop(d) \/ DropGone(d)
     \/ \E n \in 1..MaxCap : Grow(n)

TasksSpec == TasksInit /\ [][TasksNext]_taskVars

-----------------------------------------------------------------------------
\* A handle finds its task as long as the task is in the list, and nothing when it
\* is not, whatever has taken its node since (Exists, lines 156-159); and over every
\* order of additions, removals and growth the list is the same read from both ends,
\* each node being in it or in the free list.
HandlesFind ==
  /\ Linked(list)
  /\ \A t \in 1..Made :
       IF Exists(list, handles[t]) THEN list.buf[handles[t].index].value = t ELSE t \notin InList

\* "resume once" (xx_task.h:161): in a round tasks are resumed in the order in which
\* they were added, none twice, though tasks come and go in the round; and none is
\* left out that was there when the round began and still is, unless a task throws.
InOrder == \A i, j \in DOMAIN resumed : i < j => resumed[i] < resumed[j]
ResumedOnce == InOrder /\ (NoRound => due = {})

\* Every task in the list has its frame, and no other frame is left but those that Clear
\* has dropped; and no frame or node is used that is gone but by the calls of Misuse.
FramesKept == harm # "other" /\ InList \subseteq alive /\ (cleared \/ alive = InList)
=============================================================================
