-------------------------- MODULE ToggleThreadPool --------------------------
(***************************************************************************)
(* ToggleThreadPool (xx_threadpool.h): the owner fills a queue of functions*)
(* per thread and has the threads run them, in one of three ways: RunOnce; *)
(* Begin, Add, Commit; or Start, then Add and Go again and again, Stop.    *)
(* They meet in the atomics running, started and numFinisheds only.        *)
(*                                                                         *)
(* Each access of an atomic is a step.  A spinning thread is one whose step*)
(* is not enabled: it may miss a value that does not stay.                 *)
(***************************************************************************)
EXTENDS Naturals, Sequences, FiniteSets, SequencesExt

CONSTANTS Thread,   \* threads
          MaxFunc,  \* bound: functions added
          MaxRound  \* bound: calls of RunOnce, Begin, Start and Go

ASSUME ToggleAssumption ==
  IsFiniteSet(Thread) /\ Thread # {} /\ MaxFunc \in Nat /\ MaxRound \in Nat

VARIABLES
  threads,   \* those of the pool, as many as Init is told
  funcss, running, started, numFinisheds,
  at,        \* the owner: where it is in its call, or "idle", "begun", "started" between calls
  pc,        \* of a thread: its position in Process, Process2, Process3, or "none"
  next,      \* which function of its queue a thread runs next
  added, ran, \* functions added, which are 1..added; how often each has run
  round      \* calls made

atomics == <<running, started, numFinisheds>>
vars == <<threads, funcss, atomics, at, pc, next, added, ran, round>>

Func == 1..MaxFunc

TypeOK ==
  /\ threads \subseteq Thread /\ threads # {}
  /\ funcss \in [Thread -> Seq(Func)]
  /\ running \in BOOLEAN /\ started \in BOOLEAN /\ numFinisheds \in 0..Cardinality(threads)
  /\ at \in {"idle", "begun", "started", "joinOnce", "joinCommit", "joinStop", "go", "goEnd", "goReset"}
  /\ pc \in [Thread -> {"none", "spin2", "spin", "spinRunning", "check",
                        "process", "finish", "drain", "again"}]
  /\ next \in [Thread -> Nat \ {0}] /\ \A t \in Thread : next[t] <= Len(funcss[t]) + 1
  /\ added \in 0..MaxFunc /\ ran \in [Func -> Nat] /\ round \in 0..MaxRound

Init ==
  /\ threads \in (SUBSET Thread) \ {{}}
  /\ funcss = [t \in Thread |-> <<>>]
  /\ running = FALSE /\ started = FALSE /\ numFinisheds = 0
  /\ at = "idle" /\ pc = [t \in Thread |-> "none"] /\ next = [t \in Thread |-> 1]
  /\ added = 0 /\ ran = [f \in Func |-> 0] /\ round = 0

-----------------------------------------------------------------------------
(* The owner. *)

\* AddTo; Add is AddTo the first of the shortest queues.
AddTo(t) ==
  /\ t \in threads /\ at \in {"idle", "begun", "started"} /\ added < MaxFunc
  /\ added' = added + 1
  /\ funcss' = [funcss EXCEPT ![t] = Append(@, added + 1)]
  /\ UNCHANGED <<threads, atomics, at, pc, next, ran, round>>

Threads(first) == pc' = [t \in Thread |-> IF t \in threads THEN first ELSE "none"] /\ next' = [t \in Thread |-> 1]
NewRound == round < MaxRound /\ round' = round + 1
Joined == \A t \in Thread : pc[t] = "none"

RunOnce ==
  /\ at = "idle" /\ at' = "joinOnce" /\ NewRound
  /\ Threads("process")
  /\ UNCHANGED <<threads, funcss, atomics, added, ran>>

Begin ==
  /\ at = "idle" /\ at' = "begun" /\ NewRound
  /\ Threads("spin2")
  /\ UNCHANGED <<threads, funcss, atomics, added, ran>>

Commit ==
  /\ at = "begun" /\ at' = "joinCommit" /\ running' = TRUE
  /\ UNCHANGED <<threads, funcss, started, numFinisheds, pc, next, added, ran, round>>

Start ==
  /\ at = "idle" /\ at' = "started" /\ NewRound
  /\ started' = TRUE /\ Threads("spin")
  /\ UNCHANGED <<threads, funcss, running, numFinisheds, added, ran>>

Go ==
  /\ at = "started" /\ at' = "go" /\ NewRound
  /\ running' = TRUE
  /\ UNCHANGED <<threads, funcss, started, numFinisheds, pc, next, added, ran>>

GoWaitFor(n) ==
  /\ at = "go" /\ numFinisheds = n
  /\ at' = "goEnd"
  /\ UNCHANGED <<threads, funcss, atomics, pc, next, added, ran, round>>
GoWaitForOne == GoWaitFor(1)                                      \* mutant
GoWait == GoWaitFor(Cardinality(threads))

GoEnd ==      \* running = false, then numFinisheds = 0
  /\ at = "goEnd" /\ at' = "goReset" /\ running' = FALSE
  /\ UNCHANGED <<threads, funcss, started, numFinisheds, pc, next, added, ran, round>>

GoResetTo(n) ==
  /\ at = "goReset" /\ at' = "started" /\ numFinisheds' = n
  /\ UNCHANGED <<threads, funcss, running, started, pc, next, added, ran, round>>
GoResetNothing == GoResetTo(numFinisheds)                         \* mutant
GoReset == GoResetTo(0)

Stop ==
  /\ at = "started" /\ at' = "joinStop" /\ started' = FALSE
  /\ UNCHANGED <<threads, funcss, running, numFinisheds, pc, next, added, ran, round>>

Join ==
  /\ at \in {"joinOnce", "joinCommit", "joinStop"} /\ Joined
  /\ at' = "idle" /\ running' = FALSE
  /\ UNCHANGED <<threads, funcss, started, numFinisheds, pc, next, added, ran, round>>

-----------------------------------------------------------------------------
(* The threads. *)

Goto(t, l) == pc' = [pc EXCEPT ![t] = l]
Stays == UNCHANGED <<threads, funcss, atomics, at, next, added, ran, round>>

Process2(t) == pc[t] = "spin2" /\ running /\ Goto(t, "process") /\ Stays

\* Line 227 reads started, then running.
Spin(t) ==
  /\ pc[t] = "spin"
  /\ Goto(t, IF started THEN "spinRunning" ELSE "check") /\ Stays
SpinRunning(t) ==
  /\ pc[t] = "spinRunning"
  /\ Goto(t, IF running THEN "check" ELSE "spin") /\ Stays
Check(t) ==
  /\ pc[t] = "check"
  /\ Goto(t, IF started THEN "process" ELSE "none") /\ Stays

\* Process: one function, or the clear that follows the last.
ProcessOne(t) ==
  /\ pc[t] = "process" /\ next[t] <= Len(funcss[t])
  /\ ran' = [ran EXCEPT ![funcss[t][next[t]]] = @ + 1]
  /\ next' = [next EXCEPT ![t] = @ + 1]
  /\ UNCHANGED <<threads, funcss, atomics, at, pc, added, round>>

AfterProcess == IF at \in {"joinOnce", "joinCommit"} THEN "none" ELSE "finish"
ProcessLeaving(t, queue) ==
  /\ pc[t] = "process" /\ next[t] > Len(funcss[t])
  /\ funcss' = [funcss EXCEPT ![t] = queue]
  /\ next' = [next EXCEPT ![t] = 1]
  /\ Goto(t, AfterProcess)
  /\ UNCHANGED <<threads, atomics, at, added, ran, round>>
ProcessWithoutClear(t) == ProcessLeaving(t, funcss[t])            \* mutant
ProcessEnd(t) == ProcessLeaving(t, <<>>)

FinishWith(t, n) ==
  /\ pc[t] = "finish" /\ numFinisheds' = n
  /\ Goto(t, "drain")
  /\ UNCHANGED <<threads, funcss, running, started, at, next, added, ran, round>>
FinishSilently(t) == FinishWith(t, numFinisheds)                  \* mutant
Finish(t) == FinishWith(t, numFinisheds + 1)

DrainOn(t, condition) ==
  /\ pc[t] = "drain" /\ condition
  /\ Goto(t, "again") /\ Stays
DrainNot(t) == DrainOn(t, TRUE)                                   \* mutant: line 231 left out
Drain(t) == DrainOn(t, numFinisheds = 0)

Again(t) ==
  /\ pc[t] = "again" /\ Goto(t, IF started THEN "spin" ELSE "none") /\ Stays

Owner == \/ RunOnce \/ Begin \/ Commit \/ Start \/ Go \/ Stop
         \/ \E t \in Thread : AddTo(t)
OwnerWaits == GoWait \/ GoEnd \/ GoReset \/ Join
Loop(t) == \/ Process2(t) \/ Spin(t) \/ SpinRunning(t) \/ Check(t) \/ ProcessOne(t)
           \/ ProcessEnd(t) \/ Finish(t) \/ Drain(t) \/ Again(t)
Next == Owner \/ OwnerWaits \/ \E t \in Thread : Loop(t)

\* The scheduler runs every thread; a call of the owner goes on.
Spec == /\ Init /\ [][Next]_vars
        /\ WF_vars(OwnerWaits) /\ \A t \in Thread : WF_vars(Loop(t))

-----------------------------------------------------------------------------
\* Queues are vectors without a lock: while the owner may Add no thread is in
\* Process, nor can one get there without a Go or a Commit.
NoRace ==
  at \in {"idle", "begun", "started"} =>
    ~running /\ \A t \in Thread : pc[t] \notin {"check", "process", "finish"}

\* Nothing runs twice, and when RunOnce, Commit or Go returns all that was
\* added has run ("阻塞等待执行完毕，任务会清空", lines 272 and 295).
Complete ==
  at \in {"goEnd", "goReset"} \/ (at \in {"joinOnce", "joinCommit"} /\ Joined) =>
    /\ \A t \in Thread : funcss[t] = <<>>
    /\ \A f \in 1..added : ran[f] = 1
RunsOnce == Complete /\ \A f \in Func : ran[f] <= 1

\* RunOnce, Commit and Stop return, for no thread is left spinning that they join; and
\* every call returns, Go among them, when the pool has a single thread.
CallsReturn ==
  /\ at \in {"joinOnce", "joinCommit", "joinStop"} ~> at = "idle"
  /\ Cardinality(threads) = 1 /\ at \notin {"idle", "begun", "started"} ~> at \in {"idle", "begun", "started"}

\* Go runs what was added ("执行一把 Add 的函数", line 318).
GoExecutes == \A f \in Func : at = "go" /\ f <= added ~> ran[f] > 0
=============================================================================
