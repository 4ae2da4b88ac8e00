----------------------------- MODULE ThreadPool -----------------------------
(***************************************************************************)
(* ThreadPool and ThreadPool2 (xx_threadpool.h): worker threads take jobs  *)
(* from a queue under a mutex and sleep on a condition variable when there *)
(* are none; the destructor lets them finish what was accepted.  A job may *)
(* itself Add jobs.                                                        *)
(*                                                                         *)
(* A section under the mutex is one step; notify_one and notify_all come   *)
(* after the mutex is released and are steps of their own.                 *)
(*                                                                         *)
(* No name of it is one of ToggleThreadPool: proofs are about both.        *)
(***************************************************************************)
EXTENDS Naturals, Sequences, FiniteSets

CONSTANTS Worker, Client,  \* the threads of the pool and its users
          MaxJob           \* bound: jobs accepted

ASSUME PoolAssumption == /\ IsFiniteSet(Worker) /\ Worker # {} /\ IsFiniteSet(Client)
                         /\ Worker \cap Client = {} /\ MaxJob \in Nat

VARIABLES
  jobs, stop,
  phase,     \* of a worker
  job,       \* the job a worker runs; 0 when it runs none
  adding,    \* threads in Add that have yet to notify_one
  accepted,  \* number of jobs accepted, which are 1..accepted
  ended,     \* jobs that have ended
  dtor       \* how far the destructor is

poolVars == <<jobs, stop, phase, job, adding, accepted, ended, dtor>>

Job == 1..MaxJob

PoolTypeOK ==
  /\ jobs \in Seq(Job) /\ stop \in BOOLEAN
  /\ phase \in [Worker -> {"test", "sleep", "run", "exit"}]
  /\ job \in [Worker -> 0..MaxJob] /\ \A w \in Worker : job[w] # 0 <=> phase[w] = "run"
  /\ adding \subseteq Worker \cup Client
  /\ accepted \in 0..MaxJob /\ ended \subseteq Job
  /\ dtor \in {"no", "notify", "join", "done"}

PoolInit ==
  /\ jobs = <<>> /\ stop = FALSE
  /\ phase = [w \in Worker |-> "test"] /\ job = [w \in Worker |-> 0]
  /\ adding = {} /\ accepted = 0 /\ ended = {} /\ dtor = "no"

-----------------------------------------------------------------------------
(* Add: by a user's thread while the pool lives, or by a job. *)

CanAdd(t) == /\ t \notin adding
             /\ t \in Client => dtor = "no"
             /\ t \in Worker => phase[t] = "run"

\* With stop set it returns -1 and changes nothing.
Add(t) ==
  /\ ~stop /\ CanAdd(t) /\ accepted < MaxJob
  /\ accepted' = accepted + 1 /\ jobs' = Append(jobs, accepted + 1)
  /\ adding' = adding \cup {t}
  /\ UNCHANGED <<stop, phase, job, ended, dtor>>

NotifyNone(t) ==                                   \* mutant
  /\ t \in adding /\ adding' = adding \ {t}
  /\ UNCHANGED <<jobs, stop, phase, job, accepted, ended, dtor>>

NotifyOne(t) ==
  /\ t \in adding /\ adding' = adding \ {t}
  /\ \/ \E w \in Worker : phase[w] = "sleep" /\ phase' = [phase EXCEPT ![w] = "test"]
     \/ (\A w \in Worker : phase[w] # "sleep") /\ UNCHANGED phase
  /\ UNCHANGED <<jobs, stop, job, accepted, ended, dtor>>

-----------------------------------------------------------------------------
(* The loop of a worker. *)

\* cond.wait tests its predicate with the mutex held.
SleepUnless(w, woken) ==
  /\ phase[w] = "test" /\ ~woken
  /\ phase' = [phase EXCEPT ![w] = "sleep"]
  /\ UNCHANGED <<jobs, stop, job, adding, accepted, ended, dtor>>
SleepThroughStop(w) == SleepUnless(w, jobs # <<>>)    \* mutant
Sleep(w) == SleepUnless(w, stop \/ jobs # <<>>)

TakeLeaving(w, rest) ==
  /\ phase[w] = "test" /\ jobs # <<>>
  /\ phase' = [phase EXCEPT ![w] = "run"]
  /\ job' = [job EXCEPT ![w] = Head(jobs)] /\ jobs' = rest
  /\ UNCHANGED <<stop, adding, accepted, ended, dtor>>
TakeWithoutPop(w) == TakeLeaving(w, jobs)             \* mutant
Take(w) == TakeLeaving(w, Tail(jobs))

ExitOn(w, condition) ==
  /\ phase[w] = "test" /\ condition
  /\ phase' = [phase EXCEPT ![w] = "exit"]
  /\ UNCHANGED <<jobs, stop, job, adding, accepted, ended, dtor>>
ExitAtOnce(w) == ExitOn(w, stop)                   \* mutant: leaves jobs behind
Exit(w) == ExitOn(w, stop /\ jobs = <<>>)

EndJobHolding(w, j) ==
  /\ phase[w] = "run" /\ w \notin adding
  /\ phase' = [phase EXCEPT ![w] = "test"]
  /\ job' = [job EXCEPT ![w] = j] /\ ended' = ended \cup {job[w]}
  /\ UNCHANGED <<jobs, stop, adding, accepted, dtor>>
EndJobKept(w) == EndJobHolding(w, job[w])             \* mutant: j outlives the round
EndJob(w) == EndJobHolding(w, 0)

\* A condition variable may wake without cause.
Spurious(w) ==
  /\ phase[w] = "sleep" /\ phase' = [phase EXCEPT ![w] = "test"]
  /\ UNCHANGED <<jobs, stop, job, adding, accepted, ended, dtor>>

-----------------------------------------------------------------------------
(* ~ThreadPool; no user's thread is in Add any more. *)

SetStop ==
  /\ dtor = "no" /\ adding \cap Client = {}
  /\ stop' = TRUE /\ dtor' = "notify"
  /\ UNCHANGED <<jobs, phase, job, adding, accepted, ended>>

NotifySome(S) ==
  /\ dtor = "notify" /\ dtor' = "join"
  /\ phase' = [w \in Worker |-> IF w \in S THEN "test" ELSE phase[w]]
  /\ UNCHANGED <<jobs, stop, job, adding, accepted, ended>>
NotifyOneOnly == \E w \in Worker : phase[w] = "sleep" /\ NotifySome({w})   \* mutant
NotifyAll == NotifySome({w \in Worker : phase[w] = "sleep"})

JoinAll ==
  /\ dtor = "join" /\ \A w \in Worker : phase[w] = "exit"
  /\ dtor' = "done"
  /\ UNCHANGED <<jobs, stop, phase, job, adding, accepted, ended>>

Proceed(w) == Take(w) \/ Exit(w) \/ EndJob(w) \/ NotifyOne(w)
PoolNext ==
  \/ \E t \in Client \cup Worker : Add(t)
  \/ \E t \in Client : NotifyOne(t)
  \/ \E w \in Worker : Proceed(w) \/ Sleep(w) \/ Spurious(w)
  \/ SetStop \/ NotifyAll \/ JoinAll

\* Threads are scheduled, the mutex is had in the end, jobs end.
PoolSpec ==
  /\ PoolInit /\ [][PoolNext]_poolVars
  /\ \A w \in Worker : WF_poolVars(Proceed(w))
  /\ \A t \in Client : WF_poolVars(NotifyOne(t))
  /\ WF_poolVars(NotifyAll) /\ WF_poolVars(JoinAll)

-----------------------------------------------------------------------------
Asleep == {w \in Worker : phase[w] = "sleep"}
Testing == {w \in Worker : phase[w] = "test"}

\* While a worker sleeps no job waits without a thread that comes for it: a
\* worker awake, or an Add that is about to wake one.  notify_one is outside of
\* the mutex (line 43) and wakes nobody when all are awake, so jobs and wakes
\* must balance over every order of Adds, takes and naps.
NoJobForgotten == Asleep # {} => Len(jobs) <= Cardinality(Testing) + Cardinality(adding)

\* Once notify_all is done no worker sleeps again: join would wait forever.
NoSleepAfterStop == dtor \in {"join", "done"} => Asleep = {}

\* No wake is lost between the tests and naps of the threads, notify_one and notify_all.
NoWakeLost == NoJobForgotten /\ NoSleepAfterStop

\* Every job accepted is in the queue, with one worker, or has run.
Waiting == {jobs[i] : i \in DOMAIN jobs}
Running == {job[w] : w \in Worker} \ {0}
Accounted ==
  /\ 1..accepted = Waiting \cup Running \cup ended
  /\ Waiting \cap Running = {} /\ (Waiting \cup Running) \cap ended = {}
  /\ \A v, w \in Worker : v # w /\ job[v] # 0 => job[v] # job[w]

\* When the destructor returns no thread uses the pool and all jobs have run.
DtorFinishes == dtor = "done" => (\A w \in Worker : phase[w] = "exit") /\ ended = 1..accepted

\* No job is lost or run twice, and none is left when the destructor returns.
JobsKept == Accounted /\ DtorFinishes

\* Every job accepted runs to its end, and the destructor returns.
Served ==
  /\ \A j \in Job : j <= accepted ~> j \in ended
  /\ stop ~> dtor = "done"
=============================================================================
