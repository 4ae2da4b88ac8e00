-------------------------- MODULE ThreadPools_proofs --------------------------
(* Proofs that the invariants of both kinds of thread pools hold for every  *)
(* number of threads: those of ThreadPool for every number of users and     *)
(* jobs, those of ToggleThreadPool for every number of functions and calls. *)
EXTENDS ThreadPool, ToggleThreadPool, FiniteSetTheorems, SequenceTheorems, TLAPS

-----------------------------------------------------------------------------
(* ThreadPool. *)

\* No job is twice in the queue; a worker is in Add only inside a job.
Queued == \A i, j \in DOMAIN jobs : jobs[i] = jobs[j] => i = j
Adding == \A w \in adding \cap Worker : phase[w] = "run"

\* stop is set by the destructor alone, and after it only jobs add; a worker
\* leaves when nobody can add any more.
Stopping ==
  /\ stop <=> dtor # "no"
  /\ stop => adding \cap Client = {}
  /\ (\E w \in Worker : phase[w] = "exit") => stop /\ jobs = <<>>
  /\ dtor = "done" => \A w \in Worker : phase[w] = "exit"

PoolInv == PoolTypeOK /\ NoJobForgotten /\ NoSleepAfterStop /\ Accounted /\ Queued /\ Adding /\ Stopping

LEMMA PoolConsts ==
  /\ IsFiniteSet(Worker) /\ Worker # {} /\ IsFiniteSet(Client)
  /\ Worker \cap Client = {} /\ MaxJob \in Nat
  BY PoolAssumption DEF PoolAssumption

\* The sets that are counted are finite.
LEMMA PoolCounted ==
  ASSUME PoolTypeOK
  PROVE  /\ IsFiniteSet(Testing) /\ Cardinality(Testing) \in Nat
         /\ IsFiniteSet(adding) /\ Cardinality(adding) \in Nat
         /\ Len(jobs) \in Nat /\ DOMAIN jobs = 1..Len(jobs)
<1>1. IsFiniteSet(Worker \cup Client) BY PoolConsts, FS_Union
<1>2. Testing \in SUBSET Worker /\ adding \in SUBSET (Worker \cup Client) BY DEF Testing, PoolTypeOK
<1>3. IsFiniteSet(Testing) /\ IsFiniteSet(adding) BY <1>1, <1>2, PoolConsts, FS_Subset
<1> QED BY <1>3, FS_CardinalityType, LenProperties DEF PoolTypeOK

\* A worker that goes from the test to something else, and one that comes to it.
LEMMA LeavesTest ==
  ASSUME PoolTypeOK, NEW w \in Worker, phase[w] = "test", NEW s \in {"sleep", "run", "exit"},
         phase' = [phase EXCEPT ![w] = s]
  PROVE  Cardinality(Testing') = Cardinality(Testing) - 1
<1>1. Testing' = Testing \ {w} /\ w \in Testing BY DEF Testing, PoolTypeOK
<1> QED BY <1>1, PoolCounted, FS_RemoveElement

LEMMA ComesToTest ==
  ASSUME PoolTypeOK, NEW w \in Worker, phase[w] # "test", phase' = [phase EXCEPT ![w] = "test"]
  PROVE  Cardinality(Testing') = Cardinality(Testing) + 1
<1>1. Testing' = Testing \cup {w} /\ w \notin Testing BY DEF Testing, PoolTypeOK
<1> QED BY <1>1, PoolCounted, FS_AddElement

\* What the invariants say of the jobs depends on nothing but these.
LEMMA SameJobs ==
  ASSUME Accounted, Queued, UNCHANGED <<jobs, job, accepted, ended>>
  PROVE  Accounted' /\ Queued'
  BY DEF Accounted, Queued, Waiting, Running

LEMMA PoolInitInv == PoolInit => PoolInv
<1> SUFFICES ASSUME PoolInit PROVE PoolInv OBVIOUS
<1>1. PoolTypeOK
  <2>1. jobs \in Seq(Job) /\ 0 \in 0..MaxJob BY PoolConsts, EmptySeq DEF PoolInit
  <2> QED BY <2>1 DEF PoolInit, PoolTypeOK
<1>2. NoJobForgotten BY DEF PoolInit, NoJobForgotten, Asleep
<1>3. Accounted
  <2>1. 1..accepted = {} /\ Running = {} /\ Waiting = {} BY DEF PoolInit, Running, Waiting
  <2> QED BY <2>1 DEF PoolInit, Accounted
<1> QED BY <1>1, <1>2, <1>3 DEF PoolInv, PoolInit, NoSleepAfterStop, Queued, Adding, Stopping

LEMMA AddInv == ASSUME PoolInv, NEW t \in Client \cup Worker, Add(t) PROVE PoolInv'
<1> DEFINE k == Len(jobs)
<1>1. /\ ~stop /\ t \notin adding /\ accepted \in Nat /\ accepted < MaxJob
      /\ t \in Worker => phase[t] = "run"
      /\ accepted' = accepted + 1 /\ jobs' = Append(jobs, accepted + 1) /\ adding' = adding \cup {t}
      /\ UNCHANGED <<stop, phase, job, ended, dtor>>
  BY PoolConsts DEF Add, CanAdd, PoolInv, PoolTypeOK
<1>2. accepted + 1 \in Job BY <1>1, PoolConsts DEF Job
<1>3. /\ jobs' \in Seq(Job) /\ Len(jobs') = k + 1 /\ DOMAIN jobs' = 1..(k + 1)
      /\ k \in Nat /\ DOMAIN jobs = 1..k
      /\ \A i \in 1..k : jobs'[i] = jobs[i]
      /\ jobs'[k + 1] = accepted + 1
  BY <1>1, <1>2, AppendProperties, LenProperties DEF PoolInv, PoolTypeOK
<1>4. PoolTypeOK' BY <1>1, <1>3, PoolConsts DEF PoolInv, PoolTypeOK
<1>5. NoJobForgotten'
  <2>1. Cardinality(adding') = Cardinality(adding) + 1
    BY <1>1, PoolCounted, FS_AddElement DEF PoolInv
  <2>2. Testing' = Testing /\ Asleep' = Asleep BY <1>1 DEF Testing, Asleep
  <2> QED BY <1>3, <2>1, <2>2, PoolCounted DEF PoolInv, NoJobForgotten
<1>6. Waiting' = Waiting \cup {accepted + 1} BY <1>3 DEF Waiting
<1>7. Running' = Running BY <1>1 DEF Running
<1>8. \A i \in DOMAIN jobs : jobs[i] \in 1..accepted BY DEF PoolInv, Accounted, Waiting
<1>9. Accounted'
  <2>1. Waiting \subseteq 1..accepted /\ Running \subseteq 1..accepted /\ ended \subseteq 1..accepted
    BY DEF PoolInv, Accounted
  <2>2. 1..(accepted + 1) = 1..accepted \cup {accepted + 1} /\ accepted + 1 \notin 1..accepted BY <1>1
  <2>3. 1..accepted' = Waiting' \cup Running' \cup ended'
    BY <1>1, <1>6, <1>7, <2>2 DEF PoolInv, Accounted
  <2>4. Waiting' \cap Running' = {} /\ (Waiting' \cup Running') \cap ended' = {}
    BY <1>1, <1>6, <1>7, <2>1, <2>2 DEF PoolInv, Accounted
  <2> QED BY <1>1, <2>3, <2>4 DEF PoolInv, Accounted
<1>10. Queued'
  BY <1>1, <1>3, <1>8 DEF PoolInv, Queued
<1>11. Adding' BY <1>1 DEF PoolInv, Adding
<1>12. Stopping' /\ NoSleepAfterStop'
  BY <1>1 DEF PoolInv, Stopping, NoSleepAfterStop, Asleep
<1> QED BY <1>4, <1>5, <1>9, <1>10, <1>11, <1>12 DEF PoolInv

LEMMA NotifyOneInv == ASSUME PoolInv, NEW t \in Client \cup Worker, NotifyOne(t) PROVE PoolInv'
<1>1. /\ t \in adding /\ adding' = adding \ {t} /\ UNCHANGED <<jobs, stop, job, accepted, ended, dtor>>
      /\ \/ \E w \in Worker : phase[w] = "sleep" /\ phase' = [phase EXCEPT ![w] = "test"]
         \/ (\A w \in Worker : phase[w] # "sleep") /\ UNCHANGED phase
  BY DEF NotifyOne
<1>2. Accounted' /\ Queued' BY <1>1, SameJobs DEF PoolInv
<1>3. Cardinality(adding') = Cardinality(adding) - 1
  BY <1>1, PoolCounted, FS_RemoveElement DEF PoolInv
<1>4. CASE UNCHANGED phase /\ \A w \in Worker : phase[w] # "sleep"
  <2>1. PoolTypeOK' /\ NoSleepAfterStop' /\ Adding' /\ Stopping'
    BY <1>1, <1>4 DEF PoolInv, PoolTypeOK, NoSleepAfterStop, Asleep, Adding, Stopping
  <2>2. NoJobForgotten' BY <1>4 DEF NoJobForgotten, Asleep
  <2> QED BY <1>2, <2>1, <2>2 DEF PoolInv
<1>5. ASSUME NEW w \in Worker, phase[w] = "sleep", phase' = [phase EXCEPT ![w] = "test"] PROVE PoolInv'
  <2>1. PoolTypeOK' BY <1>1, <1>5 DEF PoolInv, PoolTypeOK
  <2>2. NoSleepAfterStop' /\ Adding' /\ Stopping'
    BY <1>1, <1>5 DEF PoolInv, PoolTypeOK, NoSleepAfterStop, Asleep, Adding, Stopping
  <2>3. Cardinality(Testing') = Cardinality(Testing) + 1 BY <1>5, ComesToTest DEF PoolInv
  <2>4. w \in Asleep BY <1>5 DEF Asleep
  <2>5. NoJobForgotten' BY <1>1, <1>3, <2>3, <2>4, PoolCounted DEF PoolInv, NoJobForgotten
  <2> QED BY <1>2, <2>1, <2>2, <2>5 DEF PoolInv
<1> QED BY <1>1, <1>4, <1>5

LEMMA SleepInv == ASSUME PoolInv, NEW w \in Worker, Sleep(w) PROVE PoolInv'
<1>1. /\ phase[w] = "test" /\ ~stop /\ jobs = <<>> /\ phase' = [phase EXCEPT ![w] = "sleep"]
      /\ UNCHANGED <<jobs, stop, job, adding, accepted, ended, dtor>>
  BY DEF Sleep, SleepUnless
<1>2. Accounted' /\ Queued' BY <1>1, SameJobs DEF PoolInv
<1>3. PoolTypeOK' BY <1>1 DEF PoolInv, PoolTypeOK
<1>4. NoJobForgotten'
  <2>1. Len(jobs') = 0 /\ Cardinality(Testing) \in Nat /\ Cardinality(adding) \in Nat
    BY <1>1, PoolCounted DEF PoolInv
  <2>2. Cardinality(Testing') = Cardinality(Testing) - 1 BY <1>1, LeavesTest DEF PoolInv
  <2>3. w \in Testing BY <1>1 DEF Testing
  <2>4. Cardinality(Testing) # 0 BY <2>3, PoolCounted, FS_EmptySet DEF PoolInv
  <2> QED BY <1>1, <2>1, <2>2, <2>4 DEF NoJobForgotten
<1>5. NoSleepAfterStop' /\ Stopping'
  BY <1>1 DEF PoolInv, PoolTypeOK, NoSleepAfterStop, Stopping
<1>6. Adding' BY <1>1 DEF PoolInv, PoolTypeOK, Adding
<1> QED BY <1>2, <1>3, <1>4, <1>5, <1>6 DEF PoolInv

LEMMA ExitInv == ASSUME PoolInv, NEW w \in Worker, Exit(w) PROVE PoolInv'
<1>1. /\ phase[w] = "test" /\ stop /\ jobs = <<>> /\ phase' = [phase EXCEPT ![w] = "exit"]
      /\ UNCHANGED <<jobs, stop, job, adding, accepted, ended, dtor>>
  BY DEF Exit, ExitOn
<1>2. Accounted' /\ Queued' BY <1>1, SameJobs DEF PoolInv
<1>3. PoolTypeOK' BY <1>1 DEF PoolInv, PoolTypeOK
<1>4. NoJobForgotten'
  <2>1. Len(jobs') = 0 /\ Cardinality(Testing) \in Nat /\ Cardinality(adding) \in Nat
    BY <1>1, PoolCounted DEF PoolInv
  <2>2. Cardinality(Testing') = Cardinality(Testing) - 1 BY <1>1, LeavesTest DEF PoolInv
  <2>3. w \in Testing BY <1>1 DEF Testing
  <2>4. Cardinality(Testing) # 0 BY <2>3, PoolCounted, FS_EmptySet DEF PoolInv
  <2> QED BY <1>1, <2>1, <2>2, <2>4 DEF NoJobForgotten
<1>5. NoSleepAfterStop' BY <1>1 DEF PoolInv, PoolTypeOK, NoSleepAfterStop, Asleep
<1>6. Stopping' BY <1>1 DEF PoolInv, PoolTypeOK, Stopping
<1>7. Adding' BY <1>1 DEF PoolInv, PoolTypeOK, Adding
<1> QED BY <1>2, <1>3, <1>4, <1>5, <1>6, <1>7 DEF PoolInv

LEMMA TakeInv == ASSUME PoolInv, NEW w \in Worker, Take(w) PROVE PoolInv'
<1> DEFINE k == Len(jobs)
<1>1. /\ phase[w] = "test" /\ jobs # <<>> /\ phase' = [phase EXCEPT ![w] = "run"]
      /\ job' = [job EXCEPT ![w] = Head(jobs)] /\ jobs' = Tail(jobs)
      /\ UNCHANGED <<stop, adding, accepted, ended, dtor>>
  BY DEF Take, TakeLeaving
<1>2. /\ k \in Nat \ {0} /\ DOMAIN jobs = 1..k /\ Head(jobs) = jobs[1] /\ jobs[1] \in Job
      /\ jobs' \in Seq(Job) /\ Len(jobs') = k - 1 /\ DOMAIN jobs' = 1..(k - 1)
      /\ \A i \in 1..(k - 1) : jobs'[i] = jobs[i + 1]
  BY <1>1, HeadTailProperties, LenProperties, EmptySeq DEF PoolInv, PoolTypeOK
<1>3. job[w] = 0 /\ jobs[1] # 0 /\ jobs[1] \in 0..MaxJob /\ job'[w] = jobs[1]
  BY <1>1, <1>2, PoolConsts DEF PoolInv, PoolTypeOK, Job
<1>4. PoolTypeOK' BY <1>1, <1>2, <1>3 DEF PoolInv, PoolTypeOK
<1>5. NoJobForgotten'
  <2>1. Asleep' = Asleep BY <1>1 DEF Asleep, PoolInv, PoolTypeOK
  <2>2. Cardinality(Testing') = Cardinality(Testing) - 1 BY <1>1, LeavesTest DEF PoolInv
  <2> QED BY <1>1, <1>2, <2>1, <2>2, PoolCounted DEF PoolInv, NoJobForgotten
<1>6. Waiting = Waiting' \cup {jobs[1]} /\ jobs[1] \notin Waiting'
  <2>1. \A i \in 1..k : i = 1 \/ (i - 1 \in 1..(k - 1) /\ jobs'[i - 1] = jobs[i])
    BY <1>2
  <2>2. \A i \in 1..(k - 1) : i + 1 \in 1..k /\ i + 1 # 1 /\ jobs'[i] = jobs[i + 1]
    BY <1>2
  <2>3. 1 \in 1..k BY <1>2
  <2>4. Waiting = {jobs[i] : i \in 1..k} /\ Waiting' = {jobs'[i] : i \in 1..(k - 1)}
    BY <1>2 DEF Waiting
  <2>5. \A i \in 1..k : jobs[i] = jobs[1] => i = 1 BY <1>2, <2>3 DEF PoolInv, Queued
  <2> HIDE DEF k
  <2> QED BY <2>1, <2>2, <2>3, <2>4, <2>5
<1>7. Running' = Running \cup {jobs[1]}
  <2>1. \A v \in Worker \ {w} : job'[v] = job[v] BY <1>1 DEF PoolInv, PoolTypeOK
  <2> QED BY <1>3, <2>1 DEF Running
<1>8. Accounted'
  <2>1. 1..accepted' = Waiting' \cup Running' \cup ended'
    BY <1>1, <1>6, <1>7 DEF PoolInv, Accounted
  <2>2. Waiting' \cap Running' = {} /\ (Waiting' \cup Running') \cap ended' = {}
    BY <1>1, <1>6, <1>7 DEF PoolInv, Accounted
  <2>3. \A u, v \in Worker : u # v /\ job'[u] # 0 => job'[u] # job'[v]
    <3>1. jobs[1] \notin Running BY <1>6 DEF PoolInv, Accounted
    <3>2. \A v \in Worker \ {w} : job'[v] = job[v] /\ job[v] # jobs[1]
      BY <1>1, <1>3, <3>1 DEF Running, PoolInv, PoolTypeOK
    <3> QED BY <1>3, <3>2 DEF PoolInv, Accounted
  <2> QED BY <2>1, <2>2, <2>3 DEF Accounted
<1>9. Queued'
  <2>1. \A i, j \in 1..(k - 1) : jobs'[i] = jobs'[j] => i + 1 = j + 1
    BY <1>2 DEF PoolInv, Queued
  <2> QED BY <1>2, <2>1 DEF Queued
<1>10. NoSleepAfterStop' BY <1>1 DEF PoolInv, PoolTypeOK, NoSleepAfterStop, Asleep
<1>11. Adding' BY <1>1 DEF PoolInv, PoolTypeOK, Adding
<1>12. Stopping' BY <1>1 DEF PoolInv, PoolTypeOK, Stopping
<1> QED BY <1>4, <1>5, <1>8, <1>9, <1>10, <1>11, <1>12 DEF PoolInv

LEMMA EndJobInv == ASSUME PoolInv, NEW w \in Worker, EndJob(w) PROVE PoolInv'
<1>1. /\ phase[w] = "run" /\ w \notin adding /\ phase' = [phase EXCEPT ![w] = "test"]
      /\ job' = [job EXCEPT ![w] = 0] /\ ended' = ended \cup {job[w]}
      /\ UNCHANGED <<jobs, stop, adding, accepted, dtor>>
  BY DEF EndJob, EndJobHolding
<1>2. job[w] \in Job /\ job[w] \in Running
  BY <1>1, PoolConsts DEF PoolInv, PoolTypeOK, Job, Running
<1>3. PoolTypeOK' BY <1>1, <1>2, PoolConsts DEF PoolInv, PoolTypeOK
<1>4. NoJobForgotten'
  <2>1. Asleep' = Asleep BY <1>1 DEF Asleep, PoolInv, PoolTypeOK
  <2>2. Cardinality(Testing') = Cardinality(Testing) + 1 BY <1>1, ComesToTest DEF PoolInv
  <2> QED BY <1>1, <2>1, <2>2, PoolCounted DEF PoolInv, NoJobForgotten
<1>5. \A v \in Worker \ {w} : job'[v] = job[v] /\ job[v] # job[w]
  BY <1>1, <1>2 DEF PoolInv, PoolTypeOK, Accounted, Running
<1>6. job'[w] = 0 BY <1>1 DEF PoolInv, PoolTypeOK
<1>7. Running' = Running \ {job[w]} BY <1>2, <1>5, <1>6 DEF Running
<1>8. Waiting' = Waiting /\ Queued' BY <1>1 DEF Waiting, PoolInv, Queued
<1>9. Accounted'
  <2>1. 1..accepted' = Waiting' \cup Running' \cup ended'
    BY <1>1, <1>2, <1>7, <1>8 DEF PoolInv, Accounted
  <2>2. Waiting' \cap Running' = {} /\ (Waiting' \cup Running') \cap ended' = {}
    BY <1>1, <1>2, <1>7, <1>8 DEF PoolInv, Accounted
  <2>3. \A u, v \in Worker : u # v /\ job'[u] # 0 => job'[u] # job'[v]
    BY <1>5, <1>6 DEF PoolInv, Accounted
  <2> QED BY <2>1, <2>2, <2>3 DEF Accounted
<1>10. NoSleepAfterStop' BY <1>1 DEF PoolInv, PoolTypeOK, NoSleepAfterStop, Asleep
<1>11. Adding' BY <1>1 DEF PoolInv, PoolTypeOK, Adding
<1>12. Stopping' BY <1>1 DEF PoolInv, PoolTypeOK, Stopping
<1> QED BY <1>3, <1>4, <1>8, <1>9, <1>10, <1>11, <1>12 DEF PoolInv

LEMMA SpuriousInv == ASSUME PoolInv, NEW w \in Worker, Spurious(w) PROVE PoolInv'
<1>1. /\ phase[w] = "sleep" /\ phase' = [phase EXCEPT ![w] = "test"]
      /\ UNCHANGED <<jobs, stop, job, adding, accepted, ended, dtor>>
  BY DEF Spurious
<1>2. Accounted' /\ Queued' BY <1>1, SameJobs DEF PoolInv
<1>3. PoolTypeOK' BY <1>1 DEF PoolInv, PoolTypeOK
<1>4. NoJobForgotten'
  <2>1. w \in Asleep BY <1>1 DEF Asleep
  <2>2. Cardinality(Testing') = Cardinality(Testing) + 1 BY <1>1, ComesToTest DEF PoolInv
  <2> QED BY <1>1, <2>1, <2>2, PoolCounted DEF PoolInv, NoJobForgotten
<1>5. NoSleepAfterStop' /\ Adding' /\ Stopping'
  BY <1>1 DEF PoolInv, PoolTypeOK, NoSleepAfterStop, Asleep, Adding, Stopping
<1> QED BY <1>2, <1>3, <1>4, <1>5 DEF PoolInv

LEMMA SetStopInv == ASSUME PoolInv, SetStop PROVE PoolInv'
<1>1. /\ dtor = "no" /\ adding \cap Client = {} /\ stop' = TRUE /\ dtor' = "notify"
      /\ UNCHANGED <<jobs, phase, job, adding, accepted, ended>>
  BY DEF SetStop
<1>2. Accounted' /\ Queued' BY <1>1, SameJobs DEF PoolInv
<1>3. PoolTypeOK' /\ NoJobForgotten' /\ NoSleepAfterStop' /\ Adding' /\ Stopping'
  BY <1>1 DEF PoolInv, PoolTypeOK, NoJobForgotten, NoSleepAfterStop, Asleep, Testing, Adding, Stopping
<1> QED BY <1>2, <1>3 DEF PoolInv

LEMMA NotifyAllInv == ASSUME PoolInv, NotifyAll PROVE PoolInv'
<1>1. /\ dtor = "notify" /\ dtor' = "join"
      /\ phase' = [w \in Worker |-> IF phase[w] = "sleep" THEN "test" ELSE phase[w]]
      /\ UNCHANGED <<jobs, stop, job, adding, accepted, ended>>
  BY DEF NotifyAll, NotifySome
<1>2. Accounted' /\ Queued' BY <1>1, SameJobs DEF PoolInv
<1>3. PoolTypeOK' BY <1>1 DEF PoolInv, PoolTypeOK
<1>4. Asleep' = {} BY <1>1 DEF Asleep
<1>5. NoJobForgotten' /\ NoSleepAfterStop' BY <1>4 DEF NoJobForgotten, NoSleepAfterStop
<1>6. Adding' BY <1>1 DEF PoolInv, Adding
<1>7. Stopping' BY <1>1 DEF PoolInv, Stopping
<1> QED BY <1>2, <1>3, <1>5, <1>6, <1>7 DEF PoolInv

LEMMA JoinAllInv == ASSUME PoolInv, JoinAll PROVE PoolInv'
<1>1. /\ dtor = "join" /\ (\A w \in Worker : phase[w] = "exit") /\ dtor' = "done"
      /\ UNCHANGED <<jobs, stop, phase, job, adding, accepted, ended>>
  BY DEF JoinAll
<1>2. Accounted' /\ Queued' BY <1>1, SameJobs DEF PoolInv
<1>3. PoolTypeOK' /\ NoJobForgotten' /\ NoSleepAfterStop' /\ Adding' /\ Stopping'
  BY <1>1 DEF PoolInv, PoolTypeOK, NoJobForgotten, NoSleepAfterStop, Asleep, Testing, Adding, Stopping
<1> QED BY <1>2, <1>3 DEF PoolInv

LEMMA PoolNextInv == PoolInv /\ [PoolNext]_poolVars => PoolInv'
<1> SUFFICES ASSUME PoolInv, [PoolNext]_poolVars PROVE PoolInv' OBVIOUS
<1>1. CASE UNCHANGED poolVars
  <2>1. Accounted' /\ Queued' BY <1>1, SameJobs DEF PoolInv, poolVars
  <2> QED BY <1>1, <2>1 DEF PoolInv, poolVars, PoolTypeOK, NoJobForgotten, NoSleepAfterStop, Asleep, Testing,
                             Adding, Stopping
<1>2. CASE PoolNext
  BY <1>2, AddInv, NotifyOneInv, TakeInv, ExitInv, EndJobInv, SleepInv, SpuriousInv,
     SetStopInv, NotifyAllInv, JoinAllInv DEF PoolNext, Proceed
<1> QED BY <1>1, <1>2

LEMMA PoolInvariance == PoolSpec => []PoolInv
  BY PoolInitInv, PoolNextInv, PTL DEF PoolSpec

-----------------------------------------------------------------------------
\* The variables of a pool keep their types.
THEOREM PoolTypes == PoolSpec => []PoolTypeOK
<1>1. PoolInv => PoolTypeOK BY DEF PoolInv
<1> QED BY <1>1, PoolInvariance, PTL

\* No wake-up is lost: a sleeping worker never leaves a job that nobody comes for.
THEOREM NobodyForgotten == PoolSpec => []NoJobForgotten
<1>1. PoolInv => NoJobForgotten BY DEF PoolInv
<1> QED BY <1>1, PoolInvariance, PTL

\* notify_all leaves nobody asleep for join to wait for.
THEOREM NoSleepers == PoolSpec => []NoSleepAfterStop
<1>1. PoolInv => NoSleepAfterStop BY DEF PoolInv
<1> QED BY <1>1, PoolInvariance, PTL

\* No wake is lost between the tests and naps of the threads, notify_one and notify_all.
THEOREM WakesKept == PoolSpec => []NoWakeLost
BY NobodyForgotten, NoSleepers, PTL DEF NoWakeLost

\* No job is lost, taken twice or run twice.
THEOREM NoJobLost == PoolSpec => []Accounted
<1>1. PoolInv => Accounted BY DEF PoolInv
<1> QED BY <1>1, PoolInvariance, PTL

\* The destructor returns to no running thread and no job left behind.
THEOREM DtorLast == PoolSpec => []DtorFinishes
<1>1. PoolInv => DtorFinishes
  <2> SUFFICES ASSUME PoolInv, dtor = "done"
               PROVE  (\A w \in Worker : phase[w] = "exit") /\ ended = 1..accepted
    BY DEF DtorFinishes
  <2>1. \A w \in Worker : phase[w] = "exit" BY DEF PoolInv, Stopping
  <2>2. jobs = <<>> BY <2>1, PoolConsts DEF PoolInv, Stopping
  <2>3. Waiting = {} /\ Running = {} BY <2>1, <2>2 DEF PoolInv, PoolTypeOK, Waiting, Running
  <2> QED BY <2>1, <2>3 DEF PoolInv, Accounted
<1> QED BY <1>1, PoolInvariance, PTL

\* No job is lost or run twice, and none is left when the destructor returns.
THEOREM AllJobsKept == PoolSpec => []JobsKept
BY NoJobLost, DtorLast, PTL DEF JobsKept

-----------------------------------------------------------------------------
(* ToggleThreadPool. *)

\* Where the threads may be, and what the atomics are, in each phase of the owner.
Places ==
  /\ \A t \in Thread \ threads : pc[t] = "none"
  /\ at \in {"idle", "begun", "joinOnce", "joinCommit"} => ~started
  /\ at \in {"started", "go", "goEnd", "goReset"} => started
  /\ at = "joinStop" => ~started
  /\ running <=> at \in {"joinCommit", "go", "goEnd"}
  /\ at = "idle" => Joined
  /\ at = "begun" => \A t \in threads : pc[t] = "spin2"
  /\ at = "joinOnce" => \A t \in threads : pc[t] \in {"process", "none"}
  /\ at = "joinCommit" => \A t \in threads : pc[t] \in {"spin2", "process", "none"}
  /\ at = "started" => \A t \in threads : pc[t] \in {"spin", "spinRunning", "drain", "again"}
  /\ at = "joinStop" => \A t \in threads : pc[t] \in {"none", "spin", "spinRunning", "check", "drain", "again"}
  /\ at = "go" => \A t \in threads : pc[t] \notin {"none", "spin2"}
  /\ at \in {"goEnd", "goReset"} => \A t \in threads : pc[t] = "drain"

\* Those that numFinisheds may have counted: they wait with an empty queue.
Finished == {t \in threads : pc[t] = "drain" /\ funcss[t] = <<>>}
Counts ==
  /\ numFinisheds <= Cardinality(Finished)
  /\ at \notin {"go", "goEnd", "goReset"} => numFinisheds = 0
  /\ at \in {"goEnd", "goReset"} => numFinisheds = Cardinality(threads)

\* A queue is empty when its thread has left Process, until the owner adds to it again.
Emptied ==
  /\ \A t \in Thread \ threads : funcss[t] = <<>>
  /\ \A t \in Thread : pc[t] = "finish" => funcss[t] = <<>>
  /\ \A t \in Thread : pc[t] # "process" => next[t] = 1
  /\ at \in {"joinOnce", "joinCommit"} => \A t \in Thread : pc[t] = "none" => funcss[t] = <<>>

\* Each function that was added is in one place of one queue or has run, or both when
\* its thread has not come to the end of its queue.
FuncsAccounted ==
  /\ \A t \in Thread : \A i \in DOMAIN funcss[t] :
       /\ funcss[t][i] <= added
       /\ ran[funcss[t][i]] = IF i < next[t] THEN 1 ELSE 0
  /\ \A t, u \in Thread : \A i \in DOMAIN funcss[t], j \in DOMAIN funcss[u] :
       funcss[t][i] = funcss[u][j] => t = u /\ i = j
  /\ \A f \in Func : ran[f] <= 1 /\ (f > added => ran[f] = 0)
  /\ \A f \in Func : f <= added /\ ran[f] = 0 => \E t \in Thread : \E i \in DOMAIN funcss[t] : funcss[t][i] = f

IInv == TypeOK /\ Places /\ Counts /\ Emptied /\ FuncsAccounted

LEMMA Consts == IsFiniteSet(Thread) /\ Thread # {} /\ MaxFunc \in Nat /\ MaxRound \in Nat
  BY ToggleAssumption DEF ToggleAssumption

Pcs == {"none", "spin2", "spin", "spinRunning", "check", "process", "finish", "drain", "again"}

\* The sets that are counted.
LEMMA Finite ==
  ASSUME TypeOK
  PROVE  /\ IsFiniteSet(threads) /\ Cardinality(threads) \in Nat \ {0}
         /\ Finished \subseteq threads /\ IsFiniteSet(Finished) /\ Cardinality(Finished) \in Nat
         /\ Cardinality(Finished) <= Cardinality(threads)
         /\ Cardinality(Finished) = Cardinality(threads) => Finished = threads
         /\ numFinisheds \in Nat
<1>1. IsFiniteSet(threads) BY Consts, FS_Subset DEF TypeOK
<1>2. Cardinality(threads) \in Nat /\ Cardinality(threads) # 0
  BY <1>1, FS_CardinalityType, FS_EmptySet DEF TypeOK
<1>3. Finished \in SUBSET threads BY DEF Finished
<1>4. IsFiniteSet(Finished) /\ Cardinality(Finished) <= Cardinality(threads)
      /\ (Cardinality(Finished) = Cardinality(threads) => Finished = threads)
  BY <1>1, <1>3, FS_Subset
<1>5. Cardinality(Finished) \in Nat BY <1>4, FS_CardinalityType
<1>6. numFinisheds \in Nat BY <1>2 DEF TypeOK
<1> QED BY <1>1, <1>2, <1>3, <1>4, <1>5, <1>6

LEMMA Counted ==
  ASSUME TypeOK'
  PROVE  IsFiniteSet(Finished') /\ Cardinality(Finished') \in Nat
<1>1. Finished' \in SUBSET Thread BY DEF Finished, TypeOK
<1> QED BY <1>1, Consts, FS_Subset, FS_CardinalityType

LEMMA InitInv == Init => IInv
<1> SUFFICES ASSUME Init PROVE IInv OBVIOUS
<1>1. threads \subseteq Thread /\ threads # {}
  <2>1. threads \in (SUBSET Thread) \ {{}} BY DEF Init
  <2> QED BY <2>1
<1>2. IsFiniteSet(threads) BY <1>1, Consts, FS_Subset
<1>3. Cardinality(threads) \in Nat BY <1>2, FS_CardinalityType
<1>4. \A t \in Thread : funcss[t] = <<>> /\ pc[t] = "none" /\ next[t] = 1 BY DEF Init
<1>5. TypeOK
  <2>1. funcss \in [Thread -> Seq(Func)] BY EmptySeq DEF Init
  <2>2. pc \in [Thread -> {"none", "spin2", "spin", "spinRunning", "check",
                        "process", "finish", "drain", "again"}] BY DEF Init
  <2>3. next \in [Thread -> Nat \ {0}] /\ \A t \in Thread : next[t] <= Len(funcss[t]) + 1
    <3>1. Len(<<>>) = 0 OBVIOUS
    <3> QED BY <3>1 DEF Init
  <2>4. ran \in [Func -> Nat] BY DEF Init
  <2>5. 0 \in 0..MaxFunc /\ 0 \in 0..MaxRound /\ 0 \in 0..Cardinality(threads) BY Consts, <1>3
  <2> QED BY <1>1, <2>1, <2>2, <2>3, <2>4, <2>5 DEF Init, TypeOK
<1>6. Places BY <1>1, <1>4 DEF Init, Places, Joined
<1>7. Counts BY <1>5, Finite DEF Init, Counts
<1>8. Emptied BY <1>4 DEF Init, Emptied
<1>9. FuncsAccounted
  <2>1. \A t \in Thread : DOMAIN funcss[t] = {} BY <1>4
  <2>2. added = 0 /\ \A f \in Func : ran[f] = 0 /\ f > 0 BY Consts DEF Init, Func
  <2>3. \A f \in Func : ~(f <= added) BY <2>2, Consts DEF Func
  <2> QED BY <2>1, <2>2, <2>3 DEF FuncsAccounted
<1> QED BY <1>5, <1>6, <1>7, <1>8, <1>9 DEF IInv

-----------------------------------------------------------------------------
(* The threads. *)

\* A thread that goes on without touching a queue or the count.
LEMMA MoveInv ==
  ASSUME IInv, NEW t \in Thread, NEW l \in Pcs, Goto(t, l), Stays,
         pc[t] \notin {"process", "none"}, l \notin {"finish", "drain"},
         pc[t] = "drain" => numFinisheds = 0,
         l = "none" => at \notin {"joinOnce", "joinCommit"},
         Places'
  PROVE  IInv'
<1>1. pc' = [pc EXCEPT ![t] = l] /\ UNCHANGED <<threads, funcss, numFinisheds, at, next, added, ran, round, running, started>>
  BY DEF Goto, Stays, atomics
<1>2. TypeOK' BY <1>1 DEF IInv, TypeOK, Pcs
<1>3. \A u \in Thread : pc'[u] = IF u = t THEN l ELSE pc[u] BY <1>1 DEF IInv, TypeOK
<1>4. Counts'
  <2>1. IsFiniteSet(Finished') /\ Cardinality(Finished') \in Nat BY <1>2, Counted
  <2>2. at \in {"goEnd", "goReset"} => numFinisheds # 0 BY Finite DEF IInv, Counts
  <2>3. numFinisheds' <= Cardinality(Finished')
    <3>1. CASE pc[t] = "drain" BY <3>1, <2>1, <1>1
    <3>2. CASE pc[t] # "drain"
      <4>1. Finished \in SUBSET Finished' BY <3>2, <1>1, <1>3 DEF Finished, IInv, TypeOK
      <4>2. Cardinality(Finished) <= Cardinality(Finished') BY <4>1, <2>1, FS_Subset
      <4> QED BY <4>2, <2>1, <1>1, Finite DEF IInv, Counts
    <3> QED BY <3>1, <3>2
  <2> QED BY <2>3, <1>1 DEF IInv, Counts
<1>5. Emptied' BY <1>1, <1>3 DEF IInv, Emptied
<1>6. FuncsAccounted' BY <1>1 DEF IInv, FuncsAccounted
<1> QED BY <1>2, <1>4, <1>5, <1>6 DEF IInv

\* A thread of the pool, for the others are nowhere.
LEMMA OfPool == ASSUME IInv, NEW t \in Thread, pc[t] # "none" PROVE t \in threads
  BY DEF IInv, Places

LEMMA Process2Inv == ASSUME IInv, NEW t \in Thread, Process2(t) PROVE IInv'
<1>1. pc[t] = "spin2" /\ running /\ Goto(t, "process") /\ Stays BY DEF Process2
<1>2. t \in threads BY <1>1, OfPool
<1>3. at = "joinCommit" BY <1>1, <1>2 DEF IInv, Places
<1>4. pc' = [pc EXCEPT ![t] = "process"] /\ UNCHANGED <<threads, atomics, at>> BY <1>1 DEF Goto, Stays
<1>5. Places' BY <1>1, <1>2, <1>3, <1>4 DEF IInv, Places, TypeOK, atomics, Joined
<1> QED BY <1>1, <1>3, <1>5, MoveInv DEF Pcs

LEMMA SpinInv == ASSUME IInv, NEW t \in Thread, Spin(t) PROVE IInv'
<1> DEFINE l == IF started THEN "spinRunning" ELSE "check"
<1>1. pc[t] = "spin" /\ Goto(t, l) /\ Stays BY DEF Spin
<1>2. t \in threads BY <1>1, OfPool
<1>3. at \in {"started", "go", "joinStop"} BY <1>1, <1>2 DEF IInv, Places, TypeOK, Joined
<1>4. pc' = [pc EXCEPT ![t] = l] /\ UNCHANGED <<threads, atomics, at>> BY <1>1 DEF Goto, Stays
<1>5. Places' BY <1>1, <1>2, <1>3, <1>4 DEF IInv, Places, TypeOK, atomics, Joined
<1>6. l \in Pcs \ {"finish", "drain", "none"} BY DEF Pcs
<1> QED BY <1>1, <1>5, <1>6, MoveInv

LEMMA SpinRunningInv == ASSUME IInv, NEW t \in Thread, SpinRunning(t) PROVE IInv'
<1> DEFINE l == IF running THEN "check" ELSE "spin"
<1>1. pc[t] = "spinRunning" /\ Goto(t, l) /\ Stays BY DEF SpinRunning
<1>2. t \in threads BY <1>1, OfPool
<1>3. at \in {"started", "go", "joinStop"} BY <1>1, <1>2 DEF IInv, Places, TypeOK, Joined
<1>4. pc' = [pc EXCEPT ![t] = l] /\ UNCHANGED <<threads, atomics, at>> BY <1>1 DEF Goto, Stays
<1>5. Places' BY <1>1, <1>2, <1>3, <1>4 DEF IInv, Places, TypeOK, atomics, Joined
<1>6. l \in Pcs \ {"finish", "drain", "none"} BY DEF Pcs
<1> QED BY <1>1, <1>5, <1>6, MoveInv

LEMMA CheckInv == ASSUME IInv, NEW t \in Thread, Check(t) PROVE IInv'
<1> DEFINE l == IF started THEN "process" ELSE "none"
<1>1. pc[t] = "check" /\ Goto(t, l) /\ Stays BY DEF Check
<1>2. t \in threads BY <1>1, OfPool
<1>3. at \in {"go", "joinStop"} BY <1>1, <1>2 DEF IInv, Places, TypeOK, Joined
<1>4. pc' = [pc EXCEPT ![t] = l] /\ UNCHANGED <<threads, atomics, at>> BY <1>1 DEF Goto, Stays
<1>5. Places' BY <1>1, <1>2, <1>3, <1>4 DEF IInv, Places, TypeOK, atomics, Joined
<1>6. l \in Pcs \ {"finish", "drain"} BY DEF Pcs
<1> QED BY <1>1, <1>3, <1>5, <1>6, MoveInv

LEMMA DrainInv == ASSUME IInv, NEW t \in Thread, Drain(t) PROVE IInv'
<1>1. pc[t] = "drain" /\ numFinisheds = 0 /\ Goto(t, "again") /\ Stays BY DEF Drain, DrainOn
<1>2. t \in threads BY <1>1, OfPool
<1>3. at \notin {"goEnd", "goReset"} BY <1>1, Finite DEF IInv, Counts
<1>4. at \in {"started", "go", "joinStop"} BY <1>1, <1>2, <1>3 DEF IInv, Places, TypeOK, Joined
<1>5. pc' = [pc EXCEPT ![t] = "again"] /\ UNCHANGED <<threads, atomics, at>> BY <1>1 DEF Goto, Stays
<1>6. Places' BY <1>1, <1>2, <1>4, <1>5 DEF IInv, Places, TypeOK, atomics, Joined
<1> QED BY <1>1, <1>6, MoveInv DEF Pcs

LEMMA AgainInv == ASSUME IInv, NEW t \in Thread, Again(t) PROVE IInv'
<1> DEFINE l == IF started THEN "spin" ELSE "none"
<1>1. pc[t] = "again" /\ Goto(t, l) /\ Stays BY DEF Again
<1>2. t \in threads BY <1>1, OfPool
<1>3. at \in {"started", "go", "joinStop"} BY <1>1, <1>2 DEF IInv, Places, TypeOK, Joined
<1>4. pc' = [pc EXCEPT ![t] = l] /\ UNCHANGED <<threads, atomics, at>> BY <1>1 DEF Goto, Stays
<1>5. Places' BY <1>1, <1>2, <1>3, <1>4 DEF IInv, Places, TypeOK, atomics, Joined
<1>6. l \in Pcs \ {"finish", "drain"} BY DEF Pcs
<1> QED BY <1>1, <1>3, <1>5, <1>6, MoveInv

\* The function that a thread is about to run has not run.
LEMMA NextFunction ==
  ASSUME IInv, NEW t \in Thread, next[t] <= Len(funcss[t])
  PROVE  /\ next[t] \in DOMAIN funcss[t] /\ funcss[t][next[t]] \in Func
         /\ ran[funcss[t][next[t]]] = 0
<1>1. funcss[t] \in Seq(Func) /\ next[t] \in Nat \ {0} BY DEF IInv, TypeOK
<1>2. Len(funcss[t]) \in Nat /\ DOMAIN funcss[t] = 1..Len(funcss[t]) BY <1>1, LenProperties
<1>3. next[t] \in DOMAIN funcss[t] /\ next[t] \in 1..Len(funcss[t]) BY <1>1, <1>2
<1>4. funcss[t][next[t]] \in Func BY <1>1, <1>3, ElementOfSeq
<1>5. ran[funcss[t][next[t]]] = IF next[t] < next[t] THEN 1 ELSE 0 BY <1>3 DEF IInv, FuncsAccounted
<1>6. ~(next[t] < next[t]) BY <1>1
<1> QED BY <1>3, <1>4, <1>5, <1>6

LEMMA ProcessOneInv == ASSUME IInv, NEW t \in Thread, ProcessOne(t) PROVE IInv'
<1> DEFINE f == funcss[t][next[t]]
<1>1. /\ pc[t] = "process" /\ next[t] <= Len(funcss[t])
      /\ ran' = [ran EXCEPT ![f] = @ + 1] /\ next' = [next EXCEPT ![t] = @ + 1]
      /\ UNCHANGED <<threads, funcss, running, started, numFinisheds, at, pc, added, round>>
  BY DEF ProcessOne, atomics
<1>2. next[t] \in DOMAIN funcss[t] /\ f \in Func /\ ran[f] = 0 BY <1>1, NextFunction
<1>3. funcss[t] \in Seq(Func) /\ Len(funcss[t]) \in Nat /\ next[t] \in Nat \ {0} /\ ran \in [Func -> Nat]
  BY LenProperties DEF IInv, TypeOK
<1> HIDE DEF f
<1>4. \A g \in Func : ran'[g] = IF g = f THEN 1 ELSE ran[g] BY <1>1, <1>2, <1>3
<1>5. \A u \in Thread : next'[u] = IF u = t THEN next[t] + 1 ELSE next[u] BY <1>1 DEF IInv, TypeOK
<1>6. TypeOK'
  <2>1. ran' \in [Func -> Nat] BY <1>1, <1>2, <1>3
  <2>2. next' \in [Thread -> Nat \ {0}] BY <1>1, <1>3 DEF IInv, TypeOK
  <2>3. \A u \in Thread : next'[u] <= Len(funcss'[u]) + 1 BY <1>1, <1>3, <1>5 DEF IInv, TypeOK
  <2> QED BY <2>1, <2>2, <2>3, <1>1 DEF IInv, TypeOK
<1>7. Places' BY <1>1 DEF IInv, Places, Joined
<1>8. Counts' BY <1>1 DEF IInv, Counts, Finished
<1>9. Emptied' BY <1>1, <1>5 DEF IInv, Emptied
<1>10. FuncsAccounted'
  <2>1. \A u \in Thread : \A i \in DOMAIN funcss[u] : funcss[u][i] \in Func /\ i \in Nat
    <3>1. \A u \in Thread : funcss[u] \in Seq(Func) BY DEF IInv, TypeOK
    <3> QED BY <3>1, LenProperties, ElementOfSeq
  <2>2. \A u \in Thread : \A i \in DOMAIN funcss[u] : funcss[u][i] = f <=> u = t /\ i = next[t]
    BY <1>2 DEF IInv, FuncsAccounted, f
  <2>3. ASSUME NEW u \in Thread, NEW i \in DOMAIN funcss[u]
        PROVE  ran'[funcss[u][i]] = IF i < next'[u] THEN 1 ELSE 0
    <3>1. funcss[u][i] \in Func /\ i \in Nat /\ next[u] \in Nat BY <2>1 DEF IInv, TypeOK
    <3>2. ran[funcss[u][i]] = IF i < next[u] THEN 1 ELSE 0 BY DEF IInv, FuncsAccounted
    <3>3. CASE u = t /\ i = next[t]
      <4>1. ran'[funcss[u][i]] = 1 BY <3>3, <2>2, <3>1, <1>4
      <4>2. i < next'[u] BY <3>3, <1>3, <1>5
      <4> QED BY <4>1, <4>2
    <3>4. CASE ~(u = t /\ i = next[t])
      <4>1. ran'[funcss[u][i]] = ran[funcss[u][i]] BY <3>4, <2>2, <3>1, <1>4
      <4>2. i < next'[u] <=> i < next[u] BY <3>1, <3>4, <1>3, <1>5
      <4> QED BY <4>1, <4>2, <3>2
    <3> QED BY <3>3, <3>4
  <2>4. f <= added BY <1>2 DEF IInv, FuncsAccounted, f
  <2>5. \A g \in Func : ran'[g] <= 1 /\ (g > added => ran'[g] = 0)
    <3>1. f \in Nat /\ added \in Nat BY <1>2, Consts DEF IInv, TypeOK, Func
    <3>2. ~(f > added) BY <3>1, <2>4
    <3> QED BY <3>2, <1>4 DEF IInv, FuncsAccounted
  <2>6. \A g \in Func : g <= added /\ ran'[g] = 0
                          => \E u \in Thread : \E i \in DOMAIN funcss[u] : funcss[u][i] = g
    BY <1>4 DEF IInv, FuncsAccounted
  <2> QED BY <2>3, <2>5, <2>6, <1>1 DEF IInv, FuncsAccounted
<1> QED BY <1>6, <1>7, <1>8, <1>9, <1>10 DEF IInv

LEMMA ProcessEndInv == ASSUME IInv, NEW t \in Thread, ProcessEnd(t) PROVE IInv'
<1>1. /\ pc[t] = "process" /\ next[t] > Len(funcss[t])
      /\ funcss' = [funcss EXCEPT ![t] = <<>>] /\ next' = [next EXCEPT ![t] = 1]
      /\ pc' = [pc EXCEPT ![t] = AfterProcess]
      /\ UNCHANGED <<threads, running, started, numFinisheds, at, added, ran, round>>
  BY DEF ProcessEnd, ProcessLeaving, Goto, atomics
<1>2. AfterProcess \in {"none", "finish"} BY DEF AfterProcess
<1>3. /\ \A u \in Thread : funcss'[u] = IF u = t THEN <<>> ELSE funcss[u]
      /\ \A u \in Thread : next'[u] = IF u = t THEN 1 ELSE next[u]
      /\ \A u \in Thread : pc'[u] = IF u = t THEN AfterProcess ELSE pc[u]
  BY <1>1 DEF IInv, TypeOK
<1>4. TypeOK'
  <2>1. funcss' \in [Thread -> Seq(Func)] BY <1>1, EmptySeq DEF IInv, TypeOK
  <2>2. next' \in [Thread -> Nat \ {0}] BY <1>1 DEF IInv, TypeOK
  <2>3. \A u \in Thread : next'[u] <= Len(funcss'[u]) + 1
    <3>1. SUFFICES ASSUME NEW u \in Thread PROVE next'[u] <= Len(funcss'[u]) + 1 OBVIOUS
    <3>2. CASE u = t
      <4>1. next'[u] = 1 /\ funcss'[u] = <<>> BY <1>3, <3>2
      <4>2. Len(<<>>) = 0 OBVIOUS
      <4> QED BY <4>1, <4>2
    <3>3. CASE u # t
      <4>1. next'[u] = next[u] /\ funcss'[u] = funcss[u] BY <1>3, <3>3
      <4>2. next[u] <= Len(funcss[u]) + 1 BY DEF IInv, TypeOK
      <4> QED BY <4>1, <4>2
    <3> QED BY <3>2, <3>3
  <2> QED BY <2>1, <2>2, <2>3, <1>1, <1>2 DEF IInv, TypeOK
<1>5. t \in threads BY <1>1, OfPool
<1>6. at \in {"joinOnce", "joinCommit", "go"} BY <1>1, <1>5 DEF IInv, Places, TypeOK, Joined
<1>7. Places' BY <1>1, <1>3, <1>5, <1>6 DEF IInv, Places, Joined, AfterProcess
<1>8. Counts'
  <2>1. Finished' = Finished BY <1>1, <1>2, <1>3 DEF Finished, IInv, TypeOK
  <2> QED BY <2>1, <1>1 DEF IInv, Counts
<1>9. Emptied' BY <1>1, <1>2, <1>3, <1>5 DEF IInv, Emptied
<1>10. FuncsAccounted'
  <2>1. \A u \in Thread : \A i \in DOMAIN funcss'[u] : u # t /\ i \in DOMAIN funcss[u] /\ funcss'[u][i] = funcss[u][i]
    <3>1. DOMAIN <<>> = {} OBVIOUS
    <3> QED BY <3>1, <1>3
  <2>2. \A i \in DOMAIN funcss[t] : ran[funcss[t][i]] = 1
    <3>1. funcss[t] \in Seq(Func) /\ next[t] \in Nat BY DEF IInv, TypeOK
    <3>2. Len(funcss[t]) \in Nat /\ DOMAIN funcss[t] = 1..Len(funcss[t]) BY <3>1, LenProperties
    <3>3. \A i \in DOMAIN funcss[t] : i < next[t] BY <3>1, <3>2, <1>1
    <3> QED BY <3>3 DEF IInv, FuncsAccounted
  <2>3. \A g \in Func : g <= added /\ ran[g] = 0
                          => \E u \in Thread : \E i \in DOMAIN funcss'[u] : funcss'[u][i] = g
    <3>1. SUFFICES ASSUME NEW g \in Func, g <= added, ran[g] = 0
                   PROVE  \E u \in Thread : \E i \in DOMAIN funcss'[u] : funcss'[u][i] = g
      OBVIOUS
    <3>2. PICK u \in Thread : \E i \in DOMAIN funcss[u] : funcss[u][i] = g
      BY <3>1 DEF IInv, FuncsAccounted
    <3>3. u # t BY <2>2, <3>1, <3>2
    <3> QED BY <3>2, <3>3, <1>3
  <2>4. \A u \in Thread : \A i \in DOMAIN funcss'[u] :
          /\ funcss'[u][i] <= added
          /\ ran[funcss'[u][i]] = IF i < next'[u] THEN 1 ELSE 0
    BY <2>1, <1>3 DEF IInv, FuncsAccounted
  <2>5. \A u, v \in Thread : \A i \in DOMAIN funcss'[u], j \in DOMAIN funcss'[v] :
          funcss'[u][i] = funcss'[v][j] => u = v /\ i = j
    BY <2>1 DEF IInv, FuncsAccounted
  <2> QED BY <2>3, <2>4, <2>5, <1>1 DEF IInv, FuncsAccounted
<1> QED BY <1>4, <1>7, <1>8, <1>9, <1>10 DEF IInv

LEMMA FinishInv == ASSUME IInv, NEW t \in Thread, Finish(t) PROVE IInv'
<1>1. /\ pc[t] = "finish" /\ numFinisheds' = numFinisheds + 1 /\ pc' = [pc EXCEPT ![t] = "drain"]
      /\ UNCHANGED <<threads, funcss, running, started, at, next, added, ran, round>>
  BY DEF Finish, FinishWith, Goto
<1>2. t \in threads BY <1>1, OfPool
<1>3. at = "go" BY <1>1, <1>2 DEF IInv, Places, TypeOK, Joined
<1>4. \A u \in Thread : pc'[u] = IF u = t THEN "drain" ELSE pc[u] BY <1>1 DEF IInv, TypeOK
<1>5. Finished' = Finished \cup {t} /\ t \notin Finished
  BY <1>1, <1>2, <1>4 DEF Finished, IInv, TypeOK, Emptied
<1>6. numFinisheds' \in Nat /\ numFinisheds' <= Cardinality(Finished')
  <2>1. Cardinality(Finished') = Cardinality(Finished) + 1 BY <1>5, Finite, FS_AddElement DEF IInv
  <2>2. numFinisheds \in Nat /\ Cardinality(Finished) \in Nat /\ numFinisheds <= Cardinality(Finished)
    BY Finite DEF IInv, Counts
  <2> QED BY <1>1, <2>1, <2>2
<1>7. numFinisheds' \in 0..Cardinality(threads)
  <2>1. Finished' \in SUBSET threads BY <1>1 DEF Finished
  <2>2. Cardinality(Finished') <= Cardinality(threads) /\ Cardinality(threads) \in Nat /\ IsFiniteSet(Finished')
    BY <2>1, Finite, FS_Subset DEF IInv
  <2>3. Cardinality(Finished') \in Nat BY <2>2, FS_CardinalityType
  <2> QED BY <2>2, <2>3, <1>6
<1>8. TypeOK' BY <1>1, <1>7 DEF IInv, TypeOK
<1>9. Places' BY <1>1, <1>2, <1>3, <1>4 DEF IInv, Places, Joined
<1>10. Counts' BY <1>1, <1>3, <1>6 DEF IInv, Counts
<1>11. Emptied' BY <1>1, <1>3, <1>4 DEF IInv, Emptied
<1>12. FuncsAccounted' BY <1>1 DEF IInv, FuncsAccounted
<1> QED BY <1>8, <1>9, <1>10, <1>11, <1>12 DEF IInv

-----------------------------------------------------------------------------
(* The owner. *)

LEMMA AddToInv == ASSUME IInv, NEW t \in Thread, AddTo(t) PROVE IInv'
<1>1. /\ t \in threads /\ at \in {"idle", "begun", "started"} /\ added < MaxFunc
      /\ added' = added + 1 /\ funcss' = [funcss EXCEPT ![t] = Append(@, added + 1)]
      /\ UNCHANGED <<threads, running, started, numFinisheds, at, pc, next, ran, round>>
  BY DEF AddTo, atomics
<1>2. added + 1 \in Func /\ added \in Nat BY <1>1, Consts DEF IInv, TypeOK, Func
<1>3. funcss'[t] = Append(funcss[t], added + 1) /\ \A u \in Thread : u # t => funcss'[u] = funcss[u]
  BY <1>1 DEF IInv, TypeOK
<1>4. funcss[t] \in Seq(Func) /\ Len(funcss[t]) \in Nat /\ DOMAIN funcss[t] = 1..Len(funcss[t])
  BY LenProperties DEF IInv, TypeOK
<1>5. /\ funcss'[t] \in Seq(Func) /\ Len(funcss'[t]) = Len(funcss[t]) + 1
      /\ \A i \in 1..Len(funcss[t]) : funcss'[t][i] = funcss[t][i]
      /\ funcss'[t][Len(funcss[t]) + 1] = added + 1
  BY <1>2, <1>3, <1>4, AppendProperties
<1>6. DOMAIN funcss'[t] = 1..(Len(funcss[t]) + 1) BY <1>5, LenProperties
<1>7. pc[t] \notin {"process", "finish"} /\ next[t] = 1
  BY <1>1 DEF IInv, Places, Emptied, TypeOK, Joined
<1>8. TypeOK'
  <2>1. funcss' \in [Thread -> Seq(Func)] BY <1>1, <1>3, <1>5 DEF IInv, TypeOK
  <2>2. \A u \in Thread : next'[u] <= Len(funcss'[u]) + 1 BY <1>1, <1>3, <1>4, <1>5, <1>7 DEF IInv, TypeOK
  <2>3. added' \in 0..MaxFunc BY <1>1, <1>2, Consts
  <2> QED BY <2>1, <2>2, <2>3, <1>1 DEF IInv, TypeOK
<1>9. Places' BY <1>1 DEF IInv, Places, Joined
<1>10. Counts'
  <2>1. numFinisheds' = 0 BY <1>1 DEF IInv, Counts
  <2>2. Cardinality(Finished') \in Nat BY <1>8, Counted
  <2> QED BY <2>1, <2>2, <1>1 DEF IInv, Counts
<1>11. Emptied' BY <1>1, <1>3, <1>7 DEF IInv, Emptied
<1>12. FuncsAccounted'
  <2> DEFINE n == Len(funcss[t]) + 1
             f == added + 1
  <2>1. \A u \in Thread : \A i \in DOMAIN funcss'[u] :
          \/ i \in DOMAIN funcss[u] /\ funcss'[u][i] = funcss[u][i]
          \/ u = t /\ i = n /\ funcss'[u][i] = f
    BY <1>3, <1>4, <1>5, <1>6
  <2>2. \A u \in Thread : \A i \in DOMAIN funcss[u] : i \in DOMAIN funcss'[u] /\ funcss'[u][i] = funcss[u][i]
    <3>1. \A i \in DOMAIN funcss[t] : i \in DOMAIN funcss'[t] /\ funcss'[t][i] = funcss[t][i]
      BY <1>4, <1>5, <1>6
    <3> QED BY <1>3, <3>1
  <2>3. n \in DOMAIN funcss'[t] /\ funcss'[t][n] = f BY <1>4, <1>5, <1>6
  <2>4. n >= 1 BY <1>4
  <2>5. \A u \in Thread : \A i \in DOMAIN funcss[u] : funcss[u][i] \in Nat /\ funcss[u][i] <= added
    <3>1. \A u \in Thread : funcss[u] \in Seq(Func) BY DEF IInv, TypeOK
    <3>2. \A u \in Thread : \A i \in DOMAIN funcss[u] : funcss[u][i] \in Func
      BY <3>1, LenProperties, ElementOfSeq
    <3> QED BY <3>2, Consts DEF IInv, FuncsAccounted, Func
  <2>6. ran[f] = 0 /\ f \in Func BY <1>2 DEF IInv, FuncsAccounted
  <2> HIDE DEF n
  <2>7. \A u \in Thread : \A i \in DOMAIN funcss'[u] :
          /\ funcss'[u][i] <= added'
          /\ ran[funcss'[u][i]] = IF i < next[u] THEN 1 ELSE 0
    <3>1. SUFFICES ASSUME NEW u \in Thread, NEW i \in DOMAIN funcss'[u]
                   PROVE  /\ funcss'[u][i] <= added'
                          /\ ran[funcss'[u][i]] = IF i < next[u] THEN 1 ELSE 0
      OBVIOUS
    <3>2. CASE i \in DOMAIN funcss[u] /\ funcss'[u][i] = funcss[u][i]
      <4>1. funcss[u][i] <= added + 1 BY <2>5, <3>2, <1>2
      <4> QED BY <4>1, <3>2, <1>1 DEF IInv, FuncsAccounted
    <3>3. CASE u = t /\ i = n /\ funcss'[u][i] = f
      <4>1. n \in Nat BY <1>4 DEF n
      <4>2. ~(i < next[u]) BY <3>3, <4>1, <2>4, <1>7
      <4> QED BY <4>2, <3>3, <2>6, <1>1, <1>2
    <3> QED BY <2>1, <3>2, <3>3
  <2>8. \A u, v \in Thread : \A i \in DOMAIN funcss'[u], j \in DOMAIN funcss'[v] :
          funcss'[u][i] = funcss'[v][j] => u = v /\ i = j
    <3>1. \A u \in Thread : \A i \in DOMAIN funcss[u] : funcss[u][i] # f BY <2>5, <1>2
    <3> HIDE DEF f
    <3> QED BY <3>1, <2>1 DEF IInv, FuncsAccounted
  <2>9. \A g \in Func : ran[g] <= 1 /\ (g > added' => ran[g] = 0)
    <3>1. \A g \in Func : g \in Nat BY DEF Func
    <3>2. \A g \in Func : g > added' => g > added BY <3>1, <1>1, <1>2
    <3> QED BY <3>2 DEF IInv, FuncsAccounted
  <2>10. \A g \in Func : g <= added' /\ ran[g] = 0
                           => \E u \in Thread : \E i \in DOMAIN funcss'[u] : funcss'[u][i] = g
    <3>1. SUFFICES ASSUME NEW g \in Func, g <= added', ran[g] = 0
                   PROVE  \E u \in Thread : \E i \in DOMAIN funcss'[u] : funcss'[u][i] = g
      OBVIOUS
    <3>2. g \in Nat BY DEF Func
    <3>3. CASE g = f BY <3>3, <2>3
    <3>4. CASE g # f
      <4>1. g <= added BY <3>1, <3>2, <3>4, <1>1, <1>2
      <4>2. PICK u \in Thread : \E i \in DOMAIN funcss[u] : funcss[u][i] = g
        BY <3>1, <4>1 DEF IInv, FuncsAccounted
      <4> QED BY <4>2, <2>2
    <3> QED BY <3>3, <3>4
  <2> QED BY <2>7, <2>8, <2>9, <2>10, <1>1 DEF FuncsAccounted
<1> QED BY <1>8, <1>9, <1>10, <1>11, <1>12 DEF IInv

\* The threads are made, each at the beginning of its queue.
LEMMA ThreadsInv ==
  ASSUME IInv, at = "idle", NEW first \in {"process", "spin2", "spin"}, Threads(first), NewRound,
         UNCHANGED <<threads, funcss, running, numFinisheds, added, ran>>,
         started' \in BOOLEAN, at' \in {"joinOnce", "begun", "started"}, Places'
  PROVE  IInv'
<1>1. \A t \in Thread : pc[t] = "none" /\ next[t] = 1 BY DEF IInv, Places, Joined, Emptied
<1>2. /\ pc' = [t \in Thread |-> IF t \in threads THEN first ELSE "none"]
      /\ next' = [t \in Thread |-> 1] /\ round' \in 0..MaxRound
  BY Consts DEF Threads, NewRound, IInv, TypeOK
<1>3. next' = next BY <1>1, <1>2 DEF IInv, TypeOK
<1>4. TypeOK'
  <2>1. pc' \in [Thread -> {"none", "spin2", "spin", "spinRunning", "check",
                        "process", "finish", "drain", "again"}] BY <1>2
  <2> QED BY <2>1, <1>2, <1>3 DEF IInv, TypeOK
<1>5. Counts'
  <2>1. numFinisheds' = 0 BY DEF IInv, Counts
  <2>2. Cardinality(Finished') \in Nat BY <1>4, Counted
  <2> QED BY <2>1, <2>2 DEF Counts
<1>6. Emptied' BY <1>1, <1>2 DEF IInv, Emptied
<1>7. FuncsAccounted' BY <1>3 DEF IInv, FuncsAccounted
<1> QED BY <1>4, <1>5, <1>6, <1>7 DEF IInv

LEMMA RunOnceInv == ASSUME IInv, RunOnce PROVE IInv'
<1>1. \A t \in Thread : pc'[t] = IF t \in threads THEN "process" ELSE "none" BY DEF RunOnce, Threads
<1>2. threads \subseteq Thread BY DEF IInv, TypeOK
<1>3. Places' BY <1>1, <1>2 DEF RunOnce, IInv, Places, atomics, Joined
<1> QED BY <1>3, ThreadsInv DEF RunOnce, atomics, IInv, TypeOK

LEMMA BeginInv == ASSUME IInv, Begin PROVE IInv'
<1>1. \A t \in Thread : pc'[t] = IF t \in threads THEN "spin2" ELSE "none" BY DEF Begin, Threads
<1>2. threads \subseteq Thread BY DEF IInv, TypeOK
<1>3. Places' BY <1>1, <1>2 DEF Begin, IInv, Places, atomics, Joined
<1> QED BY <1>3, ThreadsInv DEF Begin, atomics, IInv, TypeOK

LEMMA StartInv == ASSUME IInv, Start PROVE IInv'
<1>1. \A t \in Thread : pc'[t] = IF t \in threads THEN "spin" ELSE "none" BY DEF Start, Threads
<1>2. threads \subseteq Thread BY DEF IInv, TypeOK
<1>3. Places' BY <1>1, <1>2 DEF Start, IInv, Places, atomics, Joined
<1> QED BY <1>3, ThreadsInv DEF Start

\* The owner goes on while the threads and their queues stay.
LEMMA OwnerInv ==
  ASSUME IInv, UNCHANGED <<threads, funcss, pc, next, added, ran>>,
         TypeOK', Places', Counts',
         at' \in {"joinOnce", "joinCommit"} => at = "begun"
  PROVE  IInv'
<1>1. Emptied'
  <2>1. at = "begun" => \A t \in Thread : pc[t] = "none" => funcss[t] = <<>>
    BY DEF IInv, Emptied, Places
  <2> QED BY <2>1 DEF IInv, Emptied
<1>2. FuncsAccounted' BY DEF IInv, FuncsAccounted
<1> QED BY <1>1, <1>2 DEF IInv

LEMMA CommitInv == ASSUME IInv, Commit PROVE IInv'
<1> USE DEF Commit
<1>1. TypeOK' /\ Places' BY DEF IInv, TypeOK, Places, Joined
<1>2. Counts' BY DEF IInv, Counts, Finished
<1> QED BY <1>1, <1>2, OwnerInv

LEMMA GoInv == ASSUME IInv, Go PROVE IInv'
<1> USE DEF Go
<1>1. round' \in 0..MaxRound BY Consts DEF NewRound, IInv, TypeOK
<1>2. TypeOK' BY <1>1 DEF IInv, TypeOK
<1>3. Places' BY DEF IInv, Places, Joined
<1>4. Counts' BY DEF IInv, Counts, Finished
<1> QED BY <1>2, <1>3, <1>4, OwnerInv

\* When all have been counted all wait, with empty queues.
LEMMA AllFinished ==
  ASSUME IInv, numFinisheds = Cardinality(threads)
  PROVE  \A t \in threads : pc[t] = "drain" /\ funcss[t] = <<>>
<1>1. Cardinality(Finished) = Cardinality(threads) BY Finite DEF IInv, Counts
<1>2. Finished = threads BY <1>1, Finite DEF IInv
<1> QED BY <1>2 DEF Finished

LEMMA GoWaitInv == ASSUME IInv, GoWait PROVE IInv'
<1> USE DEF GoWait, GoWaitFor, atomics
<1>1. TypeOK' BY DEF IInv, TypeOK
<1>2. \A t \in threads : pc[t] = "drain" BY AllFinished
<1>3. Places' BY <1>2 DEF IInv, Places, Joined
<1>4. Counts' BY DEF IInv, Counts, Finished
<1> QED BY <1>1, <1>3, <1>4, OwnerInv

LEMMA GoEndInv == ASSUME IInv, GoEnd PROVE IInv'
<1> USE DEF GoEnd
<1>1. TypeOK' /\ Places' BY DEF IInv, TypeOK, Places, Joined
<1>2. Counts' BY DEF IInv, Counts, Finished
<1> QED BY <1>1, <1>2, OwnerInv

LEMMA GoResetInv == ASSUME IInv, GoReset PROVE IInv'
<1> USE DEF GoReset, GoResetTo
<1>1. TypeOK' BY Finite DEF IInv, TypeOK
<1>2. Places' BY DEF IInv, Places, Joined
<1>3. Counts'
  <2>1. Cardinality(Finished') \in Nat BY <1>1, Counted
  <2> QED BY <2>1 DEF Counts
<1> QED BY <1>1, <1>2, <1>3, OwnerInv

LEMMA StopInv == ASSUME IInv, Stop PROVE IInv'
<1> USE DEF Stop
<1>1. TypeOK' /\ Places' BY DEF IInv, TypeOK, Places, Joined
<1>2. Counts' BY DEF IInv, Counts, Finished
<1> QED BY <1>1, <1>2, OwnerInv

LEMMA JoinInv == ASSUME IInv, Join PROVE IInv'
<1> USE DEF Join
<1>1. TypeOK' /\ Places' BY DEF IInv, TypeOK, Places, Joined
<1>2. Counts' BY DEF IInv, Counts, Finished
<1> QED BY <1>1, <1>2, OwnerInv

-----------------------------------------------------------------------------
LEMMA NextInv == ASSUME IInv, [Next]_vars PROVE IInv'
<1>1. CASE UNCHANGED vars
  <2> USE <1>1 DEF vars, atomics
  <2>1. TypeOK' /\ Places' BY DEF IInv, TypeOK, Places, Joined
  <2>2. Counts' /\ Emptied' BY DEF IInv, Counts, Finished, Emptied
  <2>3. FuncsAccounted' BY DEF IInv, FuncsAccounted
  <2> QED BY <2>1, <2>2, <2>3 DEF IInv
<1>2. CASE Owner BY <1>2, RunOnceInv, BeginInv, CommitInv, StartInv, GoInv, StopInv, AddToInv DEF Owner
<1>3. CASE OwnerWaits BY <1>3, GoWaitInv, GoEndInv, GoResetInv, JoinInv DEF OwnerWaits
<1>4. CASE \E t \in Thread : Loop(t)
  BY <1>4, Process2Inv, SpinInv, SpinRunningInv, CheckInv, ProcessOneInv, ProcessEndInv,
     FinishInv, DrainInv, AgainInv DEF Loop
<1> QED BY <1>1, <1>2, <1>3, <1>4 DEF Next

LEMMA Invariance == Spec => []IInv
<1>1. Init => IInv BY InitInv
<1>2. IInv /\ [Next]_vars => IInv' BY NextInv
<1> QED BY <1>1, <1>2, PTL DEF Spec

\* The type invariant; numFinisheds never exceeds the number of threads.
THEOREM TypeCorrect == Spec => []TypeOK
<1>1. IInv => TypeOK BY DEF IInv
<1> QED BY <1>1, Invariance, PTL

\* No thread is in Process, or can get there, while the owner may Add.
THEOREM NoThreadInProcess == Spec => []NoRace
<1>1. IInv => NoRace
  <2>1. SUFFICES ASSUME IInv, at \in {"idle", "begun", "started"}
                 PROVE  ~running /\ \A t \in Thread : pc[t] \notin {"check", "process", "finish"}
    BY DEF NoRace
  <2>2. ~running BY <2>1 DEF IInv, Places
  <2>3. ASSUME NEW t \in Thread PROVE pc[t] \notin {"check", "process", "finish"}
    <3>1. CASE t \notin threads BY <3>1, <2>1 DEF IInv, Places
    <3>2. CASE t \in threads /\ at = "idle" BY <3>2, <2>1 DEF IInv, Places, Joined
    <3>3. CASE t \in threads /\ at # "idle" BY <3>3, <2>1 DEF IInv, Places
    <3> QED BY <3>1, <3>2, <3>3
  <2> QED BY <2>2, <2>3
<1> QED BY <1>1, Invariance, PTL

\* When RunOnce, Commit or Go is about to return each function that was added has run
\* once, and none ever runs twice.
THEOREM EachRunsOnce == Spec => []RunsOnce
<1>1. IInv => RunsOnce
  <2>1. SUFFICES ASSUME IInv PROVE RunsOnce OBVIOUS
  <2>2. \A f \in Func : ran[f] <= 1 /\ ran[f] \in Nat BY <2>1 DEF IInv, FuncsAccounted, TypeOK
  <2>3. ASSUME at \in {"goEnd", "goReset"} \/ (at \in {"joinOnce", "joinCommit"} /\ Joined)
        PROVE  /\ \A t \in Thread : funcss[t] = <<>>
               /\ \A f \in 1..added : ran[f] = 1
    <3>1. \A t \in Thread : funcss[t] = <<>>
      <4>1. CASE at \in {"goEnd", "goReset"} BY <4>1, <2>1, AllFinished DEF IInv, Counts, Emptied
      <4>2. CASE at \in {"joinOnce", "joinCommit"} /\ Joined BY <4>2, <2>1 DEF IInv, Emptied, Joined
      <4> QED BY <2>3, <4>1, <4>2
    <3>2. \A t \in Thread : DOMAIN funcss[t] = {} BY <3>1
    <3>3. \A f \in 1..added : f \in Func /\ f <= added
      BY <2>1, Consts DEF IInv, TypeOK, Func
    <3>4. \A f \in 1..added : ran[f] # 0 BY <2>1, <3>2, <3>3 DEF IInv, FuncsAccounted
    <3> QED BY <3>1, <3>3, <3>4, <2>2
  <2> QED BY <2>2, <2>3 DEF RunsOnce, Complete
<1> QED BY <1>1, Invariance, PTL
=============================================================================
