# A verification project for xxlib

xxlib is a header-only C++20 base library: containers, smart pointers,
coroutine schedulers, thread pools, a logger, serialization, and network peers
and clients over asio, libuv and epoll. Its own code is `src/src/*.h`; the rest
of the repository is vendored code (asio, lua, sqlite, libuv, ...), samples,
tests and generators. This directory holds TLA+ modules of the parts where the
order of events matters, TLC configurations that check them, and proofs that
TLAPS checks.

## 1. Inventory

| Part | State | Operations | Interacts with |
|---|---|---|---|
| TCP peer `xx_asio_tcp_base.h` | `stoped`, `socket`, `writeBlocker`, `writeQueue`; two coroutines | `Start`, `Stop`, `Send`, `Connect`; `Read`, `Write` | io_context (handlers in FIFO order), derived `Read`, `Stop_` |
| Requests `xx_asio_request.h`, `xx_asio_gateway_helpers.h` | `reqAutoId`, `reqs` (serial → timer, data) | `SendRequest`, `HandleMessage` / `HandleData` | the peer's `Send`, `stoped`, life cycle |
| Gateway client `xx_asio_gateway_client.h` | `tpeer`/`kpeer`, `recvObjs`, `recvDatas`, `openServerIds`, `openWaitServerIds`, `waitingObject`, two timers | `Dial`, `Reset`, `Pop`, `TryPop`, `WaitOpens`, `Cleanup`; the commands open and close | the peer calls back (`Stop_`, `ReceiveTarget...`, `ReceveCommand`); user's coroutines; the lua binding |
| TCP client `xx_asio_tcp_client.h` | as above, one server | as above | its peer |
| UDP / KCP peers `xx_asio_udp_base.h`, `KPeer`, `xx_asiokcpclient.h`, `xx_asio.h` | as the TCP peer, plus `kcp` and its clock | plus `Update`, `ikcp_input`, `ikcp_recv` | io_context, ikcp |
| Thread pools `xx_threadpool.h` | `jobs`, `stop`, mutex, condition variable; `running`, `started`, `numFinisheds`, `funcss` | `Add`, destructor, worker loop; `RunOnce`, `Begin`/`Commit`, `Start`/`Go`/`Stop` | OS threads |
| Ring queue `xx_queue.h` | `buf`, `cap`, `head`, `tail` | `Emplace`, `Pop`, `PopLast`, `PopMulti`, `Clear`, `Reserve`, `At` | |
| Coroutine schedulers `xx_coro*.h`, `xx_task.h` | lists of coroutines, wait lists by event, deadlines | `Add`, `Resume`, `Trigger` | user's coroutines call back |
| Smart pointers `xx_ptr.h`, `xx_combopool.h` | strong and weak counts in a block | copy, move, `Reset`, `Lock`, `Emplace` | destructors call back |
| Lists and pools `xx_listlink.h`, `xx_listdoublelink.h`, `xx_linkpool.h`, `xx_nodepool.h` | nodes, free list, versions | `Add`, `Remove`, `Foreach`, `Reserve`, `Clear` | callbacks in `Foreach` |
| Dictionaries `xx_dict.h`, `xx_dict_mk.h` | buckets, nodes, free list | `Add`, `Remove`, `Update`, `Reserve`, `Clear` | |
| Logger `xx_logger.h` | two buffers, a writer thread, `disposing` | `Log`, `Loop`, rotation, destructor | OS threads, files |
| HTTP, serialization, databases, lua, utilities | data | encoders, parsers, wrappers | |

What is hard in each, and what makes it right:

* **Peers and clients.** One thread, but every `co_await` is a gap: the timer or
  the socket completes, the coroutine waits its turn in the io_context, and
  other handlers and the user's frame (`poll_one` runs one handler per frame)
  come first. Flags read after a wait may belong to the next connection. Right
  means: one reader and one writer per connection; no lost wake; nothing sent
  twice, lost in the middle or carried into the next connection; every wait
  ends; no answer to another's request; no state of one connection in the next.
* **Thread pools.** Notifications outside of the mutex, a destructor that must
  drain, and spinning on atomics that change back. Right means: no job is
  forgotten or run twice, the owner never touches a vector a thread uses, and
  every call returns.
* **Containers.** Wrap-around and growth of rings; free lists; handles that
  outlive their nodes; callbacks that change the container. Right means: the
  container is the sequence, set or map it is said to be, and each object is
  built and destroyed once.
* **Pointers.** Destruction of the object and of the block at different times,
  with destructors that call back. Right means: nothing freed in use, nothing
  kept.
* **Schedulers and logger.** Callbacks that add to what is being iterated; two
  buffers handed over between threads; shutdown. Right means: each coroutine is
  resumed once per event or deadline, each line is written once.

## 2. Modules

| Module | Models | Abstract specification | Proofs |
|---|---|---|---|
| `TcpPeer` | the TCP peer | `PeerChannel` | `TcpPeer_proofs` |
| `PeerRequest` | requests and responses | | `PeerRequest_proofs` |
| `GatewayClient` (+ `MCGatewayClient`) | the gateway client | | `GatewayClient_proofs` |
| `ThreadPool` | `ThreadPool`, `ThreadPool2` | | `ThreadPools_proofs` |
| `ToggleThreadPool` | `ToggleThreadPool` | | `ThreadPools_proofs` |
| `RingQueue` | `Queue` | `Fifo` | `Containers_proofs` |
| `ListDoubleLink` | the list of that name, as operators | | `Schedulers_proofs` |
| `Tasks` | `Tasks`, `TaskDeleter`, over `ListDoubleLink` | | `Schedulers_proofs` |
| `EventTasks` | `EventTasks`, with the removals of `List` | | `Schedulers_proofs` |
| `SharedWeak` (+ `MCSharedWeak`) | `Shared`, `Weak`, `WeakHolder` | | `SharedWeak_proofs` |
| `Dict`, `DictMK` (+ `MCDictMK`) | `Dict`, as operators; `DictMK` with two keys | `MultiKeyMap` | `Containers_proofs` |
| `Logger` | `Logger` | | `Logger_proofs` |

Definitions ending in the comment `mutant` are plausible errors in the code next
to the definition they distort; no specification uses them. They show that the
properties can fail.

### TcpPeer

A suspended coroutine is an operation in `pend` (owned by the kernel or the
timer) or a completion in `ready`, the FIFO of handlers. `Start` runs inside
a handler, so the coroutines it spawns reach their first wait within it: the
writer finds its queue empty and waits on `writeBlocker`. `Stop` closes the
socket and cancels the timer: what was pending is completed with an error, in
either order, behind the handlers that are queued already. `Send` appends and
cancels one wait. `WriteResume` is `Write` from one `co_await` to the next, with
the test of the size limit, and with the test of the queue only at the head of
the loop, as in the code: after its wait `Write` takes `front()` without
looking. `ReadResume` is `Read` of the TCP gateway peer. `Connect` may follow
a `Stop`; a user makes one `Connect` of a peer at a time (`NotDialing`; `Dial`
makes a new peer for each). Histories `sent` and `wire` record, per connection,
what `Send` accepted and what the socket took.

`PeerChannel` is what a user relies on: connections follow one another, and
the wire of a connection is a prefix of what it accepted; while it stays up
everything accepted is written. `TcpPeer` implements it with `up <- ~stoped`.

### PeerRequest

A request is known by the number it would have if serials never ended; its
serial is that number modulo `Modulus`. `SendRequest` makes the entry in
`reqs` and sends; the server answers or not, in any order; `HandleMessage` stores
the response and ends the wait; `Timeout` ends it too; `Resume` is the rest of
`SendRequest`. `Stop` leaves `reqs` and its timers alone, as the code does. The
peer lives while the client owns it or its own coroutines hold it; `Drop` is
`Client::Reset`. The gateway's `SendRequestTo` does not look at `IsStoped` but
`Client::SendRequestTo` does before it calls it.

### GatewayClient

The client over a peer that is up or down. `Dial` and `Reset` replace the peer; `Waits`
are the waits of `Dial` for TCP, TCP with a secret, and KCP, and `DialResume` goes from one
to the next. With a secret the peer is up while the secret is still being written: when it
stops then, `Cleanup` clears the secret and the comparison of lengths in `TPeer::Connect`
fails, which is why `Dial` never returns 0 for a peer that is down (`DialTells`). The
timer of `KPeer::Connect` has a handler of its own, which `Connect` cannot take back once it
is in the queue (`AlarmRuns`); for a peer that is gone it writes to freed memory, which
is modelled as hitting the new peer or nothing.
`ReceiveTarget`, `ReceiveOpen`, `ReceiveClose` are the handlers of `HandleData`;
`Pop` and `WaitOpens` are split at their `co_await`. A call that returns at once
without changing anything is no step. Packages of one server are counted, not
told apart; the user may change `cppServerId` at any time, so that a package of any server
may go to `recvObjs` or to `recvDatas`. While `Dial` runs nobody calls the client (the rule of
`xx_lua_asio_gateway_client.h:17`), so `Replace` waits for it.

### ThreadPool, ToggleThreadPool

A section under the mutex is one step; `notify_one` and `notify_all` are steps
of their own; a sleeping worker may wake without cause. `ThreadPool2` differs by
the environment handed to the jobs. In `ToggleThreadPool` each access of an atomic
is a step, and a spinning thread is one whose step is not enabled, so that under
weak fairness it may miss a value that does not stay; `threads` is the number
given to `Init`.

### RingQueue

A slot holds an object or is `Raw` memory. `sound` turns false when raw memory
is destroyed or moved, or an object is built over another. `trivial` is the
type trait by which the code leaves destructors out. New capacities are any
number from the requested one up, which covers what `Round2n` gives for every
`sizeof(T)`. The abstract queue is what `Count` and `At` of the code show.

### ListDoubleLink, Tasks

`ListDoubleLink` gives, for each operation, the list it leaves: the nodes with both
links, the free list and the versions. `Tasks` keeps one list. A round of
`operator()` is `BeginRound`, and `Suspend` or `Finish` for each task; between them the
running task may add one (`AddTask`) or run a `TaskDeleter` (`Assign`, which drops what the
deleter had, or `Drop`), as may the user between rounds. `alive` are the tasks whose
coroutine frame exists. A task may throw (`Throw`, `xx_task.h:49`): that ends the round and
leaves it in the list. What a running task can do to what `Foreach` holds, and the code does
not test, is `Misuse`: it drops itself or the node that was noted as the next, makes the array
grow under the reference through which it is resumed, or clears the list. What follows is
undefined, so `harm` says which it was and the model stops; `FramesKept` says that no frame is
used after its end in any other way. `TaskTcpSocket::TasksUpdater` (`xx_epoll_task.h:610`) does
the first: it disposes of the socket whose `TaskDeleter` holds it.

### EventTasks

The coroutines of a connection, in two lists. `Trigger` is the call with a key
and an answer (a response came); `Begin`, `EventsNext` and `UpdatesNext` are the call
of every frame, which goes through `eventTasks` and then `tasks` from the end.
A coroutine that was resumed does one of the things `Resume` and the loop tell apart
when it suspends again: it ends, yields 0, waits (again) for a key, or yields an
error. Before that it may `Add` another, and, as one that reads a socket does, hand
in events. A deadline is the time left; time passes between frames only. `p` is
whose local variable the answer is written to, so that a write to a variable that is
gone or another's is seen.

Three things the code does, or lets a coroutine do, end in the use of memory that is gone;
`fault` says which it was, and the model stops there:

* A task ends or waits when it is not the last of `tasks`. `RemoveTask` does what
  `SwapRemoveAt` does for a Pod: the last task is copied into the place and destroyed where it
  was. The last task has lost its frame (`robbed`), and the one that left keeps its frame
  if it had ended (`leaked`). All goes on until the robbed task is resumed, is
  destroyed again as the last of another removal, or with the lists: `"robbed"`.
* `tasks` grows while one of them is resumed through the reference of `xx_task.h:310`: `"node"`.
* A coroutine yields an error from `eventTasks` and its owner goes on (`EventGoesOn`), as
  `TasksUpdater` does after a positive one: the entry keeps the key and pointer of
  the wait before (`stale`), and a later answer is written through it: `"old"`. Where the owner
  disposes of the connection it is `EventFails`.

`KeptOnce` says that these are the only faults, and what a robbery leaves; `OwnAnswer` and
`WaitEnds` hold beside them.

### SharedWeak

Blocks with two counts, handles in variables, and in each object a strong and a weak
member. Calls are on a stack: `Reset` of the last `Shared` runs the destructor of the
object, whose body may call anything before the members are destroyed, which may
destroy other objects; what follows the `Reset` in `operator=` or `Emplace` is done
after that, with what the handles are by then. Blocks that are freed are used
again. `Emplace` is the allocation (`EmplaceStep`), the constructor, whose body may call
anything too, and the assignment of the pointer (`Constructed`); a constructor may throw
(`Thrown`), and then its block belongs to nobody (`"lost"`). A destructor may lock the object
that is dying, and release it again. `Usable`, `Ready` and `Free` say what can be called:
by the body on top of the stack, or the program, with variables, members of their own object, and
members of live objects through a variable.
Three calls the code admits and breaks, and the model stops at them (`harm`):
`"again"`, a `Shared` that is being changed is changed by what that destroys
(`xx_ptr.h:120`); `"holder"`, the object is let go whose member a call still needs, as in
`s = s->next`, which `Reset(ptr)` reads too late (`:138`); and `"revived"`, a `Shared` of a dying
object outlives its destructor. A `WeakHolder` is a `Weak` that is constructed, moved and
destroyed.

### Dict, DictMK

A dictionary is a record, as `nodes` and `items` under one index, `buckets`, and the
list of free nodes; operations are operators. The loop of `Reserve` brings each node to the
front of its bucket: `Rehashed` gives what that leaves, chains in descending order.
`UpdateAt` unlinks and links in one step, or changes the key where it is.
`DictMK` is two of them: additions, removals and updates by either key use the index that
one dictionary finds on the other (`Asserted`). `MultiKeyMap` is what a user relies on:
records with two unique keys at fixed indices (any free index may be taken). `DictMK` implements
it with the records at the indices both have. Two calls break the pair, and the model has them
and stops there (`broken`): an `Add` whose first key is new and whose second key is in use, which
the code takes back at the wrong dictionary (`"rollback"`: the assertion of `xx_dict.h:310` fails
each time), and `Reserve` of a full dictionary with free nodes (`"reserve"`). `SameIndices`
says that no other call fails the assertion, whatever came before.

### Logger

Items are numbers in the order of acceptance. `LogTest` is `Log` up to the test of
`disposing`, `LogPush` the section under the mutex; the thread is `LoadConfig`,
`Swap`, a `Dump` per item, and `End` (`LabEnd`, where `disposing` goes from 1 to 2 and
the loop ends a round later). `Renamed` is what `FileRename` makes of the numbered
files. A file may fail to open, a write to an open one may fail, and both are over when the
next one opens (`ofs`; `failed` records that it happened). `LoadConfig` may bring any size and any number of files. When
that number is less than the files there are, `FileRename` removes the file that
has it instead of the oldest; `cut` says that this has happened, and `FilesInOrder` ends there.

## 3. Runs

| Run | Question | Bounds |
|---|---|---|
| `tcp_peer` | Do the coroutines, the queue and the socket stay together over stop and reconnect, and is the peer a `PeerChannel`? | 2 messages, 2 connections (the hazard is one connection meeting the next), 3 sends per connection and a queue limit of 2, so that the limit is passed |
| `peer_request` | Does each call get its own answer or, in time, nothing? | 2 coroutines, 4 requests, 2 connections; serials do not wrap |
| `gateway_client` | Do calls see only their own connection, does none sleep on what it waits for, do all return? | 2 poppers, 1 opener, 2 servers (only one of which is asked for alone: they are alike), 1 unread package per queue; 2 peers, the first encrypted or KCP, the second plain or KCP, so that a secret or timer that was left behind meets each |
| `thread_pool` | Does every job run, and the destructor end? | 3 workers, 2 users, 4 jobs, jobs may add jobs |
| `toggle` | Does everything added run once, unobserved by the owner, and do calls return? | 1 or 2 threads, 3 functions, 4 calls, all modes in any order |
| `ring_queue` | Is the ring a sequence, and each object built and destroyed once? | capacity 3, grows up to 7: two growths, every position of `head` |
| `tasks` | Does a round resume each task once and in order, and a handle never find another's task, while tasks come and go? | 5 tasks, 2 deleters, capacity 2 or 3 that doubles: nodes are reused, the array grows; every harm is reached |
| `event_tasks` | Is each coroutine kept in one place, given the answer to its own key or its timeout, and does every wait end? | 3 coroutines (the one that runs, the one before and the one behind it in a list: each can leave from before the last), 2 keys, a timeout of 1; all three faults are reached |
| `shared_weak` | Are counts the numbers of handles within nested destructors, and is nothing freed in use or seen again? | 2 objects with members (a destructor within a destructor, cycles, a member of itself), 2 strong variables and a weak one, nothing else bounded; symmetric; all three harms are reached |
| `dict_mk` | Do two dictionaries keep the same indices, and are they a map with two keys? | 3 keys of each kind that collide fully, until growth, or not; 2 values (symmetric); capacity 1, 2 and 3, so that both growths happen with chains and free nodes; both breaks are reached |
| `logger` | Is each item written once and in order, found in the files in that order, and served? | 2 callers, 6 items, 1 or 2 items before a file is full and 1 or 2 numbered files, each changed at any reload, so that they go round and are cut; files may fail to open and to be written |
| `toggle_two` | violation, see below | 2 threads |

`CHECK_DEADLOCK FALSE` stands in every configuration: a peer may end for good,
and the bounds on connections, sends and jobs end every behaviour.

**Fairness.** The io_context is polled in every frame (`Client::Update`), so the
handlers in `ready` run: `WF(Resume)`. Timers expire, and name resolution and
connecting are raced with a timer: `WF(Timeout)`, `WF(NetDone)`. The kernel ends
every write, with an error at last: `WF(KernelWrite)`. Nothing is assumed of
reads, of the server or of the user. Threads are scheduled, jobs end, and a
thread that wants the mutex gets it: `WF` per thread; spurious wake-ups and the
owner's new calls have none. The thread of the logger runs: `WF(Loop)`. The owner of
`EventTasks` calls it in every frame and time passes between frames (`SF(Begin)`,
`SF(Tick)`: both need the moment between two calls, which comes again and again),
the loops go on (`WF`), and a resumed coroutine comes to its next `co_yield` instead
of adding or handing in for ever (`SF(TaskLeaves)`, `WF(EventLeaves)`).

**What the violation shows** (PROJECT.json has the quotes):

* `toggle_two`: a thread that is slow to see `numFinisheds == 0` sees the 1 of
  the next `Go`; that `Go` never returns. With one thread it cannot happen
  (`CallsReturn`).

Met while modelling, and seen with the switch or property named:

* A `Pop` that times out leaves `waitingObject` set; until a package comes, every later
  `Pop` is refused at once (invariant `WaitingMeansWaited` of `GatewayClient`).
  `xx_asio_tcp_client.h` has the same code.
* The timer of `KPeer::Connect` may have expired, and its handler be queued, when `Connect`
  ends: it then closes the new connection, for which `Dial` has returned 0, or, after a
  failed `Dial` that was followed by another at once, works on a peer that is destroyed
  (invariants `UpReads` and `AlarmOwned`).
* When the secret cannot be written `Dial` fails and the client is up
  (`FailureIsDown`); when `ikcp_input` fails the client is up and deaf (`UpReads`).
* A `WaitOpens` that starts between the success of another and its resumption refills
  the list by which success is told (`OpensAnswer` with `Opener <- TwoOpeners`).
* `Reset` destroys the peer under a call suspended in it (invariant `PeerOutlivesCalls`
  of `PeerRequest`).
* `PopLast` destroys `buf[tail]` and leaks `buf[tail - 1]` (`Lifetimes` with `"popLast"`
  in `Calls` of `RingQueue`).
* `List::SwapRemoveAt` (`xx_list.h:172`) copies the last element over the one that
  goes and then destroys the last where it was; of a type that is called a Pod and has
  a destructor, as `Task<>`, `Shared` and `Weak` are, the wrong one is destroyed: a task
  that ends or waits while it is not the last of its list takes the frame of the last
  (`robbed` in `EventTasks`: two tasks, and the end of the first, are enough).
* `DictMK::Add` with a new first and an existing second key removes an index from a
  dictionary that does not have it, and the record that had the key from the other
  (`xx_dict_mk.h:75` and `:89`; `broken = "rollback"` in `DictMK`).
* `Dict::Reserve` of a full dictionary with free nodes puts them into the chains
  (`broken = "reserve"`).
* After an error yielded from `eventTasks` the answer to the wait before is still written
  through its pointer (`xx_task.h:342`; `fault = "old"` in `EventTasks`).
* A configuration with fewer files than there are makes `FileRename` remove one between
  (`cut` in `Logger`).
* `Log` says of `logLevel` that only records "小于等于这个级别" are kept and drops those
  below it (`xx_logger.h:594`); what `Log` accepts while the destructor runs may never be
  written; after a file failed to open the thread takes batches and drops them.

Also: a request gets serial 0, that of a push,
once in 2^31 (`xx_asio_request.h:50`); `Pop` returns true with a null package when
the type does not match and false before its timeout when a package of another
server comes, which its comment (`xx_asio_gateway_client.h:74`) says otherwise;
`Reserve` on an empty queue of objects moves raw memory (`xx_queue.h:255`);
`ListDoubleLink::Clear` and its destructor leave the frames of pending tasks
undestroyed, for `Task<>` is called a Pod (`xx_task.h:125`), which
`xx_typetraits.h:7` says of types that may be moved by `memcpy`.

## 4. Proofs

The proofs hold for every value of the constants that satisfies the modules'
named assumptions.

**TcpPeer_proofs.** `Inv`, the conjunction of `TypeOK`, `Quiet`, `OneOfEach`,
`NoLostWakeup` and `Backlog`, is inductive; none of its parts is alone. That
`Start` makes the only reader and writer (`OneOfEach`) needs that no handler of an
earlier connection is left when a `Connect` completes, which is `Quiet`: `Stop`
puts all that was pending behind the handlers at hand, the `Connect` that follows
can only complete behind those, and `ready` is a FIFO. That `Write` may take
`front()` without a test (`NoLostWakeup`) needs the one writer; `Backlog` needs
both, since the message on its way is the head of the queue. Lemmas state what
`Stop`, `Start` and a resumption do to `Inv` once, for use under each action.
`Apart` is `Quiet` and `OneOfEach`. Theorems: `TypeCorrect`, `ApartHolds`,
`NoLostWakeupHolds`, `BacklogHolds`, and `Refinement`: `Spec => Channel!Safety`.

**ThreadPools_proofs** holds the theorems of both pools. For `ThreadPool`, `PoolInv` adds to
the invariants that runs check what makes them inductive: a job is in the queue once
(`Queued`), a worker is in `Add` only inside a job (`Adding`), and what the destructor
excludes (`Stopping`: after it only jobs add, and a worker leaves only when nothing is left).
`NoJobForgotten` is an inequality between cardinalities; each step moves a thread between
sleeping, testing and adding or moves a job, and lemmas say how each count
changes. `Worker # {}` is an assumption: the default is four threads, but the code
takes any number, and without a thread no job would run. Theorems: `PoolTypes`,
`WakesKept` (from `NobodyForgotten` and `NoSleepers`), `AllJobsKept` (from `NoJobLost`
and `DtorLast`).

For `ToggleThreadPool`, `IInv` says where the threads may be in each phase of the owner
(`Places`), that `numFinisheds` counts only threads that wait with an empty queue
(`Counts`: it reaches the number of threads only when all do), that a
queue is empty when its thread has left `Process` (`Emptied`), and that a function is
in one place of one queue or has run (`FuncsAccounted`). `NoRace` is then read off `Places`. The
exception that `toggle_two` shows is one of progress: a `Go` that returns has run
everything, however many threads there are. Theorems: `TypeCorrect`, `NoThreadInProcess`,
`EachRunsOnce`.

**Containers_proofs** holds the theorems of both containers. For `RingQueue`, `TypeOK` is
inductive. `View(b, c, h, t)` is the sequence that
a buffer of `c` slots shows between `h` and `t`; `More` and `Part` say when the view
of one buffer is that of another with an object behind it, or a segment of it.
Each operation, in each of its cases (wrapped or not, grown or not), is then
arithmetic on slots. This gives `Types` and `Implements` (`Spec => IsFifo`) without
any restriction on the calls. `Returned` is inductive with `TypeOK`. `KeptTrackOf`
proves `Lifetimes` under the assumption `Calls = {}`, which is what the run
`ring_queue` uses and is needed: for a type
that is not trivial, `PopLast` and `Reserve` on an empty queue break it.

For `DictMK`, a dictionary is `Fit` when its used nodes are woven into lists and its free
nodes are the stack `s`. `Woven(d, V)` is local, so that a step that touches two nodes can be
seen to keep it: heads, `next` and `prev` agree, neighbours have the same bucket, and there is
a rank that falls along `next`. From it `Chained` shows what is not local: the chain of
each bucket ends within `count` steps, passes each node once and leaves none of the bucket
out, for the one of highest rank would have nothing before it. With that `FitFinds` gives
`Linked` and that `Find` finds just what is there. `LinkWoven`, `UnlinkWoven`, `PutWoven` and
`ReserveWoven` say what the parts of the operations do to `Woven`, `AddToFree`, `AddBehind`,
`RemoveFit`, `UpdateFit`, `SetFit` and `ReserveFit` what the operations do to `Fit`. The
invariant `DictInv` is that both dictionaries are `Fit` with the *same* stack `s`, count and
size of the table (`Paired`): only then do two `Add`s take the same index. Theorems:
`IndicesMatch` (`SameIndices`) and `TwoKeyed` (`DictSpec => IsMap`), for any hash, any
second keys and values, and any finite set of first keys, under `Sized`: sizes within the table
of primes, beyond which `GetPrime` fails its assertion (`xx_dict.h:19`).

**PeerRequest_proofs.** Everything goes by the serial, so everything depends on one fact,
`Mine`: of all that goes by the serial of a waiting call (other calls, packets under way,
its entry) nothing is another's. Stops and timeouts leave old entries and old
packets behind, and `Mine` survives them because only `SendRequest` brings in a serial.
`Answered` says that a call whose timer was cancelled has data or was cancelled with the
peer; without it `Resume` might return nothing before its time. `FreshSerials` proves
`AnswerIsMine` and `NoLeak` for any number of requests of which none takes a serial that
a call, an entry or a packet still has (`Fresh`). The code does not make sure of
that; serials that have not come round yet are fresh (`Sent`), which gives
`OwnAnswers` and `NothingForgotten` under `MaxCount <= Modulus`, as in the run
(`Modulus` is 2^31 in the code). `TypeCorrect` has no such hypothesis.

**Logger_proofs.** `OrderInv` (`Typed`, `Sorted`, `Exact`, `Late`) needs nothing of the files:
what is written, on its way and waiting is increasing, without gaps as long as no file
failed; and a thread that has left had found both buffers empty after `disposing` was
set. This gives `InOrder` (`WrittenInOrder`) without hypotheses. `FilesInv` adds that the
current file has as many items as were counted while nothing failed, and that the files from the oldest to the
newest hold a last part of `written`; that `FileRename` keeps it is shown for any number
of files. `TypeCorrect` and `NoGap` (`FilesInOrder`) need no hypotheses either: that a file
fails, or that there are more files than the configuration has, is in the property.

**GatewayClient_proofs.** That a call never meets the next connection (`Current` in
`OwnConnection`) rests on the order of the handlers: `Cleanup` puts all that waits into
`ready`, and the next connection is up only in a resumption of `Dial` that comes behind
them (`Turns`), because it had to wait for something after `Reset`. `Agreed` ties the secret
to the step `Dial` is in, which gives `Ciphered` and also `DialTells`: if the peer has gone
while the secret was written the secret has gone too, and the comparison fails. `PopWaits` and `Once`
(nothing is in `ready` twice) are what `PopAwake` needs. Theorems: `SeesItsOwn`, `NoneSleeps`,
`DialTellsTheTruth` (an action property), for any number of coroutines, servers and
peers; and `RightAnswer` (`OpensAnswer`), with `Opening` as the additional invariant,
for one coroutine that calls `WaitOpens`. With two it is false, as described above.

**SharedWeak_proofs.** The counts are only right if each step lets go of what a handle
still points to, and that depends on the calls under way, of which there may be any number. `IInv`
therefore says of the stack: a call for a Shared knows where it points (`Held`); each dying object has one
call that destroys it, and none has two that make or end it (`Dying`); no Shared is in two calls, but for the Reset in front of the
rest of a call (`OneCall`); the member that a call needs stays until the call ends, since its
object is live or is being made or destroyed further out (`Members`); and what is assigned
from is another Shared, and what is swapped with belongs to no call further out (`Sources`). With `Counts` they are inductive, none without the others: that
the object of a Reset with count 1 is not dying already needs `Dying` and `OneCall`, and that a block
outlives the calls for its members needs `Members`. Cardinalities change by one, by lemmas on
finite sets; `Leaving` and `Entering` state once what popping and pushing calls does to the
stack. `CountsRight` (`Counted`) and `NeverBack` (`DeadStaysDead`) hold for finitely many objects
and handles (`HandlesAssumption`), as memory has, and without a hypothesis on what callers do:
what the code does not look after sets `harm` and ends the behaviour.

**Schedulers_proofs** holds the theorems of `EventTasks` and of `Tasks` with its list.

For `EventTasks`, `EInv` says that the state is `Sound`, or that one of the three faults has
happened (`Faulty`) and nothing moves any more. `Sound` joins six facts. `Kept`: a coroutine
that has not ended is at one index of one list, with its frame if it is in `events`, and in
`tasks` with its frame or robbed of it. `Asks`: an event is that of the coroutine in it and has
waited for `Timeout - left`, unless it went on after an error. `Stayed`: one that did asks for
nothing. `Answers`: an answer exists only for the coroutine that is resumed from `events`, and
equals what it asked for; without an answer its time is over, or it went on after an error.
`Loops`: what a loop looks at next lies before what it resumed, so that `SwapRemoveAt` moves
only what was looked at. None is inductive alone: that the right
coroutine gets the answer needs `Asks`, and that a removal does not bring an event
back under the loop needs `Loops`. The lemmas on the two removals (`SwapRemoved`,
`TaskRemoved`) say what is left of a list as a correspondence of indices, for a removal from
any place. `OnePlaceEach` (`KeptOnce`) and `AnswersAreOwn` (`OwnAnswer`) have no hypotheses.

For `Tasks`, the difficulty is the list. `Keeps(l, s, f)` says of sequences of
nodes `s` (from head to tail) and `f` (the free list) that every node is in one of them once
and that every link fits: a statement about each node on its own, which `AddFields`,
`RemoveFields`, `AddKeeps`, `RemoveKeeps`, `ReserveKeeps` and `ClearShape` carry
through the operations, with reuse and growth. `Order` is defined by a recursion
along the links; `ChainIs` shows that it finds exactly `s` (a first node at which they differ
cannot exist, by the least element of a set of numbers), so that `OrderIs` and
`LinkedIs` hold for lists of any length. On top of that `NodesOf` says that tasks
stand in the list in the order in which they were added, each with its number for its version
and with the handle that `Add` returned; `Known` that a deleter has nothing or one of those
handles; and `RoundOf` that the task that is resumed is in the list, that the noted next node
is the one behind it, and that every task which has yet to be resumed stands behind it.
`TaskInv` is inductive. `TasksTypes` (`TasksTypeOK`), `HandlesAlwaysFind` (`HandlesFind`),
`RoundsResumeOnce` (`ResumedOnce`) and `FramesAreKept` (`FramesKept`) follow for any
capacity, any number of tasks and of deleters under `Tidy`, `MaxTask < VersionMod`, for after
2^32 additions a version comes again and an old handle may find a new task, as the code has it.

Only model-checked: all liveness (the prover has no rule for fairness or
ENABLED in this version), so also the fair part of `ImplementsChannel` and every
`Drained`, `CallsReturn`, `Served` and `WaitEnds`. The theorems of induction over data cannot
be used either, but that a set of numbers has a least element can be (`NatMin`), which is how
`ChainIs` and `Chained` deal with recursive functions.

## 5. Not modelled, and why

* The UDP peer, the older clients, and the libuv and epoll servers: the
  first is next in the plan, the others play the same roles over other
  libraries.
* Of the KCP peer the clock (`Update`), the protocol of ikcp and the queue of datagrams.
* `CondTasks`, the schedulers of `xx_coro*.h`, `xx_combopool.h`, the other lists and
  pools.
* Serialization, HTTP, databases, lua bindings, utilities: data and glue without
  interaction, better served by unit tests.
* The kernel, the server, timers and asio itself are modelled from how the code
  uses them and marked external in the map.

## 6. Plan

1. `TcpPeer` with its channel, `PeerRequest`, `GatewayClient`: modelled and proved.
2. `ThreadPool`, `ToggleThreadPool`, `RingQueue`: modelled and proved. `ListDoubleLink`
   and `Tasks`: modelled and proved.
3. `Dict`, `DictMK`: modelled and proved.
4. `Logger`, `SharedWeak`, `EventTasks`: modelled and proved.
5. `UdpPeer` as a variant of `TcpPeer`, and a composition of `GatewayClient` with
   `PeerRequest`.
