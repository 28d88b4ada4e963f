# A TLA+ verification of uThreads

uThreads is an M:N user-level thread library in C++. User-level threads
(uThreads) are multiplexed on kernel threads (kThreads), which are grouped in
clusters. A poller thread waits in epoll and resumes the uThreads whose file
descriptors become ready. This directory holds TLA+ models of the library, the
TLC runs that check them on small instances, and proofs that TLAPS checks for
every instance.

The models describe the build the Makefile makes: `SCHEDULERNO` 2 (the default
in `Scheduler.h`), `-DNDEBUG` (assertions are not executed) and
`-DNPOLLNONBLOCKING` (only the poller thread polls).

## Inventory of the system

| Component | State | Operations | Interacts with | Hard behaviour |
|---|---|---|---|---|
| Scheduler_02 with `BlockingMPSCQueue` | `head`, `tail` and its tag bit, `next` of every node, `sem` | `schedule` (one uThread or a chain), `nonBlockingSwitch`, `blockingSwitch`, `bulkPush` | kThread, poller, everything that resumes | lock-free inserts with a gap, empty mark against post, stale tokens |
| kThread | `currentUT`, `mainUT`, `postSuspendFunc` | `defaultRun`, `switchContext`, `postSwitchFunc` | Scheduler, uThread | the old uThread is filed from the new one's stack |
| uThread | `state`, `jState`, `homekThread`, `joinMtx`, `joinWait`, `afterJoin` | `create`, `start`, `yield`, `suspend`, `resume`, `migrate`, `terminate`, `join`, `detach` | Scheduler, BlockingSync, uThreadCache | termination against join and detach |
| BlockingSync | blocking queues, `owner`, `counter` | Mutex, OwnerLock, ConditionVariable, Semaphore | uThread, kThread | release from the next stack, baton passing |
| IOHandler | `rut`, `wut`, `closing`, `opened`, `isBlockingOnRead`, `pollCache`, `sem` | `open`, `block`, `postSwitchFunc`, `unblock`, `close`, `poll`, `pollerFunc` | Scheduler, Connection, epoll | notification against block, close against everything |
| EpollIOHandler, Connection | the descriptor | `_Open`, `_Close`, `_Poll`; `accept`, `connect`, `recv`, `send`, `close` | IOHandler | edge-triggered events, retry on EAGAIN |
| Scheduler_01, 03, 04 | cluster queue; mutex and condition variable; non-intrusive MPSC queue | as Scheduler_02 | as Scheduler_02 | spurious wakeups, batch pops, node recycling |
| Intrusive containers | links | stack, queue, list | all of the above | pointer updates at the ends |
| uThreadCache, uThreadPool, Cluster | a stack and a count; idle count and task list; `ktVector`, `ktLast` | `push`, `pop`; `uThreadExecute`, `run`; `addNewkThread`, `assignkThread` | uThread, BlockingSync | check-then-act on counters |
| C wrapper, headers, assembly | none | forwarding, stack switch | | not modelled |

What must hold: no uThread is lost, run twice at a time, or queued twice; the
ready queue is FIFO and its memory stays well formed under any interleaving;
a kThread that sleeps while work is queued is woken; a queued uThread runs;
mutual exclusion and no lost wakeup in the synchronisation objects; a joiner
returns after the joined uThread ended; a uThread parked on a descriptor is
resumed by a notification or by a close. `PROJECT.json` lists the hazards with
the source line where each one bites.

## Modules

| Part of the system | Modules | Abstract specification |
|---|---|---|
| Scheduler_02, kThread loop, poller handshake | `Scheduler02`; proofs in `Scheduler02_proofs` | `ReadyQueue` |
| Mutex, OwnerLock, ConditionVariable, Semaphore | `BlockingSync`; proofs in `BlockingSync_mutex`, `BlockingSync_proofs` | |
| Connection, IOHandler, PollData, PollCache, EpollIOHandler | `IOHandler` | |
| `IOHandler::sem` between poller and kThreads | `PollerGate`, part of the three modules below | |
| Scheduler_01, Scheduler_03, Scheduler_04 | `Scheduler01`, `Scheduler03`, `Scheduler04`; proofs in `Scheduler03_proofs` | |
| create, start, terminate, join, detach, uThreadCache | `uThreadLife`; proofs in `uThreadLife_proofs` | |
| Cluster, kThread construction, migrate | `Cluster`; proofs in `Cluster_proofs` | |
| uThreadPool | `uThreadPool`; proofs in `uThreadPool_proofs` | |
| IntrusiveStack, IntrusiveQueue, IntrusiveList | `IntrusiveContainers` | `ContainerSpec` |

A module `MCx` is the instance of `x` for TLC, and `x.cfg` its configuration.
The modules rest on each other's promises. `BlockingSync` and `Cluster` take
the ready queue to be FIFO, which `Scheduler02` is shown to implement.
`uThreadLife` and `uThreadPool` take `acquire`, `wait`, `signal`, `P` and `V` to
be the steps that `BlockingSync` shows them to be. `IOHandler` gives every
uThread a kThread of its own, the placement with the most interleavings.

In some modules the program that uses the library is a choice of the initial
state (`ops` in `BlockingSync`, `conn` and `ops` in `IOHandler`); it never
changes afterwards. Where the code runs into undefined behaviour, a history
variable marks it (`raced` in `Cluster`, `stale` in `uThreadLife`), and
`mistaken` in `Scheduler01` marks a wake-up that the code takes for another; the
properties of these modules are about what happens up to that moment.

The definitions marked "Variant for mutation" are plausible mistakes in the
code; no specification uses them.

## Scheduler02

### Correspondence

One kThread `kt` owns the queue. `Peers` are other kThreads that resume
uThreads whose home is `kt`. `poller` is `IOHandler::ioKT`. The set `UT` holds
the uThreads whose `homekThread` is `kt`, and `parked` the ones that some
synchronisation object or PollData may resume; a new uThread starts there.

An action is one access to memory that threads share, together with the
private statements around it:

| Code | Actions |
|---|---|
| `BlockingMPSCQueue::insert` | `InsertBegin` (part of the caller's action), `InsertExchange`, `InsertLink` |
| `schedule`, `semaphore::post` | `SchedulePost`, after an insert that found the empty mark |
| `uThread::resume` | `Resume` |
| `pollerFunc`, `poll`, `prepareBulkPush`, `bulkPush` | `PollerTimedwait`, `PollerRepost`, `PollerBulkPush`, `PollerNothing` |
| `BlockingMPSCQueue::pop` | `PopStart`, `PopMarkEmpty`, `PopRemoveStub`, `PopTake`, `PopNull` |
| `defaultRun`, `blockingSwitch` | `BlockingSwitch`, `SemWait`, `BlockingSwitchReturn` |
| `yield`, `suspend`, `terminate`, `switchContext`, `nonBlockingSwitch` | `Yield`, `Suspend`, `Terminate` |
| `postSwitchFunc` | `PostSwitch` |

`tail` is a node with a tag bit. `list` is an auxiliary variable: the nodes
from `head` to `tail` in the order of the exchanges; no guard reads it.
A spin loop (`while(head->next == nullptr)`) is an action that waits for its
condition. `sem_post` fails at `SEM_VALUE_MAX` and is retried, so
`SchedulePost` waits there. The memory model is sequentially consistent, which
is what x86 gives an exchange and the volatile stores around it.

### Runs

| Run | Instance | Shows |
|---|---|---|
| `scheduler02` | 2 uThreads, 1 peer, `MaxBulk` 2, `SEM_VALUE_MAX` 2 | `NoLostWakeup`, `WellLinked`, `ExactlyOnePlace`, the inductive invariant `IInv` with `TypeOK` and `PollerGate` among its conjuncts; the scheduler implements `ReadyQueue`; `QueuedRuns`: every queued uThread runs unless the semaphore is saturated |
| `scheduler02_saturation` | the same | `ScheduleReturns` is violated: see below |

Two uThreads and three inserting threads (a peer, the poller, `kt` itself) are
enough for an unfinished insert of one uThread behind which another thread
inserts the second, for the re-insertion of the stub in between, and for a
chain of two; the safety properties are proved for any number. Deadlock is not
checked, because the system does stop when `kt` spins at `SEM_VALUE_MAX` with
every other thread behind it; `QueuedRuns` says that this is the only way to
stop.

**Fairness.** Kernel threads are scheduled preemptively, so each step of
`insert`, `pop` and the switch code is weakly fair. A running uThread yields,
suspends or terminates at some point: the library is cooperative, and a
uThread that never does so stops its kThread by design. `kt`'s spin on
`IOHandler::sem` is strongly fair, because the poller holds the token only
between two adjacent statements (`timedwait`, `post`). Nothing is assumed of
the poller's polls or of resumes.

**Finding.** `nonBlockingSwitch` takes a uThread from the queue without taking
the token that was posted for it. A kThread that always has something to run
never reaches `blockingSwitch`, the only place where it takes tokens, so they
add up. At `SEM_VALUE_MAX` the kThread spins in its own `sem.post()`
(`ScheduleReturns`), and only that kThread could take a token. The model shows
it with 2 tokens; the real limit is the platform's (2^31 - 1 on Linux).

### Proofs

`Scheduler02_proofs` proves `Spec => []IInv` for every set of uThreads and
peers, every bulk size and every positive `SEM_VALUE_MAX`, from the assumptions
named in `Scheduler02` (distinct constants, `SemValueMaxPositive`,
`MaxBulkNat`), and from it `TypeOK`, `WellLinked`, `ExactlyOnePlace`,
`NoLostWakeup` and `PollerGate`.

None of these is inductive alone. `IInv` adds:

- `ChainInv`: an insert is of uThreads, or of the stub by `kt`;
- `KtInv`: what `kt` knows at each point of `pop` and of the switch functions
  (for instance that `head` is the stub and `tail` is not while it waits for
  `stub.next`);
- `WakeInv`: from the moment `pop` fails to the moment `kt` sleeps, the empty
  mark is still there, or a token exists, or some thread owes a post;
- `InsertInv`: each unfinished insert has a gap of its own, and chains still
  private to a thread are well formed;
- `EmptyMark`: the mark means that the stub is alone in the queue.

The first part of the module is about control and semaphores, with one lemma
per conjunct. The second has one lemma per kind of write to the queue
(`QueueBegin`, `QueueExchange`, `QueueLink`, `QueueDrop`), uses them for every
action in `NextQInv`, and accounts for the place of every uThread in
`NextExactlyOnePlace`.

Only model-checked: the liveness property and the refinement of `ReadyQueue`.
Liveness under fairness is beyond this prover.

## BlockingSync

### Correspondence

The module has one Mutex `m` with a ConditionVariable, one Semaphore (with its
Mutex `sm`) and one OwnerLock `ol`. What runs is a kThread: `pc` says where it
is, `mx` on which mutex, `ret` where `acquire` or `release` returns to. What a
suspended uThread does when it runs again is in `cont`. The ready queue of a
kThread is a FIFO queue, the promise of `ReadyQueue`.

| Code | Actions |
|---|---|
| `start`, `yield`, `defaultRun` and the end of a context switch | `Start`, `Yield`, `Dispatch` |
| `lock.lock()` | `Lock` |
| `internalAcquire`, `suspend(std::mutex&)` | `AcquireBody` |
| `postSwitchFunc<std::mutex>` | `LockPostSwitch` |
| `internalRelease`, `signal(lock, owner)` | `ReleaseBody`, then `HandOver` for the resume after the unlock |
| `Mutex::acquire`, `release` | `MutexAcquire`, `MutexRelease` |
| `ConditionVariable::wait`, `postSwitchFunc<Mutex>` | `ConditionWait`, `WaitPostSwitch`, a whole release, and later a whole acquire |
| `ConditionVariable::signal`, `signalAll` | `ConditionSignal`, `Signalled`; `ConditionSignalAll`, `SignalAllStep` |
| `Semaphore::P`, `V` | `P`, `InternalP`, `SemPostSwitch`; `V`, `VBody`, `Signalled` |
| `OwnerLock::acquire`, `release` | `OwnerAcquire`, `OwnerAcquired`; `OwnerRelease`, `OwnerReleaseBody`, `OwnerReturn`, `OwnerReturned` |

Statements under the std::mutex `lock` form one action; what the code does after
it unlocks is an action of its own. `yield` with an empty ready queue leaves the
state `YIELD` behind, as the code does. One simplification: the code takes the
next uThread from the ready queue before it runs the post-switch function, the
model after it. Only the kThread itself takes from its queue, which is FIFO, so
the same uThread is next in both cases.

### Runs

| Run | Instance | Shows |
|---|---|---|
| `blockingsync` | 3 uThreads, 2 kThreads; programs: Mutex and ConditionVariable, Semaphore (`MaxCount` 2), OwnerLock (`MaxDepth` 2) | `MutualExclusion`, `WaitsInOnePlace`, `HandOverTarget`, `NoWaiterOnFreeMutex`, `NoWaiterWithUnits`, `LockGranted`, and the inductive invariant `IInv`, with `TypeOK` and `OwnerCount` among its conjuncts |
| `blockingsync_result` | the OwnerLock program | `OwnerReleaseResult` is violated |

The objects share no state but the uThreads, so a program uses one of them.
Two uThreads with the same home compete for its kThread while the third runs on
the second one, which gives every interleaving of a release with a switch to
wait. Deadlock is not checked: all uThreads may wait for a signal or for a unit
that nobody is left to give. That nobody waits for a free Mutex is
`NoWaiterOnFreeMutex`, and that waiting for one ends is `LockGranted`.

**Fairness.** The steps of the library are weakly fair, as kernel threads are
preemptive. `Yield` is strongly fair for each kThread and `MutexRelease` for
each uThread: these are assumptions about the program that uses the library,
which is cooperative. Without the first, a uThread that never gives its kThread
away keeps the new owner from running.

**Finding.** `OwnerLock::release` returns `counter` after it has handed the lock
over. When the next owner runs on another kThread it may already have
incremented it, and a complete release returns 1. The comment promises 0.

### Proofs

`BlockingSync_mutex` and `BlockingSync_proofs` prove `Spec => []IInv` for any
sets of uThreads and kThreads, any homes and any programs, from
`HomeAssumption`, `ProgramsAssumption` and `BoundAssumption`, and from it
`MutualExclusion`, `WaitsInOnePlace`, `HandOverTarget`, `NoWaiterOnFreeMutex`,
`NoWaiterWithUnits` and `OwnerCount`.

Mutual exclusion alone says nothing of the uThread that has the mutex and does
not run yet, or of the kThread that releases it for another uThread. `IInv` adds:

- `Registers`: what a kThread's `mx`, `ret` and `lock` are at each of its places;
- `Ownership`: whoever is in a section, leaves it, or is ready to be in it, is
  the owner;
- `Counts`: the OwnerLock is given away only with its counter at 0;
- `Current`: a kThread's current uThread runs, except between `suspend` and the
  end of the post-switch function, when it is in no queue yet;
- `Waiting`, `Ready`: what a uThread goes on with tells the queue it is in, once;
- `Resumes`: a uThread taken out of a queue is resumed by one kThread, and the
  uThread that a mutex was handed to does nothing until then;
- `Somewhere`: a uThread that waits is in a queue or on its way to or from one.

Each action has a lemma. Most actions change the registers of one kThread and one
part of the rest, so lemmas such as `RegistersKept`, `ResumesKept` and
`CurrentKept` carry the other conjuncts over (`BlockingSync_mutex` has these and
the Mutex, `BlockingSync_proofs` the other objects). `LockGranted` is only
model-checked.

## IOHandler

One action is one access to a PollData, to the cache or to the kernel, with the
private statements around it. A descriptor is named by its connection.

| Code | Actions |
|---|---|
| `Connection` constructors, `socket`, `PollCache::getPollData` | `Create`, `InitPollData` |
| `recv` and the like, `send` and the like, `accept`, `connect` | `Read`, `Write`, `Accept`, `Connect`: the first try and every retry |
| `IOHandler::wait`, `open`, `_Open` | `Open`, `Add` |
| `IOHandler::block`, `postSwitchFunc` | `Load`, `Consume`, `PostSwitch`; then `PostLoad`, `PostConsume`, `PostCas` of the callback; `Run` |
| `unblock`, `PollReady` | `Unblock`, `UnblockLoad`, `UnblockCas` |
| `poll`, `_Poll`, the bulk push | `EpollWait`, `NextEvent`, `BulkPush` |
| `IOHandler::close`, `_Close`, `PollData::reset` | `CloseUnblock`, `CloseCas`, `CloseDel`, `CloseReset`, `CloseFd` |
| the kernel's sockets | `Arrive`, `Drain` |

The kernel is external: a socket becomes readable or writable at any time, a
system call drains it, and epoll reports a descriptor once per edge. An event
that was put in the array of `epoll_wait` before its descriptor was closed is
still delivered afterwards, to whatever connection has the PollData by then.

`iohandler` has three programs over two connections and two PollData: a client
that creates, connects, writes and closes again and again, so that PollData and
descriptor are reused; a listener with the reader of a connection it accepts;
and a reader whose connection another uThread closes. It shows
`NoLostNotification`, `OnePlace`, `ReadyRuns`, and `Consistent`, which is
`TypeOK`, `PollDataOwnedOnce` and `BulkDrained`. `NoLostNotification`, `BulkDrained` and `ReadyRuns` are stated for
programs in which no two uThreads use one connection, because the code does not
keep them for a concurrent `close` (see Deviations). Fairness: the poller and
every uThread inside a call go on, and a waiting uThread gets its kThread back.
A program may stop calling, so deadlock is not checked. Nothing is proved of this
module.

## PollerGate and the other schedulers

`PollerGate` is the token protocol on `IOHandler::sem`: `blockingSwitch` posts
before it looks for work and takes one back with `trywait` afterwards, and the
poller takes a token and posts it again before it polls. `Tokens(n)` says that
the tokens are exact; `GateExact` states it in the modules that extend it.

| Run | Instance | Shows |
|---|---|---|
| `scheduler01` | 2 kThreads, 3 uThreads | `Consistent` (`TypeOK`, `GateExact`, `SizeExact`, `OnePlace`), `StackKept` (the stack of sleeping kThreads is exact unless a wake-up was mistaken), `NoLostWakeup` (one notification at a time is passed on by whoever leaves work behind), `QueuedRuns`; no deadlock |
| `scheduler03` | 4 uThreads, batches of up to 3 | `Consistent` (`TypeOK`, `GateExact`, `OnePlace`, `Registers`), `NoLostWakeup`, `QueuedRuns`; no deadlock |
| `scheduler04` | 2 uThreads, 2 peers, 4 queue nodes, `MaxSem` 2 | `Consistent` (`TypeOK`, `NodeOwnedOnce`, `NodeGivenBack`), `NoLostWakeup`, and as an action property that the queue is FIFO (`QueueFifo`) |

`Scheduler01` has the shared queue, `__push`, `__popMany` with `__removeMany`,
`ktStack` with `cv_flag`, the private queues and both switch functions. A wait on
a condition variable may end without a notify at any time, whatever happened
before. `cv_flag` is all that keeps a kThread from going on `ktStack` twice, so
the stack is modelled by its links, and a program that follows a null link stops.
`mistaken` records that a kThread woke up without a notify while its flag was
still set from an earlier one. `StackKept` says that nothing else breaks the
stack; `Consistent`, that not even this loses a uThread or doubles one.
`numkt` is counted up by `addNewkThread` after the kernel thread has started, so
the shares of `__removeMany` are those of one kThread at first and of two later:
three uThreads are enough for a batch of more than one and for a share that
leaves some behind. `Scheduler03` shows a peer that holds the mutex, so that
`try_lock` fails. In both, what the mutex protects is touched only under it, so
a critical section is one action. `Scheduler04` has one action per shared
access, like `Scheduler02`, and its nodes wander: two uThreads, the stub and the
node of the first `pop` are enough for each to be owned by another uThread
later. It may stop at `Scheduler_04.h:174` (see Deviations), so deadlock is not
checked and no liveness is stated. Its model is symmetric in the uThreads and in
the peers.

Fairness is that of `Scheduler02`: threads run, uThreads give way. `Scheduler03`
also has strong fairness for `kt`'s steps under the mutex, which peers hold for a
few statements only, and for a `nonBlockingSwitch` that meets a free mutex.

`Scheduler03_proofs` proves `Consistent` and `NoLostWakeup` of `Scheduler03` for any
set of uThreads and any bound `Bulk`, from `NamesAssumption`, `UTAssumption` and
`BulkAssumption`. Together they are inductive: `OnePlace` needs `Registers` to know
that the uThread a switch has found is not the one that leaves. Lemmas say what
`Append`, `Tail` and the concatenation with a batch do to the elements of a queue.
`QueuedRuns` and everything about `Scheduler01` and `Scheduler04` are only
model-checked.

## uThreadLife

`life` says what the memory of a uThread object is: free, live, or in the cache
with the members its former life left. Creators create joinable and detached
uThreads, join, detach, and let the pointer go. `detach` works on the object after
it has set `DETACHED`, when the uThread may end and its memory be freed or handed
out again: `stale` says that one of these has happened, and the model ends there.

| Code | Actions |
|---|---|
| `create`, the constructor, `uThreadCache::pop`, `start` | `CreateNew`, `CreateCached` |
| `terminate`, `join`, `waitOrSignal` | `Terminate`, `Join`, `Acquire`, `WaitOrSignal`, `ResumeWaiter`, `Reacquire`, `Release`, `V`, `P` |
| `detach` | `Detach`, `DetachAcquire`, `DetachTest`, `DetachResume`, `DetachRelease` |
| `destory`, `uThreadCache::push`, `reset` | `Destory` |

`uthreadlife` has two creators, three uThread objects and a cache of two, so that
the cache fills and a joined object is the next one created while the joiner may
still be at it. It shows `TouchesLive`, `JoinAfterEnd`, `JoinCompletes`, and
`Consistent`, which is `TypeOK`, `CleanRecycle`, `Lives`, `Handles` and
`Meetings`, all of them until a `detach` comes too late. A `detach` that meets an
object in the cache is in time: its memory is still a uThread's, and it leaves
the mutex free (`CleanRecycle`). Started uThreads end and started calls go on; a
creator may stop, so deadlock is not checked. Creators and uThreads are
interchangeable, so `JoinCompletes` is stated for one of each.

`uThreadLife_proofs` proves `Consistent`, `TouchesLive` and the action property
`JoinAfterEnd` for any sets of uThread objects and creators and any cache size,
from `SetsAssumption` and `CacheAssumption`. The invariant is `TypeOK`, `Lives`
(the cache holds, once each, the objects it kept), `Handles` (no two creators have
one pointer, and `jState` says what the creator does with it) and `Meetings`: `Meeting(p, u)` lists where a creator and the uThread it
points to can be together, and `Solo(u)` where a uThread is that nobody points
to. The last one is what makes it inductive: `destory` resets neither the mutex nor
the semaphore, so that a recycled object is clean has to follow from how every
join and detach ended. A step concerns one uThread and the creator that
has its pointer; lemmas `Local`, `PairStep` and `StepAt` reduce `Handles` and
`Meetings` to these two, and then there is one lemma for each action.
`JoinCompletes` is only model-checked.

## uThreadPool

`uThreadExecute` reads `idleuThreads` in one action (`Execute`) and queues the task
in another (`Push`), or creates a worker and counts it in two more (`Create`,
`Count`); `run` finishes a task, waits, and takes the next one. `uthreadpool` has
four tasks and four workers, so that tasks queue behind busy workers and are
handed over while others arrive: `Consistent` (`TypeOK`, in which `idleuThreads` is
exact and `totalnumuThreads` lags by the workers still to be counted, `Workers` and
`TaskInOnePlace`), `NoStrandedTask`, and `TaskRuns` if tasks
return. The run ends when all tasks are done, so deadlock is not checked.

`uThreadPool_proofs` proves `Consistent` and `NoStrandedTask` for any sets of tasks
and workers, from `PoolAssumption` (workers enough for all tasks, as the code
creates one when none is idle). The two together are inductive: that every signal
is worth a task needs the sleeping workers to be exactly the ones on `cv`, once
each (`Workers`). `TaskRuns` is only model-checked.

## Cluster

| Code | Actions |
|---|---|
| `kThread::kThread`, `initialSynchronization` | `Spawn`, `AddBegin`, `AddEnd`, `Synchronize` |
| `kThread::run`, `defaultRun` | `RunInit`, `Dispatch` |
| `Cluster::addNewkThread` | `AddBegin`, `AddEnd`: `emplace_back` has a duration |
| `Cluster::assignkThread` | `Load`, `Exchange`, `Index` |
| `start`, `resume`, `suspend`, `migrate`, `terminate` with `reset` | `Start`, `Schedule`, `Suspend`, `Migrate`, `Terminate` |

kThreads are constructed at any time. `assignkThread` reads `ktVector` without the
mutex, so a read during `emplace_back` may give any element, and a size from
before, from after, or from the ends of two vectors (`Elements`, `Sizes`,
`Garbage`). `raced` records that a read has met `emplace_back`; the properties
hold until then. What remains before it is a vector that grows between the read
of its size, the exchange and the use of the index, which another thread may
have computed.

`cluster` (3 kThreads, 2 uThreads, 2 clusters) shows `IndexInRange`,
`RunsInItsCluster`, the inductive invariant `IInv`, which implies
`AssignsKThread`, and `ReadyRuns` under fair threads, and that there is no deadlock. Three kThreads give a cluster
with two of them, where the index wraps, while the other has one. The garbage size
of the run is 5, outside every vector.

`Cluster_proofs` proves `Spec => []IInv` for any sets of clusters, kThreads and
uThreads, from `ClusterAssumption` alone, and from it `IndexInRange`,
`AssignsKThread` and `RunsInItsCluster`. The invariant adds what these need of
each other: a kThread in `ktVector` belongs to the cluster (`Members`), the
vector is not empty while a uThread is assigned a kThread of it and the indices
on their way are inside (`Indices`), a
recycled uThread has no home and an assigned one has it in its cluster
(`Homes`), and a queue holds exactly once each ready uThread whose home it is
(`Places`). There is one step for each action; lemmas say what `Append` and
`Tail` do to the elements of a queue. `ReadyRuns` is only model-checked.

## IntrusiveContainers

The operations are functions on the memory (`next`, `prev`, `head`, `tail`), and
the loops of `pop(count)` and `remove(first, count)` are a walk along the links.
A caller holds one run of elements at a time. `containers` (four elements, two
containers of each kind, counts up to 3) shows that following the links gives
the sequences of `ContainerSpec` (`Implements`) and that no stale link is left
(`WellLinked`). With four elements a run of two or three is cut from the front,
the middle or the end. Callers follow the assertions of the header: a run of
several elements that came from a stack or queue does not go into a list. The
walk is recursive, so nothing is proved here.

## Findings

The two violation runs, `scheduler02_saturation` and `blockingsync_result`, are
described with their modules.

## Deviations

Reading the code for the models showed further places where it does not do what
a comment says. The models have the code's behaviour where the runs' programs
reach it; the properties are stated for programs that avoid these cases, and
the hazards in `PROJECT.json` refer to this list.

- `IOHandler.cpp:74`. PollData has one isBlockingOnRead for both directions,
  and block() writes it before the switch while postSwitchFunc reads it after.
  A reader and a writer of one connection on two kThreads overwrite each
  other's flag, and the writer's post-switch callback parks it in rut. The
  comment at IOHandler.cpp:72-73 says "This does not need synchronization,
  since only a single thread will access it before and after blocking", while
  IOHandler.h:45-46 expects "maximum two other uThreads (one for read, one for
  write)".
- `IOHandler.cpp:110`. close() is to wake the uThreads parked on the
  connection. The stray `;` ends the if of line 110, and line 111 unblocks the
  read side a second time, so a parked writer is dropped by reset(). A uThread
  whose post-switch callback finds closing set returns at line 86 without being
  stored or resumed, and a uThread that was unblocked is only collected by
  prepareBulkPush until some poll pushes it. The comment at IOHandler.cpp:107
  says "unblock pd if blocked".
- `IOHandler.cpp:122`. The flag that keeps a second close out is cleared by
  pd.reset() at the end of the first close. A second closer that reaches the
  compare-exchange of line 115 after the reset wins it, closes the descriptor
  again and pushes the PollData into the cache twice; two connections then
  share it. The comment at IOHandler.cpp:114 says "another thread is already
  closing this fd".
- `Network.cpp:114`. connect() waits once for writability and takes SO_ERROR 0
  to mean connected. A notification of the descriptor that owned the recycled
  PollData before ends the wait early, while the connection is still in
  progress, and connect() returns 0. The comment at IOHandler.h:130-132 says
  "the assumption is that a stale notification can only cause an unnecessary
  unblock of the new uThread".
- `Scheduler_01.h:244`. cv_flag is cleared before the loop and never inside it.
  A kThread that was notified, found the queue empty and put itself back keeps
  cv_flag true; a spurious wake-up of the condition variable then makes it push
  itself on ktStack a second time, or leave without removing itself. From then
  on a null link may be followed, and of three kThreads one may sleep while work
  is queued and no notify is on its way. The comment at Scheduler_01.h:232-233 says "Set the cv_flag so we can
  identify spurious wake ups from notifies", and the one at Scheduler_01.h:238-242 says
  "cv_flag can be true if the kThread were unblocked by another thread but by
  the time it acquires the mutex the queue is empty again. If so the kThread
  has been removed from the stack, thus put it back on the stack".
- `Scheduler_03.h:59`. __tryPop gives up when mtx is taken, for instance by a
  scheduling thread, and nonBlockingSwitch then lets the yielding uThread
  continue although uThreads wait in the run queue. uThread.h:267-268 says of
  yield "If there is no other uThreads available to switch to, the current
  uThread continues execution".
- `Scheduler_04.h:174`. blockingSwitch pops once after sem.wait(). A token left
  by a uThread that nonBlockingSwitch already popped ends the wait with an
  empty queue, pop returns nullptr and node->getState() is called on it.
  Scheduler_04.h:189 asserts "assert(ut != nullptr)" of the result;
  Scheduler_02 retries in this place.
- `uThread.cpp:140`. terminate() reads jState before it enters the rendezvous,
  and detach() writes it and then looks for a waiter. When detach() runs
  between the read and the wait it finds joinWait empty, and the terminating
  uThread waits for a joiner that never comes. uThread.h:275-276 says of
  terminate "By calling this function uThread is being terminated and uThread
  object is either destroyed or put back into the cache".
- `uThread.cpp:168`. ConditionVariable::signal releases the mutex it is given,
  and detach() releases joinMtx once more after it, when the waiter may hold
  it. BlockingSync.h:193 asserts "assert(owner == bq.getCurrentUThread());
  //Attempt to release lock by non-owner".
- `uThread.cpp:164`. detach() signals whoever waits in joinWait. When that is a
  joiner, join() returns true while the uThread still runs. uThread.h:296 says
  of join "Wait for uThread to finish execution and exit".
- `uThread.cpp:163`. detach() sets DETACHED first and then locks joinMtx, reads
  joinWait and unlocks. The uThread may see DETACHED, end and be destroyed in
  between, and detach() uses a freed object; or the object comes out of the cache
  for another creator, whose joiner, waiting in joinWait, detach() then wakes
  while the new uThread still runs. uThread.h:302 says of detach "Detach a
  joinable thread".
- `kThread.cpp:74`. The kernel thread of a kThread is detached and loops for
  ever, so a kThread object that goes out of scope is destroyed under it, and
  stays in ktVector. The programs of the repository keep theirs to the end of
  main().
- `IntrusiveContainers.h:263`. IntrusiveList::removeAll hands out all elements
  and leaves the anchor linked to them, so the list is not empty afterwards;
  transferAllFrom resets the anchor in this place. Nothing calls it.
- `uThreadCache.h:74`. The cache is an IntrusiveStack, so pop returns the
  uThread that was pushed last. The comment at uThreadCache.h:66 says "pop a
  uThread from the list in FIFO order and return it".
- `Cluster.cpp:61`. Two uThreads that load ktLast before either exchanges it
  store the same next index, so the same kThread is handed out twice in a row.
  The comment at Cluster.h:81-83 says "last kThread assigned to a uThread, for
  now kThread assignment is round robin manner".
- `Cluster.cpp:63`. assignkThread reads ktVector without the mutex that
  addNewkThread holds while emplace_back may move the vector, a data race whose
  outcome may be anything: the uThread may get no kThread of its cluster. The
  comment at Cluster.h:119 says "Assign a kThread to the requesting uThread".
- `kThread.cpp:90`. The constructor detaches threadSelf at line 66 before
  initialSynchronization() reads threadSelf.get_id(), which then is the id of
  no thread. kThread.h:95 says of threadID "Holds the id of the underlying
  kernel thread" and kThread.h:205 of getID "returns the kernel thread ID".
- `uThreadPool.cpp:35`. idleuThreads is read without the pool's mutex and
  decremented only when a worker takes a task, so two submitters count the same
  idle worker and both queue their task. The second task waits behind the
  first, whatever the first does, where a new uThread was due. The comments at
  uThreadPool.cpp:34 and :45 say "check if there is idle threads" and "if there
  are uThreads waiting wake one up to continue".

Where each of them stands in the models: a kThread of `Scheduler04` that pops
nothing stops at the location `crash`; `Scheduler01` has every wake-up without a
notification, and `mistaken` for the ones that the flag does not tell apart;
`Scheduler03`'s yield continues when the mutex is taken; `IOHandler` has
`isBlockingOnRead` and all steps of `close` as they are, and its programs have
no reader beside a writer and no two closers; `uThreadLife` has `detach` at any
time, and ends (`stale`) when it comes too late; `Cluster` has two uThreads between
load and exchange, and any outcome of a read that meets the moving vector
(`raced`); `uThreadPool` reads `idleuThreads` without the
mutex.

## Not modelled

- `Stack.S` and the C wrapper, headers of types and macros: no state of their
  own. The stack switch is part of the action that switches.
- `Scheduler_01::__tryPop`, `IntrusiveList::removeAll`: nothing calls them.
- `~kThread`: what the detached kernel thread does with a destroyed object is
  undefined (see Deviations).
- The non-blocking poll of `IOHandler`: compiled out.
- `bind`, `listen`, `getsockopt` and the like of `Connection`: they forward to
  the kernel and change no state of the library.
- Cluster, kThread and uThread ids and counters that no decision depends on.
- The memory model: the models are sequentially consistent.
- Liveness and the two refinements are model-checked, not proved: liveness under
  fairness is beyond the prover.
