# VIO: verification of the coroutine runtime

VIO is a C++23 coroutine runtime: eager single-await tasks, cancellation, per-core shards with
bounded mailboxes, asynchronous mutexes, semaphores and channels, blocking and compute executors,
timers, and a backend contract with five implementations (virtual, epoll, io_uring, kqueue, IOCP).
This directory holds TLA+ models of it, the TLC instances that check them, and TLAPS proofs.

`PROJECT.json` is the index: components, runs, the lines each definition models, mutants (a
plausible bug for every checked property, which the run must then report), hazards and theorems.

## 1. The system

| Part | State | Operations | What is hard |
|------|-------|------------|--------------|
| backend contract, `virtual_backend`, `native_handle_registry` | handle registry with generations, pending vector, completion queue, active ids, stop flag | register, submit, cancel, close, readiness, drain, wake, shutdown | reuse of handle values and operation ids; results decided in one call and delivered in another |
| epoll and kqueue backends | a `virtual_backend` (`fallback_`) and the kernel's interest list | the same, each a pair of calls, and poll | one of the two calls fails; events of an old registration arrive late; a poll breaks off |
| io_uring backend | submission queue, operations in the kernel, cancel SQEs, registered buffers and files, completion queue | the same, poll, registration | cancel, close and completion race in the kernel; `io_uring_enter` fails or takes part of a batch; ids are reused |
| IOCP backend | associations with key generations, operation storages, the port | the same, native submission, poll | slots and generations are reused while packets are in flight; storage the OS still writes to |
| shard, mailbox, wakeup, loop budget | two bounded queues, wakeup counter, stop flag, loop thread, budget | submit, submit_system, request_stop, start, join, drain, run_one_loop_iteration | a stop or a park racing a submission; an invalid budget |
| task | frame, continuation record shared by a task and its awaiter, result | create, await, finish, publish, resume, destroy | completion racing the install; destruction of an awaiter whose resumption is queued |
| cancellation | callback list, first reason | request, register, unregister | a callback unregistered while it is being called; callbacks that call back in |
| `when_any`, `async_scope` | winner, observers, parent; children and errors | publish, install, join, destroy; spawn, join, stop | losers that finish late; a winner published during the install; failures seen before all ended |
| `async_mutex`, `async_semaphore` | owner or permits, FIFO of waiters, reservations | lock, unlock, acquire, release, destroy | hand-over to a waiter that is being destroyed; destruction of the primitive under waiters; a saturated counter |
| channel | buffer, rendezvous slot, counts of waiting callers | send, receive, close | a slot shared by several hand-overs |
| blocking executor | bounded queue, workers, shutdown and join flags | submit, shutdown, worker loop | lost wakeups; several shutdowns at once; a shutdown from the executor's own work |
| compute executor | bounded queue, reserved slots, capacity waiters | submit, reserve, release, submit_reserved, run, shutdown | a limit shared by queued and reserved work; reservations that outlive a shutdown |
| file | operation shared by a coroutine and a worker; length of the file | the async operations, close, truncate, allocate | completion on another thread; a compare and a resize in two critical sections |
| timers | binary heap with an index per entry, owner ids | add, cancel, pop_ready, move | order and index after an erasure in the middle; handles after a move |
| trampoline, `scheduler`, `test_scheduler` | draining flag and deferred queue, current scheduler, ready queues | schedule, run_one, a continuation's return or exception | bodies that schedule, drive a scheduler or throw inside one another |
| sockets | operation queue, iovec plan; connections and descriptors (kernel) | enqueue, pop, read_some, write_some, start_connect, finish_connect, accept_one | requests cut at two limits, short counts; descriptor 0; an answer taken for another |
| runtime, metrics, event, clock, errors, `when_all`, deadline | | | section 8 |

How they interact. A coroutine suspends on an awaitable (a task, a lock, a permit, a file
operation); whoever completes it calls `schedule_system` of the coroutine's scheduler, normally a
shard, which queues one resumption. `when_any` and `async_scope` are made of tasks. File operations
run on a blocking executor and resume their coroutines through the system lane of a shard, which is
bounded. The readiness backends, and io_uring without a ring, own a `virtual_backend` and forward to it.
All backends promise the same thing of an operation id.

The properties that make it correct:

- every accepted operation, message or piece of work has exactly one outcome, and gets it;
- ids, tokens, keys, handles and timers that were reused never stand for their predecessors;
- a suspended coroutine is resumed once, or destroyed, and never reached after its destruction;
- locks, permits, slots and reservations are neither lost nor doubled, whatever is destroyed when;
- stop and shutdown end, and end only after what they promise to wait for.

## 2. Plan

Every component becomes one module whose actions are the component's operations, at the granularity
of its critical sections where threads race, of whole calls where the component is confined to its
shard. Abstract specifications: `OperationContract` for the backends, `TimerService` for the heap.
Modules that are proved about use no recursive operator.

Order, the most important behaviour first: contract and virtual backend; shard; cancellation; mutex
and semaphore; task and `when_any`; channel and scope; executors; timer heap; readiness backends;
io_uring; IOCP; files; files composed with the executor and a shard; trampoline; sockets; io_uring
without a ring. All of these are done. What could still be added:

1. a proof that `TimerHeap` implements `TimerService`, along the lines of the induction in
   `Parts_proofs` (section 7);
2. `AsyncMutex` or `Task` composed with `Shard` in place of the unbounded system lane, as
   `FileRuntime` does for files;
3. destruction of the blocking executor by its own work.

## 3. Modules

State variables carry the members' names; where a variable stands for several, its comment says so.
A `\* history:` variable is not in the code and is read by properties only. A `\* bound:` constant
limits a counter that the code does not limit. Definitions named `X_Y` are mutants of `X` and are
used by nothing.

| Module | Models | Granularity and abstraction |
|--------|--------|-----------------------------|
| `OperationContract` | what `io_backend` promises of an operation id: free, then active, then holding the one terminal result chosen for it, then free again when that result is delivered | abstract; one transition per id |
| `VirtualBackend` | `virtual_backend`, `native_handle_registry` | one action per call; an operation is its id, token and shape (kind and operation), not its buffers |
| `Readiness` | what `epoll_backend` and `kqueue_backend` share: the calls on `fallback_`, the cookie of a registration, poll event by event | the batch a poll fetched is state, so other code sees it only between events it completes |
| `Epoll`, `Kqueue` | registration, closing and failures of each, the kernel's interest list | epoll: one entry per descriptor, kept by a duplicate, and a wake that stays readable until it is read; kqueue: two filters with failures between them, and a wake that is cleared when it is fetched |
| `IoUring` | `io_uring_backend` in kernel submission mode, and the ring | one action per call; a poll is its submission half and its completion half; the kernel finishes and acknowledges at any time |
| `IoUringFallback` | `io_uring_backend` without a ring: its bounded queue and completions over a `virtual_backend` | one action per call, each with the calls of `fallback_` it makes |
| `Iocp` | `iocp_backend` and the completion port | one action per call; the OS posts packets at any time |
| `Shard` | `shard`, `mailbox`, `bounded_queue`, `backend_wakeup`, the task budget of `loop_budget` | one step per critical section; the lifecycle mutex, held over several, is a variable |
| `Task` | `task<T>`: a chain of coroutines, each awaiting the next | `final_suspend` is publication and scheduling; the resumption is queued |
| `WhenAny` | `when_any` over K children | publication, cancellation and scheduling are steps of their own; awaiting an observer is one step |
| `AsyncScope` | `async_scope` | one action per call; children finish by themselves |
| `Cancellation` | source, token and registration, on several threads | one step per critical section; a stack of running callbacks per thread; a callback may throw |
| `AsyncMutex`, `AsyncSemaphore` | both primitives and their operations | one action per call (shard-confined); resumptions are queued |
| `BlockingExecutor` | submit, shutdown, `join_workers`, `worker_loop` | one step per critical section, notification and join; spurious wakeups |
| `File` | the hand-over of an operation between coroutine and worker; `close`, `truncate`, `allocate` | one step per critical section; the file is its length and what the stream holds back |
| `FileRuntime` | `File` composed with `BlockingExecutor` and the system lane of a shard: the work of an operation is the work a worker takes, the thread of the shard is one of the callers | the steps of both; a refused resumption ends the process |
| `ComputeExecutor` | `compute_executor` | one action per critical section |
| `Channel` | send, receive, close | one action per call |
| `Trampoline` | `trampoline`, `current_scheduler`, `default_scheduler`, `test_scheduler`, schedulers that invoke inline | one thread, a stack of the bodies being executed; one step per call, return or exception |
| `SocketStream` | `socket_operation_queue`, `build_iovec_chain`, `read_some`, `write_some` and a kernel buffer | one action per call; a byte is its number in the stream, a plan the positions it covers |
| `SocketSetup` | `start_connect`, `finish_connect`, `accept_one`, connections and the descriptor table | one step per system call of `accept_one`; errno values by what they lead to |
| `TimerService` | a set of timers and the owner and handle each answers to; what a call is given and what it reports | abstract |
| `TimerHeap` | `timer_heap`, its loops as bounded numbers of rounds; the last call is recorded | one action per call |
| `Positions` | the subsequences of a sequence that keep its order, used for erasures while iterating | operators |
| `Backends` | the state of all backends that are built around a `virtual_backend`, and what is said of it | variables and properties |
| `Providers` | these backends, one of which is chosen at the start | their steps, by instances of `VirtualBackend`, `Epoll`, `Kqueue` and `IoUringFallback` |
| `Parts` | the components without a thread of their own, side by side | their variables and properties, by instances |

The theorems are in `Backends_proofs` (virtual, epoll and kqueue backends, io_uring without a ring),
`IoUring_proofs`, `Iocp_proofs`, `Shard_proofs`, `Tasks_proofs` (`Task`, `WhenAny`, `AsyncScope`,
`Cancellation`), `Waiters_proofs` (`AsyncMutex`, `AsyncSemaphore`), `Blocking_proofs` (`BlockingExecutor`,
`File`, `FileRuntime`) and `Parts_proofs` (`ComputeExecutor`, `Channel`, `Trampoline`, `SocketSetup`,
`SocketStream`). `MCY` instantiates modules for TLC.

### How the actions correspond to the code

- Backends. `RegisterHandle`, `Submit`, `Cancel`, `CloseHandle`, `DrainCompletions`, `Wake`, `Shutdown`
  and `Poll...` are the methods of that name, with their early returns as guards: a refused call
  changes nothing and is no step, unless it has an effect, which then is an action (`RegisterFails`,
  `RegisterHalf`, `CloseHandleHalf`, `ShutdownFails`, `PollEnterFails`, `RegisterHandleFails`,
  `WakeReadFails`, `EventFails`). `ReadinessChanges`, `NativeClose`, `KernelFinish`, `KernelAck` and
  `OsFinish` are the kernel or the user of the descriptor.
- Shard. `SubmitEnter`, `SubmitPush`, `SubmitFull`, `SubmitCount` and the wake are the stages of
  `submit`; `RunLoop` is the loop thread, whose position `loop` names the statement it is at; the work
  of a message may itself submit or stop (caller `Loop`). `StartFails` is `start` with a thread that
  cannot be created: the flags are set and nobody runs the loop. `LoopFail` and `LoopGivesUp` are the
  two critical sections of a loop with an invalid budget, `WorkThrows` an exception out of a manual
  iteration or drain; out of the loop thread it would end the process.
- Cancellation. `CallbackThrows` leaves the loop over the snapshot: what was behind the callback is
  recorded in `abandoned`, and the thread goes on in whatever called in.
- Task. `Create`, `AwaitReady`, `AwaitSuspend`, `TakeResult`, `Drop`, `Finish`, `PublishCompleted`,
  `ScheduleSystem` and `ResumeTaskContinuation` follow `task.hpp` top to bottom. `External` is a body
  that waits for something else.
- Mutex and semaphore. `Await` is `await_ready` and `await_suspend`, `Resume` the queued resumption,
  `Detach` the destruction of an operation, `Destroy` that of the primitive.
- Executors. `Take` is one pass of the worker's wait predicate; `CallStep` continues a `submit` or
  `shutdown` past its critical section: notify, join, wait for the joiner, return.
- File. `Install`, `ScheduleResume` and `ResumeIfClaimed` are the coroutine's side, `Run` and `Publish`
  the worker's; `AllocateSize` and `AllocateTruncate` are the two critical sections of `allocate`.
  In `FileRuntime`, `StartOp` constructs an operation and submits its work, `TakeOp`, `WorkerStep` and
  `FinishOp` are the worker around and inside the work, `CoroutineStep` the shard's thread.
- io_uring without a ring. `Poll` is `flush_submission_batch` followed by `observe_completion_batch`,
  `CloseHandle` flushes the token's queued submissions before `fallback_` closes it, `Shutdown` drains
  `fallback_` before it completes the queue.
- Trampoline. `RunContinuation` is the call of a continuation, deferred if the thread is draining;
  `Return` continues `run_continuation`'s loop; `Throw(n)` unwinds to the caller of the n-th body, with
  the destructors of the scheduler scopes and without the rest of `run_continuation`.
- Sockets. `BuildIovecChain` is the loop of that name over `PlanFull` and `AppendSegment`. `Accept4`,
  `DuplicateFd`, `DuplicateFails` and `CloseAccepted` are the system calls of `accept_one`. Calls that
  fail validation, are interrupted or would block change nothing.

### Assumptions at the borders

- `schedule_system` accepts, except in `FileRuntime`. If it refuses, `task`, the two primitives and `file`
  end the process; the queue that can be full is in `Shard`, and `FileRuntime` has it for file operations.
- In `File` alone, work that the executor accepted is run; `FileRuntime` does not assume it.
- Shard-confined objects are called by one thread at a time; the code asserts or documents this.
- The user of a socket goes on with the rest of a chain after a short count (`SocketStream`), and waits
  for a connecting socket to be writable before `finish_connect` (`SocketSetup`).
- A parent is not destroyed while its own frame is running (`Task`, `WhenAny`).

## 4. Runs

Some runs hold several independent components. Their MC module extends one component, instantiates
the others with variables of their own, and a variable `scenario`, chosen initially and never changed,
names the one that takes steps; the others stay in their initial states. Such a run is the union of the
instances, not their composition, and its number of states is their sum. In `blocking` one scenario is a
composition, `FileRuntime`, on the variables of the other two. In `backends` the scenarios share
state (`Backends`, `Providers`): there the variables of `VirtualBackend` are those of the `fallback_` of the
epoll and kqueue backends, so `ActiveIdsAccounted`, `PendingOnCurrentHandle` and `ImplementsContract` are
checked for all three backends; io_uring without a ring has variables of its own, and `ProviderAgrees`
states the first two of its `fallback_`.

The heap records its last call, which is part of a step and not of what the heap does next. `VIEW
WithoutLastCall` in `MCParts.cfg` leaves the record out when TLC compares states; every step is still
checked against `TimerService` with the record.

| Run | Components and bounds | Why the bounds suffice |
|-----|----------------------|------------------------|
| `backends` | virtual, epoll, kqueue, io_uring without a ring (queue of two, batches of one); one descriptor registered twice, two ids, up to two events fetched by a poll, three shapes | a token and an id can each be stale; an event under the old cookie can come with one under the new; one handle holds two operations of the same and of different readiness; an id can be in the queue, in `fallback_` and among the completions |
| `io_uring` | a socket and a file handle, two ids (symmetric), queue of one, batches of two in and one out, one unseen acknowledgement per id | one operation can be queued, one in the kernel, and one id reused while the other's cancel is unacknowledged; one CQE per poll lets an acknowledgement outlive its operation |
| `io_uring_live` | one id, two registrations per handle, registered files, two cancel reasons | the retry loop and the drain concern one operation at a time; failures come from the kernel |
| `iocp` | two handles, two ids, one association slot whose key generation ends at two, one wake packet | the slot is refused, reused and used up; a packet of the slot's earlier handle can be in the port |
| `shard` | owner, another thread and the loop's own work; three user messages and a system message, queues of two, budgets 0, 1, 2, one restart | a queue is full, holds two or is empty when the loop parks; the budget splits a batch or is invalid |
| `tasks` | a chain of four tasks; `when_any` over four; a scope of four; a source with two threads, three callbacks, three levels of nesting | an inner task is destroyed with frames on both sides; winner, simultaneous loser, late loser and unstarted child are all there; a callback registers, unregisters and requests from within another |
| `waiters` | a mutex with four operations, a `try_lock` client and two queue places; a semaphore with three operations, two permits at most and releases of up to two | owner, reserved waiter, queued waiter and refused operation at once; a release that serves two, one or none and saturates |
| `blocking` | two workers, two more threads, three pieces of work, queue of two; two awaited operations on them and on a shard whose lane has one place; two file operations next to direct calls on a file of length 0 or 1 | one worker runs, one sleeps; two shutdowns race, one from the work; the install of one operation races the publication of the other; the lane is full, or the shard stopped, when a resumption comes |
| `parts` | compute executor with three reservations and four works on two slots; channel buffering two of five values; two heaps moved onto each other once, six timers, two deadlines, budgets 0 to 2; four continuations, one not trampolined, on a scheduler of each kind; chains of up to four segments, some empty, with two iovecs and three bytes per request; two clients, two accepting threads, descriptors 0 to 2 | a limit is reached by queue, reservations and both; six entries are the smallest heap in which an entry that fills a gap has to rise; drivers nest three deep; a request ends inside a segment, at a segment and at the iovec limit; both accepting threads can hold descriptor 0 one after the other, and the duplicate can fail |
| `channel_handover` | rendezvous channel | finding, section 6 |
| `file_allocate` | two file operations, lengths up to 2 | finding, section 6 |
| `trampoline_throw` | two continuations, one default scheduler | finding, section 6 |

Deadlock is not checked: every component may come to rest (all works done, everything destroyed, shut
down), and the bounds end behaviours too. That nothing waits for ever is stated by the liveness
properties instead.

### What they show

- `ActiveIdsAccounted`, `OperationsAccounted`: an id is active exactly while one pending, queued, kernel
  or completed operation carries it. `ImplementsContract`: hence one terminal result per accepted
  submission, never changed, and the id free again only when it was drained (all five backends).
- `PendingOnCurrentHandle`, `StaleEventsIgnored`: nothing pends on, or is completed by an event of, an
  earlier registration of the same descriptor.
- `ProviderAgrees`: what a backend keeps beside `fallback_` agrees with it. An operation that only readiness
  can complete has its filter in the kernel, unless the program closed the descriptor underneath or a
  failed close took that very filter (both recorded, filter by filter, in `lost`); an id of io_uring
  without a ring is in one place, its `fallback_` keeps its own books as any virtual backend does, and it
  will accept all that is queued, so no refused submission blocks the queue.
  `ReadyEventuallyCompletes`: an operation completes if its descriptor stays ready.
- `IntentEventuallyCompletes`, `ShutdownDrainsKernel`, `ShutdownClosesPort`: a cancel, close or shutdown
  intent is not lost over failed submissions, and after a shutdown that is polled on the kernel holds
  nothing.
- `StorageOutlivesOs`, `AssociationsAccounted`: an OVERLAPPED the OS can still name is kept; a slot is open
  for one current handle, free once, or used up, and the completion key of an operation never resolves to
  another registration.
- `AcceptedInOrder`, `CleanExitDrained`, `AcceptedEventuallyRun`, `StopEndsLoop`: no message is lost,
  doubled or reordered in its lane; none stays behind a clean stop; each is run; a stop ends the loop.
- `ContinuationLive`, `AwaiterEventuallyResumed`: stored continuations are live coroutines suspended on that
  task, resumed at most once; none waits for a finished task for ever.
- `FirstWinsRestJoined`, `EventuallyReturns`: `when_any` reports the first child to publish, returns after
  all observers ended, and returns. `JoinAccountsForAll`: a scope's join reports an end only when every
  accepted child ended, and success exactly if none failed.
- `InvokedOnceUnlessRevoked`, `CancelledEventuallyInvoked`: a callback runs at most once, with the reason of
  the first request, not if it was revoked before it was selected, and otherwise it runs, unless a callback
  in front of it in the snapshot throws; then it never does.
- `LockAccounted`, `NoWaiterStranded`, `WaiterEventuallyResumed`: one holder or one reservation while the
  mutex is locked and none otherwise; nobody waits for a free lock; a suspended operation is resumed or
  destroyed, also when the mutex is destroyed first. `PermitsConserved`, `GrantedInOrder`: permits add up,
  none lies idle while somebody waits, and they are granted in the order of the queue.
- `ShutdownDrains`, `ShutdownEnds`: shutdown returns to each caller, and to any but the executor's own work
  only when all accepted work ran. `CompletionsHonoured`, `EventuallyResumed`: a file operation's coroutine is
  resumed once with what the work did, and it is resumed; the process ends only for a resumption that came
  after the stop of its shard, or with more operations outstanding than the system lane has places; after
  a shutdown no worker is left that could still schedule. So a program that keeps its outstanding file
  operations within the lane, and stops the shard last, is never ended by a refused resumption.
- `ReservationHonoured`: a reservation always has room. `Fifo`: a channel delivers what it accepted, in order.
- `ImplementsService`: the heap pops exactly the due timers, in order of deadline and age, never splitting
  a deadline over the budget; `cancel` answers true, and removes a timer, exactly if the handle it was given
  names a live timer of that heap, and then that timer, also after moves.
- `DrainedInOrder`: trampolined bodies do not nest, begin in the order in which they were invoked, and see
  the scheduler they were entered under, whatever they run nested and whatever that throws.
- `StreamInOrder`: through both limits, empty segments and short counts the reader finds the bytes the writer
  was told are written, in order, and a request is empty only when nothing is left.
- `HandlesAccounted`: an accepted connection has one descriptor and one owner, never 0 and never leaked; a
  client is told it is connected only if it is, or if its `connect` answered EAGAIN, which the code takes as
  in progress although nothing was started.

## 5. Fairness

| Component | Assumed | Why |
|-----------|---------|-----|
| `Shard` | WF of a caller inside a call and of the loop; SF of a work's return | threads are scheduled; SF because a work that calls in is interrupted by its own calls |
| `Task`, `AsyncMutex`, `AsyncSemaphore` | WF of the queued resumption (and of `final_suspend`) | the shard runs what it accepted (`AcceptedEventuallyRun`) |
| `AsyncMutex` | WF of a holder's unlock | the only way a lock is passed on; nothing is assumed of `release`, so semaphore liveness is not stated |
| `WhenAny` | WF of its own steps; a child that was told to stop finishes | the documented duty of cancellable tasks; children never told may run for ever |
| `Cancellation` | WF of a running request or callback | threads are scheduled and callbacks return or throw |
| `BlockingExecutor` | WF of calls and of workers, SF of a work's return | as for the shard |
| `FileRuntime` | WF of coroutine, worker and callers while the process runs | the shard, the workers and the callers are scheduled, and file work returns |
| `Trampoline` | WF of a body's return and of driving each scheduler | bodies return and the thread goes on driving; nobody has to throw or schedule |
| `Epoll` | WF of handling a fetched event; SF, per descriptor, of a fetch that contains it; reading the event counter fails finitely often | the owner keeps polling, and epoll reports ready descriptors in rotation |
| `IoUring` | WF of the submission half and SF of the completion half of poll; SF of a retry that the kernel takes; the kernel ends what it was told to cancel, and acknowledges | the owner keeps polling; a kernel that refuses every retry would refute any cancel |
| `Iocp` | once stopped, WF of the owner's loop (drain, or poll when nothing waits) and of the OS ending an operation | `poll` observes nothing while completions wait, so the owner must drain; before `shutdown` nothing is assumed |
| others | none | only safety is stated |

## 6. Findings

- `channel_handover`: `send` on a channel of capacity 0 succeeds once per waiting receiver but stores the
  value in the single `rendezvous_value_` (`channel.hpp:118`). With two waiting receivers two sends succeed
  and the first value is gone, where the plan document promises a rendezvous that serves waiters FIFO.
- `file_allocate`: `allocate` compares the length in one critical section and resizes in another. If the
  file grows beyond the requested size in between it is cut back, where `docs/BACKEND_CAPABILITIES.md:37`
  speaks of growing the file when needed.
- `trampoline_throw`: `run_continuation` raises `draining` before the call and lowers it only on a normal
  return (`trampoline.cpp:26`). If a continuation throws and the driver of the scheduler catches it, every
  later trampolined continuation of the thread is deferred and none is run, where
  `docs/adr/0001-task-scheduler-semantics.md:87` says that the trampoline "drains deferred continuations in
  FIFO order". What was deferred keeps its order (`DrainedInOrder` holds with exceptions too).

Two observations without a run. `connect` answering EAGAIN is classified as in progress
(`socket_error_policy.hpp:50`) although the kernel started nothing; `finish_connect` then finds no error and
reports success. `HandlesAccounted` excepts exactly this case.

The other: `docs/adr/0002-exactly-once-operation-completion.md` keeps an id live while a
cancel acknowledgement can still carry it. `io_uring_backend` frees the id with the operation's own CQE and
instead ignores acknowledgements that belong to no operation; `OperationsAccounted` and
`ImplementsContract` hold with the id reused under an unseen acknowledgement, so what the rule protects is
kept by other means.

## 7. Proofs

TLAPS checks the following for every value of the constants that satisfies the named assumption; all
leaves are proved by Z3, Zenon or, for the temporal steps, LS4. No number of handles, ids, tasks, threads,
waiters or workers is bounded in them, except where an assumption says that a set is finite.

| Theorem | Module | States |
|---------|--------|--------|
| `TypeCorrect`, `IdsAccounted`, `NothingPendingOnStaleHandle`, `Refinement` | `Backends_proofs` | the virtual backend on its own: `TypeOK`, `ActiveIdsAccounted`, `PendingOnCurrentHandle` are invariants, and it implements `OperationContract` |
| `ProvidersAgree`, `StaleEventsCompleteNothing` | `Backends_proofs` | `ProviderAgrees` is an invariant of all backends around a `virtual_backend`, and their steps obey `StaleEventsIgnored` |
| `FallbacksAccounted`, `ProvidersRefine` | `Backends_proofs` | inside the epoll and kqueue backends and in the `fallback_` of io_uring without a ring too, ids are accounted for and nothing pends on a stale handle; epoll and kqueue implement the contract |
| `TypeCorrect`, `EveryOperationAccounted`, `Refinement` | `IoUring_proofs` | `TypeOK` and `OperationsAccounted` are invariants; the backend implements `OperationContract` |
| `SlotsNeverShared`, `TypeCorrect`, `StoragesOutliveOs`, `Refinement` | `Iocp_proofs` | `AssociationsAccounted`, `TypeOK` and `StorageOutlivesOs` are invariants; the backend implements `OperationContract` |
| `TypeCorrect`, `RunInOrder`, `DrainedOnExit` | `Shard_proofs` | `TypeOK`, `AcceptedInOrder` and `CleanExitDrained` are invariants |
| `TypeCorrect`, `ContinuationsLive`, `NothingRevived` | `Tasks_proofs` | tasks: `TypeOK` and `ContinuationLive` are invariants; no step revives a destroyed frame |
| `FirstWins`, `JoinAccounts`, `InvokedOnce` | `Tasks_proofs` | `FirstWinsRestJoined`, `JoinAccountsForAll` and `InvokedOnceUnlessRevoked` are invariants |
| `TypeCorrect`, `LockIsAccounted`, `NobodyStranded`, `NobodyBarges` | `Waiters_proofs` | mutex: `TypeOK`, `LockAccounted` and `NoWaiterStranded` are invariants; a newcomer gets the lock only when nobody waits and nothing is reserved |
| `PermitsAccounted`, `GrantsInOrder` | `Waiters_proofs` | semaphore: `PermitsConserved` is an invariant and its steps obey `GrantedInOrder` |
| `TypeCorrect`, `Conserved`, `Drained` | `Blocking_proofs` | executor: `TypeOK`, `WorkConserved` and `ShutdownDrains` are invariants |
| `Unmasked`, `Honoured` | `Blocking_proofs` | file operations by themselves, and on the executor and a bounded lane (`CompletionsHonoured`) |
| `CapacityRespected`, `SlotsMatch`, `Honoured` | `Parts_proofs` | compute executor: `WithinCapacity`, `SlotsMatchReservations` and `ReservationHonoured` are invariants |
| `ChannelInOrder`, `TrampolineDrains`, `DescriptorsOwned`, `StreamsInOrder` | `Parts_proofs` | `Fifo` (for every capacity but 0), `DrainedInOrder`, `HandlesAccounted` and `StreamInOrder` are invariants |

How the proofs go, and which strengthening each needs:

- Virtual backend, from `BackendConstants`. `Inv` is `TypeOK`, `ActiveIdsAccounted` and
  `PendingOnCurrentHandle`. The first alone is not inductive: that erasing pending operations keeps ids
  distinct needs `ActiveIdsAccounted`, which says that pending and completed ids are distinct, disjoint and
  together the active ones. Lemmas describe once what `CompletePending` does to the two sequences (it moves
  the chosen ones and keeps the others in order). The refinement maps an id to free, active or the result
  that waits in `completions`; each action becomes `Accept`, `Complete` of a set, `Deliver` of a set, or a
  stutter.
- Epoll and kqueue, from `ProviderConstants` in addition. `submit` does not ask the kernel, so `PendingHasFilter`
  is not inductive; `OpenHasFilters` is: every open registration has both its filters but those that were lost,
  as long as the backend runs. `KernelStep` says once what any step of either backend may do to `fallback_`, the filters
  and `lost`; `KernelSteps` shows that such steps keep the invariant, are calls of the virtual backend or
  none, and succeed only by an event of the operation's own token. What remains, per backend, is that each of
  its actions is a `KernelStep`.
- io_uring without a ring, from the same assumptions. The invariant (`Queues`, `Queued`) lists the ids in four
  places: the queue, the backend's completions, and the pending and the completed operations of `fallback_`; each
  listing is without repetition, they are disjoint, the two sets of active ids are unions of them, and what is
  queued is for a current registration; what is pending in `fallback_` is, too. One lemma
  per kind of move (`QueueSubmit`, `QueueCancel`, `QueueDrain`, `QueuePoll`, `QueueClose`, `QueueShutdown`) shows
  that it only moves ids between places. `RingStep` is to this backend what `KernelStep` is to the others.
- The last part of `Backends_proofs` instantiates the backends, shows that their actions are such steps, and
  then that the scenarios of `Providers` are these instances. The instances come late in the module because
  every definition that is in scope makes every obligation after it larger.
- io_uring, from `IoUringConstants`. `IInv` is `TypeOK` and `OperationsAccounted`, which is strong enough by
  itself: it relates all containers to the ring. Most of the proof is about sequences: lemmas describe what
  taking positions out of a queue leaves, and what appending to the completions does. The refinement maps an
  id to free, active or its waiting result; each action accepts, completes a set, delivers a set or stutters.
- IOCP, from `IocpConstants`. `TableInv` adds to `AssociationsAccounted` the part of the types it needs, that
  the free stack and the handle index name slots of the table and the index only open ones of its handle
  (`SlotsKnown`), and that the key of a storage is behind its slot (`KeysBehind`): of an earlier generation,
  or of this one with the slot open for the same token or closed and bound to a new generation. `StoreInv`, on top
  of it, relates the storages to the operations and packets of the OS (`OsAgrees`), to the active ids and
  completions (`IdsAgree`), to the submission order (`OrderAgrees`) and to the port (`PortAgrees`); poll, which
  completes a batch of packets in one step, needs all of them at once. The refinement is as for io_uring.
- Shard, from `ShardConstants` and `NamesAreFresh`. Neither property is inductive. A push can only not be
  missed by a draining loop because `submit` holds the lifecycle mutex from its stop check to its metrics
  (`CallsOK`); the drain may rely on the stop flag and on an empty system queue by the time it looks at the
  user queue (`LoopOK`); a loop that sets the flag without the mutex has recorded its error before; and a
  clean exit stays clean while the flag is set (`ExitOK`). `IInv` is these with
  `TypeOK` and `AcceptedInOrder`, whose own conjuncts relate what was accepted, what is queued, what is in
  the loop's hand and what was run.
- Task, from `TaskConstants`, for a chain of any length. `IInv` says that a stored continuation is the frame
  right above, suspended, and that both frame and state are held (`Stored`); that between `await_ready` and
  `await_suspend` the awaiter owns what it awaits (`Owned`); and that a resumption detaches (`ResumedOnce`). One
  lemma (`FramesGo`) covers all ways in which frames are destroyed.
- `when_any`, from `WhenAnyConstants`. `AnyInv`: only the winner's observer cancels and schedules, and once
  (`OneNotifier`); nothing was published before there is a winner (`NothingYet`), who then is the first
  published (`WinnerFirst`); the losers were told or are about to be (`LosersTold`); what was joined is done
  (`JoinedDone`).
- Scope, without assumptions. A running child is in the list, an error is that of a failed child, and a failed
  child is in the list or has left an error (`Collected`): `join` empties the list, so success rests on it.
- Cancellation, without assumptions. A callback is in the list before the request and in one frame of one
  thread after it (`TwoPhases`, `Listed`, `OnePlace`); what a frame has left to call was not revoked, not
  abandoned and not called (`HonestFrames`); hence one call at most. One lemma (`FrameLeft`) covers both ways of
  leaving a frame, by return and by exception.
- Mutex, from `MutexConstants`. `LockAccounted` is not inductive: whether an unlock may pass the lock on
  depends on what a queued operation can be. `IInv` adds that the queue has no repetition and holds exactly
  the enqueued operations (`QueueOK`), the types of the flags, the phases an operation can be in
  (`PhasesOK`), and that a reserved operation has its resumption queued and is the one handed to
  (`HandoffOK`).
- Semaphore, from `SemaphoreConstants`. The same for its queue and phases (`SQueueOK`, `SPhasesOK`), and the sum
  of idle, reserved, taken and saturated permits (`PermitAccount`); a release serves several waiters in one step,
  so the lemmas speak of a prefix of the queue.
- Blocking executor, from `BlockingConstants`. `ShutdownDrains` speaks of the end of a long chain, and `Inv`
  states the chain: accepted work is queued, held by a worker or done (`WorkConserved`); a worker exits only
  after the stop with an empty queue (`ExitedAfterDrain`) and holds work exactly while it runs
  (`HoldsWhileRunning`); the join is complete only when all workers exited (`JoinedAllExited`); and shutdown
  returns only after that (`ReturnedAfterJoin`).
- File, and `FileRuntime`, from `BlockingConstants` and `FileConstants`. The later of `await_suspend` and `publish`
  sees both the continuation and the result, so one side asks for the resumption (`ResumptionOK`).
  `RuntimeInv` adds what the executor and the operations know of each other (`Linked`) and that only a stopped
  shard or an overcommitted lane ends the process (`LaneExceeded`).
- Compute executor, from `ComputeConstants`. `Inv` is `TypeOK`, `WithinCapacity` and
  `SlotsMatchReservations`: a reservation is honoured because the reserved slots are counted and count the
  active reservations.
- Channel, from `ComputeConstants`, as its capacity is that constant too. What was received are the first numbers sent, and the buffer holds the next
  ones (`ChannelInv`).
- Trampoline, from `TrampolineConstants`. At most one trampolined body is on the stack and the flag is up while
  it is (`OneDrainer`), every scope saved what the body below it sees (`ScopesNest`), and what was reached is what
  began followed by what is deferred. An exception unwinds any number of bodies in one step.
- Connection setup, from `SetupConstants`. `SetupInv` says exactly which descriptors are held and by whom
  (`HeldOK`), that descriptor 0 is in the hands of one `accept_one` (`ZeroOK`), and that two descriptors share a
  connection only while it holds the duplicate (`SharedOK`).
- Byte transfer, from `StreamConstants`. `build_iovec_chain` and the offsets of a chain are recursive functions.
  That they exist and what they compute is shown by induction over sets of numbers (`Least`, `Upwards`,
  `Recursion`), since a set, unlike an operator, can be instantiated: a plan covers the positions
  1, 2, ... of the chain without a gap (`PlanGood`), as many as the limits allow, and none only if no byte is
  left. `StreamInv` is then the first half of the property with the types of the state.

Only model-checked:

- every liveness property (`ReadyEventuallyCompletes`, `IntentEventuallyCompletes`, `ShutdownDrainsKernel`,
  `ShutdownClosesPort`, `AcceptedEventuallyRun`, `StopEndsLoop`, `AwaiterEventuallyResumed`, `EventuallyReturns`,
  `CancelledEventuallyInvoked`, `WaiterEventuallyResumed`, `ShutdownEnds`, `EventuallyResumed`), because temporal
  reasoning with fairness and ENABLED is out of the prover's reach;
- `ImplementsService`: the loops of the heap nest three deep (rounds of sifting in an erasure, erasures in
  a batch, batches in a pop); each needs an induction of its own over the order of a tree, which is not done;
- the three findings, which are behaviours.

## 8. Not modelled

- `runtime`: starts, stops and joins independent shards in a loop.
- io_uring's capability probes and the layout of SQEs; failed construction of backends; destruction of the
  blocking executor by its own work. An executor whose constructor fails to start a thread shuts down the
  workers it has: a shutdown before any submit, with fewer workers.
- Of sockets: address validation and the tables of errno values, of which only the resulting action matters;
  `finish_connect` before the socket is writable, where no error only means that there is none yet: a client
  of the model waits first, as the tests do.
- `when_all` (a fixed sequence of awaits), `deadline`, `virtual_clock`, `manual_reset_event`, metrics other
  than the shard's counters, errors, versions, type erasure: no state that several actors change.
- Bytes, offsets, addresses and durations, in every module: no property is about them.
