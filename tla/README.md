# TLA+ verification of Nomo

Nomo is a compiled language: `crates/` holds a compiler that emits C99, a WASM
interpreter, and the package tooling.  The C backend emits, next to the
program, a small runtime: a current-thread executor with bounded channels,
static selects, timers, deadlines, structured tasks, a reactor, TCP streams,
child processes and a blocking pool for name resolution.  The package tooling
shares directories between commands that run at the same time.  This project
models the runtime and the shared directories, checks them with TLC on small
instances and proves central invariants with TLAPS.

Runtime files are named relative to `crates/nomo_codegen_c/src/runtime/`.

## 1. Inventory

| part | state | operations | interacts with |
|---|---|---|---|
| bounded channels (`host_channel_helpers.rs`) | ring, closed flag, list of blocked senders, list of blocked receivers, reference count; one registration embedded in the frame per blocked operation | `try_send`, `try_receive`, `send`/`receive` start, resume and cancel, `close`, retain/release | wakes frames through the ready queue or through a select token |
| static select (`host_async_executor_helpers.rs`) | token: winner, suspended, enqueued, the registered arms with their cancel functions | init, register, claim, immediate win, suspend, wake, complete, cancel | channels, timers and child completion claim tokens; a claim cancels arms on other channels |
| executor (same file, `core/driver.rs`) | ready ring of 64 frames, timers, runtime_failed, panicking | enqueue, dequeue, cancel_frame, poll, wait_next, run_root | polls every frame; waits on the reactor when nothing is ready |
| timers and deadlines (same file) | slot table with generations, registrations in frames | arm, disarm, due, expire | enqueue frames, claim selects |
| structured tasks (same file) | parent/child links, completion status, joiner | spawn, join, cancel, child failure, scope exit, drop | the ready queue; cancels what the child has outstanding |
| resolver pool (`host_async_blocking_pool_helpers.rs`) | 16 job slots, job queue, completion ring, wake pipe, one worker thread | submit, take, cancel, worker loop, completion_wake, shutdown | reactor (wake pipe), async TCP connect |
| reactor (`host_reactor_helpers.rs`) | registrations in epoll, kqueue or IOCP | register, reregister, deregister, wait | calls the wake function of TCP, process and pool registrations |
| I/O handles (executor file) | slots with generation and busy flags | allocate, acquire, release, shutdown, close | async TCP |
| async TCP (`host_async_tcp_connect_helpers.rs`, `host_async_tcp_io_helpers.rs`) | one registration per operation, claims on the handle's two directions | connect with fallback over addresses, read, write, shutdown, close, cancel | handles, timers, reactor, resolver pool |
| child processes (`host_async_process_unix.c`) | 16 handles, 32 job slots, list of watches, wake pipe, one worker thread; per child two output buffers and a pending stdin payload | start, cancel, watch, next_event, write_stdin, terminate, close, shutdown | reactor, kernel, worker thread |
| async HTTP | state machine on top of async TCP | request, response | TCP, resolver pool |
| native task registry (`host_task.c`) | table of at most 64 threads with status | spawn, poll, join, cancel, close, shutdown | program threads |
| compiler (`nomo_syntax`, `nomo_compiler`, `nomo_mir`, `nomo_ir`, rest of `nomo_codegen_c`) | none between runs | source to C | fixes which calls a frame makes |
| WASM interpreter (`nomo_wasm`) | one environment, a fuel counter | evaluate | none |
| persistent cache (`nomo/src/incremental.rs`, `project.rs`, `project/build.rs`, `project/testing.rs`) | entry files named by fingerprints | look up, reject, insert, evict, prune, clean | commands that run at the same time, editors |
| in-memory query cache (`nomo/src/incremental.rs`) | entries, index from inputs and queries to their dependents, statistics | get_or_compute, invalidate_input, clear | threads of one session |
| release evidence (`project/build.rs`, `project/build_metadata.rs`) | metadata, receipt, sidecar of each target, target locks, workspace catalog and its lock | build, workspace build, clean-up of removed members, `nomo clean` | commands that run at the same time |
| resolver, lockfile, manifest, registry, vendoring, git cache, migrations | files | resolve, update, vendor, migrate | each other through files |
| formatter, documentation, test runner, editor bridge, supply chain | none | text in, text out | none |

The hard behaviours are in the runtime.  The owner thread is alone, so the races
are between *frames*: any call of one frame may complete, wake, cancel or unlink
what another frame left suspended, and the order is up to the program.  A frame
can be cancelled in any suspended state, including after its operation completed
and before it resumed.  A select has one registration on each of several lists,
all of which must disappear when one of them wins.  Payloads are owned, so each
of these paths must release or hand over every payload exactly once.  The resolver
pool adds a real thread, a pipe and a one-shot registration; the process runtime adds another, and
children that write, read and end between any two system calls.  The tooling adds commands that are killed or run into
each other between two file operations.

What makes each part correct:

- channels: FIFO delivery, no receiver asleep beside a payload, no sender asleep
  beside a free slot, one owner per payload, exact reference counts;
- select: one winner, no trace of the losers, one wake-up;
- executor: a frame is queued at most once and never after it is over; every
  completed operation is followed by a poll of its frame;
- structured tasks: no child outlives its scope, the first failure wins, a join
  sees the outcome exactly once;
- timers: the earliest deadline first, ties in arming order, a stale slot is never
  mistaken for a live one;
- resolver pool: no completion is lost, a cancelled job never calls back, a slot is
  not reused while the worker still uses it;
- native task registry: a state outlives its thread, the live count is exact, an accepted
  cancel decides the outcome, an outcome never changes, every call returns;
- TCP: every operation gives back its claim, counters, timer slot, registration and socket on each of its ends; a payload
  arrives once and in order; the deadline is that of the whole operation;
- child processes: every child is waited for exactly once, no signal goes to a reaped child, output arrives in order and in
  whole characters, `Exited` is the last event, stdin survives timeouts;
- release evidence: the sidecar commits what it binds, one builder per target, failed builds leave nothing;
- caches: an answer is the one a clean invocation gives, capacity is kept, an invalidation removes exactly the dependents.

## 2. Plan

What exists is marked.

1. **done** `WaitQueue`, `AsyncChannels`, `FifoChannels`, `AsyncChannelsProofs`: channels and
   selects under the executor, refinement of an abstract FIFO; every safety property and the refinement proved.
2. **done** `ResolverPool`, `ResolverPoolProofs`: worker thread, owner thread, wake pipe, one-shot
   registration; invariants, liveness, inductive invariant proved.
3. **done** `TaskRegistry`, `TaskRegistryProofs`: the thread-per-task registry of `host_task.c`;
   invariants, liveness, inductive invariant and stability of outcomes proved.
4. **done** `StructuredTasks`: spawn, join, cancel, failures, scopes, timers with generations,
   `run_root` and its exit status.
5. **done** `TcpIo`: handle table, reactor, address fallback, reads and writes.
6. **done** `ProcessPool`, `ProcessPoolProofs`, `ProcessEvents`, `ProcessEventsProofs`: reaping of every child; events, pipes and
   exit of one child; every safety property of both proved.
7. **done** `ReleaseEvidence`, `PersistentCache`, `SemanticCache` with a `Proofs` module each.
8. Proofs that remain: the timer table and `NoLostWakeup` of `StructuredTasks`; the claims and counters of `TcpIo`.
9. Later modules: rollback of the manifest and module-root migrations; the version solver against a reference
   definition; the Windows completion-port variants.

## 3. Modules

`WaitQueue` is the intrusive list.  The C code appends at the tail, looks at the head
and unlinks from the middle; a list is represented as a linear order (a set of pairs), which makes
unlinking any set of registrations one set expression and keeps the proofs free of
induction over sequences.

`AsyncChannels` is the detailed specification.  Its state follows the C structs:

| variable | in the code |
|---|---|
| `buf`, `closed`, `sendq`, `recvq`, `refs` | `nomo_channel_control_*`: ring, `closed`, `send_head`, `receive_head`, `base.references` |
| `reg` | `nomo_channel_send_registration_*`, `nomo_channel_receive_registration_*` and, for a sleep arm, `nomo_async_timer_registration`; one per frame and arm |
| `tok` | `nomo_async_select_token` |
| `phase`, `deadline`, `held`, `staged`, `handles` | the state field, the deadline registration and the locals of an emitted frame |
| `ready`, `running`, `failed` | `context->ready`, the frame in `nomo_async_poll_task`, `context->runtime_failed` |
| `dropped`, `delivered` | history: payloads released, payloads handed to receivers |

One action is one runtime call made by the polled frame, or one step of the executor.
A select is several actions because its arms are started one after the other
(`SelectStart`, `ArmSend`, `ArmReceive`, `ArmSleep`, then `ImmediateWin` or `SelectSuspend`).
`Deliver` is what all completions share: winners get their outcome, their losers are
cancelled, frames are enqueued, references are released.  `CancelFrames` is the emitted cancel
function; it serves `task.cancel` and an expired deadline.  Which call a frame makes
next is left open, so every program over the given select statements is covered.

Left out of `AsyncChannels`: metrics counters; allocation failures of
`nomo_channel_new` (channels exist in `Init`); panics; the join arm of a select; nested deadlines
(one `task.deadline` per frame); which of several timers is the earliest (any may expire);
and scopes deeper than one (the root owns all other frames).  `EarlyDrop` lists the pairs of a frame and a channel
whose handle the program releases before the frame ends.  Join arms, nested scopes and the timer table are in `StructuredTasks`.

`FifoChannels` is what a channel promises: whole histories of accepted and delivered payloads, with delivery in
order of acceptance, at most `Bound` in between, and nothing accepted after a close.

`ResolverPool` has two threads, the executor's and the pool's worker; one action is one critical section of
the pool's lock or one system call between two of them.

| variable | in the code |
|---|---|
| `jobs` | `pool->jobs`: state, generation, host, addresses, owner of each slot |
| `queue`, `completions` | `queue_head`/`queue_tail`, the ring of completed slots |
| `activeJobs`, `generation`, `stopping` | `active_jobs`, `next_generation`, `stopping` |
| `worker` | where the worker thread is, and the slot and the copied host it works on |
| `pipe`, `wake` | bytes in the wake pipe; the one-shot registration of its read end: off, armed, fired |
| `owner` | where the executor thread is: running frames, delivering, rearming, joining the worker, stopped |
| `conn` | the resolver part of `nomo_async_tcp_connect_registration` and its timer |
| `ready` | the frames in the ready queue that a completion or a timer put there |
| `lost` | history: the error "bounded resolver completion was lost" was reported |

`ConnectStart` submits (a full pool refuses), `ConnectResume` takes the answer or gives up after
a timeout, `ConnectCancel` is the cancel function, `TimerExpire` a timer.
`CompletionWake`, `DeliverOne`, `DeliverDone` and `Rearm` are the wake callback of the
reactor: it drains the pipe, delivers completions one lock section at a time, and rearms.
`WorkerSleep`, `WorkerTake`, `WorkerPublish`, `WorkerWrite` and `WorkerExit` are the worker's loop, which copies the host, resolves
without the lock, and publishes.  `Shutdown` and `Join` end the pool.  Left out: what a connect does with the addresses
(that is in `TcpIo`), failures of the pipe, thread and reactor calls, metrics, and the Windows
variant, which has a completion port in place of the pipe.

`TaskRegistry` has one owner and one thread per task.  Task functions cannot start tasks (the
compiler rejects it, E0821) and handles are opaque values that cannot be put in a task's string
input, so all calls come from the program's main thread.

| variable | in the code |
|---|---|
| `registry`, `liveCount`, `nextHandle` | the linked list of states, `nomo_task_live_count`, `nomo_task_next_handle` |
| `task` | `cancel_requested`, `finished`, `outcome` of each `nomo_task_state` |
| `thread`, `memory` | how far the worker thread is; whether the state is allocated or freed |
| `owner`, `answer` | the call the owner is in and where; what its last call returned |

Spawn is `SpawnRegister` then `SpawnCreate` or `SpawnFail`, because the lock is released before
`pthread_create`; join is `JoinStart`, the waits (`JoinWoken`, `JoinSpurious`, `JoinExpire`, `JoinExpired`); close is
`CloseUnlink` then `CloseFree`, which waits for the thread.  A worker may ask whether it is cancelled
(`WorkerObserve`), returns any result (`WorkerReturn`), publishes it and exits.  Messages are abstracted to the
outcome's kind, and the calls are the POSIX ones.

`StructuredTasks` has the tree of frames.  A frame is named by its place in the frame that embeds it; a task
is the root or a spawned frame, and a called frame is polled inside its caller.

| variable | in the code |
|---|---|
| `fr` | the fields of an emitted frame: state, completion, failure, waiter, drop flag, select token |
| `reg`, `timers`, `generation` | timer registrations in the frame, the slot table, `next_timer_generation` |
| `ready`, `cur`, `top`, `status` | `context->ready`, `current_frame`, the frame whose statement is next, what the last poll returned |
| `failed`, `now`, `exit` | `runtime_failed`, the clock, the exit status of the program |

One action is one statement of the polled frame (`Spawn`, `Call`, `JoinNow`, `JoinWait`, `SelectWait`, `CancelChild`,
`SleepWait`, `Yield`, `DeadlineEnter`, `DeadlineExit`, `Return`, `Panic`), one resume, or one step of `run_root` and `wait_next`.  Which
statement comes next is open.  `Fail`, `CancelTree`, `Complete` and `Drop` are the emitted helpers that the
statements share.  Left out: allocation of frames, metrics, and channel operations (those are in `AsyncChannels`).

`TcpIo` has the streams of a program on the epoll backend.

| variable | in the code |
|---|---|
| `op` | the connect or I/O registration of the task's operation |
| `held` | the `TcpStream` values a task has, copies of closed ones included |
| `table`, `generation` | `io_handles`, `next_io_handle_generation`, and the socket behind each slot |
| `epoll`, `timers`, `ctx` | interest list, armed timers in arming order, `live_io_operations`, `retained_io_bytes`, `live_registrations` |
| `task`, `ready`, `cur`, `waiting`, `now`, `exited` | the executor's side |

The slot number stands for the descriptor too: every socket is in the table between two steps and both numbers are the
lowest free one.  A poll up to the next operation is one action, because nothing else runs on the thread; peers and
the kernel act between polls (`Establish`, `Breaks`, `PeerSends`, `PeerReads`, `PeerEnds`).  Whether received bytes are text is left
open.  Left out: answers to arguments that are invalid from the start, failures of the native shutdown, and
kqueue and IOCP.  `Busy` cannot occur: a `TcpStream` is local to one task, which waits for its operation.

`ProcessPool` is the life of a child under two threads.  `pool` is what the mutex protects (jobs, start and reap queues,
watches, completions, counters); `wake` and `pipe` are the reactor's side of it; `worker` and `owner` say where the threads
are; `handles`, `regs`, `child` and `ready` belong to the owner; `proc` is the kernel's view of each child.  One action is
one critical section, or one step outside the lock that the other thread can see.  A process number is never given out twice, so a wait
or a signal that comes after the child was reaped shows in `stale`.  `lost` records the children of refused reaps.

`ProcessEvents` is one child's pipes and events.  `next_event` probes the exit, flushes stdin, reads both
streams, decides and arms; the child may act between any two of these parts.

| variable | in the code |
|---|---|
| `state` | the handle: buffers, pending payload, exit status, open ends |
| `reg`, `op` | the event registration; how far the poll is |
| `pipes`, `holds`, `input`, `reads`, `child`, `sure` | the kernel: pipe contents, open writers, stdin, the child, and whether the reactor will report the exit |
| `retained`, `live` | `retained_process_bytes`, `live_process_operations` |
| `emitted`, `flushes`, `payloads`, `passed` | history |

A byte is one of four classes (`a` alone, `l` lead, `t` trail, `z` never text); a wide scalar has two bytes instead of four, and chunk sizes and
slack are scaled with it.  `EdgeExit` chooses between epoll with a pidfd and kqueue, which does not report an exit that came before its
registration.  Left out: read errors and the answers `invalid_request`, `busy` and `closed` to wrong calls.

`ReleaseEvidence` has several commands over several targets.  A build has a number and its files carry it in place of hashes.
`evid[m]` holds the numbers in metadata, receipt and sidecar, `art[m]` those of `main.c` and the binary, `lockfile[m]` the
lock file's inode, `catalog` and `catOwner` the workspace catalog and its lock, `proc[p]` where a command is.  A command goes
`LockCatalog`, `Refresh`, `Own`, `ReadCatalog`, `Recheck`, `Context`, `Open`, `Lock`, `Remove`, `WriteC`, `Link`, `Publish`, `Commit` in the order its kind
has them; `Crash` may come before each.  `CleanPiece` is `nomo clean`, which removes the directory in an arbitrary order and takes no lock.  The
reading of receipt, metadata and sidecar in one recheck is one step; the clearing by a failed publication and the one by
the transaction's drop are one abort.

`PersistentCache` has several commands and an editor over one cache directory.  A source is its content, a fingerprint the contents
it was computed from, a compilation the contents it read, so two fingerprints agree exactly when the hashed inputs do.  A query goes
`ReadSource`, `Fingerprint`, `Lookup`, `Reject`, `Compile`, `Create`, `Write`, `Rename`, `List`, `Evict`.  An entry has size one.  A directory listing is
one step; whether a leftover temporary file is old enough to be removed is left open.

`SemanticCache` has threads that compute queries between two critical sections.  `Reached` is the worklist of
`invalidate_queries`, written as the least closed set: the order in which the worklist visits keys does not show, and
the definition keeps the module within the prover's reach.  Keys are content-addressed, so a computation that was under way when its input was
invalidated is filed afterwards and is harmless.

The `MC` modules give TLC its constants.  The `Proofs` modules hold lemmas and theorems: `AsyncChannelsProofs`, `ResolverPoolProofs`,
`TaskRegistryProofs`, `ProcessPoolProofs`, `ProcessEventsProofs`, `ReleaseEvidenceProofs`, `PersistentCacheProofs` and `SemanticCacheProofs`.

## 4. Runs

A property of a run is often a conjunction of named parts, each with a comment of its own in the module; the parts are
listed in brackets.

`select` (886 000 states; three frames, two payloads, two one-slot channels, two select statements: receive or sleep on the first
channel, send on the first or receive on the second).  Two frames in crossing selects are enough for
a claim to cancel arms on the other channel and to release staged payloads; one slot is the smallest ring that can be full.
Checks `ReceiversBlocked`, `SendersBlocked`, `OneOwner`, `ControlBlocksExact` [`ReferencesExact`, `ListsConsistent`], `WokenOnce`
[`WakeNotLost`, `EnqueuedOnce`], `SelectDecided` [`OneWinner`, `NoRuntimeFailure`] and the refinement `FifoDelivery`.

`select_same_channel` (expected to fail).  `docs/async-runtime.md` promises that the first ready arm in source order wins and
that every race has one winner.  A select that receives from an empty channel and then sends to it
hands its payload to its own receive arm; the send arm, which is ready, can no longer claim the
token and the program ends with a runtime failure.  `FirstReadyArmWins` states the promise.

`resolver_pool` (39 000 states; three connects, two slots, generations that wrap at 2, a pipe of two bytes).  Three connects
and two slots let the pool be full, and a slot be cancelled, released and taken by another connect
while the worker still resolves for the first; two generations make every reuse wrap.
Checks `SlotsAccounted`, `NoLostWake`, `RightAnswer`, `LookupEnds` and `PoolDrains` [`ExecutorQuiesces`, `ShutdownEnds`].

`task_registry` (194 000 states; three handles, at most two live).  The limit is reached, a handle is used after another was closed, and the
handles run out.  Checks `NoUseAfterFree`, `CancelDecides`, `OutcomeStable` and `CallsReturn`.

`task_join_timeout` (expected to fail).  `std/src/task.nomo` promises that a join waits for the outcome up to the
time given.  When the wait times out and the worker publishes before the
owner has the lock again, the POSIX branch leaves its loop with `ETIMEDOUT`, finds the task finished, and
answers with the error "wait", neither the outcome nor a timeout; the Windows branch
looks at `finished` first.  `JoinAnswers` states the promise.

`structured_tasks` (145 000 states; main, two spawned tasks, a function called by the first; a deadline in the first; two timer slots, two
ready slots, two generations, clock up to 2, durations 0 to 2).  Two slots and two generations make slots and
generations be reused while old registrations name them; the last duration saturates the clock.
Checks `ScopesExact` [`TypeOK`, `ScopeClosed`, `EnqueuedOnce`, `TimerTable`], `NoLostWakeup`, `ResultsHonest` [`JoinReadsResult`, `FailureNotLost`,
`ExitHonest`], `DeadlinesRespected` [`EarliestFirst`, `TimeoutWins`] and `DeadlineServed`.

`tcp_streams` (419 000 states; two tasks, one handle slot, two timer slots, poll budget 1, payloads of 2 bytes, socket
buffers of 1, at most two addresses, two sockets per run, clock up to 2).  One slot makes every second
socket reuse the handle; a payload of twice the budget and the buffer is suspended for both reasons.
Checks `ResourcesExact` [`TypeOK`, `ClaimsExact`, `CountersExact`, `ReactorMatches`, `OwnSocket`, `HandleNotLost`],
`WaitsBounded` [`PendingCanWake`, `OverallDeadline`], `StreamKept` [`WholePayload`, `NoWriteAfterShutdown`] and `OperationEnds`.

`process_pool` (72 000 states; two tasks, two handles, three job slots, two starts, every fault).  The code has 16 handles and 32
job slots; three slots for two handles keep the proportion and still let a reap be refused.  Checks `ChildrenReaped`
[`OneReaper`, `NoStalePid`, `ShutdownReapsOwned`], `WakesExact` [`WakeExact`, `WakeNotLost`, `WorkerAwake`], `ReservationsExact`
[`TypeOK`, `CountersExact`, `HandleKept`, `CompletionNotLost`] and `RequestsEnd` [`StartEnds`, `ReapEnds`, `WatchServed`, `ShutdownEnds`].

`process_events` (183 000 states; one child that writes half a scalar and a letter, pipes of one byte, one payload of
two bytes, every fault, exits not reported twice).  A payload longer than the pipe needs several events.  Checks `OutputFaithful`
[`BytesInOrder`, `ScalarsWhole`, `ExitedLast`], `WaitsExact` [`TypeOK`, `NothingMissed`, `BusyExact`, `CountersExact`, `NotPassedOver`],
`StdinDelivered` [`StdinKept`, `SuffixPreserved`] and `ExitTold`.

`evidence` (616 000 states; two processes, one target, three commands of every kind, two edits of the manifest, failing builds and
publications, crashes, `nomo clean` when nothing else runs).  Checks `EvidenceWhole` [`TypeOK`, `Committed`, `PublishedWhole`],
`LocksServe` [`OneBuilder`, no circular wait] and `ClearedExactly` [`AbortClears`, `CleanupCleared`, `OwnedOnly`].  `nomo clean` takes
a target apart in no fixed order and is exempt from `Committed` until the next transaction has cleared the target (`cleaned`).

`cache` (861 000 states; two processes, two files, three commands out of check, debug and release builds, prune and clean, two
edits, room for one entry, crashes, damage, failing writes).  Checks `AnswersClean` [`TypeOK`, `CleanSame`, `RejectsDamaged`] and `CapacityKept`.

`semantic_cache` (97 000 states; two threads, a chain of three queries over two inputs, seven calls).  Checks `IndexExact` and
`InvalidatesExactly`.

### Further configurations

These are not in `PROJECT.json`; run them with `tlc -config X.cfg M`.  The first group passes.

| configuration | shows |
|---|---|
| `MCTaskRegistry_live` | a cancelled cooperative worker finishes (`CancelEnds`) |
| `MCStructuredTasks_call`, `_limits` | a called function that spawns, and no runtime failure when the queue is large enough; a ready queue of one entry |
| `MCTcpIo_full`, `_limits` | larger buffers and empty payloads; one timer slot for two tasks |
| `MCProcessPool_full` | three starts and six job slots; with enough slots every child is reaped (`ShutdownReaps`) |
| `MCProcessEvents_live` | exits that the reactor reports only once; every event ends (`EventEnds`) |
| `MCReleaseEvidence_two`, `_live` | two members with changing membership; commands end (`CommandsEnd`) |
| `MCPersistentCache_midway`, `_live` | a test harness whose source is edited midway is not harmed; commands end |

The second group is violated, each by one property, and shows where the code does less than a document says.

| configuration | property | what the code does |
|---|---|---|
| `MCStructuredTasks_yield` | `DeadlineAlwaysServed` | timers are served only when the ready queue is empty, so two frames that keep each other ready delay a due deadline for ever.  `docs/async-runtime.md:461` speaks of the move of the owner frame to the ready queue at its deadline and names no condition; `DeadlineServed` states it with the condition |
| `MCProcessPool_leak` | `ShutdownReaps` | a cancelled start whose child exists hands it over for reaping; when all job slots are taken the refusal is ignored (`host_async_process_unix.c:1569`).  `docs/async-runtime.md:169`: "runtime shutdown reaps every child" |
| `MCReleaseEvidence_remove` | `Committed` | when the removal of the sidecar fails, the metadata is removed all the same (`build.rs:367`).  `docs/release-builds.md:174-177`: another build "cannot observe or leave a committed sidecar without its metadata" |
| `MCReleaseEvidence_unlink` | `OneBuilder` | `nomo clean` unlinks the lock file under its holder (`build.rs:2213`).  `docs/release-builds.md:170`: "Evidence publication is serialized by `<target-dir>/.nomo-build.lock`" |
| `MCPersistentCache_stale` | `CleanSame` | `nomo check` reads its sources, then reads them again to hash them (`project.rs:265`); an edit in between files a result under the wrong key.  `docs/incremental-cache.md:4-6`: the cache "must produce the same diagnostics and generated output as a clean invocation" |

### Bounds and fairness

A payload that was delivered is not sent again (`Sendable`), which bounds the histories of channels; commands, edits, starts, sockets, calls, payloads and
clocks have a `Max...` constant, named as a bound where it is declared; everything else is bounded by the code's own limits, scaled down.
Deadlock checking is off where the system may stop: an executor with nothing left to do, a stopped owner, commands that are all done.

`AsyncChannels` assumes no fairness; what is checked in place of liveness is the safety half: every completed operation has its
frame in the ready queue.  `ResolverPool` assumes weak fairness of the worker (the thread is scheduled and
`getaddrinfo` returns), of the wake callback, of the final join, and of resuming ready frames; nothing is assumed of
timers, cancels and new connects.  `LookupEnds` has a condition: the executor serves due timers without polling the reactor,
so a program whose timers expire forever may starve a lookup.  `TaskRegistry` assumes weak
fairness of the threads and of the call the owner is in, and strong fairness of the
expiry of a join, whose deadline is absolute and is not put off by spurious wake-ups.  A worker need not
return unless it has seen that it is cancelled.

`StructuredTasks` assumes that the executor's thread goes on (`Poll \/ Executor`), and `DeadlineServed` is conditional on a ready queue that
empties again and again.  `TcpIo` assumes the same of polls, of the wait and of expiring timers, and that the clock advances; nothing
is assumed of peers, and `OperationEnds` has the same condition.  `ProcessPool` assumes weak fairness of the worker, of the
reactor, of arming, of the shutdown and of resuming a ready start, and that a killed or closed child can be waited for; nothing of timers and of the
tasks' next calls.  `ProcessEvents` assumes that the owner's thread goes on, that its task keeps asking for events, that the clock
advances, and strong fairness of the worker's report: waits end again and again, and a wait that is not over when it begins looks at the
reactor.  The remaining modules assume fairness only in the `_live` configurations: a process that can go on does.

## 5. Proofs

`AsyncChannelsProofs` proves, for every set of frames (finite), channels, payloads, every capacity and every set of
select statements:

- `InductiveHolds`: `Spec => []Inductive`;
- `TypeCorrect`: `Spec => []TypeOK`, including that rings and the ready queue never exceed their capacity;
- `NoReceiverLeftBehind`: `Spec => []ReceiversBlocked`.

`ReceiversBlocked` alone is not inductive.  A promotion puts a blocked sender's payload in the
ring: it must be known that the sender's registration really holds a payload (`PayloadsReal`) and that no
receiver waits there.  Cancelling the losers of a select unlinks exactly the registrations the
token lists: it must be known that every linked registration of a select is listed (`LinkedPending`), and that a token with a winner lists
no other arm and a frame that is starting arms is the one that runs (`TokenDiscipline`).  `ClosedHasNoSenders` is what a receive on a closed channel needs.
The proof has one lemma per action; the channel operations share `DeliverFacts` and `DeliverPreserves`.

The second part of the module builds on these and proves what is left of `AsyncChannels`:

- `ControlBlocksAreExact`: `Spec => []ControlBlocksExact`, reference counts and intrusive lists;
- `NoSenderLeftBehind`: `Spec => []SendersBlocked`;
- `ChannelsAreFifo`: `Spec => FifoDelivery`, the refinement: initial states map to initial states of `FifoChannels`, each step to one
  of its steps or to a stutter;
- `CompletionsWakeOnce`: `Spec => []WokenOnce`;
- `SelectsAreDecided`: `OneWaySelects /\ Roomy => (Spec => []SelectDecided)`;
- `PayloadsHaveOneOwner`: `OneHolder => (Spec => []OneOwner)`.

`ChannelsInv` says whose each registration is (the plain operation of its frame, or an arm that a token lists) and that a count is the number of
handles and registrations that refer to the block.  Without it nothing excludes that a release destroys a ring with payloads in it, and then neither
the FIFO nor `SendersBlocked` holds.  `WakeInv` says which frames the ready queue has.  Its core is that a registration that a
completion claims was pending, so its frame was suspended and not queued; a select enqueues once because only the first claim of its token
succeeds; a frame that an expired deadline cancels is suspended and has no completion.  `Decided` says what a select has
seen of the arms it passed.  `OwnInv` gives each payload its place: each action is shown to move payloads between rings,
registrations, frames and staged operands, or to release them, and no two places share one.

The three hypotheses are about constants.  `OneHolder`: each payload is a local of one frame when the program starts, as a value in Nomo is.
`OneWaySelects`: no select sends to and later receives from one channel; `MCAsyncChannels_self` shows the runtime failure otherwise.  `Roomy`: the
ready queue has a place for each frame; `SelectDecided` includes that the runtime never fails, and a full queue is a runtime failure
(`MCStructuredTasks_limits` has such a queue).

Assumptions are those of the modules.  For `AsyncChannels`: capacities and arm counts are positive, frames are finitely many and fit in
the ready queue with the running one, selects are well formed.  For the
pool and the registry: capacities, limits and counters are positive.  For `ProcessEvents`: outputs are sequences of byte classes, pipes and
payloads are not empty, there is a chunk size and each has room for a scalar.  For `ProcessPool`: capacities are positive, the starts
have no more slots than the pool, the faults are among those the module knows.  For `ReleaseEvidence` and `PersistentCache`: projects
and files are numbers, `Nobody` is no process, the kinds and faults are among those the modules know.  For `SemanticCache`: finitely many
keys, and dependencies that are keys and inputs.  TLC evaluates them in every run.

`ResolverPoolProofs` proves, for every number of connects, every capacity of pool and pipe, and every width of
the generation counter:

- `InductiveHolds`: `Spec => []Inductive`;
- `SlotDiscipline`: `SlotsAccounted` and `ActiveExact` always hold;
- `NoWakeLost`: `NoLostWake` always holds;
- `AnswersDelivered`: `ClientsMatch`, `RightAnswer` and `CompletionNotLost` always hold.

The strengthening is `Bookkeeping`.  `RightAnswer` needs that the worker resolves the host of the slot's present
owner, although the worker copied it before it gave up the lock.  `NoLostWake` speaks of the time when frames
run; to get there from a delivery, it must be known that a completion published between
the last delivery and the rearming brings its own byte.  `ActiveExact` counts slots, so each action states which
slots stop or start being free.  The proof does not use that generations are unique: a slot
is never free while a connect refers to it, so wrapping is harmless.

`TaskRegistryProofs` proves, for every number of handles and every limit:

- `InductiveHolds`: `Spec => []Inductive`;
- `RegistryCorrect`: `TypeOK`, `LiveExact`, `WorkerReachable`, `CancelDecides` and `JoinerNotForgotten` always hold;
- `StatesOutliveThreads`: `NoUseAfterFree` always holds;
- `OutcomesNeverChange`: `Spec => OutcomeStable`, an action property.

The strengthening is `Lifecycle`, which says where a handle is in its life: unused, being created, registered, being
closed, freed.  `OutcomeStable` follows because only an unpublished worker writes an outcome, and
`cancel` leaves finished tasks alone.

`SemanticCacheProofs` proves, for every finite set of keys, every set of inputs and threads, and every dependency relation:

- `IndexIsExact`: `Spec => []IndexExact`;
- `InvalidationIsExact`: `Spec => InvalidatesExactly`, an action property;
- `EntriesAreStable`: `Spec => EntriesStable`: a value that was handed out is never replaced by another thread's.

The invariant is `TypeOK /\ IndexExact /\ StatsExact`.  `InvalidateInput` follows the index, `DependOn` the entries; with an exact index
the least closed set of the one is that of the other.  `StatsExact` counts: the facts about cardinalities come from
`FiniteSetTheorems`.

`ProcessPoolProofs` proves, for every number of tasks, handles, job slots and starts, and every choice of faults:

- `EachChildIsReaped`: `Spec => []ChildrenReaped`;
- `NobodySleeps`: `Spec => []WakesExact`;
- `ReservationsAreExact`: `Spec => []ReservationsExact`.

The invariant is `PoolInv`.  None of the three is inductive.  That no child is waited for twice, and none forgotten, is a matter of
custody (`Children`): each child that was not waited for is with exactly one holder, a job, a handle or the worker's cleanup.
Each step hands a child over (a start to its handle, a closed handle to a reap job, a cancelled start to the worker), waits for it, or loses it
where `cancel_start` ignores that the reap was refused; the children lost in that way are all that `ShutdownReapsOwned` exempts.  A child
that the worker's scan has waited for is still named by its handle until the owner serves the watch: `Late` names those handles, and
`Watching` says that their watch is complete.  `WakeExact` needs to know where a byte is on its way: `Waking` says that what the worker has
finished is announced by a byte, by a worker about to write one, or by an owner about to look, at each place of the owner.  "Process start completion was lost" is
excluded by `Reserved`: a start that is pending names a job that names its handle and generation back, and no two starts share one.
`CountersExact` counts slots, so each operation states which slots become busy or free.

`ProcessEventsProofs` proves, for every output of the child, every set of chunk sizes, every capacity, payload and timeout, every
choice of faults and both kinds of exit report:

- `OutputIsFaithful`: `Spec => []OutputFaithful`;
- `WaitsAreExact`: `Spec => []WaitsExact`;
- `StdinIsDelivered`: `Spec => StdinDelivered`, an action property.

The invariant is `EventsInv`.  `NothingMissed` is about a wait, but is decided while the poll arms: `Registered` follows each
interest from its registration on, and the probe of the exit that follows the registration closes the gap in which a child may end unseen.
`ExitedLast` needs `Over`: what the handle has noted of the exit and of the ends of streams is so and stays so.  `ScalarsWhole` needs that the emitted bytes are
a prefix of the script cut where the greatest whole prefix of the buffer ends, and `Buffered` that a buffer has room for the
scalar that a chunk may cut.  `NotPassedOver` needs `Turns`: a stream that was passed over is the preferred one.

`ReleaseEvidenceProofs` proves, for every set of commands and projects:

- `LocksServeThroughout`: `CleanAlone => (Spec => []LocksServe)`;
- `EvidenceWholeThroughout`: `CleanAlone /\ RemovesAll => (Spec => []EvidenceWhole)`;
- `ClearedExactlyThroughout`: `CleanAlone /\ RemovesAll => (Spec => ClearedExactly)`, an action property.

`LocksInv` says what the place of a command says of its locks, and that the lock file a command has is the one that is there; no circular wait
follows, because the holder of the catalog lock gives it up in its next step, and who has a target waits at most for the catalog.  `EvidenceInv` adds which files of a
target each place of its builder allows: crashes may come anywhere, and the next transaction removes the sidecar first.
`ClearedInv` adds that a build's number is in no other target, and what a cleanup has passed.
Both hypotheses are needed: `nomo clean` unlinks the lock file under a builder (`MCReleaseEvidence_unlink`), and a sidecar
whose removal fails outlives its metadata (`MCReleaseEvidence_remove`).

`PersistentCacheProofs` proves, for every set of commands, files and contents:

- `CapacityThroughout`: `Spec => []CapacityKept`;
- `AnswersThroughout`: `Steady => (Spec => []AnswersClean)`.

`CapacityInv` says why a cache that is too large will be pruned: somebody is about to list it, or prunes with a listing that has every entry; an
insertion is followed by a listing of its own.  `AnswersInv` says that an entry with a right checksum holds what the compiler says
of its key, and that what a query has read so far are the present sources.  `Steady` is the hypothesis that no source is edited
while a command runs, but for the file of a test, which is read once; `MCPersistentCache_stale` shows the wrong answer otherwise.

Only model-checked: the properties of `StructuredTasks` (`ScopesExact`, `NoLostWakeup`, `ResultsHonest`, `DeadlinesRespected`) and `TcpIo`
(`ResourcesExact`, `WaitsBounded`, `StreamKept`), and every liveness property (`PoolDrains`, `LookupEnds`,
`CallsReturn`, `DeadlineServed`, `OperationEnds`, `RequestsEnd`, `ExitTold` and those of the `_live` configurations).  Liveness and `ENABLED`
are outside the prover's reach.  The frames of `StructuredTasks` form a tree of which `Fail`, `CancelTree` and `Drop` take whole
subtrees, and `TcpIo` does a whole poll in one action; invariants for them have been checked, not proved.

## 6. Not modelled

In modelled parts:

- the Windows variants of the process runtime, of TCP and of the resolver pool, which use a completion port (among them the exit
  code 259 that Windows also uses for a running process, and the cancellation of a synchronous read, `host_process_control.c`);
- reuse of process numbers: a `terminate` that comes right after the worker has waited for the child
  (`host_async_process_unix.c:3085`) could signal a process that is not Nomo's;
- `nomo run`, which gives the target lock back before it executes the binary (`project/running.rs:34`): which binary is executed is
  outside the evidence protocol;
- the generated-C query reads its sources once more after they were hashed, like `nomo check`
  (`project/build.rs:1830`); one configuration for the two is enough;
- metrics, and failures of calls that create pipes and threads, except where a module names them as faults.

Not begun: the migrations, vendoring and the git cache are file transactions of one process with a rollback; the version solver is a pure search.
They are the next candidates after the proofs of the plan.
