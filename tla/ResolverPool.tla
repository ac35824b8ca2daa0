---------------------------- MODULE ResolverPool ----------------------------
(***************************************************************************)
(* The blocking pool that resolves host names for async TCP connects:      *)
(*   crates/nomo_codegen_c/src/runtime/host_async_blocking_pool_helpers.rs *)
(*   crates/nomo_codegen_c/src/runtime/host_async_tcp_connect_helpers.rs   *)
(*                                                                         *)
(* Two threads share the pool under a mutex: the owner, which runs the     *)
(* task frames and the reactor, and one worker, which calls getaddrinfo.   *)
(* One action is one critical section, or one step outside the lock that   *)
(* the other thread can see (the wake byte, the drain of the pipe, the     *)
(* one-shot registration).  The pool is the Unix one.                      *)
(*                                                                         *)
(* The clients are connect registrations.  A registration resolves one     *)
(* host at a time and may be used again and again.  The job queue, the     *)
(* completion ring and the ready queue are lists of WaitQueue.             *)
(***************************************************************************)
EXTENDS Integers, FiniteSets, WaitQueue

CONSTANTS
    Connects,        \* connect registrations, one per frame
    Capacity,        \* NOMO_ASYNC_BLOCKING_POOL_QUEUE_CAPACITY
    MaxGeneration,   \* the largest generation before it wraps to 1
    PipeCapacity,    \* wake bytes the pipe holds
    NoConnect        \* no registration

Slots == 1 .. Capacity

ASSUME PoolCapacityAssumption == Capacity \in Nat \ {0}
ASSUME GenerationAssumption == MaxGeneration \in Nat \ {0}
ASSUME PipeAssumption == PipeCapacity \in Nat \ {0}
ASSUME ConnectsAssumption == NoConnect \notin Connects

VARIABLES
    jobs,          \* jobs[s]: the job slots
    queue,         \* slots waiting for the worker
    completions,   \* slots the worker has finished
    activeJobs,    \* active_jobs
    generation,    \* next_generation
    worker,        \* the worker thread and the slot and host it holds
    pipe,          \* bytes in the wake pipe
    wake,          \* the one-shot registration of the pipe's read end
    owner,         \* where the owner thread is
    stopping,      \* stopping
    conn,          \* conn[c]: the connect registrations
    ready,         \* registrations whose frames are in the ready queue
    lost           \* a resume reported "completion was lost"

poolVars == <<jobs, queue, completions, activeJobs, generation>>
vars == <<jobs, queue, completions, activeJobs, generation, worker, pipe,
          wake, owner, stopping, conn, ready, lost>>

-----------------------------------------------------------------------------

FreeJob == [state |-> "free", gen |-> 0, host |-> NoConnect,
            answer |-> NoConnect, owner |-> NoConnect]

IdleConnect == [resolving |-> FALSE, ready |-> FALSE, timer |-> "off",
                slot |-> 1, gen |-> 0]

Init ==
    /\ jobs = [s \in Slots |-> FreeJob]
    /\ queue = {}
    /\ completions = {}
    /\ activeJobs = 0
    /\ generation = 0
    /\ worker = [pc |-> "ready", slot |-> 1, host |-> NoConnect]
    /\ pipe = 0
    /\ wake = "off"
    /\ owner = "frames"
    /\ stopping = FALSE
    /\ conn = [c \in Connects |-> IdleConnect]
    /\ ready = {}
    /\ lost = FALSE

-----------------------------------------------------------------------------
(* What the owner does under the lock.                                     *)

\* nomo_async_resolver_pool_release_job_locked.  The generation stays in the
\* slot until the next submit clears it.
Released(s) == [FreeJob EXCEPT !.gen = jobs[s].gen]

Free(s) == jobs[s].state = "free"

\* The first free slot.
IsFirstFree(s) == Free(s) /\ \A t \in Slots : Free(t) => s <= t

\* pthread_cond_signal: a worker asleep on the condition looks again.
Signalled == IF worker.pc = "asleep" THEN [worker EXCEPT !.pc = "ready"]
                                     ELSE worker

NextGeneration == IF generation = MaxGeneration THEN 1 ELSE generation + 1

\* The wake registration once n jobs are left: maybe_idle deregisters it when
\* there are none.
WakeFor(n) == IF n = 0 THEN "off" ELSE wake

\* Mutant of ReleasedAtOnce: a running job's slot is released as well.
ReleasedWhileRunning(s) == jobs[s].state \in {"queued", "running", "delivered"}

\* A cancelled job that no completion will come round for.
ReleasedAtOnce(s) ==
    \/ jobs[s].state = "queued" /\ s \in Waiters(queue)
    \/ jobs[s].state = "delivered"

\* nomo_async_resolver_cancel, as seen by slot s.  A running or finished job
\* keeps its slot until its completion comes round.
CancelledJob(s) ==
    CASE ReleasedAtOnce(s) -> Released(s)
      [] jobs[s].state = "running" ->
            [jobs[s] EXCEPT !.state = "cancelled_running", !.owner = NoConnect]
      [] jobs[s].state = "completed" ->
            [jobs[s] EXCEPT !.state = "cancelled", !.owner = NoConnect]
      [] OTHER -> jobs[s]

\* The slots of the registrations in C that are cancelled, each with the
\* generation check of nomo_async_resolver_cancel.
Cancelled(C) ==
    {s \in Slots : \E c \in C : /\ conn[c].resolving /\ conn[c].slot = s
                                /\ jobs[s].gen = conn[c].gen}

\* nomo_async_tcp_connect_cancel for the registrations of C: queued jobs leave
\* the queue and are released at once, delivered ones are released.
CancelConnects(C) ==
    LET S == Cancelled(C)
        freed == {s \in S : ReleasedAtOnce(s)}
        left == activeJobs - Cardinality(freed)
    IN /\ jobs' = [s \in Slots |-> IF s \in S THEN CancelledJob(s) ELSE jobs[s]]
       /\ queue' = Unlink(queue, {s \in S : jobs[s].state = "queued"})
       /\ activeJobs' = left
       /\ wake' = WakeFor(left)
       /\ conn' = [c \in Connects |-> IF c \in C THEN IdleConnect ELSE conn[c]]

-----------------------------------------------------------------------------
(* The owner thread between two waits: frames are polled.                  *)

\* nomo_async_tcp_connect_start with a host name: arm the timer, arm the wake
\* registration if it is not, and submit.
Submit(c, s) ==
    /\ IsFirstFree(s)
    /\ jobs' = [jobs EXCEPT ![s] = [state |-> "queued", gen |-> NextGeneration,
                                    host |-> c, answer |-> NoConnect,
                                    owner |-> c]]
    /\ generation' = NextGeneration
    /\ queue' = LinkTail(queue, s)
    /\ activeJobs' = activeJobs + 1
    /\ wake' = IF wake = "off" THEN "armed" ELSE wake
    /\ worker' = Signalled
    /\ conn' = [conn EXCEPT ![c] = [resolving |-> TRUE, ready |-> FALSE,
                                    timer |-> "armed", slot |-> s,
                                    gen |-> NextGeneration]]

ConnectStart(c) ==
    /\ owner = "frames" /\ ~conn[c].resolving
    /\ \E s \in Slots : Submit(c, s)
    /\ UNCHANGED <<completions, pipe, owner, stopping, ready, lost>>

\* nomo_async_tcp_connect_resume: the frame at the head of the ready queue.
\* The timer is looked at first, its flag and then the clock.
TimedOut(c) ==
    /\ conn[c].timer # "off"
    /\ CancelConnects({c})
    /\ UNCHANGED lost

\* nomo_async_resolver_take, or the error when there is nothing to take.
Take(c) ==
    LET s == conn[c].slot
    IN /\ conn[c].timer # "expired" /\ conn[c].ready
       /\ conn' = [conn EXCEPT ![c] = IdleConnect]
       /\ IF jobs[s].gen = conn[c].gen /\ jobs[s].state = "delivered"
          THEN /\ jobs' = [jobs EXCEPT ![s] = Released(s)]
               /\ activeJobs' = activeJobs - 1
               /\ wake' = WakeFor(activeJobs - 1)
               /\ UNCHANGED lost
          ELSE lost' = TRUE /\ UNCHANGED <<jobs, activeJobs, wake>>
       /\ UNCHANGED queue

StaysPending(c) ==
    /\ conn[c].timer # "expired" /\ ~conn[c].ready
    /\ UNCHANGED <<jobs, queue, activeJobs, wake, conn, lost>>

ConnectResume(c) ==
    /\ owner = "frames" /\ IsHead(ready, c)
    /\ ready' = Unlink(ready, {c})
    /\ TimedOut(c) \/ Take(c) \/ StaysPending(c)
    /\ UNCHANGED <<completions, generation, worker, pipe, owner, stopping>>

\* The frame of c is cancelled by another frame.
ConnectCancel(c) ==
    /\ owner = "frames" /\ conn[c].resolving
    /\ CancelConnects({c})
    /\ ready' = Unlink(ready, {c})
    /\ UNCHANGED <<completions, generation, worker, pipe, owner, stopping,
                   lost>>

-----------------------------------------------------------------------------
(* The owner thread with an empty ready queue: nomo_async_wait_next.       *)

TimerExpire(c) ==
    /\ owner = "frames" /\ ready = {} /\ conn[c].timer = "armed"
    /\ conn' = [conn EXCEPT ![c].timer = "expired"]
    /\ ready' = LinkTail(ready, c)
    /\ UNCHANGED <<poolVars, worker, pipe, wake, owner, stopping, lost>>

\* The reactor reports the pipe, which disarms the one-shot registration, and
\* nomo_async_resolver_pool_completion_wake drains it.
CompletionWake ==
    /\ owner = "frames" /\ ready = {} /\ wake = "armed" /\ pipe > 0
    /\ wake' = "fired"
    /\ pipe' = 0
    /\ owner' = "delivering"
    /\ UNCHANGED <<poolVars, worker, stopping, conn, ready, lost>>

\* nomo_async_tcp_resolver_complete: only a registration that still waits for
\* this slot and generation is woken.
Completes(c, s) ==
    /\ conn[c].resolving /\ conn[c].slot = s /\ conn[c].gen = jobs[s].gen

\* One completion: a finished job's registration is called back, a cancelled
\* job is released.
DeliverOne(s) ==
    /\ owner = "delivering" /\ IsHead(completions, s)
    /\ completions' = Unlink(completions, {s})
    /\ \/ /\ jobs[s].state = "completed"
          /\ jobs' = [jobs EXCEPT ![s].state = "delivered"]
          /\ LET c == jobs[s].owner
             IN IF Completes(c, s)
                THEN /\ conn' = [conn EXCEPT ![c].ready = TRUE]
                     /\ ready' = LinkTail(ready, c)
                ELSE UNCHANGED <<conn, ready>>
          /\ UNCHANGED activeJobs
       \/ /\ jobs[s].state = "cancelled"
          /\ jobs' = [jobs EXCEPT ![s] = Released(s)]
          /\ activeJobs' = activeJobs - 1
          /\ UNCHANGED <<conn, ready>>
    /\ UNCHANGED <<queue, generation, worker, pipe, wake, owner, stopping,
                   lost>>

\* The completion ring is empty: go on to the registration.
DeliverDone ==
    /\ owner = "delivering" /\ completions = {}
    /\ owner' = "rearming"
    /\ UNCHANGED <<poolVars, worker, pipe, wake, stopping, conn, ready, lost>>

\* Mutant of Rearm: the one-shot registration of a busy pool stays disarmed.
RearmIdleOnly ==
    /\ owner = "rearming"
    /\ wake' = IF activeJobs = 0 THEN "off" ELSE wake
    /\ owner' = "frames"
    /\ UNCHANGED <<poolVars, worker, pipe, stopping, conn, ready, lost>>

\* Deregister an idle pool, register a busy one again.
Rearm ==
    /\ owner = "rearming"
    /\ wake' = IF activeJobs = 0 THEN "off" ELSE "armed"
    /\ owner' = "frames"
    /\ UNCHANGED <<poolVars, worker, pipe, stopping, conn, ready, lost>>

-----------------------------------------------------------------------------
(* The end: nomo_async_blocking_pool_shutdown after run_root.              *)

\* run_root returns when nothing is ready, no timer is armed and nothing is
\* registered; a panic makes it return at once and cancels every frame.
RunRootReturns ==
    \/ /\ ready = {} /\ wake = "off"
       /\ \A c \in Connects : conn[c].timer # "armed"
       /\ UNCHANGED <<jobs, queue, activeJobs, wake, conn, ready>>
    \/ /\ CancelConnects(Connects)
       /\ ready' = {}

Shutdown ==
    /\ owner = "frames"
    /\ RunRootReturns
    /\ stopping' = TRUE
    /\ worker' = Signalled
    /\ owner' = "joining"
    /\ UNCHANGED <<completions, generation, pipe, lost>>

\* pthread_join, then the registration and the pool go away.
Join ==
    /\ owner = "joining" /\ worker.pc = "exited"
    /\ wake' = "off"
    /\ owner' = "stopped"
    /\ UNCHANGED <<poolVars, worker, pipe, stopping, conn, ready, lost>>

-----------------------------------------------------------------------------
(* The worker thread: nomo_async_resolver_worker.                          *)

WorkerSleep ==
    /\ worker.pc = "ready" /\ queue = {} /\ ~stopping
    /\ worker' = [worker EXCEPT !.pc = "asleep"]
    /\ UNCHANGED <<poolVars, pipe, wake, owner, stopping, conn, ready, lost>>

\* pthread_cond_wait may return without a signal.
WorkerWakesSpuriously ==
    /\ worker.pc = "asleep"
    /\ worker' = [worker EXCEPT !.pc = "ready"]
    /\ UNCHANGED <<poolVars, pipe, wake, owner, stopping, conn, ready, lost>>

WorkerExit ==
    /\ worker.pc = "ready" /\ queue = {} /\ stopping
    /\ worker' = [worker EXCEPT !.pc = "exited"]
    /\ UNCHANGED <<poolVars, pipe, wake, owner, stopping, conn, ready, lost>>

\* Take the oldest job and copy its host; a slot that is not queued any more
\* is skipped.
WorkerTake(s) ==
    /\ worker.pc = "ready" /\ IsHead(queue, s)
    /\ queue' = Unlink(queue, {s})
    /\ IF jobs[s].state = "queued"
       THEN /\ jobs' = [jobs EXCEPT ![s].state = "running"]
            /\ worker' = [pc |-> "running", slot |-> s, host |-> jobs[s].host]
       ELSE UNCHANGED <<jobs, worker>>
    /\ UNCHANGED <<completions, activeJobs, generation, pipe, wake, owner,
                   stopping, conn, ready, lost>>

\* Mutant of WorkerPublish: no wake byte for a cancelled job.
WorkerPublishQuietly ==
    LET s == worker.slot
        cancelled == jobs[s].state = "cancelled_running"
    IN /\ worker.pc = "running"
       /\ jobs' = [jobs EXCEPT ![s].state =
                       IF cancelled THEN "cancelled" ELSE "completed"]
       /\ worker' = [worker EXCEPT !.pc = IF cancelled THEN "ready"
                                                       ELSE "writing"]
       /\ completions' = LinkTail(completions, s)
       /\ UNCHANGED <<queue, activeJobs, generation, pipe, wake, owner,
                      stopping, conn, ready, lost>>

\* Mutant of WorkerPublish: the answer is stored whatever became of the job.
WorkerPublishUnchecked ==
    LET s == worker.slot
    IN /\ worker.pc = "running"
       /\ jobs' = [jobs EXCEPT ![s].state = "completed",
                               ![s].answer = worker.host]
       /\ worker' = [worker EXCEPT !.pc = "writing"]
       /\ completions' = LinkTail(completions, s)
       /\ UNCHANGED <<queue, activeJobs, generation, pipe, wake, owner,
                      stopping, conn, ready, lost>>

\* getaddrinfo has returned: store the answer, unless the job was cancelled,
\* and append the slot to the completions.  A full ring ends the worker.
WorkerPublish ==
    LET s == worker.slot
    IN /\ worker.pc = "running"
       /\ jobs' = [jobs EXCEPT ![s] =
                     CASE @.state = "running" ->
                            [@ EXCEPT !.state = "completed",
                                      !.answer = worker.host]
                       [] @.state = "cancelled_running" ->
                            [@ EXCEPT !.state = "cancelled"]
                       [] OTHER -> @]
       /\ IF Cardinality(Waiters(completions)) = Capacity
          THEN /\ worker' = [worker EXCEPT !.pc = "exited"]
               /\ UNCHANGED completions
          ELSE /\ worker' = [worker EXCEPT !.pc = "writing"]
               /\ completions' = LinkTail(completions, s)
       /\ UNCHANGED <<queue, activeJobs, generation, pipe, wake, owner,
                      stopping, conn, ready, lost>>

\* The wake byte, written without the lock; a full pipe drops it.
WorkerWrite ==
    /\ worker.pc = "writing"
    /\ worker' = [worker EXCEPT !.pc = "ready"]
    /\ pipe' = IF pipe = PipeCapacity THEN pipe ELSE pipe + 1
    /\ UNCHANGED <<poolVars, wake, owner, stopping, conn, ready, lost>>

-----------------------------------------------------------------------------

Worker ==
    \/ WorkerSleep \/ WorkerExit \/ WorkerPublish \/ WorkerWrite
    \/ \E s \in Slots : WorkerTake(s)

Delivery ==
    \/ CompletionWake \/ DeliverDone \/ Rearm
    \/ \E s \in Slots : DeliverOne(s)

Next ==
    \/ \E c \in Connects : \/ ConnectStart(c) \/ ConnectResume(c)
                           \/ ConnectCancel(c) \/ TimerExpire(c)
    \/ Delivery \/ Shutdown \/ Join
    \/ Worker \/ WorkerWakesSpuriously

\* The worker runs whenever it can (getaddrinfo returns), the executor polls
\* ready frames and serves the reactor.  Nothing is assumed about timers,
\* cancellations or new connects.
Fairness ==
    /\ WF_vars(Worker)
    /\ WF_vars(Delivery)
    /\ WF_vars(Join)
    /\ WF_vars(\E c \in Connects : ConnectResume(c))

Spec == Init /\ [][Next]_vars /\ Fairness

-----------------------------------------------------------------------------
(* Properties.                                                             *)

States == {"free", "queued", "running", "completed", "delivered",
           "cancelled_running", "cancelled"}

JobRecords ==
    [state : States, gen : 0 .. MaxGeneration, host : Connects \cup {NoConnect},
     answer : Connects \cup {NoConnect}, owner : Connects \cup {NoConnect}]

WorkerRecords ==
    [pc : {"ready", "asleep", "running", "writing", "exited"}, slot : Slots,
     host : Connects \cup {NoConnect}]

ConnectRecords ==
    [resolving : BOOLEAN, ready : BOOLEAN, timer : {"off", "armed", "expired"},
     slot : Slots, gen : 0 .. MaxGeneration]

\* Every variable has its type; the generation stays within its width.
TypeOK ==
    /\ jobs \in [Slots -> JobRecords]
    /\ queue \subseteq Slots \X Slots
    /\ completions \subseteq Slots \X Slots
    /\ activeJobs \in 0 .. Capacity
    /\ generation \in 0 .. MaxGeneration
    /\ worker \in WorkerRecords
    /\ pipe \in 0 .. PipeCapacity
    /\ wake \in {"off", "armed", "fired"}
    /\ owner \in {"frames", "delivering", "rearming", "joining", "stopped"}
    /\ stopping \in BOOLEAN
    /\ conn \in [Connects -> ConnectRecords]
    /\ ready \subseteq Connects \X Connects
    /\ lost \in BOOLEAN

\* The slot the worker is resolving for.
HeldByWorker(s) == worker.pc = "running" /\ worker.slot = s

\* Each slot is where its state says and nowhere else: queued slots in the
\* queue, running ones (cancelled or not) with the worker, finished ones in
\* the completion ring.  So no slot is handed out while the worker uses it,
\* and the ring cannot overflow, which would silently end the worker.
SlotsAccounted ==
    /\ \A s \in Slots :
          /\ s \in Waiters(queue) <=> jobs[s].state = "queued"
          /\ HeldByWorker(s) <=>
                jobs[s].state \in {"running", "cancelled_running"}
          /\ s \in Waiters(completions) <=>
                jobs[s].state \in {"completed", "cancelled"}
    /\ worker.pc = "exited" => stopping

\* "exact lifecycle counters": active_jobs, which decides whether the pool is
\* deregistered, is the number of slots in use.
ActiveExact == activeJobs = Cardinality({s \in Slots : ~Free(s)})

\* Every job that is not cancelled has exactly its registration waiting for it
\* and every waiting registration has its job, so no callback is ignored by
\* nomo_async_tcp_resolver_complete and none reaches a registration that was
\* cancelled and used again.
ClientsMatch ==
    /\ \A c \in Connects :
          conn[c].resolving =>
              LET j == jobs[conn[c].slot]
              IN /\ j.owner = c /\ j.gen = conn[c].gen
                 /\ j.state \in {"queued", "running", "completed",
                                 "delivered"}
                 /\ conn[c].ready <=> j.state = "delivered"
                 /\ conn[c].ready => c \in Waiters(ready)
    /\ \A s \in Slots :
          jobs[s].owner # NoConnect =>
              conn[jobs[s].owner].resolving /\ conn[jobs[s].owner].slot = s

\* No completion is stranded: while the frames run, a finished job has a byte
\* in the pipe or the worker about to write one, and the pipe is watched as
\* long as, and only as long as, jobs are outstanding.
NoLostWake ==
    owner = "frames" =>
        /\ completions # {} => pipe > 0 \/ worker.pc = "writing"
        /\ wake = IF activeJobs = 0 THEN "off" ELSE "armed"

\* The addresses a registration takes are those of the host it asked for,
\* even when slots are cancelled, released and reused while the worker is in
\* getaddrinfo.
RightAnswer ==
    \A s \in Slots :
        jobs[s].state \in {"completed", "delivered"} =>
            jobs[s].answer = jobs[s].owner

\* The error "bounded resolver completion was lost" is never reported.
CompletionNotLost == ~lost

\* Every member of a list is at or before itself.
Reflexive(q) == \A r \in Waiters(q) : <<r, r>> \in q

\* What ties a slot to the threads: a job has an owner until it is cancelled or
\* released, the worker resolves the host its owner asked for, and between the
\* last delivery and the rearming every new completion brings its own byte.
Bookkeeping ==
    /\ Reflexive(queue) /\ Reflexive(completions) /\ Reflexive(ready)
    /\ \A s \in Slots :
          /\ jobs[s].owner = NoConnect <=>
                jobs[s].state \in {"free", "cancelled_running", "cancelled"}
          /\ jobs[s].state = "queued" => jobs[s].host = jobs[s].owner
          /\ jobs[s].state = "running" => worker.host = jobs[s].owner
    /\ \A c \in Connects : conn[c].ready => conn[c].resolving
    /\ owner = "rearming" /\ completions # {} =>
           pipe > 0 \/ worker.pc = "writing"

\* The inductive invariant.
Inductive ==
    /\ TypeOK
    /\ SlotsAccounted
    /\ ActiveExact
    /\ ClientsMatch
    /\ NoLostWake
    /\ RightAnswer
    /\ CompletionNotLost
    /\ Bookkeeping

\* Unless timers expire forever, every lookup ends without the help of its
\* own timer: the worker finishes, the pipe wakes the reactor, the completion
\* is delivered and the frame is polled.
LookupEnds ==
    (<>[][\A c \in Connects : ~TimerExpire(c)]_vars) =>
        \A c \in Connects : conn[c].resolving ~> ~conn[c].resolving

\* "executor shutdown waits for that lookup's completion so the worker and
\* owner registration can be cleaned exactly once": once no connect is
\* pending, lookups that were cancelled while running do not keep the
\* executor alive forever.
ExecutorQuiesces ==
    (<>[](\A c \in Connects : ~conn[c].resolving)) =>
        <>[](wake = "off" \/ owner = "joining")

\* pthread_join returns: a stopping worker is woken, finishes what it runs and
\* exits.
ShutdownEnds == owner = "joining" ~> owner = "stopped"

\* The executor can end: neither abandoned lookups nor the join of the worker
\* thread keep it.
PoolDrains == ExecutorQuiesces /\ ShutdownEnds
=============================================================================
