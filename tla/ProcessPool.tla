----------------------------- MODULE ProcessPool -----------------------------
(***************************************************************************)
(* The life of a child process in the Unix process runtime:                *)
(*   crates/nomo_codegen_c/src/runtime/host_async_process_unix.c           *)
(*                                                                         *)
(* Two threads share the pool under a mutex.  The owner runs the task      *)
(* frames and the reactor: it reserves a handle, submits a start job,      *)
(* takes the started child, watches it, closes it and at the end shuts the *)
(* runtime down.  The worker forks, kills and waits.  One action is one    *)
(* critical section, or one step outside the lock that the other thread    *)
(* can see.  The kernel's part is the state of each child: a child is      *)
(* running, then a zombie, and reaped by exactly one waitpid.  A pid is    *)
(* never given out twice here, so a signal or a wait for a pid that was    *)
(* already reaped is visible (stale).                                      *)
(*                                                                         *)
(* The pipes of a child and its events are the subject of ProcessEvents.   *)
(***************************************************************************)
EXTENDS Integers, FiniteSets, Sequences

CONSTANTS
    Tasks,            \* tasks that start children
    HandleCapacity,   \* NOMO_ASYNC_PROCESS_HANDLE_CAPACITY
    JobCapacity,      \* NOMO_ASYNC_PROCESS_JOB_CAPACITY
    StartCapacity,    \* NOMO_ASYNC_PROCESS_START_JOB_CAPACITY
    MaxStarts,        \* bound: starts submitted in one run
    NoTask,           \* no task
    Faults            \* which of "fork", "timer", "register", "pidfd" may fail

ASSUME HandleCapacityAssumption == HandleCapacity \in Nat \ {0}
ASSUME JobCapacityAssumption == JobCapacity \in Nat \ {0}
ASSUME StartCapacityAssumption == StartCapacity \in 1 .. JobCapacity
ASSUME MaxStartsAssumption == MaxStarts \in Nat \ {0}
ASSUME FaultsAssumption == Faults \subseteq {"fork", "timer", "register", "pidfd"}

Handles == 1 .. HandleCapacity
Jobs == 1 .. JobCapacity
Pids == 1 .. MaxStarts
NoPid == 0                  \* pid -1
NoHandle == 0               \* a job of no handle

VARIABLES
    pool,       \* what the mutex protects
    wake,       \* wake_registration is active in the reactor
    pipe,       \* the wake pipe holds a byte
    worker,     \* the worker thread, its job and the pid it must clean up
    owner,      \* where the owner thread is
    handles,    \* the handle table
    nextGen,    \* next_handle_generation
    live,       \* live_process_handles
    regs,       \* regs[t]: the start registration in the frame of task t
    child,      \* child[t]: the ProcessChild that task t holds
    ready,      \* tasks whose frames are in the ready queue
    proc,       \* proc[p]: the kernel's view of a child
    stale,      \* a reaped pid was signalled or waited for
    lost        \* pids whose reap job was refused when their start was cancelled

vars == <<pool, wake, pipe, worker, owner, handles, nextGen, live, regs,
          child, ready, proc, stale, lost>>

-----------------------------------------------------------------------------

FreeJob(g) == [state |-> "free", gen |-> g, pid |-> NoPid,
               handle |-> NoHandle, hgen |-> 0]

FreeHandle(g) == [occupied |-> 0, gen |-> g, pid |-> NoPid, exited |-> FALSE,
                  source |-> "none", reaping |-> FALSE]

NoWatch == [active |-> FALSE, completed |-> FALSE, pid |-> NoPid,
            handle |-> NoHandle, hgen |-> 0]

NoReg == [kind |-> "none", job |-> 1, jgen |-> 0, handle |-> 1, hgen |-> 0,
          timer |-> "off", active |-> FALSE, ready |-> FALSE]

NoChild == [handle |-> NoHandle, gen |-> 0]

Init ==
    /\ pool = [jobs |-> [j \in Jobs |-> FreeJob(0)], queue |-> <<>>,
               done |-> <<>>, gen |-> 0, active |-> 0, starts |-> 0,
               watches |-> [w \in Handles |-> NoWatch], watching |-> 0,
               stopping |-> FALSE]
    /\ wake = FALSE
    /\ pipe = FALSE
    /\ worker = [pc |-> "none", job |-> 1, pid |-> NoPid]
    /\ owner = [at |-> "frames", task |-> NoTask]
    /\ handles = [h \in Handles |-> FreeHandle(0)]
    /\ nextGen = 0
    /\ live = 0
    /\ regs = [t \in Tasks |-> NoReg]
    /\ child = [t \in Tasks |-> NoChild]
    /\ ready = {}
    /\ proc = [p \in Pids |-> "unused"]
    /\ stale = FALSE
    /\ lost = {}

-----------------------------------------------------------------------------
(* The kernel: kill and waitpid.                                           *)

Down(n) == IF n > 0 THEN n - 1 ELSE 0

Gone(p) == proc[p] = "reaped"

\* waitpid(WNOHANG) finds the child dead, or finds no such child.
Waited(p) == proc[p] \in {"zombie", "reaped"}

Reaped(S) == [p \in Pids |-> IF p \in S THEN "reaped" ELSE proc[p]]

\* A child of this process ends by itself.
ChildExits(p) ==
    /\ proc[p] = "running"
    /\ proc' = [proc EXCEPT ![p] = "zombie"]
    /\ UNCHANGED <<pool, wake, pipe, worker, owner, handles, nextGen, live,
                   regs, child, ready, stale, lost>>

-----------------------------------------------------------------------------
(* Operations on the pool.  Each takes the pool as it is and gives the pool*)
(* as it will be.                                                          *)

StartStates == {"start_queued", "start_running", "start_completed",
                "start_delivered", "start_cancelled"}

\* nomo_async_process_job_release_locked.  The generation stays in the slot.
Release(p, j) ==
    [p EXCEPT !.jobs[j] = FreeJob(p.jobs[j].gen),
              !.active = Down(@),
              !.starts = IF p.jobs[j].state \in StartStates THEN Down(@) ELSE @]

FreeJobs(p) == {j \in Jobs : p.jobs[j].state = "free"}

First(S) == CHOOSE x \in S : \A y \in S : x <= y

\* nomo_async_process_remove_queued_locked.
Without(q, j) ==
    LET i == First({k \in DOMAIN q : q[k] = j})
    IN  IF \A k \in DOMAIN q : q[k] # j THEN q
        ELSE SubSeq(q, 1, i - 1) \o SubSeq(q, i + 1, Len(q))

StartFits(p) == FreeJobs(p) # {} /\ p.starts < StartCapacity

\* The job that submit_start and submit_reap put in the first free slot.
Submitted(p, job) ==
    LET j == First(FreeJobs(p)) IN
    [p EXCEPT !.gen = @ + 1,
              !.jobs[j] = [job EXCEPT !.gen = p.gen + 1],
              !.queue = Append(@, j),
              !.active = @ + 1]

StartJob == [FreeJob(0) EXCEPT !.state = "start_queued"]

ReapJob(pid, h, g) == [FreeJob(0) EXCEPT !.state = "reap_queued", !.pid = pid,
                                         !.handle = h, !.hgen = g]

\* nomo_async_process_pool_submit_reap: a reap needs the wake registration
\* and a free job, and no room among the starts.
ReapFits(p, registered) == registered /\ FreeJobs(p) # {}

Reaping(p, registered, pid, h, g) ==
    IF ReapFits(p, registered) THEN Submitted(p, ReapJob(pid, h, g)) ELSE p

\* nomo_async_process_pool_ensure_wake: whether the pipe is registered after it.
EnsureWake == IF wake THEN {TRUE}
              ELSE IF "register" \in Faults THEN BOOLEAN ELSE {TRUE}

\* nomo_async_process_pool_maybe_idle: the registration stays while a job or
\* a watch is outstanding.
Idle(p, registered) == registered /\ ~(p.active = 0 /\ p.watching = 0)

\* Mutant of Signalled: the worker is created and never signalled.
SignalledLate == IF worker.pc = "none" THEN [worker EXCEPT !.pc = "top"] ELSE worker

\* pthread_cond_signal, and pthread_create the first time the pool is used.
Signalled == CASE worker.pc \in {"waiting", "polling"} -> [worker EXCEPT !.pc = "woken"]
               [] worker.pc = "none" -> [worker EXCEPT !.pc = "top"]
               [] OTHER -> worker

NoPool == worker.pc = "none"

\* nomo_async_process_pool_cancel_start under the lock: a queued job leaves
\* the queue, a running one is left to the worker, a finished one stays until
\* its completion comes round.
CancelJob(p, j) ==
    CASE p.jobs[j].state = "start_queued" ->
            Release([p EXCEPT !.queue = Without(@, j)], j)
      [] p.jobs[j].state = "start_running" ->
            [p EXCEPT !.jobs[j].state = "start_cancelled"]
      [] p.jobs[j].state = "start_completed" ->
            [p EXCEPT !.jobs[j].state = "start_cancelled", !.jobs[j].pid = NoPid]
      [] p.jobs[j].state = "start_delivered" -> Release(p, j)
      [] OTHER -> p

\* The child that a cancelled start leaves to a reap job.
CleanupPid(p, j) ==
    IF p.jobs[j].state \in {"start_completed", "start_delivered"}
    THEN p.jobs[j].pid ELSE NoPid

\* nomo_async_process_pool_cancel_start: the result of the reap submission is
\* ignored, so a child whose reap was refused is lost.
CancelStart(r) ==
    LET same == pool.jobs[r.job].gen = r.jgen
        p == CancelJob(pool, r.job)
        pid == CleanupPid(pool, r.job)
    IN  IF ~same THEN UNCHANGED <<pool, wake, worker, lost>>
        ELSE IF pid = NoPid
        THEN /\ pool' = p
             /\ wake' = Idle(p, wake)
             /\ UNCHANGED <<worker, lost>>
        ELSE \E registered \in EnsureWake :
                /\ pool' = Reaping(p, registered, pid, NoHandle, 0)
                /\ wake' = Idle(pool', registered)
                /\ worker' = IF ReapFits(p, registered) THEN Signalled ELSE worker
                /\ lost' = IF ReapFits(p, registered) THEN lost
                           ELSE lost \cup {pid}

\* Mutant of ReleaseReserved: the handle of a start that failed stays reserved.
ReservedForGood(hs, r) == hs

\* nomo_async_process_release_reserved: only a handle that got no child.
ReleaseReserved(hs, r) ==
    IF hs[r.handle].occupied = 1 /\ hs[r.handle].gen = r.hgen
          /\ hs[r.handle].pid = NoPid
    THEN [hs EXCEPT ![r.handle] = FreeHandle(r.hgen)] ELSE hs

-----------------------------------------------------------------------------
(* A task starts a child.                                                  *)

\* nomo_async_process_sweep_closing looks again at the children that were
\* closed when no reap job could be had.
Swept == {h \in Handles : /\ handles[h].occupied = 2
                          /\ ~handles[h].reaping
                          /\ handles[h].pid # NoPid
                          /\ Waited(handles[h].pid)}

\* nomo_async_process_spawn_start up to the submission of the start job.
SpawnStart(t) ==
    /\ owner.at = "frames"
    /\ regs[t].kind = "none" /\ child[t] = NoChild
    /\ nextGen < MaxStarts
    /\ LET pids == {handles[h].pid : h \in Swept}
           hs == [h \in Handles |-> IF h \in Swept THEN FreeHandle(handles[h].gen)
                                    ELSE handles[h]]
           free == {h \in Handles : hs[h].occupied = 0}
           h == First(free)
       IN  /\ proc' = Reaped(pids)
           /\ stale' = (stale \/ \E p \in pids : Gone(p))
           /\ \/ /\ free = {}
                 /\ handles' = hs
                 /\ UNCHANGED <<pool, wake, worker, owner, nextGen, regs>>
              \/ /\ free # {}
                 /\ nextGen' = nextGen + 1
                 /\ \E registered \in EnsureWake :
                       LET fits == registered /\ StartFits(pool) IN
                       /\ wake' = registered
                       /\ worker' = IF fits \/ NoPool THEN Signalled ELSE worker
                       /\ IF fits
                          THEN /\ pool' = [Submitted(pool, StartJob)
                                              EXCEPT !.starts = @ + 1]
                               /\ handles' = [hs EXCEPT ![h] =
                                     [FreeHandle(nextGen + 1) EXCEPT !.occupied = 1]]
                               /\ regs' = [regs EXCEPT ![t] =
                                     [NoReg EXCEPT !.kind = "start",
                                        !.job = First(FreeJobs(pool)),
                                        !.jgen = pool.gen + 1,
                                        !.handle = h, !.hgen = nextGen + 1]]
                               /\ owner' = [at |-> "arm", task |-> t]
                          ELSE /\ handles' = [hs EXCEPT ![h] = FreeHandle(nextGen + 1)]
                               /\ UNCHANGED <<pool, regs, owner>>
    /\ UNCHANGED <<pipe, live, child, ready, lost>>

\* nomo_async_process_spawn_start from the timer on.
ArmTimer ==
    /\ owner.at = "arm"
    /\ LET t == owner.task IN
       /\ owner' = [at |-> "frames", task |-> NoTask]
       /\ \/ /\ regs' = [regs EXCEPT ![t].timer = "armed", ![t].active = TRUE]
             /\ UNCHANGED <<pool, wake, worker, lost, handles>>
          \/ /\ "timer" \in Faults
             /\ CancelStart(regs[t])
             /\ handles' = ReleaseReserved(handles, regs[t])
             /\ regs' = [regs EXCEPT ![t] = NoReg]
    /\ UNCHANGED <<pipe, nextGen, live, child, ready, proc, stale>>

\* nomo_async_wait_next: the deadline of a start.  The executor looks at its
\* timers and its reactor when no frame is ready.
TimerExpires(t) ==
    /\ owner.at = "frames" /\ ready = {}
    /\ regs[t].timer = "armed"
    /\ regs' = [regs EXCEPT ![t].timer = "expired"]
    /\ ready' = {t}
    /\ UNCHANGED <<pool, wake, pipe, worker, owner, handles, nextGen, live,
                   child, proc, stale, lost>>

Expired(r) == r.timer = "expired"

\* nomo_async_process_pool_watch for the child of handle h.
Watched(p, pid, h, g) ==
    LET w == First({v \in Handles : ~p.watches[v].active}) IN
    [p EXCEPT !.watches[w] = [active |-> TRUE, completed |-> FALSE, pid |-> pid,
                              handle |-> h, hgen |-> g],
              !.watching = @ + 1]

\* A child that cannot be watched is given to a reap job or killed at once.
ReapUnwatched(p, w, pid, r) ==
    \E registered \in (IF w THEN {TRUE} ELSE BOOLEAN) :
        LET fits == ReapFits(p, registered) IN
        /\ pool' = Reaping(p, registered, pid, r.handle, r.hgen)
        /\ wake' = registered
        /\ worker' = IF fits THEN Signalled ELSE worker
        /\ proc' = IF ~fits /\ proc[pid] = "running"
                   THEN [proc EXCEPT ![pid] = "zombie"] ELSE proc
        /\ handles' = [handles EXCEPT ![r.handle].pid = pid,
                                      ![r.handle].occupied = 2,
                                      ![r.handle].reaping = fits]
        /\ UNCHANGED <<child, live>>

\* nomo_async_process_spawn_resume with a started child: it is watched by a
\* pidfd or kqueue, or by the worker.
Attach(p, w, t, pid, r) ==
    \/ /\ handles' = [handles EXCEPT ![r.handle].pid = pid,
                                     ![r.handle].source = "reactor"]
       /\ child' = [child EXCEPT ![t] = [handle |-> r.handle, gen |-> r.hgen]]
       /\ live' = live + 1
       /\ pool' = p /\ wake' = w
       /\ UNCHANGED <<worker, proc>>
    \/ /\ "pidfd" \in Faults
       /\ \E registered \in (IF w \/ "register" \notin Faults THEN {TRUE} ELSE BOOLEAN) :
            IF registered
            THEN /\ pool' = Watched(p, pid, r.handle, r.hgen)
                 /\ wake' = TRUE
                 /\ worker' = Signalled
                 /\ handles' = [handles EXCEPT ![r.handle].pid = pid,
                                               ![r.handle].source = "worker"]
                 /\ child' = [child EXCEPT ![t] = [handle |-> r.handle, gen |-> r.hgen]]
                 /\ live' = live + 1
                 /\ UNCHANGED proc
            ELSE ReapUnwatched(p, w, pid, r)

\* nomo_async_process_spawn_resume.
SpawnResume(t) ==
    LET r == regs[t]
        job == pool.jobs[r.job]
        taken == job.gen = r.jgen /\ job.state = "start_delivered"
        p == Release(pool, r.job)
    IN
    /\ owner.at = "frames" /\ t \in ready
    /\ r.kind = "start"
    /\ ready' = ready \ {t}
    /\ regs' = [regs EXCEPT ![t] = NoReg]
    /\ \/ /\ Expired(r)
          /\ CancelStart(r)
          /\ handles' = ReleaseReserved(handles, r)
          /\ UNCHANGED <<live, child, proc>>
       \/ /\ ~Expired(r) /\ r.ready /\ (~taken \/ job.pid = NoPid)
          /\ pool' = IF taken THEN p ELSE pool
          /\ wake' = IF taken THEN Idle(p, wake) ELSE wake
          /\ handles' = ReleaseReserved(handles, r)
          /\ UNCHANGED <<worker, live, child, proc, lost>>
       \/ /\ ~Expired(r) /\ r.ready /\ taken /\ job.pid # NoPid
          /\ Attach(p, Idle(p, wake), t, job.pid, r)
          /\ UNCHANGED lost
    /\ UNCHANGED <<pipe, owner, nextGen, stale>>

\* nomo_async_process_cancel of a start: another frame cancels the task.
CancelTask(t) ==
    /\ owner.at = "frames"
    /\ regs[t].kind = "start"
    /\ CancelStart(regs[t])
    /\ handles' = ReleaseReserved(handles, regs[t])
    /\ regs' = [regs EXCEPT ![t] = NoReg]
    /\ ready' = ready \ {t}
    /\ UNCHANGED <<pipe, owner, nextGen, live, child, proc, stale>>

-----------------------------------------------------------------------------
(* A task uses its child.                                                  *)

\* nomo_async_process_handle_find.
Found(t) == LET h == child[t].handle IN
    /\ child[t] # NoChild
    /\ handles[h].occupied = 1 /\ handles[h].gen = child[t].gen
    /\ handles[h].pid # NoPid

\* nomo_async_process_update_exit: the owner waits only for children that the
\* reactor watches.
UpdatesExit(s) == ~s.exited /\ s.source = "reactor" /\ Waited(s.pid)

\* The exit is seen by an operation of the owner (try_wait, terminate, next_event).
ObserveExit(t) ==
    /\ owner.at = "frames" /\ regs[t].kind = "none" /\ Found(t)
    /\ LET h == child[t].handle IN
       /\ UpdatesExit(handles[h])
       /\ handles' = [handles EXCEPT ![h].exited = TRUE]
       /\ proc' = Reaped({handles[h].pid})
       /\ stale' = (stale \/ Gone(handles[h].pid))
    /\ UNCHANGED <<pool, wake, pipe, worker, owner, nextGen, live, regs, child,
                   ready, lost>>

\* terminate: a child not known to have ended is killed.  The owner cannot know
\* yet that the worker has waited for a child it watches; stale leaves this
\* window out, the README names it.
Terminate(t) ==
    /\ owner.at = "frames" /\ regs[t].kind = "none" /\ Found(t)
    /\ LET s == handles[child[t].handle] IN
       /\ ~UpdatesExit(s) /\ ~s.exited
       /\ proc' = [proc EXCEPT ![s.pid] = IF @ = "running" THEN "zombie" ELSE @]
       /\ stale' = (stale \/ (Gone(s.pid) /\ s.source # "worker"))
    /\ UNCHANGED <<pool, wake, pipe, worker, owner, handles, nextGen, live,
                   regs, child, ready, lost>>

\* nomo_async_process_event_arm: kqueue refuses a child that is ending, and the
\* worker watches it instead.
WatchInstead(t) ==
    /\ owner.at = "frames" /\ regs[t].kind = "none" /\ Found(t)
    /\ "pidfd" \in Faults
    /\ LET h == child[t].handle IN
       /\ handles[h].source = "reactor" /\ ~handles[h].exited
       /\ \E registered \in EnsureWake :
            /\ registered
            /\ pool' = Watched(pool, handles[h].pid, h, handles[h].gen)
            /\ wake' = TRUE
       /\ worker' = Signalled
       /\ handles' = [handles EXCEPT ![h].source = "worker"]
    /\ UNCHANGED <<pipe, owner, nextGen, live, regs, child, ready, proc, stale, lost>>

WatchesOf(p, s) == {w \in Handles : /\ p.watches[w].active
                                    /\ p.watches[w].pid = s.pid
                                    /\ p.watches[w].hgen = s.gen}

\* nomo_async_process_pool_unwatch.
Unwatched(p, s) ==
    IF WatchesOf(p, s) = {} THEN p
    ELSE [p EXCEPT !.watches[First(WatchesOf(p, s))] = NoWatch,
                   !.watching = Down(@)]

\* Whether the child of s needs no more waiting for, once it is unwatched.
ExitKnown(p, s) ==
    \/ s.exited
    \/ UpdatesExit(s)
    \/ s.source = "worker" /\ \E w \in WatchesOf(p, s) : p.watches[w].completed

\* nomo_async_process_handle_close: close never waits.  A child that is not
\* known to have ended is given to a reap job; without one it is killed and
\* its handle is swept later.
Close(t) ==
    /\ owner.at = "frames" /\ regs[t].kind = "none" /\ Found(t)
    /\ LET h == child[t].handle
           s == handles[h]
           p == IF s.source = "worker" THEN Unwatched(pool, s) ELSE pool
           w == IF s.source = "worker" THEN Idle(p, wake) ELSE wake
           unwatching == p # pool
       IN  IF ExitKnown(pool, s)
           THEN /\ handles' = [handles EXCEPT ![h] = FreeHandle(s.gen)]
                /\ proc' = IF UpdatesExit(s) THEN Reaped({s.pid}) ELSE proc
                /\ stale' = (stale \/ (UpdatesExit(s) /\ Gone(s.pid)))
                /\ pool' = p
                /\ wake' = w
                /\ worker' = IF unwatching THEN Signalled ELSE worker
           ELSE \E registered \in (IF w \/ "register" \notin Faults THEN {TRUE} ELSE BOOLEAN) :
                /\ pool' = Reaping(p, registered, s.pid, h, s.gen)
                /\ wake' = registered
                /\ worker' = IF unwatching \/ ReapFits(p, registered)
                             THEN Signalled ELSE worker
                /\ proc' = IF ~ReapFits(p, registered) /\ proc[s.pid] = "running"
                           THEN [proc EXCEPT ![s.pid] = "zombie"] ELSE proc
                /\ handles' = [handles EXCEPT ![h].occupied = 2,
                                              ![h].source = "none",
                                              ![h].reaping = ReapFits(p, registered)]
                /\ stale' = (stale \/ Gone(s.pid))
    /\ child' = [child EXCEPT ![t] = NoChild]
    /\ live' = Down(live)
    /\ UNCHANGED <<pipe, owner, nextGen, regs, ready, lost>>

\* A task ends, or is cancelled, without closing its child: the handle stays
\* until the shutdown.
Abandon(t) ==
    /\ owner.at = "frames" /\ regs[t].kind = "none" /\ child[t] # NoChild
    /\ child' = [child EXCEPT ![t] = NoChild]
    /\ UNCHANGED <<pool, wake, pipe, worker, owner, handles, nextGen, live, regs,
                   ready, proc, stale, lost>>

-----------------------------------------------------------------------------
(* The worker thread.                                                      *)

At(pc) == [worker EXCEPT !.pc = pc]

\* The worker waits: for ever when it watches no child, else for 10 ms.
WorkerWaits ==
    /\ worker.pc = "top"
    /\ pool.queue = <<>> /\ ~pool.stopping
    /\ worker' = At(IF pool.watching = 0 THEN "waiting" ELSE "polling")
    /\ UNCHANGED <<pool, wake, pipe, owner, handles, nextGen, live, regs, child,
                   ready, proc, stale, lost>>

\* nomo_async_process_scan_watches_locked.
Ended == {w \in Handles : /\ pool.watches[w].active /\ ~pool.watches[w].completed
                          /\ Waited(pool.watches[w].pid)}

\* After each wait the worker scans the watched children.
WorkerScans ==
    /\ worker.pc \in {"polling", "woken"}
    /\ LET pids == {pool.watches[w].pid : w \in Ended} IN
       /\ pool' = [pool EXCEPT !.watches =
                     [w \in Handles |-> IF w \in Ended
                        THEN [pool.watches[w] EXCEPT !.completed = TRUE]
                        ELSE pool.watches[w]]]
       /\ proc' = Reaped(pids)
       /\ stale' = (stale \/ \E p \in pids : Gone(p))
    /\ worker' = At(IF Ended = {} THEN "top" ELSE "signal")
    /\ UNCHANGED <<wake, pipe, owner, handles, nextGen, live, regs, child, ready,
                   lost>>

\* The worker takes the job at the head of the queue and passes over a slot
\* that holds no queued job.
WorkerTakes ==
    /\ worker.pc = "top" /\ pool.queue # <<>>
    /\ LET j == Head(pool.queue)
           rest == [pool EXCEPT !.queue = Tail(@)]
       IN  CASE pool.jobs[j].state = "start_queued" ->
                  /\ pool' = [rest EXCEPT !.jobs[j].state = "start_running"]
                  /\ worker' = [pc |-> "spawning", job |-> j, pid |-> NoPid]
             [] pool.jobs[j].state = "reap_queued" ->
                  /\ pool' = [rest EXCEPT !.jobs[j].state = "reap_running"]
                  /\ worker' = [pc |-> "reaping", job |-> j, pid |-> pool.jobs[j].pid]
             [] OTHER -> pool' = rest /\ UNCHANGED worker
    /\ UNCHANGED <<wake, pipe, owner, handles, nextGen, live, regs, child, ready,
                   proc, stale, lost>>

\* Mutant of Published: the worker does not look at the state again.
PublishedUnchecked(j, pid) ==
    [pool EXCEPT !.jobs[j].pid = pid,
                 !.jobs[j].state = "start_completed",
                 !.done = Append(@, j)]

\* What the worker stores when it holds the lock again.
Published(j, pid) ==
    IF pool.jobs[j].state = "start_running"
    THEN [pool EXCEPT !.jobs[j].pid = pid,
                      !.jobs[j].state = "start_completed",
                      !.done = Append(@, j)]
    ELSE [pool EXCEPT !.jobs[j].pid = NoPid,
                      !.jobs[j].state = "start_cancelled",
                      !.done = Append(@, j)]

\* nomo_async_process_spawn_blocking: the fork and the exec succeed, or nothing
\* is left of the child.
WorkerSpawns ==
    /\ worker.pc = "spawning"
    /\ \E pid \in {NoPid} \cup Pids :
         /\ IF pid = NoPid THEN "fork" \in Faults /\ UNCHANGED proc
            ELSE /\ proc[pid] = "unused" /\ \A p \in Pids : proc[p] = "unused" => pid <= p
                 /\ proc' = [proc EXCEPT ![pid] = "running"]
         /\ pool' = Published(worker.job, pid)
         /\ worker' = [At(IF pool.jobs[worker.job].state = "start_cancelled"
                          THEN "cleanup" ELSE "signal") EXCEPT !.pid = pid]
    /\ UNCHANGED <<wake, pipe, owner, handles, nextGen, live, regs, child, ready,
                   stale, lost>>

\* nomo_async_process_spawn_cleanup of a child whose start was cancelled.
WorkerCleansUp ==
    /\ worker.pc = "cleanup"
    /\ proc' = IF worker.pid = NoPid THEN proc ELSE Reaped({worker.pid})
    /\ worker' = [At("signal") EXCEPT !.pid = NoPid]
    /\ UNCHANGED <<pool, wake, pipe, owner, handles, nextGen, live, regs, child,
                   ready, stale, lost>>

\* The worker kills the child of a reap job and waits for it.
WorkerReaps ==
    /\ worker.pc = "reaping"
    /\ proc' = Reaped({worker.pid})
    /\ stale' = (stale \/ Gone(worker.pid))
    /\ pool' = [pool EXCEPT !.jobs[worker.job].pid = NoPid,
                            !.jobs[worker.job].state = "reap_completed",
                            !.done = Append(@, worker.job)]
    /\ worker' = [At("signal") EXCEPT !.pid = NoPid]
    /\ UNCHANGED <<wake, pipe, owner, handles, nextGen, live, regs, child, ready,
                   lost>>

\* nomo_async_process_signal_completion.
WorkerSignals ==
    /\ worker.pc = "signal"
    /\ pipe' = TRUE
    /\ worker' = [At("top") EXCEPT !.pid = NoPid]
    /\ UNCHANGED <<pool, wake, owner, handles, nextGen, live, regs, child, ready,
                   proc, stale, lost>>

\* The worker ends when the queue is empty.
WorkerEnds ==
    /\ worker.pc = "top" /\ pool.stopping /\ pool.queue = <<>>
    /\ worker' = At("done")
    /\ UNCHANGED <<pool, wake, pipe, owner, handles, nextGen, live, regs, child,
                   ready, proc, stale, lost>>

-----------------------------------------------------------------------------
(* The owner's reactor delivers what the worker finished.                  *)

\* nomo_async_process_pool_completion_wake: the pipe is drained first.
PoolWake ==
    /\ owner.at = "frames" /\ ready = {}
    /\ wake /\ pipe
    /\ pipe' = FALSE
    /\ owner' = [owner EXCEPT !.at = "drain"]
    /\ UNCHANGED <<pool, wake, worker, handles, nextGen, live, regs, child, ready,
                   proc, stale, lost>>

\* nomo_async_process_start_complete: the registrations of this very job.
Owners(j, g) == {t \in Tasks : regs[t].kind = "start" /\ regs[t].active
                               /\ regs[t].job = j /\ regs[t].jgen = g}

\* nomo_async_process_reap_complete.
ReapComplete(h, g) ==
    IF h # NoHandle /\ handles[h].occupied = 2 /\ handles[h].reaping
          /\ handles[h].gen = g
    THEN [handles EXCEPT ![h] = FreeHandle(g)] ELSE handles

\* One completion of nomo_async_process_pool_completion_wake, or the end of
\* the list.
DrainCompletion ==
    /\ owner.at = "drain"
    /\ \/ /\ pool.done = <<>>
          /\ owner' = [owner EXCEPT !.at = "watches"]
          /\ UNCHANGED <<pool, handles, regs, ready>>
       \/ /\ pool.done # <<>>
          /\ LET j == Head(pool.done)
                 p == [pool EXCEPT !.done = Tail(@)]
                 job == pool.jobs[j]
             IN  IF job.state = "start_completed"
                 THEN /\ pool' = [p EXCEPT !.jobs[j].state = "start_delivered"]
                      /\ regs' = [t \in Tasks |->
                            IF t \in Owners(j, job.gen)
                            THEN [regs[t] EXCEPT !.active = FALSE, !.ready = TRUE,
                                    !.timer = IF @ = "armed" THEN "off" ELSE @]
                            ELSE regs[t]]
                      /\ ready' = ready \cup Owners(j, job.gen)
                      /\ UNCHANGED handles
                 ELSE /\ pool' = Release(p, j)
                      /\ handles' = IF job.state = "reap_completed"
                                    THEN ReapComplete(job.handle, job.hgen)
                                    ELSE handles
                      /\ UNCHANGED <<regs, ready>>
          /\ UNCHANGED owner
    /\ UNCHANGED <<wake, pipe, worker, nextGen, live, child, proc, stale, lost>>

Completed == {w \in Handles : pool.watches[w].active /\ pool.watches[w].completed}

\* nomo_async_process_pool_deliver_watches: one watch, or the end of the table.
\* A child that was closed meanwhile, or a handle that was given out again, is
\* left alone.
DeliverWatch ==
    /\ owner.at = "watches"
    /\ \/ /\ Completed = {}
          /\ owner' = [owner EXCEPT !.at = "rearm"]
          /\ UNCHANGED <<pool, handles>>
       \/ /\ Completed # {}
          /\ LET w == First(Completed)
                 watch == pool.watches[w]
                 s == handles[watch.handle]
             IN  /\ pool' = [pool EXCEPT !.watches[w] = NoWatch,
                                         !.watching = Down(@)]
                 /\ handles' = IF s.occupied = 1 /\ s.gen = watch.hgen
                                     /\ s.pid = watch.pid /\ s.source = "worker"
                               THEN [handles EXCEPT ![watch.handle].exited = TRUE]
                               ELSE handles
          /\ UNCHANGED owner
    /\ UNCHANGED <<wake, pipe, worker, nextGen, live, regs, child, ready, proc,
                   stale, lost>>

\* Mutant of KeepsWake: only queued and finished jobs count.
KeepsWakeIfListed(p) == p.queue # <<>> \/ p.done # <<>> \/ p.watching # 0

KeepsWake(p) == ~(p.active = 0 /\ p.watching = 0)

\* The end of the wake: the one-shot registration is renewed while something
\* is outstanding.
RearmWake ==
    /\ owner.at = "rearm"
    /\ wake' = KeepsWake(pool)
    /\ owner' = [owner EXCEPT !.at = "frames"]
    /\ UNCHANGED <<pool, pipe, worker, handles, nextGen, live, regs, child, ready,
                   proc, stale, lost>>

-----------------------------------------------------------------------------
(* nomo_async_process_runtime_shutdown.                                    *)

WatchedHandles == {h \in Handles : handles[h].occupied # 0
                                   /\ handles[h].source = "worker"}

\* Watches of these handles are gone, and the worker is told to stop.
Stop ==
    /\ owner.at = "frames"
    /\ LET seen == {h \in WatchedHandles :
                      \E w \in WatchesOf(pool, handles[h]) : pool.watches[w].completed}
           gone == {w \in Handles : \E h \in WatchedHandles :
                                       w \in WatchesOf(pool, handles[h])}
       IN  /\ handles' = [h \in Handles |->
                 IF h \in seen THEN [handles[h] EXCEPT !.exited = TRUE]
                 ELSE IF h \in WatchedHandles
                 THEN [handles[h] EXCEPT !.source = "none"] ELSE handles[h]]
           /\ pool' = [pool EXCEPT
                 !.watches = [w \in Handles |-> IF w \in gone THEN NoWatch
                                                ELSE pool.watches[w]],
                 !.watching = @ - Cardinality(gone),
                 !.stopping = TRUE]
    /\ worker' = IF NoPool THEN worker ELSE Signalled
    /\ owner' = [owner EXCEPT !.at = "join"]
    /\ regs' = [t \in Tasks |-> NoReg]
    /\ child' = [t \in Tasks |-> NoChild]
    /\ ready' = {}
    /\ UNCHANGED <<wake, pipe, nextGen, live, proc, stale, lost>>

\* The handles whose children the shutdown kills and waits for itself.
LeftToShutdown(h) == /\ handles[h].occupied # 0 /\ handles[h].pid # NoPid
                     /\ ~handles[h].exited /\ ~handles[h].reaping

\* After pthread_join the owner reaps the children of the remaining handles
\* and of the jobs that nobody took.
Finish ==
    /\ owner.at = "join"
    /\ worker.pc \in {"none", "done"}
    /\ LET ofHandles == {handles[h].pid : h \in {g \in Handles : LeftToShutdown(g)}}
           ofJobs == {pool.jobs[j].pid : j \in Jobs} \ {NoPid}
       IN  /\ proc' = Reaped(ofHandles \cup ofJobs)
           /\ stale' = (stale \/ \E p \in ofHandles \cup ofJobs : Gone(p)
                              \/ ofHandles \cap ofJobs # {})
    /\ handles' = [h \in Handles |-> FreeHandle(handles[h].gen)]
    /\ pool' = [pool EXCEPT !.jobs = [j \in Jobs |-> FreeJob(0)],
                            !.queue = <<>>, !.done = <<>>,
                            !.active = 0, !.starts = 0]
    /\ wake' = FALSE
    /\ live' = 0
    /\ owner' = [owner EXCEPT !.at = "down"]
    /\ UNCHANGED <<pipe, worker, nextGen, regs, child, ready, lost>>

-----------------------------------------------------------------------------

Task(t) == \/ SpawnStart(t) \/ SpawnResume(t) \/ CancelTask(t)
           \/ ObserveExit(t) \/ Terminate(t) \/ WatchInstead(t)
           \/ Close(t) \/ Abandon(t) \/ TimerExpires(t)

Worker == \/ WorkerWaits \/ WorkerScans \/ WorkerTakes \/ WorkerSpawns
          \/ WorkerCleansUp \/ WorkerReaps \/ WorkerSignals \/ WorkerEnds

Reactor == PoolWake \/ DrainCompletion \/ DeliverWatch \/ RearmWake

Next == \/ \E t \in Tasks : Task(t)
        \/ ArmTimer
        \/ Worker
        \/ Reactor
        \/ Stop \/ Finish
        \/ \E p \in Pids : ChildExits(p)

Spec == Init /\ [][Next]_vars

\* What the scheduling gives: the worker and the reactor run, the frames that
\* are ready are polled, a child that was started or killed can be waited for.
\* Nothing is assumed of timers, of children or of the tasks' next calls.
LiveSpec ==
    /\ Spec
    /\ WF_vars(Worker)
    /\ WF_vars(Reactor)
    /\ WF_vars(ArmTimer)
    /\ WF_vars(Finish)
    /\ \A t \in Tasks : WF_vars(SpawnResume(t))

-----------------------------------------------------------------------------

TypeOK ==
    /\ pool.jobs \in [Jobs -> [state : StartStates \cup {"free", "reap_queued",
                                      "reap_running", "reap_completed"},
                               gen : Nat, pid : 0 .. MaxStarts,
                               handle : 0 .. HandleCapacity, hgen : 0 .. MaxStarts]]
    /\ pool.queue \in Seq(Jobs) /\ pool.done \in Seq(Jobs)
    /\ pool.active \in 0 .. JobCapacity /\ pool.starts \in 0 .. StartCapacity
    /\ pool.watching \in 0 .. HandleCapacity
    /\ pool.watches \in [Handles -> [active : BOOLEAN, completed : BOOLEAN,
                                     pid : 0 .. MaxStarts,
                                     handle : 0 .. HandleCapacity,
                                     hgen : 0 .. MaxStarts]]
    /\ handles \in [Handles -> [occupied : 0 .. 2, gen : 0 .. MaxStarts,
                                pid : 0 .. MaxStarts, exited : BOOLEAN,
                                source : {"none", "reactor", "worker"},
                                reaping : BOOLEAN]]
    /\ regs \in [Tasks -> [kind : {"none", "start"}, job : Jobs,
                           jgen : Nat, handle : Handles,
                           hgen : 0 .. MaxStarts,
                           timer : {"off", "armed", "expired"},
                           active : BOOLEAN, ready : BOOLEAN]]
    /\ proc \in [Pids -> {"unused", "running", "zombie", "reaped"}]
    /\ worker.pc \in {"none", "top", "waiting", "polling", "woken", "spawning",
                      "cleanup", "reaping", "signal", "done"}
    /\ owner.at \in {"frames", "arm", "drain", "watches", "rearm", "join", "down"}
    /\ wake \in BOOLEAN /\ pipe \in BOOLEAN /\ ready \subseteq Tasks

\* Who will wait for child p: a job, an open or swept handle, or the worker
\* that cleans up after a cancelled start.
Reapers(p) ==
    {<<"job", j>> : j \in {i \in Jobs : pool.jobs[i].pid = p}}
    \cup {<<"handle", h>> : h \in {i \in Handles : /\ handles[i].occupied # 0
                                                  /\ handles[i].pid = p
                                                  /\ ~handles[i].exited
                                                  /\ ~handles[i].reaping}}
    \cup {<<"worker", 0>> : x \in {worker.pid} \cap
                                   (IF worker.pc = "cleanup" THEN {p} ELSE {})}

\* The worker has waited for the child of handle h and the owner does not know.
ExitUnderway(h) ==
    /\ handles[h].source = "worker"
    /\ \E w \in WatchesOf(pool, handles[h]) : pool.watches[w].completed

\* Every child that was not waited for has exactly one place that will wait
\* for it, whichever of the start, the cancellation, the watch and the close
\* came first, and a child that was waited for has none.  The one exception is
\* a cancelled start whose reap job was refused (lost).
OneReaper ==
    \A p \in Pids :
        CASE proc[p] \in {"running", "zombie"} ->
                Cardinality(Reapers(p)) = IF p \in lost THEN 0 ELSE 1
          [] proc[p] = "reaped" ->
                \A r \in Reapers(p) : r[1] = "handle" /\ ExitUnderway(r[2])
          [] OTHER -> Reapers(p) = {}

\* No pid is waited for twice, and none is signalled after it was waited for
\* (it could belong to another process by then).
NoStalePid == ~stale

\* "runtime shutdown reaps every child" (docs/async-runtime.md).
ShutdownReaps ==
    owner.at = "down" => \A p \in Pids : proc[p] \in {"unused", "reaped"}

\* The same but for the children whose reap job was refused.
ShutdownReapsOwned ==
    owner.at = "down" => \A p \in Pids \ lost : proc[p] \in {"unused", "reaped"}

\* Each child process is waited for exactly once, whichever of start, cancel,
\* watch, close, abandon and shutdown comes first.
ChildrenReaped == OneReaper /\ NoStalePid /\ ShutdownReapsOwned

\* The reactor is told of the pipe exactly while a job or a watch is
\* outstanding: the executor neither stops early nor waits for nothing.
WakeExact ==
    owner.at \in {"frames", "arm"} =>
        (wake <=> pool.active # 0 \/ pool.watching # 0)

\* A completion that nobody has drained has its wake byte under way.
WakeNotLost ==
    owner.at = "frames" /\ (pool.done # <<>> \/ Completed # {}) =>
        wake /\ (pipe \/ worker.pc \in {"signal", "cleanup"})

\* The worker sleeps without a timeout only when it has nothing to do.
WorkerAwake ==
    worker.pc = "waiting" =>
        pool.queue = <<>> /\ pool.watching = 0 /\ ~pool.stopping

\* Neither side sleeps over the other's news: worker, pipe and reactor agree on
\* who is to be woken, and nothing keeps an executor that has nothing to do.
WakesExact == WakeExact /\ WakeNotLost /\ WorkerAwake

\* The counters, which decide the limits and whether the pool is idle.
CountersExact ==
    /\ pool.active = Cardinality(Jobs \ FreeJobs(pool))
    /\ pool.starts = Cardinality({j \in Jobs : pool.jobs[j].state \in StartStates})
    /\ pool.watching = Cardinality({w \in Handles : pool.watches[w].active})
    /\ live = Cardinality({h \in Handles : handles[h].occupied = 1
                                           /\ handles[h].pid # NoPid})

\* A handle belongs to one task: to the start that reserved it or to the child
\* that was started, also while older handles with its number circulate, and
\* a start that failed gives it back.
HandleKept ==
    owner.at \notin {"join", "down"} =>
        /\ \A h \in Handles :
              handles[h].occupied = 1 /\ handles[h].pid = NoPid =>
                  \E t \in Tasks : regs[t].kind = "start" /\ regs[t].handle = h
        /\ \A t \in Tasks :
              /\ child[t] # NoChild => Found(t)
              /\ regs[t].kind = "start" =>
                    /\ handles[regs[t].handle].occupied = 1
                    /\ handles[regs[t].handle].gen = regs[t].hgen
                    /\ handles[regs[t].handle].pid = NoPid
              /\ \A u \in Tasks \ {t} :
                    child[t] # NoChild => child[u] # child[t]

\* "process start completion was lost" is never reported.
CompletionNotLost ==
    \A t \in Tasks : regs[t].ready =>
        /\ pool.jobs[regs[t].job].gen = regs[t].jgen
        /\ pool.jobs[regs[t].job].state = "start_delivered"

\* What a job, a watch or a start reserved is given back once, and belongs to
\* whoever reserved it until then.
ReservationsExact == TypeOK /\ CountersExact /\ HandleKept /\ CompletionNotLost

\* A start ends without the help of its timer.
StartEnds == \A t \in Tasks : regs[t].kind = "start" ~> regs[t].kind = "none"

\* A closed child is waited for and its handle becomes free.
ReapEnds == \A h \in Handles : handles[h].reaping ~> ~handles[h].reaping

\* The exit of a child that the worker watches reaches its handle.
WatchServed ==
    \A h \in Handles :
        (/\ handles[h].source = "worker" /\ ~handles[h].exited
         /\ proc[handles[h].pid] = "zombie")
        ~> (handles[h].exited \/ handles[h].occupied # 1)

\* pthread_join returns: the worker finishes the queue and ends.
ShutdownEnds == owner.at = "join" ~> owner.at = "down"

\* Nobody waits for the worker in vain.
RequestsEnd == StartEnds /\ ReapEnds /\ WatchServed /\ ShutdownEnds
=============================================================================
