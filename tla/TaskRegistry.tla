---------------------------- MODULE TaskRegistry ----------------------------
(***************************************************************************)
(* The registry of isolated native tasks:                                  *)
(*   crates/nomo_codegen_c/src/runtime/host_task.c                         *)
(*                                                                         *)
(* One native thread per task, and one owner: workers cannot start tasks   *)
(* (E0821) and handles cannot travel in their string messages, so every    *)
(* spawn, join, cancel and close comes from the program's main thread.     *)
(* One action is one critical section of the registry's lock or one step   *)
(* between two of them that the other threads can see.  The thread calls   *)
(* are the POSIX ones.                                                     *)
(***************************************************************************)
EXTENDS Integers, FiniteSets

CONSTANTS
    MaxHandle,   \* the largest handle, UINT64_MAX in the code
    MaxLive      \* NOMO_TASK_MAX_LIVE

Handles == 1 .. MaxHandle

ASSUME HandleAssumption == MaxHandle \in Nat \ {0}
ASSUME LiveAssumption == MaxLive \in Nat \ {0}

VARIABLES
    registry,     \* handles of the linked states
    liveCount,    \* nomo_task_live_count
    nextHandle,   \* nomo_task_next_handle, 0 once it has wrapped
    task,         \* task[h]: cancel_requested, finished, outcome
    thread,       \* thread[h]: where the worker thread is
    memory,       \* memory[h]: the nomo_task_state
    owner,        \* the call the owner is in
    answer        \* what the last call returned

vars == <<registry, liveCount, nextHandle, task, thread, memory, owner,
          answer>>

\* What a worker's output amounts to: 0, 2 and 3 in the code.
Results == {"completed", "limit", "resource"}

Outcomes == Results \cup {"cancelled"}

Allocated == [cancelRequested |-> FALSE, finished |-> FALSE,
              outcome |-> "completed"]

-----------------------------------------------------------------------------

Idle == [pc |-> "idle", task |-> 0]

Init ==
    /\ registry = {}
    /\ liveCount = 0
    /\ nextHandle = 1
    /\ task = [h \in Handles |-> Allocated]
    /\ thread = [h \in Handles |-> "none"]
    /\ memory = [h \in Handles |-> "none"]
    /\ owner = Idle
    /\ answer = [call |-> "none", task |-> 0, says |-> "ok"]

\* The program has a handle once its thread was started.
Known(h) == thread[h] # "none"

Answer(call, h, says) == answer' = [call |-> call, task |-> h, says |-> says]

\* free(state): the memory is gone, and with it what it held.
FreeState(h) ==
    /\ memory' = [memory EXCEPT ![h] = "freed"]
    /\ task' = [task EXCEPT ![h] = Allocated]

-----------------------------------------------------------------------------
(* spawn                                                                   *)

AtLimit == liveCount >= MaxLive

\* Refused without a handle: oversized input, no memory, the limit of live
\* tasks or no handles left.
SpawnRefused ==
    /\ owner.pc = "idle"
    /\ \/ \E says \in {"limit", "resource", "spawn"} : Answer("spawn", 0, says)
       \/ AtLimit /\ Answer("spawn", 0, "limit")
       \/ nextHandle = 0 /\ Answer("spawn", 0, "limit")
    /\ UNCHANGED <<registry, liveCount, nextHandle, task, thread, memory,
                   owner>>

\* The state is linked before its thread exists.
SpawnRegister ==
    /\ owner.pc = "idle" /\ ~AtLimit /\ nextHandle # 0
    /\ registry' = registry \cup {nextHandle}
    /\ liveCount' = liveCount + 1
    /\ nextHandle' = IF nextHandle = MaxHandle THEN 0 ELSE nextHandle + 1
    /\ memory' = [memory EXCEPT ![nextHandle] = "allocated"]
    /\ owner' = [pc |-> "creating", task |-> nextHandle]
    /\ UNCHANGED <<task, thread, answer>>

\* pthread_create succeeds.
SpawnCreate(h) ==
    /\ owner = [pc |-> "creating", task |-> h]
    /\ thread' = [thread EXCEPT ![h] = "working"]
    /\ owner' = Idle
    /\ Answer("spawn", h, "ok")
    /\ UNCHANGED <<registry, liveCount, nextHandle, task, memory>>

\* nomo_task_remove_locked
RemoveLocked(h) ==
    /\ registry' = registry \ {h}
    /\ liveCount' = IF h \in registry /\ liveCount > 0 THEN liveCount - 1
                                                       ELSE liveCount

\* pthread_create fails: the state is unlinked and freed.
SpawnFail(h) ==
    /\ owner = [pc |-> "creating", task |-> h]
    /\ RemoveLocked(h)
    /\ FreeState(h)
    /\ owner' = Idle
    /\ Answer("spawn", 0, "spawn")
    /\ UNCHANGED <<nextHandle, thread>>

-----------------------------------------------------------------------------
(* The worker thread: nomo_task_thread_main.                               *)

\* task.is_cancelled: the state is looked up by handle.
IsCancelled(h) == h \in registry /\ task[h].cancelRequested

\* A worker that looks for cancellation sees it; it returns soon after.
WorkerObserve(h) ==
    /\ thread[h] = "working" /\ IsCancelled(h)
    /\ thread' = [thread EXCEPT ![h] = "stopping"]
    /\ UNCHANGED <<registry, liveCount, nextHandle, task, memory, owner,
                   answer>>

\* The worker returns and its output is copied, which may fail.
WorkerReturn(h) ==
    /\ thread[h] \in {"working", "stopping"}
    /\ \E result \in Results : thread' = [thread EXCEPT ![h] = result]
    /\ UNCHANGED <<registry, liveCount, nextHandle, task, memory, owner,
                   answer>>

\* Mutant of Published: a late request is ignored.
PublishedResult(h) == thread[h]

\* Cancellation that came before the end replaces every result.
Published(h) == IF task[h].cancelRequested THEN "cancelled"
                                           ELSE thread[h]

\* pthread_cond_broadcast
Woken(h) == IF owner = [pc |-> "joining", task |-> h]
            THEN [owner EXCEPT !.pc = "woken"] ELSE owner

WorkerPublish(h) ==
    /\ thread[h] \in Results
    /\ task' = [task EXCEPT ![h].outcome = Published(h), ![h].finished = TRUE]
    /\ thread' = [thread EXCEPT ![h] = "published"]
    /\ owner' = Woken(h)
    /\ UNCHANGED <<registry, liveCount, nextHandle, memory, answer>>

WorkerExit(h) ==
    /\ thread[h] = "published"
    /\ thread' = [thread EXCEPT ![h] = "exited"]
    /\ UNCHANGED <<registry, liveCount, nextHandle, task, memory, owner,
                   answer>>

-----------------------------------------------------------------------------
(* join                                                                    *)

\* The outcome of a finished task.
JoinReport(h) ==
    /\ task[h].finished
    /\ Answer("join", h, task[h].outcome)
    /\ owner' = Idle

JoinTimeout(h) ==
    /\ ~task[h].finished
    /\ Answer("join", h, "timeout")
    /\ owner' = Idle

\* An argument that is refused, a handle that is not registered, a clock that
\* cannot be read, a task that has finished, a poll with no timeout, or the
\* beginning of a wait.
JoinStart(h) ==
    /\ owner.pc = "idle" /\ Known(h)
    /\ \/ /\ \/ Answer("join", h, "invalid_argument")
             \/ h \notin registry /\ Answer("join", h, "closed")
             \/ /\ h \in registry /\ ~task[h].finished
                /\ Answer("join", h, "clock")
          /\ UNCHANGED owner
       \/ h \in registry /\ (JoinReport(h) \/ JoinTimeout(h))
       \/ /\ h \in registry /\ ~task[h].finished
          /\ owner' = [pc |-> "joining", task |-> h]
          /\ UNCHANGED answer
    /\ UNCHANGED <<registry, liveCount, nextHandle, task, thread, memory>>

\* pthread_cond_timedwait returns 0 without a signal.
JoinSpurious(h) ==
    /\ owner = [pc |-> "joining", task |-> h]
    /\ owner' = [owner EXCEPT !.pc = "woken"]
    /\ UNCHANGED <<registry, liveCount, nextHandle, task, thread, memory,
                   answer>>

\* The deadline passes.  The owner does not hold the lock yet, and the worker
\* may still publish.
JoinExpire(h) ==
    /\ owner = [pc |-> "joining", task |-> h]
    /\ owner' = [owner EXCEPT !.pc = "expired"]
    /\ UNCHANGED <<registry, liveCount, nextHandle, task, thread, memory,
                   answer>>

\* The wait returned 0: report, or wait again.
JoinWoken(h) ==
    /\ owner = [pc |-> "woken", task |-> h]
    /\ \/ JoinReport(h)
       \/ /\ ~task[h].finished
          /\ owner' = [owner EXCEPT !.pc = "joining"]
          /\ UNCHANGED answer
    /\ UNCHANGED <<registry, liveCount, nextHandle, task, thread, memory>>

\* The wait returned ETIMEDOUT: a task that has finished by now falls through
\* to the error for failed waits.
JoinExpired(h) ==
    /\ owner = [pc |-> "expired", task |-> h]
    /\ \/ JoinTimeout(h)
       \/ /\ task[h].finished
          /\ Answer("join", h, "wait")
          /\ owner' = Idle
    /\ UNCHANGED <<registry, liveCount, nextHandle, task, thread, memory>>

-----------------------------------------------------------------------------
(* cancel, close and shutdown                                              *)

\* Mutant of Requested: a finished task is marked as well.
RequestedAlways(H) ==
    [h \in Handles |-> IF h \in H
                       THEN [task[h] EXCEPT !.cancelRequested = TRUE]
                       ELSE task[h]]

\* The tasks of H that have not finished are asked to stop.
Requested(H) ==
    [h \in Handles |-> IF h \in H /\ ~task[h].finished
                       THEN [task[h] EXCEPT !.cancelRequested = TRUE]
                       ELSE task[h]]

Cancel(h) ==
    /\ owner.pc = "idle" /\ Known(h)
    /\ IF h \in registry
       THEN task' = Requested({h}) /\ Answer("cancel", h, "ok")
       ELSE UNCHANGED task /\ Answer("cancel", h, "closed")
    /\ UNCHANGED <<registry, liveCount, nextHandle, thread, memory, owner>>

\* Mutant of Closable: a running task is closed.
ClosableAlways(h) == h \in registry

Closable(h) == h \in registry /\ task[h].finished

CloseRefused(h) ==
    /\ owner.pc = "idle" /\ Known(h) /\ ~Closable(h)
    /\ Answer("close", h, IF h \in registry THEN "busy" ELSE "closed")
    /\ UNCHANGED <<registry, liveCount, nextHandle, task, thread, memory,
                   owner>>

CloseUnlink(h) ==
    /\ owner.pc = "idle" /\ Closable(h)
    /\ RemoveLocked(h)
    /\ owner' = [pc |-> "closing", task |-> h]
    /\ UNCHANGED <<nextHandle, task, thread, memory, answer>>

\* Mutant of CloseFree: the thread is not joined.
CloseFreeAtOnce(h) ==
    /\ owner = [pc |-> "closing", task |-> h]
    /\ FreeState(h)
    /\ owner' = Idle
    /\ Answer("close", h, "ok")
    /\ UNCHANGED <<registry, liveCount, nextHandle, thread>>

\* pthread_join, then everything is freed.
CloseFree(h) ==
    /\ owner = [pc |-> "closing", task |-> h]
    /\ thread[h] = "exited"
    /\ FreeState(h)
    /\ owner' = Idle
    /\ Answer("close", h, "ok")
    /\ UNCHANGED <<registry, liveCount, nextHandle, thread>>

\* nomo_task_shutdown: every live task is asked to stop and nobody waits.
Shutdown ==
    /\ owner.pc = "idle"
    /\ task' = Requested(registry)
    /\ owner' = [pc |-> "stopped", task |-> 0]
    /\ UNCHANGED <<registry, liveCount, nextHandle, thread, memory, answer>>

-----------------------------------------------------------------------------

Owner(h) ==
    \/ SpawnCreate(h) \/ SpawnFail(h)
    \/ JoinWoken(h) \/ JoinExpire(h) \/ JoinExpired(h)
    \/ CloseFree(h)

Calls(h) ==
    \/ JoinStart(h) \/ Cancel(h) \/ CloseRefused(h) \/ CloseUnlink(h)

\* What a thread does without the worker's consent.
Worker(h) ==
    \/ WorkerObserve(h) \/ WorkerPublish(h) \/ WorkerExit(h)
    \/ thread[h] = "stopping" /\ WorkerReturn(h)

Next ==
    \/ SpawnRefused \/ SpawnRegister \/ Shutdown
    \/ \E h \in Handles : Owner(h) \/ Calls(h) \/ JoinSpurious(h)
    \/ \E h \in Handles : Worker(h) \/ WorkerReturn(h)

\* Threads run and the calls the owner is in go on.  The deadline of a join is
\* absolute, so spurious wake-ups do not put it off (strong fairness).  A
\* worker need not return unless it has seen that it is cancelled, and the
\* owner need not call anything.
Fairness ==
    \A h \in Handles :
        WF_vars(Owner(h)) /\ WF_vars(Worker(h)) /\ SF_vars(JoinExpire(h))

Spec == Init /\ [][Next]_vars /\ Fairness

-----------------------------------------------------------------------------
(* Properties.                                                             *)

\* Every variable has its type; the live tasks stay within their limit.
TypeOK ==
    /\ registry \subseteq Handles
    /\ liveCount \in 0 .. MaxLive
    /\ nextHandle \in 0 .. MaxHandle
    /\ task \in [Handles -> [cancelRequested : BOOLEAN, finished : BOOLEAN,
                             outcome : Outcomes]]
    /\ thread \in [Handles -> {"none", "working", "stopping", "published",
                               "exited"} \cup Results]
    /\ memory \in [Handles -> {"none", "allocated", "freed"}]
    /\ owner \in [pc : {"idle", "creating", "joining", "woken", "expired",
                        "closing", "stopped"},
                  task : 0 .. MaxHandle]
    /\ answer \in [call : {"none", "spawn", "join", "cancel", "close"},
                   task : 0 .. MaxHandle,
                   says : Outcomes \cup {"ok", "timeout", "wait", "clock",
                            "closed", "busy", "spawn", "invalid_argument"}]

\* The count that enforces the limit is the number of registered tasks.
LiveExact == liveCount = Cardinality(registry)

\* No thread touches a freed state: close waits for the thread to be gone, and
\* no handle is in use before its state exists.
NoUseAfterFree ==
    \A h \in Handles :
        /\ thread[h] \notin {"none", "exited"} => memory[h] = "allocated"
        /\ owner.task = h => memory[h] = "allocated"

\* A worker can always be reached by cancel: until its outcome is published
\* its state is registered, from its very first instruction.
WorkerReachable ==
    \A h \in Handles :
        thread[h] \in {"working", "stopping"} \cup Results => h \in registry

\* "Cancelled is observable only after the worker sees or races with the
\* request and returns": an accepted request always ends in Cancelled, and
\* nothing else does.
CancelDecides ==
    \A h \in Handles :
        task[h].finished =>
            (task[h].cancelRequested <=> task[h].outcome = "cancelled")

\* A join that sleeps is not forgotten: the task it waits for has not
\* finished, so the broadcast is still to come.
JoinerNotForgotten ==
    owner.pc = "joining" => ~task[owner.task].finished

\* Joins of one task agree: "completed task was replaced by cancellation"
\* never happens.  Until the state is freed a finished task stays finished
\* and keeps its outcome, whatever is called.
OutcomeStable ==
    [][\A h \in Handles :
          task[h].finished =>
              task'[h] = task[h] \/ memory'[h] = "freed"]_vars

\* How registry, threads, memory and the owner's call hang together: handles
\* from nextHandle on are unused, what is registered is allocated, a task
\* without a thread is being created, a task that is being closed has
\* published, and a finished task's thread has nothing left to do with it.
Lifecycle ==
    /\ owner.pc \in {"idle", "stopped"} <=> owner.task = 0
    /\ owner.pc \in {"joining", "woken", "expired"} => owner.task \in registry
    /\ owner.pc = "creating" => /\ owner.task \in registry
                                /\ thread[owner.task] = "none"
    /\ owner.pc = "closing" => /\ owner.task \notin registry
                               /\ memory[owner.task] = "allocated"
                               /\ thread[owner.task] \in {"published", "exited"}
    /\ \A h \in Handles :
          /\ memory[h] = "none" <=> nextHandle # 0 /\ h >= nextHandle
          /\ memory[h] = "none" => thread[h] = "none"
          /\ h \in registry => memory[h] = "allocated"
          /\ h \in registry /\ thread[h] = "none" =>
                 owner = [pc |-> "creating", task |-> h]
          /\ thread[h] = "none" => task[h] = Allocated
          /\ task[h].finished => thread[h] \in {"published", "exited"}
          /\ thread[h] = "published" =>
                 h \in registry \/ owner = [pc |-> "closing", task |-> h]

\* The inductive invariant.
Inductive ==
    /\ TypeOK
    /\ LiveExact
    /\ WorkerReachable
    /\ CancelDecides
    /\ JoinerNotForgotten
    /\ Lifecycle

\* "Waits up to timeout_millis for one terminal task outcome": a join of an
\* open handle answers with the outcome or with a timeout.
JoinAnswers ==
    /\ answer.call = "join"
    /\ answer.says \notin {"invalid_argument", "closed", "clock"}
    => answer.says \in {"timeout", task[answer.task].outcome}

\* A cooperative worker that is cancelled finishes, so that its task can be
\* joined and closed.
CancelEnds ==
    \A h \in Handles : task[h].cancelRequested ~> task[h].finished

\* Every call returns: a join at the latest when its time is over, a close as
\* soon as the thread is gone.
CallsReturn ==
    owner.pc \in {"creating", "joining", "woken", "expired", "closing"} ~>
        owner.pc \in {"idle", "stopped"}
=============================================================================
