-------------------------- MODULE StructuredTasks --------------------------
(***************************************************************************)
(* Structured tasks, timers, deadlines and the executor that runs them:    *)
(*   crates/nomo_codegen_c/src/runtime/host_async_executor_helpers.rs      *)
(*   crates/nomo_codegen_c/src/core/driver.rs                              *)
(*                                                                         *)
(* A frame is named by its place in the frame that embeds it: the root is  *)
(* <<>>, and f \o <<i>> is the child frame of f's i-th spawn or call.  A   *)
(* task is the root or a spawned frame; a called frame is polled inside    *)
(* its caller and suspends the whole task.                                 *)
(*                                                                         *)
(* One action is one statement of the frame that is being polled or one    *)
(* step of the executor; which statement comes next is left open.          *)
(***************************************************************************)
EXTENDS Integers, Sequences, FiniteSets

CONSTANTS
    Frames,          \* the frames of the program, closed under prefixes
    Called,          \* the frames that are called rather than spawned
    Timed,           \* the frames whose function has a task.deadline
    Durations,       \* what a program may pass to sleep and deadline
    MaxTime,         \* INT64_MAX
    TimerCapacity,   \* NOMO_ASYNC_TIMER_CAPACITY
    MaxGeneration,   \* UINT32_MAX
    ReadyCapacity,   \* NOMO_ASYNC_READY_CAPACITY
    NoFrame

Root == <<>>
Parent(f) == SubSeq(f, 1, Len(f) - 1)
Children(f) == {g \in Frames : g # Root /\ Parent(g) = f}
Above(f) == {SubSeq(f, 1, n) : n \in 0 .. Len(f)}
Below(f) == {g \in Frames : f \in Above(g)}
Tasks == Frames \ Called
Slots == 1 .. TimerCapacity
Kinds == {"sleep", "deadline"}

ASSUME FramesAssumption ==
    /\ Root \in Frames /\ Called \subseteq Frames \ {Root}
    /\ \A f \in Frames : Above(f) \subseteq Frames
    /\ NoFrame \notin Frames
ASSUME BoundsAssumption ==
    /\ Timed \subseteq Frames /\ Durations \subseteq Nat
    /\ {MaxTime, TimerCapacity, MaxGeneration, ReadyCapacity} \subseteq Nat \ {0}

VARIABLES
    fr,           \* fr[f]: the fields of the frame
    reg,          \* reg[f][k]: its timer registrations
    timers,       \* timers[s]: the timer table
    generation,   \* next_timer_generation
    ready,        \* the ready queue
    cur,          \* current_frame, the task that is being polled
    top,          \* the frame of that task whose statement is next
    status,       \* what the last poll returned
    failed,       \* runtime_failed, or run_root is about to return 1
    now,          \* nomo_time_monotonic_millis
    exit          \* how the program ended

vars == <<fr, reg, timers, generation, ready, cur, top, status, failed, now,
          exit>>

\* A zeroed frame.
Zero == [pc |-> "zero", target |-> NoFrame, cancelled |-> FALSE,
         completed |-> FALSE, failure |-> "none", refused |-> FALSE,
         dropped |-> FALSE, waiter |-> NoFrame, select |-> FALSE,
         active |-> FALSE, winner |-> "none", enqueued |-> FALSE]

Disarmed == [armed |-> FALSE, expired |-> FALSE, slot |-> 1, gen |-> 0,
             at |-> 0, select |-> FALSE]

FreeSlot == [occupied |-> FALSE, frame |-> Root, kind |-> "sleep",
             task |-> Root, at |-> 0, gen |-> 0]

Init ==
    /\ fr = [f \in Frames |-> IF f = Root THEN [Zero EXCEPT !.pc = "run"]
                              ELSE Zero]
    /\ reg = [f \in Frames |-> [k \in Kinds |-> Disarmed]]
    /\ timers = [s \in Slots |-> FreeSlot]
    /\ generation = 0
    /\ ready = <<>>
    /\ cur = Root
    /\ top = Root
    /\ status = "pending"
    /\ failed = FALSE
    /\ now = 0
    /\ exit = "no"

-----------------------------------------------------------------------------
(* Timers.                                                                 *)

\* The slot a registration names is still its own.
Owns(f, k) ==
    LET r == reg[f][k]
    IN /\ r.armed /\ timers[r.slot].occupied /\ timers[r.slot].gen = r.gen
       /\ timers[r.slot].frame = f /\ timers[r.slot].kind = k

\* The table and the registrations after nomo_async_timer_disarm of D.
TimersWithout(D) ==
    [s \in Slots |-> IF \E d \in D : Owns(d[1], d[2]) /\ reg[d[1]][d[2]].slot = s
                     THEN FreeSlot ELSE timers[s]]

RegWithout(D) ==
    [f \in Frames |-> [k \in Kinds |-> IF <<f, k>> \in D THEN Disarmed
                                       ELSE reg[f][k]]]

Disarm(D) == timers' = TimersWithout(D) /\ reg' = RegWithout(D)

Full == \A s \in Slots : timers[s].occupied

FirstFree == CHOOSE s \in Slots :
                /\ ~timers[s].occupied
                /\ \A t \in Slots : ~timers[t].occupied => s <= t

NextGeneration == IF generation = MaxGeneration THEN 1 ELSE generation + 1

\* now + duration, saturated.
At(d) == IF d > MaxTime - now THEN MaxTime ELSE now + d

\* nomo_async_timer_start and nomo_async_deadline_arm for a positive duration
\* and a table with room.
Arm(f, k, d, select) ==
    /\ timers' = [timers EXCEPT ![FirstFree] =
                     [occupied |-> TRUE, frame |-> f, kind |-> k, task |-> cur,
                      at |-> At(d), gen |-> NextGeneration]]
    /\ reg' = [reg EXCEPT ![f][k] =
                  [armed |-> TRUE, expired |-> FALSE, slot |-> FirstFree,
                   gen |-> NextGeneration, at |-> At(d), select |-> select]]
    /\ generation' = NextGeneration

\* nomo_async_deadline_due, asked for a frame inside its task.deadline.
Due(f) ==
    /\ fr[f].active
    /\ LET r == reg[f]["deadline"]
       IN r.expired \/ (r.armed /\ now >= r.at)

-----------------------------------------------------------------------------
(* Cancellation, completion and drop.                                      *)

Cancellable(f) == fr[f].pc # "zero" /\ ~fr[f].cancelled /\ ~fr[f].completed

\* The frames that the emitted cancel functions reach from the frames of S.
CancelTree(S) ==
    {g \in Frames : \E f \in S : /\ f \in Above(g)
                                 /\ \A h \in Above(g) \cap Below(f) :
                                       Cancellable(h)}

\* A frame after its cancel function.
CancelledFrame(f) ==
    [fr[f] EXCEPT !.cancelled = TRUE, !.completed = TRUE, !.pc = "over",
                  !.waiter = NoFrame, !.select = FALSE, !.active = FALSE,
                  !.winner = "none", !.enqueued = FALSE]

Pairs(S) == S \X Kinds

\* nomo_async_ready_cancel_frame for every frame of S.
ReadyWithout(S) == SelectSeq(ready, LAMBDA f : f \notin S)

\* The select of child g's parent is still open for a claim by g.
Claimable(g) == fr[g].select /\ fr[Parent(g)].winner = "none"

\* Mutant of Woken: the claim of a select is not followed by its wake.
WokenByJoin(g) ==
    IF fr[g].waiter # NoFrame /\ ~fr[g].select THEN <<fr[g].waiter>> ELSE <<>>

\* Who is enqueued when g completes: its waiter, unless a select was decided.
Woken(g) ==
    IF fr[g].waiter # NoFrame /\ (fr[g].select => Claimable(g))
    THEN <<fr[g].waiter>> ELSE <<>>

\* The timers that a claim by g disarms.
LoserTimers(g) == IF Claimable(g) THEN {<<Parent(g), "sleep">>} ELSE {}

\* emit_structured_completion of f, after the frames of C were cancelled and
\* f took the fields of e.
Complete(f, C, e) ==
    LET q == ReadyWithout(C \cup {f})
    IN /\ fr' = [g \in Frames |->
                   IF g \in C THEN CancelledFrame(g)
                   ELSE IF g = f
                   THEN [e EXCEPT !.completed = TRUE, !.pc = "over",
                                  !.waiter = NoFrame, !.select = FALSE]
                   ELSE IF Claimable(f) /\ g = Parent(f)
                   THEN [fr[g] EXCEPT !.winner = "join", !.enqueued = TRUE]
                   ELSE fr[g]]
       /\ IF Woken(f) # <<>> /\ Len(q) = ReadyCapacity
          THEN ready' = q /\ failed' = TRUE
          ELSE ready' = q \o Woken(f) /\ UNCHANGED failed
       /\ Disarm(Pairs(C \cup {f}) \cup LoserTimers(f))

\* The poll of the task, or of the called frame, returns READY.
PollReady(f) ==
    IF f \in Called THEN top' = Parent(f) /\ UNCHANGED <<cur, status>>
    ELSE cur' = NoFrame /\ top' = NoFrame /\ status' = "ready"

\* The poll of the task returns PENDING.
PollPending == cur' = NoFrame /\ top' = NoFrame /\ status' = "pending"

\* A frame is over and dropped; its embedded frames with it.
DroppedFrame(g) == [fr[g] EXCEPT !.dropped = TRUE, !.pc = "over",
                                 !.waiter = NoFrame, !.select = FALSE,
                                 !.active = FALSE]

\* Mutant of Fail: the failing frame forgets the frames it spawned.
FailAlone(f, why) ==
    /\ Complete(f, {}, [fr[f] EXCEPT !.failure = why, !.active = FALSE,
                                     !.winner = "none", !.enqueued = FALSE])
    /\ PollReady(f)

\* emit_async_deadline_failure and emit_async_child_failure_propagation.
Fail(f, why) ==
    /\ Complete(f, CancelTree(Children(f)),
                [fr[f] EXCEPT !.failure = why, !.active = FALSE,
                              !.winner = "none", !.enqueued = FALSE])
    /\ PollReady(f)

\* g and the frames it embeds are dropped.
Drop(g) ==
    /\ fr' = [h \in Frames |-> IF h \in Below(g) THEN DroppedFrame(h)
                               ELSE fr[h]]
    /\ Disarm(Pairs(Below(g)))

-----------------------------------------------------------------------------
(* The statements of a frame.                                              *)

Going == exit = "no" /\ ~failed

\* Mutant of Runs: no deadline check before a statement.
RunsOverdue(f) == Going /\ top = f /\ fr[f].pc = "run"

\* f's next statement runs: its deadline is not due.
Runs(f) == Going /\ top = f /\ fr[f].pc = "run" /\ ~Due(f)

\* The executor state that a statement which does not return leaves alone.
Stays == UNCHANGED <<cur, top, status, failed, now, exit>>

\* The frame a spawn or a call finds: never used, or dropped by an earlier
\* round of the loop around it.
Reusable(g) == fr[g].pc = "zero" \/ fr[g].dropped

\* emit_async_child_init: the child and all it embeds are zeroed.
Initialized(g, pc) ==
    [h \in Frames |-> IF h = g THEN [Zero EXCEPT !.pc = pc]
                      ELSE IF h \in Below(g) THEN Zero ELSE fr[h]]

\* A structured spawn; a full queue refuses the child, which then is over.
Spawn(f, g) ==
    /\ Runs(f) /\ g \in Children(f) \ Called /\ Reusable(g)
    /\ IF Len(ready) = ReadyCapacity
       THEN /\ fr' = [Initialized(g, "init") EXCEPT
                         ![g].refused = TRUE, ![g].completed = TRUE]
            /\ UNCHANGED ready
       ELSE fr' = Initialized(g, "init") /\ ready' = Append(ready, g)
    /\ reg' = RegWithout(Pairs(Below(g)))
    /\ UNCHANGED <<timers, generation>> /\ Stays

\* A call of a suspend function, polled at once inside its caller.
Call(f, g) ==
    /\ Runs(f) /\ g \in Children(f) \cap Called /\ Reusable(g)
    /\ fr' = [Initialized(g, "run") EXCEPT ![f].pc = "call", ![f].target = g]
    /\ reg' = RegWithout(Pairs(Below(g)))
    /\ top' = g
    /\ UNCHANGED <<timers, generation, ready, cur, status, failed, now, exit>>

\* A handle the program still holds.
Held(f, g) == g \in Children(f) \ Called /\ fr[g].pc # "zero" /\ ~fr[g].dropped

\* task.join of a child that is over.
JoinNow(f, g) ==
    /\ Runs(f) /\ Held(f, g) /\ fr[g].completed
    /\ Drop(g)
    /\ UNCHANGED <<generation, ready>> /\ Stays

\* task.join of a child that is not.
JoinWait(f, g) ==
    /\ Runs(f) /\ Held(f, g) /\ ~fr[g].completed
    /\ fr' = [fr EXCEPT ![g].waiter = cur,
                        ![f].pc = "join", ![f].target = g]
    /\ PollPending
    /\ UNCHANGED <<reg, timers, generation, ready, failed, now, exit>>

\* task.select { join g, sleep d } that has to wait.  An arm that is ready at
\* once ends the select as JoinNow or SleepNow do; the join arm comes first.
SelectWait(f, g, d) ==
    /\ Runs(f) /\ Held(f, g) /\ ~fr[g].completed /\ d > 0 /\ ~Full
    /\ fr' = [fr EXCEPT ![g].waiter = cur, ![g].select = TRUE,
                        ![f].pc = "select", ![f].target = g]
    /\ Arm(f, "sleep", d, TRUE)
    /\ PollPending
    /\ UNCHANGED <<ready, failed, now, exit>>

\* Mutant of CancelChild: the cancelled child is not dropped.
CancelChildKept(f, g) ==
    /\ Runs(f) /\ Held(f, g)
    /\ LET C == CancelTree({g})
       IN /\ fr' = [h \in Frames |-> IF h \in C THEN CancelledFrame(h)
                                     ELSE fr[h]]
          /\ ready' = ReadyWithout(C)
          /\ Disarm(Pairs(C))
    /\ UNCHANGED generation /\ Stays

\* task.cancel, and the cleanup at the end of a scope: cancel and drop.
CancelChild(f, g) ==
    /\ Runs(f) /\ Held(f, g)
    /\ LET C == CancelTree({g})
       IN /\ fr' = [h \in Frames |->
                      IF h \in Below(g)
                      THEN [DroppedFrame(h) EXCEPT !.cancelled = @ \/ h \in C,
                                                   !.completed = @ \/ h \in C]
                      ELSE fr[h]]
          /\ ready' = ReadyWithout(C)
    /\ Disarm(Pairs(Below(g)))
    /\ UNCHANGED generation /\ Stays

\* task.sleep.
SleepWait(f, d) ==
    /\ Runs(f) /\ d > 0 /\ ~Full
    /\ fr' = [fr EXCEPT ![f].pc = "sleep"]
    /\ Arm(f, "sleep", d, FALSE)
    /\ PollPending
    /\ UNCHANGED <<ready, failed, now, exit>>

\* task.yield; the executor puts the task back into the queue.
Yield(f) ==
    /\ Runs(f)
    /\ fr' = [fr EXCEPT ![f].pc = "yield"]
    /\ PollPending
    /\ IF Len(ready) = ReadyCapacity
       THEN failed' = TRUE /\ UNCHANGED ready
       ELSE ready' = Append(ready, cur) /\ UNCHANGED failed
    /\ UNCHANGED <<reg, timers, generation, now, exit>>

\* The head of a task.deadline block.
DeadlineEnter(f, d) ==
    /\ Runs(f) /\ f \in Timed /\ ~fr[f].active
    /\ CASE d = 0 -> Fail(f, "timeout") /\ UNCHANGED generation
         [] d > 0 /\ Full -> Fail(f, "timer_limit") /\ UNCHANGED generation
         [] OTHER -> /\ fr' = [fr EXCEPT ![f].active = TRUE]
                     /\ Arm(f, "deadline", d, FALSE)
                     /\ UNCHANGED <<ready, cur, top, status, failed>>
    /\ UNCHANGED <<now, exit>>

\* Its end.
DeadlineExit(f) ==
    /\ Runs(f) /\ fr[f].active
    /\ fr' = [fr EXCEPT ![f].active = FALSE]
    /\ Disarm({<<f, "deadline">>})
    /\ UNCHANGED <<generation, ready>> /\ Stays

\* A deadline found due, before a statement or when the frame is resumed.
DeadlineFail(f) ==
    /\ Going /\ top = f /\ Due(f)
    /\ fr[f].pc = "call" => ~fr[fr[f].target].completed
    /\ Fail(f, "timeout")
    /\ UNCHANGED <<generation, now, exit>>

\* A return, which the compiler lets pass only when the scope is closed.
Return(f) ==
    /\ Runs(f) /\ ~fr[f].active
    /\ \A g \in Children(f) : ~Held(f, g)
    /\ Complete(f, {}, fr[f])
    /\ PollReady(f)
    /\ UNCHANGED <<generation, now, exit>>

\* panic: the executor stops, main cancels and drops every frame.
Panic(f) ==
    /\ Runs(f) /\ ~fr[f].active
    /\ fr' = [g \in Frames |-> DroppedFrame(g)]
    /\ Disarm(Pairs(Frames))
    /\ ready' = ReadyWithout(CancelTree({Root}))
    /\ cur' = NoFrame /\ top' = NoFrame
    /\ exit' = "panic"
    /\ UNCHANGED <<generation, status, failed, now>>

Statement(f) ==
    \/ \E g \in Children(f) :
          \/ Spawn(f, g) \/ Call(f, g) \/ JoinNow(f, g) \/ JoinWait(f, g)
          \/ CancelChild(f, g)
          \/ \E d \in Durations : SelectWait(f, g, d)
    \/ \E d \in Durations : SleepWait(f, d) \/ DeadlineEnter(f, d)
    \/ Yield(f) \/ DeadlineExit(f) \/ Return(f) \/ Panic(f)

-----------------------------------------------------------------------------
(* Resuming a task, from its own frame down the chain of calls.            *)

Resumes(f, pc) == Going /\ top = f /\ fr[f].pc = pc /\ ~Due(f)

\* The first poll of a spawned frame, and the poll after a yield.
Begin(f) ==
    /\ Resumes(f, "init") \/ Resumes(f, "yield")
    /\ fr' = [fr EXCEPT ![f].pc = "run"]
    /\ UNCHANGED <<reg, timers, generation, ready>> /\ Stays

\* The poll of a frame that waits in a call polls the callee.
Descend(f) ==
    /\ Resumes(f, "call") /\ ~fr[fr[f].target].completed
    /\ top' = fr[f].target
    /\ UNCHANGED <<fr, reg, timers, generation, ready, cur, status, failed, now,
                   exit>>

\* The callee's poll returned READY: emit_async_child_failure_propagation, or
\* the callee is dropped and the caller goes on.
CallReturned(f) ==
    /\ Going /\ top = f /\ fr[f].pc = "call" /\ fr[fr[f].target].completed
    /\ LET g == fr[f].target
       IN IF fr[g].failure # "none"
          THEN Fail(f, fr[g].failure)
          ELSE /\ fr' = [h \in Frames |->
                           IF h = f
                           THEN [fr[h] EXCEPT !.pc = "run", !.target = NoFrame]
                           ELSE IF h \in Below(g) THEN DroppedFrame(h)
                           ELSE fr[h]]
               /\ Disarm(Pairs(Below(g)))
               /\ UNCHANGED <<ready, cur, top, status, failed>>
    /\ UNCHANGED <<generation, now, exit>>

\* nomo_async_timer_resume of a sleep.  A sleep whose timer is neither armed
\* nor expired reports a runtime error to the program.
SleepResume(f) ==
    /\ Resumes(f, "sleep")
    /\ IF reg[f]["sleep"].armed
       THEN PollPending /\ UNCHANGED <<fr, reg>>
       ELSE /\ fr' = [fr EXCEPT ![f].pc = "run"]
            /\ reg' = [reg EXCEPT ![f]["sleep"] = Disarmed]
            /\ UNCHANGED <<cur, top, status>>
    /\ UNCHANGED <<timers, generation, ready, failed, now, exit>>

JoinResume(f) ==
    /\ Resumes(f, "join")
    /\ LET g == fr[f].target
       IN IF fr[g].completed
          THEN /\ fr' = [h \in Frames |->
                           IF h = f
                           THEN [fr[h] EXCEPT !.pc = "run", !.target = NoFrame]
                           ELSE IF h \in Below(g) THEN DroppedFrame(h)
                           ELSE fr[h]]
               /\ Disarm(Pairs(Below(g)))
               /\ UNCHANGED <<cur, top, status>>
          ELSE PollPending /\ UNCHANGED <<fr, reg, timers>>
    /\ UNCHANGED <<generation, ready, failed, now, exit>>

\* The branch of the arm that won; a winner that has nothing to deliver is a
\* runtime failure.
SelectResume(f) ==
    /\ Resumes(f, "select")
    /\ LET g == fr[f].target
           gone == IF fr[f].winner = "join" THEN Below(g) ELSE {}
           lost == \/ fr[f].winner = "join" /\ ~fr[g].completed
                   \/ fr[f].winner = "sleep" /\ reg[f]["sleep"].armed
       IN CASE fr[f].winner = "none" ->
                 PollPending /\ UNCHANGED <<fr, reg, timers, failed>>
            [] fr[f].winner # "none" /\ lost ->
                 /\ failed' = TRUE
                 /\ cur' = NoFrame /\ top' = NoFrame /\ status' = "ready"
                 /\ UNCHANGED <<fr, reg, timers>>
            [] OTHER ->
                 /\ fr' = [h \in Frames |->
                             IF h = f
                             THEN [fr[h] EXCEPT !.pc = "run", !.target = NoFrame,
                                                !.winner = "none",
                                                !.enqueued = FALSE]
                             ELSE IF h \in gone THEN DroppedFrame(h)
                             ELSE fr[h]]
                 /\ Disarm(Pairs(gone) \cup
                              {p \in {<<f, "sleep">>} : fr[f].winner = "sleep"})
                 /\ UNCHANGED <<cur, top, status, failed>>
    /\ UNCHANGED <<generation, ready, now, exit>>

Resume(f) ==
    \/ Begin(f) \/ Descend(f) \/ CallReturned(f) \/ DeadlineFail(f)
    \/ SleepResume(f) \/ JoinResume(f) \/ SelectResume(f)

-----------------------------------------------------------------------------
(* The executor.                                                           *)

Dequeue ==
    /\ Going /\ cur = NoFrame /\ ready # <<>>
    /\ cur' = Head(ready) /\ top' = Head(ready)
    /\ ready' = Tail(ready)
    /\ UNCHANGED <<fr, reg, timers, generation, status, failed, now, exit>>

\* Mutant of Before: the order of the deadlines is lost.
BeforeByGeneration(s, t) == timers[s].gen < timers[t].gen

\* The order of nomo_async_wait_next.
Before(s, t) ==
    \/ timers[s].at < timers[t].at
    \/ timers[s].at = timers[t].at /\ timers[s].gen < timers[t].gen

\* The slot it selects: the scan keeps the first of equals.
Selected(s) ==
    /\ timers[s].occupied
    /\ \A t \in Slots : timers[t].occupied =>
          ~Before(t, s) /\ (~Before(s, t) => s <= t)

\* nomo_async_wait_next for the selected timer, once it is due.
TimerExpires(s) ==
    /\ Going /\ cur = NoFrame /\ ready = <<>>
    /\ Selected(s) /\ now >= timers[s].at
    /\ LET f == timers[s].frame
           k == timers[s].kind
           select == reg[f][k].select
           stale == ~reg[f][k].armed \/ reg[f][k].gen # timers[s].gen
       IN IF stale \/ (select /\ fr[f].winner # "none")
          THEN failed' = TRUE /\ UNCHANGED <<fr, reg, timers, ready>>
          ELSE /\ reg' = [reg EXCEPT ![f][k].armed = FALSE,
                                     ![f][k].expired = TRUE]
               /\ timers' = [timers EXCEPT ![s] = FreeSlot]
               /\ fr' = [g \in Frames |->
                           IF select /\ g = f
                           THEN [fr[g] EXCEPT !.winner = "sleep",
                                              !.enqueued = TRUE]
                           ELSE IF select /\ g = fr[f].target
                           THEN [fr[g] EXCEPT !.waiter = NoFrame,
                                              !.select = FALSE]
                           ELSE fr[g]]
               /\ ready' = <<timers[s].task>>
               /\ UNCHANGED failed
    /\ UNCHANGED <<generation, cur, top, status, now, exit>>

\* run_root returns, and main drops every frame.
Exit ==
    /\ exit = "no" /\ cur = NoFrame
    /\ failed \/ (ready = <<>> /\ \A s \in Slots : ~timers[s].occupied)
    /\ exit' = IF ~failed /\ status = "ready" /\ fr[Root].failure = "none"
               THEN "ok" ELSE "error"
    /\ fr' = [g \in Frames |-> DroppedFrame(g)]
    /\ Disarm(Pairs(Frames))
    /\ UNCHANGED <<generation, ready, cur, top, status, failed, now>>

\* The monotonic clock, until MaxTime.
Tick ==
    /\ exit = "no" /\ now < MaxTime
    /\ now' = now + 1
    /\ UNCHANGED <<fr, reg, timers, generation, ready, cur, top, status, failed,
                   exit>>

Done == exit # "no" /\ UNCHANGED vars

Poll == \E f \in Frames : Statement(f) \/ Resume(f)

Executor == Dequeue \/ (\E s \in Slots : TimerExpires(s)) \/ Exit

Next == Poll \/ Executor \/ Tick \/ Done

Spec == Init /\ [][Next]_vars

\* Code that was reached goes on: the frame that is polled, and the executor.
LiveSpec == Spec /\ WF_vars(Poll \/ Executor)

-----------------------------------------------------------------------------
(* Properties.                                                             *)

Live(f) == fr[f].pc # "zero" /\ ~fr[f].completed /\ ~fr[f].dropped

\* The task that polls frame f.
TaskOf(f) == CHOOSE t \in Above(f) \cap Tasks :
                \A u \in Above(f) \cap Tasks : Len(u) <= Len(t)

Outcomes == {"none", "timeout", "timer_limit"}

\* Every variable has the type of its C counterpart: queue and table stay
\* within their arrays, generations within their range.
TypeOK ==
    /\ fr \in [Frames -> [pc : {"zero", "init", "run", "yield", "sleep", "join",
                                "select", "call", "over"},
                          target : Frames \cup {NoFrame}, cancelled : BOOLEAN,
                          completed : BOOLEAN, failure : Outcomes,
                          refused : BOOLEAN, dropped : BOOLEAN,
                          waiter : Tasks \cup {NoFrame}, select : BOOLEAN,
                          active : BOOLEAN, winner : {"none", "join", "sleep"},
                          enqueued : BOOLEAN]]
    /\ reg \in [Frames -> [Kinds -> [armed : BOOLEAN, expired : BOOLEAN,
                                     slot : Slots, gen : 0 .. MaxGeneration,
                                     at : 0 .. MaxTime, select : BOOLEAN]]]
    /\ timers \in [Slots -> [occupied : BOOLEAN, frame : Frames, kind : Kinds,
                             task : Tasks, at : 0 .. MaxTime,
                             gen : 0 .. MaxGeneration]]
    /\ generation \in 0 .. MaxGeneration
    /\ ready \in Seq(Tasks) /\ Len(ready) <= ReadyCapacity
    /\ cur \in Tasks \cup {NoFrame} /\ top \in Frames \cup {NoFrame}
    /\ status \in {"pending", "ready"} /\ failed \in BOOLEAN
    /\ now \in 0 .. MaxTime /\ exit \in {"no", "ok", "error", "panic"}

\* Nothing outlives its scope: below a frame that is over no frame is live, and
\* neither the timer table nor the ready queue names a frame that is not.
ScopeClosed ==
    /\ \A f \in Frames \ {Root} : Live(f) => Live(Parent(f))
    /\ \A s \in Slots : timers[s].occupied =>
          Live(timers[s].frame) /\ Live(timers[s].task)
    /\ exit = "no" => \A i \in DOMAIN ready : Live(ready[i])

\* A task is queued at most once, and never while it is polled: a frame is not
\* polled again by a stale wake.
EnqueuedOnce ==
    \A i \in DOMAIN ready : /\ ready[i] # cur
                            /\ \A j \in DOMAIN ready : ready[i] = ready[j] => i = j

\* The timer table and the registrations in the frames describe each other,
\* whatever slots and generations were reused.
TimerTable ==
    /\ \A f \in Frames : \A k \in Kinds : reg[f][k].armed =>
          /\ Owns(f, k)
          /\ timers[reg[f][k].slot].at = reg[f][k].at
          /\ timers[reg[f][k].slot].task = TaskOf(f)
    /\ \A s \in Slots : timers[s].occupied =>
          LET r == reg[timers[s].frame][timers[s].kind]
          IN r.armed /\ r.slot = s
    /\ \A f \in Frames : fr[f].active =>
          reg[f]["deadline"].armed \/ reg[f]["deadline"].expired

\* What a scope started ends with it, and queue, timer table and registrations
\* agree about what is still going on, through cancellations, failures, panics
\* and the reuse of slots, generations and frames.
ScopesExact == TypeOK /\ ScopeClosed /\ EnqueuedOnce /\ TimerTable

\* What wakes the task in which frame f waits.
Wakes(f) ==
    LET g == fr[f].target
        timed == reg[f]["sleep"].armed
        joins == Live(g) /\ fr[g].waiter = TaskOf(f)
    IN CASE fr[f].pc = "sleep" -> timed
         [] fr[f].pc = "join" -> joins /\ ~fr[g].select
         [] fr[f].pc = "select" -> timed /\ joins /\ fr[g].select
                                   /\ fr[f].winner = "none"
         [] OTHER -> FALSE

\* No wake is lost: a live task is polled, queued, or its innermost frame waits
\* for a timer or a child that will wake it.
NoLostWakeup ==
    Going => \A t \in Tasks :
        Live(t) =>
          \/ t = cur
          \/ \E i \in DOMAIN ready : ready[i] = t
          \/ \E f \in Below(t) : TaskOf(f) = t /\ Live(f) /\ Wakes(f)

\* A join never reads the result of a cancelled child: a child that was
\* cancelled reports no failure, so it must be gone before its parent goes on.
JoinReadsResult ==
    \A f \in Frames : Live(f) =>
        \A g \in Children(f) : Held(f, g) => ~fr[g].cancelled

\* The failure of a called frame is never swallowed: the caller is about to
\* take it over, or has failed in the same way.
FailureNotLost ==
    exit = "no" => \A g \in Called : fr[g].failure # "none" =>
        \/ top = Parent(g) /\ fr[Parent(g)].pc = "call"
        \/ fr[Parent(g)].failure = fr[g].failure

\* A program that only waits for children and timers never exits successfully
\* with main unfinished or failed, and never gets stuck.
ExitHonest == exit = "ok" => fr[Root].completed /\ fr[Root].failure = "none"

\* What a program reports is what happened in it: no join reads a result that
\* is not there, no failure of a called frame disappears, and the exit status
\* is main's.
ResultsHonest == JoinReadsResult /\ FailureNotLost /\ ExitHonest

\* With a queue that has room for every task no executor check ever fails.
NoRuntimeFailure == ~failed

\* A timer expires only when no armed registration has an earlier deadline.
EarliestFirst ==
    [][\A f \in Frames : \A k \in Kinds :
          reg[f][k].armed /\ reg'[f][k].expired =>
             \A g \in Frames : \A j \in Kinds :
                reg[g][j].armed => reg[f][k].at <= reg[g][j].at]_vars

\* "Timeout wins": a deadline block whose time is over never ends normally.
TimeoutWins ==
    [][\A f \in Frames :
          /\ fr[f].active /\ ~fr'[f].active /\ ~fr'[f].dropped
          /\ fr'[f].failure = "none" /\ ~fr'[f].cancelled
          => now < reg[f]["deadline"].at]_vars

\* Timers expire in the order of their deadlines, and a block whose time is
\* over ends with timeout even if its last statement could run.
DeadlinesRespected == EarliestFirst /\ TimeoutWins

\* The deadline of f has passed and is not saturated.
Overdue(f) == /\ fr[f].active /\ now >= reg[f]["deadline"].at
              /\ reg[f]["deadline"].at < MaxTime

PollsEnd == []<>(cur = NoFrame)

\* A deadline that has passed ends its block, in every program that lets the
\* ready queue run empty again and again: only then are the timers looked at.
DeadlineServed ==
    []<>(cur = NoFrame /\ ready = <<>>) =>
        \A f \in Timed : Overdue(f) ~> ~fr[f].active

\* The same for every program whose polls end: "its deadline moves the owner
\* frame to the ready queue".
DeadlineAlwaysServed == PollsEnd => \A f \in Timed : Overdue(f) ~> ~fr[f].active
=============================================================================
