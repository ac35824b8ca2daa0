------------------------------- MODULE TcpIo -------------------------------
(***************************************************************************)
(* Async TCP streams on the current-thread executor (epoll backend):       *)
(*   crates/nomo_codegen_c/src/runtime/host_async_executor_helpers.rs      *)
(*   crates/nomo_codegen_c/src/runtime/host_async_tcp_connect_helpers.rs   *)
(*   crates/nomo_codegen_c/src/runtime/host_async_tcp_io_helpers.rs        *)
(*   crates/nomo_codegen_c/src/runtime/host_reactor_helpers.rs             *)
(*                                                                         *)
(* Tasks connect, read, write, half-close and close streams.  They share   *)
(* the I/O handle table, the timer table and the reactor.  A stream is a   *)
(* pair <<slot, generation>>; copies of it stay with the task after close. *)
(* One action is one poll of a task up to the next operation, one step of  *)
(* nomo_async_wait_next, or one step of the kernel or of a peer.           *)
(*                                                                         *)
(* The kernel hands out the lowest free descriptor and the handle table    *)
(* its lowest free slot, and every socket is in the table between two      *)
(* steps: the slot number stands for the descriptor as well.               *)
(***************************************************************************)
EXTENDS Integers, Sequences, FiniteSets, SequencesExt, FiniteSetsExt

CONSTANTS
    Tasks,            \* the tasks of the program
    Root,             \* the task of main, which spawns the others
    NoTask,
    HandleCapacity,   \* NOMO_ASYNC_IO_HANDLE_CAPACITY
    TimerCapacity,    \* NOMO_ASYNC_TIMER_CAPACITY
    Budget,           \* NOMO_ASYNC_TCP_WRITE_POLL_BUDGET
    Timeouts,         \* what a program may pass as timeout_millis
    Addresses,        \* how many addresses a host name may have, at most
    Lengths,          \* bound: the payloads a program writes
    Buffers,          \* bound: the buffers a program reads into
    MaxRoom,          \* bound: the send buffer of a socket
    MaxInbox,         \* bound: bytes that wait in a receive buffer
    MaxConnects,      \* bound: sockets the program opens
    MaxTime           \* bound: the clock stops here

Slots == 1 .. HandleCapacity
Results == {"none", "Ok", "Timeout", "Closed", "Busy", "Limit", "Reactor",
            "Connect", "Resolve", "Read", "Write"}

ASSUME TasksAssumption == Root \in Tasks /\ NoTask \notin Tasks
ASSUME LimitsAssumption ==
    /\ {HandleCapacity, TimerCapacity, Budget, MaxRoom, MaxTime} \subseteq Nat \ {0}
    /\ {Addresses, MaxInbox, MaxConnects} \subseteq Nat \ {0}
    /\ Timeouts \subseteq Nat /\ Lengths \subseteq Nat /\ Buffers \subseteq Nat \ {0}

VARIABLES
    task,       \* task[t]: new, live, join (main waits for a child) or done
    op,         \* op[t]: the registration of the task's operation
    held,       \* held[t]: the streams the task has, closed copies included
    table,      \* table[s]: io_handles, and the socket behind the slot
    generation, \* next_io_handle_generation
    epoll,      \* epoll[s]: the interest list of the reactor
    timers,     \* the tasks whose operation's timer is armed, oldest first
    ctx,        \* live_io_operations, retained_io_bytes, live_registrations
    ready,      \* the ready queue
    cur,        \* the task that is being polled
    waiting,    \* the executor sleeps in nomo_async_reactor_wait
    now,        \* nomo_time_monotonic_millis
    exited      \* main returned

vars == <<task, op, held, table, generation, epoll, timers, ctx, ready, cur,
          waiting, now, exited>>

\* A registration after memset; wire is what the socket took of the payload
\* and limit when the whole operation is due (neither is read by the code).
Zero == [kind |-> "none", slot |-> 1, gen |-> 0, timeout |-> 0, addrs |-> 0,
         resolving |-> FALSE, resolved |-> FALSE, owns |-> FALSE,
         acquired |-> FALSE, active |-> FALSE, ready |-> FALSE, reg |-> FALSE,
         payload |-> FALSE, kept |-> 0, off |-> 0, len |-> 0, armed |-> FALSE,
         expired |-> FALSE, at |-> 0, wire |-> <<>>, limit |-> 0,
         res |-> "none"]

FreeSlot == [occupied |-> FALSE, gen |-> 0, read_busy |-> FALSE,
             write_busy |-> FALSE, write_shutdown |-> FALSE, owner |-> NoTask,
             state |-> "none", inbox |-> 0, eof |-> FALSE, room |-> 0]

NoReg == [task |-> NoTask, on |-> FALSE]

Init ==
    /\ task = [t \in Tasks |-> IF t = Root THEN "live" ELSE "new"]
    /\ op = [t \in Tasks |-> Zero]
    /\ held = [t \in Tasks |-> {}]
    /\ table = [s \in Slots |-> FreeSlot]
    /\ generation = 0
    /\ epoll = [s \in Slots |-> NoReg]
    /\ timers = <<>>
    /\ ctx = [ops |-> 0, retained |-> 0, regs |-> 0]
    /\ ready = <<>>
    /\ cur = Root
    /\ waiting = FALSE
    /\ now = 0
    /\ exited = FALSE

-----------------------------------------------------------------------------
(* The I/O handle table.                                                   *)

\* Mutant of Live: the generation is not compared.
LiveSlot(tbl, h) == tbl[h[1]].occupied

\* nomo_async_io_handle_get finds a socket.
Live(tbl, h) == tbl[h[1]].occupied /\ tbl[h[1]].gen = h[2]

FirstFree(tbl) == CHOOSE s \in Slots :
                     /\ ~tbl[s].occupied
                     /\ \A r \in Slots : ~tbl[r].occupied => s <= r

\* nomo_async_io_handle_close; the slot's own generation is not read again
\* before the next insert sets it.
Closed(tbl, s) == [tbl EXCEPT ![s] = FreeSlot]

Busy(kind) == IF kind = "read" THEN "read_busy" ELSE "write_busy"

\* nomo_async_io_handle_acquire, as the result prepare turns it into.
Acquire(h, kind) ==
    CASE ~Live(table, h) -> "Closed"
      [] kind = "write" /\ table[h[1]].write_shutdown -> "Closed"
      [] table[h[1]][Busy(kind)] -> "Busy"
      [] OTHER -> "Ok"

\* nomo_async_io_handle_release of an operation that acquired its direction.
Release(tbl, o) ==
    IF o.acquired /\ Live(tbl, <<o.slot, o.gen>>)
    THEN [tbl EXCEPT ![o.slot][Busy(o.kind)] = FALSE]
    ELSE tbl

-----------------------------------------------------------------------------
(* Timers and reactor registrations of an operation.                       *)

At(d) == IF d > MaxTime - now THEN MaxTime ELSE now + d

TimersFull == Len(timers) >= TimerCapacity

Without(queue, t) == SelectSeq(queue, LAMBDA u : u # t)

One(flag) == IF flag THEN 1 ELSE 0

\* The interest list without the descriptor of o's registration.
Deregister(o) == IF o.reg THEN [epoll EXCEPT ![o.slot] = NoReg] ELSE epoll

\* The counters after t's operation o gave back what it holds.
Given(t, o) ==
    [ctx EXCEPT !.ops = @ - One(o.active), !.retained = @ - op[t].kept,
                !.regs = @ - One(o.reg)]

\* The registration after it gave back what it holds, with result r; what else
\* it remembers is not read before the next operation clears it.
Over(o, r) == [Zero EXCEPT !.kind = o.kind, !.res = r, !.off = o.off,
                           !.len = IF o.kind = "write" THEN o.len ELSE 0,
                           !.wire = o.wire,
                           !.limit = IF r = "Timeout" THEN o.limit ELSE 0]

\* nomo_async_tcp_io_finish and nomo_async_tcp_io_release_payload, then the
\* result: the poll goes on with the next statement of t.
End(t, o, tbl, r) ==
    /\ op' = [op EXCEPT ![t] = Over(o, r)]
    /\ table' = Release(tbl, o)
    /\ epoll' = Deregister(o)
    /\ ctx' = Given(t, o)
    /\ timers' = Without(timers, t)
    /\ cur' = t
    /\ UNCHANGED <<held, generation>>

-----------------------------------------------------------------------------
(* Reading and writing.                                                    *)

\* Mutant of Wait: the operation waits without a timer.
WaitUntimed(t, o, tbl) ==
    /\ op' = [op EXCEPT ![t] = [o EXCEPT !.reg = TRUE, !.active = TRUE,
                                         !.payload = TRUE]]
    /\ table' = tbl
    /\ epoll' = [epoll EXCEPT ![o.slot] = [task |-> t, on |-> TRUE]]
    /\ ctx' = [ctx EXCEPT !.ops = @ + 1, !.regs = @ + 1]
    /\ cur' = NoTask
    /\ UNCHANGED <<held, generation, timers>>

\* nomo_async_tcp_io_arm: the operation has to wait.
Wait(t, o, tbl) ==
    LET kept == IF o.kind = "write" THEN o.len - o.off ELSE o.len
    IN /\ op' = [op EXCEPT ![t] =
                    [o EXCEPT !.reg = TRUE, !.armed = TRUE, !.at = At(o.timeout),
                              !.active = TRUE, !.kept = kept, !.payload = TRUE]]
       /\ table' = tbl
       /\ epoll' = [epoll EXCEPT ![o.slot] = [task |-> t, on |-> TRUE]]
       /\ timers' = Append(timers, t)
       /\ ctx' = [ops |-> ctx.ops + 1, retained |-> ctx.retained + kept,
                  regs |-> ctx.regs + 1]
       /\ cur' = NoTask
       /\ UNCHANGED <<held, generation>>

\* nomo_async_tcp_*_start after an attempt that would block; the kernel may
\* refuse a registration, and does so for a descriptor it already watches.
StartBlocked(t, o, tbl) ==
    IF o.timeout = 0 THEN End(t, o, tbl, "Timeout")
    ELSE \/ End(t, o, tbl, "Reactor")
         \/ /\ epoll[o.slot] = NoReg
            /\ IF TimersFull THEN End(t, o, tbl, "Limit") ELSE Wait(t, o, tbl)

\* The deadline of nomo_async_tcp_io_rearm: what remains of the first one.
RearmAt(o) == o.at

\* Mutant of Rearm: the one-shot registration is not armed again.
RearmLost(t, o, tbl) ==
    /\ op' = [op EXCEPT ![t] = [o EXCEPT !.armed = TRUE, !.at = RearmAt(o),
                                         !.ready = FALSE]]
    /\ table' = tbl
    /\ timers' = Append(timers, t)
    /\ ctx' = [ctx EXCEPT !.retained = @ - op[t].kept + o.kept]
    /\ cur' = NoTask
    /\ UNCHANGED <<held, generation, epoll>>

\* nomo_async_tcp_io_rearm succeeds.
Rearm(t, o, tbl) ==
    /\ op' = [op EXCEPT ![t] = [o EXCEPT !.armed = TRUE, !.at = RearmAt(o),
                                         !.ready = FALSE]]
    /\ table' = tbl
    /\ epoll' = [epoll EXCEPT ![o.slot] = [task |-> t, on |-> TRUE]]
    /\ timers' = Append(timers, t)
    /\ ctx' = [ctx EXCEPT !.retained = @ - op[t].kept + o.kept]
    /\ cur' = NoTask
    /\ UNCHANGED <<held, generation>>

\* nomo_async_tcp_io_handle_spurious: the socket was not ready after all, or
\* took only a part of the payload.
ResumeBlocked(t, o, tbl) ==
    IF o.at <= now THEN End(t, o, tbl, "Timeout")
    ELSE \/ End(t, o, tbl, "Reactor")
         \/ IF TimersFull THEN End(t, o, tbl, "Limit") ELSE Rearm(t, o, tbl)

Blocked(t, o, tbl) ==
    IF o.active THEN ResumeBlocked(t, o, tbl) ELSE StartBlocked(t, o, tbl)

\* nomo_async_tcp_read_attempt and nomo_async_tcp_read_string_attempt: recv
\* on a socket that has bytes, reached its end, failed or has nothing yet.
\* A text chunk that is not valid UTF-8 is an error, and its bytes are gone.
ReadAttempt(t, o, tbl) ==
    LET s == tbl[o.slot]
        n == Min({s.inbox, o.len})
    IN CASE s.state = "failed" -> End(t, o, tbl, "Read")
         [] s.state # "failed" /\ n > 0 ->
                \E r \in {"Ok", "Read"} :
                    End(t, o, [tbl EXCEPT ![o.slot].inbox = @ - n], r)
         [] s.state # "failed" /\ n = 0 /\ s.eof -> End(t, o, tbl, "Ok")
         [] OTHER -> Blocked(t, o, tbl)

\* Mutant of Sent: a poll that ends early forgets how far it came.
SentAgain(o, n) == [o EXCEPT !.wire = @ \o [i \in 1 .. n |-> o.off + i],
                             !.off = IF o.off + n = o.len THEN o.len ELSE o.off]

\* The operation after the socket took n more bytes of the payload.
Sent(o, n) == [o EXCEPT !.wire = @ \o [i \in 1 .. n |-> o.off + i],
                        !.off = @ + n]

\* The payload is out.
Whole(o) == o.off >= o.len

\* nomo_async_tcp_write_attempt and nomo_async_tcp_write_string_attempt: send
\* until the payload is out, the buffer is full or the budget is spent.
WriteAttempt(t, o, tbl) ==
    LET s == tbl[o.slot]
        n == Min({s.room, o.len - o.off, Budget})
        sent == Sent(o, n)
        after == [tbl EXCEPT ![o.slot].room = @ - n]
    IN CASE Whole(o) -> End(t, o, tbl, "Ok")
         [] ~Whole(o) /\ s.state = "failed" -> End(t, o, tbl, "Write")
         [] ~Whole(o) /\ s.state # "failed" /\ Whole(sent) ->
                End(t, sent, after, "Ok")
         [] OTHER -> Blocked(t, [sent EXCEPT !.kept = sent.len - sent.off], after)

Attempt(t, o, tbl) == IF o.kind = "read" THEN ReadAttempt(t, o, tbl)
                                         ELSE WriteAttempt(t, o, tbl)

\* read, read_string, write and write_string of a stream the task has.
StartIo(t, h, kind, n, d) ==
    LET o == [Zero EXCEPT !.kind = kind, !.slot = h[1], !.gen = h[2], !.len = n,
                          !.timeout = d, !.limit = At(d)]
        a == Acquire(h, kind)
    IN /\ cur = t
       /\ IF a # "Ok" THEN End(t, o, table, a)
          ELSE Attempt(t, [o EXCEPT !.acquired = TRUE],
                       [table EXCEPT ![h[1]][Busy(kind)] = TRUE])
       /\ UNCHANGED <<task, ready, waiting, now, exited>>

\* nomo_async_tcp_*_resume.
ResumeIo(t) ==
    LET o == op[t]
    IN CASE o.expired -> End(t, o, table, "Timeout")
         [] ~o.expired /\ ~o.ready ->
                /\ cur' = NoTask
                /\ UNCHANGED <<op, held, table, generation, epoll, timers, ctx>>
         [] ~o.expired /\ o.ready /\ ~Live(table, <<o.slot, o.gen>>) ->
                End(t, o, table, "Closed")
         [] OTHER -> Attempt(t, [o EXCEPT !.ready = FALSE], table)

\* TcpStream.close and TcpStream.shutdown_write; the task keeps its copy.
Close(t, h) ==
    /\ cur = t
    /\ table' = IF Live(table, h) THEN Closed(table, h[1]) ELSE table
    /\ epoll' = IF Live(table, h) THEN [epoll EXCEPT ![h[1]] = NoReg] ELSE epoll
    /\ UNCHANGED <<task, op, held, generation, timers, ctx, ready, cur, waiting,
                   now, exited>>

ShutdownWrite(t, h) ==
    /\ cur = t
    /\ Live(table, h) /\ ~table[h[1]].write_busy
    /\ table' = [table EXCEPT ![h[1]].write_shutdown = TRUE]
    /\ UNCHANGED <<task, op, held, generation, epoll, timers, ctx, ready, cur,
                   waiting, now, exited>>

-----------------------------------------------------------------------------
(* Connecting.                                                             *)

\* The end of a connect: the timer is disarmed and the operation counted off;
\* tbl and ep are what became of its handle.
ConnectEnd(t, o, tbl, ep, r) ==
    /\ op' = [op EXCEPT ![t] = Over(o, r)]
    /\ table' = tbl
    /\ epoll' = ep
    /\ ctx' = Given(t, o)
    /\ timers' = Without(timers, t)
    /\ cur' = t

\* A socket for t in the first free slot, and the operation that waits on it.
Inserted(t, tbl, g, state) ==
    [tbl EXCEPT ![FirstFree(tbl)] =
        [FreeSlot EXCEPT !.occupied = TRUE, !.gen = g, !.owner = t,
                         !.state = state, !.room = MaxRoom]]

\* The candidate is in progress: register it, and arm the timer unless it
\* runs since an earlier candidate.
InProgress(t, o, tbl, ep, left) ==
    LET s == FirstFree(tbl)
        g == generation + 1
        timed == IF op[t].armed THEN timers ELSE Append(timers, t)
    IN /\ generation' = g
       /\ UNCHANGED held
       /\ \/ ConnectEnd(t, o, tbl, ep, "Reactor")
          \/ /\ ~o.armed /\ TimersFull
             /\ ConnectEnd(t, o, tbl, ep, "Limit")
          \/ /\ o.armed \/ ~TimersFull
             /\ op' = [op EXCEPT ![t] =
                          [o EXCEPT !.slot = s, !.gen = g, !.owns = TRUE,
                                    !.addrs = left, !.reg = TRUE, !.active = TRUE,
                                    !.armed = TRUE,
                                    !.at = IF o.armed THEN @ ELSE At(o.timeout)]]
             /\ table' = Inserted(t, tbl, g, "connecting")
             /\ epoll' = [ep EXCEPT ![s] = [task |-> t, on |-> TRUE]]
             /\ timers' = timed
             /\ ctx' = [ctx EXCEPT !.ops = @ + One(~o.active), !.regs = @ + 1]
             /\ cur' = NoTask

\* nomo_async_tcp_connect_attempt_candidates: the addresses that are left
\* are tried in order.  Some fail at once, and with a timeout of zero those
\* in progress are closed again (spent); the next one after them, if any,
\* connects at once or is in progress.
Candidates(t, o, tbl, ep) ==
    LET full == \A s \in Slots : tbl[s].occupied
    IN \E left \in 0 .. o.addrs - 1, spent \in 0 .. o.addrs :
        /\ spent > 0 => o.timeout = 0 /\ ~full
        /\ spent + left <= o.addrs
        /\ generation + spent < MaxConnects
        /\ \/ /\ left = 0
              /\ ConnectEnd(t, o, tbl, ep, IF spent > 0 THEN "Timeout" ELSE "Connect")
              /\ generation' = generation + spent
              /\ UNCHANGED held
           \/ /\ full
              /\ ConnectEnd(t, o, tbl, ep, "Limit")
              /\ UNCHANGED <<generation, held>>
           \/ /\ ~full /\ spent + left < o.addrs
              /\ LET g == generation + spent + 1
                 IN /\ ConnectEnd(t, o, Inserted(t, tbl, g, "up"), ep, "Ok")
                    /\ held' = [held EXCEPT ![t] = @ \cup {<<FirstFree(tbl), g>>}]
                    /\ generation' = g
           \/ /\ ~full /\ o.timeout > 0
              /\ InProgress(t, o, tbl, ep, left)

\* TcpStream.connect of a numeric address, or of a host name that has to go
\* through the resolver pool (ResolverPool models the pool).
ConnectNumeric(t, d) ==
    /\ cur = t
    /\ generation < MaxConnects
    /\ Candidates(t, [Zero EXCEPT !.kind = "connect", !.timeout = d, !.addrs = 1,
                                  !.limit = At(d)], table, epoll)
    /\ UNCHANGED <<task, ready, waiting, now, exited>>

ConnectName(t, d) ==
    LET o == [Zero EXCEPT !.kind = "connect", !.timeout = d, !.limit = At(d)]
    IN /\ cur = t
       /\ \/ /\ d = 0 \/ TimersFull
             /\ ConnectEnd(t, o, table, epoll, IF d = 0 THEN "Timeout" ELSE "Limit")
          \/ /\ d > 0 /\ ~TimersFull
             /\ \E r \in {"Limit", "Reactor"} : ConnectEnd(t, o, table, epoll, r)
          \/ /\ d > 0 /\ ~TimersFull
             /\ op' = [op EXCEPT ![t] = [o EXCEPT !.resolving = TRUE, !.active = TRUE,
                                                  !.armed = TRUE, !.at = At(d)]]
             /\ timers' = Append(timers, t)
             /\ ctx' = [ctx EXCEPT !.ops = @ + 1]
             /\ cur' = NoTask
             /\ UNCHANGED <<table, epoll>>
       /\ UNCHANGED <<task, held, generation, ready, waiting, now, exited>>

\* The table after the connect gave up the handle it owns.
HandleClosed(o) == IF o.owns THEN Closed(table, o.slot) ELSE table

\* nomo_async_tcp_connect_resume: the deadline first, then the answer of the
\* resolver, then the socket.
ResumeConnect(t) ==
    LET o == op[t]
        due == o.expired \/ (o.armed /\ now >= o.at)
        failed == table[o.slot].state = "failed"
    IN \/ /\ due
          /\ ConnectEnd(t, o, HandleClosed(o), Deregister(o), "Timeout")
          /\ UNCHANGED <<held, generation>>
       \/ /\ ~due /\ o.resolved
          /\ \/ /\ ConnectEnd(t, o, table, epoll, "Resolve")
                /\ UNCHANGED <<held, generation>>
             \/ \E n \in 1 .. Addresses :
                    Candidates(t, [o EXCEPT !.resolved = FALSE, !.resolving = FALSE,
                                            !.addrs = n], table, epoll)
       \/ /\ ~due /\ ~o.resolved /\ o.ready /\ failed
          /\ IF o.addrs = 0
             THEN /\ ConnectEnd(t, o, HandleClosed(o), epoll, "Connect")
                  /\ UNCHANGED <<held, generation>>
             ELSE Candidates(t, [o EXCEPT !.ready = FALSE, !.owns = FALSE],
                             HandleClosed(o), epoll)
       \/ /\ ~due /\ ~o.resolved /\ o.ready /\ ~failed
          /\ ConnectEnd(t, o, table, epoll, "Ok")
          /\ held' = [held EXCEPT ![t] = @ \cup {<<o.slot, o.gen>>}]
          /\ UNCHANGED generation
       \/ /\ ~due /\ ~o.resolved /\ ~o.ready
          /\ cur' = NoTask
          /\ UNCHANGED <<op, held, table, generation, epoll, timers, ctx>>

-----------------------------------------------------------------------------
(* The executor.                                                           *)

\* The oldest timer of those with the earliest deadline.
Selected == CHOOSE i \in 1 .. Len(timers) :
               \A j \in 1 .. Len(timers) :
                  \/ op[timers[i]].at < op[timers[j]].at
                  \/ op[timers[i]].at = op[timers[j]].at /\ i <= j

Idle == cur = NoTask /\ ready = <<>> /\ ~exited

DueTimer == timers # <<>> /\ now >= op[timers[Selected]].at

\* nomo_async_wait_next looks at its timers before it sleeps in the reactor.
Sleep ==
    /\ Idle /\ ~waiting
    /\ timers # <<>> \/ ctx.regs > 0
    /\ ~DueTimer
    /\ waiting' = TRUE
    /\ UNCHANGED <<task, op, held, table, generation, epoll, timers, ctx, ready,
                   cur, now, exited>>

TimerExpires ==
    /\ Idle /\ DueTimer
    /\ LET t == timers[Selected]
       IN /\ op' = [op EXCEPT ![t].armed = FALSE, ![t].expired = TRUE]
          /\ timers' = Without(timers, t)
          /\ ready' = <<t>>
    /\ waiting' = FALSE
    /\ UNCHANGED <<task, held, table, generation, epoll, ctx, cur, now, exited>>

\* nomo_async_tcp_io_wake: the one-shot registration stays in the list.
WakeIo(t) ==
    /\ op' = [op EXCEPT ![t].ready = TRUE, ![t].armed = FALSE]
    /\ epoll' = [epoll EXCEPT ![op[t].slot].on = FALSE]
    /\ timers' = Without(timers, t)
    /\ UNCHANGED ctx

\* nomo_async_tcp_connect_wake: the registration is gone, the timer runs on.
WakeConnect(t) ==
    /\ op' = [op EXCEPT ![t].ready = TRUE, ![t].reg = FALSE]
    /\ epoll' = [epoll EXCEPT ![op[t].slot] = NoReg]
    /\ ctx' = [ctx EXCEPT !.regs = @ - 1]
    /\ UNCHANGED timers

\* epoll_wait returns one event; it may come for a stream whose socket has
\* nothing to offer, but not for a connect that is still under way.
Event(s) ==
    LET t == epoll[s].task
    IN /\ waiting /\ epoll[s].on
       /\ op[t].kind = "connect" => table[s].state # "connecting"
       /\ IF op[t].kind = "connect" THEN WakeConnect(t) ELSE WakeIo(t)
       /\ ready' = Append(ready, t)
       /\ waiting' = FALSE
       /\ UNCHANGED <<task, held, table, generation, cur, now, exited>>

\* nomo_async_tcp_resolver_complete: the pool has an answer.
ResolverEvent(t) ==
    /\ waiting /\ op[t].active /\ op[t].resolving /\ ~op[t].resolved
    /\ op' = [op EXCEPT ![t].resolved = TRUE]
    /\ ready' = Append(ready, t)
    /\ waiting' = FALSE
    /\ UNCHANGED <<task, held, table, generation, epoll, timers, ctx, cur, now,
                   exited>>

\* The executor polls the first ready task, which resumes its operation.
Poll ==
    /\ cur = NoTask /\ ready # <<>>
    /\ LET t == Head(ready)
       IN \/ /\ ~op[t].active
             /\ task' = [task EXCEPT ![t] = "live"]
             /\ cur' = t
             /\ UNCHANGED <<op, held, table, generation, epoll, timers, ctx>>
          \/ /\ op[t].active /\ op[t].kind = "connect"
             /\ ResumeConnect(t)
             /\ UNCHANGED task
          \/ /\ op[t].active /\ op[t].kind # "connect"
             /\ ResumeIo(t)
             /\ UNCHANGED task
    /\ ready' = Tail(ready)
    /\ UNCHANGED <<waiting, now, exited>>

-----------------------------------------------------------------------------
(* Structured tasks, as far as they matter here (StructuredTasks).         *)

Spawn(t) ==
    /\ cur = Root /\ task[t] = "new"
    /\ task' = [task EXCEPT ![t] = "live"]
    /\ ready' = Append(ready, t)
    /\ UNCHANGED <<op, held, table, generation, epoll, timers, ctx, cur, waiting,
                   now, exited>>

Children == Tasks \ {Root}

Join ==
    /\ cur = Root /\ \E t \in Children : task[t] = "live"
    /\ task' = [task EXCEPT ![Root] = "join"]
    /\ cur' = NoTask
    /\ UNCHANGED <<op, held, table, generation, epoll, timers, ctx, ready, waiting,
                   now, exited>>

\* A task returns; main does once its scope is empty.
Return(t) ==
    /\ cur = t
    /\ t = Root => \A c \in Children : task[c] # "live"
    /\ task' = [task EXCEPT ![t] = "done"]
    /\ op' = [op EXCEPT ![t] = Zero]
    /\ held' = [held EXCEPT ![t] = {}]
    /\ cur' = NoTask
    /\ ready' = IF t # Root /\ task[Root] = "join" /\ ~Contains(ready, Root)
                THEN Append(ready, Root) ELSE ready
    /\ UNCHANGED <<table, generation, epoll, timers, ctx, waiting, now, exited>>

\* main cancels a child: nomo_async_tcp_io_cancel and
\* nomo_async_tcp_connect_cancel; open streams stay in the table.
Cancel(t) ==
    LET o == op[t]
    IN /\ cur = Root /\ task[t] = "live"
       /\ task' = [task EXCEPT ![t] = "done"]
       /\ op' = [op EXCEPT ![t] = Zero]
    /\ held' = [held EXCEPT ![t] = {}]
       /\ ready' = Without(ready, t)
       /\ table' = Release(HandleClosed(o), o)
       /\ epoll' = Deregister(o)
       /\ ctx' = Given(t, o)
       /\ timers' = Without(timers, t)
       /\ UNCHANGED <<generation, cur, waiting, now, exited>>

\* run_root runs out of work and main closes what is left.
Exit ==
    /\ Idle /\ task[Root] = "done" /\ timers = <<>> /\ ctx.regs = 0
    /\ table' = [s \in Slots |-> FreeSlot]
    /\ epoll' = [s \in Slots |-> NoReg]
    /\ exited' = TRUE
    /\ UNCHANGED <<task, op, held, generation, timers, ctx, ready, cur, waiting, now>>

-----------------------------------------------------------------------------
(* The kernel, the peers and the clock.                                    *)

Socket(s, new) ==
    /\ table[s].occupied
    /\ table' = [table EXCEPT ![s] = new]
    /\ UNCHANGED <<task, op, held, generation, epoll, timers, ctx, ready, cur,
                   waiting, now, exited>>

Establish(s) == /\ table[s].state = "connecting"
                /\ Socket(s, [table[s] EXCEPT !.state = "up"])
Breaks(s) == /\ table[s].occupied /\ table[s].state # "failed"
             /\ Socket(s, [table[s] EXCEPT !.state = "failed"])
PeerSends(s) == /\ table[s].state = "up" /\ ~table[s].eof
                /\ table[s].inbox < MaxInbox
                /\ Socket(s, [table[s] EXCEPT !.inbox = @ + 1])
PeerReads(s) == /\ table[s].state = "up" /\ table[s].room < MaxRoom
                /\ Socket(s, [table[s] EXCEPT !.room = @ + 1])
PeerEnds(s) == /\ table[s].state = "up" /\ ~table[s].eof
               /\ Socket(s, [table[s] EXCEPT !.eof = TRUE])

Tick ==
    /\ now < MaxTime /\ ~exited
    /\ now' = now + 1
    /\ UNCHANGED <<task, op, held, table, generation, epoll, timers, ctx, ready,
                   cur, waiting, exited>>

Run == \E t \in Tasks :
    \/ \E h \in held[t], d \in Timeouts :
          \/ \E n \in Buffers : StartIo(t, h, "read", n, d)
          \/ \E n \in Lengths : StartIo(t, h, "write", n, d)
    \/ \E h \in held[t] : Close(t, h) \/ ShutdownWrite(t, h)
    \/ \E d \in Timeouts : ConnectNumeric(t, d) \/ ConnectName(t, d)
    \/ Return(t)
    \/ t \in Children /\ (Spawn(t) \/ Cancel(t))
    \/ t = Root /\ Join

Executor == Poll \/ Sleep \/ TimerExpires \/ (\E s \in Slots : Event(s))
            \/ (\E t \in Tasks : ResolverEvent(t))

Environment == \E s \in Slots : \/ Establish(s) \/ Breaks(s) \/ PeerSends(s)
                                \/ PeerReads(s) \/ PeerEnds(s)

Next == Run \/ Executor \/ Environment \/ Tick \/ Exit \/ (exited /\ UNCHANGED vars)

Spec == Init /\ [][Next]_vars

\* The executor does not stop between two polls and the clock goes on.
LiveSpec == Spec /\ WF_vars(Poll \/ Sleep \/ TimerExpires) /\ WF_vars(Tick)

-----------------------------------------------------------------------------
(* Properties.                                                             *)

\* The values of the variables.
TypeOK ==
    /\ task \in [Tasks -> {"new", "live", "join", "done"}]
    /\ \A t \in Tasks :
          /\ op[t].kind \in {"none", "connect", "read", "write"}
          /\ op[t].slot \in Slots /\ op[t].gen \in 0 .. MaxConnects
          /\ op[t].addrs \in 0 .. Addresses
          /\ op[t].off \in 0 .. op[t].len /\ op[t].kept \in 0 .. op[t].len
          /\ op[t].res \in Results
          /\ held[t] \subseteq Slots \X (1 .. MaxConnects)
    /\ \A s \in Slots :
          /\ table[s].gen \in 0 .. MaxConnects
          /\ table[s].state \in {"none", "connecting", "up", "failed"}
          /\ table[s].inbox \in 0 .. MaxInbox /\ table[s].room \in 0 .. MaxRoom
          /\ epoll[s].task \in Tasks \cup {NoTask}
    /\ generation \in 0 .. MaxConnects
    /\ ctx.ops >= 0 /\ ctx.retained >= 0 /\ ctx.regs >= 0
    /\ cur \in Tasks \cup {NoTask} /\ now \in 0 .. MaxTime

\* A direction of a stream is busy exactly while one pending operation of the
\* stream's own generation claims it: timeout, error, completion and
\* cancellation release the claim exactly once.
ClaimsExact ==
    \A s \in Slots, k \in {"read", "write"} :
        LET claims == {t \in Tasks : /\ op[t].acquired /\ op[t].kind = k
                                     /\ op[t].slot = s}
        IN IF table[s].occupied /\ table[s][Busy(k)]
           THEN \E t \in Tasks : claims = {t} /\ op[t].gen = table[s].gen
           ELSE claims = {}

\* The counters the executor decides on are exact: live operations, retained
\* bytes, reactor registrations and armed timers are those of the pending
\* operations, and an operation that is over holds nothing any more.
CountersExact ==
    /\ ctx.ops = Cardinality({t \in Tasks : op[t].active})
    /\ ctx.regs = Cardinality({t \in Tasks : op[t].reg})
    /\ ctx.retained = FoldSet(LAMBDA t, n : op[t].kept + n, 0, Tasks)
    /\ ToSet(timers) = {t \in Tasks : op[t].armed} /\ IsInjective(timers)
    /\ \A t \in Tasks : ~op[t].active =>
          /\ ~op[t].reg /\ ~op[t].armed /\ ~op[t].acquired /\ ~op[t].owns
          /\ ~op[t].payload /\ op[t].kept = 0

\* The reactor watches a descriptor for the operation that registered it and
\* for no other, and never one that was closed and handed out again.
ReactorMatches ==
    \A s \in Slots : LET t == epoll[s].task IN
        /\ t # NoTask => op[t].reg /\ op[t].slot = s /\ Live(table, <<s, op[t].gen>>)
        /\ \A u \in Tasks : op[u].reg /\ op[u].slot = s => u = t

\* A pending operation is woken: either its task is queued for what already
\* happened (once), or its timer runs and an answer can still come, from an
\* armed registration or from the resolver.
PendingCanWake ==
    /\ IsInjective(ready)
    /\ \A t \in Tasks : op[t].active /\ cur # t =>
          IF op[t].ready \/ op[t].expired \/ op[t].resolved THEN Contains(ready, t)
          ELSE /\ op[t].armed
               /\ op[t].resolving \/ (epoll[op[t].slot] = [task |-> t, on |-> TRUE])

\* An operation only touches the socket its own task connected: a copy of a
\* closed stream never reaches the socket that reuses its slot.
OwnSocket ==
    \A t \in Tasks : op[t].acquired \/ op[t].owns => table[op[t].slot].owner = t

\* A socket in the table belongs to the connect that opened it or to the task
\* that got it as a stream: no error, timeout or next candidate loses one.
HandleNotLost ==
    \A s \in Slots : table[s].occupied =>
        LET t == table[s].owner
        IN \/ task[t] = "done"
           \/ op[t].owns /\ op[t].slot = s /\ op[t].gen = table[s].gen
           \/ <<s, table[s].gen>> \in held[t]

\* What an operation holds is what it gives back, whichever of success, error,
\* timeout, fallback, close and cancellation ends it: its claim, its counters,
\* its timer slot, its reactor registration and the socket it opened.
ResourcesExact ==
    /\ TypeOK
    /\ ClaimsExact /\ CountersExact
    /\ ReactorMatches
    /\ OwnSocket /\ HandleNotLost

\* The socket takes the bytes of a payload in order, each once, across polls,
\* partial sends and the write budget, and a write that reports success has
\* handed over the whole payload.
WholePayload ==
    \A t \in Tasks : op[t].kind = "write" =>
        /\ op[t].wire = [i \in 1 .. op[t].off |-> i]
        /\ op[t].res = "Ok" => op[t].off = op[t].len

\* The timeout bounds the whole operation: rearming after partial progress and
\* falling back to the next address keep the deadline of the start, and no
\* operation reports Timeout before it.
OverallDeadline ==
    \A t \in Tasks :
        /\ op[t].active => op[t].at = op[t].limit
        /\ op[t].res = "Timeout" => now >= op[t].limit

\* Every wait can be woken and is bounded by the deadline of its start.
WaitsBounded == PendingCanWake /\ OverallDeadline

\* Nothing is written to a stream after a successful shutdown_write.
NoWriteAfterShutdown ==
    \A s \in Slots : table[s].write_shutdown /\ table'[s].gen = table[s].gen
        => table'[s].room >= table[s].room

\* What a task wrote is what the peer is sent.
StreamKept == [][WholePayload' /\ NoWriteAfterShutdown]_vars

\* An operation that waits comes to an end, whatever the peers do and however
\* often the reactor wakes it for nothing, if the ready queue keeps running
\* empty.
OperationEnds ==
    []<>Idle => \A t \in Tasks : op[t].active ~> ~op[t].active
=============================================================================
