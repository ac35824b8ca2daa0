---------------------------- MODULE ProcessEvents ----------------------------
(***************************************************************************)
(* The pipes and the events of one child process:                          *)
(*   crates/nomo_codegen_c/src/runtime/host_async_process_unix.c           *)
(* from write_stdin, close_stdin, next_event, try_wait and terminate down  *)
(* to the system calls.                                                    *)
(*                                                                         *)
(* next_event is one poll of the owner's frame, but the child runs beside  *)
(* it, so every group of system calls is a step of its own and the child   *)
(* may write, read, close and end between two of them.  ProcessChild is    *)
(* Local: only its own task uses it, so nothing else happens to the handle *)
(* while the poll runs, and no other operation is called while an event is *)
(* pending.                                                                *)
(*                                                                         *)
(* A byte of output is "a" (a scalar of one byte), "l" and "t" (the first  *)
(* and the second byte of a scalar of two) or "z" (never text).  The chunk *)
(* sizes, the slack of the buffers and the width of a scalar are scaled    *)
(* down from 4 bytes to 2.  Starting and reaping the child is the subject  *)
(* of ProcessPool.                                                         *)
(***************************************************************************)
EXTENDS Integers, FiniteSets, Sequences

CONSTANTS
    Scripts,        \* what a child may write: [out, err : sequences of bytes]
    Chunks,         \* the max_chunk_bytes callers pass
    Timeouts,       \* the timeout_millis callers pass
    PipeCapacity,   \* bytes a pipe holds
    PayloadSize,    \* bytes of one stdin payload
    MaxPayloads,    \* bound: payloads written
    EdgeExit,       \* an exit before its registration is not reported (kqueue)
    Faults          \* which of "timer", "register", "watch" may happen

Streams == {"out", "err"}
Bytes == {"a", "l", "t", "z"}

ASSUME ScriptsAssumption == Scripts \subseteq [Streams -> Seq(Bytes)]
ASSUME PipeCapacityAssumption == PipeCapacity \in Nat \ {0}
ASSUME PayloadAssumption == PayloadSize \in Nat \ {0} /\ MaxPayloads \in Nat
ASSUME ChunksAssumption == Chunks \subseteq Nat /\ Chunks # {} /\ \A c \in Chunks : c >= 2
ASSUME TimeoutsAssumption == Timeouts \subseteq Nat
ASSUME FaultsAssumption == Faults \subseteq {"timer", "register", "watch"}

Slack == 2                            \* NOMO_ASYNC_PROCESS_BUFFER_SLACK
Other(s) == IF s = "out" THEN "err" ELSE "out"

VARIABLES
    script,    \* what this child writes
    state,     \* the handle
    reg,       \* the registration in the owner's frame
    op,        \* where next_event is
    pipes,     \* pipes[s]: bytes on their way from the child
    holds,     \* holds[s]: somebody can still write to stream s
    input,     \* the stdin pipe: bytes in it now, bytes written to it so far
    reads,     \* somebody can still read stdin
    child,     \* "running", "zombie" or "reaped"
    sure,      \* the reactor will report the exit
    emitted,   \* emitted[s]: the text of the events so far
    flushes,   \* StdinFlushed events so far
    payloads,  \* payloads accepted
    passed,    \* passed[s]: events of the other stream while s had text
    retained,  \* retained_process_bytes
    live       \* live_process_operations

kernel == <<pipes, holds, input, reads, child, sure>>
ghosts == <<emitted, flushes, passed>>
vars == <<script, state, reg, op, pipes, holds, input, reads, child, sure,
          emitted, flushes, payloads, passed, retained, live>>

-----------------------------------------------------------------------------

\* left is the time until the deadline.
NoReg == [timer |-> FALSE, io |-> {}, probe |-> FALSE, active |-> FALSE,
          max |-> 0, left |-> 0]

Init ==
    /\ script \in Scripts
    /\ state = [open |-> TRUE, stdin |-> TRUE, pending |-> 0, flushed |-> FALSE,
                fds |-> Streams, buf |-> [s \in Streams |-> <<>>],
                exited |-> FALSE, told |-> FALSE, prefer |-> "out",
                busy |-> FALSE, source |-> "reactor"]
    /\ reg = NoReg
    /\ op = [at |-> "idle", part |-> "start"]
    /\ pipes = [s \in Streams |-> <<>>]
    /\ holds = [s \in Streams |-> TRUE]
    /\ input = [held |-> 0, sent |-> 0]
    /\ reads = TRUE
    /\ child = "running"
    /\ sure = FALSE
    /\ emitted = [s \in Streams |-> <<>>]
    /\ flushes = 0
    /\ payloads = 0
    /\ passed = [s \in Streams |-> 0]
    /\ retained = 0
    /\ live = 0

-----------------------------------------------------------------------------
(* The child and the clock.                                                *)

Read(s) == Len(emitted[s]) + Len(state.buf[s]) + Len(pipes[s])

\* The child, or one it started, writes its next byte.
ChildWrites(s) ==
    /\ holds[s] /\ state.open
    /\ Len(pipes[s]) < PipeCapacity /\ Read(s) < Len(script[s])
    /\ pipes' = [pipes EXCEPT ![s] = Append(@, script[s][Read(s) + 1])]
    /\ UNCHANGED <<script, state, reg, op, holds, input, reads, child, sure,
                   ghosts, payloads, retained, live>>

\* The last writer of a stream closes it; this may be after the exit.
ChildCloses(s) ==
    /\ holds[s]
    /\ holds' = [holds EXCEPT ![s] = FALSE]
    /\ UNCHANGED <<script, state, reg, op, pipes, input, reads, child, sure,
                   ghosts, payloads, retained, live>>

\* The child reads its stdin.
ChildReads ==
    /\ reads /\ input.held > 0
    /\ input' = [input EXCEPT !.held = @ - 1]
    /\ UNCHANGED <<script, state, reg, op, pipes, holds, reads, child, sure,
                   ghosts, payloads, retained, live>>

\* The child ends; its stdin goes with it.  A pidfd reports every exit, kqueue
\* only the one that comes after the registration.
ChildEnds ==
    /\ child = "running"
    /\ child' = "zombie"
    /\ reads' = FALSE
    /\ sure' = (~EdgeExit \/ "exit" \in reg.io)
    /\ UNCHANGED <<script, state, reg, op, pipes, holds, input, ghosts,
                   payloads, retained, live>>

\* Time passes.
Tick ==
    /\ reg.left > 0
    /\ reg' = [reg EXCEPT !.left = @ - 1]
    /\ UNCHANGED <<script, state, op, kernel, ghosts, payloads, retained, live>>

-----------------------------------------------------------------------------
(* The operations that do not suspend.                                     *)

\* nomo_async_process_update_exit.
SeesExit(s) == ~s.exited /\ s.source = "reactor" /\ child = "zombie"

Probed(s) == IF SeesExit(s) THEN [s EXCEPT !.exited = TRUE] ELSE s

Reap == child' = IF SeesExit(state) THEN "reaped" ELSE child

\* write_stdin: one payload at a time, to a child not known to have ended.
WriteStdin ==
    /\ op.at = "idle" /\ state.open
    /\ payloads < MaxPayloads
    /\ Reap
    /\ LET s == Probed(state)
           taken == s.stdin /\ ~s.exited /\ s.pending = 0
       IN  /\ state' = IF taken THEN [s EXCEPT !.pending = PayloadSize,
                                               !.flushed = FALSE] ELSE s
           /\ payloads' = IF taken THEN payloads + 1 ELSE payloads
           /\ retained' = IF taken THEN retained + PayloadSize ELSE retained
    /\ UNCHANGED <<script, reg, op, pipes, holds, input, reads, sure, ghosts, live>>

\* close_stdin: "busy" while a payload is pending.
CloseStdin ==
    /\ op.at = "idle" /\ state.open
    /\ state.pending = 0
    /\ state' = [state EXCEPT !.stdin = FALSE]
    /\ UNCHANGED <<script, reg, op, kernel, ghosts, payloads, retained, live>>

\* try_wait; terminate also kills a child that has not ended.
TryWait ==
    /\ op.at = "idle" /\ state.open
    /\ SeesExit(state)
    /\ state' = Probed(state)
    /\ Reap
    /\ UNCHANGED <<script, reg, op, pipes, holds, input, reads, sure, ghosts,
                   payloads, retained, live>>

-----------------------------------------------------------------------------
(* next_event.  The steps "probe", "out", "err" and "decide" are one call  *)
(* of nomo_async_process_event_progress.                                   *)

Least(a, b) == IF a < b THEN a ELSE b

\* nomo_async_process_registration_finish.
Finished(r) == [r EXCEPT !.io = {}, !.timer = FALSE, !.active = FALSE]

Down(n) == IF n > 0 THEN n - 1 ELSE 0

\* nomo_async_process_event_release.
Release(s) == [s EXCEPT !.busy = FALSE]

\* next_event ends with a result and leaves the handle as s.
Ends(s) ==
    /\ state' = Release(s)
    /\ reg' = NoReg
    /\ op' = [at |-> "idle", part |-> "start"]

\* nomo_async_process_event_start.  "invalid_request" after the exit event and
\* "busy" change nothing.
NextEvent(max, timeout) ==
    /\ op.at = "idle" /\ state.open
    /\ ~state.told /\ ~state.busy
    /\ state' = [state EXCEPT !.busy = TRUE]
    /\ reg' = [NoReg EXCEPT !.max = max, !.left = timeout]
    /\ op' = [at |-> "probe", part |-> "start"]
    /\ UNCHANGED <<script, kernel, ghosts, payloads, retained, live>>

\* The poll goes on with another step, or with another part of the operation.
At(step) == op.at = step
Then(step) == op' = [op EXCEPT !.at = step]
Part(part) == op' = [at |-> "probe", part |-> part]

\* Mutant of FlushedBy: the payload counts as flushed after its first write.
FlushedByOneWrite(s, n) == [s EXCEPT !.pending = 0, !.flushed = TRUE]

\* nomo_async_process_flush_stdin wrote n bytes.
FlushedBy(s, n) ==
    [s EXCEPT !.pending = @ - n, !.flushed = (s.pending = n) \/ @]

\* update_exit and flush_stdin.  A pipe takes at least one byte when it has
\* room; a write to a pipe that nobody reads fails and closes stdin.
ProbeAndFlush ==
    /\ At("probe")
    /\ Reap
    /\ LET s == Probed(state)
           writes == s.stdin /\ s.pending > 0
           room == PipeCapacity - input.held
       IN  \/ /\ writes /\ reads /\ room > 0
              /\ \E n \in 1 .. Least(room, s.pending) :
                    /\ state' = FlushedBy(s, n)
                    /\ input' = [held |-> input.held + n, sent |-> input.sent + n]
                    /\ retained' = retained - n
              /\ Then("out")
              /\ UNCHANGED <<reg>>
           \/ /\ writes /\ ~reads
              /\ Ends([s EXCEPT !.pending = 0, !.stdin = FALSE])
              /\ retained' = retained - s.pending
              /\ UNCHANGED input
           \/ /\ ~writes \/ (reads /\ room = 0)
              /\ state' = s
              /\ Then("out")
              /\ UNCHANGED <<reg, input, retained>>
    /\ UNCHANGED <<script, pipes, holds, reads, sure, ghosts, payloads, live>>

Target == reg.max + Slack

\* nomo_async_process_read_stream: one read, up to the target.
ReadStream(s, step) ==
    /\ At(s)
    /\ LET room == Target - Len(state.buf[s])
           n == Least(room, Len(pipes[s]))
       IN  CASE s \notin state.fds \/ room <= 0 ->
                    UNCHANGED <<state, pipes, retained>>
             [] s \in state.fds /\ room > 0 /\ pipes[s] # <<>> ->
                    /\ state' = [state EXCEPT !.buf[s] = @ \o SubSeq(pipes[s], 1, n)]
                    /\ pipes' = [pipes EXCEPT ![s] = SubSeq(@, n + 1, Len(@))]
                    /\ retained' = retained + n
             [] s \in state.fds /\ room > 0 /\ pipes[s] = <<>> ->
                    /\ state' = [state EXCEPT !.fds = IF holds[s] THEN @ ELSE @ \ {s}]
                    /\ UNCHANGED <<pipes, retained>>
    /\ Then(step)
    /\ UNCHANGED <<script, reg, holds, input, reads, child, sure, ghosts,
                   payloads, live>>

\* The first i bytes of b are complete scalars.
Whole(b, i) ==
    \A j \in 1 .. i :
        CASE b[j] = "a" -> TRUE
          [] b[j] = "l" -> j < i /\ b[j + 1] = "t"
          [] b[j] = "t" -> j > 1 /\ b[j - 1] = "l"
          [] OTHER -> FALSE

\* nomo_async_process_utf8_prefix: as many complete scalars as fit.
Prefix(b, limit) ==
    LET fits == {i \in 0 .. Least(Len(b), limit) : Whole(b, i)}
    IN  CHOOSE i \in fits : \A j \in fits : j <= i

\* The bytes after the prefix are no text.  An incomplete scalar may still be
\* completed, but not after the end of the stream.
NoText(b, limit, eof) ==
    LET p == Prefix(b, limit) IN
    /\ p < Least(Len(b), limit)
    /\ \/ b[p + 1] \notin {"a", "l"}
       \/ b[p + 1] = "l" /\ p + 2 <= Len(b) /\ b[p + 2] # "t"
       \/ b[p + 1] = "l" /\ p + 2 > Len(b) /\ eof

\* nomo_async_process_emit_stream: -1, 0 or 1.
Emits(st, s) ==
    LET b == st.buf[s] IN
    IF b = <<>> THEN 0
    ELSE IF NoText(b, reg.max, s \notin st.fds) THEN -1
    ELSE IF Prefix(b, reg.max) > 0 THEN 1 ELSE 0

Consumed(st, s) ==
    [st EXCEPT !.buf[s] = SubSeq(@, Prefix(st.buf[s], reg.max) + 1, Len(@)),
               !.prefer = Other(s)]

FirstOf(st) == st.prefer

\* The stream whose text, or whose error, next_event returns.
Chosen(st) == IF Emits(st, FirstOf(st)) # 0 THEN FirstOf(st) ELSE Other(FirstOf(st))

\* Mutant of AllRead: what is still buffered is not looked at.
AllReadFromChild(st) == st.exited

\* Everything the child wrote was read and emitted.
AllRead(st) == /\ st.exited /\ st.fds = {}
               /\ \A s \in Streams : st.buf[s] = <<>>

\* The rest of event_progress: the result, if there is one.
HasResult(st) == \/ st.flushed
                 \/ Emits(st, Chosen(st)) # 0
                 \/ AllRead(st)

\* handle_close after "protocol": the child goes to ProcessPool's reaper.
Closed(st) == [st EXCEPT !.open = FALSE, !.busy = FALSE, !.pending = 0,
                         !.stdin = FALSE, !.fds = {},
                         !.buf = [s \in Streams |-> <<>>]]

Held(st) == st.pending + Len(st.buf["out"]) + Len(st.buf["err"])

Decide ==
    /\ At("decide")
    /\ Reap
    /\ LET st == Probed(state)
           s == Chosen(st)
           text == SubSeq(st.buf[s], 1, Prefix(st.buf[s], reg.max))
       IN  \/ /\ st.flushed
              /\ Ends([st EXCEPT !.flushed = FALSE])
              /\ flushes' = flushes + 1
              /\ UNCHANGED <<emitted, passed, retained>>
           \/ /\ ~st.flushed /\ Emits(st, s) = 1
              /\ Ends(Consumed(st, s))
              /\ emitted' = [emitted EXCEPT ![s] = @ \o text]
              /\ passed' = [passed EXCEPT ![s] = 0,
                              ![Other(s)] = IF Emits(st, Other(s)) = 1 THEN @ + 1 ELSE 0]
              /\ retained' = retained - Len(text)
              /\ UNCHANGED flushes
           \/ /\ ~st.flushed /\ Emits(st, s) = -1
              /\ Ends(Closed(st))
              /\ retained' = retained - Held(st)
              /\ UNCHANGED <<emitted, flushes, passed>>
           \/ /\ ~st.flushed /\ Emits(st, s) = 0
              /\ IF AllRead(st) THEN Ends([st EXCEPT !.told = TRUE])
                 ELSE IF op.part = "last" \/ (op.part = "resume" /\ reg.left = 0)
                 THEN Ends(st)
                 ELSE /\ state' = st
                      /\ Then("arm")
                      /\ UNCHANGED reg
              /\ UNCHANGED <<emitted, flushes, passed, retained>>
    /\ UNCHANGED <<script, pipes, holds, input, reads, sure, payloads, live>>

\* Mutant of Wanted: the pending payload does not wait for room in the pipe.
WantedOutput(st) ==
    st.fds \cup (IF ~st.exited /\ st.source = "reactor" THEN {"exit"} ELSE {})

\* The descriptors that nomo_async_process_event_arm registers.
Wanted(st) ==
    st.fds \cup (IF st.pending > 0 /\ st.stdin THEN {"in"} ELSE {})
           \cup (IF ~st.exited /\ st.source = "reactor" THEN {"exit"} ELSE {})

\* nomo_async_process_event_arm up to the registrations.  kqueue may refuse an
\* ending child, which the worker then watches.
Arm ==
    /\ At("arm")
    /\ \/ /\ reg' = [reg EXCEPT !.io = Wanted(state), !.probe = "exit" \in Wanted(state)]
          /\ sure' = (child = "zombie" /\ ~EdgeExit)
          /\ Then("settle")
          /\ UNCHANGED <<state, child>>
       \/ /\ "watch" \in Faults /\ "exit" \in Wanted(state)
          /\ reg' = [reg EXCEPT !.io = Wanted(state) \ {"exit"}, !.probe = TRUE]
          /\ state' = IF SeesExit(state) THEN Probed(state)
                      ELSE [state EXCEPT !.source = "worker"]
          /\ Reap
          /\ Then("settle")
          /\ UNCHANGED sure
       \/ /\ "register" \in Faults
          /\ Ends(state)
          /\ UNCHANGED <<child, sure>>
    /\ UNCHANGED <<script, pipes, holds, input, reads, ghosts, payloads,
                   retained, live>>

\* The child whose exit is wanted is probed once more after the registration.
ProbesAgain == reg.probe /\ Probed(state).exited

Armed(r) == [r EXCEPT !.timer = TRUE, !.active = TRUE]

\* The rest of nomo_async_process_event_arm: the probe, then the timer.
Settle ==
    /\ At("settle")
    /\ \/ /\ ProbesAgain
          /\ state' = Probed(state)
          /\ Reap
          /\ reg' = Finished(reg)
          /\ Part("again")
          /\ UNCHANGED live
       \/ /\ ~ProbesAgain
          /\ reg' = Armed(reg)
          /\ Then("wait")
          /\ live' = live + 1
          /\ UNCHANGED <<state, child>>
       \/ /\ ~ProbesAgain /\ "timer" \in Faults
          /\ Ends(state)
          /\ UNCHANGED <<child, live>>
    /\ UNCHANGED <<script, pipes, holds, input, reads, sure, ghosts, payloads,
                   retained>>

\* What the reactor sees of a registered descriptor.
Readable(i) ==
    CASE i = "in" -> ~reads \/ input.held < PipeCapacity
      [] i = "exit" -> child = "zombie" /\ sure
      [] OTHER -> pipes[i] # <<>> \/ ~holds[i]

\* nomo_async_process_event_wake.
EventWake ==
    /\ op.at \in {"wait", "expired"}
    /\ \E i \in reg.io : Readable(i)
    /\ reg' = Finished(reg)
    /\ live' = Down(live)
    /\ Then("ready")
    /\ UNCHANGED <<script, state, kernel, ghosts, payloads, retained>>

\* Mutant of WatchReports: a report that no event waits for is lost.
WatchReportsToWaiter ==
    /\ op.at \in {"idle", "wait", "ready", "expired"}
    /\ state.open /\ state.source = "worker" /\ ~state.exited
    /\ child = "zombie"
    /\ child' = "reaped"
    /\ state' = [state EXCEPT !.exited = reg.active]
    /\ IF reg.active
       THEN reg' = Finished(reg) /\ live' = Down(live) /\ Then("ready")
       ELSE UNCHANGED <<reg, live, op>>
    /\ UNCHANGED <<script, pipes, holds, input, reads, sure, ghosts, payloads,
                   retained>>

\* nomo_async_process_pool_deliver_watches for this child.  It wakes an event
\* that waits; one that does not will look for itself.
WatchReports ==
    /\ op.at \in {"idle", "wait", "ready", "expired"}
    /\ state.open /\ state.source = "worker" /\ ~state.exited
    /\ child = "zombie"
    /\ child' = "reaped"
    /\ state' = [state EXCEPT !.exited = TRUE]
    /\ IF reg.active
       THEN reg' = Finished(reg) /\ live' = Down(live) /\ Then("ready")
       ELSE UNCHANGED <<reg, live, op>>
    /\ UNCHANGED <<script, pipes, holds, input, reads, sure, ghosts, payloads,
                   retained>>

\* nomo_async_wait_next: the timer of the event.
TimerExpires ==
    /\ op.at = "wait" /\ reg.timer /\ reg.left = 0
    /\ reg' = [reg EXCEPT !.timer = FALSE]
    /\ Then("expired")
    /\ UNCHANGED <<script, state, kernel, ghosts, payloads, retained, live>>

\* nomo_async_process_event_resume: after the deadline there is one more look
\* at the child before "timeout".
EventResume ==
    /\ op.at \in {"ready", "expired"}
    /\ reg' = Finished(reg)
    /\ live' = IF reg.active THEN Down(live) ELSE live
    /\ Part(IF op.at = "expired" THEN "last" ELSE "resume")
    /\ UNCHANGED <<script, state, kernel, ghosts, payloads, retained>>

\* nomo_async_process_cancel of an event: the child and the pending payload
\* stay.
Cancel ==
    /\ op.at \in {"wait", "ready", "expired"}
    /\ live' = IF reg.active THEN Down(live) ELSE live
    /\ Ends(state)
    /\ UNCHANGED <<script, kernel, ghosts, payloads, retained>>

-----------------------------------------------------------------------------

Poll == \/ ProbeAndFlush
        \/ ReadStream("out", "err") \/ ReadStream("err", "decide")
        \/ Decide \/ Arm \/ Settle

Next ==
    \/ \E s \in Streams : ChildWrites(s) \/ ChildCloses(s)
    \/ ChildReads \/ ChildEnds \/ Tick
    \/ WriteStdin \/ CloseStdin \/ TryWait
    \/ \E max \in Chunks, timeout \in Timeouts : NextEvent(max, timeout)
    \/ Poll
    \/ EventWake \/ WatchReports \/ TimerExpires \/ EventResume \/ Cancel

Spec == Init /\ [][Next]_vars

Executor == Poll \/ EventWake \/ TimerExpires \/ EventResume

Asks == \E max \in Chunks, timeout \in Timeouts : NextEvent(max, timeout)

\* The one thread of the executor polls what is ready or waits in the reactor,
\* the task it polls keeps asking for events, and time passes.  The worker
\* finds an exit whatever the owner does, and the owner takes its report at the
\* next wait, even if every wait is cut short.
AskingSpec ==
    /\ Spec
    /\ WF_vars(Executor \/ Asks) /\ WF_vars(Tick) /\ SF_vars(WatchReports)

-----------------------------------------------------------------------------

TypeOK ==
    /\ script \in Scripts
    /\ state.pending \in 0 .. PayloadSize /\ state.fds \subseteq Streams
    /\ state.source \in {"reactor", "worker"} /\ state.prefer \in Streams
    /\ \A s \in Streams : \E max \in Chunks : Len(state.buf[s]) <= max + Slack
    /\ reg.io \subseteq Streams \cup {"in", "exit"}
    /\ op.at \in {"idle", "probe", "out", "err", "decide", "arm", "settle", "wait",
                  "ready", "expired"}
    /\ op.part \in {"start", "resume", "last", "again"}
    /\ input.held \in 0 .. PipeCapacity /\ input.sent \in 0 .. PayloadSize * MaxPayloads
    /\ child \in {"running", "zombie", "reaped"}
    /\ retained \in Nat /\ live \in 0 .. 1

\* "It preserves ordering independently within stdout and stderr": every byte
\* of the child is in exactly one place, in order, whatever times out or is
\* cancelled in between.
BytesInOrder ==
    state.open => \A s \in Streams :
        emitted[s] \o state.buf[s] \o pipes[s] = SubSeq(script[s], 1, Read(s))

\* "does not split a UTF-8 scalar".
ScalarsWhole == \A s \in Streams : Whole(emitted[s], Len(emitted[s]))

\* "emits Exited only after both streams reach EOF": nothing of the output is
\* left behind, and the child has been waited for.
ExitedLast ==
    state.told =>
        /\ child = "reaped"
        /\ \A s \in Streams : ~holds[s] /\ pipes[s] = <<>> /\ state.buf[s] = <<>>

\* What the events of a child say: its bytes in order and whole scalars, and
\* Exited only when nothing else is to be told.
OutputFaithful == BytesInOrder /\ ScalarsWhole /\ ExitedLast

\* An event that waits misses nothing: whatever could give it a result is
\* registered, and an exit that the reactor will not report is watched.
NothingMissed ==
    op.at = "wait" =>
        /\ state.fds \subseteq reg.io
        /\ state.pending > 0 /\ state.stdin => "in" \in reg.io
        /\ child = "zombie" => (state.source = "worker" \/ ("exit" \in reg.io /\ sure))
        /\ ~HasResult(state)

\* "a timeout preserves the pending suffix": while stdin is open every byte of
\* the payloads is in the pipe or pending, and each payload is reported as
\* flushed once.
StdinKept ==
    state.open /\ state.stdin =>
        /\ PayloadSize * payloads = input.sent + state.pending
        /\ payloads = flushes + (IF state.pending > 0 THEN 1 ELSE 0)
                              + (IF state.flushed THEN 1 ELSE 0)

\* A step of next_event that ends by timeout or cancellation leaves the pending
\* payload alone.
SuffixPreserved ==
    op.at \in {"wait", "ready", "expired"} => state'.pending = state.pending

\* The handle is busy exactly while an event is under way.
BusyExact == state.open => (state.busy <=> op.at # "idle")

\* retained_process_bytes and live_process_operations.
CountersExact ==
    /\ state.open => retained = Held(state)
    /\ ~state.open => retained = 0
    /\ live = IF reg.active THEN 1 ELSE 0
    /\ op.at = "idle" => live = 0

\* A stream with text is passed over at most once.
NotPassedOver == \A s \in Streams : passed[s] <= 1

\* An event that waits is told of what concerns it, holds its child's handle
\* alone and gives everything back, and no stream starves the other.
WaitsExact == TypeOK /\ NothingMissed /\ BusyExact /\ CountersExact /\ NotPassedOver

\* The bytes written to stdin arrive once and in order, however many events
\* time out or are cancelled while they are pending.
StdinDelivered == [][StdinKept' /\ SuffixPreserved]_vars

\* Every event operation ends.
EventEnds == op.at # "idle" ~> op.at = "idle"

\* A task that keeps asking is told of the exit, or the output was no text.
ExitTold ==
    (child # "running" /\ \A s \in Streams : ~holds[s]) ~> (state.told \/ ~state.open)
=============================================================================
