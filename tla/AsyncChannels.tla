--------------------------- MODULE AsyncChannels ---------------------------
(***************************************************************************)
(* The bounded channels and static selects of the current-thread async     *)
(* runtime that the C backend emits:                                       *)
(*   crates/nomo_codegen_c/src/runtime/host_channel_helpers.rs             *)
(*   crates/nomo_codegen_c/src/runtime/host_async_executor_helpers.rs      *)
(*                                                                         *)
(* One owner thread polls one task frame at a time (`running`).  A frame   *)
(* that is running makes runtime calls; each call is one action here, and  *)
(* no other frame acts before the running one returns PENDING or READY.    *)
(* What a frame calls next is arbitrary.                                   *)
(*                                                                         *)
(* A frame embeds one registration per suspended operation: <<f, a>> is    *)
(* the registration of arm a of f's select; a send or a receive outside a  *)
(* select uses arm 1 and has no select token.  Values are affine: every    *)
(* member of Values is one owned payload.                                  *)
(***************************************************************************)
EXTENDS Integers, Sequences, FiniteSets, WaitQueue

CONSTANTS
    Frames,         \* task frames
    Root,           \* the frame of main; it owns the scope of the others
    Channels,       \* channel control blocks
    Values,         \* owned payloads
    MaxArms,        \* NOMO_ASYNC_SELECT_MAX_ARMS
    Shapes,         \* the select statements of the program
    Capacity,       \* ring slots of each channel
    ReadyCapacity,  \* NOMO_ASYNC_READY_CAPACITY
    InitHeld,       \* the payloads each frame starts with
    DeadlineFrames, \* frames whose function has a task.deadline block
    EarlyDrop,      \* <<frame, channel>> whose handle has its last use early
    None            \* no frame, no channel, no payload

Arms == 1 .. MaxArms
Regs == Frames \X Arms
Operations == {"send", "receive", "sleep"}

\* nomo_channel_new refuses capacity 0, so a ring has at least one slot.
ASSUME CapacityAssumption == Capacity \in [Channels -> Nat \ {0}]
\* Every child was spawned, which a saturated ready queue refuses.
ASSUME ReadyCapacityAssumption ==
    ReadyCapacity \in Nat \ {0} /\ Cardinality(Frames) <= ReadyCapacity + 1
ASSUME MaxArmsAssumption == MaxArms \in Nat \ {0}
ASSUME FramesAssumption ==
    IsFiniteSet(Frames) /\ Root \in Frames /\ None \notin Frames
ASSUME HeldAssumption == InitHeld \in [Frames -> SUBSET Values]
ASSUME NoneAssumption == None \notin Values /\ None \notin Channels
\* A select is a sequence of arms, each an operation on a channel; a sleep
\* arm has no channel.
ASSUME ShapesAssumption ==
    \A shape \in Shapes :
        /\ shape \in Seq([op : Operations, chan : Channels \cup {None}])
        /\ Len(shape) \in Arms
        /\ \A i \in 1 .. Len(shape) :
              (shape[i].op = "sleep") <=> (shape[i].chan = None)

VARIABLES
    buf,        \* buf[c]: the ring, oldest payload first
    closed,     \* closed[c]
    sendq,      \* sendq[c]: blocked senders (WaitQueue)
    recvq,      \* recvq[c]: blocked receivers (WaitQueue)
    refs,       \* refs[c]: base.references; 0 is a destroyed control block
    reg,        \* reg[r]: the embedded registration
    tok,        \* tok[f]: the select token of f
    phase,      \* phase[f]: where f's state machine is
    deadline,   \* deadline[f]: the task.deadline timer of f
    held,       \* held[f]: payloads in f's locals and results
    staged,     \* staged[f][a]: payload staged for send arm a, or None
    handles,    \* handles[f]: channels f's locals hold a handle to
    ready,      \* the ready queue
    running,    \* the frame being polled, or None
    failed,     \* context->runtime_failed, or run_root gave up
    dropped,    \* payloads released
    delivered   \* delivered[c]: history of payloads handed to receivers

vars == <<buf, closed, sendq, recvq, refs, reg, tok, phase, deadline, held,
          staged, handles, ready, running, failed, dropped, delivered>>

channelVars == <<buf, closed, sendq, recvq, refs, delivered>>
frameVars == <<phase, deadline, held, staged, handles>>

-----------------------------------------------------------------------------
(* Registrations and tokens.                                               *)

\* A registration as memset leaves it before an operation starts.  What an
\* inactive registration still contains is never read, so one that was
\* resumed or cancelled is returned to this value.  registered/ready stand
\* for the armed/expired flags of a timer registration.
NoRegistration ==
    [op |-> "receive", chan |-> None, value |-> None, owned |-> FALSE,
     registered |-> FALSE, active |-> FALSE, ready |-> FALSE,
     closed |-> FALSE, token |-> FALSE]

\* Winner 0 is NOMO_ASYNC_SELECT_PENDING; `next` is the arm to start next.
NoToken ==
    [active |-> FALSE, winner |-> 0, suspended |-> FALSE, enqueued |-> FALSE,
     registered |-> {}, shape |-> <<>>, next |-> 1]

NoneStaged == [a \in Arms |-> None]

\* nomo_channel_send_claim, nomo_channel_receive_claim: a registration
\* outside a select is always claimed, one of a select only while its token
\* has no winner.
Claimable(r) ==
    \/ ~reg[r].token
    \/ tok[r[1]].active /\ tok[r[1]].winner = 0

\* Mutant of Losers: a claim that does not cancel the other arms.
LosersKept(r) == {}

\* The registrations nomo_async_select_claim cancels when r wins.
Losers(r) ==
    IF reg[r].token
    THEN {<<r[1], a>> : a \in tok[r[1]].registered \ {r[2]}}
    ELSE {}

\* The token of f after nomo_async_select_claim chose arm a and, where the
\* frame is suspended, nomo_async_select_wake ran.
ClaimedToken(f, a) ==
    [tok[f] EXCEPT !.winner = a,
                   !.registered = @ \cap {a},
                   !.enqueued = tok[f].enqueued \/ tok[f].suspended]

\* nomo_channel_send_wake, nomo_channel_receive_wake: a select's token
\* enqueues its frame at most once, and only after the frame suspended.
Wakes(r) ==
    reg[r].token => tok[r[1]].suspended /\ ~tok[r[1]].enqueued

\* Head registrations that lost their claim: the delivery loops unlink them
\* until they meet a claimable one.
Stale(q) == Before(q, {r \in Waiters(q) : Claimable(r)})

Payload(r) == IF reg[r].active /\ reg[r].owned THEN {reg[r].value} ELSE {}

Payloads(S) == UNION {Payload(r) : r \in S}

\* References the active registrations of S hold on channel c.
ReferencesOf(S, c) == Cardinality({r \in S : reg[r].active /\ reg[r].chan = c})

Elements(s) == {s[i] : i \in 1 .. Len(s)}

-----------------------------------------------------------------------------
(* The ready queue.                                                        *)

\* nomo_async_ready_enqueue of the frames fs, in order; a full queue keeps
\* what it has and fails the runtime.
Enqueue(fs) ==
    LET all == ready \o fs
    IN /\ ready' = SubSeq(all, 1, IF Len(all) <= ReadyCapacity
                                  THEN Len(all) ELSE ReadyCapacity)
       /\ failed' = (failed \/ Len(all) > ReadyCapacity)

\* Mutant of CancelReady: a cancelled frame keeps its slot.
CancelReadyKept(S) == ready' = ready

\* nomo_async_ready_cancel_frame for each frame of S: the slots that are kept
\* move up in order.
CancelReady(S) ==
    LET keep == {i \in DOMAIN ready : ready[i] \notin S}
        slots == 1 .. Cardinality(keep)
    IN \E from \in [slots -> keep] :
          /\ \A i, j \in slots : i < j => from[i] < from[j]
          /\ ready' = [i \in slots |-> ready[from[i]]]

-----------------------------------------------------------------------------
(* What the channel operations do to registrations and channels.           *)

\* nomo_channel_release_handle once for each active registration of `lost`
\* and `less` more times for each channel: a control block that loses its
\* last reference is destroyed and releases what its ring holds.  `freed` are
\* payloads the caller itself releases.
Release(lost, less, ring, freed) ==
    LET left == [c \in Channels |-> refs[c] - ReferencesOf(lost, c) - less[c]]
        dead == {c \in Channels : refs[c] > 0 /\ left[c] <= 0}
    IN /\ refs' = [c \in Channels |-> IF left[c] <= 0 THEN 0 ELSE left[c]]
       /\ buf' = [c \in Channels |-> IF c \in dead THEN <<>> ELSE ring[c]]
       /\ dropped' = dropped \cup freed \cup Payloads(lost)
                        \cup UNION {Elements(ring[c]) : c \in dead}

Nothing == [c \in Channels |-> 0]
One(c) == [d \in Channels |-> IF d = c THEN 1 ELSE 0]

\* Registrations `won` complete (won[r] is r's new content), the other arms
\* of their selects are cancelled, the stale ones are unlinked, and the
\* frames in `wake` are enqueued.
Deliver(won, stale, wake, ring) ==
    LET lost == UNION {Losers(r) : r \in DOMAIN won}
        gone == DOMAIN won \cup stale \cup lost
    IN /\ reg' = [r \in Regs |->
                    IF r \in lost THEN NoRegistration
                    ELSE IF r \in DOMAIN won THEN won[r]
                    ELSE IF r \in stale
                    THEN [reg[r] EXCEPT !.registered = FALSE]
                    ELSE reg[r]]
       /\ sendq' = [c \in Channels |-> Unlink(sendq[c], gone)]
       /\ recvq' = [c \in Channels |-> Unlink(recvq[c], gone)]
       /\ tok' = [f \in Frames |->
                    IF \E a \in Arms : <<f, a>> \in DOMAIN won
                                          /\ reg[<<f, a>>].token
                    THEN ClaimedToken(f, CHOOSE a \in Arms :
                                            <<f, a>> \in DOMAIN won)
                    ELSE tok[f]]
       /\ Enqueue(wake)
       /\ Release(lost, Nothing, ring, {})

\* The frame to enqueue for a single winner.
WakeOf(r) == IF Wakes(r) THEN <<r[1]>> ELSE <<>>

\* Mutant of Promoted: the sender still owns the payload it gave to the ring.
PromotedStillOwning(r) ==
    [reg[r] EXCEPT !.registered = FALSE, !.ready = TRUE, !.closed = FALSE]

\* What the winning registration holds afterwards: a receiver owns the payload
\* handed to it, a promoted sender no longer owns its own, and a close leaves
\* the payload with the sender.
HandedTo(r, v) ==
    [reg[r] EXCEPT !.registered = FALSE, !.ready = TRUE, !.closed = FALSE,
                   !.value = v, !.owned = TRUE]
Promoted(r) ==
    [reg[r] EXCEPT !.registered = FALSE, !.ready = TRUE, !.closed = FALSE,
                   !.owned = FALSE]
ClosedOn(r) ==
    [reg[r] EXCEPT !.registered = FALSE, !.ready = TRUE, !.closed = TRUE]
Expired(r) ==
    [reg[r] EXCEPT !.registered = FALSE, !.ready = TRUE]

NoWinner == [x \in {} |-> NoRegistration]

-----------------------------------------------------------------------------
(* nomo_channel_try_send: the three outcomes on an open channel.           *)

\* The oldest claimable receiver takes v directly.
HandOff(c, v) ==
    \E r \in Regs :
        LET stale == Stale(recvq[c])
        IN /\ ~closed[c]
           /\ IsHead(Unlink(recvq[c], stale), r)
           /\ Deliver([x \in {r} |-> HandedTo(r, v)], stale,
                      WakeOf(r), buf)
           /\ delivered' = [delivered EXCEPT ![c] = Append(@, v)]

\* Mutant of PutInRing: no look at the receivers.
PutInRingPastReceivers(c, v) ==
    /\ ~closed[c]
    /\ Len(buf[c]) < Capacity[c]
    /\ Deliver(NoWinner, {}, <<>>, [buf EXCEPT ![c] = Append(@, v)])
    /\ UNCHANGED delivered

\* No receiver is waiting: v goes to the tail of the ring.
PutInRing(c, v) ==
    LET stale == Stale(recvq[c])
    IN /\ ~closed[c]
       /\ Waiters(recvq[c]) = stale
       /\ Len(buf[c]) < Capacity[c]
       /\ Deliver(NoWinner, stale, <<>>,
                  [buf EXCEPT ![c] = Append(@, v)])
       /\ UNCHANGED delivered

IsFull(c) ==
    ~closed[c] /\ Waiters(recvq[c]) = Stale(recvq[c])
        /\ Len(buf[c]) = Capacity[c]

TrySendSucceeds(c, v) == HandOff(c, v) \/ PutInRing(c, v)

\* Mutant of TakeFromRing: no sender is promoted into the free slot.
TakeFromRingOnly(c) ==
    /\ buf[c] # <<>>
    /\ delivered' = [delivered EXCEPT ![c] = Append(@, Head(buf[c]))]
    /\ Deliver(NoWinner, {}, <<>>, [buf EXCEPT ![c] = Tail(@)])

(* nomo_channel_try_receive: pop the ring, then nomo_channel_promote_sender *)
(* moves the oldest claimable blocked sender's payload into the free slot.  *)
TakeFromRing(c) ==
    LET stale == Stale(sendq[c])
        rest == Unlink(sendq[c], stale)
        popped == [buf EXCEPT ![c] = Tail(@)]
    IN /\ buf[c] # <<>>
       /\ delivered' = [delivered EXCEPT ![c] = Append(@, Head(buf[c]))]
       /\ \/ /\ rest = {}
             /\ Deliver(NoWinner, stale, <<>>, popped)
          \/ \E s \in Regs :
                /\ IsHead(rest, s)
                /\ Deliver([x \in {s} |-> Promoted(s)], stale, WakeOf(s),
                           [popped EXCEPT ![c] = Append(@, reg[s].value)])

IsEmpty(c) == buf[c] = <<>> /\ ~closed[c]
IsDrained(c) == buf[c] = <<>> /\ closed[c]

-----------------------------------------------------------------------------
(* The initial state: main created the channels, gave each child a handle  *)
(* to them and spawned the children, and goes on running.                  *)

Init ==
    /\ buf = [c \in Channels |-> <<>>]
    /\ closed = [c \in Channels |-> FALSE]
    /\ sendq = [c \in Channels |-> {}]
    /\ recvq = [c \in Channels |-> {}]
    /\ refs = [c \in Channels |-> Cardinality(Frames)]
    /\ reg = [r \in Regs |-> NoRegistration]
    /\ tok = [f \in Frames |-> NoToken]
    /\ phase = [f \in Frames |-> "idle"]
    /\ deadline = [f \in Frames |-> "none"]
    /\ held = InitHeld
    /\ staged = [f \in Frames |-> NoneStaged]
    /\ handles = [f \in Frames |-> Channels]
    /\ ready \in {s \in [1 .. Cardinality(Frames) - 1 -> Frames \ {Root}] :
                    \A i, j \in DOMAIN s : s[i] = s[j] => i = j}
    /\ running = Root
    /\ failed = FALSE
    /\ dropped = {}
    /\ delivered = [c \in Channels |-> <<>>]

-----------------------------------------------------------------------------
(* Operations outside a select.                                            *)

\* f is being polled and its code runs.
Runs(f) == ~failed /\ running = f /\ phase[f] = "idle"

Holds(f, c) == c \in handles[f]

\* The payloads f may send.  A payload that was delivered once is not sent
\* again: this bounds the histories.
Sendable(f) ==
    {v \in held[f] : \A c \in Channels : v \notin Elements(delivered[c])}

\* task.try_send, and task.send where the first attempt succeeds.  A closed
\* channel gives the payload straight back, and a full one does so after the
\* stale receivers are unlinked.
TrySend(f, c, v) ==
    /\ Runs(f) /\ Holds(f, c) /\ v \in Sendable(f)
    /\ \/ /\ TrySendSucceeds(c, v)
          /\ held' = [held EXCEPT ![f] = @ \ {v}]
       \/ /\ IsFull(c)
          /\ Deliver(NoWinner, Stale(recvq[c]), <<>>, buf)
          /\ UNCHANGED <<held, delivered>>
    /\ UNCHANGED <<closed, phase, deadline, staged, handles, running>>

\* task.try_receive, and task.receive where the ring is not empty.  On an
\* empty ring try_receive changes nothing.
TryReceive(f, c) ==
    /\ Runs(f) /\ Holds(f, c)
    /\ TakeFromRing(c)
    /\ held' = [held EXCEPT ![f] = @ \cup {Head(buf[c])}]
    /\ UNCHANGED <<closed, phase, deadline, staged, handles, running>>

\* Link a new registration x at r, as the tail of the channel's sender or
\* receiver list, with its own reference to the channel.
Suspend(r, c, x) ==
    LET stale == IF x.op = "send" THEN Stale(recvq[c]) ELSE {}
    IN /\ reg' = [q \in Regs |->
                    IF q = r THEN x
                    ELSE IF q \in stale
                    THEN [reg[q] EXCEPT !.registered = FALSE]
                    ELSE reg[q]]
       /\ sendq' = IF x.op = "send"
                   THEN [sendq EXCEPT ![c] = LinkTail(@, r)] ELSE sendq
       /\ recvq' = IF x.op = "receive"
                   THEN [recvq EXCEPT ![c] = LinkTail(@, r)]
                   ELSE [recvq EXCEPT ![c] = Unlink(@, stale)]
       /\ refs' = [refs EXCEPT ![c] = @ + 1]

SendRegistration(c, v, token) ==
    [NoRegistration EXCEPT !.op = "send", !.chan = c, !.value = v,
                           !.owned = TRUE, !.registered = TRUE,
                           !.active = TRUE, !.token = token]
ReceiveRegistration(c, token) ==
    [NoRegistration EXCEPT !.op = "receive", !.chan = c, !.registered = TRUE,
                           !.active = TRUE, !.token = token]

\* nomo_channel_send_start on a full channel: the payload moves to the
\* registration and the poll returns PENDING.
SendStart(f, c, v) ==
    /\ Runs(f) /\ Holds(f, c) /\ v \in Sendable(f)
    /\ IsFull(c)
    /\ Suspend(<<f, 1>>, c, SendRegistration(c, v, FALSE))
    /\ held' = [held EXCEPT ![f] = @ \ {v}]
    /\ phase' = [phase EXCEPT ![f] = "plain"]
    /\ running' = None
    /\ UNCHANGED <<buf, closed, tok, deadline, staged, handles, ready, failed,
                   dropped, delivered>>

\* nomo_channel_receive_start on an empty open channel.
ReceiveStart(f, c) ==
    /\ Runs(f) /\ Holds(f, c)
    /\ IsEmpty(c)
    /\ Suspend(<<f, 1>>, c, ReceiveRegistration(c, FALSE))
    /\ phase' = [phase EXCEPT ![f] = "plain"]
    /\ running' = None
    /\ UNCHANGED <<buf, closed, tok, deadline, held, staged, handles, ready,
                   failed, dropped, delivered>>

\* nomo_channel_close: every claimable blocked sender, then every claimable
\* blocked receiver, is woken with the closed outcome.  When two arms of one
\* select wait on the channel the earlier one wins and cancels the other.
Close(f, c) ==
    LET waiting == Waiters(sendq[c]) \cup Waiters(recvq[c])
        ahead(r, s) ==      \* r is claimed before s
            \/ <<r, s>> \in sendq[c] \cup recvq[c]
            \/ r \in Waiters(sendq[c]) /\ s \in Waiters(recvq[c])
        won == {r \in waiting :
                  /\ Claimable(r)
                  /\ \A s \in waiting \ {r} :
                        reg[r].token /\ s[1] = r[1] => ~ahead(s, r)}
        woken == {r \in won : Wakes(r)}
        turns == 1 .. Cardinality(woken)
    IN /\ Runs(f) /\ Holds(f, c)
       /\ ~closed[c]
       /\ closed' = [closed EXCEPT ![c] = TRUE]
       /\ \E order \in [turns -> woken] :
             /\ \A i, j \in turns : i < j => ahead(order[i], order[j])
                                                /\ order[i] # order[j]
             /\ Deliver([r \in won |-> ClosedOn(r)], waiting \ won,
                        [i \in turns |-> order[i][1]], buf)
       /\ UNCHANGED <<phase, deadline, held, staged, handles, running,
                      delivered>>

\* A channel handle is released at its last use, before the frame ends.
ReleaseHandle(f, c) ==
    /\ Runs(f) /\ Holds(f, c) /\ <<f, c>> \in EarlyDrop
    /\ handles' = [handles EXCEPT ![f] = @ \ {c}]
    /\ Release({}, One(c), buf, {})
    /\ UNCHANGED <<closed, sendq, recvq, reg, tok, phase, deadline, held,
                   staged, ready, running, failed, delivered>>

\* task.yield_now: run_root enqueues the frame again.
Yield(f) ==
    /\ Runs(f)
    /\ running' = None
    /\ Enqueue(<<f>>)
    /\ UNCHANGED <<channelVars, reg, tok, frameVars, dropped>>

-----------------------------------------------------------------------------
(* task.select: operands are evaluated and the token is initialised, the   *)
(* arms are started in source order, and the first one that is ready wins. *)

SelectStart(f, shape) ==
    LET sends == {a \in DOMAIN shape : shape[a].op = "send"}
    IN /\ Runs(f)
       /\ \A a \in DOMAIN shape :
             shape[a].op = "sleep" \/ Holds(f, shape[a].chan)
       /\ \E value \in [sends -> Sendable(f)] :
             /\ \A a, b \in sends : value[a] = value[b] => a = b
             /\ staged' = [staged EXCEPT ![f] =
                             [a \in Arms |-> IF a \in sends THEN value[a]
                                                           ELSE None]]
             /\ held' = [held EXCEPT ![f] = @ \ {value[a] : a \in sends}]
       /\ tok' = [tok EXCEPT ![f] = [NoToken EXCEPT !.active = TRUE,
                                                    !.shape = shape]]
       /\ phase' = [phase EXCEPT ![f] = "starting"]
       /\ UNCHANGED <<channelVars, reg, deadline, handles, ready, running,
                      failed, dropped>>

\* f is about to start an arm with operation op.
Starts(f, op) ==
    /\ ~failed /\ running = f /\ phase[f] = "starting"
    /\ tok[f].next \in DOMAIN tok[f].shape
    /\ tok[f].shape[tok[f].next].op = op

ArmChannel(f) == tok[f].shape[tok[f].next].chan

\* nomo_async_select_register, and on to the next arm.
Registered(f) ==
    [tok EXCEPT ![f].registered =
                   IF tok[f].winner = 0 THEN @ \cup {tok[f].next} ELSE @,
                ![f].next = @ + 1]

Claiming(f) == phase' = [phase EXCEPT ![f] = "claiming"]

\* A send arm.  Its staged payload goes to a receiver, to the ring, back to
\* the frame in the closed result, or to the registration.
ArmSend(f) ==
    LET c == ArmChannel(f)
        v == staged[f][tok[f].next]
    IN /\ Starts(f, "send")
       /\ staged' = [staged EXCEPT ![f][tok[f].next] = None]
       /\ \/ TrySendSucceeds(c, v) /\ Claiming(f) /\ UNCHANGED held
          \/ /\ closed[c]
             /\ Claiming(f)
             /\ held' = [held EXCEPT ![f] = @ \cup {v}]
             /\ UNCHANGED <<buf, sendq, recvq, refs, reg, tok, ready, failed,
                            dropped, delivered>>
          \/ /\ IsFull(c)
             /\ Suspend(<<f, tok[f].next>>, c, SendRegistration(c, v, TRUE))
             /\ tok' = Registered(f)
             /\ UNCHANGED <<buf, phase, held, ready, failed, dropped,
                            delivered>>
       /\ UNCHANGED <<closed, deadline, handles, running>>

ArmReceive(f) ==
    LET c == ArmChannel(f)
    IN /\ Starts(f, "receive")
       /\ \/ /\ TakeFromRing(c)
             /\ Claiming(f)
             /\ held' = [held EXCEPT ![f] = @ \cup {Head(buf[c])}]
          \/ /\ IsDrained(c)
             /\ Claiming(f)
             /\ UNCHANGED <<buf, sendq, recvq, refs, reg, tok, ready, failed,
                            dropped, delivered, held>>
          \/ /\ IsEmpty(c)
             /\ Suspend(<<f, tok[f].next>>, c, ReceiveRegistration(c, TRUE))
             /\ tok' = Registered(f)
             /\ UNCHANGED <<buf, phase, held, ready, failed, dropped,
                            delivered>>
       /\ UNCHANGED <<closed, deadline, staged, handles, running>>

\* nomo_async_timer_start: a duration that is not positive, or a full timer
\* table, is ready at once; otherwise the timer is armed.
ArmSleep(f) ==
    LET r == <<f, tok[f].next>>
    IN /\ Starts(f, "sleep")
       /\ \/ Claiming(f) /\ UNCHANGED <<reg, tok>>
          \/ /\ reg' = [reg EXCEPT ![r] =
                          [NoRegistration EXCEPT !.op = "sleep",
                                                 !.registered = TRUE,
                                                 !.token = TRUE]]
             /\ tok' = Registered(f)
             /\ UNCHANGED phase
       /\ UNCHANGED <<channelVars, deadline, held, staged, handles, ready,
                      running, failed, dropped>>

\* nomo_async_select_suspend: no arm was ready, the poll returns PENDING.
SelectSuspend(f) ==
    /\ ~failed /\ running = f /\ phase[f] = "starting"
    /\ tok[f].next \notin DOMAIN tok[f].shape
    /\ tok' = [tok EXCEPT ![f].suspended = TRUE]
    /\ phase' = [phase EXCEPT ![f] = "select"]
    /\ running' = None
    /\ UNCHANGED <<channelVars, reg, deadline, held, staged, handles, ready,
                   failed, dropped>>

\* nomo_async_select_immediate_win for the arm that was ready: the arms
\* registered before it are cancelled, the payloads staged for later arms are
\* released, and the arm's body runs.  A token that already has a winner
\* fails the runtime.
ImmediateWin(f) ==
    LET lost == {<<f, a>> : a \in tok[f].registered \ {tok[f].next}}
        unused == {staged[f][a] : a \in Arms} \ {None}
    IN /\ ~failed /\ running = f /\ phase[f] = "claiming"
       /\ IF tok[f].active /\ tok[f].winner = 0
          THEN /\ reg' = [r \in Regs |-> IF r \in lost THEN NoRegistration
                                                       ELSE reg[r]]
               /\ sendq' = [c \in Channels |-> Unlink(sendq[c], lost)]
               /\ recvq' = [c \in Channels |-> Unlink(recvq[c], lost)]
               /\ Release(lost, Nothing, buf, unused)
               /\ tok' = [tok EXCEPT ![f] = NoToken]
               /\ staged' = [staged EXCEPT ![f] = NoneStaged]
               /\ phase' = [phase EXCEPT ![f] = "idle"]
               /\ UNCHANGED failed
          ELSE /\ failed' = TRUE
               /\ UNCHANGED <<reg, sendq, recvq, refs, buf, dropped, tok,
                              staged, phase>>
       /\ UNCHANGED <<closed, delivered, deadline, held, handles, ready,
                      running>>

-----------------------------------------------------------------------------
(* Resumption.                                                             *)

\* A polled frame whose deadline already fired takes the deadline's path.
Resumes(f, where) ==
    ~failed /\ running = f /\ phase[f] = where /\ deadline[f] # "expired"

\* Mutant of Finished: the registration's reference is not released.
FinishedStillReferring(f, r) ==
    /\ reg' = [reg EXCEPT ![r] = NoRegistration]
    /\ held' = [held EXCEPT ![f] = @ \cup Payload(r)]
    /\ Release({}, Nothing, buf, {})
    /\ phase' = [phase EXCEPT ![f] = "idle"]

\* nomo_channel_send_resume, nomo_channel_receive_resume, nomo_async_timer_
\* resume on a ready registration: the payload it owns becomes the frame's
\* result and its channel reference is released.
Finished(f, r) ==
    /\ reg' = [reg EXCEPT ![r] = NoRegistration]
    /\ held' = [held EXCEPT ![f] = @ \cup Payload(r)]
    /\ Release({}, IF reg[r].active THEN One(reg[r].chan) ELSE Nothing,
               buf, {})
    /\ phase' = [phase EXCEPT ![f] = "idle"]

\* An operation outside a select; one that is not ready stays PENDING.
Resume(f) ==
    LET r == <<f, 1>>
    IN /\ Resumes(f, "plain")
       /\ IF reg[r].ready
          THEN Finished(f, r) /\ UNCHANGED running
          ELSE /\ running' = None
               /\ UNCHANGED <<reg, held, refs, buf, dropped, phase>>
       /\ UNCHANGED <<closed, sendq, recvq, delivered, tok, deadline, staged,
                      handles, ready, failed>>

\* A select runs the body of its winner; a winner that is not ready fails
\* the runtime, and a select without a winner stays PENDING.
SelectResume(f) ==
    LET r == <<f, tok[f].winner>>
    IN /\ Resumes(f, "select")
       /\ IF tok[f].winner = 0
          THEN /\ running' = None
               /\ UNCHANGED <<reg, held, refs, buf, dropped, phase, tok,
                              failed>>
          ELSE IF reg[r].ready
          THEN /\ Finished(f, r)
               /\ tok' = [tok EXCEPT ![f] = NoToken]
               /\ UNCHANGED <<running, failed>>
          ELSE /\ failed' = TRUE
               /\ UNCHANGED <<reg, held, refs, buf, dropped, phase, tok,
                              running>>
       /\ UNCHANGED <<closed, sendq, recvq, delivered, deadline, staged,
                      handles, ready>>

-----------------------------------------------------------------------------
(* Cancellation, deadlines and the end of a frame.                         *)

Over == {"done", "dropped"}

\* The registrations frame f has outstanding.
Outstanding(f) ==
    IF tok[f].active THEN {<<f, a>> : a \in tok[f].registered}
    ELSE IF phase[f] = "plain" THEN {<<f, 1>>} ELSE {}

\* What cancelling the frames of S does: leave the ready queue, disarm the
\* deadline, cancel the select and the channel operation, and complete.
CancelFrames(S) ==
    LET lost == UNION {Outstanding(f) : f \in S}
    IN /\ reg' = [r \in Regs |-> IF r \in lost THEN NoRegistration
                                               ELSE reg[r]]
       /\ sendq' = [c \in Channels |-> Unlink(sendq[c], lost)]
       /\ recvq' = [c \in Channels |-> Unlink(recvq[c], lost)]
       /\ Release(lost, Nothing, buf, {})
       /\ tok' = [f \in Frames |-> IF f \in S THEN NoToken ELSE tok[f]]
       /\ phase' = [f \in Frames |-> IF f \in S THEN "done" ELSE phase[f]]
       /\ deadline' = [f \in Frames |-> IF f \in S THEN "none"
                                                   ELSE deadline[f]]
       /\ CancelReady(S)

\* task.cancel by the owner of the scope.
Cancel(f) ==
    /\ Runs(Root) /\ f # Root /\ phase[f] \notin Over
    /\ CancelFrames({f})
    /\ UNCHANGED <<closed, delivered, held, staged, handles, running, failed>>

EnterDeadline(f) ==
    /\ Runs(f) /\ f \in DeadlineFrames /\ deadline[f] = "none"
    /\ deadline' = [deadline EXCEPT ![f] = "armed"]
    /\ UNCHANGED <<channelVars, reg, tok, phase, held, staged, handles, ready,
                   running, failed, dropped>>

ExitDeadline(f) ==
    /\ Runs(f) /\ deadline[f] # "none"
    /\ deadline' = [deadline EXCEPT ![f] = "none"]
    /\ UNCHANGED <<channelVars, reg, tok, phase, held, staged, handles, ready,
                   running, failed, dropped>>

\* nomo_async_deadline_due at a statement or resume boundary: the timer fired
\* or the clock has passed it.  The frame fails with all it has outstanding,
\* its children included, even if its operation is ready.
DeadlineFailure(f) ==
    /\ ~failed /\ running = f /\ phase[f] \in {"idle", "plain", "select"}
    /\ deadline[f] # "none"
    /\ CancelFrames({g \in IF f = Root THEN Frames ELSE {f} :
                        phase[g] \notin Over})
    /\ running' = None
    /\ UNCHANGED <<closed, delivered, held, staged, handles, failed>>

\* The frame's function returns; a scope ends after its children.
Finish(f) ==
    /\ Runs(f)
    /\ f = Root => \A g \in Frames \ {Root} : phase[g] \in Over
    /\ phase' = [phase EXCEPT ![f] = "done"]
    /\ deadline' = [deadline EXCEPT ![f] = "none"]
    /\ running' = None
    /\ UNCHANGED <<channelVars, reg, tok, held, staged, handles, ready,
                   failed, dropped>>

\* The drop function of a completed frame: its owner drops a child, the main
\* wrapper drops the root after run_root returned.
DropFrame(f) ==
    /\ ~failed /\ phase[f] = "done"
    /\ IF f = Root THEN running = None /\ ready = <<>> ELSE Runs(Root)
    /\ phase' = [phase EXCEPT ![f] = "dropped"]
    /\ held' = [held EXCEPT ![f] = {}]
    /\ staged' = [staged EXCEPT ![f] = NoneStaged]
    /\ handles' = [handles EXCEPT ![f] = {}]
    /\ Release({}, [c \in Channels |-> IF Holds(f, c) THEN 1 ELSE 0], buf,
               held[f] \cup ({staged[f][a] : a \in Arms} \ {None}))
    /\ UNCHANGED <<closed, sendq, recvq, delivered, reg, tok, deadline, ready,
                   running, failed>>

-----------------------------------------------------------------------------
(* The executor: nomo_async_executor_run_root.                             *)

Poll(f) ==
    /\ ~failed /\ running = None /\ ready # <<>> /\ f = Head(ready)
    /\ running' = f
    /\ ready' = Tail(ready)
    /\ UNCHANGED <<channelVars, reg, tok, frameVars, failed, dropped>>

\* nomo_async_wait_next runs only on an empty ready queue.  Which timer is
\* the earliest is left open.
Idle == ~failed /\ running = None /\ ready = <<>>

\* A sleep arm expires; a claim that fails fails the runtime.
TimerExpire(r) ==
    /\ Idle /\ reg[r].op = "sleep" /\ reg[r].registered
    /\ IF Claimable(r)
       THEN Deliver([x \in {r} |-> Expired(r)], {}, WakeOf(r), buf)
       ELSE failed' = TRUE /\ UNCHANGED <<buf, sendq, recvq, refs, reg, tok,
                                          ready, dropped>>
    /\ UNCHANGED <<closed, delivered, frameVars, running>>

DeadlineExpire(f) ==
    /\ Idle /\ deadline[f] = "armed"
    /\ deadline' = [deadline EXCEPT ![f] = "expired"]
    /\ Enqueue(<<f>>)
    /\ UNCHANGED <<channelVars, reg, tok, phase, held, staged, handles,
                   running, dropped>>

Next ==
    \/ \E f \in Frames :
          \/ \E c \in Channels : \/ \E v \in Values : \/ TrySend(f, c, v)
                                                      \/ SendStart(f, c, v)
                                 \/ TryReceive(f, c)
                                 \/ ReceiveStart(f, c)
                                 \/ Close(f, c)
                                 \/ ReleaseHandle(f, c)
          \/ \E shape \in Shapes : SelectStart(f, shape)
          \/ ArmSend(f) \/ ArmReceive(f) \/ ArmSleep(f)
          \/ SelectSuspend(f) \/ ImmediateWin(f)
          \/ Resume(f) \/ SelectResume(f)
          \/ Yield(f) \/ Cancel(f) \/ Finish(f) \/ DropFrame(f)
          \/ EnterDeadline(f) \/ ExitDeadline(f)
          \/ DeadlineFailure(f) \/ DeadlineExpire(f)
          \/ Poll(f)
    \/ \E r \in Regs : TimerExpire(r)

Spec == Init /\ [][Next]_vars

-----------------------------------------------------------------------------
(* Properties.                                                             *)

Registrations ==
    [op : Operations, chan : Channels \cup {None},
     value : Values \cup {None}, owned : BOOLEAN, registered : BOOLEAN,
     active : BOOLEAN, ready : BOOLEAN, closed : BOOLEAN, token : BOOLEAN]

Tokens ==
    [active : BOOLEAN, winner : 0 .. MaxArms, suspended : BOOLEAN,
     enqueued : BOOLEAN, registered : SUBSET Arms, shape : Shapes \cup {<<>>},
     next : 1 .. MaxArms + 1]

\* Every variable has its type, no ring holds more than its capacity, and the
\* ready queue stays within its own.
TypeOK ==
    /\ buf \in [Channels -> Seq(Values)]
    /\ \A c \in Channels : Len(buf[c]) <= Capacity[c]
    /\ closed \in [Channels -> BOOLEAN]
    /\ sendq \in [Channels -> SUBSET (Regs \X Regs)]
    /\ recvq \in [Channels -> SUBSET (Regs \X Regs)]
    /\ refs \in [Channels -> Nat]
    /\ reg \in [Regs -> Registrations]
    /\ tok \in [Frames -> Tokens]
    /\ phase \in [Frames -> {"idle", "plain", "starting", "claiming",
                             "select"} \cup Over]
    /\ deadline \in [Frames -> {"none", "armed", "expired"}]
    /\ held \in [Frames -> SUBSET Values]
    /\ staged \in [Frames -> [Arms -> Values \cup {None}]]
    /\ handles \in [Frames -> SUBSET Channels]
    /\ ready \in Seq(Frames) /\ Len(ready) <= ReadyCapacity
    /\ running \in Frames \cup {None}
    /\ failed \in BOOLEAN
    /\ dropped \subseteq Values
    /\ delivered \in [Channels -> Seq(Values)]

\* No receiver is left waiting for something that is there: receivers are
\* linked only on an empty ring of an open channel (receive_start, try_send,
\* promote_sender, close, and every cancel).
ReceiversBlocked ==
    \A c \in Channels : recvq[c] # {} => buf[c] = <<>> /\ ~closed[c]

\* No sender is left waiting for room that is there: senders are linked only
\* on a full ring of an open channel.
SendersBlocked ==
    \A c \in Channels :
        sendq[c] # {} => Len(buf[c]) = Capacity[c] /\ ~closed[c]

\* Where payload v is: every slot, flag or local that would release it.
Places(v) ==
    (UNION { {<<"ring", c, i>> : i \in {j \in 1 .. Len(buf[c]) :
                                          buf[c][j] = v}} : c \in Channels })
    \cup {<<"registration", r, 0>> : r \in {q \in Regs : v \in Payload(q)}}
    \cup {<<"frame", f, 0>> : f \in {g \in Frames : v \in held[g]}}
    \cup {<<"staged", p[1], p[2]>> :
            p \in {q \in Frames \X Arms : staged[q[1]][q[2]] = v}}
    \cup (IF v \in dropped THEN {<<"dropped", None, 0>>} ELSE {})

\* "release or return a staged value exactly once": across hand-off,
\* promotion, close, select losers, cancellation, deadlines and drops, each
\* payload has exactly one owner or has been released.
OneOwner == \A v \in Values : Cardinality(Places(v)) = 1

\* A control block lives exactly as long as someone needs it: its count is
\* the handles in frames plus the active registrations, and a destroyed one
\* has neither waiters nor payloads.
ReferencesExact ==
    \A c \in Channels :
        /\ refs[c] = Cardinality({f \in Frames : c \in handles[f]})
                       + ReferencesOf(Regs, c)
        /\ refs[c] = 0 => sendq[c] = {} /\ recvq[c] = {} /\ buf[c] = <<>>

\* The intrusive lists and the registrations agree: a registration is linked
\* exactly where its registered flag, operation and channel say, it is still
\* active, its outcome is not set yet, and its select can still be claimed.
ListsConsistent ==
    \A c \in Channels, r \in Regs :
        /\ r \in Waiters(sendq[c]) <=>
              reg[r].registered /\ reg[r].op = "send" /\ reg[r].chan = c
        /\ r \in Waiters(recvq[c]) <=>
              reg[r].registered /\ reg[r].op = "receive" /\ reg[r].chan = c
        /\ r \in Waiters(sendq[c]) \cup Waiters(recvq[c]) =>
              reg[r].active /\ ~reg[r].ready /\ Claimable(r)

\* The reference counts, the intrusive lists and the registrations tell one
\* story: what nomo_channel_release_handle counts down is what the lists and
\* the frames still use, and a list links exactly the operations that wait.
ControlBlocksExact == ReferencesExact /\ ListsConsistent

\* No wake-up is lost: a suspended frame whose operation has completed, or
\* whose select has a winner, is in the ready queue or being polled.
WakeNotLost ==
    \A f \in Frames :
        \/ failed
        \/ phase[f] = "plain" /\ ~reg[<<f, 1>>].ready
        \/ phase[f] = "select" /\ tok[f].winner = 0
        \/ phase[f] \notin {"plain", "select"}
        \/ running = f \/ f \in Elements(ready)

\* "enqueues the owner frame at most once": no frame is twice in the ready
\* queue, or in it while it is polled, or in it once it is over.
EnqueuedOnce ==
    /\ \A i, j \in 1 .. Len(ready) : ready[i] = ready[j] => i = j
    /\ ~failed => running \notin Elements(ready)
    /\ \A i \in 1 .. Len(ready) : phase[ready[i]] \notin Over

\* A completion takes its frame to the ready queue, and takes it there once:
\* nomo_async_ready_enqueue is called for every outcome a suspended frame
\* waits for, and cancel_frame leaves nothing of a dropped frame behind.
WokenOnce == WakeNotLost /\ EnqueuedOnce

\* "A late loser event cannot execute an arm body": once a select has a
\* winner every other arm's registration is gone, and the winner of a
\* suspended select has its outcome.
OneWinner ==
    \A f \in Frames :
        tok[f].active /\ tok[f].winner # 0 =>
            /\ \A a \in Arms \ {tok[f].winner} :
                  reg[<<f, a>>] = NoRegistration
            /\ phase[f] = "select" => reg[<<f, tok[f].winner>>].ready

\* "the first source-order arm wins": when an arm is ready as its select
\* starts, no other arm of the select has been claimed.
FirstReadyArmWins ==
    \A f \in Frames : phase[f] = "claiming" => tok[f].winner = 0

\* No claim of the runtime's own bookkeeping fails and the ready queue is
\* never saturated by the frames that exist: runtime_failed stays 0.
NoRuntimeFailure == ~failed

\* Every select is decided by one arm, and no claim that the runtime takes
\* for granted (immediate_win, the wakes of close and promotion, the timer's)
\* finds the token taken: context->runtime_failed stays 0.
SelectDecided == OneWinner /\ NoRuntimeFailure

\* The channels implement FifoChannels; the payloads accepted so far are the
\* ones delivered followed by the ones in the ring.
Fifo == INSTANCE FifoChannels
          WITH Items <- Values, Bound <- Capacity,
               accepted <- [c \in Channels |-> delivered[c] \o buf[c]],
               gone <- [c \in Channels |-> refs[c] = 0]

\* Every channel delivers in the order of acceptance, loses nothing while it
\* lives, never exceeds its capacity and accepts nothing once closed, through
\* hand-offs, promotions of blocked senders, closes and cancellations.
FifoDelivery == Fifo!Spec

-----------------------------------------------------------------------------
(* The inductive invariant behind the theorems of AsyncChannelsProofs.     *)

\* Payloads are never forged: whatever a registration owns, or would put in a
\* ring when it is promoted, is a payload.
PayloadsReal ==
    /\ \A r \in Regs : reg[r].owned => reg[r].value \in Values
    /\ \A c \in Channels : \A r \in Waiters(sendq[c]) : reg[r].value \in Values

\* A linked registration has no outcome yet and belongs to an operation its
\* frame is in the middle of.
LinkedPending ==
    \A c \in Channels : \A r \in Waiters(sendq[c]) \cup Waiters(recvq[c]) :
        /\ ~reg[r].ready
        /\ \/ phase[r[1]] = "plain" /\ r[2] = 1
           \/ tok[r[1]].active /\ r[2] \in tok[r[1]].registered

\* The token of a frame is active exactly during its select.  While the arms
\* are started nothing else runs, so no winner is chosen before an arm was
\* ready; a winner leaves no other arm registered.
TokenDiscipline ==
    \A f \in Frames :
        /\ tok[f].active <=> phase[f] \in {"starting", "claiming", "select"}
        /\ tok[f].winner # 0 => tok[f].registered \subseteq {tok[f].winner}
        /\ phase[f] \in {"starting", "claiming"} =>
              /\ running = f
              /\ \A a \in tok[f].registered : a < tok[f].next
        /\ phase[f] = "starting" =>
              /\ tok[f].winner = 0
              /\ \A a \in DOMAIN tok[f].shape :
                    a >= tok[f].next /\ tok[f].shape[a].op = "send" =>
                        staged[f][a] \in Values

\* No sender is linked on a closed channel.
ClosedHasNoSenders == \A c \in Channels : sendq[c] # {} => ~closed[c]

\* What every step of the runtime preserves.
Inductive ==
    /\ TypeOK
    /\ PayloadsReal
    /\ LinkedPending
    /\ TokenDiscipline
    /\ ReceiversBlocked
    /\ ClosedHasNoSenders
=============================================================================
