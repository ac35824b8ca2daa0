---------------------------- MODULE FifoChannels ---------------------------
(***************************************************************************)
(* What bounded channels promise, whoever waits on them and whatever is    *)
(* cancelled: payloads are delivered in the order in which they were       *)
(* accepted, none twice and none skipped, at most Bound of them wait in    *)
(* between, and a closed channel accepts nothing more but keeps what it    *)
(* accepted until it is drained.  `accepted` and `delivered` are whole     *)
(* histories, one of each for every channel.                               *)
(***************************************************************************)
EXTENDS Naturals, Sequences

CONSTANTS Channels, Items, Bound

VARIABLES accepted, delivered, closed, gone

vars == <<accepted, delivered, closed, gone>>

Init ==
    /\ accepted = [c \in Channels |-> <<>>]
    /\ delivered = [c \in Channels |-> <<>>]
    /\ closed = [c \in Channels |-> FALSE]
    /\ gone = [c \in Channels |-> FALSE]

\* The oldest payload that was not delivered yet is delivered.
Deliver(c) ==
    delivered'[c] = Append(delivered[c], accepted'[c][Len(delivered[c]) + 1])

\* A payload is accepted; a waiting receiver may get one in the same step,
\* or a receiver may take one and make room for it.
Accept(c) ==
    /\ ~closed[c] /\ ~closed'[c] /\ ~gone[c] /\ ~gone'[c]
    /\ \E v \in Items : accepted'[c] = Append(accepted[c], v)
    /\ Deliver(c) \/ delivered'[c] = delivered[c]
    /\ Len(accepted'[c]) - Len(delivered'[c]) <= Bound[c]

Take(c) ==
    /\ ~gone[c] /\ ~gone'[c] /\ closed'[c] = closed[c]
    /\ Len(delivered[c]) < Len(accepted[c])
    /\ accepted'[c] = accepted[c]
    /\ Deliver(c)

Close(c) ==
    /\ ~gone[c] /\ ~gone'[c] /\ ~closed[c] /\ closed'[c]
    /\ accepted'[c] = accepted[c] /\ delivered'[c] = delivered[c]

\* The last handle is released: what was accepted and not delivered is lost.
Destroy(c) ==
    /\ ~gone[c] /\ gone'[c] /\ closed'[c] = closed[c]
    /\ accepted'[c] = delivered[c] /\ delivered'[c] = delivered[c]

Stays(c) ==
    /\ accepted'[c] = accepted[c] /\ delivered'[c] = delivered[c]
    /\ closed'[c] = closed[c] /\ gone'[c] = gone[c]

\* One step of the runtime may touch several channels: the winner of a select
\* cancels arms that wait on others.
Next == \A c \in Channels :
            Accept(c) \/ Take(c) \/ Close(c) \/ Destroy(c) \/ Stays(c)

Spec == Init /\ [][Next]_vars
=============================================================================
