-------------------------- MODULE MCAsyncChannels --------------------------
(* Small instances of AsyncChannels for TLC. *)
EXTENDS AsyncChannels, TLC

CONSTANTS main, child, other, c1, c2, v1, v2, v3

OneSlot == [c \in Channels |-> 1]

ChildrenHold == [f \in Frames |->
    CASE f = child -> Values \ {v3} [] f = other -> Values \cap {v3} [] OTHER -> {}]

NoShapes == {}
Receive(c) == [op |-> "receive", chan |-> c]
Send(c) == [op |-> "send", chan |-> c]
Sleep == [op |-> "sleep", chan |-> None]

SelectShapes == {<<Receive(c1), Sleep>>, <<Send(c1), Receive(c2)>>}
\* main is done with the first channel before it ends.
MainDropsFirst == {<<main, c1>>}

SelfShapes == {<<Receive(c1), Send(c1)>>}

=============================================================================
