----------------------------- MODULE WaitQueue -----------------------------
(***************************************************************************)
(* The singly linked FIFO of waiter registrations that every channel keeps *)
(* twice (send_head/send_tail and receive_head/receive_tail).  The runtime *)
(* appends at the tail, looks at the head, and unlinks from anywhere.  The *)
(* resolver pool's job queue and completion ring, and the executor's ready *)
(* queue as the pool sees it, have the same operations.                    *)
(*                                                                         *)
(* A list is the set of pairs <<r, s>> with r at or before s: a reflexive  *)
(* linear order on its members.  The empty list is the empty set.          *)
(***************************************************************************)

\* The registrations that are linked in q.
Waiters(q) == {p[1] : p \in q}

\* Link r behind every registration already in q.
LinkTail(q, r) == q \cup {<<s, r>> : s \in Waiters(q) \cup {r}}

\* Unlink the registrations of S, wherever they are.
Unlink(q, S) == {p \in q : p[1] \notin S /\ p[2] \notin S}

\* r is the head of q.
IsHead(q, r) == r \in Waiters(q) /\ \A s \in Waiters(q) : <<r, s>> \in q

\* The members of q of which nothing in S is at or before: what is left of
\* the list in front of the first member of S.
Before(q, S) == {r \in Waiters(q) : \A s \in S : <<s, r>> \notin q}

=============================================================================
