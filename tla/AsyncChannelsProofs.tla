--------------------------- MODULE AsyncChannelsProofs -------------------------
(***************************************************************************)
(* Proofs about AsyncChannels for every number of frames, channels,        *)
(* payloads, arms and ring slots, and every set of select statements.      *)
(*                                                                         *)
(* The first part is about types, references and registrations.  The       *)
(* second proves that the bounded channels implement FifoChannels, that no *)
(* sender waits for room that is there, that the reference counts and      *)
(* intrusive lists are exact, that every completion wakes its frame once,  *)
(* that every select is decided and that every payload has one owner.      *)
(***************************************************************************)
EXTENDS AsyncChannels, FiniteSetTheorems, SequenceTheorems, TLAPS

USE MaxArmsAssumption, NoneAssumption

-----------------------------------------------------------------------------
(* Lists, registrations and tokens. *)

\* Unlinking keeps a list's type and leaves exactly the other waiters.
LEMMA UnlinkFacts ==
    ASSUME NEW q \in SUBSET (Regs \X Regs), NEW S
    PROVE  /\ Unlink(q, S) \in SUBSET (Regs \X Regs)
           /\ Unlink(q, S) \subseteq q
           /\ Waiters(Unlink(q, S)) \subseteq Waiters(q) \ S
           /\ Waiters(q) \subseteq Regs
           /\ Waiters(q) \subseteq S => Unlink(q, S) = {}
BY DEF Unlink, Waiters

\* A list is empty exactly when it has no waiters.
LEMMA NoWaiters ==
    ASSUME NEW q
    PROVE  q = {} <=> Waiters(q) = {}
BY DEF Waiters

\* Linking r adds r and nothing else.
LEMMA LinkTailFacts ==
    ASSUME NEW q \in SUBSET (Regs \X Regs), NEW r \in Regs
    PROVE  /\ LinkTail(q, r) \in SUBSET (Regs \X Regs)
           /\ Waiters(LinkTail(q, r)) = Waiters(q) \cup {r}
<1> DEFINE tail == {<<s, r>> : s \in Waiters(q) \cup {r}}
<1>1. Waiters(q) \subseteq Regs
  BY DEF Waiters
<1>2. tail \in SUBSET (Regs \X Regs)
  BY <1>1
<1>3. \A s : s \in Waiters(tail) <=> s \in Waiters(q) \cup {r}
  <2> TAKE s
  <2>1. s \in Waiters(q) \cup {r} => <<s, r>> \in tail /\ <<s, r>>[1] = s
    OBVIOUS
  <2>2. \A p \in tail : p[1] \in Waiters(q) \cup {r}
    OBVIOUS
  <2> HIDE DEF tail
  <2> QED
    BY <2>1, <2>2 DEF Waiters
<1>4. Waiters(q \cup tail) = Waiters(q) \cup Waiters(tail)
  BY DEF Waiters
<1> QED
  BY <1>2, <1>3, <1>4 DEF LinkTail

\* The memset value of a registration is a registration.
LEMMA NoRegistrationType ==
    /\ NoRegistration \in Registrations
    /\ ~NoRegistration.owned
    /\ ~NoRegistration.ready
BY DEF NoRegistration, Registrations, Operations

\* A token before nomo_async_select_init is a token with nothing registered.
LEMMA NoTokenType ==
    /\ NoToken \in Tokens
    /\ ~NoToken.active
    /\ NoToken.winner = 0
    /\ NoToken.registered = {}
    /\ NoToken.next = 1
BY DEF NoToken, Tokens, Arms

\* A frame embeds finitely many registrations, so references can be counted.
LEMMA RegsFinite == IsFiniteSet(Regs)
<1>1. IsFiniteSet(Arms)
  BY FS_Interval DEF Arms
<1> QED
  BY <1>1, FramesAssumption, FS_Product DEF Regs

\* What nomo_channel_release_handle is called for is a number of times.
LEMMA ReferencesNat ==
    ASSUME NEW S \in SUBSET Regs, NEW c
    PROVE  ReferencesOf(S, c) \in Nat
BY RegsFinite, FS_Subset, FS_CardinalityType DEF ReferencesOf

-----------------------------------------------------------------------------
(* The ready queue. *)

\* Enqueueing never exceeds the capacity.
LEMMA EnqueueFacts ==
    ASSUME TypeOK, NEW fs \in Seq(Frames), Enqueue(fs)
    PROVE  /\ ready' \in Seq(Frames) /\ Len(ready') <= ReadyCapacity
           /\ failed' \in BOOLEAN
<1> DEFINE all == ready \o fs
           n == IF Len(all) <= ReadyCapacity THEN Len(all) ELSE ReadyCapacity
<1>1. ready \in Seq(Frames)
  BY DEF TypeOK
<1>2. all \in Seq(Frames) /\ Len(all) \in Nat
  BY <1>1
<1>3. n \in Nat /\ n <= Len(all) /\ n <= ReadyCapacity
  BY <1>2, ReadyCapacityAssumption
<1>4. ready' = SubSeq(all, 1, n) /\ failed' = (failed \/ Len(all) > ReadyCapacity)
  BY DEF Enqueue
<1> HIDE DEF all, n
<1>5. \A i \in 1 .. n : all[i] \in Frames
  BY <1>2, <1>3
<1>6. SubSeq(all, 1, n) \in Seq(Frames) /\ Len(SubSeq(all, 1, n)) = n
  BY <1>2, <1>3, SubSeqProperties
<1> QED
  BY <1>2, <1>3, <1>4, <1>6

\* Removing frames from the queue leaves a shorter queue of frames.
LEMMA CancelReadyFacts ==
    ASSUME TypeOK, NEW S, CancelReady(S)
    PROVE  ready' \in Seq(Frames) /\ Len(ready') <= ReadyCapacity
<1> DEFINE keep == {i \in DOMAIN ready : ready[i] \notin S}
           n == Cardinality(keep)
<1>1. ready \in Seq(Frames) /\ Len(ready) <= ReadyCapacity
  BY DEF TypeOK
<1>2. DOMAIN ready = 1 .. Len(ready) /\ Len(ready) \in Nat
  BY <1>1
<1>3. IsFiniteSet(1 .. Len(ready)) /\ Cardinality(1 .. Len(ready)) = Len(ready)
  <2> DEFINE m == Len(ready)
  <2>1. m \in Int /\ 1 \in Int /\ m >= 0
    BY <1>2
  <2> HIDE DEF m
  <2>2. IsFiniteSet(1 .. m) /\ Cardinality(1 .. m) = IF 1 > m THEN 0 ELSE m - 1 + 1
    BY <2>1, FS_Interval
  <2>3. IsFiniteSet(1 .. m) /\ Cardinality(1 .. m) = m
    BY <2>1, <2>2
  <2> QED
    BY <2>3 DEF m
<1>4. keep \subseteq 1 .. Len(ready)
  BY <1>2
<1>5. n \in Nat /\ n <= Len(ready)
  <2> HIDE DEF keep
  <2> QED
    BY <1>3, <1>4, FS_Subset, FS_CardinalityType
<1>6. PICK from \in [1 .. n -> keep] : ready' = [i \in 1 .. n |-> ready[from[i]]]
  BY DEF CancelReady
<1>7. \A i \in 1 .. n : ready[from[i]] \in Frames
  <2> HIDE DEF n
  <2> QED
    BY <1>1, <1>2, <1>6
<1> HIDE DEF n
<1>8. ready' \in Seq(Frames) /\ Len(ready') = n
  BY <1>5, <1>6, <1>7, IsASeq, LenProperties
<1> QED
  BY <1>1, <1>2, <1>5, <1>8, ReadyCapacityAssumption

-----------------------------------------------------------------------------
(* References, payloads and deliveries. *)

\* Releasing references keeps the counts natural, empties or keeps each ring,
\* and releases payloads only.
LEMMA ReleaseFacts ==
    ASSUME TypeOK, PayloadsReal,
           NEW lost \in SUBSET Regs, NEW less \in [Channels -> Nat],
           NEW ring \in [Channels -> Seq(Values)], NEW freed \in SUBSET Values,
           Release(lost, less, ring, freed)
    PROVE  /\ refs' \in [Channels -> Nat]
           /\ buf' \in [Channels -> Seq(Values)]
           /\ \A c \in Channels : buf'[c] = <<>> \/ buf'[c] = ring[c]
           /\ dropped' \subseteq Values
<1> DEFINE left == [c \in Channels |-> refs[c] - ReferencesOf(lost, c) - less[c]]
           dead == {c \in Channels : refs[c] > 0 /\ left[c] <= 0}
<1>1. \A c \in Channels : ReferencesOf(lost, c) \in Nat
  BY ReferencesNat
<1>2. refs \in [Channels -> Nat] /\ dropped \subseteq Values
  BY DEF TypeOK
<1>3. left \in [Channels -> Int]
  BY <1>1, <1>2
<1>4. /\ refs' = [c \in Channels |-> IF left[c] <= 0 THEN 0 ELSE left[c]]
      /\ buf' = [c \in Channels |-> IF c \in dead THEN <<>> ELSE ring[c]]
      /\ dropped' = dropped \cup freed \cup Payloads(lost)
                        \cup UNION {Elements(ring[c]) : c \in dead}
  BY DEF Release
<1>5. Payloads(lost) \subseteq Values
  BY DEF Payloads, Payload, PayloadsReal
<1>6. \A c \in Channels : Elements(ring[c]) \subseteq Values
  BY DEF Elements
<1> HIDE DEF left
<1>7. dead \subseteq Channels
  OBVIOUS
<1> HIDE DEF dead
<1>8. dropped' \subseteq Values
  BY <1>2, <1>4, <1>5, <1>6, <1>7
<1>9. refs' \in [Channels -> Nat]
  BY <1>3, <1>4
<1> QED
  BY <1>4, <1>8, <1>9

\* The token after a claim: same select, the winner alone stays registered.
LEMMA ClaimedTokenFacts ==
    ASSUME TypeOK, NEW f \in Frames, NEW a \in Arms
    PROVE  /\ ClaimedToken(f, a) \in Tokens
           /\ ClaimedToken(f, a).active = tok[f].active
           /\ ClaimedToken(f, a).winner = a
           /\ ClaimedToken(f, a).registered \subseteq tok[f].registered \cap {a}
           /\ ClaimedToken(f, a).shape = tok[f].shape
           /\ ClaimedToken(f, a).next = tok[f].next
<1>1. tok[f] \in Tokens
  BY DEF TypeOK
<1>2. a \in 0 .. MaxArms
  BY DEF Arms
<1> QED
  BY <1>1, <1>2 DEF ClaimedToken, Tokens

\* The rings and lists after a delivery that unlinks the registrations of gone.
ListsShrink(gone, ring) ==
    \A c \in Channels :
       /\ buf'[c] = <<>> \/ buf'[c] = ring[c]
       /\ sendq'[c] \subseteq sendq[c] /\ recvq'[c] \subseteq recvq[c]
       /\ Waiters(sendq[c]) \subseteq gone => sendq'[c] = {}
       /\ Waiters(recvq[c]) \subseteq gone => recvq'[c] = {}

\* What a delivery does, whoever wins: all types are kept, a registration
\* that stays linked is untouched and belongs to a frame whose token is
\* untouched, and a token that changes keeps at most its winner registered.
LEMMA DeliverFacts ==
    ASSUME Inductive, NEW won, DOMAIN won \subseteq Regs,
           \A r \in DOMAIN won : /\ won[r] \in Registrations
                                 /\ won[r].owned => won[r].value \in Values,
           NEW stale \in SUBSET Regs, NEW wake \in Seq(Frames),
           NEW ring \in [Channels -> Seq(Values)],
           Deliver(won, stale, wake, ring)
    PROVE  /\ refs' \in [Channels -> Nat]
           /\ buf' \in [Channels -> Seq(Values)]
           /\ dropped' \subseteq Values
           /\ ready' \in Seq(Frames) /\ Len(ready') <= ReadyCapacity
           /\ failed' \in BOOLEAN
           /\ reg' \in [Regs -> Registrations]
           /\ \A r \in Regs : reg'[r].owned => reg'[r].value \in Values
           /\ sendq' \in [Channels -> SUBSET (Regs \X Regs)]
           /\ recvq' \in [Channels -> SUBSET (Regs \X Regs)]
           /\ ListsShrink(stale \cup DOMAIN won, ring)
           /\ \A c \in Channels :
                 \A r \in Waiters(sendq'[c]) \cup Waiters(recvq'[c]) :
                    /\ reg'[r] = reg[r]
                    /\ tok[r[1]].active /\ r[2] \in tok[r[1]].registered
                          => tok'[r[1]] = tok[r[1]]
           /\ tok' \in [Frames -> Tokens]
           /\ \A f \in Frames :
                 /\ tok'[f].active = tok[f].active
                 /\ tok'[f].next = tok[f].next
                 /\ tok'[f].registered \subseteq tok[f].registered
                 /\ tok'[f].winner # 0 =>
                       tok'[f].registered \subseteq {tok'[f].winner}
<1> DEFINE lost == UNION {Losers(r) : r \in DOMAIN won}
           gone == DOMAIN won \cup stale \cup lost
           claims(f) == \E a \in Arms : <<f, a>> \in DOMAIN won
                                           /\ reg[<<f, a>>].token
           arm(f) == CHOOSE a \in Arms : <<f, a>> \in DOMAIN won
<1>1. TypeOK /\ PayloadsReal /\ TokenDiscipline
  BY DEF Inductive
<1>2. /\ reg' = [r \in Regs |->
                    IF r \in lost THEN NoRegistration
                    ELSE IF r \in DOMAIN won THEN won[r]
                    ELSE IF r \in stale
                    THEN [reg[r] EXCEPT !.registered = FALSE]
                    ELSE reg[r]]
      /\ sendq' = [c \in Channels |-> Unlink(sendq[c], gone)]
      /\ recvq' = [c \in Channels |-> Unlink(recvq[c], gone)]
      /\ tok' = [f \in Frames |-> IF claims(f) THEN ClaimedToken(f, arm(f))
                                               ELSE tok[f]]
      /\ Enqueue(wake)
      /\ Release(lost, Nothing, ring, {})
  BY DEF Deliver
<1>3. \A r \in DOMAIN won : Losers(r) \subseteq Regs
  <2> SUFFICES ASSUME NEW r \in DOMAIN won PROVE Losers(r) \subseteq Regs
    OBVIOUS
  <2>1. r \in Regs /\ r[1] \in Frames /\ tok[r[1]].registered \subseteq Arms
    BY <1>1 DEF TypeOK, Regs, Tokens
  <2> QED
    BY <2>1 DEF Losers, Regs
<1>4. lost \in SUBSET Regs
  BY <1>3
<1>5. \A f \in Frames : claims(f) =>
          /\ arm(f) \in Arms
          /\ \E a \in Arms : /\ <<f, a>> \in DOMAIN won
                             /\ \A b \in tok[f].registered \ {a} : <<f, b>> \in lost
  <2> SUFFICES ASSUME NEW f \in Frames, claims(f)
               PROVE  /\ arm(f) \in Arms
                      /\ \E a \in Arms :
                            /\ <<f, a>> \in DOMAIN won
                            /\ \A b \in tok[f].registered \ {a} : <<f, b>> \in lost
    OBVIOUS
  <2>1. PICK a \in Arms : <<f, a>> \in DOMAIN won /\ reg[<<f, a>>].token
    OBVIOUS
  <2>2. arm(f) \in Arms
    BY <2>1
  <2>3. \A b \in tok[f].registered \ {a} : <<f, b>> \in Losers(<<f, a>>)
    BY <2>1 DEF Losers
  <2> QED
    BY <2>1, <2>2, <2>3
<1>6. gone = DOMAIN won \cup stale \cup lost
  OBVIOUS
<1> HIDE DEF lost, gone, claims, arm
<1>7. ready' \in Seq(Frames) /\ Len(ready') <= ReadyCapacity /\ failed' \in BOOLEAN
  BY <1>1, <1>2, EnqueueFacts
<1>8. /\ refs' \in [Channels -> Nat]
      /\ buf' \in [Channels -> Seq(Values)]
      /\ \A c \in Channels : buf'[c] = <<>> \/ buf'[c] = ring[c]
      /\ dropped' \subseteq Values
  <2>1. Nothing \in [Channels -> Nat]
    BY DEF Nothing
  <2>2. TypeOK /\ PayloadsReal /\ Release(lost, Nothing, ring, {})
    BY <1>1, <1>2
  <2>3. {} \in SUBSET Values
    OBVIOUS
  <2> QED
    BY ONLY <1>4, <2>1, <2>2, <2>3, ring \in [Channels -> Seq(Values)],
            ReleaseFacts
<1>9. \A r \in Regs : [reg[r] EXCEPT !.registered = FALSE] \in Registrations
                       /\ [reg[r] EXCEPT !.registered = FALSE].owned = reg[r].owned
                       /\ [reg[r] EXCEPT !.registered = FALSE].value = reg[r].value
  <2>1. \A x \in Registrations :
           /\ [x EXCEPT !.registered = FALSE] \in Registrations
           /\ [x EXCEPT !.registered = FALSE].owned = x.owned
           /\ [x EXCEPT !.registered = FALSE].value = x.value
    BY DEF Registrations
  <2>2. \A r \in Regs : reg[r] \in Registrations
    BY <1>1 DEF TypeOK
  <2> QED
    BY <2>1, <2>2
<1>10. reg' \in [Regs -> Registrations]
  BY <1>1, <1>2, <1>9, NoRegistrationType DEF TypeOK
<1>11. \A r \in Regs : reg'[r].owned => reg'[r].value \in Values
  BY <1>1, <1>2, <1>9, NoRegistrationType DEF PayloadsReal
<1>12. \A c \in Channels :
          /\ sendq[c] \in SUBSET (Regs \X Regs) /\ recvq[c] \in SUBSET (Regs \X Regs)
          /\ sendq'[c] = Unlink(sendq[c], gone) /\ recvq'[c] = Unlink(recvq[c], gone)
  BY <1>1, <1>2 DEF TypeOK
<1>13. \A c \in Channels :
          /\ sendq'[c] \in SUBSET (Regs \X Regs) /\ recvq'[c] \in SUBSET (Regs \X Regs)
          /\ sendq'[c] \subseteq sendq[c] /\ recvq'[c] \subseteq recvq[c]
          /\ Waiters(sendq[c]) \subseteq gone => sendq'[c] = {}
          /\ Waiters(recvq[c]) \subseteq gone => recvq'[c] = {}
          /\ Waiters(sendq'[c]) \subseteq Regs \ gone
          /\ Waiters(recvq'[c]) \subseteq Regs \ gone
  <2> TAKE c \in Channels
  <2> DEFINE s == sendq[c]
             q == recvq[c]
  <2>1. s \in SUBSET (Regs \X Regs) /\ q \in SUBSET (Regs \X Regs)
    BY <1>12
  <2>2. sendq'[c] = Unlink(s, gone) /\ recvq'[c] = Unlink(q, gone)
    BY <1>12
  <2> HIDE DEF s, q
  <2> SUFFICES
        /\ Unlink(s, gone) \in SUBSET (Regs \X Regs)
        /\ Unlink(q, gone) \in SUBSET (Regs \X Regs)
        /\ Unlink(s, gone) \subseteq s /\ Unlink(q, gone) \subseteq q
        /\ Waiters(s) \subseteq gone => Unlink(s, gone) = {}
        /\ Waiters(q) \subseteq gone => Unlink(q, gone) = {}
        /\ Waiters(Unlink(s, gone)) \subseteq Regs \ gone
        /\ Waiters(Unlink(q, gone)) \subseteq Regs \ gone
    BY <2>2 DEF s, q
  <2>3. /\ Unlink(s, gone) \in SUBSET (Regs \X Regs)
        /\ Unlink(s, gone) \subseteq s
        /\ Waiters(s) \subseteq gone => Unlink(s, gone) = {}
        /\ Waiters(Unlink(s, gone)) \subseteq Regs \ gone
    BY <2>1, UnlinkFacts
  <2>4. /\ Unlink(q, gone) \in SUBSET (Regs \X Regs)
        /\ Unlink(q, gone) \subseteq q
        /\ Waiters(q) \subseteq gone => Unlink(q, gone) = {}
        /\ Waiters(Unlink(q, gone)) \subseteq Regs \ gone
    BY <2>1, UnlinkFacts
  <2> QED
    BY <2>3, <2>4
<1>14. /\ sendq' \in [Channels -> SUBSET (Regs \X Regs)]
       /\ recvq' \in [Channels -> SUBSET (Regs \X Regs)]
  BY <1>2, <1>13
<1>15. \A f \in Frames :
          /\ tok'[f] \in Tokens
          /\ tok'[f].active = tok[f].active
          /\ tok'[f].next = tok[f].next
          /\ tok'[f].registered \subseteq tok[f].registered
          /\ tok'[f].winner # 0 => tok'[f].registered \subseteq {tok'[f].winner}
  <2> SUFFICES ASSUME NEW f \in Frames
               PROVE  /\ tok'[f] \in Tokens
                      /\ tok'[f].active = tok[f].active
                      /\ tok'[f].next = tok[f].next
                      /\ tok'[f].registered \subseteq tok[f].registered
                      /\ tok'[f].winner # 0 =>
                            tok'[f].registered \subseteq {tok'[f].winner}
    OBVIOUS
  <2>1. CASE claims(f)
    BY <1>1, <1>2, <1>5, <2>1, ClaimedTokenFacts
  <2>2. CASE ~claims(f)
    BY <1>1, <1>2, <2>2 DEF TypeOK, TokenDiscipline
  <2> QED
    BY <2>1, <2>2
<1>16. tok' \in [Frames -> Tokens]
  BY <1>2, <1>15
<1>17. ASSUME NEW c \in Channels, NEW r \in Waiters(sendq'[c]) \cup Waiters(recvq'[c])
       PROVE  /\ reg'[r] = reg[r]
              /\ tok[r[1]].active /\ r[2] \in tok[r[1]].registered
                    => tok'[r[1]] = tok[r[1]]
  <2>1. r \in Regs /\ r \notin DOMAIN won /\ r \notin stale /\ r \notin lost
    BY <1>6, <1>13
  <2>2. reg'[r] = reg[r]
    BY <1>2, <2>1
  <2>3. ASSUME r[2] \in tok[r[1]].registered
        PROVE  ~claims(r[1])
    <3>1. r = <<r[1], r[2]>> /\ r[1] \in Frames
      BY <2>1 DEF Regs
    <3> QED
      BY <1>5, <2>1, <2>3, <3>1
  <2> QED
    BY <1>2, <2>1, <2>2, <2>3 DEF Regs
<1>18. ListsShrink(stale \cup DOMAIN won, ring)
  BY <1>6, <1>8, <1>13 DEF ListsShrink
<1> QED
  BY <1>7, <1>8, <1>10, <1>11, <1>14, <1>15, <1>16, <1>17, <1>18

\* The calls that deliver are made by a running frame that is not starting
\* arms, or end the starting of its arms, or are made by the executor itself.
NoArmStarts ==
    /\ running' = running
    /\ \/ phase' = phase /\ \A g \in Frames : phase[g] # "starting"
       \/ \E g \in Frames : /\ phase[g] = "starting"
                            /\ phase' = [phase EXCEPT ![g] = "claiming"]

\* The part of TypeOK a delivery touches.
DeliveryTypes ==
    /\ buf \in [Channels -> Seq(Values)]
    /\ \A c \in Channels : Len(buf[c]) <= Capacity[c]
    /\ sendq \in [Channels -> SUBSET (Regs \X Regs)]
    /\ recvq \in [Channels -> SUBSET (Regs \X Regs)]
    /\ refs \in [Channels -> Nat]
    /\ reg \in [Regs -> Registrations]
    /\ tok \in [Frames -> Tokens]
    /\ ready \in Seq(Frames) /\ Len(ready) <= ReadyCapacity
    /\ failed \in BOOLEAN
    /\ dropped \subseteq Values

\* A delivery preserves the discipline of registrations and tokens.
LEMMA DeliverPreserves ==
    ASSUME Inductive, NoArmStarts, NEW won, DOMAIN won \subseteq Regs,
           \A r \in DOMAIN won : /\ won[r] \in Registrations
                                 /\ won[r].owned => won[r].value \in Values,
           NEW stale \in SUBSET Regs, NEW wake \in Seq(Frames),
           NEW ring \in [Channels -> Seq(Values)],
           \A c \in Channels : Len(ring[c]) <= Capacity[c],
           Deliver(won, stale, wake, ring)
    PROVE  /\ DeliveryTypes'
           /\ PayloadsReal' /\ LinkedPending' /\ TokenDiscipline'
           /\ ListsShrink(stale \cup DOMAIN won, ring)
<1>1. /\ refs' \in [Channels -> Nat]
      /\ buf' \in [Channels -> Seq(Values)]
      /\ dropped' \subseteq Values
      /\ ready' \in Seq(Frames) /\ Len(ready') <= ReadyCapacity
      /\ failed' \in BOOLEAN
      /\ reg' \in [Regs -> Registrations]
      /\ sendq' \in [Channels -> SUBSET (Regs \X Regs)]
      /\ recvq' \in [Channels -> SUBSET (Regs \X Regs)]
      /\ tok' \in [Frames -> Tokens]
  BY DeliverFacts
<1>2. ListsShrink(stale \cup DOMAIN won, ring)
  BY DeliverFacts
<1>3. \A r \in Regs : reg'[r].owned => reg'[r].value \in Values
  BY DeliverFacts
<1>4. \A c \in Channels :
         \A r \in Waiters(sendq'[c]) \cup Waiters(recvq'[c]) :
            /\ reg'[r] = reg[r]
            /\ tok[r[1]].active /\ r[2] \in tok[r[1]].registered
                  => tok'[r[1]] = tok[r[1]]
  BY DeliverFacts
<1>5. \A f \in Frames :
         /\ tok'[f].active = tok[f].active
         /\ tok'[f].next = tok[f].next
         /\ tok'[f].registered \subseteq tok[f].registered
         /\ tok'[f].winner # 0 =>
               tok'[f].registered \subseteq {tok'[f].winner}
  BY DeliverFacts
<1>6. TypeOK /\ PayloadsReal /\ LinkedPending /\ TokenDiscipline
  BY DEF Inductive
<1>7. \A c \in Channels : /\ Waiters(sendq'[c]) \subseteq Waiters(sendq[c])
                          /\ Waiters(recvq'[c]) \subseteq Waiters(recvq[c])
                          /\ Waiters(sendq[c]) \subseteq Regs
                          /\ Waiters(recvq[c]) \subseteq Regs
  BY <1>6, <1>2 DEF TypeOK, Waiters, ListsShrink
<1>8. DeliveryTypes'
  BY <1>2, CapacityAssumption, <1>1 DEF ListsShrink, DeliveryTypes
<1>9. PayloadsReal'
  BY <1>3, <1>4, <1>6, <1>7 DEF PayloadsReal
<1>10. /\ phase \in [Frames -> {"idle", "plain", "starting", "claiming",
                             "select"} \cup Over]
       /\ \A f \in Frames :
             /\ phase[f] = "plain" => phase'[f] = "plain"
             /\ phase'[f] # "starting"
             /\ phase'[f] \in {"starting", "claiming", "select"}
                   <=> phase[f] \in {"starting", "claiming", "select"}
             /\ phase'[f] = "claiming" => phase[f] \in {"claiming", "starting"}
  BY <1>6 DEF TypeOK, NoArmStarts, TokenDiscipline, Over
<1>11. LinkedPending'
  <2> SUFFICES ASSUME NEW c \in Channels,
                      NEW r \in Waiters(sendq'[c]) \cup Waiters(recvq'[c])
               PROVE  /\ ~reg'[r].ready
                      /\ \/ phase'[r[1]] = "plain" /\ r[2] = 1
                         \/ tok'[r[1]].active /\ r[2] \in tok'[r[1]].registered
    BY DEF LinkedPending
  <2>1. r \in Waiters(sendq[c]) \cup Waiters(recvq[c]) /\ r \in Regs
    BY <1>7
  <2>2. /\ ~reg[r].ready
        /\ \/ phase[r[1]] = "plain" /\ r[2] = 1
           \/ tok[r[1]].active /\ r[2] \in tok[r[1]].registered
    BY <1>6, <2>1 DEF LinkedPending
  <2>3. r[1] \in Frames
    BY <2>1 DEF Regs
  <2> QED
    BY <1>4, <1>10, <2>2, <2>3
<1>12. TokenDiscipline'
  <2> SUFFICES ASSUME NEW f \in Frames
               PROVE  /\ tok'[f].active <=> phase'[f] \in {"starting", "claiming", "select"}
                      /\ tok'[f].winner # 0 => tok'[f].registered \subseteq {tok'[f].winner}
                      /\ phase'[f] \in {"starting", "claiming"} =>
                            /\ running' = f
                            /\ \A a \in tok'[f].registered : a < tok'[f].next
                      /\ phase'[f] # "starting"
    BY <1>10 DEF TokenDiscipline
  <2> QED
    BY <1>5, <1>6, <1>10 DEF TokenDiscipline, NoArmStarts
<1> QED
  BY <1>2, <1>8, <1>9, <1>11, <1>12

\* What a winner's registration becomes is well formed.
LEMMA WinnerFacts ==
    ASSUME TypeOK, PayloadsReal, NEW r \in Regs
    PROVE  /\ \A v \in Values : /\ HandedTo(r, v) \in Registrations
                                /\ HandedTo(r, v).value = v
           /\ Promoted(r) \in Registrations /\ ~Promoted(r).owned
           /\ ClosedOn(r) \in Registrations
           /\ ClosedOn(r).owned => ClosedOn(r).value \in Values
           /\ Expired(r) \in Registrations
           /\ Expired(r).owned => Expired(r).value \in Values
           /\ WakeOf(r) \in Seq(Frames)
<1>1. reg[r] \in Registrations /\ (reg[r].owned => reg[r].value \in Values)
  BY DEF TypeOK, PayloadsReal
<1>2. \A v \in Values : HandedTo(r, v) \in Registrations /\ HandedTo(r, v).value = v
  BY <1>1 DEF HandedTo, Registrations
<1>3. Promoted(r) \in Registrations /\ ~Promoted(r).owned
  BY <1>1 DEF Promoted, Registrations
<1>4. /\ ClosedOn(r) \in Registrations
      /\ ClosedOn(r).owned => ClosedOn(r).value \in Values
  BY <1>1 DEF ClosedOn, Registrations
<1>5. /\ Expired(r) \in Registrations
      /\ Expired(r).owned => Expired(r).value \in Values
  BY <1>1 DEF Expired, Registrations
<1>6. WakeOf(r) \in Seq(Frames)
  BY DEF WakeOf, Regs
<1> QED
  BY <1>2, <1>3, <1>4, <1>5, <1>6

\* A delivery without a winner completes no registration.
LEMMA NoWinnerFacts == DOMAIN NoWinner = {}
BY DEF NoWinner

\* The delivery loops unlink only registrations that were linked, and stop at
\* the first one that can be claimed.
LEMMA StaleFacts ==
    ASSUME NEW q \in SUBSET (Regs \X Regs)
    PROVE  Stale(q) \in SUBSET Regs
BY DEF Stale, Before, Waiters

-----------------------------------------------------------------------------
(* The successful outcomes of try_send and try_receive. *)

\* What the channel calls leave behind.
ChannelInvariant ==
    /\ DeliveryTypes
    /\ PayloadsReal
    /\ LinkedPending
    /\ TokenDiscipline
    /\ ReceiversBlocked
    /\ ClosedHasNoSenders
    /\ delivered \in [Channels -> Seq(Values)]

\* nomo_channel_try_send handing the payload to a waiting receiver keeps the
\* channel invariant: that receiver leaves the list with its outcome set.
LEMMA HandOffPreserves ==
    ASSUME Inductive, NoArmStarts, closed' = closed,
           NEW c \in Channels, NEW v \in Values, HandOff(c, v)
    PROVE  ChannelInvariant'
<1>1. TypeOK /\ PayloadsReal /\ ReceiversBlocked /\ ClosedHasNoSenders
  BY DEF Inductive
<1>2. PICK r \in Regs :
         /\ Deliver([x \in {r} |-> HandedTo(r, v)], Stale(recvq[c]),
                    WakeOf(r), buf)
         /\ delivered' = [delivered EXCEPT ![c] = Append(@, v)]
  BY DEF HandOff
<1> DEFINE won == [x \in {r} |-> HandedTo(r, v)]
<1>3. /\ DOMAIN won \subseteq Regs
      /\ \A x \in DOMAIN won : /\ won[x] \in Registrations
                               /\ won[x].owned => won[x].value \in Values
  BY <1>1, WinnerFacts
<1>4. Stale(recvq[c]) \in SUBSET Regs /\ WakeOf(r) \in Seq(Frames)
  BY <1>1, StaleFacts, WinnerFacts DEF TypeOK
<1>5. buf \in [Channels -> Seq(Values)] /\ \A d \in Channels : Len(buf[d]) <= Capacity[d]
  BY <1>1 DEF TypeOK
<1>6. Deliver(won, Stale(recvq[c]), WakeOf(r), buf)
  BY <1>2
<1> HIDE DEF won
<1>7. DeliveryTypes' /\ PayloadsReal' /\ LinkedPending' /\ TokenDiscipline'
  BY <1>3, <1>4, <1>5, <1>6, DeliverPreserves
<1>8. ListsShrink(Stale(recvq[c]) \cup DOMAIN won, buf)
  BY <1>3, <1>4, <1>5, <1>6, DeliverPreserves
<1>9. ReceiversBlocked' /\ ClosedHasNoSenders'
  BY <1>1, <1>8 DEF ReceiversBlocked, ClosedHasNoSenders, ListsShrink
<1>10. (delivered \in [Channels -> Seq(Values)])'
  BY <1>1, <1>2 DEF TypeOK
<1> QED
  BY <1>7, <1>9, <1>10 DEF ChannelInvariant

\* nomo_channel_try_send storing the payload in the ring keeps the channel
\* invariant: it does so only where no receiver is linked.
LEMMA PutInRingPreserves ==
    ASSUME Inductive, NoArmStarts, closed' = closed,
           NEW c \in Channels, NEW v \in Values, PutInRing(c, v)
    PROVE  ChannelInvariant'
<1> DEFINE ring == [buf EXCEPT ![c] = Append(@, v)]
           stale == Stale(recvq[c])
<1>1. TypeOK /\ PayloadsReal /\ ReceiversBlocked /\ ClosedHasNoSenders
  BY DEF Inductive
<1>2. /\ Waiters(recvq[c]) = stale
      /\ Len(buf[c]) < Capacity[c]
      /\ Deliver(NoWinner, stale, <<>>, ring)
      /\ delivered' = delivered
  BY DEF PutInRing
<1>3. stale \in SUBSET Regs
  BY <1>1, StaleFacts DEF TypeOK
<1>4. /\ ring \in [Channels -> Seq(Values)]
      /\ \A d \in Channels : d # c => ring[d] = buf[d]
      /\ Len(ring[c]) = Len(buf[c]) + 1
  BY <1>1 DEF TypeOK
<1>5. \A d \in Channels : Len(ring[d]) <= Capacity[d]
  BY <1>1, CapacityAssumption, <1>2, <1>4 DEF TypeOK
<1> HIDE DEF ring, stale
<1>6. /\ DOMAIN NoWinner \subseteq Regs
      /\ \A x \in DOMAIN NoWinner : /\ NoWinner[x] \in Registrations
                                    /\ NoWinner[x].owned => NoWinner[x].value \in Values
      /\ <<>> \in Seq(Frames)
  BY NoWinnerFacts
<1>7. DeliveryTypes' /\ PayloadsReal' /\ LinkedPending' /\ TokenDiscipline'
  BY <1>2, <1>3, <1>4, <1>5, <1>6, DeliverPreserves
<1>8. ListsShrink(stale \cup DOMAIN NoWinner, ring)
  BY <1>2, <1>3, <1>4, <1>5, <1>6, DeliverPreserves
<1>9. recvq'[c] = {}
  BY <1>2, <1>8 DEF ListsShrink
<1>10. ReceiversBlocked' /\ ClosedHasNoSenders'
  BY <1>1, <1>4, <1>8, <1>9
     DEF ReceiversBlocked, ClosedHasNoSenders, ListsShrink
<1>11. (delivered \in [Channels -> Seq(Values)])'
  BY <1>1, <1>2 DEF TypeOK
<1> QED
  BY <1>7, <1>10, <1>11 DEF ChannelInvariant

\* nomo_channel_try_receive with nomo_channel_promote_sender keeps the channel
\* invariant: the slot that was freed is refilled at most once.
LEMMA TakeFromRingPreserves ==
    ASSUME Inductive, NoArmStarts, closed' = closed,
           NEW c \in Channels, TakeFromRing(c)
    PROVE  ChannelInvariant' /\ Head(buf[c]) \in Values
<1> DEFINE stale == Stale(sendq[c])
           rest == Unlink(sendq[c], stale)
           popped == [buf EXCEPT ![c] = Tail(@)]
           pushed(s) == [popped EXCEPT ![c] = Append(@, reg[s].value)]
<1>1. /\ TypeOK /\ PayloadsReal /\ LinkedPending /\ ReceiversBlocked
      /\ ClosedHasNoSenders
  BY DEF Inductive
<1>2. /\ buf[c] # <<>>
      /\ delivered' = [delivered EXCEPT ![c] = Append(@, Head(buf[c]))]
      /\ \/ Deliver(NoWinner, stale, <<>>, popped)
         \/ \E s \in Regs :
               /\ IsHead(rest, s)
               /\ Deliver([x \in {s} |-> Promoted(s)], stale, WakeOf(s), pushed(s))
  BY DEF TakeFromRing
<1>3. sendq[c] \in SUBSET (Regs \X Regs) /\ stale \in SUBSET Regs
  BY <1>1, StaleFacts DEF TypeOK
<1>4. /\ buf[c] \in Seq(Values) /\ Head(buf[c]) \in Values
      /\ Tail(buf[c]) \in Seq(Values) /\ Len(Tail(buf[c])) = Len(buf[c]) - 1
      /\ Len(buf[c]) \in Nat /\ Capacity[c] \in Nat /\ Len(buf[c]) <= Capacity[c]
  <2>1. buf[c] \in Seq(Values) /\ Len(buf[c]) <= Capacity[c]
    BY <1>1 DEF TypeOK
  <2> QED
    BY <1>2, <2>1, CapacityAssumption, HeadTailProperties
<1>5. /\ popped \in [Channels -> Seq(Values)]
      /\ popped[c] = Tail(buf[c])
      /\ \A d \in Channels : d # c => popped[d] = buf[d]
      /\ \A d \in Channels : Len(popped[d]) <= Capacity[d]
  BY <1>1, <1>4 DEF TypeOK
<1>6. recvq[c] = {}
  BY <1>1, <1>2 DEF ReceiversBlocked
<1>7. (delivered \in [Channels -> Seq(Values)])'
  BY <1>1, <1>2, <1>4 DEF TypeOK
<1> HIDE DEF popped, stale
<1>8. ASSUME NEW won, DOMAIN won \subseteq Regs,
             \A r \in DOMAIN won : /\ won[r] \in Registrations
                                   /\ won[r].owned => won[r].value \in Values,
             NEW wake \in Seq(Frames), NEW ring \in [Channels -> Seq(Values)],
             \A d \in Channels : Len(ring[d]) <= Capacity[d],
             \A d \in Channels : d # c => ring[d] = buf[d],
             Deliver(won, stale, wake, ring)
      PROVE  ChannelInvariant'
  <2>1. DeliveryTypes' /\ PayloadsReal' /\ LinkedPending' /\ TokenDiscipline'
    BY <1>3, <1>8, DeliverPreserves
  <2>2. ListsShrink(stale \cup DOMAIN won, ring)
    BY <1>3, <1>8, DeliverPreserves
  <2>3. ReceiversBlocked' /\ ClosedHasNoSenders'
    BY <1>1, <1>6, <1>8, <2>2
       DEF ReceiversBlocked, ClosedHasNoSenders, ListsShrink
  <2> QED
    BY <1>7, <2>1, <2>3 DEF ChannelInvariant
<1>9. CASE Deliver(NoWinner, stale, <<>>, popped)
  <2>1. /\ DOMAIN NoWinner \subseteq Regs
        /\ \A x \in DOMAIN NoWinner : /\ NoWinner[x] \in Registrations
                                      /\ NoWinner[x].owned => NoWinner[x].value \in Values
        /\ <<>> \in Seq(Frames)
    BY NoWinnerFacts
  <2> QED
    BY <1>4, <1>5, <1>8, <1>9, <2>1
<1>10. CASE \E s \in Regs :
               /\ IsHead(rest, s)
               /\ Deliver([x \in {s} |-> Promoted(s)], stale, WakeOf(s), pushed(s))
  <2>1. PICK s \in Regs :
               /\ IsHead(rest, s)
               /\ Deliver([x \in {s} |-> Promoted(s)], stale, WakeOf(s), pushed(s))
    BY <1>10
  <2>2. s \in Waiters(sendq[c])
    BY <1>3, <2>1, UnlinkFacts DEF IsHead
  <2>3. reg[s].value \in Values
    BY <1>1, <2>2 DEF PayloadsReal
  <2>4. /\ pushed(s) \in [Channels -> Seq(Values)]
        /\ \A d \in Channels : d # c => pushed(s)[d] = buf[d]
        /\ Len(pushed(s)[c]) = Len(buf[c])
    BY <1>4, <1>5, <2>3
  <2>5. \A d \in Channels : Len(pushed(s)[d]) <= Capacity[d]
    BY <1>1, <1>4, <2>4 DEF TypeOK
  <2> DEFINE won == [x \in {s} |-> Promoted(s)]
  <2>6. /\ DOMAIN won \subseteq Regs
        /\ \A x \in DOMAIN won : /\ won[x] \in Registrations
                                 /\ won[x].owned => won[x].value \in Values
    BY <1>1, WinnerFacts
  <2>7. WakeOf(s) \in Seq(Frames)
    BY <1>1, WinnerFacts
  <2>8. Deliver(won, stale, WakeOf(s), pushed(s))
    BY <2>1
  <2> HIDE DEF won, pushed
  <2> QED
    BY <1>4, <1>8, <2>4, <2>5, <2>6, <2>7, <2>8
<1> QED
  BY <1>2, <1>4, <1>9, <1>10

-----------------------------------------------------------------------------
(* Suspending: a new registration is linked. *)

\* The part of TypeOK about frames and the executor.
FrameTypes ==
    /\ closed \in [Channels -> BOOLEAN]
    /\ phase \in [Frames -> {"idle", "plain", "starting", "claiming",
                             "select"} \cup Over]
    /\ deadline \in [Frames -> {"none", "armed", "expired"}]
    /\ held \in [Frames -> SUBSET Values]
    /\ staged \in [Frames -> [Arms -> Values \cup {None}]]
    /\ handles \in [Frames -> SUBSET Channels]
    /\ running \in Frames \cup {None}

\* The inductive invariant from the part about channels and the part about
\* frames, which are preserved separately.
LEMMA InductiveParts ==
    /\ Inductive => ChannelInvariant /\ FrameTypes
    /\ ChannelInvariant' /\ FrameTypes' => Inductive'
BY DEF Inductive, TypeOK, ChannelInvariant, DeliveryTypes, FrameTypes

\* A registration that is linked nowhere.
Unlinked(r) ==
    \A d \in Channels : r \notin Waiters(sendq[d]) \cup Waiters(recvq[d])

\* The registrations a running frame starts next are not linked: an idle
\* frame has none outstanding, and a select starts each arm once.
LEMMA StartingUnlinked ==
    ASSUME Inductive, NEW f \in Frames, NEW a \in Arms,
           \/ phase[f] \in {"idle"} \cup Over
           \/ phase[f] = "starting" /\ a = tok[f].next
    PROVE  Unlinked(<<f, a>>)
<1>1. LinkedPending /\ TokenDiscipline /\ tok[f] \in Tokens
  BY DEF Inductive, TypeOK
<1>2. tok[f].next \in Int
  BY <1>1 DEF Tokens
<1>3. \/ ~tok[f].active /\ phase[f] # "plain"
      \/ phase[f] # "plain" /\ a \notin tok[f].registered
  BY <1>1, <1>2 DEF TokenDiscipline, Over
<1> QED
  BY <1>1, <1>3 DEF LinkedPending, Unlinked

\* Linking registration x at r on channel c.
LEMMA SuspendFacts ==
    ASSUME Inductive, NEW r \in Regs, NEW c \in Channels, NEW x \in Registrations,
           Suspend(r, c, x), Unlinked(r), x.value \in Values \/ ~x.owned,
           \/ x.op = "send" /\ x.value \in Values /\ ~closed[c]
           \/ x.op = "receive" /\ IsEmpty(c),
           buf' = buf, closed' = closed
    PROVE  /\ sendq' \in [Channels -> SUBSET (Regs \X Regs)]
           /\ recvq' \in [Channels -> SUBSET (Regs \X Regs)]
           /\ refs' \in [Channels -> Nat]
           /\ reg' \in [Regs -> Registrations]
           /\ reg'[r] = x
           /\ \A q \in Regs \ {r} : reg'[q].ready = reg[q].ready
           /\ \A d \in Channels :
                 /\ Waiters(sendq'[d]) \subseteq Waiters(sendq[d]) \cup {r}
                 /\ Waiters(recvq'[d]) \subseteq Waiters(recvq[d]) \cup {r}
           /\ PayloadsReal' /\ ReceiversBlocked' /\ ClosedHasNoSenders'
<1> DEFINE stale == IF x.op = "send" THEN Stale(recvq[c]) ELSE {}
<1>1. TypeOK /\ PayloadsReal /\ ReceiversBlocked /\ ClosedHasNoSenders
  BY DEF Inductive
<1>2. /\ reg' = [q \in Regs |->
                    IF q = r THEN x
                    ELSE IF q \in stale
                    THEN [reg[q] EXCEPT !.registered = FALSE]
                    ELSE reg[q]]
      /\ sendq' = IF x.op = "send"
                  THEN [sendq EXCEPT ![c] = LinkTail(@, r)] ELSE sendq
      /\ recvq' = IF x.op = "receive"
                  THEN [recvq EXCEPT ![c] = LinkTail(@, r)]
                  ELSE [recvq EXCEPT ![c] = Unlink(@, stale)]
      /\ refs' = [refs EXCEPT ![c] = @ + 1]
  BY DEF Suspend
<1> HIDE DEF stale
<1>3. \A y \in Registrations :
           /\ [y EXCEPT !.registered = FALSE] \in Registrations
           /\ [y EXCEPT !.registered = FALSE].owned = y.owned
           /\ [y EXCEPT !.registered = FALSE].value = y.value
           /\ [y EXCEPT !.registered = FALSE].ready = y.ready
  BY DEF Registrations
<1>4. \A q \in Regs : reg[q] \in Registrations
  BY <1>1 DEF TypeOK
<1>5. /\ reg' \in [Regs -> Registrations]
      /\ reg'[r] = x
      /\ \A q \in Regs \ {r} : /\ reg'[q].ready = reg[q].ready
                               /\ reg'[q].owned = reg[q].owned
                               /\ reg'[q].value = reg[q].value
  BY <1>2, <1>3, <1>4
<1>6. refs' \in [Channels -> Nat]
  BY <1>1, <1>2 DEF TypeOK
<1>7. \A d \in Channels : /\ sendq[d] \in SUBSET (Regs \X Regs)
                          /\ recvq[d] \in SUBSET (Regs \X Regs)
                          /\ Waiters(sendq[d]) \subseteq Regs
  BY <1>1 DEF TypeOK, Waiters
<1>8. /\ LinkTail(sendq[c], r) \in SUBSET (Regs \X Regs)
      /\ LinkTail(recvq[c], r) \in SUBSET (Regs \X Regs)
      /\ Unlink(recvq[c], stale) \in SUBSET (Regs \X Regs)
      /\ Waiters(LinkTail(sendq[c], r)) = Waiters(sendq[c]) \cup {r}
      /\ Waiters(LinkTail(recvq[c], r)) = Waiters(recvq[c]) \cup {r}
      /\ Waiters(Unlink(recvq[c], stale)) \subseteq Waiters(recvq[c])
      /\ Unlink(recvq[c], stale) \subseteq recvq[c]
  BY <1>7, LinkTailFacts, UnlinkFacts
<1>9. /\ sendq' \in [Channels -> SUBSET (Regs \X Regs)]
      /\ recvq' \in [Channels -> SUBSET (Regs \X Regs)]
  BY <1>1, <1>2, <1>8 DEF TypeOK
<1>10. \A d \in Channels :
         /\ Waiters(sendq'[d]) \subseteq Waiters(sendq[d]) \cup {r}
         /\ Waiters(recvq'[d]) \subseteq Waiters(recvq[d]) \cup {r}
         /\ x.op # "send" => sendq'[d] = sendq[d]
         /\ d # c => sendq'[d] = sendq[d] /\ recvq'[d] = recvq[d]
         /\ x.op # "receive" => recvq'[d] \subseteq recvq[d]
  BY <1>1, <1>2, <1>8 DEF TypeOK
<1>11. PayloadsReal'
  <2>1. \A q \in Regs : reg'[q].owned => reg'[q].value \in Values
    BY <1>1, <1>5 DEF PayloadsReal
  <2>2. ASSUME NEW d \in Channels, NEW q \in Waiters(sendq'[d])
        PROVE  reg'[q].value \in Values
    <3>1. CASE q = r
      BY <1>5, <1>10, <2>2, <3>1 DEF Unlinked
    <3>2. CASE q # r
      BY <1>1, <1>5, <1>7, <1>10, <2>2, <3>2 DEF PayloadsReal
    <3> QED
      BY <3>1, <3>2
  <2> QED
    BY <2>1, <2>2 DEF PayloadsReal
<1>12. ReceiversBlocked' /\ ClosedHasNoSenders'
  BY <1>1, <1>10 DEF ReceiversBlocked, ClosedHasNoSenders, IsEmpty
<1> QED
  BY <1>5, <1>6, <1>9, <1>10, <1>11, <1>12

\* What send_start and receive_start write into a registration is well formed.
LEMMA RegistrationFacts ==
    ASSUME NEW c \in Channels, NEW v \in Values, NEW t \in BOOLEAN
    PROVE  /\ SendRegistration(c, v, t) \in Registrations
           /\ SendRegistration(c, v, t).op = "send"
           /\ SendRegistration(c, v, t).value = v
           /\ ~SendRegistration(c, v, t).ready
           /\ ReceiveRegistration(c, t) \in Registrations
           /\ ReceiveRegistration(c, t).op = "receive"
           /\ ~ReceiveRegistration(c, t).owned
           /\ ~ReceiveRegistration(c, t).ready
BY DEF SendRegistration, ReceiveRegistration, NoRegistration, Registrations,
       Operations

\* An operation outside a select suspends.
LEMMA PlainSuspends ==
    ASSUME Inductive, NEW f \in Frames, running = f, phase[f] = "idle",
           NEW c \in Channels, NEW x \in Registrations,
           Suspend(<<f, 1>>, c, x), x.value \in Values \/ ~x.owned, ~x.ready,
           \/ x.op = "send" /\ x.value \in Values /\ ~closed[c]
           \/ x.op = "receive" /\ IsEmpty(c),
           phase' = [phase EXCEPT ![f] = "plain"], running' = None,
           UNCHANGED <<buf, closed, tok, staged, ready, failed, dropped, delivered>>
    PROVE  ChannelInvariant'
<1> DEFINE r == <<f, 1>>
<1>1. r \in Regs /\ r[1] = f /\ r[2] = 1
  BY DEF Regs, Arms
<1>2. Unlinked(r)
  BY StartingUnlinked DEF Arms
<1>3. TypeOK /\ LinkedPending /\ TokenDiscipline
  BY DEF Inductive
<1>4. buf' = buf /\ closed' = closed
  OBVIOUS
<1>5. Suspend(r, c, x)
  OBVIOUS
<1> HIDE DEF r
<1>6. /\ sendq' \in [Channels -> SUBSET (Regs \X Regs)]
      /\ recvq' \in [Channels -> SUBSET (Regs \X Regs)]
      /\ refs' \in [Channels -> Nat]
      /\ reg' \in [Regs -> Registrations]
      /\ reg'[r] = x
      /\ PayloadsReal' /\ ReceiversBlocked' /\ ClosedHasNoSenders'
  BY <1>1, <1>2, <1>4, <1>5, SuspendFacts
<1>7. /\ \A q \in Regs \ {r} : reg'[q].ready = reg[q].ready
      /\ \A d \in Channels :
            /\ Waiters(sendq'[d]) \subseteq Waiters(sendq[d]) \cup {r}
            /\ Waiters(recvq'[d]) \subseteq Waiters(recvq[d]) \cup {r}
  BY <1>1, <1>2, <1>4, <1>5, SuspendFacts
<1>8. \A d \in Channels : Waiters(sendq[d]) \cup Waiters(recvq[d]) \subseteq Regs
  BY <1>3 DEF TypeOK, Waiters
<1>9. LinkedPending'
  <2> SUFFICES ASSUME NEW d \in Channels,
                      NEW q \in Waiters(sendq'[d]) \cup Waiters(recvq'[d])
               PROVE  /\ ~reg'[q].ready
                      /\ \/ phase'[q[1]] = "plain" /\ q[2] = 1
                         \/ tok'[q[1]].active /\ q[2] \in tok'[q[1]].registered
    BY DEF LinkedPending
  <2>1. CASE q = r
    BY <1>1, <1>3, <1>6, <2>1 DEF TypeOK
  <2>2. CASE q # r
    <3>1. q \in Waiters(sendq[d]) \cup Waiters(recvq[d]) /\ q \in Regs
      BY <1>7, <1>8, <2>2
    <3>2. /\ ~reg[q].ready
          /\ \/ phase[q[1]] = "plain" /\ q[2] = 1
             \/ tok[q[1]].active /\ q[2] \in tok[q[1]].registered
      BY <1>3, <3>1 DEF LinkedPending
    <3>3. q[1] \in Frames
      BY <3>1 DEF Regs
    <3> QED
      BY <1>3, <1>7, <2>2, <3>1, <3>2, <3>3 DEF TypeOK
  <2> QED
    BY <2>1, <2>2
<1>10. TokenDiscipline'
  BY <1>3 DEF TypeOK, TokenDiscipline
<1> QED
  BY <1>3, <1>6, <1>9, <1>10 DEF ChannelInvariant, DeliveryTypes, TypeOK

\* The arms of a select are numbered from 1 to at most MaxArms.
LEMMA ShapeFacts ==
    ASSUME NEW shape \in Shapes \cup {<<>>}
    PROVE  DOMAIN shape \subseteq Arms
<1>1. CASE shape = <<>>
  BY <1>1
<1>2. CASE shape \in Shapes
  BY <1>2, ShapesAssumption DEF Arms
<1> QED
  BY <1>1, <1>2

\* nomo_async_select_register of the arm that just suspended.
LEMMA RegisteredFacts ==
    ASSUME Inductive, NEW f \in Frames, phase[f] = "starting",
           tok[f].next \in DOMAIN tok[f].shape
    PROVE  /\ tok[f].next \in Arms
           /\ Registered(f) \in [Frames -> Tokens]
           /\ \A g \in Frames \ {f} : Registered(f)[g] = tok[g]
           /\ Registered(f)[f].active = tok[f].active
           /\ Registered(f)[f].winner = 0
           /\ Registered(f)[f].shape = tok[f].shape
           /\ Registered(f)[f].next = tok[f].next + 1
           /\ Registered(f)[f].registered = tok[f].registered \cup {tok[f].next}
<1>1. TypeOK /\ TokenDiscipline
  BY DEF Inductive
<1>2. tok[f] \in Tokens /\ tok[f].winner = 0 /\ tok \in [Frames -> Tokens]
  BY <1>1 DEF TypeOK, TokenDiscipline
<1>3. tok[f].next \in Arms
  BY <1>2, ShapeFacts DEF Tokens
<1>4. Registered(f) = [tok EXCEPT ![f] =
                         [tok[f] EXCEPT !.registered = @ \cup {tok[f].next},
                                        !.next = @ + 1]]
  BY <1>2 DEF Registered, Tokens
<1> DEFINE new == [tok[f] EXCEPT !.registered = @ \cup {tok[f].next},
                                 !.next = @ + 1]
<1>5. /\ new \in Tokens
      /\ new.active = tok[f].active
      /\ new.winner = 0
      /\ new.shape = tok[f].shape
      /\ new.next = tok[f].next + 1
      /\ new.registered = tok[f].registered \cup {tok[f].next}
  <2>1. tok[f].next + 1 \in 1 .. MaxArms + 1
    BY <1>3 DEF Arms
  <2>2. tok[f].registered \cup {tok[f].next} \in SUBSET Arms
    BY <1>2, <1>3 DEF Tokens
  <2> QED
    BY <1>2, <2>1, <2>2 DEF Tokens
<1> HIDE DEF new
<1>6. Registered(f) = [tok EXCEPT ![f] = new]
  BY <1>4 DEF new
<1> QED
  BY <1>2, <1>3, <1>5, <1>6

\* An arm of a select suspends.
LEMMA ArmSuspends ==
    ASSUME Inductive, NEW f \in Frames, running = f, phase[f] = "starting",
           tok[f].next \in DOMAIN tok[f].shape,
           NEW c \in Channels, NEW x \in Registrations,
           Suspend(<<f, tok[f].next>>, c, x),
           x.value \in Values \/ ~x.owned, ~x.ready,
           \/ x.op = "send" /\ x.value \in Values /\ ~closed[c]
           \/ x.op = "receive" /\ IsEmpty(c),
           tok' = Registered(f),
           staged' = staged \/ staged' = [staged EXCEPT ![f][tok[f].next] = None],
           UNCHANGED <<buf, closed, phase, running, ready, failed, dropped,
                       delivered>>
    PROVE  ChannelInvariant'
<1> DEFINE r == <<f, tok[f].next>>
<1>1. /\ tok[f].next \in Arms
      /\ tok' \in [Frames -> Tokens]
      /\ \A g \in Frames \ {f} : tok'[g] = tok[g]
      /\ tok'[f].active = tok[f].active
      /\ tok'[f].winner = 0
      /\ tok'[f].shape = tok[f].shape
      /\ tok'[f].next = tok[f].next + 1
      /\ tok'[f].registered = tok[f].registered \cup {tok[f].next}
  BY RegisteredFacts
<1>2. r \in Regs /\ r[1] = f /\ r[2] = tok[f].next
  BY <1>1 DEF Regs
<1>3. Unlinked(r)
  BY <1>1, StartingUnlinked
<1>4. TypeOK /\ LinkedPending /\ TokenDiscipline
  BY DEF Inductive
<1>5. buf' = buf /\ closed' = closed /\ Suspend(r, c, x)
  OBVIOUS
<1> HIDE DEF r
<1>6. /\ sendq' \in [Channels -> SUBSET (Regs \X Regs)]
      /\ recvq' \in [Channels -> SUBSET (Regs \X Regs)]
      /\ refs' \in [Channels -> Nat]
      /\ reg' \in [Regs -> Registrations]
      /\ reg'[r] = x
      /\ PayloadsReal' /\ ReceiversBlocked' /\ ClosedHasNoSenders'
  BY <1>2, <1>3, <1>5, SuspendFacts
<1>7. /\ \A q \in Regs \ {r} : reg'[q].ready = reg[q].ready
      /\ \A d \in Channels :
            /\ Waiters(sendq'[d]) \subseteq Waiters(sendq[d]) \cup {r}
            /\ Waiters(recvq'[d]) \subseteq Waiters(recvq[d]) \cup {r}
  BY <1>2, <1>3, <1>5, SuspendFacts
<1>8. \A d \in Channels : Waiters(sendq[d]) \cup Waiters(recvq[d]) \subseteq Regs
  BY <1>4 DEF TypeOK, Waiters
<1>9. tok[f].active
  BY <1>4 DEF TokenDiscipline
<1>10. LinkedPending'
  <2> SUFFICES ASSUME NEW d \in Channels,
                      NEW q \in Waiters(sendq'[d]) \cup Waiters(recvq'[d])
               PROVE  /\ ~reg'[q].ready
                      /\ \/ phase'[q[1]] = "plain" /\ q[2] = 1
                         \/ tok'[q[1]].active /\ q[2] \in tok'[q[1]].registered
    BY DEF LinkedPending
  <2>1. CASE q = r
    BY <1>1, <1>2, <1>6, <1>9, <2>1
  <2>2. CASE q # r
    <3>1. q \in Waiters(sendq[d]) \cup Waiters(recvq[d]) /\ q \in Regs
      BY <1>7, <1>8, <2>2
    <3>2. /\ ~reg[q].ready
          /\ \/ phase[q[1]] = "plain" /\ q[2] = 1
             \/ tok[q[1]].active /\ q[2] \in tok[q[1]].registered
      BY <1>4, <3>1 DEF LinkedPending
    <3>3. q[1] \in Frames
      BY <3>1 DEF Regs
    <3> QED
      BY <1>1, <1>7, <2>2, <3>1, <3>2, <3>3
  <2> QED
    BY <2>1, <2>2
<1>11. TokenDiscipline'
  <2> SUFFICES ASSUME NEW g \in Frames
               PROVE  /\ tok'[g].active <=> phase[g] \in {"starting", "claiming", "select"}
                      /\ tok'[g].winner # 0 => tok'[g].registered \subseteq {tok'[g].winner}
                      /\ phase[g] \in {"starting", "claiming"} =>
                            /\ running = g
                            /\ \A a \in tok'[g].registered : a < tok'[g].next
                      /\ phase[g] = "starting" =>
                            /\ tok'[g].winner = 0
                            /\ \A a \in DOMAIN tok'[g].shape :
                                  a >= tok'[g].next /\ tok'[g].shape[a].op = "send"
                                     => staged'[g][a] \in Values
    BY DEF TokenDiscipline
  <2>1. CASE g # f
    BY <1>1, <1>4, <2>1 DEF TokenDiscipline
  <2>2. CASE g = f
    <3>1. /\ tok[f] \in Tokens /\ tok[f].next \in Nat
          /\ tok[f].registered \subseteq Arms /\ Arms \subseteq Nat
      BY <1>4 DEF TypeOK, Tokens, Arms
    <3>2. \A a \in tok[f].registered \cup {tok[f].next} : a < tok[f].next + 1
      BY <1>4, <3>1 DEF TokenDiscipline
    <3>3. \A a \in DOMAIN tok[f].shape :
             a >= tok[f].next /\ tok[f].shape[a].op = "send"
                => staged[f][a] \in Values
      BY <1>4 DEF TokenDiscipline
    <3>4. DOMAIN tok[f].shape \subseteq Arms
      BY <3>1, ShapeFacts DEF Tokens
    <3>5. \A a \in Arms : a # tok[f].next => staged'[f][a] = staged[f][a]
      BY <1>4 DEF TypeOK
    <3>6. \A a \in DOMAIN tok[f].shape :
             a >= tok[f].next + 1 /\ tok[f].shape[a].op = "send"
                => staged'[f][a] \in Values
      BY <3>1, <3>3, <3>4, <3>5
    <3> QED
      BY <1>1, <1>9, <2>2, <3>2, <3>6
  <2> QED
    BY <2>1, <2>2
<1> QED
  BY <1>1, <1>4, <1>6, <1>10, <1>11 DEF ChannelInvariant, DeliveryTypes, TypeOK

-----------------------------------------------------------------------------
(* The operations outside a select. *)

\* A running frame that is idle excludes every frame that is starting arms.
LEMMA IdleRuns ==
    ASSUME Inductive, NEW f \in Frames, running = f,
           phase[f] \notin {"starting", "claiming"}
    PROVE  \A g \in Frames : phase[g] \notin {"starting", "claiming"}
BY DEF Inductive, TokenDiscipline

\* Unlinking stale receivers changes nothing else.
LEMMA UnlinkStalePreserves ==
    ASSUME Inductive, NoArmStarts, closed' = closed, delivered' = delivered,
           NEW stale \in SUBSET Regs, Deliver(NoWinner, stale, <<>>, buf)
    PROVE  ChannelInvariant'
<1>1. TypeOK /\ ReceiversBlocked /\ ClosedHasNoSenders
  BY DEF Inductive
<1>2. buf \in [Channels -> Seq(Values)] /\ \A d \in Channels : Len(buf[d]) <= Capacity[d]
  BY <1>1 DEF TypeOK
<1>3. /\ DOMAIN NoWinner \subseteq Regs
      /\ \A x \in DOMAIN NoWinner : /\ NoWinner[x] \in Registrations
                                    /\ NoWinner[x].owned => NoWinner[x].value \in Values
      /\ <<>> \in Seq(Frames)
  BY NoWinnerFacts
<1>4. /\ DeliveryTypes' /\ PayloadsReal' /\ LinkedPending' /\ TokenDiscipline'
      /\ ListsShrink(stale \cup DOMAIN NoWinner, buf)
  BY <1>2, <1>3, DeliverPreserves
<1>5. ReceiversBlocked' /\ ClosedHasNoSenders'
  BY <1>1, <1>4 DEF ReceiversBlocked, ClosedHasNoSenders, ListsShrink
<1>6. (delivered \in [Channels -> Seq(Values)])'
  BY <1>1 DEF TypeOK
<1> QED
  BY <1>4, <1>5, <1>6 DEF ChannelInvariant

\* task.try_send keeps the invariant, closed and full channels included.
LEMMA TrySendPreserves ==
    ASSUME Inductive, NEW f \in Frames, NEW c \in Channels, NEW v \in Values,
           TrySend(f, c, v)
    PROVE  Inductive'
<1>1. TypeOK /\ FrameTypes
  BY InductiveParts DEF Inductive
<1>2. /\ running = f /\ phase[f] = "idle"
      /\ closed' = closed /\ phase' = phase /\ deadline' = deadline
      /\ staged' = staged /\ handles' = handles /\ running' = running
  BY DEF TrySend, Runs
<1>3. NoArmStarts
  BY <1>2, IdleRuns DEF NoArmStarts
<1>4. ChannelInvariant'
  <2>1. CASE HandOff(c, v)
    BY <1>2, <1>3, <2>1, HandOffPreserves
  <2>2. CASE PutInRing(c, v)
    BY <1>2, <1>3, <2>2, PutInRingPreserves
  <2>3. CASE /\ Deliver(NoWinner, Stale(recvq[c]), <<>>, buf)
             /\ UNCHANGED <<held, delivered>>
    BY <1>1, StaleFacts, <1>2, <1>3, <2>3, UnlinkStalePreserves DEF TypeOK
  <2> QED
    BY <2>1, <2>2, <2>3 DEF TrySend, TrySendSucceeds
<1>5. held' \in [Frames -> SUBSET Values]
  BY <1>1 DEF TrySend, FrameTypes
<1>6. FrameTypes'
  BY <1>1, <1>2, <1>5 DEF FrameTypes
<1> QED
  BY <1>4, <1>6, InductiveParts

\* task.try_receive keeps the invariant, drained and empty channels included.
LEMMA TryReceivePreserves ==
    ASSUME Inductive, NEW f \in Frames, NEW c \in Channels, TryReceive(f, c)
    PROVE  Inductive'
<1>1. TypeOK /\ FrameTypes
  BY InductiveParts DEF Inductive
<1>2. /\ running = f /\ phase[f] = "idle" /\ TakeFromRing(c)
      /\ closed' = closed /\ phase' = phase /\ deadline' = deadline
      /\ staged' = staged /\ handles' = handles /\ running' = running
      /\ held' = [held EXCEPT ![f] = @ \cup {Head(buf[c])}]
  BY DEF TryReceive, Runs
<1>3. NoArmStarts
  BY <1>2, IdleRuns DEF NoArmStarts
<1>4. ChannelInvariant' /\ Head(buf[c]) \in Values
  BY <1>2, <1>3, TakeFromRingPreserves
<1>5. FrameTypes'
  BY <1>1, <1>2, <1>4 DEF FrameTypes
<1> QED
  BY <1>4, <1>5, InductiveParts

\* nomo_channel_send_start links a sender only on a full open channel.
LEMMA SendStartPreserves ==
    ASSUME Inductive, NEW f \in Frames, NEW c \in Channels, NEW v \in Values,
           SendStart(f, c, v)
    PROVE  Inductive'
<1> DEFINE x == SendRegistration(c, v, FALSE)
<1>1. /\ running = f /\ phase[f] = "idle" /\ ~closed[c]
      /\ Suspend(<<f, 1>>, c, x)
      /\ held' = [held EXCEPT ![f] = @ \ {v}]
      /\ phase' = [phase EXCEPT ![f] = "plain"] /\ running' = None
      /\ UNCHANGED <<buf, closed, tok, deadline, staged, handles, ready, failed,
                     dropped, delivered>>
  BY DEF SendStart, Runs, IsFull
<1>2. x \in Registrations /\ x.op = "send" /\ x.value \in Values /\ ~x.ready
  BY RegistrationFacts
<1> HIDE DEF x
<1>3. ChannelInvariant'
  BY <1>1, <1>2, PlainSuspends
<1>4. FrameTypes'
  BY <1>1, InductiveParts DEF FrameTypes
<1> QED
  BY <1>3, <1>4, InductiveParts

\* nomo_channel_receive_start links a receiver only on an empty open channel.
LEMMA ReceiveStartPreserves ==
    ASSUME Inductive, NEW f \in Frames, NEW c \in Channels, ReceiveStart(f, c)
    PROVE  Inductive'
<1> DEFINE x == ReceiveRegistration(c, FALSE)
<1>1. /\ running = f /\ phase[f] = "idle" /\ IsEmpty(c)
      /\ Suspend(<<f, 1>>, c, x)
      /\ phase' = [phase EXCEPT ![f] = "plain"] /\ running' = None
      /\ UNCHANGED <<buf, closed, tok, deadline, held, staged, handles, ready,
                     failed, dropped, delivered>>
  BY DEF ReceiveStart, Runs
<1>2. x \in Registrations /\ x.op = "receive" /\ ~x.owned /\ ~x.ready
  BY DEF ReceiveRegistration, NoRegistration, Registrations, Operations
<1> HIDE DEF x
<1>3. ChannelInvariant'
  BY <1>1, <1>2, PlainSuspends
<1>4. FrameTypes'
  BY <1>1, InductiveParts DEF FrameTypes
<1> QED
  BY <1>3, <1>4, InductiveParts

\* A close unlinks every waiter of the channel.
LEMMA ClosePreserves ==
    ASSUME Inductive, NEW f \in Frames, NEW c \in Channels, Close(f, c)
    PROVE  Inductive'
<1> DEFINE waiting == Waiters(sendq[c]) \cup Waiters(recvq[c])
           ahead(r, s) ==
             \/ <<r, s>> \in sendq[c] \cup recvq[c]
             \/ r \in Waiters(sendq[c]) /\ s \in Waiters(recvq[c])
           first == {r \in waiting :
                       /\ Claimable(r)
                       /\ \A s \in waiting \ {r} :
                             reg[r].token /\ s[1] = r[1] => ~ahead(s, r)}
           woken == {r \in first : Wakes(r)}
           turns == 1 .. Cardinality(woken)
<1>1. TypeOK /\ PayloadsReal /\ ReceiversBlocked /\ ClosedHasNoSenders /\ FrameTypes
  BY InductiveParts DEF Inductive
<1>2. /\ running = f /\ phase[f] = "idle"
      /\ closed' = [closed EXCEPT ![c] = TRUE]
      /\ \E order \in [turns -> woken] :
            Deliver([r \in first |-> ClosedOn(r)], waiting \ first,
                    [i \in turns |-> order[i][1]], buf)
      /\ UNCHANGED <<phase, deadline, held, staged, handles, running, delivered>>
  BY DEF Close, Runs
<1>3. waiting \in SUBSET Regs
  BY <1>1 DEF TypeOK, Waiters
<1>4. first \subseteq waiting
  OBVIOUS
<1>5. woken \in SUBSET Regs
  BY <1>3, <1>4
<1> HIDE DEF first, waiting, woken
<1>6. Cardinality(woken) \in Nat
  BY <1>5, RegsFinite, FS_Subset, FS_CardinalityType
<1>7. PICK order \in [turns -> woken] :
            Deliver([r \in first |-> ClosedOn(r)], waiting \ first,
                    [i \in turns |-> order[i][1]], buf)
  BY <1>2
<1> DEFINE won == [r \in first |-> ClosedOn(r)]
           wake == [i \in turns |-> order[i][1]]
<1>8. wake \in Seq(Frames)
  <2>1. \A i \in turns : order[i][1] \in Frames
    BY <1>5, <1>7 DEF Regs
  <2> QED
    BY <1>6, <2>1
<1>9. /\ DOMAIN won = first
      /\ \A r \in first : /\ won[r] \in Registrations
                          /\ won[r].owned => won[r].value \in Values
  BY <1>1, <1>3, <1>4, WinnerFacts
<1>10. Deliver(won, waiting \ first, wake, buf)
  BY <1>7
<1> HIDE DEF won, wake
<1>11. buf \in [Channels -> Seq(Values)] /\ \A d \in Channels : Len(buf[d]) <= Capacity[d]
  BY <1>1 DEF TypeOK
<1>12. NoArmStarts
  BY <1>2, IdleRuns DEF NoArmStarts
<1>13. DOMAIN won \subseteq Regs /\ waiting \ first \in SUBSET Regs
  BY <1>3, <1>4, <1>9
<1>14. /\ DeliveryTypes' /\ PayloadsReal' /\ LinkedPending' /\ TokenDiscipline'
       /\ ListsShrink((waiting \ first) \cup DOMAIN won, buf)
  BY <1>8, <1>9, <1>10, <1>11, <1>12, <1>13, DeliverPreserves
<1>15. sendq'[c] = {} /\ recvq'[c] = {}
  BY <1>4, <1>9, <1>14 DEF ListsShrink, waiting
<1>16. ReceiversBlocked' /\ ClosedHasNoSenders'
  <2>1. \A d \in Channels : d # c => closed'[d] = closed[d]
    BY <1>1, <1>2 DEF FrameTypes
  <2> QED
    BY <1>1, <1>14, <1>15, <2>1
       DEF ReceiversBlocked, ClosedHasNoSenders, ListsShrink
<1>17. (delivered \in [Channels -> Seq(Values)])'
  BY <1>1, <1>2 DEF TypeOK
<1>18. FrameTypes'
  BY <1>1, <1>2 DEF FrameTypes
<1> QED
  BY <1>14, <1>16, <1>17, <1>18, InductiveParts DEF ChannelInvariant

-----------------------------------------------------------------------------
(* Steps that leave the lists and registrations alone. *)

\* Only frame f moves on, and it has nothing linked, or keeps it registered.
LEMMA FrameMoves ==
    ASSUME Inductive, NEW f \in Frames,
           UNCHANGED <<sendq, recvq, reg, closed>>,
           \A c \in Channels : buf'[c] = <<>> \/ buf'[c] = buf[c],
           \A g \in Frames \ {f} : tok'[g] = tok[g] /\ phase'[g] = phase[g],
           \/ phase[f] \in {"idle"} \cup Over
           \/ phase'[f] = phase[f] /\ tok'[f] = tok[f]
           \/ /\ phase[f] # "plain" /\ tok'[f].active = tok[f].active
              /\ tok[f].registered \subseteq tok'[f].registered
    PROVE  PayloadsReal' /\ LinkedPending' /\ ReceiversBlocked'
              /\ ClosedHasNoSenders'
<1>1. /\ TypeOK /\ PayloadsReal /\ LinkedPending /\ TokenDiscipline
      /\ ReceiversBlocked /\ ClosedHasNoSenders
  BY DEF Inductive
<1>2. PayloadsReal' /\ ReceiversBlocked' /\ ClosedHasNoSenders'
  BY <1>1 DEF PayloadsReal, ReceiversBlocked, ClosedHasNoSenders
<1>3. LinkedPending'
  <2> SUFFICES ASSUME NEW c \in Channels,
                      NEW r \in Waiters(sendq[c]) \cup Waiters(recvq[c])
               PROVE  /\ ~reg[r].ready
                      /\ \/ phase'[r[1]] = "plain" /\ r[2] = 1
                         \/ tok'[r[1]].active /\ r[2] \in tok'[r[1]].registered
    BY DEF LinkedPending
  <2>1. r[1] \in Frames
    BY <1>1 DEF TypeOK, Waiters, Regs
  <2>2. /\ ~reg[r].ready
        /\ \/ phase[r[1]] = "plain" /\ r[2] = 1
           \/ tok[r[1]].active /\ r[2] \in tok[r[1]].registered
    BY <1>1 DEF LinkedPending
  <2>3. phase[r[1]] \notin {"idle"} \cup Over
    BY <1>1, <2>1, <2>2 DEF TokenDiscipline, Over
  <2> QED
    BY <2>1, <2>2, <2>3
<1> QED
  BY <1>2, <1>3

\* The release of a handle after its last use keeps the invariant.
LEMMA ReleaseHandlePreserves ==
    ASSUME Inductive, NEW f \in Frames, NEW c \in Channels, ReleaseHandle(f, c)
    PROVE  Inductive'
<1>1. TypeOK /\ PayloadsReal /\ TokenDiscipline /\ FrameTypes
  BY InductiveParts DEF Inductive
<1>2. /\ handles' = [handles EXCEPT ![f] = @ \ {c}]
      /\ Release({}, One(c), buf, {})
      /\ UNCHANGED <<closed, sendq, recvq, reg, tok, phase, deadline, held,
                     staged, ready, running, failed, delivered>>
  BY DEF ReleaseHandle
<1>3. One(c) \in [Channels -> Nat] /\ {} \in SUBSET Regs /\ {} \in SUBSET Values
  BY DEF One
<1>4. buf \in [Channels -> Seq(Values)]
  BY <1>1 DEF TypeOK
<1>5. /\ refs' \in [Channels -> Nat]
      /\ buf' \in [Channels -> Seq(Values)]
      /\ \A d \in Channels : buf'[d] = <<>> \/ buf'[d] = buf[d]
      /\ dropped' \subseteq Values
  BY ONLY <1>1, <1>2, <1>3, <1>4, ReleaseFacts
<1>6. PayloadsReal' /\ LinkedPending' /\ ReceiversBlocked' /\ ClosedHasNoSenders'
  BY <1>2, <1>5, FrameMoves
<1>7. TokenDiscipline'
  BY <1>1, <1>2 DEF TokenDiscipline
<1>8. \A d \in Channels : Len(buf'[d]) <= Capacity[d]
  BY <1>1, <1>5, CapacityAssumption DEF TypeOK
<1>9. ChannelInvariant' /\ FrameTypes'
  BY <1>1, <1>2, <1>5, <1>6, <1>7, <1>8
     DEF ChannelInvariant, DeliveryTypes, TypeOK, FrameTypes
<1> QED
  BY <1>9, InductiveParts

\* A frame that yields goes to the tail of the ready queue.
LEMMA YieldPreserves ==
    ASSUME Inductive, NEW f \in Frames, Yield(f)
    PROVE  Inductive'
<1>1. TypeOK /\ TokenDiscipline /\ FrameTypes
  BY InductiveParts DEF Inductive
<1>2. /\ running = f /\ phase[f] = "idle" /\ running' = None /\ Enqueue(<<f>>)
      /\ UNCHANGED <<buf, closed, sendq, recvq, refs, delivered, reg, tok,
                     phase, deadline, held, staged, handles, dropped>>
  BY DEF Yield, Runs, channelVars, frameVars
<1>3. PayloadsReal' /\ LinkedPending' /\ ReceiversBlocked' /\ ClosedHasNoSenders'
  BY <1>2, FrameMoves
<1>4. TokenDiscipline'
  BY <1>1, <1>2 DEF TokenDiscipline
<1>5. ready' \in Seq(Frames) /\ Len(ready') <= ReadyCapacity /\ failed' \in BOOLEAN
  <2>1. <<f>> \in Seq(Frames) /\ Enqueue(<<f>>)
    BY <1>2
  <2> QED
    BY <1>1, <2>1, EnqueueFacts
<1>6. ChannelInvariant' /\ FrameTypes'
  BY <1>1, <1>2, <1>3, <1>4, <1>5
     DEF ChannelInvariant, DeliveryTypes, TypeOK, FrameTypes
<1> QED
  BY <1>6, InductiveParts

\* Arming or disarming a task.deadline timer touches no channel.
LEMMA EnterDeadlinePreserves ==
    ASSUME Inductive, NEW f \in Frames,
           EnterDeadline(f) \/ ExitDeadline(f)
    PROVE  Inductive'
<1>1. TypeOK /\ TokenDiscipline /\ FrameTypes
  BY InductiveParts DEF Inductive
<1>2. /\ \E d \in {"none", "armed", "expired"} :
            deadline' = [deadline EXCEPT ![f] = d]
      /\ UNCHANGED <<buf, closed, sendq, recvq, refs, delivered, reg, tok,
                     phase, held, staged, handles, ready, running, failed,
                     dropped>>
  BY DEF EnterDeadline, ExitDeadline, channelVars
<1>3. PayloadsReal' /\ LinkedPending' /\ ReceiversBlocked' /\ ClosedHasNoSenders'
  BY <1>2, FrameMoves
<1>4. TokenDiscipline'
  BY <1>1, <1>2 DEF TokenDiscipline
<1>5. ChannelInvariant' /\ FrameTypes'
  BY <1>1, <1>2, <1>3, <1>4
     DEF ChannelInvariant, DeliveryTypes, TypeOK, FrameTypes
<1> QED
  BY <1>5, InductiveParts

\* nomo_async_wait_next expiring a deadline only enqueues its frame.
LEMMA DeadlineExpirePreserves ==
    ASSUME Inductive, NEW f \in Frames, DeadlineExpire(f)
    PROVE  Inductive'
<1>1. TypeOK /\ TokenDiscipline /\ FrameTypes
  BY InductiveParts DEF Inductive
<1>2. /\ deadline' = [deadline EXCEPT ![f] = "expired"]
      /\ Enqueue(<<f>>)
      /\ UNCHANGED <<buf, closed, sendq, recvq, refs, delivered, reg, tok,
                     phase, held, staged, handles, running, dropped>>
  BY DEF DeadlineExpire, channelVars
<1>3. PayloadsReal' /\ LinkedPending' /\ ReceiversBlocked' /\ ClosedHasNoSenders'
  BY <1>2, FrameMoves
<1>4. TokenDiscipline'
  BY <1>1, <1>2 DEF TokenDiscipline
<1>5. ready' \in Seq(Frames) /\ Len(ready') <= ReadyCapacity /\ failed' \in BOOLEAN
  <2>1. <<f>> \in Seq(Frames) /\ Enqueue(<<f>>)
    BY <1>2
  <2> QED
    BY <1>1, <2>1, EnqueueFacts
<1>6. ChannelInvariant' /\ FrameTypes'
  BY <1>1, <1>2, <1>3, <1>4, <1>5
     DEF ChannelInvariant, DeliveryTypes, TypeOK, FrameTypes
<1> QED
  BY <1>6, InductiveParts

\* nomo_async_ready_dequeue and the poll of the frame it returns.
LEMMA PollPreserves ==
    ASSUME Inductive, NEW f \in Frames, Poll(f)
    PROVE  Inductive'
<1>1. TypeOK /\ TokenDiscipline /\ FrameTypes
  BY InductiveParts DEF Inductive
<1>2. /\ running = None /\ ready # <<>> /\ running' = f /\ ready' = Tail(ready)
      /\ UNCHANGED <<buf, closed, sendq, recvq, refs, delivered, reg, tok,
                     phase, deadline, held, staged, handles, failed, dropped>>
  BY DEF Poll, channelVars, frameVars
<1>3. PayloadsReal' /\ LinkedPending' /\ ReceiversBlocked' /\ ClosedHasNoSenders'
  BY <1>2, FrameMoves
<1>4. TokenDiscipline'
  BY <1>1, <1>2, FramesAssumption DEF TokenDiscipline
<1>5. ready' \in Seq(Frames) /\ Len(ready') <= ReadyCapacity
  BY <1>1, <1>2, HeadTailProperties, ReadyCapacityAssumption DEF TypeOK
<1>6. ChannelInvariant' /\ FrameTypes'
  BY <1>1, <1>2, <1>3, <1>4, <1>5
     DEF ChannelInvariant, DeliveryTypes, TypeOK, FrameTypes
<1> QED
  BY <1>6, InductiveParts

\* A frame that returns leaves no registration linked behind it.
LEMMA FinishPreserves ==
    ASSUME Inductive, NEW f \in Frames, Finish(f)
    PROVE  Inductive'
<1>1. TypeOK /\ TokenDiscipline /\ FrameTypes
  BY InductiveParts DEF Inductive
<1>2. /\ running = f /\ phase[f] = "idle"
      /\ phase' = [phase EXCEPT ![f] = "done"]
      /\ deadline' = [deadline EXCEPT ![f] = "none"]
      /\ running' = None
      /\ UNCHANGED <<buf, closed, sendq, recvq, refs, delivered, reg, tok,
                     held, staged, handles, ready, failed, dropped>>
  BY DEF Finish, Runs, channelVars
<1>3. \A g \in Frames : phase'[g] = IF g = f THEN "done" ELSE phase[g]
  BY <1>1, <1>2 DEF FrameTypes
<1>4. PayloadsReal' /\ LinkedPending' /\ ReceiversBlocked' /\ ClosedHasNoSenders'
  BY <1>2, <1>3, FrameMoves
<1>5. TokenDiscipline'
  BY <1>1, <1>2, <1>3 DEF TokenDiscipline
<1>6. ChannelInvariant' /\ FrameTypes'
  BY <1>1, <1>2, <1>4, <1>5
     DEF ChannelInvariant, DeliveryTypes, TypeOK, FrameTypes, Over
<1> QED
  BY <1>6, InductiveParts

\* The drop function of a frame that is over keeps the invariant: none of its
\* registrations is still linked when its memory goes away.
LEMMA DropFramePreserves ==
    ASSUME Inductive, NEW f \in Frames, DropFrame(f)
    PROVE  Inductive'
<1> DEFINE less == [c \in Channels |-> IF Holds(f, c) THEN 1 ELSE 0]
           freed == held[f] \cup ({staged[f][a] : a \in Arms} \ {None})
<1>1. TypeOK /\ PayloadsReal /\ TokenDiscipline /\ FrameTypes
  BY InductiveParts DEF Inductive
<1>2. /\ phase[f] = "done"
      /\ phase' = [phase EXCEPT ![f] = "dropped"]
      /\ held' = [held EXCEPT ![f] = {}]
      /\ staged' = [staged EXCEPT ![f] = NoneStaged]
      /\ handles' = [handles EXCEPT ![f] = {}]
      /\ Release({}, less, buf, freed)
      /\ UNCHANGED <<closed, sendq, recvq, delivered, reg, tok, deadline, ready,
                     running, failed>>
  BY DEF DropFrame
<1>3. less \in [Channels -> Nat] /\ {} \in SUBSET Regs
  OBVIOUS
<1>4. freed \in SUBSET Values
  BY <1>1 DEF FrameTypes
<1>5. buf \in [Channels -> Seq(Values)]
  BY <1>1 DEF TypeOK
<1> HIDE DEF less, freed
<1>6. /\ refs' \in [Channels -> Nat]
      /\ buf' \in [Channels -> Seq(Values)]
      /\ \A d \in Channels : buf'[d] = <<>> \/ buf'[d] = buf[d]
      /\ dropped' \subseteq Values
  BY ONLY <1>1, <1>2, <1>3, <1>4, <1>5, ReleaseFacts
<1>7. \A g \in Frames : phase'[g] = IF g = f THEN "dropped" ELSE phase[g]
  BY <1>1, <1>2 DEF FrameTypes
<1>8. PayloadsReal' /\ LinkedPending' /\ ReceiversBlocked' /\ ClosedHasNoSenders'
  BY <1>2, <1>6, <1>7, FrameMoves DEF Over
<1>9. TokenDiscipline'
  BY <1>1, <1>2, <1>7 DEF FrameTypes, TokenDiscipline
<1>10. \A d \in Channels : Len(buf'[d]) <= Capacity[d]
  BY <1>1, <1>6, CapacityAssumption DEF TypeOK
<1>11. NoneStaged \in [Arms -> Values \cup {None}]
  BY DEF NoneStaged
<1>12. ChannelInvariant' /\ FrameTypes'
  BY <1>1, <1>2, <1>6, <1>8, <1>9, <1>10, <1>11
     DEF ChannelInvariant, DeliveryTypes, TypeOK, FrameTypes, Over
<1> QED
  BY <1>12, InductiveParts

-----------------------------------------------------------------------------
(* Select. *)

\* nomo_async_select_init and the staging of the send operands.
LEMMA SelectStartPreserves ==
    ASSUME Inductive, NEW f \in Frames, NEW shape \in Shapes,
           SelectStart(f, shape)
    PROVE  Inductive'
<1> DEFINE sends == {a \in DOMAIN shape : shape[a].op = "send"}
           new == [NoToken EXCEPT !.active = TRUE, !.shape = shape]
<1>1. TypeOK /\ TokenDiscipline /\ FrameTypes
  BY InductiveParts DEF Inductive
<1>2. /\ running = f /\ phase[f] = "idle"
      /\ \E value \in [sends -> Sendable(f)] :
             /\ staged' = [staged EXCEPT ![f] =
                             [a \in Arms |-> IF a \in sends THEN value[a]
                                                           ELSE None]]
             /\ held' = [held EXCEPT ![f] = @ \ {value[a] : a \in sends}]
      /\ tok' = [tok EXCEPT ![f] = new]
      /\ phase' = [phase EXCEPT ![f] = "starting"]
      /\ UNCHANGED <<buf, closed, sendq, recvq, refs, delivered, reg, deadline,
                     handles, ready, running, failed, dropped>>
  BY DEF SelectStart, Runs, channelVars
<1>3. new \in Tokens /\ new.active /\ new.winner = 0 /\ new.registered = {}
         /\ new.shape = shape
  BY NoTokenType DEF Tokens
<1>4. sends \subseteq Arms
  BY ShapeFacts
<1>5. Sendable(f) \subseteq Values
  BY <1>1 DEF Sendable, FrameTypes
<1> HIDE DEF new
<1>6. /\ \A g \in Frames \ {f} : tok'[g] = tok[g] /\ phase'[g] = phase[g]
      /\ tok'[f] = new /\ phase'[f] = "starting"
      /\ tok' \in [Frames -> Tokens]
  BY <1>1, <1>2, <1>3 DEF TypeOK
<1>7. /\ held' \in [Frames -> SUBSET Values]
      /\ staged' \in [Frames -> [Arms -> Values \cup {None}]]
      /\ \A g \in Frames \ {f} : staged'[g] = staged[g]
      /\ \A a \in sends : staged'[f][a] \in Values
  <2>1. PICK value \in [sends -> Sendable(f)] :
             /\ staged' = [staged EXCEPT ![f] =
                             [a \in Arms |-> IF a \in sends THEN value[a]
                                                           ELSE None]]
             /\ held' = [held EXCEPT ![f] = @ \ {value[a] : a \in sends}]
    BY <1>2
  <2>2. \A a \in sends : value[a] \in Values
    BY <1>5, <2>1
  <2> DEFINE put == [a \in Arms |-> IF a \in sends THEN value[a] ELSE None]
  <2> HIDE DEF sends
  <2>3. put \in [Arms -> Values \cup {None}] /\ \A a \in sends : put[a] \in Values
    BY <1>4, <2>2
  <2>4. staged' = [staged EXCEPT ![f] = put]
    BY <2>1
  <2> HIDE DEF put
  <2> QED
    BY <1>1, <2>1, <2>3, <2>4 DEF FrameTypes
<1>8. PayloadsReal' /\ LinkedPending' /\ ReceiversBlocked' /\ ClosedHasNoSenders'
  BY <1>2, <1>6, FrameMoves
<1>9. TokenDiscipline'
  <2> SUFFICES ASSUME NEW g \in Frames
               PROVE  /\ tok'[g].active <=> phase'[g] \in {"starting", "claiming", "select"}
                      /\ tok'[g].winner # 0 => tok'[g].registered \subseteq {tok'[g].winner}
                      /\ phase'[g] \in {"starting", "claiming"} =>
                            /\ running' = g
                            /\ \A a \in tok'[g].registered : a < tok'[g].next
                      /\ phase'[g] = "starting" =>
                            /\ tok'[g].winner = 0
                            /\ \A a \in DOMAIN tok'[g].shape :
                                  a >= tok'[g].next /\ tok'[g].shape[a].op = "send"
                                     => staged'[g][a] \in Values
    BY DEF TokenDiscipline
  <2>1. CASE g = f
    BY <1>2, <1>3, <1>6, <1>7, <2>1
  <2>2. CASE g # f
    BY <1>1, <1>2, <1>6, <1>7, <2>2 DEF TokenDiscipline
  <2> QED
    BY <2>1, <2>2
<1>10. ChannelInvariant' /\ FrameTypes'
  BY <1>1, <1>2, <1>6, <1>7, <1>8, <1>9
     DEF ChannelInvariant, DeliveryTypes, TypeOK, FrameTypes
<1> QED
  BY <1>10, InductiveParts

\* nomo_async_select_suspend after every arm has been registered.
LEMMA SelectSuspendPreserves ==
    ASSUME Inductive, NEW f \in Frames, SelectSuspend(f)
    PROVE  Inductive'
<1> DEFINE new == [tok[f] EXCEPT !.suspended = TRUE]
<1>1. TypeOK /\ TokenDiscipline /\ FrameTypes /\ tok[f] \in Tokens
  BY InductiveParts DEF Inductive, TypeOK
<1>2. /\ running = f /\ phase[f] = "starting"
      /\ tok' = [tok EXCEPT ![f].suspended = TRUE]
      /\ phase' = [phase EXCEPT ![f] = "select"]
      /\ running' = None
      /\ UNCHANGED <<buf, closed, sendq, recvq, refs, delivered, reg, deadline,
                     held, staged, handles, ready, failed, dropped>>
  BY DEF SelectSuspend, channelVars
<1>3. /\ new \in Tokens /\ new.active = tok[f].active /\ new.winner = tok[f].winner
      /\ new.registered = tok[f].registered
  BY <1>1 DEF Tokens
<1>4. tok' = [tok EXCEPT ![f] = new]
  BY <1>1, <1>2 DEF TypeOK
<1> HIDE DEF new
<1>5. /\ \A g \in Frames \ {f} : tok'[g] = tok[g] /\ phase'[g] = phase[g]
      /\ tok'[f] = new /\ phase'[f] = "select"
      /\ tok' \in [Frames -> Tokens]
  <2>1. tok \in [Frames -> Tokens] /\ DOMAIN phase = Frames
    BY <1>1 DEF TypeOK
  <2> QED
    BY <1>2, <1>3, <1>4, <2>1
<1>6. PayloadsReal' /\ LinkedPending' /\ ReceiversBlocked' /\ ClosedHasNoSenders'
  BY <1>2, <1>3, <1>5, FrameMoves
<1>7. TokenDiscipline'
  BY <1>1, <1>2, <1>3, <1>5 DEF TokenDiscipline
<1>8. ChannelInvariant' /\ FrameTypes'
  BY <1>1, <1>2, <1>5, <1>6, <1>7
     DEF ChannelInvariant, DeliveryTypes, TypeOK, FrameTypes
<1> QED
  BY <1>8, InductiveParts

\* An arm with a channel has one that exists.
LEMMA ArmChannelFacts ==
    ASSUME Inductive, NEW f \in Frames,
           Starts(f, "send") \/ Starts(f, "receive")
    PROVE  /\ ArmChannel(f) \in Channels
           /\ Starts(f, "send") => staged[f][tok[f].next] \in Values
<1>1. /\ phase[f] = "starting" /\ tok[f].next \in DOMAIN tok[f].shape
      /\ tok[f].shape[tok[f].next].op \in {"send", "receive"}
  BY DEF Starts
<1>2. tok[f] \in Tokens /\ TokenDiscipline
  BY DEF Inductive, TypeOK
<1> DEFINE shape == tok[f].shape
           i == tok[f].next
<1>3. shape \in Shapes /\ i \in Nat
  BY <1>2, <1>1 DEF Tokens
<1> HIDE DEF shape, i
<1>4. /\ shape \in Seq([op : Operations, chan : Channels \cup {None}])
      /\ \A j \in 1 .. Len(shape) : (shape[j].op = "sleep") <=> (shape[j].chan = None)
  BY <1>3, ShapesAssumption
<1>5. i \in 1 .. Len(shape)
  BY <1>1, <1>4 DEF shape, i
<1>6. shape[i].chan \in Channels
  <2>1. shape[i] \in [op : Operations, chan : Channels \cup {None}]
    BY <1>4, <1>5, ElementOfSeq
  <2>2. shape[i].op # "sleep"
    BY <1>1 DEF shape, i
  <2> QED
    BY <1>4, <1>5, <2>1, <2>2
<1>7. Starts(f, "send") => staged[f][tok[f].next] \in Values
  BY <1>1, <1>2, <1>3 DEF TokenDiscipline, Starts, i
<1> QED
  BY <1>6, <1>7 DEF ArmChannel, shape, i

\* The arm is ready at once: the frame goes on to claim its select.
LEMMA ClaimingPreserves ==
    ASSUME Inductive, NEW f \in Frames, running = f, phase[f] = "starting",
           phase' = [phase EXCEPT ![f] = "claiming"],
           UNCHANGED <<buf, closed, sendq, recvq, refs, reg, tok, ready, running,
                       failed, dropped, delivered>>
    PROVE  ChannelInvariant'
<1>1. TypeOK /\ TokenDiscipline
  BY DEF Inductive
<1>2. \A g \in Frames : phase'[g] = IF g = f THEN "claiming" ELSE phase[g]
  BY <1>1 DEF TypeOK
<1>3. PayloadsReal' /\ LinkedPending' /\ ReceiversBlocked' /\ ClosedHasNoSenders'
  BY <1>2, FrameMoves
<1>4. TokenDiscipline'
  BY <1>1, <1>2 DEF TokenDiscipline
<1> QED
  BY <1>1, <1>3, <1>4 DEF ChannelInvariant, DeliveryTypes, TypeOK

\* Starting the send arm of a select: it is ready at once or is linked.
LEMMA ArmSendPreserves ==
    ASSUME Inductive, NEW f \in Frames, ArmSend(f)
    PROVE  Inductive'
<1> DEFINE c == ArmChannel(f)
           v == staged[f][tok[f].next]
           x == SendRegistration(c, v, TRUE)
<1>1. TypeOK /\ FrameTypes
  BY InductiveParts DEF Inductive
<1>2. /\ Starts(f, "send")
      /\ staged' = [staged EXCEPT ![f][tok[f].next] = None]
      /\ \/ TrySendSucceeds(c, v) /\ Claiming(f) /\ UNCHANGED held
         \/ /\ Claiming(f)
            /\ held' = [held EXCEPT ![f] = @ \cup {v}]
            /\ UNCHANGED <<buf, sendq, recvq, refs, reg, tok, ready, failed,
                           dropped, delivered>>
         \/ /\ IsFull(c)
            /\ Suspend(<<f, tok[f].next>>, c, x)
            /\ tok' = Registered(f)
            /\ UNCHANGED <<buf, phase, held, ready, failed, dropped, delivered>>
      /\ UNCHANGED <<closed, deadline, handles, running>>
  BY DEF ArmSend
<1>3. /\ running = f /\ phase[f] = "starting"
      /\ tok[f].next \in DOMAIN tok[f].shape
  BY <1>2 DEF Starts
<1>4. c \in Channels /\ v \in Values
  BY <1>2, ArmChannelFacts
<1>5. x \in Registrations /\ x.op = "send" /\ x.value \in Values /\ ~x.ready
  BY <1>4, RegistrationFacts
<1> HIDE DEF c, v, x
<1>6. tok[f].next \in Arms
  BY <1>3, RegisteredFacts
<1>7. staged' \in [Frames -> [Arms -> Values \cup {None}]]
  BY <1>1, <1>2, <1>6 DEF FrameTypes
<1>8. CASE TrySendSucceeds(c, v) /\ Claiming(f) /\ UNCHANGED held
  <2>1. NoArmStarts
    BY <1>2, <1>3, <1>8 DEF NoArmStarts, Claiming
  <2>2. ChannelInvariant'
    <3>1. CASE HandOff(c, v)
      BY <1>2, <1>4, <2>1, <3>1, HandOffPreserves
    <3>2. CASE PutInRing(c, v)
      BY <1>2, <1>4, <2>1, <3>2, PutInRingPreserves
    <3> QED
      BY <1>8, <3>1, <3>2 DEF TrySendSucceeds
  <2>3. FrameTypes'
    BY <1>1, <1>2, <1>7, <1>8 DEF FrameTypes, Claiming
  <2> QED
    BY <2>2, <2>3, InductiveParts
<1>9. CASE /\ Claiming(f)
           /\ held' = [held EXCEPT ![f] = @ \cup {v}]
           /\ UNCHANGED <<buf, sendq, recvq, refs, reg, tok, ready, failed,
                          dropped, delivered>>
  BY <1>2, <1>3, <1>9, ClaimingPreserves, <1>1, <1>4, <1>7, InductiveParts DEF
     Claiming, FrameTypes
<1>10. CASE /\ IsFull(c)
            /\ Suspend(<<f, tok[f].next>>, c, x)
            /\ tok' = Registered(f)
            /\ UNCHANGED <<buf, phase, held, ready, failed, dropped, delivered>>
  BY <1>2, <1>3, <1>4, <1>5, <1>10, ArmSuspends, <1>1, <1>7, InductiveParts
     DEF IsFull, FrameTypes
<1> QED
  BY <1>2, <1>8, <1>9, <1>10

\* Starting the receive arm of a select: it is ready at once or is linked.
LEMMA ArmReceivePreserves ==
    ASSUME Inductive, NEW f \in Frames, ArmReceive(f)
    PROVE  Inductive'
<1> DEFINE c == ArmChannel(f)
           x == ReceiveRegistration(c, TRUE)
<1>1. TypeOK /\ FrameTypes
  BY InductiveParts DEF Inductive
<1>2. /\ Starts(f, "receive")
      /\ \/ /\ TakeFromRing(c)
            /\ Claiming(f)
            /\ held' = [held EXCEPT ![f] = @ \cup {Head(buf[c])}]
         \/ /\ Claiming(f)
            /\ UNCHANGED <<buf, sendq, recvq, refs, reg, tok, ready, failed,
                           dropped, delivered, held>>
         \/ /\ IsEmpty(c)
            /\ Suspend(<<f, tok[f].next>>, c, x)
            /\ tok' = Registered(f)
            /\ UNCHANGED <<buf, phase, held, ready, failed, dropped, delivered>>
      /\ UNCHANGED <<closed, deadline, staged, handles, running>>
  BY DEF ArmReceive
<1>3. /\ running = f /\ phase[f] = "starting"
      /\ tok[f].next \in DOMAIN tok[f].shape
  BY <1>2 DEF Starts
<1>4. c \in Channels
  BY <1>2, ArmChannelFacts
<1>5. x \in Registrations /\ x.op = "receive" /\ ~x.owned /\ ~x.ready
  BY <1>4 DEF ReceiveRegistration, NoRegistration, Registrations, Operations
<1> HIDE DEF c, x
<1>6. CASE /\ TakeFromRing(c)
           /\ Claiming(f)
           /\ held' = [held EXCEPT ![f] = @ \cup {Head(buf[c])}]
  <2>1. NoArmStarts
    BY <1>2, <1>3, <1>6 DEF NoArmStarts, Claiming
  <2>2. ChannelInvariant' /\ Head(buf[c]) \in Values
    BY <1>2, <1>4, <1>6, <2>1, TakeFromRingPreserves
  <2>3. FrameTypes'
    BY <1>1, <1>2, <1>6, <2>2 DEF FrameTypes, Claiming
  <2> QED
    BY <2>2, <2>3, InductiveParts
<1>7. CASE /\ Claiming(f)
           /\ UNCHANGED <<buf, sendq, recvq, refs, reg, tok, ready, failed,
                          dropped, delivered, held>>
  BY <1>2, <1>3, <1>7, ClaimingPreserves, <1>1, InductiveParts DEF Claiming,
     FrameTypes
<1>8. CASE /\ IsEmpty(c)
           /\ Suspend(<<f, tok[f].next>>, c, x)
           /\ tok' = Registered(f)
           /\ UNCHANGED <<buf, phase, held, ready, failed, dropped, delivered>>
  BY <1>2, <1>3, <1>4, <1>5, <1>8, ArmSuspends, <1>1, InductiveParts DEF
     FrameTypes
<1> QED
  BY <1>2, <1>6, <1>7, <1>8

\* The lists stay as they are, and so does every linked registration.
LEMMA LinksKept ==
    ASSUME Inductive, NEW f \in Frames, UNCHANGED <<sendq, recvq, closed>>,
           \A c \in Channels : buf'[c] = <<>> \/ buf'[c] = buf[c],
           \A r \in Regs : reg'[r].owned => reg'[r].value \in Values,
           \A g \in Frames \ {f} : tok'[g] = tok[g] /\ phase'[g] = phase[g],
           \A r \in Regs : ~Unlinked(r) =>
              /\ reg'[r] = reg[r]
              /\ r[1] = f => \/ phase'[f] = "plain" /\ r[2] = 1
                             \/ tok'[f].active /\ r[2] \in tok'[f].registered
    PROVE  PayloadsReal' /\ LinkedPending' /\ ReceiversBlocked'
              /\ ClosedHasNoSenders'
<1>1. /\ TypeOK /\ PayloadsReal /\ LinkedPending
      /\ ReceiversBlocked /\ ClosedHasNoSenders
  BY DEF Inductive
<1>2. \A c \in Channels : \A r \in Waiters(sendq[c]) \cup Waiters(recvq[c]) :
          r \in Regs /\ ~Unlinked(r)
  BY <1>1 DEF TypeOK, Waiters, Unlinked
<1>3. PayloadsReal'
  BY <1>1, <1>2 DEF PayloadsReal
<1>4. ReceiversBlocked' /\ ClosedHasNoSenders'
  BY <1>1 DEF ReceiversBlocked, ClosedHasNoSenders
<1>5. LinkedPending'
  <2> SUFFICES ASSUME NEW c \in Channels,
                      NEW r \in Waiters(sendq[c]) \cup Waiters(recvq[c])
               PROVE  /\ ~reg'[r].ready
                      /\ \/ phase'[r[1]] = "plain" /\ r[2] = 1
                         \/ tok'[r[1]].active /\ r[2] \in tok'[r[1]].registered
    BY DEF LinkedPending
  <2>1. r \in Regs /\ ~Unlinked(r) /\ r[1] \in Frames
    BY <1>2 DEF Regs
  <2>2. /\ ~reg[r].ready
        /\ \/ phase[r[1]] = "plain" /\ r[2] = 1
           \/ tok[r[1]].active /\ r[2] \in tok[r[1]].registered
    BY <1>1 DEF LinkedPending
  <2> QED
    BY <2>1, <2>2
<1> QED
  BY <1>3, <1>4, <1>5

\* A linked registration of a frame that is not in a plain operation is a
\* registered arm of its select.
LEMMA LinkedArms ==
    ASSUME Inductive, NEW r \in Regs, ~Unlinked(r)
    PROVE  /\ ~reg[r].ready
           /\ \/ phase[r[1]] = "plain" /\ r[2] = 1
              \/ tok[r[1]].active /\ r[2] \in tok[r[1]].registered
BY DEF Inductive, LinkedPending, Unlinked

\* Starting the sleep arm of a select: it arms a timer and links nothing.
LEMMA ArmSleepPreserves ==
    ASSUME Inductive, NEW f \in Frames, ArmSleep(f)
    PROVE  Inductive'
<1> DEFINE r == <<f, tok[f].next>>
           x == [NoRegistration EXCEPT !.op = "sleep", !.registered = TRUE,
                                       !.token = TRUE]
<1>1. TypeOK /\ FrameTypes /\ TokenDiscipline /\ PayloadsReal
  BY InductiveParts DEF Inductive
<1>2. /\ running = f /\ phase[f] = "starting"
      /\ tok[f].next \in DOMAIN tok[f].shape
      /\ \/ Claiming(f) /\ UNCHANGED <<reg, tok>>
         \/ /\ reg' = [reg EXCEPT ![r] = x]
            /\ tok' = Registered(f)
            /\ phase' = phase
      /\ UNCHANGED <<buf, closed, sendq, recvq, refs, delivered, deadline, held,
                     staged, handles, ready, running, failed, dropped>>
  BY DEF ArmSleep, Starts, channelVars
<1>3. CASE Claiming(f) /\ UNCHANGED <<reg, tok>>
  BY <1>2, <1>3, ClaimingPreserves, <1>1, InductiveParts DEF Claiming,
     FrameTypes
<1>4. CASE reg' = [reg EXCEPT ![r] = x] /\ tok' = Registered(f) /\ phase' = phase
  <2>1. x \in Registrations /\ ~x.owned
    BY DEF NoRegistration, Registrations, Operations
  <2>2. /\ tok[f].next \in Arms
        /\ tok' \in [Frames -> Tokens]
        /\ \A g \in Frames \ {f} : tok'[g] = tok[g]
        /\ tok'[f].active = tok[f].active
        /\ tok'[f].winner = 0
        /\ tok'[f].shape = tok[f].shape
        /\ tok'[f].next = tok[f].next + 1
        /\ tok'[f].registered = tok[f].registered \cup {tok[f].next}
    BY <1>2, <1>4, RegisteredFacts
  <2>3. Unlinked(r) /\ r \in Regs
    BY <1>2, <2>2, StartingUnlinked DEF Regs
  <2> HIDE DEF r, x
  <2>4. /\ reg' \in [Regs -> Registrations] /\ reg'[r] = x
        /\ \A q \in Regs \ {r} : reg'[q] = reg[q]
    BY <1>1, <1>4, <2>1, <2>3 DEF TypeOK
  <2>5. \A q \in Regs : reg'[q].owned => reg'[q].value \in Values
    BY <1>1, <2>1, <2>4 DEF PayloadsReal
  <2>6. \A q \in Regs : ~Unlinked(q) =>
           /\ reg'[q] = reg[q]
           /\ q[1] = f => \/ phase'[f] = "plain" /\ q[2] = 1
                          \/ tok'[f].active /\ q[2] \in tok'[f].registered
    BY <1>4, <2>2, <2>3, <2>4, LinkedArms
  <2>7. PayloadsReal' /\ LinkedPending' /\ ReceiversBlocked' /\ ClosedHasNoSenders'
    BY <1>2, <1>4, <2>2, <2>5, <2>6, LinksKept
  <2>8. TokenDiscipline'
    <3> SUFFICES ASSUME NEW g \in Frames
                 PROVE  /\ tok'[g].active <=> phase[g] \in {"starting", "claiming", "select"}
                        /\ tok'[g].winner # 0 => tok'[g].registered \subseteq {tok'[g].winner}
                        /\ phase[g] \in {"starting", "claiming"} =>
                              /\ running = g
                              /\ \A a \in tok'[g].registered : a < tok'[g].next
                        /\ phase[g] = "starting" =>
                              /\ tok'[g].winner = 0
                              /\ \A a \in DOMAIN tok'[g].shape :
                                    a >= tok'[g].next /\ tok'[g].shape[a].op = "send"
                                       => staged[g][a] \in Values
      BY <1>2, <1>4 DEF TokenDiscipline
    <3>1. CASE g # f
      BY <1>1, <2>2, <3>1 DEF TokenDiscipline
    <3>2. CASE g = f
      <4>1. /\ tok[f] \in Tokens /\ tok[f].next \in Nat
            /\ tok[f].registered \subseteq Nat
        BY <1>1 DEF TypeOK, Tokens, Arms
      <4>2. DOMAIN tok[f].shape \subseteq Nat
        BY <4>1, ShapeFacts DEF Tokens, Arms
      <4>3. \A a \in tok[f].registered \cup {tok[f].next} : a < tok[f].next + 1
        BY <1>1, <1>2, <4>1 DEF TokenDiscipline
      <4>4. \A a \in DOMAIN tok[f].shape : a >= tok[f].next + 1 => a >= tok[f].next
        BY <4>1, <4>2
      <4> QED
        BY <1>1, <1>2, <2>2, <3>2, <4>3, <4>4 DEF TokenDiscipline
    <3> QED
      BY <3>1, <3>2
  <2>9. ChannelInvariant' /\ FrameTypes'
    BY <1>1, <1>2, <1>4, <2>2, <2>4, <2>7, <2>8
       DEF ChannelInvariant, DeliveryTypes, TypeOK, FrameTypes
  <2> QED
    BY <2>9, InductiveParts
<1> QED
  BY <1>2, <1>3, <1>4

-----------------------------------------------------------------------------
(* Resumption. *)

\* A ready registration is consumed; its frame runs on.
LEMMA FinishedPreserves ==
    ASSUME Inductive, NEW f \in Frames, NEW r \in Regs, r[1] = f, running = f,
           reg[r].ready, Finished(f, r),
           \/ phase[f] = "plain" /\ r[2] = 1 /\ tok' = tok
           \/ /\ phase[f] = "select" /\ r[2] = tok[f].winner /\ tok[f].winner # 0
              /\ tok' = [tok EXCEPT ![f] = NoToken],
           UNCHANGED <<closed, sendq, recvq, delivered, deadline, staged,
                       handles, ready, running, failed>>
    PROVE  Inductive'
<1> DEFINE less == IF reg[r].active THEN One(reg[r].chan) ELSE Nothing
<1>1. TypeOK /\ FrameTypes /\ TokenDiscipline /\ PayloadsReal
  BY InductiveParts DEF Inductive
<1>2. /\ reg' = [reg EXCEPT ![r] = NoRegistration]
      /\ held' = [held EXCEPT ![f] = @ \cup Payload(r)]
      /\ Release({}, less, buf, {})
      /\ phase' = [phase EXCEPT ![f] = "idle"]
  BY DEF Finished
<1>3. less \in [Channels -> Nat] /\ {} \in SUBSET Regs /\ {} \in SUBSET Values
  BY DEF One, Nothing
<1>4. buf \in [Channels -> Seq(Values)]
  BY <1>1 DEF TypeOK
<1> HIDE DEF less
<1>5. /\ refs' \in [Channels -> Nat]
      /\ buf' \in [Channels -> Seq(Values)]
      /\ \A d \in Channels : buf'[d] = <<>> \/ buf'[d] = buf[d]
      /\ dropped' \subseteq Values
  BY ONLY <1>1, <1>2, <1>3, <1>4, ReleaseFacts
<1>6. /\ reg' \in [Regs -> Registrations]
      /\ \A q \in Regs \ {r} : reg'[q] = reg[q]
      /\ reg'[r] = NoRegistration
  BY <1>1, <1>2, NoRegistrationType DEF TypeOK
<1>7. \A q \in Regs : reg'[q].owned => reg'[q].value \in Values
  BY <1>1, <1>6, NoRegistrationType DEF PayloadsReal
<1>8. /\ tok' \in [Frames -> Tokens]
      /\ \A g \in Frames \ {f} : tok'[g] = tok[g] /\ phase'[g] = phase[g]
      /\ phase'[f] = "idle"
      /\ ~tok'[f].active
      /\ tok'[f].winner # 0 => tok'[f].registered \subseteq {tok'[f].winner}
  <2>1. tok \in [Frames -> Tokens] /\ DOMAIN phase = Frames
    BY <1>1 DEF TypeOK
  <2>2. phase[f] = "plain" => ~tok[f].active
    BY <1>1 DEF TokenDiscipline
  <2>3. tok[f].winner # 0 => tok[f].registered \subseteq {tok[f].winner}
    BY <1>1 DEF TokenDiscipline
  <2> QED
    BY <1>2, <2>1, <2>2, <2>3, NoTokenType
<1>9. \A q \in Regs : ~Unlinked(q) => q[1] # f
  <2> SUFFICES ASSUME NEW q \in Regs, ~Unlinked(q), q[1] = f PROVE FALSE
    OBVIOUS
  <2>1. /\ ~reg[q].ready
        /\ \/ phase[f] = "plain" /\ q[2] = 1
           \/ tok[f].active /\ q[2] \in tok[f].registered
    BY LinkedArms
  <2>2. q[2] = r[2]
    BY <1>1, <2>1 DEF TokenDiscipline
  <2>3. q = r
    BY <2>2 DEF Regs
  <2> QED
    BY <2>1, <2>3
<1>10. \A q \in Regs : ~Unlinked(q) =>
         /\ reg'[q] = reg[q]
         /\ q[1] = f => \/ phase'[f] = "plain" /\ q[2] = 1
                        \/ tok'[f].active /\ q[2] \in tok'[f].registered
  BY <1>6, <1>9
<1>11. PayloadsReal' /\ LinkedPending' /\ ReceiversBlocked' /\ ClosedHasNoSenders'
  BY <1>5, <1>7, <1>8, <1>10, LinksKept
<1>12. TokenDiscipline'
  BY <1>1, <1>8 DEF TokenDiscipline
<1>13. Payload(r) \subseteq Values
  BY <1>1 DEF Payload, PayloadsReal
<1>14. \A d \in Channels : Len(buf'[d]) <= Capacity[d]
  BY <1>1, <1>5, CapacityAssumption DEF TypeOK
<1>15. FrameTypes'
  BY <1>1, <1>2, <1>13 DEF FrameTypes
<1>16. ChannelInvariant'
  BY <1>1, <1>5, <1>6, <1>8, <1>11, <1>12, <1>14
     DEF ChannelInvariant, DeliveryTypes, TypeOK
<1> QED
  BY <1>15, <1>16, InductiveParts

\* The poll returns PENDING again, or the runtime fails where it is.
LEMMA StaysPreserves ==
    ASSUME Inductive, failed' \in BOOLEAN,
           \/ running' = running
           \/ /\ running' = None
              /\ \A g \in Frames : phase[g] \notin {"starting", "claiming"},
           UNCHANGED <<buf, closed, sendq, recvq, refs, reg, tok, phase, deadline,
                       held, staged, handles, ready, dropped, delivered>>
    PROVE  Inductive'
<1>1. TypeOK /\ FrameTypes /\ TokenDiscipline
  BY InductiveParts DEF Inductive
<1>2. PayloadsReal' /\ LinkedPending' /\ ReceiversBlocked' /\ ClosedHasNoSenders'
  BY DEF Inductive, PayloadsReal, LinkedPending, ReceiversBlocked,
         ClosedHasNoSenders
<1>3. TokenDiscipline'
  BY <1>1 DEF TokenDiscipline
<1>4. ChannelInvariant' /\ FrameTypes'
  BY <1>1, <1>2, <1>3 DEF ChannelInvariant, DeliveryTypes, TypeOK, FrameTypes
<1> QED
  BY <1>4, InductiveParts

\* nomo_channel_send_resume and nomo_channel_receive_resume consume a finished
\* registration, or leave a pending one linked.
LEMMA ResumePreserves ==
    ASSUME Inductive, NEW f \in Frames, Resume(f)
    PROVE  Inductive'
<1> DEFINE r == <<f, 1>>
<1>1. /\ running = f /\ phase[f] = "plain"
      /\ IF reg[r].ready
         THEN Finished(f, r) /\ UNCHANGED running
         ELSE /\ running' = None
              /\ UNCHANGED <<reg, held, refs, buf, dropped, phase>>
      /\ UNCHANGED <<closed, sendq, recvq, delivered, tok, deadline, staged,
                     handles, ready, failed>>
  BY DEF Resume, Resumes
<1>2. r \in Regs /\ r[1] = f /\ r[2] = 1
  BY DEF Regs, Arms
<1> HIDE DEF r
<1>3. CASE reg[r].ready
  BY <1>1, <1>2, <1>3, FinishedPreserves
<1>4. CASE ~reg[r].ready
  BY <1>1, IdleRuns, <1>4, StaysPreserves DEF Inductive, TypeOK
<1> QED
  BY <1>3, <1>4

\* Resuming a select runs the winner's body or leaves the select pending.
LEMMA SelectResumePreserves ==
    ASSUME Inductive, NEW f \in Frames, SelectResume(f)
    PROVE  Inductive'
<1> DEFINE r == <<f, tok[f].winner>>
<1>1. /\ running = f /\ phase[f] = "select"
      /\ IF tok[f].winner = 0
         THEN /\ running' = None
              /\ UNCHANGED <<reg, held, refs, buf, dropped, phase, tok, failed>>
         ELSE IF reg[r].ready
         THEN /\ Finished(f, r)
              /\ tok' = [tok EXCEPT ![f] = NoToken]
              /\ UNCHANGED <<running, failed>>
         ELSE /\ failed' = TRUE
              /\ UNCHANGED <<reg, held, refs, buf, dropped, phase, tok, running>>
      /\ UNCHANGED <<closed, sendq, recvq, delivered, deadline, staged,
                     handles, ready>>
  BY DEF SelectResume, Resumes
<1>2. tok[f].winner # 0 => r \in Regs
  BY DEF Inductive, TypeOK, Tokens, Regs, Arms
<1>3. r[1] = f /\ r[2] = tok[f].winner
  OBVIOUS
<1> HIDE DEF r
<1>4. failed \in BOOLEAN
  BY DEF Inductive, TypeOK
<1>5. CASE tok[f].winner = 0
  BY <1>1, IdleRuns, <1>4, <1>5, StaysPreserves
<1>6. CASE tok[f].winner # 0 /\ reg[r].ready
  BY <1>1, <1>2, <1>3, <1>6, FinishedPreserves
<1>7. CASE tok[f].winner # 0 /\ ~reg[r].ready
  BY <1>1, <1>7, StaysPreserves
<1> QED
  BY <1>5, <1>6, <1>7

-----------------------------------------------------------------------------
(* Cancellation. *)

\* Every linked registration of the frames of S is cancelled.
LEMMA CancelPreserves ==
    ASSUME Inductive, NEW S \in SUBSET Frames, NEW lost \in SUBSET Regs,
           NEW freed \in SUBSET Values,
           \A r \in Regs : ~Unlinked(r) /\ r[1] \in S => r \in lost,
           reg' = [r \in Regs |-> IF r \in lost THEN NoRegistration ELSE reg[r]],
           sendq' = [c \in Channels |-> Unlink(sendq[c], lost)],
           recvq' = [c \in Channels |-> Unlink(recvq[c], lost)],
           Release(lost, Nothing, buf, freed), closed' = closed,
           \A g \in Frames \ S : tok'[g] = tok[g] /\ phase'[g] = phase[g]
    PROVE  /\ buf' \in [Channels -> Seq(Values)]
           /\ \A c \in Channels : Len(buf'[c]) <= Capacity[c]
           /\ sendq' \in [Channels -> SUBSET (Regs \X Regs)]
           /\ recvq' \in [Channels -> SUBSET (Regs \X Regs)]
           /\ refs' \in [Channels -> Nat]
           /\ reg' \in [Regs -> Registrations]
           /\ dropped' \subseteq Values
           /\ PayloadsReal' /\ LinkedPending' /\ ReceiversBlocked'
           /\ ClosedHasNoSenders'
<1>1. /\ TypeOK /\ PayloadsReal /\ LinkedPending /\ TokenDiscipline
      /\ ReceiversBlocked /\ ClosedHasNoSenders
  BY DEF Inductive
<1>2. Nothing \in [Channels -> Nat]
  BY DEF Nothing
<1>3. buf \in [Channels -> Seq(Values)]
  BY <1>1 DEF TypeOK
<1>4. /\ refs' \in [Channels -> Nat]
      /\ buf' \in [Channels -> Seq(Values)]
      /\ \A d \in Channels : buf'[d] = <<>> \/ buf'[d] = buf[d]
      /\ dropped' \subseteq Values
  BY ONLY <1>1, <1>2, <1>3, lost \in SUBSET Regs, freed \in SUBSET Values,
          Release(lost, Nothing, buf, freed), ReleaseFacts
<1>5. \A c \in Channels : Len(buf'[c]) <= Capacity[c]
  BY <1>1, <1>4, CapacityAssumption DEF TypeOK
<1>6. ASSUME NEW c \in Channels
      PROVE  /\ sendq'[c] \in SUBSET (Regs \X Regs) /\ recvq'[c] \in SUBSET (Regs \X Regs)
             /\ sendq'[c] \subseteq sendq[c] /\ recvq'[c] \subseteq recvq[c]
             /\ Waiters(sendq'[c]) \subseteq Waiters(sendq[c]) \ lost
             /\ Waiters(recvq'[c]) \subseteq Waiters(recvq[c]) \ lost
             /\ Waiters(sendq[c]) \cup Waiters(recvq[c]) \subseteq Regs
  <2>1. sendq[c] \in SUBSET (Regs \X Regs) /\ recvq[c] \in SUBSET (Regs \X Regs)
    BY <1>1 DEF TypeOK
  <2>2. sendq'[c] = Unlink(sendq[c], lost) /\ recvq'[c] = Unlink(recvq[c], lost)
    OBVIOUS
  <2>3. /\ sendq'[c] \in SUBSET (Regs \X Regs) /\ sendq'[c] \subseteq sendq[c]
        /\ Waiters(sendq'[c]) \subseteq Waiters(sendq[c]) \ lost
        /\ Waiters(sendq[c]) \subseteq Regs
    BY ONLY <2>1, <2>2, UnlinkFacts
  <2>4. /\ recvq'[c] \in SUBSET (Regs \X Regs) /\ recvq'[c] \subseteq recvq[c]
        /\ Waiters(recvq'[c]) \subseteq Waiters(recvq[c]) \ lost
        /\ Waiters(recvq[c]) \subseteq Regs
    BY ONLY <2>1, <2>2, UnlinkFacts
  <2> QED
    BY <2>3, <2>4
<1>7. /\ sendq' \in [Channels -> SUBSET (Regs \X Regs)]
      /\ recvq' \in [Channels -> SUBSET (Regs \X Regs)]
  BY <1>6
<1>8. reg' \in [Regs -> Registrations]
  BY <1>1, NoRegistrationType DEF TypeOK
<1>9. ReceiversBlocked' /\ ClosedHasNoSenders'
  BY <1>1, <1>4, <1>6 DEF ReceiversBlocked, ClosedHasNoSenders
<1>10. \A r \in Regs : reg'[r].owned => reg'[r].value \in Values
  BY <1>1, NoRegistrationType DEF PayloadsReal
<1>11. \A c \in Channels : \A r \in Waiters(sendq'[c]) \cup Waiters(recvq'[c]) :
          /\ r \in Regs /\ r \in Waiters(sendq[c]) \cup Waiters(recvq[c])
          /\ reg'[r] = reg[r] /\ r[1] \in Frames \ S
  <2> SUFFICES ASSUME NEW c \in Channels,
                      NEW r \in Waiters(sendq'[c]) \cup Waiters(recvq'[c])
               PROVE  /\ r \in Regs /\ r \in Waiters(sendq[c]) \cup Waiters(recvq[c])
                      /\ reg'[r] = reg[r] /\ r[1] \in Frames \ S
    OBVIOUS
  <2>1. /\ r \in Regs /\ r \in Waiters(sendq[c]) \cup Waiters(recvq[c])
        /\ r \notin lost
    BY <1>6
  <2>2. ~Unlinked(r)
    BY <2>1 DEF Unlinked
  <2>3. r[1] \in Frames
    BY <2>1 DEF Regs
  <2> QED
    BY <2>1, <2>2, <2>3
<1>12. PayloadsReal'
  <2>1. ASSUME NEW c \in Channels, NEW r \in Waiters(sendq'[c])
        PROVE  reg'[r].value \in Values
    BY <1>1, <1>6, <1>11, <2>1 DEF PayloadsReal
  <2> QED
    BY <1>10, <2>1 DEF PayloadsReal
<1>13. LinkedPending'
  <2> SUFFICES ASSUME NEW c \in Channels,
                      NEW r \in Waiters(sendq'[c]) \cup Waiters(recvq'[c])
               PROVE  /\ ~reg'[r].ready
                      /\ \/ phase'[r[1]] = "plain" /\ r[2] = 1
                         \/ tok'[r[1]].active /\ r[2] \in tok'[r[1]].registered
    BY DEF LinkedPending
  <2> QED
    BY <1>1, <1>11 DEF LinkedPending
<1> QED
  BY <1>4, <1>5, <1>7, <1>8, <1>9, <1>12, <1>13

\* nomo_async_select_immediate_win cancels every arm registered so far, also
\* where an earlier arm already claimed the token.
LEMMA ImmediateWinPreserves ==
    ASSUME Inductive, NEW f \in Frames, ImmediateWin(f)
    PROVE  Inductive'
<1> DEFINE lost == {<<f, a>> : a \in tok[f].registered \ {tok[f].next}}
           unused == {staged[f][a] : a \in Arms} \ {None}
<1>1. TypeOK /\ FrameTypes /\ TokenDiscipline /\ tok[f] \in Tokens
  BY InductiveParts DEF Inductive, TypeOK
<1>2. /\ running = f /\ phase[f] = "claiming"
      /\ UNCHANGED <<closed, delivered, deadline, held, handles, ready, running>>
  BY DEF ImmediateWin
<1>3. CASE tok[f].active /\ tok[f].winner = 0
  <2>1. /\ reg' = [r \in Regs |-> IF r \in lost THEN NoRegistration ELSE reg[r]]
        /\ sendq' = [c \in Channels |-> Unlink(sendq[c], lost)]
        /\ recvq' = [c \in Channels |-> Unlink(recvq[c], lost)]
        /\ Release(lost, Nothing, buf, unused)
        /\ tok' = [tok EXCEPT ![f] = NoToken]
        /\ staged' = [staged EXCEPT ![f] = NoneStaged]
        /\ phase' = [phase EXCEPT ![f] = "idle"]
        /\ UNCHANGED failed
    BY <1>3 DEF ImmediateWin
  <2>2. tok[f].registered \subseteq Arms /\ tok[f].next \in Int
    BY <1>1 DEF Tokens
  <2>3. lost \in SUBSET Regs
    BY <2>2 DEF Regs
  <2>4. unused \in SUBSET Values
    BY <1>1 DEF FrameTypes
  <2>5. tok[f].next \notin tok[f].registered
    BY <1>1, <1>2, <2>2 DEF TokenDiscipline
  <2>6. \A r \in Regs : ~Unlinked(r) /\ r[1] \in {f} => r \in lost
    <3> SUFFICES ASSUME NEW r \in Regs, ~Unlinked(r), r[1] = f
                 PROVE  r \in lost
      OBVIOUS
    <3>1. r[2] \in tok[f].registered \ {tok[f].next}
      BY <1>2, <2>5, LinkedArms
    <3>2. r = <<f, r[2]>>
      BY DEF Regs
    <3> QED
      BY <3>1, <3>2
  <2> HIDE DEF lost, unused
  <2>7. /\ \A g \in Frames \ {f} : tok'[g] = tok[g] /\ phase'[g] = phase[g]
        /\ tok' \in [Frames -> Tokens] /\ tok'[f] = NoToken /\ phase'[f] = "idle"
    BY <1>1, <2>1, NoTokenType DEF TypeOK
  <2>8. /\ {f} \in SUBSET Frames /\ closed' = closed
        /\ reg' = [r \in Regs |-> IF r \in lost THEN NoRegistration ELSE reg[r]]
        /\ sendq' = [c \in Channels |-> Unlink(sendq[c], lost)]
        /\ recvq' = [c \in Channels |-> Unlink(recvq[c], lost)]
        /\ Release(lost, Nothing, buf, unused)
    BY <1>2, <2>1
  <2>9. /\ buf' \in [Channels -> Seq(Values)]
        /\ \A c \in Channels : Len(buf'[c]) <= Capacity[c]
        /\ sendq' \in [Channels -> SUBSET (Regs \X Regs)]
        /\ recvq' \in [Channels -> SUBSET (Regs \X Regs)]
        /\ refs' \in [Channels -> Nat]
        /\ reg' \in [Regs -> Registrations]
        /\ dropped' \subseteq Values
        /\ PayloadsReal' /\ LinkedPending' /\ ReceiversBlocked'
        /\ ClosedHasNoSenders'
    BY <2>3, <2>4, <2>6, <2>7, <2>8, CancelPreserves
  <2>10. TokenDiscipline'
    BY <1>1, <2>1, <1>2, <2>7, NoTokenType DEF FrameTypes, TokenDiscipline
  <2>11. NoneStaged \in [Arms -> Values \cup {None}]
    BY DEF NoneStaged
  <2>12. FrameTypes'
    BY <1>1, <1>2, <2>1, <2>11 DEF FrameTypes
  <2>13. ChannelInvariant'
    BY <1>1, <1>2, <2>1, <2>7, <2>9, <2>10
       DEF ChannelInvariant, DeliveryTypes, TypeOK
  <2> QED
    BY <2>12, <2>13, InductiveParts
<1>4. CASE ~(tok[f].active /\ tok[f].winner = 0)
  BY <1>4, <1>2, StaysPreserves DEF ImmediateWin
<1> QED
  BY <1>3, <1>4

\* Cancelling frames outright, as task.cancel and an expired deadline do.
LEMMA CancelFramesPreserves ==
    ASSUME Inductive, NEW S \in SUBSET Frames, CancelFrames(S),
           \/ running' = running /\ running \notin S
           \/ running' = None /\ running \in S,
           UNCHANGED <<closed, delivered, held, staged, handles, failed>>
    PROVE  Inductive'
<1> DEFINE lost == UNION {Outstanding(f) : f \in S}
<1>1. TypeOK /\ FrameTypes /\ TokenDiscipline
  BY InductiveParts DEF Inductive
<1>2. /\ reg' = [r \in Regs |-> IF r \in lost THEN NoRegistration ELSE reg[r]]
      /\ sendq' = [c \in Channels |-> Unlink(sendq[c], lost)]
      /\ recvq' = [c \in Channels |-> Unlink(recvq[c], lost)]
      /\ Release(lost, Nothing, buf, {})
      /\ tok' = [f \in Frames |-> IF f \in S THEN NoToken ELSE tok[f]]
      /\ phase' = [f \in Frames |-> IF f \in S THEN "done" ELSE phase[f]]
      /\ deadline' = [f \in Frames |-> IF f \in S THEN "none" ELSE deadline[f]]
      /\ CancelReady(S)
  BY DEF CancelFrames
<1>3. \A f \in S : Outstanding(f) \subseteq Regs
  <2> SUFFICES ASSUME NEW f \in S PROVE Outstanding(f) \subseteq Regs
    OBVIOUS
  <2>1. f \in Frames /\ tok[f].registered \subseteq Arms /\ 1 \in Arms
    BY <1>1 DEF TypeOK, Tokens, Arms
  <2> QED
    BY <2>1 DEF Outstanding, Regs
<1>4. lost \in SUBSET Regs
  BY <1>3
<1>5. \A r \in Regs : ~Unlinked(r) /\ r[1] \in S => r \in lost
  <2> SUFFICES ASSUME NEW r \in Regs, ~Unlinked(r), r[1] \in S
               PROVE  r \in Outstanding(r[1])
    OBVIOUS
  <2>1. r = <<r[1], r[2]>> /\ r[1] \in Frames
    BY DEF Regs
  <2>2. \/ phase[r[1]] = "plain" /\ r[2] = 1
        \/ tok[r[1]].active /\ r[2] \in tok[r[1]].registered
    BY LinkedArms
  <2>3. phase[r[1]] = "plain" => ~tok[r[1]].active
    BY <1>1, <2>1 DEF TokenDiscipline
  <2> QED
    BY <2>1, <2>2, <2>3 DEF Outstanding
<1> HIDE DEF lost
<1>6. \A g \in Frames \ S : tok'[g] = tok[g] /\ phase'[g] = phase[g]
  BY <1>2
<1>7. {} \in SUBSET Values /\ closed' = closed
  OBVIOUS
<1>8. /\ reg' = [r \in Regs |-> IF r \in lost THEN NoRegistration ELSE reg[r]]
      /\ sendq' = [c \in Channels |-> Unlink(sendq[c], lost)]
      /\ recvq' = [c \in Channels |-> Unlink(recvq[c], lost)]
      /\ Release(lost, Nothing, buf, {})
  BY <1>2
<1>9. /\ buf' \in [Channels -> Seq(Values)]
      /\ \A c \in Channels : Len(buf'[c]) <= Capacity[c]
      /\ sendq' \in [Channels -> SUBSET (Regs \X Regs)]
      /\ recvq' \in [Channels -> SUBSET (Regs \X Regs)]
      /\ refs' \in [Channels -> Nat]
      /\ reg' \in [Regs -> Registrations]
      /\ dropped' \subseteq Values
      /\ PayloadsReal' /\ LinkedPending' /\ ReceiversBlocked'
      /\ ClosedHasNoSenders'
  BY <1>4, <1>5, <1>6, <1>7, <1>8, CancelPreserves
<1>10. ready' \in Seq(Frames) /\ Len(ready') <= ReadyCapacity
  BY <1>1, <1>2, CancelReadyFacts
<1>11. tok' \in [Frames -> Tokens]
  BY <1>1, <1>2, NoTokenType DEF TypeOK
<1>12. TokenDiscipline'
  BY <1>2, <1>1, NoTokenType DEF TokenDiscipline
<1>13. FrameTypes'
  BY <1>1, <1>2 DEF FrameTypes, Over
<1>14. ChannelInvariant'
  BY <1>1, <1>9, <1>10, <1>11, <1>12 DEF ChannelInvariant, DeliveryTypes, TypeOK
<1> QED
  BY <1>13, <1>14, InductiveParts

\* task.cancel of a child in any state that is not over keeps the invariant.
LEMMA CancelPreservesInductive ==
    ASSUME Inductive, NEW f \in Frames, Cancel(f) \/ DeadlineFailure(f)
    PROVE  Inductive'
<1>1. CASE Cancel(f)
  BY <1>1, CancelFramesPreserves DEF Cancel, Runs
<1>2. CASE DeadlineFailure(f)
  <2> DEFINE S == {g \in IF f = Root THEN Frames ELSE {f} : phase[g] \notin Over}
  <2>1. /\ running = f /\ phase[f] \in {"idle", "plain", "select"}
        /\ CancelFrames(S) /\ running' = None
        /\ UNCHANGED <<closed, delivered, held, staged, handles, failed>>
    BY <1>2 DEF DeadlineFailure
  <2>2. S \in SUBSET Frames /\ f \in S
    BY <2>1 DEF Over
  <2> HIDE DEF S
  <2> QED
    BY <2>1, <2>2, CancelFramesPreserves
<1> QED
  BY <1>1, <1>2

\* A sleep arm that expires claims its select or fails the runtime.
LEMMA TimerExpirePreserves ==
    ASSUME Inductive, NEW r \in Regs, TimerExpire(r)
    PROVE  Inductive'
<1>1. TypeOK /\ PayloadsReal /\ TokenDiscipline /\ ReceiversBlocked
         /\ ClosedHasNoSenders /\ FrameTypes
  BY InductiveParts DEF Inductive
<1>2. /\ running = None
      /\ UNCHANGED <<closed, delivered, phase, deadline, held, staged, handles,
                     running>>
  BY DEF TimerExpire, Idle, frameVars
<1>3. CASE ~Claimable(r)
  BY <1>3, <1>2, StaysPreserves DEF TimerExpire
<1>4. CASE Claimable(r)
  <2> DEFINE won == [x \in {r} |-> Expired(r)]
  <2>1. Deliver(won, {}, WakeOf(r), buf)
    BY <1>4 DEF TimerExpire
  <2>2. /\ DOMAIN won \subseteq Regs
        /\ \A x \in DOMAIN won : /\ won[x] \in Registrations
                                 /\ won[x].owned => won[x].value \in Values
    BY <1>1, WinnerFacts
  <2>3. {} \in SUBSET Regs /\ WakeOf(r) \in Seq(Frames)
    BY <1>1, WinnerFacts
  <2>4. /\ buf \in [Channels -> Seq(Values)]
        /\ \A d \in Channels : Len(buf[d]) <= Capacity[d]
    BY <1>1 DEF TypeOK
  <2>5. NoArmStarts
    BY <1>1, <1>2, FramesAssumption DEF NoArmStarts, TokenDiscipline
  <2> HIDE DEF won
  <2>6. /\ DeliveryTypes' /\ PayloadsReal' /\ LinkedPending' /\ TokenDiscipline'
        /\ ListsShrink({} \cup DOMAIN won, buf)
    BY <2>1, <2>2, <2>3, <2>4, <2>5, DeliverPreserves
  <2>7. ReceiversBlocked' /\ ClosedHasNoSenders'
    BY <1>1, <1>2, <2>6 DEF ReceiversBlocked, ClosedHasNoSenders, ListsShrink
  <2>8. (delivered \in [Channels -> Seq(Values)])' /\ FrameTypes'
    BY <1>1, <1>2 DEF TypeOK, FrameTypes
  <2> QED
    BY <2>6, <2>7, <2>8, InductiveParts DEF ChannelInvariant
<1> QED
  BY <1>3, <1>4

-----------------------------------------------------------------------------
(* The theorems. *)

\* The state in which main has created the channels and spawned its children
\* satisfies the invariant.
LEMMA InitInductive == Init => Inductive
<1> SUFFICES ASSUME Init PROVE Inductive
  OBVIOUS
<1>1. Cardinality(Frames) \in Nat /\ Cardinality(Frames) >= 1
  BY FramesAssumption, FS_CardinalityType, FS_EmptySet
<1>2. ready \in Seq(Frames) /\ Len(ready) <= ReadyCapacity
  <2> DEFINE n == Cardinality(Frames) - 1
  <2>1. ready \in [1 .. n -> Frames] /\ n \in Nat /\ n <= ReadyCapacity
    BY <1>1, ReadyCapacityAssumption DEF Init
  <2> HIDE DEF n
  <2>2. ready \in Seq(Frames) /\ Len(ready) = n
    BY <2>1
  <2> QED
    BY <2>1, <2>2
<1>3. \A c \in Channels : Waiters(sendq[c]) = {} /\ Waiters(recvq[c]) = {}
  BY DEF Init, Waiters
<1>4. NoneStaged \in [Arms -> Values \cup {None}]
  BY DEF NoneStaged
<1>5. /\ refs \in [Channels -> Nat] /\ reg \in [Regs -> Registrations]
      /\ tok \in [Frames -> Tokens]
  BY <1>1, NoRegistrationType, NoTokenType DEF Init
<1>6. \A c \in Channels : Len(buf[c]) <= Capacity[c]
  BY CapacityAssumption DEF Init
<1>7. TypeOK
  <2>1. /\ running \in Frames \cup {None} /\ held \in [Frames -> SUBSET Values]
        /\ failed \in BOOLEAN /\ dropped \subseteq Values
    BY FramesAssumption, HeldAssumption DEF Init
  <2>2. /\ buf \in [Channels -> Seq(Values)]
        /\ delivered \in [Channels -> Seq(Values)]
        /\ closed \in [Channels -> BOOLEAN]
        /\ handles \in [Frames -> SUBSET Channels]
    BY DEF Init
  <2>3. /\ sendq \in [Channels -> SUBSET (Regs \X Regs)]
        /\ recvq \in [Channels -> SUBSET (Regs \X Regs)]
    BY DEF Init
  <2>4. /\ phase \in [Frames -> {"idle", "plain", "starting", "claiming",
                                 "select"} \cup Over]
        /\ deadline \in [Frames -> {"none", "armed", "expired"}]
        /\ staged \in [Frames -> [Arms -> Values \cup {None}]]
    BY <1>4 DEF Init
  <2> QED
    BY <1>2, <1>5, <1>6, <2>1, <2>2, <2>3, <2>4 DEF TypeOK
<1>8. PayloadsReal /\ LinkedPending
  BY <1>3, NoRegistrationType DEF Init, PayloadsReal, LinkedPending
<1>9. TokenDiscipline
  BY NoTokenType DEF Init, TokenDiscipline
<1>10. ReceiversBlocked /\ ClosedHasNoSenders
  BY DEF Init, ReceiversBlocked, ClosedHasNoSenders
<1> QED
  BY <1>7, <1>8, <1>9, <1>10 DEF Inductive

\* Every step of the executor and of the polled frame preserves the invariant.
LEMMA NextInductive == Inductive /\ [Next]_vars => Inductive'
<1> SUFFICES ASSUME Inductive, [Next]_vars PROVE Inductive'
  OBVIOUS
<1>1. CASE UNCHANGED vars
  BY <1>1, StaysPreserves DEF vars, Inductive, TypeOK
<1>2. ASSUME NEW f \in Frames, NEW c \in Channels, NEW v \in Values,
             TrySend(f, c, v) \/ SendStart(f, c, v)
      PROVE  Inductive'
  BY <1>2, TrySendPreserves, SendStartPreserves
<1>3. ASSUME NEW f \in Frames, NEW c \in Channels,
             \/ TryReceive(f, c) \/ ReceiveStart(f, c)
             \/ Close(f, c) \/ ReleaseHandle(f, c)
      PROVE  Inductive'
  BY <1>3, TryReceivePreserves, ReceiveStartPreserves, ClosePreserves,
     ReleaseHandlePreserves
<1>4. ASSUME NEW f \in Frames, NEW shape \in Shapes, SelectStart(f, shape)
      PROVE  Inductive'
  BY <1>4, SelectStartPreserves
<1>5. ASSUME NEW f \in Frames,
             \/ ArmSend(f) \/ ArmReceive(f) \/ ArmSleep(f)
             \/ SelectSuspend(f) \/ ImmediateWin(f)
      PROVE  Inductive'
  BY <1>5, ArmSendPreserves, ArmReceivePreserves, ArmSleepPreserves,
     SelectSuspendPreserves, ImmediateWinPreserves
<1>6. ASSUME NEW f \in Frames,
             \/ Resume(f) \/ SelectResume(f)
             \/ Yield(f) \/ Cancel(f) \/ Finish(f) \/ DropFrame(f)
      PROVE  Inductive'
  BY <1>6, ResumePreserves, SelectResumePreserves, YieldPreserves,
     CancelPreservesInductive, FinishPreserves, DropFramePreserves
<1>7. ASSUME NEW f \in Frames,
             \/ EnterDeadline(f) \/ ExitDeadline(f)
             \/ DeadlineFailure(f) \/ DeadlineExpire(f)
             \/ Poll(f)
      PROVE  Inductive'
  BY <1>7, EnterDeadlinePreserves, CancelPreservesInductive,
     DeadlineExpirePreserves, PollPreserves
<1>8. ASSUME NEW r \in Regs, TimerExpire(r)
      PROVE  Inductive'
  BY <1>8, TimerExpirePreserves
<1> QED
  BY <1>1, <1>2, <1>3, <1>4, <1>5, <1>6, <1>7, <1>8 DEF Next

\* Every reachable state of the channel runtime satisfies the inductive
\* invariant, for every program shape, capacity and number of tasks.
THEOREM InductiveHolds == Spec => []Inductive
BY InitInductive, NextInductive, PTL DEF Spec

\* try_send, promote_sender and ready_enqueue respect the capacities, and the
\* embedded registrations and tokens stay well formed.
THEOREM TypeCorrect == Spec => []TypeOK
BY InductiveHolds, PTL DEF Inductive

\* No interleaving of sends, closes, selects, cancellations, deadlines and
\* drops leaves a receiver linked on a channel that has a payload or is closed.
THEOREM NoReceiverLeftBehind == Spec => []ReceiversBlocked
BY InductiveHolds, PTL DEF Inductive

-----------------------------------------------------------------------------
(* The second part.  ChannelsInv says whose each registration is, and      *)
(* counts what every frame and registration holds of a control block: a    *)
(* count that was too low would destroy a ring with payloads in it.        *)
(* WakeInv says which frames the ready queue has, Decided what a select    *)
(* has seen of its arms, and OwnInv which ring, registration, frame or     *)
(* staged operand has each payload.                                        *)

\* Of any two members of a list one is in front of the other, and each is in
\* front of itself.
Ordered(q) == \A r, s \in Waiters(q) : <<r, s>> \in q \/ <<s, r>> \in q

\* q is the list of the registrations g that wait with op on c.
Links(q, g, op, c) ==
    /\ Waiters(q) = {r \in Regs : g[r].registered /\ g[r].op = op /\ g[r].chan = c}
    /\ Ordered(q)

\* The registrations of S that refer to c.
Uses(g, S, c) == {r \in S : g[r].active /\ g[r].chan = c}

Holders(h, c) == {f \in Frames : c \in h[f]}

\* The operation that registration r is embedded for.
Owns(r) ==
    \/ phase[r[1]] = "plain" /\ r[2] = 1 /\ ~reg[r].token
    \/ tok[r[1]].active /\ r[2] \in tok[r[1]].registered /\ reg[r].token

\* A registration in use is that of an operation, and while it is registered
\* nothing has decided the operation.
Tidy ==
    \A r \in Regs :
        /\ reg[r] # NoRegistration => Owns(r)
        /\ reg[r].registered => ~reg[r].ready /\ (reg[r].token => tok[r[1]].winner = 0)
        /\ reg[r].registered => (reg[r].active <=> reg[r].op # "sleep")

Linked ==
    \A c \in Channels : /\ Links(sendq[c], reg, "send", c)
                        /\ Links(recvq[c], reg, "receive", c)

Counted ==
    \A c \in Channels :
        refs[c] = Cardinality(Holders(handles, c)) + Cardinality(Uses(reg, Regs, c))

Gone == \A c \in Channels : refs[c] = 0 => buf[c] = <<>>

\* A frame keeps the channels of the select it starts.
ArmsHeld ==
    \A f \in Frames : phase[f] = "starting" =>
        \A a \in DOMAIN tok[f].shape :
            tok[f].shape[a].op = "sleep" \/ tok[f].shape[a].chan \in handles[f]

Settled == Tidy /\ Linked /\ Counted /\ ArmsHeld

ChannelsInv == Inductive /\ Settled /\ Gone /\ SendersBlocked

-----------------------------------------------------------------------------
(* Lists. *)

LEMMA InList ==
    ASSUME NEW q, NEW r, <<r, r>> \in q
    PROVE  r \in Waiters(q)
BY DEF Waiters

\* What is left of a list is ordered as it was.
LEMMA UnlinkLinks ==
    ASSUME NEW q \in SUBSET (Regs \X Regs), NEW g, NEW h, NEW op, NEW c, NEW gone,
           Links(q, g, op, c),
           \A r \in Regs : IF r \in gone THEN ~h[r].registered ELSE h[r] = g[r]
    PROVE  Links(Unlink(q, gone), h, op, c)
<1>1. \A r, s \in Waiters(q) \ gone : <<r, s>> \in q => <<r, s>> \in Unlink(q, gone)
  BY DEF Unlink
<1>2. Waiters(Unlink(q, gone)) = Waiters(q) \ gone
  BY <1>1, InList, UnlinkFacts DEF Links, Ordered
<1>3. Ordered(Unlink(q, gone))
  BY <1>1, <1>2 DEF Links, Ordered
<1> QED
  BY <1>2, <1>3 DEF Links

\* A new registration is linked behind the others.
LEMMA TailLinks ==
    ASSUME NEW q \in SUBSET (Regs \X Regs), NEW g, NEW h, NEW op, NEW c, NEW r \in Regs,
           Links(q, g, op, c), ~g[r].registered,
           h[r].registered /\ h[r].op = op /\ h[r].chan = c,
           \A s \in Regs \ {r} : h[s] = g[s]
    PROVE  Links(LinkTail(q, r), h, op, c)
BY LinkTailFacts DEF LinkTail, Links, Ordered

\* A list that the change does not concern.
LEMMA SameLinks ==
    ASSUME NEW q, NEW g, NEW h, NEW op, NEW c, NEW r \in Regs, Links(q, g, op, c),
           ~(g[r].registered /\ g[r].op = op /\ g[r].chan = c),
           ~(h[r].registered /\ h[r].op = op /\ h[r].chan = c),
           \A s \in Regs \ {r} : h[s] = g[s]
    PROVE  Links(q, h, op, c)
BY DEF Links

-----------------------------------------------------------------------------
(* Counts. *)

LEMMA UsesFinite ==
    ASSUME NEW g, NEW S \in SUBSET Regs, NEW c
    PROVE  IsFiniteSet(Uses(g, S, c)) /\ Cardinality(Uses(g, S, c)) \in Nat
BY RegsFinite, FS_Subset, FS_CardinalityType DEF Uses

LEMMA HoldersFinite ==
    ASSUME NEW h, NEW c
    PROVE  /\ IsFiniteSet(Holders(h, c)) /\ Cardinality(Holders(h, c)) \in Nat
           /\ (\E f \in Frames : c \in h[f]) => Cardinality(Holders(h, c)) >= 1
<1>1. Holders(h, c) \in SUBSET Frames
  BY DEF Holders
<1>2. IsFiniteSet(Holders(h, c)) /\ Cardinality(Holders(h, c)) \in Nat
  BY <1>1, FramesAssumption, FS_Subset, FS_CardinalityType
<1>3. (\E f \in Frames : c \in h[f]) => Holders(h, c) # {}
  BY DEF Holders
<1> QED
  BY <1>2, <1>3, FS_EmptySet

\* The registrations of lost no longer refer to a channel.
LEMMA UsesLess ==
    ASSUME NEW g, NEW h, NEW lost \in SUBSET Regs, NEW c,
           \A r \in Regs : IF r \in lost THEN ~h[r].active
                           ELSE h[r].active = g[r].active /\ h[r].chan = g[r].chan
    PROVE  Cardinality(Uses(h, Regs, c))
             = Cardinality(Uses(g, Regs, c)) - Cardinality(Uses(g, lost, c))
<1> DEFINE all == Uses(g, Regs, c)
           less == Uses(g, lost, c)
           rest == Uses(h, Regs, c)
<1>1. rest \cup less = all /\ rest \cap less = {}
  BY DEF Uses
<1>2. IsFiniteSet(rest) /\ IsFiniteSet(less)
  BY UsesFinite
<1>3. Cardinality(rest) \in Nat /\ Cardinality(less) \in Nat
  BY UsesFinite
<1> HIDE DEF all, less, rest
<1>4. Cardinality(all) = Cardinality(rest) + Cardinality(less)
  BY ONLY <1>1, <1>2, <1>3, FS_Union, FS_EmptySet
<1> QED
  BY <1>3, <1>4 DEF all, less, rest

\* Registration r refers to c from now on.
LEMMA UsesMore ==
    ASSUME NEW g, NEW h, NEW r \in Regs, NEW c, NEW d, ~g[r].active,
           h[r].active /\ h[r].chan = c,
           \A s \in Regs \ {r} : h[s].active = g[s].active /\ h[s].chan = g[s].chan
    PROVE  Cardinality(Uses(h, Regs, d))
             = Cardinality(Uses(g, Regs, d)) + IF d = c THEN 1 ELSE 0
<1>1. CASE d = c
  <2>1. Uses(h, Regs, d) = Uses(g, Regs, d) \cup {r} /\ r \notin Uses(g, Regs, d)
    BY <1>1 DEF Uses
  <2>2. IsFiniteSet(Uses(g, Regs, d)) /\ Cardinality(Uses(g, Regs, d)) \in Nat
    BY UsesFinite
  <2>3. Cardinality(Uses(g, Regs, d) \cup {r}) = Cardinality(Uses(g, Regs, d)) + 1
    BY <2>1, <2>2, FS_AddElement
  <2> QED
    BY <1>1, <2>1, <2>3
<1>2. CASE d # c
  <2>1. Uses(h, Regs, d) = Uses(g, Regs, d)
    BY <1>2 DEF Uses
  <2> QED
    BY <1>2, <2>1, UsesFinite
<1> QED
  BY <1>1, <1>2

\* A linked registration refers to its channel.
LEMMA LinkedUses ==
    ASSUME NEW q, NEW g, NEW op \in {"send", "receive"}, NEW c, Links(q, g, op, c), q # {},
           \A r \in Regs : g[r].registered => (g[r].active <=> g[r].op # "sleep")
    PROVE  Cardinality(Uses(g, Regs, c)) >= 1
<1>1. PICK r \in Waiters(q) : TRUE
  BY NoWaiters
<1>2. r \in Uses(g, Regs, c)
  BY <1>1 DEF Links, Uses
<1>3. IsFiniteSet(Uses(g, Regs, c)) /\ Cardinality(Uses(g, Regs, c)) \in Nat
  BY UsesFinite
<1> QED
  BY <1>2, <1>3, FS_EmptySet

\* What is left of the count of c when the registrations of `lost` and `less`
\* more references are released.
Left(lost, less, c) == refs[c] - Cardinality(Uses(reg, lost, c)) - less[c]

LEMMA Released ==
    ASSUME NEW lost \in SUBSET Regs, NEW less, NEW ring, NEW freed,
           Release(lost, less, ring, freed), NEW c \in Channels,
           Left(lost, less, c) \in Nat
    PROVE  /\ refs'[c] = Left(lost, less, c)
           /\ buf'[c] = IF refs[c] > 0 /\ Left(lost, less, c) = 0 THEN <<>> ELSE ring[c]
<1> DEFINE left == [d \in Channels |-> refs[d] - ReferencesOf(lost, d) - less[d]]
           n == Left(lost, less, c)
<1>1. left[c] = n /\ n \in Nat
  BY DEF ReferencesOf, Uses, Left
<1>2. /\ refs' = [d \in Channels |-> IF left[d] <= 0 THEN 0 ELSE left[d]]
      /\ buf' = [d \in Channels |-> IF d \in {e \in Channels : refs[e] > 0 /\ left[e] <= 0}
                                    THEN <<>> ELSE ring[d]]
  BY DEF Release
<1> HIDE DEF left, n
<1>3. refs'[c] = n /\ buf'[c] = IF refs[c] > 0 /\ n = 0 THEN <<>> ELSE ring[c]
  BY <1>1, <1>2
<1> QED
  BY <1>3 DEF n

-----------------------------------------------------------------------------
(* Deliveries. *)

\* won are outcomes of registered operations, one for each select.
Winners(won) ==
    /\ DOMAIN won \subseteq Regs
    /\ \A r \in DOMAIN won :
          /\ reg[r].registered /\ ~won[r].registered
          /\ won[r].active = reg[r].active /\ won[r].chan = reg[r].chan
          /\ won[r].token = reg[r].token
    /\ \A r, s \in DOMAIN won : reg[r].token /\ r[1] = s[1] => r = s

\* What becomes of channel c when references are released and its ring is to
\* become `ring`.
After(c, ring) ==
    /\ refs'[c] \in Nat /\ refs'[c] <= refs[c]
    /\ buf'[c] = IF refs[c] > 0 /\ refs'[c] = 0 THEN <<>> ELSE ring[c]
    /\ sendq'[c] \subseteq sendq[c]

\* References that are released were counted: the registrations of `lost` are
\* no longer in use, and `less` handles are no longer held.
Balanced(lost, less, c) ==
    /\ less[c] \in Nat
    /\ Cardinality(Holders(handles', c)) + Cardinality(Uses(reg', Regs, c)) + less[c]
         = (Cardinality(Holders(handles, c)) + Cardinality(Uses(reg, Regs, c)))
             - Cardinality(Uses(reg, lost, c))

LEMMA ReleasedCounted ==
    ASSUME TypeOK, Counted, NEW lost \in SUBSET Regs, NEW less, NEW ring, NEW freed,
           Release(lost, less, ring, freed), NEW c \in Channels,
           Balanced(lost, less, c)
    PROVE  /\ refs'[c] = Cardinality(Holders(handles', c)) + Cardinality(Uses(reg', Regs, c))
           /\ refs'[c] \in Nat /\ refs'[c] <= refs[c]
           /\ buf'[c] = IF refs[c] > 0 /\ refs'[c] = 0 THEN <<>> ELSE ring[c]
<1> DEFINE n1 == Cardinality(Holders(handles', c))
           n2 == Cardinality(Uses(reg', Regs, c))
           h == Cardinality(Holders(handles, c))
           u == Cardinality(Uses(reg, Regs, c))
           lose == Cardinality(Uses(reg, lost, c))
           old == refs[c]
           d == less[c]
<1>1. n1 \in Nat /\ n2 \in Nat /\ h \in Nat /\ u \in Nat /\ lose \in Nat
  BY HoldersFinite, UsesFinite
<1>2. old \in Nat /\ d \in Nat /\ old = h + u /\ n1 + n2 + d = (h + u) - lose
  BY DEF Counted, TypeOK, Balanced
<1>3. Left(lost, less, c) = old - lose - d
  BY DEF Left
<1> HIDE DEF n1, n2, h, u, lose, old, d
<1>4. /\ Left(lost, less, c) = n1 + n2 /\ Left(lost, less, c) \in Nat
      /\ Left(lost, less, c) <= old
  BY <1>1, <1>2, <1>3
<1>5. /\ refs'[c] = Left(lost, less, c)
      /\ buf'[c] = IF refs[c] > 0 /\ Left(lost, less, c) = 0 THEN <<>> ELSE ring[c]
  BY <1>4, Released
<1> QED
  BY <1>4, <1>5 DEF n1, n2, old

LEMMA DeliverSettles ==
    ASSUME Inductive, Settled, NoArmStarts, handles' = handles,
           NEW won, Winners(won), NEW stale \in SUBSET Regs, NEW wake, NEW ring,
           Deliver(won, stale, wake, ring)
    PROVE  Settled' /\ \A c \in Channels : After(c, ring)
<1> DEFINE lost == UNION {Losers(r) : r \in DOMAIN won}
           gone == DOMAIN won \cup stale \cup lost
           claims(f) == \E a \in Arms : <<f, a>> \in DOMAIN won
                                           /\ reg[<<f, a>>].token
           arm(f) == CHOOSE a \in Arms : <<f, a>> \in DOMAIN won
<1>1. TypeOK /\ TokenDiscipline /\ Tidy /\ Linked /\ Counted /\ ArmsHeld
  BY DEF Inductive, Settled
<1>2. /\ reg' = [r \in Regs |->
                    IF r \in lost THEN NoRegistration
                    ELSE IF r \in DOMAIN won THEN won[r]
                    ELSE IF r \in stale
                    THEN [reg[r] EXCEPT !.registered = FALSE]
                    ELSE reg[r]]
      /\ sendq' = [c \in Channels |-> Unlink(sendq[c], gone)]
      /\ recvq' = [c \in Channels |-> Unlink(recvq[c], gone)]
      /\ tok' = [f \in Frames |-> IF claims(f) THEN ClaimedToken(f, arm(f))
                                               ELSE tok[f]]
      /\ Release(lost, Nothing, ring, {})
  BY DEF Deliver
<1>3. lost \in SUBSET Regs
  <2> SUFFICES ASSUME NEW r \in DOMAIN won PROVE Losers(r) \subseteq Regs
    OBVIOUS
  <2>1. r \in Regs /\ r[1] \in Frames /\ tok[r[1]].registered \subseteq Arms
    BY <1>1 DEF TypeOK, Regs, Tokens, Winners
  <2> QED
    BY <2>1 DEF Losers, Regs
<1>4. \A r \in DOMAIN won : Losers(r) \subseteq lost
  OBVIOUS
<1>5. \A r \in Regs : /\ [reg[r] EXCEPT !.registered = FALSE].token = reg[r].token
                      /\ [reg[r] EXCEPT !.registered = FALSE].active = reg[r].active
                      /\ [reg[r] EXCEPT !.registered = FALSE].chan = reg[r].chan
                      /\ ~[reg[r] EXCEPT !.registered = FALSE].registered
                      /\ reg[r] = NoRegistration =>
                           [reg[r] EXCEPT !.registered = FALSE] = NoRegistration
  <2> SUFFICES ASSUME NEW x \in Registrations
               PROVE  /\ [x EXCEPT !.registered = FALSE].token = x.token
                      /\ [x EXCEPT !.registered = FALSE].active = x.active
                      /\ [x EXCEPT !.registered = FALSE].chan = x.chan
                      /\ ~[x EXCEPT !.registered = FALSE].registered
                      /\ x = NoRegistration =>
                           [x EXCEPT !.registered = FALSE] = NoRegistration
    BY <1>1 DEF TypeOK
  <2>1. /\ [x EXCEPT !.registered = FALSE].token = x.token
        /\ [x EXCEPT !.registered = FALSE].active = x.active
        /\ [x EXCEPT !.registered = FALSE].chan = x.chan
        /\ ~[x EXCEPT !.registered = FALSE].registered
    BY DEF Registrations
  <2>2. ~x.registered => [x EXCEPT !.registered = FALSE] = x
    BY DEF Registrations
  <2>3. x = NoRegistration => ~x.registered
    BY DEF NoRegistration
  <2> QED
    BY <2>1, <2>2, <2>3
<1>6. ~NoRegistration.registered /\ ~NoRegistration.active
  BY DEF NoRegistration
<1>7. gone = DOMAIN won \cup stale \cup lost /\ DOMAIN won \subseteq Regs
  BY DEF Winners
<1>8. ASSUME NEW f \in Frames, NEW a \in Arms, <<f, a>> \in DOMAIN won, reg[<<f, a>>].token
      PROVE  /\ tok'[f].active = tok[f].active /\ tok'[f].registered = tok[f].registered \cap {a}
             /\ tok[f].active /\ a \in tok[f].registered
             /\ \A b \in tok[f].registered \ {a} : <<f, b>> \in lost
  <2>1. arm(f) \in Arms /\ <<f, arm(f)>> \in DOMAIN won
    BY <1>8
  <2>2. arm(f) = a
    BY <1>8, <2>1 DEF Winners
  <2>3. claims(f) /\ tok[f] \in Tokens
    BY <1>1, <1>8 DEF TypeOK
  <2>4. tok'[f] = ClaimedToken(f, a)
    BY <1>2, <2>2, <2>3
  <2>5. /\ ClaimedToken(f, a).active = tok[f].active
        /\ ClaimedToken(f, a).registered = tok[f].registered \cap {a}
    BY <2>3 DEF ClaimedToken, Tokens
  <2>6. Owns(<<f, a>>)
    BY <1>8, <1>1, <1>6 DEF Regs, Winners, Tidy
  <2>7. \A b \in tok[f].registered \ {a} : <<f, b>> \in Losers(<<f, a>>)
    BY <1>8 DEF Losers
  <2> QED
    BY <1>4, <1>8, <2>4, <2>5, <2>6, <2>7 DEF Owns
<1>9. \A f \in Frames : ~claims(f) => tok'[f] = tok[f]
  BY <1>2
<1>10. \A f \in Frames : /\ tok'[f].shape = tok[f].shape
  <2> TAKE f \in Frames
  <2>1. CASE claims(f)
    BY <2>1, <1>1, <1>2, ClaimedTokenFacts
  <2> QED
    BY <1>9, <2>1
<1> HIDE DEF lost, gone, claims, arm
<1>11. \A f \in Frames : /\ phase[f] = "plain" => phase'[f] = "plain"
                         /\ phase'[f] = "starting" => phase[f] = "starting"
  BY <1>1 DEF TypeOK, NoArmStarts
<1>12. Tidy'
  <2> SUFFICES ASSUME NEW r \in Regs
               PROVE  /\ reg'[r] # NoRegistration => Owns(r)'
                      /\ reg'[r].registered => /\ ~reg'[r].ready
                                               /\ reg'[r].token => tok'[r[1]].winner = 0
                      /\ reg'[r].registered => (reg'[r].active <=> reg'[r].op # "sleep")
    BY DEF Tidy
  <2>1. r = <<r[1], r[2]>> /\ r[1] \in Frames /\ r[2] \in Arms
    BY DEF Regs
  <2>2. CASE r \in lost
    BY <1>2, <1>6, <2>2
  <2>3. CASE r \in DOMAIN won /\ r \notin lost
    <3>1. reg'[r] = won[r]
      BY <1>2, <2>3
    <3>2. ~won[r].registered /\ won[r].token = reg[r].token /\ Owns(r)
      BY <1>1, <1>6, <2>3 DEF Winners, Tidy
    <3>3. CASE reg[r].token
      BY <1>8, <2>1, <2>3, <3>3, <3>1, <3>2 DEF Owns
    <3>4. CASE ~reg[r].token
      BY <1>11, <2>1, <3>1, <3>2, <3>4 DEF Owns
    <3> QED
      BY <3>3, <3>4
  <2>4. CASE r \notin DOMAIN won /\ r \notin lost
    <3>1. /\ reg'[r].token = reg[r].token
          /\ reg'[r] # NoRegistration => reg[r] # NoRegistration
          /\ reg'[r].registered => reg[r].registered /\ reg'[r] = reg[r]
      BY <1>2, <1>5, <2>4
    <3>2. CASE reg[r] = NoRegistration
      BY <1>6, <3>1, <3>2
    <3>3. CASE reg[r] # NoRegistration /\ ~reg[r].token
      BY <1>1, <3>3, <1>11, <2>1, <3>1 DEF Tidy, Owns
    <3>4. CASE reg[r] # NoRegistration /\ reg[r].token
      <4>1. Owns(r)
        BY <1>1, <3>4 DEF Tidy
      <4>2. ~claims(r[1])
        <5> SUFFICES ASSUME claims(r[1]) PROVE FALSE
          OBVIOUS
        <5>1. PICK a \in Arms : <<r[1], a>> \in DOMAIN won /\ reg[<<r[1], a>>].token
          BY DEF claims
        <5>2. r[2] \in tok[r[1]].registered \ {a}
          BY <2>1, <2>4, <3>4, <4>1, <5>1 DEF Owns
        <5> QED
          BY <1>8, <2>1, <2>4, <5>1, <5>2
      <4>3. tok'[r[1]] = tok[r[1]]
        BY <1>9, <2>1, <4>2
      <4> QED
        BY <1>1, <3>1, <3>4, <4>1, <4>3 DEF Owns, Tidy
    <3> QED
      BY <3>2, <3>3, <3>4
  <2> QED
    BY <2>2, <2>3, <2>4
<1>13. \A r \in Regs : IF r \in gone THEN ~reg'[r].registered ELSE reg'[r] = reg[r]
  BY <1>2, <1>5, <1>6, <1>7 DEF Winners
<1>14. Linked'
  <2> SUFFICES ASSUME NEW c \in Channels
               PROVE  Links(sendq'[c], reg', "send", c) /\ Links(recvq'[c], reg', "receive", c)
    BY DEF Linked
  <2>1. sendq[c] \in SUBSET (Regs \X Regs) /\ recvq[c] \in SUBSET (Regs \X Regs)
    BY <1>1 DEF TypeOK
  <2>2. Links(sendq[c], reg, "send", c) /\ Links(recvq[c], reg, "receive", c)
    BY <1>1 DEF Linked
  <2>3. Links(Unlink(sendq[c], gone), reg', "send", c)
    BY <1>13, <2>1, <2>2, UnlinkLinks
  <2>4. Links(Unlink(recvq[c], gone), reg', "receive", c)
    BY <1>13, <2>1, <2>2, UnlinkLinks
  <2> QED
    BY <1>2, <2>3, <2>4
<1>15. ASSUME NEW c \in Channels
       PROVE  /\ refs'[c] = Cardinality(Holders(handles', c)) + Cardinality(Uses(reg', Regs, c))
              /\ After(c, ring)
  <2>1. \A r \in Regs : IF r \in lost THEN ~reg'[r].active
                        ELSE reg'[r].active = reg[r].active /\ reg'[r].chan = reg[r].chan
    BY <1>2, <1>5, <1>6 DEF Winners
  <2>2. Cardinality(Uses(reg', Regs, c))
          = Cardinality(Uses(reg, Regs, c)) - Cardinality(Uses(reg, lost, c))
    BY <1>3, <2>1, UsesLess
  <2>3. /\ Nothing[c] = 0 /\ Nothing[c] \in Nat /\ handles' = handles
        /\ Cardinality(Holders(handles, c)) \in Nat /\ Cardinality(Uses(reg', Regs, c)) \in Nat
        /\ Cardinality(Uses(reg, Regs, c)) \in Nat /\ Cardinality(Uses(reg, lost, c)) \in Nat
    BY <1>3, HoldersFinite, UsesFinite DEF Nothing
  <2>4. Balanced(lost, Nothing, c)
    BY <2>2, <2>3 DEF Balanced
  <2>5. /\ refs'[c] = Cardinality(Holders(handles', c)) + Cardinality(Uses(reg', Regs, c))
        /\ refs'[c] \in Nat /\ refs'[c] <= refs[c]
        /\ buf'[c] = IF refs[c] > 0 /\ refs'[c] = 0 THEN <<>> ELSE ring[c]
    BY <1>1, <1>2, <1>3, <2>3, <2>4, ReleasedCounted
  <2>6. sendq'[c] \subseteq sendq[c]
    BY <1>2 DEF Unlink
  <2> QED
    BY <2>5, <2>6 DEF After
<1>16. Counted'
  BY <1>15 DEF Counted
<1>17. ArmsHeld'
  BY <1>1, <1>10, <1>11 DEF ArmsHeld
<1> QED
  BY <1>12, <1>14, <1>15, <1>16, <1>17 DEF Settled

-----------------------------------------------------------------------------
(* The ring and the history of one channel. *)

\* What a step leaves of channel c, and what it is to FifoChannels.
Kept(c) ==
    /\ refs'[c] = 0 => buf'[c] = <<>>
    /\ sendq'[c] # {} => Len(buf'[c]) = Capacity[c] /\ ~closed'[c]
    /\ \/ Fifo!Accept(c) \/ Fifo!Take(c) \/ Fifo!Close(c)
       \/ Fifo!Destroy(c) \/ Fifo!Stays(c)

\* Every step of the runtime does this.
Advances == Settled' /\ Gone' /\ SendersBlocked' /\ Fifo!Next

LEMMA KeptAdvances ==
    ASSUME Settled', \A c \in Channels : Kept(c)
    PROVE  Advances
BY DEF Advances, Kept, Gone, SendersBlocked, Fifo!Next

\* A channel that a frame holds a handle to is alive.
LEMMA HeldLives ==
    ASSUME TypeOK, Counted, NEW f \in Frames, NEW c \in handles[f]
    PROVE  c \in Channels /\ refs[c] \in Nat /\ refs[c] >= 1
<1>1. c \in Channels
  BY DEF TypeOK
<1>2. Cardinality(Holders(handles, c)) \in Nat /\ Cardinality(Holders(handles, c)) >= 1
  BY HoldersFinite
<1>3. Cardinality(Uses(reg, Regs, c)) \in Nat
  BY UsesFinite
<1>4. refs[c] = Cardinality(Holders(handles, c)) + Cardinality(Uses(reg, Regs, c))
  BY <1>1 DEF Counted
<1> QED
  BY <1>1, <1>2, <1>3, <1>4

\* Waiters keep a channel alive.
LEMMA WaitersLive ==
    ASSUME NEW q, NEW g, NEW h, NEW op \in {"send", "receive"}, NEW c, NEW n,
           Links(q, g, op, c), q # {},
           \A r \in Regs : g[r].registered => (g[r].active <=> g[r].op # "sleep"),
           n = Cardinality(Holders(h, c)) + Cardinality(Uses(g, Regs, c))
    PROVE  n # 0
<1>1. Cardinality(Uses(g, Regs, c)) >= 1
  BY LinkedUses
<1>2. Cardinality(Holders(h, c)) \in Nat /\ Cardinality(Uses(g, Regs, c)) \in Nat
  BY HoldersFinite, UsesFinite
<1> QED
  BY <1>1, <1>2

\* A channel that is not operated on keeps its ring or is destroyed.
LEMMA Rests ==
    ASSUME TypeOK, Gone, SendersBlocked, Settled', NEW c \in Channels, After(c, buf),
           closed'[c] = closed[c], delivered'[c] = delivered[c]
    PROVE  Kept(c)
<1>1. /\ refs[c] \in Nat /\ refs'[c] \in Nat /\ refs'[c] <= refs[c]
      /\ buf'[c] = IF refs[c] > 0 /\ refs'[c] = 0 THEN <<>> ELSE buf[c]
      /\ sendq'[c] \subseteq sendq[c]
      /\ refs[c] = 0 => buf[c] = <<>>
      /\ sendq[c] # {} => Len(buf[c]) = Capacity[c] /\ ~closed[c]
      /\ delivered[c] \in Seq(Values)
  BY DEF After, Gone, SendersBlocked, TypeOK
<1>2. sendq'[c] # {} => refs'[c] # 0
  <2>1. /\ Links(sendq'[c], reg', "send", c)
        /\ \A r \in Regs : reg'[r].registered => (reg'[r].active <=> reg'[r].op # "sleep")
        /\ refs'[c] = Cardinality(Holders(handles', c)) + Cardinality(Uses(reg', Regs, c))
    BY DEF Settled, Linked, Tidy, Counted
  <2> QED
    BY <2>1, WaitersLive
<1>3. refs'[c] = 0 => buf'[c] = <<>>
  BY <1>1
<1>4. sendq'[c] # {} => Len(buf'[c]) = Capacity[c] /\ ~closed'[c]
  BY <1>1, <1>2
<1>5. CASE refs[c] > 0 /\ refs'[c] = 0
  <2> DEFINE d == delivered[c]
  <2>1. buf'[c] = <<>> /\ refs[c] # 0 /\ refs'[c] = 0 /\ delivered'[c] = d
    BY <1>1, <1>5
  <2>2. d \in Seq(Values)
    BY <1>1
  <2> HIDE DEF d
  <2>3. d \o <<>> = d
    BY <2>2, ConcatEmptySeq
  <2>4. delivered'[c] \o buf'[c] = d
    BY <2>1, <2>3
  <2>5. Fifo!Destroy(c)
    BY <2>1, <2>4 DEF Fifo!Destroy, d
  <2> QED
    BY <1>3, <1>4, <2>5 DEF Kept
<1>6. CASE ~(refs[c] > 0 /\ refs'[c] = 0)
  <2>1. buf'[c] = buf[c] /\ (refs'[c] = 0 <=> refs[c] = 0)
    BY <1>1, <1>6
  <2>2. Fifo!Stays(c)
    BY <2>1 DEF Fifo!Stays
  <2> QED
    BY <1>3, <1>4, <2>2 DEF Kept
<1> QED
  BY <1>5, <1>6

-----------------------------------------------------------------------------
(* Histories. *)

\* What is accepted and delivered in a ring that is popped and refilled.
LEMMA Histories ==
    ASSUME NEW d \in Seq(Values), NEW b \in Seq(Values)
    PROVE  /\ d \o <<>> = d /\ d \o b \in Seq(Values)
           /\ Len(d \o b) = Len(d) + Len(b)
           /\ \A v \in Values : d \o Append(b, v) = Append(d \o b, v)
           /\ b # <<>> =>
                 /\ Head(b) \in Values /\ Tail(b) \in Seq(Values)
                 /\ Len(b) > 0 /\ Len(Tail(b)) = Len(b) - 1
                 /\ Append(d, Head(b)) \o Tail(b) = d \o b
                 /\ (d \o b)[Len(d) + 1] = Head(b)
                 /\ \A v \in Values : Append(d \o b, v)[Len(d) + 1] = Head(b)
<1>1. d \o <<>> = d /\ d \o b \in Seq(Values) /\ Len(d \o b) = Len(d) + Len(b)
  BY ConcatEmptySeq
<1>2. \A v \in Values : d \o Append(b, v) = Append(d \o b, v)
  OBVIOUS
<1>3. ASSUME b # <<>>
      PROVE  /\ Head(b) \in Values /\ Tail(b) \in Seq(Values)
             /\ Len(b) > 0 /\ Len(Tail(b)) = Len(b) - 1
             /\ Append(d, Head(b)) \o Tail(b) = d \o b
             /\ (d \o b)[Len(d) + 1] = Head(b)
             /\ \A v \in Values : Append(d \o b, v)[Len(d) + 1] = Head(b)
  BY <1>3
<1> QED
  BY <1>1, <1>2, <1>3

\* The steps of FifoChannels on one channel, in terms of ring and history.
LEMMA Accepts ==
    ASSUME NEW c \in Channels, ~closed[c], closed' = closed,
           refs[c] # 0, refs'[c] # 0,
           delivered[c] \in Seq(Values), delivered'[c] \in Seq(Values),
           buf[c] \in Seq(Values), buf'[c] \in Seq(Values),
           Len(buf'[c]) <= Capacity[c],
           NEW v \in Values, delivered'[c] \o buf'[c] = Append(delivered[c] \o buf[c], v),
           \/ delivered'[c] = delivered[c]
           \/ delivered'[c] = Append(delivered[c],
                                     (delivered'[c] \o buf'[c])[Len(delivered[c]) + 1])
    PROVE  Fifo!Accept(c)
<1> DEFINE d == delivered'[c]
           b == buf'[c]
           room == Capacity[c]
<1>1. d \in Seq(Values) /\ b \in Seq(Values) /\ Len(b) <= room /\ room \in Nat
  BY CapacityAssumption
<1> HIDE DEF d, b, room
<1>2. Len(d \o b) = Len(d) + Len(b) /\ Len(d) \in Nat /\ Len(b) \in Nat
  BY <1>1, Histories
<1>3. Len(d \o b) - Len(d) <= room
  BY <1>1, <1>2
<1>4. Len(delivered'[c] \o buf'[c]) - Len(delivered'[c]) <= Capacity[c]
  BY <1>3 DEF d, b, room
<1> QED
  BY <1>4 DEF Fifo!Accept, Fifo!Deliver

LEMMA Takes ==
    ASSUME NEW c \in Channels, closed' = closed, refs[c] # 0, refs'[c] # 0,
           delivered[c] \in Seq(Values), buf[c] \in Seq(Values), buf[c] # <<>>,
           buf'[c] = Tail(buf[c]), delivered'[c] = Append(delivered[c], Head(buf[c]))
    PROVE  Fifo!Take(c)
<1> DEFINE d == delivered[c]
           b == buf[c]
<1>1. d \in Seq(Values) /\ b \in Seq(Values) /\ b # <<>>
  OBVIOUS
<1>2. buf'[c] = Tail(b) /\ delivered'[c] = Append(d, Head(b))
  OBVIOUS
<1> HIDE DEF d, b
<1>3. /\ Append(d, Head(b)) \o Tail(b) = d \o b /\ (d \o b)[Len(d) + 1] = Head(b)
      /\ Len(d \o b) = Len(d) + Len(b) /\ Len(b) > 0
      /\ Len(d) \in Nat /\ Len(b) \in Nat
  BY ONLY <1>1, Histories
<1>4. Len(d) < Len(d \o b)
  BY <1>3
<1>5. /\ delivered'[c] \o buf'[c] = delivered[c] \o buf[c]
      /\ delivered'[c] = Append(delivered[c],
                                (delivered'[c] \o buf'[c])[Len(delivered[c]) + 1])
      /\ Len(delivered[c]) < Len(delivered[c] \o buf[c])
  BY <1>2, <1>3, <1>4 DEF d, b
<1> QED
  BY <1>5 DEF Fifo!Take, Fifo!Deliver

-----------------------------------------------------------------------------
(* The successful outcomes of try_send and try_receive. *)

LEMMA NoneWins == Winners(NoWinner)
BY NoWinnerFacts DEF Winners

LEMMA OneWins ==
    ASSUME NEW r \in Regs, NEW x, reg[r].registered, ~x.registered,
           x.active = reg[r].active, x.chan = reg[r].chan, x.token = reg[r].token
    PROVE  Winners([y \in {r} |-> x])
BY DEF Winners

\* What an outcome keeps of a registration.
LEMMA OutcomeFacts ==
    ASSUME TypeOK, NEW r \in Regs, reg[r].registered
    PROVE  /\ \A v : Winners([y \in {r} |-> HandedTo(r, v)])
           /\ Winners([y \in {r} |-> Promoted(r)])
           /\ Winners([y \in {r} |-> Expired(r)])
           /\ ~ClosedOn(r).registered /\ ClosedOn(r).active = reg[r].active
           /\ ClosedOn(r).chan = reg[r].chan /\ ClosedOn(r).token = reg[r].token
<1>1. reg[r] \in Registrations
  BY DEF TypeOK
<1>2. \A v : /\ ~HandedTo(r, v).registered /\ HandedTo(r, v).active = reg[r].active
             /\ HandedTo(r, v).chan = reg[r].chan /\ HandedTo(r, v).token = reg[r].token
  BY <1>1 DEF HandedTo, Registrations
<1>3. /\ ~Promoted(r).registered /\ Promoted(r).active = reg[r].active
      /\ Promoted(r).chan = reg[r].chan /\ Promoted(r).token = reg[r].token
  BY <1>1 DEF Promoted, Registrations
<1>4. /\ ~Expired(r).registered /\ Expired(r).active = reg[r].active
      /\ Expired(r).chan = reg[r].chan /\ Expired(r).token = reg[r].token
  BY <1>1 DEF Expired, Registrations
<1>5. /\ ~ClosedOn(r).registered /\ ClosedOn(r).active = reg[r].active
      /\ ClosedOn(r).chan = reg[r].chan /\ ClosedOn(r).token = reg[r].token
  BY <1>1 DEF ClosedOn, Registrations
<1> QED
  BY <1>2, <1>3, <1>4, <1>5, OneWins

\* A linked waiter is registered, and nothing behind the stale ones is lost.
LEMMA WaiterFacts ==
    ASSUME TypeOK, Linked, NEW c \in Channels
    PROVE  /\ \A r \in Waiters(sendq[c]) \cup Waiters(recvq[c]) :
                 r \in Regs /\ reg[r].registered
           /\ \A S, r : IsHead(Unlink(recvq[c], S), r) => r \in Waiters(recvq[c])
           /\ \A S, r : IsHead(Unlink(sendq[c], S), r) => r \in Waiters(sendq[c])
<1>1. sendq[c] \in SUBSET (Regs \X Regs) /\ recvq[c] \in SUBSET (Regs \X Regs)
  BY DEF TypeOK
<1>2. \A S : /\ Waiters(Unlink(recvq[c], S)) \subseteq Waiters(recvq[c])
             /\ Waiters(Unlink(sendq[c], S)) \subseteq Waiters(sendq[c])
  BY <1>1, UnlinkFacts
<1>3. \A r \in Waiters(sendq[c]) \cup Waiters(recvq[c]) :
         r \in Regs /\ reg[r].registered
  BY DEF Linked, Links
<1> QED
  BY <1>2, <1>3 DEF IsHead

\* A delivery on channel c, which frame f holds, leaves the others alone.
LEMMA DeliveryRests ==
    ASSUME ChannelsInv, NoArmStarts, handles' = handles, closed' = closed,
           NEW f \in Frames, NEW c \in handles[f],
           NEW won, Winners(won), NEW stale \in SUBSET Regs, NEW wake, NEW ring,
           \A d \in Channels \ {c} : ring[d] = buf[d] /\ delivered'[d] = delivered[d],
           Deliver(won, stale, wake, ring)
    PROVE  /\ Settled' /\ \A d \in Channels \ {c} : Kept(d)
           /\ c \in Channels /\ refs[c] # 0 /\ refs'[c] # 0
           /\ buf'[c] = ring[c] /\ sendq'[c] \subseteq sendq[c]
<1>1. TypeOK /\ Gone /\ SendersBlocked /\ Settled /\ Inductive /\ Counted
  BY DEF ChannelsInv, Inductive, Settled
<1>2. Settled' /\ \A d \in Channels : After(d, ring)
  BY <1>1, DeliverSettles
<1>3. ASSUME NEW d \in Channels \ {c} PROVE Kept(d)
  BY <1>2, <1>1, Rests DEF After
<1>4. c \in Channels /\ refs[c] \in Nat /\ refs[c] >= 1
  BY <1>1, HeldLives
<1>5. refs'[c] # 0
  BY <1>2, <1>4, HoldersFinite, UsesFinite DEF Settled, Counted
<1> QED
  BY <1>2, <1>3, <1>4, <1>5 DEF After

\* A payload handed to a waiting receiver is accepted and delivered at once:
\* the ring is empty.
LEMMA HandOffAdvances ==
    ASSUME ChannelsInv, NoArmStarts, handles' = handles, closed' = closed,
           NEW f \in Frames, NEW c \in handles[f], NEW v \in Values, HandOff(c, v)
    PROVE  Advances
<1>1. TypeOK /\ Linked /\ ReceiversBlocked /\ SendersBlocked /\ c \in Channels
  BY DEF ChannelsInv, Settled, Inductive, TypeOK
<1>2. PICK r \in Regs :
         /\ ~closed[c] /\ IsHead(Unlink(recvq[c], Stale(recvq[c])), r)
         /\ Deliver([x \in {r} |-> HandedTo(r, v)], Stale(recvq[c]),
                    WakeOf(r), buf)
         /\ delivered' = [delivered EXCEPT ![c] = Append(@, v)]
  BY DEF HandOff
<1>3. r \in Waiters(recvq[c]) /\ reg[r].registered
  BY <1>1, <1>2, WaiterFacts
<1>4. buf[c] = <<>>
  BY <1>1, <1>3, NoWaiters DEF ReceiversBlocked
<1>5. Winners([x \in {r} |-> HandedTo(r, v)])
  BY <1>1, <1>3, OutcomeFacts
<1>6. Stale(recvq[c]) \in SUBSET Regs
  BY <1>1, StaleFacts DEF TypeOK
<1>7. \A d \in Channels \ {c} : delivered'[d] = delivered[d]
  BY <1>1, <1>2 DEF TypeOK
<1>8. /\ Settled' /\ \A d \in Channels \ {c} : Kept(d)
      /\ refs[c] # 0 /\ refs'[c] # 0
      /\ buf'[c] = buf[c] /\ sendq'[c] \subseteq sendq[c]
  <2> DEFINE won == [x \in {r} |-> HandedTo(r, v)]
             wake == WakeOf(r)
             stale == Stale(recvq[c])
  <2>1. /\ Winners(won) /\ Deliver(won, stale, wake, buf) /\ stale \in SUBSET Regs
        /\ \A d \in Channels \ {c} : buf[d] = buf[d] /\ delivered'[d] = delivered[d]
    BY <1>2, <1>5, <1>6, <1>7
  <2> HIDE DEF won, wake, stale
  <2>2. /\ Settled' /\ \A d \in Channels \ {c} : Kept(d)
        /\ c \in Channels /\ refs[c] # 0 /\ refs'[c] # 0
        /\ buf'[c] = buf[c] /\ sendq'[c] \subseteq sendq[c]
    BY ONLY <2>1, ChannelsInv, NoArmStarts, handles' = handles,
            closed' = closed, f \in Frames, c \in handles[f], DeliveryRests
  <2> QED
    BY <2>2
<1> DEFINE d == delivered[c]
<1>9. d \in Seq(Values) /\ delivered'[c] = Append(d, v)
  BY <1>1, <1>2 DEF TypeOK
<1> HIDE DEF d
<1>10. /\ d \o <<>> = d /\ Append(d, v) \in Seq(Values)
       /\ Append(d, v) \o <<>> = Append(d, v) /\ Append(d, v)[Len(d) + 1] = v
  BY <1>9, ConcatEmptySeq, AppendProperties
<1>11. Kept(c)
  <2>1. sendq[c] = {}
    BY <1>1, <1>4, CapacityAssumption DEF SendersBlocked
  <2>2. /\ delivered[c] = d /\ buf[c] = <<>> /\ buf'[c] = <<>>
        /\ delivered'[c] \o buf'[c] = Append(delivered[c] \o buf[c], v)
        /\ delivered'[c] = Append(delivered[c],
                                  (delivered'[c] \o buf'[c])[Len(delivered[c]) + 1])
    BY <1>4, <1>8, <1>9, <1>10 DEF d
  <2>3. Len(<<>>) <= Capacity[c] /\ <<>> \in Seq(Values)
    BY <1>1, CapacityAssumption
  <2>4. Fifo!Accept(c)
    BY <1>1, <1>2, <1>8, <1>9, <1>10, <2>2, <2>3, Accepts
  <2> QED
    BY <1>8, <2>1, <2>4 DEF Kept
<1> QED
  BY <1>8, <1>11, KeptAdvances

\* A payload that goes to the tail of the ring.
LEMMA PutInRingAdvances ==
    ASSUME ChannelsInv, NoArmStarts, handles' = handles, closed' = closed,
           NEW f \in Frames, NEW c \in handles[f], NEW v \in Values, PutInRing(c, v)
    PROVE  Advances
<1> DEFINE ring == [buf EXCEPT ![c] = Append(@, v)]
<1>1. TypeOK /\ SendersBlocked /\ c \in Channels
  BY DEF ChannelsInv, Inductive, TypeOK
<1>2. /\ ~closed[c] /\ Len(buf[c]) < Capacity[c]
      /\ Deliver(NoWinner, Stale(recvq[c]), <<>>, ring)
      /\ delivered' = delivered
  BY DEF PutInRing
<1>3. Stale(recvq[c]) \in SUBSET Regs
  BY <1>1, StaleFacts DEF TypeOK
<1>4. ring[c] = Append(buf[c], v) /\ \A d \in Channels \ {c} : ring[d] = buf[d]
  BY <1>1 DEF TypeOK
<1> HIDE DEF ring
<1>5. /\ Settled' /\ \A d \in Channels \ {c} : Kept(d)
      /\ refs[c] # 0 /\ refs'[c] # 0
      /\ buf'[c] = Append(buf[c], v) /\ sendq'[c] \subseteq sendq[c]
  <2> DEFINE wake == <<>>
             stale == Stale(recvq[c])
  <2>1. /\ Winners(NoWinner) /\ Deliver(NoWinner, stale, wake, ring) /\ stale \in SUBSET Regs
        /\ \A d \in Channels \ {c} : ring[d] = buf[d] /\ delivered'[d] = delivered[d]
    BY <1>2, <1>3, <1>4, NoneWins
  <2> HIDE DEF wake, stale
  <2>2. /\ Settled' /\ \A d \in Channels \ {c} : Kept(d)
        /\ c \in Channels /\ refs[c] # 0 /\ refs'[c] # 0
        /\ buf'[c] = ring[c] /\ sendq'[c] \subseteq sendq[c]
    BY ONLY <2>1, ChannelsInv, NoArmStarts, handles' = handles,
            closed' = closed, f \in Frames, c \in handles[f], DeliveryRests
  <2> QED
    BY <1>4, <2>2
<1> DEFINE d == delivered[c]
           b == buf[c]
           room == Capacity[c]
<1>6. /\ d \in Seq(Values) /\ b \in Seq(Values) /\ Len(b) < room /\ room \in Nat
      /\ delivered'[c] = d /\ buf'[c] = Append(b, v)
  BY <1>1, <1>2, <1>5, CapacityAssumption DEF TypeOK
<1> HIDE DEF d, b, room
<1>7. /\ d \o Append(b, v) = Append(d \o b, v) /\ Append(b, v) \in Seq(Values)
      /\ Len(Append(b, v)) = Len(b) + 1 /\ Len(b) \in Nat
  BY <1>6, Histories, AppendProperties
<1>8. Len(Append(b, v)) <= room
  BY <1>6, <1>7
<1>9. Fifo!Accept(c)
  BY <1>1, <1>2, <1>5, <1>6, <1>7, <1>8, Accepts DEF d, b, room
<1>10. sendq[c] = {}
  BY <1>1, <1>6 DEF SendersBlocked, b, room
<1>11. Kept(c)
  BY <1>5, <1>9, <1>10 DEF Kept
<1> QED
  BY <1>5, <1>11, KeptAdvances

\* A payload that is taken from the ring leaves room for the oldest blocked
\* sender that can be claimed.
LEMMA TakeFromRingAdvances ==
    ASSUME ChannelsInv, NoArmStarts, handles' = handles, closed' = closed,
           NEW f \in Frames, NEW c \in handles[f], TakeFromRing(c)
    PROVE  Advances
<1> DEFINE stale == Stale(sendq[c])
           rest == Unlink(sendq[c], stale)
           popped == [buf EXCEPT ![c] = Tail(@)]
           pushed(s) == [popped EXCEPT ![c] = Append(@, reg[s].value)]
           d == delivered[c]
           b == buf[c]
           room == Capacity[c]
<1>1. /\ TypeOK /\ PayloadsReal /\ Linked /\ SendersBlocked /\ c \in Channels
      /\ sendq[c] \in SUBSET (Regs \X Regs)
  BY DEF ChannelsInv, Settled, Inductive, TypeOK
<1>2. /\ buf[c] # <<>>
      /\ delivered' = [delivered EXCEPT ![c] = Append(@, Head(buf[c]))]
      /\ \/ /\ rest = {}
            /\ Deliver(NoWinner, stale, <<>>, popped)
         \/ \E s \in Regs :
               /\ IsHead(rest, s)
               /\ Deliver([x \in {s} |-> Promoted(s)], stale, WakeOf(s), pushed(s))
  BY DEF TakeFromRing
<1>3. stale \in SUBSET Regs
  BY <1>1, StaleFacts
<1>4. /\ d \in Seq(Values) /\ b \in Seq(Values) /\ b # <<>> /\ Len(b) <= room
      /\ delivered'[c] = Append(d, Head(b))
      /\ \A e \in Channels \ {c} : delivered'[e] = delivered[e]
  BY <1>1, <1>2 DEF TypeOK
<1>5. /\ popped[c] = Tail(b) /\ \A e \in Channels \ {c} : popped[e] = buf[e]
      /\ \A s : pushed(s)[c] = Append(Tail(b), reg[s].value)
      /\ \A s : \A e \in Channels \ {c} : pushed(s)[e] = buf[e]
  BY <1>1 DEF TypeOK
<1>6. d = delivered[c] /\ b = buf[c] /\ room = Capacity[c]
  OBVIOUS
<1>7. rest = Unlink(sendq[c], stale)
  OBVIOUS
<1> HIDE DEF stale, rest, popped, pushed, d, b, room
<1>8. /\ Head(b) \in Values /\ Tail(b) \in Seq(Values)
      /\ Len(b) \in Nat /\ Len(Tail(b)) = Len(b) - 1
      /\ Append(d, Head(b)) \in Seq(Values) /\ d \o b \in Seq(Values)
      /\ \A v \in Values : Append(d \o b, v)[Len(d) + 1] = Head(b)
      /\ Append(d, Head(b)) \o Tail(b) = d \o b
  BY <1>4, Histories, AppendProperties
<1>9. ASSUME NEW won, Winners(won), NEW wake, NEW ring,
             \A e \in Channels \ {c} : ring[e] = buf[e],
             Deliver(won, stale, wake, ring)
      PROVE  /\ Settled' /\ \A e \in Channels \ {c} : Kept(e)
             /\ c \in Channels /\ refs[c] # 0 /\ refs'[c] # 0
             /\ buf'[c] = ring[c] /\ sendq'[c] \subseteq sendq[c]
             /\ rest = {} => sendq'[c] = {}
  <2>1. \A e \in Channels \ {c} : ring[e] = buf[e] /\ delivered'[e] = delivered[e]
    BY <1>4, <1>9
  <2>2. /\ Settled' /\ \A e \in Channels \ {c} : Kept(e)
        /\ c \in Channels /\ refs[c] # 0 /\ refs'[c] # 0
        /\ buf'[c] = ring[c] /\ sendq'[c] \subseteq sendq[c]
    BY ONLY <1>3, <1>9, <2>1, ChannelsInv, NoArmStarts, handles' = handles,
            closed' = closed, f \in Frames, c \in handles[f], DeliveryRests
  <2>3. rest = {} => sendq'[c] = {}
    BY <1>1, <1>7, <1>9 DEF Deliver, Unlink
  <2> QED
    BY <2>2, <2>3
<1>10. CASE rest = {} /\ Deliver(NoWinner, stale, <<>>, popped)
  <2> DEFINE wake == <<>>
  <2>1. Winners(NoWinner) /\ Deliver(NoWinner, stale, wake, popped)
    BY <1>10, NoneWins
  <2> HIDE DEF wake
  <2>2. /\ Settled' /\ \A e \in Channels \ {c} : Kept(e)
        /\ refs[c] # 0 /\ refs'[c] # 0
        /\ buf'[c] = Tail(b) /\ sendq'[c] = {}
    BY <1>5, <1>9, <1>10, <2>1
  <2>3. Fifo!Take(c)
    BY <1>1, <1>4, <1>6, <2>2, Takes
  <2>4. Kept(c)
    BY <2>2, <2>3 DEF Kept
  <2> QED
    BY <2>2, <2>4, KeptAdvances
<1>11. ASSUME NEW s \in Regs, IsHead(rest, s),
              Deliver([x \in {s} |-> Promoted(s)], stale, WakeOf(s), pushed(s))
       PROVE  Advances
  <2> DEFINE won == [x \in {s} |-> Promoted(s)]
             wake == WakeOf(s)
             ring == pushed(s)
             v == reg[s].value
  <2>1. s \in Waiters(sendq[c]) /\ reg[s].registered
    BY <1>1, <1>7, <1>11, WaiterFacts
  <2>2. v \in Values
    BY <1>1, <2>1 DEF PayloadsReal
  <2>3. Winners(won) /\ Deliver(won, stale, wake, ring)
    BY <1>1, <1>11, <2>1, OutcomeFacts
  <2>4. ring[c] = Append(Tail(b), v) /\ \A e \in Channels \ {c} : ring[e] = buf[e]
    BY <1>5
  <2> HIDE DEF won, wake, ring
  <2>5. /\ Settled' /\ \A e \in Channels \ {c} : Kept(e)
        /\ refs[c] # 0 /\ refs'[c] # 0
        /\ buf'[c] = Append(Tail(b), v) /\ sendq'[c] \subseteq sendq[c]
    BY <1>9, <2>3, <2>4
  <2>6. sendq[c] # {}
    BY <2>1, NoWaiters
  <2>7. Len(b) = room /\ ~closed[c]
    BY <1>1, <1>6, <2>6 DEF SendersBlocked
  <2> HIDE DEF v
  <2>8. Append(Tail(b), v) \in Seq(Values) /\ Len(Append(Tail(b), v)) = Len(b)
    BY <1>8, <2>2, AppendProperties
  <2>9. Append(d, Head(b)) \o Append(Tail(b), v) = Append(d \o b, v)
    BY <1>8, <2>2, Histories
  <2>10. /\ delivered'[c] \o buf'[c] = Append(delivered[c] \o buf[c], v)
         /\ delivered'[c] = Append(delivered[c],
                                   (delivered'[c] \o buf'[c])[Len(delivered[c]) + 1])
    BY <1>4, <1>6, <1>8, <2>2, <2>5, <2>9
  <2>11. /\ delivered[c] \in Seq(Values) /\ delivered'[c] \in Seq(Values)
         /\ buf[c] \in Seq(Values) /\ buf'[c] \in Seq(Values)
         /\ Len(buf'[c]) <= Capacity[c] /\ Len(buf'[c]) = Capacity[c]
    BY <1>4, <1>6, <1>8, <2>5, <2>7, <2>8
  <2>12. Fifo!Accept(c)
    BY ONLY <1>1, <2>2, <2>5, <2>7, <2>10, <2>11, closed' = closed, Accepts
  <2>13. Kept(c)
    BY <2>5, <2>7, <2>11, <2>12 DEF Kept
  <2> QED
    BY <2>5, <2>13, KeptAdvances
<1> QED
  BY <1>2, <1>10, <1>11

-----------------------------------------------------------------------------
(* Steps that add nothing to the lists. *)

\* Registrations of `lost` are given up; only frames of S move on.
LEMMA TidyMoves ==
    ASSUME Tidy, NEW lost \in SUBSET Regs, NEW S \in SUBSET Frames,
           \A r \in Regs : IF r \in lost THEN reg'[r] = NoRegistration
                           ELSE reg'[r] = reg[r],
           \A g \in Frames \ S : tok'[g] = tok[g] /\ phase'[g] = phase[g],
           \A r \in Regs \ lost : r[1] \in S /\ Owns(r) =>
              Owns(r)' /\ tok'[r[1]].winner = tok[r[1]].winner
    PROVE  Tidy'
<1> SUFFICES ASSUME NEW r \in Regs
             PROVE  /\ reg'[r] # NoRegistration => Owns(r)'
                    /\ reg'[r].registered => /\ ~reg'[r].ready
                                             /\ reg'[r].token => tok'[r[1]].winner = 0
                    /\ reg'[r].registered => (reg'[r].active <=> reg'[r].op # "sleep")
  BY DEF Tidy
<1>1. ~NoRegistration.registered
  BY DEF NoRegistration
<1>2. CASE r \in lost
  BY <1>1, <1>2
<1>3. CASE r \notin lost
  <2>1. reg'[r] = reg[r] /\ r[1] \in Frames
    BY <1>3 DEF Regs
  <2>2. CASE reg[r] = NoRegistration
    BY <1>1, <2>1, <2>2
  <2>3. CASE reg[r] # NoRegistration
    <3>1. /\ Owns(r)
          /\ reg[r].registered => ~reg[r].ready /\ (reg[r].token => tok[r[1]].winner = 0)
          /\ reg[r].registered => (reg[r].active <=> reg[r].op # "sleep")
      BY <2>3 DEF Tidy
    <3>2. Owns(r)' /\ tok'[r[1]].winner = tok[r[1]].winner
      <4>1. CASE r[1] \in S
        BY <1>3, <3>1, <4>1
      <4>2. CASE r[1] \notin S
        BY <2>1, <3>1, <4>2 DEF Owns
      <4> QED
        BY <4>1, <4>2
    <3> QED
      BY <2>1, <3>1, <3>2
  <2> QED
    BY <2>2, <2>3
<1> QED
  BY <1>2, <1>3

\* A frame that is in no operation has no registration in use.
LEMMA IdleOwnsNothing ==
    ASSUME TokenDiscipline, NEW f \in Frames, phase[f] \in {"idle"} \cup Over,
           NEW r \in Regs, r[1] = f
    PROVE  ~Owns(r)
BY DEF TokenDiscipline, Over, Owns

\* A frame keeps the channels of its select when it keeps its handles.
LEMMA ArmsStayHeld ==
    ASSUME ArmsHeld,
           \A f \in Frames : phase'[f] = "starting" =>
              /\ phase[f] = "starting" /\ tok'[f].shape = tok[f].shape
              /\ handles'[f] = handles[f]
    PROVE  ArmsHeld'
BY DEF ArmsHeld

\* When nothing is accepted, delivered or closed.
LEMMA AllRest ==
    ASSUME ChannelsInv, Settled', \A c \in Channels : After(c, buf),
           closed' = closed, delivered' = delivered
    PROVE  Advances
<1>1. TypeOK /\ Gone /\ SendersBlocked
  BY DEF ChannelsInv, Inductive
<1>2. ASSUME NEW c \in Channels PROVE Kept(c)
  BY <1>1, <1>2, Rests
<1> QED
  BY <1>2, KeptAdvances

\* Frames move on and no channel is touched.
LEMMA FrameAdvances ==
    ASSUME ChannelsInv, NEW S \in SUBSET Frames,
           UNCHANGED <<buf, closed, sendq, recvq, refs, delivered, reg, handles>>,
           \A g \in Frames \ S : tok'[g] = tok[g] /\ phase'[g] = phase[g],
           \A r \in Regs : r[1] \in S /\ Owns(r) =>
              Owns(r)' /\ tok'[r[1]].winner = tok[r[1]].winner,
           ArmsHeld'
    PROVE  Advances
<1>1. TypeOK /\ Tidy /\ Linked /\ Counted
  BY DEF ChannelsInv, Settled, Inductive
<1>2. Tidy'
  <2>1. {} \in SUBSET Regs /\ \A r \in Regs : reg'[r] = reg[r]
    OBVIOUS
  <2> QED
    BY <1>1, <2>1, TidyMoves
<1>3. Linked' /\ Counted'
  BY <1>1 DEF Linked, Counted
<1>4. \A c \in Channels : After(c, buf)
  BY <1>1 DEF After, TypeOK
<1> QED
  BY <1>2, <1>3, <1>4, AllRest DEF Settled

\* No frame moves on.
LEMMA NothingMoves ==
    ASSUME ChannelsInv,
           UNCHANGED <<buf, closed, sendq, recvq, refs, delivered, reg, handles,
                       tok, phase>>
    PROVE  Advances
<1>1. ArmsHeld'
  BY DEF ChannelsInv, Settled, ArmsHeld
<1>2. {} \in SUBSET Frames
  OBVIOUS
<1> QED
  BY <1>1, <1>2, FrameAdvances

\* One frame moves on.
LEMMA OneFrameMoves ==
    ASSUME ChannelsInv, NEW f \in Frames,
           UNCHANGED <<buf, closed, sendq, recvq, refs, delivered, reg, handles>>,
           \A g \in Frames \ {f} : tok'[g] = tok[g] /\ phase'[g] = phase[g],
           \A r \in Regs : r[1] = f /\ Owns(r) =>
              Owns(r)' /\ tok'[f].winner = tok[f].winner,
           ArmsHeld'
    PROVE  Advances
<1> DEFINE S == {f}
<1>1. S \in SUBSET Frames
  OBVIOUS
<1>2. \A g \in Frames \ S : tok'[g] = tok[g] /\ phase'[g] = phase[g]
  OBVIOUS
<1>3. \A r \in Regs : r[1] \in S /\ Owns(r) =>
         Owns(r)' /\ tok'[r[1]].winner = tok[r[1]].winner
  OBVIOUS
<1> HIDE DEF S
<1> QED
  BY <1>1, <1>2, <1>3, FrameAdvances

\* The executor's own steps, and deadlines that are entered, left or fire.
LEMMA ExecutorAdvances ==
    ASSUME ChannelsInv, NEW f \in Frames,
           \/ Yield(f) \/ Poll(f)
           \/ EnterDeadline(f) \/ ExitDeadline(f) \/ DeadlineExpire(f)
    PROVE  Advances
BY NothingMoves DEF Yield, Poll, EnterDeadline, ExitDeadline, DeadlineExpire,
   channelVars, frameVars

\* The frame's function returns.
LEMMA FinishAdvances ==
    ASSUME ChannelsInv, NEW f \in Frames, Finish(f)
    PROVE  Advances
<1>1. /\ phase[f] = "idle" /\ phase' = [phase EXCEPT ![f] = "done"]
      /\ UNCHANGED <<buf, closed, sendq, recvq, refs, delivered, reg, handles, tok>>
  BY DEF Finish, Runs, channelVars
<1>2. TypeOK /\ TokenDiscipline /\ ArmsHeld
  BY DEF ChannelsInv, Settled, Inductive
<1>3. \A g \in Frames : phase'[g] = IF g = f THEN "done" ELSE phase[g]
  BY <1>1, <1>2 DEF TypeOK
<1>4. ArmsHeld'
  BY <1>1, <1>2, <1>3, ArmsStayHeld
<1>5. \A r \in Regs : r[1] = f => ~Owns(r)
  BY <1>1, <1>2, IdleOwnsNothing
<1> QED
  BY <1>1, <1>3, <1>4, <1>5, OneFrameMoves

\* A select starts: the frame has a handle to every channel of its arms.
LEMMA SelectStartAdvances ==
    ASSUME ChannelsInv, NEW f \in Frames, NEW shape \in Shapes, SelectStart(f, shape)
    PROVE  Advances
<1>1. /\ phase[f] = "idle" /\ phase' = [phase EXCEPT ![f] = "starting"]
      /\ \A a \in DOMAIN shape : shape[a].op = "sleep" \/ shape[a].chan \in handles[f]
      /\ tok' = [tok EXCEPT ![f] = [NoToken EXCEPT !.active = TRUE, !.shape = shape]]
      /\ UNCHANGED <<buf, closed, sendq, recvq, refs, delivered, reg, handles>>
  BY DEF SelectStart, Runs, Holds, channelVars
<1>2. TypeOK /\ TokenDiscipline /\ ArmsHeld
  BY DEF ChannelsInv, Settled, Inductive
<1>3. \A g \in Frames : phase'[g] = IF g = f THEN "starting" ELSE phase[g]
  BY <1>1, <1>2 DEF TypeOK
<1>4. \A g \in Frames \ {f} : tok'[g] = tok[g]
  BY <1>1, <1>2 DEF TypeOK
<1>5. tok'[f].shape = shape
  BY <1>1, <1>2 DEF TypeOK, NoToken
<1>6. ArmsHeld'
  BY <1>1, <1>2, <1>3, <1>4, <1>5 DEF ArmsHeld
<1>7. \A r \in Regs : r[1] = f => ~Owns(r)
  BY <1>1, <1>2, IdleOwnsNothing
<1> QED
  BY <1>1, <1>3, <1>4, <1>6, <1>7, OneFrameMoves

\* No arm was ready.
LEMMA SelectSuspendAdvances ==
    ASSUME ChannelsInv, NEW f \in Frames, SelectSuspend(f)
    PROVE  Advances
<1>1. /\ phase[f] = "starting" /\ phase' = [phase EXCEPT ![f] = "select"]
      /\ tok' = [tok EXCEPT ![f].suspended = TRUE]
      /\ UNCHANGED <<buf, closed, sendq, recvq, refs, delivered, reg, handles>>
  BY DEF SelectSuspend, channelVars
<1>2. TypeOK /\ ArmsHeld
  BY DEF ChannelsInv, Settled, Inductive
<1>3. \A g \in Frames : phase'[g] = IF g = f THEN "select" ELSE phase[g]
  BY <1>1, <1>2 DEF TypeOK
<1>4. \A g \in Frames \ {f} : tok'[g] = tok[g]
  BY <1>1, <1>2 DEF TypeOK
<1>5. /\ tok'[f].active = tok[f].active /\ tok'[f].winner = tok[f].winner
      /\ tok'[f].registered = tok[f].registered
  BY <1>1, <1>2 DEF TypeOK, Tokens
<1>6. ArmsHeld'
  BY <1>1, <1>2, <1>3, <1>4, ArmsStayHeld
<1>7. \A r \in Regs : r[1] = f /\ Owns(r) => Owns(r)' /\ tok'[f].winner = tok[f].winner
  BY <1>1, <1>5 DEF Owns
<1> QED
  BY <1>1, <1>3, <1>4, <1>6, <1>7, OneFrameMoves

\* An arm is ready as it is started, without an operation on its channel.
LEMMA ClaimingAdvances ==
    ASSUME ChannelsInv, NEW f \in Frames, phase[f] = "starting", Claiming(f),
           UNCHANGED <<buf, closed, sendq, recvq, refs, delivered, reg, handles, tok>>
    PROVE  Advances
<1>1. TypeOK /\ ArmsHeld
  BY DEF ChannelsInv, Settled, Inductive
<1>2. \A g \in Frames : phase'[g] = IF g = f THEN "claiming" ELSE phase[g]
  BY <1>1 DEF TypeOK, Claiming
<1>3. ArmsHeld'
  BY <1>1, <1>2, ArmsStayHeld
<1>4. \A r \in Regs : r[1] = f /\ Owns(r) => Owns(r)' /\ tok'[f].winner = tok[f].winner
  BY DEF Owns
<1> QED
  BY <1>2, <1>3, <1>4, OneFrameMoves

-----------------------------------------------------------------------------
(* Operations that are given up, and references that are released. *)

\* Outstanding operations are cancelled: unlinked, and their references
\* released.
LEMMA CancelAdvances ==
    ASSUME ChannelsInv, NEW lost \in SUBSET Regs, NEW S \in SUBSET Frames, NEW freed,
           reg' = [r \in Regs |-> IF r \in lost THEN NoRegistration ELSE reg[r]],
           sendq' = [c \in Channels |-> Unlink(sendq[c], lost)],
           recvq' = [c \in Channels |-> Unlink(recvq[c], lost)],
           Release(lost, Nothing, buf, freed),
           UNCHANGED <<closed, delivered, handles>>,
           \A g \in Frames \ S : tok'[g] = tok[g] /\ phase'[g] = phase[g],
           \A r \in Regs \ lost : r[1] \in S => ~Owns(r),
           \A g \in S : phase'[g] # "starting"
    PROVE  Advances
<1>1. TypeOK /\ Tidy /\ Linked /\ Counted /\ ArmsHeld
  BY DEF ChannelsInv, Settled, Inductive
<1>2. \A r \in Regs : IF r \in lost THEN reg'[r] = NoRegistration
                      ELSE reg'[r] = reg[r]
  OBVIOUS
<1>3. Tidy'
  BY <1>1, <1>2, TidyMoves
<1>4. ~NoRegistration.registered /\ ~NoRegistration.active
  BY DEF NoRegistration
<1>5. Linked'
  <2> SUFFICES ASSUME NEW c \in Channels
               PROVE  Links(sendq'[c], reg', "send", c) /\ Links(recvq'[c], reg', "receive", c)
    BY DEF Linked
  <2>1. sendq[c] \in SUBSET (Regs \X Regs) /\ recvq[c] \in SUBSET (Regs \X Regs)
    BY <1>1 DEF TypeOK
  <2>2. Links(sendq[c], reg, "send", c) /\ Links(recvq[c], reg, "receive", c)
    BY <1>1 DEF Linked
  <2>3. \A r \in Regs : IF r \in lost THEN ~reg'[r].registered ELSE reg'[r] = reg[r]
    BY <1>2, <1>4
  <2>4. Links(Unlink(sendq[c], lost), reg', "send", c)
    BY <2>1, <2>2, <2>3, UnlinkLinks
  <2>5. Links(Unlink(recvq[c], lost), reg', "receive", c)
    BY <2>1, <2>2, <2>3, UnlinkLinks
  <2> QED
    BY <2>4, <2>5
<1>6. ASSUME NEW c \in Channels
      PROVE  /\ refs'[c] = Cardinality(Holders(handles', c)) + Cardinality(Uses(reg', Regs, c))
             /\ After(c, buf)
  <2>1. \A r \in Regs : IF r \in lost THEN ~reg'[r].active
                        ELSE reg'[r].active = reg[r].active /\ reg'[r].chan = reg[r].chan
    BY <1>2, <1>4
  <2>2. Cardinality(Uses(reg', Regs, c))
          = Cardinality(Uses(reg, Regs, c)) - Cardinality(Uses(reg, lost, c))
    BY <2>1, UsesLess
  <2>3. /\ Nothing[c] = 0 /\ Nothing[c] \in Nat /\ handles' = handles
        /\ Cardinality(Holders(handles, c)) \in Nat /\ Cardinality(Uses(reg', Regs, c)) \in Nat
        /\ Cardinality(Uses(reg, Regs, c)) \in Nat /\ Cardinality(Uses(reg, lost, c)) \in Nat
    BY HoldersFinite, UsesFinite DEF Nothing
  <2>4. Balanced(lost, Nothing, c)
    BY <2>2, <2>3 DEF Balanced
  <2>5. /\ refs'[c] = Cardinality(Holders(handles', c)) + Cardinality(Uses(reg', Regs, c))
        /\ refs'[c] \in Nat /\ refs'[c] <= refs[c]
        /\ buf'[c] = IF refs[c] > 0 /\ refs'[c] = 0 THEN <<>> ELSE buf[c]
    BY ONLY <1>1, <2>3, <2>4, lost \in SUBSET Regs, c \in Channels,
            Release(lost, Nothing, buf, freed), ReleasedCounted
  <2>6. sendq'[c] \subseteq sendq[c]
    BY DEF Unlink
  <2> QED
    BY <2>5, <2>6 DEF After
<1>7. ArmsHeld'
  BY <1>1, ArmsStayHeld
<1> QED
  BY <1>3, <1>5, <1>6, <1>7, AllRest DEF Settled, Counted

\* A frame no longer holds a handle.
LEMMA HoldersLess ==
    ASSUME NEW g, NEW h, NEW f \in Frames, NEW c, c \in g[f], c \notin h[f],
           \A e \in Frames \ {f} : h[e] = g[e]
    PROVE  Cardinality(Holders(h, c)) + 1 = Cardinality(Holders(g, c))
<1>1. Holders(g, c) = Holders(h, c) \cup {f} /\ f \notin Holders(h, c)
  BY DEF Holders
<1>2. IsFiniteSet(Holders(h, c)) /\ Cardinality(Holders(h, c)) \in Nat
  BY HoldersFinite
<1>3. Cardinality(Holders(h, c) \cup {f}) = Cardinality(Holders(h, c)) + 1
  BY <1>1, <1>2, FS_AddElement
<1> QED
  BY <1>1, <1>3

\* References are released and no operation is given up.
LEMMA ReferencesAdvance ==
    ASSUME ChannelsInv, NEW less, NEW freed, Release({}, less, buf, freed),
           UNCHANGED <<closed, sendq, recvq, delivered>>,
           \A c \in Channels :
              /\ less[c] \in Nat
              /\ Cardinality(Holders(handles', c)) + Cardinality(Uses(reg', Regs, c)) + less[c]
                   = Cardinality(Holders(handles, c)) + Cardinality(Uses(reg, Regs, c)),
           Tidy', Linked', ArmsHeld'
    PROVE  Advances
<1>1. TypeOK /\ Counted /\ {} \in SUBSET Regs
  BY DEF ChannelsInv, Settled, Inductive
<1>2. ASSUME NEW c \in Channels
      PROVE  /\ refs'[c] = Cardinality(Holders(handles', c)) + Cardinality(Uses(reg', Regs, c))
             /\ After(c, buf)
  <2> DEFINE sum == Cardinality(Holders(handles, c)) + Cardinality(Uses(reg, Regs, c))
  <2>1. Cardinality(Uses(reg, {}, c)) = 0
    BY FS_EmptySet DEF Uses
  <2>2. sum \in Nat
    BY HoldersFinite, UsesFinite
  <2>3. /\ less[c] \in Nat
        /\ Cardinality(Holders(handles', c)) + Cardinality(Uses(reg', Regs, c)) + less[c] = sum
    OBVIOUS
  <2>4. Balanced({}, less, c)
    <3>1. sum - Cardinality(Uses(reg, {}, c)) = sum
      <4> HIDE DEF sum
      <4> QED
        BY <2>1, <2>2
    <3> QED
      BY <2>3, <3>1 DEF Balanced
  <2>5. /\ refs'[c] = Cardinality(Holders(handles', c)) + Cardinality(Uses(reg', Regs, c))
        /\ refs'[c] \in Nat /\ refs'[c] <= refs[c]
        /\ buf'[c] = IF refs[c] > 0 /\ refs'[c] = 0 THEN <<>> ELSE buf[c]
    BY ONLY <1>1, <2>3, <2>4, c \in Channels, Release({}, less, buf, freed),
            ReleasedCounted
  <2> QED
    BY <2>5 DEF After
<1> QED
  BY <1>2, AllRest DEF Settled, Counted

\* A handle is released after its last use.
LEMMA ReleaseHandleAdvances ==
    ASSUME ChannelsInv, NEW f \in Frames, NEW c \in Channels, ReleaseHandle(f, c)
    PROVE  Advances
<1>1. /\ running = f /\ phase[f] = "idle" /\ c \in handles[f]
      /\ handles' = [handles EXCEPT ![f] = @ \ {c}]
      /\ Release({}, One(c), buf, {})
      /\ UNCHANGED <<closed, sendq, recvq, reg, tok, phase, delivered>>
  BY DEF ReleaseHandle, Runs, Holds
<1>2. TypeOK /\ Tidy /\ Linked /\ ArmsHeld
  BY DEF ChannelsInv, Settled, Inductive
<1>3. handles'[f] = handles[f] \ {c} /\ \A e \in Frames \ {f} : handles'[e] = handles[e]
  BY <1>1, <1>2 DEF TypeOK
<1>4. Tidy'
  BY <1>1, <1>2 DEF Tidy, Owns
<1>5. Linked'
  BY <1>1, <1>2 DEF Linked
<1>6. ArmsHeld'
  BY <1>1, <1>2, <1>3, ArmsStayHeld
<1>7. ASSUME NEW d \in Channels
      PROVE  /\ One(c)[d] \in Nat
             /\ Cardinality(Holders(handles', d)) + Cardinality(Uses(reg', Regs, d)) + One(c)[d]
                  = Cardinality(Holders(handles, d)) + Cardinality(Uses(reg, Regs, d))
  <2>1. Cardinality(Uses(reg, Regs, d)) \in Nat /\ reg' = reg
    BY <1>1, UsesFinite
  <2>2. Cardinality(Holders(handles', d)) \in Nat
    BY HoldersFinite
  <2>3. CASE d = c
    <3>1. Cardinality(Holders(handles', d)) + 1 = Cardinality(Holders(handles, d))
      <4>1. c \in handles[f] /\ c \notin handles'[f]
        BY <1>1, <1>3
      <4> QED
        BY <1>3, <2>3, <4>1, HoldersLess
    <3> QED
      BY <2>1, <2>2, <2>3, <3>1 DEF One
  <2>4. CASE d # c
    <3>1. Holders(handles', d) = Holders(handles, d)
      BY <1>3, <2>4 DEF Holders
    <3> QED
      BY <2>1, <2>2, <2>4, <3>1 DEF One
  <2> QED
    BY <2>3, <2>4
<1> QED
  BY <1>1, <1>4, <1>5, <1>6, <1>7, ReferencesAdvance

\* A completed frame is dropped with every handle it still holds.
LEMMA DropFrameAdvances ==
    ASSUME ChannelsInv, NEW f \in Frames, DropFrame(f)
    PROVE  Advances
<1> DEFINE less == [c \in Channels |-> IF Holds(f, c) THEN 1 ELSE 0]
           freed == held[f] \cup ({staged[f][a] : a \in Arms} \ {None})
<1>1. /\ phase[f] = "done" /\ phase' = [phase EXCEPT ![f] = "dropped"]
      /\ handles' = [handles EXCEPT ![f] = {}]
      /\ Release({}, less, buf, freed)
      /\ UNCHANGED <<closed, sendq, recvq, delivered, reg, tok>>
  BY DEF DropFrame
<1>2. TypeOK /\ TokenDiscipline /\ Tidy /\ Linked /\ ArmsHeld
  BY DEF ChannelsInv, Settled, Inductive
<1>3. handles'[f] = {} /\ \A e \in Frames \ {f} : handles'[e] = handles[e]
  BY <1>1, <1>2 DEF TypeOK
<1>4. \A g \in Frames : phase'[g] = IF g = f THEN "dropped" ELSE phase[g]
  BY <1>1, <1>2 DEF TypeOK
<1>5. Tidy'
  <2>1. \A r \in Regs : r[1] = f => ~Owns(r)
    BY <1>1, <1>2, IdleOwnsNothing DEF Over
  <2> DEFINE S == {f}
  <2>2. S \in SUBSET Frames /\ {} \in SUBSET Regs
    OBVIOUS
  <2>3. \A g \in Frames \ S : tok'[g] = tok[g] /\ phase'[g] = phase[g]
    BY <1>1, <1>4
  <2>4. \A r \in Regs \ {} : r[1] \in S /\ Owns(r) =>
           Owns(r)' /\ tok'[r[1]].winner = tok[r[1]].winner
    BY <2>1
  <2>5. \A r \in Regs : IF r \in {} THEN reg'[r] = NoRegistration ELSE reg'[r] = reg[r]
    BY <1>1
  <2> HIDE DEF S
  <2> QED
    BY ONLY <1>2, <2>2, <2>3, <2>4, <2>5, TidyMoves
<1>6. Linked'
  BY <1>1, <1>2 DEF Linked
<1>7. ArmsHeld'
  BY <1>1, <1>2, <1>3, <1>4, ArmsStayHeld
<1>8. \A c \in Channels : less[c] = IF c \in handles[f] THEN 1 ELSE 0
  BY DEF Holds
<1> HIDE DEF less, freed
<1>9. ASSUME NEW d \in Channels
      PROVE  /\ less[d] \in Nat
             /\ Cardinality(Holders(handles', d)) + Cardinality(Uses(reg', Regs, d)) + less[d]
                  = Cardinality(Holders(handles, d)) + Cardinality(Uses(reg, Regs, d))
  <2>1. Cardinality(Uses(reg, Regs, d)) \in Nat /\ reg' = reg
    BY <1>1, UsesFinite
  <2>2. Cardinality(Holders(handles', d)) \in Nat
    BY HoldersFinite
  <2>3. CASE d \in handles[f]
    BY <1>3, <2>3, HoldersLess, <1>8, <2>1, <2>2
  <2>4. CASE d \notin handles[f]
    <3>1. Holders(handles', d) = Holders(handles, d)
      BY <1>3, <2>4 DEF Holders
    <3> QED
      BY <1>8, <2>1, <2>2, <2>4, <3>1
  <2> QED
    BY <2>3, <2>4
<1> QED
  BY <1>1, <1>5, <1>6, <1>7, <1>9, ReferencesAdvance

-----------------------------------------------------------------------------
(* Resumption, cancellation and deadlines. *)

\* An operation that completed gives back its reference.
LEMMA FinishedAdvances ==
    ASSUME ChannelsInv, NEW f \in Frames, NEW r \in Regs, r[1] = f, reg[r].ready,
           Finished(f, r), UNCHANGED <<closed, sendq, recvq, delivered, handles>>,
           \A g \in Frames \ {f} : tok'[g] = tok[g],
           \A q \in Regs \ {r} : q[1] = f => ~Owns(q)
    PROVE  Advances
<1> DEFINE less == IF reg[r].active THEN One(reg[r].chan) ELSE Nothing
<1>1. TypeOK /\ Tidy /\ Linked /\ ArmsHeld
  BY DEF ChannelsInv, Settled, Inductive
<1>2. /\ Release({}, less, buf, {})
      /\ reg' = [reg EXCEPT ![r] = NoRegistration]
      /\ phase' = [phase EXCEPT ![f] = "idle"]
  BY DEF Finished
<1>3. \A c \in Channels : less[c] = IF reg[r].active /\ reg[r].chan = c THEN 1 ELSE 0
  BY DEF One, Nothing
<1> HIDE DEF less
<1>4. \A q \in Regs : reg'[q] = IF q = r THEN NoRegistration ELSE reg[q]
  BY <1>1, <1>2 DEF TypeOK
<1>5. \A g \in Frames : phase'[g] = IF g = f THEN "idle" ELSE phase[g]
  BY <1>1, <1>2 DEF TypeOK
<1>6. ~reg[r].registered /\ ~NoRegistration.registered /\ ~NoRegistration.active
  BY <1>1 DEF Tidy, NoRegistration
<1>7. Tidy'
  <2> DEFINE lost == {r}
             S == {f}
  <2>1. lost \in SUBSET Regs /\ S \in SUBSET Frames
    OBVIOUS
  <2>2. \A q \in Regs : IF q \in lost THEN reg'[q] = NoRegistration ELSE reg'[q] = reg[q]
    BY <1>4
  <2>3. \A g \in Frames \ S : tok'[g] = tok[g] /\ phase'[g] = phase[g]
    BY <1>5
  <2>4. \A q \in Regs \ lost : q[1] \in S /\ Owns(q) =>
           Owns(q)' /\ tok'[q[1]].winner = tok[q[1]].winner
    OBVIOUS
  <2> HIDE DEF lost, S
  <2> QED
    BY ONLY <1>1, <2>1, <2>2, <2>3, <2>4, TidyMoves
<1>8. Linked'
  <2> SUFFICES ASSUME NEW c \in Channels
               PROVE  Links(sendq[c], reg', "send", c) /\ Links(recvq[c], reg', "receive", c)
    BY DEF Linked
  <2>1. Links(sendq[c], reg, "send", c) /\ Links(recvq[c], reg, "receive", c)
    BY <1>1 DEF Linked
  <2>2. ~reg'[r].registered /\ \A q \in Regs \ {r} : reg'[q] = reg[q]
    BY <1>4, <1>6
  <2>3. Links(sendq[c], reg', "send", c)
    BY <1>6, <2>1, <2>2, SameLinks
  <2>4. Links(recvq[c], reg', "receive", c)
    BY <1>6, <2>1, <2>2, SameLinks
  <2> QED
    BY <2>3, <2>4
<1>9. ArmsHeld'
  BY <1>5, <1>1, ArmsStayHeld
<1>10. ASSUME NEW c \in Channels
       PROVE  /\ less[c] \in Nat
              /\ Cardinality(Holders(handles', c)) + Cardinality(Uses(reg', Regs, c)) + less[c]
                   = Cardinality(Holders(handles, c)) + Cardinality(Uses(reg, Regs, c))
  <2>1. Cardinality(Uses(reg, {r}, c)) = less[c]
    <3>1. CASE reg[r].active /\ reg[r].chan = c
      <4>1. Uses(reg, {r}, c) = {r}
        BY <3>1 DEF Uses
      <4> QED
        BY <1>3, <3>1, <4>1, FS_Singleton
    <3>2. CASE ~(reg[r].active /\ reg[r].chan = c)
      <4>1. Uses(reg, {r}, c) = {}
        BY <3>2 DEF Uses
      <4> QED
        BY <1>3, <3>2, <4>1, FS_EmptySet
    <3> QED
      BY <3>1, <3>2
  <2>2. Cardinality(Uses(reg', Regs, c))
          = Cardinality(Uses(reg, Regs, c)) - Cardinality(Uses(reg, {r}, c))
    <3> DEFINE lost == {r}
    <3>1. \A q \in Regs : IF q \in lost THEN ~reg'[q].active
                          ELSE reg'[q].active = reg[q].active /\ reg'[q].chan = reg[q].chan
      BY <1>4, <1>6
    <3>2. lost \in SUBSET Regs
      OBVIOUS
    <3> HIDE DEF lost
    <3>3. Cardinality(Uses(reg', Regs, c))
            = Cardinality(Uses(reg, Regs, c)) - Cardinality(Uses(reg, lost, c))
      BY <3>1, <3>2, UsesLess
    <3> QED
      BY <3>3 DEF lost
  <2>3. /\ Cardinality(Holders(handles, c)) \in Nat /\ Cardinality(Uses(reg', Regs, c)) \in Nat
        /\ Cardinality(Uses(reg, Regs, c)) \in Nat /\ less[c] \in Nat /\ handles' = handles
    BY <1>3, HoldersFinite, UsesFinite
  <2> QED
    BY <2>1, <2>2, <2>3
<1> QED
  BY <1>2, <1>7, <1>8, <1>9, <1>10, ReferencesAdvance

LEMMA ResumeAdvances ==
    ASSUME ChannelsInv, NEW f \in Frames, Resume(f)
    PROVE  Advances
<1> DEFINE r == <<f, 1>>
<1>1. TypeOK /\ TokenDiscipline
  BY DEF ChannelsInv, Inductive
<1>2. /\ phase[f] = "plain"
      /\ UNCHANGED <<closed, sendq, recvq, delivered, tok, handles>>
  BY DEF Resume, Resumes
<1>3. r \in Regs /\ r[1] = f
  BY MaxArmsAssumption DEF Regs, Arms
<1>4. CASE reg[r].ready
  <2>1. Finished(f, r)
    BY <1>4 DEF Resume
  <2>2. \A q \in Regs \ {r} : q[1] = f => ~Owns(q)
    <3> SUFFICES ASSUME NEW q \in Regs \ {r}, q[1] = f, Owns(q) PROVE FALSE
      OBVIOUS
    <3>1. q = <<f, q[2]>>
      BY DEF Regs
    <3>2. ~tok[f].active
      BY <1>1, <1>2 DEF TokenDiscipline
    <3> QED
      BY <3>1, <3>2 DEF Owns
  <2> HIDE DEF r
  <2> QED
    BY <1>2, <1>3, <1>4, <2>1, <2>2, FinishedAdvances
<1>5. CASE ~reg[r].ready
  BY <1>5, <1>2, NothingMoves DEF Resume
<1> QED
  BY <1>4, <1>5

LEMMA SelectResumeAdvances ==
    ASSUME ChannelsInv, NEW f \in Frames, SelectResume(f)
    PROVE  Advances
<1> DEFINE r == <<f, tok[f].winner>>
<1>1. TypeOK /\ TokenDiscipline
  BY DEF ChannelsInv, Inductive
<1>2. /\ phase[f] = "select"
      /\ UNCHANGED <<closed, sendq, recvq, delivered, handles>>
  BY DEF SelectResume, Resumes
<1>3. CASE tok[f].winner # 0 /\ reg[r].ready
  <2>1. Finished(f, r) /\ tok' = [tok EXCEPT ![f] = NoToken]
    BY <1>3 DEF SelectResume
  <2>2. tok[f] \in Tokens /\ \A g \in Frames \ {f} : tok'[g] = tok[g]
    BY <1>1, <2>1 DEF TypeOK
  <2>3. r \in Regs /\ r[1] = f
    BY <1>3, <2>2 DEF Tokens, Arms, Regs
  <2>4. \A q \in Regs \ {r} : q[1] = f => ~Owns(q)
    <3> SUFFICES ASSUME NEW q \in Regs \ {r}, q[1] = f, Owns(q) PROVE FALSE
      OBVIOUS
    <3>1. q = <<f, q[2]>>
      BY DEF Regs
    <3>2. tok[f].registered \subseteq {tok[f].winner}
      BY <1>1, <1>3 DEF TokenDiscipline
    <3> QED
      BY <1>2, <3>1, <3>2 DEF Owns
  <2>5. reg[r].ready
    BY <1>3
  <2> HIDE DEF r
  <2> QED
    BY <1>2, <2>1, <2>2, <2>3, <2>4, <2>5, FinishedAdvances
<1>4. CASE ~(tok[f].winner # 0 /\ reg[r].ready)
  BY <1>4, <1>2, NothingMoves DEF SelectResume
<1> QED
  BY <1>3, <1>4

\* The arms that were started before the one that is ready are cancelled.
LEMMA ImmediateWinAdvances ==
    ASSUME ChannelsInv, NEW f \in Frames, ImmediateWin(f)
    PROVE  Advances
<1> DEFINE lost == {<<f, a>> : a \in tok[f].registered \ {tok[f].next}}
           unused == {staged[f][a] : a \in Arms} \ {None}
           S == {f}
<1>1. TypeOK /\ TokenDiscipline /\ tok[f] \in Tokens
  BY DEF ChannelsInv, Inductive, TypeOK
<1>2. phase[f] = "claiming" /\ UNCHANGED <<closed, delivered, handles>>
  BY DEF ImmediateWin
<1>3. CASE tok[f].active /\ tok[f].winner = 0
  <2>1. /\ reg' = [r \in Regs |-> IF r \in lost THEN NoRegistration ELSE reg[r]]
        /\ sendq' = [c \in Channels |-> Unlink(sendq[c], lost)]
        /\ recvq' = [c \in Channels |-> Unlink(recvq[c], lost)]
        /\ Release(lost, Nothing, buf, unused)
        /\ tok' = [tok EXCEPT ![f] = NoToken]
        /\ phase' = [phase EXCEPT ![f] = "idle"]
    BY <1>3 DEF ImmediateWin
  <2>2. tok[f].registered \subseteq Arms /\ tok[f].next \in Int
    BY <1>1 DEF Tokens
  <2>3. lost \in SUBSET Regs /\ S \in SUBSET Frames
    BY <2>2 DEF Regs
  <2>4. tok[f].next \notin tok[f].registered
    BY <1>1, <1>2, <2>2 DEF TokenDiscipline
  <2>5. \A r \in Regs \ lost : r[1] \in S => ~Owns(r)
    <3> SUFFICES ASSUME NEW r \in Regs, r[1] = f, Owns(r) PROVE r \in lost
      OBVIOUS
    <3>1. r = <<f, r[2]>>
      BY DEF Regs
    <3> QED
      BY <1>2, <2>4, <3>1 DEF Owns
  <2>6. \A g \in Frames \ S : tok'[g] = tok[g] /\ phase'[g] = phase[g]
    BY <1>1, <2>1 DEF TypeOK
  <2>7. \A g \in S : phase'[g] # "starting"
    BY <1>1, <2>1 DEF TypeOK
  <2> HIDE DEF lost, unused, S
  <2>8. UNCHANGED <<closed, delivered, handles>>
    BY <1>2
  <2> QED
    BY ONLY ChannelsInv, <2>1, <2>3, <2>5, <2>6, <2>7, <2>8, CancelAdvances
<1>4. CASE ~(tok[f].active /\ tok[f].winner = 0)
  BY <1>4, <1>2, NothingMoves DEF ImmediateWin
<1> QED
  BY <1>3, <1>4

\* Frames are cancelled with what they have outstanding.
LEMMA CancelFramesAdvances ==
    ASSUME ChannelsInv, NEW S \in SUBSET Frames, CancelFrames(S),
           UNCHANGED <<closed, delivered, handles>>
    PROVE  Advances
<1> DEFINE lost == UNION {Outstanding(f) : f \in S}
<1>1. TypeOK /\ TokenDiscipline
  BY DEF ChannelsInv, Inductive
<1>2. /\ reg' = [r \in Regs |-> IF r \in lost THEN NoRegistration ELSE reg[r]]
      /\ sendq' = [c \in Channels |-> Unlink(sendq[c], lost)]
      /\ recvq' = [c \in Channels |-> Unlink(recvq[c], lost)]
      /\ Release(lost, Nothing, buf, {})
      /\ tok' = [f \in Frames |-> IF f \in S THEN NoToken ELSE tok[f]]
      /\ phase' = [f \in Frames |-> IF f \in S THEN "done" ELSE phase[f]]
  BY DEF CancelFrames
<1>3. lost \in SUBSET Regs
  <2> SUFFICES ASSUME NEW f \in S PROVE Outstanding(f) \subseteq Regs
    OBVIOUS
  <2>1. f \in Frames /\ tok[f].registered \subseteq Arms /\ 1 \in Arms
    BY <1>1, MaxArmsAssumption DEF TypeOK, Tokens, Arms
  <2> QED
    BY <2>1 DEF Outstanding, Regs
<1>4. \A r \in Regs \ lost : r[1] \in S => ~Owns(r)
  <2> SUFFICES ASSUME NEW r \in Regs, r[1] \in S, Owns(r) PROVE r \in Outstanding(r[1])
    OBVIOUS
  <2>1. r = <<r[1], r[2]>> /\ r[1] \in Frames
    BY DEF Regs
  <2>2. phase[r[1]] = "plain" => ~tok[r[1]].active
    BY <1>1, <2>1 DEF TokenDiscipline
  <2> QED
    BY <2>1, <2>2 DEF Outstanding, Owns
<1> HIDE DEF lost
<1>5. \A g \in Frames \ S : tok'[g] = tok[g] /\ phase'[g] = phase[g]
  BY <1>2
<1>6. \A g \in S : phase'[g] # "starting"
  BY <1>2
<1> QED
  BY ONLY ChannelsInv, S \in SUBSET Frames, UNCHANGED <<closed, delivered, handles>>,
          <1>2, <1>3, <1>4, <1>5, <1>6, CancelAdvances

LEMMA CancellationAdvances ==
    ASSUME ChannelsInv, NEW f \in Frames, Cancel(f) \/ DeadlineFailure(f)
    PROVE  Advances
<1>1. CASE Cancel(f)
  <2> DEFINE S == {f}
  <2>1. S \in SUBSET Frames /\ CancelFrames(S) /\ UNCHANGED <<closed, delivered, handles>>
    BY <1>1 DEF Cancel
  <2> HIDE DEF S
  <2> QED
    BY <2>1, CancelFramesAdvances
<1>2. CASE DeadlineFailure(f)
  <2> DEFINE S == {g \in IF f = Root THEN Frames ELSE {f} : phase[g] \notin Over}
  <2>1. CancelFrames(S) /\ UNCHANGED <<closed, delivered, handles>>
    BY <1>2 DEF DeadlineFailure
  <2>2. S \in SUBSET Frames
    OBVIOUS
  <2> HIDE DEF S
  <2> QED
    BY <2>1, <2>2, CancelFramesAdvances
<1> QED
  BY <1>1, <1>2

-----------------------------------------------------------------------------
(* Deliveries by the executor, and the calls of a frame outside a select. *)

\* A delivery that neither accepts nor hands over a payload.
LEMMA DeliveryAdvances ==
    ASSUME ChannelsInv, NoArmStarts, UNCHANGED <<handles, closed, delivered>>,
           NEW won, Winners(won), NEW stale \in SUBSET Regs, NEW wake,
           Deliver(won, stale, wake, buf)
    PROVE  Advances
BY DeliverSettles, AllRest DEF ChannelsInv

\* A sleep arm expires.
LEMMA TimerExpireAdvances ==
    ASSUME ChannelsInv, NEW r \in Regs, TimerExpire(r)
    PROVE  Advances
<1>1. TypeOK /\ TokenDiscipline
  BY DEF ChannelsInv, Inductive
<1>2. /\ running = None /\ reg[r].registered
      /\ UNCHANGED <<closed, delivered, phase, handles, running>>
  BY DEF TimerExpire, Idle, frameVars
<1>3. CASE Claimable(r)
  <2> DEFINE won == [x \in {r} |-> Expired(r)]
             wake == WakeOf(r)
             stale == {}
  <2>1. Winners(won)
    BY <1>1, <1>2, OutcomeFacts
  <2>2. Deliver(won, stale, wake, buf) /\ stale \in SUBSET Regs
    BY <1>3 DEF TimerExpire
  <2>3. NoArmStarts
    BY <1>1, <1>2, FramesAssumption DEF NoArmStarts, TokenDiscipline
  <2>4. UNCHANGED <<handles, closed, delivered>>
    BY <1>2
  <2> HIDE DEF won, wake, stale
  <2> QED
    BY ONLY ChannelsInv, <2>1, <2>2, <2>3, <2>4, DeliveryAdvances
<1>4. CASE ~Claimable(r)
  BY <1>4, <1>2, NothingMoves DEF TimerExpire
<1> QED
  BY <1>3, <1>4

\* The outcomes of try_send on a channel that a frame holds.
LEMMA SendingAdvances ==
    ASSUME ChannelsInv, NoArmStarts, UNCHANGED <<handles, closed>>,
           NEW f \in Frames, NEW c \in handles[f], NEW v \in Values,
           TrySendSucceeds(c, v)
    PROVE  Advances
BY HandOffAdvances, PutInRingAdvances DEF TrySendSucceeds

LEMMA TrySendAdvances ==
    ASSUME ChannelsInv, NEW f \in Frames, NEW c \in Channels, NEW v \in Values,
           TrySend(f, c, v)
    PROVE  Advances
<1>1. Inductive /\ recvq[c] \in SUBSET (Regs \X Regs)
  BY DEF ChannelsInv, Inductive, TypeOK
<1>2. /\ running = f /\ phase[f] = "idle" /\ c \in handles[f]
      /\ UNCHANGED <<closed, phase, handles, running>>
  BY DEF TrySend, Runs, Holds
<1>3. NoArmStarts
  BY <1>1, <1>2, IdleRuns DEF NoArmStarts
<1>4. CASE TrySendSucceeds(c, v)
  BY <1>2, <1>3, <1>4, SendingAdvances
<1>5. CASE ~TrySendSucceeds(c, v)
  <2> DEFINE won == NoWinner
             wake == <<>>
             stale == Stale(recvq[c])
  <2>1. Deliver(won, stale, wake, buf) /\ delivered' = delivered
    BY <1>5 DEF TrySend
  <2>2. Winners(won) /\ stale \in SUBSET Regs
    BY <1>1, NoneWins, StaleFacts
  <2>3. UNCHANGED <<handles, closed, delivered>>
    BY <1>2, <2>1
  <2> HIDE DEF won, wake, stale
  <2> QED
    BY ONLY ChannelsInv, <1>3, <2>1, <2>2, <2>3, DeliveryAdvances
<1> QED
  BY <1>4, <1>5

LEMMA TryReceiveAdvances ==
    ASSUME ChannelsInv, NEW f \in Frames, NEW c \in Channels, TryReceive(f, c)
    PROVE  Advances
BY IdleRuns, TakeFromRingAdvances DEF ChannelsInv, TryReceive, Runs, Holds,
   NoArmStarts

\* Of two arms of one select that wait on a channel only one is claimed when
\* the channel is closed: one of them is ahead of the other.
LEMMA OneArmCloses ==
    ASSUME ChannelsInv, NEW c \in Channels, NEW r, NEW s,
           r \in Waiters(sendq[c]) \cup Waiters(recvq[c]),
           s \in Waiters(sendq[c]) \cup Waiters(recvq[c]),
           reg[r].token, r[1] = s[1]
    PROVE  /\ reg[s].token
           /\ \/ <<r, s>> \in sendq[c] \cup recvq[c]
              \/ <<s, r>> \in sendq[c] \cup recvq[c]
              \/ r \in Waiters(sendq[c]) /\ s \in Waiters(recvq[c])
              \/ s \in Waiters(sendq[c]) /\ r \in Waiters(recvq[c])
<1>1. TypeOK /\ TokenDiscipline /\ Tidy /\ Linked
  BY DEF ChannelsInv, Settled, Inductive
<1>2. r \in Regs /\ s \in Regs /\ reg[r].registered /\ reg[s].registered
  BY <1>1, WaiterFacts
<1>3. Owns(r) /\ Owns(s)
  BY <1>1, <1>2 DEF NoRegistration, Tidy
<1>4. r[1] \in Frames
  BY <1>2 DEF Regs
<1>5. reg[s].token
  BY <1>1, <1>3, <1>4 DEF Owns, TokenDiscipline
<1>6. Ordered(sendq[c]) /\ Ordered(recvq[c])
  BY <1>1 DEF Linked, Links
<1> QED
  BY <1>5, <1>6 DEF Ordered

\* A close wakes every waiter and keeps what the ring holds.
LEMMA CloseAdvances ==
    ASSUME ChannelsInv, NEW f \in Frames, NEW c \in Channels, Close(f, c)
    PROVE  Advances
<1> DEFINE waiting == Waiters(sendq[c]) \cup Waiters(recvq[c])
           ahead(r, s) ==
             \/ <<r, s>> \in sendq[c] \cup recvq[c]
             \/ r \in Waiters(sendq[c]) /\ s \in Waiters(recvq[c])
           first == {r \in waiting :
                       /\ Claimable(r)
                       /\ \A s \in waiting \ {r} :
                             reg[r].token /\ s[1] = r[1] => ~ahead(s, r)}
           woken == {r \in first : Wakes(r)}
           turns == 1 .. Cardinality(woken)
           won == [r \in first |-> ClosedOn(r)]
           stale == waiting \ first
<1>1. /\ TypeOK /\ Linked /\ Counted /\ Gone /\ SendersBlocked
      /\ Settled /\ Inductive
  BY DEF ChannelsInv, Settled, Inductive
<1>2. /\ running = f /\ phase[f] = "idle" /\ c \in handles[f] /\ ~closed[c]
      /\ closed' = [closed EXCEPT ![c] = TRUE]
      /\ \E order \in [turns -> woken] :
            Deliver(won, stale, [i \in turns |-> order[i][1]], buf)
      /\ UNCHANGED <<phase, handles, running, delivered>>
  BY DEF Close, Runs, Holds
<1>3. \A r \in waiting : r \in Regs /\ reg[r].registered
  BY <1>1, WaiterFacts
<1>4. first \subseteq waiting /\ DOMAIN won = first /\ stale \in SUBSET Regs
  BY <1>3
<1>5. ASSUME NEW r \in first, NEW s \in first, reg[r].token, r[1] = s[1], r # s
      PROVE  FALSE
  BY <1>5, OneArmCloses
<1>6. Winners(won)
  <2>1. \A r \in first :
           /\ reg[r].registered /\ ~won[r].registered
           /\ won[r].active = reg[r].active /\ won[r].chan = reg[r].chan
           /\ won[r].token = reg[r].token
    BY <1>1, <1>3, <1>4, OutcomeFacts
  <2>2. first \subseteq Regs
    BY <1>3, <1>4
  <2> HIDE DEF won, first
  <2> QED
    BY <1>4, <1>5, <2>1, <2>2 DEF Winners
<1> HIDE DEF won, stale, first, woken, turns
<1>7. PICK order : Deliver(won, stale, [i \in turns |-> order[i][1]], buf)
  BY <1>2
<1> DEFINE wake == [i \in turns |-> order[i][1]]
<1>8. Deliver(won, stale, wake, buf)
  BY <1>7
<1> HIDE DEF wake
<1>9. NoArmStarts /\ handles' = handles
  BY <1>1, <1>2, IdleRuns DEF NoArmStarts
<1>10. Settled' /\ \A d \in Channels : After(d, buf)
  BY ONLY <1>1, <1>4, <1>6, <1>8, <1>9, DeliverSettles
<1>11. ASSUME NEW d \in Channels, d # c PROVE Kept(d)
  BY <1>1, <1>2, <1>11, <1>10, Rests DEF TypeOK
<1>12. refs[c] # 0 /\ refs'[c] # 0
  <2>1. refs[c] \in Nat /\ refs[c] >= 1
    BY <1>1, <1>2, HeldLives
  <2>2. refs'[c] = Cardinality(Holders(handles', c)) + Cardinality(Uses(reg', Regs, c))
    BY <1>10 DEF Settled, Counted
  <2>3. Cardinality(Holders(handles', c)) \in Nat /\ Cardinality(Holders(handles', c)) >= 1
    BY <1>2, HoldersFinite
  <2>4. Cardinality(Uses(reg', Regs, c)) \in Nat
    BY UsesFinite
  <2> QED
    BY <2>1, <2>2, <2>3, <2>4
<1>13. sendq'[c] = {}
  <2> DEFINE gone == DOMAIN won \cup stale \cup UNION {Losers(r) : r \in DOMAIN won}
  <2>1. sendq' = [d \in Channels |-> Unlink(sendq[d], gone)]
    BY <1>8 DEF Deliver
  <2>2. Waiters(sendq[c]) \subseteq gone
    BY <1>4 DEF stale
  <2>3. sendq[c] \in SUBSET (Regs \X Regs)
    BY <1>1 DEF TypeOK
  <2> HIDE DEF gone
  <2> QED
    BY <2>1, <2>2, <2>3, UnlinkFacts
<1>14. Kept(c)
  BY <1>1, <1>2, <1>10, <1>12, <1>13 DEF After, TypeOK, Fifo!Close, Kept
<1> QED
  BY <1>10, <1>11, <1>14, KeptAdvances

-----------------------------------------------------------------------------
(* Operations that suspend. *)

\* Registration r is taken into use; the others stay what they are.
LEMMA TidyStarts ==
    ASSUME Tidy, NEW r \in Regs, \A q \in Regs \ {r} : reg'[q] = reg[q],
           Owns(r)', ~reg'[r].ready, reg'[r].active <=> reg'[r].op # "sleep",
           reg'[r].token => tok'[r[1]].winner = 0,
           \A q \in Regs \ {r} : Owns(q) =>
              Owns(q)' /\ tok'[q[1]].winner = tok[q[1]].winner
    PROVE  Tidy'
<1> SUFFICES ASSUME NEW q \in Regs
             PROVE  /\ reg'[q] # NoRegistration => Owns(q)'
                    /\ reg'[q].registered => /\ ~reg'[q].ready
                                             /\ reg'[q].token => tok'[q[1]].winner = 0
                    /\ reg'[q].registered => (reg'[q].active <=> reg'[q].op # "sleep")
  BY DEF Tidy
<1>1. CASE q = r
  BY <1>1
<1>2. CASE q # r
  <2>1. reg'[q] = reg[q]
    BY <1>2
  <2>2. CASE reg[q] = NoRegistration
    BY <2>1, <2>2 DEF NoRegistration
  <2>3. CASE reg[q] # NoRegistration
    BY <2>3, <1>2, <2>1 DEF Tidy
  <2> QED
    BY <2>2, <2>3
<1> QED
  BY <1>1, <1>2

\* What Suspend does: a sender that suspends on a full ring finds no receiver.
LEMMA SuspendsOne ==
    ASSUME Inductive, NEW r \in Regs, NEW c \in Channels, NEW x, Suspend(r, c, x),
           (x.op = "send" /\ IsFull(c)) \/ x.op = "receive"
    PROVE  /\ reg'[r] = x /\ \A q \in Regs \ {r} : reg'[q] = reg[q]
           /\ \A d \in Channels :
                 /\ sendq'[d] = IF x.op = "send" /\ d = c
                                THEN LinkTail(sendq[c], r) ELSE sendq[d]
                 /\ recvq'[d] = IF x.op = "receive" /\ d = c
                                THEN LinkTail(recvq[c], r) ELSE recvq[d]
                 /\ refs'[d] = refs[d] + IF d = c THEN 1 ELSE 0
<1> DEFINE stale == IF x.op = "send" THEN Stale(recvq[c]) ELSE {}
<1>1. TypeOK /\ ReceiversBlocked
  BY DEF Inductive
<1>2. /\ reg' = [q \in Regs |->
                    IF q = r THEN x
                    ELSE IF q \in stale
                    THEN [reg[q] EXCEPT !.registered = FALSE]
                    ELSE reg[q]]
      /\ sendq' = IF x.op = "send"
                  THEN [sendq EXCEPT ![c] = LinkTail(@, r)] ELSE sendq
      /\ recvq' = IF x.op = "receive"
                  THEN [recvq EXCEPT ![c] = LinkTail(@, r)]
                  ELSE [recvq EXCEPT ![c] = Unlink(@, stale)]
      /\ refs' = [refs EXCEPT ![c] = @ + 1]
  BY DEF Suspend
<1>3. stale = {} /\ (x.op = "send" => recvq[c] = {})
  <2>1. CASE x.op = "send"
    BY <2>1, CapacityAssumption, <1>1 DEF IsFull, ReceiversBlocked, Stale,
       Before, Waiters
  <2>2. CASE x.op # "send"
    BY <2>2
  <2> QED
    BY <2>1, <2>2
<1> HIDE DEF stale
<1>4. reg'[r] = x /\ \A q \in Regs \ {r} : reg'[q] = reg[q]
  BY <1>2, <1>3
<1>5. Unlink({}, stale) = {}
  BY DEF Unlink
<1>6. ASSUME NEW d \in Channels
      PROVE  /\ sendq'[d] = IF x.op = "send" /\ d = c
                            THEN LinkTail(sendq[c], r) ELSE sendq[d]
             /\ recvq'[d] = IF x.op = "receive" /\ d = c
                            THEN LinkTail(recvq[c], r) ELSE recvq[d]
  BY <1>1, <1>2, <1>3, <1>5 DEF TypeOK
<1>7. ASSUME NEW d \in Channels
      PROVE  refs'[d] = refs[d] + IF d = c THEN 1 ELSE 0
  BY <1>1, <1>2 DEF TypeOK
<1> QED
  BY <1>4, <1>6, <1>7

\* An operation suspends on channel c, which is alive: a sender on a full
\* ring, a receiver on an empty one.
LEMMA SuspendAdvances ==
    ASSUME ChannelsInv, NEW r \in Regs, NEW c \in Channels, refs[c] # 0, NEW x,
           Suspend(r, c, x), (x.op = "send" /\ IsFull(c)) \/ x.op = "receive",
           x.chan = c, x.registered, x.active, reg[r] = NoRegistration,
           UNCHANGED <<buf, closed, delivered, handles>>, Tidy', ArmsHeld'
    PROVE  Advances
<1>1. TypeOK /\ Linked /\ Counted /\ Gone /\ SendersBlocked /\ Inductive
  BY DEF ChannelsInv, Settled, Inductive
<1>2. reg'[r] = x /\ \A q \in Regs \ {r} : reg'[q] = reg[q]
  BY <1>1, SuspendsOne
<1>3. ASSUME NEW d \in Channels
      PROVE  /\ sendq'[d] = IF x.op = "send" /\ d = c
                            THEN LinkTail(sendq[c], r) ELSE sendq[d]
             /\ recvq'[d] = IF x.op = "receive" /\ d = c
                            THEN LinkTail(recvq[c], r) ELSE recvq[d]
             /\ refs'[d] = refs[d] + IF d = c THEN 1 ELSE 0
  BY <1>1, SuspendsOne
<1>4. ~reg[r].registered /\ ~reg[r].active
  BY DEF NoRegistration
<1>5. ASSUME NEW d \in Channels
      PROVE  Links(sendq'[d], reg', "send", d) /\ Links(recvq'[d], reg', "receive", d)
  <2>1. sendq[d] \in SUBSET (Regs \X Regs) /\ recvq[d] \in SUBSET (Regs \X Regs)
    BY <1>1 DEF TypeOK
  <2>2. Links(sendq[d], reg, "send", d) /\ Links(recvq[d], reg, "receive", d)
    BY <1>1 DEF Linked
  <2> DEFINE g == reg
             h == reg'
  <2>3. /\ ~g[r].registered /\ h[r].registered /\ h[r].chan = c /\ h[r].op = x.op
        /\ \A q \in Regs \ {r} : h[q] = g[q]
        /\ Links(sendq[d], g, "send", d) /\ Links(recvq[d], g, "receive", d)
    BY <1>2, <1>4, <2>2
  <2> HIDE DEF g, h
  <2>4. Links(sendq'[d], h, "send", d)
    <3>1. CASE x.op = "send" /\ d = c
      BY <1>3, <2>1, <2>3, <3>1, TailLinks
    <3>2. CASE ~(x.op = "send" /\ d = c)
      <4>1. sendq'[d] = sendq[d]
        BY <1>3, <3>2
      <4> QED
        BY <2>3, <3>2, <4>1, SameLinks
    <3> QED
      BY <3>1, <3>2
  <2>5. Links(recvq'[d], h, "receive", d)
    <3>1. CASE x.op = "receive" /\ d = c
      BY <1>3, <2>1, <2>3, <3>1, TailLinks
    <3>2. CASE ~(x.op = "receive" /\ d = c)
      <4>1. recvq'[d] = recvq[d]
        BY <1>3, <3>2
      <4> QED
        BY <2>3, <3>2, <4>1, SameLinks
    <3> QED
      BY <3>1, <3>2
  <2> QED
    BY <2>4, <2>5 DEF h
<1>6. ASSUME NEW d \in Channels
      PROVE  refs'[d] = Cardinality(Holders(handles', d)) + Cardinality(Uses(reg', Regs, d))
  <2> DEFINE h == Cardinality(Holders(handles, d))
             u == Cardinality(Uses(reg, Regs, d))
             w == Cardinality(Uses(reg', Regs, d))
             more == IF d = c THEN 1 ELSE 0
  <2>1. \A q \in Regs \ {r} : reg'[q].active = reg[q].active /\ reg'[q].chan = reg[q].chan
    BY <1>2
  <2>2. w = u + more
    BY <1>2, <1>4, <2>1, UsesMore
  <2>3. h \in Nat /\ u \in Nat /\ more \in Nat
    BY HoldersFinite, UsesFinite
  <2>4. refs[d] = h + u /\ refs'[d] = refs[d] + more
    BY <1>1, <1>3 DEF Counted
  <2>5. handles' = handles
    OBVIOUS
  <2> HIDE DEF h, u, w, more
  <2>6. refs'[d] = h + w
    BY <2>2, <2>3, <2>4
  <2> QED
    BY <2>5, <2>6 DEF h, w
<1>7. Settled'
  BY <1>5, <1>6 DEF Settled, Linked, Counted
<1>8. ASSUME NEW d \in Channels PROVE Kept(d)
  <2>1. refs[d] \in Nat /\ (refs'[d] = 0 <=> refs[d] = 0)
    <3> DEFINE n == refs[d]
               m == refs'[d]
    <3>1. n \in Nat /\ (d = c => n # 0)
      BY <1>1 DEF TypeOK
    <3>2. m = n + IF d = c THEN 1 ELSE 0
      BY <1>3
    <3> HIDE DEF n, m
    <3>3. m = 0 <=> n = 0
      BY <3>1, <3>2
    <3> QED
      BY <3>1, <3>3 DEF n, m
  <2>2. sendq'[d] # {} => Len(buf[d]) = Capacity[d] /\ ~closed[d]
    BY <1>1, <1>3 DEF SendersBlocked, IsFull
  <2>3. Fifo!Stays(d)
    BY <2>1 DEF Fifo!Stays
  <2>4. refs'[d] = 0 => buf'[d] = <<>>
    BY <1>1, <2>1 DEF Gone
  <2> QED
    BY <2>2, <2>3, <2>4 DEF Kept
<1> QED
  BY <1>7, <1>8, KeptAdvances

\* An operation outside a select suspends.
LEMMA PlainAdvances ==
    ASSUME ChannelsInv, NEW f \in Frames, phase[f] = "idle", NEW c \in handles[f],
           NEW x, Suspend(<<f, 1>>, c, x),
           (x.op = "send" /\ IsFull(c)) \/ x.op = "receive",
           x.chan = c, x.registered, x.active, ~x.ready, ~x.token,
           phase' = [phase EXCEPT ![f] = "plain"],
           UNCHANGED <<buf, closed, delivered, handles, tok>>
    PROVE  Advances
<1> DEFINE r == <<f, 1>>
<1>1. TypeOK /\ TokenDiscipline /\ Tidy /\ Counted /\ ArmsHeld /\ Inductive
  BY DEF ChannelsInv, Settled, Inductive
<1>2. r \in Regs /\ r[1] = f /\ r[2] = 1 /\ Suspend(r, c, x)
  BY MaxArmsAssumption DEF Regs, Arms
<1>3. \A q \in Regs : q[1] = f => ~Owns(q)
  BY <1>1, IdleOwnsNothing
<1>4. reg[r] = NoRegistration
  BY <1>1, <1>2, <1>3 DEF Tidy
<1>5. c \in Channels /\ refs[c] # 0
  BY <1>1, HeldLives
<1> HIDE DEF r
<1>6. reg'[r] = x /\ \A q \in Regs \ {r} : reg'[q] = reg[q]
  BY <1>1, <1>2, <1>5, SuspendsOne
<1>7. \A g \in Frames : phase'[g] = IF g = f THEN "plain" ELSE phase[g]
  BY <1>1 DEF TypeOK
<1>8. Tidy'
  <2>1. Owns(r)'
    BY <1>2, <1>6, <1>7 DEF Owns
  <2>2. ASSUME NEW q \in Regs \ {r}, Owns(q)
        PROVE  Owns(q)' /\ tok'[q[1]].winner = tok[q[1]].winner
    BY <1>3, <2>2, <1>6, <1>7 DEF Regs, Owns
  <2> QED
    BY <1>1, <1>2, <1>6, <2>1, <2>2, TidyStarts
<1>9. ArmsHeld'
  BY <1>1, <1>7, ArmsStayHeld
<1> QED
  BY <1>2, <1>4, <1>5, <1>8, <1>9, SuspendAdvances

LEMMA SendStartAdvances ==
    ASSUME ChannelsInv, NEW f \in Frames, NEW c \in Channels, NEW v \in Values,
           SendStart(f, c, v)
    PROVE  Advances
<1> DEFINE x == SendRegistration(c, v, FALSE)
<1>1. /\ phase[f] = "idle" /\ c \in handles[f] /\ IsFull(c)
      /\ Suspend(<<f, 1>>, c, x)
      /\ phase' = [phase EXCEPT ![f] = "plain"]
      /\ UNCHANGED <<buf, closed, delivered, handles, tok>>
  BY DEF SendStart, Runs, Holds
<1>2. /\ x.op = "send" /\ x.chan = c /\ x.registered /\ x.active
      /\ ~x.ready /\ ~x.token
  BY DEF SendRegistration, NoRegistration
<1> HIDE DEF x
<1> QED
  BY <1>1, <1>2, PlainAdvances

LEMMA ReceiveStartAdvances ==
    ASSUME ChannelsInv, NEW f \in Frames, NEW c \in Channels, ReceiveStart(f, c)
    PROVE  Advances
<1> DEFINE x == ReceiveRegistration(c, FALSE)
<1>1. /\ phase[f] = "idle" /\ c \in handles[f]
      /\ Suspend(<<f, 1>>, c, x)
      /\ phase' = [phase EXCEPT ![f] = "plain"]
      /\ UNCHANGED <<buf, closed, delivered, handles, tok>>
  BY DEF ReceiveStart, Runs, Holds
<1>2. /\ x.op = "receive" /\ x.chan = c /\ x.registered /\ x.active
      /\ ~x.ready /\ ~x.token
  BY DEF ReceiveRegistration, NoRegistration
<1> HIDE DEF x
<1> QED
  BY <1>1, <1>2, PlainAdvances

\* An arm of a select is registered.
LEMMA ArmRegisters ==
    ASSUME ChannelsInv, NEW f \in Frames, NEW op, Starts(f, op),
           tok' = Registered(f), UNCHANGED <<phase, handles>>,
           NEW r, r = <<f, tok[f].next>>, reg'[r].token, ~reg'[r].ready,
           reg'[r].active <=> reg'[r].op # "sleep",
           \A q \in Regs \ {r} : reg'[q] = reg[q]
    PROVE  r \in Regs /\ reg[r] = NoRegistration /\ Tidy' /\ ArmsHeld'
<1>1. TypeOK /\ TokenDiscipline /\ Tidy /\ ArmsHeld /\ Inductive
  BY DEF ChannelsInv, Settled, Inductive
<1>2. phase[f] = "starting" /\ tok[f].next \in DOMAIN tok[f].shape
  BY DEF Starts
<1>3. /\ tok[f].next \in Arms
      /\ \A g \in Frames \ {f} : tok'[g] = tok[g]
      /\ tok'[f].active = tok[f].active
      /\ tok'[f].winner = 0
      /\ tok'[f].shape = tok[f].shape
      /\ tok'[f].registered = tok[f].registered \cup {tok[f].next}
  BY <1>1, <1>2, RegisteredFacts
<1>4. tok[f].active /\ tok[f].winner = 0
  BY <1>1, <1>2 DEF TokenDiscipline
<1>5. tok[f].next \notin tok[f].registered
  BY <1>3, <1>1, <1>2 DEF Arms, TokenDiscipline
<1>6. r \in Regs /\ r[1] = f /\ r[2] = tok[f].next
  BY <1>3 DEF Regs
<1>7. reg[r] = NoRegistration
  BY <1>2, <1>5, <1>6, <1>1 DEF Owns, Tidy
<1>8. Owns(r)'
  BY <1>3, <1>4, <1>6 DEF Owns
<1>9. ASSUME NEW q \in Regs \ {r}, Owns(q)
      PROVE  Owns(q)' /\ tok'[q[1]].winner = tok[q[1]].winner
  <2>1. q[1] \in Frames
    BY DEF Regs
  <2>2. CASE q[1] = f
    BY <1>2, <1>3, <1>4, <1>9, <2>2 DEF Owns
  <2>3. CASE q[1] # f
    BY <1>3, <1>9, <2>1, <2>3 DEF Owns
  <2> QED
    BY <2>2, <2>3
<1>10. Tidy'
  BY <1>1, <1>3, <1>6, <1>8, <1>9, TidyStarts
<1>11. ArmsHeld'
  BY <1>3, <1>1, ArmsStayHeld
<1> QED
  BY <1>6, <1>7, <1>10, <1>11

\* The channel of the arm that starts is held.
LEMMA ArmChannelHeld ==
    ASSUME ChannelsInv, NEW f \in Frames,
           Starts(f, "send") \/ Starts(f, "receive")
    PROVE  /\ phase[f] = "starting" /\ ArmChannel(f) \in handles[f]
           /\ ArmChannel(f) \in Channels /\ refs[ArmChannel(f)] # 0
<1>1. TypeOK /\ Counted /\ ArmsHeld
  BY DEF ChannelsInv, Settled, Inductive
<1>2. /\ phase[f] = "starting" /\ tok[f].next \in DOMAIN tok[f].shape
      /\ tok[f].shape[tok[f].next].op # "sleep"
  BY DEF Starts
<1>3. ArmChannel(f) \in handles[f]
  BY <1>1, <1>2 DEF ArmsHeld, ArmChannel
<1>4. /\ ArmChannel(f) \in Channels /\ refs[ArmChannel(f)] \in Nat
      /\ refs[ArmChannel(f)] >= 1
  BY <1>1, <1>3, HeldLives
<1> QED
  BY <1>2, <1>3, <1>4

\* An arm suspends.
LEMMA ArmSuspendAdvances ==
    ASSUME ChannelsInv, NEW f \in Frames, NEW op \in {"send", "receive"}, Starts(f, op),
           NEW c, c = ArmChannel(f), NEW x, Suspend(<<f, tok[f].next>>, c, x),
           (x.op = "send" /\ IsFull(c)) \/ x.op = "receive",
           x.chan = c, x.registered, x.active, ~x.ready, x.token,
           tok' = Registered(f),
           UNCHANGED <<buf, closed, delivered, handles, phase>>
    PROVE  Advances
<1> DEFINE r == <<f, tok[f].next>>
<1>1. Inductive
  BY DEF ChannelsInv
<1>2. c \in Channels /\ refs[c] # 0
  BY ArmChannelHeld
<1>3. r \in Regs /\ Suspend(r, c, x)
  BY <1>1, RegisteredFacts DEF Starts, Regs
<1>4. r = <<f, tok[f].next>>
  OBVIOUS
<1> HIDE DEF r
<1>5. reg'[r] = x /\ \A q \in Regs \ {r} : reg'[q] = reg[q]
  BY <1>1, <1>2, <1>3, SuspendsOne
<1>6. reg[r] = NoRegistration /\ Tidy' /\ ArmsHeld'
  BY <1>4, <1>5, ArmRegisters
<1> QED
  BY <1>2, <1>3, <1>6, SuspendAdvances

LEMMA ArmSendAdvances ==
    ASSUME ChannelsInv, NEW f \in Frames, ArmSend(f)
    PROVE  Advances
<1> DEFINE c == ArmChannel(f)
           v == staged[f][tok[f].next]
           x == SendRegistration(c, v, TRUE)
<1>1. /\ Starts(f, "send")
      /\ \/ TrySendSucceeds(c, v) /\ Claiming(f)
         \/ /\ Claiming(f)
            /\ UNCHANGED <<buf, sendq, recvq, refs, reg, tok, delivered>>
         \/ /\ IsFull(c)
            /\ Suspend(<<f, tok[f].next>>, c, x)
            /\ tok' = Registered(f)
            /\ UNCHANGED <<buf, phase, delivered>>
      /\ UNCHANGED <<closed, handles, running>>
  BY DEF ArmSend
<1>2. Inductive
  BY DEF ChannelsInv
<1>3. phase[f] = "starting" /\ c \in handles[f] /\ v \in Values
  BY <1>1, <1>2, ArmChannelHeld, ArmChannelFacts
<1>4. /\ x.op = "send" /\ x.chan = c /\ x.registered /\ x.active
      /\ ~x.ready /\ x.token
  BY DEF SendRegistration, NoRegistration
<1>5. c = ArmChannel(f)
  OBVIOUS
<1> HIDE DEF c, v, x
<1>6. CASE TrySendSucceeds(c, v) /\ Claiming(f)
  BY <1>1, <1>3, <1>6, SendingAdvances DEF NoArmStarts, Claiming
<1>7. CASE Claiming(f) /\ UNCHANGED <<buf, sendq, recvq, refs, reg, tok, delivered>>
  BY <1>1, <1>3, <1>7, ClaimingAdvances
<1>8. CASE /\ IsFull(c)
           /\ Suspend(<<f, tok[f].next>>, c, x)
           /\ tok' = Registered(f)
           /\ UNCHANGED <<buf, phase, delivered>>
  BY <1>1, <1>4, <1>5, <1>8, ArmSuspendAdvances
<1> QED
  BY <1>1, <1>6, <1>7, <1>8

LEMMA ArmReceiveAdvances ==
    ASSUME ChannelsInv, NEW f \in Frames, ArmReceive(f)
    PROVE  Advances
<1> DEFINE c == ArmChannel(f)
           x == ReceiveRegistration(c, TRUE)
<1>1. /\ Starts(f, "receive")
      /\ \/ TakeFromRing(c) /\ Claiming(f)
         \/ /\ Claiming(f)
            /\ UNCHANGED <<buf, sendq, recvq, refs, reg, tok, delivered>>
         \/ /\ Suspend(<<f, tok[f].next>>, c, x)
            /\ tok' = Registered(f)
            /\ UNCHANGED <<buf, phase, delivered>>
      /\ UNCHANGED <<closed, handles, running>>
  BY DEF ArmReceive
<1>2. phase[f] = "starting" /\ c \in handles[f]
  BY <1>1, ArmChannelHeld
<1>3. /\ x.op = "receive" /\ x.chan = c /\ x.registered /\ x.active
      /\ ~x.ready /\ x.token
  BY DEF ReceiveRegistration, NoRegistration
<1>4. c = ArmChannel(f)
  OBVIOUS
<1> HIDE DEF c, x
<1>5. CASE TakeFromRing(c) /\ Claiming(f)
  BY <1>1, <1>2, <1>5, TakeFromRingAdvances DEF NoArmStarts, Claiming
<1>6. CASE Claiming(f) /\ UNCHANGED <<buf, sendq, recvq, refs, reg, tok, delivered>>
  BY <1>1, <1>2, <1>6, ClaimingAdvances
<1>7. CASE /\ Suspend(<<f, tok[f].next>>, c, x)
           /\ tok' = Registered(f)
           /\ UNCHANGED <<buf, phase, delivered>>
  BY <1>1, <1>3, <1>4, <1>7, ArmSuspendAdvances
<1> QED
  BY <1>1, <1>5, <1>6, <1>7

\* A sleep arm refers to no channel.
LEMMA ArmSleepAdvances ==
    ASSUME ChannelsInv, NEW f \in Frames, ArmSleep(f)
    PROVE  Advances
<1> DEFINE r == <<f, tok[f].next>>
           x == [NoRegistration EXCEPT !.op = "sleep", !.registered = TRUE,
                                       !.token = TRUE]
<1>1. /\ Starts(f, "sleep") /\ phase[f] = "starting"
      /\ \/ Claiming(f) /\ UNCHANGED <<reg, tok>>
         \/ /\ reg' = [reg EXCEPT ![r] = x]
            /\ tok' = Registered(f)
            /\ phase' = phase
      /\ UNCHANGED <<buf, closed, sendq, recvq, refs, delivered, handles>>
  BY DEF ArmSleep, Starts, channelVars
<1>2. CASE Claiming(f) /\ UNCHANGED <<reg, tok>>
  BY <1>1, <1>2, ClaimingAdvances
<1>3. CASE reg' = [reg EXCEPT ![r] = x] /\ tok' = Registered(f) /\ phase' = phase
  <2>1. TypeOK /\ Inductive /\ Linked /\ Counted
    BY DEF ChannelsInv, Settled, Inductive
  <2>2. x.op = "sleep" /\ x.token /\ ~x.ready /\ ~x.active
    BY DEF NoRegistration
  <2>3. r \in Regs
    BY <1>1, <2>1, RegisteredFacts DEF Starts, Regs
  <2>4. r = <<f, tok[f].next>>
    OBVIOUS
  <2> HIDE DEF r, x
  <2>5. reg'[r] = x /\ \A q \in Regs \ {r} : reg'[q] = reg[q]
    BY <1>3, <2>1, <2>3 DEF TypeOK
  <2>6. reg[r] = NoRegistration /\ Tidy' /\ ArmsHeld'
    BY <1>1, <1>3, <2>2, <2>4, <2>5, ArmRegisters
  <2>7. ~reg[r].registered /\ ~reg[r].active
    BY <2>6 DEF NoRegistration
  <2>8. Linked'
    <3> SUFFICES ASSUME NEW d \in Channels
                 PROVE  Links(sendq[d], reg', "send", d) /\ Links(recvq[d], reg', "receive", d)
      BY <1>1 DEF Linked
    <3>1. Links(sendq[d], reg, "send", d) /\ Links(recvq[d], reg, "receive", d)
      BY <2>1 DEF Linked
    <3> QED
      BY <2>2, <2>3, <2>5, <2>7, <3>1, SameLinks
  <2>9. Counted'
    <3> SUFFICES ASSUME NEW d \in Channels PROVE Uses(reg', Regs, d) = Uses(reg, Regs, d)
      BY <1>1, <2>1 DEF Counted
    <3> QED
      BY <2>2, <2>5, <2>7 DEF Uses
  <2>10. \A d \in Channels : After(d, buf)
    BY <1>1, <2>1 DEF After, TypeOK
  <2> QED
    BY <1>1, <2>6, <2>8, <2>9, <2>10, AllRest DEF Settled
<1> QED
  BY <1>1, <1>2, <1>3

-----------------------------------------------------------------------------
(* The theorems. *)

\* main created the channels and every frame has a handle to each of them.
LEMMA InitChannels == Init => ChannelsInv
<1> SUFFICES ASSUME Init PROVE ChannelsInv
  OBVIOUS
<1>1. Inductive
  BY InitInductive
<1>2. \A r \in Regs : reg[r] = NoRegistration
  BY DEF Init
<1>3. ~NoRegistration.registered /\ ~NoRegistration.active
  BY DEF NoRegistration
<1>4. Tidy
  BY <1>2, <1>3 DEF Tidy
<1>5. Linked
  BY <1>2, <1>3 DEF Init, Linked, Links, Ordered, Waiters
<1>6. Counted
  <2> SUFFICES ASSUME NEW c \in Channels
               PROVE  refs[c] = Cardinality(Holders(handles, c))
                                  + Cardinality(Uses(reg, Regs, c))
    BY DEF Counted
  <2>1. Holders(handles, c) = Frames /\ refs[c] = Cardinality(Frames)
    BY DEF Init, Holders
  <2>2. Uses(reg, Regs, c) = {}
    BY <1>2, <1>3 DEF Uses
  <2>3. Cardinality({}) = 0 /\ Cardinality(Frames) \in Nat
    BY FramesAssumption, FS_EmptySet, FS_CardinalityType
  <2> QED
    BY <2>1, <2>2, <2>3
<1>7. ArmsHeld /\ Gone /\ SendersBlocked
  BY DEF Init, ArmsHeld, Gone, SendersBlocked
<1> QED
  BY <1>1, <1>4, <1>5, <1>6, <1>7 DEF ChannelsInv, Settled

\* Every step of the runtime keeps the control blocks exact and is a step of
\* FifoChannels.
LEMMA NextAdvances == ChannelsInv /\ [Next]_vars => Inductive' /\ Advances
<1> SUFFICES ASSUME ChannelsInv, [Next]_vars PROVE Inductive' /\ Advances
  OBVIOUS
<1>1. Inductive'
  BY NextInductive DEF ChannelsInv
<1>2. CASE UNCHANGED vars
  BY <1>2, NothingMoves, <1>1 DEF vars
<1>3. ASSUME NEW f \in Frames, NEW c \in Channels, NEW v \in Values,
             TrySend(f, c, v) \/ SendStart(f, c, v)
      PROVE  Advances
  BY <1>3, TrySendAdvances, SendStartAdvances
<1>4. ASSUME NEW f \in Frames, NEW c \in Channels,
             \/ TryReceive(f, c) \/ ReceiveStart(f, c)
             \/ Close(f, c) \/ ReleaseHandle(f, c)
      PROVE  Advances
  BY <1>4, TryReceiveAdvances, ReceiveStartAdvances, CloseAdvances,
     ReleaseHandleAdvances
<1>5. ASSUME NEW f \in Frames, NEW shape \in Shapes, SelectStart(f, shape)
      PROVE  Advances
  BY <1>5, SelectStartAdvances
<1>6. ASSUME NEW f \in Frames,
             \/ ArmSend(f) \/ ArmReceive(f) \/ ArmSleep(f)
             \/ SelectSuspend(f) \/ ImmediateWin(f)
      PROVE  Advances
  BY <1>6, ArmSendAdvances, ArmReceiveAdvances, ArmSleepAdvances,
     SelectSuspendAdvances, ImmediateWinAdvances
<1>7. ASSUME NEW f \in Frames, Resume(f) \/ SelectResume(f) \/ Finish(f) \/ DropFrame(f)
      PROVE  Advances
  BY <1>7, ResumeAdvances, SelectResumeAdvances, FinishAdvances, DropFrameAdvances
<1>8. ASSUME NEW f \in Frames,
             \/ Yield(f) \/ Poll(f)
             \/ EnterDeadline(f) \/ ExitDeadline(f) \/ DeadlineExpire(f)
      PROVE  Advances
  BY <1>8, ExecutorAdvances
<1>9. ASSUME NEW f \in Frames, Cancel(f) \/ DeadlineFailure(f)
      PROVE  Advances
  BY <1>9, CancellationAdvances
<1>10. ASSUME NEW r \in Regs, TimerExpire(r)
       PROVE  Advances
  BY <1>10, TimerExpireAdvances
<1> QED
  BY <1>1, <1>2, <1>3, <1>4, <1>5, <1>6, <1>7, <1>8, <1>9, <1>10 DEF Next

LEMMA ChannelsStay == Spec => []ChannelsInv
BY NextAdvances, InitChannels, PTL DEF Advances, ChannelsInv, Spec

\* A linked waiter can still be claimed: its select has no winner.
LEMMA WaitersClaimable ==
    ASSUME Inductive, Settled
    PROVE  ListsConsistent
<1>1. TypeOK /\ TokenDiscipline /\ Tidy /\ Linked
  BY DEF Inductive, Settled
<1> SUFFICES ASSUME NEW c \in Channels, NEW r \in Regs
             PROVE  /\ r \in Waiters(sendq[c]) <=>
                          reg[r].registered /\ reg[r].op = "send" /\ reg[r].chan = c
                    /\ r \in Waiters(recvq[c]) <=>
                          reg[r].registered /\ reg[r].op = "receive" /\ reg[r].chan = c
                    /\ r \in Waiters(sendq[c]) \cup Waiters(recvq[c]) =>
                          reg[r].active /\ ~reg[r].ready /\ Claimable(r)
  BY DEF ListsConsistent
<1>2. /\ r \in Waiters(sendq[c]) <=>
            reg[r].registered /\ reg[r].op = "send" /\ reg[r].chan = c
      /\ r \in Waiters(recvq[c]) <=>
            reg[r].registered /\ reg[r].op = "receive" /\ reg[r].chan = c
  BY <1>1 DEF Linked, Links
<1>3. ASSUME reg[r].registered, reg[r].op # "sleep"
      PROVE  reg[r].active /\ ~reg[r].ready /\ Claimable(r)
  BY <1>3, <1>1 DEF NoRegistration, Tidy, Owns, Claimable
<1> QED
  BY <1>2, <1>3

LEMMA CountsExact ==
    ASSUME Settled, Gone
    PROVE  ReferencesExact
<1>1. Tidy /\ Linked /\ Counted
  BY DEF Settled
<1> SUFFICES ASSUME NEW c \in Channels
             PROVE  /\ refs[c] = Cardinality({f \in Frames : c \in handles[f]})
                                   + ReferencesOf(Regs, c)
                    /\ refs[c] = 0 => sendq[c] = {} /\ recvq[c] = {} /\ buf[c] = <<>>
  BY DEF ReferencesExact
<1>2. refs[c] = Cardinality(Holders(handles, c)) + Cardinality(Uses(reg, Regs, c))
  BY <1>1 DEF Counted
<1>3. /\ Cardinality(Holders(handles, c)) = Cardinality({f \in Frames : c \in handles[f]})
      /\ Cardinality(Uses(reg, Regs, c)) = ReferencesOf(Regs, c)
  BY DEF Holders, Uses, ReferencesOf
<1>4. /\ Links(sendq[c], reg, "send", c) /\ Links(recvq[c], reg, "receive", c)
      /\ \A r \in Regs : reg[r].registered => (reg[r].active <=> reg[r].op # "sleep")
  BY <1>1 DEF Linked, Tidy
<1>5. /\ sendq[c] # {} => refs[c] # 0
      /\ recvq[c] # {} => refs[c] # 0
  BY <1>2, <1>4, WaitersLive
<1> QED
  BY <1>2, <1>3, <1>5 DEF Gone

\* nomo_channel_release_handle frees a control block exactly when the last
\* frame and the last suspended operation let go of it, and the intrusive
\* lists link exactly the operations that wait and can still be claimed.
THEOREM ControlBlocksAreExact == Spec => []ControlBlocksExact
BY WaitersClaimable, CountsExact, ChannelsStay, PTL DEF ChannelsInv,
   ControlBlocksExact

\* No interleaving of receives, closes, selects, cancellations, deadlines and
\* drops leaves a sender linked on a channel that has room or is closed:
\* promote_sender fills every slot that try_receive frees.
THEOREM NoSenderLeftBehind == Spec => []SendersBlocked
BY ChannelsStay, PTL DEF ChannelsInv

\* Every behaviour of the runtime is one of FifoChannels: hand-offs,
\* promotions, closes, cancellations and the release of the last handle
\* deliver what was accepted, in order and at most once.
THEOREM ChannelsAreFifo == Spec => FifoDelivery
<1>1. Init => Fifo!Init
  <2> SUFFICES ASSUME Init PROVE Fifo!Init
    OBVIOUS
  <2>1. Cardinality(Frames) # 0
    BY FramesAssumption, FS_EmptySet
  <2>2. \A c \in Channels : delivered[c] = <<>> /\ buf[c] = <<>> /\ refs[c] # 0
    BY <2>1 DEF Init
  <2>3. <<>> \o <<>> = <<>>
    OBVIOUS
  <2>4. /\ [c \in Channels |-> delivered[c] \o buf[c]] = [c \in Channels |-> <<>>]
        /\ [c \in Channels |-> refs[c] = 0] = [c \in Channels |-> FALSE]
    BY <2>2, <2>3
  <2>5. delivered = [c \in Channels |-> <<>>] /\ closed = [c \in Channels |-> FALSE]
    BY DEF Init
  <2> QED
    BY <2>4, <2>5 DEF Fifo!Init
<1>2. ChannelsInv /\ [Next]_vars => [Fifo!Next]_(Fifo!vars)
  BY NextAdvances DEF Advances
<1> QED
  BY <1>1, <1>2, ChannelsStay, PTL DEF Spec, FifoDelivery, Fifo!Spec

-----------------------------------------------------------------------------
(* Who is in the ready queue. *)

\* The operation that f is suspended for has its outcome.
Outcome(f) ==
    \/ phase[f] = "plain" /\ reg[<<f, 1>>].ready
    \/ phase[f] = "select" /\ tok[f].winner # 0

Suspended(f) == phase[f] \in {"plain", "select"}

\* f may be in the ready queue.
Callable(f) ==
    \/ phase[f] = "idle" \/ Outcome(f)
    \/ Suspended(f) /\ deadline[f] = "expired"

\* f has to be polled again, and nothing but the ready queue would do it.
Awaited(f) == Outcome(f) \/ (phase[f] = "idle" /\ deadline[f] # "none")

\* A token enqueues its frame when it has a winner and only then, and the
\* winner has its outcome.
TokenWakes(f) ==
    /\ tok[f].active => (tok[f].suspended <=> phase[f] = "select")
    /\ tok[f].enqueued => tok[f].winner # 0
    /\ phase[f] = "select" /\ tok[f].winner # 0 => reg[<<f, tok[f].winner>>].ready

\* A deadline fires on a suspended frame, when the executor has nothing else
\* to do, and that frame is polled next.
TimerWakes(f) ==
    /\ deadline[f] # "none" => phase[f] \notin Over
    /\ deadline[f] = "expired" /\ ~failed =>
          /\ Suspended(f)
          /\ \/ running = None /\ ready = <<f>>
             \/ running = f /\ ready = <<>>

QueueWakes(f) ==
    /\ f \in Elements(ready) => Callable(f) /\ (~failed => running # f)
    /\ ~failed /\ Awaited(f) => running = f \/ f \in Elements(ready)

FrameWakes(f) == TokenWakes(f) /\ TimerWakes(f) /\ QueueWakes(f)

\* No frame is twice in s.
Once(s) == \A i, j \in 1 .. Len(s) : s[i] = s[j] => i = j

WakeInv == Once(ready) /\ \A f \in Frames : FrameWakes(f)

-----------------------------------------------------------------------------
(* The ready queue's operations. *)

\* As many different members of T as T has members are all of T.
LEMMA AllTaken ==
    ASSUME NEW T, IsFiniteSet(T), NEW n \in Nat, n = Cardinality(T),
           NEW g \in [1 .. n -> T], \A i, j \in 1 .. n : g[i] = g[j] => i = j
    PROVE  \A t \in T : \E i \in 1 .. n : g[i] = t
<1> DEFINE S == 1 .. n
<1>1. IsFiniteSet(S) /\ Cardinality(S) = n
  <2>1. 1 \in Int /\ n \in Int
    OBVIOUS
  <2>2. IsFiniteSet(1 .. n) /\ Cardinality(1 .. n) = IF 1 > n THEN 0 ELSE n - 1 + 1
    BY ONLY <2>1, FS_Interval
  <2> QED
    BY <2>2
<1>2. g \in Injection(S, T)
  BY DEF Injection, IsInjective
<1>3. g \in Surjection(S, T)
  <2> HIDE DEF S
  <2> QED
    BY <1>1, <1>2, FS_Injection
<1> QED
  BY <1>3 DEF Surjection

\* Different frames in a queue are at most as many as there are.
LEMMA AtMostFrames ==
    ASSUME NEW s \in Seq(Frames), Once(s)
    PROVE  Len(s) <= Cardinality(Frames)
<1> DEFINE n == Len(s)
           S == 1 .. n
<1>1. n \in Nat /\ s \in [S -> Frames]
  OBVIOUS
<1>2. Cardinality(S) = n
  <2> HIDE DEF n
  <2>1. IsFiniteSet(1 .. n) /\ Cardinality(1 .. n) = IF 1 > n THEN 0 ELSE n - 1 + 1
    BY <1>1, FS_Interval
  <2> QED
    BY <1>1, <2>1
<1>3. s \in Injection(S, Frames)
  BY <1>1 DEF Injection, IsInjective, Once
<1>4. Cardinality(S) <= Cardinality(Frames)
  <2> HIDE DEF S
  <2> QED
    BY <1>3, FramesAssumption, FS_Injection
<1> QED
  BY <1>2, <1>4

\* Frames that are not in the queue are enqueued.
LEMMA EnqueueQueue ==
    ASSUME TypeOK, Once(ready), NEW fs \in Seq(Frames), Once(fs),
           Elements(fs) \cap Elements(ready) = {}, Enqueue(fs)
    PROVE  /\ Once(ready') /\ Elements(ready') \subseteq Elements(ready) \cup Elements(fs)
           /\ failed => failed'
           /\ ~failed' => Elements(ready') = Elements(ready) \cup Elements(fs)
           /\ Cardinality(Frames) <= ReadyCapacity => failed' = failed
<1> DEFINE all == ready \o fs
           n == IF Len(all) <= ReadyCapacity THEN Len(all) ELSE ReadyCapacity
<1>1. ready \in Seq(Frames) /\ failed \in BOOLEAN
  BY DEF TypeOK
<1>2. /\ all \in Seq(Frames) /\ Len(all) = Len(ready) + Len(fs)
      /\ Len(ready) \in Nat /\ Len(fs) \in Nat
      /\ \A i \in 1 .. Len(ready) : all[i] = ready[i]
      /\ \A i \in 1 .. Len(fs) : all[Len(ready) + i] = fs[i]
  BY <1>1
<1>3. /\ \A i \in 1 .. Len(all) :
            i \in 1 .. Len(ready) \/ (i - Len(ready) \in 1 .. Len(fs)
                                      /\ all[i] = fs[i - Len(ready)])
  <2> SUFFICES ASSUME NEW i \in 1 .. Len(all), i \notin 1 .. Len(ready)
               PROVE  i - Len(ready) \in 1 .. Len(fs) /\ all[i] = fs[i - Len(ready)]
    OBVIOUS
  <2>1. i - Len(ready) \in 1 .. Len(fs) /\ Len(ready) + (i - Len(ready)) = i
    BY <1>2
  <2> QED
    BY <1>2, <2>1
<1>4. /\ ready' = SubSeq(all, 1, n) /\ (failed' <=> failed \/ Len(all) > ReadyCapacity)
  BY DEF Enqueue
<1>5. Once(all)
  <2> SUFFICES ASSUME NEW i \in 1 .. Len(all), NEW j \in 1 .. Len(all), all[i] = all[j]
               PROVE  i = j
    BY DEF Once
  <2>1. CASE i \in 1 .. Len(ready) /\ j \in 1 .. Len(ready)
    BY <1>2, <2>1 DEF Once
  <2>2. CASE i \in 1 .. Len(ready) /\ j \notin 1 .. Len(ready)
    <3>1. all[i] \in Elements(ready) /\ all[j] \in Elements(fs)
      BY <1>2, <1>3, <2>2 DEF Elements
    <3> QED
      BY <3>1
  <2>3. CASE i \notin 1 .. Len(ready) /\ j \in 1 .. Len(ready)
    <3>1. all[j] \in Elements(ready) /\ all[i] \in Elements(fs)
      BY <1>2, <1>3, <2>3 DEF Elements
    <3> QED
      BY <3>1
  <2>4. CASE i \notin 1 .. Len(ready) /\ j \notin 1 .. Len(ready)
    BY <1>3, <2>4, <1>2 DEF Once
  <2> QED
    BY <2>1, <2>2, <2>3, <2>4
<1>6. Elements(all) = Elements(ready) \cup Elements(fs)
  <2>1. Elements(all) \subseteq Elements(ready) \cup Elements(fs)
    BY <1>2, <1>3 DEF Elements
  <2>2. Elements(ready) \subseteq Elements(all)
    BY <1>2 DEF Elements
  <2>3. Elements(fs) \subseteq Elements(all)
    <3> SUFFICES ASSUME NEW i \in 1 .. Len(fs) PROVE fs[i] \in Elements(all)
      BY DEF Elements
    <3>1. Len(ready) + i \in 1 .. Len(all) /\ all[Len(ready) + i] = fs[i]
      BY <1>2
    <3> QED
      BY <3>1 DEF Elements
  <2> QED
    BY <2>1, <2>2, <2>3
<1>7. n \in Nat /\ n <= Len(all) /\ (n = Len(all) <=> ~(Len(all) > ReadyCapacity))
  BY <1>2, ReadyCapacityAssumption
<1>8. Cardinality(Frames) <= ReadyCapacity => ~(Len(all) > ReadyCapacity)
  <2> HIDE DEF all
  <2>0. all \in Seq(Frames) /\ Len(all) \in Nat
    BY <1>2
  <2>1. Len(all) <= Cardinality(Frames) /\ Len(all) \in Nat
    BY ONLY <2>0, <1>5, AtMostFrames
  <2>2. Cardinality(Frames) \in Nat
    BY FramesAssumption, FS_CardinalityType
  <2> QED
    BY <2>1, <2>2, ReadyCapacityAssumption
<1> HIDE DEF all, n
<1>9. /\ Len(ready') = n /\ \A i \in 1 .. n : ready'[i] = all[i]
      /\ 1 .. n \subseteq 1 .. Len(all)
  BY ONLY <1>2, <1>4, <1>7, SubSeqProperties
<1>10. Once(ready') /\ Elements(ready') \subseteq Elements(all)
  BY <1>5, <1>9 DEF Once, Elements
<1>11. n = Len(all) => Elements(ready') = Elements(all)
  BY <1>9 DEF Elements
<1> QED
  BY <1>1, <1>4, <1>6, <1>7, <1>8, <1>10, <1>11

\* Cancelled frames leave the queue, and no other frame does.
LEMMA CancelReadyQueue ==
    ASSUME TypeOK, Once(ready), NEW S, CancelReady(S)
    PROVE  Once(ready') /\ Elements(ready') = Elements(ready) \ S
<1> DEFINE keep == {i \in DOMAIN ready : ready[i] \notin S}
           n == Cardinality(keep)
<1>1. ready \in Seq(Frames) /\ DOMAIN ready = 1 .. Len(ready) /\ Len(ready) \in Nat
  BY DEF TypeOK
<1>2. IsFiniteSet(keep) /\ n \in Nat
  <2> DEFINE m == Len(ready)
  <2>1. IsFiniteSet(1 .. m)
    BY <1>1, FS_Interval
  <2>2. keep \in SUBSET (1 .. m)
    BY <1>1
  <2> HIDE DEF keep
  <2> QED
    BY <2>1, <2>2, FS_Subset, FS_CardinalityType
<1>3. PICK from \in [1 .. n -> keep] :
         /\ \A i, j \in 1 .. n : i < j => from[i] < from[j]
         /\ ready' = [i \in 1 .. n |-> ready[from[i]]]
  BY DEF CancelReady
<1>4. \A k \in keep : k \in 1 .. Len(ready) /\ ready[k] \notin S
  BY <1>1
<1>5. \A f \in Elements(ready) \ S : \E k \in keep : ready[k] = f
  BY <1>1 DEF Elements
<1>6. n = Cardinality(keep)
  OBVIOUS
<1> HIDE DEF keep, n
<1>7. \A i, j \in 1 .. n : from[i] = from[j] => i = j
  <2> SUFFICES ASSUME NEW i \in 1 .. n, NEW j \in 1 .. n, from[i] = from[j], i # j
               PROVE  FALSE
    OBVIOUS
  <2>1. i < j \/ j < i
    BY <1>2
  <2>2. from[i] \in 1 .. Len(ready) /\ from[j] \in 1 .. Len(ready)
    BY <1>3, <1>4
  <2>3. from[i] < from[j] \/ from[j] < from[i]
    BY <1>3, <2>1
  <2> QED
    BY <1>1, <2>2, <2>3
<1>8. \A k \in keep : \E i \in 1 .. n : from[i] = k
  BY <1>2, <1>3, <1>6, <1>7, AllTaken
<1>9. Len(ready') = n /\ \A i \in 1 .. n : ready'[i] = ready[from[i]]
  BY <1>1, <1>3, <1>4, <1>2, IsASeq, LenProperties
<1>10. Once(ready')
  <2> SUFFICES ASSUME NEW i \in 1 .. n, NEW j \in 1 .. n, ready[from[i]] = ready[from[j]]
               PROVE  i = j
    BY <1>9 DEF Once
  <2>1. from[i] \in 1 .. Len(ready) /\ from[j] \in 1 .. Len(ready)
    BY <1>3, <1>4
  <2>2. from[i] = from[j]
    BY <2>1 DEF Once
  <2> QED
    BY <1>7, <2>2
<1>11. Elements(ready') = Elements(ready) \ S
  <2>1. Elements(ready') \subseteq Elements(ready) \ S
    BY <1>3, <1>4, <1>9 DEF Elements
  <2>2. Elements(ready) \ S \subseteq Elements(ready')
    <3> SUFFICES ASSUME NEW f \in Elements(ready) \ S PROVE f \in Elements(ready')
      OBVIOUS
    <3>1. PICK k \in keep : ready[k] = f
      BY <1>5
    <3>2. PICK i \in 1 .. n : from[i] = k
      BY <1>8
    <3> QED
      BY <1>9, <3>1, <3>2 DEF Elements
  <2> QED
    BY <2>1, <2>2
<1> QED
  BY <1>10, <1>11

-----------------------------------------------------------------------------
(* What a step leaves alone. *)

\* A frame that a step does not touch.
LEMMA FrameKeeps ==
    ASSUME TypeOK, ~failed, NEW g \in Frames, FrameWakes(g),
           tok'[g] = tok[g], phase'[g] = phase[g], deadline'[g] = deadline[g],
           \A a \in Arms : reg'[<<g, a>>].ready <=> reg[<<g, a>>].ready,
           g \in Elements(ready') <=> g \in Elements(ready),
           running' = g <=> running = g,
           deadline[g] = "expired" => ready' = ready /\ running' = running
    PROVE  FrameWakes(g)'
<1>1. 1 \in Arms /\ (tok[g].winner # 0 => tok[g].winner \in Arms)
  BY MaxArmsAssumption DEF TypeOK, Tokens, Arms
<1>2. Outcome(g)' <=> Outcome(g)
  BY <1>1 DEF Outcome
<1>3. (Suspended(g)' <=> Suspended(g)) /\ (Callable(g)' <=> Callable(g)) /\ (Awaited(g)' <=> Awaited(g))
  BY <1>2 DEF Suspended, Callable, Awaited
<1>4. TokenWakes(g)'
  BY <1>1 DEF FrameWakes, TokenWakes
<1>5. TimerWakes(g)'
  BY <1>3 DEF FrameWakes, TimerWakes
<1>6. QueueWakes(g)'
  BY <1>3 DEF FrameWakes, QueueWakes
<1> QED
  BY <1>4, <1>5, <1>6 DEF FrameWakes

\* While a frame is polled it is not in the queue, and no other frame has a
\* deadline that fired and was not answered.
LEMMA RunnerAlone ==
    ASSUME WakeInv, ~failed, NEW f \in Frames, running = f
    PROVE  /\ f \notin Elements(ready)
           /\ \A g \in Frames \ {f} : deadline[g] # "expired"
           /\ ~Suspended(f) => deadline[f] # "expired"
<1>1. \A g \in Frames : FrameWakes(g)
  BY DEF WakeInv
<1>2. f \notin Elements(ready)
  BY <1>1 DEF FrameWakes, QueueWakes
<1>3. ASSUME NEW g \in Frames, deadline[g] = "expired" PROVE Suspended(g) /\ g = f
  BY <1>1, <1>3, FramesAssumption DEF FrameWakes, TimerWakes
<1> QED
  BY <1>2, <1>3

LEMMA IdleAlone ==
    ASSUME WakeInv, Idle
    PROVE  \A g \in Frames : deadline[g] # "expired" /\ g \notin Elements(ready)
<1>1. \A g \in Frames : FrameWakes(g)
  BY DEF WakeInv
<1>2. ASSUME NEW g \in Frames, deadline[g] = "expired" PROVE FALSE
  BY <1>1, <1>2, FramesAssumption DEF FrameWakes, TimerWakes, Idle
<1>3. Elements(ready) = {}
  BY DEF Idle, Elements
<1> QED
  BY <1>2, <1>3

\* A step of the frame that is polled, which leaves the queue and the other
\* frames alone and stops only where nothing has happened yet.
LEMMA OnlyFrame ==
    ASSUME TypeOK, WakeInv, ~failed, NEW f \in Frames, running = f,
           ready' = ready, running' = f \/ (running' = None /\ ~Awaited(f)'),
           \A g \in Frames \ {f} :
              tok'[g] = tok[g] /\ phase'[g] = phase[g] /\ deadline'[g] = deadline[g],
           \A r \in Regs : r[1] # f => (reg'[r].ready <=> reg[r].ready),
           TokenWakes(f)', TimerWakes(f)'
    PROVE  WakeInv'
<1>1. Once(ready) /\ \A g \in Frames : FrameWakes(g)
  BY DEF WakeInv
<1>2. f \notin Elements(ready) /\ \A g \in Frames \ {f} : deadline[g] # "expired"
  BY RunnerAlone
<1>3. ASSUME NEW g \in Frames \ {f} PROVE FrameWakes(g)'
  BY FramesAssumption, <1>1, <1>2, FrameKeeps DEF Regs
<1>4. Once(ready')
  BY <1>1
<1>5. QueueWakes(f)'
  BY <1>2 DEF QueueWakes
<1> QED
  BY <1>3, <1>4, <1>5 DEF WakeInv, FrameWakes

-----------------------------------------------------------------------------
(* Deliveries. *)

\* The frames of the winners that wake theirs.
Woken(won) == {r[1] : r \in {s \in DOMAIN won : Wakes(s)}}

\* The operation of a winner was pending: its frame is suspended, or starts
\* the select of which the winner is an arm.
LEMMA WinnerPending ==
    ASSUME TypeOK, TokenDiscipline, Tidy, WakeInv, NEW r \in Regs, reg[r].registered
    PROVE  /\ r = <<r[1], r[2]>> /\ r[1] \in Frames /\ r[2] \in Arms /\ ~Outcome(r[1])
           /\ ~reg[r].token => phase[r[1]] = "plain" /\ r[2] = 1 /\ Wakes(r)
           /\ reg[r].token =>
                 /\ tok[r[1]].active /\ tok[r[1]].winner = 0 /\ ~tok[r[1]].enqueued
                 /\ phase[r[1]] \in {"starting", "claiming", "select"}
                 /\ Wakes(r) <=> phase[r[1]] = "select"
                 /\ tok[r[1]].suspended <=> phase[r[1]] = "select"
<1>1. r = <<r[1], r[2]>> /\ r[1] \in Frames /\ r[2] \in Arms
  BY DEF Regs
<1>2. Owns(r) /\ ~reg[r].ready /\ (reg[r].token => tok[r[1]].winner = 0)
  BY DEF NoRegistration, Tidy
<1>3. TokenWakes(r[1])
  BY <1>1 DEF WakeInv, FrameWakes
<1>4. tok[r[1]].active <=> phase[r[1]] \in {"starting", "claiming", "select"}
  BY <1>1 DEF TokenDiscipline
<1>5. CASE ~reg[r].token
  BY <1>2, <1>5, <1>1 DEF Owns, Wakes, Outcome
<1>6. CASE reg[r].token
  <2>1. tok[r[1]].active /\ tok[r[1]].winner = 0
    BY <1>2, <1>6 DEF Owns
  <2>2. ~tok[r[1]].enqueued /\ (tok[r[1]].suspended <=> phase[r[1]] = "select")
    BY <1>3, <2>1 DEF TokenWakes
  <2>3. Wakes(r) <=> phase[r[1]] = "select"
    BY <1>6, <2>2 DEF Wakes
  <2>4. ~Outcome(r[1])
    BY <1>4, <2>1 DEF Outcome
  <2> QED
    BY <1>1, <1>4, <1>6, <2>1, <2>2, <2>3, <2>4
<1> QED
  BY <1>5, <1>6

\* The ready queue has a slot for every frame.
Roomy == Cardinality(Frames) <= ReadyCapacity

\* What a delivery does to the tokens and outcomes of the winners' frames, and
\* to those of the others.
LEMMA DeliverOutcomes ==
    ASSUME TypeOK, TokenDiscipline, Tidy, WakeInv, NEW won, Winners(won),
           NEW stale, NEW wake, NEW ring, Deliver(won, stale, wake, ring)
    PROVE  /\ \A r \in DOMAIN won :
                 /\ reg'[r] = won[r]
                 /\ reg[r].token => tok'[r[1]] = ClaimedToken(r[1], r[2])
                 /\ ~reg[r].token => tok'[r[1]] = tok[r[1]]
           /\ \A g \in Frames : (\A r \in DOMAIN won : r[1] # g) =>
                 /\ tok'[g] = tok[g]
                 /\ \A a \in Arms : reg'[<<g, a>>].ready <=> reg[<<g, a>>].ready
<1> DEFINE lost == UNION {Losers(r) : r \in DOMAIN won}
           claims(f) == \E a \in Arms : <<f, a>> \in DOMAIN won
                                           /\ reg[<<f, a>>].token
           arm(f) == CHOOSE a \in Arms : <<f, a>> \in DOMAIN won
<1>1. /\ reg' = [r \in Regs |->
                    IF r \in lost THEN NoRegistration
                    ELSE IF r \in DOMAIN won THEN won[r]
                    ELSE IF r \in stale
                    THEN [reg[r] EXCEPT !.registered = FALSE]
                    ELSE reg[r]]
      /\ tok' = [f \in Frames |-> IF claims(f) THEN ClaimedToken(f, arm(f))
                                               ELSE tok[f]]
  BY DEF Deliver
<1>2. \A r \in DOMAIN won : r \in Regs /\ reg[r].registered
  BY DEF Winners
<1>3. \A r \in DOMAIN won :
         /\ r = <<r[1], r[2]>> /\ r[1] \in Frames /\ r[2] \in Arms
         /\ ~reg[r].token => phase[r[1]] = "plain" /\ r[2] = 1
         /\ reg[r].token => phase[r[1]] # "plain"
  BY <1>2, WinnerPending
<1>4. \A q \in lost : \E r \in DOMAIN won : reg[r].token /\ q[1] = r[1] /\ q[2] # r[2]
  BY DEF Losers
<1>5. \A r, s \in DOMAIN won : r[1] = s[1] => r = s
  <2> SUFFICES ASSUME NEW r \in DOMAIN won, NEW s \in DOMAIN won, r[1] = s[1]
               PROVE  r = s
    OBVIOUS
  <2>1. CASE reg[r].token
    BY <2>1 DEF Winners
  <2>2. CASE ~reg[r].token
    BY <1>3, <2>2
  <2> QED
    BY <2>1, <2>2
<1>6. \A r \in DOMAIN won : r \notin lost
  BY <1>4, <1>5
<1>7. \A g \in Frames, a \in Arms : <<g, a>> \in Regs /\ reg[<<g, a>>] \in Registrations
  BY DEF Regs, TypeOK
<1> HIDE DEF lost
<1>8. ASSUME NEW r \in DOMAIN won
      PROVE  /\ reg'[r] = won[r]
             /\ reg[r].token => tok'[r[1]] = ClaimedToken(r[1], r[2])
             /\ ~reg[r].token => tok'[r[1]] = tok[r[1]]
  <2>1. reg'[r] = won[r]
    BY <1>1, <1>2, <1>6
  <2>2. arm(r[1]) = r[2]
    BY <1>3, <1>5
  <2>3. claims(r[1]) <=> reg[r].token
    BY <1>3, <1>5
  <2> HIDE DEF claims, arm
  <2>4. r[1] \in Frames
    BY <1>3
  <2> QED
    BY <1>1, <2>1, <2>2, <2>3, <2>4
<1>9. ASSUME NEW g \in Frames, \A r \in DOMAIN won : r[1] # g
      PROVE  /\ tok'[g] = tok[g]
             /\ \A a \in Arms : reg'[<<g, a>>].ready <=> reg[<<g, a>>].ready
  <2>1. ~claims(g)
    BY <1>9
  <2>2. tok'[g] = tok[g]
    <3> HIDE DEF claims, arm
    <3> QED
      BY <1>1, <2>1
  <2>3. ASSUME NEW a \in Arms PROVE reg'[<<g, a>>].ready <=> reg[<<g, a>>].ready
    <3> DEFINE q == <<g, a>>
    <3>1. q \in Regs /\ reg[q] \in Registrations /\ q[1] = g
      BY <1>7
    <3>2. q \notin DOMAIN won /\ q \notin lost
      BY <1>4, <1>9, <3>1
    <3> HIDE DEF q
    <3>3. reg'[q] = reg[q] \/ reg'[q] = [reg[q] EXCEPT !.registered = FALSE]
      BY <1>1, <3>1, <3>2
    <3>4. reg'[q].ready <=> reg[q].ready
      BY <3>1, <3>3 DEF Registrations
    <3> QED
      BY <3>4 DEF q
  <2> QED
    BY <2>2, <2>3
<1> QED
  BY <1>8, <1>9

\* Every call that completes operations takes each suspended frame that it
\* decides to the ready queue, once.
LEMMA DeliverWakes ==
    ASSUME Inductive, Settled, WakeInv, ~failed, NoArmStarts, deadline' = deadline,
           \A g \in Frames : deadline[g] # "expired",
           running = None \/ ~Suspended(running),
           NEW won, Winners(won), \A r \in DOMAIN won : won[r].ready,
           NEW stale, NEW wake \in Seq(Frames), Once(wake),
           Elements(wake) = Woken(won), NEW ring,
           Deliver(won, stale, wake, ring)
    PROVE  WakeInv' /\ (Roomy => ~failed')
<1>1. TypeOK /\ TokenDiscipline /\ Tidy
  BY DEF Inductive, Settled
<1>2. Once(ready) /\ \A f \in Frames : FrameWakes(f)
  BY DEF WakeInv
<1>3. \A r \in DOMAIN won :
         /\ r = <<r[1], r[2]>> /\ r[1] \in Frames /\ r[2] \in Arms /\ ~Outcome(r[1])
         /\ reg'[r] = won[r]
         /\ ~reg[r].token => /\ phase[r[1]] = "plain" /\ r[2] = 1 /\ Wakes(r)
                             /\ tok'[r[1]] = tok[r[1]]
         /\ reg[r].token =>
               /\ tok[r[1]].active /\ tok[r[1]].winner = 0 /\ ~tok[r[1]].enqueued
               /\ phase[r[1]] \in {"starting", "claiming", "select"}
               /\ Wakes(r) <=> phase[r[1]] = "select"
               /\ tok[r[1]].suspended <=> phase[r[1]] = "select"
               /\ tok'[r[1]] = ClaimedToken(r[1], r[2])
  BY <1>1, WinnerPending, DeliverOutcomes DEF Winners
<1>4. \A g \in Frames : (\A r \in DOMAIN won : r[1] # g) =>
         /\ tok'[g] = tok[g]
         /\ \A a \in Arms : reg'[<<g, a>>].ready <=> reg[<<g, a>>].ready
  BY <1>1, DeliverOutcomes
<1>5. \A g \in Frames : g \in Woken(won) =>
         ~Outcome(g) /\ Suspended(g) /\ g \notin Elements(ready)
  <2> SUFFICES ASSUME NEW r \in DOMAIN won, Wakes(r)
               PROVE  ~Outcome(r[1]) /\ Suspended(r[1]) /\ r[1] \notin Elements(ready)
    BY DEF Woken
  <2>1. ~Outcome(r[1]) /\ Suspended(r[1]) /\ r[1] \in Frames
    BY <1>3 DEF Suspended
  <2>2. ~Callable(r[1])
    BY <2>1 DEF Callable, Suspended
  <2> QED
    BY <1>2, <2>1, <2>2 DEF FrameWakes, QueueWakes
<1>6. /\ Once(ready') /\ Elements(ready') \subseteq Elements(ready) \cup Woken(won)
      /\ ~failed' => Elements(ready') = Elements(ready) \cup Woken(won)
      /\ Roomy => ~failed'
  <2>1. Enqueue(wake) /\ Once(ready)
    BY <1>2 DEF Deliver
  <2>2. Elements(wake) \cap Elements(ready) = {}
    BY <1>5 DEF Elements
  <2> QED
    BY <1>1, <2>1, <2>2, EnqueueQueue DEF Roomy
<1>7. running' = running /\ \A g \in Frames :
         \/ phase'[g] = phase[g]
         \/ phase[g] = "starting" /\ phase'[g] = "claiming"
  BY <1>1 DEF NoArmStarts, TypeOK
<1>8. ASSUME NEW g \in Frames, phase[g] \in {"starting", "claiming"}
      PROVE  FrameWakes(g)'
  <2>1. phase'[g] \in {"starting", "claiming"}
    BY <1>7, <1>8
  <2>2. running = g /\ tok[g].active
    BY <1>1, <1>8 DEF TokenDiscipline
  <2>3. ~tok[g].suspended /\ (tok[g].enqueued => tok[g].winner # 0)
    BY <1>2, <1>8, <2>2 DEF FrameWakes, TokenWakes
  <2>4. ~tok'[g].suspended /\ (tok'[g].enqueued => tok'[g].winner # 0)
    <3>1. CASE \A r \in DOMAIN won : r[1] # g
      BY <1>4, <2>3, <3>1
    <3>2. ASSUME NEW r \in DOMAIN won, r[1] = g
          PROVE  ~tok'[g].suspended /\ (tok'[g].enqueued => tok'[g].winner # 0)
      <4>0. tok[g] \in Tokens
        BY <1>1 DEF TypeOK
      <4>1. tok'[g] = ClaimedToken(g, r[2]) /\ ~tok[g].enqueued
        BY <1>1, <1>3, <1>8, <3>2
      <4> QED
        BY <2>3, <4>0, <4>1 DEF ClaimedToken, Tokens
    <3> QED
      BY <3>1, <3>2
  <2>5. TokenWakes(g)'
    BY <2>1, <2>4 DEF TokenWakes
  <2>6. TimerWakes(g)'
    BY <2>1 DEF TimerWakes, Over
  <2>7. g \notin Elements(ready) /\ g \notin Woken(won)
    BY <1>2, <1>5, <1>8, <2>2 DEF FrameWakes, QueueWakes, Suspended
  <2>8. ~Outcome(g)' /\ phase'[g] # "idle"
    BY <2>1 DEF Outcome
  <2>9. QueueWakes(g)'
    BY <1>6, <2>7, <2>8 DEF QueueWakes, Awaited
  <2> QED
    BY <2>5, <2>6, <2>9 DEF FrameWakes
<1>9. ASSUME NEW g \in Frames, phase[g] \notin {"starting", "claiming"},
             \A r \in DOMAIN won : r[1] # g
      PROVE  FrameWakes(g)'
  <2>1. phase'[g] = phase[g]
    BY <1>7, <1>9
  <2>2. g \notin Woken(won)
    BY <1>9 DEF Woken
  <2>3. CASE failed'
    <3>1. TokenWakes(g)' /\ TimerWakes(g)' /\ QueueWakes(g)'
      <4>1. tok[g].winner # 0 => tok[g].winner \in Arms
        BY <1>1 DEF TypeOK, Tokens, Arms
      <4>2. TokenWakes(g)'
        BY <1>2, <1>4, <1>9, <2>1, <4>1 DEF FrameWakes, TokenWakes
      <4>3. TimerWakes(g)'
        BY <1>2, <2>1, <2>3 DEF FrameWakes, TimerWakes
      <4>4. Callable(g)' <=> Callable(g)
        BY MaxArmsAssumption, <1>4, <1>9, <2>1 DEF Arms, Callable, Outcome,
           Suspended
      <4>5. QueueWakes(g)'
        BY <1>2, <1>6, <2>2, <2>3, <4>4 DEF FrameWakes, QueueWakes
      <4> QED
        BY <4>2, <4>3, <4>5
    <3> QED
      BY <3>1 DEF FrameWakes
  <2>4. CASE ~failed'
    BY <1>6, <2>2, <2>4, <1>2, <1>4, <1>9, <1>1, <1>7, <2>1, FrameKeeps
  <2> QED
    BY <2>3, <2>4
<1>10. ASSUME NEW g \in Frames, phase[g] \notin {"starting", "claiming"},
              NEW r \in DOMAIN won, r[1] = g
       PROVE  FrameWakes(g)'
  <2>1. phase'[g] = phase[g] /\ Suspended(g) /\ Wakes(r)
    BY <1>3, <1>7, <1>10 DEF Suspended
  <2>2. g \in Woken(won) /\ running # g
    BY <1>10, <2>1, FramesAssumption DEF Woken
  <2>3. reg'[r].ready /\ r = <<g, r[2]>> /\ r[2] \in Arms /\ r[2] # 0
    BY <1>3, <1>10 DEF Arms
  <2>4. TokenWakes(g)' /\ Outcome(g)'
    <3>1. CASE reg[r].token
      <4>1. /\ tok'[g] = ClaimedToken(g, r[2]) /\ tok[g] \in Tokens
            /\ phase[g] = "select" /\ tok[g].suspended
        BY <1>1, <1>3, <1>10, <3>1 DEF TypeOK
      <4>2. tok'[g].winner = r[2] /\ tok'[g].suspended
        BY <4>1 DEF ClaimedToken, Tokens
      <4> QED
        BY <2>1, <2>3, <4>1, <4>2 DEF TokenWakes, Outcome
    <3>2. CASE ~reg[r].token
      <4>1. tok'[g] = tok[g] /\ phase[g] = "plain" /\ r[2] = 1
        BY <1>3, <1>10, <3>2
      <4>2. TokenWakes(g)'
        BY <1>2, <2>1, <4>1 DEF FrameWakes, TokenWakes
      <4> QED
        BY <2>1, <2>3, <4>1, <4>2 DEF Outcome
    <3> QED
      BY <3>1, <3>2
  <2>5. TimerWakes(g)'
    BY <2>1 DEF TimerWakes, Suspended, Over
  <2>6. QueueWakes(g)'
    BY <1>6, <1>7, <2>2, <2>4 DEF QueueWakes, Callable
  <2> QED
    BY <2>4, <2>5, <2>6 DEF FrameWakes
<1> QED
  BY <1>6, <1>8, <1>9, <1>10 DEF WakeInv

-----------------------------------------------------------------------------
(* The calls that complete operations. *)

LEMMA OneWakes ==
    ASSUME NEW r \in Regs, NEW x
    PROVE  /\ WakeOf(r) \in Seq(Frames) /\ Once(WakeOf(r))
           /\ Elements(WakeOf(r)) = Woken([y \in {r} |-> x])
<1>1. r[1] \in Frames
  BY DEF Regs
<1>2. CASE Wakes(r)
  BY <1>2, <1>1 DEF WakeOf, Woken, Once, Elements
<1>3. CASE ~Wakes(r)
  BY <1>3 DEF WakeOf, Woken, Once, Elements
<1> QED
  BY <1>2, <1>3

LEMMA NoneWakes ==
    <<>> \in Seq(Frames) /\ Once(<<>>) /\ Elements(<<>>) = Woken(NoWinner)
BY NoWinnerFacts DEF Once, Elements, Woken

\* A frame whose code runs completes the operations of others.
Completing(f) ==
    /\ Inductive /\ Settled /\ WakeInv /\ ~failed
    /\ NoArmStarts /\ deadline' = deadline
    /\ f \in Frames /\ running = f /\ ~Suspended(f)

Woke == WakeInv' /\ (Roomy => ~failed')

LEMMA OneCompletes ==
    ASSUME NEW f, Completing(f), NEW r \in Regs, reg[r].registered, NEW x,
           x.ready, Winners([y \in {r} |-> x]), NEW stale, NEW ring,
           Deliver([y \in {r} |-> x], stale, WakeOf(r), ring)
    PROVE  Woke
<1> DEFINE won == [y \in {r} |-> x]
           wake == WakeOf(r)
<1>1. /\ Inductive /\ Settled /\ WakeInv /\ ~failed /\ NoArmStarts /\ deadline' = deadline
      /\ running = None \/ ~Suspended(running)
      /\ \A g \in Frames : deadline[g] # "expired"
  BY RunnerAlone DEF Completing
<1>2. wake \in Seq(Frames) /\ Once(wake) /\ Elements(wake) = Woken(won)
  BY OneWakes
<1>3. Winners(won) /\ (\A q \in DOMAIN won : won[q].ready) /\ Deliver(won, stale, wake, ring)
  OBVIOUS
<1> HIDE DEF won, wake
<1> QED
  BY ONLY <1>1, <1>2, <1>3, DeliverWakes DEF Woke

LEMMA NoneCompletes ==
    ASSUME NEW f, Completing(f), NEW stale, NEW ring, Deliver(NoWinner, stale, <<>>, ring)
    PROVE  Woke
<1> DEFINE won == NoWinner
           wake == <<>>
<1>1. /\ Inductive /\ Settled /\ WakeInv /\ ~failed /\ NoArmStarts /\ deadline' = deadline
      /\ running = None \/ ~Suspended(running)
      /\ \A g \in Frames : deadline[g] # "expired"
  BY RunnerAlone DEF Completing
<1>2. wake \in Seq(Frames) /\ Once(wake) /\ Elements(wake) = Woken(won)
  BY NoneWakes
<1>3. Winners(won) /\ (\A q \in DOMAIN won : won[q].ready) /\ Deliver(won, stale, wake, ring)
  BY NoneWins, NoWinnerFacts
<1> HIDE DEF won, wake
<1> QED
  BY ONLY <1>1, <1>2, <1>3, DeliverWakes DEF Woke

\* try_send and try_receive wake the operation that they complete.
LEMMA CallWakes ==
    ASSUME NEW f, Completing(f), NEW c \in Channels, NEW v \in Values,
           \/ TrySendSucceeds(c, v) \/ TakeFromRing(c)
    PROVE  Woke
<1>1. TypeOK /\ Linked
  BY DEF Completing, Inductive, Settled
<1>2. CASE HandOff(c, v)
  <2>1. PICK r \in Regs :
           /\ IsHead(Unlink(recvq[c], Stale(recvq[c])), r)
           /\ Deliver([x \in {r} |-> HandedTo(r, v)], Stale(recvq[c]), WakeOf(r), buf)
    BY <1>2 DEF HandOff
  <2>2. reg[r].registered /\ reg[r] \in Registrations
    BY <1>1, <2>1, WaiterFacts DEF TypeOK
  <2> DEFINE x == HandedTo(r, v)
  <2>3. x.ready /\ Winners([y \in {r} |-> x])
    BY <1>1, <2>2, OutcomeFacts DEF HandedTo, Registrations
  <2>4. Deliver([y \in {r} |-> x], Stale(recvq[c]), WakeOf(r), buf)
    BY <2>1
  <2> HIDE DEF x
  <2> QED
    BY <2>2, <2>3, <2>4, OneCompletes
<1>3. CASE PutInRing(c, v)
  BY <1>3, NoneCompletes DEF PutInRing
<1>4. CASE TakeFromRing(c)
  <2> DEFINE stale == Stale(sendq[c])
             popped == [buf EXCEPT ![c] = Tail(@)]
  <2>1. \/ Deliver(NoWinner, stale, <<>>, popped)
        \/ \E s \in Regs :
              /\ IsHead(Unlink(sendq[c], stale), s)
              /\ Deliver([x \in {s} |-> Promoted(s)], stale, WakeOf(s),
                         [popped EXCEPT ![c] = Append(@, reg[s].value)])
    BY <1>4 DEF TakeFromRing
  <2>2. CASE Deliver(NoWinner, stale, <<>>, popped)
    BY <2>2, NoneCompletes
  <2>3. ASSUME NEW s \in Regs, IsHead(Unlink(sendq[c], stale), s),
               Deliver([x \in {s} |-> Promoted(s)], stale, WakeOf(s),
                       [popped EXCEPT ![c] = Append(@, reg[s].value)])
        PROVE  Woke
    <3>1. reg[s].registered /\ reg[s] \in Registrations
      BY <1>1, <2>3, WaiterFacts DEF TypeOK
    <3> DEFINE x == Promoted(s)
               ring == [popped EXCEPT ![c] = Append(@, reg[s].value)]
    <3>2. x.ready /\ Winners([y \in {s} |-> x])
      BY <1>1, <3>1, OutcomeFacts DEF Promoted, Registrations
    <3>3. Deliver([y \in {s} |-> x], stale, WakeOf(s), ring)
      BY <2>3
    <3> HIDE DEF x, ring, stale
    <3> QED
      BY <3>1, <3>2, <3>3, OneCompletes
  <2> QED
    BY <2>1, <2>2, <2>3
<1> QED
  BY <1>2, <1>3, <1>4 DEF TrySendSucceeds

\* Some of the registrations of S complete.
Delivers(S) ==
    \E won, stale, wake, ring :
        /\ Winners(won) /\ DOMAIN won \subseteq S
        /\ Deliver(won, stale, wake, ring)

\* A close wakes every operation that waits on the channel.
LEMMA CloseWakes ==
    ASSUME ChannelsInv, NEW f, Completing(f), NEW c \in Channels, Close(f, c)
    PROVE  Woke /\ Delivers(Regs)
<1> DEFINE waiting == Waiters(sendq[c]) \cup Waiters(recvq[c])
           ahead(r, s) ==
             \/ <<r, s>> \in sendq[c] \cup recvq[c]
             \/ r \in Waiters(sendq[c]) /\ s \in Waiters(recvq[c])
           first == {r \in waiting :
                       /\ Claimable(r)
                       /\ \A s \in waiting \ {r} :
                             reg[r].token /\ s[1] = r[1] => ~ahead(s, r)}
           woken == {r \in first : Wakes(r)}
           n == Cardinality(woken)
           turns == 1 .. n
           won == [r \in first |-> ClosedOn(r)]
           stale == waiting \ first
<1>1. TypeOK /\ Linked /\ TokenDiscipline /\ Tidy /\ WakeInv
  BY DEF ChannelsInv, Settled, Inductive, Completing
<1>2. PICK order \in [turns -> woken] :
         /\ \A i, j \in turns : i < j => order[i] # order[j]
         /\ Deliver(won, stale, [i \in turns |-> order[i][1]], buf)
  BY DEF Close
<1>3. \A r \in waiting : r \in Regs /\ reg[r].registered
  BY <1>1, WaiterFacts
<1>4. first \subseteq waiting /\ DOMAIN won = first /\ woken \subseteq Regs
  BY <1>3
<1>5. ASSUME NEW r \in first, NEW s \in first, reg[r].token, r[1] = s[1], r # s
      PROVE  FALSE
  BY <1>5, OneArmCloses
<1>6. Winners(won) /\ \A r \in DOMAIN won : won[r].ready
  <2>1. \A r \in first :
           /\ reg[r].registered /\ ~won[r].registered
           /\ won[r].active = reg[r].active /\ won[r].chan = reg[r].chan
           /\ won[r].token = reg[r].token
    BY <1>1, <1>3, <1>4, OutcomeFacts
  <2>2. first \subseteq Regs
    BY <1>3, <1>4
  <2>3. \A r \in first : won[r].ready
    <3> SUFFICES ASSUME NEW r \in first PROVE ClosedOn(r).ready
      OBVIOUS
    <3>1. reg[r] \in Registrations
      BY <1>1, <2>2 DEF TypeOK
    <3> QED
      BY <3>1 DEF ClosedOn, Registrations
  <2> HIDE DEF won, first
  <2> QED
    BY <1>4, <1>5, <2>1, <2>2, <2>3 DEF Winners
<1>7. \A r, s \in woken : r[1] = s[1] => r = s
  <2> SUFFICES ASSUME NEW r \in woken, NEW s \in woken, r[1] = s[1] PROVE r = s
    OBVIOUS
  <2>1. CASE reg[r].token
    BY <1>5, <2>1
  <2>2. CASE reg[s].token
    BY <1>5, <2>2
  <2>3. CASE ~reg[r].token /\ ~reg[s].token
    BY <1>1, <1>3, <1>4, <2>3, WinnerPending
  <2> QED
    BY <2>1, <2>2, <2>3
<1>8. IsFiniteSet(woken) /\ n \in Nat /\ n = Cardinality(woken)
  BY <1>4, RegsFinite, FS_Subset, FS_CardinalityType
<1>9. Woken(won) = {r[1] : r \in woken}
  BY <1>4 DEF Woken
<1> HIDE DEF won, first, woken, stale, n
<1>10. \A i, j \in turns : order[i] = order[j] => i = j
  <2> SUFFICES ASSUME NEW i \in turns, NEW j \in turns, order[i] = order[j], i # j
               PROVE  FALSE
    OBVIOUS
  <2>1. i < j \/ j < i
    BY <1>8
  <2> QED
    BY <1>2, <2>1
<1>11. \A r \in woken : \E i \in turns : order[i] = r
  <2>1. order \in [1 .. n -> woken] /\ \A i, j \in 1 .. n : order[i] = order[j] => i = j
    BY <1>2, <1>10
  <2> QED
    BY ONLY <1>8, <2>1, AllTaken
<1> DEFINE wake == [i \in turns |-> order[i][1]]
<1>12. wake \in Seq(Frames) /\ Len(wake) = n
  <2>1. \A i \in turns : order[i][1] \in Frames
    BY <1>2, <1>4 DEF Regs
  <2>2. wake \in Seq(Frames)
    BY <1>8, <2>1, IsASeq
  <2> QED
    BY <1>8, <2>2, LenProperties
<1>13. \A i \in turns : order[i] \in woken /\ wake[i] = order[i][1]
  BY <1>2
<1>14. Deliver(won, stale, wake, buf)
  BY <1>2
<1> HIDE DEF wake
<1>15. Once(wake)
  BY <1>7, <1>10, <1>12, <1>13 DEF Once
<1>16. Elements(wake) = Woken(won)
  BY <1>9, <1>11, <1>12, <1>13 DEF Elements
<1>17. /\ Inductive /\ Settled /\ WakeInv /\ ~failed /\ NoArmStarts /\ deadline' = deadline
       /\ running = None \/ ~Suspended(running)
       /\ \A g \in Frames : deadline[g] # "expired"
  BY RunnerAlone DEF Completing
<1>18. Woke
  BY ONLY <1>6, <1>12, <1>14, <1>15, <1>16, <1>17, DeliverWakes DEF Woke
<1>19. Delivers(Regs)
  BY <1>6, <1>14 DEF Delivers, Winners
<1> QED
  BY <1>18, <1>19

\* An expired timer wakes the select that it decides; its claim is never late.
LEMMA TimerWakesOne ==
    ASSUME Inductive, Settled, WakeInv, NEW r \in Regs, TimerExpire(r)
    PROVE  Woke
<1>1. TypeOK /\ TokenDiscipline /\ Tidy
  BY DEF Inductive, Settled
<1>2. /\ Idle /\ reg[r].registered
      /\ UNCHANGED <<phase, deadline, running>>
  BY DEF TimerExpire, frameVars
<1>3. Claimable(r)
  BY <1>1, <1>2 DEF NoRegistration, Tidy, Owns, Claimable
<1> DEFINE won == [x \in {r} |-> Expired(r)]
           wake == WakeOf(r)
           stale == {}
<1>4. Winners(won) /\ \A q \in DOMAIN won : won[q].ready
  <2>1. reg[r] \in Registrations
    BY <1>1 DEF TypeOK
  <2>2. Expired(r).ready
    BY <2>1 DEF Expired, Registrations
  <2> QED
    BY <1>1, <1>2, <2>2, OutcomeFacts
<1>5. Deliver(won, stale, wake, buf)
  BY <1>3 DEF TimerExpire
<1>6. wake \in Seq(Frames) /\ Once(wake) /\ Elements(wake) = Woken(won)
  BY OneWakes
<1>7. NoArmStarts /\ deadline' = deadline /\ ~failed
  BY <1>1, <1>2, FramesAssumption DEF NoArmStarts, TokenDiscipline, Idle
<1>8. running = None /\ \A g \in Frames : deadline[g] # "expired"
  BY <1>2, IdleAlone DEF Idle
<1> HIDE DEF won, wake, stale
<1> QED
  BY ONLY Inductive, Settled, WakeInv, <1>4, <1>5, <1>6, <1>7, <1>8, DeliverWakes DEF Woke

-----------------------------------------------------------------------------
(* Steps of the frame that is polled. *)

\* The outcomes of other frames' operations when one suspends.
LEMMA SuspendOutcomes ==
    ASSUME TypeOK, NEW f, NEW a, NEW c, NEW x, Suspend(<<f, a>>, c, x)
    PROVE  \A r \in Regs : r[1] # f => (reg'[r].ready <=> reg[r].ready)
<1> SUFFICES ASSUME NEW r \in Regs, r[1] # f PROVE reg'[r].ready <=> reg[r].ready
  OBVIOUS
<1>1. reg[r] \in Registrations /\ r # <<f, a>>
  BY DEF TypeOK
<1>2. reg'[r] = reg[r] \/ reg'[r] = [reg[r] EXCEPT !.registered = FALSE]
  BY <1>1 DEF Suspend
<1> QED
  BY <1>1, <1>2 DEF Registrations

\* A frame waits on an operation outside a select.
LEMMA PlainWakes ==
    ASSUME TypeOK, TokenDiscipline, WakeInv, NEW f \in Frames, Runs(f),
           NEW c, NEW x, Suspend(<<f, 1>>, c, x), ~x.ready,
           phase' = [phase EXCEPT ![f] = "plain"], running' = None,
           UNCHANGED <<tok, deadline, ready, failed>>
    PROVE  Woke
<1>1. running = f /\ phase[f] = "idle" /\ ~failed /\ FrameWakes(f)
  BY DEF Runs, WakeInv
<1>2. phase'[f] = "plain" /\ \A g \in Frames \ {f} : phase'[g] = phase[g]
  BY DEF TypeOK
<1>3. <<f, 1>> \in Regs
  BY MaxArmsAssumption DEF Regs, Arms
<1>4. /\ ~reg'[<<f, 1>>].ready
      /\ \A r \in Regs : r[1] # f => (reg'[r].ready <=> reg[r].ready)
  BY <1>3, SuspendOutcomes DEF Suspend
<1>5. TokenWakes(f)'
  BY <1>1, <1>2 DEF TokenDiscipline, FrameWakes, TokenWakes
<1>6. TimerWakes(f)'
  BY <1>1, <1>2, RunnerAlone DEF TimerWakes, Suspended, Over
<1>7. ~Awaited(f)'
  BY <1>2, <1>4 DEF Awaited, Outcome
<1> QED
  BY <1>1, <1>2, <1>4, <1>5, <1>6, <1>7, OnlyFrame DEF Woke

LEMMA SendStartWakes ==
    ASSUME TypeOK, TokenDiscipline, WakeInv, NEW f \in Frames, NEW c, NEW v, SendStart(f, c, v)
    PROVE  Woke
<1>1. ~SendRegistration(c, v, FALSE).ready
  BY DEF SendRegistration, NoRegistration
<1> QED
  BY <1>1, PlainWakes DEF SendStart

LEMMA ReceiveStartWakes ==
    ASSUME TypeOK, TokenDiscipline, WakeInv, NEW f \in Frames, NEW c, ReceiveStart(f, c)
    PROVE  Woke
<1>1. ~ReceiveRegistration(c, FALSE).ready
  BY DEF ReceiveRegistration, NoRegistration
<1> QED
  BY <1>1, PlainWakes DEF ReceiveStart

\* While a select starts its arms it runs on, and its token enqueues nothing.
LEMMA StartingWakes ==
    ASSUME TypeOK, TokenDiscipline, WakeInv, ~failed, NEW f \in Frames, running = f,
           phase[f] = "starting", phase'[f] \in {"starting", "claiming"},
           ~tok'[f].suspended, ~tok'[f].enqueued,
           \A g \in Frames \ {f} : tok'[g] = tok[g] /\ phase'[g] = phase[g],
           \A r \in Regs : r[1] # f => (reg'[r].ready <=> reg[r].ready),
           UNCHANGED <<deadline, ready, running, failed>>
    PROVE  Woke
<1>1. TokenWakes(f)'
  BY DEF TokenWakes
<1>2. TimerWakes(f)'
  BY RunnerAlone DEF TimerWakes, Suspended, Over
<1> QED
  BY <1>1, <1>2, OnlyFrame DEF Woke

\* The token of a select whose arms are being started.
LEMMA StartingToken ==
    ASSUME TypeOK, TokenDiscipline, WakeInv, NEW f \in Frames, phase[f] = "starting"
    PROVE  ~tok[f].suspended /\ ~tok[f].enqueued /\ tok[f].winner = 0 /\ tok[f].active
BY DEF TokenDiscipline, WakeInv, FrameWakes, TokenWakes

\* An arm is registered.
LEMMA ArmWaits ==
    ASSUME TypeOK, TokenDiscipline, WakeInv, NEW f \in Frames, NEW op, Starts(f, op),
           tok' = Registered(f),
           \A r \in Regs : r[1] # f => (reg'[r].ready <=> reg[r].ready),
           UNCHANGED <<phase, deadline, ready, running, failed>>
    PROVE  Woke
<1>1. ~failed /\ running = f /\ phase[f] = "starting"
  BY DEF Starts
<1>2. ~tok[f].suspended /\ ~tok[f].enqueued
  BY <1>1, StartingToken
<1>3. /\ \A g \in Frames \ {f} : tok'[g] = tok[g]
      /\ tok'[f].suspended = tok[f].suspended /\ tok'[f].enqueued = tok[f].enqueued
  BY DEF TypeOK, Registered, Tokens
<1> QED
  BY <1>1, <1>2, <1>3, StartingWakes

\* An arm is ready as it is started, without an operation on its channel.
LEMMA ArmClaims ==
    ASSUME TypeOK, TokenDiscipline, WakeInv, NEW f \in Frames, NEW op, Starts(f, op),
           Claiming(f), UNCHANGED <<reg, tok, deadline, ready, running, failed>>
    PROVE  Woke
BY StartingToken, StartingWakes DEF Starts, Claiming, TypeOK

LEMMA TrySendWakes ==
    ASSUME ChannelsInv, WakeInv, NEW f \in Frames, NEW c \in Channels, NEW v \in Values,
           TrySend(f, c, v)
    PROVE  Woke
BY IdleRuns, CallWakes, NoneCompletes DEF TrySend, Runs, Completing,
   ChannelsInv, NoArmStarts, Suspended

LEMMA TryReceiveWakes ==
    ASSUME ChannelsInv, WakeInv, NEW f \in Frames, NEW c \in Channels, TryReceive(f, c)
    PROVE  Woke
<1>1. /\ ~failed /\ running = f /\ phase[f] = "idle" /\ TakeFromRing(c)
      /\ UNCHANGED <<phase, deadline, running>>
  BY DEF TryReceive, Runs
<1>2. Completing(f)
  BY <1>1, IdleRuns DEF Completing, ChannelsInv, NoArmStarts, Suspended
<1>3. \E v \in Values : TRUE
  BY <1>1 DEF TakeFromRing, ChannelsInv, Inductive, TypeOK
<1> QED
  BY <1>1, <1>2, <1>3, CallWakes

LEMMA CloseStepWakes ==
    ASSUME ChannelsInv, WakeInv, NEW f \in Frames, NEW c \in Channels, Close(f, c)
    PROVE  Woke /\ Delivers(Regs)
BY IdleRuns, CloseWakes DEF Close, Runs, Completing, ChannelsInv, NoArmStarts,
   Suspended

\* An arm that is ready completes the operations of others.
LEMMA StartsCompletes ==
    ASSUME ChannelsInv, WakeInv, NEW f \in Frames, NEW op, Starts(f, op), Claiming(f),
           UNCHANGED <<deadline, running>>
    PROVE  Completing(f)
BY DEF Starts, Claiming, NoArmStarts, Completing, ChannelsInv, Suspended

LEMMA ArmSendWakes ==
    ASSUME ChannelsInv, WakeInv, NEW f \in Frames, ArmSend(f)
    PROVE  Woke
<1> DEFINE c == ArmChannel(f)
           v == staged[f][tok[f].next]
           a == tok[f].next
           x == SendRegistration(c, v, TRUE)
<1>1. TypeOK /\ TokenDiscipline
  BY DEF ChannelsInv, Inductive
<1>2. /\ Starts(f, "send") /\ UNCHANGED <<deadline, running>>
      /\ \/ TrySendSucceeds(c, v) /\ Claiming(f)
         \/ Claiming(f) /\ UNCHANGED <<reg, tok, ready, failed>>
         \/ /\ Suspend(<<f, a>>, c, x) /\ tok' = Registered(f)
            /\ UNCHANGED <<phase, ready, failed>>
  BY DEF ArmSend
<1>3. c \in Channels /\ v \in Values
  BY <1>1, <1>2, ArmChannelHeld, ArmChannelFacts DEF ChannelsInv
<1> HIDE DEF c, v, x, a
<1>4. CASE TrySendSucceeds(c, v) /\ Claiming(f)
  BY <1>2, <1>4, StartsCompletes, <1>3, CallWakes
<1>5. CASE Claiming(f) /\ UNCHANGED <<reg, tok, ready, failed>>
  BY <1>1, <1>2, <1>5, ArmClaims
<1>6. CASE Suspend(<<f, a>>, c, x) /\ tok' = Registered(f) /\ UNCHANGED <<phase, ready, failed>>
  BY <1>1, <1>6, SuspendOutcomes, <1>2, ArmWaits
<1> QED
  BY <1>2, <1>4, <1>5, <1>6

LEMMA ArmReceiveWakes ==
    ASSUME ChannelsInv, WakeInv, NEW f \in Frames, ArmReceive(f)
    PROVE  Woke
<1> DEFINE c == ArmChannel(f)
           a == tok[f].next
           x == ReceiveRegistration(c, TRUE)
<1>1. TypeOK /\ TokenDiscipline
  BY DEF ChannelsInv, Inductive
<1>2. /\ Starts(f, "receive") /\ UNCHANGED <<deadline, running>>
      /\ \/ TakeFromRing(c) /\ Claiming(f)
         \/ Claiming(f) /\ UNCHANGED <<reg, tok, ready, failed>>
         \/ /\ Suspend(<<f, a>>, c, x) /\ tok' = Registered(f)
            /\ UNCHANGED <<phase, ready, failed>>
  BY DEF ArmReceive
<1>3. c \in Channels
  BY <1>2, ArmChannelHeld
<1> HIDE DEF c, x, a
<1>4. CASE TakeFromRing(c) /\ Claiming(f)
  <2>1. Completing(f)
    BY <1>2, <1>4, StartsCompletes
  <2>2. \E v \in Values : TRUE
    BY <1>1, <1>3, <1>4 DEF TakeFromRing, TypeOK
  <2> QED
    BY <1>3, <1>4, <2>1, <2>2, CallWakes
<1>5. CASE Claiming(f) /\ UNCHANGED <<reg, tok, ready, failed>>
  BY <1>1, <1>2, <1>5, ArmClaims
<1>6. CASE Suspend(<<f, a>>, c, x) /\ tok' = Registered(f) /\ UNCHANGED <<phase, ready, failed>>
  BY <1>1, <1>6, SuspendOutcomes, <1>2, ArmWaits
<1> QED
  BY <1>2, <1>4, <1>5, <1>6

LEMMA ArmSleepWakes ==
    ASSUME TypeOK, TokenDiscipline, WakeInv, NEW f \in Frames, ArmSleep(f)
    PROVE  Woke
<1>1. /\ Starts(f, "sleep") /\ UNCHANGED <<deadline, ready, running, failed>>
      /\ \/ Claiming(f) /\ UNCHANGED <<reg, tok>>
         \/ /\ \E x : reg' = [reg EXCEPT ![<<f, tok[f].next>>] = x]
            /\ tok' = Registered(f) /\ UNCHANGED phase
  BY DEF ArmSleep
<1>2. CASE Claiming(f) /\ UNCHANGED <<reg, tok>>
  BY <1>1, <1>2, ArmClaims
<1>3. ASSUME NEW x, reg' = [reg EXCEPT ![<<f, tok[f].next>>] = x],
             tok' = Registered(f), UNCHANGED phase
      PROVE  Woke
  BY <1>3, <1>1, ArmWaits DEF TypeOK
<1> QED
  BY <1>1, <1>2, <1>3

LEMMA SelectStartWakes ==
    ASSUME TypeOK, TokenDiscipline, WakeInv, NEW f \in Frames, NEW shape \in Shapes,
           SelectStart(f, shape)
    PROVE  Woke
<1> DEFINE t == [NoToken EXCEPT !.active = TRUE, !.shape = shape]
<1>1. /\ ~failed /\ running = f /\ phase[f] = "idle"
      /\ tok' = [tok EXCEPT ![f] = t] /\ phase' = [phase EXCEPT ![f] = "starting"]
      /\ UNCHANGED <<reg, deadline, ready, running, failed>>
  BY DEF SelectStart, Runs
<1>2. ~t.suspended /\ ~t.enqueued
  BY DEF NoToken
<1> HIDE DEF t
<1>3. /\ tok'[f] = t /\ phase'[f] = "starting"
      /\ \A g \in Frames \ {f} : tok'[g] = tok[g] /\ phase'[g] = phase[g]
  BY <1>1 DEF TypeOK
<1>4. TokenWakes(f)'
  BY <1>2, <1>3 DEF TokenWakes
<1>5. TimerWakes(f)'
  BY <1>1, <1>3, RunnerAlone DEF TimerWakes, Suspended, Over
<1> QED
  BY <1>1, <1>3, <1>4, <1>5, OnlyFrame DEF Woke

LEMMA SelectSuspendWakes ==
    ASSUME TypeOK, TokenDiscipline, WakeInv, NEW f \in Frames, SelectSuspend(f)
    PROVE  Woke
<1>1. /\ ~failed /\ running = f /\ phase[f] = "starting"
      /\ tok' = [tok EXCEPT ![f].suspended = TRUE]
      /\ phase' = [phase EXCEPT ![f] = "select"] /\ running' = None
      /\ UNCHANGED <<reg, deadline, ready, failed>>
  BY DEF SelectSuspend
<1>2. ~tok[f].enqueued /\ tok[f].winner = 0 /\ tok[f] \in Tokens
  BY <1>1, StartingToken DEF TypeOK
<1>3. /\ tok'[f] = [tok[f] EXCEPT !.suspended = TRUE] /\ phase'[f] = "select"
      /\ \A g \in Frames \ {f} : tok'[g] = tok[g] /\ phase'[g] = phase[g]
  BY <1>1 DEF TypeOK
<1>4. tok'[f].suspended /\ ~tok'[f].enqueued /\ tok'[f].winner = 0
  BY <1>2, <1>3 DEF Tokens
<1>5. TokenWakes(f)' /\ ~Awaited(f)'
  BY <1>3, <1>4 DEF TokenWakes, Awaited, Outcome
<1>6. TimerWakes(f)'
  BY <1>1, <1>3, RunnerAlone DEF TimerWakes, Suspended, Over
<1> QED
  BY <1>1, <1>3, <1>5, <1>6, OnlyFrame DEF Woke

\* A frame whose select is decided at once runs on.
LEMMA ImmediateWinWakes ==
    ASSUME TypeOK, TokenDiscipline, WakeInv, NEW f \in Frames, ImmediateWin(f)
    PROVE  WakeInv' /\ (tok[f].winner = 0 => ~failed')
<1>1. ~failed /\ running = f /\ phase[f] = "claiming" /\ UNCHANGED <<deadline, ready, running>>
  BY DEF ImmediateWin
<1>2. tok[f].active /\ FrameWakes(f)
  BY <1>1 DEF TokenDiscipline, WakeInv
<1>3. TimerWakes(f)' \/ phase'[f] \in Over
  BY <1>1, RunnerAlone DEF TimerWakes, Suspended
<1>4. CASE tok[f].winner = 0
  <2> DEFINE lost == {<<f, a>> : a \in tok[f].registered \ {tok[f].next}}
  <2>1. /\ reg' = [r \in Regs |-> IF r \in lost THEN NoRegistration ELSE reg[r]]
        /\ tok' = [tok EXCEPT ![f] = NoToken]
        /\ phase' = [phase EXCEPT ![f] = "idle"]
        /\ failed' = failed
    BY <1>2, <1>4 DEF ImmediateWin
  <2>2. \A r \in Regs : r[1] # f => (reg'[r].ready <=> reg[r].ready)
    BY <2>1
  <2>3. /\ tok'[f] = NoToken /\ phase'[f] = "idle"
        /\ \A g \in Frames \ {f} : tok'[g] = tok[g] /\ phase'[g] = phase[g]
    BY <2>1 DEF TypeOK
  <2>4. TokenWakes(f)' /\ TimerWakes(f)'
    BY <1>3, <2>3 DEF TokenWakes, NoToken, Over
  <2> HIDE DEF lost
  <2> QED
    BY <1>1, <2>1, <2>2, <2>3, <2>4, OnlyFrame
<1>5. CASE tok[f].winner # 0
  BY <1>5, <1>1, <1>2, <1>3, OnlyFrame DEF ImmediateWin, FrameWakes,
     TokenWakes, Over
<1> QED
  BY <1>4, <1>5

\* The outcome of an operation is consumed and its frame runs on.
LEMMA FinishedWakes ==
    ASSUME TypeOK, TokenDiscipline, WakeInv, ~failed, NEW f \in Frames, running = f,
           deadline[f] # "expired", NEW r \in Regs, r[1] = f, Finished(f, r),
           \/ phase[f] = "plain" /\ tok' = tok
           \/ tok' = [tok EXCEPT ![f] = NoToken],
           UNCHANGED <<deadline, ready, running, failed>>
    PROVE  Woke
<1>1. /\ reg' = [reg EXCEPT ![r] = NoRegistration]
      /\ phase' = [phase EXCEPT ![f] = "idle"]
  BY DEF Finished
<1>2. \A q \in Regs : q[1] # f => (reg'[q].ready <=> reg[q].ready)
  BY <1>1 DEF TypeOK
<1>3. /\ phase'[f] = "idle" /\ \A g \in Frames \ {f} : tok'[g] = tok[g] /\ phase'[g] = phase[g]
      /\ (phase[f] = "plain" /\ tok'[f] = tok[f]) \/ tok'[f] = NoToken
  BY <1>1 DEF TypeOK
<1>4. TokenWakes(f)'
  <2>1. CASE phase[f] = "plain" /\ tok'[f] = tok[f]
    <3>1. ~tok[f].active /\ TokenWakes(f)
      BY <2>1 DEF TokenDiscipline, WakeInv, FrameWakes
    <3> QED
      BY <1>3, <2>1, <3>1 DEF TokenWakes
  <2>2. CASE tok'[f] = NoToken
    BY <1>3, <2>2 DEF TokenWakes, NoToken
  <2> QED
    BY <1>3, <2>1, <2>2
<1>5. TimerWakes(f)'
  BY <1>3 DEF TimerWakes, Over
<1> QED
  BY <1>2, <1>3, <1>4, <1>5, OnlyFrame DEF Woke

\* A poll that finds no outcome leaves the frame waiting.
LEMMA StaysWaiting ==
    ASSUME TypeOK, WakeInv, ~failed, NEW f \in Frames, running = f, Suspended(f),
           deadline[f] # "expired", ~Outcome(f), running' = None,
           UNCHANGED <<reg, tok, phase, deadline, ready, failed>>
    PROVE  Woke
BY OnlyFrame DEF WakeInv, FrameWakes, TokenWakes, TimerWakes, Awaited,
   Outcome, Suspended, Woke

LEMMA ResumeWakes ==
    ASSUME TypeOK, TokenDiscipline, WakeInv, NEW f \in Frames, Resume(f)
    PROVE  Woke
<1> DEFINE r == <<f, 1>>
<1>1. /\ ~failed /\ running = f /\ phase[f] = "plain" /\ deadline[f] # "expired"
      /\ UNCHANGED <<tok, deadline, ready, failed>>
  BY DEF Resume, Resumes
<1>2. r \in Regs /\ r[1] = f
  BY MaxArmsAssumption DEF Regs, Arms
<1>3. CASE reg[r].ready
  <2>1. Finished(f, r) /\ running' = running
    BY <1>3 DEF Resume
  <2> HIDE DEF r
  <2> QED
    BY <1>1, <1>2, <2>1, FinishedWakes
<1>4. CASE ~reg[r].ready
  BY <1>4, <1>1, StaysWaiting DEF Resume, Outcome, Suspended
<1> QED
  BY <1>3, <1>4

\* A winner that is polled has its outcome.
LEMMA SelectResumeWakes ==
    ASSUME TypeOK, TokenDiscipline, WakeInv, NEW f \in Frames, SelectResume(f)
    PROVE  Woke
<1> DEFINE r == <<f, tok[f].winner>>
<1>1. /\ ~failed /\ running = f /\ phase[f] = "select" /\ deadline[f] # "expired"
      /\ UNCHANGED <<deadline, ready>>
  BY DEF SelectResume, Resumes
<1>2. CASE tok[f].winner = 0
  BY <1>2, <1>1, StaysWaiting DEF SelectResume, Outcome, Suspended
<1>3. CASE tok[f].winner # 0
  <2>1. r \in Regs /\ r[1] = f
    BY <1>3 DEF TypeOK, Regs, Tokens, Arms
  <2>2. reg[r].ready
    BY <1>1, <1>3 DEF WakeInv, FrameWakes, TokenWakes
  <2>3. Finished(f, r) /\ tok' = [tok EXCEPT ![f] = NoToken] /\ UNCHANGED <<running, failed>>
    BY <1>3, <2>2 DEF SelectResume
  <2> HIDE DEF r
  <2> QED
    BY <1>1, <2>1, <2>3, FinishedWakes
<1> QED
  BY <1>2, <1>3

-----------------------------------------------------------------------------
(* Cancellation, the end of a frame and the executor. *)

\* Cancelled frames leave the ready queue, and no other frame is touched.
LEMMA CancelFramesWakes ==
    ASSUME TypeOK, WakeInv, ~failed, NEW f \in Frames, running = f,
           NEW S \in SUBSET Frames, CancelFrames(S), deadline[f] # "expired" \/ f \in S,
           (running' = running /\ f \notin S) \/ (running' = None /\ f \in S),
           failed' = failed
    PROVE  Woke
<1> DEFINE lost == UNION {Outstanding(g) : g \in S}
<1>1. /\ reg' = [r \in Regs |-> IF r \in lost THEN NoRegistration ELSE reg[r]]
      /\ tok' = [g \in Frames |-> IF g \in S THEN NoToken ELSE tok[g]]
      /\ phase' = [g \in Frames |-> IF g \in S THEN "done" ELSE phase[g]]
      /\ deadline' = [g \in Frames |-> IF g \in S THEN "none" ELSE deadline[g]]
      /\ CancelReady(S)
  BY DEF CancelFrames
<1>2. \A r \in lost : r[1] \in S
  BY DEF Outstanding
<1>3. Once(ready) /\ \A g \in Frames : FrameWakes(g)
  BY DEF WakeInv
<1>4. Once(ready') /\ Elements(ready') = Elements(ready) \ S
  BY <1>1, <1>3, CancelReadyQueue
<1>5. f \notin Elements(ready) /\ \A g \in Frames \ {f} : deadline[g] # "expired"
  BY RunnerAlone
<1> HIDE DEF lost
<1>6. ASSUME NEW g \in S PROVE FrameWakes(g)'
  BY <1>1, <1>4 DEF TokenWakes, TimerWakes, NoToken, QueueWakes, Awaited,
     Outcome, FrameWakes
<1>7. ASSUME NEW g \in Frames \ S PROVE FrameWakes(g)'
  <2>1. /\ tok'[g] = tok[g] /\ phase'[g] = phase[g] /\ deadline'[g] = deadline[g]
        /\ g \in Elements(ready') <=> g \in Elements(ready)
        /\ deadline[g] # "expired"
    BY <1>1, <1>4, <1>5
  <2>2. \A a \in Arms : reg'[<<g, a>>].ready <=> reg[<<g, a>>].ready
    <3> SUFFICES ASSUME NEW a \in Arms PROVE reg'[<<g, a>>] = reg[<<g, a>>]
      OBVIOUS
    <3>1. <<g, a>> \in Regs /\ <<g, a>> \notin lost
      BY <1>2 DEF Regs
    <3> QED
      BY <1>1, <3>1
  <2>3. running' = g <=> running = g
    BY FramesAssumption
  <2> QED
    BY <1>3, <2>1, <2>2, <2>3, FrameKeeps
<1> QED
  BY <1>4, <1>6, <1>7 DEF Woke, WakeInv

LEMMA CancellationWakes ==
    ASSUME TypeOK, WakeInv, NEW f \in Frames, Cancel(f) \/ DeadlineFailure(f)
    PROVE  Woke
<1>1. CASE Cancel(f)
  <2> DEFINE S == {f}
  <2>1. /\ ~failed /\ running = Root /\ phase[Root] = "idle" /\ f # Root
        /\ CancelFrames(S) /\ UNCHANGED <<running, failed>>
    BY <1>1 DEF Cancel, Runs
  <2>2. Root \in Frames /\ S \in SUBSET Frames /\ Root \notin S
    BY <2>1, FramesAssumption
  <2>3. deadline[Root] # "expired"
    BY <2>1, <2>2, RunnerAlone DEF Suspended
  <2> HIDE DEF S
  <2> QED
    BY <2>1, <2>2, <2>3, CancelFramesWakes
<1>2. CASE DeadlineFailure(f)
  <2> DEFINE S == {g \in IF f = Root THEN Frames ELSE {f} : phase[g] \notin Over}
  <2>1. /\ ~failed /\ running = f /\ phase[f] \in {"idle", "plain", "select"}
        /\ CancelFrames(S) /\ running' = None /\ failed' = failed
    BY <1>2 DEF DeadlineFailure
  <2>2. S \in SUBSET Frames /\ f \in S
    BY <2>1 DEF Over
  <2> HIDE DEF S
  <2> QED
    BY <2>1, <2>2, CancelFramesWakes
<1> QED
  BY <1>1, <1>2

LEMMA FinishWakes ==
    ASSUME TypeOK, TokenDiscipline, WakeInv, NEW f \in Frames, Finish(f)
    PROVE  Woke
<1>1. /\ ~failed /\ running = f /\ phase[f] = "idle"
      /\ phase' = [phase EXCEPT ![f] = "done"]
      /\ deadline' = [deadline EXCEPT ![f] = "none"]
      /\ running' = None /\ UNCHANGED <<reg, tok, ready, failed>>
  BY DEF Finish, Runs
<1>2. /\ phase'[f] = "done" /\ deadline'[f] = "none"
      /\ \A g \in Frames \ {f} : phase'[g] = phase[g] /\ deadline'[g] = deadline[g]
  BY <1>1 DEF TypeOK
<1>3. ~tok[f].active /\ FrameWakes(f)
  BY <1>1 DEF TokenDiscipline, WakeInv
<1>4. TokenWakes(f)' /\ TimerWakes(f)' /\ ~Awaited(f)'
  BY <1>1, <1>2, <1>3 DEF FrameWakes, TokenWakes, TimerWakes, Awaited, Outcome
<1> QED
  BY <1>1, <1>2, <1>4, OnlyFrame DEF Woke

\* A frame that is dropped is in no queue and waits for nothing.
LEMMA DropFrameWakes ==
    ASSUME TypeOK, TokenDiscipline, WakeInv, NEW f \in Frames, DropFrame(f)
    PROVE  Woke
<1>1. /\ ~failed /\ phase[f] = "done" /\ phase' = [phase EXCEPT ![f] = "dropped"]
      /\ UNCHANGED <<reg, tok, deadline, ready, running, failed>>
  BY DEF DropFrame
<1>2. phase'[f] = "dropped" /\ \A g \in Frames \ {f} : phase'[g] = phase[g]
  BY <1>1 DEF TypeOK
<1>3. Once(ready) /\ \A g \in Frames : FrameWakes(g)
  BY DEF WakeInv
<1>4. FrameWakes(f)'
  <2>1. ~Callable(f) /\ ~tok[f].active /\ deadline[f] = "none"
    BY <1>1, <1>3 DEF TokenDiscipline, Callable, Outcome, Suspended, FrameWakes, TimerWakes, Over
  <2>2. f \notin Elements(ready)
    BY <1>3, <2>1 DEF FrameWakes, QueueWakes
  <2>3. TokenWakes(f)' /\ TimerWakes(f)'
    BY <1>1, <1>2, <1>3, <2>1 DEF FrameWakes, TokenWakes, TimerWakes
  <2>4. ~Awaited(f)'
    BY <1>2 DEF Awaited, Outcome
  <2>5. QueueWakes(f)'
    BY <1>1, <2>2, <2>4 DEF QueueWakes
  <2> QED
    BY <2>3, <2>5 DEF FrameWakes
<1>5. ASSUME NEW g \in Frames \ {f} PROVE FrameWakes(g)'
  BY <1>1, <1>2, <1>3, FrameKeeps
<1> QED
  BY <1>1, <1>3, <1>4, <1>5 DEF Woke, WakeInv

\* Entering and leaving a task.deadline block, and releasing a handle.
LEMMA LocalStepWakes ==
    ASSUME TypeOK, TokenDiscipline, WakeInv, NEW f \in Frames, NEW c,
           EnterDeadline(f) \/ ExitDeadline(f) \/ ReleaseHandle(f, c)
    PROVE  Woke
<1>1. /\ ~failed /\ running = f /\ phase[f] = "idle"
      /\ UNCHANGED <<reg, tok, phase, ready, running, failed>>
  BY DEF EnterDeadline, ExitDeadline, ReleaseHandle, Runs
<1>2. /\ deadline'[f] \in {"armed", "none", deadline[f]}
      /\ \A g \in Frames \ {f} : deadline'[g] = deadline[g]
  BY DEF TypeOK, EnterDeadline, ExitDeadline, ReleaseHandle
<1>3. deadline[f] # "expired" /\ FrameWakes(f)
  BY <1>1, RunnerAlone DEF Suspended, WakeInv
<1>4. TokenWakes(f)' /\ TimerWakes(f)'
  BY <1>1, <1>2, <1>3 DEF FrameWakes, TokenWakes, TimerWakes, Over
<1> QED
  BY <1>1, <1>2, <1>4, OnlyFrame DEF Woke

LEMMA OneEnqueued ==
    ASSUME NEW f \in Frames
    PROVE  <<f>> \in Seq(Frames) /\ Once(<<f>>) /\ Elements(<<f>>) = {f}
BY DEF Once, Elements

\* A frame that yields is called again.
LEMMA YieldWakes ==
    ASSUME TypeOK, TokenDiscipline, WakeInv, NEW f \in Frames, Yield(f)
    PROVE  Woke
<1>1. /\ ~failed /\ running = f /\ phase[f] = "idle" /\ running' = None /\ Enqueue(<<f>>)
      /\ UNCHANGED <<reg, tok, phase, deadline>>
  BY DEF Yield, Runs, frameVars
<1>2. Once(ready) /\ \A g \in Frames : FrameWakes(g)
  BY DEF WakeInv
<1>3. f \notin Elements(ready) /\ \A g \in Frames : deadline[g] # "expired"
  BY <1>1, RunnerAlone DEF Suspended
<1>4. /\ Once(ready') /\ Elements(ready') \subseteq Elements(ready) \cup {f}
      /\ ~failed' => Elements(ready') = Elements(ready) \cup {f}
      /\ Roomy => ~failed'
  BY <1>1, <1>2, <1>3, OneEnqueued, EnqueueQueue DEF Roomy
<1>5. ASSUME NEW g \in Frames PROVE FrameWakes(g)'
  <2>1. TokenWakes(g)' /\ TimerWakes(g)'
    BY <1>1, <1>2, <1>3 DEF FrameWakes, TokenWakes, TimerWakes
  <2>2. (Callable(g)' <=> Callable(g)) /\ (Awaited(g)' <=> Awaited(g))
    BY <1>1 DEF Callable, Awaited, Outcome, Suspended
  <2>3. Callable(f) /\ running' # g
    BY <1>1, FramesAssumption DEF Callable
  <2>4. QueueWakes(g)'
    BY <1>1, <1>2, <1>4, <2>2, <2>3 DEF FrameWakes, QueueWakes
  <2> QED
    BY <2>1, <2>4 DEF FrameWakes
<1> QED
  BY <1>4, <1>5 DEF Woke, WakeInv

\* A deadline that fires takes its frame to the empty queue.
LEMMA DeadlineExpireWakes ==
    ASSUME TypeOK, TokenDiscipline, WakeInv, NEW f \in Frames, DeadlineExpire(f)
    PROVE  Woke
<1>1. /\ Idle /\ deadline[f] = "armed" /\ Enqueue(<<f>>)
      /\ deadline' = [deadline EXCEPT ![f] = "expired"]
      /\ UNCHANGED <<reg, tok, phase, running>>
  BY DEF DeadlineExpire
<1>2. ~failed /\ running = None /\ ready = <<>>
  BY <1>1 DEF Idle
<1>3. \A g \in Frames : FrameWakes(g)
  BY DEF WakeInv
<1>4. \A g \in Frames : deadline[g] # "expired" /\ g \notin Elements(ready)
  BY <1>1, IdleAlone
<1>5. ready' = <<f>> /\ ~failed'
  <2> DEFINE s == <<f>>
  <2>1. s \in Seq(Frames) /\ Len(s) = 1
    OBVIOUS
  <2>2. Enqueue(s)
    BY <1>1
  <2> HIDE DEF s
  <2>3. ready \o s = s /\ SubSeq(s, 1, Len(s)) = s
    BY <1>2, <2>1, ConcatEmptySeq, SubSeqFull
  <2>4. Len(s) <= ReadyCapacity /\ ~(Len(s) > ReadyCapacity)
    BY <2>1, ReadyCapacityAssumption
  <2>5. ready' = s /\ ~failed'
    BY <1>2, <2>2, <2>3, <2>4 DEF Enqueue
  <2> QED
    BY <2>5 DEF s
<1>6. Once(ready') /\ Elements(ready') = {f}
  BY <1>5, OneEnqueued
<1>7. /\ deadline'[f] = "expired" /\ \A g \in Frames \ {f} : deadline'[g] = deadline[g]
  BY <1>1 DEF TypeOK
<1>8. Suspended(f)
  BY <1>1, <1>2, <1>3, <1>4, FramesAssumption DEF FrameWakes, TimerWakes,
     QueueWakes, TokenDiscipline, Awaited, TypeOK, Suspended
<1>9. FrameWakes(f)'
  BY <1>1, <1>3, <1>2, <1>5, <1>8, <1>6, <1>7, FramesAssumption DEF
     FrameWakes, TokenWakes, TimerWakes, Suspended, Over, QueueWakes, Callable
<1>10. ASSUME NEW g \in Frames \ {f} PROVE FrameWakes(g)'
  BY <1>1, <1>2, <1>3, <1>4, <1>6, <1>7, FrameKeeps
<1> QED
  BY <1>5, <1>6, <1>9, <1>10 DEF Woke, WakeInv

\* The frame at the head of the queue is polled.
LEMMA PollWakes ==
    ASSUME TypeOK, TokenDiscipline, WakeInv, NEW f \in Frames, Poll(f)
    PROVE  Woke
<1>1. /\ ~failed /\ running = None /\ ready # <<>> /\ f = Head(ready)
      /\ running' = f /\ ready' = Tail(ready)
      /\ UNCHANGED <<reg, tok, phase, deadline, failed>>
  BY DEF Poll, frameVars
<1>2. Once(ready) /\ \A g \in Frames : FrameWakes(g)
  BY DEF WakeInv
<1>3. ready \in Seq(Frames)
  BY DEF TypeOK
<1>4. /\ Len(ready) \in Nat /\ Len(ready) >= 1 /\ ready[1] = f
      /\ Len(ready') = Len(ready) - 1
      /\ \A i \in 1 .. Len(ready') : ready'[i] = ready[i + 1]
  BY <1>1, <1>3, HeadTailProperties, EmptySeq
<1>5. Once(ready')
  <2> SUFFICES ASSUME NEW i \in 1 .. Len(ready'), NEW j \in 1 .. Len(ready'), ready'[i] = ready'[j]
               PROVE  i = j
    BY DEF Once
  <2>1. i + 1 \in 1 .. Len(ready) /\ j + 1 \in 1 .. Len(ready) /\ ready[i + 1] = ready[j + 1]
    BY <1>4
  <2>2. i + 1 = j + 1
    BY <1>2, <2>1 DEF Once
  <2> QED
    BY <1>4, <2>2
<1>6. f \notin Elements(ready')
  <2> SUFFICES ASSUME NEW i \in 1 .. Len(ready'), ready'[i] = f PROVE FALSE
    BY DEF Elements
  <2>1. i + 1 \in 1 .. Len(ready) /\ 1 \in 1 .. Len(ready) /\ ready[i + 1] = ready[1]
    BY <1>4
  <2>2. i + 1 = 1
    BY <1>2, <2>1 DEF Once
  <2> QED
    BY <1>4, <2>2
<1>7. \A g \in Frames \ {f} : g \in Elements(ready') <=> g \in Elements(ready)
  <2> SUFFICES ASSUME NEW g \in Frames \ {f}
               PROVE  g \in Elements(ready') <=> g \in Elements(ready)
    OBVIOUS
  <2>1. ASSUME NEW i \in 1 .. Len(ready'), ready'[i] = g PROVE g \in Elements(ready)
    BY <1>4, <2>1 DEF Elements
  <2>2. ASSUME NEW i \in 1 .. Len(ready), ready[i] = g PROVE g \in Elements(ready')
    <3>1. i # 1
      BY <1>4, <2>2
    <3>2. i - 1 \in 1 .. Len(ready') /\ (i - 1) + 1 = i
      BY <1>4, <3>1
    <3> QED
      BY <1>4, <2>2, <3>2 DEF Elements
  <2> QED
    BY <2>1, <2>2 DEF Elements
<1>8. \A g \in Frames : deadline[g] = "expired" => g = f /\ ready' = <<>>
  <2> SUFFICES ASSUME NEW g \in Frames, deadline[g] = "expired" PROVE g = f /\ ready' = <<>>
    OBVIOUS
  <2>1. ready = <<g>>
    BY <1>1, <1>2, FramesAssumption DEF FrameWakes, TimerWakes
  <2> QED
    BY <1>1, <2>1
<1>9. FrameWakes(f)'
  BY <1>1, <1>2, <1>8, <1>6 DEF FrameWakes, TokenWakes, TimerWakes, Suspended,
     QueueWakes
<1>10. ASSUME NEW g \in Frames \ {f} PROVE FrameWakes(g)'
  BY <1>1, <1>8, FramesAssumption, <1>2, <1>7, FrameKeeps
<1> QED
  BY <1>1, <1>5, <1>9, <1>10 DEF Woke, WakeInv

-----------------------------------------------------------------------------
(* Theorem: a completion takes its frame to the queue, once. *)

LEMMA InitWakes == Init => WakeInv
<1> SUFFICES ASSUME Init PROVE WakeInv
  OBVIOUS
<1>1. ready \in Seq(Frames)
  BY InitInductive DEF Inductive, TypeOK
<1>2. /\ \A i, j \in DOMAIN ready : ready[i] = ready[j] => i = j
      /\ \A i \in DOMAIN ready : ready[i] \in Frames \ {Root}
      /\ running = Root
  BY DEF Init
<1>3. Once(ready) /\ Root \notin Elements(ready)
  BY <1>1, <1>2 DEF Once, Elements
<1>4. ASSUME NEW f \in Frames PROVE FrameWakes(f)
  BY <1>2, <1>3 DEF Init, TokenWakes, TimerWakes, NoToken, Over, QueueWakes,
     Callable, Awaited, Outcome, FrameWakes
<1> QED
  BY <1>3, <1>4 DEF WakeInv

\* Every step keeps the queue exact, and none fails the runtime while the
\* queue has room and no select that claims an arm was decided before.
LEMMA NextWakes ==
    ASSUME ChannelsInv, WakeInv, [Next]_vars
    PROVE  WakeInv' /\ (Roomy /\ FirstReadyArmWins /\ ~failed => ~failed')
<1>1. TypeOK /\ TokenDiscipline /\ Inductive /\ Settled
  BY DEF ChannelsInv, Inductive
<1>2. CASE UNCHANGED vars
  BY <1>2 DEF vars, WakeInv, Once, FrameWakes, TokenWakes, TimerWakes,
     QueueWakes, Callable, Awaited, Outcome, Suspended, Elements
<1>3. ASSUME NEW f \in Frames, NEW c \in Channels, NEW v \in Values,
             TrySend(f, c, v) \/ SendStart(f, c, v)
      PROVE  Woke
  BY <1>1, <1>3, TrySendWakes, SendStartWakes
<1>4. ASSUME NEW f \in Frames, NEW c \in Channels,
             \/ TryReceive(f, c) \/ ReceiveStart(f, c)
             \/ Close(f, c) \/ ReleaseHandle(f, c)
      PROVE  Woke
  BY <1>1, <1>4, TryReceiveWakes, ReceiveStartWakes, CloseStepWakes, LocalStepWakes
<1>5. ASSUME NEW f \in Frames, NEW shape \in Shapes, SelectStart(f, shape)
      PROVE  Woke
  BY <1>1, <1>5, SelectStartWakes
<1>6. ASSUME NEW f \in Frames,
             ArmSend(f) \/ ArmReceive(f) \/ ArmSleep(f) \/ SelectSuspend(f)
      PROVE  Woke
  BY <1>1, <1>6, ArmSendWakes, ArmReceiveWakes, ArmSleepWakes, SelectSuspendWakes
<1>7. ASSUME NEW f \in Frames, Resume(f) \/ SelectResume(f) \/ Finish(f) \/ DropFrame(f)
      PROVE  Woke
  BY <1>1, <1>7, ResumeWakes, SelectResumeWakes, FinishWakes, DropFrameWakes
<1>8. ASSUME NEW f \in Frames,
             \/ Yield(f) \/ Poll(f)
             \/ EnterDeadline(f) \/ ExitDeadline(f) \/ DeadlineExpire(f)
      PROVE  Woke
  BY <1>1, <1>8, YieldWakes, PollWakes, LocalStepWakes, DeadlineExpireWakes
<1>9. ASSUME NEW f \in Frames, Cancel(f) \/ DeadlineFailure(f)
      PROVE  Woke
  BY <1>1, <1>9, CancellationWakes
<1>10. ASSUME NEW r \in Regs, TimerExpire(r)
       PROVE  Woke
  BY <1>1, <1>10, TimerWakesOne
<1>11. ASSUME NEW f \in Frames, ImmediateWin(f)
       PROVE  WakeInv' /\ (FirstReadyArmWins => ~failed')
  BY <1>11, <1>1, ImmediateWinWakes DEF ImmediateWin, FirstReadyArmWins
<1> QED
  BY <1>2, <1>3, <1>4, <1>5, <1>6, <1>7, <1>8, <1>9, <1>10, <1>11 DEF Next, Woke

LEMMA WakesStay == Spec => [](ChannelsInv /\ WakeInv)
BY NextWakes, NextAdvances, InitChannels, InitWakes, PTL DEF Advances,
   ChannelsInv, Spec

\* However the wakes of sends, receives, closes, timers, deadlines and
\* cancellations interleave, nomo_async_ready_enqueue takes every frame whose
\* operation completed to the ready queue, and none twice; nomo_async_ready_
\* cancel_frame leaves no frame there that is over.
THEOREM CompletionsWakeOnce == Spec => []WokenOnce
<1>1. ChannelsInv /\ WakeInv => WokenOnce
  <2> SUFFICES ASSUME ChannelsInv, WakeInv PROVE WokenOnce
    OBVIOUS
  <2>0. WakeInv
    OBVIOUS
  <2>1. Once(ready) /\ \A f \in Frames : QueueWakes(f)
    BY ONLY <2>0 DEF WakeInv, FrameWakes
  <2>2. WakeNotLost
    BY <2>1 DEF WakeNotLost, QueueWakes, Awaited, Outcome
  <2>3. \A i \in 1 .. Len(ready) : ready[i] \in Frames /\ ready[i] \in Elements(ready)
    <3>1. ready \in Seq(Frames)
      BY DEF ChannelsInv, Inductive, TypeOK
    <3>2. \A i \in 1 .. Len(ready) : i \in DOMAIN ready /\ ready[i] \in Frames
      BY ONLY <3>1
    <3> QED
      BY ONLY <3>2 DEF Elements
  <2>4. EnqueuedOnce
    BY <2>1, <2>3 DEF QueueWakes, Callable, Outcome, Suspended, Over,
       Elements, EnqueuedOnce, Once
  <2> QED
    BY <2>2, <2>4 DEF WokenOnce
<1> QED
  BY <1>1, WakesStay, PTL

-----------------------------------------------------------------------------
(* Theorem: every select is decided by one arm. *)

\* No select sends and receives on the same channel.
OneWaySelects ==
    \A shape \in Shapes : \A a, b \in DOMAIN shape :
        ~(shape[a].op = "send" /\ shape[b].op = "receive" /\ shape[a].chan = shape[b].chan)

\* The channel operation of an arm that waits is the one of its select.
ArmsMatch ==
    \A r \in Regs : reg[r].registered /\ reg[r].token /\ reg[r].op # "sleep" =>
        /\ r[2] \in DOMAIN tok[r[1]].shape
        /\ tok[r[1]].shape[r[2]].op = reg[r].op
        /\ tok[r[1]].shape[r[2]].chan = reg[r].chan

Decided == ArmsMatch /\ FirstReadyArmWins

\* Nothing new waits, and no select goes on to claim an arm.
ArmsRest ==
    \A r \in Regs : reg'[r].registered /\ reg'[r].token /\ reg'[r].op # "sleep" =>
        reg'[r] = reg[r] /\ tok'[r[1]].shape = tok[r[1]].shape

ClaimsRest ==
    \A g \in Frames : phase'[g] = "claiming" =>
        phase[g] = "claiming" /\ tok'[g].winner = tok[g].winner

LEMMA DecidedRests ==
    ASSUME Decided, ArmsRest, ClaimsRest
    PROVE  Decided'
<1>1. ArmsMatch'
  BY DEF Decided, ArmsMatch, ArmsRest
<1>2. FirstReadyArmWins'
  BY DEF Decided, FirstReadyArmWins, ClaimsRest
<1> QED
  BY <1>1, <1>2 DEF Decided

\* While frame f is polled and does not claim an arm, no frame does.
LEMMA NoneClaims ==
    ASSUME TokenDiscipline, NEW f, running = f, f \in Frames => phase[f] # "claiming"
    PROVE  \A g \in Frames : phase[g] # "claiming"
BY DEF TokenDiscipline

\* A delivery takes no arm into use.
LEMMA DeliverArms ==
    ASSUME TypeOK, TokenDiscipline, Tidy, WakeInv, NEW won, Winners(won), NEW stale,
           NEW wake, NEW ring, Deliver(won, stale, wake, ring)
    PROVE  ArmsRest
<1> DEFINE lost == UNION {Losers(r) : r \in DOMAIN won}
<1> SUFFICES ASSUME NEW r \in Regs, reg'[r].registered
             PROVE  reg'[r] = reg[r] /\ tok'[r[1]].shape = tok[r[1]].shape
  BY DEF ArmsRest
<1>1. reg'[r] = IF r \in lost THEN NoRegistration
                ELSE IF r \in DOMAIN won THEN won[r]
                ELSE IF r \in stale THEN [reg[r] EXCEPT !.registered = FALSE]
                ELSE reg[r]
  BY DEF Deliver
<1>2. r \notin lost
  BY <1>1 DEF NoRegistration
<1>3. r \notin DOMAIN won
  BY <1>1, <1>2 DEF Winners
<1>4. r \notin stale
  BY <1>1, <1>2, <1>3 DEF TypeOK, Registrations
<1>5. tok'[r[1]].shape = tok[r[1]].shape
  <2>1. r[1] \in Frames
    BY DEF Regs
  <2>2. CASE \A q \in DOMAIN won : q[1] # r[1]
    BY <2>1, <2>2, DeliverOutcomes
  <2>3. ASSUME NEW q \in DOMAIN won, q[1] = r[1] PROVE tok'[r[1]].shape = tok[r[1]].shape
    BY DeliverOutcomes, <2>1, <2>3, ClaimedTokenFacts DEF Winners, Regs
  <2> QED
    BY <2>2, <2>3
<1> QED
  BY <1>1, <1>2, <1>3, <1>4, <1>5

LEMMA DeliversDecided ==
    ASSUME TypeOK, TokenDiscipline, Tidy, WakeInv, Decided, NEW S, Delivers(S),
           \/ ClaimsRest
           \/ \E f \in Frames : /\ phase[f] = "starting" /\ Claiming(f)
                                /\ \A r \in S : r[1] # f
    PROVE  Decided'
<1>1. PICK won, stale, wake, ring :
         /\ Winners(won) /\ DOMAIN won \subseteq S /\ Deliver(won, stale, wake, ring)
  BY DEF Delivers
<1>2. ArmsRest
  BY <1>1, DeliverArms
<1>3. CASE ClaimsRest
  BY <1>2, <1>3, DecidedRests
<1>4. ASSUME NEW f \in Frames, phase[f] = "starting", Claiming(f), \A r \in S : r[1] # f
      PROVE  Decided'
  <2>1. tok'[f] = tok[f] /\ tok[f].winner = 0
    BY <1>1, <1>4, DeliverOutcomes DEF TokenDiscipline
  <2>2. \A g \in Frames \ {f} : phase'[g] # "claiming"
    BY <1>4 DEF TokenDiscipline, Claiming, TypeOK
  <2>3. FirstReadyArmWins'
    BY <2>1, <2>2 DEF FirstReadyArmWins
  <2>4. ArmsMatch'
    BY <1>2 DEF Decided, ArmsMatch, ArmsRest
  <2> QED
    BY <2>3, <2>4 DEF Decided
<1> QED
  BY <1>3, <1>4

\* try_send completes a receive on its channel, and try_receive a send.
LEMMA CallDelivers ==
    ASSUME TypeOK, Linked, NEW c \in Channels, NEW v
    PROVE  /\ TrySendSucceeds(c, v) => Delivers(Waiters(recvq[c]))
           /\ TakeFromRing(c) => Delivers(Waiters(sendq[c]))
<1>1. ASSUME HandOff(c, v) PROVE Delivers(Waiters(recvq[c]))
  <2>1. PICK r \in Regs :
           /\ IsHead(Unlink(recvq[c], Stale(recvq[c])), r)
           /\ Deliver([x \in {r} |-> HandedTo(r, v)], Stale(recvq[c]), WakeOf(r), buf)
    BY <1>1 DEF HandOff
  <2> DEFINE won == [x \in {r} |-> HandedTo(r, v)]
  <2>2. r \in Waiters(recvq[c]) /\ Winners(won) /\ DOMAIN won = {r}
    BY <2>1, WaiterFacts, OutcomeFacts
  <2>3. Deliver(won, Stale(recvq[c]), WakeOf(r), buf)
    BY <2>1
  <2> HIDE DEF won
  <2> QED
    BY <2>2, <2>3 DEF Delivers
<1>2. ASSUME NEW S, NEW stale, NEW ring, Deliver(NoWinner, stale, <<>>, ring) PROVE Delivers(S)
  BY <1>2, NoneWins, NoWinnerFacts DEF Delivers
<1>3. ASSUME PutInRing(c, v) PROVE Delivers(Waiters(recvq[c]))
  BY <1>2, <1>3 DEF PutInRing
<1>4. ASSUME TakeFromRing(c) PROVE Delivers(Waiters(sendq[c]))
  <2> DEFINE stale == Stale(sendq[c])
             popped == [buf EXCEPT ![c] = Tail(@)]
  <2>1. \/ Deliver(NoWinner, stale, <<>>, popped)
        \/ \E s \in Regs :
              /\ IsHead(Unlink(sendq[c], stale), s)
              /\ Deliver([x \in {s} |-> Promoted(s)], stale, WakeOf(s),
                         [popped EXCEPT ![c] = Append(@, reg[s].value)])
    BY <1>4 DEF TakeFromRing
  <2>2. CASE Deliver(NoWinner, stale, <<>>, popped)
    BY <1>2, <2>2
  <2>3. ASSUME NEW s \in Regs, IsHead(Unlink(sendq[c], stale), s),
               Deliver([x \in {s} |-> Promoted(s)], stale, WakeOf(s),
                       [popped EXCEPT ![c] = Append(@, reg[s].value)])
        PROVE  Delivers(Waiters(sendq[c]))
    <3> DEFINE won == [x \in {s} |-> Promoted(s)]
               ring == [popped EXCEPT ![c] = Append(@, reg[s].value)]
    <3>1. s \in Waiters(sendq[c]) /\ Winners(won) /\ DOMAIN won = {s}
      BY <2>3, WaiterFacts, OutcomeFacts
    <3>2. Deliver(won, stale, WakeOf(s), ring)
      BY <2>3
    <3> HIDE DEF won, ring, stale
    <3> QED
      BY <3>1, <3>2 DEF Delivers
  <2> QED
    BY <2>1, <2>2, <2>3
<1> QED
  BY <1>1, <1>3, <1>4 DEF TrySendSucceeds

\* While an arm starts, no arm of its select waits on the other side of its
\* channel.
LEMMA OtherSideElsewhere ==
    ASSUME OneWaySelects, ChannelsInv, ArmsMatch, NEW f \in Frames, NEW r
    PROVE  /\ Starts(f, "send") /\ r \in Waiters(recvq[ArmChannel(f)]) => r[1] # f
           /\ Starts(f, "receive") /\ r \in Waiters(sendq[ArmChannel(f)]) => r[1] # f
<1>1. TypeOK /\ TokenDiscipline /\ Tidy /\ Linked
  BY DEF ChannelsInv, Settled, Inductive
<1> DEFINE c == ArmChannel(f)
           shape == tok[f].shape
           a == tok[f].next
<1> SUFFICES ASSUME NEW op \in {"send", "receive"}, NEW wait \in {"send", "receive"},
                    op # wait, Starts(f, op), r \in Regs, r[1] = f,
                    reg[r].registered, reg[r].op = wait, reg[r].chan = c
             PROVE  FALSE
  BY ArmChannelHeld, <1>1 DEF Linked, Links
<1>2. phase[f] = "starting" /\ a \in DOMAIN shape /\ shape[a].op = op /\ shape[a].chan = c
  BY DEF Starts, ArmChannel
<1>3. shape \in Shapes
  BY <1>1, <1>2 DEF TypeOK, Tokens
<1>4. reg[r].token
  BY <1>1, <1>2 DEF NoRegistration, Tidy, Owns
<1>5. r[2] \in DOMAIN shape /\ shape[r[2]].op = wait /\ shape[r[2]].chan = c
  BY <1>4 DEF ArmsMatch
<1> HIDE DEF c, shape, a
<1> QED
  BY <1>2, <1>3, <1>5 DEF OneWaySelects

\* An arm that is registered waits with the operation of its select.
LEMMA ArmRegisteredMatches ==
    ASSUME ChannelsInv, Decided, NEW f \in Frames, NEW op, Starts(f, op),
           tok' = Registered(f), phase' = phase, NEW r, r = <<f, tok[f].next>>,
           reg'[r].op = op, op = "sleep" \/ reg'[r].chan = ArmChannel(f),
           \A q \in Regs \ {r} :
              reg'[q] = reg[q] \/ reg'[q] = [reg[q] EXCEPT !.registered = FALSE]
    PROVE  Decided'
<1>1. TypeOK /\ TokenDiscipline /\ Inductive
  BY DEF ChannelsInv, Inductive
<1>2. /\ phase[f] = "starting" /\ tok[f].next \in DOMAIN tok[f].shape
      /\ tok[f].shape[tok[f].next].op = op
  BY DEF Starts
<1>3. /\ tok[f].next \in Arms
      /\ \A g \in Frames \ {f} : tok'[g] = tok[g]
      /\ tok'[f].winner = 0
      /\ tok'[f].shape = tok[f].shape
  BY <1>1, <1>2, RegisteredFacts
<1>4. FirstReadyArmWins'
  BY <1>3 DEF FirstReadyArmWins, Decided
<1>5. ASSUME NEW q \in Regs, reg'[q].registered, reg'[q].token, reg'[q].op # "sleep"
      PROVE  /\ q[2] \in DOMAIN tok'[q[1]].shape
             /\ tok'[q[1]].shape[q[2]].op = reg'[q].op
             /\ tok'[q[1]].shape[q[2]].chan = reg'[q].chan
  <2>1. CASE q = r
    BY <2>1, <1>2, <1>3, <1>5 DEF ArmChannel
  <2>2. CASE q # r
    <3>1. reg[q] \in Registrations /\ q[1] \in Frames
      BY <1>1 DEF TypeOK, Regs
    <3>2. reg'[q] = reg[q]
      BY <1>5, <2>2, <3>1 DEF Registrations
    <3>3. tok'[q[1]].shape = tok[q[1]].shape
      BY <1>3, <3>1
    <3> QED
      BY <1>5, <3>2, <3>3 DEF Decided, ArmsMatch
  <2> QED
    BY <2>1, <2>2
<1> QED
  BY <1>4, <1>5 DEF Decided, ArmsMatch

\* An arm is ready as it is started, without an operation on its channel.
LEMMA ArmReadyDecided ==
    ASSUME TypeOK, TokenDiscipline, Decided, NEW f \in Frames, phase[f] = "starting",
           Claiming(f), UNCHANGED <<reg, tok>>
    PROVE  Decided'
BY DEF Decided, ArmsMatch, FirstReadyArmWins, TokenDiscipline, Claiming,
   TypeOK

LEMMA ArmSendDecided ==
    ASSUME OneWaySelects, ChannelsInv, WakeInv, Decided, NEW f \in Frames, ArmSend(f)
    PROVE  Decided'
<1> DEFINE c == ArmChannel(f)
           v == staged[f][tok[f].next]
           r == <<f, tok[f].next>>
           x == SendRegistration(c, v, TRUE)
<1>1. TypeOK /\ TokenDiscipline /\ Tidy /\ Linked
  BY DEF ChannelsInv, Settled, Inductive
<1>2. /\ Starts(f, "send") /\ phase[f] = "starting" /\ c \in Channels
      /\ \/ TrySendSucceeds(c, v) /\ Claiming(f)
         \/ Claiming(f) /\ UNCHANGED <<reg, tok>>
         \/ Suspend(r, c, x) /\ tok' = Registered(f) /\ phase' = phase
  BY ArmChannelHeld DEF ArmSend
<1>3. CASE TrySendSucceeds(c, v) /\ Claiming(f)
  <2>1. \A q \in Waiters(recvq[c]) : q[1] # f
    BY <1>2, OtherSideElsewhere DEF Decided
  <2>2. Delivers(Waiters(recvq[c]))
    <3> HIDE DEF c, v
    <3> QED
      BY <1>1, <1>2, <1>3, CallDelivers
  <2> DEFINE S == Waiters(recvq[c])
  <2>3. Delivers(S) /\ \A q \in S : q[1] # f
    BY <2>1, <2>2
  <2> HIDE DEF S
  <2> QED
    BY <1>1, <1>2, <1>3, <2>3, DeliversDecided
<1>4. CASE Claiming(f) /\ UNCHANGED <<reg, tok>>
  BY <1>1, <1>2, <1>4, ArmReadyDecided
<1>5. CASE Suspend(r, c, x) /\ tok' = Registered(f) /\ phase' = phase
  <2>1. r \in Regs
    BY <1>1, <1>2, RegisteredFacts DEF ChannelsInv, Starts, Regs
  <2>2. x.op = "send" /\ x.chan = c
    BY DEF SendRegistration, NoRegistration
  <2> HIDE DEF x
  <2>3. /\ reg'[r] = x
        /\ \A q \in Regs \ {r} :
              reg'[q] = reg[q] \/ reg'[q] = [reg[q] EXCEPT !.registered = FALSE]
    BY <1>5, <2>1 DEF Suspend
  <2> QED
    BY <1>2, <1>5, <2>2, <2>3, ArmRegisteredMatches
<1> QED
  BY <1>2, <1>3, <1>4, <1>5

LEMMA ArmReceiveDecided ==
    ASSUME OneWaySelects, ChannelsInv, WakeInv, Decided, NEW f \in Frames, ArmReceive(f)
    PROVE  Decided'
<1> DEFINE c == ArmChannel(f)
           r == <<f, tok[f].next>>
           x == ReceiveRegistration(c, TRUE)
<1>1. TypeOK /\ TokenDiscipline /\ Tidy /\ Linked
  BY DEF ChannelsInv, Settled, Inductive
<1>2. /\ Starts(f, "receive") /\ phase[f] = "starting" /\ c \in Channels
      /\ \/ TakeFromRing(c) /\ Claiming(f)
         \/ Claiming(f) /\ UNCHANGED <<reg, tok>>
         \/ Suspend(r, c, x) /\ tok' = Registered(f) /\ phase' = phase
  BY ArmChannelHeld DEF ArmReceive
<1>3. CASE TakeFromRing(c) /\ Claiming(f)
  <2>1. \A q \in Waiters(sendq[c]) : q[1] # f
    BY <1>2, OtherSideElsewhere DEF Decided
  <2>2. Delivers(Waiters(sendq[c]))
    <3> HIDE DEF c
    <3> QED
      BY <1>1, <1>2, <1>3, CallDelivers
  <2> DEFINE S == Waiters(sendq[c])
  <2>3. Delivers(S) /\ \A q \in S : q[1] # f
    BY <2>1, <2>2
  <2> HIDE DEF S
  <2> QED
    BY <1>1, <1>2, <1>3, <2>3, DeliversDecided
<1>4. CASE Claiming(f) /\ UNCHANGED <<reg, tok>>
  BY <1>1, <1>2, <1>4, ArmReadyDecided
<1>5. CASE Suspend(r, c, x) /\ tok' = Registered(f) /\ phase' = phase
  <2>1. r \in Regs
    BY <1>1, <1>2, RegisteredFacts DEF ChannelsInv, Starts, Regs
  <2>2. x.op = "receive" /\ x.chan = c
    BY DEF ReceiveRegistration, NoRegistration
  <2> HIDE DEF x
  <2>3. /\ reg'[r] = x
        /\ \A q \in Regs \ {r} :
              reg'[q] = reg[q] \/ reg'[q] = [reg[q] EXCEPT !.registered = FALSE]
    BY <1>5, <2>1 DEF Suspend
  <2> QED
    BY <1>2, <1>5, <2>2, <2>3, ArmRegisteredMatches
<1> QED
  BY <1>2, <1>3, <1>4, <1>5

LEMMA ArmSleepDecided ==
    ASSUME ChannelsInv, Decided, NEW f \in Frames, ArmSleep(f)
    PROVE  Decided'
<1> DEFINE r == <<f, tok[f].next>>
           x == [NoRegistration EXCEPT !.op = "sleep", !.registered = TRUE, !.token = TRUE]
<1>1. TypeOK /\ TokenDiscipline
  BY DEF ChannelsInv, Inductive
<1>2. /\ Starts(f, "sleep") /\ phase[f] = "starting"
      /\ \/ Claiming(f) /\ UNCHANGED <<reg, tok>>
         \/ /\ reg' = [reg EXCEPT ![r] = x]
            /\ tok' = Registered(f) /\ phase' = phase
  BY DEF ArmSleep, Starts
<1>3. CASE Claiming(f) /\ UNCHANGED <<reg, tok>>
  BY <1>1, <1>2, <1>3, ArmReadyDecided
<1>4. CASE reg' = [reg EXCEPT ![r] = x] /\ tok' = Registered(f) /\ phase' = phase
  <2>1. r \in Regs
    BY <1>1, <1>2, RegisteredFacts DEF ChannelsInv, Starts, Regs
  <2>2. x.op = "sleep"
    BY DEF NoRegistration
  <2> HIDE DEF x
  <2>3. reg'[r] = x /\ \A q \in Regs \ {r} : reg'[q] = reg[q]
    BY <1>1, <1>4, <2>1 DEF TypeOK
  <2> QED
    BY <1>2, <1>4, <2>2, <2>3, ArmRegisteredMatches
<1> QED
  BY <1>2, <1>3, <1>4

\* Calls outside the start of a select: no frame claims an arm meanwhile.
LEMMA CallDecided ==
    ASSUME ChannelsInv, WakeInv, Decided, NEW f \in Frames, NEW c \in Channels, NEW v \in Values,
           TrySend(f, c, v) \/ TryReceive(f, c)
    PROVE  Decided'
<1>1. TypeOK /\ TokenDiscipline /\ Tidy /\ Linked
  BY DEF ChannelsInv, Settled, Inductive
<1>2. running = f /\ phase[f] = "idle" /\ phase' = phase
  BY DEF TrySend, TryReceive, Runs
<1>3. ClaimsRest
  BY <1>1, <1>2, NoneClaims DEF ClaimsRest
<1>4. ASSUME NEW S, Delivers(S) PROVE Decided'
  BY <1>1, <1>3, <1>4, DeliversDecided
<1>5. CASE TrySend(f, c, v)
  <2>1. TrySendSucceeds(c, v) \/ Deliver(NoWinner, Stale(recvq[c]), <<>>, buf)
    BY <1>5 DEF TrySend
  <2>2. CASE Deliver(NoWinner, Stale(recvq[c]), <<>>, buf)
    BY <2>2, NoneWins, NoWinnerFacts, <1>4 DEF Delivers
  <2> QED
    BY <1>1, <1>4, <2>1, <2>2, CallDelivers
<1>6. CASE TryReceive(f, c)
  BY <1>6, <1>1, <1>4, CallDelivers DEF TryReceive
<1> QED
  BY <1>5, <1>6

LEMMA CloseDecided ==
    ASSUME ChannelsInv, WakeInv, Decided, NEW f \in Frames, NEW c \in Channels, Close(f, c)
    PROVE  Decided'
<1>1. TypeOK /\ TokenDiscipline /\ Tidy /\ Linked
  BY DEF ChannelsInv, Settled, Inductive
<1>2. running = f /\ phase[f] = "idle" /\ phase' = phase
  BY DEF Close, Runs
<1>3. ClaimsRest
  BY <1>1, <1>2, NoneClaims DEF ClaimsRest
<1>4. Delivers(Regs)
  BY CloseStepWakes
<1> QED
  BY <1>1, <1>3, <1>4, DeliversDecided

LEMMA TimerDecided ==
    ASSUME ChannelsInv, WakeInv, Decided, NEW r \in Regs, TimerExpire(r)
    PROVE  Decided'
<1>1. TypeOK /\ TokenDiscipline /\ Tidy
  BY DEF ChannelsInv, Settled, Inductive
<1>2. running = None /\ reg[r].registered /\ phase' = phase
  BY DEF TimerExpire, Idle, frameVars
<1>3. ClaimsRest
  BY <1>1, <1>2, FramesAssumption DEF ClaimsRest, TokenDiscipline
<1>4. CASE Claimable(r)
  <2> DEFINE won == [x \in {r} |-> Expired(r)]
  <2>1. Winners(won) /\ Deliver(won, {}, WakeOf(r), buf)
    BY <1>1, <1>2, <1>4, OutcomeFacts DEF TimerExpire
  <2> HIDE DEF won
  <2>2. Delivers(DOMAIN won)
    BY <2>1 DEF Delivers
  <2> QED
    BY <1>1, <1>3, <2>2, DeliversDecided
<1>5. CASE ~Claimable(r)
  BY <1>5, <1>3, DecidedRests DEF TimerExpire, ArmsRest
<1> QED
  BY <1>4, <1>5

\* A frame waits outside a select.
LEMMA PlainDecided ==
    ASSUME TypeOK, TokenDiscipline, Decided, NEW f \in Frames, Runs(f),
           NEW c, NEW x, Suspend(<<f, 1>>, c, x), ~x.token,
           phase' = [phase EXCEPT ![f] = "plain"], tok' = tok
    PROVE  Decided'
<1>1. running = f /\ phase[f] = "idle"
  BY DEF Runs
<1>2. ClaimsRest
  BY <1>1 DEF ClaimsRest, TypeOK
<1>3. <<f, 1>> \in Regs
  BY MaxArmsAssumption DEF Regs, Arms
<1>4. ArmsRest
  <2> SUFFICES ASSUME NEW r \in Regs, reg'[r].registered, reg'[r].token
               PROVE  reg'[r] = reg[r]
    BY DEF ArmsRest
  <2>1. CASE r = <<f, 1>>
    BY <1>3, <2>1 DEF Suspend
  <2>2. CASE r # <<f, 1>>
    BY <2>2 DEF TypeOK, Suspend, Registrations
  <2> QED
    BY <2>1, <2>2
<1> QED
  BY <1>2, <1>4, DecidedRests

LEMMA StartDecided ==
    ASSUME TypeOK, TokenDiscipline, Decided, NEW f \in Frames, NEW c, NEW v,
           SendStart(f, c, v) \/ ReceiveStart(f, c)
    PROVE  Decided'
<1>1. ~SendRegistration(c, v, FALSE).token /\ ~ReceiveRegistration(c, FALSE).token
  BY DEF SendRegistration, ReceiveRegistration, NoRegistration
<1>2. CASE SendStart(f, c, v)
  BY <1>1, <1>2, PlainDecided DEF SendStart
<1>3. CASE ReceiveStart(f, c)
  BY <1>1, <1>3, PlainDecided DEF ReceiveStart
<1> QED
  BY <1>2, <1>3

\* A frame that waits for nothing starts a select.
LEMMA SelectDecides ==
    ASSUME ChannelsInv, Decided, NEW f \in Frames, NEW shape \in Shapes, SelectStart(f, shape)
    PROVE  Decided'
<1>1. TypeOK /\ TokenDiscipline /\ Tidy
  BY DEF ChannelsInv, Settled, Inductive
<1>2. /\ reg' = reg /\ \A g \in Frames \ {f} : tok'[g] = tok[g] /\ phase'[g] = phase[g]
      /\ phase[f] = "idle" /\ phase'[f] # "claiming"
  BY <1>1 DEF SelectStart, Runs, TypeOK
<1>3. ArmsRest
  <2> SUFFICES ASSUME NEW r \in Regs, reg'[r].registered
               PROVE  tok'[r[1]].shape = tok[r[1]].shape
    BY <1>2 DEF ArmsRest
  <2>1. ~NoRegistration.registered
    BY DEF NoRegistration
  <2>2. Owns(r) /\ r[1] \in Frames
    BY <1>1, <1>2, <2>1 DEF Tidy, Regs
  <2>3. r[1] # f
    BY <1>1, <1>2, <2>2, IdleOwnsNothing
  <2> QED
    BY <1>2, <2>2, <2>3
<1>4. ClaimsRest
  BY <1>2 DEF ClaimsRest
<1> QED
  BY <1>3, <1>4, DecidedRests

LEMMA SuspendDecides ==
    ASSUME ChannelsInv, Decided, NEW f \in Frames, SelectSuspend(f)
    PROVE  Decided'
<1>1. TypeOK
  BY DEF ChannelsInv, Inductive
<1>2. /\ reg' = reg /\ \A g \in Frames \ {f} : tok'[g] = tok[g] /\ phase'[g] = phase[g]
      /\ phase'[f] # "claiming"
      /\ tok'[f] = [tok[f] EXCEPT !.suspended = TRUE] /\ tok[f] \in Tokens
  BY <1>1 DEF SelectSuspend, TypeOK
<1>3. tok'[f].shape = tok[f].shape
  BY <1>2 DEF Tokens
<1>4. ArmsRest /\ ClaimsRest
  BY <1>2, <1>3 DEF ArmsRest, ClaimsRest, Regs
<1> QED
  BY <1>4, DecidedRests

\* The frames of S give up what they wait for.
LEMMA GivesUp ==
    ASSUME Tidy, Decided, NEW S \in SUBSET Frames, NEW lost,
           \A r \in Regs : reg'[r] = IF r \in lost THEN NoRegistration ELSE reg[r],
           \A r \in Regs : r[1] \in S /\ tok[r[1]].active /\ r[2] \in tok[r[1]].registered
              => r \in lost,
           \A g \in Frames \ S : tok'[g] = tok[g] /\ phase'[g] = phase[g],
           \A g \in S : phase'[g] # "claiming"
    PROVE  Decided'
<1>1. ~NoRegistration.registered
  BY DEF NoRegistration
<1>2. ArmsRest
  <2> SUFFICES ASSUME NEW r \in Regs, reg'[r].registered, reg'[r].token
               PROVE  reg'[r] = reg[r] /\ tok'[r[1]].shape = tok[r[1]].shape
    BY DEF ArmsRest
  <2>1. r \notin lost /\ reg'[r] = reg[r]
    BY <1>1
  <2>2. Owns(r) /\ r[1] \in Frames
    BY <1>1, <2>1 DEF Tidy, Regs
  <2>3. r[1] \notin S
    BY <2>1, <2>2 DEF Owns
  <2> QED
    BY <2>1, <2>2, <2>3
<1>3. ClaimsRest
  BY DEF ClaimsRest
<1> QED
  BY <1>2, <1>3, DecidedRests

LEMMA CancelDecided ==
    ASSUME ChannelsInv, Decided, NEW S \in SUBSET Frames, CancelFrames(S)
    PROVE  Decided'
<1> DEFINE lost == UNION {Outstanding(f) : f \in S}
<1>1. Tidy
  BY DEF ChannelsInv, Settled
<1>2. /\ \A r \in Regs : reg'[r] = IF r \in lost THEN NoRegistration ELSE reg[r]
      /\ \A g \in Frames \ S : tok'[g] = tok[g] /\ phase'[g] = phase[g]
      /\ \A g \in S : phase'[g] # "claiming"
  BY DEF CancelFrames
<1>3. \A r \in Regs : r[1] \in S /\ tok[r[1]].active /\ r[2] \in tok[r[1]].registered
         => r \in lost
  BY DEF Outstanding, Regs
<1> HIDE DEF lost
<1> QED
  BY <1>1, <1>2, <1>3, GivesUp

LEMMA CancellationDecided ==
    ASSUME ChannelsInv, Decided, NEW f \in Frames, Cancel(f) \/ DeadlineFailure(f)
    PROVE  Decided'
<1> DEFINE S == {g \in IF f = Root THEN Frames ELSE {f} : phase[g] \notin Over}
<1>1. CancelFrames({f}) \/ CancelFrames(S)
  BY DEF Cancel, DeadlineFailure
<1>2. {f} \in SUBSET Frames /\ S \in SUBSET Frames
  OBVIOUS
<1> HIDE DEF S
<1> QED
  BY <1>1, <1>2, CancelDecided

LEMMA ImmediateWinDecided ==
    ASSUME ChannelsInv, Decided, NEW f \in Frames, ImmediateWin(f)
    PROVE  Decided'
<1> DEFINE lost == {<<f, a>> : a \in tok[f].registered \ {tok[f].next}}
           S == {f}
<1>1. TypeOK /\ TokenDiscipline /\ Tidy
  BY DEF ChannelsInv, Settled, Inductive
<1>2. phase[f] = "claiming" /\ tok[f].active /\ tok[f].winner = 0
  BY <1>1 DEF ImmediateWin, Decided, FirstReadyArmWins, TokenDiscipline
<1>3. /\ reg' = [r \in Regs |-> IF r \in lost THEN NoRegistration ELSE reg[r]]
      /\ tok' = [tok EXCEPT ![f] = NoToken]
      /\ phase' = [phase EXCEPT ![f] = "idle"]
  BY <1>2 DEF ImmediateWin
<1>4. tok[f].next \notin tok[f].registered
  BY <1>1, <1>2 DEF TypeOK, Tokens, TokenDiscipline
<1>5. \A r \in Regs : r[1] \in S /\ tok[r[1]].active /\ r[2] \in tok[r[1]].registered
         => r \in lost
  BY <1>4 DEF Regs
<1>6. /\ S \in SUBSET Frames
      /\ \A r \in Regs : reg'[r] = IF r \in lost THEN NoRegistration ELSE reg[r]
      /\ \A g \in Frames \ S : tok'[g] = tok[g] /\ phase'[g] = phase[g]
      /\ \A g \in S : phase'[g] # "claiming"
  BY <1>1, <1>3 DEF TypeOK
<1> HIDE DEF lost, S
<1> QED
  BY <1>1, <1>5, <1>6, GivesUp

\* An outcome is consumed, or the poll finds none.
LEMMA ResumeDecided ==
    ASSUME ChannelsInv, WakeInv, Decided, NEW f \in Frames, Resume(f) \/ SelectResume(f)
    PROVE  Decided'
<1>1. TypeOK /\ TokenDiscipline /\ Tidy
  BY DEF ChannelsInv, Settled, Inductive
<1>2. CASE UNCHANGED <<reg, tok, phase>>
  BY <1>2, DecidedRests DEF ArmsRest, ClaimsRest
<1>3. ASSUME NEW a, Finished(f, <<f, a>>), NEW S, S = {f},
             \A b : tok[f].active /\ b \in tok[f].registered => b = a,
             \A g \in Frames \ {f} : tok'[g] = tok[g]
      PROVE  Decided'
  <2> DEFINE lost == {<<f, a>>}
  <2>1. /\ \A r \in Regs : reg'[r] = IF r \in lost THEN NoRegistration ELSE reg[r]
        /\ \A g \in Frames \ S : tok'[g] = tok[g] /\ phase'[g] = phase[g]
        /\ \A g \in S : phase'[g] # "claiming"
    BY <1>1, <1>3 DEF Finished, TypeOK
  <2>2. \A r \in Regs : r[1] \in S /\ tok[r[1]].active /\ r[2] \in tok[r[1]].registered
           => r \in lost
    BY <1>3 DEF Regs
  <2>3. S \in SUBSET Frames
    BY <1>3
  <2> HIDE DEF lost
  <2> QED
    BY <1>1, <2>1, <2>2, <2>3, GivesUp
<1>4. CASE Resume(f)
  BY <1>4, <1>1, <1>2, <1>3 DEF Resume, Resumes, TokenDiscipline
<1>5. CASE SelectResume(f)
  <2>1. tok[f].winner # 0 => \A b : b \in tok[f].registered => b = tok[f].winner
    BY <1>1 DEF TokenDiscipline
  <2>2. \/ /\ tok[f].winner # 0 /\ Finished(f, <<f, tok[f].winner>>)
           /\ \A g \in Frames \ {f} : tok'[g] = tok[g]
        \/ UNCHANGED <<reg, tok, phase>>
    BY <1>5, <1>1 DEF SelectResume, Resumes, WakeInv, FrameWakes, TokenWakes,
       TypeOK
  <2> QED
    BY <1>2, <1>3, <2>1, <2>2
<1> QED
  BY <1>4, <1>5

\* Steps that touch no operation.
LEMMA FrameStepDecided ==
    ASSUME TypeOK, Decided, NEW f \in Frames, NEW c,
           \/ Yield(f) \/ Poll(f) \/ Finish(f) \/ DropFrame(f) \/ ReleaseHandle(f, c)
           \/ EnterDeadline(f) \/ ExitDeadline(f) \/ DeadlineExpire(f)
    PROVE  Decided'
BY DecidedRests DEF Yield, Poll, Finish, DropFrame, ReleaseHandle,
   EnterDeadline, ExitDeadline, DeadlineExpire, frameVars, TypeOK, Over,
   ArmsRest, ClaimsRest

LEMMA NextDecided ==
    ASSUME OneWaySelects, ChannelsInv, WakeInv, Decided, [Next]_vars
    PROVE  Decided'
<1>1. TypeOK /\ TokenDiscipline
  BY DEF ChannelsInv, Inductive
<1>2. CASE UNCHANGED vars
  BY <1>2, DecidedRests DEF vars, ArmsRest, ClaimsRest
<1>3. ASSUME NEW f \in Frames, NEW c \in Channels, NEW v \in Values,
             TrySend(f, c, v) \/ SendStart(f, c, v)
      PROVE  Decided'
  BY <1>1, <1>3, CallDecided, StartDecided
<1>4. ASSUME NEW f \in Frames, NEW c \in Channels,
             \/ TryReceive(f, c) \/ ReceiveStart(f, c)
             \/ Close(f, c) \/ ReleaseHandle(f, c)
      PROVE  Decided'
  <2>1. CASE TryReceive(f, c)
    <3>1. buf[c] # <<>> /\ buf[c] \in Seq(Values)
      BY <1>1, <2>1 DEF TryReceive, TakeFromRing, TypeOK
    <3>2. PICK v \in Values : TRUE
      BY <3>1
    <3> QED
      BY <2>1, CallDecided
  <2>2. CASE Close(f, c)
    BY <2>2, CloseDecided
  <2> QED
    BY <1>1, <1>4, <2>1, <2>2, StartDecided, FrameStepDecided
<1>5. ASSUME NEW f \in Frames, NEW shape \in Shapes, SelectStart(f, shape)
      PROVE  Decided'
  BY <1>5, SelectDecides
<1>6. ASSUME NEW f \in Frames, ArmSend(f) \/ ArmReceive(f) \/ ArmSleep(f) \/ ImmediateWin(f)
      PROVE  Decided'
  BY <1>6, ArmSendDecided, ArmReceiveDecided, ArmSleepDecided, ImmediateWinDecided
<1>7. ASSUME NEW f \in Frames, SelectSuspend(f)
      PROVE  Decided'
  BY <1>7, SuspendDecides
<1>8. ASSUME NEW f \in Frames, Resume(f) \/ SelectResume(f) \/ Cancel(f) \/ DeadlineFailure(f)
      PROVE  Decided'
  BY <1>8, ResumeDecided, CancellationDecided
<1>9. ASSUME NEW f \in Frames,
             \/ Yield(f) \/ Poll(f) \/ Finish(f) \/ DropFrame(f)
             \/ EnterDeadline(f) \/ ExitDeadline(f) \/ DeadlineExpire(f)
      PROVE  Decided'
  BY <1>1, <1>9, FrameStepDecided
<1>10. ASSUME NEW r \in Regs, TimerExpire(r)
       PROVE  Decided'
  BY <1>10, TimerDecided
<1> QED
  BY <1>2, <1>3, <1>4, <1>5, <1>6, <1>7, <1>8, <1>9, <1>10 DEF Next

\* In a program none of whose selects sends and receives on one channel, and
\* whose frames all fit in the ready queue, the claims that immediate_win, the
\* wakes and the timers take for granted never fail, a winner has its outcome
\* and a late loser leaves no trace.  A select on both sides of a channel can
\* decide itself while it starts, and a yield can find the queue full.
THEOREM SelectsAreDecided ==
    OneWaySelects /\ Roomy => (Spec => []SelectDecided)
<1> SUFFICES ASSUME OneWaySelects, Roomy PROVE Spec => []SelectDecided
  OBVIOUS
<1> DEFINE Inv == Decided /\ ~failed
<1>1. Init => Inv
  <2> SUFFICES ASSUME Init PROVE Inv
    OBVIOUS
  <2>1. ~failed /\ \A r \in Regs : ~reg[r].registered
    BY DEF Init, NoRegistration
  <2> QED
    BY <2>1 DEF Init, Decided, ArmsMatch, FirstReadyArmWins
<1>2. (ChannelsInv /\ WakeInv) /\ Inv /\ [Next]_vars => Inv'
  BY NextDecided, NextWakes DEF Decided
<1>3. (ChannelsInv /\ WakeInv) /\ Inv => SelectDecided
  <2> SUFFICES ASSUME ChannelsInv, WakeInv, Inv PROVE SelectDecided
    OBVIOUS
  <2>1. TypeOK /\ TokenDiscipline /\ Tidy
    BY DEF ChannelsInv, Settled, Inductive
  <2>2. ASSUME NEW f \in Frames, tok[f].active, tok[f].winner # 0,
               NEW a \in Arms \ {tok[f].winner}
        PROVE  reg[<<f, a>>] = NoRegistration
    BY <2>1, <2>2 DEF TokenDiscipline, Owns, Regs, Tidy
  <2>3. OneWinner
    BY <2>2 DEF OneWinner, WakeInv, FrameWakes, TokenWakes
  <2> QED
    BY <2>3 DEF SelectDecided, NoRuntimeFailure
<1> HIDE DEF Inv
<1> QED
  BY <1>1, <1>2, <1>3, WakesStay, PTL DEF Spec

-----------------------------------------------------------------------------
(* Who owns a payload. *)

\* Rings, registrations, frames, the staged operands of a select, and what
\* has been released.
Containers ==
    ((({"ring"} \X Channels) \cup ({"registration"} \X Regs))
       \cup (({"frame"} \X Frames) \cup ({"staged"} \X Regs)))
      \cup {<<"dropped", None>>}

Dropped == <<"dropped", None>>

OwnedBy(x) == IF x.active /\ x.owned THEN {x.value} ELSE {}

\* What is staged for arm r[2] of frame r[1].
Operand(s, r) == {s[r[1]][r[2]]} \ {None}

\* What each container holds when the rings are `ring`, and so on.
Custody(ring, g, h, s, d) ==
    [o \in Containers |->
        IF o[1] = "ring" THEN Elements(ring[o[2]])
        ELSE IF o[1] = "registration" THEN OwnedBy(g[o[2]])
        ELSE IF o[1] = "frame" THEN h[o[2]]
        ELSE IF o[1] = "staged" THEN Operand(s, o[2])
        ELSE d]

\* Every payload is in one container.
Sole(W) ==
    \A v \in Values : \E o \in Containers :
        v \in W[o] /\ \A p \in Containers : v \in W[p] => p = o

\* No payload is twice in a ring.
Distinct(ring) ==
    \A c \in Channels : \A i, j \in 1 .. Len(ring[c]) : ring[c][i] = ring[c][j] => i = j

\* Blocked senders own their payload, and blocked receivers and sleeps none.
SendersOwn ==
    \A r \in Regs : reg[r].registered => (reg[r].owned <=> reg[r].op = "send")

\* Payloads are staged for the send arms that have not been started.
StagedAhead ==
    \A f \in Frames : \A a \in Arms : staged[f][a] # None =>
        /\ phase[f] \in {"starting", "claiming"}
        /\ a \in DOMAIN tok[f].shape /\ tok[f].shape[a].op = "send"
        /\ phase[f] = "starting" => a >= tok[f].next

OwnInv ==
    /\ Sole(Custody(buf, reg, held, staged, dropped))
    /\ Distinct(buf) /\ SendersOwn /\ StagedAhead

LEMMA CustodyAt ==
    ASSUME NEW ring, NEW g, NEW h, NEW s, NEW d
    PROVE  /\ \A c \in Channels : <<"ring", c>> \in Containers /\ Custody(ring, g, h, s, d)[<<"ring", c>>] = Elements(ring[c])
           /\ \A r \in Regs : <<"registration", r>> \in Containers /\ Custody(ring, g, h, s, d)[<<"registration", r>>] = OwnedBy(g[r])
           /\ \A f \in Frames : <<"frame", f>> \in Containers /\ Custody(ring, g, h, s, d)[<<"frame", f>>] = h[f]
           /\ \A r \in Regs : <<"staged", r>> \in Containers /\ Custody(ring, g, h, s, d)[<<"staged", r>>] = Operand(s, r)
           /\ Dropped \in Containers /\ Custody(ring, g, h, s, d)[Dropped] = d
BY DEF Custody, Containers, Dropped

LEMMA OneContainer ==
    ASSUME NEW o \in Containers
    PROVE  \/ \E c \in Channels : o = <<"ring", c>>
           \/ \E r \in Regs : o = <<"registration", r>>
           \/ \E f \in Frames : o = <<"frame", f>>
           \/ \E r \in Regs : o = <<"staged", r>>
           \/ o = Dropped
BY DEF Containers, Dropped

LEMMA MoveSole ==
    ASSUME NEW W, NEW V, Sole(W), NEW a \in Containers, NEW b \in Containers, a # b,
           NEW X, X \subseteq W[a],
           \A o \in Containers : V[o] = IF o = b THEN W[b] \cup X
                                        ELSE IF o = a THEN W[a] \ X ELSE W[o]
    PROVE  Sole(V)
<1> SUFFICES ASSUME NEW v \in Values
             PROVE  \E o \in Containers : v \in V[o] /\ \A p \in Containers : v \in V[p] => p = o
  BY DEF Sole
<1>1. PICK o \in Containers : v \in W[o] /\ \A p \in Containers : v \in W[p] => p = o
  BY DEF Sole
<1>2. CASE v \in X
  BY <1>1, <1>2
<1>3. CASE v \notin X
  BY <1>1, <1>3
<1> QED
  BY <1>2, <1>3

LEMMA GatherSole ==
    ASSUME NEW W, NEW V, Sole(W), NEW A \in SUBSET Containers, NEW b \in Containers, b \notin A,
           \A v : v \in V[b] <=> v \in W[b] \/ \E o \in A : v \in W[o],
           \A o \in A : V[o] = {},
           \A o \in Containers \ A : o # b => V[o] = W[o]
    PROVE  Sole(V)
<1> SUFFICES ASSUME NEW v \in Values
             PROVE  \E o \in Containers : v \in V[o] /\ \A p \in Containers : v \in V[p] => p = o
  BY DEF Sole
<1>1. PICK o \in Containers : v \in W[o] /\ \A p \in Containers : v \in W[p] => p = o
  BY DEF Sole
<1>2. CASE o \in A
  BY <1>1, <1>2
<1>3. CASE o \notin A
  BY <1>1, <1>3
<1> QED
  BY <1>2, <1>3

LEMMA SameSole ==
    ASSUME NEW W, NEW V, Sole(W), \A o \in Containers : V[o] = W[o]
    PROVE  Sole(V)
BY DEF Sole

\* Releasing references drops what the registrations of `lost` own, and what
\* the rings of the channels that nobody needs any more hold.
LEMMA ReleaseSole ==
    ASSUME NEW lost \in SUBSET Regs, NEW less, NEW ring, NEW freed,
           Release(lost, less, ring, freed), NEW g, NEW h, NEW s,
           Sole(Custody(ring, g, h, s, dropped \cup freed)),
           \A r \in Regs :
              IF r \in lost THEN OwnedBy(reg'[r]) = {} /\ OwnedBy(g[r]) = OwnedBy(reg[r])
              ELSE OwnedBy(reg'[r]) = OwnedBy(g[r])
    PROVE  /\ Sole(Custody(buf', reg', h, s, dropped'))
           /\ Distinct(ring) => Distinct(buf')
<1> DEFINE left == [c \in Channels |-> refs[c] - ReferencesOf(lost, c) - less[c]]
           dead == {c \in Channels : refs[c] > 0 /\ left[c] <= 0}
           W == Custody(ring, g, h, s, dropped \cup freed)
           V == Custody(buf', reg', h, s, dropped')
           rings == {<<"ring", c>> : c \in dead}
           regs == {<<"registration", r>> : r \in lost}
<1>1. /\ \A c \in Channels : buf'[c] = IF c \in dead THEN <<>> ELSE ring[c]
      /\ dropped' = dropped \cup freed \cup Payloads(lost)
                       \cup UNION {Elements(ring[c]) : c \in dead}
  BY DEF Release
<1>2. Elements(<<>>) = {}
  BY DEF Elements
<1>3. dead \subseteq Channels
  OBVIOUS
<1> HIDE DEF dead
<1>4. /\ \A c \in Channels : <<"ring", c>> \in Containers /\ W[<<"ring", c>>] = Elements(ring[c])
      /\ \A r \in Regs : <<"registration", r>> \in Containers /\ W[<<"registration", r>>] = OwnedBy(g[r])
      /\ \A f \in Frames : <<"frame", f>> \in Containers /\ W[<<"frame", f>>] = h[f]
      /\ \A r \in Regs : <<"staged", r>> \in Containers /\ W[<<"staged", r>>] = Operand(s, r)
      /\ Dropped \in Containers /\ W[Dropped] = dropped \cup freed
  BY CustodyAt
<1>5. /\ \A c \in Channels : <<"ring", c>> \in Containers /\ V[<<"ring", c>>] = Elements(buf'[c])
      /\ \A r \in Regs : <<"registration", r>> \in Containers /\ V[<<"registration", r>>] = OwnedBy(reg'[r])
      /\ \A f \in Frames : <<"frame", f>> \in Containers /\ V[<<"frame", f>>] = h[f]
      /\ \A r \in Regs : <<"staged", r>> \in Containers /\ V[<<"staged", r>>] = Operand(s, r)
      /\ Dropped \in Containers /\ V[Dropped] = dropped'
  BY CustodyAt
<1>6. rings \cup regs \in SUBSET Containers /\ Dropped \notin rings \cup regs
  BY <1>3, <1>4 DEF Dropped
<1>7. \A o \in rings \cup regs : V[o] = {}
  BY <1>1, <1>2, <1>3, <1>5
<1>8. /\ \A c \in dead : W[<<"ring", c>>] = Elements(ring[c])
      /\ \A r \in lost : W[<<"registration", r>>] = Payload(r)
  BY <1>3, <1>4 DEF OwnedBy, Payload
<1>9. \A v : v \in V[Dropped] <=> v \in W[Dropped] \/ \E o \in rings \cup regs : v \in W[o]
  <2> TAKE v
  <2> HIDE DEF V, W
  <2>1. (\E o \in rings \cup regs : v \in W[o])
          <=> (\E c \in dead : v \in Elements(ring[c])) \/ (\E r \in lost : v \in Payload(r))
    BY <1>8
  <2>2. v \in Payloads(lost) <=> \E r \in lost : v \in Payload(r)
    BY DEF Payloads
  <2>3. v \in UNION {Elements(ring[c]) : c \in dead} <=> \E c \in dead : v \in Elements(ring[c])
    OBVIOUS
  <2> HIDE DEF rings, regs
  <2> QED
    BY <1>1, <1>4, <1>5, <2>1, <2>2, <2>3
<1>10. \A o \in Containers \ (rings \cup regs) : o # Dropped => V[o] = W[o]
  <2> SUFFICES ASSUME NEW o \in Containers, o \notin rings \cup regs, o # Dropped
               PROVE  V[o] = W[o]
    OBVIOUS
  <2>0. \A r \in Regs : V[<<"staged", r>>] = W[<<"staged", r>>]
    BY <1>4, <1>5
  <2> HIDE DEF V, W
  <2>1. CASE \E c \in Channels : o = <<"ring", c>>
    BY <1>1, <1>4, <1>5, <2>1
  <2>2. CASE \E r \in Regs : o = <<"registration", r>>
    BY <1>4, <1>5, <2>2
  <2>3. CASE \E f \in Frames : o = <<"frame", f>>
    BY <1>4, <1>5, <2>3
  <2>4. CASE \E r \in Regs : o = <<"staged", r>>
    BY <2>0, <2>4
  <2> QED
    BY <2>1, <2>2, <2>3, <2>4, OneContainer
<1>11. Sole(V)
  <2> DEFINE A == rings \cup regs
  <2>1. /\ A \in SUBSET Containers /\ Dropped \in Containers /\ Dropped \notin A
        /\ \A v : v \in V[Dropped] <=> v \in W[Dropped] \/ \E o \in A : v \in W[o]
        /\ \A o \in A : V[o] = {}
        /\ \A o \in Containers \ A : o # Dropped => V[o] = W[o]
        /\ Sole(W)
    BY <1>4, <1>6, <1>7, <1>9, <1>10
  <2> HIDE DEF A, V, W
  <2> QED
    BY <2>1, GatherSole
<1>12. Distinct(ring) => Distinct(buf')
  <2> SUFFICES ASSUME Distinct(ring), NEW c \in Channels, NEW i \in 1 .. Len(buf'[c]),
                      NEW j \in 1 .. Len(buf'[c]), buf'[c][i] = buf'[c][j]
               PROVE  i = j
    BY DEF Distinct
  <2>1. buf'[c] # <<>>
    OBVIOUS
  <2> QED
    BY <1>1, <2>1 DEF Distinct
<1> QED
  BY <1>11, <1>12

LEMMA DeliverSole ==
    ASSUME TypeOK, SendersOwn, NEW won, Winners(won), NEW stale \in SUBSET Regs,
           NEW wake, NEW ring, Distinct(ring), Deliver(won, stale, wake, ring),
           NEW g, \A r \in Regs : g[r] = IF r \in DOMAIN won THEN won[r] ELSE reg[r],
           NEW h, NEW s, Sole(Custody(ring, g, h, s, dropped))
    PROVE  /\ Sole(Custody(buf', reg', h, s, dropped'))
           /\ Distinct(buf') /\ SendersOwn'
<1> DEFINE lost == UNION {Losers(r) : r \in DOMAIN won}
<1>1. /\ \A r \in Regs : reg'[r] = IF r \in lost THEN NoRegistration
                                   ELSE IF r \in DOMAIN won THEN won[r]
                                   ELSE IF r \in stale
                                   THEN [reg[r] EXCEPT !.registered = FALSE]
                                   ELSE reg[r]
      /\ Release(lost, Nothing, ring, {})
  BY DEF Deliver
<1>2. lost \in SUBSET Regs /\ \A r \in DOMAIN won : r \notin lost
  <2>1. ASSUME NEW r \in DOMAIN won
        PROVE  /\ Losers(r) \subseteq Regs
               /\ \A q \in DOMAIN won : q \notin Losers(r)
    <3>1. r \in Regs /\ r[1] \in Frames /\ tok[r[1]].registered \subseteq Arms /\ r = <<r[1], r[2]>>
      BY DEF TypeOK, Regs, Tokens, Winners
    <3>2. ASSUME NEW q \in DOMAIN won, q \in Losers(r) PROVE FALSE
      <4>1. PICK a \in tok[r[1]].registered \ {r[2]} : reg[r].token /\ q = <<r[1], a>>
        BY <3>2 DEF Losers
      <4> QED
        BY <3>1, <4>1 DEF Winners
    <3> QED
      BY <3>1, <3>2 DEF Losers, Regs
  <2> QED
    BY <2>1
<1>3. \A r \in Regs : /\ OwnedBy([reg[r] EXCEPT !.registered = FALSE]) = OwnedBy(reg[r])
                      /\ ~[reg[r] EXCEPT !.registered = FALSE].registered
  BY DEF TypeOK, Registrations, OwnedBy
<1>4. OwnedBy(NoRegistration) = {} /\ ~NoRegistration.registered
  BY DEF NoRegistration, OwnedBy
<1> HIDE DEF lost
<1>5. \A r \in Regs :
         IF r \in lost THEN OwnedBy(reg'[r]) = {} /\ OwnedBy(g[r]) = OwnedBy(reg[r])
         ELSE OwnedBy(reg'[r]) = OwnedBy(g[r])
  BY <1>1, <1>2, <1>3, <1>4
<1>6. dropped \cup {} = dropped
  OBVIOUS
<1>7. Sole(Custody(buf', reg', h, s, dropped')) /\ Distinct(buf')
  BY <1>1, <1>2, <1>5, <1>6, ReleaseSole
<1>8. SendersOwn'
  BY <1>1, <1>3, <1>4 DEF SendersOwn, Winners
<1> QED
  BY <1>7, <1>8

-----------------------------------------------------------------------------
(* Payloads that move. *)

\* Container o held `old` and holds `new` after X went from a to b.
Shifted(o, old, new, a, b, X) ==
    new = IF o = b THEN old \cup X ELSE IF o = a THEN old \ X ELSE old

LEMMA ShiftSole ==
    ASSUME NEW ring, NEW g, NEW h, NEW s, NEW d,
           NEW ring2, NEW g2, NEW h2, NEW s2, NEW d2,
           Sole(Custody(ring, g, h, s, d)),
           NEW a \in Containers, NEW b \in Containers, a # b,
           NEW X, X \subseteq Custody(ring, g, h, s, d)[a],
           \A c \in Channels :
              Shifted(<<"ring", c>>, Elements(ring[c]), Elements(ring2[c]), a, b, X),
           \A r \in Regs :
              Shifted(<<"registration", r>>, OwnedBy(g[r]), OwnedBy(g2[r]), a, b, X),
           \A f \in Frames : Shifted(<<"frame", f>>, h[f], h2[f], a, b, X),
           \A r \in Regs :
              Shifted(<<"staged", r>>, Operand(s, r),
                      Operand(s2, r), a, b, X),
           Shifted(Dropped, d, d2, a, b, X)
    PROVE  Sole(Custody(ring2, g2, h2, s2, d2))
<1> DEFINE W == Custody(ring, g, h, s, d)
           V == Custody(ring2, g2, h2, s2, d2)
<1>1. /\ \A c \in Channels : Shifted(<<"ring", c>>, W[<<"ring", c>>], V[<<"ring", c>>], a, b, X)
      /\ \A r \in Regs : Shifted(<<"registration", r>>, W[<<"registration", r>>],
                                 V[<<"registration", r>>], a, b, X)
      /\ \A f \in Frames : Shifted(<<"frame", f>>, W[<<"frame", f>>], V[<<"frame", f>>], a, b, X)
      /\ Shifted(Dropped, W[Dropped], V[Dropped], a, b, X)
  BY CustodyAt
<1>2. \A r \in Regs : Shifted(<<"staged", r>>, W[<<"staged", r>>], V[<<"staged", r>>], a, b, X)
  <2> TAKE r \in Regs
  <2>1. W[<<"staged", r>>] = Operand(s, r)
    BY CustodyAt
  <2>2. V[<<"staged", r>>] = Operand(s2, r)
    BY CustodyAt
  <2> HIDE DEF W, V
  <2> QED
    BY <2>1, <2>2
<1>3. Sole(W) /\ X \subseteq W[a]
  OBVIOUS
<1> HIDE DEF W, V
<1>4. ASSUME NEW o \in Containers PROVE Shifted(o, W[o], V[o], a, b, X)
  BY <1>1, <1>2, OneContainer
<1>5. \A o \in Containers : V[o] = IF o = b THEN W[b] \cup X
                                   ELSE IF o = a THEN W[a] \ X ELSE W[o]
  BY <1>4 DEF Shifted
<1>6. Sole(V)
  BY <1>3, <1>5, MoveSole
<1> QED
  BY <1>6 DEF V

\* Where the payloads of a polled frame are.
Locals == ({"frame"} \X Frames) \cup ({"staged"} \X Regs)

\* Payload v leaves local a.
HandsOver(a, v) ==
    /\ a \in Locals
    /\ v \in Custody(buf, reg, held, staged, dropped)[a]
    /\ \A f \in Frames : held'[f] = IF <<"frame", f>> = a THEN held[f] \ {v} ELSE held[f]
    /\ \A r \in Regs :
          Operand(staged', r)
             = IF <<"staged", r>> = a THEN Operand(staged, r) \ {v}
               ELSE Operand(staged, r)

LEMMA LocalsDiffer ==
    ASSUME NEW a \in Locals
    PROVE  /\ a \in Containers /\ a # Dropped
           /\ \A c : a # <<"ring", c>>
           /\ \A r : a # <<"registration", r>>
BY DEF Locals, Containers, Dropped

\* v goes from local a to container b.
LEMMA GivenSole ==
    ASSUME OwnInv, NEW a, NEW v, HandsOver(a, v),
           NEW b \in Containers \ Locals, NEW ring, NEW g, NEW d,
           \A c \in Channels :
              Elements(ring[c]) = IF <<"ring", c>> = b THEN Elements(buf[c]) \cup {v}
                                  ELSE Elements(buf[c]),
           \A r \in Regs :
              OwnedBy(g[r]) = IF <<"registration", r>> = b THEN OwnedBy(reg[r]) \cup {v}
                              ELSE OwnedBy(reg[r]),
           d = IF b = Dropped THEN dropped \cup {v} ELSE dropped
    PROVE  Sole(Custody(ring, g, held', staged', d))
<1>1. Sole(Custody(buf, reg, held, staged, dropped)) /\ a \in Locals
  BY DEF OwnInv, HandsOver
<1>2. /\ a \in Containers /\ a # Dropped /\ a # b
      /\ \A c : a # <<"ring", c>>
      /\ \A r : a # <<"registration", r>>
  BY <1>1, LocalsDiffer
<1>3. {v} \subseteq Custody(buf, reg, held, staged, dropped)[a]
  BY DEF HandsOver
<1>4. /\ \A c \in Channels :
            Shifted(<<"ring", c>>, Elements(buf[c]), Elements(ring[c]), a, b, {v})
      /\ \A r \in Regs :
            Shifted(<<"registration", r>>, OwnedBy(reg[r]), OwnedBy(g[r]), a, b, {v})
      /\ Shifted(Dropped, dropped, d, a, b, {v})
  BY <1>2 DEF Shifted
<1>5. /\ \A f \in Frames : <<"frame", f>> \in Locals
      /\ \A r \in Regs : <<"staged", r>> \in Locals
  BY DEF Locals
<1>6. /\ \A f \in Frames : Shifted(<<"frame", f>>, held[f], held'[f], a, b, {v})
      /\ \A r \in Regs :
            Shifted(<<"staged", r>>, Operand(staged, r),
                    Operand(staged', r), a, b, {v})
  BY <1>5 DEF Shifted, HandsOver
<1> QED
  BY <1>1, <1>2, <1>3, <1>4, <1>6, ShiftSole

\* v goes from local a to registration r.
LEMMA GivenToRegistration ==
    ASSUME OwnInv, NEW a, NEW v, HandsOver(a, v), NEW r \in Regs, NEW g,
           \A q \in Regs :
              OwnedBy(g[q]) = IF q = r THEN OwnedBy(reg[q]) \cup {v} ELSE OwnedBy(reg[q])
    PROVE  Sole(Custody(buf, g, held', staged', dropped))
<1> DEFINE b == <<"registration", r>>
<1>1. b \in Containers \ Locals /\ b # Dropped /\ \A d \in Channels : b # <<"ring", d>>
  BY DEF Containers, Locals, Dropped
<1>2. \A q \in Regs : <<"registration", q>> = b <=> q = r
  OBVIOUS
<1> HIDE DEF b
<1>3. \A d \in Channels : Elements(buf[d]) = IF <<"ring", d>> = b THEN Elements(buf[d]) \cup {v}
                                             ELSE Elements(buf[d])
  BY <1>1
<1>4. \A q \in Regs :
         OwnedBy(g[q]) = IF <<"registration", q>> = b THEN OwnedBy(reg[q]) \cup {v}
                         ELSE OwnedBy(reg[q])
  BY <1>2
<1>5. dropped = IF b = Dropped THEN dropped \cup {v} ELSE dropped
  BY <1>1
<1> QED
  BY ONLY <1>1, <1>3, <1>4, <1>5, OwnInv, HandsOver(a, v), GivenSole

\* A payload that is in a local is nowhere else.
LEMMA LocalAlone ==
    ASSUME OwnInv, NEW a, NEW v \in Values, HandsOver(a, v)
    PROVE  /\ \A c \in Channels : v \notin Elements(buf[c])
           /\ \A r \in Regs : v \notin OwnedBy(reg[r])
<1> DEFINE W == Custody(buf, reg, held, staged, dropped)
<1>1. /\ \A c \in Channels : <<"ring", c>> \in Containers /\ W[<<"ring", c>>] = Elements(buf[c])
      /\ \A r \in Regs : <<"registration", r>> \in Containers /\ W[<<"registration", r>>] = OwnedBy(reg[r])
  BY CustodyAt
<1>2. Sole(W) /\ v \in W[a] /\ a \in Locals
  BY DEF OwnInv, HandsOver
<1> HIDE DEF W
<1>3. /\ a \in Containers /\ \A c : a # <<"ring", c>>
      /\ \A r : a # <<"registration", r>>
  BY <1>2, LocalsDiffer
<1>4. \A o \in Containers : v \in W[o] => o = a
  BY <1>2, <1>3 DEF Sole
<1> QED
  BY <1>1, <1>3, <1>4

\* What the outcomes of a delivery own.
LEMMA OutcomesOwn ==
    ASSUME TypeOK, Tidy, SendersOwn, NEW r \in Regs, reg[r].registered
    PROVE  /\ reg[r].op = "receive" => OwnedBy(reg[r]) = {}
           /\ \A v : reg[r].op = "receive" => OwnedBy(HandedTo(r, v)) = {v}
           /\ reg[r].op = "send" => OwnedBy(reg[r]) = {reg[r].value}
           /\ OwnedBy(Promoted(r)) = {}
           /\ OwnedBy(ClosedOn(r)) = OwnedBy(reg[r])
           /\ OwnedBy(Expired(r)) = OwnedBy(reg[r])
BY DEF TypeOK, Tidy, SendersOwn, HandedTo, Promoted, ClosedOn, Expired,
   Registrations, OwnedBy

\* What a step keeps of the invariant besides the staged operands.
Owned == Sole(Custody(buf, reg, held, staged, dropped)) /\ Distinct(buf) /\ SendersOwn

LEMMA HandOffSole ==
    ASSUME ChannelsInv, OwnInv, NEW c \in Channels, NEW v \in Values, HandOff(c, v),
           NEW a, HandsOver(a, v)
    PROVE  Owned'
<1>1. TypeOK /\ Tidy /\ Linked /\ Distinct(buf) /\ SendersOwn
  BY DEF ChannelsInv, Settled, Inductive, OwnInv
<1>2. PICK r \in Regs :
         /\ IsHead(Unlink(recvq[c], Stale(recvq[c])), r)
         /\ Deliver([x \in {r} |-> HandedTo(r, v)], Stale(recvq[c]), WakeOf(r), buf)
  BY DEF HandOff
<1>3. r \in Waiters(recvq[c]) /\ reg[r].registered /\ reg[r].op = "receive"
  BY <1>1, <1>2, WaiterFacts DEF Linked, Links
<1>4. Stale(recvq[c]) \in SUBSET Regs
  BY <1>1, StaleFacts DEF TypeOK
<1> DEFINE won == [x \in {r} |-> HandedTo(r, v)]
           g == [q \in Regs |-> IF q \in DOMAIN won THEN won[q] ELSE reg[q]]
           stale == Stale(recvq[c])
           wake == WakeOf(r)
<1>5. Winners(won) /\ Deliver(won, stale, wake, buf) /\ stale \in SUBSET Regs
  BY <1>1, <1>2, <1>3, <1>4, OutcomeFacts
<1>6. /\ \A q \in Regs : g[q] = IF q \in DOMAIN won THEN won[q] ELSE reg[q]
      /\ \A q \in Regs : g[q] = IF q = r THEN HandedTo(r, v) ELSE reg[q]
  OBVIOUS
<1>7. OwnedBy(HandedTo(r, v)) = {v} /\ OwnedBy(reg[r]) = {}
  BY <1>1, <1>3, OutcomesOwn
<1> HIDE DEF won, g, stale, wake
<1>8. Sole(Custody(buf, g, held', staged', dropped))
  <2>1. \A q \in Regs :
           OwnedBy(g[q]) = IF q = r THEN OwnedBy(reg[q]) \cup {v} ELSE OwnedBy(reg[q])
    BY <1>6, <1>7
  <2> QED
    BY ONLY <2>1, OwnInv, HandsOver(a, v), r \in Regs, GivenToRegistration
<1> QED
  BY <1>1, <1>5, <1>6, <1>8, DeliverSole DEF Owned

LEMMA PutInRingSole ==
    ASSUME ChannelsInv, OwnInv, NEW c \in Channels, NEW v \in Values, PutInRing(c, v),
           NEW a, HandsOver(a, v)
    PROVE  Owned'
<1>1. TypeOK /\ Distinct(buf) /\ SendersOwn
  BY DEF ChannelsInv, Inductive, OwnInv
<1> DEFINE ring == [buf EXCEPT ![c] = Append(@, v)]
           b == <<"ring", c>>
           stale == Stale(recvq[c])
           wake == <<>>
           q == buf[c]
<1>2. Deliver(NoWinner, stale, wake, ring)
  BY DEF PutInRing
<1>3. stale \in SUBSET Regs
  BY <1>1, StaleFacts DEF TypeOK
<1>4. ring[c] = Append(q, v) /\ q \in Seq(Values) /\ \A d \in Channels \ {c} : ring[d] = buf[d]
  BY <1>1 DEF TypeOK
<1>5. v \notin Elements(q)
  BY LocalAlone
<1>6. \A i, j \in 1 .. Len(q) : q[i] = q[j] => i = j
  BY <1>1 DEF Distinct
<1>7. b \in Containers \ Locals /\ b # Dropped /\ (\A r \in Regs : b # <<"registration", r>>)
      /\ \A d \in Channels : <<"ring", d>> = b <=> d = c
  BY DEF Containers, Locals, Dropped
<1> HIDE DEF ring, b, stale, wake
<1>8. /\ Elements(Append(q, v)) = Elements(q) \cup {v}
      /\ \A i, j \in 1 .. Len(Append(q, v)) : Append(q, v)[i] = Append(q, v)[j] => i = j
  <2> HIDE DEF q
  <2>1. /\ Len(q) \in Nat /\ Len(Append(q, v)) = Len(q) + 1
        /\ \A i \in 1 .. Len(q) : Append(q, v)[i] = q[i]
        /\ Append(q, v)[Len(q) + 1] = v
    BY <1>4, AppendProperties
  <2> QED
    BY <1>5, <1>6, <2>1 DEF Elements
<1>9. Distinct(ring)
  <2>1. \A d \in Channels : ring[d] = IF d = c THEN Append(q, v) ELSE buf[d]
    BY <1>4
  <2> HIDE DEF q
  <2> QED
    BY <1>1, <1>8, <2>1 DEF Distinct
<1>10. \A d \in Channels :
          Elements(ring[d]) = IF <<"ring", d>> = b THEN Elements(buf[d]) \cup {v}
                              ELSE Elements(buf[d])
  BY <1>4, <1>7, <1>8
<1>11. Sole(Custody(ring, reg, held', staged', dropped))
  BY <1>7, <1>10, GivenSole
<1>12. \A r \in Regs : reg[r] = IF r \in DOMAIN NoWinner THEN NoWinner[r] ELSE reg[r]
  BY NoWinnerFacts
<1> QED
  BY <1>1, <1>2, <1>3, <1>9, <1>11, <1>12, NoneWins, DeliverSole DEF Owned

\* An outcome that changes nobody's payload: a close or a timer, and the
\* registrations that only leave their list.
LEMMA OutcomesSole ==
    ASSUME ChannelsInv, OwnInv, NEW won, Winners(won),
           \A r \in DOMAIN won : OwnedBy(won[r]) = OwnedBy(reg[r]),
           NEW stale \in SUBSET Regs, NEW wake, Deliver(won, stale, wake, buf),
           held' = held, staged' = staged
    PROVE  Owned'
<1> DEFINE g == [r \in Regs |-> IF r \in DOMAIN won THEN won[r] ELSE reg[r]]
           W == Custody(buf, reg, held, staged, dropped)
           V == Custody(buf, g, held', staged', dropped)
<1>1. TypeOK /\ Distinct(buf) /\ SendersOwn /\ Sole(W)
  BY DEF ChannelsInv, Inductive, OwnInv
<1>2. \A r \in Regs : g[r] = IF r \in DOMAIN won THEN won[r] ELSE reg[r]
  OBVIOUS
<1> HIDE DEF g
<1>3. V = W
  BY <1>2 DEF Containers, Custody
<1>4. Sole(V)
  BY <1>1, <1>3
<1> QED
  BY <1>1, <1>2, <1>4, DeliverSole DEF Owned

LEMMA UnlinkSole ==
    ASSUME ChannelsInv, OwnInv, NEW stale \in SUBSET Regs, NEW wake,
           Deliver(NoWinner, stale, wake, buf), held' = held, staged' = staged
    PROVE  Owned'
BY NoneWins, NoWinnerFacts, OutcomesSole

\* The oldest payload goes to f, and that of a promoted sender to the ring.
LEMMA TakeFromRingSole ==
    ASSUME ChannelsInv, OwnInv, NEW c \in Channels, TakeFromRing(c), NEW f \in Frames,
           held' = [held EXCEPT ![f] = @ \cup {Head(buf[c])}], staged' = staged
    PROVE  Owned'
<1> DEFINE stale == Stale(sendq[c])
           rest == Unlink(sendq[c], stale)
           popped == [buf EXCEPT ![c] = Tail(@)]
           pushed(s) == [popped EXCEPT ![c] = Append(@, reg[s].value)]
           q == buf[c]
           v == Head(q)
           ring == <<"ring", c>>
           frame == <<"frame", f>>
<1>1. /\ TypeOK /\ Tidy /\ Linked /\ PayloadsReal /\ Distinct(buf) /\ SendersOwn
      /\ sendq[c] \in SUBSET (Regs \X Regs)
      /\ Sole(Custody(buf, reg, held, staged, dropped))
  BY DEF ChannelsInv, Settled, Inductive, OwnInv, TypeOK
<1>2. /\ q # <<>>
      /\ \/ Deliver(NoWinner, stale, <<>>, popped)
         \/ \E s \in Regs :
               /\ IsHead(rest, s)
               /\ Deliver([x \in {s} |-> Promoted(s)], stale, WakeOf(s), pushed(s))
  BY DEF TakeFromRing
<1>3. stale \in SUBSET Regs
  BY <1>1, StaleFacts
<1>4. /\ q \in Seq(Values)
      /\ popped[c] = Tail(q) /\ \A d \in Channels \ {c} : popped[d] = buf[d]
      /\ \A s : pushed(s)[c] = Append(Tail(q), reg[s].value)
      /\ \A s : \A d \in Channels \ {c} : pushed(s)[d] = buf[d]
  BY <1>1 DEF TypeOK
<1>5. \A i, j \in 1 .. Len(q) : q[i] = q[j] => i = j
  BY <1>1 DEF Distinct
<1>6. /\ Elements(Tail(q)) = Elements(q) \ {v} /\ v \in Elements(q)
      /\ Tail(q) \in Seq(Values)
      /\ \A i, j \in 1 .. Len(Tail(q)) : Tail(q)[i] = Tail(q)[j] => i = j
  <2> HIDE DEF q
  <2>1. /\ Len(q) \in Nat /\ Len(q) # 0 /\ Len(Tail(q)) = Len(q) - 1
        /\ \A i \in 1 .. Len(q) - 1 : Tail(q)[i] = q[i + 1]
        /\ v = q[1] /\ Tail(q) \in Seq(Values)
    BY <1>2, <1>4
  <2> HIDE DEF v
  <2>2. \A x \in Elements(Tail(q)) : x \in Elements(q) /\ x # v
    BY <1>5, <2>1 DEF Elements
  <2>3. ASSUME NEW x \in Elements(q), x # v PROVE x \in Elements(Tail(q))
    <3>1. PICK i \in 1 .. Len(q) : x = q[i]
      BY <2>3 DEF Elements
    <3>2. i # 1 /\ i - 1 \in 1 .. Len(q) - 1 /\ (i - 1) + 1 = i
      BY <2>1, <2>3, <3>1
    <3>3. Tail(q)[i - 1] = x
      BY <2>1, <3>1, <3>2
    <3> QED
      BY <2>1, <3>2, <3>3 DEF Elements
  <2>4. v \in Elements(q) /\ \A i, j \in 1 .. Len(Tail(q)) : Tail(q)[i] = Tail(q)[j] => i = j
    BY <1>5, <2>1 DEF Elements
  <2> QED
    BY <2>1, <2>2, <2>3, <2>4
<1>7. /\ ring \in Containers /\ frame \in Containers /\ ring # frame
      /\ Dropped # ring /\ Dropped # frame
      /\ \A r : <<"registration", r>> # ring /\ <<"registration", r>> # frame
                /\ <<"staged", r>> # ring /\ <<"staged", r>> # frame
      /\ \A d : <<"frame", d>> # ring /\ <<"ring", d>> # frame
      /\ \A d \in Channels : <<"ring", d>> = ring <=> d = c
      /\ \A g \in Frames : <<"frame", g>> = frame <=> g = f
  BY DEF Containers, Dropped
<1>8. \A g \in Frames : held'[g] = IF g = f THEN held[g] \cup {v} ELSE held[g]
  BY <1>1 DEF TypeOK
<1>9. Custody(buf, reg, held, staged, dropped)[ring] = Elements(q)
  BY CustodyAt
<1> HIDE DEF ring, frame, v, q
<1>10. Sole(Custody(popped, reg, held', staged', dropped))
  <2> HIDE DEF popped
  <2>1. {v} \subseteq Custody(buf, reg, held, staged, dropped)[ring]
    BY <1>6, <1>9
  <2>2. \A d \in Channels :
           Shifted(<<"ring", d>>, Elements(buf[d]), Elements(popped[d]), ring, frame, {v})
    BY <1>4, <1>6, <1>7 DEF Shifted, q
  <2>3. /\ \A r \in Regs : Shifted(<<"registration", r>>, OwnedBy(reg[r]), OwnedBy(reg[r]),
                                   ring, frame, {v})
        /\ \A r \in Regs : Shifted(<<"staged", r>>, Operand(staged, r),
                                   Operand(staged', r), ring, frame, {v})
        /\ Shifted(Dropped, dropped, dropped, ring, frame, {v})
    BY <1>7 DEF Shifted
  <2>4. \A g \in Frames : Shifted(<<"frame", g>>, held[g], held'[g], ring, frame, {v})
    BY <1>7, <1>8 DEF Shifted
  <2> QED
    BY <1>1, <1>7, <2>1, <2>2, <2>3, <2>4, ShiftSole
<1>11. CASE Deliver(NoWinner, stale, <<>>, popped)
  <2> DEFINE wake == <<>>
  <2>1. Deliver(NoWinner, stale, wake, popped)
    BY <1>11
  <2>2. Distinct(popped)
    <3>1. \A d \in Channels : popped[d] = IF d = c THEN Tail(q) ELSE buf[d]
      BY <1>4
    <3> HIDE DEF popped
    <3> QED
      BY <1>1, <1>6, <3>1 DEF Distinct
  <2>3. \A r \in Regs : reg[r] = IF r \in DOMAIN NoWinner THEN NoWinner[r] ELSE reg[r]
    BY NoWinnerFacts
  <2> HIDE DEF wake, popped, stale
  <2> QED
    BY <1>1, <1>3, <1>10, <2>1, <2>2, <2>3, NoneWins, DeliverSole DEF Owned
<1>12. ASSUME NEW s \in Regs, IsHead(rest, s),
              Deliver([x \in {s} |-> Promoted(s)], stale, WakeOf(s), pushed(s))
       PROVE  Owned'
  <2> DEFINE won == [x \in {s} |-> Promoted(s)]
             wake == WakeOf(s)
             full == pushed(s)
             w == reg[s].value
             g == [r \in Regs |-> IF r \in DOMAIN won THEN won[r] ELSE reg[r]]
             a == <<"registration", s>>
  <2>1. s \in Waiters(sendq[c]) /\ reg[s].registered /\ reg[s].op = "send"
    BY <1>1, <1>12, WaiterFacts DEF Linked, Links
  <2>2. w \in Values /\ OwnedBy(reg[s]) = {w} /\ OwnedBy(Promoted(s)) = {}
    BY <1>1, <2>1, OutcomesOwn DEF PayloadsReal
  <2>3. Winners(won) /\ Deliver(won, stale, wake, full)
    BY <1>1, <1>12, <2>1, OutcomeFacts
  <2>4. /\ full[c] = Append(Tail(q), w)
        /\ \A d \in Channels \ {c} : full[d] = buf[d] /\ popped[d] = buf[d]
    BY <1>4
  <2>5. /\ \A r \in Regs : g[r] = IF r \in DOMAIN won THEN won[r] ELSE reg[r]
        /\ \A r \in Regs : g[r] = IF r = s THEN Promoted(s) ELSE reg[r]
    OBVIOUS
  <2>6. /\ a \in Containers /\ a # ring /\ a # Dropped
        /\ \A d : <<"ring", d>> # a /\ <<"frame", d>> # a /\ <<"staged", d>> # a
        /\ \A r \in Regs : <<"registration", r>> = a <=> r = s
        /\ \A r \in Regs : <<"registration", r>> # ring
    BY <1>7 DEF Containers, Dropped
  <2>7. w \in Custody(popped, reg, held', staged', dropped)[a]
    BY <2>2, CustodyAt
  <2>8. w \notin Elements(Tail(q))
    <3> HIDE DEF popped, w, a
    <3>1. Elements(popped[c]) = Custody(popped, reg, held', staged', dropped)[ring]
      BY CustodyAt DEF ring
    <3>2. w \notin Elements(popped[c])
      BY <1>7, <1>10, <2>2, <2>6, <2>7, <3>1 DEF Sole
    <3> QED
      BY <1>4, <3>2
  <2> HIDE DEF won, wake, full, g, a
  <2>9. /\ Elements(Append(Tail(q), w)) = Elements(Tail(q)) \cup {w}
        /\ \A i, j \in 1 .. Len(Append(Tail(q), w)) :
              Append(Tail(q), w)[i] = Append(Tail(q), w)[j] => i = j
    <3> DEFINE t == Tail(q)
    <3>1. t \in Seq(Values) /\ \A i, j \in 1 .. Len(t) : t[i] = t[j] => i = j
      BY <1>6
    <3> HIDE DEF t, w
    <3>2. /\ Len(t) \in Nat /\ Len(Append(t, w)) = Len(t) + 1
          /\ \A i \in 1 .. Len(t) : Append(t, w)[i] = t[i]
          /\ Append(t, w)[Len(t) + 1] = w
      BY <2>2, <3>1, AppendProperties
    <3>3. w \notin Elements(t)
      BY <2>8 DEF t
    <3>4. /\ Elements(Append(t, w)) = Elements(t) \cup {w}
          /\ \A i, j \in 1 .. Len(Append(t, w)) : Append(t, w)[i] = Append(t, w)[j] => i = j
      BY <3>1, <3>2, <3>3 DEF Elements
    <3> QED
      BY <3>4 DEF t
  <2>10. Distinct(full)
    BY <2>4, <1>1, <2>9 DEF Distinct
  <2>11. Sole(Custody(full, g, held', staged', dropped))
    <3> HIDE DEF popped, w
    <3>1. {w} \subseteq Custody(popped, reg, held', staged', dropped)[a]
      BY <2>7
    <3>2. \A d \in Channels :
             Shifted(<<"ring", d>>, Elements(popped[d]), Elements(full[d]), a, ring, {w})
      BY <1>4, <1>7, <2>4, <2>6, <2>9 DEF Shifted
    <3>3. /\ \A f1 \in Frames : Shifted(<<"frame", f1>>, held'[f1], held'[f1], a, ring, {w})
          /\ \A r \in Regs : Shifted(<<"staged", r>>, Operand(staged', r),
                                     Operand(staged', r), a, ring, {w})
          /\ Shifted(Dropped, dropped, dropped, a, ring, {w})
      BY <1>7, <2>6 DEF Shifted
    <3>4. \A r \in Regs :
             Shifted(<<"registration", r>>, OwnedBy(reg[r]), OwnedBy(g[r]), a, ring, {w})
      BY <2>2, <2>5, <2>6 DEF Shifted
    <3> QED
      BY <1>7, <1>10, <2>6, <3>1, <3>2, <3>3, <3>4, ShiftSole
  <2> HIDE DEF stale
  <2> QED
    BY <1>1, <1>3, <2>3, <2>5, <2>10, <2>11, DeliverSole DEF Owned
<1> QED
  BY <1>2, <1>11, <1>12

\* A registration that is not in use owns nothing.
LEMMA FreshOwnsNothing ==
    ASSUME ChannelsInv, NEW f \in Frames, NEW a \in Arms,
           \/ phase[f] = "idle"
           \/ phase[f] = "starting" /\ a = tok[f].next
    PROVE  <<f, a>> \in Regs /\ reg[<<f, a>>] = NoRegistration /\ OwnedBy(reg[<<f, a>>]) = {}
<1> DEFINE r == <<f, a>>
<1>1. TypeOK /\ Tidy /\ TokenDiscipline
  BY DEF ChannelsInv, Settled, Inductive
<1>2. r \in Regs /\ r[1] = f /\ r[2] = a
  BY DEF Regs
<1> HIDE DEF r
<1>3. tok[f].registered \subseteq Arms /\ \A b \in Arms : b \in Int
  BY <1>1 DEF TypeOK, Tokens, Arms
<1>4. ~Owns(r)
  BY <1>1, <1>2, <1>3 DEF Owns, TokenDiscipline
<1>5. reg[r] = NoRegistration
  BY <1>1, <1>2, <1>4 DEF Tidy
<1>6. OwnedBy(NoRegistration) = {}
  BY DEF OwnedBy, NoRegistration
<1> QED
  BY <1>2, <1>5, <1>6 DEF r

LEMMA SuspendReg ==
    ASSUME TypeOK, SendersOwn, NEW r \in Regs, NEW c \in Channels,
           NEW x, Suspend(r, c, x), x.owned <=> x.op = "send"
    PROVE  /\ \A q \in Regs : OwnedBy(reg'[q]) = IF q = r THEN OwnedBy(x) ELSE OwnedBy(reg[q])
           /\ SendersOwn'
<1> DEFINE stale == IF x.op = "send" THEN Stale(recvq[c]) ELSE {}
<1>1. reg' = [q \in Regs |->
                    IF q = r THEN x
                    ELSE IF q \in stale
                    THEN [reg[q] EXCEPT !.registered = FALSE]
                    ELSE reg[q]]
  BY DEF Suspend
<1> HIDE DEF stale
<1>2. \A q \in Regs : /\ OwnedBy([reg[q] EXCEPT !.registered = FALSE]) = OwnedBy(reg[q])
                      /\ ~[reg[q] EXCEPT !.registered = FALSE].registered
  BY DEF TypeOK, Registrations, OwnedBy
<1> QED
  BY <1>1, <1>2 DEF SendersOwn

\* A blocked sender's registration takes the payload over.
LEMMA SendSuspendSole ==
    ASSUME ChannelsInv, OwnInv, NEW r \in Regs, OwnedBy(reg[r]) = {}, NEW c \in Channels,
           NEW v \in Values, NEW t \in BOOLEAN, Suspend(r, c, SendRegistration(c, v, t)),
           NEW a, HandsOver(a, v), buf' = buf, dropped' = dropped
    PROVE  Owned'
<1> DEFINE x == SendRegistration(c, v, t)
<1>1. TypeOK /\ SendersOwn /\ Distinct(buf)
  BY DEF ChannelsInv, Inductive, OwnInv
<1>2. OwnedBy(x) = {v} /\ x.owned /\ x.op = "send"
  BY DEF SendRegistration, NoRegistration, OwnedBy
<1>3. Suspend(r, c, x)
  OBVIOUS
<1> HIDE DEF x
<1>4. /\ \A q \in Regs : OwnedBy(reg'[q]) = IF q = r THEN {v} ELSE OwnedBy(reg[q])
      /\ SendersOwn'
  BY <1>1, <1>2, <1>3, SuspendReg
<1> DEFINE g == reg'
<1>5. Sole(Custody(buf, g, held', staged', dropped))
  <2>1. \A q \in Regs :
           OwnedBy(g[q]) = IF q = r THEN OwnedBy(reg[q]) \cup {v} ELSE OwnedBy(reg[q])
    BY <1>4
  <2> HIDE DEF g
  <2> QED
    BY ONLY <2>1, OwnInv, HandsOver(a, v), r \in Regs, GivenToRegistration
<1> QED
  BY <1>1, <1>4, <1>5 DEF Owned

LEMMA ReceiveSuspendSole ==
    ASSUME ChannelsInv, OwnInv, NEW r \in Regs, OwnedBy(reg[r]) = {}, NEW c \in Channels,
           NEW t \in BOOLEAN, Suspend(r, c, ReceiveRegistration(c, t)),
           buf' = buf, dropped' = dropped, held' = held, staged' = staged
    PROVE  Owned'
<1> DEFINE x == ReceiveRegistration(c, t)
<1>1. TypeOK /\ SendersOwn /\ Distinct(buf)
  BY DEF ChannelsInv, Inductive, OwnInv
<1>2. OwnedBy(x) = {} /\ ~x.owned /\ x.op # "send"
  BY DEF ReceiveRegistration, NoRegistration, OwnedBy
<1>3. Suspend(r, c, x)
  OBVIOUS
<1> HIDE DEF x
<1>4. (\A q \in Regs : OwnedBy(reg'[q]) = OwnedBy(reg[q])) /\ SendersOwn'
  BY <1>1, <1>2, <1>3, SuspendReg
<1>5. Custody(buf', reg', held', staged', dropped') = Custody(buf, reg, held, staged, dropped)
  BY <1>4 DEF Containers, Custody
<1> QED
  BY <1>1, <1>4, <1>5 DEF Owned, OwnInv

-----------------------------------------------------------------------------
(* Payloads that are released. *)

\* Locals of A are emptied, and what they held is to be released.
LEMMA EmptiedSole ==
    ASSUME OwnInv, NEW F \in SUBSET Frames, NEW S \in SUBSET Regs, NEW freed,
           \A f \in Frames : held'[f] = IF f \in F THEN {} ELSE held[f],
           \A r \in Regs : Operand(staged', r)
                              = IF r \in S THEN {} ELSE Operand(staged, r),
           \A v : v \in freed <=> \/ \E f \in F : v \in held[f]
                                  \/ \E r \in S : v \in Operand(staged, r)
    PROVE  Sole(Custody(buf, reg, held', staged', dropped \cup freed))
<1> DEFINE W == Custody(buf, reg, held, staged, dropped)
           V == Custody(buf, reg, held', staged', dropped \cup freed)
           A == {<<"frame", f>> : f \in F} \cup {<<"staged", r>> : r \in S}
<1>1. /\ \A c \in Channels : V[<<"ring", c>>] = W[<<"ring", c>>]
      /\ \A r \in Regs : V[<<"registration", r>>] = W[<<"registration", r>>]
      /\ \A f \in Frames : <<"frame", f>> \in Containers /\ W[<<"frame", f>>] = held[f]
                           /\ V[<<"frame", f>>] = held'[f]
      /\ Dropped \in Containers /\ W[Dropped] = dropped /\ V[Dropped] = dropped \cup freed
  BY CustodyAt
<1>2. \A r \in Regs : <<"staged", r>> \in Containers
                      /\ W[<<"staged", r>>] = Operand(staged, r)
  <2> TAKE r \in Regs
  <2> QED
    BY CustodyAt
<1>3. \A r \in Regs : V[<<"staged", r>>] = Operand(staged', r)
  <2> TAKE r \in Regs
  <2> QED
    BY CustodyAt
<1>4. Sole(W)
  BY DEF OwnInv
<1> HIDE DEF W, V
<1>5. /\ \A r \in Regs : V[<<"staged", r>>] = IF r \in S THEN {} ELSE W[<<"staged", r>>]
      /\ \A f \in Frames : V[<<"frame", f>>] = IF f \in F THEN {} ELSE W[<<"frame", f>>]
  <2>1. \A r \in Regs : V[<<"staged", r>>] = IF r \in S THEN {} ELSE W[<<"staged", r>>]
    BY <1>2, <1>3
  <2>2. \A f \in Frames : V[<<"frame", f>>] = IF f \in F THEN {} ELSE W[<<"frame", f>>]
    BY <1>1
  <2> QED
    BY <2>1, <2>2
<1>6. A \in SUBSET Containers /\ Dropped \notin A
  BY <1>1, <1>2 DEF Dropped
<1>7. \A v : v \in V[Dropped] <=> v \in W[Dropped] \/ \E o \in A : v \in W[o]
  <2> TAKE v
  <2>1. (\E o \in A : v \in W[o]) <=> \/ \E f \in F : v \in W[<<"frame", f>>]
                                      \/ \E r \in S : v \in W[<<"staged", r>>]
    <3>1. ASSUME NEW o \in A, v \in W[o]
          PROVE  \/ \E f \in F : v \in W[<<"frame", f>>]
                 \/ \E r \in S : v \in W[<<"staged", r>>]
      BY <3>1
    <3>2. /\ \A f \in F : <<"frame", f>> \in A
          /\ \A r \in S : <<"staged", r>> \in A
      OBVIOUS
    <3> QED
      BY <3>1, <3>2
  <2>2. v \in freed <=> \/ \E f \in F : v \in W[<<"frame", f>>]
                        \/ \E r \in S : v \in W[<<"staged", r>>]
    <3>1. (\E f \in F : v \in held[f]) <=> \E f \in F : v \in W[<<"frame", f>>]
      BY <1>1
    <3>2. (\E r \in S : v \in Operand(staged, r)) <=> \E r \in S : v \in W[<<"staged", r>>]
      BY <1>2
    <3> QED
      BY <3>1, <3>2
  <2> HIDE DEF A
  <2> QED
    BY <1>1, <2>1, <2>2
<1>8. \A o \in A : V[o] = {}
  BY <1>5
<1>9. \A o \in Containers \ A : o # Dropped => V[o] = W[o]
  <2> SUFFICES ASSUME NEW o \in Containers, o \notin A, o # Dropped PROVE V[o] = W[o]
    OBVIOUS
  <2>1. CASE \E c \in Channels : o = <<"ring", c>>
    BY <1>1, <2>1
  <2>2. CASE \E r \in Regs : o = <<"registration", r>>
    BY <1>1, <2>2
  <2>3. CASE \E f \in Frames : o = <<"frame", f>>
    BY <1>5, <2>3
  <2>4. CASE \E r \in Regs : o = <<"staged", r>>
    BY <1>5, <2>4
  <2> QED
    BY <2>1, <2>2, <2>3, <2>4, OneContainer
<1> HIDE DEF A
<1>10. Sole(V)
  BY <1>1, <1>4, <1>6, <1>7, <1>8, <1>9, GatherSole
<1> QED
  BY <1>10 DEF V

\* References are released and nothing else changes.
LEMMA ReleasedSole ==
    ASSUME OwnInv, NEW lost \in SUBSET Regs, NEW less, NEW freed,
           Release(lost, less, buf, freed),
           Sole(Custody(buf, reg, held', staged', dropped \cup freed)),
           \A r \in Regs : reg'[r] = IF r \in lost THEN NoRegistration ELSE reg[r]
    PROVE  Owned'
<1>1. OwnedBy(NoRegistration) = {} /\ ~NoRegistration.registered
  BY DEF NoRegistration, OwnedBy
<1>2. \A r \in Regs :
         IF r \in lost THEN OwnedBy(reg'[r]) = {} /\ OwnedBy(reg[r]) = OwnedBy(reg[r])
         ELSE OwnedBy(reg'[r]) = OwnedBy(reg[r])
  BY <1>1
<1>3. /\ Sole(Custody(buf', reg', held', staged', dropped'))
      /\ Distinct(buf) => Distinct(buf')
  BY <1>2, ReleaseSole
<1>4. SendersOwn'
  BY <1>1 DEF OwnInv, SendersOwn
<1> QED
  BY <1>3, <1>4 DEF Owned, OwnInv

LEMMA KeptSole ==
    ASSUME OwnInv, NEW lost \in SUBSET Regs, NEW less, Release(lost, less, buf, {}),
           \A r \in Regs : reg'[r] = IF r \in lost THEN NoRegistration ELSE reg[r],
           held' = held, staged' = staged
    PROVE  Owned'
<1> DEFINE freed == {}
<1>1. /\ Release(lost, less, buf, freed)
      /\ Sole(Custody(buf, reg, held', staged', dropped \cup freed))
  BY DEF OwnInv
<1> HIDE DEF freed
<1> QED
  BY <1>1, ReleasedSole

\* The result of a finished operation goes to its frame.
LEMMA FinishedSole ==
    ASSUME ChannelsInv, OwnInv, NEW f \in Frames, NEW r \in Regs, Finished(f, r),
           staged' = staged
    PROVE  Owned'
<1> DEFINE a == <<"registration", r>>
           b == <<"frame", f>>
           X == Payload(r)
           less == IF reg[r].active THEN One(reg[r].chan) ELSE Nothing
           g == [reg EXCEPT ![r] = NoRegistration]
           freed == {}
<1>1. TypeOK /\ Sole(Custody(buf, reg, held, staged, dropped)) /\ Distinct(buf) /\ SendersOwn
  BY DEF ChannelsInv, Inductive, OwnInv
<1>2. /\ reg' = g /\ held' = [held EXCEPT ![f] = @ \cup X]
      /\ Release({}, less, buf, freed)
  BY DEF Finished
<1>3. /\ \A q \in Regs : g[q] = IF q = r THEN NoRegistration ELSE reg[q]
      /\ \A h \in Frames : held'[h] = IF h = f THEN held[h] \cup X ELSE held[h]
  BY <1>1, <1>2 DEF TypeOK
<1>4. OwnedBy(NoRegistration) = {} /\ ~NoRegistration.registered /\ X = OwnedBy(reg[r])
  BY DEF NoRegistration, OwnedBy, Payload
<1>5. /\ a \in Containers /\ b \in Containers /\ a # b /\ Dropped # a /\ Dropped # b
      /\ \A c : <<"ring", c>> # a /\ <<"ring", c>> # b
                /\ <<"staged", c>> # a /\ <<"staged", c>> # b
                /\ <<"frame", c>> # a /\ <<"registration", c>> # b
      /\ \A q \in Regs : <<"registration", q>> = a <=> q = r
      /\ \A h \in Frames : <<"frame", h>> = b <=> h = f
  BY DEF Containers, Dropped
<1>6. X \subseteq Custody(buf, reg, held, staged, dropped)[a]
  BY <1>4, CustodyAt
<1> HIDE DEF a, b, X, less, g
<1>7. Sole(Custody(buf, g, held', staged', dropped))
  <2>1. \A c \in Channels : Shifted(<<"ring", c>>, Elements(buf[c]), Elements(buf[c]), a, b, X)
    BY <1>5 DEF Shifted
  <2>2. \A q \in Regs : Shifted(<<"registration", q>>, OwnedBy(reg[q]), OwnedBy(g[q]), a, b, X)
    BY <1>3, <1>4, <1>5 DEF Shifted
  <2>3. \A h \in Frames : Shifted(<<"frame", h>>, held[h], held'[h], a, b, X)
    BY <1>3, <1>5 DEF Shifted
  <2>4. /\ \A q \in Regs : Shifted(<<"staged", q>>, Operand(staged, q),
                                   Operand(staged', q), a, b, X)
        /\ Shifted(Dropped, dropped, dropped, a, b, X)
    BY <1>5 DEF Shifted
  <2> QED
    BY <1>1, <1>5, <1>6, <2>1, <2>2, <2>3, <2>4, ShiftSole
<1>8. Sole(Custody(buf, g, held', staged', dropped \cup freed))
  BY <1>7
<1>9. Sole(Custody(buf', reg', held', staged', dropped')) /\ Distinct(buf')
  <2> DEFINE lost == {}
  <2>1. /\ lost \in SUBSET Regs /\ Release(lost, less, buf, freed)
        /\ \A q \in Regs : IF q \in lost THEN OwnedBy(reg'[q]) = {} /\ OwnedBy(g[q]) = OwnedBy(reg[q])
                           ELSE OwnedBy(reg'[q]) = OwnedBy(g[q])
    BY <1>2
  <2> HIDE DEF lost, freed
  <2> QED
    BY <1>1, <1>8, <2>1, ReleaseSole
<1>10. SendersOwn'
  BY <1>1, <1>2, <1>3, <1>4 DEF SendersOwn
<1> QED
  BY <1>9, <1>10 DEF Owned

\* task.select stages the operand of each send arm.
LEMMA StagingSole ==
    ASSUME OwnInv, TypeOK, NEW f \in Frames, phase[f] = "idle",
           NEW sends \in SUBSET Arms, NEW value \in [sends -> Values],
           \A a \in sends : value[a] \in held[f],
           \A a, b \in sends : value[a] = value[b] => a = b,
           staged' = [staged EXCEPT ![f] =
                        [a \in Arms |-> IF a \in sends THEN value[a] ELSE None]],
           held' = [held EXCEPT ![f] = @ \ {value[a] : a \in sends}]
    PROVE  Sole(Custody(buf, reg, held', staged', dropped))
<1> DEFINE W == Custody(buf, reg, held, staged, dropped)
           V == Custody(buf, reg, held', staged', dropped)
           sent == {value[a] : a \in sends}
           at(a) == <<"staged", <<f, a>>>>
<1>1. /\ \A c \in Channels : V[<<"ring", c>>] = W[<<"ring", c>>]
      /\ \A r \in Regs : V[<<"registration", r>>] = W[<<"registration", r>>]
      /\ \A h \in Frames : <<"frame", h>> \in Containers /\ W[<<"frame", h>>] = held[h]
                           /\ V[<<"frame", h>>] = held'[h]
      /\ Dropped \in Containers /\ W[Dropped] = dropped /\ V[Dropped] = dropped
  <2>1. /\ \A c \in Channels : V[<<"ring", c>>] = Elements(buf[c]) /\ W[<<"ring", c>>] = Elements(buf[c])
        /\ \A r \in Regs : V[<<"registration", r>>] = OwnedBy(reg[r])
                            /\ W[<<"registration", r>>] = OwnedBy(reg[r])
    BY CustodyAt
  <2>2. \A h \in Frames : <<"frame", h>> \in Containers /\ W[<<"frame", h>>] = held[h]
                           /\ V[<<"frame", h>>] = held'[h]
    <3> TAKE h \in Frames
    <3>1. <<"frame", h>> \in Containers /\ W[<<"frame", h>>] = held[h]
      BY CustodyAt
    <3>2. V[<<"frame", h>>] = held'[h]
      BY ONLY h \in Frames, CustodyAt
    <3> QED
      BY ONLY <3>1, <3>2
  <2>3. Dropped \in Containers /\ W[Dropped] = dropped /\ V[Dropped] = dropped
    BY CustodyAt
  <2> HIDE DEF W, V
  <2> QED
    BY <2>1, <2>2, <2>3
<1>2. \A r \in Regs : <<"staged", r>> \in Containers /\ W[<<"staged", r>>] = Operand(staged, r)
  <2> TAKE r \in Regs
  <2> QED
    BY CustodyAt
<1>3. \A r \in Regs : V[<<"staged", r>>] = Operand(staged', r)
  <2> TAKE r \in Regs
  <2> QED
    BY CustodyAt
<1>4. Sole(W)
  BY DEF OwnInv
<1>5. \A r \in Regs : r[1] \in Frames /\ r[2] \in Arms /\ r = <<r[1], r[2]>>
  BY DEF Regs
<1>6. \A h \in Frames : held'[h] = IF h = f THEN held[f] \ sent ELSE held[h]
  BY DEF TypeOK
<1>7. \A r \in Regs : Operand(staged', r) =
         IF r[1] = f THEN (IF r[2] \in sends THEN {value[r[2]]} ELSE {}) ELSE Operand(staged, r)
  BY <1>5, NoneAssumption DEF TypeOK, Operand
<1>8. \A r \in Regs : r[1] = f => Operand(staged, r) = {}
  BY <1>5 DEF OwnInv, StagedAhead, Operand
<1>9. \A a \in sends : <<f, a>> \in Regs /\ at(a) \in Containers /\ V[at(a)] = {value[a]}
  <2> TAKE a \in sends
  <2> DEFINE r == <<f, a>>
  <2>1. r \in Regs /\ r[1] = f /\ r[2] = a
    BY DEF Regs
  <2> HIDE DEF r, W, V
  <2>2. V[<<"staged", r>>] = {value[a]} /\ <<"staged", r>> \in Containers
    BY <1>2, <1>3, <1>7, <2>1
  <2> QED
    BY <2>1, <2>2 DEF r
<1> HIDE DEF W, V
<1> SUFFICES ASSUME NEW v \in Values
             PROVE  \E o \in Containers : v \in V[o] /\ \A p \in Containers : v \in V[p] => p = o
  BY DEF V, Sole
<1>10. PICK o \in Containers : v \in W[o] /\ \A p \in Containers : v \in W[p] => p = o
  BY <1>4 DEF Sole
<1>11. CASE v \notin sent
  <2>1. \A p \in Containers : v \in V[p] <=> v \in W[p]
    <3> SUFFICES ASSUME NEW p \in Containers PROVE v \in V[p] <=> v \in W[p]
      OBVIOUS
    <3>1. CASE \E r \in Regs : p = <<"staged", r>>
      <4>1. PICK r \in Regs : p = <<"staged", r>>
        BY <3>1
      <4>2. v \in Operand(staged', r) <=> v \in Operand(staged, r)
        BY <1>7, <1>8, <1>11
      <4> QED
        BY <1>2, <1>3, <4>1, <4>2
    <3>2. CASE \E h \in Frames : p = <<"frame", h>>
      <4>1. PICK h \in Frames : p = <<"frame", h>>
        BY <3>2
      <4> HIDE DEF sent
      <4>2. v \in held'[h] <=> v \in held[h]
        BY ONLY <1>6, <1>11, h \in Frames
      <4> QED
        BY <1>1, <4>1, <4>2
    <3> QED
      BY <1>1, <3>1, <3>2, OneContainer
  <2> QED
    BY <1>10, <2>1
<1>12. CASE v \in sent
  <2>1. PICK a \in sends : v = value[a]
    BY <1>12
  <2>2. o = <<"frame", f>>
    BY <1>1, <1>10, <2>1
  <2>3. ASSUME NEW p \in Containers, v \in V[p] PROVE p = at(a)
    <3>1. CASE \E r \in Regs : p = <<"staged", r>>
      <4>1. PICK r \in Regs : p = <<"staged", r>>
        BY <3>1
      <4>2. v \in Operand(staged', r)
        BY <1>3, <2>3, <4>1
      <4>3. CASE r[1] = f
        <5>1. r[2] \in sends /\ v = value[r[2]]
          BY <1>7, <4>2, <4>3
        <5>2. r = <<f, a>>
          BY <1>5, <2>1, <4>3, <5>1
        <5> QED
          BY <4>1, <5>2
      <4>4. CASE r[1] # f
        BY <1>2, <1>7, <4>1, <4>2, <4>4, <1>10, <2>2
      <4> QED
        BY <4>3, <4>4
    <3>2. CASE \E h \in Frames : p = <<"frame", h>>
      <4>1. PICK h \in Frames : p = <<"frame", h>>
        BY <3>2
      <4> HIDE DEF sent
      <4>2. v \in held'[h]
        BY <1>1, <2>3, <4>1
      <4>3. h # f /\ v \in held[h]
        BY ONLY <1>6, <1>12, <4>2, h \in Frames
      <4>4. v \in W[p]
        BY <1>1, <4>1, <4>3
      <4> QED
        BY <1>10, <2>2, <4>1, <4>3, <4>4
    <3>3. CASE \/ \E c \in Channels : p = <<"ring", c>>
               \/ \E r \in Regs : p = <<"registration", r>>
               \/ p = Dropped
      BY <1>1, <2>3, <3>3, <1>10, <2>2 DEF Dropped
    <3> QED
      BY <3>1, <3>2, <3>3, OneContainer
  <2> QED
    BY <1>9, <2>1, <2>3
<1> QED
  BY <1>11, <1>12

-----------------------------------------------------------------------------
(* Each step. *)

\* What the owner of a payload may do next: nothing is staged anew, and the
\* selects that still have payloads staged go on.
StagedRest ==
    \A f \in Frames : \A a \in Arms : staged'[f][a] # None =>
        /\ staged[f][a] # None
        /\ tok'[f].shape = tok[f].shape
        /\ \/ phase'[f] = phase[f] /\ tok'[f].next = tok[f].next
           \/ phase'[f] = "claiming"

LEMMA StagedRests ==
    ASSUME StagedAhead, StagedRest
    PROVE  StagedAhead'
BY DEF StagedAhead, StagedRest

LEMMA DeliverShapes ==
    ASSUME TypeOK, NEW won, NEW stale, NEW wake, NEW ring, Deliver(won, stale, wake, ring)
    PROVE  \A f \in Frames : tok'[f].shape = tok[f].shape /\ tok'[f].next = tok[f].next
<1> TAKE f \in Frames
<1> DEFINE wins(a) == <<f, a>> \in DOMAIN won
           arm == CHOOSE a \in Arms : wins(a)
<1>1. CASE tok'[f] = tok[f]
  BY <1>1
<1>2. CASE tok'[f] # tok[f]
  <2>1. /\ \E a \in Arms : wins(a)
        /\ tok'[f] = ClaimedToken(f, arm)
    BY <1>2 DEF Deliver
  <2>2. arm \in Arms
    BY <2>1
  <2> HIDE DEF arm
  <2> QED
    BY <2>1, <2>2, ClaimedTokenFacts
<1> QED
  BY <1>1, <1>2

LEMMA DeliverStages ==
    ASSUME TypeOK, StagedAhead, NEW won, NEW stale, NEW wake, NEW ring,
           Deliver(won, stale, wake, ring), staged' = staged, phase' = phase
    PROVE  StagedAhead'
BY DeliverShapes, StagedRests DEF StagedRest

LEMMA CallStages ==
    ASSUME ChannelsInv, NEW c \in Channels, NEW v,
           TrySendSucceeds(c, v) \/ TakeFromRing(c)
    PROVE  \A f \in Frames : tok'[f].shape = tok[f].shape /\ tok'[f].next = tok[f].next
BY CallDelivers, DeliverShapes DEF ChannelsInv, Settled, Inductive, Delivers

LEMMA FrameHandsOver ==
    ASSUME TypeOK, NEW f \in Frames, NEW v \in held[f],
           held' = [held EXCEPT ![f] = @ \ {v}], staged' = staged
    PROVE  HandsOver(<<"frame", f>>, v)
<1>1. <<"frame", f>> \in Locals
  BY DEF Locals
<1>2. v \in Custody(buf, reg, held, staged, dropped)[<<"frame", f>>]
  BY CustodyAt
<1>3. \A g \in Frames : held'[g] = IF <<"frame", g>> = <<"frame", f>> THEN held[g] \ {v} ELSE held[g]
  BY DEF TypeOK
<1>4. \A r \in Regs : Operand(staged', r) = Operand(staged, r)
  OBVIOUS
<1>5. \A r \in Regs : <<"staged", r>> # <<"frame", f>>
  OBVIOUS
<1> QED
  BY ONLY <1>1, <1>2, <1>3, <1>4, <1>5 DEF HandsOver

LEMMA OperandUnstaged ==
    ASSUME TypeOK, NEW f \in Frames, NEW a \in Arms, staged[f][a] \in Values,
           staged' = [staged EXCEPT ![f][a] = None]
    PROVE  /\ Operand(staged, <<f, a>>) = {staged[f][a]}
           /\ Operand(staged', <<f, a>>) = {}
           /\ \A r \in Regs : r # <<f, a>> => Operand(staged', r) = Operand(staged, r)
           /\ \A g \in Frames : \A b \in Arms : staged'[g][b] # None =>
                 staged[g][b] # None /\ <<g, b>> # <<f, a>>
<1>1. staged \in [Frames -> [Arms -> Values \cup {None}]]
  BY DEF TypeOK
<1>2. \A g \in Frames : \A b \in Arms :
         staged'[g][b] = IF g = f /\ b = a THEN None ELSE staged[g][b]
  BY <1>1
<1>3. <<f, a>>[1] = f /\ <<f, a>>[2] = a
  OBVIOUS
<1>4. \A r \in Regs : r[1] \in Frames /\ r[2] \in Arms /\ r = <<r[1], r[2]>>
  BY DEF Regs
<1>5. Operand(staged, <<f, a>>) = {staged[f][a]} /\ Operand(staged', <<f, a>>) = {}
  BY <1>2, <1>3, NoneAssumption DEF Operand
<1>6. ASSUME NEW r \in Regs, r # <<f, a>> PROVE Operand(staged', r) = Operand(staged, r)
  BY <1>2, <1>4, <1>6 DEF Operand
<1>7. ASSUME NEW g \in Frames, NEW b \in Arms, staged'[g][b] # None
      PROVE  staged[g][b] # None /\ <<g, b>> # <<f, a>>
  BY ONLY <1>2, <1>7, g \in Frames, b \in Arms
<1> QED
  BY ONLY <1>5, <1>6, <1>7

LEMMA StagedHandsOver ==
    ASSUME TypeOK, NEW f \in Frames, NEW a \in Arms, staged[f][a] \in Values,
           staged' = [staged EXCEPT ![f][a] = None], held' = held
    PROVE  HandsOver(<<"staged", <<f, a>>>>, staged[f][a])
<1>1. <<f, a>> \in Regs
  BY DEF Regs
<1>2. <<"staged", <<f, a>>>> \in Locals
  BY <1>1 DEF Locals
<1>6. /\ Operand(staged, <<f, a>>) = {staged[f][a]} /\ Operand(staged', <<f, a>>) = {}
      /\ \A r \in Regs : r # <<f, a>> => Operand(staged', r) = Operand(staged, r)
  BY OperandUnstaged
<1>7. Custody(buf, reg, held, staged, dropped)[<<"staged", <<f, a>>>>] = Operand(staged, <<f, a>>)
  BY ONLY <1>1, CustodyAt
<1>3. staged[f][a] \in Custody(buf, reg, held, staged, dropped)[<<"staged", <<f, a>>>>]
  BY ONLY <1>6, <1>7
<1>4. \A g \in Frames : held'[g] = held[g] /\ <<"frame", g>> # <<"staged", <<f, a>>>>
  OBVIOUS
<1>5. ASSUME NEW r \in Regs
      PROVE  Operand(staged', r) = IF <<"staged", r>> = <<"staged", <<f, a>>>>
                                   THEN Operand(staged, r) \ {staged[f][a]}
                                   ELSE Operand(staged, r)
  <2>1. <<"staged", r>> = <<"staged", <<f, a>>>> <=> r = <<f, a>>
    OBVIOUS
  <2> QED
    BY ONLY <1>6, <2>1, r \in Regs
<1> QED
  BY ONLY <1>2, <1>3, <1>4, <1>5 DEF HandsOver

LEMMA TrySendOwns ==
    ASSUME ChannelsInv, OwnInv, NEW f \in Frames, NEW c \in Channels, NEW v \in Values,
           TrySend(f, c, v)
    PROVE  OwnInv'
<1>1. TypeOK /\ StagedAhead
  BY DEF ChannelsInv, Inductive, OwnInv
<1>2. v \in held[f] /\ staged' = staged /\ phase' = phase
  BY DEF TrySend, Sendable
<1>3. CASE TrySendSucceeds(c, v) /\ held' = [held EXCEPT ![f] = @ \ {v}]
  <2>1. HandsOver(<<"frame", f>>, v)
    BY <1>1, <1>2, <1>3, FrameHandsOver
  <2>2. Owned'
    BY ONLY ChannelsInv, OwnInv, <1>3, <2>1, c \in Channels, v \in Values,
            HandOffSole, PutInRingSole DEF TrySendSucceeds
  <2>3. StagedRest
    BY <1>2, <1>3, CallStages DEF StagedRest
  <2> QED
    BY <1>1, <2>2, <2>3, StagedRests DEF OwnInv, Owned
<1>4. CASE Deliver(NoWinner, Stale(recvq[c]), <<>>, buf) /\ held' = held
  <2>1. Stale(recvq[c]) \in SUBSET Regs
    BY <1>1, StaleFacts DEF TypeOK
  <2>2. Owned'
    BY ONLY ChannelsInv, OwnInv, <1>2, <1>4, <2>1, UnlinkSole
  <2>3. StagedAhead'
    BY <1>1, <1>2, <1>4, DeliverStages
  <2> QED
    BY <2>2, <2>3 DEF OwnInv, Owned
<1> QED
  BY <1>3, <1>4 DEF TrySend

LEMMA TryReceiveOwns ==
    ASSUME ChannelsInv, OwnInv, NEW f \in Frames, NEW c \in Channels, TryReceive(f, c)
    PROVE  OwnInv'
<1>1. TypeOK /\ StagedAhead
  BY DEF ChannelsInv, Inductive, OwnInv
<1>2. /\ TakeFromRing(c) /\ staged' = staged /\ phase' = phase
      /\ held' = [held EXCEPT ![f] = @ \cup {Head(buf[c])}]
  BY DEF TryReceive
<1>3. Owned'
  BY ONLY ChannelsInv, OwnInv, <1>2, f \in Frames, c \in Channels, TakeFromRingSole
<1>4. StagedRest
  BY <1>2, CallStages DEF StagedRest
<1> QED
  BY <1>1, <1>3, <1>4, StagedRests DEF OwnInv, Owned

LEMMA StartFresh ==
    ASSUME ChannelsInv, OwnInv, NEW f \in Frames, NEW c \in Channels, NEW v,
           SendStart(f, c, v) \/ ReceiveStart(f, c)
    PROVE  /\ <<f, 1>> \in Regs /\ OwnedBy(reg[<<f, 1>>]) = {}
           /\ TypeOK /\ StagedAhead'
<1>1. TypeOK /\ StagedAhead
  BY DEF ChannelsInv, Inductive, OwnInv
<1>2. /\ phase[f] = "idle" /\ phase' = [phase EXCEPT ![f] = "plain"]
      /\ tok' = tok /\ staged' = staged
  BY DEF SendStart, ReceiveStart, Runs
<1>3. <<f, 1>> \in Regs /\ OwnedBy(reg[<<f, 1>>]) = {}
  BY <1>2, FreshOwnsNothing, MaxArmsAssumption DEF Arms
<1>4. StagedRest
  BY <1>1, <1>2 DEF StagedRest, StagedAhead, TypeOK
<1> QED
  BY <1>1, <1>3, <1>4, StagedRests

LEMMA SendStartOwns ==
    ASSUME ChannelsInv, OwnInv, NEW f \in Frames, NEW c \in Channels, NEW v \in Values,
           SendStart(f, c, v)
    PROVE  OwnInv'
<1>1. /\ <<f, 1>> \in Regs /\ OwnedBy(reg[<<f, 1>>]) = {}
      /\ TypeOK /\ StagedAhead'
  BY StartFresh
<1>2. /\ Suspend(<<f, 1>>, c, SendRegistration(c, v, FALSE)) /\ v \in held[f]
      /\ held' = [held EXCEPT ![f] = @ \ {v}]
      /\ staged' = staged /\ buf' = buf /\ dropped' = dropped
  BY DEF SendStart, Sendable
<1>3. HandsOver(<<"frame", f>>, v)
  BY <1>1, <1>2, FrameHandsOver
<1>4. Owned'
  BY <1>1, <1>2, <1>3, SendSuspendSole
<1> QED
  BY <1>1, <1>4 DEF OwnInv, Owned

LEMMA ReceiveStartOwns ==
    ASSUME ChannelsInv, OwnInv, NEW f \in Frames, NEW c \in Channels, ReceiveStart(f, c)
    PROVE  OwnInv'
BY StartFresh, ReceiveSuspendSole DEF ReceiveStart, OwnInv, Owned

\* Closing a channel and expiring a timer leave every payload where it is.
LEMMA OutcomesOwnInv ==
    ASSUME ChannelsInv, OwnInv, NEW won, Winners(won),
           \A r \in DOMAIN won : OwnedBy(won[r]) = OwnedBy(reg[r]),
           NEW stale \in SUBSET Regs, NEW wake, Deliver(won, stale, wake, buf),
           held' = held, staged' = staged, phase' = phase
    PROVE  OwnInv'
BY OutcomesSole, DeliverStages DEF ChannelsInv, Inductive, OwnInv, Owned

LEMMA TimerOwns ==
    ASSUME ChannelsInv, OwnInv, NEW r \in Regs, TimerExpire(r)
    PROVE  OwnInv'
<1>1. TypeOK /\ Tidy /\ SendersOwn
  BY DEF ChannelsInv, Settled, Inductive, OwnInv
<1>2. reg[r].registered /\ held' = held /\ staged' = staged /\ phase' = phase
  BY DEF TimerExpire, frameVars
<1>3. CASE Claimable(r)
  <2> DEFINE won == [x \in {r} |-> Expired(r)]
  <2>1. Winners(won) /\ Deliver(won, {}, WakeOf(r), buf)
    BY <1>1, <1>2, <1>3, OutcomeFacts DEF TimerExpire
  <2>2. \A q \in DOMAIN won : OwnedBy(won[q]) = OwnedBy(reg[q])
    BY <1>1, <1>2, OutcomesOwn
  <2> HIDE DEF won
  <2> QED
    BY <1>2, <2>1, <2>2, OutcomesOwnInv
<1>4. CASE ~Claimable(r)
  BY <1>4, <1>2 DEF TimerExpire, OwnInv, Distinct, SendersOwn, StagedAhead
<1> QED
  BY <1>3, <1>4

LEMMA CloseOwns ==
    ASSUME ChannelsInv, OwnInv, NEW f \in Frames, NEW c \in Channels, Close(f, c)
    PROVE  OwnInv'
<1> DEFINE waiting == Waiters(sendq[c]) \cup Waiters(recvq[c])
           ahead(r, s) ==
             \/ <<r, s>> \in sendq[c] \cup recvq[c]
             \/ r \in Waiters(sendq[c]) /\ s \in Waiters(recvq[c])
           first == {r \in waiting :
                       /\ Claimable(r)
                       /\ \A s \in waiting \ {r} :
                             reg[r].token /\ s[1] = r[1] => ~ahead(s, r)}
           woken == {r \in first : Wakes(r)}
           turns == 1 .. Cardinality(woken)
           won == [r \in first |-> ClosedOn(r)]
           stale == waiting \ first
<1>1. TypeOK /\ Linked /\ Tidy /\ SendersOwn
  BY DEF ChannelsInv, Settled, Inductive, OwnInv
<1>2. /\ \E order \in [turns -> woken] :
            Deliver(won, stale, [i \in turns |-> order[i][1]], buf)
      /\ phase' = phase /\ held' = held /\ staged' = staged
  BY DEF Close
<1>3. \A r \in waiting : r \in Regs /\ reg[r].registered
  BY <1>1, WaiterFacts
<1>4. first \subseteq waiting /\ DOMAIN won = first /\ stale \in SUBSET Regs
  BY <1>3
<1>5. ASSUME NEW r \in first, NEW s \in first, reg[r].token, r[1] = s[1], r # s
      PROVE  FALSE
  BY <1>5, OneArmCloses
<1>6. Winners(won)
  <2>1. \A r \in first :
           /\ reg[r].registered /\ ~won[r].registered
           /\ won[r].active = reg[r].active /\ won[r].chan = reg[r].chan
           /\ won[r].token = reg[r].token
    BY <1>1, <1>3, <1>4, OutcomeFacts
  <2>2. first \subseteq Regs
    BY <1>3, <1>4
  <2> HIDE DEF won, first
  <2> QED
    BY <1>4, <1>5, <2>1, <2>2 DEF Winners
<1>7. \A r \in DOMAIN won : OwnedBy(won[r]) = OwnedBy(reg[r])
  BY <1>1, <1>3, OutcomesOwn
<1> HIDE DEF won, stale, first, woken, turns
<1>8. PICK order : Deliver(won, stale, [i \in turns |-> order[i][1]], buf)
  BY <1>2
<1> DEFINE wake == [i \in turns |-> order[i][1]]
<1>9. Deliver(won, stale, wake, buf)
  BY <1>8
<1> HIDE DEF wake
<1> QED
  BY <1>2, <1>4, <1>6, <1>7, <1>9, OutcomesOwnInv

\* While no select is being started nothing is staged.
LEMMA NothingStaged ==
    ASSUME TokenDiscipline, StagedAhead, running = None \/ running \in Frames,
           running \in Frames => phase[running] \notin {"starting", "claiming"}
    PROVE  /\ \A f \in Frames : phase[f] \notin {"starting", "claiming"}
           /\ \A f \in Frames : \A a \in Arms : staged[f][a] = None
           /\ staged' = staged => StagedAhead'
BY FramesAssumption DEF TokenDiscipline, StagedAhead

LEMMA CancelOwns ==
    ASSUME ChannelsInv, OwnInv, NEW f \in Frames, Cancel(f) \/ DeadlineFailure(f)
    PROVE  OwnInv'
<1>1. TypeOK /\ TokenDiscipline /\ StagedAhead
  BY DEF ChannelsInv, Inductive, OwnInv
<1>2. /\ running \in Frames /\ phase[running] \notin {"starting", "claiming"}
      /\ held' = held /\ staged' = staged
      /\ \E S \in SUBSET Frames : CancelFrames(S)
  BY FramesAssumption DEF Cancel, DeadlineFailure, Runs
<1>3. PICK S \in SUBSET Frames : CancelFrames(S)
  BY <1>2
<1> DEFINE lost == UNION {Outstanding(g) : g \in S}
<1>4. lost \in SUBSET Regs
  BY <1>1, MaxArmsAssumption DEF Outstanding, Regs, Arms, TypeOK, Tokens
<1>5. /\ Release(lost, Nothing, buf, {})
      /\ \A r \in Regs : reg'[r] = IF r \in lost THEN NoRegistration ELSE reg[r]
  BY <1>3 DEF CancelFrames
<1> HIDE DEF lost
<1>6. Owned'
  BY ONLY OwnInv, <1>2, <1>4, <1>5, KeptSole
<1>7. StagedAhead'
  BY <1>1, <1>2, NothingStaged
<1> QED
  BY <1>6, <1>7 DEF OwnInv, Owned

LEMMA ReleaseHandleOwns ==
    ASSUME ChannelsInv, OwnInv, NEW f \in Frames, NEW c \in Channels, ReleaseHandle(f, c)
    PROVE  OwnInv'
<1>1. TypeOK /\ TokenDiscipline /\ StagedAhead
  BY DEF ChannelsInv, Inductive, OwnInv
<1>2. /\ running = f /\ phase[f] = "idle"
      /\ held' = held /\ staged' = staged /\ reg' = reg
      /\ Release({}, One(c), buf, {})
  BY DEF ReleaseHandle, Runs
<1>3. \A r \in Regs : reg'[r] = IF r \in {} THEN NoRegistration ELSE reg[r]
  BY <1>2
<1>4. Owned'
  BY ONLY OwnInv, <1>2, <1>3, KeptSole
<1>5. StagedAhead'
  BY <1>1, <1>2, NothingStaged
<1> QED
  BY <1>4, <1>5 DEF OwnInv, Owned

LEMMA ResumeOwns ==
    ASSUME ChannelsInv, OwnInv, NEW f \in Frames, Resume(f) \/ SelectResume(f)
    PROVE  OwnInv'
<1>1. TypeOK /\ TokenDiscipline /\ StagedAhead
  BY DEF ChannelsInv, Inductive, OwnInv
<1>2. running = f /\ phase[f] \in {"plain", "select"} /\ staged' = staged
  BY DEF Resume, SelectResume, Resumes
<1>3. StagedAhead'
  BY <1>1, <1>2, NothingStaged
<1>4. CASE \E r \in Regs : Finished(f, r)
  <2>1. Owned'
    BY ONLY ChannelsInv, OwnInv, f \in Frames, <1>2, <1>4, FinishedSole
  <2> QED
    BY <1>3, <2>1 DEF OwnInv, Owned
<1>5. CASE UNCHANGED <<buf, reg, held, dropped>>
  BY <1>2, <1>3, <1>5 DEF OwnInv, Distinct, SendersOwn
<1>6. (\E r \in Regs : Finished(f, r)) \/ UNCHANGED <<buf, reg, held, dropped>>
  <2>1. CASE Resume(f)
    BY <2>1, MaxArmsAssumption DEF Resume, Regs, Arms
  <2>2. CASE SelectResume(f)
    BY <1>1, MaxArmsAssumption, <2>2 DEF TypeOK, Tokens, Regs, Arms,
       SelectResume
  <2> QED
    BY <2>1, <2>2
<1> QED
  BY <1>4, <1>5, <1>6

LEMMA SelectStartOwns ==
    ASSUME ChannelsInv, OwnInv, NEW f \in Frames, NEW shape \in Shapes, SelectStart(f, shape)
    PROVE  OwnInv'
<1> DEFINE sends == {a \in DOMAIN shape : shape[a].op = "send"}
<1>1. TypeOK /\ TokenDiscipline /\ StagedAhead
  BY DEF ChannelsInv, Inductive, OwnInv
<1>2. /\ phase[f] = "idle" /\ buf' = buf /\ reg' = reg /\ dropped' = dropped
      /\ phase' = [phase EXCEPT ![f] = "starting"]
      /\ tok' = [tok EXCEPT ![f] = [NoToken EXCEPT !.active = TRUE, !.shape = shape]]
  BY DEF SelectStart, Runs, channelVars
<1>3. sends \in SUBSET Arms
  BY ShapeFacts
<1>4. \E value \in [sends -> Sendable(f)] :
        /\ \A a, b \in sends : value[a] = value[b] => a = b
        /\ staged' = [staged EXCEPT ![f] =
                        [a \in Arms |-> IF a \in sends THEN value[a] ELSE None]]
        /\ held' = [held EXCEPT ![f] = @ \ {value[a] : a \in sends}]
  BY DEF SelectStart
<1>5. \A a \in sends : a \in DOMAIN shape /\ shape[a].op = "send"
  OBVIOUS
<1> HIDE DEF sends
<1>6. PICK value \in [sends -> Sendable(f)] :
        /\ \A a, b \in sends : value[a] = value[b] => a = b
        /\ staged' = [staged EXCEPT ![f] =
                        [a \in Arms |-> IF a \in sends THEN value[a] ELSE None]]
        /\ held' = [held EXCEPT ![f] = @ \ {value[a] : a \in sends}]
  BY <1>4
<1>7. value \in [sends -> Values] /\ \A a \in sends : value[a] \in held[f]
  BY <1>1, <1>6 DEF Sendable, TypeOK
<1>8. Sole(Custody(buf, reg, held', staged', dropped))
  BY ONLY OwnInv, f \in Frames, <1>1, <1>2, <1>3, <1>6, <1>7, StagingSole
<1>9. Owned'
  BY <1>2, <1>8 DEF Owned, OwnInv, Distinct, SendersOwn
<1>10. ASSUME NEW g \in Frames, NEW a \in Arms, staged'[g][a] # None
       PROVE  /\ phase'[g] \in {"starting", "claiming"}
              /\ a \in DOMAIN tok'[g].shape /\ tok'[g].shape[a].op = "send"
              /\ phase'[g] = "starting" => a >= tok'[g].next
  <2>1. tok'[f].shape = shape /\ tok'[f].next = 1 /\ phase'[f] = "starting"
    BY <1>1, <1>2 DEF TypeOK, NoToken
  <2>2. CASE g = f
    BY <1>1, <1>6, <1>10, <2>2, <1>5, <2>1 DEF TypeOK, Arms
  <2>3. CASE g # f
    BY <1>1, <1>2, <1>6, <2>3, <1>10 DEF TypeOK, StagedAhead
  <2> QED
    BY <2>2, <2>3
<1>11. StagedAhead'
  BY <1>10 DEF StagedAhead
<1> QED
  BY <1>9, <1>11 DEF OwnInv, Owned

LEMMA ArmTakes ==
    ASSUME ChannelsInv, OwnInv, NEW f \in Frames, NEW op, Starts(f, op),
           \A g \in Frames : \A a \in Arms : staged'[g][a] # None =>
               staged[g][a] # None /\ (g = f => a # tok[f].next),
           \/ tok' = Registered(f) /\ phase' = phase
           \/ /\ \A g \in Frames : tok'[g].shape = tok[g].shape /\ tok'[g].next = tok[g].next
              /\ Claiming(f)
    PROVE  StagedAhead'
<1>1. Inductive /\ TypeOK /\ StagedAhead
  BY DEF ChannelsInv, Inductive, OwnInv
<1>2. phase[f] = "starting" /\ tok[f].next \in DOMAIN tok[f].shape
  BY DEF Starts
<1>3. CASE tok' = Registered(f) /\ phase' = phase
  <2>1. /\ \A g \in Frames \ {f} : tok'[g] = tok[g]
        /\ tok'[f].shape = tok[f].shape /\ tok'[f].next = tok[f].next + 1
        /\ tok[f].next \in Arms
    BY <1>1, <1>2, <1>3, RegisteredFacts
  <2> SUFFICES ASSUME NEW g \in Frames, NEW a \in Arms, staged'[g][a] # None
               PROVE  /\ phase'[g] \in {"starting", "claiming"}
                      /\ a \in DOMAIN tok'[g].shape /\ tok'[g].shape[a].op = "send"
                      /\ phase'[g] = "starting" => a >= tok'[g].next
    BY DEF StagedAhead
  <2>2. CASE g # f
    BY <1>1, <1>3, <2>1, <2>2 DEF StagedAhead
  <2>3. CASE g = f
    BY <1>1, <1>2, <2>3, <2>1, <1>3 DEF StagedAhead, Arms
  <2> QED
    BY <2>2, <2>3
<1>4. CASE /\ \A g \in Frames : tok'[g].shape = tok[g].shape /\ tok'[g].next = tok[g].next
           /\ Claiming(f)
  BY <1>1, <1>4, StagedRests DEF Claiming, TypeOK, StagedRest
<1> QED
  BY <1>3, <1>4

LEMMA ArmSendOwns ==
    ASSUME ChannelsInv, OwnInv, NEW f \in Frames, ArmSend(f)
    PROVE  OwnInv'
<1> DEFINE c == ArmChannel(f)
           a == tok[f].next
           v == staged[f][a]
<1>1. Inductive /\ TypeOK /\ TokenDiscipline
  BY DEF ChannelsInv, Inductive
<1>2. /\ Starts(f, "send") /\ phase[f] = "starting" /\ a \in DOMAIN tok[f].shape
      /\ staged' = [staged EXCEPT ![f][a] = None]
      /\ \/ TrySendSucceeds(c, v) /\ Claiming(f) /\ held' = held
         \/ /\ Claiming(f) /\ held' = [held EXCEPT ![f] = @ \cup {v}]
            /\ UNCHANGED <<buf, reg, tok, dropped>>
         \/ /\ Suspend(<<f, a>>, c, SendRegistration(c, v, TRUE))
            /\ tok' = Registered(f)
            /\ UNCHANGED <<buf, phase, held, dropped>>
  BY DEF ArmSend, Starts
<1>3. c \in Channels /\ v \in Values
  BY <1>1, <1>2, ArmChannelFacts
<1>4. a \in Arms
  BY <1>1, <1>2, RegisteredFacts
<1>5. <<f, a>> \in Regs /\ OwnedBy(reg[<<f, a>>]) = {}
  BY <1>2, <1>4, FreshOwnsNothing
<1>6. /\ Operand(staged, <<f, a>>) = {v}
      /\ Operand(staged', <<f, a>>) = {}
      /\ \A r \in Regs : r # <<f, a>> => Operand(staged', r) = Operand(staged, r)
      /\ \A g \in Frames : \A b \in Arms : staged'[g][b] # None =>
            staged[g][b] # None /\ <<g, b>> # <<f, a>>
  BY <1>1, <1>2, <1>3, <1>4, OperandUnstaged
<1>7. held' = held => HandsOver(<<"staged", <<f, a>>>>, v)
  BY <1>1, <1>2, <1>3, <1>4, StagedHandsOver
<1>8. \A g \in Frames : \A b \in Arms : staged'[g][b] # None =>
            staged[g][b] # None /\ (g = f => b # a)
  BY <1>6
<1> HIDE DEF c, v
<1>9. CASE TrySendSucceeds(c, v) /\ Claiming(f) /\ held' = held
  <2>1. Owned'
    BY ONLY ChannelsInv, OwnInv, <1>3, <1>7, <1>9, HandOffSole, PutInRingSole DEF TrySendSucceeds
  <2>2. \A g \in Frames : tok'[g].shape = tok[g].shape /\ tok'[g].next = tok[g].next
    BY ONLY ChannelsInv, <1>3, <1>9, CallStages
  <2>3. StagedAhead'
    BY ONLY ChannelsInv, OwnInv, f \in Frames, <1>2, <1>8, <1>9, <2>2, ArmTakes
  <2> QED
    BY <2>1, <2>3 DEF OwnInv, Owned
<1>10. CASE /\ Claiming(f) /\ held' = [held EXCEPT ![f] = @ \cup {v}]
            /\ UNCHANGED <<buf, reg, tok, dropped>>
  <2> DEFINE from == <<"staged", <<f, a>>>>
             into == <<"frame", f>>
  <2>1. from \in Containers /\ into \in Containers /\ from # into
    BY <1>5 DEF Containers
  <2>2. Custody(buf, reg, held, staged, dropped)[from] = {v}
    BY ONLY <1>5, <1>6, CustodyAt
  <2>3. /\ \A d \in Channels : <<"ring", d>> # from /\ <<"ring", d>> # into
        /\ \A r \in Regs : <<"registration", r>> # from /\ <<"registration", r>> # into
        /\ \A g \in Frames : <<"frame", g>> # from /\ (<<"frame", g>> = into <=> g = f)
        /\ \A r \in Regs : <<"staged", r>> # into /\ (<<"staged", r>> = from <=> r = <<f, a>>)
        /\ Dropped # from /\ Dropped # into
    BY DEF Dropped
  <2> HIDE DEF from, into
  <2>4. /\ \A d \in Channels : Shifted(<<"ring", d>>, Elements(buf[d]), Elements(buf'[d]), from, into, {v})
        /\ \A r \in Regs : Shifted(<<"registration", r>>, OwnedBy(reg[r]), OwnedBy(reg'[r]), from, into, {v})
        /\ Shifted(Dropped, dropped, dropped', from, into, {v})
    BY <1>10, <2>3 DEF Shifted
  <2>5. \A g \in Frames : Shifted(<<"frame", g>>, held[g], held'[g], from, into, {v})
    BY <1>1, <1>10, <2>3 DEF TypeOK, Shifted
  <2>6. \A r \in Regs : Shifted(<<"staged", r>>, Operand(staged, r), Operand(staged', r), from, into, {v})
    BY ONLY <1>6, <2>3 DEF Shifted
  <2>7. Sole(Custody(buf, reg, held, staged, dropped))
    BY DEF OwnInv
  <2>8. Sole(Custody(buf', reg', held', staged', dropped'))
    BY ONLY <2>1, <2>2, <2>4, <2>5, <2>6, <2>7, ShiftSole
  <2>9. Distinct(buf') /\ SendersOwn'
    BY <1>10 DEF OwnInv, Distinct, SendersOwn
  <2>10. StagedAhead'
    BY ONLY ChannelsInv, OwnInv, f \in Frames, <1>2, <1>8, <1>10, ArmTakes
  <2> QED
    BY <2>8, <2>9, <2>10 DEF OwnInv
<1>11. CASE /\ Suspend(<<f, a>>, c, SendRegistration(c, v, TRUE))
            /\ tok' = Registered(f)
            /\ UNCHANGED <<buf, phase, held, dropped>>
  <2>1. Owned'
    BY ONLY ChannelsInv, OwnInv, <1>3, <1>5, <1>7, <1>11, SendSuspendSole
  <2>2. StagedAhead'
    BY ONLY ChannelsInv, OwnInv, f \in Frames, <1>2, <1>8, <1>11, ArmTakes
  <2> QED
    BY <2>1, <2>2 DEF OwnInv, Owned
<1> QED
  BY <1>2, <1>9, <1>10, <1>11

LEMMA ArmReceiveOwns ==
    ASSUME ChannelsInv, OwnInv, NEW f \in Frames, ArmReceive(f)
    PROVE  OwnInv'
<1> DEFINE c == ArmChannel(f)
           a == tok[f].next
<1>1. Inductive /\ TypeOK /\ TokenDiscipline
  BY DEF ChannelsInv, Inductive
<1>2. /\ Starts(f, "receive") /\ phase[f] = "starting" /\ a \in DOMAIN tok[f].shape
      /\ staged' = staged
      /\ \/ /\ TakeFromRing(c) /\ Claiming(f)
            /\ held' = [held EXCEPT ![f] = @ \cup {Head(buf[c])}]
         \/ Claiming(f) /\ UNCHANGED <<buf, reg, tok, dropped, held>>
         \/ /\ Suspend(<<f, a>>, c, ReceiveRegistration(c, TRUE))
            /\ tok' = Registered(f)
            /\ UNCHANGED <<buf, phase, held, dropped>>
  BY DEF ArmReceive, Starts
<1>3. c \in Channels
  BY <1>1, <1>2, ArmChannelFacts
<1>4. a \in Arms
  BY <1>1, <1>2, RegisteredFacts
<1>5. <<f, a>> \in Regs /\ OwnedBy(reg[<<f, a>>]) = {}
  BY <1>2, <1>4, FreshOwnsNothing
<1>6. \A g \in Frames : \A b \in Arms : staged'[g][b] # None =>
            staged[g][b] # None /\ (g = f => b # a)
  BY <1>2 DEF Starts, OwnInv, StagedAhead
<1> HIDE DEF c
<1>7. CASE /\ TakeFromRing(c) /\ Claiming(f)
           /\ held' = [held EXCEPT ![f] = @ \cup {Head(buf[c])}]
  <2>1. Owned'
    BY ONLY ChannelsInv, OwnInv, f \in Frames, <1>2, <1>3, <1>7, TakeFromRingSole
  <2>2. \A g \in Frames : tok'[g].shape = tok[g].shape /\ tok'[g].next = tok[g].next
    BY ONLY ChannelsInv, <1>3, <1>7, CallStages
  <2>3. StagedAhead'
    BY ONLY ChannelsInv, OwnInv, f \in Frames, <1>2, <1>6, <1>7, <2>2, ArmTakes
  <2> QED
    BY <2>1, <2>3 DEF OwnInv, Owned
<1>8. CASE Claiming(f) /\ UNCHANGED <<buf, reg, tok, dropped, held>>
  <2>1. Owned'
    BY <1>2, <1>8 DEF OwnInv, Owned, Distinct, SendersOwn
  <2>2. StagedAhead'
    BY ONLY ChannelsInv, OwnInv, f \in Frames, <1>2, <1>6, <1>8, ArmTakes
  <2> QED
    BY <2>1, <2>2 DEF OwnInv, Owned
<1>9. CASE /\ Suspend(<<f, a>>, c, ReceiveRegistration(c, TRUE))
           /\ tok' = Registered(f)
           /\ UNCHANGED <<buf, phase, held, dropped>>
  <2>1. Owned'
    BY ONLY ChannelsInv, OwnInv, <1>2, <1>3, <1>5, <1>9, ReceiveSuspendSole
  <2>2. StagedAhead'
    BY ONLY ChannelsInv, OwnInv, f \in Frames, <1>2, <1>6, <1>9, ArmTakes
  <2> QED
    BY <2>1, <2>2 DEF OwnInv, Owned
<1> QED
  BY <1>2, <1>7, <1>8, <1>9

\* A sleep owns nothing.
LEMMA ArmSleepOwns ==
    ASSUME ChannelsInv, OwnInv, NEW f \in Frames, ArmSleep(f)
    PROVE  OwnInv'
<1> DEFINE a == tok[f].next
           x == [NoRegistration EXCEPT !.op = "sleep", !.registered = TRUE, !.token = TRUE]
<1>1. Inductive /\ TypeOK /\ TokenDiscipline
  BY DEF ChannelsInv, Inductive
<1>2. /\ Starts(f, "sleep") /\ phase[f] = "starting" /\ a \in DOMAIN tok[f].shape
      /\ staged' = staged /\ held' = held /\ buf' = buf /\ dropped' = dropped
      /\ \/ Claiming(f) /\ reg' = reg /\ tok' = tok
         \/ reg' = [reg EXCEPT ![<<f, a>>] = x] /\ tok' = Registered(f) /\ phase' = phase
  BY DEF ArmSleep, Starts, channelVars
<1>3. a \in Arms
  BY <1>1, <1>2, RegisteredFacts
<1>4. <<f, a>> \in Regs /\ OwnedBy(reg[<<f, a>>]) = {}
  BY <1>2, <1>3, FreshOwnsNothing
<1>5. \A g \in Frames : \A b \in Arms : staged'[g][b] # None =>
            staged[g][b] # None /\ (g = f => b # a)
  BY <1>2 DEF Starts, OwnInv, StagedAhead
<1>6. StagedAhead'
  BY ONLY ChannelsInv, OwnInv, f \in Frames, <1>2, <1>5, ArmTakes
<1>7. OwnedBy(x) = {} /\ x.op = "sleep" /\ ~x.owned
  BY DEF OwnedBy, NoRegistration
<1> HIDE DEF x
<1>8. /\ \A r \in Regs : OwnedBy(reg'[r]) = OwnedBy(reg[r])
      /\ \A r \in Regs : reg'[r] = reg[r] \/ reg'[r] = x
  BY <1>1, <1>2, <1>4, <1>7 DEF TypeOK
<1>9. Sole(Custody(buf', reg', held', staged', dropped'))
  <2> DEFINE W == Custody(buf, reg, held, staged, dropped)
             V == Custody(buf, reg', held, staged, dropped)
  <2>1. ASSUME NEW o \in Containers PROVE V[o] = W[o]
    <3>1. CASE \E r \in Regs : o = <<"registration", r>>
      BY <1>8, <3>1, CustodyAt
    <3>2. CASE ~ \E r \in Regs : o = <<"registration", r>>
      BY <3>2 DEF Containers, Custody
    <3> QED
      BY <3>1, <3>2
  <2>2. Sole(W)
    BY DEF OwnInv
  <2> HIDE DEF W, V
  <2>3. Sole(V)
    BY <2>1, <2>2, SameSole
  <2> QED
    BY <1>2, <2>3 DEF V
<1>10. SendersOwn'
  BY <1>7, <1>8 DEF SendersOwn, OwnInv
<1> QED
  BY <1>2, <1>6, <1>9, <1>10 DEF OwnInv, Distinct

LEMMA SelectSuspendOwns ==
    ASSUME ChannelsInv, OwnInv, NEW f \in Frames, SelectSuspend(f)
    PROVE  OwnInv'
<1>1. TypeOK /\ TokenDiscipline /\ StagedAhead
  BY DEF ChannelsInv, Inductive, OwnInv
<1>2. /\ running = f /\ phase[f] = "starting" /\ tok[f].next \notin DOMAIN tok[f].shape
      /\ UNCHANGED <<buf, reg, held, staged, dropped>>
      /\ tok' = [tok EXCEPT ![f].suspended = TRUE]
      /\ phase' = [phase EXCEPT ![f] = "select"]
  BY DEF SelectSuspend, channelVars
<1>3. \A a \in Arms : staged[f][a] = None
  <2>1. tok[f] \in Tokens
    BY <1>1 DEF TypeOK
  <2>2. \E n \in Nat : DOMAIN tok[f].shape = 1 .. n
    BY <2>1, ShapesAssumption DEF Tokens
  <2>3. \A a \in DOMAIN tok[f].shape : a >= tok[f].next => FALSE
    BY <1>2, <2>1, <2>2 DEF Tokens
  <2> QED
    BY <1>1, <1>2, <2>3 DEF StagedAhead
<1>4. \A g \in Frames \ {f} : tok'[g] = tok[g] /\ phase'[g] = phase[g]
  BY <1>1, <1>2 DEF TypeOK
<1>5. StagedAhead'
  BY <1>1, <1>2, <1>3, <1>4 DEF StagedAhead
<1> QED
  BY <1>2, <1>5 DEF OwnInv, Distinct, SendersOwn

\* What was staged for the arms of a frame's select is no longer staged.
LEMMA OperandsCleared ==
    ASSUME TypeOK, NEW f \in Frames, staged' = [staged EXCEPT ![f] = NoneStaged],
           NEW S, S = {<<f, a>> : a \in Arms}
    PROVE  /\ S \in SUBSET Regs
           /\ \A r \in Regs : Operand(staged', r) = IF r \in S THEN {} ELSE Operand(staged, r)
           /\ \A v : v \in {staged[f][a] : a \in Arms} \ {None}
                        <=> \E r \in S : v \in Operand(staged, r)
           /\ \A g \in Frames : \A a \in Arms : staged'[g][a] # None =>
                 g # f /\ staged[g][a] # None
<1>1. \A g \in Frames : \A a \in Arms :
         staged'[g][a] = IF g = f THEN None ELSE staged[g][a]
  BY DEF TypeOK, NoneStaged
<1>2. \A r \in Regs : r[1] \in Frames /\ r[2] \in Arms /\ r = <<r[1], r[2]>>
  BY DEF Regs
<1>3. S \in SUBSET Regs
  BY DEF Regs
<1>4. \A a \in Arms : Operand(staged, <<f, a>>) = {staged[f][a]} \ {None}
  BY DEF Operand
<1>5. \A v : v \in {staged[f][a] : a \in Arms} \ {None}
                <=> \E r \in S : v \in Operand(staged, r)
  BY <1>4
<1>6. ASSUME NEW r \in Regs
      PROVE  Operand(staged', r) = IF r \in S THEN {} ELSE Operand(staged, r)
  <2>1. r \in S <=> r[1] = f
    BY <1>2
  <2>2. staged'[r[1]][r[2]] = IF r[1] = f THEN None ELSE staged[r[1]][r[2]]
    BY ONLY <1>1, <1>2, r \in Regs
  <2> QED
    BY ONLY <2>1, <2>2 DEF Operand
<1>7. ASSUME NEW g \in Frames, NEW a \in Arms, staged'[g][a] # None
      PROVE  g # f /\ staged[g][a] # None
  BY ONLY <1>1, <1>7, g \in Frames, a \in Arms
<1> QED
  BY ONLY <1>3, <1>5, <1>6, <1>7

LEMMA ImmediateWinOwns ==
    ASSUME ChannelsInv, OwnInv, NEW f \in Frames, ImmediateWin(f)
    PROVE  OwnInv'
<1> DEFINE lost == {<<f, a>> : a \in tok[f].registered \ {tok[f].next}}
           unused == {staged[f][a] : a \in Arms} \ {None}
           S == {<<f, a>> : a \in Arms}
<1>1. TypeOK /\ TokenDiscipline /\ StagedAhead
  BY DEF ChannelsInv, Inductive, OwnInv
<1>2. CASE tok[f].active /\ tok[f].winner = 0
  <2>1. /\ Release(lost, Nothing, buf, unused) /\ held' = held
        /\ \A r \in Regs : reg'[r] = IF r \in lost THEN NoRegistration ELSE reg[r]
        /\ staged' = [staged EXCEPT ![f] = NoneStaged]
        /\ tok' = [tok EXCEPT ![f] = NoToken]
        /\ phase' = [phase EXCEPT ![f] = "idle"]
    BY <1>2 DEF ImmediateWin
  <2>2. lost \in SUBSET Regs
    BY <1>1 DEF TypeOK, Tokens, Regs
  <2>3. /\ S \in SUBSET Regs
        /\ \A r \in Regs : Operand(staged', r) = IF r \in S THEN {} ELSE Operand(staged, r)
        /\ \A v : v \in unused <=> \E r \in S : v \in Operand(staged, r)
        /\ \A g \in Frames : \A a \in Arms : staged'[g][a] # None =>
              g # f /\ staged[g][a] # None
    BY <1>1, <2>1, OperandsCleared
  <2> HIDE DEF lost, unused, S
  <2>4. \A g \in Frames : held'[g] = IF g \in {} THEN {} ELSE held[g]
    BY <2>1
  <2>5. \A v : v \in unused <=> (\E g \in {} : v \in held[g]) \/ \E r \in S : v \in Operand(staged, r)
    BY <2>3
  <2>6. Sole(Custody(buf, reg, held', staged', dropped \cup unused))
    BY ONLY OwnInv, <2>3, <2>4, <2>5, EmptiedSole
  <2>7. Owned'
    BY ONLY OwnInv, <2>1, <2>2, <2>6, ReleasedSole
  <2>8. \A g \in Frames : g # f => tok'[g] = tok[g] /\ phase'[g] = phase[g]
    BY <1>1, <2>1 DEF TypeOK
  <2>9. StagedRest
    BY <2>3, <2>8 DEF StagedRest
  <2> QED
    BY <1>1, <2>7, <2>9, StagedRests DEF OwnInv, Owned
<1>3. CASE ~(tok[f].active /\ tok[f].winner = 0)
  BY <1>3 DEF ImmediateWin, OwnInv, Distinct, SendersOwn, StagedAhead
<1> QED
  BY <1>2, <1>3

LEMMA DropFrameOwns ==
    ASSUME ChannelsInv, OwnInv, NEW f \in Frames, DropFrame(f)
    PROVE  OwnInv'
<1> DEFINE unused == {staged[f][a] : a \in Arms} \ {None}
           less == [c \in Channels |-> IF Holds(f, c) THEN 1 ELSE 0]
           freed == held[f] \cup unused
           S == {<<f, a>> : a \in Arms}
           lost == {}
<1>1. TypeOK /\ TokenDiscipline /\ StagedAhead
  BY DEF ChannelsInv, Inductive, OwnInv
<1>2. /\ lost \in SUBSET Regs /\ Release(lost, less, buf, freed) /\ held' = [held EXCEPT ![f] = {}]
      /\ \A r \in Regs : reg'[r] = IF r \in lost THEN NoRegistration ELSE reg[r]
      /\ staged' = [staged EXCEPT ![f] = NoneStaged]
      /\ tok' = tok /\ phase' = [phase EXCEPT ![f] = "dropped"]
  BY DEF DropFrame
<1>3. /\ S \in SUBSET Regs
      /\ \A r \in Regs : Operand(staged', r) = IF r \in S THEN {} ELSE Operand(staged, r)
      /\ \A v : v \in unused <=> \E r \in S : v \in Operand(staged, r)
      /\ \A g \in Frames : \A a \in Arms : staged'[g][a] # None =>
            g # f /\ staged[g][a] # None
  BY <1>1, <1>2, OperandsCleared
<1>4. \A v : v \in freed <=> (\E g \in {f} : v \in held[g]) \/ v \in unused
  OBVIOUS
<1> HIDE DEF unused, less, freed, S, lost
<1>5. \A g \in Frames : held'[g] = IF g \in {f} THEN {} ELSE held[g]
  BY <1>1, <1>2 DEF TypeOK
<1>6. \A v : v \in freed <=> (\E g \in {f} : v \in held[g]) \/ \E r \in S : v \in Operand(staged, r)
  BY <1>3, <1>4
<1>7. {f} \in SUBSET Frames
  OBVIOUS
<1>8. Sole(Custody(buf, reg, held', staged', dropped \cup freed))
  BY ONLY OwnInv, <1>3, <1>5, <1>6, <1>7, EmptiedSole
<1>9. Owned'
  BY ONLY OwnInv, <1>2, <1>8, ReleasedSole
<1>10. \A g \in Frames : g # f => tok'[g] = tok[g] /\ phase'[g] = phase[g]
  BY <1>1, <1>2 DEF TypeOK
<1>11. StagedRest
  BY <1>3, <1>10 DEF StagedRest
<1> QED
  BY <1>1, <1>9, <1>11, StagedRests DEF OwnInv, Owned

\* The other steps move no payload.
LEMMA FrameStepOwns ==
    ASSUME ChannelsInv, OwnInv, NEW f \in Frames,
           \/ Yield(f) \/ Poll(f) \/ Finish(f)
           \/ EnterDeadline(f) \/ ExitDeadline(f) \/ DeadlineExpire(f)
    PROVE  OwnInv'
BY NothingStaged DEF ChannelsInv, Inductive, OwnInv, Yield, Poll, Finish,
   EnterDeadline, ExitDeadline, DeadlineExpire, Runs, channelVars, frameVars,
   StagedAhead, Distinct, SendersOwn

LEMMA NextOwns ==
    ASSUME ChannelsInv, OwnInv, [Next]_vars
    PROVE  OwnInv'
<1>1. CASE UNCHANGED vars
  BY <1>1 DEF OwnInv, Distinct, SendersOwn, StagedAhead, vars
<1>2. ASSUME NEW f \in Frames, NEW c \in Channels, NEW v \in Values, TrySend(f, c, v)
      PROVE  OwnInv'
  BY <1>2, TrySendOwns
<1>3. ASSUME NEW f \in Frames, NEW c \in Channels, NEW v \in Values, SendStart(f, c, v)
      PROVE  OwnInv'
  BY <1>3, SendStartOwns
<1>4. ASSUME NEW f \in Frames, NEW c \in Channels, TryReceive(f, c)
      PROVE  OwnInv'
  BY <1>4, TryReceiveOwns
<1>5. ASSUME NEW f \in Frames, NEW c \in Channels, ReceiveStart(f, c)
      PROVE  OwnInv'
  BY <1>5, ReceiveStartOwns
<1>6. ASSUME NEW f \in Frames, NEW c \in Channels, Close(f, c)
      PROVE  OwnInv'
  BY <1>6, CloseOwns
<1>7. ASSUME NEW f \in Frames, NEW c \in Channels, ReleaseHandle(f, c)
      PROVE  OwnInv'
  BY <1>7, ReleaseHandleOwns
<1>8. ASSUME NEW f \in Frames, NEW shape \in Shapes, SelectStart(f, shape)
      PROVE  OwnInv'
  BY <1>8, SelectStartOwns
<1>9. ASSUME NEW f \in Frames, ArmSend(f) \/ ArmReceive(f) \/ ArmSleep(f) \/ SelectSuspend(f)
      PROVE  OwnInv'
  BY <1>9, ArmSendOwns, ArmReceiveOwns, ArmSleepOwns, SelectSuspendOwns
<1>10. ASSUME NEW f \in Frames, ImmediateWin(f) \/ Resume(f) \/ SelectResume(f) \/ DropFrame(f)
       PROVE  OwnInv'
  BY <1>10, ImmediateWinOwns, ResumeOwns, DropFrameOwns
<1>11. ASSUME NEW f \in Frames, Cancel(f) \/ DeadlineFailure(f)
       PROVE  OwnInv'
  BY <1>11, CancelOwns
<1>12. ASSUME NEW f \in Frames,
              \/ Yield(f) \/ Poll(f) \/ Finish(f)
              \/ EnterDeadline(f) \/ ExitDeadline(f) \/ DeadlineExpire(f)
       PROVE  OwnInv'
  BY <1>12, FrameStepOwns
<1>13. ASSUME NEW r \in Regs, TimerExpire(r)
       PROVE  OwnInv'
  BY <1>13, TimerOwns
<1> QED
  BY <1>1, <1>2, <1>3, <1>4, <1>5, <1>6, <1>7, <1>8, <1>9, <1>10, <1>11, <1>12, <1>13
     DEF Next

\* Each payload starts in the locals of one frame.
OneHolder ==
    \A v \in Values : \E f \in Frames :
        v \in InitHeld[f] /\ \A g \in Frames : v \in InitHeld[g] => g = f

LEMMA InitOwns == OneHolder /\ Init => OwnInv
<1> SUFFICES ASSUME OneHolder, Init PROVE OwnInv
  OBVIOUS
<1> DEFINE W == Custody(buf, reg, held, staged, dropped)
<1>1. /\ buf = [c \in Channels |-> <<>>] /\ reg = [r \in Regs |-> NoRegistration]
      /\ held = InitHeld /\ staged = [f \in Frames |-> NoneStaged] /\ dropped = {}
  BY DEF Init
<1>2. Elements(<<>>) = {} /\ OwnedBy(NoRegistration) = {} /\ ~NoRegistration.registered
  BY DEF Elements, OwnedBy, NoRegistration
<1>3. \A r \in Regs : Operand(staged, r) = {}
  BY <1>1 DEF Operand, NoneStaged, Regs
<1>4. /\ \A c \in Channels : W[<<"ring", c>>] = {}
      /\ \A r \in Regs : W[<<"registration", r>>] = {}
      /\ \A f \in Frames : <<"frame", f>> \in Containers /\ W[<<"frame", f>>] = InitHeld[f]
      /\ W[Dropped] = {}
  BY <1>1, <1>2, CustodyAt
<1>5. \A r \in Regs : W[<<"staged", r>>] = {}
  <2> TAKE r \in Regs
  <2>1. W[<<"staged", r>>] = Operand(staged, r)
    BY ONLY r \in Regs, CustodyAt
  <2> QED
    BY <1>3, <2>1
<1> HIDE DEF W
<1>6. Sole(W)
  <2> SUFFICES ASSUME NEW v \in Values
               PROVE  \E o \in Containers : v \in W[o] /\ \A p \in Containers : v \in W[p] => p = o
    BY DEF Sole
  <2>1. PICK f \in Frames : v \in InitHeld[f] /\ \A g \in Frames : v \in InitHeld[g] => g = f
    BY DEF OneHolder
  <2>2. ASSUME NEW p \in Containers, v \in W[p] PROVE p = <<"frame", f>>
    BY <1>4, <1>5, <2>1, <2>2, OneContainer
  <2> QED
    BY <1>4, <2>1, <2>2
<1>7. Distinct(buf)
  BY <1>1 DEF Distinct
<1>8. SendersOwn
  BY <1>1, <1>2 DEF SendersOwn
<1>9. StagedAhead
  BY <1>1 DEF StagedAhead, NoneStaged
<1> QED
  BY <1>6, <1>7, <1>8, <1>9 DEF OwnInv, W

LEMMA PlacesAre ==
    ASSUME NEW v, NEW x
    PROVE  x \in Places(v) <=>
             \/ \E c \in Channels : \E i \in 1 .. Len(buf[c]) : buf[c][i] = v /\ x = <<"ring", c, i>>
             \/ \E r \in Regs : v \in OwnedBy(reg[r]) /\ x = <<"registration", r, 0>>
             \/ \E f \in Frames : v \in held[f] /\ x = <<"frame", f, 0>>
             \/ \E p \in Regs : staged[p[1]][p[2]] = v /\ x = <<"staged", p[1], p[2]>>
             \/ v \in dropped /\ x = <<"dropped", None, 0>>
<1> DEFINE rings == UNION {{<<"ring", c, i>> : i \in {j \in 1 .. Len(buf[c]) : buf[c][j] = v}}
                              : c \in Channels}
           regs == {<<"registration", r, 0>> : r \in {q \in Regs : v \in Payload(q)}}
           frames == {<<"frame", f, 0>> : f \in {g \in Frames : v \in held[g]}}
           operands == {<<"staged", p[1], p[2]>> : p \in {q \in Frames \X Arms : staged[q[1]][q[2]] = v}}
           gone == IF v \in dropped THEN {<<"dropped", None, 0>>} ELSE {}
<1>1. Places(v) = rings \cup regs \cup frames \cup operands \cup gone
  BY DEF Places
<1>2. x \in rings <=> \E c \in Channels : \E i \in 1 .. Len(buf[c]) :
                          buf[c][i] = v /\ x = <<"ring", c, i>>
  OBVIOUS
<1>3. x \in regs <=> \E r \in Regs : v \in OwnedBy(reg[r]) /\ x = <<"registration", r, 0>>
  BY DEF Payload, OwnedBy
<1>4. x \in frames <=> \E f \in Frames : v \in held[f] /\ x = <<"frame", f, 0>>
  OBVIOUS
<1>5. x \in operands <=> \E p \in Regs : staged[p[1]][p[2]] = v /\ x = <<"staged", p[1], p[2]>>
  BY DEF Regs
<1>6. x \in gone <=> v \in dropped /\ x = <<"dropped", None, 0>>
  OBVIOUS
<1> HIDE DEF rings, regs, frames, operands, gone
<1> QED
  BY <1>1, <1>2, <1>3, <1>4, <1>5, <1>6

LEMMA OnePlace ==
    ASSUME OwnInv
    PROVE  OneOwner
<1> SUFFICES ASSUME NEW v \in Values PROVE Cardinality(Places(v)) = 1
  BY DEF OneOwner
<1> DEFINE W == Custody(buf, reg, held, staged, dropped)
<1>1. PICK o \in Containers : v \in W[o] /\ \A p \in Containers : v \in W[p] => p = o
  BY DEF OwnInv, Sole
<1>2. /\ \A c \in Channels : <<"ring", c>> \in Containers /\ W[<<"ring", c>>] = Elements(buf[c])
      /\ \A r \in Regs : <<"registration", r>> \in Containers /\ W[<<"registration", r>>] = OwnedBy(reg[r])
      /\ \A f \in Frames : <<"frame", f>> \in Containers /\ W[<<"frame", f>>] = held[f]
      /\ Dropped \in Containers /\ W[Dropped] = dropped
  BY CustodyAt
<1>3. \A r \in Regs : /\ <<"staged", r>> \in Containers
                      /\ v \in W[<<"staged", r>>] <=> staged[r[1]][r[2]] = v
  <2> TAKE r \in Regs
  <2>1. <<"staged", r>> \in Containers /\ W[<<"staged", r>>] = Operand(staged, r)
    BY CustodyAt
  <2> QED
    BY <2>1, NoneAssumption DEF Operand
<1> HIDE DEF W
<1>4. \A c \in Channels : \A i \in 1 .. Len(buf[c]) : buf[c][i] = v => <<"ring", c>> = o
  <2> TAKE c \in Channels
  <2>1. (\E i \in 1 .. Len(buf[c]) : buf[c][i] = v) => v \in Elements(buf[c])
    BY DEF Elements
  <2> QED
    BY <1>1, <1>2, <2>1
<1>5. \A r \in Regs : v \in OwnedBy(reg[r]) => <<"registration", r>> = o
  BY <1>1, <1>2
<1>6. \A f \in Frames : v \in held[f] => <<"frame", f>> = o
  BY <1>1, <1>2
<1>7. \A p \in Regs : staged[p[1]][p[2]] = v => <<"staged", p>> = o
  BY <1>1, <1>3
<1>8. v \in dropped => Dropped = o
  BY <1>1, <1>2
<1>9. \A p \in Regs : p = <<p[1], p[2]>>
  BY DEF Regs
<1>10. \E x : Places(v) = {x}
  <2>1. ASSUME NEW c \in Channels, o = <<"ring", c>> PROVE \E x : Places(v) = {x}
    <3>1. PICK i \in 1 .. Len(buf[c]) : buf[c][i] = v
      BY <1>1, <1>2, <2>1 DEF Elements
    <3>2. ASSUME NEW x \in Places(v) PROVE x = <<"ring", c, i>>
      <4>1. PICK d \in Channels : \E j \in 1 .. Len(buf[d]) : buf[d][j] = v /\ x = <<"ring", d, j>>
        BY <1>5, <1>6, <1>7, <1>8, <2>1, PlacesAre DEF Dropped
      <4>2. d = c
        BY <1>4, <2>1, <4>1
      <4> QED
        BY <3>1, <4>1, <4>2 DEF OwnInv, Distinct
    <3>3. <<"ring", c, i>> \in Places(v)
      BY <3>1, PlacesAre
    <3> QED
      BY <3>2, <3>3
  <2>2. ASSUME NEW r \in Regs, o = <<"registration", r>> PROVE \E x : Places(v) = {x}
    <3>1. ASSUME NEW x \in Places(v) PROVE x = <<"registration", r, 0>>
      BY <1>4, <1>5, <1>6, <1>7, <1>8, <2>2, PlacesAre DEF Dropped
    <3>2. <<"registration", r, 0>> \in Places(v)
      BY <1>1, <1>2, <2>2, PlacesAre
    <3> QED
      BY <3>1, <3>2
  <2>3. ASSUME NEW f \in Frames, o = <<"frame", f>> PROVE \E x : Places(v) = {x}
    <3>1. ASSUME NEW x \in Places(v) PROVE x = <<"frame", f, 0>>
      BY <1>4, <1>5, <1>6, <1>7, <1>8, <2>3, PlacesAre DEF Dropped
    <3>2. <<"frame", f, 0>> \in Places(v)
      BY <1>1, <1>2, <2>3, PlacesAre
    <3> QED
      BY <3>1, <3>2
  <2>4. ASSUME NEW r \in Regs, o = <<"staged", r>> PROVE \E x : Places(v) = {x}
    <3>1. ASSUME NEW x \in Places(v) PROVE x = <<"staged", r[1], r[2]>>
      BY <1>4, <1>5, <1>6, <1>7, <1>8, <2>4, PlacesAre DEF Dropped
    <3>2. <<"staged", r[1], r[2]>> \in Places(v)
      BY <1>1, <1>3, <2>4, PlacesAre
    <3> QED
      BY <3>1, <3>2
  <2>5. CASE o = Dropped
    <3>1. ASSUME NEW x \in Places(v) PROVE x = <<"dropped", None, 0>>
      BY <1>4, <1>5, <1>6, <1>7, <2>5, PlacesAre DEF Dropped
    <3>2. <<"dropped", None, 0>> \in Places(v)
      BY <1>1, <1>2, <2>5, PlacesAre
    <3> QED
      BY <3>1, <3>2
  <2> QED
    BY <1>1, <2>1, <2>2, <2>3, <2>4, <2>5, OneContainer
<1> QED
  BY <1>10, FS_Singleton

\* "Release or return a staged value exactly once": where each payload starts
\* in the locals of one frame, every payload is, after every step, in exactly
\* one ring slot, registration, frame or staged operand, or was released.
THEOREM PayloadsHaveOneOwner == OneHolder => (Spec => []OneOwner)
<1> SUFFICES ASSUME OneHolder PROVE Spec => []OneOwner
  OBVIOUS
<1>1. Init => OwnInv
  BY InitOwns
<1>2. ChannelsInv /\ OwnInv /\ [Next]_vars => OwnInv'
  BY NextOwns
<1>3. OwnInv => OneOwner
  BY OnePlace
<1> QED
  BY <1>1, <1>2, <1>3, ChannelsStay, PTL DEF Spec
=============================================================================
