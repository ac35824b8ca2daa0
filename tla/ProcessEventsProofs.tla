------------------------- MODULE ProcessEventsProofs -------------------------
(***************************************************************************)
(* The events of a child process tell its output byte by byte and Exited   *)
(* last, an event that waits misses nothing, and stdin arrives once, for   *)
(* every output, chunk size, pipe, payload and kind of exit report.        *)
(***************************************************************************)
EXTENDS ProcessEvents, SequenceTheorems, WellFoundedInduction, TLAPS

-----------------------------------------------------------------------------
(* The inductive invariant.                                                *)

Handles ==
    [open : BOOLEAN, stdin : BOOLEAN, pending : 0 .. PayloadSize,
     flushed : BOOLEAN, fds : SUBSET Streams, buf : [Streams -> Seq(Bytes)],
     exited : BOOLEAN, told : BOOLEAN, prefer : Streams, busy : BOOLEAN,
     source : {"reactor", "worker"}]

Interests == Streams \cup {"in", "exit"}

Registrations ==
    [timer : BOOLEAN, io : SUBSET Interests, probe : BOOLEAN, active : BOOLEAN,
     max : Nat, left : Nat]

Places == {"idle", "probe", "out", "err", "decide", "arm", "settle", "wait",
           "ready", "expired"}

Shape ==
    /\ script \in Scripts
    /\ state \in Handles
    /\ reg \in Registrations
    /\ op \in [at : Places, part : {"start", "resume", "last", "again"}]
    /\ pipes \in [Streams -> Seq(Bytes)]
    /\ holds \in [Streams -> BOOLEAN]
    /\ input \in [held : 0 .. PipeCapacity, sent : Nat]
    /\ reads \in BOOLEAN /\ sure \in BOOLEAN
    /\ child \in {"running", "zombie", "reaped"}
    /\ emitted \in [Streams -> Seq(Bytes)]
    /\ flushes \in Nat /\ payloads \in 0 .. MaxPayloads
    /\ passed \in [Streams -> Nat]
    /\ retained \in Nat /\ live \in Nat

\* An event is under way on a handle that is open and has not told the exit.
Asked ==
    /\ op.at # "idle" => state.open /\ state.busy /\ ~state.told /\ reg.max \in Chunks
    /\ op.at = "idle" => ~state.busy
    /\ ~state.open => ~state.told
    /\ reg.active <=> op.at \in {"wait", "expired"}

\* No byte is read that the child has not written, and no buffer outgrows a
\* chunk and its slack.
Buffered ==
    /\ state.open => \A s \in Streams : Read(s) <= Len(script[s])
    /\ \A s \in Streams : \E max \in Chunks : Len(state.buf[s]) <= max + Slack

\* The handle knows only what is so: an exit that was waited for, an end that
\* no writer can put off.
Over ==
    /\ state.exited => child = "reaped"
    /\ state.open => \A s \in Streams \ state.fds : ~holds[s] /\ pipes[s] = <<>>
    /\ state.told => AllRead(state)

\* From the arming on every source of a result is registered.  A result that is
\* there is the exit, and then the child is probed once more.
Registered ==
    /\ op.at = "arm" => ~HasResult(state)
    /\ op.at \in {"settle", "wait"} => Wanted(state) \subseteq reg.io
    /\ op.at = "settle" => /\ ~state.exited /\ state.source = "reactor" => reg.probe
                           /\ HasResult(state) => reg.probe /\ state.exited

\* Where the bytes of stdin are.
Fed ==
    /\ state.flushed => op.at \in {"out", "err", "decide"} /\ state.pending = 0
    /\ input.sent + state.pending <= PayloadSize * payloads
    /\ StdinKept

\* A stream that was passed over is the next to be looked at.
Turns == NotPassedOver /\ \A s \in Streams : passed[s] = 1 => state.prefer = s

EventsInv ==
    /\ Shape /\ Asked /\ Buffered /\ BytesInOrder /\ ScalarsWhole /\ Over
    /\ Registered /\ NothingMissed /\ Fed /\ CountersExact /\ Turns

-----------------------------------------------------------------------------
(* The operators of the model.                                             *)

More == {s \in Nat \X Nat : s[1] < s[2]}

\* A bounded set of numbers has a greatest one.
LEMMA GreatestIn ==
    ASSUME NEW n \in Nat, NEW S \in SUBSET (0 .. n), S # {}
    PROVE  \E x \in S : \A y \in S : y <= x
<1> DEFINE T == {n - x : x \in S}
<1>1. T \in SUBSET Nat /\ T # {}
  <2>1. \A x \in S : x \in Nat /\ x <= n /\ n - x \in Nat
    OBVIOUS
  <2>2. T \subseteq Nat
    BY <2>1
  <2>3. PICK x \in S : TRUE
    OBVIOUS
  <2>4. n - x \in T
    BY <2>3
  <2> QED
    BY <2>2, <2>4
<1>2. OpToRel(<, Nat) = More
  BY Zenon DEF OpToRel, More
<1>3. PICK t \in T : \A y \in T : ~ (<<y, t>> \in More)
  <2> HIDE DEF T
  <2> QED
    BY <1>1, <1>2, NatLessThanWellFounded, WFMin, Zenon
<1>4. PICK x \in S : t = n - x
  BY <1>3
<1>5. ASSUME NEW y \in S PROVE y <= x
  <2>1. n - y \in T
    OBVIOUS
  <2>2. ~ (<<n - y, n - x>> \in More)
    BY <2>1, <1>3, <1>4
  <2>3. n - y \in Nat /\ n - x \in Nat
    OBVIOUS
  <2> QED
    BY <2>2, <2>3 DEF More
<1> QED
  BY <1>5

\* The prefix that an event takes is made of complete scalars.
LEMMA PrefixFacts ==
    ASSUME NEW b \in Seq(Bytes), NEW limit \in Nat
    PROVE  /\ Prefix(b, limit) \in 0 .. Len(b)
           /\ Prefix(b, limit) <= limit
           /\ Whole(b, Prefix(b, limit))
<1> DEFINE n == Least(Len(b), limit)
           fits == {i \in 0 .. n : Whole(b, i)}
<1>1. n \in Nat /\ n <= Len(b) /\ n <= limit
  BY LenProperties DEF Least
<1>2. fits \in SUBSET (0 .. n)
  OBVIOUS
<1>3. 0 \in fits
  BY <1>1 DEF Whole
<1>4. Prefix(b, limit) = CHOOSE i \in fits : \A j \in fits : j <= i
  BY DEF Prefix
<1>5. Prefix(b, limit) \in fits
  <2> HIDE DEF fits, n
  <2>1. \E x \in fits : \A y \in fits : y <= x
    BY <1>1, <1>2, <1>3, GreatestIn
  <2> QED
    BY <2>1, <1>4
<1> QED
  BY <1>1, <1>5, LenProperties

\* Byte j is in a complete scalar of the first i bytes of b.
InScalar(b, i, j) ==
    CASE b[j] = "a" -> TRUE
      [] b[j] = "l" -> j < i /\ b[j + 1] = "t"
      [] b[j] = "t" -> j > 1 /\ b[j - 1] = "l"
      [] OTHER -> FALSE

\* Complete scalars after complete scalars are complete scalars.
LEMMA WholeConcat ==
    ASSUME NEW e \in Seq(Bytes), NEW b \in Seq(Bytes), NEW k \in 0 .. Len(b),
           Whole(e, Len(e)), Whole(b, k)
    PROVE  Whole(e \o SubSeq(b, 1, k), Len(e \o SubSeq(b, 1, k)))
<1> DEFINE t == SubSeq(b, 1, k)
           w == e \o t
<1>1. t \in Seq(Bytes) /\ Len(t) = k /\ \A i \in 1 .. k : t[i] = b[i]
  BY SubSeqProperties, LenProperties
<1>2. /\ w \in Seq(Bytes) /\ Len(w) = Len(e) + k
      /\ \A i \in 1 .. Len(e) + k : w[i] = IF i <= Len(e) THEN e[i] ELSE b[i - Len(e)]
  <2> HIDE DEF t
  <2>1. /\ w \in Seq(Bytes) /\ Len(w) = Len(e) + Len(t)
        /\ \A i \in 1 .. Len(e) + Len(t) : w[i] = IF i <= Len(e) THEN e[i] ELSE t[i - Len(e)]
    BY <1>1, ConcatProperties
  <2> QED
    BY <1>1, <2>1, LenProperties
<1>3. ASSUME NEW j \in 1 .. Len(e)
      PROVE  InScalar(w, Len(w), j)
  <2> HIDE DEF w
  <2>1. Len(e) \in Nat /\ Len(w) = Len(e) + k /\ k \in Nat
    BY <1>2, LenProperties
  <2>2. InScalar(e, Len(e), j)
    BY <2>1 DEF Whole, InScalar
  <2>3. w[j] = e[j] /\ (j < Len(e) => w[j + 1] = e[j + 1])
    BY <1>2, <2>1
  <2>4. j > 1 => w[j - 1] = e[j - 1]
    BY <1>2, <2>1
  <2>5. j < Len(e) => j < Len(w)
    BY <2>1
  <2> QED
    BY <2>2, <2>3, <2>4, <2>5 DEF InScalar
<1>4. ASSUME NEW j \in Len(e) + 1 .. Len(e) + k
      PROVE  InScalar(w, Len(w), j)
  <2> HIDE DEF w
  <2> DEFINE i == j - Len(e)
  <2>1. i \in 1 .. k /\ w[j] = b[i]
    BY <1>2, LenProperties
  <2>2. InScalar(b, k, i)
    BY <2>1 DEF Whole, InScalar
  <2>3. i < k => w[j + 1] = b[i + 1]
    BY <1>2, LenProperties
  <2>4. i > 1 => w[j - 1] = b[i - 1]
    BY <1>2, LenProperties
  <2>5. (i < k => j < Len(w)) /\ (i > 1 => j > 1)
    BY <1>2, LenProperties
  <2> HIDE DEF i
  <2> QED
    BY <2>1, <2>2, <2>3, <2>4, <2>5 DEF InScalar
<1>5. \A j \in 1 .. Len(w) : j \in 1 .. Len(e) \/ j \in Len(e) + 1 .. Len(e) + k
  BY <1>2, LenProperties
<1> QED
  <2> HIDE DEF w
  <2>1. Whole(w, Len(w))
    BY <1>3, <1>4, <1>5 DEF Whole, InScalar
  <2> QED
    BY <2>1 DEF w

\* Concatenation is associative.
Associates(q, r, s) == (q \o r) \o s = q \o (r \o s)

LEMMA ConcatFacts ==
    ASSUME NEW q \in Seq(Bytes), NEW r \in Seq(Bytes), NEW s \in Seq(Bytes)
    PROVE  Associates(q, r, s)
BY ConcatAssociative DEF Associates

\* What SubSeq gives.
Cut(q, m, n) ==
    /\ SubSeq(q, m, n) \in Seq(Bytes)
    /\ Len(SubSeq(q, m, n)) = IF m <= n THEN n - m + 1 ELSE 0

LEMMA CutFacts ==
    ASSUME NEW q, NEW m \in Int, NEW n \in Int, \A i \in m .. n : q[i] \in Bytes
    PROVE  Cut(q, m, n)
BY SubSeqProperties DEF Cut

\* A sequence is its first n members and the others.
LEMMA Split ==
    ASSUME NEW q \in Seq(Bytes), NEW n \in 0 .. Len(q)
    PROVE  /\ SubSeq(q, 1, n) \in Seq(Bytes) /\ Len(SubSeq(q, 1, n)) = n
           /\ SubSeq(q, n + 1, Len(q)) \in Seq(Bytes)
           /\ Len(SubSeq(q, n + 1, Len(q))) = Len(q) - n
           /\ SubSeq(q, 1, n) \o SubSeq(q, n + 1, Len(q)) = q
<1>1. Len(q) \in Nat /\ q \in [1 .. Len(q) -> Bytes]
  BY LenProperties
<1>2. SubSeq(q, 1, n) \in Seq(Bytes) /\ Len(SubSeq(q, 1, n)) = n
  BY <1>1, SubSeqProperties
<1>3. SubSeq(q, n + 1, Len(q)) \in Seq(Bytes) /\ Len(SubSeq(q, n + 1, Len(q))) = Len(q) - n
  <2> DEFINE m == Len(q)
             l == n + 1
  <2>1. l \in Int /\ m \in Int /\ \A i \in l .. m : q[i] \in Bytes
    BY <1>1
  <2>2. m \in Nat /\ n \in 0 .. m
    BY <1>1
  <2> HIDE DEF m, l
  <2>3. Cut(q, l, m)
    BY ONLY <2>1, CutFacts
  <2>4. (IF l <= m THEN m - l + 1 ELSE 0) = m - n
    BY <2>2 DEF l
  <2>5. SubSeq(q, l, m) \in Seq(Bytes) /\ Len(SubSeq(q, l, m)) = m - n
    BY <2>3, <2>4 DEF Cut
  <2> QED
    BY <2>5 DEF l, m
<1>4. SubSeq(q, 1, n) \o SubSeq(q, n + 1, Len(q)) = SubSeq(q, 1, Len(q))
  <2>1. 1 \in 1 .. Len(q) + 1 /\ n \in 1 - 1 .. Len(q) /\ Len(q) \in n .. Len(q)
    BY <1>1
  <2> QED
    BY ONLY <2>1, q \in Seq(Bytes), ConcatAdjacentSubSeq
<1>5. SubSeq(q, 1, Len(q)) = q
  BY SubSeqFull
<1> QED
  BY <1>2, <1>3, <1>4, <1>5

\* Two handles that differ at most in what is known of the exit.
Alike(s, t) ==
    /\ t.open = s.open /\ t.stdin = s.stdin /\ t.pending = s.pending
    /\ t.flushed = s.flushed /\ t.fds = s.fds /\ t.buf = s.buf /\ t.told = s.told
    /\ t.prefer = s.prefer /\ t.busy = s.busy /\ t.source = s.source

\* Probing the child may learn of its exit and nothing else.
LEMMA ProbedFacts ==
    ASSUME NEW s \in Handles
    PROVE  /\ Probed(s) \in Handles
           /\ Alike(s, Probed(s))
           /\ Probed(s).exited <=> s.exited \/ SeesExit(s)
BY DEF Probed, Handles, Alike, SeesExit

\* What a stream has to emit depends on its buffer, on its end and on the limit.
LEMMA EmitsFacts ==
    ASSUME NEW s \in Handles, NEW x \in Streams
    PROVE  /\ Emits(s, x) \in {-1, 0, 1}
           /\ s.buf[x] = <<>> => Emits(s, x) = 0
           /\ \A t \in Handles : t.buf = s.buf /\ t.fds = s.fds => Emits(t, x) = Emits(s, x)
BY DEF Emits

LEMMA ChosenFacts ==
    ASSUME NEW s \in Handles
    PROVE  /\ Chosen(s) \in Streams /\ Other(Chosen(s)) \in Streams
           /\ Other(Chosen(s)) # Chosen(s)
           /\ Streams = {Chosen(s), Other(Chosen(s))}
           /\ s.prefer # Chosen(s) => Emits(s, Other(Chosen(s))) = 0
           /\ \A t \in Handles : Alike(s, t) => Chosen(t) = Chosen(s)
<1>1. s.prefer \in {"out", "err"}
  BY DEF Handles, Streams
<1>2. \A t \in Handles : Alike(s, t) => Chosen(t) = Chosen(s)
  BY DEF Chosen, FirstOf, Emits, Alike
<1> QED
  BY <1>1, <1>2 DEF Chosen, FirstOf, Other, Streams

\* Without a result there is nothing to say and something to wait for.
LEMMA ResultFacts ==
    ASSUME NEW s \in Handles, NEW t \in Handles, Alike(s, t)
    PROVE  HasResult(t) => HasResult(s) \/ (t.exited /\ ~s.exited)
<1>1. Chosen(t) = Chosen(s) /\ Chosen(s) \in Streams
  BY ChosenFacts
<1>2. Emits(t, Chosen(t)) = Emits(s, Chosen(s))
  BY <1>1, EmitsFacts DEF Alike
<1>3. AllRead(t) => AllRead(s) \/ (t.exited /\ ~s.exited)
  BY DEF AllRead, Alike
<1> QED
  BY <1>2, <1>3 DEF HasResult, Alike

LEMMA SequencesTyped ==
    ASSUME Shape, NEW x \in Streams
    PROVE  /\ script[x] \in Seq(Bytes) /\ Len(script[x]) \in Nat
           /\ emitted[x] \in Seq(Bytes) /\ Len(emitted[x]) \in Nat
           /\ state.buf[x] \in Seq(Bytes) /\ Len(state.buf[x]) \in Nat
           /\ pipes[x] \in Seq(Bytes) /\ Len(pipes[x]) \in Nat
           /\ Read(x) \in Nat
<1>1. /\ script[x] \in Seq(Bytes) /\ emitted[x] \in Seq(Bytes)
      /\ state.buf[x] \in Seq(Bytes) /\ pipes[x] \in Seq(Bytes)
  BY ScriptsAssumption DEF Shape, Handles
<1>2. \A q \in Seq(Bytes) : Len(q) \in Nat
  BY LenProperties
<1>3. Len(script[x]) \in Nat
  BY <1>1, <1>2
<1>4. Len(emitted[x]) \in Nat /\ Len(state.buf[x]) \in Nat /\ Len(pipes[x]) \in Nat
  BY <1>1, <1>2
<1>5. \A i, j, k \in Nat : i + j + k \in Nat
  OBVIOUS
<1>6. Read(x) \in Nat
  BY ONLY <1>4, <1>5 DEF Read
<1> QED
  BY <1>1, <1>3, <1>4, <1>6

-----------------------------------------------------------------------------
(* Parts of the invariant that a step leaves alone.                        *)

LEMMA OutputKept ==
    ASSUME Buffered, BytesInOrder, ScalarsWhole, UNCHANGED <<script, pipes, emitted>>,
           state'.buf = state.buf, state'.open => state.open
    PROVE  Buffered' /\ BytesInOrder' /\ ScalarsWhole'
BY DEF Buffered, BytesInOrder, ScalarsWhole, Read

LEMMA TurnsKept ==
    ASSUME Turns, UNCHANGED passed, state'.prefer = state.prefer
    PROVE  Turns'
BY DEF Turns, NotPassedOver

LEMMA FedKept ==
    ASSUME Fed, UNCHANGED <<payloads, flushes>>, input'.sent = input.sent,
           state'.pending = state.pending, state'.flushed = state.flushed,
           state'.open => state.open, state'.stdin => state.stdin,
           state.flushed => op'.at \in {"out", "err", "decide"}
    PROVE  Fed'
BY DEF Fed, StdinKept

LEMMA CountsKept ==
    ASSUME CountersExact, UNCHANGED <<retained, live>>, state'.pending = state.pending,
           state'.buf = state.buf, state'.open = state.open, reg'.active <=> reg.active,
           op'.at = "idle" => op.at = "idle" \/ ~reg.active
    PROVE  CountersExact'
BY DEF CountersExact, Held

\* The child and its pipes are not seen by an event that does not look.
LEMMA WaitKept ==
    ASSUME Registered, NothingMissed, UNCHANGED <<state, op>>,
           reg'.io = reg.io, reg'.probe = reg.probe, reg'.max = reg.max,
           child' = child, sure' = sure
    PROVE  Registered' /\ NothingMissed'
<1>1. HasResult(state)' <=> HasResult(state)
  BY DEF HasResult, AllRead, Chosen, FirstOf, Emits
<1> QED
  BY <1>1 DEF Registered, NothingMissed, Wanted

-----------------------------------------------------------------------------
(* The child and the clock.                                                *)

LEMMA ChildWritesStep ==
    ASSUME EventsInv, NEW s \in Streams, ChildWrites(s)
    PROVE  EventsInv'
<1> USE DEF EventsInv, ChildWrites, ghosts
<1> DEFINE n == Read(s)
<1>1. /\ script \in [Streams -> Seq(Bytes)] /\ state \in Handles
      /\ pipes \in [Streams -> Seq(Bytes)] /\ emitted \in [Streams -> Seq(Bytes)]
  BY ScriptsAssumption DEF Shape
<1>2. /\ script[s] \in Seq(Bytes) /\ pipes[s] \in Seq(Bytes) /\ emitted[s] \in Seq(Bytes)
      /\ state.buf[s] \in Seq(Bytes) /\ n \in Nat /\ Len(script[s]) \in Nat
  BY SequencesTyped
<1>3. n + 1 \in 1 .. Len(script[s]) /\ script[s][n + 1] \in Bytes
  <2>1. n < Len(script[s])
    OBVIOUS
  <2>2. n + 1 \in 1 .. Len(script[s])
    <3> HIDE DEF n
    <3> QED
      BY <1>2, <2>1
  <2> QED
    BY <1>2, <2>2, ElementOfSeq
<1>4. /\ pipes' \in [Streams -> Seq(Bytes)]
      /\ pipes'[s] = Append(pipes[s], script[s][n + 1])
      /\ \A x \in Streams \ {s} : pipes'[x] = pipes[x]
  BY <1>1, <1>2, <1>3, AppendProperties
<1>5. Shape'
  BY <1>4 DEF Shape
<1>6. Len(pipes'[s]) = Len(pipes[s]) + 1
  BY <1>2, <1>3, <1>4, AppendProperties
<1>7. Read(s)' = n + 1 /\ \A x \in Streams \ {s} : Read(x)' = Read(x)
  <2>1. /\ Len(emitted[s]) \in Nat /\ Len(state.buf[s]) \in Nat
        /\ Len(pipes[s]) \in Nat
    BY SequencesTyped
  <2>2. \A i, j, k \in Nat : i + j + (k + 1) = (i + j + k) + 1
    OBVIOUS
  <2>3. Read(s)' = Len(emitted[s]) + Len(state.buf[s]) + (Len(pipes[s]) + 1)
    BY <1>6 DEF Read
  <2>4. \A x \in Streams \ {s} : Read(x)' = Read(x)
    BY <1>4 DEF Read
  <2> QED
    BY <2>1, <2>2, <2>3, <2>4 DEF Read
<1>8. Buffered'
  BY <1>3, <1>7 DEF Buffered
<1>9. BytesInOrder'
  <2> SUFFICES ASSUME NEW x \in Streams, state.open
               PROVE  emitted[x] \o state.buf[x] \o pipes'[x] = SubSeq(script[x], 1, Read(x)')
    BY DEF BytesInOrder
  <2>1. CASE x # s
    BY <2>1, <1>4, <1>7 DEF BytesInOrder
  <2>2. CASE x = s
    <3> DEFINE e == emitted[s]
               b == state.buf[s]
               p == pipes[s]
               q == script[s]
    <3>1. e \o b \o p = SubSeq(q, 1, n)
      BY DEF BytesInOrder
    <3>2. e \in Seq(Bytes) /\ b \in Seq(Bytes) /\ p \in Seq(Bytes) /\ q \in Seq(Bytes)
          /\ n \in Nat /\ n + 1 \in 1 .. Len(q) /\ q[n + 1] \in Bytes
      BY <1>2, <1>3
    <3> HIDE DEF e, b, p, q, n
    <3>3. (e \o b) \o Append(p, q[n + 1]) = Append((e \o b) \o p, q[n + 1])
      <4>1. e \o b \in Seq(Bytes) /\ (e \o b) \o p \in Seq(Bytes) /\ <<q[n + 1]>> \in Seq(Bytes)
        BY <3>2, ConcatProperties
      <4>2. Append(p, q[n + 1]) = p \o <<q[n + 1]>>
        BY <3>2, AppendIsConcat
      <4>3. Append((e \o b) \o p, q[n + 1]) = ((e \o b) \o p) \o <<q[n + 1]>>
        BY <3>2, <4>1, AppendIsConcat
      <4>4. ((e \o b) \o p) \o <<q[n + 1]>> = (e \o b) \o (p \o <<q[n + 1]>>)
        <5> DEFINE u == e \o b
                   last == <<q[n + 1]>>
        <5>1. u \in Seq(Bytes) /\ p \in Seq(Bytes) /\ last \in Seq(Bytes)
          BY <4>1, <3>2
        <5> HIDE DEF u, last
        <5>2. Associates(u, p, last)
          BY ONLY <5>1, ConcatFacts
        <5> QED
          BY <5>2 DEF Associates, u, last
      <4> QED
        BY <4>2, <4>3, <4>4
    <3>4. Append(SubSeq(q, 1, n), q[n + 1]) = SubSeq(q, 1, n + 1)
      <4>1. SubSeq(q, 1, n + 1) = SubSeq(q, 1, (n + 1) - 1) \o <<q[n + 1]>>
        <5>1. 1 \in 1 .. Len(q) /\ n + 1 \in 1 .. Len(q)
          BY <3>2, LenProperties
        <5>2. q \in Seq(Bytes)
          BY <3>2
        <5>3. 1 \in 1 .. Len(q) /\ n + 1 \in 1 .. Len(q) /\ n + 1 \in 1 .. Len(q)
          BY <5>1
        <5> QED
          BY ONLY <5>2, <5>3, SubSeqRecursiveSecond
      <4>2. SubSeq(q, 1, n) \in Seq(Bytes)
        BY <3>2, LenProperties, Split
      <4>3. Append(SubSeq(q, 1, n), q[n + 1]) = SubSeq(q, 1, n) \o <<q[n + 1]>>
        BY <3>2, <4>2, AppendIsConcat
      <4>4. (n + 1) - 1 = n
        BY <3>2
      <4> QED
        BY <4>1, <4>3, <4>4
    <3> QED
      BY <2>2, <3>1, <3>3, <3>4, <1>4, <1>7 DEF e, b, p, q, n
  <2> QED
    BY <2>1, <2>2
<1>10. Over'
  BY <1>4 DEF Over, AllRead
<1>11. Registered' /\ NothingMissed'
  BY WaitKept
<1>12. Turns' /\ Fed' /\ CountersExact'
  BY TurnsKept, FedKept, CountsKept DEF Fed
<1> QED
  BY <1>5, <1>8, <1>9, <1>10, <1>11, <1>12 DEF Asked, ScalarsWhole

LEMMA ChildClosesStep ==
    ASSUME EventsInv, NEW s \in Streams, ChildCloses(s)
    PROVE  EventsInv'
<1> USE DEF EventsInv, ChildCloses, ghosts
<1>1. Shape'
  BY DEF Shape
<1>2. Over'
  BY DEF Over, AllRead, Shape
<1>3. Registered' /\ NothingMissed'
  BY WaitKept
<1>4. Turns' /\ Fed' /\ CountersExact'
  BY TurnsKept, FedKept, CountsKept DEF Fed
<1> QED
  BY <1>1, <1>2, <1>3, <1>4, OutputKept DEF Asked

LEMMA ChildReadsStep ==
    ASSUME EventsInv, ChildReads
    PROVE  EventsInv'
<1> USE DEF EventsInv, ChildReads, ghosts
<1>1. /\ input'.sent = input.sent
      /\ input' \in [held : 0 .. PipeCapacity, sent : Nat]
  <2>1. input \in [held : 0 .. PipeCapacity, sent : Nat] /\ input.held - 1 \in 0 .. PipeCapacity
    BY PipeCapacityAssumption DEF Shape
  <2> QED
    BY <2>1
<1>2. Shape'
  BY <1>1 DEF Shape
<1>3. Registered' /\ NothingMissed'
  BY WaitKept
<1>4. Turns' /\ Fed' /\ CountersExact'
  BY <1>1, TurnsKept, FedKept, CountsKept DEF Fed
<1>5. Over' /\ Asked'
  BY DEF Over, AllRead, Asked
<1> QED
  BY <1>2, <1>3, <1>4, <1>5, OutputKept

LEMMA ChildEndsStep ==
    ASSUME EventsInv, ChildEnds
    PROVE  EventsInv'
<1> USE DEF EventsInv, ChildEnds, ghosts
<1>1. Shape'
  BY DEF Shape
<1>2. ~state.exited
  BY DEF Over
<1>3. Over'
  BY <1>2 DEF Over, AllRead
<1>4. HasResult(state)' <=> HasResult(state)
  BY DEF HasResult, AllRead, Chosen, FirstOf, Emits
<1>5. NothingMissed'
  <2>1. op.at = "wait" => state.source = "worker" \/ "exit" \in reg.io
    BY <1>2 DEF Registered, Wanted, Shape, Handles
  <2> QED
    BY <1>4, <2>1 DEF NothingMissed
<1>6. Registered'
  BY <1>4 DEF Registered, Wanted
<1>7. Turns' /\ Fed' /\ CountersExact'
  BY TurnsKept, FedKept, CountsKept DEF Fed
<1> QED
  BY <1>1, <1>3, <1>5, <1>6, <1>7, OutputKept DEF Asked

LEMMA TickStep ==
    ASSUME EventsInv, Tick
    PROVE  EventsInv'
<1> USE DEF EventsInv, Tick, kernel, ghosts
<1>1. reg' \in Registrations
  <2>1. reg \in Registrations /\ reg.left - 1 \in Nat
    BY DEF Shape, Registrations
  <2> QED
    BY <2>1 DEF Registrations
<1>2. /\ reg'.io = reg.io /\ reg'.probe = reg.probe
      /\ reg'.active = reg.active /\ reg'.max = reg.max
  BY DEF Shape, Registrations
<1>3. Shape'
  BY <1>1 DEF Shape
<1>4. Registered' /\ NothingMissed'
  BY <1>2, WaitKept
<1>5. Turns' /\ Fed' /\ CountersExact'
  BY <1>2, TurnsKept, FedKept, CountsKept DEF Fed
<1>6. Over' /\ Asked'
  BY <1>2 DEF Over, AllRead, Asked
<1> QED
  BY <1>3, <1>4, <1>5, <1>6, OutputKept

-----------------------------------------------------------------------------
(* The operations that do not suspend.                                     *)

\* A child is waited for when its exit is seen, and not before.
LEMMA ReapFacts ==
    ASSUME Shape, Over, Reap
    PROVE  /\ child' \in {"running", "zombie", "reaped"}
           /\ Probed(state).exited => child' = "reaped"
           /\ child' = "zombie" => child = "zombie"
           /\ Probed(state).exited \/ child' = child
BY ProbedFacts DEF Shape, Over, Reap, SeesExit

\* Nothing waits while no event is under way.
LEMMA IdleWaits ==
    ASSUME op'.at \notin {"arm", "settle", "wait"}
    PROVE  Registered' /\ NothingMissed'
BY DEF Registered, NothingMissed

\* Learning of the exit leaves the rest of what is known of the output.
LEMMA OverKept ==
    ASSUME Over, UNCHANGED <<holds, pipes>>, state'.open = state.open,
           state'.fds = state.fds, state'.buf = state.buf, state'.told = state.told,
           state.exited => state'.exited, state'.exited => child' = "reaped"
    PROVE  Over'
BY DEF Over, AllRead

LEMMA WriteStdinStep ==
    ASSUME EventsInv, WriteStdin
    PROVE  EventsInv'
<1> USE DEF EventsInv
<1> DEFINE s == Probed(state)
           taken == s.stdin /\ ~s.exited /\ s.pending = 0
<1>1. s \in Handles /\ Alike(state, s) /\ (s.exited <=> state.exited \/ SeesExit(state))
  BY ProbedFacts DEF Shape
<1>2. /\ op.at = "idle" /\ state.open /\ payloads < MaxPayloads
      /\ state' = IF taken THEN [s EXCEPT !.pending = PayloadSize, !.flushed = FALSE] ELSE s
      /\ payloads' = IF taken THEN payloads + 1 ELSE payloads
      /\ retained' = IF taken THEN retained + PayloadSize ELSE retained
      /\ UNCHANGED <<script, reg, op, pipes, holds, input, reads, sure, emitted, flushes,
                     passed, live>>
  BY DEF WriteStdin, ghosts
<1>3. /\ child' \in {"running", "zombie", "reaped"} /\ (s.exited => child' = "reaped")
  BY ReapFacts DEF WriteStdin
<1> HIDE DEF s
<1>4. Registered' /\ NothingMissed'
  BY <1>2, IdleWaits
<1>5. CASE ~taken
  <2>1. state' = s /\ payloads' = payloads /\ retained' = retained
    BY <1>2, <1>5
  <2>2. Shape' /\ Asked'
    BY <1>1, <1>2, <1>3, <2>1 DEF Shape, Asked, Alike
  <2>3. Over'
    BY <1>1, <1>2, <1>3, <2>1, OverKept DEF Alike
  <2>4. Turns' /\ Fed' /\ CountersExact'
    BY <1>1, <1>2, <2>1, TurnsKept, FedKept, CountsKept DEF Fed, Alike
  <2> QED
    BY <1>1, <1>2, <1>4, <2>1, <2>2, <2>3, <2>4, OutputKept DEF Alike
<1>6. CASE taken
  <2> DEFINE t == [s EXCEPT !.pending = PayloadSize, !.flushed = FALSE]
  <2>1. t \in Handles
    <3>1. PayloadSize \in 0 .. PayloadSize
      BY PayloadAssumption
    <3> QED
      BY <1>1, <3>1 DEF Handles
  <2>2. /\ t.pending = PayloadSize /\ ~t.flushed
        /\ t.open = s.open /\ t.stdin = s.stdin /\ t.fds = s.fds /\ t.buf = s.buf
    BY <1>1 DEF Handles
  <2>3. /\ t.told = s.told /\ t.exited = s.exited /\ t.prefer = s.prefer
        /\ t.busy = s.busy /\ t.source = s.source
    BY <1>1 DEF Handles
  <2>4. state' = t /\ payloads' = payloads + 1 /\ retained' = retained + PayloadSize
    BY <1>2, <1>6
  <2> HIDE DEF t
  <2>5. Shape' /\ Asked'
    <3>1. payloads + 1 \in 0 .. MaxPayloads /\ retained + PayloadSize \in Nat
      BY <1>2, PayloadAssumption DEF Shape
    <3>2. Shape'
      BY <1>2, <1>3, <2>1, <2>4, <3>1 DEF Shape
    <3> QED
      BY <1>1, <1>2, <2>2, <2>3, <2>4, <3>2 DEF Asked, Alike
  <2>6. state.pending = 0 /\ ~state.flushed /\ state.stdin
    BY <1>1, <1>2, <1>6 DEF Alike, Fed
  <2>7. Fed'
    <3>1. PayloadSize * (payloads + 1) = PayloadSize * payloads + PayloadSize
      BY PayloadAssumption DEF Shape
    <3> QED
      BY <1>2, <2>2, <2>4, <2>6, <3>1, PayloadAssumption DEF Fed, StdinKept, Shape
  <2>8. CountersExact'
    <3>1. Len(state.buf["out"]) \in Nat /\ Len(state.buf["err"]) \in Nat
      BY SequencesTyped DEF Streams
    <3> DEFINE o == Len(state.buf["out"])
               e == Len(state.buf["err"])
    <3>2. retained = state.pending + o + e
      BY <1>2 DEF CountersExact, Held
    <3>3. Held(state)' = t.pending + o + e
      BY <1>1, <2>2, <2>4 DEF Held, Alike
    <3> HIDE DEF o, e
    <3>4. o \in Nat /\ e \in Nat
      BY <3>1 DEF o, e
    <3>5. retained' = Held(state)'
      BY <2>2, <2>4, <2>6, <3>2, <3>3, <3>4, PayloadAssumption
    <3> QED
      BY <1>1, <1>2, <2>2, <2>4, <3>5 DEF CountersExact, Alike
  <2>9. Over'
    BY <1>1, <1>2, <1>3, <2>2, <2>3, <2>4, OverKept DEF Alike
  <2>10. Turns'
    BY <1>1, <1>2, <2>3, <2>4, TurnsKept DEF Alike
  <2> QED
    BY <1>1, <1>2, <1>4, <2>2, <2>4, <2>5, <2>7, <2>8, <2>9, <2>10, OutputKept DEF Alike
<1> QED
  BY <1>5, <1>6

LEMMA CloseStdinStep ==
    ASSUME EventsInv, CloseStdin
    PROVE  EventsInv'
<1> USE DEF EventsInv, CloseStdin, kernel, ghosts
<1> DEFINE t == [state EXCEPT !.stdin = FALSE]
<1>1. t \in Handles /\ ~t.stdin
  BY DEF Shape, Handles
<1>2. /\ t.open = state.open /\ t.pending = state.pending /\ t.flushed = state.flushed
      /\ t.fds = state.fds /\ t.buf = state.buf /\ t.exited = state.exited
  BY DEF Shape, Handles
<1>3. /\ t.told = state.told /\ t.prefer = state.prefer /\ t.busy = state.busy
      /\ t.source = state.source
  BY DEF Shape, Handles
<1>4. state' = t
  OBVIOUS
<1> HIDE DEF t
<1>5. Shape' /\ Asked'
  BY <1>1, <1>2, <1>3, <1>4 DEF Shape, Asked
<1>6. Over'
  BY <1>2, <1>3, <1>4, OverKept DEF Over
<1>7. Turns' /\ Fed' /\ CountersExact'
  BY <1>1, <1>2, <1>3, <1>4, TurnsKept, FedKept, CountsKept DEF Fed
<1> QED
  BY <1>2, <1>4, <1>5, <1>6, <1>7, IdleWaits, OutputKept

LEMMA TryWaitStep ==
    ASSUME EventsInv, TryWait
    PROVE  EventsInv'
<1> USE DEF EventsInv, TryWait, ghosts
<1> DEFINE s == Probed(state)
<1>1. s \in Handles /\ Alike(state, s) /\ (s.exited <=> state.exited \/ SeesExit(state))
  BY ProbedFacts DEF Shape
<1>2. /\ child' \in {"running", "zombie", "reaped"} /\ (s.exited => child' = "reaped")
  BY ReapFacts
<1>3. state' = s
  OBVIOUS
<1> HIDE DEF s
<1>4. Shape' /\ Asked'
  BY <1>1, <1>2, <1>3 DEF Shape, Asked, Alike
<1>5. Over'
  BY <1>1, <1>2, <1>3, OverKept DEF Alike
<1>6. Turns' /\ Fed' /\ CountersExact'
  BY <1>1, <1>3, TurnsKept, FedKept, CountsKept DEF Fed, Alike
<1> QED
  BY <1>1, <1>3, <1>4, <1>5, <1>6, IdleWaits, OutputKept DEF Alike

-----------------------------------------------------------------------------
(* next_event from its start to its end.                                   *)

LEMMA NoRegTyped == NoReg \in Registrations /\ ~NoReg.active
BY DEF NoReg, Registrations, Interests

LEMMA NextEventStep ==
    ASSUME EventsInv, NEW max \in Chunks, NEW timeout \in Timeouts, NextEvent(max, timeout)
    PROVE  EventsInv'
<1> USE DEF EventsInv, NextEvent, kernel, ghosts
<1> DEFINE t == [state EXCEPT !.busy = TRUE]
           r == [NoReg EXCEPT !.max = max, !.left = timeout]
<1>1. t \in Handles /\ t.busy
  BY DEF Shape, Handles
<1>2. /\ t.open = state.open /\ t.pending = state.pending /\ t.flushed = state.flushed
      /\ t.fds = state.fds /\ t.buf = state.buf /\ t.exited = state.exited
  BY DEF Shape, Handles
<1>3. t.told = state.told /\ t.prefer = state.prefer /\ t.stdin = state.stdin
  BY DEF Shape, Handles
<1>4. max \in Nat /\ timeout \in Nat
  BY ChunksAssumption, TimeoutsAssumption
<1>5. r \in Registrations /\ r.max = max /\ ~r.active
  BY <1>4 DEF NoReg, Registrations, Interests
<1>6. state' = t /\ reg' = r /\ op' = [at |-> "probe", part |-> "start"]
  OBVIOUS
<1> HIDE DEF t, r
<1>7. Shape' /\ Asked'
  <2>1. /\ op' \in [at : Places, part : {"start", "resume", "last", "again"}]
        /\ op'.at = "probe"
    BY <1>6 DEF Places
  <2>2. Shape'
    BY <1>1, <1>5, <1>6, <2>1 DEF Shape
  <2>3. state.open /\ ~state.told
    OBVIOUS
  <2> QED
    BY <1>1, <1>2, <1>3, <1>5, <1>6, <2>1, <2>2, <2>3 DEF Asked
<1>8. Over'
  BY <1>2, <1>3, <1>6, OverKept DEF Over
<1>9. Turns' /\ Fed'
  BY <1>2, <1>3, <1>6, TurnsKept, FedKept DEF Fed
<1>10. ~reg.active
  BY DEF Asked
<1>11. CountersExact'
  BY <1>2, <1>5, <1>6, <1>10, CountsKept DEF CountersExact, Held
<1> QED
  BY <1>2, <1>6, <1>7, <1>8, <1>9, <1>11, IdleWaits, OutputKept

\* What the end of next_event leaves.
LEMMA EndsFacts ==
    ASSUME NEW s \in Handles, Ends(s)
    PROVE  /\ state' \in Handles /\ reg' \in Registrations
           /\ op' \in [at : Places, part : {"start", "resume", "last", "again"}]
           /\ op'.at = "idle" /\ ~reg'.active /\ ~state'.busy
           /\ state'.open = s.open /\ state'.stdin = s.stdin /\ state'.pending = s.pending
           /\ state'.flushed = s.flushed /\ state'.fds = s.fds /\ state'.buf = s.buf
           /\ state'.told = s.told /\ state'.exited = s.exited /\ state'.prefer = s.prefer
<1>1. state' = [s EXCEPT !.busy = FALSE]
  BY DEF Ends, Release
<1>2. state' \in Handles /\ ~state'.busy
  BY <1>1 DEF Handles
<1>3. /\ state'.open = s.open /\ state'.stdin = s.stdin /\ state'.pending = s.pending
      /\ state'.flushed = s.flushed /\ state'.fds = s.fds /\ state'.buf = s.buf
  BY <1>1 DEF Handles
<1>4. state'.told = s.told /\ state'.exited = s.exited /\ state'.prefer = s.prefer
  BY <1>1 DEF Handles
<1>5. reg' \in Registrations /\ ~reg'.active
  BY NoRegTyped DEF Ends
<1> QED
  BY <1>2, <1>3, <1>4, <1>5 DEF Ends, Places

\* A registration that is finished waits for nothing.
LEMMA FinishedFacts ==
    ASSUME NEW r \in Registrations
    PROVE  /\ Finished(r) \in Registrations /\ ~Finished(r).active
           /\ Finished(r).max = r.max /\ Finished(r).left = r.left
           /\ Finished(r).probe = r.probe
BY DEF Finished, Registrations

\* The event of a handle that stays as it is gives its count back.
LEMMA CountBack ==
    ASSUME Shape, CountersExact, UNCHANGED retained, state'.pending = state.pending,
           state'.buf = state.buf, state'.open = state.open, ~reg'.active,
           live' = IF reg.active THEN Down(live) ELSE live
    PROVE  CountersExact'
BY DEF CountersExact, Held, Down, Shape

LEMMA EventWakeStep ==
    ASSUME EventsInv, EventWake
    PROVE  EventsInv'
<1> USE DEF EventsInv, EventWake, kernel, ghosts, Then
<1>1. reg' \in Registrations /\ ~reg'.active /\ reg'.max = reg.max /\ reg.active
  BY FinishedFacts DEF Shape, Asked
<1>2. /\ op' \in [at : Places, part : {"start", "resume", "last", "again"}]
      /\ op'.at = "ready"
  BY DEF Shape, Places
<1>3. live' \in Nat
  BY DEF Shape, Down
<1>4. Shape' /\ Asked'
  BY <1>1, <1>2, <1>3 DEF Shape, Asked
<1>5. Turns' /\ Fed' /\ CountersExact'
  BY <1>1, <1>2, TurnsKept, FedKept, CountBack DEF Fed
<1>6. Over'
  BY DEF Over, AllRead
<1> QED
  BY <1>2, <1>4, <1>5, <1>6, IdleWaits, OutputKept

LEMMA WatchReportsStep ==
    ASSUME EventsInv, WatchReports
    PROVE  EventsInv'
<1> USE DEF EventsInv, WatchReports, ghosts, Then
<1> DEFINE t == [state EXCEPT !.exited = TRUE]
<1>1. t \in Handles /\ t.exited
  BY DEF Shape, Handles
<1>2. /\ t.open = state.open /\ t.pending = state.pending /\ t.flushed = state.flushed
      /\ t.fds = state.fds /\ t.buf = state.buf /\ t.busy = state.busy
  BY DEF Shape, Handles
<1>3. t.told = state.told /\ t.prefer = state.prefer /\ t.stdin = state.stdin
  BY DEF Shape, Handles
<1>4. state' = t
  OBVIOUS
<1> HIDE DEF t
<1>5. Over'
  BY <1>1, <1>2, <1>3, <1>4, OverKept
<1>6. CASE reg.active
  <2>1. reg' = Finished(reg) /\ live' = Down(live) /\ op' = [op EXCEPT !.at = "ready"]
    BY <1>6
  <2>2. reg' \in Registrations /\ ~reg'.active /\ reg'.max = reg.max
    BY <2>1, FinishedFacts DEF Shape
  <2>3. /\ op' \in [at : Places, part : {"start", "resume", "last", "again"}]
        /\ op'.at = "ready" /\ op.at # "idle"
    BY <2>1, <1>6 DEF Shape, Places, Asked
  <2>4. live' \in Nat
    BY <2>1 DEF Shape, Down
  <2>5. Shape' /\ Asked'
    BY <1>1, <1>2, <1>3, <1>4, <2>2, <2>3, <2>4 DEF Shape, Asked
  <2>6. Turns' /\ Fed' /\ CountersExact'
    BY <1>2, <1>3, <1>4, <1>6, <2>1, <2>2, <2>3, TurnsKept, FedKept, CountBack DEF Fed
  <2> QED
    BY <1>2, <1>4, <1>5, <2>3, <2>5, <2>6, IdleWaits, OutputKept
<1>7. CASE ~reg.active
  <2>1. UNCHANGED <<reg, live, op>> /\ op.at \notin {"arm", "settle", "wait"}
    BY <1>7 DEF Asked
  <2>2. Shape' /\ Asked'
    BY <1>1, <1>2, <1>3, <1>4, <2>1 DEF Shape, Asked
  <2>3. Turns' /\ Fed' /\ CountersExact'
    BY <1>2, <1>3, <1>4, <1>7, <2>1, TurnsKept, FedKept, CountsKept DEF Fed
  <2> QED
    BY <1>2, <1>4, <1>5, <2>1, <2>2, <2>3, IdleWaits, OutputKept
<1> QED
  BY <1>6, <1>7

LEMMA TimerExpiresStep ==
    ASSUME EventsInv, TimerExpires
    PROVE  EventsInv'
<1> USE DEF EventsInv, TimerExpires, kernel, ghosts, Then
<1>1. reg' \in Registrations /\ reg'.active = reg.active /\ reg'.max = reg.max /\ reg.active
  BY DEF Shape, Asked, Registrations
<1>2. /\ op' \in [at : Places, part : {"start", "resume", "last", "again"}]
      /\ op'.at = "expired"
  BY DEF Shape, Places
<1>3. Shape' /\ Asked'
  BY <1>1, <1>2 DEF Shape, Asked
<1>4. Turns' /\ Fed' /\ CountersExact'
  BY <1>1, <1>2, TurnsKept, FedKept, CountsKept DEF Fed
<1>5. Over'
  BY DEF Over, AllRead
<1> QED
  BY <1>2, <1>3, <1>4, <1>5, IdleWaits, OutputKept

LEMMA EventResumeStep ==
    ASSUME EventsInv, EventResume
    PROVE  EventsInv'
<1> USE DEF EventsInv, EventResume, kernel, ghosts, Part
<1>1. reg' \in Registrations /\ ~reg'.active /\ reg'.max = reg.max
  BY FinishedFacts DEF Shape
<1>2. /\ op' \in [at : Places, part : {"start", "resume", "last", "again"}]
      /\ op'.at = "probe"
  BY DEF Shape, Places
<1>3. live' \in Nat
  BY DEF Shape, Down
<1>4. Shape' /\ Asked'
  BY <1>1, <1>2, <1>3 DEF Shape, Asked
<1>5. Turns' /\ Fed' /\ CountersExact'
  BY <1>1, <1>2, TurnsKept, FedKept, CountBack DEF Fed
<1>6. Over'
  BY DEF Over, AllRead
<1> QED
  BY <1>2, <1>4, <1>5, <1>6, IdleWaits, OutputKept

LEMMA CancelStep ==
    ASSUME EventsInv, Cancel
    PROVE  EventsInv'
<1> USE DEF EventsInv, Cancel, kernel, ghosts
<1>1. state \in Handles /\ state.open /\ ~state.told /\ ~state.flushed
  BY DEF Shape, Asked, Fed
<1>2. live' \in Nat
  BY DEF Shape, Down
<1>3. Shape' /\ Asked'
  BY <1>1, <1>2, EndsFacts DEF Shape, Asked
<1>4. Turns' /\ Fed' /\ CountersExact'
  BY <1>1, EndsFacts, TurnsKept, FedKept, CountBack
<1>5. Over'
  BY <1>1, EndsFacts, OverKept DEF Over
<1> QED
  BY <1>1, <1>3, <1>4, <1>5, EndsFacts, IdleWaits, OutputKept

-----------------------------------------------------------------------------
(* The poll of an event.                                                   *)

\* What a handle retains.
LEMMA HeldFacts ==
    ASSUME NEW s \in Handles
    PROVE  /\ Len(s.buf["out"]) \in Nat /\ Len(s.buf["err"]) \in Nat
           /\ s.pending \in Nat /\ Held(s) \in Nat /\ s.pending <= Held(s)
<1>1. s.buf["out"] \in Seq(Bytes) /\ s.buf["err"] \in Seq(Bytes) /\ s.pending \in Nat
  BY PayloadAssumption DEF Handles, Streams
<1> DEFINE o == Len(s.buf["out"])
           e == Len(s.buf["err"])
<1>2. o \in Nat /\ e \in Nat
  BY <1>1, LenProperties
<1>3. Held(s) = s.pending + o + e
  BY DEF Held
<1> HIDE DEF o, e
<1>4. Held(s) \in Nat /\ s.pending <= Held(s)
  BY <1>1, <1>2, <1>3
<1> QED
  BY <1>1, <1>2, <1>4 DEF o, e

\* A step that accounts for the bytes of an open handle, with no event waiting.
LEMMA Accounted ==
    ASSUME CountersExact, ~reg.active, ~reg'.active, UNCHANGED live, state'.open,
           retained' = Held(state)'
    PROVE  CountersExact'
BY DEF CountersExact

LEMMA ProbeAndFlushStep ==
    ASSUME EventsInv, ProbeAndFlush
    PROVE  EventsInv'
<1> USE DEF EventsInv, ghosts
<1> DEFINE s == Probed(state)
           writes == s.stdin /\ s.pending > 0
           room == PipeCapacity - input.held
<1>1. s \in Handles /\ Alike(state, s) /\ (s.exited <=> state.exited \/ SeesExit(state))
  BY ProbedFacts DEF Shape
<1>2. /\ child' \in {"running", "zombie", "reaped"} /\ (s.exited => child' = "reaped")
  BY ReapFacts DEF ProbeAndFlush
<1>3. /\ op.at = "probe" /\ state.open /\ ~state.told /\ state.busy /\ reg.max \in Chunks
      /\ ~reg.active /\ ~state.flushed
      /\ UNCHANGED <<script, pipes, holds, reads, sure, emitted, flushes, passed, payloads, live>>
  BY DEF ProbeAndFlush, At, Asked, Fed
<1>4. Then("out") => /\ op' \in [at : Places, part : {"start", "resume", "last", "again"}]
                     /\ op'.at = "out"
  BY DEF Then, Shape, Places
<1>5. retained = Held(state) /\ Held(s) = Held(state) /\ s.pending \in 0 .. PayloadSize
  BY <1>1, <1>3 DEF CountersExact, Held, Alike, Handles
<1>6. ASSUME writes, room > 0, Then("out"), UNCHANGED reg,
             NEW n \in 1 .. Least(room, s.pending), state' = FlushedBy(s, n),
             input' = [held |-> input.held + n, sent |-> input.sent + n],
             retained' = retained - n
      PROVE  EventsInv'
  <2> DEFINE t == [s EXCEPT !.pending = @ - n, !.flushed = (s.pending = n) \/ @]
  <2>1. n \in Nat /\ n <= s.pending /\ input.held + n \in 0 .. PipeCapacity
    <3>1. s.pending \in Nat /\ input.held \in Nat /\ PipeCapacity \in Nat
      BY <1>5, PipeCapacityAssumption, PayloadAssumption DEF Shape
    <3> HIDE DEF s
    <3> QED
      BY <1>6, <3>1 DEF Least
  <2> HIDE DEF s
  <2>2. s.pending - n \in 0 .. PayloadSize
    BY <1>5, <2>1, PayloadAssumption
  <2>3. t \in Handles
    BY <1>1, <2>2 DEF Handles
  <2>4. /\ t.pending = s.pending - n /\ (t.flushed <=> s.pending = n \/ s.flushed)
        /\ t.open = s.open /\ t.stdin = s.stdin /\ t.fds = s.fds /\ t.buf = s.buf
    BY <1>1 DEF Handles
  <2>5. /\ t.told = s.told /\ t.exited = s.exited /\ t.prefer = s.prefer /\ t.busy = s.busy
    BY <1>1 DEF Handles
  <2>6. state' = t
    BY <1>6 DEF FlushedBy
  <2> HIDE DEF t
  <2>7. retained' \in Nat /\ retained' = Held(state)'
    <3> DEFINE o == Len(state.buf["out"])
               e == Len(state.buf["err"])
    <3>1. state.pending = s.pending /\ Held(state) = s.pending + o + e
      BY <1>1 DEF Held, Alike
    <3>2. Held(state)' = s.pending - n + o + e
      BY <1>1, <2>4, <2>6 DEF Held, Alike
    <3>3. o \in Nat /\ e \in Nat
      BY HeldFacts DEF Shape
    <3> HIDE DEF o, e
    <3> QED
      BY <1>5, <1>6, <2>1, <3>1, <3>2, <3>3
  <2>8. input' \in [held : 0 .. PipeCapacity, sent : Nat] /\ input'.sent = input.sent + n
    BY <1>6, <2>1 DEF Shape
  <2>9. Shape'
    BY <1>2, <1>3, <1>4, <1>6, <2>3, <2>6, <2>7, <2>8 DEF Shape
  <2>10. Asked'
    BY <1>1, <1>3, <1>4, <1>6, <2>4, <2>5, <2>6 DEF Asked, Alike
  <2>11. Over'
    BY <1>1, <1>2, <1>3, <2>4, <2>5, <2>6, OverKept DEF Alike
  <2>12. Turns'
    BY <1>1, <1>3, <2>5, <2>6, TurnsKept DEF Alike
  <2>13. Fed'
    <3>1. state.pending = s.pending /\ state.stdin = s.stdin /\ s.flushed = state.flushed
      BY <1>1 DEF Alike
    <3>2. input.sent \in Nat /\ PayloadSize * payloads \in Nat /\ s.pending \in Nat
      BY <1>5, PayloadAssumption DEF Shape
    <3>3. state'.pending + input'.sent = state.pending + input.sent
      BY <2>1, <2>4, <2>6, <2>8, <3>1, <3>2
    <3>4. state'.flushed <=> state'.pending = 0
      BY <1>3, <1>5, <2>1, <2>4, <2>6, <3>1
    <3>5. state'.pending \in Nat /\ state.pending > 0
      BY <1>6, <2>2, <2>4, <2>6, <3>1
    <3>6. state'.stdin /\ state'.open =>
             /\ PayloadSize * payloads = input'.sent + state'.pending
             /\ payloads = flushes + 1
      <4>1. state.open /\ state.stdin => /\ PayloadSize * payloads = input.sent + state.pending
                                       /\ payloads = flushes + 1 + 0
        BY <1>3, <3>5 DEF Fed, StdinKept
      <4>2. state'.stdin = state.stdin /\ flushes \in Nat
        BY <2>4, <2>6, <3>1 DEF Shape
      <4>3. input'.sent \in Nat /\ state.pending \in Nat
        BY <2>1, <2>8, <3>1, <3>2
      <4> QED
        BY <1>3, <3>2, <3>3, <3>5, <4>1, <4>2, <4>3
    <3>7. StdinKept'
      <4>1. flushes \in Nat
        BY DEF Shape
      <4> QED
        BY <1>3, <3>4, <3>5, <3>6, <4>1 DEF StdinKept
    <3>8. input'.sent + state'.pending <= PayloadSize * payloads
      <4>1. input.sent + state.pending <= PayloadSize * payloads
        BY DEF Fed
      <4>2. input'.sent \in Nat /\ state.pending \in Nat
        BY <2>1, <2>8, <3>1, <3>2
      <4> QED
        BY <3>2, <3>3, <3>5, <4>1, <4>2
    <3>9. state'.flushed => op'.at \in {"out", "err", "decide"} /\ state'.pending = 0
      BY <1>4, <1>6, <3>4
    <3> QED
      BY <1>3, <3>7, <3>8, <3>9 DEF Fed
  <2>14. CountersExact'
    BY <1>1, <1>3, <1>6, <2>4, <2>6, <2>7, Accounted DEF Alike
  <2>15. Registered' /\ NothingMissed'
    BY <1>4, <1>6, IdleWaits
  <2>16. Buffered' /\ BytesInOrder' /\ ScalarsWhole'
    BY <1>1, <1>3, <2>4, <2>6, OutputKept DEF Alike
  <2> QED
    BY <2>9, <2>10, <2>11, <2>12, <2>13, <2>14, <2>15, <2>16
<1>7. ASSUME Ends([s EXCEPT !.pending = 0, !.stdin = FALSE]), UNCHANGED input,
             retained' = retained - s.pending
      PROVE  EventsInv'
  <2> HIDE DEF s
  <2> DEFINE t == [s EXCEPT !.pending = 0, !.stdin = FALSE]
  <2>1. t \in Handles
    <3>1. 0 \in 0 .. PayloadSize
      BY PayloadAssumption
    <3> QED
      BY <1>1, <3>1 DEF Handles
  <2>2. /\ t.pending = 0 /\ ~t.stdin /\ t.open = s.open /\ t.flushed = s.flushed
        /\ t.fds = s.fds /\ t.buf = s.buf
    BY <1>1 DEF Handles
  <2>3. t.told = s.told /\ t.exited = s.exited /\ t.prefer = s.prefer
    BY <1>1 DEF Handles
  <2> HIDE DEF t
  <2>4. Ends(t)
    BY <1>7 DEF t
  <2>5. /\ state' \in Handles /\ reg' \in Registrations
        /\ op' \in [at : Places, part : {"start", "resume", "last", "again"}]
        /\ op'.at = "idle" /\ ~reg'.active /\ ~state'.busy
        /\ state'.pending = 0 /\ ~state'.stdin /\ state'.open = state.open
        /\ ~state'.flushed /\ state'.fds = state.fds /\ state'.buf = state.buf
        /\ state'.told = state.told /\ state'.exited = s.exited /\ state'.prefer = state.prefer
    BY <1>1, <1>3, <2>1, <2>2, <2>3, <2>4, EndsFacts DEF Alike
  <2>6. retained' \in Nat /\ retained' = Held(state)'
    <3> DEFINE o == Len(state.buf["out"])
               e == Len(state.buf["err"])
    <3>1. state.pending = s.pending /\ Held(state) = s.pending + o + e
      BY <1>1 DEF Held, Alike
    <3>2. Held(state)' = 0 + o + e
      BY <2>5 DEF Held
    <3>3. o \in Nat /\ e \in Nat /\ s.pending \in Nat
      BY <3>1, HeldFacts DEF Shape
    <3> HIDE DEF o, e
    <3> QED
      BY <1>5, <1>7, <3>1, <3>2, <3>3
  <2>7. Shape'
    BY <1>2, <1>3, <1>7, <2>5, <2>6 DEF Shape
  <2>8. Asked'
    BY <1>3, <2>5 DEF Asked
  <2>9. Over'
    BY <1>1, <1>2, <1>3, <2>5, OverKept
  <2>10. Fed'
    <3>1. input.sent \in Nat /\ PayloadSize * payloads \in Nat /\ state.pending \in Nat
      BY PayloadAssumption, HeldFacts DEF Shape
    <3> QED
      BY <1>3, <1>7, <2>5, <3>1 DEF Fed, StdinKept
  <2>11. CountersExact'
    BY <1>3, <2>5, <2>6, Accounted
  <2> QED
    BY <1>3, <2>5, <2>7, <2>8, <2>9, <2>10, <2>11, TurnsKept, IdleWaits, OutputKept
<1>8. ASSUME state' = s, Then("out"), UNCHANGED <<reg, input, retained>>
      PROVE  EventsInv'
  <2> HIDE DEF s
  <2>1. Shape'
    BY <1>1, <1>2, <1>3, <1>4, <1>8 DEF Shape
  <2>2. Asked'
    BY <1>1, <1>3, <1>4, <1>8 DEF Asked, Alike
  <2>3. Over'
    BY <1>1, <1>2, <1>3, <1>8, OverKept DEF Alike
  <2>4. Turns' /\ Fed' /\ CountersExact'
    BY <1>1, <1>3, <1>4, <1>8, TurnsKept, FedKept, CountsKept DEF Alike
  <2> QED
    BY <1>1, <1>3, <1>4, <1>8, <2>1, <2>2, <2>3, <2>4, IdleWaits, OutputKept DEF Alike
<1> QED
  BY <1>6, <1>7, <1>8 DEF ProbeAndFlush

\* The first n bytes of the pipe p are moved behind the buffer b.
Moved(e, b, p, n) ==
    /\ e \o (b \o SubSeq(p, 1, n)) \o SubSeq(p, n + 1, Len(p)) = e \o b \o p
    /\ b \o SubSeq(p, 1, n) \in Seq(Bytes)
    /\ Len(b \o SubSeq(p, 1, n)) = Len(b) + n

\* A read moves bytes and keeps their order.
LEMMA MovedBytes ==
    ASSUME NEW e \in Seq(Bytes), NEW b \in Seq(Bytes), NEW p \in Seq(Bytes),
           NEW n \in 0 .. Len(p)
    PROVE  Moved(e, b, p, n)
<1> DEFINE u == SubSeq(p, 1, n)
           v == SubSeq(p, n + 1, Len(p))
<1>1. u \in Seq(Bytes) /\ Len(u) = n /\ v \in Seq(Bytes) /\ u \o v = p
  BY Split
<1> HIDE DEF u, v
<1>2. b \o u \in Seq(Bytes) /\ Len(b \o u) = Len(b) + n
  BY <1>1, ConcatProperties
<1>3. (e \o b) \o u = e \o (b \o u)
  <2>1. e \in Seq(Bytes) /\ b \in Seq(Bytes) /\ u \in Seq(Bytes)
    BY <1>1
  <2>2. Associates(e, b, u)
    BY ONLY <2>1, ConcatFacts
  <2> QED
    BY <2>2 DEF Associates
<1>4. e \o b \in Seq(Bytes)
  BY ConcatProperties
<1> DEFINE w == e \o b
<1>5. (w \o u) \o v = w \o (u \o v)
  <2>1. w \in Seq(Bytes) /\ u \in Seq(Bytes) /\ v \in Seq(Bytes)
    BY <1>1, <1>4
  <2> HIDE DEF w
  <2>2. Associates(w, u, v)
    BY ONLY <2>1, ConcatFacts
  <2> QED
    BY <2>2 DEF Associates
<1> QED
  BY <1>1, <1>2, <1>3, <1>5 DEF Moved, u, v

LEMMA ReadStreamStep ==
    ASSUME EventsInv, NEW s \in Streams, NEW step \in {"err", "decide"},
           ReadStream(s, step)
    PROVE  EventsInv'
<1> USE DEF EventsInv, ghosts
<1> DEFINE have == Len(state.buf[s])
           room == Target - have
           n == Least(room, Len(pipes[s]))
<1>1. /\ op.at = s /\ UNCHANGED <<script, reg, holds, input, reads, child, sure, emitted,
                                  flushes, passed, payloads, live>>
      /\ op' = [op EXCEPT !.at = step]
  BY DEF ReadStream, At, Then
<1>2. /\ op' \in [at : Places, part : {"start", "resume", "last", "again"}]
      /\ op'.at = step /\ op'.at \in {"err", "decide"}
  BY <1>1 DEF Shape, Places
<1>3. /\ op.at # "idle" /\ op.at \notin {"arm", "settle", "wait", "expired"}
      /\ state.open /\ ~state.told /\ state.busy /\ reg.max \in Chunks
      /\ ~reg.active
  BY <1>1 DEF Streams, Asked
<1>4. state \in Handles /\ pipes \in [Streams -> Seq(Bytes)]
  BY DEF Shape
<1>5. /\ emitted[s] \in Seq(Bytes) /\ state.buf[s] \in Seq(Bytes) /\ pipes[s] \in Seq(Bytes)
      /\ Len(state.buf[s]) \in Nat /\ Len(pipes[s]) \in Nat /\ reg.max \in Nat
  BY <1>3, SequencesTyped, ChunksAssumption
<1>6. Registered' /\ NothingMissed'
  BY <1>2, IdleWaits
<1>7. ASSUME UNCHANGED <<state, pipes, retained>>
      PROVE  EventsInv'
  <2>1. Shape' /\ Asked'
    BY <1>1, <1>2, <1>3, <1>7 DEF Shape, Asked
  <2>2. Over'
    BY <1>1, <1>7 DEF Over, AllRead
  <2>3. Turns' /\ Fed' /\ CountersExact'
    BY <1>1, <1>2, <1>3, <1>7, TurnsKept, FedKept, CountsKept
  <2> QED
    BY <1>1, <1>6, <1>7, <2>1, <2>2, <2>3, OutputKept
<1>8. ASSUME room > 0, s \in state.fds,
             state' = [state EXCEPT !.buf[s] = @ \o SubSeq(pipes[s], 1, n)],
             pipes' = [pipes EXCEPT ![s] = SubSeq(@, n + 1, Len(@))],
             retained' = retained + n
      PROVE  EventsInv'
  <2> DEFINE b == state.buf[s] \o SubSeq(pipes[s], 1, n)
             p == SubSeq(pipes[s], n + 1, Len(pipes[s]))
             bs == [state.buf EXCEPT ![s] = b]
             t == [state EXCEPT !.buf = bs]
  <2>1. n \in 0 .. Len(pipes[s]) /\ n <= room /\ n \in Nat
    <3> DEFINE j == Len(pipes[s])
    <3>1. have \in Nat /\ j \in Nat /\ reg.max \in Nat
      BY <1>5
    <3>2. n = IF room < j THEN room ELSE j
      BY Zenon DEF Least
    <3> HIDE DEF have, j
    <3>3. room > 0 /\ room \in Int
      BY <1>8, <3>1 DEF Target, Slack
    <3> HIDE DEF room
    <3>4. n \in 0 .. j /\ n <= room /\ n \in Nat
      <4> DEFINE m == IF room < j THEN room ELSE j
      <4>1. m \in 0 .. j /\ m <= room /\ m \in Nat
        BY <3>1, <3>3
      <4>2. n = m
        BY <3>2
      <4> QED
        BY <4>1, <4>2
    <3> QED
      BY <3>4 DEF j
  <2> HIDE DEF n
  <2>2. /\ b \in Seq(Bytes) /\ Len(b) = Len(state.buf[s]) + n
        /\ emitted[s] \o b \o p = emitted[s] \o state.buf[s] \o pipes[s]
    <3> DEFINE e == emitted[s]
               c == state.buf[s]
               q == pipes[s]
    <3>1. e \in Seq(Bytes) /\ c \in Seq(Bytes) /\ q \in Seq(Bytes) /\ n \in 0 .. Len(q)
      BY <1>5, <2>1
    <3>2. b = c \o SubSeq(q, 1, n) /\ p = SubSeq(q, n + 1, Len(q))
      OBVIOUS
    <3> HIDE DEF e, c, q, b, p
    <3>3. Moved(e, c, q, n)
      BY ONLY <3>1, MovedBytes
    <3>4. b \in Seq(Bytes) /\ Len(b) = Len(c) + n /\ e \o b \o p = e \o c \o q
      BY <3>2, <3>3 DEF Moved
    <3> QED
      BY <3>4 DEF e, c, q
  <2>3. p \in Seq(Bytes) /\ Len(p) = Len(pipes[s]) - n
    BY <1>5, <2>1, Split
  <2> HIDE DEF b, p
  <2>4. /\ bs \in [Streams -> Seq(Bytes)] /\ bs[s] = b
        /\ \A x \in Streams \ {s} : bs[x] = state.buf[x]
    BY <1>4, <2>2 DEF Handles
  <2>5. /\ pipes' \in [Streams -> Seq(Bytes)] /\ pipes'[s] = p
        /\ \A x \in Streams \ {s} : pipes'[x] = pipes[x]
    BY <1>4, <1>8, <2>3 DEF p
  <2>6. state' = t
    BY <1>4, <1>8 DEF Handles, b
  <2> HIDE DEF bs
  <2>7. t \in Handles /\ t.buf = bs
    BY <1>4, <2>4 DEF Handles
  <2>8. /\ t.open = state.open /\ t.pending = state.pending /\ t.flushed = state.flushed
        /\ t.fds = state.fds /\ t.exited = state.exited
    BY <1>4 DEF Handles
  <2>9. /\ t.told = state.told /\ t.prefer = state.prefer /\ t.busy = state.busy
        /\ t.stdin = state.stdin
    BY <1>4 DEF Handles
  <2> HIDE DEF t
  <2>10. retained' \in Nat /\ retained' = Held(state)'
    <3> DEFINE o == Len(state.buf["out"])
               e == Len(state.buf["err"])
               o1 == Len(bs["out"])
               e1 == Len(bs["err"])
               h1 == Held(state)'
    <3>1. retained = state.pending + o + e
      BY <1>3 DEF CountersExact, Held
    <3>2. h1 = state.pending + o1 + e1
      BY <2>6, <2>7, <2>8 DEF Held
    <3>3. o \in Nat /\ e \in Nat /\ state.pending \in Nat
      BY <1>4, HeldFacts
    <3>4. (o1 = o + n /\ e1 = e) \/ (o1 = o /\ e1 = e + n)
      <4>1. CASE s = "out"
        BY <2>2, <2>4, <4>1 DEF Streams
      <4>2. CASE s = "err"
        BY <2>2, <2>4, <4>2 DEF Streams
      <4> QED
        BY <4>1, <4>2 DEF Streams
    <3>5. retained' = retained + n /\ n \in Nat
      BY <1>8, <2>1
    <3> HIDE DEF o, e, o1, e1, h1
    <3>6. retained' \in Nat /\ retained' = h1
      BY ONLY <3>1, <3>2, <3>3, <3>4, <3>5
    <3> QED
      BY <3>6 DEF h1
  <2>11. Shape'
    BY <1>1, <1>2, <2>5, <2>6, <2>7, <2>10 DEF Shape
  <2>12. Asked'
    BY <1>1, <1>2, <1>3, <2>6, <2>8, <2>9 DEF Asked
  <2>13. Read(s)' = Read(s) /\ \A x \in Streams \ {s} : Read(x)' = Read(x)
    <3>1. \A x \in Streams \ {s} : Read(x)' = Read(x)
      BY <1>1, <2>4, <2>5, <2>6, <2>7 DEF Read
    <3> DEFINE i == Len(emitted[s])
               j == Len(state.buf[s])
               k == Len(pipes[s])
    <3>2. Read(s) = i + j + k
      BY DEF Read
    <3>3. Read(s)' = i + (j + n) + (k - n)
      BY <1>1, <2>2, <2>3, <2>4, <2>5, <2>6, <2>7 DEF Read
    <3>4. i \in Nat /\ j \in Nat /\ k \in Nat
      BY SequencesTyped
    <3> HIDE DEF i, j, k
    <3>5. Read(s)' = Read(s)
      BY <2>1, <3>2, <3>3, <3>4
    <3> QED
      BY <3>1, <3>5
  <2>14. Buffered'
    <3>1. Len(b) <= reg.max + Slack
      <4>1. have \in Nat /\ reg.max \in Nat
        BY <1>5
      <4>2. n <= room /\ Len(b) = have + n /\ n \in Nat
        BY <2>1, <2>2
      <4> HIDE DEF have
      <4> QED
        BY <4>1, <4>2 DEF Slack, Target
    <3>2. \A x \in Streams : \E max \in Chunks : Len(bs[x]) <= max + Slack
      BY <1>3, <2>4, <3>1 DEF Buffered
    <3>3. \A x \in Streams : Read(x)' <= Len(script[x])
      BY <1>3, <2>13 DEF Buffered
    <3> QED
      BY <1>1, <2>6, <2>7, <3>2, <3>3 DEF Buffered
  <2>15. BytesInOrder'
    <3> SUFFICES ASSUME NEW x \in Streams
                 PROVE  emitted[x] \o bs[x] \o pipes'[x] = SubSeq(script[x], 1, Read(x)')
      BY <1>1, <2>6, <2>7 DEF BytesInOrder
    <3>1. emitted[x] \o state.buf[x] \o pipes[x] = SubSeq(script[x], 1, Read(x))
      BY <1>3 DEF BytesInOrder
    <3> QED
      BY <2>2, <2>4, <2>5, <2>13, <3>1
  <2>16. Over'
    BY <1>1, <1>3, <1>8, <2>5, <2>6, <2>8, <2>9 DEF Over
  <2>17. Turns' /\ Fed'
    BY <1>1, <1>2, <2>6, <2>8, <2>9, TurnsKept, FedKept
  <2>18. CountersExact'
    BY <1>1, <1>3, <2>6, <2>8, <2>10, Accounted
  <2> QED
    BY <1>1, <1>6, <2>11, <2>12, <2>14, <2>15, <2>16, <2>17, <2>18 DEF ScalarsWhole
<1>9. ASSUME s \in state.fds, pipes[s] = <<>>, UNCHANGED <<pipes, retained>>,
             state' = [state EXCEPT !.fds = IF holds[s] THEN @ ELSE @ \ {s}]
      PROVE  EventsInv'
  <2> DEFINE fds == IF holds[s] THEN state.fds ELSE state.fds \ {s}
             t == [state EXCEPT !.fds = fds]
  <2>1. fds \in SUBSET Streams
    BY <1>4 DEF Handles
  <2>2. \A x \in Streams \ fds : x \notin state.fds \/ (x = s /\ ~holds[s])
    OBVIOUS
  <2>3. state' = t
    BY <1>9
  <2> HIDE DEF fds
  <2>4. t \in Handles /\ t.fds = fds
    BY <1>4, <2>1 DEF Handles
  <2>5. /\ t.open = state.open /\ t.pending = state.pending /\ t.flushed = state.flushed
        /\ t.buf = state.buf /\ t.exited = state.exited
    BY <1>4 DEF Handles
  <2>6. /\ t.told = state.told /\ t.prefer = state.prefer /\ t.busy = state.busy
        /\ t.stdin = state.stdin
    BY <1>4 DEF Handles
  <2> HIDE DEF t
  <2>7. Shape' /\ Asked'
    BY <1>1, <1>2, <1>3, <1>9, <2>3, <2>4, <2>5, <2>6 DEF Shape, Asked
  <2>8. Over'
    BY <1>1, <1>3, <1>9, <2>2, <2>3, <2>4, <2>5, <2>6 DEF Over
  <2>9. Turns' /\ Fed' /\ CountersExact'
    BY <1>1, <1>2, <1>3, <1>9, <2>3, <2>5, <2>6, TurnsKept, FedKept, CountsKept
  <2> QED
    BY <1>1, <1>6, <1>9, <2>3, <2>5, <2>7, <2>8, <2>9, OutputKept
<1>10. \/ UNCHANGED <<state, pipes, retained>>
       \/ /\ room > 0 /\ s \in state.fds
          /\ state' = [state EXCEPT !.buf[s] = @ \o SubSeq(pipes[s], 1, n)]
          /\ pipes' = [pipes EXCEPT ![s] = SubSeq(@, n + 1, Len(@))]
          /\ retained' = retained + n
       \/ /\ s \in state.fds /\ pipes[s] = <<>> /\ UNCHANGED <<pipes, retained>>
          /\ state' = [state EXCEPT !.fds = IF holds[s] THEN @ ELSE @ \ {s}]
  <2>1. room > 0 \/ room <= 0
    <3>1. have \in Nat /\ reg.max \in Nat
      BY <1>5
    <3> HIDE DEF have
    <3>2. room \in Int
      BY <3>1 DEF Target, Slack
    <3> HIDE DEF room
    <3> QED
      BY <3>2
  <2> HIDE DEF room, n
  <2> QED
    BY <2>1 DEF ReadStream, room, n, have
<1> QED
  BY <1>7, <1>8, <1>9, <1>10

\* The result of an event that ends: a payload was flushed.
LEMMA DecideFlushed ==
    ASSUME EventsInv, At("decide"), Reap, Probed(state).flushed,
           Ends([Probed(state) EXCEPT !.flushed = FALSE]), flushes' = flushes + 1,
           UNCHANGED <<script, pipes, holds, input, reads, sure, payloads, live,
                       emitted, passed, retained>>
    PROVE  EventsInv'
<1> USE DEF EventsInv
<1> DEFINE st == Probed(state)
           t == [st EXCEPT !.flushed = FALSE]
<1>1. st \in Handles /\ Alike(state, st) /\ (st.exited <=> state.exited \/ SeesExit(state))
  BY ProbedFacts DEF Shape
<1>2. /\ child' \in {"running", "zombie", "reaped"} /\ (st.exited => child' = "reaped")
  BY ReapFacts
<1>3. state.open /\ ~state.told /\ ~reg.active
  BY DEF At, Asked
<1>4. Ends(t)
  OBVIOUS
<1>5. st.flushed
  OBVIOUS
<1> HIDE DEF st
<1>6. t \in Handles /\ ~t.flushed /\ t.open = st.open /\ t.pending = st.pending
      /\ t.stdin = st.stdin /\ t.fds = st.fds /\ t.buf = st.buf
  BY <1>1 DEF Handles
<1>7. t.told = st.told /\ t.exited = st.exited /\ t.prefer = st.prefer
  BY <1>1 DEF Handles
<1> HIDE DEF t
<1>8. /\ state' \in Handles /\ reg' \in Registrations
      /\ op' \in [at : Places, part : {"start", "resume", "last", "again"}]
      /\ op'.at = "idle" /\ ~reg'.active /\ ~state'.busy /\ ~state'.flushed
      /\ state'.pending = state.pending /\ state'.stdin = state.stdin
      /\ state'.open = state.open /\ state'.fds = state.fds /\ state'.buf = state.buf
      /\ state'.told = state.told /\ state'.exited = st.exited
      /\ state'.prefer = state.prefer
  BY <1>1, <1>4, <1>6, <1>7, EndsFacts DEF Alike
<1>9. Shape'
  BY <1>2, <1>8 DEF Shape
<1>10. Asked'
  BY <1>3, <1>8 DEF Asked
<1>11. Over'
  BY <1>1, <1>2, <1>8, OverKept
<1>12. Fed'
  <2>1. state.flushed /\ state.pending = 0
    BY <1>1, <1>5 DEF Alike, Fed
  <2> QED
    BY <1>3, <1>8, <2>1 DEF Fed, StdinKept, Shape
<1>13. Turns' /\ CountersExact'
  BY <1>3, <1>8, TurnsKept, CountsKept
<1> QED
  BY <1>8, <1>9, <1>10, <1>11, <1>12, <1>13, IdleWaits, OutputKept

\* The result is text: the prefix of the chosen buffer is emitted.
LEMMA DecideText ==
    ASSUME EventsInv, At("decide"), Reap, ~Probed(state).flushed,
           NEW s, s = Chosen(Probed(state)), Emits(Probed(state), s) = 1,
           NEW k, k = Prefix(Probed(state).buf[s], reg.max),
           NEW text, text = SubSeq(Probed(state).buf[s], 1, k),
           Ends(Consumed(Probed(state), s)),
           emitted' = [emitted EXCEPT ![s] = @ \o text],
           passed' = [passed EXCEPT ![s] = 0,
                         ![Other(s)] = IF Emits(Probed(state), Other(s)) = 1 THEN @ + 1 ELSE 0],
           retained' = retained - Len(text),
           UNCHANGED <<script, pipes, holds, input, reads, sure, payloads, live, flushes>>
    PROVE  EventsInv'
<1> USE DEF EventsInv
<1> DEFINE st == Probed(state)
<1>1. st \in Handles /\ Alike(state, st) /\ (st.exited <=> state.exited \/ SeesExit(state))
  BY ProbedFacts DEF Shape
<1>2. /\ child' \in {"running", "zombie", "reaped"} /\ (st.exited => child' = "reaped")
  BY ReapFacts
<1>3. state.open /\ ~state.told /\ ~reg.active /\ reg.max \in Nat /\ ~state.flushed
  BY <1>1, ChunksAssumption DEF At, Asked, Alike
<1>4. /\ s \in Streams /\ Other(s) \in Streams /\ Other(s) # s /\ Streams = {s, Other(s)}
      /\ st.prefer # s => Emits(st, Other(s)) = 0
  BY <1>1, ChosenFacts
<1> DEFINE b == state.buf[s]
           o == Other(s)
           p == SubSeq(b, k + 1, Len(b))
           bs == [state.buf EXCEPT ![s] = p]
           t == [st EXCEPT !.buf = bs, !.prefer = o]
<1>5. b \in Seq(Bytes) /\ Len(b) \in Nat /\ st.buf = state.buf
  BY <1>1, <1>4, SequencesTyped DEF Alike
<1>6. k \in 0 .. Len(b) /\ Whole(b, k)
  <2>1. k = Prefix(b, reg.max)
    BY <1>5
  <2> HIDE DEF b
  <2> QED
    BY <1>3, <1>5, <2>1, PrefixFacts
<1>7. /\ text \in Seq(Bytes) /\ Len(text) = k /\ p \in Seq(Bytes) /\ Len(p) = Len(b) - k
      /\ text \o p = b /\ text = SubSeq(b, 1, k)
  <2>1. text = SubSeq(b, 1, k)
    BY <1>5
  <2> HIDE DEF b
  <2> QED
    BY <1>5, <1>6, <2>1, Split
<1>8. Ends(t)
  <2>1. Consumed(st, s) = t
    BY <1>1, <1>5 DEF Consumed, Handles
  <2> QED
    BY <2>1
<1> HIDE DEF p
<1>9. /\ bs \in [Streams -> Seq(Bytes)] /\ bs[s] = p
      /\ \A x \in Streams \ {s} : bs[x] = state.buf[x]
  BY <1>1, <1>4, <1>5, <1>7 DEF Handles
<1> HIDE DEF bs
<1>10. /\ t \in Handles /\ t.buf = bs /\ t.prefer = o
       /\ t.open = st.open /\ t.pending = st.pending /\ t.flushed = st.flushed
       /\ t.stdin = st.stdin /\ t.fds = st.fds
  BY <1>1, <1>4, <1>9 DEF Handles
<1>11. t.told = st.told /\ t.exited = st.exited
  BY <1>1 DEF Handles
<1> HIDE DEF t, st
<1>12. /\ state' \in Handles /\ reg' \in Registrations
       /\ op' \in [at : Places, part : {"start", "resume", "last", "again"}]
       /\ op'.at = "idle" /\ ~reg'.active /\ ~state'.busy
       /\ state'.flushed = state.flushed
       /\ state'.pending = state.pending /\ state'.stdin = state.stdin
       /\ state'.open = state.open /\ state'.fds = state.fds /\ state'.buf = bs
       /\ state'.told = state.told /\ state'.exited = st.exited
       /\ state'.prefer = o
  BY <1>1, <1>8, <1>10, <1>11, EndsFacts DEF Alike
<1>13. /\ emitted \in [Streams -> Seq(Bytes)] /\ emitted[s] \in Seq(Bytes)
       /\ emitted[s] \o text \in Seq(Bytes) /\ Len(emitted[s] \o text) = Len(emitted[s]) + k
  <2>1. emitted \in [Streams -> Seq(Bytes)] /\ emitted[s] \in Seq(Bytes)
    BY <1>4 DEF Shape
  <2> QED
    BY <1>7, <2>1, ConcatProperties
<1>14. /\ emitted' \in [Streams -> Seq(Bytes)] /\ emitted'[s] = emitted[s] \o text
       /\ \A x \in Streams \ {s} : emitted'[x] = emitted[x]
  BY <1>4, <1>13
<1>15. /\ passed' \in [Streams -> Nat] /\ passed'[s] = 0
       /\ passed'[o] = IF Emits(st, o) = 1 THEN passed[o] + 1 ELSE 0
  <2> DEFINE v == IF Emits(st, o) = 1 THEN passed[o] + 1 ELSE 0
  <2>1. passed \in [Streams -> Nat] /\ v \in Nat
    BY <1>4 DEF Shape
  <2>2. passed' = [passed EXCEPT ![s] = 0, ![o] = v]
    BY <1>4, <2>1 DEF st
  <2> HIDE DEF v, o
  <2>3. passed' \in [Streams -> Nat] /\ passed'[s] = 0 /\ passed'[o] = v
    BY <1>4, <2>1, <2>2 DEF o
  <2> QED
    BY <2>3 DEF v
<1>16. retained' \in Nat /\ retained' = Held(state)'
  <2> DEFINE a == Len(state.buf["out"])
             c == Len(state.buf["err"])
             a1 == Len(bs["out"])
             c1 == Len(bs["err"])
             h1 == Held(state)'
  <2>1. retained = state.pending + a + c
    BY <1>3 DEF CountersExact, Held
  <2>2. h1 = state.pending + a1 + c1
    BY <1>12 DEF Held
  <2>3. a \in Nat /\ c \in Nat /\ state.pending \in Nat
    BY HeldFacts DEF Shape
  <2> DEFINE j == Len(b)
  <2>4. \/ a1 = a - k /\ c1 = c /\ k <= a
        \/ a1 = a /\ c1 = c - k /\ k <= c
    <3>0. k <= j /\ Len(p) = j - k
      <4> HIDE DEF j
      <4>1. k \in 0 .. j
        BY <1>6 DEF j
      <4> QED
        BY <1>7, <4>1, <1>5 DEF j
    <3>1. CASE s = "out"
      BY <1>9, <3>0, <3>1 DEF Streams
    <3>2. CASE s = "err"
      BY <1>9, <3>0, <3>2 DEF Streams
    <3> QED
      BY <1>4, <3>1, <3>2 DEF Streams
  <2>5. retained' = retained - k /\ k \in Nat
    BY <1>5, <1>6, <1>7
  <2> HIDE DEF a, c, a1, c1, h1
  <2>6. retained' \in Nat /\ retained' = h1
    BY ONLY <2>1, <2>2, <2>3, <2>4, <2>5
  <2> QED
    BY <2>6 DEF h1
<1>17. Shape'
  BY <1>2, <1>12, <1>14, <1>15, <1>16 DEF Shape
<1>18. Asked' /\ Fed'
  BY <1>3, <1>12, FedKept DEF Asked
<1>19. Over'
  BY <1>1, <1>2, <1>3, <1>12 DEF Over
<1>20. Turns'
  <2>1. passed[o] = 1 => Emits(st, o) = 0
    BY <1>1, <1>4 DEF Turns, Alike
  <2>2. passed[o] \in Nat /\ passed[o] <= 1
    BY <1>4 DEF Turns, NotPassedOver, Shape
  <2>3. passed'[o] <= 1 /\ passed'[s] = 0
    BY <1>15, <2>1, <2>2
  <2> QED
    BY <1>4, <1>12, <2>3 DEF Turns, NotPassedOver
<1>21. CountersExact'
  BY <1>3, <1>12, <1>16, Accounted
<1>22. Read(s)' = Read(s) /\ \A x \in Streams \ {s} : Read(x)' = Read(x)
  <2>1. \A x \in Streams \ {s} : Read(x)' = Read(x)
    BY <1>9, <1>12, <1>14 DEF Read
  <2> DEFINE i == Len(emitted[s])
             j == Len(b)
             m == Len(pipes[s])
             r == Read(s)
             r1 == Read(s)'
  <2>2. r = i + j + m
    BY DEF Read
  <2>3. r1 = (i + k) + (j - k) + m
    BY <1>7, <1>9, <1>12, <1>13, <1>14 DEF Read
  <2>4. i \in Nat /\ j \in Nat /\ m \in Nat /\ k \in Nat
    BY <1>4, <1>5, <1>6, SequencesTyped
  <2> HIDE DEF i, j, m, r, r1
  <2>5. r1 = r
    BY ONLY <2>2, <2>3, <2>4
  <2> QED
    BY <2>1, <2>5 DEF r, r1
<1>23. Buffered'
  <2>1. Len(p) <= Len(b)
    <3> DEFINE i == Len(p)
               j == Len(b)
    <3>1. i = j - k /\ k \in 0 .. j /\ j \in Nat
      BY <1>5, <1>6, <1>7
    <3> HIDE DEF i, j
    <3>2. i <= j
      BY <3>1
    <3> QED
      BY <3>2 DEF i, j
  <2>2. \A x \in Streams : \E max \in Chunks : Len(bs[x]) <= max + Slack
    <3>1. PICK max \in Chunks : Len(b) <= max + Slack
      BY <1>4 DEF Buffered
    <3>2. Len(p) <= max + Slack
      <4> DEFINE i == Len(p)
                 j == Len(b)
      <4>1. i \in Nat /\ j \in Nat /\ max \in Nat /\ i <= j /\ j <= max + Slack
        BY <1>5, <1>7, <2>1, <3>1, LenProperties, ChunksAssumption
      <4> HIDE DEF i, j
      <4>2. i <= max + Slack
        BY <4>1 DEF Slack
      <4> QED
        BY <4>2 DEF i
    <3> QED
      BY <1>4, <1>9, <3>2 DEF Buffered
  <2>3. \A x \in Streams : Read(x)' <= Len(script[x])
    BY <1>3, <1>22 DEF Buffered
  <2> QED
    BY <1>12, <2>2, <2>3 DEF Buffered
<1>24. BytesInOrder'
  <2>1. (emitted[s] \o text) \o p = emitted[s] \o b
    <3> DEFINE e == emitted[s]
    <3>1. e \in Seq(Bytes) /\ text \in Seq(Bytes) /\ p \in Seq(Bytes)
      BY <1>7, <1>13
    <3> HIDE DEF e
    <3>2. Associates(e, text, p)
      BY ONLY <3>1, ConcatFacts
    <3>3. text \o p = b
      BY <1>7
    <3> QED
      BY ONLY <3>2, <3>3, Zenon DEF Associates, e
  <2>2. ASSUME NEW x \in Streams
        PROVE  emitted'[x] \o bs[x] \o pipes[x] = SubSeq(script[x], 1, Read(x)')
    <3>1. emitted[x] \o state.buf[x] \o pipes[x] = SubSeq(script[x], 1, Read(x))
      BY <1>3 DEF BytesInOrder
    <3> QED
      BY <1>9, <1>14, <1>22, <2>1, <3>1
  <2>3. UNCHANGED <<script, pipes>> /\ state'.buf = bs
    BY <1>12
  <2> QED
    BY ONLY <2>2, <2>3 DEF BytesInOrder
<1>25. ScalarsWhole'
  <2>1. Whole(emitted[s], Len(emitted[s]))
    BY <1>4 DEF ScalarsWhole
  <2>2. Whole(emitted[s] \o SubSeq(b, 1, k), Len(emitted[s] \o SubSeq(b, 1, k)))
    <3> DEFINE e == emitted[s]
    <3>1. e \in Seq(Bytes) /\ b \in Seq(Bytes) /\ k \in 0 .. Len(b) /\ Whole(b, k)
          /\ Whole(e, Len(e))
      BY <1>5, <1>6, <1>13, <2>1
    <3> HIDE DEF e, b
    <3>2. Whole(e \o SubSeq(b, 1, k), Len(e \o SubSeq(b, 1, k)))
      BY ONLY <3>1, WholeConcat
    <3> QED
      BY <3>2 DEF e
  <2> QED
    BY <1>4, <1>7, <1>14, <2>2 DEF ScalarsWhole
<1> QED
  BY <1>12, <1>17, <1>18, <1>19, <1>20, <1>21, <1>23, <1>24, <1>25, IdleWaits

\* The result is an error: the output is no text, and the handle is closed.
LEMMA DecideNoText ==
    ASSUME EventsInv, At("decide"), Reap, ~Probed(state).flushed,
           Ends(Closed(Probed(state))), retained' = retained - Held(Probed(state)),
           UNCHANGED <<script, pipes, holds, input, reads, sure, payloads, live,
                       emitted, flushes, passed>>
    PROVE  EventsInv'
<1> USE DEF EventsInv
<1> DEFINE st == Probed(state)
           none == [x \in Streams |-> <<>>]
           t == [st EXCEPT !.open = FALSE, !.busy = FALSE, !.pending = 0,
                           !.stdin = FALSE, !.fds = {}, !.buf = none]
<1>1. st \in Handles /\ Alike(state, st) /\ (st.exited <=> state.exited \/ SeesExit(state))
  BY ProbedFacts DEF Shape
<1>2. /\ child' \in {"running", "zombie", "reaped"} /\ (st.exited => child' = "reaped")
  BY ReapFacts
<1>3. state.open /\ ~state.told /\ ~reg.active /\ live = 0
  BY DEF At, Asked, CountersExact
<1>4. Ends(t)
  BY DEF Closed
<1>5. retained' = 0
  <2> DEFINE h == Held(st)
  <2>1. h = Held(state)
    BY <1>1 DEF Held, Alike
  <2>2. retained = h /\ h \in Nat /\ retained' = retained - h
    BY <1>1, <1>3, <2>1, HeldFacts DEF CountersExact
  <2> HIDE DEF h
  <2> QED
    BY <2>2
<1>6. none \in [Streams -> Seq(Bytes)] /\ 0 \in 0 .. PayloadSize
  BY EmptySeq, PayloadAssumption
<1> HIDE DEF st
<1>7. t \in Handles
  BY <1>1, <1>6 DEF Handles
<1>8. /\ ~t.open /\ ~t.stdin /\ t.pending = 0 /\ t.fds = {} /\ t.buf = none
      /\ t.flushed = st.flushed /\ t.told = st.told /\ t.exited = st.exited
      /\ t.prefer = st.prefer
  BY <1>1 DEF Handles
<1> HIDE DEF t
<1>9. /\ state' \in Handles /\ reg' \in Registrations
      /\ op' \in [at : Places, part : {"start", "resume", "last", "again"}]
      /\ op'.at = "idle" /\ ~reg'.active /\ ~state'.busy
      /\ state'.flushed = st.flushed /\ state'.pending = 0 /\ ~state'.stdin
      /\ ~state'.open /\ state'.buf = none
      /\ state'.told = state.told /\ state'.exited = st.exited
      /\ state'.prefer = state.prefer
  BY <1>1, <1>4, <1>7, <1>8, EndsFacts DEF Alike
<1>10. ~state'.told /\ ~state'.flushed
  BY <1>3, <1>9 DEF st
<1>11. Shape'
  BY <1>2, <1>5, <1>9 DEF Shape
<1>12. Asked' /\ Over' /\ CountersExact'
  BY <1>2, <1>3, <1>5, <1>9, <1>10 DEF Asked, Over, CountersExact
<1>13. Fed'
  <2>1. input.sent \in Nat /\ PayloadSize * payloads \in Nat /\ state.pending \in Nat
    BY PayloadAssumption, HeldFacts DEF Shape
  <2> QED
    BY <1>9, <1>10, <2>1 DEF Fed, StdinKept
<1>14. Buffered'
  <2>1. PICK max \in Chunks : TRUE
    BY ChunksAssumption
  <2>2. Len(<<>>) <= max + Slack
    <3>1. max \in Nat
      BY ChunksAssumption
    <3> QED
      BY <3>1, EmptySeq DEF Slack
  <2>3. \A x \in Streams : state'.buf[x] = <<>>
    BY <1>9
  <2> QED
    BY <1>9, <2>2, <2>3 DEF Buffered
<1>15. BytesInOrder' /\ ScalarsWhole'
  BY <1>9 DEF BytesInOrder, ScalarsWhole
<1> QED
  BY <1>9, <1>11, <1>12, <1>13, <1>14, <1>15, TurnsKept, IdleWaits

\* There is no text: Exited, a timeout, or the event goes on to wait.
LEMMA DecideNothing ==
    ASSUME EventsInv, At("decide"), Reap, ~Probed(state).flushed,
           Emits(Probed(state), Chosen(Probed(state))) = 0,
           IF AllRead(Probed(state)) THEN Ends([Probed(state) EXCEPT !.told = TRUE])
           ELSE \/ Ends(Probed(state))
                \/ state' = Probed(state) /\ Then("arm") /\ UNCHANGED reg,
           UNCHANGED <<script, pipes, holds, input, reads, sure, payloads, live,
                       emitted, flushes, passed, retained>>
    PROVE  EventsInv'
<1> USE DEF EventsInv
<1> DEFINE st == Probed(state)
<1>1. st \in Handles /\ Alike(state, st) /\ (st.exited <=> state.exited \/ SeesExit(state))
  BY ProbedFacts DEF Shape
<1>2. /\ child' \in {"running", "zombie", "reaped"} /\ (st.exited => child' = "reaped")
  BY ReapFacts
<1>3. /\ state.open /\ ~state.told /\ ~reg.active /\ state.busy /\ reg.max \in Chunks
      /\ op.at = "decide"
  BY DEF At, Asked
<1>4. ~state.flushed
  BY <1>1 DEF Alike
<1>5. CASE AllRead(st)
  <2> DEFINE t == [st EXCEPT !.told = TRUE]
  <2>1. Ends(t)
    BY <1>5
  <2>2. st.exited /\ st.fds = {} /\ \A x \in Streams : st.buf[x] = <<>>
    BY <1>5 DEF AllRead
  <2> HIDE DEF st
  <2>3. t \in Handles /\ t.told /\ t.exited = st.exited /\ t.prefer = st.prefer
    BY <1>1 DEF Handles
  <2>4. /\ t.open = st.open /\ t.pending = st.pending /\ t.flushed = st.flushed
        /\ t.stdin = st.stdin /\ t.fds = st.fds /\ t.buf = st.buf
    BY <1>1 DEF Handles
  <2> HIDE DEF t
  <2>5. /\ state' \in Handles /\ reg' \in Registrations
        /\ op' \in [at : Places, part : {"start", "resume", "last", "again"}]
        /\ op'.at = "idle" /\ ~reg'.active /\ ~state'.busy
        /\ state'.flushed = state.flushed
        /\ state'.pending = state.pending /\ state'.stdin = state.stdin
        /\ state'.open = state.open /\ state'.fds = state.fds /\ state'.buf = state.buf
        /\ state'.told /\ state'.exited = st.exited
        /\ state'.prefer = state.prefer
    BY <1>1, <2>1, <2>3, <2>4, EndsFacts DEF Alike
  <2>6. Shape' /\ Asked'
    BY <1>2, <1>3, <2>5 DEF Shape, Asked
  <2>7. Over'
    <3>1. AllRead(state)'
      <4>1. state.fds = {} /\ \A x \in Streams : state.buf[x] = <<>>
        BY <1>1, <2>2 DEF Alike
      <4>2. state'.exited /\ state'.fds = {} /\ \A x \in Streams : state'.buf[x] = <<>>
        BY <2>2, <2>5, <4>1
      <4> QED
        BY ONLY <4>2 DEF AllRead
    <3>2. \A x \in Streams \ state.fds : ~holds[x] /\ pipes[x] = <<>>
      BY <1>3 DEF Over
    <3> QED
      BY <1>2, <2>2, <2>5, <3>1, <3>2 DEF Over
  <2>8. Turns' /\ Fed' /\ CountersExact'
    BY <1>3, <1>4, <2>5, TurnsKept, FedKept, CountsKept
  <2> QED
    BY <2>5, <2>6, <2>7, <2>8, IdleWaits, OutputKept
<1>6. CASE ~AllRead(st) /\ Ends(st)
  <2> HIDE DEF st
  <2>1. /\ state' \in Handles /\ reg' \in Registrations
        /\ op' \in [at : Places, part : {"start", "resume", "last", "again"}]
        /\ op'.at = "idle" /\ ~reg'.active /\ ~state'.busy
        /\ state'.flushed = state.flushed
        /\ state'.pending = state.pending /\ state'.stdin = state.stdin
        /\ state'.open = state.open /\ state'.fds = state.fds /\ state'.buf = state.buf
        /\ state'.told = state.told /\ state'.exited = st.exited
        /\ state'.prefer = state.prefer
    BY <1>1, <1>6, EndsFacts DEF Alike
  <2>2. Shape' /\ Asked'
    BY <1>2, <1>3, <2>1 DEF Shape, Asked
  <2>3. Over'
    BY <1>1, <1>2, <1>3, <2>1, OverKept
  <2>4. Turns' /\ Fed' /\ CountersExact'
    BY <1>3, <1>4, <2>1, TurnsKept, FedKept, CountsKept
  <2> QED
    BY <2>1, <2>2, <2>3, <2>4, IdleWaits, OutputKept
<1>7. CASE ~AllRead(st) /\ state' = st /\ Then("arm") /\ UNCHANGED reg
  <2>1. /\ op' \in [at : Places, part : {"start", "resume", "last", "again"}]
        /\ op'.at = "arm"
    BY <1>7 DEF Then, Shape, Places
  <2>2. Registered' /\ NothingMissed'
    <3>1. ~HasResult(st)
      BY <1>7 DEF HasResult
    <3>2. HasResult(state)' <=> HasResult(st)
      BY <1>7 DEF HasResult, AllRead, Chosen, FirstOf, Emits
    <3> QED
      BY <2>1, <3>1, <3>2 DEF Registered, NothingMissed
  <2> HIDE DEF st
  <2>3. Shape'
    BY <1>1, <1>2, <1>7, <2>1 DEF Shape
  <2>4. Asked'
    BY <1>1, <1>3, <1>7, <2>1 DEF Asked, Alike
  <2>5. Over'
    BY <1>1, <1>2, <1>7, OverKept DEF Alike
  <2>6. Turns' /\ Fed' /\ CountersExact'
    BY <1>1, <1>3, <1>4, <1>7, <2>1, TurnsKept, FedKept, CountsKept DEF Alike
  <2> QED
    BY <1>1, <1>7, <2>2, <2>3, <2>4, <2>5, <2>6, OutputKept DEF Alike
<1> QED
  BY <1>5, <1>6, <1>7

LEMMA DecideStep ==
    ASSUME EventsInv, Decide
    PROVE  EventsInv'
<1> DEFINE st == Probed(state)
           s == Chosen(st)
           k == Prefix(st.buf[s], reg.max)
           text == SubSeq(st.buf[s], 1, k)
<1>1. /\ At("decide") /\ Reap
      /\ UNCHANGED <<script, pipes, holds, input, reads, sure, payloads, live>>
  BY DEF Decide
<1>2. \/ /\ st.flushed /\ Ends([st EXCEPT !.flushed = FALSE]) /\ flushes' = flushes + 1
         /\ UNCHANGED <<emitted, passed, retained>>
      \/ /\ ~st.flushed /\ Emits(st, s) = 1
         /\ Ends(Consumed(st, s))
         /\ emitted' = [emitted EXCEPT ![s] = @ \o text]
         /\ passed' = [passed EXCEPT ![s] = 0,
                         ![Other(s)] = IF Emits(st, Other(s)) = 1 THEN @ + 1 ELSE 0]
         /\ retained' = retained - Len(text)
         /\ UNCHANGED flushes
      \/ /\ ~st.flushed /\ Emits(st, s) = -1
         /\ Ends(Closed(st))
         /\ retained' = retained - Held(st)
         /\ UNCHANGED <<emitted, flushes, passed>>
      \/ /\ ~st.flushed /\ Emits(st, s) = 0
         /\ IF AllRead(st) THEN Ends([st EXCEPT !.told = TRUE])
            ELSE \/ Ends(st)
                 \/ state' = st /\ Then("arm") /\ UNCHANGED reg
         /\ UNCHANGED <<emitted, flushes, passed, retained>>
  BY Zenon DEF Decide
<1>3. CASE /\ st.flushed /\ Ends([st EXCEPT !.flushed = FALSE]) /\ flushes' = flushes + 1
           /\ UNCHANGED <<emitted, passed, retained>>
  BY <1>1, <1>3, DecideFlushed
<1>4. CASE /\ ~st.flushed /\ Emits(st, s) = 1
           /\ Ends(Consumed(st, s))
           /\ emitted' = [emitted EXCEPT ![s] = @ \o text]
           /\ passed' = [passed EXCEPT ![s] = 0,
                           ![Other(s)] = IF Emits(st, Other(s)) = 1 THEN @ + 1 ELSE 0]
           /\ retained' = retained - Len(text)
           /\ UNCHANGED flushes
  BY <1>1, <1>4, DecideText
<1>5. CASE /\ ~st.flushed /\ Emits(st, s) = -1
           /\ Ends(Closed(st))
           /\ retained' = retained - Held(st)
           /\ UNCHANGED <<emitted, flushes, passed>>
  BY <1>1, <1>5, DecideNoText
<1>6. CASE /\ ~st.flushed /\ Emits(st, s) = 0
           /\ IF AllRead(st) THEN Ends([st EXCEPT !.told = TRUE])
              ELSE \/ Ends(st)
                   \/ state' = st /\ Then("arm") /\ UNCHANGED reg
           /\ UNCHANGED <<emitted, flushes, passed, retained>>
  BY <1>1, <1>6, DecideNothing
<1> QED
  BY <1>2, <1>3, <1>4, <1>5, <1>6

\* Whatever could give a result is registered when the event may wait.
LEMMA ArmStep ==
    ASSUME EventsInv, Arm
    PROVE  EventsInv'
<1> USE DEF EventsInv, ghosts
<1> DEFINE st == Probed(state)
<1>1. /\ op.at = "arm" /\ state.open /\ ~state.told /\ ~reg.active /\ state.busy
      /\ ~state.flushed /\ reg.max \in Chunks /\ ~HasResult(state)
      /\ UNCHANGED <<script, pipes, holds, input, reads, emitted, flushes, passed, payloads,
                     retained, live>>
  BY DEF Arm, At, Asked, Fed, Registered
<1>2. Wanted(state) \in SUBSET Interests
  BY DEF Wanted, Interests, Shape, Handles
<1>3. Then("settle") => /\ op' \in [at : Places, part : {"start", "resume", "last", "again"}]
                        /\ op'.at = "settle"
  BY DEF Then, Shape, Places
<1>4. ASSUME reg' = [reg EXCEPT !.io = Wanted(state), !.probe = "exit" \in Wanted(state)],
             sure' = (child = "zombie" /\ ~EdgeExit),
             Then("settle"), UNCHANGED <<state, child>>
      PROVE  EventsInv'
  <2>1. /\ reg' \in Registrations /\ reg'.io = Wanted(state)
        /\ (reg'.probe <=> "exit" \in Wanted(state))
        /\ reg'.active = reg.active /\ reg'.max = reg.max
    <3>1. reg \in Registrations /\ ("exit" \in Wanted(state)) \in BOOLEAN
      BY DEF Shape
    <3> DEFINE w == Wanted(state)
               p == "exit" \in Wanted(state)
               r == [reg EXCEPT !.io = w, !.probe = p]
    <3>2. w \in SUBSET Interests /\ p \in BOOLEAN
      BY <1>2, <3>1
    <3>3. reg' = r
      BY <1>4
    <3> HIDE DEF w, p
    <3>4. r \in Registrations /\ r.io = w /\ r.probe = p /\ r.active = reg.active
          /\ r.max = reg.max
      BY <3>1, <3>2 DEF Registrations
    <3> HIDE DEF r
    <3> QED
      BY <3>3, <3>4 DEF w, p
  <2>2. Shape'
    BY <1>1, <1>3, <1>4, <2>1 DEF Shape
  <2>3. Asked' /\ Over'
    BY <1>1, <1>3, <1>4, <2>1 DEF Asked, Over, AllRead
  <2>4. ~HasResult(state)'
    BY <1>1, <1>4, <2>1 DEF HasResult, AllRead, Chosen, FirstOf, Emits
  <2>5. Registered' /\ NothingMissed'
    BY <1>3, <1>4, <2>1, <2>4 DEF Registered, NothingMissed, Wanted
  <2>6. Turns' /\ Fed' /\ CountersExact'
    BY <1>1, <1>3, <1>4, <2>1, TurnsKept, FedKept, CountsKept
  <2> QED
    BY <1>1, <1>4, <2>2, <2>3, <2>5, <2>6, OutputKept
<1>5. ASSUME "exit" \in Wanted(state),
             reg' = [reg EXCEPT !.io = Wanted(state) \ {"exit"}, !.probe = TRUE],
             state' = IF SeesExit(state) THEN Probed(state)
                      ELSE [state EXCEPT !.source = "worker"],
             Reap, Then("settle"), UNCHANGED sure
      PROVE  EventsInv'
  <2>1. /\ reg' \in Registrations /\ reg'.io = Wanted(state) \ {"exit"} /\ reg'.probe
        /\ reg'.active = reg.active /\ reg'.max = reg.max
    BY <1>2, <1>5 DEF Registrations, Shape
  <2>2. st \in Handles /\ Alike(state, st) /\ (st.exited <=> state.exited \/ SeesExit(state))
    BY ProbedFacts DEF Shape
  <2>3. /\ child' \in {"running", "zombie", "reaped"} /\ (st.exited => child' = "reaped")
    BY <1>5, ReapFacts
  <2> DEFINE w == [state EXCEPT !.source = "worker"]
  <2>4. /\ w \in Handles /\ w.source = "worker" /\ w.exited = state.exited
        /\ w.open = state.open /\ w.stdin = state.stdin /\ w.pending = state.pending
        /\ w.flushed = state.flushed
    BY DEF Shape, Handles
  <2>5. /\ w.fds = state.fds /\ w.buf = state.buf /\ w.told = state.told
        /\ w.prefer = state.prefer /\ w.busy = state.busy
    BY DEF Shape, Handles
  <2> HIDE DEF st, w
  <2>6. /\ state' \in Handles /\ (state'.exited => child' = "reaped")
        /\ (state.exited => state'.exited)
        /\ state'.exited \/ state'.source = "worker"
        /\ state'.open = state.open /\ state'.stdin = state.stdin
        /\ state'.pending = state.pending /\ state'.flushed = state.flushed
        /\ state'.fds = state.fds /\ state'.buf = state.buf /\ state'.told = state.told
        /\ state'.prefer = state.prefer /\ state'.busy = state.busy
    <3>1. CASE SeesExit(state)
      <4>1. state' = st /\ st.exited
        BY <1>5, <2>2, <3>1 DEF st
      <4> QED
        BY <2>2, <2>3, <4>1 DEF Alike
    <3>2. CASE ~SeesExit(state)
      <4>1. state' = w /\ child' = child
        BY <1>5, <3>2 DEF w, Reap
      <4> QED
        BY <2>4, <2>5, <4>1 DEF Over
    <3> QED
      BY <3>1, <3>2
  <2>7. Shape' /\ Asked'
    BY <1>1, <1>3, <1>5, <2>1, <2>3, <2>6 DEF Shape, Asked
  <2>8. Over'
    BY <1>1, <2>6, OverKept
  <2>9. HasResult(state)' => state'.exited
    <3>1. Emits(state, Chosen(state)) = 0
      BY <1>1 DEF HasResult
    <3>2. \A x \in Streams : Emits(state, x)' = Emits(state, x)
      BY <2>1, <2>6 DEF Emits
    <3>3. Chosen(state) \in Streams /\ Chosen(state)' = Chosen(state)
      <4>1. Chosen(state) \in Streams /\ state.prefer \in Streams
        BY ChosenFacts DEF Shape, Handles
      <4> QED
        BY <2>6, <3>2, <4>1 DEF Chosen, FirstOf, Streams, Other
    <3>4. Emits(state, Chosen(state))' = 0
      BY <2>1, <2>6, <3>1, <3>3 DEF Emits
    <3> QED
      BY <1>1, <2>6, <3>4 DEF HasResult, AllRead
  <2>10. Registered' /\ NothingMissed'
    <3>1. Wanted(state)' \subseteq reg'.io
      BY <2>1, <2>6 DEF Wanted, Streams, Shape, Handles
    <3> QED
      BY <1>3, <1>5, <2>1, <2>6, <2>9, <3>1 DEF Registered, NothingMissed
  <2>11. Turns' /\ Fed' /\ CountersExact'
    BY <1>1, <1>3, <1>5, <2>1, <2>6, TurnsKept, FedKept, CountsKept
  <2> QED
    BY <1>1, <2>6, <2>7, <2>8, <2>10, <2>11, OutputKept
<1>6. ASSUME Ends(state), UNCHANGED <<child, sure>>
      PROVE  EventsInv'
  <2>1. state \in Handles
    BY DEF Shape
  <2>2. Shape' /\ Asked'
    BY <1>1, <1>6, <2>1, EndsFacts DEF Shape, Asked
  <2>3. Over'
    BY <1>1, <1>6, <2>1, EndsFacts, OverKept DEF Over
  <2>4. Turns' /\ Fed' /\ CountersExact'
    BY <1>1, <1>6, <2>1, EndsFacts, TurnsKept, FedKept, CountsKept
  <2> QED
    BY <1>1, <1>6, <2>1, <2>2, <2>3, <2>4, EndsFacts, IdleWaits, OutputKept
<1> QED
  BY <1>1, <1>4, <1>5, <1>6 DEF Arm

LEMMA SettleStep ==
    ASSUME EventsInv, Settle
    PROVE  EventsInv'
<1> USE DEF EventsInv, ghosts
<1> DEFINE st == Probed(state)
<1>1. /\ op.at = "settle" /\ state.open /\ ~state.told /\ ~reg.active /\ state.busy
      /\ ~state.flushed /\ reg.max \in Chunks
      /\ UNCHANGED <<script, pipes, holds, input, reads, sure, emitted, flushes, passed,
                     payloads, retained>>
  BY DEF Settle, At, Asked, Fed
<1>2. st \in Handles /\ Alike(state, st) /\ (st.exited <=> state.exited \/ SeesExit(state))
  BY ProbedFacts DEF Shape
<1>3. reg \in Registrations /\ state \in Handles
  BY DEF Shape
<1>4. ASSUME state' = Probed(state), Reap, reg' = Finished(reg), Part("again"), UNCHANGED live
      PROVE  EventsInv'
  <2>1. reg' \in Registrations /\ ~reg'.active /\ reg'.max = reg.max
    BY <1>3, <1>4, FinishedFacts
  <2>2. /\ op' \in [at : Places, part : {"start", "resume", "last", "again"}]
        /\ op'.at = "probe"
    BY <1>4 DEF Part, Places
  <2>3. /\ child' \in {"running", "zombie", "reaped"} /\ (st.exited => child' = "reaped")
    BY <1>4, ReapFacts
  <2>4. state' = st
    BY <1>4
  <2> HIDE DEF st
  <2>5. Shape' /\ Asked'
    BY <1>1, <1>2, <1>4, <2>1, <2>2, <2>3, <2>4 DEF Shape, Asked, Alike
  <2>6. Over'
    BY <1>1, <1>2, <2>3, <2>4, OverKept DEF Alike
  <2>7. Turns' /\ Fed' /\ CountersExact'
    BY <1>1, <1>2, <1>4, <2>1, <2>4, TurnsKept, FedKept, CountsKept DEF Alike
  <2> QED
    BY <1>1, <1>2, <2>2, <2>4, <2>5, <2>6, <2>7, IdleWaits, OutputKept DEF Alike
<1>5. ASSUME ~ProbesAgain, reg' = Armed(reg), Then("wait"), live' = live + 1,
             UNCHANGED <<state, child>>
      PROVE  EventsInv'
  <2>1. /\ reg' \in Registrations /\ reg'.active /\ reg'.max = reg.max
        /\ reg'.io = reg.io /\ reg'.probe = reg.probe
    BY <1>3, <1>5 DEF Armed, Registrations
  <2>2. /\ op' \in [at : Places, part : {"start", "resume", "last", "again"}]
        /\ op'.at = "wait"
    BY <1>5 DEF Then, Shape, Places
  <2>3. live = 0
    BY <1>1 DEF CountersExact
  <2>4. Shape' /\ Asked'
    BY <1>1, <1>5, <2>1, <2>2, <2>3 DEF Shape, Asked
  <2>5. Over'
    BY <1>1, <1>5 DEF Over, AllRead
  <2>6. ~reg.probe \/ (~state.exited /\ ~SeesExit(state))
    BY <1>2, <1>5 DEF ProbesAgain
  <2>7. ~HasResult(state)'
    <3>1. ~HasResult(state)
      BY <1>1, <2>6 DEF Registered
    <3> QED
      BY <1>5, <2>1, <3>1 DEF HasResult, AllRead, Chosen, FirstOf, Emits
  <2>8. child = "zombie" => state.source = "worker"
    BY <1>1, <1>3, <2>6 DEF Registered, Over, SeesExit, Handles
  <2>9. Wanted(state) \subseteq reg.io
    BY <1>1 DEF Registered
  <2>10. Registered' /\ NothingMissed'
    BY <1>5, <2>1, <2>2, <2>7, <2>8, <2>9 DEF Registered, NothingMissed, Wanted
  <2>11. CountersExact'
    BY <1>1, <1>5, <2>1, <2>2, <2>3 DEF CountersExact, Held
  <2>12. Turns' /\ Fed'
    BY <1>1, <1>5, TurnsKept, FedKept
  <2> QED
    BY <1>1, <1>5, <2>4, <2>5, <2>10, <2>11, <2>12, OutputKept
<1>6. ASSUME Ends(state), UNCHANGED <<child, live>>
      PROVE  EventsInv'
  <2>1. Shape' /\ Asked'
    BY <1>1, <1>3, <1>6, EndsFacts DEF Shape, Asked
  <2>2. Over'
    BY <1>1, <1>3, <1>6, EndsFacts, OverKept DEF Over
  <2>3. Turns' /\ Fed' /\ CountersExact'
    BY <1>1, <1>3, <1>6, EndsFacts, TurnsKept, FedKept, CountsKept
  <2> QED
    BY <1>1, <1>3, <1>6, <2>1, <2>2, <2>3, EndsFacts, IdleWaits, OutputKept
<1> QED
  BY <1>4, <1>5, <1>6 DEF Settle

-----------------------------------------------------------------------------
(* The invariant holds in every behaviour, and what it says of events.     *)

LEMMA InitEvents ==
    ASSUME Init
    PROVE  EventsInv
<1> USE DEF Init
<1>1. state \in Handles
  BY EmptySeq, PayloadAssumption DEF Handles, Streams
<1>2. reg \in Registrations /\ ~reg.active
  BY NoRegTyped
<1>3. /\ pipes \in [Streams -> Seq(Bytes)] /\ emitted \in [Streams -> Seq(Bytes)]
      /\ \A s \in Streams : state.buf[s] = <<>> /\ pipes[s] = <<>> /\ emitted[s] = <<>>
  BY EmptySeq
<1>4. Shape
  <2>1. input \in [held : 0 .. PipeCapacity, sent : Nat] /\ payloads \in 0 .. MaxPayloads
    BY PipeCapacityAssumption, PayloadAssumption
  <2>2. op \in [at : Places, part : {"start", "resume", "last", "again"}]
    BY DEF Places
  <2>3. holds \in [Streams -> BOOLEAN] /\ passed \in [Streams -> Nat]
    OBVIOUS
  <2> QED
    BY <1>1, <1>2, <1>3, <2>1, <2>2, <2>3 DEF Shape
<1>5. Len(<<>>) = 0
  BY EmptySeq
<1>6. \A s \in Streams : Read(s) = 0
  BY <1>3, <1>5 DEF Read
<1>7. Buffered
  <2>1. PICK max \in Chunks : max \in Nat
    BY ChunksAssumption
  <2>2. \A s \in Streams : Len(state.buf[s]) <= max + Slack
    BY <1>3, <1>5, <2>1 DEF Slack
  <2>3. \A s \in Streams : Read(s) <= Len(script[s])
    BY <1>4, <1>6, SequencesTyped
  <2> QED
    BY <2>1, <2>2, <2>3 DEF Buffered
<1>8. BytesInOrder
  <2> SUFFICES ASSUME NEW s \in Streams
               PROVE  emitted[s] \o state.buf[s] \o pipes[s] = SubSeq(script[s], 1, 0)
    BY <1>6 DEF BytesInOrder
  <2>1. <<>> \in Seq(Bytes)
    BY EmptySeq
  <2>2. <<>> \o <<>> = <<>>
    BY <2>1, ConcatEmptySeq
  <2>3. SubSeq(script[s], 1, 0) = <<>>
    BY SubSeqEmpty
  <2> QED
    BY <1>3, <2>2, <2>3
<1>9. ScalarsWhole
  BY <1>3, <1>5 DEF ScalarsWhole, Whole
<1>10. CountersExact
  BY <1>2, <1>3, <1>5 DEF CountersExact, Held, Streams
<1>11. Fed
  BY PayloadAssumption DEF Fed, StdinKept
<1> QED
  BY <1>2, <1>4, <1>7, <1>8, <1>9, <1>10, <1>11
     DEF EventsInv, Asked, Over, Registered, NothingMissed, Turns, NotPassedOver

LEMMA NextEvents ==
    ASSUME EventsInv, [Next]_vars
    PROVE  EventsInv'
<1>1. CASE Next
  BY <1>1, ChildWritesStep, ChildClosesStep, ChildReadsStep, ChildEndsStep, TickStep,
     WriteStdinStep, CloseStdinStep, TryWaitStep, NextEventStep, ProbeAndFlushStep,
     ReadStreamStep, DecideStep, ArmStep, SettleStep, EventWakeStep, WatchReportsStep,
     TimerExpiresStep, EventResumeStep, CancelStep DEF Next, Poll, Streams
<1>2. CASE UNCHANGED vars
  <2> USE <1>2 DEF vars, EventsInv
  <2>1. Shape' /\ Asked'
    BY DEF Shape, Asked
  <2>2. Over'
    BY DEF Over, AllRead
  <2>3. Turns' /\ Fed' /\ CountersExact'
    BY TurnsKept, FedKept, CountsKept DEF Fed
  <2>4. Registered' /\ NothingMissed'
    BY WaitKept
  <2> QED
    BY <2>1, <2>2, <2>3, <2>4, OutputKept
<1> QED
  BY <1>1, <1>2

LEMMA EventsHold == Spec => []EventsInv
<1>1. Init => EventsInv
  BY InitEvents
<1>2. EventsInv /\ [Next]_vars => EventsInv'
  BY NextEvents
<1> QED
  BY <1>1, <1>2, PTL DEF Spec

\* The events tell the output of both streams byte by byte, cut between
\* scalars, and Exited when the child was waited for and nothing is left.
THEOREM OutputIsFaithful == Spec => []OutputFaithful
<1>1. EventsInv => OutputFaithful
  <2> SUFFICES ASSUME EventsInv PROVE ExitedLast
    BY DEF OutputFaithful, EventsInv
  <2>1. state.told => state.open /\ AllRead(state)
    BY DEF EventsInv, Asked, Over
  <2> QED
    BY <2>1 DEF EventsInv, Over, AllRead, ExitedLast
<1> QED
  BY <1>1, EventsHold, PTL

\* A waiting event has registered whatever could give it a result, counters
\* and the busy mark are exact, and no stream is passed over twice.
THEOREM WaitsAreExact == Spec => []WaitsExact
<1>1. EventsInv => WaitsExact
  <2> SUFFICES ASSUME EventsInv PROVE WaitsExact
    OBVIOUS
  <2>1. BusyExact
    BY DEF EventsInv, Asked, BusyExact, Shape, Handles
  <2>2. input.sent \in 0 .. PayloadSize * MaxPayloads
    <3>1. input.sent \in Nat /\ payloads \in 0 .. MaxPayloads /\ state.pending \in Nat
      BY PayloadAssumption DEF EventsInv, Shape, Handles
    <3>2. PayloadSize * payloads <= PayloadSize * MaxPayloads
      BY <3>1, PayloadAssumption
    <3>3. input.sent + state.pending <= PayloadSize * payloads
      BY DEF EventsInv, Fed
    <3>4. PayloadSize * payloads \in Nat /\ PayloadSize * MaxPayloads \in Nat
      BY <3>1, PayloadAssumption
    <3> QED
      BY <3>1, <3>2, <3>3, <3>4
  <2>3. live \in 0 .. 1
    BY DEF EventsInv, CountersExact
  <2>4. TypeOK
    BY <2>2, <2>3 DEF EventsInv, Shape, Handles, Registrations, Interests, Places, Buffered, TypeOK
  <2> QED
    BY <2>1, <2>4 DEF EventsInv, Turns, WaitsExact
<1> QED
  BY <1>1, EventsHold, PTL

\* While stdin is open the bytes of the payloads were written to its pipe or are
\* pending, each payload is reported as flushed once, and waiting, timeouts and
\* cancels keep the suffix.
THEOREM StdinIsDelivered == Spec => StdinDelivered
<1>1. EventsInv /\ EventsInv' /\ [Next]_vars => [StdinKept' /\ SuffixPreserved]_vars
  <2> SUFFICES ASSUME EventsInv, EventsInv', Next, op.at \in {"wait", "ready", "expired"}
               PROVE  state'.pending = state.pending
    BY DEF EventsInv, Fed, SuffixPreserved
  <2>1. state \in Handles /\ op.at \notin Streams
    BY DEF EventsInv, Shape, Streams
  <2>2. CASE \/ \E s \in Streams : ChildWrites(s) \/ ChildCloses(s)
             \/ ChildReads \/ ChildEnds \/ Tick \/ EventWake \/ TimerExpires \/ EventResume
    BY <2>2 DEF ChildWrites, ChildCloses, ChildReads, ChildEnds, Tick, EventWake,
       TimerExpires, EventResume
  <2>3. CASE WatchReports
    BY <2>1, <2>3 DEF WatchReports, Handles
  <2>4. CASE Cancel
    BY <2>1, <2>4, EndsFacts DEF Cancel
  <2>5. ~(\/ WriteStdin \/ CloseStdin \/ TryWait \/ Poll
          \/ \E max \in Chunks, timeout \in Timeouts : NextEvent(max, timeout))
    <3>1. ~WriteStdin /\ ~CloseStdin /\ ~TryWait
      BY DEF WriteStdin, CloseStdin, TryWait
    <3>2. ASSUME NEW max \in Chunks, NEW timeout \in Timeouts PROVE ~NextEvent(max, timeout)
      BY DEF NextEvent
    <3>3. ~ProbeAndFlush /\ ~Decide /\ ~Arm /\ ~Settle
      BY DEF ProbeAndFlush, Decide, Arm, Settle, At
    <3>4. ~ReadStream("out", "err") /\ ~ReadStream("err", "decide")
      BY DEF ReadStream, At
    <3> QED
      BY <3>1, <3>2, <3>3, <3>4 DEF Poll
  <2> QED
    BY <2>2, <2>3, <2>4, <2>5 DEF Next
<1> QED
  BY <1>1, EventsHold, PTL DEF Spec, StdinDelivered
=============================================================================
