------------------------- MODULE ResolverPoolProofs -------------------------
(***************************************************************************)
(* Proofs about ResolverPool for every number of connects and job slots,   *)
(* every generation width and every pipe.                                  *)
(***************************************************************************)
EXTENDS ResolverPool, FiniteSetTheorems, TLAPS

USE PoolCapacityAssumption, GenerationAssumption, PipeAssumption,
    ConnectsAssumption

-----------------------------------------------------------------------------
(* Lists and sets of slots.                                                *)

\* Unlinking removes exactly the given members.
LEMMA UnlinkExact ==
    ASSUME NEW q, NEW S, Reflexive(q)
    PROVE  /\ Unlink(q, S) \subseteq q
           /\ Waiters(Unlink(q, S)) = Waiters(q) \ S
           /\ Reflexive(Unlink(q, S))
<1>1. Unlink(q, S) \subseteq q
  BY DEF Unlink
<1>2. Waiters(Unlink(q, S)) \subseteq Waiters(q) \ S
  BY DEF Unlink, Waiters
<1>3. ASSUME NEW r \in Waiters(q) \ S PROVE <<r, r>> \in Unlink(q, S)
  BY <1>3 DEF Reflexive, Unlink
<1>4. Waiters(q) \ S \subseteq Waiters(Unlink(q, S))
  <2> SUFFICES ASSUME NEW r \in Waiters(q) \ S
               PROVE  r \in Waiters(Unlink(q, S))
    OBVIOUS
  <2>1. <<r, r>> \in Unlink(q, S) /\ <<r, r>>[1] = r
    BY <1>3
  <2> HIDE DEF Unlink
  <2> QED
    BY <2>1 DEF Waiters
<1>5. Reflexive(Unlink(q, S))
  BY <1>2, <1>3 DEF Reflexive
<1> QED
  BY <1>1, <1>2, <1>4, <1>5

\* Linking adds exactly one member.
LEMMA LinkTailExact ==
    ASSUME NEW q, NEW r, Reflexive(q)
    PROVE  /\ Waiters(LinkTail(q, r)) = Waiters(q) \cup {r}
           /\ Reflexive(LinkTail(q, r))
           /\ LinkTail(q, r) # {}
<1> DEFINE tail == {<<s, r>> : s \in Waiters(q) \cup {r}}
<1>1. ASSUME NEW s \in Waiters(q) \cup {r}
      PROVE  <<s, r>> \in tail /\ <<s, r>>[1] = s
  OBVIOUS
<1>2. \A p \in tail : p[1] \in Waiters(q) \cup {r}
  OBVIOUS
<1>3. LinkTail(q, r) = q \cup tail
  BY DEF LinkTail
<1> HIDE DEF tail
<1>4. Waiters(tail) = Waiters(q) \cup {r}
  BY <1>1, <1>2 DEF Waiters
<1>5. Waiters(q \cup tail) = Waiters(q) \cup Waiters(tail)
  BY DEF Waiters
<1>6. <<r, r>> \in tail
  BY <1>1
<1> QED
  BY <1>3, <1>4, <1>5, <1>6 DEF Reflexive

\* The types of lists.
LEMMA ListTypes ==
    ASSUME NEW T, NEW q \in SUBSET (T \X T), NEW r \in T
    PROVE  /\ LinkTail(q, r) \in SUBSET (T \X T)
           /\ Waiters(q) \subseteq T
<1>1. Waiters(q) \subseteq T
  BY DEF Waiters
<1> QED
  BY <1>1 DEF LinkTail

\* A list without members is empty.
LEMMA NoWaiters == ASSUME NEW q PROVE q = {} <=> Waiters(q) = {}
BY DEF Waiters

\* Sets of slots are finite and no larger than the pool.
LEMMA SlotSets ==
    ASSUME NEW B \in SUBSET Slots
    PROVE  IsFiniteSet(B) /\ Cardinality(B) \in 0 .. Capacity
<1>1. IsFiniteSet(Slots) /\ Cardinality(Slots) = Capacity
  BY FS_Interval DEF Slots
<1>2. IsFiniteSet(B) /\ Cardinality(B) <= Cardinality(Slots)
  BY <1>1, FS_Subset
<1> QED
  BY <1>1, <1>2, FS_CardinalityType

\* A set of slots that misses one is smaller than the pool.
LEMMA SlotMissing ==
    ASSUME NEW B \in SUBSET Slots, NEW s \in Slots, s \notin B
    PROVE  Cardinality(B) # Capacity
<1>1. B \cup {s} \in SUBSET Slots
  OBVIOUS
<1>2. Cardinality(B \cup {s}) \in 0 .. Capacity /\ Cardinality(B) \in Nat
      /\ IsFiniteSet(B)
  BY <1>1, SlotSets
<1>3. Cardinality(B \cup {s}) = Cardinality(B) + 1
  BY <1>2, FS_AddElement
<1> QED
  BY <1>2, <1>3

Busy == {s \in Slots : ~Free(s)}

\* The count follows the busy slots: adding one.
LEMMA BusyMore ==
    ASSUME Inductive, NEW s \in Slots, Free(s), Busy' = Busy \cup {s},
           activeJobs' = activeJobs + 1
    PROVE  ActiveExact' /\ activeJobs' \in 0 .. Capacity /\ activeJobs' > 0
<1>1. Busy \in SUBSET Slots /\ s \notin Busy
  BY DEF Busy
<1>2. IsFiniteSet(Busy) /\ Cardinality(Busy) \in Nat
  BY <1>1, SlotSets
<1>3. Cardinality(Busy') = Cardinality(Busy) + 1
  BY <1>1, <1>2, FS_AddElement
<1>4. Busy' \in SUBSET Slots
  BY <1>1
<1>5. Cardinality(Busy') \in 0 .. Capacity
  BY <1>4, SlotSets
<1>6. activeJobs = Cardinality(Busy)
  BY DEF Inductive, ActiveExact, Busy
<1> QED
  BY <1>2, <1>3, <1>5, <1>6 DEF ActiveExact, Busy

\* Removing some.
LEMMA BusyLess ==
    ASSUME Inductive, NEW F \in SUBSET Busy, Busy' = Busy \ F,
           activeJobs' = activeJobs - Cardinality(F)
    PROVE  ActiveExact' /\ activeJobs' \in 0 .. Capacity
<1>1. Busy \in SUBSET Slots /\ Busy \cap F = F
  BY DEF Busy
<1>2. IsFiniteSet(Busy) /\ Cardinality(Busy) \in Nat
  BY <1>1, SlotSets
<1>3. Cardinality(Busy \ F) = Cardinality(Busy) - Cardinality(F)
  BY <1>1, <1>2, FS_Difference
<1>4. Busy \ F \in SUBSET Slots
  BY <1>1
<1>5. Cardinality(Busy \ F) \in 0 .. Capacity
  BY <1>4, SlotSets
<1>6. activeJobs = Cardinality(Busy)
  BY DEF Inductive, ActiveExact, Busy
<1> QED
  BY <1>3, <1>5, <1>6 DEF ActiveExact, Busy

\* Removing one.
LEMMA BusyOneLess ==
    ASSUME Inductive, NEW s \in Busy, Busy' = Busy \ {s},
           activeJobs' = activeJobs - 1
    PROVE  ActiveExact' /\ activeJobs' \in 0 .. Capacity
<1>1. Cardinality({s}) = 1
  BY FS_Singleton
<1> QED
  BY <1>1, BusyLess, {s} \in SUBSET Busy

\* Leaving them alone.
LEMMA BusySame ==
    ASSUME Inductive, Busy' = Busy, activeJobs' = activeJobs
    PROVE  ActiveExact' /\ activeJobs' \in 0 .. Capacity
BY DEF Inductive, TypeOK, ActiveExact, Busy

-----------------------------------------------------------------------------
(* Records.                                                                *)

\* Updates of a job keep it a job.
LEMMA JobUpdates ==
    ASSUME NEW j \in JobRecords, NEW x \in States,
           NEW a \in Connects \cup {NoConnect}
    PROVE  /\ [j EXCEPT !.state = x] \in JobRecords
           /\ [j EXCEPT !.state = x, !.owner = NoConnect] \in JobRecords
           /\ [j EXCEPT !.state = x, !.answer = a] \in JobRecords
BY DEF JobRecords

\* A released slot is a free job without an owner.
LEMMA ReleasedFacts ==
    ASSUME TypeOK, NEW s \in Slots
    PROVE  /\ Released(s) \in JobRecords
           /\ Released(s).state = "free"
           /\ Released(s).owner = NoConnect
<1>1. jobs[s] \in JobRecords /\ jobs[s].gen \in 0 .. MaxGeneration
  BY DEF TypeOK, JobRecords
<1>2. Released(s) = [state |-> "free", gen |-> jobs[s].gen, host |-> NoConnect,
                     answer |-> NoConnect, owner |-> NoConnect]
  BY DEF Released, FreeJob
<1> QED
  BY <1>1, <1>2 DEF JobRecords, States

\* A registration that resolves nothing.
LEMMA IdleFacts ==
    /\ IdleConnect \in ConnectRecords
    /\ ~IdleConnect.resolving
    /\ ~IdleConnect.ready
BY DEF IdleConnect, ConnectRecords, Slots

\* A signal moves the worker only out of its sleep.
LEMMA SignalledFacts ==
    ASSUME TypeOK
    PROVE  /\ Signalled \in WorkerRecords
           /\ Signalled.slot = worker.slot /\ Signalled.host = worker.host
           /\ Signalled.pc = "running" <=> worker.pc = "running"
           /\ Signalled.pc = "writing" <=> worker.pc = "writing"
           /\ Signalled.pc = "exited" <=> worker.pc = "exited"
BY DEF TypeOK, WorkerRecords, Signalled

\* The next generation is one.
LEMMA GenerationType ==
    ASSUME TypeOK PROVE NextGeneration \in 0 .. MaxGeneration
BY DEF TypeOK, NextGeneration

-----------------------------------------------------------------------------
(* The owner polls frames.                                                 *)

\* Submitting puts one free slot in the queue and ties it to its client.
LEMMA ConnectStartInductive ==
    ASSUME Inductive, NEW c \in Connects, ConnectStart(c) PROVE Inductive'
<1>0. TypeOK
  BY DEF Inductive
<1>1. PICK s \in Slots : Submit(c, s)
  BY DEF ConnectStart
<1> DEFINE g == NextGeneration
           j == [state |-> "queued", gen |-> g, host |-> c,
                 answer |-> NoConnect, owner |-> c]
           k == [resolving |-> TRUE, ready |-> FALSE, timer |-> "armed",
                 slot |-> s, gen |-> g]
<1>2. g \in 0 .. MaxGeneration
  BY <1>0, GenerationType
<1>3. j \in JobRecords /\ k \in ConnectRecords
  BY <1>2 DEF JobRecords, ConnectRecords, States
<1>4. jobs' = [jobs EXCEPT ![s] = j] /\ conn' = [conn EXCEPT ![c] = k]
  BY <1>1 DEF Submit
<1>5. j.state = "queued" /\ j.owner = c /\ j.host = c /\ j.gen = g
      /\ k.resolving /\ ~k.ready /\ k.slot = s /\ k.gen = g
  OBVIOUS
<1> HIDE DEF j, k, g
<1>6. \A t \in Slots : jobs'[t] = IF t = s THEN j ELSE jobs[t]
  BY <1>0, <1>4 DEF TypeOK
<1>7. \A d \in Connects : conn'[d] = IF d = c THEN k ELSE conn[d]
  BY <1>0, <1>4 DEF TypeOK
<1>8. /\ owner = "frames" /\ ~conn[c].resolving
      /\ UNCHANGED <<completions, pipe, owner, stopping, ready, lost>>
  BY DEF ConnectStart
<1>9. /\ Free(s) /\ generation' = g /\ queue' = LinkTail(queue, s)
      /\ activeJobs' = activeJobs + 1
      /\ wake' = IF wake = "off" THEN "armed" ELSE wake
      /\ worker' = Signalled
  BY <1>1 DEF Submit, IsFirstFree, g
<1>10. /\ jobs[s].state = "free" /\ jobs[s].owner = NoConnect
       /\ ~HeldByWorker(s)
  BY <1>9 DEF Inductive, Bookkeeping, SlotsAccounted, Free
<1>11. /\ Waiters(queue') = Waiters(queue) \cup {s} /\ Reflexive(queue')
       /\ queue' \in SUBSET (Slots \X Slots)
  BY <1>0, <1>9, LinkTailExact, ListTypes DEF TypeOK, Inductive, Bookkeeping
<1>12. ActiveExact' /\ activeJobs' \in 0 .. Capacity /\ activeJobs' > 0
  <2>1. Busy' = Busy \cup {s}
    BY <1>5, <1>6 DEF Busy, Free
  <2> QED
    BY <1>9, <2>1, BusyMore
<1>13. /\ worker' \in WorkerRecords
       /\ worker'.slot = worker.slot /\ worker'.host = worker.host
       /\ worker'.pc = "running" <=> worker.pc = "running"
       /\ worker'.pc = "writing" <=> worker.pc = "writing"
       /\ worker'.pc = "exited" <=> worker.pc = "exited"
  BY <1>0, <1>9, SignalledFacts
<1>14. TypeOK'
  <2>1. jobs' \in [Slots -> JobRecords] /\ conn' \in [Connects -> ConnectRecords]
    BY <1>0, <1>3, <1>4 DEF TypeOK
  <2> QED
    BY <1>0, <1>2, <1>8, <1>9, <1>11, <1>12, <1>13, <2>1 DEF TypeOK
<1>15. SlotsAccounted'
  BY <1>5, <1>6, <1>8, <1>10, <1>11, <1>13
     DEF Inductive, SlotsAccounted, HeldByWorker
<1>16. ClientsMatch'
  <2>1. ASSUME NEW d \in Connects, d # c, conn[d].resolving
        PROVE  conn[d].slot # s /\ conn[d].slot \in Slots
    BY <1>0, <1>10, <2>1
       DEF Inductive, ClientsMatch, TypeOK, ConnectRecords
  <2>2. ASSUME NEW t \in Slots, t # s, jobs[t].owner # NoConnect
        PROVE  jobs[t].owner # c /\ jobs[t].owner \in Connects
    BY <1>0, <1>8, <2>2 DEF Inductive, ClientsMatch, TypeOK, JobRecords
  <2> QED
    BY <1>5, <1>6, <1>7, <1>8, <2>1, <2>2 DEF Inductive, ClientsMatch
<1>17. NoLostWake'
  BY <1>0, <1>8, <1>9, <1>12, <1>13 DEF Inductive, NoLostWake, TypeOK
<1>18. RightAnswer' /\ CompletionNotLost'
  BY <1>5, <1>6, <1>8 DEF Inductive, RightAnswer, CompletionNotLost
<1>19. Bookkeeping'
  BY <1>5, <1>6, <1>7, <1>8, <1>11, <1>13 DEF Inductive, Bookkeeping
<1> QED
  BY <1>12, <1>14, <1>15, <1>16, <1>17, <1>18, <1>19 DEF Inductive

\* Cancelling registrations gives queued and delivered slots back at once and
\* leaves the others to the worker and to the delivery.
LEMMA CancelConnectsInductive ==
    ASSUME Inductive, NEW C \in SUBSET Connects, CancelConnects(C),
           owner = "frames", owner' \in {"frames", "joining"},
           stopping' \in BOOLEAN, stopping => stopping',
           worker' = worker \/ worker' = Signalled,
           ready' \in SUBSET (Connects \X Connects), Reflexive(ready'),
           Waiters(ready) \ C \subseteq Waiters(ready'),
           UNCHANGED <<completions, generation, pipe, lost>>
    PROVE  Inductive'
<1> DEFINE S == Cancelled(C)
           freed == {s \in S : ReleasedAtOnce(s)}
<1>0. TypeOK
  BY DEF Inductive
<1>1. /\ jobs' = [s \in Slots |-> IF s \in S THEN CancelledJob(s) ELSE jobs[s]]
      /\ queue' = Unlink(queue, {s \in S : jobs[s].state = "queued"})
      /\ activeJobs' = activeJobs - Cardinality(freed)
      /\ wake' = WakeFor(activeJobs')
      /\ conn' = [c \in Connects |-> IF c \in C THEN IdleConnect ELSE conn[c]]
  BY DEF CancelConnects
<1>2. ASSUME NEW s \in Slots
      PROVE  s \in S <=> jobs[s].owner \in C
  <2>1. s \in S => jobs[s].owner \in C
    BY DEF Cancelled, Inductive, ClientsMatch
  <2>2. ASSUME jobs[s].owner \in C PROVE s \in S
    <3>1. jobs[s].owner \in Connects /\ jobs[s].owner # NoConnect
      BY <2>2
    <3>2. conn[jobs[s].owner].resolving /\ conn[jobs[s].owner].slot = s
      BY <3>1 DEF Inductive, ClientsMatch
    <3>3. jobs[s].gen = conn[jobs[s].owner].gen
      BY <3>1, <3>2 DEF Inductive, ClientsMatch
    <3> QED
      BY <2>2, <3>2, <3>3 DEF Cancelled
  <2> QED
    BY <2>1, <2>2
<1>3. S \subseteq Slots
  BY DEF Cancelled
<1>4. ASSUME NEW s \in S
      PROVE  jobs[s].state \in {"queued", "running", "completed", "delivered"}
  BY <1>3 DEF Cancelled, Inductive, ClientsMatch
<1>5. ASSUME NEW s \in Slots
      PROVE  s \in freed <=> s \in S /\ jobs[s].state \in {"queued", "delivered"}
  BY DEF ReleasedAtOnce, Inductive, SlotsAccounted
<1> HIDE DEF S
<1>6. ASSUME NEW s \in Slots, s \in S
      PROVE  /\ CancelledJob(s) \in JobRecords
             /\ CancelledJob(s).owner = NoConnect
             /\ CancelledJob(s).state =
                    CASE jobs[s].state \in {"queued", "delivered"} -> "free"
                      [] jobs[s].state = "running" -> "cancelled_running"
                      [] jobs[s].state = "completed" -> "cancelled"
  <2>1. jobs[s] \in JobRecords
    BY <1>0 DEF TypeOK
  <2>2. CASE jobs[s].state \in {"queued", "delivered"}
    <3>1. ReleasedAtOnce(s)
      BY <1>5, <1>6, <2>2
    <3>2. CancelledJob(s) = Released(s)
      BY <2>2, <3>1 DEF CancelledJob
    <3> QED
      BY <1>0, <2>2, <3>2, ReleasedFacts
  <2>3. CASE jobs[s].state = "running"
    <3>1. CancelledJob(s) = [jobs[s] EXCEPT !.state = "cancelled_running",
                                            !.owner = NoConnect]
      BY <2>3 DEF CancelledJob, ReleasedAtOnce
    <3>2. CancelledJob(s) \in JobRecords
      BY <2>1, <3>1, JobUpdates DEF States
    <3> QED
      BY <2>1, <2>3, <3>1, <3>2 DEF JobRecords
  <2>4. CASE jobs[s].state = "completed"
    <3>1. CancelledJob(s) = [jobs[s] EXCEPT !.state = "cancelled",
                                            !.owner = NoConnect]
      BY <2>4 DEF CancelledJob, ReleasedAtOnce
    <3>2. CancelledJob(s) \in JobRecords
      BY <2>1, <3>1, JobUpdates DEF States
    <3> QED
      BY <2>1, <2>4, <3>1, <3>2 DEF JobRecords
  <2> QED
    BY <1>4, <1>6, <2>2, <2>3, <2>4
<1>7. ASSUME NEW s \in Slots
      PROVE  jobs'[s] = IF s \in S THEN CancelledJob(s) ELSE jobs[s]
  BY <1>1
<1>8. ASSUME NEW s \in Slots, s \in S
      PROVE  /\ jobs'[s].owner = NoConnect
             /\ jobs[s].state \in {"queued", "delivered"} =>
                    jobs'[s].state = "free"
             /\ jobs[s].state = "running" =>
                    jobs'[s].state = "cancelled_running"
             /\ jobs[s].state = "completed" => jobs'[s].state = "cancelled"
  BY <1>6, <1>7, <1>8
<1>9. ASSUME NEW c \in Connects
      PROVE  conn'[c] = IF c \in C THEN IdleConnect ELSE conn[c]
  BY <1>1
<1>10. /\ Waiters(queue') = Waiters(queue) \ {s \in S : jobs[s].state = "queued"}
       /\ Reflexive(queue') /\ queue' \subseteq queue
  BY <1>1, UnlinkExact DEF Inductive, Bookkeeping
<1>11. ActiveExact' /\ activeJobs' \in 0 .. Capacity
  <2>1. freed \in SUBSET Busy
    BY <1>3, <1>5 DEF Busy, Free
  <2>2. Busy' = Busy \ freed
    BY <1>4, <1>5, <1>7, <1>8 DEF Busy, Free
  <2> HIDE DEF freed
  <2> QED
    BY <1>1, <2>1, <2>2, BusyLess
<1>12. /\ worker' \in WorkerRecords
       /\ worker'.slot = worker.slot /\ worker'.host = worker.host
       /\ worker'.pc = "running" <=> worker.pc = "running"
       /\ worker'.pc = "writing" <=> worker.pc = "writing"
       /\ worker'.pc = "exited" <=> worker.pc = "exited"
  BY <1>0, SignalledFacts DEF TypeOK
<1>13. TypeOK'
  <2>1. jobs' \in [Slots -> JobRecords]
    BY <1>0, <1>1, <1>6 DEF TypeOK
  <2>2. conn' \in [Connects -> ConnectRecords]
    BY <1>0, <1>1, IdleFacts DEF TypeOK
  <2>3. wake' \in {"off", "armed", "fired"}
    BY <1>0, <1>1 DEF TypeOK, WakeFor
  <2> QED
    BY <1>0, <1>10, <1>11, <1>12, <2>1, <2>2, <2>3 DEF TypeOK
<1>14. SlotsAccounted'
  <2>1. ASSUME NEW s \in Slots
        PROVE  /\ s \in Waiters(queue') <=> jobs'[s].state = "queued"
               /\ HeldByWorker(s)' <=>
                     jobs'[s].state \in {"running", "cancelled_running"}
               /\ s \in Waiters(completions') <=>
                     jobs'[s].state \in {"completed", "cancelled"}
    <3>1. CASE s \in S
      BY <1>4, <1>8, <1>10, <1>12, <3>1
         DEF Inductive, SlotsAccounted, HeldByWorker
    <3>2. CASE s \notin S
      BY <1>7, <1>10, <1>12, <3>2
         DEF Inductive, SlotsAccounted, HeldByWorker
    <3> QED
      BY <3>1, <3>2
  <2>2. worker'.pc = "exited" => stopping'
    BY <1>12 DEF Inductive, SlotsAccounted
  <2> QED
    BY <2>1, <2>2 DEF SlotsAccounted
<1>15. ClientsMatch'
  <2>1. ASSUME NEW c \in Connects, conn'[c].resolving
        PROVE  /\ c \notin C /\ conn'[c] = conn[c] /\ conn[c].slot \in Slots
               /\ jobs'[conn[c].slot] = jobs[conn[c].slot]
    <3>1. c \notin C /\ conn'[c] = conn[c]
      BY <1>9, <2>1, IdleFacts
    <3>2. conn[c].slot \in Slots
      BY <1>0 DEF TypeOK, ConnectRecords
    <3>3. jobs[conn[c].slot].owner = c
      BY <2>1, <3>1 DEF Inductive, ClientsMatch
    <3> QED
      BY <1>2, <1>7, <3>1, <3>2, <3>3
  <2>2. ASSUME NEW s \in Slots, jobs'[s].owner # NoConnect
        PROVE  /\ jobs'[s] = jobs[s] /\ jobs[s].owner \in Connects
               /\ conn'[jobs[s].owner] = conn[jobs[s].owner]
    <3>1. s \notin S /\ jobs'[s] = jobs[s]
      BY <1>7, <1>8, <2>2
    <3>2. jobs[s].owner \in Connects
      BY <1>0, <2>2, <3>1 DEF TypeOK, JobRecords
    <3> QED
      BY <1>2, <1>9, <3>1, <3>2
  <2> QED
    BY <2>1, <2>2 DEF Inductive, ClientsMatch
<1>16. NoLostWake'
  <2>1. freed \in SUBSET Slots
    BY <1>3
  <2>2. Cardinality(freed) \in Nat
    BY <2>1, SlotSets
  <2>3. activeJobs = 0 => activeJobs' = 0
    BY <1>1, <1>11, <2>2 DEF Inductive, TypeOK
  <2> QED
    BY <1>1, <1>12, <2>3 DEF Inductive, NoLostWake, WakeFor
<1>17. RightAnswer' /\ CompletionNotLost'
  <2>1. ASSUME NEW s \in Slots, jobs'[s].state \in {"completed", "delivered"}
        PROVE  jobs'[s].answer = jobs'[s].owner
    BY <1>4, <1>7, <1>8, <2>1 DEF Inductive, RightAnswer
  <2> QED
    BY <2>1 DEF Inductive, RightAnswer, CompletionNotLost
<1>18. Bookkeeping'
  <2>1. ASSUME NEW s \in Slots
        PROVE  /\ jobs'[s].owner = NoConnect <=> jobs'[s].state \in
                      {"free", "cancelled_running", "cancelled"}
               /\ jobs'[s].state = "queued" => jobs'[s].host = jobs'[s].owner
               /\ jobs'[s].state = "running" => worker'.host = jobs'[s].owner
    <3>1. CASE s \in S
      BY <1>4, <1>8, <3>1
    <3>2. CASE s \notin S
      BY <1>7, <1>12, <3>2 DEF Inductive, Bookkeeping
    <3> QED
      BY <3>1, <3>2
  <2> QED
    BY <1>9, <1>10, <2>1, IdleFacts DEF Inductive, Bookkeeping
<1> QED
  BY <1>11, <1>13, <1>14, <1>15, <1>16, <1>17, <1>18 DEF Inductive

\* A cancelled frame leaves the ready queue as well.
LEMMA ConnectCancelInductive ==
    ASSUME Inductive, NEW c \in Connects, ConnectCancel(c) PROVE Inductive'
<1>1. /\ Waiters(ready') = Waiters(ready) \ {c}
      /\ Reflexive(ready') /\ ready' \subseteq ready
  BY UnlinkExact DEF ConnectCancel, Inductive, Bookkeeping
<1>2. ready' \in SUBSET (Connects \X Connects)
  BY <1>1 DEF Inductive, TypeOK
<1>3. stopping \in BOOLEAN
  BY DEF Inductive, TypeOK
<1> QED
  BY <1>1, <1>2, <1>3, CancelConnectsInductive DEF ConnectCancel

\* A resumed registration times out, takes its answer or waits on; the answer
\* is always there to take.
LEMMA ConnectResumeInductive ==
    ASSUME Inductive, NEW c \in Connects, ConnectResume(c) PROVE Inductive'
<1>0. TypeOK /\ owner = "frames"
      /\ UNCHANGED <<completions, generation, worker, pipe, owner, stopping>>
  BY DEF Inductive, ConnectResume
<1>1. /\ Waiters(ready') = Waiters(ready) \ {c}
      /\ Reflexive(ready') /\ ready' \subseteq ready
  BY UnlinkExact DEF ConnectResume, Inductive, Bookkeeping
<1>2. ready' \in SUBSET (Connects \X Connects)
  BY <1>0, <1>1 DEF TypeOK
<1>3. CASE TimedOut(c)
  <2>1. stopping \in BOOLEAN
    BY <1>0 DEF TypeOK
  <2> QED
    BY <1>0, <1>1, <1>2, <1>3, <2>1, CancelConnectsInductive DEF TimedOut
<1>4. CASE StaysPending(c)
  <2>1. /\ ~conn[c].ready
        /\ UNCHANGED <<jobs, queue, activeJobs, wake, conn, lost>>
    BY <1>4 DEF StaysPending
  <2>2. TypeOK'
    BY <1>0, <1>2, <2>1 DEF TypeOK
  <2>3. SlotsAccounted' /\ ActiveExact' /\ NoLostWake' /\ RightAnswer'
        /\ CompletionNotLost'
    BY <1>0, <2>1 DEF Inductive, SlotsAccounted, ActiveExact, NoLostWake,
       RightAnswer, CompletionNotLost, HeldByWorker, Free
  <2>4. ClientsMatch'
    BY <1>1, <2>1 DEF Inductive, ClientsMatch
  <2>5. Bookkeeping'
    BY <1>0, <1>1, <2>1 DEF Inductive, Bookkeeping
  <2> QED
    BY <2>2, <2>3, <2>4, <2>5 DEF Inductive
<1>5. CASE Take(c)
  <2> DEFINE s == conn[c].slot
  <2>0. s \in Slots
    BY <1>0 DEF TypeOK, ConnectRecords
  <2>1. conn[c].resolving
    BY <1>5 DEF Take, Inductive, Bookkeeping
  <2>2. /\ jobs[s].gen = conn[c].gen /\ jobs[s].state = "delivered"
        /\ jobs[s].owner = c
    BY <1>5, <2>1 DEF Take, Inductive, ClientsMatch
  <2>3. /\ conn' = [conn EXCEPT ![c] = IdleConnect]
        /\ jobs' = [jobs EXCEPT ![s] = Released(s)]
        /\ activeJobs' = activeJobs - 1
        /\ wake' = WakeFor(activeJobs')
        /\ UNCHANGED <<lost, queue>>
    BY <1>5, <2>2 DEF Take
  <2>4. /\ Released(s) \in JobRecords /\ Released(s).state = "free"
        /\ Released(s).owner = NoConnect
    BY <1>0, <2>0, ReleasedFacts
  <2> HIDE DEF s
  <2>5. ASSUME NEW t \in Slots
        PROVE  jobs'[t] = IF t = s THEN Released(s) ELSE jobs[t]
    BY <1>0, <2>3 DEF TypeOK
  <2>6. ASSUME NEW d \in Connects
        PROVE  conn'[d] = IF d = c THEN IdleConnect ELSE conn[d]
    BY <1>0, <2>3 DEF TypeOK
  <2>7. ActiveExact' /\ activeJobs' \in 0 .. Capacity
    <3>1. s \in Busy
      BY <2>0, <2>2 DEF Busy, Free, s
    <3>2. Busy' = Busy \ {s}
      BY <2>4, <2>5 DEF Busy, Free
    <3> QED
      BY <2>3, <3>1, <3>2, BusyOneLess
  <2>8. TypeOK'
    <3>1. jobs' \in [Slots -> JobRecords]
      BY <1>0, <2>3, <2>4 DEF TypeOK
    <3>2. conn' \in [Connects -> ConnectRecords]
      BY <1>0, <2>3, IdleFacts DEF TypeOK
    <3>3. wake' \in {"off", "armed", "fired"}
      BY <1>0, <2>3 DEF TypeOK, WakeFor
    <3> QED
      BY <1>0, <1>2, <2>3, <2>7, <3>1, <3>2, <3>3 DEF TypeOK
  <2>9. jobs[s].state = "delivered" /\ jobs[s].owner = c
    BY <2>2 DEF s
  <2>10. SlotsAccounted'
    BY <1>0, <2>3, <2>4, <2>5, <2>9 DEF Inductive, SlotsAccounted, HeldByWorker
  <2>11. ClientsMatch'
    <3>1. ASSUME NEW d \in Connects, conn'[d].resolving
          PROVE  /\ d # c /\ conn'[d] = conn[d] /\ conn[d].slot \in Slots
                 /\ jobs'[conn[d].slot] = jobs[conn[d].slot]
      <4>1. d # c /\ conn'[d] = conn[d]
        BY <2>6, <3>1, IdleFacts
      <4>2. conn[d].slot \in Slots
        BY <1>0 DEF TypeOK, ConnectRecords
      <4>3. jobs[conn[d].slot].owner = d
        BY <3>1, <4>1 DEF Inductive, ClientsMatch
      <4> QED
        BY <2>5, <2>9, <4>1, <4>2, <4>3
    <3>2. ASSUME NEW t \in Slots, jobs'[t].owner # NoConnect
          PROVE  /\ jobs'[t] = jobs[t] /\ jobs[t].owner \in Connects
                 /\ conn'[jobs[t].owner] = conn[jobs[t].owner]
      <4>1. t # s /\ jobs'[t] = jobs[t]
        BY <2>4, <2>5, <3>2
      <4>2. jobs[t].owner \in Connects
        BY <1>0, <3>2, <4>1 DEF TypeOK, JobRecords
      <4>3. jobs[t].owner # c
        BY <3>2, <4>1 DEF Inductive, ClientsMatch, s
      <4> QED
        BY <2>6, <4>1, <4>2, <4>3
    <3> QED
      BY <1>1, <3>1, <3>2 DEF Inductive, ClientsMatch
  <2>12. NoLostWake'
    BY <1>0, <2>3, <2>7 DEF Inductive, NoLostWake, WakeFor, TypeOK
  <2>13. RightAnswer' /\ CompletionNotLost'
    BY <2>3, <2>4, <2>5 DEF Inductive, RightAnswer, CompletionNotLost
  <2>14. Bookkeeping'
    BY <1>0, <1>1, <2>3, <2>4, <2>5, <2>6, IdleFacts DEF Inductive, Bookkeeping
  <2> QED
    BY <2>7, <2>8, <2>10, <2>11, <2>12, <2>13, <2>14 DEF Inductive
<1> QED
  BY <1>3, <1>4, <1>5 DEF ConnectResume

-----------------------------------------------------------------------------
(* The owner waits: timers and deliveries.                                 *)

\* An expired timer makes its frame ready and touches no job.
LEMMA TimerExpireInductive ==
    ASSUME Inductive, NEW c \in Connects, TimerExpire(c) PROVE Inductive'
<1>0. TypeOK /\ UNCHANGED <<poolVars, worker, pipe, wake, owner, stopping, lost>>
  BY DEF Inductive, TimerExpire
<1>1. UNCHANGED <<jobs, queue, completions, activeJobs, generation>>
  BY <1>0 DEF poolVars
<1>2. /\ Waiters(ready') = Waiters(ready) \cup {c} /\ Reflexive(ready')
      /\ ready' \in SUBSET (Connects \X Connects)
  BY <1>0, LinkTailExact, ListTypes
     DEF TimerExpire, Inductive, Bookkeeping, TypeOK
<1>3. conn' = [conn EXCEPT ![c].timer = "expired"]
  BY DEF TimerExpire
<1>4. conn' \in [Connects -> ConnectRecords]
  <2>1. conn[c] \in ConnectRecords
    BY <1>0 DEF TypeOK
  <2>2. [conn[c] EXCEPT !.timer = "expired"] \in ConnectRecords
    BY <2>1 DEF ConnectRecords
  <2> QED
    BY <1>0, <1>3, <2>2 DEF TypeOK
<1>5. ASSUME NEW d \in Connects
      PROVE  /\ conn'[d].resolving = conn[d].resolving
             /\ conn'[d].ready = conn[d].ready
             /\ conn'[d].slot = conn[d].slot
             /\ conn'[d].gen = conn[d].gen
  BY <1>0, <1>3 DEF TypeOK, ConnectRecords
<1>6. TypeOK'
  BY <1>0, <1>1, <1>2, <1>4 DEF TypeOK
<1>7. SlotsAccounted' /\ ActiveExact' /\ NoLostWake' /\ RightAnswer'
      /\ CompletionNotLost'
  BY <1>0, <1>1 DEF Inductive, SlotsAccounted, ActiveExact, NoLostWake,
     RightAnswer, CompletionNotLost, HeldByWorker, Free
<1>8. ClientsMatch'
  <2>1. ASSUME NEW s \in Slots, jobs[s].owner # NoConnect
        PROVE  jobs[s].owner \in Connects
    BY <1>0, <2>1 DEF TypeOK, JobRecords
  <2> QED
    BY <1>1, <1>2, <1>5, <2>1 DEF Inductive, ClientsMatch
<1>9. Bookkeeping'
  BY <1>0, <1>1, <1>2, <1>5 DEF Inductive, Bookkeeping
<1> QED
  BY <1>6, <1>7, <1>8, <1>9 DEF Inductive

\* Steps that touch neither jobs nor clients: the drain, the end of a
\* delivery, the rearming and the join.
LEMMA OwnerMoves ==
    ASSUME Inductive, UNCHANGED <<poolVars, worker, stopping, conn, ready, lost>>,
           pipe' \in 0 .. PipeCapacity, wake' \in {"off", "armed", "fired"},
           owner' \in {"frames", "delivering", "rearming", "joining", "stopped"},
           NoLostWake',
           owner' = "rearming" /\ completions # {} =>
               pipe' > 0 \/ worker.pc = "writing"
    PROVE  Inductive'
<1>1. UNCHANGED <<jobs, queue, completions, activeJobs, generation>>
  BY DEF poolVars
<1>2. TypeOK'
  BY <1>1 DEF Inductive, TypeOK
<1>3. SlotsAccounted' /\ ActiveExact' /\ RightAnswer' /\ CompletionNotLost'
  BY <1>1 DEF Inductive, SlotsAccounted, ActiveExact, RightAnswer,
     CompletionNotLost, HeldByWorker, Free
<1>4. ClientsMatch'
  BY <1>1 DEF Inductive, ClientsMatch
<1>5. Bookkeeping'
  BY <1>1 DEF Inductive, Bookkeeping
<1> QED
  BY <1>2, <1>3, <1>4, <1>5 DEF Inductive

\* The pipe is drained and the deliveries begin.
LEMMA CompletionWakeInductive ==
    ASSUME Inductive, CompletionWake PROVE Inductive'
<1>1. NoLostWake' /\ owner' = "delivering"
  BY DEF CompletionWake, NoLostWake
<1> QED
  BY <1>1, OwnerMoves DEF CompletionWake

\* The ring is empty.
LEMMA DeliverDoneInductive ==
    ASSUME Inductive, DeliverDone PROVE Inductive'
<1>1. NoLostWake' /\ owner' = "rearming" /\ completions = {}
  BY DEF DeliverDone, NoLostWake
<1>2. pipe \in 0 .. PipeCapacity /\ wake \in {"off", "armed", "fired"}
  BY DEF Inductive, TypeOK
<1> QED
  BY <1>1, <1>2, OwnerMoves DEF DeliverDone

\* The registration is in step with the outstanding jobs again.
LEMMA RearmInductive == ASSUME Inductive, Rearm PROVE Inductive'
<1>1. UNCHANGED <<completions, activeJobs, pipe, worker>>
  BY DEF Rearm, poolVars
<1>2. NoLostWake' /\ owner' = "frames"
  BY <1>1 DEF Rearm, NoLostWake, Inductive, Bookkeeping
<1>3. pipe \in 0 .. PipeCapacity
  BY DEF Inductive, TypeOK
<1> QED
  BY <1>1, <1>2, <1>3, OwnerMoves DEF Rearm

\* The worker is gone.
LEMMA JoinInductive == ASSUME Inductive, Join PROVE Inductive'
<1>1. NoLostWake' /\ owner' = "stopped"
  BY DEF Join, NoLostWake
<1>2. pipe \in 0 .. PipeCapacity
  BY DEF Inductive, TypeOK
<1> QED
  BY <1>1, <1>2, OwnerMoves DEF Join

\* A completion reaches the registration that waits for it; a cancelled job's
\* slot is free again.
LEMMA DeliverOneInductive ==
    ASSUME Inductive, NEW s \in Slots, DeliverOne(s) PROVE Inductive'
<1>0. /\ TypeOK /\ owner = "delivering"
      /\ UNCHANGED <<queue, generation, worker, pipe, wake, owner, stopping,
                     lost>>
  BY DEF Inductive, DeliverOne
<1>1. /\ Waiters(completions') = Waiters(completions) \ {s}
      /\ Reflexive(completions') /\ completions' \subseteq completions
  BY UnlinkExact DEF DeliverOne, Inductive, Bookkeeping
<1>2. completions' \in SUBSET (Slots \X Slots)
  BY <1>0, <1>1 DEF TypeOK
<1>3. CASE jobs[s].state = "completed"
  <2> DEFINE c == jobs[s].owner
             j == [jobs[s] EXCEPT !.state = "delivered"]
             k == [conn[c] EXCEPT !.ready = TRUE]
  <2>1. jobs[s] \in JobRecords /\ c # NoConnect /\ c \in Connects
    BY <1>0, <1>3 DEF TypeOK, JobRecords, Inductive, Bookkeeping
  <2>2. /\ conn[c].resolving /\ conn[c].slot = s
        /\ conn[c].gen = jobs[s].gen
    BY <2>1 DEF Inductive, ClientsMatch
  <2>3. /\ jobs' = [jobs EXCEPT ![s] = j]
        /\ conn' = [conn EXCEPT ![c] = k]
        /\ ready' = LinkTail(ready, c)
        /\ UNCHANGED activeJobs
    BY <1>0, <1>3, <2>2 DEF DeliverOne, Completes, TypeOK
  <2>4. /\ j \in JobRecords /\ j.state = "delivered" /\ j.owner = c
        /\ j.answer = jobs[s].answer /\ j.gen = jobs[s].gen
    <3>1. j \in JobRecords
      BY <2>1, JobUpdates DEF States
    <3>2. /\ j.state = "delivered" /\ j.owner = c
          /\ j.answer = jobs[s].answer /\ j.gen = jobs[s].gen
      BY <2>1 DEF JobRecords
    <3> QED
      BY <3>1, <3>2
  <2>5. conn[c] \in ConnectRecords
    BY <1>0, <2>1 DEF TypeOK
  <2>6. /\ k \in ConnectRecords /\ k.resolving /\ k.ready /\ k.slot = s
        /\ k.gen = jobs[s].gen
    BY <2>2, <2>5 DEF ConnectRecords
  <2>7. /\ Waiters(ready') = Waiters(ready) \cup {c} /\ Reflexive(ready')
        /\ ready' \in SUBSET (Connects \X Connects)
    BY <1>0, <2>1, <2>3, LinkTailExact, ListTypes
       DEF Inductive, Bookkeeping, TypeOK
  <2>8. jobs[s].answer = c
    BY <1>3 DEF Inductive, RightAnswer
  <2> HIDE DEF j, k
  <2>9. ASSUME NEW t \in Slots PROVE jobs'[t] = IF t = s THEN j ELSE jobs[t]
    BY <1>0, <2>3 DEF TypeOK
  <2>10. ASSUME NEW d \in Connects PROVE conn'[d] = IF d = c THEN k ELSE conn[d]
    BY <1>0, <2>3 DEF TypeOK
  <2>11. ActiveExact' /\ activeJobs' \in 0 .. Capacity
    <3>1. Busy' = Busy
      BY <1>3, <2>4, <2>9 DEF Busy, Free
    <3> QED
      BY <2>3, <3>1, BusySame
  <2>12. TypeOK'
    <3>1. jobs' \in [Slots -> JobRecords] /\ conn' \in [Connects -> ConnectRecords]
      BY <1>0, <2>3, <2>4, <2>6 DEF TypeOK
    <3> QED
      BY <1>0, <1>2, <2>7, <2>11, <3>1 DEF TypeOK
  <2>13. SlotsAccounted'
    BY <1>0, <1>1, <1>3, <2>4, <2>9 DEF Inductive, SlotsAccounted, HeldByWorker
  <2>14. ClientsMatch'
    <3>1. ASSUME NEW d \in Connects, d # c, conn[d].resolving
          PROVE  conn[d].slot # s /\ conn[d].slot \in Slots
      BY <1>0, <3>1 DEF Inductive, ClientsMatch, TypeOK, ConnectRecords
    <3>2. ASSUME NEW d \in Connects, conn'[d].resolving
          PROVE  LET i == jobs'[conn'[d].slot]
                 IN /\ i.owner = d /\ i.gen = conn'[d].gen
                    /\ i.state \in {"queued", "running", "completed",
                                    "delivered"}
                    /\ conn'[d].ready <=> i.state = "delivered"
                    /\ conn'[d].ready => d \in Waiters(ready')
      <4>1. CASE d = c
        BY <2>4, <2>6, <2>7, <2>9, <2>10, <4>1
      <4>2. CASE d # c
        BY <2>7, <2>9, <2>10, <3>1, <3>2, <4>2 DEF Inductive, ClientsMatch
      <4> QED
        BY <4>1, <4>2
    <3>3. ASSUME NEW t \in Slots, jobs'[t].owner # NoConnect
          PROVE  /\ conn'[jobs'[t].owner].resolving
                 /\ conn'[jobs'[t].owner].slot = t
      <4>1. CASE t = s
        BY <2>1, <2>4, <2>6, <2>9, <2>10, <4>1
      <4>2. CASE t # s
        <5>1. jobs'[t] = jobs[t] /\ jobs[t].owner \in Connects
          BY <1>0, <2>9, <3>3, <4>2 DEF TypeOK, JobRecords
        <5>2. conn[jobs[t].owner].resolving /\ conn[jobs[t].owner].slot = t
          BY <3>3, <5>1 DEF Inductive, ClientsMatch
        <5> QED
          BY <2>2, <2>10, <4>2, <5>1, <5>2
      <4> QED
        BY <4>1, <4>2
    <3> QED
      BY <3>2, <3>3 DEF ClientsMatch
  <2>15. NoLostWake' /\ RightAnswer' /\ CompletionNotLost'
    BY <1>0, <2>4, <2>8, <2>9
       DEF Inductive, NoLostWake, RightAnswer, CompletionNotLost
  <2>16. Bookkeeping'
    BY <1>0, <1>1, <1>3, <2>1, <2>4, <2>6, <2>7, <2>9, <2>10
       DEF Inductive, Bookkeeping
  <2> QED
    BY <2>11, <2>12, <2>13, <2>14, <2>15, <2>16 DEF Inductive
<1>4. CASE jobs[s].state = "cancelled"
  <2>1. /\ jobs' = [jobs EXCEPT ![s] = Released(s)]
        /\ activeJobs' = activeJobs - 1
        /\ UNCHANGED <<conn, ready>>
    BY <1>4 DEF DeliverOne
  <2>2. /\ Released(s) \in JobRecords /\ Released(s).state = "free"
        /\ Released(s).owner = NoConnect
    BY <1>0, ReleasedFacts
  <2>3. ASSUME NEW t \in Slots
        PROVE  jobs'[t] = IF t = s THEN Released(s) ELSE jobs[t]
    BY <1>0, <2>1 DEF TypeOK
  <2>4. ActiveExact' /\ activeJobs' \in 0 .. Capacity
    <3>1. s \in Busy /\ Busy' = Busy \ {s}
      BY <1>4, <2>2, <2>3 DEF Busy, Free
    <3> QED
      BY <2>1, <3>1, BusyOneLess
  <2>5. TypeOK'
    <3>1. jobs' \in [Slots -> JobRecords]
      BY <1>0, <2>1, <2>2 DEF TypeOK
    <3> QED
      BY <1>0, <1>2, <2>1, <2>4, <3>1 DEF TypeOK
  <2>6. SlotsAccounted'
    BY <1>0, <1>1, <1>4, <2>2, <2>3 DEF Inductive, SlotsAccounted, HeldByWorker
  <2>7. ClientsMatch'
    <3>1. ASSUME NEW d \in Connects, conn[d].resolving
          PROVE  conn[d].slot # s /\ conn[d].slot \in Slots
      BY <1>0, <1>4, <3>1 DEF Inductive, ClientsMatch, TypeOK, ConnectRecords
    <3> QED
      BY <2>1, <2>2, <2>3, <3>1 DEF Inductive, ClientsMatch
  <2>8. NoLostWake' /\ RightAnswer' /\ CompletionNotLost'
    BY <1>0, <2>2, <2>3 DEF Inductive, NoLostWake, RightAnswer, CompletionNotLost
  <2>9. Bookkeeping'
    BY <1>0, <1>1, <2>1, <2>2, <2>3 DEF Inductive, Bookkeeping
  <2> QED
    BY <2>4, <2>5, <2>6, <2>7, <2>8, <2>9 DEF Inductive
<1> QED
  BY <1>3, <1>4 DEF DeliverOne

\* Shutting down, with nothing left to do or after a panic.
LEMMA ShutdownInductive == ASSUME Inductive, Shutdown PROVE Inductive'
<1>0. /\ TypeOK /\ owner = "frames" /\ owner' = "joining" /\ stopping' = TRUE
      /\ worker' = Signalled
      /\ UNCHANGED <<completions, generation, pipe, lost>>
  BY DEF Inductive, Shutdown
<1>1. CASE UNCHANGED <<jobs, queue, activeJobs, wake, conn, ready>>
  <2>1. /\ worker' \in WorkerRecords
        /\ worker'.slot = worker.slot /\ worker'.host = worker.host
        /\ worker'.pc = "running" <=> worker.pc = "running"
        /\ worker'.pc = "exited" <=> worker.pc = "exited"
    BY <1>0, SignalledFacts
  <2>2. TypeOK'
    BY <1>0, <1>1, <2>1 DEF TypeOK
  <2>3. SlotsAccounted' /\ ActiveExact' /\ NoLostWake' /\ RightAnswer'
        /\ CompletionNotLost'
    BY <1>0, <1>1, <2>1 DEF Inductive, SlotsAccounted, ActiveExact, NoLostWake,
       RightAnswer, CompletionNotLost, HeldByWorker, Free
  <2>4. ClientsMatch' /\ Bookkeeping'
    BY <1>0, <1>1, <2>1 DEF Inductive, ClientsMatch, Bookkeeping
  <2> QED
    BY <2>2, <2>3, <2>4 DEF Inductive
<1>2. CASE CancelConnects(Connects) /\ ready' = {}
  <2>1. /\ ready' \in SUBSET (Connects \X Connects) /\ Waiters(ready') = {}
        /\ Reflexive(ready')
    BY <1>2, NoWaiters DEF Reflexive
  <2>2. Waiters(ready) \ Connects \subseteq Waiters(ready')
    BY <1>0 DEF TypeOK, Waiters
  <2> QED
    BY <1>0, <1>2, <2>1, <2>2, CancelConnectsInductive
<1> QED
  BY <1>1, <1>2 DEF Shutdown, RunRootReturns

-----------------------------------------------------------------------------
(* The worker.                                                             *)

\* Steps of the worker that touch no job.
LEMMA WorkerMoves ==
    ASSUME Inductive,
           UNCHANGED <<poolVars, wake, owner, stopping, conn, ready, lost>>,
           NEW pc \in {"ready", "asleep", "exited"},
           worker' = [worker EXCEPT !.pc = pc], pc = "exited" => stopping,
           worker.pc # "running",
           \/ pipe' = pipe /\ worker.pc # "writing"
           \/ pipe' \in 1 .. PipeCapacity
    PROVE  Inductive'
<1>1. UNCHANGED <<jobs, queue, completions, activeJobs, generation>>
  BY DEF poolVars
<1>2. /\ worker' \in WorkerRecords /\ worker'.pc = pc
      /\ worker'.slot = worker.slot /\ worker'.host = worker.host
  BY DEF Inductive, TypeOK, WorkerRecords
<1>3. pipe' \in 0 .. PipeCapacity
  BY DEF Inductive, TypeOK
<1>4. TypeOK'
  BY <1>1, <1>2, <1>3 DEF Inductive, TypeOK
<1>5. SlotsAccounted' /\ ActiveExact' /\ RightAnswer' /\ CompletionNotLost'
  BY <1>1, <1>2 DEF Inductive, SlotsAccounted, ActiveExact, RightAnswer,
     CompletionNotLost, HeldByWorker, Free
<1>6. ClientsMatch'
  BY <1>1 DEF Inductive, ClientsMatch
<1>7. NoLostWake'
  BY <1>1, <1>2, <1>3 DEF Inductive, NoLostWake
<1>8. Bookkeeping'
  BY <1>1, <1>2, <1>3 DEF Inductive, Bookkeeping
<1> QED
  BY <1>4, <1>5, <1>6, <1>7, <1>8 DEF Inductive

\* Sleeping, waking without a signal, exiting.
LEMMA WorkerIdleInductive ==
    ASSUME Inductive, WorkerSleep \/ WorkerWakesSpuriously \/ WorkerExit
    PROVE  Inductive'
<1>1. CASE WorkerSleep
  BY <1>1, WorkerMoves DEF WorkerSleep
<1>2. CASE WorkerWakesSpuriously
  BY <1>2, WorkerMoves DEF WorkerWakesSpuriously
<1>3. CASE WorkerExit
  BY <1>3, WorkerMoves DEF WorkerExit
<1> QED
  BY <1>1, <1>2, <1>3

\* The wake byte.
LEMMA WorkerWriteInductive == ASSUME Inductive, WorkerWrite PROVE Inductive'
<1>1. pipe' \in 1 .. PipeCapacity
  BY DEF WorkerWrite, Inductive, TypeOK
<1> QED
  BY <1>1, WorkerMoves DEF WorkerWrite

\* The worker takes the oldest job, which is still queued.
LEMMA WorkerTakeInductive ==
    ASSUME Inductive, NEW s \in Slots, WorkerTake(s) PROVE Inductive'
<1>0. /\ TypeOK /\ worker.pc = "ready"
      /\ UNCHANGED <<completions, activeJobs, generation, pipe, wake, owner,
                     stopping, conn, ready, lost>>
  BY DEF Inductive, WorkerTake
<1>1. s \in Waiters(queue) /\ jobs[s].state = "queued"
  BY DEF WorkerTake, IsHead, Inductive, SlotsAccounted
<1> DEFINE j == [jobs[s] EXCEPT !.state = "running"]
<1>2. /\ jobs' = [jobs EXCEPT ![s] = j]
      /\ worker' = [pc |-> "running", slot |-> s, host |-> jobs[s].host]
  BY <1>0, <1>1 DEF WorkerTake, TypeOK
<1>3. jobs[s] \in JobRecords /\ jobs[s].host = jobs[s].owner
      /\ jobs[s].owner # NoConnect
  BY <1>0, <1>1 DEF TypeOK, Inductive, Bookkeeping
<1>4. j \in JobRecords
  BY <1>3, JobUpdates DEF States
<1>5. /\ j.state = "running" /\ j.owner = jobs[s].owner /\ j.gen = jobs[s].gen
      /\ j.host = jobs[s].host
  BY <1>3 DEF JobRecords
<1> HIDE DEF j
<1>6. ASSUME NEW t \in Slots PROVE jobs'[t] = IF t = s THEN j ELSE jobs[t]
  BY <1>0, <1>2 DEF TypeOK
<1>7. /\ worker' \in WorkerRecords /\ worker'.pc = "running"
      /\ worker'.slot = s /\ worker'.host = jobs[s].owner
  BY <1>2, <1>3 DEF WorkerRecords, JobRecords
<1>8. /\ Waiters(queue') = Waiters(queue) \ {s} /\ Reflexive(queue')
      /\ queue' \subseteq queue
  BY UnlinkExact DEF WorkerTake, Inductive, Bookkeeping
<1>9. ActiveExact' /\ activeJobs' \in 0 .. Capacity
  <2>1. Busy' = Busy
    BY <1>1, <1>5, <1>6 DEF Busy, Free
  <2> QED
    BY <1>0, <2>1, BusySame
<1>10. TypeOK'
  <2>1. jobs' \in [Slots -> JobRecords]
    BY <1>0, <1>2, <1>4 DEF TypeOK
  <2> QED
    BY <1>0, <1>7, <1>8, <2>1 DEF TypeOK
<1>11. SlotsAccounted'
  BY <1>0, <1>1, <1>5, <1>6, <1>7, <1>8
     DEF Inductive, SlotsAccounted, HeldByWorker
<1>12. ClientsMatch'
  <2>1. ASSUME NEW d \in Connects PROVE conn[d].slot \in Slots
    BY <1>0 DEF TypeOK, ConnectRecords
  <2> QED
    BY <1>0, <1>1, <1>5, <1>6, <2>1 DEF Inductive, ClientsMatch
<1>13. NoLostWake' /\ RightAnswer' /\ CompletionNotLost'
  BY <1>0, <1>5, <1>6, <1>7
     DEF Inductive, NoLostWake, RightAnswer, CompletionNotLost
<1>14. Bookkeeping'
  <2>1. ASSUME NEW t \in Slots, t # s PROVE jobs[t].state # "running"
    BY <1>0 DEF Inductive, SlotsAccounted, HeldByWorker
  <2> QED
    BY <1>0, <1>1, <1>3, <1>5, <1>6, <1>7, <1>8, <2>1 DEF Inductive, Bookkeeping
<1> QED
  BY <1>9, <1>10, <1>11, <1>12, <1>13, <1>14 DEF Inductive

\* The worker publishes: the ring has room, and a job that was cancelled in
\* the meantime gets no answer.
LEMMA WorkerPublishInductive == ASSUME Inductive, WorkerPublish PROVE Inductive'
<1> DEFINE s == worker.slot
           j == jobs'[s]
<1>0. /\ TypeOK /\ worker.pc = "running"
      /\ UNCHANGED <<queue, activeJobs, generation, pipe, wake, owner, stopping,
                     conn, ready, lost>>
  BY DEF Inductive, WorkerPublish
<1>1. /\ s \in Slots /\ worker.host \in Connects \cup {NoConnect}
      /\ jobs[s] \in JobRecords
  BY <1>0 DEF TypeOK, WorkerRecords
<1>2. jobs[s].state \in {"running", "cancelled_running"}
  BY <1>0, <1>1 DEF Inductive, SlotsAccounted, HeldByWorker
<1>3. s \notin Waiters(completions)
  BY <1>1, <1>2 DEF Inductive, SlotsAccounted
<1>4. /\ worker' = [worker EXCEPT !.pc = "writing"]
      /\ completions' = LinkTail(completions, s)
  <2>1. Waiters(completions) \in SUBSET Slots
    BY <1>0, <1>1, ListTypes DEF TypeOK
  <2>2. Cardinality(Waiters(completions)) # Capacity
    BY <1>1, <1>3, <2>1, SlotMissing
  <2> QED
    BY <2>2 DEF WorkerPublish
<1>5. /\ Waiters(completions') = Waiters(completions) \cup {s}
      /\ Reflexive(completions') /\ completions' \in SUBSET (Slots \X Slots)
  BY <1>0, <1>1, <1>4, LinkTailExact, ListTypes
     DEF Inductive, Bookkeeping, TypeOK
<1>6. /\ worker' \in WorkerRecords /\ worker'.pc = "writing"
      /\ worker'.slot = s /\ worker'.host = worker.host
  BY <1>0, <1>4 DEF TypeOK, WorkerRecords
<1>7. /\ j \in JobRecords /\ j.owner = jobs[s].owner /\ j.gen = jobs[s].gen
      /\ jobs[s].state = "running" =>
             j.state = "completed" /\ j.answer = worker.host
      /\ jobs[s].state = "cancelled_running" => j.state = "cancelled"
      /\ \A t \in Slots \ {s} : jobs'[t] = jobs[t]
      /\ jobs' \in [Slots -> JobRecords]
  <2>1. CASE jobs[s].state = "running"
    <3> DEFINE k == [jobs[s] EXCEPT !.state = "completed",
                                    !.answer = worker.host]
    <3>1. jobs' = [jobs EXCEPT ![s] = k]
      BY <2>1 DEF WorkerPublish
    <3>2. k \in JobRecords
      BY <1>1, JobUpdates DEF States
    <3>3. /\ k.owner = jobs[s].owner /\ k.gen = jobs[s].gen
          /\ k.state = "completed" /\ k.answer = worker.host
      BY <1>1 DEF JobRecords
    <3> HIDE DEF k
    <3>4. j = k /\ \A t \in Slots \ {s} : jobs'[t] = jobs[t]
      BY <1>0, <1>1, <3>1 DEF TypeOK
    <3> QED
      BY <1>0, <2>1, <3>1, <3>2, <3>3, <3>4 DEF TypeOK
  <2>2. CASE jobs[s].state = "cancelled_running"
    <3> DEFINE k == [jobs[s] EXCEPT !.state = "cancelled"]
    <3>1. jobs' = [jobs EXCEPT ![s] = k]
      BY <2>2 DEF WorkerPublish
    <3>2. k \in JobRecords
      BY <1>1, JobUpdates DEF States
    <3>3. /\ k.owner = jobs[s].owner /\ k.gen = jobs[s].gen
          /\ k.state = "cancelled"
      BY <1>1 DEF JobRecords
    <3> HIDE DEF k
    <3>4. j = k /\ \A t \in Slots \ {s} : jobs'[t] = jobs[t]
      BY <1>0, <1>1, <3>1 DEF TypeOK
    <3> QED
      BY <1>0, <2>2, <3>1, <3>2, <3>3, <3>4 DEF TypeOK
  <2> QED
    BY <1>2, <2>1, <2>2
<1> HIDE DEF s
<1>8. ActiveExact' /\ activeJobs' \in 0 .. Capacity
  <2>1. Busy' = Busy
    BY <1>1, <1>2, <1>7 DEF Busy, Free
  <2> QED
    BY <1>0, <2>1, BusySame
<1>9. TypeOK'
  BY <1>0, <1>5, <1>6, <1>7 DEF TypeOK
<1>10. SlotsAccounted'
  <2>1. \A t \in Slots : HeldByWorker(t) <=> t = s
    BY <1>0 DEF HeldByWorker, s
  <2>2. \A t \in Slots : ~HeldByWorker(t)'
    BY <1>6 DEF HeldByWorker
  <2> QED
    BY <1>0, <1>1, <1>2, <1>5, <1>6, <1>7, <2>1, <2>2
       DEF Inductive, SlotsAccounted
<1>11. ClientsMatch'
  <2>1. ASSUME NEW d \in Connects PROVE conn[d].slot \in Slots
    BY <1>0 DEF TypeOK, ConnectRecords
  <2>2. jobs[s].owner # NoConnect => jobs[s].state = "running"
    BY <1>1, <1>2 DEF Inductive, Bookkeeping
  <2>3. ASSUME NEW d \in Connects, conn[d].resolving, conn[d].slot = s
        PROVE  jobs[s].state = "running" /\ ~conn[d].ready
    BY <1>2, <2>3 DEF Inductive, ClientsMatch
  <2>4. ASSUME NEW d \in Connects, conn'[d].resolving
        PROVE  LET i == jobs'[conn'[d].slot]
               IN /\ i.owner = d /\ i.gen = conn'[d].gen
                  /\ i.state \in {"queued", "running", "completed",
                                  "delivered"}
                  /\ conn'[d].ready <=> i.state = "delivered"
                  /\ conn'[d].ready => d \in Waiters(ready')
    <3>1. CASE conn[d].slot = s
      BY <1>0, <1>7, <2>3, <2>4, <3>1 DEF Inductive, ClientsMatch
    <3>2. CASE conn[d].slot # s
      BY <1>0, <1>7, <2>1, <2>4, <3>2 DEF Inductive, ClientsMatch
    <3> QED
      BY <3>1, <3>2
  <2> QED
    BY <1>0, <1>1, <1>7, <2>4 DEF Inductive, ClientsMatch
<1>12. NoLostWake'
  BY <1>0, <1>6 DEF Inductive, NoLostWake
<1>13. RightAnswer' /\ CompletionNotLost'
  BY <1>0, <1>1, <1>2, <1>7
     DEF Inductive, RightAnswer, CompletionNotLost, Bookkeeping
<1>14. Bookkeeping'
  <2>1. ASSUME NEW t \in Slots, t # s PROVE jobs[t].state # "running"
    BY <1>0, <2>1 DEF Inductive, SlotsAccounted, HeldByWorker, s
  <2> QED
    BY <1>0, <1>1, <1>2, <1>5, <1>6, <1>7, <2>1 DEF Inductive, Bookkeeping
<1> QED
  BY <1>8, <1>9, <1>10, <1>11, <1>12, <1>13, <1>14 DEF Inductive

-----------------------------------------------------------------------------
(* The theorems.                                                           *)

\* The invariant holds in a pool that was just initialised.
LEMMA InitInductive == Init => Inductive
<1> SUFFICES ASSUME Init PROVE Inductive
  OBVIOUS
<1>1. \A s \in Slots : jobs[s] = FreeJob
  BY DEF Init
<1>2. \A c \in Connects : conn[c] = IdleConnect
  BY DEF Init
<1>3. FreeJob \in JobRecords /\ FreeJob.state = "free"
      /\ FreeJob.owner = NoConnect
  BY DEF FreeJob, JobRecords, States
<1>4. Waiters(queue) = {} /\ Waiters(completions) = {} /\ Waiters(ready) = {}
  BY NoWaiters DEF Init
<1>5. TypeOK
  <2>1. jobs \in [Slots -> JobRecords]
    BY <1>3 DEF Init
  <2>2. conn \in [Connects -> ConnectRecords]
    BY IdleFacts DEF Init
  <2>3. worker \in WorkerRecords
    BY DEF Init, WorkerRecords, Slots
  <2>4. activeJobs \in 0 .. Capacity /\ generation \in 0 .. MaxGeneration
        /\ pipe \in 0 .. PipeCapacity
    BY DEF Init
  <2>5. queue \subseteq Slots \X Slots /\ completions \subseteq Slots \X Slots
        /\ ready \subseteq Connects \X Connects
    BY DEF Init
  <2> QED
    BY <2>1, <2>2, <2>3, <2>4, <2>5 DEF Init, TypeOK
<1>6. ActiveExact
  <2>1. {s \in Slots : ~Free(s)} = {}
    BY <1>1, <1>3 DEF Free
  <2> QED
    BY <2>1, FS_EmptySet DEF Init, ActiveExact
<1>7. SlotsAccounted
  BY <1>1, <1>3, <1>4 DEF Init, SlotsAccounted, HeldByWorker
<1>8. ClientsMatch
  BY <1>1, <1>2, <1>3, IdleFacts DEF ClientsMatch
<1>9. NoLostWake /\ RightAnswer /\ CompletionNotLost
  BY <1>1, <1>3 DEF Init, NoLostWake, RightAnswer, CompletionNotLost
<1>10. Bookkeeping
  BY <1>1, <1>2, <1>3, <1>4, IdleFacts DEF Init, Bookkeeping, Reflexive
<1> QED
  BY <1>5, <1>6, <1>7, <1>8, <1>9, <1>10 DEF Inductive

\* Every step of either thread preserves the invariant.
LEMMA NextInductive == Inductive /\ [Next]_vars => Inductive'
<1> SUFFICES ASSUME Inductive, [Next]_vars PROVE Inductive'
  OBVIOUS
<1>1. ASSUME NEW c \in Connects,
             \/ ConnectStart(c) \/ ConnectResume(c)
             \/ ConnectCancel(c) \/ TimerExpire(c)
      PROVE  Inductive'
  BY <1>1, ConnectStartInductive, ConnectResumeInductive,
     ConnectCancelInductive, TimerExpireInductive
<1>2. CASE Delivery
  BY <1>2, CompletionWakeInductive, DeliverDoneInductive, RearmInductive,
     DeliverOneInductive DEF Delivery
<1>3. CASE Shutdown \/ Join
  BY <1>3, ShutdownInductive, JoinInductive
<1>4. CASE Worker \/ WorkerWakesSpuriously
  BY <1>4, WorkerIdleInductive, WorkerPublishInductive, WorkerWriteInductive,
     WorkerTakeInductive DEF Worker
<1>5. CASE UNCHANGED vars
  BY <1>5 DEF vars, Inductive, TypeOK, SlotsAccounted, ActiveExact,
     ClientsMatch, NoLostWake, RightAnswer, CompletionNotLost, Bookkeeping,
     HeldByWorker, Free
<1> QED
  BY <1>1, <1>2, <1>3, <1>4, <1>5 DEF Next

\* The inductive invariant holds for pools of every size.
THEOREM InductiveHolds == Spec => []Inductive
<1>1. Init => Inductive
  BY InitInductive
<1>2. Inductive /\ [Next]_vars => Inductive'
  BY NextInductive
<1> QED
  BY <1>1, <1>2, PTL DEF Spec

\* Every slot is with exactly the party its state names, and the active count
\* is exact, whatever the two threads do: the ring never overflows and the
\* worker ends only when it is told to.
THEOREM SlotDiscipline == Spec => [](SlotsAccounted /\ ActiveExact)
<1>1. Inductive => SlotsAccounted /\ ActiveExact
  BY DEF Inductive
<1> QED
  BY <1>1, InductiveHolds, PTL

\* No completion is stranded while the frames run.
THEOREM NoWakeLost == Spec => []NoLostWake
<1>1. Inductive => NoLostWake
  BY DEF Inductive
<1> QED
  BY <1>1, InductiveHolds, PTL

\* Answers go to the registration that asked, and no resume ever finds its
\* completion lost, for every width of the generation counter, wrapping
\* included.
THEOREM AnswersDelivered ==
    Spec => [](ClientsMatch /\ RightAnswer /\ CompletionNotLost)
<1>1. Inductive => ClientsMatch /\ RightAnswer /\ CompletionNotLost
  BY DEF Inductive
<1> QED
  BY <1>1, InductiveHolds, PTL
=============================================================================
