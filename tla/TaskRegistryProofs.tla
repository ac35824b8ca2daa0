------------------------- MODULE TaskRegistryProofs -------------------------
(***************************************************************************)
(* Proofs about TaskRegistry for every number of handles and every limit.  *)
(* Inductive is preserved by every action; what the runs check follows.    *)
(***************************************************************************)
EXTENDS TaskRegistry, FiniteSetTheorems, TLAPS

\* The registry holds some of finitely many handles.
LEMMA RegistryFinite == ASSUME Inductive PROVE IsFiniteSet(registry)
<1>1. IsFiniteSet(Handles)
  BY FS_Interval, HandleAssumption DEF Handles
<1> QED
  BY <1>1, FS_Subset DEF Inductive, TypeOK

\* nomo_task_remove_locked keeps the count exact.
LEMMA RemoveCounts ==
    ASSUME Inductive, NEW h \in registry, RemoveLocked(h)
    PROVE  /\ registry' = registry \ {h}
           /\ liveCount' = liveCount - 1
           /\ liveCount' \in 0 .. MaxLive
           /\ liveCount' = Cardinality(registry')
<1>1. IsFiniteSet(registry)
  BY RegistryFinite
<1>2. Cardinality(registry \ {h}) = Cardinality(registry) - 1
  BY <1>1, FS_RemoveElement
<1>3. Cardinality(registry) \in Nat
  BY <1>1, FS_CardinalityType
<1>4. Cardinality(registry \ {h}) \in Nat
  BY <1>1, FS_Subset, FS_CardinalityType, registry \ {h} \subseteq registry
<1>5. liveCount > 0
  BY <1>2, <1>3, <1>4 DEF Inductive, LiveExact
<1> QED
  BY <1>2, <1>5, LiveAssumption DEF RemoveLocked, Inductive, TypeOK, LiveExact

\* The invariant holds when no task was ever spawned.
LEMMA InitInductive == Init => Inductive
<1> SUFFICES ASSUME Init PROVE Inductive
  OBVIOUS
<1> USE HandleAssumption, LiveAssumption DEF Init
<1>1. TypeOK
  BY DEF TypeOK, Allocated, Idle, Outcomes, Results, Handles
<1>2. LiveExact
  BY FS_EmptySet DEF LiveExact
<1>3. WorkerReachable /\ CancelDecides /\ JoinerNotForgotten
  BY DEF WorkerReachable, CancelDecides, JoinerNotForgotten, Allocated, Idle,
         Results
<1>4. Lifecycle
  BY DEF Lifecycle, Allocated, Idle, Handles
<1> QED
  BY <1>1, <1>2, <1>3, <1>4 DEF Inductive

\* Registering a task.
LEMMA SpawnRegisterInductive ==
    ASSUME Inductive, SpawnRegister PROVE Inductive'
<1> USE DEF SpawnRegister
<1> DEFINE n == nextHandle
<1>1. n \in Handles /\ n \notin registry /\ memory[n] = "none"
      /\ thread[n] = "none"
  BY HandleAssumption DEF Inductive, TypeOK, Lifecycle, Handles
<1>2. liveCount' = Cardinality(registry')
  <2>1. IsFiniteSet(registry)
    BY RegistryFinite
  <2> QED
    BY <1>1, <2>1, FS_AddElement DEF Inductive, LiveExact
<1>3. TypeOK'
  BY <1>1, HandleAssumption, LiveAssumption
     DEF Inductive, TypeOK, AtLimit, Handles
<1>4. Lifecycle'
  BY <1>1, HandleAssumption DEF Inductive, TypeOK, Lifecycle, Handles
<1>5. WorkerReachable' /\ CancelDecides' /\ JoinerNotForgotten'
  BY <1>1 DEF Inductive, WorkerReachable, CancelDecides, JoinerNotForgotten
<1> QED
  BY <1>2, <1>3, <1>4, <1>5 DEF Inductive, LiveExact

\* A spawn that is refused changes nothing but its answer.
LEMMA SpawnRefusedInductive ==
    ASSUME Inductive, SpawnRefused PROVE Inductive'
BY HandleAssumption
   DEF SpawnRefused, Answer, Inductive, TypeOK, LiveExact, WorkerReachable,
       CancelDecides, JoinerNotForgotten, Lifecycle, Outcomes, Results

\* Starting the thread.
LEMMA SpawnCreateInductive ==
    ASSUME Inductive, NEW h \in Handles, SpawnCreate(h) PROVE Inductive'
<1> USE DEF SpawnCreate, Idle, Answer
<1>1. h \in registry /\ thread[h] = "none"
  BY DEF Inductive, Lifecycle
<1>2. TypeOK'
  BY HandleAssumption DEF Inductive, TypeOK, Handles, Outcomes, Results
<1>3. Lifecycle'
  BY <1>1, HandleAssumption DEF Inductive, TypeOK, Lifecycle, Handles, Allocated
<1>4. LiveExact' /\ WorkerReachable' /\ CancelDecides' /\ JoinerNotForgotten'
  BY <1>1 DEF Inductive, TypeOK, LiveExact, WorkerReachable, CancelDecides,
              JoinerNotForgotten
<1> QED
  BY <1>2, <1>3, <1>4 DEF Inductive

\* A thread that could not be started leaves nothing behind.
LEMMA SpawnFailInductive ==
    ASSUME Inductive, NEW h \in Handles, SpawnFail(h) PROVE Inductive'
<1> USE DEF SpawnFail, Idle, Answer, FreeState
<1>1. h \in registry /\ thread[h] = "none"
  BY DEF Inductive, Lifecycle
<1>2. /\ registry' = registry \ {h}
      /\ liveCount' \in 0 .. MaxLive
      /\ liveCount' = Cardinality(registry')
  BY <1>1, RemoveCounts
<1>3. TypeOK'
  BY <1>2, HandleAssumption
     DEF Inductive, TypeOK, Handles, Outcomes, Results, Allocated
<1>4. Lifecycle'
  <2>1. \A g \in Handles :
            /\ memory'[g] = IF g = h THEN "freed" ELSE memory[g]
            /\ task'[g] = IF g = h THEN Allocated ELSE task[g]
    BY DEF Inductive, TypeOK
  <2>2. ~Allocated.finished
    BY DEF Allocated
  <2>3. owner'.pc = "idle" /\ owner'.task = 0
    OBVIOUS
  <2>4. UNCHANGED <<nextHandle, thread>>
    OBVIOUS
  <2>5. registry' = registry \ {h}
    BY <1>2
  <2>6. ASSUME NEW g \in Handles
        PROVE  /\ memory'[g] = "none" <=> nextHandle' # 0 /\ g >= nextHandle'
               /\ memory'[g] = "none" => thread'[g] = "none"
               /\ g \in registry' => memory'[g] = "allocated"
               /\ g \in registry' /\ thread'[g] = "none" =>
                      owner' = [pc |-> "creating", task |-> g]
               /\ thread'[g] = "none" => task'[g] = Allocated
               /\ task'[g].finished => thread'[g] \in {"published", "exited"}
               /\ thread'[g] = "published" =>
                      g \in registry' \/ owner' = [pc |-> "closing", task |-> g]
    BY <1>1, <2>1, <2>2, <2>4, <2>5 DEF Inductive, Lifecycle
  <2> QED
    BY <2>3, <2>6 DEF Lifecycle
<1>5. WorkerReachable' /\ CancelDecides' /\ JoinerNotForgotten'
  BY <1>1, <1>2 DEF Inductive, TypeOK, WorkerReachable, CancelDecides,
              JoinerNotForgotten, Allocated, Results
<1> QED
  BY <1>2, <1>3, <1>4, <1>5 DEF Inductive, LiveExact

\* The steps of a worker thread before it publishes.
LEMMA WorkerRunInductive ==
    ASSUME Inductive, NEW h \in Handles, WorkerObserve(h) \/ WorkerReturn(h)
    PROVE  Inductive'
<1>1. thread[h] \in {"working", "stopping"}
  BY DEF WorkerObserve, WorkerReturn
<1>2. PICK to \in {"stopping"} \cup Results :
          thread' = [thread EXCEPT ![h] = to]
  BY DEF WorkerObserve, WorkerReturn
<1>3. UNCHANGED <<registry, liveCount, nextHandle, task, memory, owner, answer>>
  BY DEF WorkerObserve, WorkerReturn
<1>4. TypeOK'
  BY <1>2, <1>3 DEF Inductive, TypeOK
<1>5. Lifecycle'
  BY <1>1, <1>2, <1>3 DEF Inductive, TypeOK, Lifecycle, Results
<1>6. LiveExact' /\ WorkerReachable' /\ CancelDecides' /\ JoinerNotForgotten'
  BY <1>1, <1>2, <1>3 DEF Inductive, TypeOK, LiveExact, WorkerReachable,
        CancelDecides, JoinerNotForgotten, Results
<1> QED
  BY <1>4, <1>5, <1>6 DEF Inductive

\* Publishing decides between the result and cancellation and wakes a joiner.
LEMMA WorkerPublishInductive ==
    ASSUME Inductive, NEW h \in Handles, WorkerPublish(h) PROVE Inductive'
<1> USE DEF WorkerPublish
<1>1. h \in registry
  BY DEF Inductive, WorkerReachable
<1>2. Published(h) \in Outcomes
  BY DEF Published, Outcomes
<1>3. TypeOK'
  <2>1. task' \in [Handles -> [cancelRequested : BOOLEAN, finished : BOOLEAN,
                              outcome : Outcomes]]
    <3> DEFINE r == [task[h] EXCEPT !.outcome = Published(h),
                                    !.finished = TRUE]
    <3>1. r \in [cancelRequested : BOOLEAN, finished : BOOLEAN,
                 outcome : Outcomes]
      <4>1. task[h] \in [cancelRequested : BOOLEAN, finished : BOOLEAN,
                         outcome : Outcomes]
        BY DEF Inductive, TypeOK
      <4> DEFINE p == Published(h)
      <4>2. p \in Outcomes
        BY <1>2
      <4> HIDE DEF p
      <4>3. [task[h] EXCEPT !.outcome = p, !.finished = TRUE] \in
                [cancelRequested : BOOLEAN, finished : BOOLEAN,
                 outcome : Outcomes]
        BY <4>1, <4>2
      <4> QED
        BY <4>3 DEF p
    <3>2. task' = [task EXCEPT ![h] = r]
      BY DEF Inductive, TypeOK
    <3> QED
      BY <3>1, <3>2 DEF Inductive, TypeOK
  <2>2. owner' \in [pc : {"idle", "creating", "joining", "woken", "expired",
                          "closing", "stopped"},
                    task : 0 .. MaxHandle]
    BY DEF Inductive, TypeOK, Woken
  <2>3. thread' \in [Handles -> {"none", "working", "stopping", "published",
                                 "exited"} \cup Results]
    BY DEF Inductive, TypeOK
  <2> QED
    BY <2>1, <2>2, <2>3 DEF Inductive, TypeOK
<1>4. Lifecycle'
  BY <1>1, HandleAssumption
     DEF Inductive, TypeOK, Lifecycle, Woken, Results, Handles
<1>5. CancelDecides'
  BY DEF Inductive, TypeOK, CancelDecides, Published, Results
<1>6. LiveExact' /\ WorkerReachable' /\ JoinerNotForgotten'
  BY <1>1, HandleAssumption DEF Inductive, TypeOK, LiveExact, WorkerReachable,
        JoinerNotForgotten, Woken, Results, Handles, Lifecycle
<1> QED
  BY <1>3, <1>4, <1>5, <1>6 DEF Inductive

\* The thread is gone.
LEMMA WorkerExitInductive ==
    ASSUME Inductive, NEW h \in Handles, WorkerExit(h) PROVE Inductive'
<1> USE DEF WorkerExit
<1>1. TypeOK'
  BY DEF Inductive, TypeOK
<1>2. Lifecycle'
  BY DEF Inductive, TypeOK, Lifecycle
<1>3. LiveExact' /\ WorkerReachable' /\ CancelDecides' /\ JoinerNotForgotten'
  BY DEF Inductive, TypeOK, LiveExact, WorkerReachable, CancelDecides,
         JoinerNotForgotten, Results
<1> QED
  BY <1>1, <1>2, <1>3 DEF Inductive

\* A join changes only where the owner is and what it was told.
LEMMA JoinInductive ==
    ASSUME Inductive, NEW h \in Handles,
           \/ JoinStart(h) \/ JoinSpurious(h) \/ JoinExpire(h)
           \/ JoinWoken(h) \/ JoinExpired(h)
    PROVE  Inductive'
<1> DEFINE Steps == {"joining", "woken", "expired"}
<1>1. UNCHANGED <<registry, liveCount, nextHandle, task, thread, memory>>
  BY DEF JoinStart, JoinSpurious, JoinExpire, JoinWoken, JoinExpired
<1>2. /\ owner.pc \in {"idle"} \cup Steps
      /\ h \in registry \/ owner' = owner
  BY DEF JoinStart, JoinSpurious, JoinExpire, JoinWoken, JoinExpired,
         JoinReport, JoinTimeout, Inductive, Lifecycle
<1>3. \/ owner' = Idle
      \/ owner' = owner /\ owner.pc = "idle"
      \/ /\ owner' \in [pc : Steps, task : {h}] /\ h \in registry
         /\ owner'.pc = "joining" => ~task[h].finished
  BY <1>2 DEF JoinStart, JoinSpurious, JoinExpire, JoinWoken, JoinExpired,
         JoinReport, JoinTimeout, Inductive, TypeOK, Lifecycle
<1>4. answer' \in [call : {"none", "spawn", "join", "cancel", "close"},
                   task : 0 .. MaxHandle,
                   says : Outcomes \cup {"ok", "timeout", "wait", "clock",
                            "closed", "busy", "spawn", "invalid_argument"}]
  BY HandleAssumption
     DEF JoinStart, JoinSpurious, JoinExpire, JoinWoken, JoinExpired,
         JoinReport, JoinTimeout, Answer, Inductive, TypeOK, Handles
<1>5. TypeOK'
  BY <1>1, <1>3, <1>4, HandleAssumption DEF Inductive, TypeOK, Idle, Handles
<1>6. Lifecycle'
  BY <1>1, <1>2, <1>3, HandleAssumption
     DEF Inductive, TypeOK, Lifecycle, Idle, Handles
<1>7. LiveExact' /\ WorkerReachable' /\ CancelDecides' /\ JoinerNotForgotten'
  BY <1>1, <1>3 DEF Inductive, LiveExact, WorkerReachable, CancelDecides,
         JoinerNotForgotten, Idle
<1> QED
  BY <1>5, <1>6, <1>7 DEF Inductive

\* Asking tasks to stop marks only tasks that have not finished.
LEMMA RequestInductive ==
    ASSUME Inductive, NEW H \in SUBSET registry,
           \A h \in H : thread[h] # "none",
           task' = Requested(H),
           UNCHANGED <<registry, liveCount, nextHandle, thread, memory>>,
           \/ owner' = owner
           \/ owner.pc = "idle" /\ owner' = [pc |-> "stopped", task |-> 0],
           answer' \in [call : {"none", "spawn", "join", "cancel", "close"},
                   task : 0 .. MaxHandle,
                   says : Outcomes \cup {"ok", "timeout", "wait", "clock",
                            "closed", "busy", "spawn", "invalid_argument"}]
    PROVE  Inductive'
<1>1. \A h \in Handles : /\ task'[h].finished = task[h].finished
                         /\ task'[h].outcome = task[h].outcome
                         /\ task[h].finished => task'[h] = task[h]
                         /\ thread[h] = "none" => task'[h] = task[h]
  BY DEF Requested, Inductive, TypeOK
<1>2. TypeOK'
  <2>1. task' \in [Handles -> [cancelRequested : BOOLEAN, finished : BOOLEAN,
                              outcome : Outcomes]]
    <3>1. ASSUME NEW g \in Handles
          PROVE  [task[g] EXCEPT !.cancelRequested = TRUE] \in
                     [cancelRequested : BOOLEAN, finished : BOOLEAN,
                      outcome : Outcomes]
      <4>1. task[g] \in [cancelRequested : BOOLEAN, finished : BOOLEAN,
                         outcome : Outcomes]
        BY DEF Inductive, TypeOK
      <4> QED
        BY <4>1
    <3> QED
      BY <3>1 DEF Requested, Inductive, TypeOK
  <2>2. owner' \in [pc : {"idle", "creating", "joining", "woken", "expired",
                          "closing", "stopped"},
                    task : 0 .. MaxHandle]
    BY HandleAssumption DEF Inductive, TypeOK
  <2> QED
    BY <2>1, <2>2 DEF Inductive, TypeOK
<1>3. Lifecycle'
  BY <1>1, HandleAssumption DEF Inductive, TypeOK, Lifecycle, Handles
<1>4. LiveExact' /\ WorkerReachable' /\ CancelDecides' /\ JoinerNotForgotten'
  BY <1>1, HandleAssumption DEF Inductive, TypeOK, LiveExact, WorkerReachable,
        CancelDecides, JoinerNotForgotten, Lifecycle, Handles
<1> QED
  BY <1>2, <1>3, <1>4 DEF Inductive

\* Cancelling one task.
LEMMA CancelInductive ==
    ASSUME Inductive, NEW h \in Handles, Cancel(h) PROVE Inductive'
<1>1. answer' \in [call : {"none", "spawn", "join", "cancel", "close"},
                   task : 0 .. MaxHandle,
                   says : Outcomes \cup {"ok", "timeout", "wait", "clock",
                            "closed", "busy", "spawn", "invalid_argument"}]
  BY HandleAssumption DEF Cancel, Answer, Handles
<1>2. UNCHANGED <<registry, liveCount, nextHandle, thread, memory, owner>>
  BY DEF Cancel
<1>3. CASE h \in registry
  BY <1>1, <1>2, <1>3, RequestInductive, {h} \in SUBSET registry
     DEF Cancel, Known
<1>4. CASE h \notin registry
  <2>1. task' = task
    BY <1>4 DEF Cancel
  <2> QED
    BY <1>1, <1>2, <2>1 DEF Inductive, TypeOK, LiveExact, WorkerReachable,
        CancelDecides, JoinerNotForgotten, Lifecycle
<1> QED
  BY <1>3, <1>4

\* Shutting down: no task is being created, so every registered one has a
\* thread.
LEMMA ShutdownInductive == ASSUME Inductive, Shutdown PROVE Inductive'
<1>1. \A h \in registry : thread[h] # "none"
  BY DEF Shutdown, Inductive, TypeOK, Lifecycle
<1> QED
  BY <1>1, RequestInductive DEF Shutdown, Inductive, TypeOK

\* Closing unlinks a finished task.
LEMMA CloseUnlinkInductive ==
    ASSUME Inductive, NEW h \in Handles, CloseUnlink(h) PROVE Inductive'
<1> USE DEF CloseUnlink, Closable
<1>1. /\ h \in registry /\ task[h].finished /\ memory[h] = "allocated"
      /\ thread[h] \in {"published", "exited"}
  BY DEF Inductive, Lifecycle
<1>2. /\ registry' = registry \ {h}
      /\ liveCount' \in 0 .. MaxLive
      /\ liveCount' = Cardinality(registry')
  BY <1>1, RemoveCounts
<1>3. TypeOK'
  BY <1>2, HandleAssumption DEF Inductive, TypeOK, Handles
<1>4. Lifecycle'
  BY <1>1, <1>2, HandleAssumption DEF Inductive, TypeOK, Lifecycle, Handles
<1>5. WorkerReachable' /\ CancelDecides' /\ JoinerNotForgotten'
  BY <1>1, <1>2 DEF Inductive, WorkerReachable, CancelDecides,
         JoinerNotForgotten, Results
<1> QED
  BY <1>2, <1>3, <1>4, <1>5 DEF Inductive, LiveExact

\* Freeing a closed task whose thread is gone.
LEMMA CloseFreeInductive ==
    ASSUME Inductive, NEW h \in Handles, CloseFree(h) PROVE Inductive'
<1> USE DEF CloseFree, FreeState, Answer, Idle
<1>1. h \notin registry /\ memory[h] = "allocated" /\ h # 0
  BY HandleAssumption DEF Inductive, Lifecycle, Handles
<1>2. TypeOK'
  BY HandleAssumption
     DEF Inductive, TypeOK, Handles, Allocated, Outcomes, Results
<1>3. Lifecycle'
  <2>1. \A g \in Handles :
            /\ memory'[g] = IF g = h THEN "freed" ELSE memory[g]
            /\ task'[g] = IF g = h THEN Allocated ELSE task[g]
    BY DEF Inductive, TypeOK
  <2>2. ~Allocated.finished
    BY DEF Allocated
  <2>3. owner'.pc = "idle" /\ owner'.task = 0
    OBVIOUS
  <2>4. UNCHANGED <<nextHandle, thread>>
    OBVIOUS
  <2>5. registry' = registry
    OBVIOUS
  <2>6. ASSUME NEW g \in Handles
        PROVE  /\ memory'[g] = "none" <=> nextHandle' # 0 /\ g >= nextHandle'
               /\ memory'[g] = "none" => thread'[g] = "none"
               /\ g \in registry' => memory'[g] = "allocated"
               /\ g \in registry' /\ thread'[g] = "none" =>
                      owner' = [pc |-> "creating", task |-> g]
               /\ thread'[g] = "none" => task'[g] = Allocated
               /\ task'[g].finished => thread'[g] \in {"published", "exited"}
               /\ thread'[g] = "published" =>
                      g \in registry' \/ owner' = [pc |-> "closing", task |-> g]
    BY <1>1, <2>1, <2>2, <2>4, <2>5 DEF Inductive, Lifecycle
  <2> QED
    BY <2>3, <2>6 DEF Lifecycle
<1>4. LiveExact' /\ WorkerReachable' /\ CancelDecides' /\ JoinerNotForgotten'
  BY <1>1 DEF Inductive, TypeOK, LiveExact, WorkerReachable, CancelDecides,
         JoinerNotForgotten, Allocated
<1> QED
  BY <1>2, <1>3, <1>4 DEF Inductive

\* A close that is refused changes nothing but its answer.
LEMMA CloseRefusedInductive ==
    ASSUME Inductive, NEW h \in Handles, CloseRefused(h) PROVE Inductive'
BY HandleAssumption
   DEF CloseRefused, Answer, Inductive, TypeOK, LiveExact, WorkerReachable,
       CancelDecides, JoinerNotForgotten, Lifecycle, Handles

\* Every step preserves the invariant.
LEMMA NextInductive == Inductive /\ [Next]_vars => Inductive'
<1> SUFFICES ASSUME Inductive, [Next]_vars PROVE Inductive'
  OBVIOUS
<1>1. CASE SpawnRefused \/ SpawnRegister \/ Shutdown
  BY <1>1, SpawnRefusedInductive, SpawnRegisterInductive, ShutdownInductive
<1>2. ASSUME NEW h \in Handles, Owner(h) \/ Calls(h) \/ JoinSpurious(h)
      PROVE  Inductive'
  BY <1>2, SpawnCreateInductive, SpawnFailInductive, JoinInductive,
     CloseFreeInductive, CancelInductive, CloseRefusedInductive,
     CloseUnlinkInductive DEF Owner, Calls
<1>3. ASSUME NEW h \in Handles, Worker(h) \/ WorkerReturn(h)
      PROVE  Inductive'
  BY <1>3, WorkerRunInductive, WorkerPublishInductive, WorkerExitInductive
     DEF Worker
<1>4. CASE UNCHANGED vars
  BY <1>4 DEF vars, Inductive, TypeOK, LiveExact, WorkerReachable,
     CancelDecides, JoinerNotForgotten, Lifecycle
<1> QED
  BY <1>1, <1>2, <1>3, <1>4 DEF Next

\* The registry, the threads and the owner's call stay consistent for every
\* number of tasks: in particular the live count is exact and within its
\* limit, and an accepted cancellation always becomes the outcome.
THEOREM InductiveHolds == Spec => []Inductive
<1>1. Init => Inductive
  BY InitInductive
<1>2. Inductive /\ [Next]_vars => Inductive'
  BY NextInductive
<1> QED
  BY <1>1, <1>2, PTL DEF Spec

\* The parts of the invariant that the runs check by name.
THEOREM RegistryCorrect ==
    Spec => [](TypeOK /\ LiveExact /\ WorkerReachable /\ CancelDecides
               /\ JoinerNotForgotten)
<1>1. Inductive => TypeOK /\ LiveExact /\ WorkerReachable /\ CancelDecides
                   /\ JoinerNotForgotten
  BY DEF Inductive
<1> QED
  BY <1>1, InductiveHolds, PTL

\* No thread and no call of the owner ever uses a state that was freed.
THEOREM StatesOutliveThreads == Spec => []NoUseAfterFree
<1>1. Inductive => NoUseAfterFree
  <2> SUFFICES ASSUME Inductive, NEW h \in Handles
               PROVE  /\ thread[h] \notin {"none", "exited"} =>
                             memory[h] = "allocated"
                      /\ owner.task = h => memory[h] = "allocated"
    BY DEF NoUseAfterFree
  <2>1. thread[h] \notin {"none", "exited"} => memory[h] = "allocated"
    BY DEF Inductive, TypeOK, Lifecycle, WorkerReachable
  <2>2. owner.task = h => memory[h] = "allocated"
    BY HandleAssumption DEF Inductive, TypeOK, Lifecycle, Handles
  <2> QED
    BY <2>1, <2>2
<1> QED
  BY <1>1, InductiveHolds, PTL

\* Joins agree: a finished task keeps its outcome until it is freed.
THEOREM OutcomesNeverChange == Spec => OutcomeStable
<1> DEFINE Keeps == \A h \in Handles :
                       task[h].finished =>
                           task'[h] = task[h] \/ memory'[h] = "freed"
<1>1. Inductive /\ [Next]_vars => [Keeps]_vars
  <2> SUFFICES ASSUME Inductive, Next, NEW g \in Handles, task[g].finished
               PROVE  task'[g] = task[g] \/ memory'[g] = "freed"
    BY DEF OutcomeStable
  <2>0. thread[g] \in {"published", "exited"} /\ g # 0
    BY HandleAssumption DEF Inductive, Lifecycle, Handles
  <2>1. CASE SpawnRefused \/ SpawnRegister \/ Shutdown
    BY <2>1 DEF SpawnRefused, SpawnRegister, Shutdown, Requested
  <2>2. ASSUME NEW h \in Handles, Owner(h) \/ Calls(h) \/ JoinSpurious(h)
        PROVE  task'[g] = task[g] \/ memory'[g] = "freed"
    BY <2>2 DEF Owner, Calls, SpawnCreate, SpawnFail, JoinWoken, JoinExpire,
       JoinExpired, CloseFree, JoinStart, Cancel, CloseRefused, CloseUnlink,
       JoinSpurious, FreeState, Requested, Inductive, TypeOK
  <2>3. ASSUME NEW h \in Handles, Worker(h) \/ WorkerReturn(h)
        PROVE  task'[g] = task[g]
    BY <2>0, <2>3 DEF Worker, WorkerObserve, WorkerReturn, WorkerPublish,
       WorkerExit, Inductive, TypeOK, Results
  <2> QED
    BY <2>1, <2>2, <2>3 DEF Next
<1> QED
  BY <1>1, InductiveHolds, PTL DEF Spec, OutcomeStable
=============================================================================
