--------------------------- MODULE ProcessPoolProofs ---------------------------
(***************************************************************************)
(* Every child process is waited for exactly once, neither thread sleeps   *)
(* over the other's news, and every reservation is given back, for every   *)
(* number of tasks, handles, job slots and starts, and every fault.        *)
(*                                                                         *)
(* The argument is about custody: a child that was not waited for is with  *)
(* one job, one handle or the worker's cleanup, and each step hands it     *)
(* over, waits for it or loses it where the code ignores a refusal.        *)
(***************************************************************************)
EXTENDS ProcessPool, FiniteSetTheorems, SequenceTheorems, WellFoundedInduction, TLAPS

-----------------------------------------------------------------------------
(* The inductive invariant.                                                *)

States == StartStates \cup {"free", "reap_queued", "reap_running", "reap_completed"}

JobRecords ==
    [state : States, gen : Nat, pid : 0 .. MaxStarts,
     handle : 0 .. HandleCapacity, hgen : 0 .. MaxStarts]

WatchRecords ==
    [active : BOOLEAN, completed : BOOLEAN, pid : 0 .. MaxStarts,
     handle : 0 .. HandleCapacity, hgen : 0 .. MaxStarts]

Pools ==
    [jobs : [Jobs -> JobRecords], queue : Seq(Jobs), done : Seq(Jobs), gen : Nat,
     active : Nat, starts : Nat, watches : [Handles -> WatchRecords],
     watching : Nat, stopping : BOOLEAN]

HandleRecords ==
    [occupied : 0 .. 2, gen : 0 .. MaxStarts, pid : 0 .. MaxStarts,
     exited : BOOLEAN, source : {"none", "reactor", "worker"}, reaping : BOOLEAN]

RegRecords ==
    [kind : {"none", "start"}, job : Jobs, jgen : Nat, handle : Handles,
     hgen : 0 .. MaxStarts, timer : {"off", "armed", "expired"},
     active : BOOLEAN, ready : BOOLEAN]

Workers ==
    [pc : {"none", "top", "waiting", "polling", "woken", "spawning", "cleanup",
           "reaping", "signal", "done"},
     job : Jobs, pid : 0 .. MaxStarts]

Types ==
    /\ pool \in Pools
    /\ wake \in BOOLEAN /\ pipe \in BOOLEAN
    /\ worker \in Workers
    /\ owner \in [at : {"frames", "arm", "drain", "watches", "rearm", "join", "down"},
                  task : Tasks \cup {NoTask}]
    /\ handles \in [Handles -> HandleRecords]
    /\ nextGen \in 0 .. MaxStarts
    /\ regs \in [Tasks -> RegRecords]
    /\ child \in [Tasks -> [handle : 0 .. HandleCapacity, gen : 0 .. MaxStarts]]
    /\ ready \subseteq Tasks
    /\ proc \in [Pids -> {"unused", "running", "zombie", "reaped"}]
    /\ lost \subseteq Pids

Elements(q) == {q[i] : i \in DOMAIN q}
Once(q) == \A i, k \in DOMAIN q : q[i] = q[k] => i = k

\* Worker k has taken the start job j and not published it.
Spawning(k, j) == k.pc = "spawning" /\ k.job = j

\* The lists have the jobs that wait for the worker and for the owner, and the
\* jobs in the worker's hands are its own.
Placed(p, k, j) == LET s == p.jobs[j].state IN
    /\ j \in Elements(p.queue) <=> s \in {"start_queued", "reap_queued"}
    /\ j \in Elements(p.done) <=>
          \/ s \in {"start_completed", "reap_completed"}
          \/ s = "start_cancelled" /\ ~Spawning(k, j)
    /\ s = "start_running" => Spawning(k, j)
    /\ s = "reap_running" => k.pc = "reaping" /\ k.job = j

\* The jobs that have a child.
Loaded(p, j) == LET s == p.jobs[j].state IN
    /\ p.jobs[j].pid # NoPid =>
          s \in {"start_completed", "start_delivered", "reap_queued", "reap_running"}
    /\ s \in {"reap_queued", "reap_running"} => p.jobs[j].pid # NoPid

AtWork(p, k) ==
    /\ k.pc = "spawning" => p.jobs[k.job].state \in {"start_running", "start_cancelled"}
    /\ k.pc = "reaping" => /\ p.jobs[k.job].state = "reap_running"
                           /\ k.pid = p.jobs[k.job].pid

BusyJobs(p) == {j \in Jobs : p.jobs[j].state # "free"}
StartJobs(p) == {j \in Jobs : p.jobs[j].state \in StartStates}

JobsInv(p, k) ==
    /\ p \in Pools /\ k \in Workers
    /\ Once(p.queue) /\ Once(p.done)
    /\ \A j \in Jobs : Placed(p, k, j) /\ Loaded(p, j) /\ p.jobs[j].gen <= p.gen
    /\ AtWork(p, k)
    /\ p.active = Cardinality(BusyJobs(p))
    /\ p.starts = Cardinality(StartJobs(p)) /\ p.starts <= StartCapacity

\* The watches that are in use; each is of a child whose handle is open, and
\* is completed exactly if the worker has waited for the child.
Watches(p) == {w \in Handles : p.watches[w].active}

Watching(p, hs, pr) ==
    /\ p.watching = Cardinality(Watches(p))
    /\ \A w \in Watches(p) : LET v == p.watches[w] IN
          /\ v.handle \in Handles
          /\ hs[v.handle].occupied = 1 /\ hs[v.handle].gen = v.hgen
          /\ hs[v.handle].pid = v.pid /\ v.pid # NoPid
          /\ hs[v.handle].source = "worker" /\ ~hs[v.handle].exited
          /\ v.completed <=> pr[v.pid] = "reaped"
    /\ \A v, w \in Watches(p) : p.watches[v].handle = p.watches[w].handle => v = w

\* What a handle says of its child, and that no two handles have a generation.
Handled(hs) ==
    /\ \A h \in Handles : LET s == hs[h] IN
          /\ s.occupied = 0 => s.pid = NoPid
          /\ s.occupied # 0 => s.gen # 0
          /\ s.occupied = 1 => ~s.reaping /\ (s.pid = NoPid => s.source = "none")
          /\ s.occupied = 2 => s.pid # NoPid /\ s.source = "none" /\ ~s.exited
          /\ s.exited => s.pid # NoPid
    /\ \A g, h \in Handles : hs[g].gen = hs[h].gen /\ hs[g].gen # 0 => g = h

\* A job, a handle that is to reap its child, and the worker's cleanup each
\* have at most one child.
Holders == ({"job"} \X Jobs) \cup ({"handle"} \X Handles) \cup {<<"worker", 0>>}

Reaps(s) == s.occupied # 0 /\ ~s.exited /\ ~s.reaping

\* The child that worker k cleans up.
InHand(k) == IF k.pc = "cleanup" THEN k.pid ELSE NoPid

Hold(p, hs, k) ==
    [r \in Holders |->
        CASE r[1] = "job" -> p.jobs[r[2]].pid
          [] r[1] = "handle" -> IF Reaps(hs[r[2]]) THEN hs[r[2]].pid ELSE NoPid
          [] OTHER -> InHand(k)]

\* A child that the worker has waited for, and whose handle does not know yet.
Underway(p, hs, r) ==
    /\ r[1] = "handle" /\ hs[r[2]].source = "worker"
    /\ \E w \in WatchesOf(p, hs[r[2]]) : p.watches[w].completed

Alive == {"running", "zombie"}

\* d[r] is the child that r has to wait for; those of U have been waited for.
Custody(d, pr, lo, U) ==
    /\ \A r, s \in Holders : d[r] # NoPid /\ d[r] = d[s] => r = s
    /\ \A r \in Holders : d[r] # NoPid =>
          /\ d[r] \notin lo
          /\ pr[d[r]] \in Alive \/ (pr[d[r]] = "reaped" /\ r \in U)
    /\ \A p \in Pids : pr[p] \in Alive /\ p \notin lo => \E r \in Holders : d[r] = p
    /\ \A p \in lo : pr[p] # "unused"

\* The handles whose children the worker has waited for.
Late(p, hs) == {r \in Holders : Underway(p, hs, r)}

Children(p, hs, k, pr, lo) ==
    /\ Custody(Hold(p, hs, k), pr, lo, Late(p, hs))
    /\ \A h \in Handles : hs[h].exited => pr[hs[h].pid] = "reaped"

\* The states of a start's job until the start succeeds or is cancelled.
Pending == {"start_queued", "start_running", "start_completed", "start_delivered"}

\* A start that has neither succeeded nor failed has a job and a handle.
Reserved(p, hs, rs, o) ==
    /\ \A t \in Tasks :
          /\ rs[t].kind = "start" =>
                /\ p.jobs[rs[t].job].gen = rs[t].jgen
                /\ p.jobs[rs[t].job].state \in Pending
                /\ rs[t].ready <=> p.jobs[rs[t].job].state = "start_delivered"
                /\ rs[t].active <=> ~rs[t].ready /\ ~(o.at = "arm" /\ o.task = t)
                /\ hs[rs[t].handle].occupied = 1 /\ hs[rs[t].handle].pid = NoPid
                /\ hs[rs[t].handle].gen = rs[t].hgen
          /\ rs[t].kind = "none" => ~rs[t].ready
    /\ \A t, u \in Tasks :
          t # u /\ rs[t].kind = "start" /\ rs[u].kind = "start" =>
              rs[t].job # rs[u].job /\ rs[t].handle # rs[u].handle
    /\ o.at = "arm" => o.task \in Tasks /\ rs[o.task].kind = "start" /\ ~rs[o.task].ready
    /\ o.at \notin {"join", "down"} =>
          \A h \in Handles : hs[h].occupied = 1 /\ hs[h].pid = NoPid =>
              \E t \in Tasks : rs[t].kind = "start" /\ rs[t].handle = h

\* A task's child is one of the table, and no other task's.
Parented(hs, ch) ==
    /\ \A t \in Tasks : ch[t] # NoChild =>
          /\ ch[t].handle \in Handles
          /\ hs[ch[t].handle].occupied = 1 /\ hs[ch[t].handle].gen = ch[t].gen
          /\ hs[ch[t].handle].pid # NoPid
    /\ \A t, u \in Tasks : ch[t] # NoChild /\ ch[t] = ch[u] => t = u

\* The generation of a handle is not used again.
Numbered(hs, n) == \A h \in Handles : hs[h].gen <= n

OpenHandles(hs) == {h \in Handles : hs[h].occupied = 1 /\ hs[h].pid # NoPid}

\* A byte is in the wake pipe or will be.
Announced == pipe \/ worker.pc \in {"signal", "cleanup"}

Waking ==
    /\ WakeExact /\ WorkerAwake
    /\ owner.at \in {"frames", "arm", "rearm"} =>
          (pool.done # <<>> \/ Completed # {} => Announced)
    /\ owner.at = "watches" => (pool.done # <<>> => Announced)

\* From the shutdown on.
Closing ==
    /\ owner.at \in {"join", "down"} =>
          Watches(pool) = {} /\ \A t \in Tasks : regs[t] = NoReg /\ child[t] = NoChild
    /\ owner.at = "down" =>
          /\ worker.pc \in {"none", "done"}
          /\ \A j \in Jobs : pool.jobs[j].pid = NoPid
          /\ \A h \in Handles : handles[h].occupied = 0

PoolInv ==
    /\ Types /\ JobsInv(pool, worker) /\ Watching(pool, handles, proc)
    /\ Handled(handles) /\ Numbered(handles, nextGen)
    /\ Children(pool, handles, worker, proc, lost) /\ Reserved(pool, handles, regs, owner)
    /\ Parented(handles, child) /\ live = Cardinality(OpenHandles(handles))
    /\ Waking /\ ~stale /\ Closing

-----------------------------------------------------------------------------
(* Numbers, lists and counts.                                              *)

Less == {s \in Nat \X Nat : s[1] < s[2]}

\* A set of numbers has a least one.
LEMMA FirstIn ==
    ASSUME NEW S \in SUBSET Nat, S # {}
    PROVE  First(S) \in S /\ \A y \in S : First(S) <= y
<1>1. OpToRel(<, Nat) = Less
  BY Zenon DEF OpToRel, Less
<1>2. PICK x \in S : \A y \in S : ~ (<<y, x>> \in Less)
  BY <1>1, NatLessThanWellFounded, WFMin, Zenon
<1>3. ASSUME NEW y \in S PROVE x <= y
  <2>1. x \in Nat /\ y \in Nat /\ ~ (<<y, x>> \in Less)
    BY <1>2
  <2> QED
    BY <2>1 DEF Less
<1> QED
  BY <1>3 DEF First

LEMMA FiniteTables ==
    /\ IsFiniteSet(Jobs) /\ Cardinality(Jobs) = JobCapacity
    /\ IsFiniteSet(Handles) /\ Cardinality(Handles) = HandleCapacity
<1>1. 1 \in Int /\ JobCapacity \in Nat \ {0} /\ HandleCapacity \in Nat \ {0}
  BY JobCapacityAssumption, HandleCapacityAssumption
<1>2. /\ IsFiniteSet(1 .. JobCapacity)
      /\ Cardinality(1 .. JobCapacity) = IF 1 > JobCapacity THEN 0 ELSE JobCapacity - 1 + 1
  BY <1>1, FS_Interval
<1>3. /\ IsFiniteSet(1 .. HandleCapacity)
      /\ Cardinality(1 .. HandleCapacity) = IF 1 > HandleCapacity THEN 0 ELSE HandleCapacity - 1 + 1
  BY <1>1, FS_Interval
<1> QED
  BY <1>1, <1>2, <1>3 DEF Jobs, Handles

\* What one element more or less does to a count.
LEMMA CountOne ==
    ASSUME NEW T, IsFiniteSet(T), NEW S \in SUBSET T, NEW x \in T
    PROVE  /\ Cardinality(S) \in Nat /\ Cardinality(S) <= Cardinality(T)
           /\ S # {} <=> Cardinality(S) # 0
           /\ x \notin S => Cardinality(S \cup {x}) = Cardinality(S) + 1
           /\ x \in S => /\ Cardinality(S \ {x}) = Cardinality(S) - 1
                         /\ Cardinality(S) > 0
<1>1. IsFiniteSet(S) /\ Cardinality(S) <= Cardinality(T) /\ Cardinality(S) \in Nat
  BY FS_Subset, FS_CardinalityType
<1>2. x \notin S => Cardinality(S \cup {x}) = Cardinality(S) + 1
  BY <1>1, FS_AddElement
<1>3. x \in S => Cardinality(S \ {x}) = Cardinality(S) - 1
  BY <1>1, FS_RemoveElement
<1>4. S # {} <=> Cardinality(S) # 0
  BY <1>1, FS_EmptySet
<1>5. x \in S => Cardinality(S) > 0
  BY <1>1, <1>4
<1> QED
  BY <1>1, <1>2, <1>3, <1>4, <1>5

LEMMA EmptyList == Elements(<<>>) = {} /\ Once(<<>>)
BY DEF Elements, Once

LEMMA ListEmpty ==
    ASSUME NEW q \in Seq(Jobs)
    PROVE  q = <<>> <=> Elements(q) = {}
BY DEF Elements

LEMMA AppendList ==
    ASSUME NEW q \in Seq(Jobs), Once(q), NEW j \in Jobs, j \notin Elements(q)
    PROVE  /\ Append(q, j) \in Seq(Jobs) /\ Once(Append(q, j))
           /\ Elements(Append(q, j)) = Elements(q) \cup {j}
<1> DEFINE a == Append(q, j)
<1>1. /\ a \in Seq(Jobs) /\ Len(a) = Len(q) + 1 /\ a[Len(q) + 1] = j
      /\ DOMAIN a = 1 .. Len(q) + 1 /\ DOMAIN q = 1 .. Len(q) /\ Len(q) \in Nat
      /\ \A i \in 1 .. Len(q) : a[i] = q[i]
  OBVIOUS
<1> HIDE DEF a
<1>2. \A i \in DOMAIN a : i \in 1 .. Len(q) \/ i = Len(q) + 1
  BY <1>1
<1>3. Once(a)
  BY <1>1, <1>2 DEF Once, Elements
<1>4. Elements(a) = Elements(q) \cup {j}
  BY <1>1, <1>2 DEF Elements
<1> QED
  BY <1>1, <1>3, <1>4 DEF a

LEMMA TailList ==
    ASSUME NEW q \in Seq(Jobs), Once(q), q # <<>>
    PROVE  /\ Head(q) \in Jobs /\ Tail(q) \in Seq(Jobs) /\ Once(Tail(q))
           /\ Elements(Tail(q)) = Elements(q) \ {Head(q)} /\ Head(q) \in Elements(q)
<1> DEFINE a == Tail(q)
<1>1. /\ a \in Seq(Jobs) /\ Len(a) = Len(q) - 1 /\ Head(q) = q[1] /\ Len(q) \in Nat
      /\ DOMAIN a = 1 .. Len(q) - 1 /\ DOMAIN q = 1 .. Len(q) /\ Len(q) > 0
      /\ \A i \in 1 .. Len(q) - 1 : a[i] = q[i + 1]
      /\ Head(q) \in Jobs
  OBVIOUS
<1> HIDE DEF a
<1>2. \A i \in DOMAIN a : i \in Nat /\ i + 1 \in DOMAIN q /\ a[i] = q[i + 1]
  BY <1>1
<1>3. \A i \in DOMAIN q : i = 1 \/ (i - 1 \in DOMAIN a /\ a[i - 1] = q[i])
  BY <1>1
<1>4. Once(a)
  BY <1>1, <1>2 DEF Once
<1>5. Elements(a) \subseteq Elements(q) \ {Head(q)}
  <2> SUFFICES ASSUME NEW i \in DOMAIN a PROVE a[i] \in Elements(q) /\ a[i] # q[1]
    BY <1>1 DEF Elements
  <2>1. i + 1 \in DOMAIN q /\ a[i] = q[i + 1] /\ 1 \in DOMAIN q /\ i + 1 # 1
    BY <1>1, <1>2
  <2> QED
    BY <2>1 DEF Once, Elements
<1>6. Elements(q) \ {Head(q)} \subseteq Elements(a)
  BY <1>1, <1>3 DEF Elements
<1>7. Head(q) \in Elements(q)
  BY <1>1 DEF Elements
<1> QED
  BY <1>1, <1>4, <1>5, <1>6, <1>7 DEF a

LEMMA WithoutList ==
    ASSUME NEW q \in Seq(Jobs), Once(q), NEW j \in Jobs
    PROVE  /\ Without(q, j) \in Seq(Jobs) /\ Once(Without(q, j))
           /\ Elements(Without(q, j)) = Elements(q) \ {j}
<1>1. CASE \A i \in DOMAIN q : q[i] # j
  <2>1. Without(q, j) = q
    BY <1>1 DEF Without
  <2> QED
    BY <1>1, <2>1 DEF Elements
<1>2. CASE \E i \in DOMAIN q : q[i] = j
  <2> DEFINE S == {k \in DOMAIN q : q[k] = j}
             i == First(S)
             n == Len(q)
             a == Without(q, j)
  <2>1. i \in DOMAIN q /\ q[i] = j
    <3>1. S \in SUBSET Nat /\ S # {}
      BY <1>2
    <3> HIDE DEF S
    <3>2. i \in S
      BY <3>1, FirstIn
    <3> QED
      BY <3>2 DEF S
  <2>2. a = SubSeq(q, 1, i - 1) \o SubSeq(q, i + 1, n)
    BY <1>2 DEF Without
  <2>3. n \in Nat /\ DOMAIN q = 1 .. n /\ i \in 1 .. n
    BY <2>1
  <2> HIDE DEF i, n, S, a
  <2>4. /\ SubSeq(q, 1, i - 1) \in Seq(Jobs) /\ Len(SubSeq(q, 1, i - 1)) = i - 1
        /\ \A x \in 1 .. i - 1 : SubSeq(q, 1, i - 1)[x] = q[x]
    BY <2>3
  <2>5. /\ SubSeq(q, i + 1, n) \in Seq(Jobs) /\ Len(SubSeq(q, i + 1, n)) = n - i
        /\ \A x \in 1 .. n - i : SubSeq(q, i + 1, n)[x] = q[i + x]
    <3>1. i + 1 \in Int /\ n \in Int /\ \A x \in i + 1 .. n : q[x] \in Jobs
      BY <2>3
    <3>2. /\ SubSeq(q, i + 1, n) \in Seq(Jobs)
          /\ Len(SubSeq(q, i + 1, n)) = IF i + 1 <= n THEN n - (i + 1) + 1 ELSE 0
          /\ \A x \in 1 .. n - (i + 1) + 1 : SubSeq(q, i + 1, n)[x] = q[i + 1 + x - 1]
      BY ONLY <3>1, SubSeqProperties
    <3>3. n - (i + 1) + 1 = n - i /\ \A x \in 1 .. n - i : i + 1 + x - 1 = i + x
      BY <2>3
    <3>4. (IF i + 1 <= n THEN n - (i + 1) + 1 ELSE 0) = n - i
      BY <2>3
    <3> QED
      BY ONLY <3>2, <3>3, <3>4
  <2>6. /\ a \in Seq(Jobs) /\ Len(a) = n - 1 /\ DOMAIN a = 1 .. n - 1
        /\ \A x \in 1 .. n - 1 : a[x] = IF x < i THEN q[x] ELSE q[x + 1]
    <3> DEFINE s == SubSeq(q, 1, i - 1)
               t == SubSeq(q, i + 1, n)
    <3>1. s \in Seq(Jobs) /\ t \in Seq(Jobs) /\ a = s \o t /\ Len(s) = i - 1 /\ Len(t) = n - i
      BY <2>2, <2>4, <2>5
    <3>2. \A x \in 1 .. n - 1 : a[x] = IF x < i THEN s[x] ELSE t[x - (i - 1)]
      <4> HIDE DEF s, t
      <4> QED
        BY <2>3, <3>1
    <3>3. /\ \A x \in 1 .. i - 1 : s[x] = q[x]
          /\ \A x \in 1 .. n - i : t[x] = q[i + x]
      BY <2>4, <2>5
    <3> HIDE DEF s, t
    <3>4. \A x \in 1 .. n - 1 : x >= i => x - (i - 1) \in 1 .. n - i /\ i + (x - (i - 1)) = x + 1
      BY <2>3
    <3>5. a \in Seq(Jobs) /\ Len(a) = n - 1
      <4>1. a \in Seq(Jobs) /\ Len(a) = Len(s) + Len(t)
        BY ONLY <3>1, ConcatProperties
      <4>2. Len(s) + Len(t) = n - 1
        BY ONLY <2>3, <3>1
      <4> QED
        BY <4>1, <4>2
    <3>6. \A x \in 1 .. n - 1 : a[x] = IF x < i THEN q[x] ELSE q[x + 1]
      BY <2>3, <3>2, <3>3, <3>4
    <3> QED
      BY <3>5, <3>6
  <2>7. \A x \in 1 .. n - 1 : \E y \in 1 .. n : y = (IF x < i THEN x ELSE x + 1) /\ a[x] = q[y] /\ y # i
    BY <2>3, <2>6
  <2>8. \A y \in 1 .. n : y # i => \E x \in 1 .. n - 1 : y = (IF x < i THEN x ELSE x + 1)
    <3> SUFFICES ASSUME NEW y \in 1 .. n, y # i
                 PROVE  \E x \in 1 .. n - 1 : y = (IF x < i THEN x ELSE x + 1)
      OBVIOUS
    <3>1. CASE y < i
      BY <2>3, <3>1
    <3>2. CASE y > i
      <4>1. y - 1 \in 1 .. n - 1 /\ ~(y - 1 < i) /\ y = (y - 1) + 1
        BY <2>3, <3>2
      <4> QED
        BY <4>1
    <3> QED
      BY <2>3, <3>1, <3>2
  <2>9. Once(a)
    <3> SUFFICES ASSUME NEW x \in 1 .. n - 1, NEW y \in 1 .. n - 1, a[x] = a[y]
                 PROVE  x = y
      BY <2>6 DEF Once
    <3>1. PICK u \in 1 .. n : u = (IF x < i THEN x ELSE x + 1) /\ a[x] = q[u]
      BY <2>7
    <3>2. PICK v \in 1 .. n : v = (IF y < i THEN y ELSE y + 1) /\ a[y] = q[v]
      BY <2>7
    <3>3. u = v
      BY <2>3, <3>1, <3>2 DEF Once
    <3> QED
      BY <2>3, <3>1, <3>2, <3>3
  <2>10. Elements(a) = Elements(q) \ {j}
    <3>1. \A x \in 1 .. n - 1 : a[x] \in Elements(q) /\ a[x] # j
      BY <2>1, <2>3, <2>7 DEF Elements, Once
    <3>2. \A y \in 1 .. n : q[y] # j => q[y] \in Elements(a)
      <4> SUFFICES ASSUME NEW y \in 1 .. n, q[y] # j PROVE q[y] \in Elements(a)
        OBVIOUS
      <4>1. PICK x \in 1 .. n - 1 : y = (IF x < i THEN x ELSE x + 1)
        BY <2>1, <2>8
      <4>2. a[x] = q[y] /\ x \in DOMAIN a
        BY <2>6, <4>1
      <4> QED
        BY <4>2 DEF Elements
    <3> QED
      BY <2>3, <2>6, <3>1, <3>2 DEF Elements
  <2> QED
    BY <2>6, <2>9, <2>10 DEF a
<1> QED
  BY <1>1, <1>2

-----------------------------------------------------------------------------
(* The jobs.                                                               *)

\* A count of jobs when one job is, or stops being, counted.
Step(n, was, is) == IF is /\ ~was THEN n + 1 ELSE IF was /\ ~is THEN n - 1 ELSE n

LEMMA CountStep ==
    ASSUME NEW S \in SUBSET Jobs, NEW R \in SUBSET Jobs, NEW j \in Jobs,
           \A i \in Jobs \ {j} : i \in R <=> i \in S
    PROVE  Cardinality(R) = Step(Cardinality(S), j \in S, j \in R)
<1>1. CASE j \in S /\ j \notin R
  <2>1. R = S \ {j}
    BY <1>1
  <2> QED
    BY <1>1, <2>1, FiniteTables, CountOne DEF Step
<1>2. CASE j \notin S /\ j \in R
  <2>1. R = S \cup {j}
    BY <1>2
  <2> QED
    BY <1>2, <2>1, FiniteTables, CountOne DEF Step
<1>3. CASE j \in S <=> j \in R
  <2>1. R = S
    BY <1>3
  <2> QED
    BY <1>3, <2>1 DEF Step
<1> QED
  BY <1>1, <1>2, <1>3

\* What a step that changes one job has to show of that job.
LEMMA OneJob ==
    ASSUME NEW p, NEW k, NEW p2 \in Pools, NEW k2 \in Workers, NEW j \in Jobs,
           JobsInv(p, k), Once(p2.queue), Once(p2.done),
           \A i \in Jobs \ {j} :
              /\ p2.jobs[i] = p.jobs[i]
              /\ i \in Elements(p2.queue) <=> i \in Elements(p.queue)
              /\ i \in Elements(p2.done) <=> i \in Elements(p.done)
              /\ Spawning(k2, i) <=> Spawning(k, i)
              /\ (k.pc = "reaping" /\ k.job = i) => (k2.pc = "reaping" /\ k2.job = i),
           Placed(p2, k2, j), Loaded(p2, j), p2.jobs[j].gen <= p2.gen, p.gen <= p2.gen,
           AtWork(p2, k2),
           p2.active = Step(p.active, p.jobs[j].state # "free", p2.jobs[j].state # "free"),
           p2.starts = Step(p.starts, p.jobs[j].state \in StartStates,
                            p2.jobs[j].state \in StartStates),
           p2.starts <= StartCapacity
    PROVE  JobsInv(p2, k2)
<1>1. ASSUME NEW i \in Jobs
      PROVE  Placed(p2, k2, i) /\ Loaded(p2, i) /\ p2.jobs[i].gen <= p2.gen
  <2>1. CASE i # j
    <3>1. Placed(p, k, i) /\ Loaded(p, i) /\ p.jobs[i].gen <= p.gen
      BY DEF JobsInv
    <3>2. p2.jobs[i] = p.jobs[i]
      BY <2>1
    <3>3. Placed(p2, k2, i)
      BY <2>1, <3>1, <3>2 DEF Placed
    <3>4. Loaded(p2, i)
      BY <3>1, <3>2 DEF Loaded
    <3>5. p2.jobs[i].gen <= p2.gen
      <4>1. p.jobs[i] \in JobRecords /\ p.gen \in Nat /\ p2.gen \in Nat
        BY DEF JobsInv, Pools
      <4>2. p.jobs[i].gen \in Nat
        BY <4>1 DEF JobRecords
      <4> QED
        BY <3>1, <3>2, <4>1, <4>2
    <3> QED
      BY <3>3, <3>4, <3>5
  <2> QED
    BY <2>1
<1>2. p2.active = Cardinality(BusyJobs(p2))
  <2>1. BusyJobs(p2) \in SUBSET Jobs /\ BusyJobs(p) \in SUBSET Jobs
    BY DEF BusyJobs
  <2>2. \A i \in Jobs \ {j} : i \in BusyJobs(p2) <=> i \in BusyJobs(p)
    BY DEF BusyJobs
  <2>3. /\ j \in BusyJobs(p2) <=> p2.jobs[j].state # "free"
        /\ j \in BusyJobs(p) <=> p.jobs[j].state # "free"
    BY DEF BusyJobs
  <2>4. Cardinality(BusyJobs(p2)) = Step(Cardinality(BusyJobs(p)), j \in BusyJobs(p), j \in BusyJobs(p2))
    BY ONLY <2>1, <2>2, CountStep
  <2> QED
    BY <2>3, <2>4 DEF JobsInv, Step
<1>3. p2.starts = Cardinality(StartJobs(p2))
  <2>1. StartJobs(p2) \in SUBSET Jobs /\ StartJobs(p) \in SUBSET Jobs
    BY DEF StartJobs
  <2>2. \A i \in Jobs \ {j} : i \in StartJobs(p2) <=> i \in StartJobs(p)
    BY DEF StartJobs
  <2>3. /\ j \in StartJobs(p2) <=> p2.jobs[j].state \in StartStates
        /\ j \in StartJobs(p) <=> p.jobs[j].state \in StartStates
    BY DEF StartJobs
  <2>4. Cardinality(StartJobs(p2)) = Step(Cardinality(StartJobs(p)), j \in StartJobs(p), j \in StartJobs(p2))
    BY ONLY <2>1, <2>2, CountStep
  <2> QED
    BY <2>3, <2>4 DEF JobsInv, Step
<1> QED
  BY <1>1, <1>2, <1>3 DEF JobsInv

\* The counts of jobs are natural and go down only from what was counted.
LEMMA JobCounts ==
    ASSUME NEW p, NEW k, JobsInv(p, k), NEW j \in Jobs
    PROVE  /\ p.active \in Nat /\ p.starts \in Nat
           /\ p.jobs[j].state # "free" => p.active > 0
           /\ p.jobs[j].state \in StartStates => p.starts > 0
           /\ p.active <= JobCapacity /\ p.starts <= p.active
           /\ p.active # 0 <=> \E i \in Jobs : p.jobs[i].state # "free"
<1>1. BusyJobs(p) \in SUBSET Jobs /\ StartJobs(p) \in SUBSET BusyJobs(p)
  BY DEF BusyJobs, StartJobs, StartStates
<1>2. IsFiniteSet(Jobs) /\ Cardinality(Jobs) = JobCapacity
  BY FiniteTables
<1>3. /\ Cardinality(BusyJobs(p)) \in Nat /\ Cardinality(BusyJobs(p)) <= JobCapacity
      /\ BusyJobs(p) # {} <=> Cardinality(BusyJobs(p)) # 0
      /\ j \in BusyJobs(p) => Cardinality(BusyJobs(p)) > 0
  BY <1>1, <1>2, CountOne
<1>4. StartJobs(p) \in SUBSET Jobs
  BY <1>1
<1>5. /\ Cardinality(StartJobs(p)) \in Nat
      /\ j \in StartJobs(p) => Cardinality(StartJobs(p)) > 0
  BY <1>4, <1>2, CountOne
<1>6. Cardinality(StartJobs(p)) <= Cardinality(BusyJobs(p))
  <2>1. IsFiniteSet(BusyJobs(p))
    BY <1>1, <1>2, FS_Subset
  <2> QED
    BY <1>1, <2>1, FS_Subset
<1>7. p.active = Cardinality(BusyJobs(p)) /\ p.starts = Cardinality(StartJobs(p))
  BY DEF JobsInv
<1>8. /\ j \in BusyJobs(p) <=> p.jobs[j].state # "free"
      /\ j \in StartJobs(p) <=> p.jobs[j].state \in StartStates
      /\ BusyJobs(p) # {} <=> \E i \in Jobs : p.jobs[i].state # "free"
  BY DEF BusyJobs, StartJobs
<1> QED
  BY <1>3, <1>5, <1>6, <1>7, <1>8

\* What no step of a job touches.
Beside(p, p2) ==
    p2.watches = p.watches /\ p2.watching = p.watching /\ p2.stopping = p.stopping

\* The pool with other lists.
Relisted(p, q, d) == [p EXCEPT !.queue = q, !.done = d]

\* Job j is not with the worker, and q and d are the lists without it.
Unlisted(p, k, j, q, d) ==
    /\ q \in Seq(Jobs) /\ Once(q) /\ Elements(q) = Elements(p.queue) \ {j}
    /\ d \in Seq(Jobs) /\ Once(d) /\ Elements(d) = Elements(p.done) \ {j}
    /\ p.jobs[j].state \notin {"free", "reap_running", "start_running"}
    /\ ~Spawning(k, j)

LEMMA ReleaseListed ==
    ASSUME NEW p, NEW k, JobsInv(p, k), NEW j \in Jobs, NEW q, NEW d, Unlisted(p, k, j, q, d)
    PROVE  LET p2 == Release(Relisted(p, q, d), j) IN
           /\ JobsInv(p2, k) /\ Beside(p, p2)
           /\ p2.jobs = [p.jobs EXCEPT ![j] = FreeJob(p.jobs[j].gen)]
           /\ p2.queue = q /\ p2.done = d /\ p2.gen = p.gen
<1> DEFINE p2 == Release(Relisted(p, q, d), j)
<1>1. /\ q \in Seq(Jobs) /\ Once(q) /\ Elements(q) = Elements(p.queue) \ {j}
      /\ d \in Seq(Jobs) /\ Once(d) /\ Elements(d) = Elements(p.done) \ {j}
      /\ p.jobs[j].state # "free" /\ p.jobs[j].state # "reap_running"
      /\ p.jobs[j].state # "start_running" /\ ~Spawning(k, j)
  BY DEF Unlisted
<1>2. p \in Pools /\ p.jobs[j] \in JobRecords
  BY <1>1 DEF JobsInv, Pools
<1>3. /\ p2.jobs = [p.jobs EXCEPT ![j] = FreeJob(p.jobs[j].gen)]
      /\ p2.queue = q /\ p2.done = d /\ p2.gen = p.gen /\ Beside(p, p2)
      /\ p2.active = Down(p.active)
      /\ p2.starts = IF p.jobs[j].state \in StartStates THEN Down(p.starts) ELSE p.starts
      /\ DOMAIN p2 = DOMAIN p
  BY <1>1, <1>2 DEF Release, Beside, Pools, Relisted
<1>4. /\ p2.active = p.active - 1 /\ p2.active \in Nat /\ p2.starts \in Nat
      /\ p2.starts = IF p.jobs[j].state \in StartStates THEN p.starts - 1 ELSE p.starts
      /\ p2.starts <= p.starts
  <2>1. /\ p.active \in Nat /\ p.starts \in Nat /\ p.active > 0
        /\ p.jobs[j].state \in StartStates => p.starts > 0
    BY <1>1, JobCounts
  <2> HIDE DEF p2
  <2> QED
    BY <1>1, <1>3, <2>1 DEF Down
<1>5. FreeJob(p.jobs[j].gen) \in JobRecords
  BY <1>1, <1>2, MaxStartsAssumption, HandleCapacityAssumption
  DEF FreeJob, JobRecords, States, NoPid, NoHandle
<1>6. p2.jobs \in [Jobs -> JobRecords]
  BY <1>1, <1>2, <1>3, <1>5 DEF Pools
<1>7. p2 \in Pools
  <2>1. p2.active \in Nat /\ p2.starts \in Nat
    BY <1>1, <1>4
  <2>2. p2 = [p EXCEPT !.jobs = p2.jobs, !.active = p2.active, !.starts = p2.starts,
                       !.queue = q, !.done = d]
    BY <1>1, <1>2, <1>3 DEF Release, Pools, Relisted
  <2> HIDE DEF p2
  <2> QED
    BY <1>1, <1>2, <1>6, <2>1, <2>2 DEF Pools
<1>8. p2.jobs[j] = FreeJob(p.jobs[j].gen) /\ \A i \in Jobs \ {j} : p2.jobs[i] = p.jobs[i]
  BY <1>1, <1>2, <1>3 DEF Pools
<1>9. /\ p2.jobs[j].state = "free" /\ p2.jobs[j].pid = NoPid
      /\ p2.jobs[j].gen = p.jobs[j].gen
  BY <1>1, <1>8 DEF FreeJob
<1> HIDE DEF p2
<1>10. Placed(p2, k, j) /\ Loaded(p2, j)
  BY <1>1, <1>3, <1>9 DEF Placed, Loaded
<1>11. AtWork(p2, k)
  <2>1. k.pc = "reaping" => k.job # j
    BY <1>1 DEF JobsInv, AtWork
  <2>2. k.pc = "spawning" => k.job # j
    BY <1>1 DEF Spawning
  <2> QED
    BY <1>1, <1>8, <2>1, <2>2 DEF JobsInv, AtWork, Workers
<1>12. "free" \notin StartStates
  BY <1>1 DEF StartStates
<1>13. p2.active = Step(p.active, p.jobs[j].state # "free", p2.jobs[j].state # "free")
  BY <1>1, <1>4, <1>9 DEF Step
<1>14. p2.starts = Step(p.starts, p.jobs[j].state \in StartStates, p2.jobs[j].state \in StartStates)
  <2>1. p2.jobs[j].state \notin StartStates
    BY <1>1, <1>9, <1>12
  <2> QED
    BY <1>1, <1>4, <2>1 DEF Step
<1>15. p2.starts <= StartCapacity
  <2>1. p.starts <= StartCapacity /\ p.starts \in Nat /\ StartCapacity \in Nat
    BY <1>1, <1>2, StartCapacityAssumption, JobCapacityAssumption DEF JobsInv, Pools
  <2> QED
    BY <1>1, <1>4, <2>1
<1>16. p2.jobs[j].gen <= p2.gen /\ p.gen <= p2.gen
  BY <1>1, <1>2, <1>3, <1>9 DEF JobsInv, Pools
<1>17. JobsInv(p2, k)
  BY <1>1, <1>3, <1>7, <1>8, <1>10, <1>11, <1>13, <1>14, <1>15, <1>16, OneJob DEF JobsInv
<1> QED
  BY <1>1, <1>3, <1>17 DEF p2

\* A job that is in neither list and not with the worker is released.
LEMMA ReleaseJob ==
    ASSUME NEW p, NEW k, JobsInv(p, k), NEW j \in Jobs, p.jobs[j].state = "start_delivered"
    PROVE  LET p2 == Release(p, j) IN
           /\ JobsInv(p2, k) /\ Beside(p, p2)
           /\ p2.jobs = [p.jobs EXCEPT ![j] = FreeJob(p.jobs[j].gen)]
           /\ p2.queue = p.queue /\ p2.done = p.done /\ p2.gen = p.gen
<1>1. p \in Pools /\ Placed(p, k, j) /\ AtWork(p, k) /\ Once(p.queue) /\ Once(p.done)
  BY DEF JobsInv
<1>2. j \notin Elements(p.queue) /\ j \notin Elements(p.done)
  BY <1>1 DEF Placed
<1>3. ~Spawning(k, j)
  BY <1>1 DEF AtWork, Spawning
<1>4. Relisted(p, p.queue, p.done) = p
  BY <1>1 DEF Pools, Relisted
<1>5. p.queue \in Seq(Jobs) /\ p.done \in Seq(Jobs)
  BY <1>1 DEF Pools
<1>6. Unlisted(p, k, j, p.queue, p.done)
  BY <1>1, <1>2, <1>3, <1>5 DEF Unlisted
<1>7. LET p2 == Release(Relisted(p, p.queue, p.done), j) IN
      /\ JobsInv(p2, k) /\ Beside(p, p2)
      /\ p2.jobs = [p.jobs EXCEPT ![j] = FreeJob(p.jobs[j].gen)]
      /\ p2.queue = p.queue /\ p2.done = p.done /\ p2.gen = p.gen
  BY <1>6, ReleaseListed
<1> QED
  BY <1>4, <1>7

\* A free slot is given to a new job of state s.
LEMMA SubmitJob ==
    ASSUME NEW p, NEW k, JobsInv(p, k), FreeJobs(p) # {}, NEW job \in JobRecords,
           job.state \in {"start_queued", "reap_queued"},
           job.pid = NoPid <=> job.state = "start_queued",
           NEW n \in Nat, n = Step(p.starts, FALSE, job.state = "start_queued"),
           n <= StartCapacity
    PROVE  LET p2 == [Submitted(p, job) EXCEPT !.starts = n]
               j == First(FreeJobs(p))
           IN  /\ JobsInv(p2, k) /\ Beside(p, p2)
               /\ j \in Jobs /\ p.jobs[j].state = "free"
               /\ p2.jobs = [p.jobs EXCEPT ![j] = [job EXCEPT !.gen = p.gen + 1]]
               /\ p2.done = p.done /\ p2.gen = p.gen + 1 /\ p2.queue # <<>>
               /\ p2.active = p.active + 1
<1> DEFINE p2 == [Submitted(p, job) EXCEPT !.starts = n]
           j == First(FreeJobs(p))
           new == [job EXCEPT !.gen = p.gen + 1]
<1>1. p \in Pools /\ k \in Workers /\ Once(p.queue) /\ Once(p.done) /\ AtWork(p, k)
  BY DEF JobsInv
<1>2. j \in Jobs /\ p.jobs[j].state = "free"
  <2>1. FreeJobs(p) \in SUBSET Nat
    BY JobCapacityAssumption DEF FreeJobs, Jobs
  <2>2. j \in FreeJobs(p)
    BY <2>1, FirstIn
  <2> QED
    BY <2>2 DEF FreeJobs
<1>3. p.gen \in Nat /\ p.active \in Nat /\ p.queue \in Seq(Jobs) /\ p.jobs \in [Jobs -> JobRecords]
  BY <1>1 DEF Pools
<1>4. new \in JobRecords /\ new.state = job.state /\ new.pid = job.pid /\ new.gen = p.gen + 1
  <2> DEFINE m == p.gen + 1
  <2>1. m \in Nat /\ new = [job EXCEPT !.gen = m]
    BY <1>3
  <2> HIDE DEF m, new
  <2>2. new \in JobRecords
    BY <2>1 DEF JobRecords
  <2>3. new.state = job.state /\ new.pid = job.pid /\ new.gen = m
    BY <2>1 DEF JobRecords
  <2> QED
    BY <2>2, <2>3 DEF m
<1>5. p2 = [p EXCEPT !.gen = p.gen + 1, !.jobs = [p.jobs EXCEPT ![j] = new],
                     !.queue = Append(p.queue, j), !.active = p.active + 1, !.starts = n]
  BY <1>1 DEF Submitted, Pools
<1> HIDE DEF p2, j, new
<1>6. j \notin Elements(p.queue) /\ j \notin Elements(p.done) /\ ~Spawning(k, j)
      /\ ~(k.pc = "reaping" /\ k.job = j)
  BY <1>2 DEF JobsInv, Placed, Spawning, AtWork
<1>7. /\ Append(p.queue, j) \in Seq(Jobs) /\ Once(Append(p.queue, j))
      /\ Elements(Append(p.queue, j)) = Elements(p.queue) \cup {j}
  BY <1>1, <1>2, <1>3, <1>6, AppendList
<1>8. [p.jobs EXCEPT ![j] = new] \in [Jobs -> JobRecords]
  BY <1>3, <1>4
<1>9. /\ p2.gen = p.gen + 1 /\ p2.jobs = [p.jobs EXCEPT ![j] = new]
      /\ p2.queue = Append(p.queue, j) /\ p2.active = p.active + 1 /\ p2.starts = n
      /\ p2.done = p.done /\ Beside(p, p2)
  BY <1>1, <1>5 DEF Pools, Beside
<1>10. p2 \in Pools
  <2> DEFINE a == Append(p.queue, j)
             js == [p.jobs EXCEPT ![j] = new]
             m == p.gen + 1
             l == p.active + 1
  <2>1. /\ a \in Seq(Jobs) /\ js \in [Jobs -> JobRecords] /\ m \in Nat /\ l \in Nat
        /\ p2 = [p EXCEPT !.gen = m, !.jobs = js, !.queue = a, !.active = l, !.starts = n]
    BY <1>3, <1>5, <1>7, <1>8
  <2> HIDE DEF a, js, m, l
  <2> QED
    BY <1>1, <2>1 DEF Pools
<1>11. p2.jobs[j] = new /\ \A i \in Jobs \ {j} : p2.jobs[i] = p.jobs[i]
  BY <1>2, <1>3, <1>9
<1>12. Placed(p2, k, j)
  BY <1>4, <1>6, <1>7, <1>9, <1>11 DEF Placed
<1>13. Loaded(p2, j)
  BY <1>4, <1>11 DEF Loaded
<1>14. AtWork(p2, k)
  BY <1>1, <1>6, <1>11 DEF AtWork, Spawning, Workers
<1>15. p2.active = Step(p.active, p.jobs[j].state # "free", p2.jobs[j].state # "free")
  BY <1>2, <1>4, <1>9, <1>11 DEF Step
<1>16. p2.starts = Step(p.starts, p.jobs[j].state \in StartStates, p2.jobs[j].state \in StartStates)
  <2>1. p.jobs[j].state \notin StartStates /\ (p2.jobs[j].state \in StartStates <=> job.state = "start_queued")
    BY <1>2, <1>4, <1>11 DEF StartStates
  <2> QED
    BY <1>9, <2>1 DEF Step
<1>17. p2.jobs[j].gen <= p2.gen /\ p.gen <= p2.gen
  BY <1>3, <1>4, <1>9, <1>11
<1>18. JobsInv(p2, k)
  <2>1. \A i \in Jobs \ {j} :
          /\ p2.jobs[i] = p.jobs[i]
          /\ i \in Elements(p2.queue) <=> i \in Elements(p.queue)
          /\ i \in Elements(p2.done) <=> i \in Elements(p.done)
    BY <1>7, <1>9, <1>11
  <2> QED
    BY <1>1, <1>2, <1>7, <1>9, <1>10, <1>12, <1>13, <1>14, <1>15, <1>16, <1>17, <2>1, OneJob
<1>19. p2.queue # <<>>
  BY <1>7, <1>9, ListEmpty
<1> QED
  BY <1>2, <1>9, <1>18, <1>19 DEF p2, j, new

\* The first free job is a new one, and is queued.
SubmittedTo(p, p2, j, job) ==
    /\ Beside(p, p2) /\ j \in Jobs /\ p.jobs[j].state = "free"
    /\ p2.jobs = [p.jobs EXCEPT ![j] = [job EXCEPT !.gen = p.gen + 1]]
    /\ p2.done = p.done /\ p2.gen = p.gen + 1 /\ p2.queue # <<>>
    /\ p2.active = p.active + 1

StartSubmitted(p) == [Submitted(p, StartJob) EXCEPT !.starts = p.starts + 1]

LEMMA SubmitStart ==
    ASSUME NEW p, NEW k, JobsInv(p, k), StartFits(p), NEW p2, p2 = StartSubmitted(p)
    PROVE  JobsInv(p2, k) /\ SubmittedTo(p, p2, First(FreeJobs(p)), StartJob)
<1>1. StartJob \in JobRecords /\ StartJob.state = "start_queued" /\ StartJob.pid = NoPid
  BY MaxStartsAssumption, HandleCapacityAssumption
  DEF StartJob, FreeJob, JobRecords, States, StartStates, NoPid, NoHandle
<1>2. FreeJobs(p) # {} /\ p.starts < StartCapacity
  BY DEF StartFits
<1>3. p.starts \in Nat /\ StartCapacity \in Nat
  BY StartCapacityAssumption, JobCapacityAssumption DEF JobsInv, Pools
<1>4. /\ p.starts + 1 \in Nat /\ p.starts + 1 <= StartCapacity
      /\ p.starts + 1 = Step(p.starts, FALSE, StartJob.state = "start_queued")
  BY <1>1, <1>2, <1>3 DEF Step
<1>5. LET p3 == [Submitted(p, StartJob) EXCEPT !.starts = p.starts + 1]
          j == First(FreeJobs(p))
      IN  /\ JobsInv(p3, k) /\ Beside(p, p3)
          /\ j \in Jobs /\ p.jobs[j].state = "free"
          /\ p3.jobs = [p.jobs EXCEPT ![j] = [StartJob EXCEPT !.gen = p.gen + 1]]
          /\ p3.done = p.done /\ p3.gen = p.gen + 1 /\ p3.queue # <<>>
          /\ p3.active = p.active + 1
  BY <1>1, <1>2, <1>4, SubmitJob
<1>6. p2 = [Submitted(p, StartJob) EXCEPT !.starts = p.starts + 1]
  BY DEF StartSubmitted
<1> QED
  BY ONLY <1>5, <1>6 DEF SubmittedTo

LEMMA SubmitReap ==
    ASSUME NEW p, NEW k, JobsInv(p, k), FreeJobs(p) # {}, NEW pid \in Pids,
           NEW h \in 0 .. HandleCapacity, NEW g \in 0 .. MaxStarts,
           NEW p2, p2 = Submitted(p, ReapJob(pid, h, g))
    PROVE  JobsInv(p2, k) /\ SubmittedTo(p, p2, First(FreeJobs(p)), ReapJob(pid, h, g))
<1> DEFINE job == ReapJob(pid, h, g)
<1>1. job \in JobRecords /\ job.state = "reap_queued" /\ job.pid # NoPid
  <2>1. FreeJob(0) \in JobRecords
    BY MaxStartsAssumption, HandleCapacityAssumption
    DEF FreeJob, JobRecords, States, NoPid, NoHandle
  <2>2. pid \in 0 .. MaxStarts /\ pid # 0
    BY MaxStartsAssumption DEF Pids
  <2>3. "reap_queued" \in States
    BY DEF States
  <2> QED
    BY <2>1, <2>2, <2>3 DEF ReapJob, JobRecords, NoPid
<1> HIDE DEF job
<1>2. p.starts \in Nat /\ p.starts <= StartCapacity /\ p \in Pools
  BY DEF JobsInv, Pools
<1>3. p.starts = Step(p.starts, FALSE, job.state = "start_queued")
  BY <1>1 DEF Step
<1>4. p2 = Submitted(p, job)
  BY DEF job
<1>5. [Submitted(p, job) EXCEPT !.starts = p.starts] = p2
  BY <1>2, <1>4 DEF Submitted, Pools
<1>6. LET p3 == [Submitted(p, job) EXCEPT !.starts = p.starts]
          j == First(FreeJobs(p))
      IN  /\ JobsInv(p3, k) /\ Beside(p, p3)
          /\ j \in Jobs /\ p.jobs[j].state = "free"
          /\ p3.jobs = [p.jobs EXCEPT ![j] = [job EXCEPT !.gen = p.gen + 1]]
          /\ p3.done = p.done /\ p3.gen = p.gen + 1 /\ p3.queue # <<>>
          /\ p3.active = p.active + 1
  BY <1>1, <1>2, <1>3, SubmitJob
<1>7. JobsInv(p2, k) /\ SubmittedTo(p, p2, First(FreeJobs(p)), job)
  BY ONLY <1>5, <1>6 DEF SubmittedTo
<1> QED
  BY <1>7 DEF job

\* The pool with another record of job j and other lists.
Changed(p, j, rec, q, d) ==
    [p EXCEPT !.jobs = [p.jobs EXCEPT ![j] = rec], !.queue = q, !.done = d]

LEMMA ChangedFacts ==
    ASSUME NEW p \in Pools, NEW j \in Jobs, NEW rec \in JobRecords,
           NEW q \in Seq(Jobs), NEW d \in Seq(Jobs)
    PROVE  LET p2 == Changed(p, j, rec, q, d) IN
           /\ p2 \in Pools /\ Beside(p, p2)
           /\ p2.jobs[j] = rec /\ \A i \in Jobs \ {j} : p2.jobs[i] = p.jobs[i]
           /\ p2.queue = q /\ p2.done = d /\ p2.gen = p.gen
           /\ p2.active = p.active /\ p2.starts = p.starts
<1> DEFINE js == [p.jobs EXCEPT ![j] = rec]
<1>1. /\ js \in [Jobs -> JobRecords] /\ js[j] = rec
      /\ \A i \in Jobs \ {j} : js[i] = p.jobs[i]
  BY DEF Pools
<1>2. Changed(p, j, rec, q, d) = [p EXCEPT !.jobs = js, !.queue = q, !.done = d]
  BY DEF Changed
<1> HIDE DEF js
<1>3. [p EXCEPT !.jobs = js, !.queue = q, !.done = d] \in Pools
  BY <1>1 DEF Pools
<1> QED
  BY <1>1, <1>2, <1>3 DEF Beside, Pools

\* A job that is in use before and after.
LEMMA ChangedInv ==
    ASSUME NEW p, NEW k, JobsInv(p, k), NEW k2 \in Workers, NEW j \in Jobs,
           NEW rec \in JobRecords, NEW q \in Seq(Jobs), NEW d \in Seq(Jobs),
           Once(q), Once(d), Elements(q) \ {j} = Elements(p.queue) \ {j},
           Elements(d) \ {j} = Elements(p.done) \ {j},
           \A i \in Jobs \ {j} :
              /\ Spawning(k2, i) <=> Spawning(k, i)
              /\ (k.pc = "reaping" /\ k.job = i) => (k2.pc = "reaping" /\ k2.job = i),
           rec.gen = p.jobs[j].gen, p.jobs[j].state # "free", rec.state # "free",
           rec.state \in StartStates <=> p.jobs[j].state \in StartStates,
           Placed(Changed(p, j, rec, q, d), k2, j), Loaded(Changed(p, j, rec, q, d), j),
           AtWork(Changed(p, j, rec, q, d), k2)
    PROVE  JobsInv(Changed(p, j, rec, q, d), k2)
<1> DEFINE p2 == Changed(p, j, rec, q, d)
<1>1. p \in Pools
  BY DEF JobsInv
<1>2. /\ p2 \in Pools
      /\ p2.jobs[j] = rec /\ \A i \in Jobs \ {j} : p2.jobs[i] = p.jobs[i]
      /\ p2.queue = q /\ p2.done = d /\ p2.gen = p.gen
      /\ p2.active = p.active /\ p2.starts = p.starts
  BY <1>1, ChangedFacts
<1>3. Placed(p2, k2, j) /\ Loaded(p2, j) /\ AtWork(p2, k2)
  OBVIOUS
<1> HIDE DEF p2
<1>4. p2.active = Step(p.active, p.jobs[j].state # "free", p2.jobs[j].state # "free")
  BY <1>2 DEF Step
<1>5. p2.starts = Step(p.starts, p.jobs[j].state \in StartStates, p2.jobs[j].state \in StartStates)
  BY <1>2 DEF Step
<1>6. p2.starts <= StartCapacity /\ p2.jobs[j].gen <= p2.gen /\ p.gen <= p2.gen
  BY <1>1, <1>2 DEF JobsInv, Pools
<1>7. \A i \in Jobs \ {j} :
        /\ p2.jobs[i] = p.jobs[i]
        /\ i \in Elements(p2.queue) <=> i \in Elements(p.queue)
        /\ i \in Elements(p2.done) <=> i \in Elements(p.done)
  BY <1>2
<1>8. JobsInv(p2, k2)
  BY <1>2, <1>3, <1>4, <1>5, <1>6, <1>7, OneJob
<1> QED
  BY <1>8 DEF p2

\* The worker may wake up or begin.
LEMMA OtherWorker ==
    ASSUME NEW p, NEW k, JobsInv(p, k), NEW k2 \in Workers,
           k2 = k \/ (k.pc \notin {"spawning", "reaping"} /\ k2.pc \notin {"spawning", "reaping"})
    PROVE  JobsInv(p, k2)
<1>1. CASE k2 # k
  <2>1. k.pc # "spawning" /\ k.pc # "reaping" /\ k2.pc # "spawning" /\ k2.pc # "reaping"
    BY <1>1
  <2>2. \A j \in Jobs : Placed(p, k, j) => Placed(p, k2, j)
    BY <2>1 DEF Placed, Spawning
  <2> QED
    BY <2>1, <2>2 DEF JobsInv, AtWork
<1> QED
  BY <1>1

\* A start is cancelled, wherever its job is.
LEMMA CancelJobInv ==
    ASSUME NEW p, NEW k, JobsInv(p, k), NEW j \in Jobs,
           p.jobs[j].state \in Pending
    PROVE  LET p2 == CancelJob(p, j) IN
           /\ JobsInv(p2, k) /\ Beside(p, p2)
           /\ \A i \in Jobs \ {j} : p2.jobs[i] = p.jobs[i]
           /\ p2.jobs[j].pid = NoPid /\ p2.jobs[j].gen = p.jobs[j].gen
           /\ p2.done = p.done /\ p2.gen = p.gen
           /\ p.queue = <<>> => p2.queue = <<>>
<1> DEFINE p2 == CancelJob(p, j)
<1>1. /\ p \in Pools /\ k \in Workers /\ Once(p.queue) /\ Once(p.done) /\ AtWork(p, k)
      /\ Placed(p, k, j) /\ Loaded(p, j) /\ p.jobs[j] \in JobRecords
      /\ p.queue \in Seq(Jobs) /\ p.done \in Seq(Jobs)
  BY DEF JobsInv, Pools
<1>2. ASSUME p.jobs[j].state = "start_queued"
      PROVE  /\ JobsInv(p2, k) /\ Beside(p, p2)
             /\ \A i \in Jobs \ {j} : p2.jobs[i] = p.jobs[i]
             /\ p2.jobs[j].pid = NoPid /\ p2.jobs[j].gen = p.jobs[j].gen
             /\ p2.done = p.done /\ p2.gen = p.gen
             /\ p.queue = <<>> => p2.queue = <<>>
  <2> DEFINE q == Without(p.queue, j)
  <2>1. q \in Seq(Jobs) /\ Once(q) /\ Elements(q) = Elements(p.queue) \ {j}
    BY <1>1, WithoutList
  <2>2. j \notin Elements(p.done) /\ ~Spawning(k, j)
    BY <1>1, <1>2 DEF Placed, AtWork, Spawning
  <2>3. Elements(p.done) = Elements(p.done) \ {j}
    BY <2>2
  <2>4. p2 = Release(Relisted(p, q, p.done), j)
    <3>1. [p EXCEPT !.queue = Without(p.queue, j)] = Relisted(p, q, p.done)
      BY <1>1 DEF Relisted, Pools
    <3>2. p2 = Release([p EXCEPT !.queue = Without(p.queue, j)], j)
      BY <1>2 DEF CancelJob
    <3> QED
      BY <3>1, <3>2
  <2> HIDE DEF q, p2
  <2>5. LET p3 == Release(Relisted(p, q, p.done), j) IN
        /\ JobsInv(p3, k) /\ Beside(p, p3)
        /\ p3.jobs = [p.jobs EXCEPT ![j] = FreeJob(p.jobs[j].gen)]
        /\ p3.queue = q /\ p3.done = p.done /\ p3.gen = p.gen
    <3>1. Unlisted(p, k, j, q, p.done)
      BY <1>1, <1>2, <2>1, <2>2, <2>3 DEF Unlisted
    <3> QED
      BY <3>1, ReleaseListed
  <2>6. p2.queue = q /\ p2.jobs = [p.jobs EXCEPT ![j] = FreeJob(p.jobs[j].gen)]
    BY <2>4, <2>5
  <2>7. p.queue = <<>> => p2.queue = <<>>
    BY <1>1, <2>1, <2>6, ListEmpty
  <2>8. /\ \A i \in Jobs \ {j} : p2.jobs[i] = p.jobs[i]
        /\ p2.jobs[j] = FreeJob(p.jobs[j].gen)
    BY <1>1, <2>6 DEF Pools
  <2>9. p2.jobs[j].pid = NoPid /\ p2.jobs[j].gen = p.jobs[j].gen
    BY <2>8 DEF FreeJob
  <2> QED
    BY <2>4, <2>5, <2>7, <2>8, <2>9
<1>3. ASSUME p.jobs[j].state \in {"start_running", "start_completed"}
      PROVE  /\ JobsInv(p2, k) /\ Beside(p, p2)
             /\ \A i \in Jobs \ {j} : p2.jobs[i] = p.jobs[i]
             /\ p2.jobs[j].pid = NoPid /\ p2.jobs[j].gen = p.jobs[j].gen
             /\ p2.done = p.done /\ p2.gen = p.gen
             /\ p.queue = <<>> => p2.queue = <<>>
  <2> DEFINE rec == [p.jobs[j] EXCEPT !.state = "start_cancelled", !.pid = NoPid]
             q == p.queue
             d == p.done
             p3 == Changed(p, j, rec, q, d)
  <2>1. rec \in JobRecords /\ rec.state = "start_cancelled" /\ rec.pid = NoPid
        /\ rec.gen = p.jobs[j].gen
    <3>1. 0 \in 0 .. MaxStarts /\ "start_cancelled" \in States
      BY MaxStartsAssumption DEF States, StartStates
    <3>2. rec \in JobRecords
      BY <1>1, <3>1 DEF JobRecords, NoPid
    <3> QED
      BY <1>1, <3>2 DEF JobRecords
  <2>2. p2 = p3
    <3>1. CASE p.jobs[j].state = "start_running"
      <4>1. p.jobs[j].pid = NoPid
        BY <1>1, <3>1 DEF Loaded
      <4>2. rec = [p.jobs[j] EXCEPT !.state = "start_cancelled"]
        BY <1>1, <4>1 DEF JobRecords
      <4>3. p2 = [p EXCEPT !.jobs[j].state = "start_cancelled"]
        BY <3>1 DEF CancelJob
      <4> QED
        BY <1>1, <4>2, <4>3 DEF Changed, Pools
    <3>2. CASE p.jobs[j].state = "start_completed"
      <4> DEFINE js == [p.jobs EXCEPT ![j].state = "start_cancelled", ![j].pid = NoPid]
      <4>1. p2 = [p EXCEPT !.jobs[j].state = "start_cancelled", !.jobs[j].pid = NoPid]
        BY <3>2 DEF CancelJob
      <4>2. p2 = [p EXCEPT !.jobs = js]
        BY <1>1, <4>1 DEF Pools
      <4>3. js = [p.jobs EXCEPT ![j] = rec]
        BY <1>1 DEF Pools
      <4> HIDE DEF js
      <4> QED
        BY <1>1, <4>2, <4>3 DEF Changed, Pools
    <3> QED
      BY <1>3, <3>1, <3>2
  <2> HIDE DEF rec, p2, p3
  <2>3. /\ q \in Seq(Jobs) /\ d \in Seq(Jobs) /\ Once(q) /\ Once(d)
        /\ Elements(q) \ {j} = Elements(p.queue) \ {j}
        /\ Elements(d) \ {j} = Elements(p.done) \ {j}
    BY <1>1
  <2>4. /\ p3 \in Pools /\ Beside(p, p3)
        /\ p3.jobs[j] = rec /\ \A i \in Jobs \ {j} : p3.jobs[i] = p.jobs[i]
        /\ p3.queue = q /\ p3.done = d /\ p3.gen = p.gen
    BY <1>1, <2>1, ChangedFacts DEF p3
  <2>5. Placed(p3, k, j)
    BY <1>1, <1>3, <2>1, <2>4 DEF Placed, AtWork, Spawning
  <2>6. Loaded(p3, j)
    BY <2>1, <2>4 DEF Loaded
  <2>7. AtWork(p3, k)
    BY <1>1, <1>3, <2>1, <2>4 DEF AtWork, Workers
  <2>8. rec.state \in StartStates /\ p.jobs[j].state \in StartStates
    BY <1>3, <2>1 DEF StartStates
  <2> HIDE DEF q, d
  <2>9. JobsInv(p3, k)
    BY <1>1, <1>3, <2>1, <2>3, <2>5, <2>6, <2>7, <2>8, ChangedInv DEF p3
  <2> QED
    BY <2>1, <2>2, <2>4, <2>9 DEF q, d
<1>4. ASSUME p.jobs[j].state = "start_delivered"
      PROVE  /\ JobsInv(p2, k) /\ Beside(p, p2)
             /\ \A i \in Jobs \ {j} : p2.jobs[i] = p.jobs[i]
             /\ p2.jobs[j].pid = NoPid /\ p2.jobs[j].gen = p.jobs[j].gen
             /\ p2.done = p.done /\ p2.gen = p.gen
             /\ p.queue = <<>> => p2.queue = <<>>
  <2>1. p2 = Release(p, j)
    BY <1>4 DEF CancelJob
  <2>2. LET p3 == Release(p, j) IN
        /\ JobsInv(p3, k) /\ Beside(p, p3)
        /\ p3.jobs = [p.jobs EXCEPT ![j] = FreeJob(p.jobs[j].gen)]
        /\ p3.queue = p.queue /\ p3.done = p.done /\ p3.gen = p.gen
    BY <1>4, ReleaseJob
  <2> HIDE DEF p2
  <2>3. /\ \A i \in Jobs \ {j} : p2.jobs[i] = p.jobs[i]
        /\ p2.jobs[j] = FreeJob(p.jobs[j].gen)
    BY <1>1, <2>1, <2>2 DEF Pools
  <2>4. p2.jobs[j].pid = NoPid /\ p2.jobs[j].gen = p.jobs[j].gen
    BY <2>3 DEF FreeJob
  <2> QED
    BY <2>1, <2>2, <2>3, <2>4
<1> QED
  BY <1>2, <1>3, <1>4 DEF Pending

\* A job's record with other values in the fields that change.
WithState(r, s, pid) == [r EXCEPT !.state = s, !.pid = pid]

LEMMA WithStateFacts ==
    ASSUME NEW r \in JobRecords, NEW s \in States, NEW pid \in 0 .. MaxStarts
    PROVE  /\ WithState(r, s, pid) \in JobRecords
           /\ WithState(r, s, pid).state = s /\ WithState(r, s, pid).pid = pid
           /\ WithState(r, s, pid).gen = r.gen
           /\ WithState(r, s, pid).handle = r.handle /\ WithState(r, s, pid).hgen = r.hgen
BY DEF WithState, JobRecords

\* The worker takes the job at the head of the queue.
TakenPool(p) ==
    LET j == Head(p.queue) IN
    Changed(p, j, WithState(p.jobs[j], IF p.jobs[j].state = "start_queued" THEN "start_running"
                                       ELSE "reap_running", p.jobs[j].pid),
            Tail(p.queue), p.done)

LEMMA TakeJob ==
    ASSUME NEW p, NEW k, JobsInv(p, k), k.pc = "top", p.queue # <<>>, NEW k2 \in Workers,
           k2.job = Head(p.queue),
           IF p.jobs[Head(p.queue)].state = "start_queued" THEN k2.pc = "spawning"
           ELSE k2.pc = "reaping" /\ k2.pid = p.jobs[Head(p.queue)].pid
    PROVE  LET p2 == TakenPool(p)
               j == Head(p.queue)
           IN  /\ JobsInv(p2, k2) /\ Beside(p, p2)
               /\ \A i \in Jobs : p2.jobs[i].pid = p.jobs[i].pid /\ p2.jobs[i].gen = p.jobs[i].gen
               /\ \A i \in Jobs \ {j} : p2.jobs[i] = p.jobs[i]
               /\ p.jobs[j].state \in {"start_queued", "reap_queued"} /\ j \in Jobs
               /\ p.jobs[j].state = "start_queued" => p2.jobs[j].state = "start_running"
               /\ p2.done = p.done
<1> DEFINE p2 == TakenPool(p)
           j == Head(p.queue)
           r == p.jobs[j]
           s == IF r.state = "start_queued" THEN "start_running" ELSE "reap_running"
           rec == WithState(r, s, r.pid)
           q == Tail(p.queue)
           d == p.done
<1>1. /\ p \in Pools /\ k \in Workers /\ Once(p.queue) /\ Once(p.done)
      /\ p.queue \in Seq(Jobs) /\ d \in Seq(Jobs) /\ Once(d) /\ Elements(d) = Elements(p.done)
  BY DEF JobsInv, Pools
<1>2. j \in Jobs /\ q \in Seq(Jobs) /\ Once(q) /\ Elements(q) = Elements(p.queue) \ {j}
      /\ j \in Elements(p.queue)
  BY <1>1, TailList
<1>3. r \in JobRecords /\ Placed(p, k, j) /\ Loaded(p, j)
  BY <1>1, <1>2 DEF JobsInv, Pools
<1>4. /\ r.state \in {"start_queued", "reap_queued"} /\ j \notin Elements(p.done)
      /\ r.state = "start_queued" => r.pid = NoPid
  BY <1>2, <1>3 DEF Placed, Loaded
<1>5. s \in States /\ r.pid \in 0 .. MaxStarts
  BY <1>3 DEF States, StartStates, JobRecords
<1>6. /\ rec \in JobRecords /\ rec.state = s /\ rec.pid = r.pid /\ rec.gen = r.gen
  BY <1>3, <1>5, WithStateFacts
<1>7. p2 = Changed(p, j, rec, q, d)
  BY DEF TakenPool
<1> HIDE DEF j, rec, q, d, p2
<1>8. /\ p2 \in Pools /\ Beside(p, p2)
      /\ p2.jobs[j] = rec /\ \A i \in Jobs \ {j} : p2.jobs[i] = p.jobs[i]
      /\ p2.queue = q /\ p2.done = d /\ p2.gen = p.gen
  BY ONLY <1>1, <1>2, <1>6, <1>7, ChangedFacts
<1>9. k2.job = j /\ (r.state = "start_queued" => k2.pc = "spawning")
      /\ (r.state # "start_queued" => k2.pc = "reaping" /\ k2.pid = r.pid)
  BY DEF j
<1>10. Placed(p2, k2, j)
  BY <1>1, <1>2, <1>4, <1>6, <1>8, <1>9 DEF Placed, Spawning
<1>11. Loaded(p2, j)
  BY <1>3, <1>4, <1>6, <1>8 DEF Loaded
<1>12. AtWork(p2, k2)
  BY <1>4, <1>6, <1>8, <1>9 DEF AtWork
<1>13. \A i \in Jobs \ {j} : /\ Spawning(k2, i) <=> Spawning(k, i)
                             /\ ~(k.pc = "reaping" /\ k.job = i)
  BY <1>9 DEF Spawning
<1>14. /\ rec.gen = p.jobs[j].gen /\ p.jobs[j].state # "free" /\ rec.state # "free"
       /\ rec.state \in StartStates <=> p.jobs[j].state \in StartStates
       /\ Elements(q) \ {j} = Elements(p.queue) \ {j} /\ Elements(d) \ {j} = Elements(p.done) \ {j}
  BY <1>1, <1>2, <1>4, <1>6 DEF StartStates
<1> HIDE DEF r, s
<1>15. JobsInv(p2, k2)
  BY <1>1, <1>2, <1>6, <1>7, <1>10, <1>11, <1>12, <1>13, <1>14, ChangedInv
<1>16. p2.jobs[j].pid = p.jobs[j].pid /\ p2.jobs[j].gen = p.jobs[j].gen
  BY <1>6, <1>8 DEF r
<1>17. r.state = "start_queued" => p2.jobs[j].state = "start_running"
  BY <1>6, <1>8 DEF s
<1> QED
  BY <1>2, <1>4, <1>8, <1>15, <1>16, <1>17 DEF p2, j, r, d

\* The worker brings a job back: it is listed for the owner.
LEMMA BringBack ==
    ASSUME NEW p, NEW k, JobsInv(p, k), NEW k2 \in Workers, k.pc \in {"spawning", "reaping"},
           k2.pc \notin {"spawning", "reaping"},
           NEW s \in {"start_completed", "start_cancelled", "reap_completed"},
           NEW pid \in 0 .. MaxStarts, pid # NoPid => s = "start_completed",
           s = "reap_completed" <=> k.pc = "reaping",
           NEW p2, p2 = Changed(p, k.job, WithState(p.jobs[k.job], s, pid), p.queue,
                                Append(p.done, k.job))
    PROVE  /\ JobsInv(p2, k2) /\ Beside(p, p2) /\ k.job \in Jobs
           /\ \A i \in Jobs \ {k.job} : p2.jobs[i] = p.jobs[i]
           /\ p2.jobs[k.job].pid = pid /\ p2.jobs[k.job].state = s
           /\ p2.jobs[k.job].gen = p.jobs[k.job].gen
           /\ p2.done # <<>> /\ p2.queue = p.queue
<1> DEFINE j == k.job
           r == p.jobs[j]
           rec == WithState(r, s, pid)
           q == p.queue
           d == Append(p.done, j)
<1>1. /\ p \in Pools /\ k \in Workers /\ Once(p.queue) /\ Once(p.done) /\ AtWork(p, k)
      /\ q \in Seq(Jobs) /\ Once(q) /\ p.done \in Seq(Jobs) /\ j \in Jobs
  BY DEF JobsInv, Pools, Workers
<1>2. r \in JobRecords /\ Placed(p, k, j)
  BY <1>1 DEF JobsInv, Pools
<1>3. /\ k.pc = "spawning" => r.state \in {"start_running", "start_cancelled"}
      /\ k.pc = "reaping" => r.state = "reap_running"
      /\ j \notin Elements(p.done) /\ j \notin Elements(p.queue)
  BY <1>1, <1>2 DEF AtWork, Placed, Spawning
<1>4. s \in States
  BY DEF States, StartStates
<1>5. rec \in JobRecords /\ rec.state = s /\ rec.pid = pid /\ rec.gen = r.gen
  BY <1>2, <1>4, WithStateFacts
<1>6. d \in Seq(Jobs) /\ Once(d) /\ Elements(d) = Elements(p.done) \cup {j}
  BY <1>1, <1>3, AppendList
<1>7. Elements(q) = Elements(p.queue) /\ q = p.queue /\ p2 = Changed(p, j, rec, q, d)
  OBVIOUS
<1> HIDE DEF rec, q, d
<1>8. /\ p2 \in Pools /\ Beside(p, p2)
      /\ p2.jobs[j] = rec /\ \A i \in Jobs \ {j} : p2.jobs[i] = p.jobs[i]
      /\ p2.queue = q /\ p2.done = d /\ p2.gen = p.gen
  BY <1>1, <1>5, <1>6, <1>7, ChangedFacts
<1>9. ~Spawning(k2, j)
  BY DEF Spawning
<1>10. Placed(p2, k2, j)
  BY <1>3, <1>5, <1>6, <1>7, <1>8, <1>9 DEF Placed
<1>11. Loaded(p2, j)
  BY <1>5, <1>8 DEF Loaded
<1>12. AtWork(p2, k2)
  BY DEF AtWork
<1>13. \A i \in Jobs \ {j} : /\ Spawning(k2, i) <=> Spawning(k, i)
                             /\ ~(k.pc = "reaping" /\ k.job = i)
  BY DEF Spawning
<1>14. /\ rec.gen = p.jobs[j].gen /\ p.jobs[j].state # "free" /\ rec.state # "free"
       /\ rec.state \in StartStates <=> p.jobs[j].state \in StartStates
       /\ Elements(q) \ {j} = Elements(p.queue) \ {j} /\ Elements(d) \ {j} = Elements(p.done) \ {j}
  BY <1>3, <1>5, <1>6, <1>7 DEF StartStates
<1> HIDE DEF r
<1>15. JobsInv(p2, k2)
  BY <1>1, <1>5, <1>6, <1>7, <1>10, <1>11, <1>12, <1>13, <1>14, ChangedInv DEF j
<1>16. p2.done # <<>>
  BY <1>6, <1>8, ListEmpty
<1> QED
  BY <1>1, <1>5, <1>7, <1>8, <1>15, <1>16 DEF j, r, q, d, rec

\* The owner takes the job at the head of the finished ones.
LEMMA HeadDone ==
    ASSUME NEW p, NEW k, JobsInv(p, k), p.done # <<>>
    PROVE  LET j == Head(p.done) IN
           /\ j \in Jobs /\ Tail(p.done) \in Seq(Jobs) /\ Once(Tail(p.done))
           /\ Elements(Tail(p.done)) = Elements(p.done) \ {j}
           /\ j \notin Elements(p.queue)
           /\ p.jobs[j].state \in {"start_completed", "reap_completed", "start_cancelled"}
           /\ ~Spawning(k, j) /\ ~(k.pc = "reaping" /\ k.job = j)
<1> DEFINE j == Head(p.done)
<1>1. p \in Pools /\ Once(p.done) /\ p.done \in Seq(Jobs)
  BY DEF JobsInv, Pools
<1>2. /\ j \in Jobs /\ Tail(p.done) \in Seq(Jobs) /\ Once(Tail(p.done))
      /\ Elements(Tail(p.done)) = Elements(p.done) \ {j} /\ j \in Elements(p.done)
  BY <1>1, TailList
<1> HIDE DEF j
<1>3. Placed(p, k, j) /\ AtWork(p, k)
  BY <1>2 DEF JobsInv
<1>4. p.jobs[j].state \in {"start_completed", "reap_completed", "start_cancelled"}
  BY <1>2, <1>3 DEF Placed
<1>5. ~Spawning(k, j)
  BY <1>2, <1>3, <1>4 DEF Placed, AtWork, Spawning
<1>6. ~(k.pc = "reaping" /\ k.job = j)
  BY <1>3, <1>4 DEF AtWork
<1>7. j \notin Elements(p.queue)
  BY <1>3, <1>4 DEF Placed
<1> QED
  BY <1>2, <1>4, <1>5, <1>6, <1>7 DEF j

LEMMA DeliverJob ==
    ASSUME NEW p, NEW k, JobsInv(p, k), p.done # <<>>,
           p.jobs[Head(p.done)].state = "start_completed"
    PROVE  LET j == Head(p.done)
               p2 == Changed(p, j, WithState(p.jobs[j], "start_delivered", p.jobs[j].pid),
                             p.queue, Tail(p.done))
           IN  /\ JobsInv(p2, k) /\ Beside(p, p2) /\ j \in Jobs
               /\ \A i \in Jobs : p2.jobs[i].pid = p.jobs[i].pid /\ p2.jobs[i].gen = p.jobs[i].gen
               /\ \A i \in Jobs \ {j} : p2.jobs[i] = p.jobs[i]
               /\ p2.jobs[j].state = "start_delivered" /\ p2.queue = p.queue
<1> DEFINE j == Head(p.done)
           r == p.jobs[j]
           rec == WithState(r, "start_delivered", r.pid)
           q == p.queue
           d == Tail(p.done)
           p2 == Changed(p, j, rec, q, d)
<1>1. /\ p \in Pools /\ Once(q) /\ q \in Seq(Jobs) /\ q = p.queue /\ Elements(q) = Elements(p.queue)
      /\ AtWork(p, k) /\ k \in Workers
  BY DEF JobsInv, Pools
<1>2. /\ j \in Jobs /\ d \in Seq(Jobs) /\ Once(d) /\ Elements(d) = Elements(p.done) \ {j}
      /\ j \notin Elements(p.queue) /\ ~Spawning(k, j) /\ ~(k.pc = "reaping" /\ k.job = j)
  BY HeadDone
<1>3. r \in JobRecords /\ r.state = "start_completed"
  BY <1>1, <1>2 DEF Pools
<1>4. "start_delivered" \in States /\ r.pid \in 0 .. MaxStarts
  BY <1>3 DEF States, StartStates, JobRecords
<1>5. /\ rec \in JobRecords /\ rec.state = "start_delivered" /\ rec.pid = r.pid /\ rec.gen = r.gen
  BY <1>3, <1>4, WithStateFacts
<1>6. p2 = Changed(p, j, rec, q, d)
  OBVIOUS
<1> HIDE DEF j, rec, q, d, p2
<1>7. /\ p2 \in Pools /\ Beside(p, p2)
      /\ p2.jobs[j] = rec /\ \A i \in Jobs \ {j} : p2.jobs[i] = p.jobs[i]
      /\ p2.queue = q /\ p2.done = d /\ p2.gen = p.gen
  BY ONLY <1>1, <1>2, <1>5, <1>6, ChangedFacts
<1>8. Placed(p2, k, j)
  BY <1>1, <1>2, <1>5, <1>7 DEF Placed
<1>9. Loaded(p2, j)
  BY <1>5, <1>7 DEF Loaded
<1>10. AtWork(p2, k)
  BY <1>1, <1>2, <1>7 DEF AtWork, Spawning, Workers
<1>11. /\ rec.gen = p.jobs[j].gen /\ p.jobs[j].state # "free" /\ rec.state # "free"
       /\ rec.state \in StartStates <=> p.jobs[j].state \in StartStates
       /\ Elements(q) \ {j} = Elements(p.queue) \ {j} /\ Elements(d) \ {j} = Elements(p.done) \ {j}
  BY <1>1, <1>2, <1>3, <1>5 DEF StartStates
<1>12. \A i \in Jobs \ {j} :
         /\ Spawning(k, i) <=> Spawning(k, i)
         /\ (k.pc = "reaping" /\ k.job = i) => (k.pc = "reaping" /\ k.job = i)
  OBVIOUS
<1> HIDE DEF r
<1>13. JobsInv(p2, k)
  BY <1>1, <1>2, <1>5, <1>6, <1>8, <1>9, <1>10, <1>11, <1>12, ChangedInv
<1>14. p2.jobs[j].pid = p.jobs[j].pid /\ p2.jobs[j].gen = p.jobs[j].gen
  BY <1>5, <1>7 DEF r
<1> QED
  BY <1>1, <1>2, <1>5, <1>7, <1>13, <1>14 DEF p2, j, r, q, d, rec

LEMMA ReleaseDone ==
    ASSUME NEW p, NEW k, JobsInv(p, k), p.done # <<>>
    PROVE  LET j == Head(p.done)
               p2 == Release(Relisted(p, p.queue, Tail(p.done)), j)
           IN  p.jobs[j].state # "start_completed" =>
               /\ JobsInv(p2, k) /\ Beside(p, p2) /\ j \in Jobs
               /\ \A i \in Jobs \ {j} : p2.jobs[i] = p.jobs[i]
               /\ p2.jobs[j] = FreeJob(p.jobs[j].gen) /\ p.jobs[j].pid = NoPid
               /\ p2.queue = p.queue
<1> DEFINE j == Head(p.done)
           q == p.queue
           d == Tail(p.done)
           p2 == Release(Relisted(p, q, d), j)
<1> SUFFICES ASSUME p.jobs[j].state # "start_completed"
             PROVE  /\ JobsInv(p2, k) /\ Beside(p, p2) /\ j \in Jobs
                    /\ \A i \in Jobs \ {j} : p2.jobs[i] = p.jobs[i]
                    /\ p2.jobs[j] = FreeJob(p.jobs[j].gen) /\ p.jobs[j].pid = NoPid
                    /\ p2.queue = p.queue
  OBVIOUS
<1>1. /\ JobsInv(p, k) /\ p \in Pools /\ Once(q) /\ q \in Seq(Jobs)
  BY DEF JobsInv, Pools
<1>2. /\ j \in Jobs /\ d \in Seq(Jobs) /\ Once(d) /\ Elements(d) = Elements(p.done) \ {j}
      /\ j \notin Elements(p.queue) /\ ~Spawning(k, j)
      /\ p.jobs[j].state \in {"start_completed", "reap_completed", "start_cancelled"}
  BY HeadDone
<1>3. Elements(q) = Elements(p.queue) \ {j}
  BY <1>2
<1>4. q = p.queue
  OBVIOUS
<1>5. p2 = Release(Relisted(p, q, d), j)
  OBVIOUS
<1> HIDE DEF j, q, d, p2
<1>6. Unlisted(p, k, j, q, d)
  BY <1>1, <1>2, <1>3 DEF Unlisted
<1>7. JobsInv(p, k) /\ j \in Jobs
  BY <1>2
<1>8. LET p3 == Release(Relisted(p, q, d), j) IN
      /\ JobsInv(p3, k) /\ Beside(p, p3)
      /\ p3.jobs = [p.jobs EXCEPT ![j] = FreeJob(p.jobs[j].gen)]
      /\ p3.queue = q /\ p3.done = d /\ p3.gen = p.gen
  BY ONLY <1>7, <1>6, ReleaseListed
<1>9. /\ JobsInv(p2, k) /\ Beside(p, p2) /\ p2.queue = q
      /\ p2.jobs = [p.jobs EXCEPT ![j] = FreeJob(p.jobs[j].gen)]
  BY <1>5, <1>8
<1>10. /\ p2.jobs[j] = FreeJob(p.jobs[j].gen) /\ \A i \in Jobs \ {j} : p2.jobs[i] = p.jobs[i]
  BY <1>1, <1>2, <1>9 DEF Pools
<1>11. p.jobs[j].pid = NoPid
  BY <1>2 DEF JobsInv, Loaded
<1> QED
  BY <1>1, <1>2, <1>9, <1>10, <1>11, <1>4 DEF p2, j, q, d

-----------------------------------------------------------------------------
(* Custody.                                                                *)

LEMMA HolderKinds ==
    /\ \A j \in Jobs : <<"job", j>> \in Holders
    /\ \A h \in Handles : <<"handle", h>> \in Holders
    /\ <<"worker", 0>> \in Holders
    /\ \A r \in Holders : \/ \E j \in Jobs : r = <<"job", j>>
                          \/ \E h \in Handles : r = <<"handle", h>>
                          \/ r = <<"worker", 0>>
BY DEF Holders

LEMMA HoldAt ==
    ASSUME NEW p, NEW hs, NEW k
    PROVE  /\ \A j \in Jobs : Hold(p, hs, k)[<<"job", j>>] = p.jobs[j].pid
           /\ \A h \in Handles : Hold(p, hs, k)[<<"handle", h>>] =
                 IF Reaps(hs[h]) THEN hs[h].pid ELSE NoPid
           /\ Hold(p, hs, k)[<<"worker", 0>>] = InHand(k)
<1>1. ASSUME NEW j \in Jobs PROVE Hold(p, hs, k)[<<"job", j>>] = p.jobs[j].pid
  BY HolderKinds DEF Hold
<1>2. ASSUME NEW h \in Handles
      PROVE  Hold(p, hs, k)[<<"handle", h>>] = IF Reaps(hs[h]) THEN hs[h].pid ELSE NoPid
  BY HolderKinds DEF Hold
<1>3. Hold(p, hs, k)[<<"worker", 0>>] = InHand(k)
  BY HolderKinds DEF Hold
<1> QED
  BY <1>1, <1>2, <1>3

LEMMA HoldType ==
    ASSUME NEW p \in Pools, NEW hs \in [Handles -> HandleRecords], NEW k \in Workers
    PROVE  \A r \in Holders : Hold(p, hs, k)[r] \in 0 .. MaxStarts
<1> SUFFICES ASSUME NEW r \in Holders PROVE Hold(p, hs, k)[r] \in 0 .. MaxStarts
  OBVIOUS
<1>1. 0 \in 0 .. MaxStarts
  BY MaxStartsAssumption
<1>2. /\ \A j \in Jobs : p.jobs[j].pid \in 0 .. MaxStarts
      /\ \A h \in Handles : hs[h].pid \in 0 .. MaxStarts
      /\ k.pid \in 0 .. MaxStarts
  BY DEF Pools, JobRecords, HandleRecords, Workers
<1> QED
  BY <1>1, <1>2, HolderKinds, HoldAt DEF NoPid, InHand

LEMMA LateAt ==
    ASSUME NEW p, NEW hs
    PROVE  /\ \A j \in Jobs : <<"job", j>> \notin Late(p, hs)
           /\ <<"worker", 0>> \notin Late(p, hs)
           /\ \A h \in Handles : <<"handle", h>> \in Late(p, hs) <=>
                 /\ hs[h].source = "worker"
                 /\ \E w \in WatchesOf(p, hs[h]) : p.watches[w].completed
BY HolderKinds DEF Late, Underway

\* The watches of a handle are those that name it.
LEMMA WatchOf ==
    ASSUME NEW p, NEW hs, NEW pr, Watching(p, hs, pr), Handled(hs), NEW h \in Handles
    PROVE  \A w \in Handles : w \in WatchesOf(p, hs[h]) <=>
                                  w \in Watches(p) /\ p.watches[w].handle = h
<1> SUFFICES ASSUME NEW w \in Handles
             PROVE  w \in WatchesOf(p, hs[h]) <=> w \in Watches(p) /\ p.watches[w].handle = h
  OBVIOUS
<1>1. ASSUME w \in WatchesOf(p, hs[h])
      PROVE  w \in Watches(p) /\ p.watches[w].handle = h
  <2>1. w \in Watches(p) /\ p.watches[w].hgen = hs[h].gen
    BY <1>1 DEF WatchesOf, Watches
  <2> DEFINE g == p.watches[w].handle
  <2>2. g \in Handles /\ hs[g].occupied = 1 /\ hs[g].gen = hs[h].gen
    BY <2>1 DEF Watching
  <2>3. hs[g].gen # 0
    BY <2>2 DEF Handled
  <2>4. g = h
    BY <2>2, <2>3 DEF Handled
  <2> QED
    BY <2>1, <2>4
<1>2. ASSUME w \in Watches(p), p.watches[w].handle = h
      PROVE  w \in WatchesOf(p, hs[h])
  BY <1>2 DEF Watching, WatchesOf, Watches
<1> QED
  BY <1>1, <1>2

\* A handle is late exactly while it has a completed watch.
LEMMA LateWatch ==
    ASSUME NEW p, NEW hs, NEW pr, Watching(p, hs, pr), Handled(hs), NEW h \in Handles
    PROVE  <<"handle", h>> \in Late(p, hs) <=>
              \E w \in Watches(p) : p.watches[w].handle = h /\ p.watches[w].completed
<1>1. \A w \in Handles : w \in WatchesOf(p, hs[h]) <=>
                            w \in Watches(p) /\ p.watches[w].handle = h
  BY WatchOf
<1>2. \A w \in Watches(p) : w \in Handles /\ (p.watches[w].handle = h => hs[h].source = "worker")
  BY DEF Watching, Watches
<1>3. \A w \in WatchesOf(p, hs[h]) : w \in Handles
  BY DEF WatchesOf
<1> QED
  BY <1>1, <1>2, <1>3, LateAt

\* Children are waited for, are lost, or stay where they are.
LEMMA CustodyShrinks ==
    ASSUME NEW d, NEW d2, NEW pr, NEW pr2, NEW lo \in SUBSET Pids, NEW lo2 \in SUBSET Pids,
           NEW U, NEW U2, Custody(d, pr, lo, U), lo \subseteq lo2,
           \A r \in Holders : d[r] \in 0 .. MaxStarts,
           \A p \in Pids : /\ pr2[p] \in Alive => pr[p] \in Alive
                           /\ p \in lo2 => pr2[p] # "unused",
           \A r \in Holders :
              \/ /\ d2[r] = d[r]
                 /\ d[r] # NoPid => /\ d[r] \notin lo2
                                    /\ pr2[d[r]] \in Alive \/ (pr2[d[r]] = "reaped" /\ r \in U2)
              \/ /\ d2[r] = NoPid
                 /\ d[r] # NoPid => pr2[d[r]] \notin Alive \/ d[r] \in lo2
    PROVE  Custody(d2, pr2, lo2, U2)
<1>1. \A r, s \in Holders : d2[r] # NoPid /\ d2[r] = d2[s] => r = s
  BY DEF Custody
<1>2. \A r \in Holders : d2[r] # NoPid =>
          /\ d2[r] \notin lo2
          /\ pr2[d2[r]] \in Alive \/ (pr2[d2[r]] = "reaped" /\ r \in U2)
  BY DEF Custody
<1>3. ASSUME NEW p \in Pids, pr2[p] \in Alive, p \notin lo2
      PROVE  \E r \in Holders : d2[r] = p
  <2>1. PICK r \in Holders : d[r] = p
    BY <1>3 DEF Custody
  <2>2. p # NoPid
    BY MaxStartsAssumption DEF Pids, NoPid
  <2>3. d2[r] = p
    BY <1>3, <2>1, <2>2
  <2> QED
    BY <2>3
<1> QED
  BY <1>1, <1>2, <1>3 DEF Custody

\* A child goes from one holder to another.
LEMMA CustodyMoves ==
    ASSUME NEW d, NEW d2, NEW pr, NEW pr2, NEW lo \in SUBSET Pids, NEW U, NEW U2,
           Custody(d, pr, lo, U), NEW a \in Holders, NEW b \in Holders, a # b,
           d[a] # NoPid, d[b] = NoPid, d2[a] = NoPid, d2[b] = d[a],
           \A r \in Holders : r # a /\ r # b => d2[r] = d[r],
           \A p \in Pids : /\ pr2[p] \in Alive => pr[p] \in Alive
                           /\ p \in lo => pr2[p] # "unused",
           pr2[d[a]] \in Alive,
           \A r \in Holders : r # a /\ r # b /\ d[r] # NoPid =>
              pr2[d[r]] \in Alive \/ (pr2[d[r]] = "reaped" /\ r \in U2)
    PROVE  Custody(d2, pr2, lo, U2)
<1>1. ASSUME NEW r \in Holders, NEW s \in Holders, d2[r] # NoPid, d2[r] = d2[s]
      PROVE  r = s
  <2>1. \A x, y \in Holders : d[x] # NoPid /\ d[x] = d[y] => x = y
    BY DEF Custody
  <2> QED
    BY <1>1, <2>1
<1>2. ASSUME NEW r \in Holders, d2[r] # NoPid
      PROVE  /\ d2[r] \notin lo
             /\ pr2[d2[r]] \in Alive \/ (pr2[d2[r]] = "reaped" /\ r \in U2)
  BY <1>2 DEF Custody
<1>3. ASSUME NEW p \in Pids, pr2[p] \in Alive, p \notin lo
      PROVE  \E r \in Holders : d2[r] = p
  <2>1. PICK r \in Holders : d[r] = p
    BY <1>3 DEF Custody
  <2>2. p # NoPid
    BY MaxStartsAssumption DEF Pids, NoPid
  <2>3. r = a => d2[b] = p
    BY <2>1
  <2>4. r # a => d2[r] = p
    BY <2>1, <2>2
  <2> QED
    BY <2>3, <2>4
<1> QED
  BY <1>1, <1>2, <1>3 DEF Custody

\* A child is born into a holder's hands.
LEMMA CustodyBegins ==
    ASSUME NEW d, NEW d2, NEW pr \in [Pids -> {"unused", "running", "zombie", "reaped"}],
           NEW lo \in SUBSET Pids, NEW U, NEW U2,
           Custody(d, pr, lo, U), NEW b \in Holders, NEW pid \in Pids, pr[pid] = "unused",
           d[b] = NoPid, d2[b] = pid, \A r \in Holders : r # b => d2[r] = d[r],
           \A r \in Holders : d[r] \in 0 .. MaxStarts,
           U \subseteq U2
    PROVE  Custody(d2, [pr EXCEPT ![pid] = "running"], lo, U2)
<1> DEFINE pr2 == [pr EXCEPT ![pid] = "running"]
<1>1. pr2[pid] = "running" /\ \A p \in Pids \ {pid} : pr2[p] = pr[p]
  OBVIOUS
<1> HIDE DEF pr2
<1>2. \A r \in Holders : d[r] # NoPid => d[r] \in Pids
  BY MaxStartsAssumption DEF Pids, NoPid
<1>3. \A r \in Holders : d[r] # pid
  <2>1. pid # NoPid
    BY MaxStartsAssumption DEF Pids, NoPid
  <2> QED
    BY <2>1 DEF Custody, Alive
<1>4. ASSUME NEW r \in Holders, NEW s \in Holders, d2[r] # NoPid, d2[r] = d2[s]
      PROVE  r = s
  <2>1. \A x, y \in Holders : d[x] # NoPid /\ d[x] = d[y] => x = y
    BY DEF Custody
  <2> QED
    BY <1>3, <1>4, <2>1
<1>5. ASSUME NEW r \in Holders, d2[r] # NoPid
      PROVE  /\ d2[r] \notin lo
             /\ pr2[d2[r]] \in Alive \/ (pr2[d2[r]] = "reaped" /\ r \in U2)
  <2>1. CASE r = b
    <3>1. pid \notin lo
      BY DEF Custody
    <3> QED
      BY <1>1, <2>1, <3>1 DEF Alive
  <2>2. CASE r # b
    <3>1. d2[r] = d[r] /\ d[r] \in Pids \ {pid} /\ pr2[d[r]] = pr[d[r]]
      BY <1>1, <1>2, <1>3, <1>5, <2>2
    <3> QED
      BY <1>5, <3>1 DEF Custody
  <2> QED
    BY <2>1, <2>2
<1>6. ASSUME NEW p \in Pids, pr2[p] \in Alive, p \notin lo
      PROVE  \E r \in Holders : d2[r] = p
  <2>1. CASE p = pid
    BY <2>1
  <2>2. CASE p # pid
    <3>1. PICK r \in Holders : d[r] = p
      BY <1>1, <1>6, <2>2 DEF Custody
    <3>2. p # NoPid
      BY MaxStartsAssumption DEF Pids, NoPid
    <3>3. r # b
      BY <3>1, <3>2
    <3> QED
      BY <3>1, <3>3
  <2> QED
    BY <2>1, <2>2
<1>7. \A p \in lo : pr2[p] # "unused"
  BY <1>1 DEF Custody
<1>8. Custody(d2, pr2, lo, U2)
  BY <1>4, <1>5, <1>6, <1>7 DEF Custody
<1> QED
  BY <1>8 DEF pr2

-----------------------------------------------------------------------------
(* What the steps have in common.                                          *)

LEMMA SignalledFacts ==
    ASSUME worker \in Workers
    PROVE  /\ Signalled \in Workers /\ Signalled.pid = worker.pid /\ Signalled.job = worker.job
           /\ Signalled = worker \/ /\ worker.pc \in {"none", "waiting", "polling"}
                                    /\ Signalled.pc \in {"top", "woken"}
           /\ Signalled.pc # "waiting" /\ Signalled.pc # "none"
<1>1. CASE worker.pc \in {"waiting", "polling"}
  <2>1. Signalled = [worker EXCEPT !.pc = "woken"]
    BY <1>1 DEF Signalled
  <2> QED
    BY <1>1, <2>1 DEF Workers
<1>2. CASE worker.pc = "none"
  <2>1. Signalled = [worker EXCEPT !.pc = "top"]
    BY <1>2 DEF Signalled
  <2> QED
    BY <1>2, <2>1 DEF Workers
<1>3. CASE worker.pc \notin {"none", "waiting", "polling"}
  <2>1. Signalled = worker
    BY <1>3 DEF Signalled
  <2> QED
    BY <1>3, <2>1 DEF Workers
<1> QED
  BY <1>1, <1>2, <1>3

\* Some children end or are killed; nothing else about them changes.
Dying(pr, pr2) == \A p \in Pids : pr2[p] = pr[p] \/ (pr[p] \in Alive /\ pr2[p] \in Alive)

LEMMA ChildrenKept ==
    ASSUME NEW p \in Pools, NEW p2, NEW hs \in [Handles -> HandleRecords],
           NEW k \in Workers, NEW k2, NEW pr, NEW pr2, NEW lo \in SUBSET Pids,
           Children(p, hs, k, pr, lo), Handled(hs),
           \A j \in Jobs : p2.jobs[j].pid = p.jobs[j].pid,
           p2.watches = p.watches,
           InHand(k2) = InHand(k),
           Dying(pr, pr2)
    PROVE  Children(p2, hs, k2, pr2, lo)
<1> DEFINE d == Hold(p, hs, k)
           d2 == Hold(p2, hs, k2)
           U == Late(p, hs)
           U2 == Late(p2, hs)
<1>1. U2 = U
  BY DEF Late, Underway, WatchesOf
<1>2. /\ \A j \in Jobs : d[<<"job", j>>] = p.jobs[j].pid /\ d2[<<"job", j>>] = p2.jobs[j].pid
      /\ \A h \in Handles : d[<<"handle", h>>] = d2[<<"handle", h>>]
      /\ d[<<"worker", 0>>] = InHand(k) /\ d2[<<"worker", 0>>] = InHand(k2)
  BY HoldAt
<1>3. \A r \in Holders : d[r] \in 0 .. MaxStarts
  BY HoldType
<1>4. Custody(d, pr, lo, U)
  BY DEF Children
<1> HIDE DEF d, d2, U, U2
<1>5. \A r \in Holders : d2[r] = d[r]
  <2>1. d2[<<"worker", 0>>] = d[<<"worker", 0>>]
    BY <1>2
  <2>2. \A j \in Jobs : d2[<<"job", j>>] = d[<<"job", j>>]
    BY <1>2
  <2> QED
    BY <1>2, <2>1, <2>2, HolderKinds
<1>6. \A x \in Pids : /\ pr2[x] \in Alive <=> pr[x] \in Alive
                      /\ pr2[x] = "unused" => pr[x] = "unused"
                      /\ pr2[x] = "reaped" <=> pr[x] = "reaped"
  BY DEF Dying, Alive
<1>7. \A x \in Pids : /\ pr2[x] \in Alive => pr[x] \in Alive
                      /\ x \in lo => pr2[x] # "unused"
  BY <1>4, <1>6 DEF Custody
<1>8. \A r \in Holders : d[r] # NoPid =>
         /\ d[r] \notin lo
         /\ pr2[d[r]] \in Alive \/ (pr2[d[r]] = "reaped" /\ r \in U2)
  <2> SUFFICES ASSUME NEW r \in Holders, d[r] # NoPid
               PROVE  /\ d[r] \notin lo
                      /\ pr2[d[r]] \in Alive \/ (pr2[d[r]] = "reaped" /\ r \in U2)
    OBVIOUS
  <2>1. d[r] \in Pids
    BY <1>3, MaxStartsAssumption DEF Pids, NoPid
  <2> QED
    BY <1>1, <1>4, <1>6, <2>1 DEF Custody
<1>9. Custody(d2, pr2, lo, U2)
  BY <1>3, <1>4, <1>5, <1>7, <1>8, CustodyShrinks
<1>10. ASSUME NEW h \in Handles, hs[h].exited PROVE pr2[hs[h].pid] = "reaped"
  <2>1. pr[hs[h].pid] = "reaped" /\ hs[h].pid \in 0 .. MaxStarts
    BY <1>10 DEF Children, HandleRecords
  <2>2. hs[h].pid \in Pids
    BY <1>10, <2>1, MaxStartsAssumption DEF Handled, NoPid, Pids
  <2> QED
    BY <1>6, <2>1, <2>2
<1> QED
  BY <1>9, <1>10 DEF Children, d2, U2

LEMMA WatchingKept ==
    ASSUME NEW p, NEW p2, NEW hs, NEW pr, NEW pr2, Watching(p, hs, pr),
           p2.watches = p.watches, p2.watching = p.watching,
           \A h \in Handles : hs[h].pid \in 0 .. MaxStarts,
           \A x \in Pids : pr2[x] = "reaped" <=> pr[x] = "reaped"
    PROVE  Watching(p2, hs, pr2)
<1>1. Watches(p2) = Watches(p)
  BY DEF Watches
<1>2. ASSUME NEW w \in Watches(p)
      PROVE  pr2[p.watches[w].pid] = "reaped" <=> pr[p.watches[w].pid] = "reaped"
  <2>1. p.watches[w].pid \in 0 .. MaxStarts /\ p.watches[w].pid # NoPid
    BY DEF Watching
  <2>2. p.watches[w].pid \in Pids
    BY <2>1, MaxStartsAssumption DEF NoPid, Pids
  <2> QED
    BY <2>2
<1> QED
  BY <1>1, <1>2 DEF Watching

LEMMA ReservedKept ==
    ASSUME NEW p, NEW p2, NEW hs, NEW rs \in [Tasks -> RegRecords], NEW o, NEW o2,
           Reserved(p, hs, rs, o),
           \A j \in Jobs : p.jobs[j].state \in Pending =>
              /\ p2.jobs[j].gen = p.jobs[j].gen /\ p2.jobs[j].state \in Pending
              /\ p2.jobs[j].state = "start_delivered" <=> p.jobs[j].state = "start_delivered",
           o2.at = "arm" <=> o.at = "arm", o2.at = "arm" => o2.task = o.task,
           o.at \in {"join", "down"} => o2.at \in {"join", "down"}
    PROVE  Reserved(p2, hs, rs, o2)
<1>1. ASSUME NEW t \in Tasks, rs[t].kind = "start"
      PROVE  /\ p2.jobs[rs[t].job].gen = rs[t].jgen
             /\ p2.jobs[rs[t].job].state \in Pending
             /\ rs[t].ready <=> p2.jobs[rs[t].job].state = "start_delivered"
             /\ rs[t].active <=> ~rs[t].ready /\ ~(o2.at = "arm" /\ o2.task = t)
  <2>1. rs[t].job \in Jobs
    BY DEF RegRecords
  <2>2. /\ p.jobs[rs[t].job].gen = rs[t].jgen /\ p.jobs[rs[t].job].state \in Pending
        /\ rs[t].ready <=> p.jobs[rs[t].job].state = "start_delivered"
        /\ rs[t].active <=> ~rs[t].ready /\ ~(o.at = "arm" /\ o.task = t)
    BY <1>1 DEF Reserved, Pending
  <2>3. o2.at = "arm" /\ o2.task = t <=> o.at = "arm" /\ o.task = t
    OBVIOUS
  <2> HIDE DEF Pending
  <2> QED
    BY <2>1, <2>2, <2>3
<1> QED
  BY <1>1 DEF Reserved, Pending

\* A step that leaves the handles and the children's places alone.
LEMMA QuietStep ==
    ASSUME PoolInv, Types', handles' = handles, nextGen' = nextGen, live' = live,
           lost' = lost, stale' = stale \/ ~stale',
           JobsInv(pool', worker'), Beside(pool, pool'),
           \A j \in Jobs : pool'.jobs[j].pid = pool.jobs[j].pid,
           InHand(worker') = InHand(worker),
           Dying(proc, proc'), Reserved(pool', handles, regs', owner'),
           Parented(handles, child'), Waking', Closing'
    PROVE  PoolInv'
<1>1. /\ pool \in Pools /\ handles \in [Handles -> HandleRecords] /\ worker \in Workers
      /\ lost \in SUBSET Pids /\ Handled(handles)
      /\ Children(pool, handles, worker, proc, lost) /\ Watching(pool, handles, proc)
  BY DEF PoolInv, Types
<1>2. pool'.watches = pool.watches /\ pool'.watching = pool.watching
  BY DEF Beside
<1>3. Children(pool', handles, worker', proc', lost)
  BY ONLY <1>1, <1>2, ChildrenKept, \A j \in Jobs : pool'.jobs[j].pid = pool.jobs[j].pid,
     Dying(proc, proc'), InHand(worker') = InHand(worker)
<1>4. \A h \in Handles : handles[h].pid \in 0 .. MaxStarts
  BY <1>1 DEF HandleRecords
<1>5. Watching(pool', handles, proc')
  <2>1. \A x \in Pids : proc'[x] = "reaped" <=> proc[x] = "reaped"
    BY DEF Dying, Alive
  <2> QED
    BY ONLY <1>1, <1>2, <1>4, <2>1, WatchingKept
<1>6. /\ JobsInv(pool', worker') /\ Watching(pool', handles', proc') /\ Handled(handles')
      /\ Numbered(handles', nextGen') /\ Children(pool', handles', worker', proc', lost')
      /\ Reserved(pool', handles', regs', owner') /\ Parented(handles', child')
      /\ live' = Cardinality(OpenHandles(handles')) /\ ~stale'
  BY <1>1, <1>3, <1>5 DEF PoolInv
<1> QED
  BY <1>6 DEF PoolInv

LEMMA ClosingKept ==
    ASSUME Closing, owner'.at = owner.at, pool'.watches = pool.watches, regs' = regs,
           child' = child, owner.at # "down" \/ UNCHANGED <<pool, worker, handles>>
    PROVE  Closing'
BY DEF Closing, Watches

\* Nothing changes but what the hypotheses of a step name.
LEMMA SamePool ==
    ASSUME PoolInv, pool' = pool, worker' = worker
    PROVE  /\ JobsInv(pool', worker') /\ Beside(pool, pool')
           /\ \A j \in Jobs : pool'.jobs[j].pid = pool.jobs[j].pid
           /\ InHand(worker') = InHand(worker)
BY DEF PoolInv, Beside

LEMMA SameProc == ASSUME proc' = proc PROVE Dying(proc, proc')
BY DEF Dying

LEMMA ChildExitsInv ==
    ASSUME PoolInv, NEW p \in Pids, ChildExits(p)
    PROVE  PoolInv'
<1>1. /\ proc[p] = "running" /\ proc' = [proc EXCEPT ![p] = "zombie"]
      /\ UNCHANGED <<pool, wake, pipe, worker, owner, handles, nextGen, live,
                     regs, child, ready, stale, lost>>
  BY DEF ChildExits
<1>2. /\ Types /\ Reserved(pool, handles, regs, owner) /\ Parented(handles, child)
      /\ Waking /\ Closing
  BY DEF PoolInv
<1>3. Types'
  BY <1>1, <1>2 DEF Types
<1>4. Dying(proc, proc')
  BY <1>1, <1>2 DEF Types, Dying, Alive
<1>5. Waking' /\ Closing'
  BY <1>1, <1>2 DEF Waking, Closing, WakeExact, WorkerAwake, Completed, Announced
<1> QED
  BY <1>1, <1>2, <1>3, <1>4, <1>5, SamePool, QuietStep

LEMMA TerminateInv ==
    ASSUME PoolInv, NEW t \in Tasks, Terminate(t)
    PROVE  PoolInv'
<1> DEFINE h == child[t].handle
           s == handles[h]
<1>1. /\ child[t] # NoChild /\ s.occupied = 1 /\ s.pid # NoPid
      /\ ~UpdatesExit(s) /\ ~s.exited
      /\ proc' = [proc EXCEPT ![s.pid] = IF @ = "running" THEN "zombie" ELSE @]
      /\ stale' = (stale \/ (Gone(s.pid) /\ s.source # "worker"))
      /\ UNCHANGED <<pool, wake, pipe, worker, owner, handles, nextGen, live,
                     regs, child, ready, lost>>
  BY DEF Terminate, Found
<1>2. /\ Types /\ Reserved(pool, handles, regs, owner) /\ Parented(handles, child)
      /\ Waking /\ Closing /\ Handled(handles) /\ Children(pool, handles, worker, proc, lost)
  BY DEF PoolInv
<1>3. h \in Handles /\ s \in HandleRecords
  BY <1>1, <1>2 DEF Parented, Types
<1> HIDE DEF h
<1>4. Types'
  BY <1>1, <1>2 DEF Types
<1>5. Dying(proc, proc')
  BY <1>1, <1>2 DEF Types, Dying, Alive
<1>6. Waking' /\ Closing'
  BY <1>1, <1>2 DEF Waking, Closing, WakeExact, WorkerAwake, Completed, Announced
<1>7. ~stale'
  <2>1. Reaps(s)
    BY <1>1, <1>2, <1>3 DEF Handled, Reaps
  <2>2. Hold(pool, handles, worker)[<<"handle", h>>] = s.pid
    BY <1>3, <2>1, HoldAt
  <2>3. proc[s.pid] \in Alive \/ <<"handle", h>> \in Late(pool, handles)
    BY <1>1, <1>2, <1>3, <2>2, HolderKinds DEF Children, Custody
  <2>4. s.source # "worker" => ~Gone(s.pid)
    BY <1>3, <2>3, LateAt DEF Gone, Alive
  <2> QED
    BY <1>1, <2>4 DEF PoolInv
<1> QED
  BY <1>1, <1>2, <1>4, <1>5, <1>6, <1>7, SamePool, QuietStep

LEMMA AbandonInv ==
    ASSUME PoolInv, NEW t \in Tasks, Abandon(t)
    PROVE  PoolInv'
<1>1. /\ child' = [child EXCEPT ![t] = NoChild] /\ owner.at = "frames"
      /\ UNCHANGED <<pool, wake, pipe, worker, owner, handles, nextGen, live, regs,
                     ready, proc, stale, lost>>
  BY DEF Abandon
<1>2. /\ Types /\ Reserved(pool, handles, regs, owner) /\ Parented(handles, child)
      /\ Waking /\ Closing
  BY DEF PoolInv
<1>3. /\ NoChild \in [handle : 0 .. HandleCapacity, gen : 0 .. MaxStarts]
      /\ child \in [Tasks -> [handle : 0 .. HandleCapacity, gen : 0 .. MaxStarts]]
  BY <1>2, MaxStartsAssumption, HandleCapacityAssumption DEF NoChild, NoHandle, Types
<1>4. child'[t] = NoChild /\ \A u \in Tasks \ {t} : child'[u] = child[u]
  BY <1>1, <1>3
<1>5. child' \in [Tasks -> [handle : 0 .. HandleCapacity, gen : 0 .. MaxStarts]]
  BY <1>1, <1>3
<1>6. Types'
  BY <1>1, <1>2, <1>5 DEF Types
<1>7. Parented(handles, child')
  <2>1. \A u \in Tasks : child'[u] # NoChild => u # t /\ child'[u] = child[u]
    BY <1>4
  <2> QED
    BY <1>2, <2>1 DEF Parented
<1>8. Waking' /\ Closing'
  BY <1>1, <1>2 DEF Waking, Closing, WakeExact, WorkerAwake, Completed, Announced
<1> QED
  BY <1>1, <1>2, <1>6, <1>7, <1>8, SamePool, SameProc, QuietStep

LEMMA TimerExpiresInv ==
    ASSUME PoolInv, NEW t \in Tasks, TimerExpires(t)
    PROVE  PoolInv'
<1>1. /\ owner.at = "frames" /\ ready' = {t} /\ regs' = [regs EXCEPT ![t].timer = "expired"]
      /\ UNCHANGED <<pool, wake, pipe, worker, owner, handles, nextGen, live,
                     child, proc, stale, lost>>
  BY DEF TimerExpires
<1>2. /\ Types /\ Reserved(pool, handles, regs, owner) /\ Parented(handles, child)
      /\ Waking /\ Closing /\ regs \in [Tasks -> RegRecords]
  BY DEF PoolInv, Types
<1>3. regs' \in [Tasks -> RegRecords]
  BY <1>1, <1>2 DEF RegRecords
<1>4. \A u \in Tasks : /\ regs'[u].kind = regs[u].kind /\ regs'[u].job = regs[u].job
                       /\ regs'[u].jgen = regs[u].jgen /\ regs'[u].handle = regs[u].handle
                       /\ regs'[u].hgen = regs[u].hgen /\ regs'[u].active = regs[u].active
                       /\ regs'[u].ready = regs[u].ready
  BY <1>1, <1>2 DEF RegRecords
<1>5. Types'
  BY <1>1, <1>2, <1>3 DEF Types
<1>6. Reserved(pool, handles, regs', owner)
  BY <1>2, <1>4 DEF Reserved
<1>7. Waking' /\ Closing'
  BY <1>1, <1>2 DEF Waking, Closing, WakeExact, WorkerAwake, Completed, Announced
<1> QED
  BY <1>1, <1>2, <1>5, <1>6, <1>7, SamePool, SameProc, QuietStep

LEMMA PoolWakeInv ==
    ASSUME PoolInv, PoolWake
    PROVE  PoolInv'
<1>1. /\ owner.at = "frames" /\ owner' = [owner EXCEPT !.at = "drain"] /\ pipe' = FALSE
      /\ UNCHANGED <<pool, wake, worker, handles, nextGen, live, regs, child, ready,
                     proc, stale, lost>>
  BY DEF PoolWake
<1>2. /\ Types /\ Reserved(pool, handles, regs, owner) /\ Parented(handles, child)
      /\ Waking /\ Closing /\ regs \in [Tasks -> RegRecords]
  BY DEF PoolInv, Types
<1>3. owner'.at = "drain"
  BY <1>1, <1>2 DEF Types
<1>4. Types'
  BY <1>1, <1>2 DEF Types
<1>5. Reserved(pool, handles, regs, owner')
  BY <1>1, <1>2, <1>3, ReservedKept
<1>6. Waking' /\ Closing'
  BY <1>1, <1>2, <1>3 DEF Waking, Closing, WakeExact, WorkerAwake
<1> QED
  BY <1>1, <1>2, <1>4, <1>5, <1>6, SamePool, SameProc, QuietStep

LEMMA RearmWakeInv ==
    ASSUME PoolInv, RearmWake
    PROVE  PoolInv'
<1>1. /\ owner.at = "rearm" /\ owner' = [owner EXCEPT !.at = "frames"]
      /\ wake' = ~(pool.active = 0 /\ pool.watching = 0)
      /\ UNCHANGED <<pool, pipe, worker, handles, nextGen, live, regs, child, ready,
                     proc, stale, lost>>
  BY DEF RearmWake, KeepsWake
<1>2. /\ Types /\ Reserved(pool, handles, regs, owner) /\ Parented(handles, child)
      /\ Waking /\ Closing /\ regs \in [Tasks -> RegRecords]
  BY DEF PoolInv, Types
<1>3. owner'.at = "frames"
  BY <1>1, <1>2 DEF Types
<1>4. Types'
  BY <1>1, <1>2 DEF Types
<1>5. Reserved(pool, handles, regs, owner')
  BY <1>1, <1>2, <1>3, ReservedKept
<1>6. Waking' /\ Closing'
  BY <1>1, <1>2, <1>3 DEF Waking, Closing, WakeExact, WorkerAwake, Completed, Announced
<1> QED
  BY <1>1, <1>2, <1>4, <1>5, <1>6, SamePool, SameProc, QuietStep

\* Steps of the worker that change only its own place.
LEMMA WorkerMoves ==
    ASSUME PoolInv, NEW pc, NEW pid, worker' = [worker EXCEPT !.pc = pc, !.pid = pid],
           worker.pc \in {"top", "signal"}, pid \in 0 .. MaxStarts,
           pc \in {"top", "waiting", "polling", "done"},
           pc = "waiting" => pool.queue = <<>> /\ pool.watching = 0 /\ ~pool.stopping,
           worker.pc = "signal" => pipe' = TRUE, pipe' = pipe \/ pipe' = TRUE,
           UNCHANGED <<pool, wake, owner, handles, nextGen, live, regs, child, ready,
                       proc, stale, lost>>
    PROVE  PoolInv'
<1>1. /\ Types /\ Reserved(pool, handles, regs, owner) /\ Parented(handles, child)
      /\ Waking /\ Closing /\ worker \in Workers /\ JobsInv(pool, worker)
  BY DEF PoolInv, Types
<1>2. worker' \in Workers /\ worker'.pc = pc
  BY <1>1 DEF Workers
<1>3. Types'
  BY <1>1, <1>2 DEF Types
<1>4. JobsInv(pool', worker')
  BY <1>1, <1>2, OtherWorker
<1>5. Waking'
  BY <1>1, <1>2 DEF Waking, WakeExact, WorkerAwake, Completed, Announced
<1>6. owner.at # "down"
  BY <1>1 DEF Closing
<1>7. Closing'
  BY <1>1, <1>6, ClosingKept
<1>8. /\ Beside(pool, pool') /\ \A j \in Jobs : pool'.jobs[j].pid = pool.jobs[j].pid
      /\ InHand(worker') = InHand(worker)
  BY <1>2 DEF Beside, InHand
<1> QED
  BY <1>1, <1>2, <1>3, <1>4, <1>5, <1>7, <1>8, SameProc, QuietStep

LEMMA WorkerWaitsInv ==
    ASSUME PoolInv, WorkerWaits
    PROVE  PoolInv'
<1> DEFINE pc == IF pool.watching = 0 THEN "waiting" ELSE "polling"
<1>1. /\ worker.pc = "top" /\ pool.queue = <<>> /\ ~pool.stopping
      /\ worker' = [worker EXCEPT !.pc = pc]
      /\ UNCHANGED <<pool, wake, pipe, owner, handles, nextGen, live, regs, child,
                     ready, proc, stale, lost>>
  BY DEF WorkerWaits, At
<1>2. worker.pid \in 0 .. MaxStarts /\ worker' = [worker EXCEPT !.pc = pc, !.pid = worker.pid]
  BY <1>1 DEF PoolInv, Types, Workers
<1>3. pc \in {"waiting", "polling"} /\ (pc = "waiting" => pool.watching = 0)
  OBVIOUS
<1> HIDE DEF pc
<1> QED
  BY <1>1, <1>2, <1>3, WorkerMoves

LEMMA WorkerEndsInv ==
    ASSUME PoolInv, WorkerEnds
    PROVE  PoolInv'
<1>1. /\ worker.pc = "top" /\ worker' = [worker EXCEPT !.pc = "done"]
      /\ UNCHANGED <<pool, wake, pipe, owner, handles, nextGen, live, regs, child,
                     ready, proc, stale, lost>>
  BY DEF WorkerEnds, At
<1>2. worker.pid \in 0 .. MaxStarts /\ worker' = [worker EXCEPT !.pc = "done", !.pid = worker.pid]
  BY <1>1 DEF PoolInv, Types, Workers
<1> QED
  BY <1>1, <1>2, WorkerMoves

LEMMA WorkerSignalsInv ==
    ASSUME PoolInv, WorkerSignals
    PROVE  PoolInv'
<1>1. /\ worker.pc = "signal" /\ pipe' = TRUE
      /\ worker' = [worker EXCEPT !.pc = "top", !.pid = NoPid]
      /\ UNCHANGED <<pool, wake, owner, handles, nextGen, live, regs, child, ready,
                     proc, stale, lost>>
  BY DEF WorkerSignals, At
<1>2. NoPid \in 0 .. MaxStarts
  BY MaxStartsAssumption DEF NoPid
<1> QED
  BY <1>1, <1>2, WorkerMoves

LEMMA WorkerTakesInv ==
    ASSUME PoolInv, WorkerTakes
    PROVE  PoolInv'
<1> DEFINE j == Head(pool.queue)
           r == pool.jobs[j]
           k2 == IF r.state = "start_queued"
                 THEN [pc |-> "spawning", job |-> j, pid |-> NoPid]
                 ELSE [pc |-> "reaping", job |-> j, pid |-> r.pid]
<1>1. /\ worker.pc = "top" /\ pool.queue # <<>>
      /\ UNCHANGED <<wake, pipe, owner, handles, nextGen, live, regs, child, ready,
                     proc, stale, lost>>
  BY DEF WorkerTakes
<1>2. /\ Types /\ Reserved(pool, handles, regs, owner) /\ Parented(handles, child)
      /\ Waking /\ Closing /\ worker \in Workers /\ JobsInv(pool, worker)
      /\ pool \in Pools /\ regs \in [Tasks -> RegRecords]
  BY DEF PoolInv, Types
<1>3. j \in Jobs /\ j \in Elements(pool.queue)
  BY <1>1, <1>2, TailList DEF Pools, JobsInv
<1>4. r.state \in {"start_queued", "reap_queued"} /\ r \in JobRecords
  BY <1>2, <1>3 DEF JobsInv, Placed, Pools
<1>5. k2 \in Workers
  BY <1>3, <1>4, MaxStartsAssumption DEF Workers, JobRecords, NoPid
<1>6. k2.pc = "spawning" \/ k2.pc = "reaping"
  OBVIOUS
<1>7. /\ k2.job = j
      /\ IF r.state = "start_queued" THEN k2.pc = "spawning" ELSE k2.pc = "reaping" /\ k2.pid = r.pid
  OBVIOUS
<1>8. worker' = k2 /\ pool' = TakenPool(pool)
  <2> DEFINE q == Tail(pool.queue)
             rest == [pool EXCEPT !.queue = q]
  <2>1. \A s : [rest EXCEPT !.jobs[j].state = s] =
                 Changed(pool, j, WithState(r, s, r.pid), q, pool.done)
    <3> SUFFICES ASSUME NEW s
                 PROVE  [rest EXCEPT !.jobs[j].state = s] =
                          Changed(pool, j, WithState(r, s, r.pid), q, pool.done)
      OBVIOUS
    <3>1. WithState(r, s, r.pid) = [r EXCEPT !.state = s]
      BY <1>4 DEF WithState, JobRecords
    <3> DEFINE js == [pool.jobs EXCEPT ![j] = [r EXCEPT !.state = s]]
    <3>2. [rest EXCEPT !.jobs[j].state = s] = [pool EXCEPT !.jobs = js, !.queue = q]
      BY <1>2, <1>3 DEF Pools
    <3>3. Changed(pool, j, WithState(r, s, r.pid), q, pool.done) =
            [pool EXCEPT !.jobs = js, !.queue = q, !.done = pool.done]
      BY <3>1 DEF Changed
    <3> HIDE DEF js, q
    <3>4. [pool EXCEPT !.jobs = js, !.queue = q, !.done = pool.done] =
            [pool EXCEPT !.jobs = js, !.queue = q]
      BY <1>2 DEF Pools
    <3> QED
      BY <3>2, <3>3, <3>4
  <2>2. CASE r.state = "start_queued"
    <3>1. pool' = [rest EXCEPT !.jobs[j].state = "start_running"] /\ worker' = k2
      BY <1>4, <2>2 DEF WorkerTakes
    <3> QED
      BY <2>1, <2>2, <3>1 DEF TakenPool
  <2>3. CASE r.state = "reap_queued"
    <3>1. pool' = [rest EXCEPT !.jobs[j].state = "reap_running"] /\ worker' = k2
      BY <1>4, <2>3 DEF WorkerTakes
    <3> QED
      BY <2>1, <2>3, <3>1 DEF TakenPool
  <2> QED
    BY <1>4, <2>2, <2>3
<1> HIDE DEF k2
<1>9. /\ JobsInv(pool', worker') /\ Beside(pool, pool')
      /\ \A i \in Jobs : pool'.jobs[i].pid = pool.jobs[i].pid /\ pool'.jobs[i].gen = pool.jobs[i].gen
      /\ \A i \in Jobs \ {j} : pool'.jobs[i] = pool.jobs[i]
      /\ r.state = "start_queued" => pool'.jobs[j].state = "start_running"
      /\ pool'.done = pool.done
  BY <1>1, <1>2, <1>5, <1>7, <1>8, TakeJob
<1> HIDE DEF r, j
<1>10. \A i \in Jobs : pool.jobs[i].state \in Pending =>
           /\ pool'.jobs[i].gen = pool.jobs[i].gen /\ pool'.jobs[i].state \in Pending
           /\ pool'.jobs[i].state = "start_delivered" <=> pool.jobs[i].state = "start_delivered"
  BY <1>4, <1>9 DEF Pending, r
<1>11. Reserved(pool', handles, regs, owner)
  BY <1>2, <1>10, ReservedKept
<1>12. owner.at # "down"
  BY <1>1, <1>2 DEF Closing
<1>13. pool'.watches = pool.watches /\ pool'.watching = pool.watching
  BY <1>9 DEF Beside
<1>14. Closing'
  BY <1>1, <1>2, <1>12, <1>13, ClosingKept
<1>15. pool'.active = pool.active
  BY <1>8 DEF TakenPool, Changed
<1>16. /\ worker'.pc \notin {"waiting", "signal", "cleanup"}
       /\ InHand(worker') = InHand(worker)
  BY <1>1, <1>6, <1>8 DEF InHand
<1>17. Waking'
  BY <1>1, <1>2, <1>9, <1>13, <1>15, <1>16 DEF Waking, WakeExact, WorkerAwake, Completed, Announced
<1>18. Types'
  BY <1>1, <1>2, <1>9 DEF Types, JobsInv
<1> QED
  BY <1>1, <1>2, <1>9, <1>11, <1>14, <1>16, <1>17, <1>18, SameProc, QuietStep

-----------------------------------------------------------------------------
(* Children that are born or waited for while the handles stay.            *)

\* A child is born with holder b.
Born(d, d2, b, pid) ==
    /\ b \in Holders /\ d[b] = NoPid /\ d2[b] = pid
    /\ \A r \in Holders : r # b => d2[r] = d[r]

Begins(pr, pr2, pid) == pid \in Pids /\ pr[pid] = "unused" /\ pr2 = [pr EXCEPT ![pid] = "running"]

LEMMA ChildrenBegin ==
    ASSUME NEW p \in Pools, NEW p2, NEW hs \in [Handles -> HandleRecords],
           NEW k \in Workers, NEW k2,
           NEW pr \in [Pids -> {"unused", "running", "zombie", "reaped"}],
           NEW lo \in SUBSET Pids, Children(p, hs, k, pr, lo), Handled(hs),
           p2.watches = p.watches, NEW b, NEW pid, NEW pr2,
           Born(Hold(p, hs, k), Hold(p2, hs, k2), b, pid), Begins(pr, pr2, pid)
    PROVE  Children(p2, hs, k2, pr2, lo)
<1> DEFINE d == Hold(p, hs, k)
           d2 == Hold(p2, hs, k2)
           U == Late(p, hs)
           U2 == Late(p2, hs)
<1>1. U \subseteq U2
  BY DEF Late, Underway, WatchesOf
<1>2. \A r \in Holders : d[r] \in 0 .. MaxStarts
  BY HoldType
<1>3. Custody(d, pr, lo, U)
  BY DEF Children
<1>4. /\ b \in Holders /\ d[b] = NoPid /\ d2[b] = pid
      /\ \A r \in Holders : r # b => d2[r] = d[r]
      /\ pid \in Pids /\ pr[pid] = "unused" /\ pr2 = [pr EXCEPT ![pid] = "running"]
  BY DEF Born, Begins
<1> HIDE DEF U, U2, d, d2
<1>5. Custody(d2, pr2, lo, U2)
  BY <1>1, <1>2, <1>3, <1>4, CustodyBegins
<1>6. ASSUME NEW h \in Handles, hs[h].exited PROVE pr2[hs[h].pid] = "reaped"
  <2>1. pr[hs[h].pid] = "reaped" /\ hs[h].pid \in 0 .. MaxStarts
    BY <1>6 DEF Children, HandleRecords
  <2>2. hs[h].pid \in Pids
    BY <1>6, <2>1, MaxStartsAssumption DEF Handled, NoPid, Pids
  <2> QED
    BY <1>4, <2>1, <2>2
<1> QED
  BY <1>5, <1>6 DEF Children, U2, d2

\* The child of a job or of the worker is waited for.
LEMMA ChildrenDrop ==
    ASSUME NEW p \in Pools, NEW p2, NEW hs \in [Handles -> HandleRecords],
           NEW k \in Workers, NEW k2,
           NEW pr \in [Pids -> {"unused", "running", "zombie", "reaped"}],
           NEW lo \in SUBSET Pids, Children(p, hs, k, pr, lo), Handled(hs), Watching(p, hs, pr),
           p2.watches = p.watches, p2.watching = p.watching,
           NEW a \in Holders, \A h \in Handles : a # <<"handle", h>>,
           NEW pid, pid = Hold(p, hs, k)[a], pid # NoPid, Hold(p2, hs, k2)[a] = NoPid,
           \A r \in Holders : r # a => Hold(p2, hs, k2)[r] = Hold(p, hs, k)[r],
           NEW pr2, pr2 = [x \in Pids |-> IF x = pid THEN "reaped" ELSE pr[x]]
    PROVE  /\ Children(p2, hs, k2, pr2, lo) /\ Watching(p2, hs, pr2)
           /\ pid \in Pids /\ pr[pid] \in Alive
<1> DEFINE d == Hold(p, hs, k)
           d2 == Hold(p2, hs, k2)
           U == Late(p, hs)
           U2 == Late(p2, hs)
<1>1. U = U2 /\ a \notin U
  <2>1. U = U2
    BY DEF Late, Underway, WatchesOf
  <2>2. a \notin U
    BY HolderKinds, LateAt
  <2> QED
    BY <2>1, <2>2
<1>2. \A r \in Holders : d[r] \in 0 .. MaxStarts
  BY HoldType
<1>3. Custody(d, pr, lo, U)
  BY DEF Children
<1>4. d[a] = pid /\ d2[a] = NoPid /\ \A r \in Holders : r # a => d2[r] = d[r]
  OBVIOUS
<1>5. \A h \in Handles : Reaps(hs[h]) => d[<<"handle", h>>] = hs[h].pid
  <2>1. ASSUME NEW h \in Handles, Reaps(hs[h]) PROVE d[<<"handle", h>>] = hs[h].pid
    BY <2>1, HoldAt
  <2> QED
    BY <2>1
<1> HIDE DEF d, d2, U, U2
<1>6. \A r \in Holders : d[r] # NoPid => d[r] \in Pids
  BY <1>2, MaxStartsAssumption DEF Pids, NoPid
<1>7. pid \in Pids /\ pr[pid] \in Alive
  BY <1>1, <1>3, <1>4, <1>6 DEF Custody
<1>8. \A r \in Holders : r # a => d[r] # pid
  BY <1>3, <1>4 DEF Custody
<1>9. \A x \in Pids : IF x = pid THEN pr2[x] = "reaped" ELSE pr2[x] = pr[x]
  OBVIOUS
<1>10. \A x \in Pids : /\ pr2[x] \in Alive => pr[x] \in Alive
                       /\ x \in lo => pr2[x] # "unused"
  BY <1>3, <1>9 DEF Custody, Alive
<1>11. ASSUME NEW r \in Holders
       PROVE  \/ /\ d2[r] = d[r]
                 /\ d[r] # NoPid => /\ d[r] \notin lo
                                    /\ pr2[d[r]] \in Alive \/ (pr2[d[r]] = "reaped" /\ r \in U2)
              \/ /\ d2[r] = NoPid
                 /\ d[r] # NoPid => pr2[d[r]] \notin Alive \/ d[r] \in lo
  <2>1. CASE r = a
    BY <1>4, <1>7, <1>9, <2>1 DEF Alive
  <2>2. CASE r # a
    <3>1. d2[r] = d[r] /\ d[r] # pid
      BY <1>4, <1>8, <2>2
    <3>2. d[r] # NoPid => pr2[d[r]] = pr[d[r]]
      BY <1>6, <1>9, <3>1
    <3> QED
      BY <1>1, <1>3, <3>1, <3>2 DEF Custody
  <2> QED
    BY <2>1, <2>2
<1>12. Custody(d2, pr2, lo, U2)
  BY <1>2, <1>3, <1>10, <1>11, CustodyShrinks
<1>13. ASSUME NEW h \in Handles, hs[h].exited PROVE pr2[hs[h].pid] = "reaped"
  <2>1. pr[hs[h].pid] = "reaped" /\ hs[h].pid \in 0 .. MaxStarts
    BY <1>13 DEF Children, HandleRecords
  <2>2. hs[h].pid \in Pids
    BY <1>13, <2>1, MaxStartsAssumption DEF Handled, NoPid, Pids
  <2> QED
    BY <1>9, <2>1, <2>2
<1>14. Children(p2, hs, k2, pr2, lo)
  BY <1>12, <1>13 DEF Children, d2, U2
<1>15. ASSUME NEW w \in Watches(p)
       PROVE  pr2[p.watches[w].pid] = "reaped" <=> pr[p.watches[w].pid] = "reaped"
  <2> DEFINE h == p.watches[w].handle
  <2>1. /\ h \in Handles /\ hs[h].occupied = 1 /\ ~hs[h].exited
        /\ hs[h].pid = p.watches[w].pid /\ hs[h].pid # NoPid
    BY DEF Watching
  <2>2. Reaps(hs[h])
    BY <2>1 DEF Handled, Reaps
  <2>3. d[<<"handle", h>>] = hs[h].pid /\ <<"handle", h>> \in Holders /\ <<"handle", h>> # a
    BY <1>5, <2>1, <2>2, HolderKinds
  <2>4. hs[h].pid # pid /\ hs[h].pid \in Pids
    BY <1>6, <1>8, <2>1, <2>3
  <2> QED
    BY <1>9, <2>1, <2>4
<1>16. Watches(p2) = Watches(p)
  BY DEF Watches
<1>17. Watching(p2, hs, pr2)
  BY <1>15, <1>16 DEF Watching
<1> QED
  BY <1>7, <1>14, <1>17

LEMMA WorkerCleansUpInv ==
    ASSUME PoolInv, WorkerCleansUp
    PROVE  PoolInv'
<1> DEFINE pid == worker.pid
<1>1. /\ worker.pc = "cleanup"
      /\ proc' = IF pid = NoPid THEN proc ELSE Reaped({pid})
      /\ worker' = [worker EXCEPT !.pc = "signal", !.pid = NoPid]
      /\ UNCHANGED <<pool, wake, pipe, owner, handles, nextGen, live, regs, child,
                     ready, stale, lost>>
  BY DEF WorkerCleansUp, At
<1>2. /\ Types /\ Reserved(pool, handles, regs, owner) /\ Parented(handles, child)
      /\ Waking /\ Closing /\ worker \in Workers /\ JobsInv(pool, worker)
      /\ pool \in Pools /\ handles \in [Handles -> HandleRecords] /\ lost \in SUBSET Pids
      /\ proc \in [Pids -> {"unused", "running", "zombie", "reaped"}]
      /\ Handled(handles) /\ Watching(pool, handles, proc)
      /\ Children(pool, handles, worker, proc, lost)
  BY DEF PoolInv, Types
<1>3. worker' \in Workers /\ worker'.pc = "signal" /\ worker'.pid = NoPid
  <2>1. 0 \in 0 .. MaxStarts
    BY MaxStartsAssumption
  <2> QED
    BY <1>1, <1>2, <2>1 DEF Workers, NoPid
<1>4. Types'
  <2>1. proc' \in [Pids -> {"unused", "running", "zombie", "reaped"}]
    BY <1>1, <1>2 DEF Reaped
  <2> QED
    BY <1>1, <1>2, <1>3, <2>1 DEF Types
<1>5. JobsInv(pool', worker')
  BY <1>1, <1>2, <1>3, OtherWorker
<1>6. Waking'
  BY <1>1, <1>2, <1>3 DEF Waking, WakeExact, WorkerAwake, Completed, Announced
<1>7. owner.at # "down"
  BY <1>1, <1>2 DEF Closing
<1>8. Closing'
  BY <1>1, <1>2, <1>7, ClosingKept
<1>9. InHand(worker) = pid /\ InHand(worker') = NoPid
  BY <1>1, <1>3 DEF InHand
<1>10. CASE pid = NoPid
  <2>1. Beside(pool, pool') /\ \A j \in Jobs : pool'.jobs[j].pid = pool.jobs[j].pid
    BY <1>1 DEF Beside
  <2> QED
    BY <1>1, <1>2, <1>4, <1>5, <1>6, <1>8, <1>9, <1>10, <2>1, SameProc, QuietStep
<1>11. CASE pid # NoPid
  <2>1. proc' = [x \in Pids |-> IF x = pid THEN "reaped" ELSE proc[x]]
    BY <1>1, <1>11 DEF Reaped
  <2> DEFINE d == Hold(pool, handles, worker)
             d2 == Hold(pool, handles, worker')
  <2>2. /\ d[<<"worker", 0>>] = pid /\ d2[<<"worker", 0>>] = NoPid
        /\ \A j \in Jobs : d2[<<"job", j>>] = d[<<"job", j>>]
        /\ \A h \in Handles : d2[<<"handle", h>>] = d[<<"handle", h>>]
    BY <1>9, HoldAt
  <2> HIDE DEF d, d2
  <2>3. \A r \in Holders : r # <<"worker", 0>> => d2[r] = d[r]
    BY <2>2, HolderKinds
  <2>4. <<"worker", 0>> \in Holders /\ \A h \in Handles : <<"worker", 0>> # <<"handle", h>>
    BY HolderKinds
  <2>5. Children(pool, handles, worker', proc', lost) /\ Watching(pool, handles, proc')
    BY <1>2, <1>11, <2>1, <2>2, <2>3, <2>4, ChildrenDrop DEF d, d2
  <2> QED
    BY <1>1, <1>2, <1>4, <1>5, <1>6, <1>8, <2>5 DEF PoolInv
<1> QED
  BY <1>10, <1>11

\* What the worker stores of job j.
Stored(p, j, s, pid) ==
    [p EXCEPT !.jobs[j].pid = pid, !.jobs[j].state = s, !.done = Append(@, j)]

LEMMA StoredChanged ==
    ASSUME NEW p \in Pools, NEW j \in Jobs, NEW s, NEW pid
    PROVE  Stored(p, j, s, pid) =
             Changed(p, j, WithState(p.jobs[j], s, pid), p.queue, Append(p.done, j))
<1> DEFINE rec == WithState(p.jobs[j], s, pid)
           js == [p.jobs EXCEPT ![j].pid = pid, ![j].state = s]
           d == Append(p.done, j)
<1>1. p.jobs \in [Jobs -> JobRecords] /\ p.jobs[j] \in JobRecords
  BY DEF Pools
<1>2. rec = [p.jobs[j] EXCEPT !.pid = pid, !.state = s]
  BY <1>1 DEF WithState, JobRecords
<1>3. js = [p.jobs EXCEPT ![j] = rec]
  BY <1>1, <1>2
<1>4. Stored(p, j, s, pid) = [p EXCEPT !.jobs = js, !.done = d]
  BY DEF Pools, Stored
<1> HIDE DEF rec, js, d
<1>5. Changed(p, j, rec, p.queue, d) = [p EXCEPT !.jobs = js, !.queue = p.queue, !.done = d]
  BY <1>3 DEF Changed
<1>6. [p EXCEPT !.jobs = js, !.queue = p.queue, !.done = d] = [p EXCEPT !.jobs = js, !.done = d]
  BY DEF Pools
<1> QED
  BY <1>4, <1>5, <1>6 DEF rec, d

LEMMA ChangedCounts ==
    ASSUME NEW p \in Pools, NEW j, NEW rec, NEW q, NEW d
    PROVE  LET p2 == Changed(p, j, rec, q, d) IN
           p2.active = p.active /\ p2.starts = p.starts /\ p2.stopping = p.stopping
BY DEF Changed, Pools

LEMMA WorkerReapsInv ==
    ASSUME PoolInv, WorkerReaps
    PROVE  PoolInv'
<1> DEFINE pid == worker.pid
           j == worker.job
<1>1. /\ worker.pc = "reaping"
      /\ proc' = Reaped({pid})
      /\ stale' = (stale \/ Gone(pid))
      /\ pool' = Stored(pool, j, "reap_completed", NoPid)
      /\ worker' = [worker EXCEPT !.pc = "signal", !.pid = NoPid]
      /\ UNCHANGED <<wake, pipe, owner, handles, nextGen, live, regs, child, ready, lost>>
  BY DEF WorkerReaps, At, Stored
<1>2. /\ Types /\ Reserved(pool, handles, regs, owner) /\ Parented(handles, child)
      /\ Waking /\ Closing /\ worker \in Workers /\ JobsInv(pool, worker)
      /\ pool \in Pools /\ handles \in [Handles -> HandleRecords] /\ lost \in SUBSET Pids
      /\ proc \in [Pids -> {"unused", "running", "zombie", "reaped"}]
      /\ Handled(handles) /\ Watching(pool, handles, proc)
      /\ Children(pool, handles, worker, proc, lost) /\ regs \in [Tasks -> RegRecords]
  BY DEF PoolInv, Types
<1>3. worker' \in Workers /\ worker'.pc = "signal" /\ worker'.pid = NoPid
  <2>1. 0 \in 0 .. MaxStarts
    BY MaxStartsAssumption
  <2> QED
    BY <1>1, <1>2, <2>1 DEF Workers, NoPid
<1>4. j \in Jobs /\ pool.jobs[j].state = "reap_running" /\ pool.jobs[j].pid = pid /\ pid # NoPid
  BY <1>1, <1>2 DEF JobsInv, AtWork, Loaded, Workers
<1>5. pool' = Changed(pool, j, WithState(pool.jobs[j], "reap_completed", NoPid), pool.queue,
                      Append(pool.done, j))
  BY <1>1, <1>2, <1>4, StoredChanged
<1>6. NoPid \in 0 .. MaxStarts
  BY MaxStartsAssumption DEF NoPid
<1>7. /\ JobsInv(pool', worker') /\ Beside(pool, pool')
      /\ \A i \in Jobs \ {j} : pool'.jobs[i] = pool.jobs[i]
      /\ pool'.jobs[j].pid = NoPid /\ pool'.jobs[j].state = "reap_completed"
      /\ pool'.jobs[j].gen = pool.jobs[j].gen
      /\ pool'.done # <<>> /\ pool'.queue = pool.queue
  <2>1. /\ JobsInv(pool, worker) /\ worker.pc = "reaping" /\ worker' \in Workers
        /\ worker'.pc \notin {"spawning", "reaping"} /\ NoPid \in 0 .. MaxStarts
    BY <1>1, <1>2, <1>3, <1>6
  <2> QED
    BY ONLY <1>5, <2>1, BringBack
<1>8. pool'.active = pool.active
  BY <1>2, <1>5, ChangedCounts
<1>9. /\ pool'.watches = pool.watches /\ pool'.watching = pool.watching
      /\ pool'.stopping = pool.stopping
  BY <1>7 DEF Beside
<1>10. Types'
  <2>1. proc' \in [Pids -> {"unused", "running", "zombie", "reaped"}]
    BY <1>1, <1>2 DEF Reaped
  <2> QED
    BY <1>1, <1>2, <1>3, <1>7, <2>1 DEF Types, JobsInv
<1>11. Waking'
  BY <1>1, <1>2, <1>3, <1>8, <1>9 DEF Waking, WakeExact, WorkerAwake, Announced
<1>12. owner.at # "down"
  BY <1>1, <1>2 DEF Closing
<1>13. Closing'
  BY <1>1, <1>2, <1>9, <1>12, ClosingKept
<1>14. \A i \in Jobs : pool.jobs[i].state \in Pending => pool'.jobs[i] = pool.jobs[i]
  BY <1>4, <1>7 DEF Pending
<1>15. Reserved(pool', handles, regs, owner)
  BY <1>2, <1>14, ReservedKept
<1> DEFINE d == Hold(pool, handles, worker)
           d2 == Hold(pool', handles, worker')
<1>16. /\ d[<<"job", j>>] = pid /\ d2[<<"job", j>>] = NoPid
       /\ \A i \in Jobs \ {j} : d2[<<"job", i>>] = d[<<"job", i>>]
       /\ \A h \in Handles : d2[<<"handle", h>>] = d[<<"handle", h>>]
       /\ d2[<<"worker", 0>>] = d[<<"worker", 0>>]
  <2>1. InHand(worker) = NoPid /\ InHand(worker') = NoPid
    BY <1>1, <1>3 DEF InHand
  <2> QED
    BY <1>4, <1>7, <2>1, HoldAt
<1> HIDE DEF d, d2
<1>17. \A r \in Holders : r # <<"job", j>> => d2[r] = d[r]
  BY <1>16, HolderKinds
<1>18. <<"job", j>> \in Holders /\ \A h \in Handles : <<"job", j>> # <<"handle", h>>
  BY <1>4, HolderKinds
<1>19. proc' = [x \in Pids |-> IF x = pid THEN "reaped" ELSE proc[x]]
  BY <1>1 DEF Reaped
<1>20. /\ Children(pool', handles, worker', proc', lost) /\ Watching(pool', handles, proc')
       /\ proc[pid] \in Alive
  BY <1>2, <1>4, <1>9, <1>16, <1>17, <1>18, <1>19, ChildrenDrop DEF d, d2
<1>21. ~stale'
  BY <1>1, <1>20 DEF PoolInv, Gone, Alive
<1> QED
  BY <1>1, <1>2, <1>7, <1>10, <1>11, <1>13, <1>15, <1>20, <1>21 DEF PoolInv

LEMMA WorkerSpawnsInv ==
    ASSUME PoolInv, WorkerSpawns
    PROVE  PoolInv'
<1> DEFINE j == worker.job
           running == pool.jobs[j].state = "start_running"
<1>1. PICK pid \in {NoPid} \cup Pids :
        /\ IF pid = NoPid THEN UNCHANGED proc
           ELSE proc[pid] = "unused" /\ proc' = [proc EXCEPT ![pid] = "running"]
        /\ pool' = Published(j, pid)
        /\ worker' = [[worker EXCEPT !.pc = IF pool.jobs[j].state = "start_cancelled"
                                           THEN "cleanup" ELSE "signal"] EXCEPT !.pid = pid]
  BY DEF WorkerSpawns, At
<1>2. /\ worker.pc = "spawning"
      /\ UNCHANGED <<wake, pipe, owner, handles, nextGen, live, regs, child, ready,
                     stale, lost>>
  BY DEF WorkerSpawns
<1>3. /\ Types /\ Reserved(pool, handles, regs, owner) /\ Parented(handles, child)
      /\ Waking /\ Closing /\ worker \in Workers /\ JobsInv(pool, worker)
      /\ pool \in Pools /\ handles \in [Handles -> HandleRecords] /\ lost \in SUBSET Pids
      /\ proc \in [Pids -> {"unused", "running", "zombie", "reaped"}]
      /\ Handled(handles) /\ Watching(pool, handles, proc)
      /\ Children(pool, handles, worker, proc, lost) /\ regs \in [Tasks -> RegRecords]
  BY DEF PoolInv, Types
<1>4. /\ j \in Jobs /\ pool.jobs[j].state \in {"start_running", "start_cancelled"}
      /\ pool.jobs[j].pid = NoPid
  BY <1>2, <1>3 DEF JobsInv, AtWork, Loaded, Workers
<1>5. pid \in 0 .. MaxStarts
  BY MaxStartsAssumption DEF NoPid, Pids
<1>6. /\ worker' \in Workers /\ worker'.pid = pid
      /\ worker'.pc = IF running THEN "signal" ELSE "cleanup"
  BY <1>1, <1>3, <1>4, <1>5 DEF Workers
<1> DEFINE s == IF running THEN "start_completed" ELSE "start_cancelled"
           mine == IF running THEN pid ELSE NoPid
<1>7. pool' = Changed(pool, j, WithState(pool.jobs[j], s, mine), pool.queue, Append(pool.done, j))
  <2>1. CASE running
    <3>1. pool' = Stored(pool, j, "start_completed", pid)
      BY <1>1, <2>1 DEF Published, Stored
    <3> QED
      BY <1>3, <1>4, <2>1, <3>1, StoredChanged
  <2>2. CASE ~running
    <3>1. pool' = Stored(pool, j, "start_cancelled", NoPid)
      BY <1>1, <2>2 DEF Published, Stored
    <3> QED
      BY <1>3, <1>4, <2>2, <3>1, StoredChanged
  <2> QED
    BY <2>1, <2>2
<1>8. /\ s \in {"start_completed", "start_cancelled"} /\ mine \in 0 .. MaxStarts
      /\ mine # NoPid => s = "start_completed"
  BY <1>5, MaxStartsAssumption DEF NoPid
<1>9. /\ running => s = "start_completed" /\ mine = pid
      /\ ~running => s = "start_cancelled" /\ mine = NoPid
  OBVIOUS
<1> HIDE DEF s, mine
<1>10. /\ JobsInv(pool', worker') /\ Beside(pool, pool')
       /\ \A i \in Jobs \ {j} : pool'.jobs[i] = pool.jobs[i]
       /\ pool'.jobs[j].pid = mine /\ pool'.jobs[j].state = s
       /\ pool'.jobs[j].gen = pool.jobs[j].gen
       /\ pool'.done # <<>> /\ pool'.queue = pool.queue
  <2>1. /\ JobsInv(pool, worker) /\ worker.pc = "spawning" /\ worker' \in Workers
        /\ worker'.pc \notin {"spawning", "reaping"} /\ mine \in 0 .. MaxStarts
        /\ s \in {"start_completed", "start_cancelled", "reap_completed"} /\ s # "reap_completed"
        /\ mine # NoPid => s = "start_completed"
    BY <1>2, <1>3, <1>6, <1>8
  <2> QED
    BY ONLY <1>7, <2>1, BringBack
<1>11. pool'.active = pool.active
  BY <1>3, <1>7, ChangedCounts
<1>12. /\ pool'.watches = pool.watches /\ pool'.watching = pool.watching
       /\ pool'.stopping = pool.stopping
  BY <1>10 DEF Beside
<1>13. Types'
  <2>1. proc' \in [Pids -> {"unused", "running", "zombie", "reaped"}]
    BY <1>1, <1>3
  <2> QED
    BY <1>2, <1>3, <1>6, <1>10, <2>1 DEF Types, JobsInv
<1>14. Waking'
  BY <1>2, <1>3, <1>6, <1>11, <1>12 DEF Waking, WakeExact, WorkerAwake, Announced
<1>15. owner.at # "down"
  BY <1>2, <1>3 DEF Closing
<1>16. Closing'
  BY <1>2, <1>3, <1>12, <1>15, ClosingKept
<1>17. \A i \in Jobs : pool.jobs[i].state \in Pending =>
           /\ pool'.jobs[i].gen = pool.jobs[i].gen /\ pool'.jobs[i].state \in Pending
           /\ pool'.jobs[i].state = "start_delivered" <=> pool.jobs[i].state = "start_delivered"
  BY <1>4, <1>9, <1>10 DEF Pending
<1>18. Reserved(pool', handles, regs, owner)
  BY <1>3, <1>17, ReservedKept
<1> DEFINE d == Hold(pool, handles, worker)
           d2 == Hold(pool', handles, worker')
           b == IF running THEN <<"job", j>> ELSE <<"worker", 0>>
<1>19. /\ d[<<"job", j>>] = NoPid /\ d2[<<"job", j>>] = mine
       /\ \A i \in Jobs \ {j} : d2[<<"job", i>>] = d[<<"job", i>>]
       /\ \A h \in Handles : d2[<<"handle", h>>] = d[<<"handle", h>>]
       /\ d[<<"worker", 0>>] = NoPid
       /\ d2[<<"worker", 0>>] = IF running THEN NoPid ELSE pid
  <2>1. InHand(worker) = NoPid /\ InHand(worker') = IF running THEN NoPid ELSE pid
    BY <1>2, <1>6 DEF InHand
  <2> QED
    BY <1>4, <1>10, <2>1, HoldAt
<1> HIDE DEF d, d2
<1>20. /\ b \in Holders /\ d[b] = NoPid /\ d2[b] = pid
       /\ \A r \in Holders : r # b => d2[r] = d[r]
  <2>1. CASE running
    BY <1>4, <1>9, <1>19, <2>1, HolderKinds
  <2>2. CASE ~running
    BY <1>4, <1>9, <1>19, <2>2, HolderKinds
  <2> QED
    BY <2>1, <2>2
<1> HIDE DEF b
<1>21. Children(pool', handles, worker', proc', lost)
  <2>1. CASE pid = NoPid
    <3>1. \A i \in Jobs : pool'.jobs[i].pid = pool.jobs[i].pid
      BY <1>4, <1>9, <1>10, <2>1
    <3>2. InHand(worker') = InHand(worker)
      BY <1>2, <1>6, <2>1 DEF InHand
    <3>3. Dying(proc, proc')
      BY <1>1, <2>1 DEF Dying
    <3> QED
      BY <1>3, <1>12, <3>1, <3>2, <3>3, ChildrenKept
  <2>2. CASE pid # NoPid
    <3>1. pid \in Pids /\ proc[pid] = "unused" /\ proc' = [proc EXCEPT ![pid] = "running"]
      BY <1>1, <2>2
    <3> QED
      <4>1. /\ pool \in Pools /\ handles \in [Handles -> HandleRecords] /\ worker \in Workers
            /\ proc \in [Pids -> {"unused", "running", "zombie", "reaped"}]
            /\ lost \in SUBSET Pids /\ Children(pool, handles, worker, proc, lost)
            /\ Handled(handles) /\ pool'.watches = pool.watches
        BY <1>3, <1>12
      <4>2. Born(Hold(pool, handles, worker), Hold(pool', handles, worker'), b, pid)
        BY <1>20 DEF Born, d, d2
      <4>3. Begins(proc, proc', pid)
        BY <3>1 DEF Begins
      <4> QED
        BY ONLY <4>1, <4>2, <4>3, ChildrenBegin
  <2> QED
    BY <2>1, <2>2
<1>22. Watching(pool', handles, proc')
  <2>1. \A x \in Pids : proc'[x] = "reaped" <=> proc[x] = "reaped"
    BY <1>1, <1>3
  <2>2. \A h \in Handles : handles[h].pid \in 0 .. MaxStarts
    BY <1>3 DEF HandleRecords
  <2> QED
    BY <1>3, <1>12, <2>1, <2>2, WatchingKept
<1> QED
  BY <1>2, <1>3, <1>10, <1>13, <1>14, <1>16, <1>18, <1>21, <1>22 DEF PoolInv

-----------------------------------------------------------------------------
(* The watches.                                                            *)

Rewatched(p, ws, n) == [p EXCEPT !.watches = ws, !.watching = n]

LEMMA RewatchedFacts ==
    ASSUME NEW p, NEW k, JobsInv(p, k), NEW ws \in [Handles -> WatchRecords], NEW n \in Nat
    PROVE  LET p2 == Rewatched(p, ws, n) IN
           /\ JobsInv(p2, k) /\ p2.watches = ws /\ p2.watching = n
           /\ p2.jobs = p.jobs /\ p2.queue = p.queue /\ p2.done = p.done /\ p2.gen = p.gen
           /\ p2.active = p.active /\ p2.stopping = p.stopping
<1> DEFINE p2 == Rewatched(p, ws, n)
<1>1. p \in Pools
  BY DEF JobsInv
<1>2. p2 \in Pools
  BY <1>1 DEF Pools, Rewatched
<1>3. /\ p2.watches = ws /\ p2.watching = n
      /\ p2.jobs = p.jobs /\ p2.queue = p.queue /\ p2.done = p.done /\ p2.gen = p.gen
      /\ p2.active = p.active /\ p2.stopping = p.stopping /\ p2.starts = p.starts
  BY <1>1 DEF Pools, Rewatched
<1> HIDE DEF p2
<1>4. JobsInv(p2, k)
  BY <1>2, <1>3 DEF JobsInv, Placed, Loaded, AtWork, BusyJobs, StartJobs
<1> QED
  BY <1>3, <1>4 DEF p2

LEMMA WatchCount ==
    ASSUME NEW p, NEW hs, NEW pr, Watching(p, hs, pr)
    PROVE  /\ p.watching \in Nat
           /\ p.watching # 0 <=> Watches(p) # {}
           /\ \A w \in Watches(p) : p.watching > 0
<1>1. Watches(p) \in SUBSET Handles
  BY DEF Watches
<1>2. IsFiniteSet(Handles)
  BY FiniteTables
<1>3. /\ IsFiniteSet(Watches(p)) /\ Cardinality(Watches(p)) \in Nat
      /\ Watches(p) # {} <=> Cardinality(Watches(p)) # 0
  BY <1>1, <1>2, FS_Subset, FS_CardinalityType, FS_EmptySet
<1>4. p.watching = Cardinality(Watches(p))
  BY DEF Watching
<1> QED
  BY <1>3, <1>4

\* The child of a watch is with the watch's handle.
LEMMA WatchHold ==
    ASSUME NEW p \in Pools, NEW hs \in [Handles -> HandleRecords], NEW k \in Workers,
           NEW pr, NEW lo \in SUBSET Pids, Watching(p, hs, pr), Handled(hs),
           Children(p, hs, k, pr, lo), NEW w \in Watches(p)
    PROVE  LET v == p.watches[w] IN
           /\ v.handle \in Handles /\ <<"handle", v.handle>> \in Holders
           /\ Hold(p, hs, k)[<<"handle", v.handle>>] = v.pid
           /\ v.pid \in Pids /\ v.pid # NoPid
           /\ v.completed <=> pr[v.pid] = "reaped"
           /\ ~v.completed => pr[v.pid] \in Alive
           /\ Reaps(hs[v.handle])
<1> DEFINE v == p.watches[w]
           h == v.handle
<1>1. /\ h \in Handles /\ hs[h].occupied = 1 /\ ~hs[h].exited
      /\ hs[h].pid = v.pid /\ v.pid # NoPid /\ (v.completed <=> pr[v.pid] = "reaped")
  BY DEF Watching
<1> HIDE DEF v, h
<1>2. Reaps(hs[h])
  BY <1>1 DEF Handled, Reaps
<1>3. Hold(p, hs, k)[<<"handle", h>>] = v.pid /\ <<"handle", h>> \in Holders
  BY <1>1, <1>2, HoldAt, HolderKinds
<1>4. v.pid \in Pids
  BY <1>1, MaxStartsAssumption DEF HandleRecords, Pids, NoPid
<1>5. ~v.completed => pr[v.pid] \in Alive
  BY <1>1, <1>3 DEF Children, Custody
<1> QED
  BY <1>1, <1>2, <1>3, <1>4, <1>5 DEF v, h

LEMMA WorkerScansInv ==
    ASSUME PoolInv, WorkerScans
    PROVE  PoolInv'
<1> DEFINE pids == {pool.watches[w].pid : w \in Ended}
           ws == [w \in Handles |-> IF w \in Ended
                                    THEN [pool.watches[w] EXCEPT !.completed = TRUE]
                                    ELSE pool.watches[w]]
           d == Hold(pool, handles, worker)
           d2 == Hold(pool', handles, worker')
           U == Late(pool, handles)
           U2 == Late(pool', handles)
<1>1. /\ worker.pc \in {"polling", "woken"}
      /\ pool' = [pool EXCEPT !.watches = ws]
      /\ proc' = Reaped(pids)
      /\ stale' = (stale \/ \E p \in pids : Gone(p))
      /\ worker' = [worker EXCEPT !.pc = IF Ended = {} THEN "top" ELSE "signal"]
      /\ UNCHANGED <<wake, pipe, owner, handles, nextGen, live, regs, child, ready, lost>>
  BY DEF WorkerScans, At
<1>2. /\ Types /\ Reserved(pool, handles, regs, owner) /\ Parented(handles, child)
      /\ Waking /\ Closing /\ worker \in Workers /\ JobsInv(pool, worker)
      /\ pool \in Pools /\ handles \in [Handles -> HandleRecords] /\ lost \in SUBSET Pids
      /\ proc \in [Pids -> {"unused", "running", "zombie", "reaped"}]
      /\ Handled(handles) /\ Watching(pool, handles, proc)
      /\ Children(pool, handles, worker, proc, lost) /\ regs \in [Tasks -> RegRecords]
  BY DEF PoolInv, Types
<1>3. /\ worker' \in Workers /\ worker'.pc \in {"top", "signal"}
      /\ Ended # {} => worker'.pc = "signal"
  BY <1>1, <1>2 DEF Workers
<1>4. ws \in [Handles -> WatchRecords]
  <2>1. pool.watches \in [Handles -> WatchRecords]
    BY <1>2 DEF Pools
  <2> QED
    BY <2>1 DEF WatchRecords
<1>5. \A w \in Handles :
         /\ ws[w].active = pool.watches[w].active /\ ws[w].pid = pool.watches[w].pid
         /\ ws[w].handle = pool.watches[w].handle /\ ws[w].hgen = pool.watches[w].hgen
         /\ ws[w].completed <=> w \in Ended \/ pool.watches[w].completed
  <2>1. pool.watches \in [Handles -> WatchRecords]
    BY <1>2 DEF Pools
  <2> QED
    BY <2>1 DEF WatchRecords
<1> HIDE DEF ws
<1>6. pool' = Rewatched(pool, ws, pool.watching)
  BY <1>1, <1>2 DEF Rewatched, Pools
<1>7. pool.watching \in Nat
  BY <1>2 DEF Pools
<1>8. /\ JobsInv(pool', worker) /\ pool'.watches = ws /\ pool'.watching = pool.watching
      /\ pool'.jobs = pool.jobs /\ pool'.queue = pool.queue /\ pool'.done = pool.done
      /\ pool'.active = pool.active /\ pool'.stopping = pool.stopping
  BY <1>2, <1>4, <1>6, <1>7, RewatchedFacts
<1>9. JobsInv(pool', worker') /\ pool' \in Pools
  <2>1. JobsInv(pool', worker')
    BY <1>1, <1>3, <1>8, OtherWorker
  <2> QED
    BY <2>1 DEF JobsInv
<1>10. Ended \subseteq Watches(pool) /\ \A w \in Ended : ~pool.watches[w].completed
  BY DEF Ended, Watches
<1>11. \A w \in Watches(pool) :
          /\ pool.watches[w].handle \in Handles
          /\ <<"handle", pool.watches[w].handle>> \in Holders
          /\ d[<<"handle", pool.watches[w].handle>>] = pool.watches[w].pid
          /\ pool.watches[w].pid \in Pids /\ pool.watches[w].pid # NoPid
          /\ pool.watches[w].completed <=> proc[pool.watches[w].pid] = "reaped"
          /\ ~pool.watches[w].completed => proc[pool.watches[w].pid] \in Alive
  BY <1>2, WatchHold
<1>12. pids \subseteq Pids /\ \A x \in pids : proc[x] \in Alive
  BY <1>10, <1>11
<1>13. \A x \in Pids : proc'[x] = IF x \in pids THEN "reaped" ELSE proc[x]
  BY <1>1 DEF Reaped
<1>14. \A r \in Holders, w \in Ended :
          d[r] = pool.watches[w].pid => r = <<"handle", pool.watches[w].handle>>
  <2>1. \A r, s \in Holders : d[r] # NoPid /\ d[r] = d[s] => r = s
    BY <1>2 DEF Children, Custody
  <2> HIDE DEF d
  <2> SUFFICES ASSUME NEW r \in Holders, NEW w \in Ended, d[r] = pool.watches[w].pid
               PROVE  r = <<"handle", pool.watches[w].handle>>
    OBVIOUS
  <2>2. /\ <<"handle", pool.watches[w].handle>> \in Holders
        /\ d[<<"handle", pool.watches[w].handle>>] = d[r] /\ d[r] # NoPid
    BY <1>10, <1>11
  <2> QED
    BY ONLY <2>1, <2>2, r \in Holders
<1>15. \A w \in Watches(pool) : pool.watches[w].pid \in pids => w \in Ended
  <2> SUFFICES ASSUME NEW w \in Watches(pool), NEW v \in Ended,
                      pool.watches[w].pid = pool.watches[v].pid
               PROVE  w \in Ended
    OBVIOUS
  <2> HIDE DEF d
  <2>1. <<"handle", pool.watches[w].handle>> = <<"handle", pool.watches[v].handle>>
    <3>1. /\ <<"handle", pool.watches[w].handle>> \in Holders
          /\ d[<<"handle", pool.watches[w].handle>>] = pool.watches[v].pid
      BY <1>11
    <3> QED
      BY ONLY <1>14, <3>1, v \in Ended
  <2>2. v = w
    BY <1>2, <1>10, <2>1 DEF Watching
  <2> QED
    BY <2>2
<1> HIDE DEF d, pids
<1>16. Watches(pool') = Watches(pool) /\ \A w \in Watches(pool) : w \in Handles
  BY <1>5, <1>8 DEF Watches
<1>17. Watching(pool', handles, proc')
  <2>1. ASSUME NEW w \in Watches(pool)
        PROVE  ws[w].completed <=> proc'[pool.watches[w].pid] = "reaped"
    <3>1. pool.watches[w].pid \in pids <=> w \in Ended
      BY <1>15 DEF pids
    <3> QED
      BY <1>5, <1>11, <1>13, <1>16, <3>1
  <2> QED
    BY <1>2, <1>5, <1>8, <1>16, <2>1 DEF Watching
<1>18. Children(pool', handles, worker', proc', lost)
  <2>1. \A r \in Holders : d2[r] = d[r]
    <3>1. InHand(worker) = NoPid /\ InHand(worker') = NoPid
      BY <1>1, <1>3 DEF InHand
    <3>2. /\ \A j \in Jobs : d2[<<"job", j>>] = d[<<"job", j>>]
          /\ \A h \in Handles : d2[<<"handle", h>>] = d[<<"handle", h>>]
          /\ d2[<<"worker", 0>>] = d[<<"worker", 0>>]
      BY <1>8, <3>1, HoldAt DEF d
    <3> HIDE DEF d2
    <3> QED
      BY <3>2, HolderKinds
  <2>2. \A r \in Holders : d[r] \in 0 .. MaxStarts
    BY <1>2, HoldType DEF d
  <2>3. Custody(d, proc, lost, U)
    BY <1>2 DEF Children, d
  <2>4. \A h \in Handles : /\ <<"handle", h>> \in U => <<"handle", h>> \in U2
                           /\ \A w \in Ended : pool.watches[w].handle = h => <<"handle", h>> \in U2
    <3>1. \A h \in Handles :
             /\ <<"handle", h>> \in U <=>
                   \E w \in Watches(pool) : pool.watches[w].handle = h /\ pool.watches[w].completed
             /\ <<"handle", h>> \in U2 <=>
                   \E w \in Watches(pool') : pool'.watches[w].handle = h /\ pool'.watches[w].completed
      BY <1>2, <1>17, LateWatch
    <3> HIDE DEF U, U2
    <3> SUFFICES ASSUME NEW h \in Handles, NEW w \in Watches(pool), pool.watches[w].handle = h,
                        pool.watches[w].completed \/ w \in Ended
                 PROVE  <<"handle", h>> \in U2
      BY <1>10, <3>1
    <3>2. w \in Watches(pool') /\ pool'.watches[w].handle = h /\ pool'.watches[w].completed
      BY <1>5, <1>8, <1>16
    <3> QED
      BY <3>1, <3>2
  <2>5. \A r \in U : r \in Holders /\ r \in U2
    <3>1. U \subseteq Holders /\ \A j \in Jobs : <<"job", j>> \notin U
      BY LateAt DEF Late
    <3>2. <<"worker", 0>> \notin U
      BY LateAt
    <3> HIDE DEF U, U2
    <3> QED
      BY <2>4, <3>1, <3>2, HolderKinds
  <2> HIDE DEF d2, U, U2
  <2>6. \A r \in Holders : d[r] # NoPid => d[r] \in Pids
    BY <2>2, MaxStartsAssumption DEF Pids, NoPid
  <2>7. ASSUME NEW r \in Holders, d[r] # NoPid
        PROVE  /\ d[r] \notin lost
               /\ proc'[d[r]] \in Alive \/ (proc'[d[r]] = "reaped" /\ r \in U2)
    <3>1. d[r] \notin lost /\ (proc[d[r]] \in Alive \/ (proc[d[r]] = "reaped" /\ r \in U))
      BY <2>3, <2>7 DEF Custody
    <3>2. CASE d[r] \in pids
      <4>1. PICK w \in Ended : d[r] = pool.watches[w].pid
        BY <3>2 DEF pids
      <4>2. r = <<"handle", pool.watches[w].handle>> /\ pool.watches[w].handle \in Handles
        BY <1>10, <1>11, <1>14, <4>1
      <4>3. r \in U2
        BY <2>4, <4>2
      <4> QED
        BY <1>13, <2>6, <2>7, <3>1, <3>2, <4>3
    <3>3. CASE d[r] \notin pids
      BY <1>13, <2>5, <2>6, <2>7, <3>1, <3>3
    <3> QED
      BY <3>2, <3>3
  <2>8. \A x \in Pids : /\ proc'[x] \in Alive => proc[x] \in Alive
                        /\ x \in lost => proc'[x] # "unused"
    BY <1>13, <2>3 DEF Custody, Alive
  <2>9. Custody(d2, proc', lost, U2)
    BY <1>2, <2>1, <2>2, <2>3, <2>7, <2>8, CustodyShrinks
  <2>10. ASSUME NEW h \in Handles, handles[h].exited PROVE proc'[handles[h].pid] = "reaped"
    <3>1. proc[handles[h].pid] = "reaped" /\ handles[h].pid \in 0 .. MaxStarts
      BY <1>2, <2>10 DEF Children, HandleRecords
    <3>2. handles[h].pid \in Pids
      BY <1>2, <2>10, <3>1, MaxStartsAssumption DEF Handled, NoPid, Pids
    <3> QED
      BY <1>13, <3>1, <3>2
  <2> QED
    BY <2>9, <2>10 DEF Children, d2, U2
<1>19. ~stale'
  BY <1>1, <1>12 DEF PoolInv, Gone, Alive
<1>20. Types'
  <2>1. proc' \in [Pids -> {"unused", "running", "zombie", "reaped"}]
    BY <1>1, <1>2 DEF Reaped
  <2> QED
    BY <1>1, <1>2, <1>3, <1>9, <2>1 DEF Types
<1>21. Waking'
  <2>1. Ended = {} => Completed' = Completed
    BY <1>5, <1>8 DEF Completed, Ended
  <2> QED
    BY <1>1, <1>2, <1>3, <1>8, <2>1 DEF Waking, WakeExact, WorkerAwake, Announced
<1>22. Closing'
  BY <1>1, <1>2, <1>16 DEF Closing
<1>23. Reserved(pool', handles, regs, owner)
  BY <1>2, <1>8, ReservedKept
<1> QED
  BY <1>1, <1>2, <1>9, <1>17, <1>18, <1>19, <1>20, <1>21, <1>22, <1>23 DEF PoolInv

-----------------------------------------------------------------------------
(* Handles that become free.                                               *)

Freed(hs, F) == [h \in Handles |-> IF h \in F THEN FreeHandle(hs[h].gen) ELSE hs[h]]

LEMMA FreeHandleFacts ==
    ASSUME NEW g \in 0 .. MaxStarts
    PROVE  /\ FreeHandle(g) \in HandleRecords
           /\ FreeHandle(g).occupied = 0 /\ FreeHandle(g).gen = g /\ FreeHandle(g).pid = NoPid
           /\ ~FreeHandle(g).exited /\ FreeHandle(g).source = "none" /\ ~FreeHandle(g).reaping
           /\ ~Reaps(FreeHandle(g))
<1>1. 0 \in 0 .. MaxStarts
  BY MaxStartsAssumption
<1> QED
  BY <1>1 DEF FreeHandle, HandleRecords, NoPid, Reaps

LEMMA FreedFacts ==
    ASSUME NEW hs \in [Handles -> HandleRecords], NEW F \in SUBSET Handles
    PROVE  LET hs2 == Freed(hs, F) IN
           /\ hs2 \in [Handles -> HandleRecords]
           /\ \A h \in Handles \ F : hs2[h] = hs[h]
           /\ \A h \in Handles : hs2[h].gen = hs[h].gen
           /\ \A h \in F : /\ hs2[h].occupied = 0 /\ hs2[h].pid = NoPid /\ ~hs2[h].exited
                           /\ hs2[h].source = "none" /\ ~hs2[h].reaping /\ ~Reaps(hs2[h])
           /\ Handled(hs) => Handled(hs2)
           /\ \A n : Numbered(hs, n) => Numbered(hs2, n)
           /\ OpenHandles(hs2) = OpenHandles(hs) \ F
<1> DEFINE hs2 == Freed(hs, F)
<1>1. \A h \in Handles : hs[h].gen \in 0 .. MaxStarts
  BY DEF HandleRecords
<1>2. \A h \in Handles \ F : hs2[h] = hs[h]
  BY DEF Freed
<1>3. \A h \in F : hs2[h] = FreeHandle(hs[h].gen)
  BY DEF Freed
<1>4. \A h \in F : /\ hs2[h] \in HandleRecords /\ hs2[h].gen = hs[h].gen
                   /\ hs2[h].occupied = 0 /\ hs2[h].pid = NoPid /\ ~hs2[h].exited
                   /\ hs2[h].source = "none" /\ ~hs2[h].reaping /\ ~Reaps(hs2[h])
  BY <1>1, <1>3, FreeHandleFacts
<1>5. hs2 \in [Handles -> HandleRecords]
  <2>1. \A h \in Handles : hs2[h] \in HandleRecords
    BY <1>2, <1>4
  <2> QED
    BY <2>1 DEF Freed
<1> HIDE DEF hs2
<1>6. \A h \in Handles : hs2[h].gen = hs[h].gen
  BY <1>2, <1>4
<1>7. Handled(hs) => Handled(hs2)
  <2> SUFFICES ASSUME Handled(hs) PROVE Handled(hs2)
    OBVIOUS
  <2>1. ASSUME NEW h \in Handles
        PROVE  LET s == hs2[h] IN
               /\ s.occupied = 0 => s.pid = NoPid
               /\ s.occupied # 0 => s.gen # 0
               /\ s.occupied = 1 => ~s.reaping /\ (s.pid = NoPid => s.source = "none")
               /\ s.occupied = 2 => s.pid # NoPid /\ s.source = "none" /\ ~s.exited
               /\ s.exited => s.pid # NoPid
    <3>1. CASE h \in F
      BY <1>4, <3>1
    <3>2. CASE h \notin F
      <4>1. hs2[h] = hs[h]
        BY <1>2, <3>2
      <4> QED
        BY <4>1 DEF Handled
    <3> QED
      BY <3>1, <3>2
  <2>2. \A g, h \in Handles : hs2[g].gen = hs2[h].gen /\ hs2[g].gen # 0 => g = h
    BY <1>6 DEF Handled
  <2> QED
    BY <2>1, <2>2 DEF Handled
<1>8. \A n : Numbered(hs, n) => Numbered(hs2, n)
  BY <1>6 DEF Numbered
<1>9. OpenHandles(hs2) = OpenHandles(hs) \ F
  BY <1>2, <1>4 DEF OpenHandles
<1> QED
  BY <1>2, <1>4, <1>5, <1>6, <1>7, <1>8, <1>9 DEF hs2

\* The handles of F become free; the children of S, theirs, are waited for now.
Freeing(hs, pr, pr2, F, S) ==
    /\ F \subseteq Handles
    /\ \A x \in Pids : pr2[x] = IF x \in S THEN "reaped" ELSE pr[x]
    /\ \A x \in S : \E h \in F : Reaps(hs[h]) /\ hs[h].pid = x /\ x # NoPid
    /\ \A h \in F : Reaps(hs[h]) /\ hs[h].pid # NoPid => pr2[hs[h].pid] = "reaped"

LEMMA ChildrenFreed ==
    ASSUME NEW p \in Pools, NEW p2, NEW hs \in [Handles -> HandleRecords],
           NEW k \in Workers, NEW k2, NEW pr, NEW pr2, NEW lo \in SUBSET Pids,
           Children(p, hs, k, pr, lo), Handled(hs), NEW F, NEW S, Freeing(hs, pr, pr2, F, S),
           \A j \in Jobs : p2.jobs[j].pid = p.jobs[j].pid, InHand(k2) = InHand(k),
           \A h \in Handles \ F : <<"handle", h>> \in Late(p, hs) =>
                                     <<"handle", h>> \in Late(p2, Freed(hs, F))
    PROVE  Children(p2, Freed(hs, F), k2, pr2, lo)
<1> DEFINE hs2 == Freed(hs, F)
           d == Hold(p, hs, k)
           d2 == Hold(p2, hs2, k2)
           U == Late(p, hs)
           U2 == Late(p2, hs2)
<1>1. /\ F \subseteq Handles /\ \A x \in Pids : pr2[x] = IF x \in S THEN "reaped" ELSE pr[x]
      /\ \A x \in S : \E h \in F : Reaps(hs[h]) /\ hs[h].pid = x /\ x # NoPid
      /\ \A h \in F : Reaps(hs[h]) /\ hs[h].pid # NoPid => pr2[hs[h].pid] = "reaped"
  BY DEF Freeing
<1>2. /\ \A h \in Handles \ F : hs2[h] = hs[h]
      /\ \A h \in F : ~Reaps(hs2[h]) /\ ~hs2[h].exited
  BY <1>1, FreedFacts
<1> HIDE DEF hs2
<1>3. Custody(d, pr, lo, U)
  BY DEF Children
<1>4. \A r \in Holders : d[r] \in 0 .. MaxStarts
  BY HoldType
<1>5. /\ \A j \in Jobs : d2[<<"job", j>>] = d[<<"job", j>>]
      /\ d2[<<"worker", 0>>] = d[<<"worker", 0>>]
      /\ \A h \in Handles \ F : d2[<<"handle", h>>] = d[<<"handle", h>>]
      /\ \A h \in F : d2[<<"handle", h>>] = NoPid
      /\ \A h \in Handles : d[<<"handle", h>>] # NoPid =>
            Reaps(hs[h]) /\ d[<<"handle", h>>] = hs[h].pid
      /\ \A h \in Handles : Reaps(hs[h]) => d[<<"handle", h>>] = hs[h].pid
  BY <1>1, <1>2, HoldAt
<1>6. \A h \in Handles \ F : <<"handle", h>> \in U => <<"handle", h>> \in U2
  BY DEF hs2
<1>7. U \subseteq Holders /\ <<"worker", 0>> \notin U /\ \A j \in Jobs : <<"job", j>> \notin U
  BY LateAt DEF Late
<1> HIDE DEF d, d2, U, U2
<1>8. \A r \in Holders : d[r] # NoPid => d[r] \in Pids
  BY <1>4, MaxStartsAssumption DEF Pids, NoPid
<1>9. ASSUME NEW r \in Holders, d[r] # NoPid, d[r] \in S
      PROVE  \E h \in F : r = <<"handle", h>>
  <2>1. PICK h \in F : Reaps(hs[h]) /\ hs[h].pid = d[r]
    BY <1>1, <1>9
  <2>2. d[<<"handle", h>>] = d[r] /\ <<"handle", h>> \in Holders
    BY <1>1, <1>5, <2>1, HolderKinds
  <2>3. r = <<"handle", h>>
    BY <1>3, <1>9, <2>2 DEF Custody
  <2> QED
    BY <2>3
<1>10. \A x \in Pids : /\ pr2[x] \in Alive => pr[x] \in Alive
                       /\ x \in lo => pr2[x] # "unused"
  BY <1>1, <1>3 DEF Custody, Alive
<1>11. ASSUME NEW r \in Holders, d[r] # NoPid PROVE d[r] \notin lo
  BY <1>3, <1>11 DEF Custody
<1>12. ASSUME NEW r \in Holders, \A h \in F : r # <<"handle", h>>
       PROVE  /\ d2[r] = d[r]
              /\ d[r] # NoPid => pr2[d[r]] \in Alive \/ (pr2[d[r]] = "reaped" /\ r \in U2)
  <2>1. d2[r] = d[r] /\ (r \in U => r \in U2)
    BY <1>5, <1>6, <1>7, <1>12, HolderKinds
  <2>2. d[r] # NoPid => pr2[d[r]] = pr[d[r]]
    BY <1>1, <1>8, <1>9, <1>12
  <2> QED
    BY <1>3, <2>1, <2>2 DEF Custody
<1>13. ASSUME NEW r \in Holders, NEW h \in F, r = <<"handle", h>>
       PROVE  d2[r] = NoPid /\ (d[r] # NoPid => pr2[d[r]] \notin Alive)
  <2>1. d2[r] = NoPid /\ (d[r] # NoPid => Reaps(hs[h]) /\ d[r] = hs[h].pid)
    BY <1>1, <1>5, <1>13
  <2> QED
    BY <1>1, <2>1 DEF Alive
<1>14. ASSUME NEW r \in Holders
       PROVE  \/ /\ d2[r] = d[r]
                 /\ d[r] # NoPid => /\ d[r] \notin lo
                                    /\ pr2[d[r]] \in Alive \/ (pr2[d[r]] = "reaped" /\ r \in U2)
              \/ /\ d2[r] = NoPid
                 /\ d[r] # NoPid => pr2[d[r]] \notin Alive \/ d[r] \in lo
  BY <1>11, <1>12, <1>13
<1>15. Custody(d2, pr2, lo, U2)
  BY <1>3, <1>4, <1>10, <1>14, CustodyShrinks
<1>16. ASSUME NEW h \in Handles, hs2[h].exited PROVE pr2[hs2[h].pid] = "reaped"
  <2>1. h \notin F /\ hs2[h] = hs[h]
    BY <1>2, <1>16
  <2>2. pr[hs[h].pid] = "reaped" /\ hs[h].pid \in 0 .. MaxStarts /\ hs[h].pid # NoPid
    BY <1>16, <2>1 DEF Children, HandleRecords, Handled
  <2>3. hs[h].pid \in Pids
    BY <2>2, MaxStartsAssumption DEF NoPid, Pids
  <2> QED
    BY <1>1, <2>1, <2>2, <2>3
<1> QED
  BY <1>15, <1>16 DEF Children, d2, U2, hs2

\* The watches that stay are those of other handles.
Unwatching(p, p2, F) ==
    /\ p2.watching = Cardinality(Watches(p2))
    /\ \A w \in Watches(p2) : /\ w \in Watches(p) /\ p2.watches[w] = p.watches[w]
                              /\ p.watches[w].handle \notin F

LEMMA WatchingFreed ==
    ASSUME NEW p \in Pools, NEW p2, NEW hs \in [Handles -> HandleRecords],
           NEW k \in Workers, NEW pr, NEW pr2, NEW lo \in SUBSET Pids,
           Children(p, hs, k, pr, lo), Handled(hs), Watching(p, hs, pr),
           NEW F, NEW S, Freeing(hs, pr, pr2, F, S), Unwatching(p, p2, F)
    PROVE  Watching(p2, Freed(hs, F), pr2)
<1> DEFINE hs2 == Freed(hs, F)
           d == Hold(p, hs, k)
<1>1. /\ F \subseteq Handles /\ \A x \in Pids : pr2[x] = IF x \in S THEN "reaped" ELSE pr[x]
      /\ \A x \in S : \E h \in F : Reaps(hs[h]) /\ hs[h].pid = x /\ x # NoPid
  BY DEF Freeing
<1>2. \A h \in Handles \ F : hs2[h] = hs[h]
  BY <1>1, FreedFacts
<1>3. \A r, s \in Holders : d[r] # NoPid /\ d[r] = d[s] => r = s
  BY DEF Children, Custody
<1>4. \A h \in Handles : Reaps(hs[h]) => d[<<"handle", h>>] = hs[h].pid
  <2>1. ASSUME NEW h \in Handles, Reaps(hs[h]) PROVE d[<<"handle", h>>] = hs[h].pid
    BY <2>1, HoldAt
  <2> QED
    BY <2>1
<1>5. ASSUME NEW w \in Watches(p2)
      PROVE  /\ w \in Watches(p) /\ p2.watches[w] = p.watches[w]
             /\ p.watches[w].handle \in Handles \ F
             /\ pr2[p.watches[w].pid] = pr[p.watches[w].pid]
  <2> DEFINE v == p.watches[w]
  <2>1. w \in Watches(p) /\ p2.watches[w] = v /\ v.handle \notin F
    BY DEF Unwatching
  <2>2. /\ v.handle \in Handles /\ <<"handle", v.handle>> \in Holders
        /\ d[<<"handle", v.handle>>] = v.pid /\ v.pid \in Pids /\ v.pid # NoPid
    BY <2>1, WatchHold
  <2> HIDE DEF d, v
  <2>3. v.pid \notin S
    <3> SUFFICES ASSUME v.pid \in S PROVE FALSE
      OBVIOUS
    <3>1. PICK h \in F : Reaps(hs[h]) /\ hs[h].pid = v.pid
      BY <1>1
    <3>2. d[<<"handle", h>>] = v.pid /\ <<"handle", h>> \in Holders
      BY <1>1, <1>4, <3>1, HolderKinds
    <3>3. <<"handle", h>> = <<"handle", v.handle>>
      BY ONLY <1>3, <2>2, <3>2
    <3> QED
      BY <2>1, <3>3
  <2> QED
    BY <1>1, <2>1, <2>2, <2>3 DEF v
<1> HIDE DEF hs2, d
<1>6. p2.watching = Cardinality(Watches(p2))
  BY DEF Unwatching
<1>7. ASSUME NEW w \in Watches(p2)
      PROVE  LET v == p2.watches[w] IN
             /\ v.handle \in Handles
             /\ hs2[v.handle].occupied = 1 /\ hs2[v.handle].gen = v.hgen
             /\ hs2[v.handle].pid = v.pid /\ v.pid # NoPid
             /\ hs2[v.handle].source = "worker" /\ ~hs2[v.handle].exited
             /\ v.completed <=> pr2[v.pid] = "reaped"
  <2> DEFINE v == p.watches[w]
  <2>1. /\ w \in Watches(p) /\ p2.watches[w] = v /\ v.handle \in Handles
        /\ hs2[v.handle] = hs[v.handle] /\ pr2[v.pid] = pr[v.pid]
    BY <1>2, <1>5
  <2>2. /\ hs[v.handle].occupied = 1 /\ hs[v.handle].gen = v.hgen
        /\ hs[v.handle].pid = v.pid /\ v.pid # NoPid
        /\ hs[v.handle].source = "worker" /\ ~hs[v.handle].exited
        /\ v.completed <=> pr[v.pid] = "reaped"
    BY <2>1 DEF Watching
  <2> QED
    BY <2>1, <2>2
<1>8. \A v, w \in Watches(p2) : p2.watches[v].handle = p2.watches[w].handle => v = w
  BY <1>5 DEF Watching
<1> QED
  BY <1>6, <1>7, <1>8 DEF Watching, hs2

-----------------------------------------------------------------------------
(* Handles that change.                                                    *)

\* A handle that a start holds, and a handle with a child.
Bare(s) == s.occupied = 1 /\ s.pid = NoPid
Open(s) == s.occupied = 1 /\ s.pid # NoPid

LEMMA ReservedHandles ==
    ASSUME NEW p, NEW hs, NEW hs2, NEW rs \in [Tasks -> RegRecords], NEW o,
           Reserved(p, hs, rs, o),
           \A h \in Handles : /\ Bare(hs[h]) => hs2[h].gen = hs[h].gen
                              /\ Bare(hs2[h]) <=> Bare(hs[h])
    PROVE  Reserved(p, hs2, rs, o)
<1>1. ASSUME NEW t \in Tasks, rs[t].kind = "start"
      PROVE  /\ hs2[rs[t].handle].occupied = 1 /\ hs2[rs[t].handle].pid = NoPid
             /\ hs2[rs[t].handle].gen = rs[t].hgen
  <2>1. rs[t].handle \in Handles
    BY DEF RegRecords
  <2>2. Bare(hs[rs[t].handle]) /\ hs[rs[t].handle].gen = rs[t].hgen
    BY <1>1 DEF Reserved, Bare
  <2> QED
    BY <2>1, <2>2 DEF Bare
<1>2. \A h \in Handles : hs2[h].occupied = 1 /\ hs2[h].pid = NoPid =>
                            hs[h].occupied = 1 /\ hs[h].pid = NoPid
  BY DEF Bare
<1> QED
  BY <1>1, <1>2 DEF Reserved

\* Other starts' jobs and handles stay, and that of r is free or has a child.
GivesUp(p, p2, hs, hs2, r) ==
    /\ \A j \in Jobs \ {r.job} : p.jobs[j].state \in Pending => p2.jobs[j] = p.jobs[j]
    /\ \A h \in Handles \ {r.handle} : hs2[h] = hs[h]
    /\ ~Bare(hs2[r.handle])

\* A start ends: its registration is gone, and its handle is free or has a child.
LEMMA RegEnds ==
    ASSUME NEW p, NEW p2, NEW hs, NEW hs2, NEW rs \in [Tasks -> RegRecords], NEW o, NEW o2,
           Reserved(p, hs, rs, o), NEW t \in Tasks, rs[t].kind = "start",
           o.at \in {"frames", "arm"}, o.at = "arm" => o.task = t, o2.at = "frames",
           GivesUp(p, p2, hs, hs2, rs[t]), NEW rs2, rs2 = [rs EXCEPT ![t] = NoReg]
    PROVE  Reserved(p2, hs2, rs2, o2)
<1>1. /\ rs2[t] = NoReg /\ \A u \in Tasks \ {t} : rs2[u] = rs[u]
      /\ NoReg.kind = "none" /\ ~NoReg.ready
  BY DEF NoReg
<1>2. /\ \A j \in Jobs \ {rs[t].job} : p.jobs[j].state \in Pending => p2.jobs[j] = p.jobs[j]
      /\ \A h \in Handles \ {rs[t].handle} : hs2[h] = hs[h]
      /\ ~Bare(hs2[rs[t].handle])
  BY DEF GivesUp
<1>3. ASSUME NEW u \in Tasks \ {t}, rs[u].kind = "start"
      PROVE  /\ p2.jobs[rs[u].job] = p.jobs[rs[u].job]
             /\ hs2[rs[u].handle] = hs[rs[u].handle]
  <2>1. rs[u].job \in Jobs /\ rs[u].handle \in Handles
    BY DEF RegRecords
  <2>2. rs[u].job # rs[t].job /\ rs[u].handle # rs[t].handle /\ p.jobs[rs[u].job].state \in Pending
    BY <1>3 DEF Reserved
  <2> QED
    BY <1>2, <2>1, <2>2
<1>4. ASSUME NEW u \in Tasks, rs2[u].kind = "start"
      PROVE  /\ u # t /\ rs[u].kind = "start" /\ rs2[u] = rs[u]
             /\ p2.jobs[rs[u].job].gen = rs[u].jgen
             /\ p2.jobs[rs[u].job].state \in Pending
             /\ rs[u].ready <=> p2.jobs[rs[u].job].state = "start_delivered"
             /\ rs[u].active <=> ~rs[u].ready
             /\ hs2[rs[u].handle].occupied = 1 /\ hs2[rs[u].handle].pid = NoPid
             /\ hs2[rs[u].handle].gen = rs[u].hgen
  <2>1. u # t /\ rs2[u] = rs[u] /\ rs[u].kind = "start"
    BY <1>1, <1>4
  <2>2. p2.jobs[rs[u].job] = p.jobs[rs[u].job] /\ hs2[rs[u].handle] = hs[rs[u].handle]
    BY <1>3, <2>1
  <2>3. ~(o.at = "arm" /\ o.task = u)
    BY <2>1
  <2> QED
    BY <2>1, <2>2, <2>3 DEF Reserved
<1>5. ASSUME NEW h \in Handles, hs2[h].occupied = 1, hs2[h].pid = NoPid
      PROVE  \E u \in Tasks : rs2[u].kind = "start" /\ rs2[u].handle = h
  <2>1. h # rs[t].handle
    BY <1>5, <1>2 DEF Bare
  <2>2. hs[h].occupied = 1 /\ hs[h].pid = NoPid
    BY <1>5, <1>2, <2>1
  <2>3. PICK u \in Tasks : rs[u].kind = "start" /\ rs[u].handle = h
    BY <2>2 DEF Reserved
  <2> QED
    BY <1>1, <2>1, <2>3
<1>6. \A u \in Tasks : rs2[u].kind = "none" => ~rs2[u].ready
  BY <1>1 DEF Reserved
<1>7. \A u, v \in Tasks : u # v /\ rs2[u].kind = "start" /\ rs2[v].kind = "start" =>
          rs2[u].job # rs2[v].job /\ rs2[u].handle # rs2[v].handle
  BY <1>4 DEF Reserved
<1> QED
  BY <1>4, <1>5, <1>6, <1>7 DEF Reserved

LEMMA ParentedKept ==
    ASSUME NEW hs, NEW hs2, NEW ch, Parented(hs, ch),
           \A h \in Handles : Open(hs[h]) => Open(hs2[h]) /\ hs2[h].gen = hs[h].gen
    PROVE  Parented(hs2, ch)
BY DEF Parented, Open

\* Starts and tasks find their handles as they were.
SameUse(hs, hs2) ==
    \A h \in Handles : /\ Bare(hs[h]) => hs2[h].gen = hs[h].gen
                       /\ Bare(hs2[h]) <=> Bare(hs[h])
                       /\ Open(hs[h]) => Open(hs2[h]) /\ hs2[h].gen = hs[h].gen

LEMMA SameUseKept ==
    ASSUME NEW p, NEW hs, NEW hs2, NEW rs \in [Tasks -> RegRecords], NEW o, NEW ch,
           Reserved(p, hs, rs, o), Parented(hs, ch), SameUse(hs, hs2)
    PROVE  Reserved(p, hs2, rs, o) /\ Parented(hs2, ch)
<1>1. Reserved(p, hs2, rs, o)
  BY ReservedHandles DEF SameUse
<1>2. Parented(hs2, ch)
  BY ParentedKept DEF SameUse
<1> QED
  BY <1>1, <1>2

\* A child goes from a to b, or stays.
Moved(d, d2, a, b) ==
    /\ a \in Holders /\ b \in Holders /\ d[a] # NoPid /\ d2[b] = d[a]
    /\ a # b => d[b] = NoPid /\ d2[a] = NoPid
    /\ \A r \in Holders : r # a /\ r # b => d2[r] = d[r]

\* The handles that were late and are still to be told.
LateKept(p, p2, hs, hs2, A) ==
    \A h \in Handles \ A : <<"handle", h>> \in Late(p, hs) => <<"handle", h>> \in Late(p2, hs2)

\* No handle is told of an exit.
NoneTold(hs, hs2) == \A h \in Handles : hs2[h].exited => hs[h].exited /\ hs2[h].pid = hs[h].pid

LEMMA ChildrenMove ==
    ASSUME NEW p \in Pools, NEW p2, NEW hs \in [Handles -> HandleRecords], NEW hs2,
           NEW k \in Workers, NEW k2, NEW pr, NEW pr2, NEW lo \in SUBSET Pids,
           Children(p, hs, k, pr, lo), Handled(hs), Dying(pr, pr2), NEW a, NEW b,
           Moved(Hold(p, hs, k), Hold(p2, hs2, k2), a, b),
           pr[Hold(p, hs, k)[a]] \in Alive, NEW A, \A h \in A : a = <<"handle", h>>,
           LateKept(p, p2, hs, hs2, A), NoneTold(hs, hs2)
    PROVE  Children(p2, hs2, k2, pr2, lo)
<1> DEFINE d == Hold(p, hs, k)
           d2 == Hold(p2, hs2, k2)
           U == Late(p, hs)
           U2 == Late(p2, hs2)
<1>1. Custody(d, pr, lo, U)
  BY DEF Children
<1>2. \A r \in Holders : d[r] \in 0 .. MaxStarts
  BY HoldType
<1>3. /\ a \in Holders /\ b \in Holders /\ d[a] # NoPid /\ d2[b] = d[a]
      /\ a # b => d[b] = NoPid /\ d2[a] = NoPid
      /\ \A r \in Holders : r # a /\ r # b => d2[r] = d[r]
  BY DEF Moved
<1>4. \A r \in Holders : r # a /\ r \in U => r \in U2
  <2> SUFFICES ASSUME NEW r \in Holders, r # a, r \in U PROVE r \in U2
    OBVIOUS
  <2>1. PICK h \in Handles : r = <<"handle", h>>
    BY HolderKinds, LateAt
  <2>2. h \notin A
    BY <2>1
  <2> QED
    BY <2>1, <2>2 DEF LateKept
<1>5. pr[d[a]] \in Alive
  OBVIOUS
<1> HIDE DEF d, d2, U, U2
<1>6. \A x \in Pids : /\ pr2[x] \in Alive <=> pr[x] \in Alive
                      /\ pr2[x] = "unused" => pr[x] = "unused"
                      /\ pr2[x] = "reaped" <=> pr[x] = "reaped"
  BY DEF Dying, Alive
<1>7. \A x \in Pids : /\ pr2[x] \in Alive => pr[x] \in Alive
                      /\ x \in lo => pr2[x] # "unused"
  BY <1>1, <1>6 DEF Custody
<1>8. \A r \in Holders : d[r] # NoPid => d[r] \in Pids
  BY <1>2, MaxStartsAssumption DEF Pids, NoPid
<1>9. pr2[d[a]] \in Alive
  BY <1>3, <1>5, <1>6, <1>8
<1>10. \A r \in Holders : r # a /\ d[r] # NoPid =>
          /\ d[r] \notin lo
          /\ pr2[d[r]] \in Alive \/ (pr2[d[r]] = "reaped" /\ r \in U2)
  BY <1>1, <1>4, <1>6, <1>8 DEF Custody
<1>11. Custody(d2, pr2, lo, U2)
  <2>1. CASE a # b
    <3>1. /\ a \in Holders /\ b \in Holders /\ d[a] # NoPid /\ d[b] = NoPid
          /\ d2[a] = NoPid /\ d2[b] = d[a] /\ \A r \in Holders : r # a /\ r # b => d2[r] = d[r]
      BY <1>3, <2>1
    <3>2. \A r \in Holders : r # a /\ r # b /\ d[r] # NoPid =>
             pr2[d[r]] \in Alive \/ (pr2[d[r]] = "reaped" /\ r \in U2)
      BY <1>10
    <3>3. lo \in SUBSET Pids
      OBVIOUS
    <3> QED
      BY ONLY <1>1, <1>7, <1>9, <2>1, <3>1, <3>2, <3>3, CustodyMoves
  <2>2. CASE a = b
    <3>1. \A r \in Holders : d2[r] = d[r]
      BY <1>3, <2>2
    <3>2. \A r \in Holders : d[r] # NoPid =>
             /\ d[r] \notin lo
             /\ pr2[d[r]] \in Alive \/ (pr2[d[r]] = "reaped" /\ r \in U2)
      BY <1>1, <1>9, <1>10 DEF Custody
    <3> QED
      BY <1>1, <1>2, <1>7, <3>1, <3>2, CustodyShrinks
  <2> QED
    BY <2>1, <2>2
<1>12. ASSUME NEW h \in Handles, hs2[h].exited PROVE pr2[hs2[h].pid] = "reaped"
  <2>1. hs[h].exited /\ hs2[h].pid = hs[h].pid
    BY <1>12 DEF NoneTold
  <2>2. pr[hs[h].pid] = "reaped" /\ hs[h].pid \in 0 .. MaxStarts /\ hs[h].pid # NoPid
    BY <2>1 DEF Children, HandleRecords, Handled
  <2>3. hs[h].pid \in Pids
    BY <2>2, MaxStartsAssumption DEF NoPid, Pids
  <2> QED
    BY <1>6, <2>1, <2>2, <2>3
<1> QED
  BY <1>11, <1>12 DEF Children, d2, U2

\* Nothing moves.
LEMMA ChildrenStay ==
    ASSUME NEW p \in Pools, NEW p2, NEW hs \in [Handles -> HandleRecords], NEW hs2,
           NEW k \in Workers, NEW k2, NEW pr, NEW pr2, NEW lo \in SUBSET Pids,
           Children(p, hs, k, pr, lo), Handled(hs), Dying(pr, pr2),
           \A r \in Holders : Hold(p2, hs2, k2)[r] = Hold(p, hs, k)[r],
           LateKept(p, p2, hs, hs2, {h \in Handles : hs[h].pid = NoPid}), NoneTold(hs, hs2)
    PROVE  Children(p2, hs2, k2, pr2, lo)
<1> DEFINE d == Hold(p, hs, k)
           d2 == Hold(p2, hs2, k2)
           U == Late(p, hs)
           U2 == Late(p2, hs2)
<1>1. Custody(d, pr, lo, U)
  BY DEF Children
<1>2. \A r \in Holders : d[r] \in 0 .. MaxStarts
  BY HoldType
<1>3. \A r \in Holders : d[r] # NoPid /\ r \in U => r \in U2
  <2> SUFFICES ASSUME NEW r \in Holders, d[r] # NoPid, r \in U PROVE r \in U2
    OBVIOUS
  <2>1. PICK h \in Handles : r = <<"handle", h>>
    BY HolderKinds, LateAt
  <2>2. d[r] = IF Reaps(hs[h]) THEN hs[h].pid ELSE NoPid
    BY <2>1, HoldAt
  <2>3. hs[h].pid # NoPid
    BY <2>2
  <2> QED
    BY <2>1, <2>3 DEF LateKept
<1>4. \A r \in Holders : d2[r] = d[r]
  OBVIOUS
<1> HIDE DEF d, d2, U, U2
<1>6. \A x \in Pids : /\ pr2[x] \in Alive <=> pr[x] \in Alive
                      /\ pr2[x] = "unused" => pr[x] = "unused"
                      /\ pr2[x] = "reaped" <=> pr[x] = "reaped"
  BY DEF Dying, Alive
<1>7. \A x \in Pids : /\ pr2[x] \in Alive => pr[x] \in Alive
                      /\ x \in lo => pr2[x] # "unused"
  BY <1>1, <1>6 DEF Custody
<1>8. \A r \in Holders : d[r] # NoPid => d[r] \in Pids
  BY <1>2, MaxStartsAssumption DEF Pids, NoPid
<1>9. \A r \in Holders : d[r] # NoPid =>
         /\ d[r] \notin lo
         /\ pr2[d[r]] \in Alive \/ (pr2[d[r]] = "reaped" /\ r \in U2)
  BY <1>1, <1>3, <1>6, <1>8 DEF Custody
<1>10. Custody(d2, pr2, lo, U2)
  BY <1>1, <1>2, <1>4, <1>7, <1>9, CustodyShrinks
<1>11. ASSUME NEW h \in Handles, hs2[h].exited PROVE pr2[hs2[h].pid] = "reaped"
  <2>1. hs[h].exited /\ hs2[h].pid = hs[h].pid
    BY <1>11 DEF NoneTold
  <2>2. pr[hs[h].pid] = "reaped" /\ hs[h].pid \in 0 .. MaxStarts /\ hs[h].pid # NoPid
    BY <2>1 DEF Children, HandleRecords, Handled
  <2>3. hs[h].pid \in Pids
    BY <2>2, MaxStartsAssumption DEF NoPid, Pids
  <2> QED
    BY <1>6, <2>1, <2>2, <2>3
<1> QED
  BY <1>10, <1>11 DEF Children, d2, U2

\* The handles of F become free in a step.
LEMMA FreedStep ==
    ASSUME PoolInv, Types', NEW F, NEW S, handles' = Freed(handles, F),
           Freeing(handles, proc, proc', F, S), nextGen' = nextGen, lost' = lost, ~stale',
           JobsInv(pool', worker'), \A j \in Jobs : pool'.jobs[j].pid = pool.jobs[j].pid,
           InHand(worker') = InHand(worker), Unwatching(pool, pool', F),
           LateKept(pool, pool', handles, handles', F),
           live' = Cardinality(OpenHandles(handles) \ F),
           Reserved(pool', handles', regs', owner'), Parented(handles', child'),
           Waking', Closing'
    PROVE  PoolInv'
<1>1. /\ pool \in Pools /\ handles \in [Handles -> HandleRecords] /\ worker \in Workers
      /\ lost \in SUBSET Pids /\ Handled(handles) /\ Numbered(handles, nextGen)
      /\ Children(pool, handles, worker, proc, lost) /\ Watching(pool, handles, proc)
  BY DEF PoolInv, Types
<1>2. F \in SUBSET Handles
  BY DEF Freeing
<1>3. /\ Handled(handles') /\ Numbered(handles', nextGen')
      /\ OpenHandles(handles') = OpenHandles(handles) \ F
  BY <1>1, <1>2, FreedFacts
<1>4. \A h \in Handles \ F : <<"handle", h>> \in Late(pool, handles) =>
                                <<"handle", h>> \in Late(pool', Freed(handles, F))
  BY DEF LateKept
<1>5. Children(pool', Freed(handles, F), worker', proc', lost)
  BY ONLY <1>1, <1>4, ChildrenFreed, Freeing(handles, proc, proc', F, S),
     \A j \in Jobs : pool'.jobs[j].pid = pool.jobs[j].pid, InHand(worker') = InHand(worker)
<1>6. Watching(pool', Freed(handles, F), proc')
  BY ONLY <1>1, WatchingFreed, Freeing(handles, proc, proc', F, S), Unwatching(pool, pool', F)
<1>7. live' = Cardinality(OpenHandles(handles'))
  BY <1>3
<1> QED
  BY <1>3, <1>5, <1>6, <1>7 DEF PoolInv

-----------------------------------------------------------------------------
(* The owner takes what the worker finished.                               *)

LEMMA DrainEnds ==
    ASSUME PoolInv, owner.at = "drain", pool.done = <<>>, owner' = [owner EXCEPT !.at = "watches"],
           UNCHANGED <<pool, handles, regs, ready, wake, pipe, worker, nextGen, live, child,
                       proc, stale, lost>>
    PROVE  PoolInv'
<1>1. /\ Types /\ Reserved(pool, handles, regs, owner) /\ Parented(handles, child)
      /\ Waking /\ Closing /\ regs \in [Tasks -> RegRecords]
  BY DEF PoolInv, Types
<1>2. owner'.at = "watches"
  BY <1>1 DEF Types
<1>3. Types'
  BY <1>1 DEF Types
<1>4. Reserved(pool, handles, regs, owner')
  BY <1>1, <1>2, ReservedKept
<1>5. Waking' /\ Closing'
  BY <1>1, <1>2 DEF Waking, Closing, WakeExact, WorkerAwake
<1> QED
  BY <1>1, <1>3, <1>4, <1>5, SamePool, SameProc, QuietStep

\* The tasks whose start is job j, at the reactor.
LEMMA OwnersOf ==
    ASSUME NEW p, NEW hs, Reserved(p, hs, regs, owner), owner.at = "drain", NEW j \in Jobs,
           p.jobs[j].state = "start_completed", NEW t \in Tasks
    PROVE  t \in Owners(j, p.jobs[j].gen) <=> regs[t].kind = "start" /\ regs[t].job = j
BY DEF Owners, Reserved

\* The completion of start j is taken from the list and told to its owners.
Delivers(j) ==
    /\ owner.at = "drain" /\ pool.done # <<>> /\ j = Head(pool.done)
    /\ pool.jobs[j].state = "start_completed"
    /\ pool' = [pool EXCEPT !.done = Tail(@), !.jobs[j].state = "start_delivered"]
    /\ regs' = [t \in Tasks |->
                   IF t \in Owners(j, pool.jobs[j].gen)
                   THEN [regs[t] EXCEPT !.active = FALSE, !.ready = TRUE,
                           !.timer = IF @ = "armed" THEN "off" ELSE @]
                   ELSE regs[t]]
    /\ ready' = ready \cup Owners(j, pool.jobs[j].gen)
    /\ UNCHANGED <<owner, handles, wake, pipe, worker, nextGen, live, child,
                    proc, stale, lost>>

LEMMA DrainDelivers ==
    ASSUME PoolInv, NEW j, Delivers(j)
    PROVE  PoolInv'
<1> DEFINE N == Owners(j, pool.jobs[j].gen)
<1>a. pool.done # <<>> /\ j = Head(pool.done) /\ pool.jobs[j].state = "start_completed"
  BY DEF Delivers
<1>b. owner.at = "drain" /\ pool.jobs[j].state = "start_completed"
  BY DEF Delivers
<1>c. /\ owner' = owner /\ handles' = handles /\ wake' = wake /\ pipe' = pipe
      /\ worker' = worker /\ nextGen' = nextGen /\ live' = live /\ child' = child
      /\ proc' = proc /\ stale' = stale /\ lost' = lost
  BY DEF Delivers
<1>d. ready' = ready \cup N
  BY DEF Delivers
<1>e. \A t \in Tasks : regs'[t] = IF t \in N
                                   THEN [regs[t] EXCEPT !.active = FALSE, !.ready = TRUE,
                                           !.timer = IF @ = "armed" THEN "off" ELSE @]
                                   ELSE regs[t]
  BY DEF Delivers
<1>f. regs' = [t \in Tasks |-> regs'[t]]
  BY DEF Delivers
<1>g. pool' = [pool EXCEPT !.done = Tail(@), !.jobs[j].state = "start_delivered"]
  BY DEF Delivers
<1>1. /\ Types /\ Reserved(pool, handles, regs, owner) /\ Parented(handles, child)
      /\ Waking /\ Closing /\ regs \in [Tasks -> RegRecords]
      /\ pool \in Pools /\ worker \in Workers /\ JobsInv(pool, worker)
  BY DEF PoolInv, Types
<1>2. j \in Jobs /\ Tail(pool.done) \in Seq(Jobs)
  BY ONLY <1>1, <1>a, HeadDone
<1>3. pool' = Changed(pool, j, WithState(pool.jobs[j], "start_delivered", pool.jobs[j].pid),
                      pool.queue, Tail(pool.done))
  <2> DEFINE rec == WithState(pool.jobs[j], "start_delivered", pool.jobs[j].pid)
             js == [pool.jobs EXCEPT ![j].state = "start_delivered"]
             d == Tail(pool.done)
  <2>1. pool.jobs \in [Jobs -> JobRecords] /\ pool.jobs[j] \in JobRecords
    BY <1>1, <1>2 DEF Pools
  <2>2. rec = [pool.jobs[j] EXCEPT !.state = "start_delivered"]
    BY <2>1 DEF WithState, JobRecords
  <2>3. js = [pool.jobs EXCEPT ![j] = rec]
    BY <1>2, <2>1, <2>2
  <2>4. pool' = [pool EXCEPT !.jobs = js, !.done = d]
    BY <1>1, <1>g DEF Pools
  <2> HIDE DEF rec, js, d
  <2>5. Changed(pool, j, rec, pool.queue, d) = [pool EXCEPT !.jobs = js, !.queue = pool.queue, !.done = d]
    BY <2>3 DEF Changed
  <2>6. [pool EXCEPT !.jobs = js, !.queue = pool.queue, !.done = d] = [pool EXCEPT !.jobs = js, !.done = d]
    BY ONLY <1>1 DEF Pools
  <2>7. pool' = Changed(pool, j, rec, pool.queue, d)
    BY ONLY <2>4, <2>5, <2>6
  <2> QED
    BY ONLY <2>7 DEF rec, d
<1>4. /\ JobsInv(pool', worker) /\ Beside(pool, pool')
      /\ \A i \in Jobs : pool'.jobs[i].pid = pool.jobs[i].pid /\ pool'.jobs[i].gen = pool.jobs[i].gen
      /\ \A i \in Jobs \ {j} : pool'.jobs[i] = pool.jobs[i]
      /\ pool'.jobs[j].state = "start_delivered" /\ pool'.queue = pool.queue
  BY ONLY <1>1, <1>3, <1>a, DeliverJob
<1>5. \A t \in Tasks : t \in Owners(j, pool.jobs[j].gen) <=> regs[t].kind = "start" /\ regs[t].job = j
  <2> SUFFICES ASSUME NEW t \in Tasks
               PROVE  t \in Owners(j, pool.jobs[j].gen) <=> regs[t].kind = "start" /\ regs[t].job = j
    OBVIOUS
  <2> QED
    BY ONLY <1>1, <1>2, <1>b, OwnersOf, t \in Tasks
<1>6. N \subseteq Tasks
  BY DEF Owners
<1> HIDE DEF N
<1>7. ASSUME NEW t \in Tasks
      PROVE  /\ regs'[t] \in RegRecords
             /\ regs'[t].kind = regs[t].kind /\ regs'[t].job = regs[t].job
             /\ regs'[t].jgen = regs[t].jgen /\ regs'[t].handle = regs[t].handle
             /\ regs'[t].hgen = regs[t].hgen
             /\ t \in N => ~regs'[t].active /\ regs'[t].ready
             /\ t \notin N => regs'[t] = regs[t]
  <2>1. regs[t] \in RegRecords
    BY <1>1
  <2>2. regs'[t] = IF t \in N
                   THEN [regs[t] EXCEPT !.active = FALSE, !.ready = TRUE,
                           !.timer = IF @ = "armed" THEN "off" ELSE @]
                   ELSE regs[t]
    BY <1>e
  <2> QED
    BY ONLY <2>1, <2>2 DEF RegRecords
<1>8. regs' \in [Tasks -> RegRecords]
  BY <1>7, <1>f
<1>9. Types'
  BY <1>1, <1>4, <1>6, <1>8, <1>c, <1>d DEF Types, JobsInv
<1>10. Reserved(pool', handles, regs', owner)
  <2>1. ASSUME NEW t \in Tasks, regs'[t].kind = "start"
        PROVE  /\ regs[t].kind = "start"
               /\ pool'.jobs[regs'[t].job].gen = regs'[t].jgen
               /\ pool'.jobs[regs'[t].job].state \in Pending
               /\ regs'[t].ready <=> pool'.jobs[regs'[t].job].state = "start_delivered"
               /\ regs'[t].active <=> ~regs'[t].ready
    <3>1. /\ regs[t].kind = "start" /\ regs'[t].job = regs[t].job /\ regs[t].job \in Jobs
          /\ regs'[t].jgen = regs[t].jgen
      BY <1>1, <1>7, <2>1 DEF RegRecords
    <3>2. /\ pool.jobs[regs[t].job].gen = regs[t].jgen
          /\ pool.jobs[regs[t].job].state \in Pending
          /\ regs[t].ready <=> pool.jobs[regs[t].job].state = "start_delivered"
          /\ regs[t].active <=> ~regs[t].ready
      BY <1>1, <1>b, <3>1 DEF Reserved
    <3>3. CASE regs[t].job = j
      <4>1. t \in N
        BY <1>5, <3>1, <3>3 DEF N
      <4>2. regs'[t].job = j /\ regs'[t].ready /\ ~regs'[t].active
        BY <1>7, <3>1, <3>3, <4>1
      <4>3. pool'.jobs[j].gen = pool.jobs[j].gen /\ pool'.jobs[j].state = "start_delivered"
        BY <1>2, <1>4
      <4> QED
        BY ONLY <3>1, <3>2, <3>3, <4>2, <4>3 DEF Pending
    <3>4. CASE regs[t].job # j
      <4>1. t \notin N
        BY <1>5, <3>4 DEF N
      <4>2. regs'[t] = regs[t] /\ pool'.jobs[regs[t].job] = pool.jobs[regs[t].job]
        BY <1>4, <1>7, <3>1, <3>4, <4>1
      <4> QED
        BY ONLY <3>1, <3>2, <4>2
    <3> QED
      BY <3>3, <3>4
  <2>2. \A t \in Tasks : regs'[t].kind = "none" => ~regs'[t].ready
    <3> SUFFICES ASSUME NEW t \in Tasks, regs'[t].kind = "none" PROVE ~regs'[t].ready
      OBVIOUS
    <3>1. regs[t].kind = "none" /\ t \notin N
      BY <1>5, <1>7 DEF N
    <3> QED
      BY <1>1, <1>7, <3>1 DEF Reserved
  <2>6. owner.at = "drain"
    BY <1>b
  <2>0. /\ Reserved(pool, handles, regs, owner)
        /\ \A t \in Tasks : /\ regs'[t].kind = regs[t].kind /\ regs'[t].job = regs[t].job
                            /\ regs'[t].handle = regs[t].handle /\ regs'[t].hgen = regs[t].hgen
    BY <1>1, <1>7
  <2>3. \A t \in Tasks : regs'[t].kind = "start" =>
            /\ handles[regs'[t].handle].occupied = 1 /\ handles[regs'[t].handle].pid = NoPid
            /\ handles[regs'[t].handle].gen = regs'[t].hgen
    BY ONLY <2>0, <2>6 DEF Reserved
  <2>4. \A t, u \in Tasks : t # u /\ regs'[t].kind = "start" /\ regs'[u].kind = "start" =>
            regs'[t].job # regs'[u].job /\ regs'[t].handle # regs'[u].handle
    BY ONLY <2>0, <2>6 DEF Reserved
  <2>5. \A h \in Handles : handles[h].occupied = 1 /\ handles[h].pid = NoPid =>
            \E t \in Tasks : regs'[t].kind = "start" /\ regs'[t].handle = h
    BY ONLY <2>0, <2>6 DEF Reserved
  <2> QED
    BY ONLY <2>1, <2>2, <2>3, <2>4, <2>5, <2>6 DEF Reserved
<1>11. Waking'
  BY <1>1, <1>4, <1>b, <1>c DEF Waking, WakeExact, WorkerAwake, Beside
<1>12. Closing'
  BY <1>b, <1>c DEF Closing
<1>13. Dying(proc, proc')
  BY <1>c, SameProc
<1>14. Reserved(pool', handles', regs', owner') /\ Parented(handles', child')
  BY <1>1, <1>10, <1>c
<1> QED
  BY <1>4, <1>9, <1>11, <1>12, <1>13, <1>14, <1>c, QuietStep

\* Which handle a completed reap frees.
ReapFrees(j) ==
    LET job == pool.jobs[j]
        h == job.handle
    IN  IF job.state = "reap_completed" /\ h # NoHandle /\ handles[h].occupied = 2
              /\ handles[h].reaping /\ handles[h].gen = job.hgen
        THEN {h} ELSE {}

\* The completion of another job is taken from the list and its slot freed.
Releases(j) ==
    /\ owner.at = "drain" /\ pool.done # <<>> /\ j = Head(pool.done)
    /\ pool.jobs[j].state # "start_completed"
    /\ pool' = Release([pool EXCEPT !.done = Tail(@)], j)
    /\ handles' = IF pool.jobs[j].state = "reap_completed"
                  THEN ReapComplete(pool.jobs[j].handle, pool.jobs[j].hgen) ELSE handles
    /\ UNCHANGED <<owner, regs, ready, wake, pipe, worker, nextGen, live, child,
                    proc, stale, lost>>

LEMMA DrainReleases ==
    ASSUME PoolInv, NEW j, Releases(j)
    PROVE  PoolInv'
<1> DEFINE F == ReapFrees(j)
<1>a. pool.done # <<>> /\ j = Head(pool.done) /\ pool.jobs[j].state # "start_completed"
  BY DEF Releases
<1>b. owner.at = "drain"
  BY DEF Releases
<1>c. /\ owner' = owner /\ regs' = regs /\ ready' = ready /\ wake' = wake /\ pipe' = pipe
      /\ worker' = worker /\ nextGen' = nextGen /\ live' = live /\ child' = child
      /\ proc' = proc /\ stale' = stale /\ lost' = lost
  BY DEF Releases
<1>d. handles' = IF pool.jobs[j].state = "reap_completed"
                THEN ReapComplete(pool.jobs[j].handle, pool.jobs[j].hgen) ELSE handles
  BY DEF Releases
<1>e. pool' = Release([pool EXCEPT !.done = Tail(@)], j)
  BY DEF Releases
<1>1. /\ Types /\ Reserved(pool, handles, regs, owner) /\ Parented(handles, child)
      /\ Waking /\ Closing /\ regs \in [Tasks -> RegRecords] /\ Handled(handles)
      /\ pool \in Pools /\ worker \in Workers /\ JobsInv(pool, worker)
      /\ handles \in [Handles -> HandleRecords] /\ Watching(pool, handles, proc)
      /\ live = Cardinality(OpenHandles(handles)) /\ ~stale
  BY DEF PoolInv, Types
<1>2. j \in Jobs /\ Tail(pool.done) \in Seq(Jobs)
  BY ONLY <1>1, <1>a, HeadDone
<1>3. pool' = Release(Relisted(pool, pool.queue, Tail(pool.done)), j)
  <2>1. [pool EXCEPT !.done = Tail(@)] = Relisted(pool, pool.queue, Tail(pool.done))
    BY <1>1 DEF Relisted, Pools
  <2> QED
    BY ONLY <1>e, <2>1
<1>4. /\ JobsInv(pool', worker) /\ Beside(pool, pool')
      /\ \A i \in Jobs \ {j} : pool'.jobs[i] = pool.jobs[i]
      /\ pool'.jobs[j] = FreeJob(pool.jobs[j].gen) /\ pool.jobs[j].pid = NoPid
      /\ pool'.queue = pool.queue
  BY ONLY <1>1, <1>3, <1>a, ReleaseDone
<1>5. F \subseteq Handles /\ \A h \in F : handles[h].occupied = 2 /\ handles[h].reaping
  <2>1. pool.jobs[j].handle \in 0 .. HandleCapacity
    BY <1>1, <1>2 DEF Pools, JobRecords
  <2>2. pool.jobs[j].handle # NoHandle => pool.jobs[j].handle \in Handles
    BY <2>1, HandleCapacityAssumption DEF Handles, NoHandle
  <2> QED
    BY <2>2 DEF ReapFrees
<1>6. handles' = Freed(handles, F)
  <2>1. CASE F = {}
    <3>1. handles' = handles
      BY <1>d, <2>1 DEF ReapFrees, ReapComplete
    <3> QED
      BY <1>1, <2>1, <3>1 DEF Freed
  <2>2. CASE F # {}
    <3> DEFINE h == pool.jobs[j].handle
    <3>1. /\ pool.jobs[j].state = "reap_completed" /\ h # NoHandle /\ handles[h].occupied = 2
          /\ handles[h].reaping /\ handles[h].gen = pool.jobs[j].hgen /\ F = {h}
      BY <2>2 DEF ReapFrees
    <3>2. handles' = [handles EXCEPT ![h] = FreeHandle(handles[h].gen)]
      BY ONLY <1>d, <3>1 DEF ReapComplete
    <3> HIDE DEF h, F
    <3> QED
      BY <1>1, <3>1, <3>2 DEF Freed
  <2> QED
    BY <2>1, <2>2
<1> HIDE DEF F
<1>7. Freeing(handles, proc, proc', F, {})
  BY <1>5, <1>c DEF Freeing, Reaps
<1>8. /\ pool'.watches = pool.watches /\ pool'.watching = pool.watching
      /\ pool'.stopping = pool.stopping /\ Watches(pool') = Watches(pool)
  BY <1>4 DEF Beside, Watches
<1>9. Unwatching(pool, pool', F)
  <2>1. \A w \in Watches(pool) : pool.watches[w].handle \notin F
    BY <1>1, <1>5 DEF Watching
  <2> QED
    BY <1>1, <1>8, <2>1 DEF Unwatching, Watching
<1>10. LateKept(pool, pool', handles, handles', F)
  <2> SUFFICES ASSUME NEW h \in Handles \ F, <<"handle", h>> \in Late(pool, handles)
               PROVE  <<"handle", h>> \in Late(pool', handles')
    BY DEF LateKept
  <2>1. handles'[h] = handles[h]
    BY <1>1, <1>5, <1>6, FreedFacts
  <2>2. WatchesOf(pool', handles'[h]) = WatchesOf(pool, handles[h])
    BY <1>8, <2>1 DEF WatchesOf
  <2> QED
    BY <1>8, <2>1, <2>2, LateAt
<1>11. \A i \in Jobs : pool'.jobs[i].pid = pool.jobs[i].pid
  <2>1. FreeJob(pool.jobs[j].gen).pid = NoPid
    BY DEF FreeJob
  <2> QED
    BY ONLY <1>4, <2>1
<1>12. live' = Cardinality(OpenHandles(handles) \ F)
  <2>1. OpenHandles(handles) \ F = OpenHandles(handles)
    BY <1>5 DEF OpenHandles
  <2> QED
    BY <1>1, <1>c, <2>1
<1>13. /\ handles' \in [Handles -> HandleRecords]
       /\ \A h \in Handles \ F : handles'[h] = handles[h]
       /\ \A h \in F : handles'[h].occupied = 0
  BY ONLY <1>1, <1>5, <1>6, FreedFacts
<1>14. Types'
  BY <1>1, <1>4, <1>13, <1>c DEF Types, JobsInv
<1>15. \A i \in Jobs : pool.jobs[i].state \in Pending => pool'.jobs[i] = pool.jobs[i]
  <2>1. pool.jobs[j].state \in {"start_completed", "reap_completed", "start_cancelled"}
    BY ONLY <1>1, <1>a, HeadDone
  <2>2. pool.jobs[j].state \notin Pending
    BY ONLY <1>a, <2>1 DEF Pending
  <2> QED
    BY ONLY <1>4, <2>2
<1>16. Reserved(pool', handles', regs', owner')
  <2>1. Reserved(pool', handles, regs, owner)
    BY <1>1, <1>15, <1>b, ReservedKept
  <2>2. \A h \in Handles : /\ Bare(handles[h]) => handles'[h].gen = handles[h].gen
                           /\ Bare(handles'[h]) <=> Bare(handles[h])
    BY <1>5, <1>13 DEF Bare
  <2>3. regs' = regs /\ owner' = owner /\ regs \in [Tasks -> RegRecords]
    BY ONLY <1>1, <1>c
  <2>4. Reserved(pool', handles', regs, owner)
    BY ONLY <2>1, <2>2, <2>3, ReservedHandles
  <2> QED
    BY ONLY <2>3, <2>4
<1>17. Parented(handles', child')
  <2>1. \A h \in Handles : Open(handles[h]) => Open(handles'[h]) /\ handles'[h].gen = handles[h].gen
    BY <1>5, <1>13 DEF Open
  <2> QED
    BY <1>1, <1>c, <2>1, ParentedKept
<1>18. Waking' /\ Closing'
  BY <1>1, <1>4, <1>8, <1>b, <1>c DEF Waking, WakeExact, WorkerAwake, Closing
<1>19. /\ nextGen' = nextGen /\ lost' = lost /\ ~stale' /\ JobsInv(pool', worker')
       /\ InHand(worker') = InHand(worker)
  BY <1>1, <1>4, <1>c
<1> QED
  BY ONLY PoolInv, <1>6, <1>7, <1>9, <1>10, <1>11, <1>12, <1>14, <1>16, <1>17, <1>18, <1>19, FreedStep

LEMMA DrainCompletionInv ==
    ASSUME PoolInv, DrainCompletion
    PROVE  PoolInv'
<1>1. CASE pool.done = <<>>
  BY <1>1, DrainEnds DEF DrainCompletion
<1>2. CASE pool.done # <<>>
  <2> DEFINE j == Head(pool.done)
  <2>1. owner.at = "drain" /\ owner' = owner
    BY <1>2 DEF DrainCompletion
  <2>2. UNCHANGED <<wake, pipe, worker, nextGen, live, child, proc, stale, lost>>
    BY DEF DrainCompletion
  <2>3. CASE pool.jobs[j].state = "start_completed"
    <3>1. /\ pool' = [[pool EXCEPT !.done = Tail(@)] EXCEPT !.jobs[j].state = "start_delivered"]
          /\ regs' = [t \in Tasks |->
                IF t \in Owners(j, pool.jobs[j].gen)
                THEN [regs[t] EXCEPT !.active = FALSE, !.ready = TRUE,
                        !.timer = IF @ = "armed" THEN "off" ELSE @]
                ELSE regs[t]]
          /\ ready' = ready \cup Owners(j, pool.jobs[j].gen)
          /\ UNCHANGED handles
      BY <1>2, <2>3 DEF DrainCompletion
    <3>2. pool' = [pool EXCEPT !.done = Tail(@), !.jobs[j].state = "start_delivered"]
      BY <3>1
    <3>3. Delivers(j)
      BY <1>2, <2>1, <2>2, <2>3, <3>1, <3>2 DEF Delivers
    <3> HIDE DEF j
    <3> QED
      BY <3>3, DrainDelivers
  <2>4. CASE pool.jobs[j].state # "start_completed"
    <3>1. /\ pool' = Release([pool EXCEPT !.done = Tail(@)], j)
          /\ handles' = IF pool.jobs[j].state = "reap_completed"
                        THEN ReapComplete(pool.jobs[j].handle, pool.jobs[j].hgen)
                        ELSE handles
          /\ UNCHANGED <<regs, ready>>
      BY <1>2, <2>4 DEF DrainCompletion
    <3>2. Releases(j)
      BY <1>2, <2>1, <2>2, <2>4, <3>1 DEF Releases
    <3> QED
      BY <3>2, DrainReleases
  <2> QED
    BY <2>3, <2>4
<1> QED
  BY <1>1, <1>2

-----------------------------------------------------------------------------
(* A watch that ends.                                                      *)

Dropped(p, w) == [p EXCEPT !.watches[w] = NoWatch, !.watching = Down(@)]

LEMMA DropWatch ==
    ASSUME NEW p, NEW k, JobsInv(p, k), NEW hs, NEW pr, Watching(p, hs, pr),
           NEW w \in Watches(p), NEW p2, p2 = Dropped(p, w)
    PROVE  /\ JobsInv(p2, k) /\ Unwatching(p, p2, {p.watches[w].handle})
           /\ Watches(p2) = Watches(p) \ {w}
           /\ \A v \in Handles \ {w} : p2.watches[v] = p.watches[v]
           /\ p2.jobs = p.jobs /\ p2.queue = p.queue /\ p2.done = p.done /\ p2.gen = p.gen
           /\ p2.active = p.active /\ p2.stopping = p.stopping
           /\ p2.watching = p.watching - 1 /\ p.watching > 0 /\ p2.watching \in Nat
<1> DEFINE ws == [p.watches EXCEPT ![w] = NoWatch]
           n == p.watching - 1
<1>1. p \in Pools /\ w \in Handles /\ p.watches \in [Handles -> WatchRecords]
  BY DEF JobsInv, Pools, Watches
<1>2. p.watching \in Nat /\ p.watching > 0
  BY WatchCount
<1>3. n \in Nat /\ Down(p.watching) = n
  BY <1>2 DEF Down
<1>4. NoWatch \in WatchRecords /\ ~NoWatch.active
  BY MaxStartsAssumption, HandleCapacityAssumption DEF NoWatch, WatchRecords, NoPid, NoHandle
<1>5. ws \in [Handles -> WatchRecords] /\ ws[w] = NoWatch /\ \A v \in Handles \ {w} : ws[v] = p.watches[v]
  BY <1>1, <1>4
<1>6. p2 = Rewatched(p, ws, n)
  BY <1>1, <1>3 DEF Rewatched, Pools, Dropped
<1> HIDE DEF ws, n
<1>7. /\ JobsInv(p2, k) /\ p2.watches = ws /\ p2.watching = n
      /\ p2.jobs = p.jobs /\ p2.queue = p.queue /\ p2.done = p.done /\ p2.gen = p.gen
      /\ p2.active = p.active /\ p2.stopping = p.stopping
  <2>1. JobsInv(p, k)
    OBVIOUS
  <2> QED
    BY ONLY <1>3, <1>5, <1>6, <2>1, RewatchedFacts
<1>8. Watches(p2) = Watches(p) \ {w} /\ \A v \in Handles \ {w} : p2.watches[v] = p.watches[v]
  BY <1>4, <1>5, <1>7 DEF Watches
<1>9. p2.watching = Cardinality(Watches(p2))
  <2>1. Watches(p) \in SUBSET Handles
    BY DEF Watches
  <2>2. Cardinality(Watches(p) \ {w}) = Cardinality(Watches(p)) - 1
    BY <2>1, <1>1, FiniteTables, CountOne
  <2>3. p.watching = Cardinality(Watches(p))
    BY DEF Watching
  <2> QED
    BY ONLY <1>7, <1>8, <2>2, <2>3 DEF n
<1>10. Unwatching(p, p2, {p.watches[w].handle})
  <2>1. \A v \in Watches(p2) : v \in Watches(p) /\ v # w /\ v \in Handles
    BY <1>8 DEF Watches
  <2>2. \A v \in Watches(p2) : p.watches[v].handle # p.watches[w].handle
    BY <2>1 DEF Watching
  <2> QED
    BY <1>8, <1>9, <2>1, <2>2 DEF Unwatching
<1> QED
  BY <1>2, <1>3, <1>7, <1>8, <1>10 DEF n

\* The watches of the handles not in F stay.
Keeping(p, p2, F) ==
    \A w \in Watches(p) : p.watches[w].handle \notin F =>
        w \in Watches(p2) /\ p2.watches[w] = p.watches[w]

\* The handles not in F stay.
Unchanged(hs, hs2, F) == \A h \in Handles \ F : hs2[h] = hs[h]

LEMMA LateOthers ==
    ASSUME NEW p, NEW p2, NEW hs, NEW hs2, NEW pr, Watching(p, hs, pr), Handled(hs),
           NEW F, Keeping(p, p2, F), Unchanged(hs, hs2, F)
    PROVE  LateKept(p, p2, hs, hs2, F)
<1> SUFFICES ASSUME NEW h \in Handles \ F, <<"handle", h>> \in Late(p, hs)
             PROVE  <<"handle", h>> \in Late(p2, hs2)
  BY DEF LateKept
<1>1. PICK w \in Watches(p) : p.watches[w].handle = h /\ p.watches[w].completed
  BY LateWatch
<1>2. w \in Watches(p2) /\ p2.watches[w] = p.watches[w]
  BY <1>1 DEF Keeping
<1>3. /\ hs[h].pid = p.watches[w].pid /\ hs[h].gen = p.watches[w].hgen
      /\ hs[h].source = "worker"
  BY <1>1 DEF Watching
<1>4. hs2[h] = hs[h]
  BY DEF Unchanged
<1>5. w \in WatchesOf(p2, hs2[h])
  BY <1>2, <1>3, <1>4 DEF WatchesOf, Watches
<1> QED
  BY <1>1, <1>2, <1>3, <1>4, <1>5, LateAt

LEMMA WatchingDrop ==
    ASSUME NEW p, NEW p2, NEW hs, NEW hs2, NEW pr, Watching(p, hs, pr), NEW F,
           Unwatching(p, p2, F), Unchanged(hs, hs2, F)
    PROVE  Watching(p2, hs2, pr)
<1>1. \A w \in Watches(p2) : /\ w \in Watches(p) /\ p2.watches[w] = p.watches[w]
                             /\ p.watches[w].handle \in Handles
                             /\ hs2[p.watches[w].handle] = hs[p.watches[w].handle]
  BY DEF Unwatching, Unchanged, Watching
<1>2. p2.watching = Cardinality(Watches(p2))
  BY DEF Unwatching
<1> QED
  BY <1>1, <1>2 DEF Watching

\* The owner learns that the children of T were waited for.
Told(hs, hs2, pr, T) ==
    /\ \A h \in Handles : hs2[h].pid = hs[h].pid
    /\ \A h \in T : pr[hs[h].pid] = "reaped" /\ ~Reaps(hs2[h])
    /\ \A h \in Handles \ T : (Reaps(hs2[h]) <=> Reaps(hs[h])) /\ (hs2[h].exited => hs[h].exited)

LEMMA ChildrenTold ==
    ASSUME NEW p \in Pools, NEW p2, NEW hs \in [Handles -> HandleRecords], NEW hs2,
           NEW k \in Workers, NEW k2, NEW pr, NEW lo \in SUBSET Pids,
           Children(p, hs, k, pr, lo), \A j \in Jobs : p2.jobs[j].pid = p.jobs[j].pid,
           InHand(k2) = InHand(k), NEW T \in SUBSET Handles, Told(hs, hs2, pr, T),
           LateKept(p, p2, hs, hs2, T)
    PROVE  Children(p2, hs2, k2, pr, lo)
<1> DEFINE d == Hold(p, hs, k)
           d2 == Hold(p2, hs2, k2)
           U == Late(p, hs)
           U2 == Late(p2, hs2)
<1>1. Custody(d, pr, lo, U)
  BY DEF Children
<1>2. \A r \in Holders : d[r] \in 0 .. MaxStarts
  BY HoldType
<1>3. /\ \A h \in Handles : hs2[h].pid = hs[h].pid
      /\ \A h \in T : pr[hs[h].pid] = "reaped" /\ ~Reaps(hs2[h])
      /\ \A h \in Handles \ T : /\ Reaps(hs2[h]) <=> Reaps(hs[h])
                                /\ hs2[h].exited => hs[h].exited
  BY DEF Told
<1>4. /\ \A j \in Jobs : d2[<<"job", j>>] = d[<<"job", j>>] /\ <<"job", j>> \notin U
      /\ d2[<<"worker", 0>>] = d[<<"worker", 0>>] /\ <<"worker", 0>> \notin U
      /\ \A h \in Handles \ T : d2[<<"handle", h>>] = d[<<"handle", h>>]
      /\ \A h \in T : /\ d2[<<"handle", h>>] = NoPid
                      /\ d[<<"handle", h>>] # NoPid => pr[d[<<"handle", h>>]] = "reaped"
  BY <1>3, HoldAt, LateAt
<1>5. \A h \in Handles \ T : <<"handle", h>> \in U => <<"handle", h>> \in U2
  BY DEF LateKept
<1> HIDE DEF d, d2, U, U2
<1>6. ASSUME NEW r \in Holders
      PROVE  \/ /\ d2[r] = d[r]
                /\ d[r] # NoPid => /\ d[r] \notin lo
                                   /\ pr[d[r]] \in Alive \/ (pr[d[r]] = "reaped" /\ r \in U2)
             \/ /\ d2[r] = NoPid
                /\ d[r] # NoPid => pr[d[r]] \notin Alive \/ d[r] \in lo
  <2>1. CASE \E h \in T : r = <<"handle", h>>
    BY <1>4, <2>1 DEF Alive
  <2>2. CASE ~ \E h \in T : r = <<"handle", h>>
    <3>1. d2[r] = d[r] /\ (r \in U => r \in U2)
      BY <1>4, <1>5, <2>2, HolderKinds
    <3> QED
      BY <1>1, <3>1 DEF Custody
  <2> QED
    BY <2>1, <2>2
<1>7. \A x \in Pids : x \in lo => pr[x] # "unused"
  BY <1>1 DEF Custody
<1>8. Custody(d2, pr, lo, U2)
  BY <1>1, <1>2, <1>6, <1>7, CustodyShrinks
<1>9. \A h \in Handles : hs2[h].exited => pr[hs2[h].pid] = "reaped"
  BY <1>3 DEF Children
<1> QED
  BY <1>8, <1>9 DEF Children, d2, U2

LEMMA WatchesEnd ==
    ASSUME PoolInv, owner.at = "watches", Completed = {}, owner' = [owner EXCEPT !.at = "rearm"],
           UNCHANGED <<pool, handles, wake, pipe, worker, nextGen, live, regs, child, ready,
                       proc, stale, lost>>
    PROVE  PoolInv'
<1>1. /\ Types /\ Reserved(pool, handles, regs, owner) /\ Parented(handles, child)
      /\ Waking /\ Closing /\ regs \in [Tasks -> RegRecords]
  BY DEF PoolInv, Types
<1>2. owner'.at = "rearm"
  BY <1>1 DEF Types
<1>3. Types'
  BY <1>1 DEF Types
<1>4. Reserved(pool, handles, regs, owner')
  BY <1>1, <1>2, ReservedKept
<1>5. Waking' /\ Closing'
  BY <1>1, <1>2 DEF Waking, Closing, WakeExact, WorkerAwake, Announced, Completed
<1> QED
  BY <1>1, <1>3, <1>4, <1>5, SamePool, SameProc, QuietStep

\* The exit of the child of handle h is noted.
Noted(hs, h) == [hs EXCEPT ![h].exited = TRUE]

LEMMA ExitNoted ==
    ASSUME NEW hs \in [Handles -> HandleRecords], NEW h \in Handles, Open(hs[h]),
           NEW hs2, hs2 = Noted(hs, h), Handled(hs)
    PROVE  /\ hs2 \in [Handles -> HandleRecords] /\ Unchanged(hs, hs2, {h})
           /\ hs2[h].exited /\ ~Reaps(hs2[h])
           /\ \A g \in Handles : /\ hs2[g].pid = hs[g].pid
                                 /\ g # h => hs2[g] = hs[g]
           /\ Handled(hs2) /\ \A n : Numbered(hs, n) => Numbered(hs2, n)
           /\ SameUse(hs, hs2) /\ OpenHandles(hs2) = OpenHandles(hs)
<1>1. /\ hs2[h] = [hs[h] EXCEPT !.exited = TRUE]
      /\ \A g \in Handles \ {h} : hs2[g] = hs[g]
      /\ hs2 \in [Handles -> HandleRecords]
  <2>1. [hs[h] EXCEPT !.exited = TRUE] \in HandleRecords
    BY DEF HandleRecords
  <2> QED
    BY <2>1 DEF Noted
<1>2. /\ hs2[h].exited /\ hs2[h].occupied = 1 /\ hs2[h].pid = hs[h].pid /\ hs[h].pid # NoPid
      /\ hs2[h].gen = hs[h].gen /\ hs2[h].reaping = hs[h].reaping
      /\ hs2[h].source = hs[h].source /\ hs[h].occupied = 1
  BY <1>1 DEF HandleRecords, Open
<1>3. \A g \in Handles : /\ hs2[g].gen = hs[g].gen
                         /\ hs2[g].occupied = hs[g].occupied
                         /\ hs2[g].pid = hs[g].pid
                         /\ hs2[g].source = hs[g].source
                         /\ hs2[g].reaping = hs[g].reaping
                         /\ g # h => hs2[g] = hs[g]
  BY <1>1, <1>2
<1>4. Handled(hs2)
  BY ONLY <1>2, <1>3, Handled(hs) DEF Handled
<1>5. \A n : Numbered(hs, n) => Numbered(hs2, n)
  BY <1>3 DEF Numbered
<1>6. SameUse(hs, hs2)
  BY <1>3 DEF SameUse, Bare, Open
<1>7. OpenHandles(hs2) = OpenHandles(hs)
  BY <1>3 DEF OpenHandles
<1>8. Unchanged(hs, hs2, {h}) /\ ~Reaps(hs2[h])
  BY <1>1, <1>2 DEF Unchanged, Reaps
<1> QED
  BY <1>1, <1>2, <1>3, <1>4, <1>5, <1>6, <1>7, <1>8

LEMMA WatchDelivered ==
    ASSUME PoolInv, owner.at = "watches", NEW w \in Completed,
           pool' = [pool EXCEPT !.watches[w] = NoWatch, !.watching = Down(@)],
           NEW h, h = pool.watches[w].handle, handles' = [handles EXCEPT ![h].exited = TRUE],
           UNCHANGED <<owner, wake, pipe, worker, nextGen, live, regs, child, ready, proc,
                       stale, lost>>
    PROVE  PoolInv'
<1>1. /\ Types /\ Reserved(pool, handles, regs, owner) /\ Parented(handles, child)
      /\ Waking /\ Closing /\ regs \in [Tasks -> RegRecords] /\ Handled(handles)
      /\ pool \in Pools /\ worker \in Workers /\ JobsInv(pool, worker) /\ lost \in SUBSET Pids
      /\ handles \in [Handles -> HandleRecords] /\ Watching(pool, handles, proc)
      /\ Children(pool, handles, worker, proc, lost) /\ Numbered(handles, nextGen)
      /\ live = Cardinality(OpenHandles(handles)) /\ ~stale
  BY DEF PoolInv, Types
<1>2. w \in Watches(pool) /\ pool.watches[w].completed
  BY DEF Completed, Watches
<1>3. /\ JobsInv(pool', worker) /\ Unwatching(pool, pool', {h})
      /\ Watches(pool') = Watches(pool) \ {w}
      /\ \A v \in Handles \ {w} : pool'.watches[v] = pool.watches[v]
      /\ pool'.jobs = pool.jobs /\ pool'.queue = pool.queue /\ pool'.done = pool.done
      /\ pool'.stopping = pool.stopping
      /\ pool'.watching = pool.watching - 1 /\ pool.watching > 0
  <2>1. pool' = Dropped(pool, w)
    BY DEF Dropped
  <2>2. JobsInv(pool, worker) /\ Watching(pool, handles, proc)
    BY <1>1
  <2> QED
    BY ONLY <1>2, <2>1, <2>2, DropWatch, h = pool.watches[w].handle
<1>4. /\ h \in Handles /\ handles[h].occupied = 1 /\ handles[h].pid # NoPid
      /\ proc[handles[h].pid] = "reaped"
  BY <1>1, <1>2 DEF Watching
<1>5. /\ handles' \in [Handles -> HandleRecords] /\ Unchanged(handles, handles', {h})
      /\ ~Reaps(handles'[h])
      /\ \A g \in Handles : handles'[g].pid = handles[g].pid /\ (g # h => handles'[g] = handles[g])
      /\ Handled(handles') /\ Numbered(handles', nextGen)
      /\ Reserved(pool, handles', regs, owner) /\ Parented(handles', child)
      /\ OpenHandles(handles') = OpenHandles(handles)
  <2>1. Open(handles[h])
    BY <1>4 DEF Open
  <2> QED
    <3>1. handles' = Noted(handles, h)
      BY DEF Noted
    <3>2. handles \in [Handles -> HandleRecords] /\ Handled(handles) /\ h \in Handles
      BY <1>1, <1>4
    <3>3. /\ handles' \in [Handles -> HandleRecords] /\ Unchanged(handles, handles', {h})
          /\ ~Reaps(handles'[h])
          /\ \A g \in Handles : handles'[g].pid = handles[g].pid /\ (g # h => handles'[g] = handles[g])
          /\ Handled(handles') /\ \A n : Numbered(handles, n) => Numbered(handles', n)
          /\ SameUse(handles, handles') /\ OpenHandles(handles') = OpenHandles(handles)
      BY ONLY <2>1, <3>1, <3>2, ExitNoted
    <3>4. Reserved(pool, handles', regs, owner) /\ Parented(handles', child)
      BY ONLY <1>1, <3>3, SameUseKept
    <3> QED
      BY ONLY <1>1, <3>3, <3>4
<1>6. Keeping(pool, pool', {h})
  <2>1. \A v \in Watches(pool) : v \in Handles
    BY DEF Watches
  <2> QED
    BY <1>3, <2>1 DEF Keeping
<1>7. LateKept(pool, pool', handles, handles', {h})
  BY ONLY <1>1, <1>5, <1>6, LateOthers
<1>8. Watching(pool', handles', proc)
  BY ONLY <1>1, <1>3, <1>5, WatchingDrop
<1>9. Told(handles, handles', proc, {h})
  BY <1>4, <1>5 DEF Told
<1>10. Children(pool', handles', worker, proc, lost)
  <2>1. {h} \in SUBSET Handles /\ \A j \in Jobs : pool'.jobs[j].pid = pool.jobs[j].pid
    BY <1>3, <1>4
  <2> QED
    BY ONLY <1>1, <1>7, <1>9, <2>1, ChildrenTold
<1>11. Reserved(pool', handles', regs, owner)
  <2>1. pool'.jobs = pool.jobs /\ Reserved(pool, handles', regs, owner) /\ regs \in [Tasks -> RegRecords]
    BY <1>1, <1>3, <1>5
  <2> QED
    BY ONLY <2>1, ReservedKept
<1>12. Types'
  BY <1>1, <1>3, <1>5 DEF Types, JobsInv
<1>13. Waking'
  <2>1. pool'.watching \in Nat /\ pool.watching \in Nat
    BY <1>1, <1>3 DEF JobsInv, Pools
  <2>2. WorkerAwake'
    BY <1>1, <1>3, <2>1 DEF Waking, WorkerAwake
  <2> QED
    BY <1>1, <1>3, <2>2 DEF Waking, WakeExact, Announced
<1>14. Closing'
  BY DEF Closing
<1> QED
  BY <1>1, <1>3, <1>5, <1>8, <1>10, <1>11, <1>12, <1>13, <1>14 DEF PoolInv

LEMMA DeliverWatchInv ==
    ASSUME PoolInv, DeliverWatch
    PROVE  PoolInv'
<1>1. CASE Completed = {}
  <2>1. /\ owner.at = "watches" /\ owner' = [owner EXCEPT !.at = "rearm"]
        /\ UNCHANGED <<pool, handles, wake, pipe, worker, nextGen, live, regs, child, ready,
                       proc, stale, lost>>
    BY <1>1 DEF DeliverWatch
  <2> QED
    BY <2>1, <1>1, WatchesEnd
<1>2. CASE Completed # {}
  <2> DEFINE w == First(Completed)
             watch == pool.watches[w]
             s == handles[watch.handle]
  <2>1. /\ owner.at = "watches"
        /\ pool' = [pool EXCEPT !.watches[w] = NoWatch, !.watching = Down(@)]
        /\ handles' = IF s.occupied = 1 /\ s.gen = watch.hgen
                            /\ s.pid = watch.pid /\ s.source = "worker"
                      THEN [handles EXCEPT ![watch.handle].exited = TRUE]
                      ELSE handles
        /\ UNCHANGED <<owner, wake, pipe, worker, nextGen, live, regs, child, ready, proc,
                       stale, lost>>
    BY <1>2 DEF DeliverWatch
  <2>2. w \in Completed
    <3>1. Completed \in SUBSET Nat
      BY HandleCapacityAssumption DEF Completed, Handles
    <3> QED
      BY ONLY <1>2, <3>1, FirstIn
  <2> HIDE DEF w
  <2>3. s.occupied = 1 /\ s.gen = watch.hgen /\ s.pid = watch.pid /\ s.source = "worker"
    BY <2>2 DEF PoolInv, Watching, Completed, Watches
  <2>4. handles' = [handles EXCEPT ![watch.handle].exited = TRUE]
    BY <2>1, <2>3
  <2> HIDE DEF s
  <2> DEFINE h == watch.handle
  <2>5. h = pool.watches[w].handle /\ handles' = [handles EXCEPT ![h].exited = TRUE]
    BY <2>4
  <2> HIDE DEF h
  <2> QED
    BY ONLY PoolInv, <2>1, <2>2, <2>5, WatchDelivered
<1> QED
  BY <1>1, <1>2

-----------------------------------------------------------------------------
(* The owner waits for a child itself.                                     *)

\* The child that a handle is to wait for, and that the worker has not waited for.
LEMMA HandleAlive ==
    ASSUME NEW p \in Pools, NEW hs \in [Handles -> HandleRecords], NEW k \in Workers, NEW pr,
           NEW lo \in SUBSET Pids, Children(p, hs, k, pr, lo), NEW h \in Handles, Reaps(hs[h]),
           hs[h].pid # NoPid, <<"handle", h>> \notin Late(p, hs)
    PROVE  /\ hs[h].pid \in Pids /\ pr[hs[h].pid] \in Alive /\ hs[h].pid \notin lo
           /\ <<"handle", h>> \in Holders /\ Hold(p, hs, k)[<<"handle", h>>] = hs[h].pid
<1>1. <<"handle", h>> \in Holders /\ Hold(p, hs, k)[<<"handle", h>>] = hs[h].pid
  BY HoldAt, HolderKinds
<1>2. hs[h].pid \in 0 .. MaxStarts
  BY DEF HandleRecords
<1>3. hs[h].pid \in Pids
  BY <1>2, MaxStartsAssumption DEF Pids, NoPid
<1> QED
  BY <1>1, <1>3 DEF Children, Custody

\* A watch of another handle is of another child.
LEMMA OtherChild ==
    ASSUME NEW p \in Pools, NEW hs \in [Handles -> HandleRecords], NEW k \in Workers,
           NEW pr, NEW lo \in SUBSET Pids, Watching(p, hs, pr), Handled(hs),
           Children(p, hs, k, pr, lo), NEW w \in Watches(p), NEW r \in Holders,
           r # <<"handle", p.watches[w].handle>>
    PROVE  Hold(p, hs, k)[r] # p.watches[w].pid /\ p.watches[w].pid \in Pids
<1> DEFINE d == Hold(p, hs, k)
           v == p.watches[w]
<1>1. /\ <<"handle", v.handle>> \in Holders /\ d[<<"handle", v.handle>>] = v.pid
      /\ v.pid # NoPid /\ v.pid \in Pids
  BY WatchHold
<1>2. \A q, s \in Holders : d[q] # NoPid /\ d[q] = d[s] => q = s
  BY DEF Children, Custody
<1> HIDE DEF d, v
<1>3. d[r] # v.pid
  BY <1>1, <1>2 DEF v
<1> QED
  BY <1>1, <1>3 DEF d, v

LEMMA ChildrenNoted ==
    ASSUME NEW p \in Pools, NEW hs \in [Handles -> HandleRecords], NEW hs2, NEW k \in Workers,
           NEW pr, NEW pr2, NEW lo \in SUBSET Pids, Watching(p, hs, pr), Handled(hs),
           Children(p, hs, k, pr, lo), NEW h \in Handles, Reaps(hs[h]), hs[h].pid # NoPid,
           \A w \in Watches(p) : p.watches[w].handle # h, <<"handle", h>> \notin Late(p, hs),
           Unchanged(hs, hs2, {h}), ~Reaps(hs2[h]), hs2[h].pid = hs[h].pid,
           pr2 = [x \in Pids |-> IF x = hs[h].pid THEN "reaped" ELSE pr[x]]
    PROVE  Children(p, hs2, k, pr2, lo) /\ Watching(p, hs2, pr2)
<1> DEFINE d == Hold(p, hs, k)
           d2 == Hold(p, hs2, k)
           U == Late(p, hs)
           U2 == Late(p, hs2)
           b == <<"handle", h>>
           pid == hs[h].pid
<1>1. pid \in Pids /\ pid \notin lo /\ b \in Holders /\ d[b] = pid
  BY HandleAlive
<1>2. Custody(d, pr, lo, U)
  BY DEF Children
<1>3. \A r \in Holders : d[r] \in 0 .. MaxStarts
  BY HoldType
<1>4. \A g \in Handles \ {h} : hs2[g] = hs[g]
  BY DEF Unchanged
<1>5. Keeping(p, p, {h}) /\ Unwatching(p, p, {h})
  BY DEF Keeping, Unwatching, Watching
<1>6. LateKept(p, p, hs, hs2, {h})
  BY <1>5, LateOthers
<1>7. \A r \in Holders : r # b => d2[r] = d[r] /\ (r \in U => r \in U2)
  <2>1. ASSUME NEW g \in Handles \ {h} PROVE d2[<<"handle", g>>] = d[<<"handle", g>>]
    BY <1>4, HoldAt
  <2>2. \A g \in Handles \ {h} : <<"handle", g>> \in U => <<"handle", g>> \in U2
    BY <1>6 DEF LateKept
  <2>3. ASSUME NEW j \in Jobs PROVE d2[<<"job", j>>] = d[<<"job", j>>] /\ <<"job", j>> \notin U
    BY HoldAt, LateAt
  <2>4. d2[<<"worker", 0>>] = d[<<"worker", 0>>] /\ <<"worker", 0>> \notin U
    BY HoldAt, LateAt
  <2> HIDE DEF d, d2, U, U2
  <2> QED
    BY <2>1, <2>2, <2>3, <2>4, HolderKinds
<1>8. d2[b] = NoPid
  BY HoldAt
<1>9. /\ pr2[pid] = "reaped" /\ \A x \in Pids : x # pid => pr2[x] = pr[x]
  BY <1>1
<1> HIDE DEF d, d2, U, U2, b, pid
<1>10. \A r \in Holders : d[r] # NoPid => d[r] \in Pids
  BY <1>3, MaxStartsAssumption DEF Pids, NoPid
<1>11. \A r \in Holders : d[r] # NoPid /\ r # b => d[r] # pid
  BY <1>1, <1>2 DEF Custody
<1>12. \A x \in Pids : /\ pr2[x] \in Alive => pr[x] \in Alive
                       /\ x \in lo => pr2[x] # "unused"
  BY <1>2, <1>9 DEF Custody, Alive
<1>13. ASSUME NEW r \in Holders
       PROVE  \/ /\ d2[r] = d[r]
                 /\ d[r] # NoPid => /\ d[r] \notin lo
                                    /\ pr2[d[r]] \in Alive \/ (pr2[d[r]] = "reaped" /\ r \in U2)
              \/ /\ d2[r] = NoPid
                 /\ d[r] # NoPid => pr2[d[r]] \notin Alive \/ d[r] \in lo
  <2>1. CASE r = b
    BY <1>1, <1>8, <1>9, <2>1 DEF Alive
  <2>2. CASE r # b
    BY <1>2, <1>7, <1>9, <1>10, <1>11, <2>2 DEF Custody
  <2> QED
    BY <2>1, <2>2
<1>14. Custody(d2, pr2, lo, U2)
  BY <1>2, <1>3, <1>12, <1>13, CustodyShrinks
<1>15. ASSUME NEW g \in Handles, hs2[g].exited PROVE pr2[hs2[g].pid] = "reaped"
  <2>1. CASE g = h
    BY <1>9, <2>1 DEF pid
  <2>2. CASE g # h
    <3>1. hs[g].exited /\ hs2[g].pid = hs[g].pid
      BY <1>4, <1>15, <2>2
    <3>2. pr[hs[g].pid] = "reaped" /\ hs[g].pid \in 0 .. MaxStarts /\ hs[g].pid # NoPid
      BY <3>1 DEF Children, HandleRecords, Handled
    <3>3. hs[g].pid \in Pids
      BY <3>2, MaxStartsAssumption DEF NoPid, Pids
    <3> QED
      BY <1>9, <3>1, <3>2, <3>3
  <2> QED
    BY <2>1, <2>2
<1>16. Watching(p, hs2, pr)
  BY <1>5, WatchingDrop
<1>17. ASSUME NEW w \in Watches(p) PROVE pr2[p.watches[w].pid] = pr[p.watches[w].pid]
  <2>1. b # <<"handle", p.watches[w].handle>>
    BY DEF b
  <2>2. d[b] # p.watches[w].pid /\ p.watches[w].pid \in Pids
    BY <1>1, <2>1, OtherChild DEF d
  <2> QED
    BY <1>1, <1>9, <2>2
<1>18. Watching(p, hs2, pr2)
  BY <1>16, <1>17 DEF Watching
<1> QED
  BY <1>14, <1>15, <1>18 DEF Children, d2, U2

LEMMA ObserveExitInv ==
    ASSUME PoolInv, NEW t \in Tasks, ObserveExit(t)
    PROVE  PoolInv'
<1> DEFINE h == child[t].handle
           pid == handles[h].pid
<1>1. /\ owner.at = "frames" /\ child[t] # NoChild
      /\ handles[h].occupied = 1 /\ pid # NoPid
      /\ ~handles[h].exited /\ handles[h].source = "reactor"
      /\ handles' = [handles EXCEPT ![h].exited = TRUE]
      /\ proc' = Reaped({pid})
      /\ stale' = (stale \/ Gone(pid))
      /\ UNCHANGED <<pool, wake, pipe, worker, owner, nextGen, live, regs, child, ready, lost>>
  BY DEF ObserveExit, Found, UpdatesExit
<1>2. /\ Types /\ Reserved(pool, handles, regs, owner) /\ Parented(handles, child)
      /\ Waking /\ Closing /\ regs \in [Tasks -> RegRecords] /\ Handled(handles)
      /\ pool \in Pools /\ worker \in Workers /\ JobsInv(pool, worker) /\ lost \in SUBSET Pids
      /\ handles \in [Handles -> HandleRecords] /\ Watching(pool, handles, proc)
      /\ Children(pool, handles, worker, proc, lost) /\ Numbered(handles, nextGen)
      /\ live = Cardinality(OpenHandles(handles)) /\ ~stale
      /\ proc \in [Pids -> {"unused", "running", "zombie", "reaped"}]
  BY DEF PoolInv, Types
<1>3. h \in Handles
  BY <1>1, <1>2 DEF Parented
<1>4. Reaps(handles[h]) /\ Open(handles[h])
  BY <1>1, <1>2, <1>3 DEF Reaps, Handled, Open
<1>5. <<"handle", h>> \notin Late(pool, handles)
  BY <1>1, <1>3, LateAt
<1>6. \A w \in Watches(pool) : pool.watches[w].handle # h
  BY <1>1, <1>2 DEF Watching
<1>7. proc' = [x \in Pids |-> IF x = handles[h].pid THEN "reaped" ELSE proc[x]]
  BY <1>1 DEF Reaped
<1>8. handles' = Noted(handles, h)
  BY <1>1 DEF Noted
<1> HIDE DEF h
<1>9. /\ handles' \in [Handles -> HandleRecords] /\ Unchanged(handles, handles', {h})
      /\ ~Reaps(handles'[h]) /\ handles'[h].pid = handles[h].pid
      /\ Handled(handles') /\ \A n : Numbered(handles, n) => Numbered(handles', n)
      /\ SameUse(handles, handles') /\ OpenHandles(handles') = OpenHandles(handles)
  <2>1. handles \in [Handles -> HandleRecords] /\ Handled(handles)
    BY <1>2
  <2> QED
    BY ONLY <1>3, <1>4, <1>8, <2>1, ExitNoted
<1>10. Children(pool, handles', worker, proc', lost) /\ Watching(pool, handles', proc')
  <2>1. handles[h].pid # NoPid
    BY <1>1
  <2>2. /\ pool \in Pools /\ handles \in [Handles -> HandleRecords] /\ worker \in Workers
        /\ lost \in SUBSET Pids /\ Watching(pool, handles, proc) /\ Handled(handles)
        /\ Children(pool, handles, worker, proc, lost)
    BY <1>2
  <2>3. Unchanged(handles, handles', {h}) /\ ~Reaps(handles'[h]) /\ handles'[h].pid = handles[h].pid
    BY <1>9
  <2> QED
    BY ONLY <1>3, <1>4, <1>5, <1>6, <1>7, <2>1, <2>2, <2>3, ChildrenNoted
<1>11. ~stale'
  <2>1. proc[pid] \in Alive
    BY ONLY <1>1, <1>2, <1>3, <1>4, <1>5, HandleAlive
  <2> QED
    BY <1>1, <1>2, <2>1 DEF Gone, Alive
<1>12. Reserved(pool, handles', regs, owner) /\ Parented(handles', child)
  BY ONLY <1>2, <1>9, SameUseKept
<1>13. Types'
  <2>1. proc' \in [Pids -> {"unused", "running", "zombie", "reaped"}]
    BY <1>2, <1>7
  <2> QED
    BY <1>1, <1>2, <1>9, <2>1 DEF Types
<1>14. Waking'
  BY <1>1, <1>2 DEF Waking, WakeExact, WorkerAwake, Completed, Announced
<1>15. Closing'
  BY <1>1 DEF Closing
<1> QED
  BY <1>1, <1>2, <1>9, <1>10, <1>11, <1>12, <1>13, <1>14, <1>15 DEF PoolInv

-----------------------------------------------------------------------------
(* The shutdown.                                                           *)

\* The pool without watches, told to stop.
Stopped(p, ws) == [p EXCEPT !.watches = ws, !.watching = 0, !.stopping = TRUE]

LEMMA StoppedFacts ==
    ASSUME NEW p, NEW k, JobsInv(p, k), NEW ws \in [Handles -> WatchRecords]
    PROVE  LET p2 == Stopped(p, ws) IN
           /\ JobsInv(p2, k) /\ p2.watches = ws /\ p2.watching = 0 /\ p2.stopping
           /\ p2.jobs = p.jobs /\ p2.queue = p.queue /\ p2.done = p.done
<1> DEFINE p2 == Stopped(p, ws)
<1>1. p \in Pools
  BY DEF JobsInv
<1>2. p2 \in Pools
  BY <1>1 DEF Pools, Stopped
<1>3. /\ p2.watches = ws /\ p2.watching = 0 /\ p2.stopping
      /\ p2.jobs = p.jobs /\ p2.queue = p.queue /\ p2.done = p.done /\ p2.gen = p.gen
      /\ p2.active = p.active /\ p2.starts = p.starts
  BY <1>1 DEF Pools, Stopped
<1> HIDE DEF p2
<1>4. JobsInv(p2, k)
  BY <1>2, <1>3 DEF JobsInv, Placed, Loaded, AtWork, BusyJobs, StartJobs
<1> QED
  BY <1>3, <1>4 DEF p2

\* The worker may be signalled, in any step of the owner.
LEMMA SignalledJobs ==
    ASSUME NEW p, JobsInv(p, worker), worker' \in {worker, Signalled}
    PROVE  /\ JobsInv(p, worker') /\ worker' \in Workers /\ InHand(worker') = InHand(worker)
           /\ worker'.pc = "waiting" => worker' = worker
           /\ worker'.pc \in {"signal", "cleanup"} <=> worker.pc \in {"signal", "cleanup"}
           /\ worker'.pc = "none" => worker.pc = "none"
<1>1. worker \in Workers
  BY DEF JobsInv
<1>2. /\ Signalled \in Workers /\ Signalled.pid = worker.pid
      /\ Signalled = worker \/ /\ worker.pc \in {"none", "waiting", "polling"}
                               /\ Signalled.pc \in {"top", "woken"}
      /\ Signalled.pc # "waiting" /\ Signalled.pc # "none"
  BY <1>1, SignalledFacts
<1>3. CASE worker' = worker
  BY <1>1, <1>3
<1>4. CASE worker' # worker
  <2>1. /\ worker' \in Workers /\ worker.pc \in {"none", "waiting", "polling"}
        /\ worker'.pc \in {"top", "woken"} /\ worker'.pid = worker.pid
    BY <1>2, <1>4
  <2>2. JobsInv(p, worker')
    BY <2>1, OtherWorker
  <2> QED
    BY <2>1, <2>2 DEF InHand
<1> QED
  BY <1>3, <1>4

\* What the shutdown does to a handle that the worker watches.
StoppedHandles(hs, seen) ==
    [h \in Handles |->
        IF h \in seen THEN [hs[h] EXCEPT !.exited = TRUE]
        ELSE IF h \in {g \in Handles : hs[g].occupied # 0 /\ hs[g].source = "worker"}
        THEN [hs[h] EXCEPT !.source = "none"] ELSE hs[h]]

LEMMA StoppedHandlesFacts ==
    ASSUME NEW hs \in [Handles -> HandleRecords], NEW seen \in SUBSET Handles, Handled(hs),
           \A h \in seen : Open(hs[h])
    PROVE  LET hs2 == StoppedHandles(hs, seen) IN
           /\ hs2 \in [Handles -> HandleRecords] /\ Handled(hs2)
           /\ \A h \in Handles : hs2[h].pid = hs[h].pid
           /\ \A h \in seen : ~Reaps(hs2[h])
           /\ \A h \in Handles \ seen : (Reaps(hs2[h]) <=> Reaps(hs[h])) /\ (hs2[h].exited => hs[h].exited)
           /\ \A n : Numbered(hs, n) => Numbered(hs2, n)
           /\ OpenHandles(hs2) = OpenHandles(hs)
<1> DEFINE hs2 == StoppedHandles(hs, seen)
<1>1. ASSUME NEW h \in Handles
      PROVE  /\ hs2[h] \in HandleRecords
             /\ hs2[h].pid = hs[h].pid /\ hs2[h].gen = hs[h].gen
             /\ hs2[h].occupied = hs[h].occupied /\ hs2[h].reaping = hs[h].reaping
             /\ hs2[h].exited <=> hs[h].exited \/ h \in seen
             /\ hs2[h].source \in {hs[h].source, "none"}
  <2>1. hs[h] \in HandleRecords
    OBVIOUS
  <2>2. CASE h \in seen
    <3>1. hs2[h] = [hs[h] EXCEPT !.exited = TRUE]
      BY <2>2 DEF StoppedHandles
    <3> HIDE DEF hs2
    <3> QED
      BY <2>1, <2>2, <3>1 DEF HandleRecords
  <2>3. CASE h \notin seen /\ hs2[h] = [hs[h] EXCEPT !.source = "none"]
    <3> HIDE DEF hs2
    <3> QED
      BY <2>1, <2>3 DEF HandleRecords
  <2>4. CASE h \notin seen /\ hs2[h] = hs[h]
    <3> HIDE DEF hs2
    <3> QED
      BY <2>1, <2>4 DEF HandleRecords
  <2>5. h \in seen \/ hs2[h] = [hs[h] EXCEPT !.source = "none"] \/ hs2[h] = hs[h]
    BY DEF StoppedHandles
  <2> QED
    BY <2>2, <2>3, <2>4, <2>5
<1>2. hs2 = [h \in Handles |-> hs2[h]]
  BY DEF StoppedHandles
<1> HIDE DEF hs2
<1>3. hs2 \in [Handles -> HandleRecords]
  BY <1>1, <1>2
<1>4. \A h \in seen : hs[h].occupied = 1 /\ hs[h].pid # NoPid
  BY DEF Open
<1>5. Handled(hs2)
  BY <1>1, <1>4 DEF Handled
<1>6. /\ \A h \in seen : ~Reaps(hs2[h])
      /\ \A h \in Handles \ seen : (Reaps(hs2[h]) <=> Reaps(hs[h])) /\ (hs2[h].exited => hs[h].exited)
  BY <1>1 DEF Reaps
<1>7. (\A n : Numbered(hs, n) => Numbered(hs2, n)) /\ OpenHandles(hs2) = OpenHandles(hs)
  BY <1>1 DEF Numbered, OpenHandles
<1> QED
  BY <1>1, <1>3, <1>5, <1>6, <1>7 DEF hs2

LEMMA StopInv ==
    ASSUME PoolInv, Stop
    PROVE  PoolInv'
<1> DEFINE seen == {h \in WatchedHandles :
                      \E w \in WatchesOf(pool, handles[h]) : pool.watches[w].completed}
           gone == {w \in Handles : \E h \in WatchedHandles : w \in WatchesOf(pool, handles[h])}
           ws == [w \in Handles |-> IF w \in gone THEN NoWatch ELSE pool.watches[w]]
<1>1. /\ owner.at = "frames"
      /\ handles' = [h \in Handles |->
                 IF h \in seen THEN [handles[h] EXCEPT !.exited = TRUE]
                 ELSE IF h \in WatchedHandles
                 THEN [handles[h] EXCEPT !.source = "none"] ELSE handles[h]]
      /\ pool' = [pool EXCEPT !.watches = ws, !.watching = @ - Cardinality(gone), !.stopping = TRUE]
      /\ worker' = IF NoPool THEN worker ELSE Signalled
      /\ owner' = [owner EXCEPT !.at = "join"]
      /\ regs' = [t \in Tasks |-> NoReg]
      /\ child' = [t \in Tasks |-> NoChild]
      /\ ready' = {}
      /\ UNCHANGED <<wake, pipe, nextGen, live, proc, stale, lost>>
  BY DEF Stop
<1>2. /\ Types /\ Handled(handles) /\ pool \in Pools /\ worker \in Workers
      /\ JobsInv(pool, worker) /\ lost \in SUBSET Pids
      /\ handles \in [Handles -> HandleRecords] /\ Watching(pool, handles, proc)
      /\ Children(pool, handles, worker, proc, lost) /\ Numbered(handles, nextGen)
      /\ live = Cardinality(OpenHandles(handles)) /\ ~stale
  BY DEF PoolInv, Types
<1>3. handles' = StoppedHandles(handles, seen)
  BY <1>1 DEF StoppedHandles, WatchedHandles
<1>4. \A h \in Handles : \A w \in Handles :
         w \in WatchesOf(pool, handles[h]) <=> w \in Watches(pool) /\ pool.watches[w].handle = h
  BY <1>2, WatchOf
<1>5. ASSUME NEW w \in Watches(pool)
      PROVE  /\ pool.watches[w].handle \in WatchedHandles
             /\ w \in WatchesOf(pool, handles[pool.watches[w].handle])
  <2>1. /\ pool.watches[w].handle \in Handles /\ handles[pool.watches[w].handle].occupied = 1
        /\ handles[pool.watches[w].handle].source = "worker" /\ w \in Handles
    BY <1>2 DEF Watching, Watches
  <2> QED
    BY <1>4, <2>1 DEF WatchedHandles
<1>6. gone = Watches(pool)
  <2>1. gone \subseteq Watches(pool)
    BY DEF WatchesOf, Watches
  <2>2. Watches(pool) \subseteq gone
    BY <1>5 DEF Watches
  <2> QED
    BY <2>1, <2>2
<1>7. seen \in SUBSET Handles /\ \A h \in seen : Open(handles[h]) /\ proc[handles[h].pid] = "reaped"
  <2> SUFFICES ASSUME NEW h \in seen
               PROVE  h \in Handles /\ Open(handles[h]) /\ proc[handles[h].pid] = "reaped"
    OBVIOUS
  <2>1. PICK w \in WatchesOf(pool, handles[h]) : pool.watches[w].completed
    OBVIOUS
  <2>2. h \in Handles /\ w \in Handles
    BY DEF WatchedHandles, WatchesOf
  <2>3. w \in Watches(pool) /\ pool.watches[w].handle = h
    BY <1>4, <2>2
  <2> HIDE DEF seen
  <2> QED
    BY <1>2, <2>1, <2>2, <2>3 DEF Watching, Open
<1>8. \A h \in Handles : <<"handle", h>> \in Late(pool, handles) => h \in seen
  <2> SUFFICES ASSUME NEW h \in Handles, <<"handle", h>> \in Late(pool, handles) PROVE h \in seen
    OBVIOUS
  <2>1. PICK w \in Watches(pool) : pool.watches[w].handle = h /\ pool.watches[w].completed
    BY <1>2, LateWatch
  <2> QED
    BY <1>5, <2>1
<1>9. ws \in [Handles -> WatchRecords] /\ \A w \in Handles : ~ws[w].active
  <2>1. NoWatch \in WatchRecords /\ ~NoWatch.active
    BY MaxStartsAssumption, HandleCapacityAssumption DEF NoWatch, WatchRecords, NoPid, NoHandle
  <2>2. \A w \in Handles : pool.watches[w] \in WatchRecords
    BY <1>2 DEF Pools
  <2>3. \A w \in Handles : w \notin gone => ~pool.watches[w].active
    BY <1>6 DEF Watches
  <2> HIDE DEF gone
  <2> QED
    BY <2>1, <2>2, <2>3
<1>10. pool' = Stopped(pool, ws)
  <2>1. pool.watching - Cardinality(gone) = 0
    <3>1. pool.watching = Cardinality(gone) /\ pool.watching \in Nat
      BY <1>2, <1>6 DEF Watching, Pools
    <3> HIDE DEF gone
    <3> QED
      BY <3>1
  <2>2. pool' = [pool EXCEPT !.watches = ws, !.watching = 0, !.stopping = TRUE]
    BY <1>1, <1>2, <2>1 DEF Pools
  <2> QED
    BY <2>2 DEF Stopped
<1> HIDE DEF seen, ws, gone
<1>11. /\ JobsInv(pool', worker) /\ pool'.watches = ws /\ pool'.watching = 0 /\ pool'.stopping
       /\ pool'.jobs = pool.jobs /\ pool'.queue = pool.queue /\ pool'.done = pool.done
  BY ONLY <1>2, <1>9, <1>10, StoppedFacts
<1>12. /\ JobsInv(pool', worker') /\ worker' \in Workers /\ InHand(worker') = InHand(worker)
  BY <1>1, <1>11, SignalledJobs
<1>13. worker'.pc # "waiting"
  BY <1>1, <1>2, SignalledFacts DEF NoPool
<1>14. /\ handles' \in [Handles -> HandleRecords] /\ Handled(handles')
       /\ \A h \in Handles : handles'[h].pid = handles[h].pid
       /\ \A h \in seen : ~Reaps(handles'[h])
       /\ \A h \in Handles \ seen : /\ Reaps(handles'[h]) <=> Reaps(handles[h])
                                    /\ handles'[h].exited => handles[h].exited
       /\ Numbered(handles', nextGen)
       /\ OpenHandles(handles') = OpenHandles(handles)
  <2>1. \A h \in seen : Open(handles[h])
    BY <1>7
  <2>2. LET hs2 == StoppedHandles(handles, seen) IN
           /\ hs2 \in [Handles -> HandleRecords] /\ Handled(hs2)
           /\ \A h \in Handles : hs2[h].pid = handles[h].pid
           /\ \A h \in seen : ~Reaps(hs2[h])
           /\ \A h \in Handles \ seen : (Reaps(hs2[h]) <=> Reaps(handles[h]))
                                        /\ (hs2[h].exited => handles[h].exited)
           /\ \A n : Numbered(handles, n) => Numbered(hs2, n)
           /\ OpenHandles(hs2) = OpenHandles(handles)
    BY ONLY <1>2, <1>7, <2>1, StoppedHandlesFacts
  <2> QED
    BY ONLY <1>2, <1>3, <2>2
<1>15. Told(handles, handles', proc, seen)
  BY <1>7, <1>14 DEF Told
<1>16. LateKept(pool, pool', handles, handles', seen)
  BY <1>8 DEF LateKept
<1>17. Children(pool', handles', worker', proc, lost)
  <2>1. \A j \in Jobs : pool'.jobs[j].pid = pool.jobs[j].pid
    BY <1>11
  <2>2. seen \in SUBSET Handles
    BY <1>7
  <2> QED
    BY ONLY <1>2, <1>12, <1>15, <1>16, <2>1, <2>2, ChildrenTold
<1>18. Watches(pool') = {}
  BY <1>9, <1>11 DEF Watches
<1>19. Watching(pool', handles', proc)
  BY <1>11, <1>18, FS_EmptySet DEF Watching
<1>20. owner'.at = "join"
  BY <1>1, <1>2 DEF Types
<1>21. Reserved(pool', handles', regs', owner')
  <2>1. \A t \in Tasks : regs'[t].kind = "none" /\ ~regs'[t].ready
    BY <1>1 DEF NoReg
  <2> QED
    BY ONLY <1>20, <2>1 DEF Reserved
<1>22. Parented(handles', child')
  BY <1>1 DEF Parented
<1>23. Types'
  <2>1. NoReg \in RegRecords
    BY MaxStartsAssumption, HandleCapacityAssumption, JobCapacityAssumption
    DEF NoReg, RegRecords, Jobs, Handles
  <2>2. NoChild \in [handle : 0 .. HandleCapacity, gen : 0 .. MaxStarts]
    BY MaxStartsAssumption, HandleCapacityAssumption DEF NoChild, NoHandle
  <2>3. /\ regs' \in [Tasks -> RegRecords]
        /\ child' \in [Tasks -> [handle : 0 .. HandleCapacity, gen : 0 .. MaxStarts]]
    BY <1>1, <2>1, <2>2
  <2>4. pool' \in Pools
    BY <1>11 DEF JobsInv
  <2> QED
    BY <1>1, <1>2, <1>12, <1>14, <1>20, <2>3, <2>4 DEF Types
<1>24. Waking'
  BY <1>13, <1>20 DEF Waking, WakeExact, WorkerAwake
<1>25. Closing'
  BY <1>1, <1>18, <1>20 DEF Closing
<1> QED
  BY <1>1, <1>2, <1>12, <1>14, <1>17, <1>19, <1>21, <1>22, <1>23, <1>24, <1>25 DEF PoolInv

\* The children of handles and of jobs.
OfHandles(hs) ==
    {hs[h].pid : h \in {g \in Handles : Reaps(hs[g]) /\ hs[g].pid # NoPid}}

OfJobs(p) == {p.jobs[j].pid : j \in Jobs} \ {NoPid}

\* When nobody is late and the worker is done, the children that are left are
\* those of jobs and of handles, and none is with both.
LEMMA LeftChildren ==
    ASSUME NEW p \in Pools, NEW hs \in [Handles -> HandleRecords], NEW k \in Workers, NEW pr,
           NEW lo \in SUBSET Pids, Children(p, hs, k, pr, lo), Watching(p, hs, pr), Handled(hs),
           Watches(p) = {}, InHand(k) = NoPid,
           NEW A, A = OfHandles(hs), NEW B, B = OfJobs(p)
    PROVE  /\ A \cap B = {} /\ \A x \in A \cup B : pr[x] \in Alive /\ x \in Pids
           /\ \A x \in Pids : pr[x] \in Alive /\ x \notin lo => x \in A \cup B
<1> DEFINE d == Hold(p, hs, k)
<1>1. Custody(d, pr, lo, Late(p, hs))
  BY DEF Children
<1>2. \A r \in Holders : r \notin Late(p, hs)
  BY HolderKinds, LateAt, LateWatch
<1>3. \A r \in Holders : d[r] \in 0 .. MaxStarts
  BY HoldType
<1>4. ASSUME NEW x \in A
      PROVE  \E h \in Handles : <<"handle", h>> \in Holders /\ d[<<"handle", h>>] = x /\ x # NoPid
  <2>1. PICK h \in Handles : hs[h].pid = x /\ Reaps(hs[h]) /\ hs[h].pid # NoPid
    BY DEF OfHandles
  <2>3. d[<<"handle", h>>] = IF Reaps(hs[h]) THEN hs[h].pid ELSE NoPid
    BY HoldAt
  <2> QED
    BY <2>1, <2>3, HolderKinds
<1>5. ASSUME NEW x \in B
      PROVE  \E j \in Jobs : <<"job", j>> \in Holders /\ d[<<"job", j>>] = x /\ x # NoPid
  <2>1. PICK j \in Jobs : p.jobs[j].pid = x /\ x # NoPid
    BY DEF OfJobs
  <2>2. d[<<"job", j>>] = p.jobs[j].pid
    BY HoldAt
  <2> QED
    BY <2>1, <2>2, HolderKinds
<1> HIDE DEF d
<1>6. A \cap B = {}
  <2> SUFFICES ASSUME NEW x \in A, x \in B PROVE FALSE
    OBVIOUS
  <2>1. PICK h \in Handles : <<"handle", h>> \in Holders /\ d[<<"handle", h>>] = x /\ x # NoPid
    BY <1>4
  <2>2. PICK j \in Jobs : <<"job", j>> \in Holders /\ d[<<"job", j>>] = x
    BY <1>5
  <2>3. <<"handle", h>> = <<"job", j>>
    BY <1>1, <2>1, <2>2 DEF Custody
  <2> QED
    BY <2>3
<1>7. ASSUME NEW r \in Holders, d[r] # NoPid
      PROVE  pr[d[r]] \in Alive /\ d[r] \in Pids
  BY <1>1, <1>2, <1>3, <1>7, MaxStartsAssumption DEF Custody, Pids, NoPid
<1>8. \A x \in A \cup B : pr[x] \in Alive /\ x \in Pids
  <2> SUFFICES ASSUME NEW x \in A \cup B PROVE pr[x] \in Alive /\ x \in Pids
    OBVIOUS
  <2>1. CASE x \in A
    BY <1>4, <1>7, <2>1
  <2>2. CASE x \in B
    BY <1>5, <1>7, <2>2
  <2> QED
    BY <2>1, <2>2
<1>9. ASSUME NEW x \in Pids, pr[x] \in Alive, x \notin lo
      PROVE  x \in A \cup B
  <2>1. PICK r \in Holders : d[r] = x
    BY <1>1, <1>9 DEF Custody
  <2>2. x # NoPid
    BY MaxStartsAssumption DEF Pids, NoPid
  <2>3. CASE \E j \in Jobs : r = <<"job", j>>
    <3>1. PICK j \in Jobs : r = <<"job", j>>
      BY <2>3
    <3>2. d[r] = p.jobs[j].pid
      BY <3>1, HoldAt DEF d
    <3> QED
      BY <2>1, <2>2, <3>2 DEF OfJobs
  <2>4. CASE \E h \in Handles : r = <<"handle", h>>
    <3>1. PICK h \in Handles : r = <<"handle", h>>
      BY <2>4
    <3>2. d[r] = IF Reaps(hs[h]) THEN hs[h].pid ELSE NoPid
      BY <3>1, HoldAt DEF d
    <3>3. Reaps(hs[h]) /\ hs[h].pid = x
      BY <2>1, <2>2, <3>2
    <3> QED
      BY <2>2, <3>3 DEF OfHandles
  <2>5. CASE r = <<"worker", 0>>
    BY <2>1, <2>2, <2>5, HoldAt DEF d
  <2> QED
    BY <2>3, <2>4, <2>5, HolderKinds
<1> QED
  BY <1>6, <1>8, <1>9

\* Nobody holds a child, and those that were waited for are gone.
LEMMA NobodyHolds ==
    ASSUME NEW p, NEW p2, NEW hs, NEW hs2, NEW k, NEW k2, NEW pr, NEW pr2, NEW lo \in SUBSET Pids,
           Children(p, hs, k, pr, lo), NEW S,
           \A x \in Pids : pr2[x] = IF x \in S THEN "reaped" ELSE pr[x],
           \A x \in Pids : pr[x] \in Alive /\ x \notin lo => x \in S,
           \A j \in Jobs : p2.jobs[j].pid = NoPid, InHand(k2) = NoPid,
           \A h \in Handles : ~Reaps(hs2[h]) /\ ~hs2[h].exited
    PROVE  Children(p2, hs2, k2, pr2, lo)
<1> DEFINE d == Hold(p2, hs2, k2)
<1>1. ASSUME NEW r \in Holders PROVE d[r] = NoPid
  <2>1. CASE \E j \in Jobs : r = <<"job", j>>
    BY <2>1, HoldAt
  <2>2. CASE \E h \in Handles : r = <<"handle", h>>
    BY <2>2, HoldAt
  <2>3. CASE r = <<"worker", 0>>
    BY <2>3, HoldAt
  <2> QED
    BY <2>1, <2>2, <2>3, HolderKinds
<1> HIDE DEF d
<1>2. \A x \in lo : pr[x] # "unused"
  BY DEF Children, Custody
<1>3. Custody(d, pr2, lo, Late(p2, hs2))
  BY <1>1, <1>2 DEF Custody, Alive
<1> QED
  BY <1>3 DEF Children, d

\* The pool after the shutdown.
Emptied(p) ==
    [p EXCEPT !.jobs = [j \in Jobs |-> FreeJob(0)], !.queue = <<>>, !.done = <<>>,
              !.active = 0, !.starts = 0]

LEMMA EmptiedFacts ==
    ASSUME NEW p \in Pools, NEW k \in Workers, k.pc \in {"none", "done"}
    PROVE  LET p2 == Emptied(p) IN
           /\ JobsInv(p2, k) /\ p2.watches = p.watches /\ p2.watching = p.watching
           /\ \A j \in Jobs : p2.jobs[j].pid = NoPid
<1> DEFINE p2 == Emptied(p)
<1>1. FreeJob(0) \in JobRecords
  BY MaxStartsAssumption, HandleCapacityAssumption
  DEF FreeJob, JobRecords, States, NoPid, NoHandle
<1>2. <<>> \in Seq(Jobs)
  OBVIOUS
<1>3. p2 \in Pools
  BY <1>1, <1>2 DEF Emptied, Pools
<1>4. /\ p2.queue = <<>> /\ p2.done = <<>> /\ p2.active = 0 /\ p2.starts = 0 /\ p2.gen = p.gen
      /\ \A j \in Jobs : p2.jobs[j] = FreeJob(0)
      /\ p2.watches = p.watches /\ p2.watching = p.watching
  BY DEF Emptied, Pools
<1>5. p2.gen \in Nat
  BY <1>3 DEF Pools
<1> HIDE DEF p2
<1>6. ASSUME NEW j \in Jobs
      PROVE  /\ p2.jobs[j].state = "free" /\ p2.jobs[j].pid = NoPid /\ p2.jobs[j].gen <= p2.gen
  BY <1>4, <1>5 DEF FreeJob
<1>7. ASSUME NEW j \in Jobs
      PROVE  Placed(p2, k, j) /\ Loaded(p2, j)
  BY <1>4, <1>6, EmptyList DEF Placed, Loaded
<1>8. AtWork(p2, k)
  BY DEF AtWork
<1>9. BusyJobs(p2) = {} /\ StartJobs(p2) = {}
  BY <1>6 DEF BusyJobs, StartJobs, StartStates
<1>10. p2.active = Cardinality(BusyJobs(p2)) /\ p2.starts = Cardinality(StartJobs(p2))
  BY <1>4, <1>9, FS_EmptySet
<1>11. p2.starts <= StartCapacity
  BY <1>4, StartCapacityAssumption, JobCapacityAssumption
<1>12. Once(p2.queue) /\ Once(p2.done)
  BY <1>4, EmptyList
<1>13. JobsInv(p2, k)
  BY ONLY <1>3, <1>6, <1>7, <1>8, <1>10, <1>11, <1>12, k \in Workers DEF JobsInv
<1> QED
  BY <1>4, <1>6, <1>13 DEF p2

LEMMA FinishInv ==
    ASSUME PoolInv, Finish
    PROVE  PoolInv'
<1> DEFINE A == {handles[h].pid : h \in {g \in Handles : LeftToShutdown(g)}}
           B == {pool.jobs[j].pid : j \in Jobs} \ {NoPid}
<1>1. /\ owner.at = "join" /\ worker.pc \in {"none", "done"}
      /\ proc' = Reaped(A \cup B)
      /\ stale' = (stale \/ \E p \in A \cup B : Gone(p) \/ A \cap B # {})
      /\ handles' = [h \in Handles |-> FreeHandle(handles[h].gen)]
      /\ pool' = Emptied(pool)
      /\ wake' = FALSE /\ live' = 0
      /\ owner' = [owner EXCEPT !.at = "down"]
      /\ UNCHANGED <<pipe, worker, nextGen, regs, child, ready, lost>>
  BY DEF Finish, Emptied
<1>2. /\ Types /\ pool \in Pools /\ worker \in Workers /\ lost \in SUBSET Pids
      /\ handles \in [Handles -> HandleRecords] /\ Watching(pool, handles, proc)
      /\ Children(pool, handles, worker, proc, lost) /\ Numbered(handles, nextGen)
      /\ Handled(handles) /\ ~stale /\ Closing
      /\ proc \in [Pids -> {"unused", "running", "zombie", "reaped"}]
  BY DEF PoolInv, Types
<1>3. Watches(pool) = {} /\ \A t \in Tasks : regs[t] = NoReg /\ child[t] = NoChild
  BY <1>1, <1>2 DEF Closing
<1>4. InHand(worker) = NoPid
  BY <1>1 DEF InHand
<1>5. A = OfHandles(handles)
  BY DEF LeftToShutdown, OfHandles, Reaps
<1>6. B = OfJobs(pool)
  BY DEF OfJobs
<1> HIDE DEF A, B
<1>7. /\ A \cap B = {} /\ \A x \in A \cup B : proc[x] \in Alive /\ x \in Pids
      /\ \A x \in Pids : proc[x] \in Alive /\ x \notin lost => x \in A \cup B
  BY ONLY <1>2, <1>3, <1>4, <1>5, <1>6, LeftChildren
<1>8. ~stale'
  BY <1>1, <1>2, <1>7 DEF Gone, Alive
<1>9. /\ proc' \in [Pids -> {"unused", "running", "zombie", "reaped"}]
      /\ \A x \in Pids : proc'[x] = IF x \in A \cup B THEN "reaped" ELSE proc[x]
  BY <1>1, <1>2 DEF Reaped
<1>10. /\ JobsInv(pool', worker) /\ pool'.watches = pool.watches /\ pool'.watching = pool.watching
       /\ \A j \in Jobs : pool'.jobs[j].pid = NoPid
  BY <1>1, <1>2, EmptiedFacts
<1>11. handles' = Freed(handles, Handles)
  BY <1>1 DEF Freed
<1>12. /\ handles' \in [Handles -> HandleRecords] /\ Handled(handles')
       /\ Numbered(handles', nextGen) /\ OpenHandles(handles') = {}
       /\ \A h \in Handles : /\ handles'[h].occupied = 0 /\ ~Reaps(handles'[h])
                             /\ ~handles'[h].exited
  <2>1. OpenHandles(handles) \ Handles = {}
    BY DEF OpenHandles
  <2>2. Handles \in SUBSET Handles
    OBVIOUS
  <2> QED
    BY ONLY <1>2, <1>11, <2>1, <2>2, FreedFacts
<1>13. Children(pool', handles', worker, proc', lost)
  <2> DEFINE S == A \cup B
  <2>1. /\ \A x \in Pids : proc'[x] = IF x \in S THEN "reaped" ELSE proc[x]
        /\ \A x \in Pids : proc[x] \in Alive /\ x \notin lost => x \in S
    BY <1>7, <1>9
  <2>2. \A h \in Handles : ~Reaps(handles'[h]) /\ ~handles'[h].exited
    BY <1>12
  <2>3. \A j \in Jobs : pool'.jobs[j].pid = NoPid
    BY <1>10
  <2>4. lost \in SUBSET Pids /\ Children(pool, handles, worker, proc, lost)
    BY <1>2
  <2> HIDE DEF S
  <2> QED
    BY ONLY <1>4, <2>1, <2>2, <2>3, <2>4, NobodyHolds
<1>14. Watches(pool') = {}
  BY <1>3, <1>10 DEF Watches
<1>15. Watching(pool', handles', proc')
  BY <1>2, <1>3, <1>10, <1>14 DEF Watching
<1>16. owner'.at = "down" /\ owner' \in [at : {"frames", "arm", "drain", "watches", "rearm", "join", "down"},
                                        task : Tasks \cup {NoTask}]
  BY <1>1, <1>2 DEF Types
<1>17. Reserved(pool', handles', regs', owner')
  <2>1. \A t \in Tasks : regs'[t].kind = "none" /\ ~regs'[t].ready
    BY <1>1, <1>3 DEF NoReg
  <2> QED
    BY ONLY <1>16, <2>1 DEF Reserved
<1>18. Parented(handles', child')
  BY <1>1, <1>3 DEF Parented
<1>19. Types'
  <2>1. pool' \in Pools
    BY <1>10 DEF JobsInv
  <2> QED
    BY <1>1, <1>2, <1>9, <1>12, <1>16, <2>1 DEF Types
<1>20. Waking'
  BY <1>1, <1>16 DEF Waking, WakeExact, WorkerAwake
<1>21. Closing'
  BY <1>1, <1>3, <1>10, <1>12, <1>14 DEF Closing
<1>22. live' = Cardinality(OpenHandles(handles'))
  BY <1>1, <1>12, FS_EmptySet
<1> QED
  BY <1>1, <1>8, <1>10, <1>12, <1>13, <1>15, <1>17, <1>18, <1>19, <1>20, <1>21, <1>22 DEF PoolInv

-----------------------------------------------------------------------------
(* A watch that begins.                                                    *)

\* A handle that is not watched leaves a watch to be had.
LEMMA FreeWatch ==
    ASSUME NEW p, NEW hs, NEW pr, Watching(p, hs, pr), NEW h \in Handles,
           \A w \in Watches(p) : p.watches[w].handle # h
    PROVE  \E v \in Handles : ~p.watches[v].active
<1> SUFFICES ASSUME \A v \in Handles : p.watches[v].active
             PROVE  FALSE
  OBVIOUS
<1>1. Watches(p) = Handles
  BY DEF Watches
<1> DEFINE T == Handles \ {h}
           f == [w \in Handles |-> p.watches[w].handle]
<1>2. f \in [Handles -> T]
  BY <1>1 DEF Watching
<1>3. IsFiniteSet(T) /\ Cardinality(T) = Cardinality(Handles) - 1 /\ Cardinality(Handles) \in Nat
      /\ IsFiniteSet(Handles)
  BY FiniteTables, CountOne, FS_Subset, HandleCapacityAssumption
<1>4. Cardinality(T) < Cardinality(Handles)
  BY <1>3
<1>5. \A v, w \in Handles : f[v] = f[w] => v = w
  BY <1>1 DEF Watching
<1> HIDE DEF T, f
<1>6. \E v, w \in Handles : v # w /\ f[v] = f[w]
  BY ONLY <1>2, <1>3, <1>4, FS_PigeonHole
<1> QED
  BY <1>5, <1>6

\* The handle whose child the worker is to watch.
ToWatch(hs2, h, pid, g) ==
    /\ hs2[h].occupied = 1 /\ hs2[h].pid = pid /\ hs2[h].gen = g
    /\ hs2[h].source = "worker" /\ ~hs2[h].exited

\* The watches whose children the worker has waited for.
Finished(p) == {w \in Handles : p.watches[w].active /\ p.watches[w].completed}

\* The watches are in order, and h is none of theirs.
Watchable(p, hs, hs2, pr, h, pid, g) ==
    /\ Watching(p, hs, pr) /\ h \in Handles
    /\ \A w \in Watches(p) : p.watches[w].handle # h
    /\ Unchanged(hs, hs2, {h}) /\ pid \in Pids /\ g \in 0 .. MaxStarts
    /\ ToWatch(hs2, h, pid, g) /\ pr[pid] # "reaped"

LEMMA BeginWatch ==
    ASSUME NEW p, NEW k, JobsInv(p, k), NEW hs, NEW hs2, NEW pr, NEW h, NEW pid, NEW g,
           Watchable(p, hs, hs2, pr, h, pid, g), NEW p2, p2 = Watched(p, pid, h, g)
    PROVE  /\ JobsInv(p2, k) /\ Watching(p2, hs2, pr) /\ Keeping(p, p2, {h})
           /\ p2.jobs = p.jobs /\ p2.queue = p.queue /\ p2.done = p.done /\ p2.gen = p.gen
           /\ p2.active = p.active /\ p2.stopping = p.stopping
           /\ p2.watching # 0 /\ p2.watching \in Nat /\ Finished(p2) \subseteq Finished(p)
<1> DEFINE w0 == First({v \in Handles : ~p.watches[v].active})
           new == [active |-> TRUE, completed |-> FALSE, pid |-> pid, handle |-> h, hgen |-> g]
           ws == [p.watches EXCEPT ![w0] = new]
           n == p.watching + 1
<1>1. /\ Watching(p, hs, pr) /\ h \in Handles /\ Unchanged(hs, hs2, {h})
      /\ \A w \in Watches(p) : p.watches[w].handle # h
      /\ pid \in Pids /\ g \in 0 .. MaxStarts /\ ToWatch(hs2, h, pid, g) /\ pr[pid] # "reaped"
  BY DEF Watchable
<1>2. p \in Pools /\ p.watches \in [Handles -> WatchRecords]
  BY DEF JobsInv, Pools
<1>3. w0 \in Handles /\ ~p.watches[w0].active
  <2>1. \E v \in Handles : ~p.watches[v].active
    BY <1>1, FreeWatch
  <2>2. {v \in Handles : ~p.watches[v].active} # {}
    BY <2>1
  <2>3. {v \in Handles : ~p.watches[v].active} \in SUBSET Nat
    BY DEF Handles
  <2>4. w0 \in {v \in Handles : ~p.watches[v].active}
    BY <2>2, <2>3, FirstIn
  <2> QED
    BY <2>4
<1>4. p.watching \in Nat
  BY <1>1, WatchCount
<1>5. n \in Nat /\ n # 0
  BY <1>4
<1>6. /\ new \in WatchRecords /\ new.active /\ ~new.completed /\ new.handle = h /\ new.hgen = g
      /\ new.pid = pid
  BY <1>1, MaxStartsAssumption, HandleCapacityAssumption DEF WatchRecords, Pids, Handles
<1>7. p2 = Rewatched(p, ws, n)
  BY <1>2 DEF Rewatched, Pools, Watched
<1> HIDE DEF w0, new
<1>8. ws \in [Handles -> WatchRecords] /\ ws[w0] = new /\ \A v \in Handles \ {w0} : ws[v] = p.watches[v]
  BY <1>2, <1>3, <1>6
<1> HIDE DEF ws, n
<1>9. /\ JobsInv(p2, k) /\ p2.watches = ws /\ p2.watching = n
      /\ p2.jobs = p.jobs /\ p2.queue = p.queue /\ p2.done = p.done /\ p2.gen = p.gen
      /\ p2.active = p.active /\ p2.stopping = p.stopping
  <2>1. JobsInv(p, k)
    OBVIOUS
  <2> QED
    BY ONLY <1>5, <1>7, <1>8, <2>1, RewatchedFacts
<1>10. /\ Watches(p2) = Watches(p) \cup {w0} /\ w0 \notin Watches(p)
      /\ \A v \in Watches(p) : p2.watches[v] = p.watches[v]
  BY <1>3, <1>6, <1>8, <1>9 DEF Watches
<1>11. p2.watching = Cardinality(Watches(p2))
  <2>1. Watches(p) \in SUBSET Handles
    BY DEF Watches
  <2>2. Cardinality(Watches(p) \cup {w0}) = Cardinality(Watches(p)) + 1
    BY <2>1, <1>3, <1>10, FiniteTables, CountOne
  <2>3. p.watching = Cardinality(Watches(p))
    BY <1>1 DEF Watching
  <2> QED
    BY ONLY <1>9, <1>10, <2>2, <2>3 DEF n
<1>12. Keeping(p, p2, {h})
  BY <1>10 DEF Keeping
<1>13. ASSUME NEW w \in Watches(p2)
       PROVE  LET v == p2.watches[w] IN
              /\ v.handle \in Handles
              /\ hs2[v.handle].occupied = 1 /\ hs2[v.handle].gen = v.hgen
              /\ hs2[v.handle].pid = v.pid /\ v.pid # NoPid
              /\ hs2[v.handle].source = "worker" /\ ~hs2[v.handle].exited
              /\ v.completed <=> pr[v.pid] = "reaped"
  <2>1. CASE w = w0
    <3>1. p2.watches[w] = new
      BY <1>8, <1>9, <2>1
    <3>2. pid # NoPid
      BY <1>1 DEF Pids, NoPid
    <3> QED
      BY <1>1, <1>6, <3>1, <3>2 DEF ToWatch
  <2>2. CASE w # w0
    <3>1. w \in Watches(p) /\ p2.watches[w] = p.watches[w]
      BY <1>10, <2>2
    <3>2. hs2[p.watches[w].handle] = hs[p.watches[w].handle]
      BY <1>1, <3>1 DEF Unchanged, Watching
    <3> QED
      BY <1>1, <3>1, <3>2 DEF Watching
  <2> QED
    BY <2>1, <2>2
<1>14. ASSUME NEW v \in Watches(p2), NEW w \in Watches(p2),
              p2.watches[v].handle = p2.watches[w].handle
       PROVE  v = w
  <2>1. p2.watches[w0].handle = h
    BY <1>6, <1>8, <1>9
  <2>2. \A u \in Watches(p) : p2.watches[u].handle # h /\ p2.watches[u].handle = p.watches[u].handle
    BY <1>1, <1>10
  <2> QED
    BY <1>1, <1>10, <1>14, <2>1, <2>2 DEF Watching
<1>15. Watching(p2, hs2, pr)
  BY <1>11, <1>13, <1>14 DEF Watching
<1>16. Finished(p2) \subseteq Finished(p)
  BY <1>6, <1>8, <1>9 DEF Finished
<1> QED
  BY <1>5, <1>9, <1>12, <1>15, <1>16

-----------------------------------------------------------------------------
(* A handle's child is watched otherwise, attached or closed.              *)

\* Handle h has record s, the next one of a handle in use that had record r.
Put(hs, h, s) == [hs EXCEPT ![h] = s]

InUse(r, s) ==
    /\ s \in HandleRecords /\ s.gen = r.gen /\ ~s.exited /\ s.occupied \in {1, 2}
    /\ s.pid # NoPid
    /\ s.occupied = 1 => ~s.reaping
    /\ s.occupied = 2 => s.source = "none"

LEMMA PutFacts ==
    ASSUME NEW hs \in [Handles -> HandleRecords], Handled(hs), NEW h \in Handles,
           hs[h].occupied = 1, ~hs[h].exited, NEW s, InUse(hs[h], s),
           NEW hs2, hs2 = Put(hs, h, s)
    PROVE  /\ hs2 \in [Handles -> HandleRecords] /\ Unchanged(hs, hs2, {h}) /\ Handled(hs2)
           /\ hs[h].gen \in 0 .. MaxStarts
           /\ Reaps(s) <=> ~s.reaping
           /\ \A m : Numbered(hs, m) => Numbered(hs2, m)
           /\ s.occupied = 1 => OpenHandles(hs2) = OpenHandles(hs) \cup {h}
           /\ s.occupied = 2 => OpenHandles(hs2) = OpenHandles(hs) \ {h}
           /\ NoneTold(hs, hs2)
<1>1. s \in HandleRecords /\ s.gen = hs[h].gen /\ ~s.exited
  BY DEF InUse
<1>2. hs2 \in [Handles -> HandleRecords] /\ hs2[h] = s /\ \A g \in Handles \ {h} : hs2[g] = hs[g]
  BY <1>1 DEF Put
<1>3. Unchanged(hs, hs2, {h})
  BY <1>2 DEF Unchanged
<1>4. \A g \in Handles : hs2[g].gen = hs[g].gen
  BY <1>1, <1>2
<1>5. ASSUME NEW g \in Handles
      PROVE  /\ hs2[g].occupied = 0 => hs2[g].pid = NoPid
             /\ hs2[g].occupied # 0 => hs2[g].gen # 0
             /\ hs2[g].occupied = 1 => ~hs2[g].reaping /\ (hs2[g].pid = NoPid => hs2[g].source = "none")
             /\ hs2[g].occupied = 2 => hs2[g].pid # NoPid /\ hs2[g].source = "none" /\ ~hs2[g].exited
             /\ hs2[g].exited => hs2[g].pid # NoPid
  <2>1. CASE g = h
    <3>1. hs[h].gen # 0
      BY DEF Handled
    <3> QED
      BY <1>2, <2>1, <3>1 DEF InUse
  <2>2. CASE g # h
    BY <1>2, <2>2 DEF Handled
  <2> QED
    BY <2>1, <2>2
<1>6. Handled(hs2)
  BY <1>4, <1>5 DEF Handled
<1>7. \A m : Numbered(hs, m) => Numbered(hs2, m)
  BY <1>4 DEF Numbered
<1>8. /\ s.occupied = 1 => OpenHandles(hs2) = OpenHandles(hs) \cup {h}
      /\ s.occupied = 2 => OpenHandles(hs2) = OpenHandles(hs) \ {h}
  BY <1>2 DEF OpenHandles, InUse
<1>9. NoneTold(hs, hs2)
  BY <1>1, <1>2 DEF NoneTold
<1>10. Reaps(s) <=> ~s.reaping
  BY DEF Reaps, InUse
<1>11. hs[h].gen \in 0 .. MaxStarts
  BY DEF HandleRecords
<1> QED
  BY <1>2, <1>3, <1>6, <1>7, <1>8, <1>9, <1>10, <1>11

\* An open handle that stays open.
LEMMA StillOpen ==
    ASSUME NEW hs, NEW hs2, NEW h \in Handles, Unchanged(hs, hs2, {h}), Open(hs[h]), Open(hs2[h]),
           hs2[h].gen = hs[h].gen
    PROVE  SameUse(hs, hs2)
BY DEF Unchanged, SameUse, Open, Bare

LEMMA WatchInsteadInv ==
    ASSUME PoolInv, NEW t \in Tasks, WatchInstead(t)
    PROVE  PoolInv'
<1> DEFINE h == child[t].handle
           pid == handles[h].pid
<1>1. /\ owner.at = "frames" /\ child[t] # NoChild
      /\ handles[h].occupied = 1 /\ pid # NoPid
      /\ ~handles[h].exited /\ handles[h].source = "reactor"
      /\ pool' = Watched(pool, pid, h, handles[h].gen)
      /\ wake' = TRUE /\ worker' = Signalled
      /\ handles' = [handles EXCEPT ![h].source = "worker"]
      /\ UNCHANGED <<pipe, owner, nextGen, live, regs, child, ready, proc, stale, lost>>
  BY DEF WatchInstead, Found
<1>2. /\ Types /\ Reserved(pool, handles, regs, owner) /\ Parented(handles, child)
      /\ Waking /\ Closing /\ regs \in [Tasks -> RegRecords] /\ Handled(handles)
      /\ pool \in Pools /\ worker \in Workers /\ JobsInv(pool, worker) /\ lost \in SUBSET Pids
      /\ handles \in [Handles -> HandleRecords] /\ Watching(pool, handles, proc)
      /\ Children(pool, handles, worker, proc, lost) /\ Numbered(handles, nextGen)
      /\ live = Cardinality(OpenHandles(handles)) /\ ~stale
  BY DEF PoolInv, Types
<1>3. h \in Handles
  BY <1>1, <1>2 DEF Parented
<1>4. Reaps(handles[h]) /\ Open(handles[h]) /\ ~handles[h].reaping
  BY <1>1, <1>2, <1>3 DEF Reaps, Handled, Open
<1>5. <<"handle", h>> \notin Late(pool, handles)
  BY <1>1, <1>3, LateAt
<1>6. \A w \in Watches(pool) : pool.watches[w].handle # h
  BY <1>1, <1>2 DEF Watching
<1>7. /\ pid \in Pids /\ proc[pid] \in Alive
      /\ <<"handle", h>> \in Holders
      /\ Hold(pool, handles, worker)[<<"handle", h>>] = pid
  BY ONLY <1>1, <1>2, <1>3, <1>4, <1>5, HandleAlive
<1> DEFINE s == [handles[h] EXCEPT !.source = "worker"]
<1>8. handles' = Put(handles, h, s)
  BY <1>1 DEF Put
<1>9. InUse(handles[h], s) /\ s.occupied = 1 /\ s.pid = pid /\ s.source = "worker" /\ ~s.reaping
  <2>1. handles[h] \in HandleRecords
    BY <1>2, <1>3
  <2> QED
    BY <1>1, <1>4, <2>1 DEF InUse, HandleRecords
<1> HIDE DEF h, s
<1>10. /\ handles' \in [Handles -> HandleRecords] /\ Unchanged(handles, handles', {h})
       /\ Handled(handles') /\ handles'[h] = s /\ handles[h].gen \in 0 .. MaxStarts
       /\ Reaps(s)
       /\ \A m : Numbered(handles, m) => Numbered(handles', m)
       /\ OpenHandles(handles') = OpenHandles(handles) \cup {h}
       /\ NoneTold(handles, handles')
  <2>1. /\ handles \in [Handles -> HandleRecords] /\ Handled(handles)
        /\ handles[h].occupied = 1 /\ ~handles[h].exited
    BY <1>1, <1>2
  <2>2. /\ handles' \in [Handles -> HandleRecords] /\ Unchanged(handles, handles', {h})
        /\ Handled(handles') /\ handles[h].gen \in 0 .. MaxStarts
        /\ Reaps(s) <=> ~s.reaping
        /\ \A m : Numbered(handles, m) => Numbered(handles', m)
        /\ s.occupied = 1 => OpenHandles(handles') = OpenHandles(handles) \cup {h}
        /\ NoneTold(handles, handles')
    <3>1. InUse(handles[h], s)
      BY <1>9
    <3> QED
      BY ONLY <1>3, <1>8, <2>1, <3>1, PutFacts
  <2>3. handles'[h] = s
    BY <1>3, <1>8, <2>1 DEF Put
  <2> QED
    BY ONLY <1>9, <2>2, <2>3
<1>11. OpenHandles(handles') = OpenHandles(handles)
  BY <1>3, <1>4, <1>10 DEF OpenHandles, Open
<1>12. ToWatch(handles', h, pid, handles[h].gen)
  BY <1>9, <1>10 DEF ToWatch, InUse
<1>13. /\ JobsInv(pool', worker) /\ Watching(pool', handles', proc) /\ Keeping(pool, pool', {h})
       /\ pool'.jobs = pool.jobs /\ pool'.queue = pool.queue /\ pool'.done = pool.done
       /\ pool'.active = pool.active /\ pool'.stopping = pool.stopping /\ pool'.watching # 0
       /\ Finished(pool') \subseteq Finished(pool)
  <2>1. proc[pid] # "reaped"
    BY <1>7 DEF Alive
  <2>2. JobsInv(pool, worker) /\ Watching(pool, handles, proc)
    BY <1>2
  <2>3. Unchanged(handles, handles', {h}) /\ handles[h].gen \in 0 .. MaxStarts
    BY <1>10
  <2>4. pid \in Pids /\ pool' = Watched(pool, pid, h, handles[h].gen)
    BY <1>1, <1>7 DEF h
  <2> HIDE DEF pid
  <2>5. Watchable(pool, handles, handles', proc, h, pid, handles[h].gen)
    BY <1>3, <1>6, <1>12, <2>1, <2>2, <2>3, <2>4 DEF Watchable
  <2> QED
    BY ONLY <2>2, <2>4, <2>5, BeginWatch
<1>14. JobsInv(pool', worker') /\ worker' \in Workers /\ InHand(worker') = InHand(worker)
  BY <1>1, <1>13, SignalledJobs
<1>15. SameUse(handles, handles')
  BY <1>3, <1>4, <1>9, <1>10, StillOpen DEF Open, InUse
<1>16. Reserved(pool, handles', regs, owner) /\ Parented(handles', child)
  BY ONLY <1>2, <1>15, SameUseKept
<1>17. Reserved(pool', handles', regs', owner')
  <2>1. regs \in [Tasks -> RegRecords]
    BY <1>2
  <2>2. /\ \A j \in Jobs : pool'.jobs[j] = pool.jobs[j]
    BY <1>13
  <2>3. regs' = regs /\ owner' = owner
    BY <1>1
  <2> QED
    BY ONLY <1>16, <2>1, <2>2, <2>3, ReservedKept
<1>18. LateKept(pool, pool', handles, handles', {h})
  BY ONLY <1>2, <1>10, <1>13, LateOthers
<1>19. Moved(Hold(pool, handles, worker), Hold(pool', handles', worker'), <<"handle", h>>, <<"handle", h>>)
  <2>1. ASSUME NEW r \in Holders
        PROVE  Hold(pool', handles', worker')[r] = Hold(pool, handles, worker)[r]
    <3>1. CASE \E j \in Jobs : r = <<"job", j>>
      BY <1>13, <3>1, HoldAt
    <3>2. CASE \E g \in Handles : r = <<"handle", g>>
      BY <1>4, <1>9, <1>10, <3>2, HoldAt DEF Unchanged
    <3>3. CASE r = <<"worker", 0>>
      BY <1>14, <3>3, HoldAt
    <3> QED
      BY <3>1, <3>2, <3>3, HolderKinds
  <2> QED
    BY <1>1, <1>7, <2>1 DEF Moved
<1>20. Children(pool', handles', worker', proc', lost)
  <2>1. /\ pool \in Pools /\ handles \in [Handles -> HandleRecords] /\ worker \in Workers
        /\ lost \in SUBSET Pids /\ Children(pool, handles, worker, proc, lost) /\ Handled(handles)
    BY <1>2
  <2>2. Dying(proc, proc')
    BY <1>1, SameProc
  <2>3. proc[Hold(pool, handles, worker)[<<"handle", h>>]] \in Alive
    BY <1>7
  <2>4. \A g \in {h} : <<"handle", h>> = <<"handle", g>>
    OBVIOUS
  <2>5. NoneTold(handles, handles')
    BY <1>10
  <2> QED
    BY ONLY <1>18, <1>19, <2>1, <2>2, <2>3, <2>4, <2>5, ChildrenMove
<1>21. worker'.pc # "waiting" /\ (worker'.pc \in {"signal", "cleanup"} <=> worker.pc \in {"signal", "cleanup"})
  BY <1>1, <1>2, SignalledFacts, SignalledJobs
<1>22. Types'
  <2>1. pool' \in Pools
    BY <1>13 DEF JobsInv
  <2> QED
    BY <1>1, <1>2, <1>10, <1>14, <2>1 DEF Types
<1>23. Waking'
  <2>1. WakeExact' /\ WorkerAwake'
    BY <1>1, <1>13, <1>21 DEF WakeExact, WorkerAwake
  <2>2. Completed' \subseteq Completed
    BY <1>13 DEF Completed, Finished
  <2>3. Announced' = Announced
    BY <1>1, <1>21 DEF Announced
  <2> QED
    BY <1>1, <1>2, <1>13, <2>1, <2>2, <2>3 DEF Waking
<1>24. Closing'
  BY <1>1 DEF Closing
<1> QED
  BY <1>1, <1>2, <1>10, <1>11, <1>13, <1>14, <1>16, <1>17, <1>20, <1>22, <1>23, <1>24 DEF PoolInv

\* The watch of a handle that is closed ends.
ClosedWatches(p, s) == IF s.source = "worker" THEN Unwatched(p, s) ELSE p

\* Only watches differ, and there are no new ones.
FewerWatches(p0, p) ==
    /\ p.jobs = p0.jobs /\ p.queue = p0.queue /\ p.done = p0.done /\ p.gen = p0.gen
    /\ p.active = p0.active /\ p.stopping = p0.stopping
    /\ Finished(p) \subseteq Finished(p0)
    /\ p.watching \in Nat /\ (p.watching # 0 => p0.watching # 0)

LEMMA CloseWatches ==
    ASSUME NEW p0, NEW k, JobsInv(p0, k), NEW hs, NEW pr, Watching(p0, hs, pr), Handled(hs),
           NEW h \in Handles, NEW p, p = ClosedWatches(p0, hs[h])
    PROVE  JobsInv(p, k) /\ Unwatching(p0, p, {h}) /\ Keeping(p0, p, {h}) /\ FewerWatches(p0, p)
<1>1. p0.watching \in Nat
  BY WatchCount
<1>2. CASE \A w \in Watches(p0) : p0.watches[w].handle # h
  <2>1. WatchesOf(p0, hs[h]) = {}
    <3>1. \A w \in Handles : w \notin WatchesOf(p0, hs[h])
      BY <1>2, WatchOf
    <3> QED
      BY <3>1 DEF WatchesOf
  <2>2. p = p0
    BY <2>1 DEF ClosedWatches, Unwatched
  <2>3. Unwatching(p0, p0, {h})
    BY <1>2 DEF Unwatching, Watching
  <2>4. Keeping(p0, p0, {h})
    BY DEF Keeping
  <2> QED
    BY <1>1, <2>2, <2>3, <2>4 DEF FewerWatches
<1>3. CASE \E w \in Watches(p0) : p0.watches[w].handle = h
  <2>1. hs[h].source = "worker"
    BY <1>3 DEF Watching
  <2>2. \A w \in Handles : w \in WatchesOf(p0, hs[h]) <=>
                               w \in Watches(p0) /\ p0.watches[w].handle = h
    BY WatchOf
  <2>3. WatchesOf(p0, hs[h]) # {} /\ WatchesOf(p0, hs[h]) \in SUBSET Nat
    BY <1>3, <2>2 DEF Watches, WatchesOf, Handles
  <2> DEFINE w == First(WatchesOf(p0, hs[h]))
  <2>4. w \in WatchesOf(p0, hs[h])
    BY <2>3, FirstIn
  <2>5. w \in Watches(p0) /\ p0.watches[w].handle = h /\ w \in Handles
    BY <2>2, <2>4 DEF WatchesOf
  <2>6. p = Dropped(p0, w)
    BY <2>1, <2>3 DEF ClosedWatches, Unwatched, Dropped
  <2> HIDE DEF w
  <2>7. /\ JobsInv(p, k) /\ Unwatching(p0, p, {p0.watches[w].handle})
        /\ Watches(p) = Watches(p0) \ {w}
        /\ \A v \in Handles \ {w} : p.watches[v] = p0.watches[v]
        /\ p.jobs = p0.jobs /\ p.queue = p0.queue /\ p.done = p0.done /\ p.gen = p0.gen
        /\ p.active = p0.active /\ p.stopping = p0.stopping
        /\ p.watching = p0.watching - 1 /\ p0.watching > 0 /\ p.watching \in Nat
    <3>1. JobsInv(p0, k) /\ Watching(p0, hs, pr)
      OBVIOUS
    <3> QED
      BY ONLY <2>5, <2>6, <3>1, DropWatch
  <2>8. Keeping(p0, p, {h})
    BY <2>5, <2>7 DEF Keeping, Watches
  <2>9. Finished(p) \subseteq Finished(p0)
    BY <2>7 DEF Finished, Watches
  <2> QED
    BY <1>1, <2>5, <2>7, <2>8, <2>9 DEF FewerWatches
<1> QED
  BY <1>2, <1>3

\* A task gives up its child, whose handle is closed.
LEMMA ClosedUse ==
    ASSUME NEW p, NEW p2, NEW hs, NEW hs2, NEW rs \in [Tasks -> RegRecords], NEW o,
           Reserved(p, hs, rs, o), NEW ch \in [Tasks -> [handle : 0 .. HandleCapacity, gen : 0 .. MaxStarts]],
           Parented(hs, ch), NEW t \in Tasks, ch[t] # NoChild, NEW h, h = ch[t].handle,
           Unchanged(hs, hs2, {h}), hs2[h].occupied # 1,
           \A j \in Jobs : p.jobs[j].state \in Pending => p2.jobs[j] = p.jobs[j]
    PROVE  Reserved(p2, hs2, rs, o) /\ Parented(hs2, [ch EXCEPT ![t] = NoChild])
<1>1. h \in Handles /\ Open(hs[h]) /\ hs[h].gen = ch[t].gen
  BY DEF Parented, Open
<1>2. \A g \in Handles : Bare(hs2[g]) <=> Bare(hs[g])
  BY <1>1 DEF Bare, Open, Unchanged
<1>3. \A g \in Handles : Bare(hs[g]) => hs2[g].gen = hs[g].gen
  BY <1>1 DEF Bare, Open, Unchanged
<1>4. Reserved(p, hs2, rs, o)
  BY <1>2, <1>3, ReservedHandles
<1>5. Reserved(p2, hs2, rs, o)
  BY <1>4, ReservedKept
<1> DEFINE ch2 == [ch EXCEPT ![t] = NoChild]
<1>6. ch2[t] = NoChild /\ \A u \in Tasks \ {t} : ch2[u] = ch[u]
  OBVIOUS
<1>7. ASSUME NEW u \in Tasks, u # t, ch[u] # NoChild
      PROVE  ch[u].handle \in Handles /\ ch[u].handle # h
  <2>1. ch[u].handle \in Handles /\ hs[ch[u].handle].gen = ch[u].gen
    BY <1>7 DEF Parented
  <2>2. ASSUME ch[u].handle = h PROVE FALSE
    <3>1. ch[u].gen = ch[t].gen /\ ch[u].handle = ch[t].handle
      BY <1>1, <2>1, <2>2
    <3>2. ch[u] = ch[t]
      BY <3>1
    <3> QED
      BY <1>7, <3>2 DEF Parented
  <2> QED
    BY <2>1, <2>2
<1> HIDE DEF ch2
<1>8. \A u \in Tasks : ch2[u] # NoChild =>
         u # t /\ ch2[u] = ch[u] /\ ch[u].handle \in Handles /\ hs2[ch[u].handle] = hs[ch[u].handle]
  BY <1>6, <1>7 DEF Unchanged
<1>9. Parented(hs2, ch2)
  BY <1>8 DEF Parented
<1> QED
  BY <1>5, <1>9 DEF ch2

\* The wake registration of a pool whose watch of a closed handle has ended.
ClosedWake(p, s) == IF s.source = "worker" THEN Idle(p, wake) ELSE wake

LEMMA CloseWake ==
    ASSUME PoolInv, owner.at = "frames", NEW s, NEW p, p = ClosedWatches(pool, s),
           p.active = pool.active, p.watching # 0 => pool.watching # 0
    PROVE  /\ ClosedWake(p, s) \in BOOLEAN
           /\ ClosedWake(p, s) <=> p.active # 0 \/ p.watching # 0
<1>1. wake \in BOOLEAN /\ (wake <=> pool.active # 0 \/ pool.watching # 0)
  BY DEF PoolInv, Types, Waking, WakeExact
<1>2. CASE s.source = "worker"
  BY <1>1, <1>2 DEF ClosedWake, Idle
<1>3. CASE s.source # "worker"
  BY <1>1, <1>3 DEF ClosedWake, ClosedWatches
<1> QED
  BY <1>2, <1>3

\* The handle that task t closes.
ClosesHandle(t, h) ==
    /\ owner.at = "frames" /\ t \in Tasks /\ child[t] # NoChild
    /\ h \in Handles /\ h = child[t].handle /\ Open(handles[h])
    /\ child' = [child EXCEPT ![t] = NoChild] /\ live' = Down(live)
    /\ UNCHANGED <<pipe, owner, nextGen, regs, ready, lost>>

LEMMA CloseKnown ==
    ASSUME PoolInv, NEW t, NEW h, ClosesHandle(t, h), NEW s, s = handles[h],
           NEW p, p = ClosedWatches(pool, s), ExitKnown(pool, s),
           handles' = [handles EXCEPT ![h] = FreeHandle(s.gen)],
           proc' = IF UpdatesExit(s) THEN Reaped({s.pid}) ELSE proc,
           stale' = (stale \/ (UpdatesExit(s) /\ Gone(s.pid))),
           pool' = p, wake' = ClosedWake(p, s),
           worker' = IF p # pool THEN Signalled ELSE worker
    PROVE  PoolInv'
<1>1. /\ Types /\ Reserved(pool, handles, regs, owner) /\ Parented(handles, child)
      /\ Waking /\ Closing /\ regs \in [Tasks -> RegRecords] /\ Handled(handles)
      /\ pool \in Pools /\ worker \in Workers /\ JobsInv(pool, worker) /\ lost \in SUBSET Pids
      /\ handles \in [Handles -> HandleRecords] /\ Watching(pool, handles, proc)
      /\ Children(pool, handles, worker, proc, lost) /\ Numbered(handles, nextGen)
      /\ live = Cardinality(OpenHandles(handles)) /\ ~stale
      /\ proc \in [Pids -> {"unused", "running", "zombie", "reaped"}]
      /\ child \in [Tasks -> [handle : 0 .. HandleCapacity, gen : 0 .. MaxStarts]]
  BY DEF PoolInv, Types
<1>2. /\ owner.at = "frames" /\ t \in Tasks /\ child[t] # NoChild
      /\ h \in Handles /\ h = child[t].handle /\ Open(handles[h]) /\ s.pid # NoPid /\ s.occupied = 1
      /\ child' = [child EXCEPT ![t] = NoChild] /\ live' = Down(live)
      /\ UNCHANGED <<pipe, owner, nextGen, regs, ready, lost>>
  BY DEF ClosesHandle, Open
<1>3. /\ JobsInv(p, worker) /\ Unwatching(pool, p, {h}) /\ Keeping(pool, p, {h})
      /\ p.jobs = pool.jobs /\ p.queue = pool.queue /\ p.done = pool.done /\ p.gen = pool.gen
      /\ p.active = pool.active /\ p.stopping = pool.stopping
      /\ Finished(p) \subseteq Finished(pool)
      /\ p.watching \in Nat /\ (p.watching # 0 => pool.watching # 0)
  <2>1. p = ClosedWatches(pool, handles[h])
    OBVIOUS
  <2>2. JobsInv(pool, worker) /\ Watching(pool, handles, proc) /\ Handled(handles) /\ h \in Handles
    BY <1>1, <1>2
  <2>3. JobsInv(p, worker) /\ Unwatching(pool, p, {h}) /\ Keeping(pool, p, {h}) /\ FewerWatches(pool, p)
    BY ONLY <2>1, <2>2, CloseWatches
  <2> QED
    BY <2>3 DEF FewerWatches
<1>4. handles' = Freed(handles, {h})
  BY <1>1, <1>2 DEF Freed
<1>5. Reaps(handles[h]) <=> ~s.exited
  BY <1>1, <1>2 DEF Reaps, Handled
<1>6. UpdatesExit(s) => proc[s.pid] \in Alive /\ s.pid \in Pids
  <2> SUFFICES ASSUME UpdatesExit(s) PROVE proc[s.pid] \in Alive /\ s.pid \in Pids
    OBVIOUS
  <2>1. Reaps(handles[h]) /\ handles[h].pid # NoPid /\ handles[h].source = "reactor"
    BY <1>2, <1>5 DEF UpdatesExit
  <2>2. <<"handle", h>> \notin Late(pool, handles)
    BY <1>2, <2>1, LateAt
  <2>3. proc[handles[h].pid] \in Alive /\ handles[h].pid \in Pids
    BY ONLY <1>1, <1>2, <2>1, <2>2, HandleAlive
  <2> QED
    BY <2>3
<1>7. ~stale'
  BY <1>1, <1>6 DEF Gone, Alive
<1> DEFINE S == IF UpdatesExit(s) THEN {s.pid} ELSE {}
<1>8. \A x \in Pids : proc'[x] = IF x \in S THEN "reaped" ELSE proc[x]
  BY <1>1 DEF Reaped
<1>9. ~s.exited => proc'[s.pid] = "reaped"
  <2>1. CASE UpdatesExit(s)
    BY <1>6, <1>8, <2>1
  <2>2. CASE ~UpdatesExit(s) /\ ~s.exited
    <3>1. PICK w \in WatchesOf(pool, handles[h]) : pool.watches[w].completed
      BY <2>2 DEF ExitKnown
    <3>2. w \in Watches(pool) /\ pool.watches[w].handle = h
      <4>1. w \in Handles
        BY DEF WatchesOf
      <4> QED
        BY <1>1, <1>2, <3>1, <4>1, WatchOf
    <3>3. proc[s.pid] = "reaped"
      BY <1>1, <3>1, <3>2 DEF Watching
    <3> QED
      BY <2>2, <3>3
  <2> QED
    BY <2>1, <2>2
<1>10. Freeing(handles, proc, proc', {h}, S)
  <2>1. \A x \in S : Reaps(handles[h]) /\ handles[h].pid = x /\ x # NoPid
    BY <1>2, <1>5 DEF UpdatesExit
  <2> HIDE DEF S
  <2> QED
    BY <1>2, <1>5, <1>8, <1>9, <2>1 DEF Freeing
<1> HIDE DEF S
<1>11. /\ JobsInv(pool', worker') /\ worker' \in Workers /\ InHand(worker') = InHand(worker)
       /\ worker'.pc = "waiting" => worker' = worker
       /\ worker'.pc \in {"signal", "cleanup"} <=> worker.pc \in {"signal", "cleanup"}
  BY <1>3, SignalledJobs
<1>12. Unchanged(handles, handles', {h}) /\ handles'[h].occupied # 1
  BY <1>1, <1>2, <1>4 DEF Unchanged, Freed, FreeHandle
<1>13. LateKept(pool, pool', handles, handles', {h})
  BY <1>1, <1>3, <1>12, LateOthers
<1>14. Reserved(pool', handles', regs', owner') /\ Parented(handles', child')
  <2>1. \A j \in Jobs : pool.jobs[j].state \in Pending => p.jobs[j] = pool.jobs[j]
    BY <1>3
  <2>2. Reserved(p, handles', regs, owner) /\ Parented(handles', [child EXCEPT ![t] = NoChild])
    BY ONLY <1>1, <1>2, <1>12, <2>1, ClosedUse
  <2> QED
    BY <1>2, <2>2
<1>15. handles' \in [Handles -> HandleRecords]
  <2>1. {h} \in SUBSET Handles
    BY <1>2
  <2> QED
    BY ONLY <1>1, <1>4, <2>1, FreedFacts
<1>16. live' = Cardinality(OpenHandles(handles) \ {h}) /\ live' \in Nat
  <2>1. h \in OpenHandles(handles) /\ OpenHandles(handles) \in SUBSET Handles
    BY <1>2 DEF Open, OpenHandles
  <2>2. /\ Cardinality(OpenHandles(handles)) \in Nat
        /\ Cardinality(OpenHandles(handles) \ {h}) = Cardinality(OpenHandles(handles)) - 1
        /\ Cardinality(OpenHandles(handles)) > 0
    BY <1>2, <2>1, FiniteTables, CountOne
  <2> QED
    BY <1>1, <1>2, <2>2 DEF Down
<1>17. wake' \in BOOLEAN /\ (wake' <=> p.active # 0 \/ p.watching # 0)
  BY <1>2, <1>3, CloseWake
<1>18. Types'
  <2>1. pool' \in Pools
    BY <1>3 DEF JobsInv
  <2>2. child' \in [Tasks -> [handle : 0 .. HandleCapacity, gen : 0 .. MaxStarts]]
    <3>1. NoChild \in [handle : 0 .. HandleCapacity, gen : 0 .. MaxStarts]
      BY MaxStartsAssumption, HandleCapacityAssumption DEF NoChild, NoHandle
    <3> QED
      BY <1>1, <1>2, <3>1
  <2>3. proc' \in [Pids -> {"unused", "running", "zombie", "reaped"}]
    BY <1>1 DEF Reaped
  <2> QED
    BY <1>1, <1>2, <1>11, <1>15, <1>17, <2>1, <2>2, <2>3 DEF Types
<1>19. Waking'
  <2>1. WakeExact'
    BY <1>17 DEF WakeExact
  <2>2. WorkerAwake'
    <3> SUFFICES ASSUME worker'.pc = "waiting"
                 PROVE  pool'.queue = <<>> /\ pool'.watching = 0 /\ ~pool'.stopping
      BY DEF WorkerAwake
    <3>1. worker.pc = "waiting"
      BY <1>11
    <3> QED
      BY <1>1, <1>3, <3>1 DEF Waking, WorkerAwake
  <2>3. Completed' \subseteq Completed
    BY <1>3 DEF Completed, Finished
  <2>4. Announced' = Announced
    BY <1>2, <1>11 DEF Announced
  <2> QED
    BY <1>1, <1>2, <1>3, <2>1, <2>2, <2>3, <2>4 DEF Waking
<1>20. Closing'
  BY <1>2 DEF Closing
<1> QED
  <2>1. \A j \in Jobs : pool'.jobs[j].pid = pool.jobs[j].pid
    BY <1>3
  <2>2. Unwatching(pool, pool', {h}) /\ lost' = lost /\ nextGen' = nextGen
    BY <1>2, <1>3
  <2> QED
    BY <1>4, <1>7, <1>10, <1>11, <1>13, <1>14, <1>16, <1>18, <1>19, <1>20, <2>1, <2>2, FreedStep

\* A free job has the child of a reap now.
GivenTo(p, p2, j, pid) ==
    /\ j \in Jobs /\ p.jobs[j].state = "free" /\ p.jobs[j].pid = NoPid
    /\ p2.jobs[j].pid = pid
    /\ \A i \in Jobs \ {j} : p2.jobs[i] = p.jobs[i]
    /\ p2.active # 0 /\ p2.done = p.done /\ Beside(p, p2)

LEMMA GiveJob ==
    ASSUME NEW p, NEW k, JobsInv(p, k), FreeJobs(p) # {}, NEW pid \in Pids,
           NEW h \in 0 .. HandleCapacity, NEW g \in 0 .. MaxStarts,
           NEW p2, p2 = Submitted(p, ReapJob(pid, h, g))
    PROVE  JobsInv(p2, k) /\ GivenTo(p, p2, First(FreeJobs(p)), pid)
<1> DEFINE j == First(FreeJobs(p))
           rec == [ReapJob(pid, h, g) EXCEPT !.gen = p.gen + 1]
<1>1. /\ JobsInv(p2, k) /\ Beside(p, p2)
      /\ j \in Jobs /\ p.jobs[j].state = "free"
      /\ p2.jobs = [p.jobs EXCEPT ![j] = rec]
      /\ p2.done = p.done /\ p2.active = p.active + 1
  <2>1. /\ JobsInv(p, k) /\ FreeJobs(p) # {} /\ pid \in Pids /\ h \in 0 .. HandleCapacity
        /\ g \in 0 .. MaxStarts
    OBVIOUS
  <2>2. JobsInv(p2, k) /\ SubmittedTo(p, p2, First(FreeJobs(p)), ReapJob(pid, h, g))
    BY ONLY <2>1, SubmitReap, p2 = Submitted(p, ReapJob(pid, h, g))
  <2> QED
    BY <2>2 DEF SubmittedTo
<1>2. rec.pid = pid
  BY DEF ReapJob, FreeJob
<1> HIDE DEF j, rec
<1>3. p.jobs[j].pid = NoPid
  BY <1>1 DEF JobsInv, Loaded
<1>4. p2.jobs[j] = rec /\ \A i \in Jobs \ {j} : p2.jobs[i] = p.jobs[i]
  BY <1>1 DEF JobsInv, Pools
<1>5. p2.active # 0
  BY <1>1 DEF JobsInv, Pools
<1> QED
  BY <1>1, <1>2, <1>3, <1>4, <1>5 DEF GivenTo, j

\* A close that leaves the child to somebody.
LEMMA ClosedStep ==
    ASSUME PoolInv, NEW t, NEW h, ClosesHandle(t, h), NEW s, handles' = Put(handles, h, s),
           InUse(handles[h], s), s.occupied = 2, ~handles[h].exited,
           JobsInv(pool', worker'), worker' \in {worker, Signalled},
           Watching(pool', handles', proc'), Children(pool', handles', worker', proc', lost),
           proc' \in [Pids -> {"unused", "running", "zombie", "reaped"}], ~stale',
           wake' \in BOOLEAN, WakeExact', WorkerAwake', Finished(pool') \subseteq Finished(pool),
           pool'.done = pool.done,
           \A j \in Jobs : pool.jobs[j].state \in Pending => pool'.jobs[j] = pool.jobs[j]
    PROVE  PoolInv'
<1>1. /\ Types /\ Reserved(pool, handles, regs, owner) /\ Parented(handles, child)
      /\ Waking /\ Closing /\ regs \in [Tasks -> RegRecords] /\ Handled(handles)
      /\ pool \in Pools /\ worker \in Workers /\ JobsInv(pool, worker) /\ lost \in SUBSET Pids
      /\ handles \in [Handles -> HandleRecords] /\ Numbered(handles, nextGen)
      /\ live = Cardinality(OpenHandles(handles)) /\ ~stale
      /\ child \in [Tasks -> [handle : 0 .. HandleCapacity, gen : 0 .. MaxStarts]]
  BY DEF PoolInv, Types
<1>2. /\ owner.at = "frames" /\ t \in Tasks /\ child[t] # NoChild
      /\ h \in Handles /\ h = child[t].handle /\ Open(handles[h]) /\ handles[h].occupied = 1
      /\ child' = [child EXCEPT ![t] = NoChild] /\ live' = Down(live)
      /\ UNCHANGED <<pipe, owner, nextGen, regs, ready, lost>>
  BY DEF ClosesHandle, Open
<1>3. /\ handles' \in [Handles -> HandleRecords] /\ Unchanged(handles, handles', {h})
      /\ Handled(handles') /\ Numbered(handles', nextGen)
      /\ OpenHandles(handles') = OpenHandles(handles) \ {h}
  <2>1. /\ handles \in [Handles -> HandleRecords] /\ Handled(handles)
        /\ handles[h].occupied = 1 /\ ~handles[h].exited /\ h \in Handles
    BY <1>1, <1>2
  <2>2. /\ handles' \in [Handles -> HandleRecords] /\ Unchanged(handles, handles', {h})
        /\ Handled(handles')
        /\ \A m : Numbered(handles, m) => Numbered(handles', m)
        /\ s.occupied = 2 => OpenHandles(handles') = OpenHandles(handles) \ {h}
    BY ONLY <2>1, PutFacts, handles' = Put(handles, h, s), InUse(handles[h], s)
  <2> QED
    BY <1>1, <2>2
<1>4. handles'[h].occupied # 1
  BY <1>1, <1>2 DEF Put
<1>5. worker' \in Workers /\ (worker'.pc \in {"signal", "cleanup"} <=> worker.pc \in {"signal", "cleanup"})
  BY <1>1, SignalledJobs
<1>6. Reserved(pool', handles', regs', owner') /\ Parented(handles', child')
  <2>1. \A j \in Jobs : pool.jobs[j].state \in Pending => pool'.jobs[j] = pool.jobs[j]
    OBVIOUS
  <2>2. Reserved(pool', handles', regs, owner) /\ Parented(handles', [child EXCEPT ![t] = NoChild])
    BY ONLY <1>1, <1>2, <1>3, <1>4, <2>1, ClosedUse
  <2> QED
    BY <1>2, <2>2
<1>7. live' = Cardinality(OpenHandles(handles')) /\ live' \in Nat
  <2>1. h \in OpenHandles(handles) /\ OpenHandles(handles) \in SUBSET Handles
    BY <1>2 DEF Open, OpenHandles
  <2>2. /\ Cardinality(OpenHandles(handles)) \in Nat
        /\ Cardinality(OpenHandles(handles) \ {h}) = Cardinality(OpenHandles(handles)) - 1
        /\ Cardinality(OpenHandles(handles)) > 0
    BY <1>2, <2>1, FiniteTables, CountOne
  <2>3. live' = Cardinality(OpenHandles(handles) \ {h}) /\ live' \in Nat
    BY <1>1, <1>2, <2>2 DEF Down
  <2> QED
    BY ONLY <1>3, <2>3
<1>8. Types'
  <2>1. pool' \in Pools
    BY DEF JobsInv
  <2>2. child' \in [Tasks -> [handle : 0 .. HandleCapacity, gen : 0 .. MaxStarts]]
    <3>1. NoChild \in [handle : 0 .. HandleCapacity, gen : 0 .. MaxStarts]
      BY MaxStartsAssumption, HandleCapacityAssumption DEF NoChild, NoHandle
    <3> QED
      BY <1>1, <1>2, <3>1
  <2> QED
    BY <1>1, <1>2, <1>3, <1>5, <2>1, <2>2 DEF Types
<1>9. Waking'
  <2>1. Completed' \subseteq Completed
    BY DEF Completed, Finished
  <2>2. Announced' = Announced
    BY <1>2, <1>5 DEF Announced
  <2> QED
    BY <1>1, <1>2, <2>1, <2>2 DEF Waking
<1>10. Closing'
  BY <1>2 DEF Closing
<1> QED
  BY <1>1, <1>2, <1>3, <1>6, <1>7, <1>8, <1>9, <1>10 DEF PoolInv

\* Only a and b, two jobs or handles, have another child.
SameElse(p, p2, hs, hs2, k, k2, a, b) ==
    /\ \A i \in Jobs : <<"job", i>> # a /\ <<"job", i>> # b => p2.jobs[i].pid = p.jobs[i].pid
    /\ \A g \in Handles : <<"handle", g>> # a /\ <<"handle", g>> # b => hs2[g] = hs[g]
    /\ InHand(k2) = InHand(k)

LEMMA HoldElse ==
    ASSUME NEW p, NEW p2, NEW hs, NEW hs2, NEW k, NEW k2, NEW a, NEW b,
           SameElse(p, p2, hs, hs2, k, k2, a, b)
    PROVE  \A r \in Holders : r # a /\ r # b => Hold(p2, hs2, k2)[r] = Hold(p, hs, k)[r]
<1> SUFFICES ASSUME NEW r \in Holders, r # a, r # b
             PROVE  Hold(p2, hs2, k2)[r] = Hold(p, hs, k)[r]
  OBVIOUS
<1>1. CASE \E i \in Jobs : r = <<"job", i>>
  <2>1. PICK i \in Jobs : r = <<"job", i>>
    BY <1>1
  <2>2. Hold(p2, hs2, k2)[r] = p2.jobs[i].pid /\ Hold(p, hs, k)[r] = p.jobs[i].pid
    BY <2>1, HoldAt
  <2> QED
    BY <2>1, <2>2 DEF SameElse
<1>2. CASE \E g \in Handles : r = <<"handle", g>>
  <2>1. PICK g \in Handles : r = <<"handle", g>>
    BY <1>2
  <2>2. /\ Hold(p2, hs2, k2)[r] = IF Reaps(hs2[g]) THEN hs2[g].pid ELSE NoPid
        /\ Hold(p, hs, k)[r] = IF Reaps(hs[g]) THEN hs[g].pid ELSE NoPid
    BY <2>1, HoldAt
  <2>3. hs2[g] = hs[g]
    BY <2>1 DEF SameElse
  <2> QED
    BY <2>2, <2>3
<1>3. CASE r = <<"worker", 0>>
  <2>1. Hold(p2, hs2, k2)[r] = InHand(k2) /\ Hold(p, hs, k)[r] = InHand(k)
    BY <1>3, HoldAt
  <2> QED
    BY <2>1 DEF SameElse
<1> QED
  BY <1>1, <1>2, <1>3, HolderKinds

\* The child of a handle that is closed before the child has ended.
LEMMA ClosedChild ==
    ASSUME PoolInv, NEW t, NEW h, ClosesHandle(t, h), ~ExitKnown(pool, handles[h])
    PROVE  /\ h \in Handles /\ ~handles[h].exited /\ ~handles[h].reaping /\ handles[h].occupied = 1
           /\ Reaps(handles[h]) /\ handles[h].gen \in 0 .. MaxStarts /\ handles[h] \in HandleRecords
           /\ handles[h].pid \in Pids /\ handles[h].pid # NoPid /\ proc[handles[h].pid] \in Alive
           /\ <<"handle", h>> \in Holders
           /\ Hold(pool, handles, worker)[<<"handle", h>>] = handles[h].pid
<1>1. /\ handles \in [Handles -> HandleRecords] /\ Handled(handles) /\ lost \in SUBSET Pids
      /\ pool \in Pools /\ worker \in Workers
      /\ Children(pool, handles, worker, proc, lost)
  BY DEF PoolInv, Types
<1>2. h \in Handles /\ handles[h].occupied = 1 /\ handles[h].pid # NoPid
  BY DEF ClosesHandle, Open
<1>3. ~handles[h].exited
  BY DEF ExitKnown
<1>4. ~handles[h].reaping /\ handles[h] \in HandleRecords
  BY <1>1, <1>2 DEF Handled
<1>5. Reaps(handles[h])
  BY <1>2, <1>3, <1>4 DEF Reaps
<1>6. <<"handle", h>> \notin Late(pool, handles)
  BY <1>2, LateAt DEF ExitKnown
<1>7. /\ handles[h].pid \in Pids /\ proc[handles[h].pid] \in Alive
      /\ <<"handle", h>> \in Holders
      /\ Hold(pool, handles, worker)[<<"handle", h>>] = handles[h].pid
  BY ONLY <1>1, <1>2, <1>5, <1>6, HandleAlive
<1>8. handles[h].gen \in 0 .. MaxStarts
  BY <1>4 DEF HandleRecords
<1> QED
  BY <1>2, <1>3, <1>4, <1>5, <1>7, <1>8

\* The record of a handle whose child is left to a reap job, or to the sweep.
ClosedRecord(s, r) == [s EXCEPT !.occupied = 2, !.source = "none", !.reaping = r]

\* The child of a closed handle goes to b, or stays with the handle.
LEMMA CloseGives ==
    ASSUME PoolInv, NEW t, NEW h, ClosesHandle(t, h), ~ExitKnown(pool, handles[h]),
           NEW p, p = ClosedWatches(pool, handles[h]),
           NEW s, InUse(handles[h], s), s.occupied = 2, handles' = Put(handles, h, s),
           Beside(p, pool'), Dying(proc, proc'), pool'.done = p.done,
           JobsInv(pool', worker'), worker' \in {worker, Signalled},
           worker' = Signalled \/ pool' = pool,
           \A j \in Jobs : pool.jobs[j].state \in Pending => pool'.jobs[j] = pool.jobs[j],
           NEW b, Moved(Hold(pool, handles, worker), Hold(pool', handles', worker'), <<"handle", h>>, b),
           proc' \in [Pids -> {"unused", "running", "zombie", "reaped"}],
           stale' = (stale \/ Gone(handles[h].pid)),
           wake' \in BOOLEAN, wake' <=> pool'.active # 0 \/ pool'.watching # 0
    PROVE  PoolInv'
<1>1. /\ handles \in [Handles -> HandleRecords] /\ Handled(handles) /\ lost \in SUBSET Pids
      /\ pool \in Pools /\ worker \in Workers /\ JobsInv(pool, worker)
      /\ Watching(pool, handles, proc) /\ ~stale /\ Waking
      /\ Children(pool, handles, worker, proc, lost)
  BY DEF PoolInv, Types
<1>2. /\ h \in Handles /\ ~handles[h].exited /\ handles[h].occupied = 1
      /\ proc[handles[h].pid] \in Alive
      /\ Hold(pool, handles, worker)[<<"handle", h>>] = handles[h].pid
  BY ONLY ClosedChild, PoolInv, ClosesHandle(t, h), ~ExitKnown(pool, handles[h])
<1>3. JobsInv(p, worker) /\ Unwatching(pool, p, {h}) /\ Keeping(pool, p, {h}) /\ FewerWatches(pool, p)
  <2>1. p = ClosedWatches(pool, handles[h])
    OBVIOUS
  <2> QED
    BY ONLY <1>1, <1>2, <2>1, CloseWatches
<1>4. Unchanged(handles, handles', {h}) /\ NoneTold(handles, handles') /\ handles' \in [Handles -> HandleRecords]
  BY ONLY <1>1, <1>2, PutFacts, handles' = Put(handles, h, s), InUse(handles[h], s)
<1>5. Keeping(pool, pool', {h}) /\ Finished(pool') \subseteq Finished(pool) /\ pool'.done = pool.done
  BY <1>3 DEF Keeping, Beside, FewerWatches, Finished, Watches
<1>6. LateKept(pool, pool', handles, handles', {h})
  BY ONLY <1>1, <1>4, <1>5, LateOthers
<1>7. Children(pool', handles', worker', proc', lost)
  <2>1. proc[Hold(pool, handles, worker)[<<"handle", h>>]] \in Alive
    BY <1>2
  <2>2. \A g \in {h} : <<"handle", h>> = <<"handle", g>>
    OBVIOUS
  <2>3. NoneTold(handles, handles')
    BY <1>4
  <2>4. /\ pool \in Pools /\ handles \in [Handles -> HandleRecords] /\ worker \in Workers
        /\ lost \in SUBSET Pids /\ Children(pool, handles, worker, proc, lost) /\ Handled(handles)
    BY <1>1
  <2>5. Moved(Hold(pool, handles, worker), Hold(pool', handles', worker'), <<"handle", h>>, b)
    OBVIOUS
  <2>6. Dying(proc, proc')
    OBVIOUS
  <2> QED
    BY ONLY <1>6, <2>1, <2>2, <2>3, <2>4, <2>5, <2>6, ChildrenMove
<1>8. Watching(pool', handles', proc')
  <2>1. Watching(p, handles', proc)
    BY ONLY <1>1, <1>3, <1>4, WatchingDrop
  <2>2. \A g \in Handles : handles'[g].pid \in 0 .. MaxStarts
    BY <1>4 DEF HandleRecords
  <2>3. \A x \in Pids : proc'[x] = "reaped" <=> proc[x] = "reaped"
    BY DEF Dying, Alive
  <2>4. pool'.watches = p.watches /\ pool'.watching = p.watching
    BY DEF Beside
  <2> QED
    BY ONLY <2>1, <2>2, <2>3, <2>4, WatchingKept
<1>9. ~stale'
  BY <1>1, <1>2 DEF Gone, Alive
<1>10. WakeExact'
  BY DEF WakeExact
<1>11. WorkerAwake'
  <2>1. Signalled.pc # "waiting"
    BY <1>1, SignalledFacts
  <2>2. CASE worker' = Signalled
    BY <2>1, <2>2 DEF WorkerAwake
  <2>3. CASE worker' = worker /\ pool' = pool
    BY <1>1, <2>3 DEF Waking, WorkerAwake
  <2> QED
    BY <2>2, <2>3
<1> QED
  BY <1>2, <1>5, <1>7, <1>8, <1>9, <1>10, <1>11, ClosedStep

\* The child of a closed handle goes to a reap job.
LEMMA CloseMoves ==
    ASSUME PoolInv, NEW t, NEW h, ClosesHandle(t, h), ~ExitKnown(pool, handles[h]),
           NEW p, p = ClosedWatches(pool, handles[h]), FreeJobs(p) # {},
           pool' = Submitted(p, ReapJob(handles[h].pid, h, handles[h].gen)),
           wake' = TRUE, worker' = Signalled, proc' = proc,
           handles' = Put(handles, h, ClosedRecord(handles[h], TRUE)),
           stale' = (stale \/ Gone(handles[h].pid))
    PROVE  PoolInv'
<1> DEFINE s == ClosedRecord(handles[h], TRUE)
           j == First(FreeJobs(p))
           a == <<"handle", h>>
           b == <<"job", j>>
<1>1. /\ handles \in [Handles -> HandleRecords] /\ Handled(handles)
      /\ worker \in Workers /\ JobsInv(pool, worker)
      /\ Watching(pool, handles, proc)
      /\ proc \in [Pids -> {"unused", "running", "zombie", "reaped"}]
  BY DEF PoolInv, Types
<1>2. /\ h \in Handles /\ ~handles[h].exited /\ handles[h].occupied = 1
      /\ handles[h] \in HandleRecords /\ handles[h].gen \in 0 .. MaxStarts
      /\ handles[h].pid \in Pids /\ handles[h].pid # NoPid
      /\ a \in Holders
      /\ Hold(pool, handles, worker)[a] = handles[h].pid
  BY ONLY ClosedChild, PoolInv, ClosesHandle(t, h), ~ExitKnown(pool, handles[h])
<1>3. JobsInv(p, worker) /\ FewerWatches(pool, p)
  <2>1. p = ClosedWatches(pool, handles[h])
    OBVIOUS
  <2> QED
    BY ONLY <1>1, <1>2, <2>1, CloseWatches
<1>4. JobsInv(pool', worker) /\ GivenTo(p, pool', j, handles[h].pid)
  <2>1. h \in 0 .. HandleCapacity
    BY <1>2, HandleCapacityAssumption DEF Handles
  <2>2. FreeJobs(p) # {} /\ pool' = Submitted(p, ReapJob(handles[h].pid, h, handles[h].gen))
    OBVIOUS
  <2> QED
    BY ONLY <1>2, <1>3, <2>1, <2>2, GiveJob
<1> HIDE DEF j
<1>5. /\ JobsInv(pool', worker') /\ InHand(worker') = InHand(worker)
  BY <1>4, SignalledJobs
<1>6. /\ j \in Jobs /\ pool.jobs[j].state = "free" /\ pool.jobs[j].pid = NoPid
      /\ pool'.jobs[j].pid = handles[h].pid
      /\ \A i \in Jobs \ {j} : pool'.jobs[i] = pool.jobs[i]
      /\ pool'.active # 0 /\ pool'.done = p.done /\ Beside(p, pool')
  BY <1>3, <1>4 DEF GivenTo, FewerWatches
<1>7. InUse(handles[h], s) /\ s.occupied = 2 /\ s.reaping /\ ~Reaps(s)
  <2>1. s = [handles[h] EXCEPT !.occupied = 2, !.source = "none", !.reaping = TRUE]
    BY DEF ClosedRecord
  <2> HIDE DEF s
  <2>2. handles[h] \in HandleRecords
    BY <1>2
  <2>3. s.gen = handles[h].gen /\ (s.exited <=> handles[h].exited) /\ s.occupied = 2 /\ s.source = "none"
        /\ s.reaping = TRUE /\ s.pid = handles[h].pid
    BY ONLY <2>1, <2>2 DEF HandleRecords
  <2>4. s \in HandleRecords
    <3>1. /\ handles[h] \in [occupied : 0 .. 2, gen : 0 .. MaxStarts, pid : 0 .. MaxStarts,
                              exited : BOOLEAN, source : {"none", "reactor", "worker"}, reaping : BOOLEAN]
          /\ 2 \in 0 .. 2 /\ TRUE \in BOOLEAN /\ "none" \in {"none", "reactor", "worker"}
      BY <2>2 DEF HandleRecords
    <3> QED
      BY ONLY <2>1, <3>1 DEF HandleRecords
  <2> QED
    BY ONLY <1>2, <2>3, <2>4 DEF InUse, Reaps
<1>8. handles'[h] = s /\ \A g \in Handles \ {h} : handles'[g] = handles[g]
  BY <1>1, <1>2 DEF Put
<1> HIDE DEF s
<1>9. Moved(Hold(pool, handles, worker), Hold(pool', handles', worker'), a, b)
  <2> DEFINE d == Hold(pool, handles, worker)
             d2 == Hold(pool', handles', worker')
  <2>1. d[b] = NoPid /\ d2[b] = handles[h].pid /\ b \in Holders
    <3>1. d[b] = pool.jobs[j].pid
      BY <1>6, HoldAt
    <3>2. d2[b] = pool'.jobs[j].pid
      BY ONLY <1>6, HoldAt
    <3>3. b \in Holders
      BY <1>6, HolderKinds
    <3> QED
      BY <1>6, <3>1, <3>2, <3>3
  <2>2. d2[a] = NoPid
    <3>1. d2[a] = IF Reaps(handles'[h]) THEN handles'[h].pid ELSE NoPid
      BY ONLY <1>2, HoldAt
    <3> QED
      BY <1>7, <1>8, <3>1
  <2>3. \A r \in Holders : r # a /\ r # b => d2[r] = d[r]
    <3>1. \A i \in Jobs : <<"job", i>> # a /\ <<"job", i>> # b => pool'.jobs[i].pid = pool.jobs[i].pid
      BY <1>6
    <3>2. \A g \in Handles : <<"handle", g>> # a /\ <<"handle", g>> # b => handles'[g] = handles[g]
      BY <1>8
    <3>3. SameElse(pool, pool', handles, handles', worker, worker', a, b)
      BY <1>5, <3>1, <3>2 DEF SameElse
    <3> HIDE DEF a, b
    <3> QED
      BY ONLY <3>3, HoldElse
  <2>4. d[a] = handles[h].pid /\ a \in Holders /\ handles[h].pid # NoPid
    BY <1>2
  <2> HIDE DEF d, d2, a, b
  <2>5. Moved(d, d2, a, b)
    BY ONLY <2>1, <2>2, <2>3, <2>4 DEF Moved
  <2> QED
    BY <2>5 DEF d, d2
<1>10. \A i \in Jobs : pool.jobs[i].state \in Pending => pool'.jobs[i] = pool.jobs[i]
  BY <1>6 DEF Pending
<1>11. Dying(proc, proc')
  BY SameProc
<1>12. wake' \in BOOLEAN /\ (wake' <=> pool'.active # 0 \/ pool'.watching # 0)
  BY <1>6
<1>13. handles' = Put(handles, h, s)
  BY DEF s
<1>14. pool'.done = p.done /\ Beside(p, pool') /\ proc' \in [Pids -> {"unused", "running", "zombie", "reaped"}]
  BY <1>1, <1>6
<1>15. worker' \in {worker, Signalled} /\ (worker' = Signalled \/ pool' = pool)
  OBVIOUS
<1>16. /\ PoolInv /\ ClosesHandle(t, h) /\ ~ExitKnown(pool, handles[h])
       /\ p = ClosedWatches(pool, handles[h]) /\ stale' = (stale \/ Gone(handles[h].pid))
  OBVIOUS
<1> QED
  BY ONLY <1>5, <1>7, <1>9, <1>10, <1>11, <1>12, <1>13, <1>14, <1>15, <1>16, CloseGives DEF a

\* A closed handle keeps its child for the sweep.
LEMMA CloseKeeps ==
    ASSUME PoolInv, NEW t, NEW h, ClosesHandle(t, h), ~ExitKnown(pool, handles[h]),
           NEW p, p = ClosedWatches(pool, handles[h]), pool' = p,
           wake' \in BOOLEAN, ClosedWake(p, handles[h]) => wake',
           wake' => FreeJobs(p) = {},
           worker' = IF p # pool THEN Signalled ELSE worker,
           proc' = IF proc[handles[h].pid] = "running"
                   THEN [proc EXCEPT ![handles[h].pid] = "zombie"] ELSE proc,
           handles' = Put(handles, h, ClosedRecord(handles[h], FALSE)),
           stale' = (stale \/ Gone(handles[h].pid))
    PROVE  PoolInv'
<1> DEFINE s == ClosedRecord(handles[h], FALSE)
           a == <<"handle", h>>
<1>1. /\ handles \in [Handles -> HandleRecords] /\ Handled(handles)
      /\ worker \in Workers /\ JobsInv(pool, worker)
      /\ Watching(pool, handles, proc)
      /\ proc \in [Pids -> {"unused", "running", "zombie", "reaped"}]
  BY DEF PoolInv, Types
<1>2. /\ h \in Handles /\ ~handles[h].exited /\ handles[h].occupied = 1 /\ ~handles[h].reaping
      /\ handles[h] \in HandleRecords /\ handles[h].gen \in 0 .. MaxStarts
      /\ handles[h].pid \in Pids /\ handles[h].pid # NoPid
      /\ a \in Holders
      /\ Hold(pool, handles, worker)[a] = handles[h].pid
  BY ONLY ClosedChild, PoolInv, ClosesHandle(t, h), ~ExitKnown(pool, handles[h])
<1>3. JobsInv(p, worker) /\ FewerWatches(pool, p)
  <2>1. p = ClosedWatches(pool, handles[h])
    OBVIOUS
  <2> QED
    BY ONLY <1>1, <1>2, <2>1, CloseWatches
<1>4. /\ JobsInv(pool', worker') /\ InHand(worker') = InHand(worker) /\ worker' \in {worker, Signalled}
  BY <1>3, SignalledJobs
<1>5. worker' = Signalled \/ pool' = pool
  OBVIOUS
<1>6. \A i \in Jobs : pool'.jobs[i] = pool.jobs[i]
  BY <1>3 DEF FewerWatches
<1>7. InUse(handles[h], s) /\ s.occupied = 2 /\ ~s.reaping /\ Reaps(s) /\ s.pid = handles[h].pid
  <2>1. s = [handles[h] EXCEPT !.occupied = 2, !.source = "none", !.reaping = FALSE]
    BY DEF ClosedRecord
  <2> HIDE DEF s
  <2>2. handles[h] \in HandleRecords
    BY <1>2
  <2>3. s.gen = handles[h].gen /\ (s.exited <=> handles[h].exited) /\ s.occupied = 2 /\ s.source = "none"
        /\ s.reaping = FALSE /\ s.pid = handles[h].pid
    BY ONLY <2>1, <2>2 DEF HandleRecords
  <2>4. s \in HandleRecords
    <3>1. /\ handles[h] \in [occupied : 0 .. 2, gen : 0 .. MaxStarts, pid : 0 .. MaxStarts,
                              exited : BOOLEAN, source : {"none", "reactor", "worker"}, reaping : BOOLEAN]
          /\ 2 \in 0 .. 2 /\ FALSE \in BOOLEAN /\ "none" \in {"none", "reactor", "worker"}
      BY <2>2 DEF HandleRecords
    <3> QED
      BY ONLY <2>1, <3>1 DEF HandleRecords
  <2> QED
    BY ONLY <1>2, <2>3, <2>4 DEF InUse, Reaps
<1>8. handles'[h] = s /\ \A g \in Handles \ {h} : handles'[g] = handles[g]
  BY <1>1, <1>2 DEF Put
<1> HIDE DEF s
<1>9. Moved(Hold(pool, handles, worker), Hold(pool', handles', worker'), a, a)
  <2> DEFINE d == Hold(pool, handles, worker)
             d2 == Hold(pool', handles', worker')
  <2>1. d2[a] = handles[h].pid
    <3>1. d2[a] = IF Reaps(handles'[h]) THEN handles'[h].pid ELSE NoPid
      BY ONLY <1>2, HoldAt
    <3> QED
      BY <1>7, <1>8, <3>1
  <2>2. \A r \in Holders : r # a => d2[r] = d[r]
    <3>1. \A i \in Jobs : <<"job", i>> # a /\ <<"job", i>> # a => pool'.jobs[i].pid = pool.jobs[i].pid
      BY <1>6
    <3>2. \A g \in Handles : <<"handle", g>> # a /\ <<"handle", g>> # a => handles'[g] = handles[g]
      BY <1>8
    <3>3. SameElse(pool, pool', handles, handles', worker, worker', a, a)
      BY <1>4, <3>1, <3>2 DEF SameElse
    <3> HIDE DEF a
    <3> QED
      BY ONLY <3>3, HoldElse
  <2>3. d[a] = handles[h].pid /\ a \in Holders /\ handles[h].pid # NoPid
    BY <1>2
  <2> HIDE DEF d, d2, a
  <2>4. Moved(d, d2, a, a)
    BY ONLY <2>1, <2>2, <2>3 DEF Moved
  <2> QED
    BY <2>4 DEF d, d2
<1>10. \A i \in Jobs : pool.jobs[i].state \in Pending => pool'.jobs[i] = pool.jobs[i]
  BY <1>6
<1>11. Dying(proc, proc') /\ proc' \in [Pids -> {"unused", "running", "zombie", "reaped"}]
  BY <1>1, <1>2 DEF Dying, Alive
<1>12. wake' <=> pool'.active # 0 \/ pool'.watching # 0
  <2>1. ClosedWake(p, handles[h]) <=> p.active # 0 \/ p.watching # 0
    <3>1. owner.at = "frames" /\ p.active = pool.active /\ (p.watching # 0 => pool.watching # 0)
      BY <1>3 DEF ClosesHandle, FewerWatches
    <3> QED
      BY <3>1, CloseWake
  <2>2. wake' => p.active # 0
    <3>1. 1 \in Jobs
      BY JobCapacityAssumption DEF Jobs
    <3>2. FreeJobs(p) = {} => p.active # 0
      BY <1>3, <3>1, JobCounts DEF FreeJobs
    <3> QED
      BY <3>2
  <2> QED
    BY <2>1, <2>2
<1>13. handles' = Put(handles, h, s)
  BY DEF s
<1>14. pool'.done = p.done /\ Beside(p, pool') /\ wake' \in BOOLEAN
  BY DEF Beside
<1>15. /\ PoolInv /\ ClosesHandle(t, h) /\ ~ExitKnown(pool, handles[h])
       /\ p = ClosedWatches(pool, handles[h]) /\ stale' = (stale \/ Gone(handles[h].pid))
  OBVIOUS
<1> QED
  BY ONLY <1>4, <1>5, <1>7, <1>9, <1>10, <1>11, <1>12, <1>13, <1>14, <1>15, CloseGives DEF a

LEMMA CloseInv ==
    ASSUME PoolInv, NEW t \in Tasks, Close(t)
    PROVE  PoolInv'
<1> DEFINE h == child[t].handle
           s == handles[h]
           p == ClosedWatches(pool, s)
           w == ClosedWake(p, s)
<1>1. /\ owner.at = "frames" /\ child[t] # NoChild /\ s.occupied = 1 /\ s.pid # NoPid
      /\ IF ExitKnown(pool, s)
         THEN /\ handles' = [handles EXCEPT ![h] = FreeHandle(s.gen)]
              /\ proc' = IF UpdatesExit(s) THEN Reaped({s.pid}) ELSE proc
              /\ stale' = (stale \/ (UpdatesExit(s) /\ Gone(s.pid)))
              /\ pool' = p
              /\ wake' = w
              /\ worker' = IF p # pool THEN Signalled ELSE worker
         ELSE \E registered \in (IF w \/ "register" \notin Faults THEN {TRUE} ELSE BOOLEAN) :
              /\ pool' = Reaping(p, registered, s.pid, h, s.gen)
              /\ wake' = registered
              /\ worker' = IF p # pool \/ ReapFits(p, registered) THEN Signalled ELSE worker
              /\ proc' = IF ~ReapFits(p, registered) /\ proc[s.pid] = "running"
                         THEN [proc EXCEPT ![s.pid] = "zombie"] ELSE proc
              /\ handles' = [handles EXCEPT ![h].occupied = 2, ![h].source = "none",
                                            ![h].reaping = ReapFits(p, registered)]
              /\ stale' = (stale \/ Gone(s.pid))
      /\ child' = [child EXCEPT ![t] = NoChild]
      /\ live' = Down(live)
      /\ UNCHANGED <<pipe, owner, nextGen, regs, ready, lost>>
  BY DEF Close, Found, ClosedWatches, ClosedWake
<1>2. h \in Handles /\ handles \in [Handles -> HandleRecords]
  BY <1>1 DEF PoolInv, Types, Parented
<1>3. ClosesHandle(t, h)
  BY <1>1, <1>2 DEF ClosesHandle, Open
<1> HIDE DEF h
<1>4. CASE ExitKnown(pool, s)
  BY <1>1, <1>3, <1>4, CloseKnown
<1>5. CASE ~ExitKnown(pool, s)
  <2>1. PICK registered \in (IF w \/ "register" \notin Faults THEN {TRUE} ELSE BOOLEAN) :
           /\ pool' = Reaping(p, registered, s.pid, h, s.gen)
           /\ wake' = registered
           /\ worker' = IF p # pool \/ ReapFits(p, registered) THEN Signalled ELSE worker
           /\ proc' = IF ~ReapFits(p, registered) /\ proc[s.pid] = "running"
                      THEN [proc EXCEPT ![s.pid] = "zombie"] ELSE proc
           /\ handles' = [handles EXCEPT ![h].occupied = 2, ![h].source = "none",
                                         ![h].reaping = ReapFits(p, registered)]
           /\ stale' = (stale \/ Gone(s.pid))
    BY <1>1, <1>5
  <2>2. registered \in BOOLEAN /\ (w => registered)
    BY <2>1
  <2>3. CASE registered /\ FreeJobs(p) # {}
    <3>1. ReapFits(p, registered) = TRUE
      BY <2>3 DEF ReapFits
    <3>2. pool' = Submitted(p, ReapJob(s.pid, h, s.gen)) /\ worker' = Signalled /\ proc' = proc /\ wake' = TRUE
      BY <2>1, <2>3, <3>1 DEF Reaping
    <3>3. handles' = Put(handles, h, ClosedRecord(s, TRUE))
      BY <1>2, <2>1, <3>1 DEF Put, ClosedRecord
    <3> QED
      BY <1>3, <1>5, <2>1, <2>3, <3>2, <3>3, CloseMoves
  <2>4. CASE ~(registered /\ FreeJobs(p) # {})
    <3>1. ReapFits(p, registered) = FALSE
      BY <2>4 DEF ReapFits
    <3>2. /\ pool' = p /\ worker' = IF p # pool THEN Signalled ELSE worker
          /\ proc' = IF proc[s.pid] = "running" THEN [proc EXCEPT ![s.pid] = "zombie"] ELSE proc
      BY <2>1, <3>1 DEF Reaping
    <3>3. handles' = Put(handles, h, ClosedRecord(s, FALSE))
      BY <1>2, <2>1, <3>1 DEF Put, ClosedRecord
    <3>4. wake' \in BOOLEAN /\ (w => wake') /\ (wake' => FreeJobs(p) = {})
      BY <2>1, <2>2, <2>4
    <3> QED
      BY <1>3, <1>5, <2>1, <3>2, <3>3, <3>4, CloseKeeps
  <2> QED
    BY <2>3, <2>4
<1> QED
  BY <1>4, <1>5

-----------------------------------------------------------------------------
(* A start is submitted.                                                   *)

\* The children that the sweep waits for.
SweptPids == {handles[h].pid : h \in Swept}

LEMMA SweepFacts ==
    ASSUME PoolInv, proc' = Reaped(SweptPids), NEW hs, hs = Freed(handles, Swept)
    PROVE  /\ hs \in [Handles -> HandleRecords] /\ Handled(hs) /\ Numbered(hs, nextGen)
           /\ Children(pool, hs, worker, proc', lost) /\ Watching(pool, hs, proc')
           /\ OpenHandles(hs) = OpenHandles(handles)
           /\ Reserved(pool, hs, regs, owner) /\ Parented(hs, child)
           /\ proc' \in [Pids -> {"unused", "running", "zombie", "reaped"}]
           /\ \A x \in SweptPids : ~Gone(x)
<1>1. /\ Types /\ Reserved(pool, handles, regs, owner) /\ Parented(handles, child)
      /\ regs \in [Tasks -> RegRecords] /\ Handled(handles)
      /\ pool \in Pools /\ worker \in Workers /\ JobsInv(pool, worker) /\ lost \in SUBSET Pids
      /\ handles \in [Handles -> HandleRecords] /\ Watching(pool, handles, proc)
      /\ Children(pool, handles, worker, proc, lost) /\ Numbered(handles, nextGen)
      /\ proc \in [Pids -> {"unused", "running", "zombie", "reaped"}]
  BY DEF PoolInv, Types
<1>2. Swept \in SUBSET Handles
  BY DEF Swept
<1>3. ASSUME NEW h \in Swept
      PROVE  /\ h \in Handles /\ handles[h].occupied = 2 /\ Reaps(handles[h])
             /\ handles[h].pid # NoPid
             /\ handles[h].pid \in Pids /\ proc[handles[h].pid] \in Alive
  <2>1. /\ h \in Handles /\ handles[h].occupied = 2 /\ ~handles[h].reaping /\ handles[h].pid # NoPid
    BY DEF Swept
  <2>2. handles[h].source = "none" /\ ~handles[h].exited
    BY <1>1, <2>1 DEF Handled
  <2>3. Reaps(handles[h])
    BY <2>1, <2>2 DEF Reaps
  <2>4. <<"handle", h>> \notin Late(pool, handles)
    BY <2>1, <2>2, LateAt
  <2>5. handles[h].pid \in Pids /\ proc[handles[h].pid] \in Alive
    BY ONLY <1>1, <2>1, <2>3, <2>4, HandleAlive
  <2> QED
    BY <2>1, <2>3, <2>5
<1>4. \A x \in Pids : proc'[x] = IF x \in SweptPids THEN "reaped" ELSE proc[x]
  BY DEF Reaped
<1>5. Freeing(handles, proc, proc', Swept, SweptPids)
  <2>1. \A x \in SweptPids : \E h \in Swept : Reaps(handles[h]) /\ handles[h].pid = x /\ x # NoPid
    BY <1>3 DEF SweptPids
  <2>2. \A h \in Swept : handles[h].pid \in SweptPids
    BY DEF SweptPids
  <2>3. \A h \in Swept : proc'[handles[h].pid] = "reaped"
    BY <1>3, <1>4, <2>2
  <2> QED
    BY <1>2, <1>4, <2>1, <2>3 DEF Freeing
<1>6. /\ hs \in [Handles -> HandleRecords]
      /\ \A h \in Handles \ Swept : hs[h] = handles[h]
      /\ \A h \in Swept : hs[h].occupied = 0
      /\ Handled(hs) /\ Numbered(hs, nextGen)
      /\ OpenHandles(hs) = OpenHandles(handles) \ Swept
  BY <1>1, <1>2, FreedFacts
<1>7. OpenHandles(hs) = OpenHandles(handles)
  BY <1>3, <1>6 DEF OpenHandles
<1>8. \A w \in Watches(pool) : pool.watches[w].handle \notin Swept
  BY <1>1, <1>3 DEF Watching
<1>9. Unwatching(pool, pool, Swept)
  BY <1>1, <1>8 DEF Unwatching, Watching
<1>10. LateKept(pool, pool, handles, hs, Swept)
  <2>1. Keeping(pool, pool, Swept) /\ Unchanged(handles, hs, Swept)
    BY <1>6 DEF Keeping, Unchanged
  <2> QED
    BY ONLY <1>1, <2>1, LateOthers
<1>11. Children(pool, hs, worker, proc', lost)
  <2>1. /\ pool \in Pools /\ handles \in [Handles -> HandleRecords] /\ worker \in Workers
        /\ lost \in SUBSET Pids /\ Children(pool, handles, worker, proc, lost) /\ Handled(handles)
    BY <1>1
  <2>2. \A h \in Handles \ Swept : <<"handle", h>> \in Late(pool, handles) =>
                                      <<"handle", h>> \in Late(pool, Freed(handles, Swept))
    BY <1>10 DEF LateKept
  <2>3. Children(pool, Freed(handles, Swept), worker, proc', lost)
    BY ONLY <1>5, <2>1, <2>2, ChildrenFreed
  <2> QED
    BY <2>3
<1>12. Watching(pool, hs, proc')
  <2>1. Watching(pool, Freed(handles, Swept), proc')
    BY ONLY <1>1, <1>5, <1>9, WatchingFreed
  <2> QED
    BY <2>1
<1>13. SameUse(handles, hs)
  BY <1>3, <1>6 DEF SameUse, Bare, Open
<1>14. Reserved(pool, hs, regs, owner) /\ Parented(hs, child)
  BY ONLY <1>1, <1>13, SameUseKept
<1>15. proc' \in [Pids -> {"unused", "running", "zombie", "reaped"}]
  BY <1>1 DEF Reaped
<1>16. \A x \in SweptPids : ~Gone(x)
  BY <1>3 DEF SweptPids, Gone, Alive
<1> QED
  BY <1>6, <1>7, <1>11, <1>12, <1>14, <1>15, <1>16

\* The record of a handle that a start takes or gives up, with a new number.
Renumbered(r, n) ==
    /\ r \in HandleRecords /\ r.gen = n + 1 /\ r.pid = NoPid /\ ~r.exited /\ ~r.reaping
    /\ r.source = "none" /\ r.occupied \in {0, 1}

LEMMA RenumberedFacts ==
    ASSUME NEW hs \in [Handles -> HandleRecords], Handled(hs), NEW n \in Nat, Numbered(hs, n),
           NEW h \in Handles, hs[h].occupied = 0, NEW r, Renumbered(r, n),
           NEW hs2, hs2 = Put(hs, h, r)
    PROVE  /\ hs2 \in [Handles -> HandleRecords] /\ Unchanged(hs, hs2, {h}) /\ Handled(hs2)
           /\ Numbered(hs2, n + 1) /\ OpenHandles(hs2) = OpenHandles(hs) /\ NoneTold(hs, hs2)
           /\ hs[h].pid = NoPid
<1>1. r \in HandleRecords /\ r.gen = n + 1 /\ r.pid = NoPid /\ ~r.exited /\ r.gen # 0
  BY DEF Renumbered
<1>2. hs2 \in [Handles -> HandleRecords] /\ hs2[h] = r /\ \A g \in Handles \ {h} : hs2[g] = hs[g]
  BY <1>1 DEF Put
<1>3. \A g \in Handles : hs[g].gen \in Nat /\ hs[g].gen <= n
  BY MaxStartsAssumption DEF HandleRecords, Numbered
<1>4. ASSUME NEW g \in Handles
      PROVE  /\ hs2[g].occupied = 0 => hs2[g].pid = NoPid
             /\ hs2[g].occupied # 0 => hs2[g].gen # 0
             /\ hs2[g].occupied = 1 => ~hs2[g].reaping /\ (hs2[g].pid = NoPid => hs2[g].source = "none")
             /\ hs2[g].occupied = 2 => hs2[g].pid # NoPid /\ hs2[g].source = "none" /\ ~hs2[g].exited
             /\ hs2[g].exited => hs2[g].pid # NoPid
  <2>1. CASE g = h
    BY <1>1, <1>2, <2>1 DEF Renumbered
  <2>2. CASE g # h
    BY <1>2, <2>2 DEF Handled
  <2> QED
    BY <2>1, <2>2
<1>5. ASSUME NEW f \in Handles, NEW g \in Handles, hs2[f].gen = hs2[g].gen, hs2[f].gen # 0
      PROVE  f = g
  <2>1. \A e \in Handles \ {h} : hs2[e].gen # hs2[h].gen
    BY <1>1, <1>2, <1>3
  <2>2. CASE f # h /\ g # h
    BY <1>2, <1>5, <2>2 DEF Handled
  <2> QED
    BY <1>5, <2>1, <2>2
<1>6. Handled(hs2)
  BY <1>4, <1>5 DEF Handled
<1>7. Numbered(hs2, n + 1)
  BY <1>1, <1>2, <1>3 DEF Numbered
<1>8. hs[h].pid = NoPid
  BY DEF Handled
<1>9. OpenHandles(hs2) = OpenHandles(hs)
  BY <1>1, <1>2, <1>8 DEF OpenHandles
<1>10. NoneTold(hs, hs2)
  BY <1>1, <1>2 DEF NoneTold
<1>11. Unchanged(hs, hs2, {h})
  BY <1>2 DEF Unchanged
<1> QED
  BY <1>2, <1>6, <1>7, <1>8, <1>9, <1>10, <1>11

\* The registration of a new start.
NewReg(j, g, h, n) ==
    [NoReg EXCEPT !.kind = "start", !.job = j, !.jgen = g, !.handle = h, !.hgen = n]

LEMMA RegBegins ==
    ASSUME NEW p, NEW p2, NEW hs, NEW hs2, NEW rs \in [Tasks -> RegRecords], NEW o, NEW o2,
           Reserved(p, hs, rs, o), o.at = "frames", NEW t \in Tasks, rs[t].kind = "none",
           p \in Pools, NEW j, SubmittedTo(p, p2, j, StartJob),
           NEW h \in Handles, Unchanged(hs, hs2, {h}), hs[h].occupied = 0,
           NEW n, hs2[h].occupied = 1, hs2[h].pid = NoPid, hs2[h].gen = n,
           NEW r, r = NewReg(j, p.gen + 1, h, n), NEW rs2, rs2 = [rs EXCEPT ![t] = r],
           o2.at = "arm", o2.task = t
    PROVE  Reserved(p2, hs2, rs2, o2)
<1>1. /\ r.kind = "start" /\ r.job = j /\ r.jgen = p.gen + 1 /\ r.handle = h /\ r.hgen = n
      /\ ~r.active /\ ~r.ready
  BY DEF NewReg, NoReg
<1>2. rs2[t] = r /\ \A u \in Tasks \ {t} : rs2[u] = rs[u]
  OBVIOUS
<1>3. /\ j \in Jobs /\ p.jobs[j].state = "free"
      /\ p2.jobs[j].gen = p.gen + 1 /\ p2.jobs[j].state = "start_queued"
      /\ \A i \in Jobs \ {j} : p2.jobs[i] = p.jobs[i]
  <2>1. j \in Jobs /\ p.jobs[j].state = "free" /\ p2.jobs = [p.jobs EXCEPT ![j] = [StartJob EXCEPT !.gen = p.gen + 1]]
    BY DEF SubmittedTo
  <2>2. p.jobs \in [Jobs -> JobRecords]
    BY DEF Pools
  <2>3. p2.jobs[j] = [StartJob EXCEPT !.gen = p.gen + 1] /\ \A i \in Jobs \ {j} : p2.jobs[i] = p.jobs[i]
    BY <2>1, <2>2
  <2> QED
    BY <2>1, <2>3 DEF StartJob, FreeJob
<1>4. \A u \in Tasks : rs[u].job \in Jobs /\ rs[u].handle \in Handles
  BY DEF RegRecords
<1>5. ASSUME NEW u \in Tasks, u # t, rs[u].kind = "start"
      PROVE  /\ rs[u].job # j /\ rs[u].handle # h /\ rs2[u] = rs[u]
             /\ p2.jobs[rs[u].job] = p.jobs[rs[u].job] /\ hs2[rs[u].handle] = hs[rs[u].handle]
  <2>1. p.jobs[rs[u].job].state \in Pending /\ hs[rs[u].handle].occupied = 1
    BY <1>5 DEF Reserved
  <2>2. rs[u].job # j /\ rs[u].handle # h
    BY <1>3, <2>1 DEF Pending
  <2> QED
    BY <1>2, <1>3, <1>4, <1>5, <2>2 DEF Unchanged
<1>6. ASSUME NEW u \in Tasks, rs2[u].kind = "start"
      PROVE  /\ p2.jobs[rs2[u].job].gen = rs2[u].jgen
             /\ p2.jobs[rs2[u].job].state \in Pending
             /\ rs2[u].ready <=> p2.jobs[rs2[u].job].state = "start_delivered"
             /\ rs2[u].active <=> ~rs2[u].ready /\ ~(o2.at = "arm" /\ o2.task = u)
             /\ hs2[rs2[u].handle].occupied = 1 /\ hs2[rs2[u].handle].pid = NoPid
             /\ hs2[rs2[u].handle].gen = rs2[u].hgen
  <2>1. CASE u = t
    BY <1>1, <1>2, <1>3, <2>1 DEF Pending
  <2>2. CASE u # t
    <3>1. rs2[u] = rs[u] /\ rs[u].kind = "start"
      BY <1>2, <1>6, <2>2
    <3>2. p2.jobs[rs[u].job] = p.jobs[rs[u].job] /\ hs2[rs[u].handle] = hs[rs[u].handle]
      BY <1>5, <2>2, <3>1
    <3>3. rs[u].active <=> ~rs[u].ready
      BY <3>1 DEF Reserved
    <3> QED
      BY <2>2, <3>1, <3>2, <3>3 DEF Reserved
  <2> QED
    BY <2>1, <2>2
<1>7. ASSUME NEW u \in Tasks, rs2[u].kind = "none"
      PROVE  ~rs2[u].ready
  BY <1>1, <1>2, <1>7 DEF Reserved
<1>8. ASSUME NEW u \in Tasks, NEW v \in Tasks, u # v, rs2[u].kind = "start", rs2[v].kind = "start"
      PROVE  rs2[u].job # rs2[v].job /\ rs2[u].handle # rs2[v].handle
  <2>1. CASE u = t
    BY <1>1, <1>2, <1>5, <1>8, <2>1
  <2>2. CASE v = t
    BY <1>1, <1>2, <1>5, <1>8, <2>2
  <2>3. CASE u # t /\ v # t
    BY <1>2, <1>8, <2>3 DEF Reserved
  <2> QED
    BY <2>1, <2>2, <2>3
<1>9. rs2[t].kind = "start" /\ ~rs2[t].ready
  BY <1>1, <1>2
<1>10. ASSUME NEW g \in Handles, hs2[g].occupied = 1, hs2[g].pid = NoPid
       PROVE  \E u \in Tasks : rs2[u].kind = "start" /\ rs2[u].handle = g
  <2>1. CASE g = h
    BY <1>1, <1>2, <2>1
  <2>2. CASE g # h
    <3>1. hs[g].occupied = 1 /\ hs[g].pid = NoPid
      BY <1>10, <2>2 DEF Unchanged
    <3>2. PICK u \in Tasks : rs[u].kind = "start" /\ rs[u].handle = g
      BY <3>1 DEF Reserved
    <3>3. u # t
      BY <3>2
    <3> QED
      BY <1>2, <3>2, <3>3
  <2> QED
    BY <2>1, <2>2
<1> QED
  BY <1>6, <1>7, <1>8, <1>9, <1>10 DEF Reserved

\* A handle gets a new number while a start is submitted or refused.
LEMMA RenumberedStep ==
    ASSUME PoolInv, owner.at = "frames", proc' = Reaped(SweptPids),
           stale' = (stale \/ \E x \in SweptPids : Gone(x)),
           NEW hs, hs = Freed(handles, Swept), NEW h \in Handles, hs[h].occupied = 0,
           NEW r, Renumbered(r, nextGen), handles' = Put(hs, h, r),
           nextGen < MaxStarts, nextGen' = nextGen + 1,
           JobsInv(pool', worker'), worker' \in {worker, Signalled}, Beside(pool, pool'),
           pool'.done = pool.done, \A j \in Jobs : pool'.jobs[j].pid = pool.jobs[j].pid,
           Reserved(pool', handles', regs', owner'), regs' \in [Tasks -> RegRecords],
           owner' \in [at : {"frames", "arm"}, task : Tasks \cup {NoTask}],
           wake' \in BOOLEAN, WakeExact', WorkerAwake',
           UNCHANGED <<pipe, live, child, ready, lost>>
    PROVE  PoolInv'
<1>1. /\ Types /\ Parented(handles, child) /\ Waking /\ Closing
      /\ pool \in Pools /\ worker \in Workers /\ JobsInv(pool, worker) /\ lost \in SUBSET Pids
      /\ live = Cardinality(OpenHandles(handles)) /\ ~stale /\ nextGen \in Nat
  BY MaxStartsAssumption DEF PoolInv, Types
<1>2. /\ hs \in [Handles -> HandleRecords] /\ Handled(hs) /\ Numbered(hs, nextGen)
      /\ Children(pool, hs, worker, proc', lost) /\ Watching(pool, hs, proc')
      /\ OpenHandles(hs) = OpenHandles(handles) /\ Parented(hs, child)
      /\ proc' \in [Pids -> {"unused", "running", "zombie", "reaped"}]
      /\ \A x \in SweptPids : ~Gone(x)
  <2>1. PoolInv /\ proc' = Reaped(SweptPids) /\ hs = Freed(handles, Swept)
    OBVIOUS
  <2> QED
    BY ONLY <2>1, SweepFacts
<1>3. /\ handles' \in [Handles -> HandleRecords] /\ Unchanged(hs, handles', {h}) /\ Handled(handles')
      /\ Numbered(handles', nextGen + 1) /\ OpenHandles(handles') = OpenHandles(hs)
      /\ NoneTold(hs, handles') /\ hs[h].pid = NoPid
  <2>1. h \in Handles /\ hs[h].occupied = 0 /\ Renumbered(r, nextGen) /\ handles' = Put(hs, h, r)
    OBVIOUS
  <2> QED
    BY ONLY <1>1, <1>2, <2>1, RenumberedFacts
<1>4. handles'[h].pid = NoPid
  BY <1>2 DEF Put, Renumbered
<1>5. /\ worker' \in Workers /\ InHand(worker') = InHand(worker)
      /\ worker'.pc \in {"signal", "cleanup"} <=> worker.pc \in {"signal", "cleanup"}
  BY <1>1, SignalledJobs
<1>6. \A w \in Watches(pool) : pool.watches[w].handle # h
  BY <1>2 DEF Watching
<1>7. Watching(pool', handles', proc')
  <2>1. Unwatching(pool, pool, {h})
    BY <1>2, <1>6 DEF Unwatching, Watching
  <2>2. Watching(pool, handles', proc')
    BY ONLY <1>2, <1>3, <2>1, WatchingDrop
  <2>3. pool'.watches = pool.watches /\ pool'.watching = pool.watching
    BY DEF Beside
  <2>4. \A g \in Handles : handles'[g].pid \in 0 .. MaxStarts
    BY <1>3 DEF HandleRecords
  <2>5. \A x \in Pids : proc'[x] = "reaped" <=> proc'[x] = "reaped"
    OBVIOUS
  <2> QED
    BY ONLY <2>2, <2>3, <2>4, <2>5, WatchingKept
<1>8. \A x \in Holders : Hold(pool', handles', worker')[x] = Hold(pool, hs, worker)[x]
  <2>1. \A j \in Jobs : Hold(pool', handles', worker')[<<"job", j>>] = Hold(pool, hs, worker)[<<"job", j>>]
    <3>1. /\ \A j \in Jobs : Hold(pool', handles', worker')[<<"job", j>>] = pool'.jobs[j].pid
          /\ \A j \in Jobs : Hold(pool, hs, worker)[<<"job", j>>] = pool.jobs[j].pid
      BY ONLY HoldAt
    <3>2. \A j \in Jobs : pool'.jobs[j].pid = pool.jobs[j].pid
      OBVIOUS
    <3> QED
      BY ONLY <3>1, <3>2
  <2>2. ASSUME NEW g \in Handles
        PROVE  Hold(pool', handles', worker')[<<"handle", g>>] = Hold(pool, hs, worker)[<<"handle", g>>]
    <3>1. /\ Hold(pool', handles', worker')[<<"handle", g>>] = IF Reaps(handles'[g]) THEN handles'[g].pid ELSE NoPid
          /\ Hold(pool, hs, worker)[<<"handle", g>>] = IF Reaps(hs[g]) THEN hs[g].pid ELSE NoPid
      BY ONLY HoldAt
    <3>2. g # h => handles'[g] = hs[g]
      BY <1>3 DEF Unchanged
    <3> QED
      BY ONLY <1>3, <1>4, <3>1, <3>2
  <2>3. Hold(pool', handles', worker')[<<"worker", 0>>] = Hold(pool, hs, worker)[<<"worker", 0>>]
    BY <1>5, HoldAt
  <2> QED
    BY <2>1, <2>2, <2>3, HolderKinds
<1>9. LateKept(pool, pool', hs, handles', {g \in Handles : hs[g].pid = NoPid})
  <2>1. Keeping(pool, pool', {h})
    BY DEF Keeping, Beside, Watches
  <2>2. LateKept(pool, pool', hs, handles', {h})
    BY ONLY <1>2, <1>3, <2>1, LateOthers
  <2> QED
    BY <1>3, <2>2 DEF LateKept
<1>10. Children(pool', handles', worker', proc', lost')
  <2>1. Dying(proc', proc')
    BY DEF Dying
  <2>2. Children(pool', handles', worker', proc', lost)
    BY ONLY <1>1, <1>2, <1>3, <1>8, <1>9, <2>1, ChildrenStay
  <2> QED
    BY <2>2
<1>11. Parented(handles', child')
  <2>1. \A g \in Handles : Open(hs[g]) => Open(handles'[g]) /\ handles'[g].gen = hs[g].gen
    BY <1>3 DEF Unchanged, Open
  <2>2. Parented(handles', child)
    BY ONLY <1>2, <2>1, ParentedKept
  <2> QED
    BY <2>2
<1>12. live' = Cardinality(OpenHandles(handles'))
  BY <1>1, <1>2, <1>3
<1>13. ~stale'
  BY <1>1, <1>2
<1>14. Types'
  <2>1. pool' \in Pools /\ nextGen' \in 0 .. MaxStarts
    BY <1>1, MaxStartsAssumption DEF JobsInv
  <2>2. owner' \in [at : {"frames", "arm", "drain", "watches", "rearm", "join", "down"},
                    task : Tasks \cup {NoTask}]
    OBVIOUS
  <2> QED
    BY <1>1, <1>2, <1>3, <1>5, <2>1, <2>2 DEF Types
<1>15. Waking'
  <2>1. Completed' = Completed
    BY DEF Completed, Beside
  <2>2. Announced' = Announced
    BY <1>5 DEF Announced
  <2>3. owner'.at \in {"frames", "arm"}
    OBVIOUS
  <2> QED
    BY <1>1, <2>1, <2>2, <2>3 DEF Waking
<1>16. Closing'
  BY DEF Closing
<1> QED
  BY <1>3, <1>7, <1>10, <1>11, <1>12, <1>13, <1>14, <1>15, <1>16 DEF PoolInv

\* No handle is free.
LEMMA SpawnRefused ==
    ASSUME PoolInv, proc' = Reaped(SweptPids), stale' = (stale \/ \E x \in SweptPids : Gone(x)),
           handles' = Freed(handles, Swept), owner.at = "frames",
           UNCHANGED <<pool, wake, worker, owner, nextGen, regs, pipe, live, child, ready, lost>>
    PROVE  PoolInv'
<1>1. /\ handles' \in [Handles -> HandleRecords] /\ Handled(handles') /\ Numbered(handles', nextGen)
      /\ Children(pool, handles', worker, proc', lost) /\ Watching(pool, handles', proc')
      /\ OpenHandles(handles') = OpenHandles(handles)
      /\ Reserved(pool, handles', regs, owner) /\ Parented(handles', child)
      /\ proc' \in [Pids -> {"unused", "running", "zombie", "reaped"}]
      /\ \A x \in SweptPids : ~Gone(x)
  BY SweepFacts
<1>2. /\ Types /\ Waking /\ Closing /\ ~stale /\ JobsInv(pool, worker)
      /\ live = Cardinality(OpenHandles(handles))
  BY DEF PoolInv
<1>3. Types'
  BY <1>1, <1>2 DEF Types
<1>4. Waking'
  BY <1>2 DEF Waking, WakeExact, WorkerAwake, Announced, Completed
<1>5. Closing'
  BY <1>2 DEF Closing
<1>6. ~stale'
  BY <1>1, <1>2
<1> QED
  BY <1>1, <1>2, <1>3, <1>4, <1>5, <1>6 DEF PoolInv

\* What ensure_wake leaves.
LEMMA EnsuredWake ==
    ASSUME Types, NEW registered \in EnsureWake
    PROVE  registered \in BOOLEAN /\ (wake => registered)
BY DEF EnsureWake, Types

\* A start for which the pool has no room.
LEMMA SpawnUnfit ==
    ASSUME PoolInv, owner.at = "frames", proc' = Reaped(SweptPids),
           stale' = (stale \/ \E x \in SweptPids : Gone(x)),
           NEW hs, hs = Freed(handles, Swept), NEW h \in Handles, hs[h].occupied = 0,
           nextGen < MaxStarts, nextGen' = nextGen + 1,
           handles' = Put(hs, h, FreeHandle(nextGen + 1)),
           wake' \in EnsureWake, ~(wake' /\ StartFits(pool)),
           worker' = IF NoPool THEN Signalled ELSE worker,
           UNCHANGED <<pool, owner, regs, pipe, live, child, ready, lost>>
    PROVE  PoolInv'
<1>1. /\ Types /\ Waking /\ JobsInv(pool, worker) /\ regs \in [Tasks -> RegRecords]
      /\ nextGen \in 0 .. MaxStarts
      /\ owner \in [at : {"frames", "arm", "drain", "watches", "rearm", "join", "down"},
                    task : Tasks \cup {NoTask}]
  BY DEF PoolInv, Types
<1>2. nextGen \in Nat /\ nextGen + 1 \in 0 .. MaxStarts
  BY <1>1, MaxStartsAssumption
<1>3. Renumbered(FreeHandle(nextGen + 1), nextGen)
  BY <1>2, FreeHandleFacts DEF Renumbered
<1>4. wake' \in BOOLEAN /\ (wake => wake')
  BY <1>1, EnsuredWake
<1>5. worker' \in {worker, Signalled}
  OBVIOUS
<1>6. JobsInv(pool', worker') /\ (worker'.pc = "waiting" => worker' = worker)
  BY <1>1, <1>5, SignalledJobs
<1>7. WakeExact' /\ WorkerAwake'
  <2>1. wake' => pool.active # 0
    <3>1. 1 \in Jobs
      BY JobCapacityAssumption DEF Jobs
    <3>2. /\ pool.starts <= pool.active /\ pool.starts \in Nat /\ pool.active \in Nat
          /\ pool.active # 0 <=> \E i \in Jobs : pool.jobs[i].state # "free"
      BY ONLY <1>1, <3>1, JobCounts
    <3>3. FreeJobs(pool) = {} => pool.active # 0
      BY <3>1, <3>2 DEF FreeJobs
    <3>4. ~(pool.starts < StartCapacity) => pool.active # 0
      BY <3>2, StartCapacityAssumption, JobCapacityAssumption
    <3> QED
      BY <3>3, <3>4 DEF StartFits
  <2>2. wake <=> pool.active # 0 \/ pool.watching # 0
    BY <1>1 DEF Waking, WakeExact
  <2> QED
    BY <1>1, <1>4, <1>6, <2>1, <2>2 DEF Waking, WakeExact, WorkerAwake
<1>8. Reserved(pool', handles', regs', owner')
  <2>1. /\ hs \in [Handles -> HandleRecords] /\ Reserved(pool, hs, regs, owner) /\ Parented(hs, child)
    BY SweepFacts
  <2>2. \A g \in Handles \ {h} : handles'[g] = hs[g]
    BY <2>1 DEF Put
  <2>3. handles'[h].occupied = 0
    BY <1>3, <2>1 DEF Put, FreeHandle
  <2>4. SameUse(hs, handles')
    BY <2>2, <2>3 DEF SameUse, Bare, Open
  <2>5. Reserved(pool, handles', regs, owner)
    BY ONLY <1>1, <2>1, <2>4, SameUseKept
  <2> QED
    BY <2>5
<1>9. owner' \in [at : {"frames", "arm"}, task : Tasks \cup {NoTask}]
  BY <1>1
<1>10. Beside(pool, pool') /\ pool'.done = pool.done /\ \A j \in Jobs : pool'.jobs[j].pid = pool.jobs[j].pid
  BY DEF Beside
<1>11. regs' \in [Tasks -> RegRecords] /\ UNCHANGED <<pipe, live, child, ready, lost>>
  BY <1>1
<1>12. /\ PoolInv /\ owner.at = "frames" /\ proc' = Reaped(SweptPids)
       /\ stale' = (stale \/ \E x \in SweptPids : Gone(x))
       /\ hs = Freed(handles, Swept) /\ h \in Handles /\ hs[h].occupied = 0
       /\ nextGen < MaxStarts /\ nextGen' = nextGen + 1
       /\ handles' = Put(hs, h, FreeHandle(nextGen + 1))
  OBVIOUS
<1> QED
  BY ONLY <1>3, <1>4, <1>5, <1>6, <1>7, <1>8, <1>9, <1>10, <1>11, <1>12, RenumberedStep

\* A start is submitted.
LEMMA SpawnFits ==
    ASSUME PoolInv, owner.at = "frames", NEW t \in Tasks, regs[t].kind = "none",
           proc' = Reaped(SweptPids), stale' = (stale \/ \E x \in SweptPids : Gone(x)),
           NEW hs, hs = Freed(handles, Swept), NEW h \in Handles, hs[h].occupied = 0,
           nextGen < MaxStarts, nextGen' = nextGen + 1,
           handles' = Put(hs, h, [FreeHandle(nextGen + 1) EXCEPT !.occupied = 1]),
           wake' = TRUE, StartFits(pool), worker' = Signalled, pool' = StartSubmitted(pool),
           regs' = [regs EXCEPT ![t] =
                      NewReg(First(FreeJobs(pool)), pool.gen + 1, h, nextGen + 1)],
           owner' = [at |-> "arm", task |-> t],
           UNCHANGED <<pipe, live, child, ready, lost>>
    PROVE  PoolInv'
<1> DEFINE r == [FreeHandle(nextGen + 1) EXCEPT !.occupied = 1]
           j == First(FreeJobs(pool))
<1>1. /\ Types /\ JobsInv(pool, worker) /\ regs \in [Tasks -> RegRecords]
      /\ nextGen \in 0 .. MaxStarts /\ worker \in Workers /\ pool \in Pools
  BY DEF PoolInv, Types
<1>2. nextGen \in Nat /\ nextGen + 1 \in 0 .. MaxStarts /\ pool.gen + 1 \in Nat
  BY <1>1, MaxStartsAssumption DEF Pools
<1>3. Renumbered(r, nextGen) /\ r.occupied = 1
  <2> DEFINE f == FreeHandle(nextGen + 1)
  <2>1. /\ f \in HandleRecords /\ f.gen = nextGen + 1 /\ f.pid = NoPid
        /\ ~f.exited /\ f.source = "none" /\ ~f.reaping
    BY <1>2, FreeHandleFacts
  <2>2. r = [f EXCEPT !.occupied = 1] /\ 1 \in 0 .. 2
    OBVIOUS
  <2> HIDE DEF r, f
  <2>3. r \in HandleRecords /\ r.occupied = 1 /\ r.gen = f.gen /\ r.pid = f.pid
        /\ (r.exited <=> f.exited) /\ r.source = f.source /\ (r.reaping <=> f.reaping)
    BY ONLY <2>1, <2>2 DEF HandleRecords
  <2> QED
    BY ONLY <2>1, <2>3 DEF Renumbered
<1>4. JobsInv(pool', worker) /\ SubmittedTo(pool, pool', j, StartJob)
  <2>1. StartFits(pool) /\ pool' = StartSubmitted(pool)
    OBVIOUS
  <2> QED
    BY ONLY <1>1, <2>1, SubmitStart
<1>5. JobsInv(pool', worker') /\ worker'.pc # "waiting"
  BY <1>1, <1>4, SignalledJobs, SignalledFacts
<1> HIDE DEF j, r
<1>6. /\ Beside(pool, pool') /\ j \in Jobs /\ pool'.done = pool.done
      /\ pool'.active = pool.active + 1 /\ pool'.active # 0
      /\ \A i \in Jobs : pool'.jobs[i].pid = pool.jobs[i].pid
  <2>1. /\ Beside(pool, pool') /\ j \in Jobs /\ pool.jobs[j].state = "free"
        /\ pool'.jobs = [pool.jobs EXCEPT ![j] = [StartJob EXCEPT !.gen = pool.gen + 1]]
        /\ pool'.done = pool.done /\ pool'.active = pool.active + 1
    BY <1>4 DEF SubmittedTo
  <2>2. pool.jobs[j].pid = NoPid
    BY <1>1, <2>1 DEF JobsInv, Loaded
  <2>3. \A i \in Jobs : pool'.jobs[i].pid = pool.jobs[i].pid
    <3>1. pool.jobs \in [Jobs -> JobRecords]
      BY <1>1 DEF Pools
    <3> QED
      BY <2>1, <2>2, <3>1 DEF StartJob, FreeJob
  <2>4. pool.active \in Nat
    BY <1>1 DEF Pools
  <2> QED
    BY <2>1, <2>3, <2>4
<1>7. WakeExact' /\ WorkerAwake'
  BY <1>5, <1>6 DEF WakeExact, WorkerAwake
<1>8. /\ hs \in [Handles -> HandleRecords] /\ Reserved(pool, hs, regs, owner)
  BY SweepFacts
<1>9. Unchanged(hs, handles', {h}) /\ handles'[h] = r
  BY <1>8 DEF Put, Unchanged, r
<1>10. Reserved(pool', handles', regs', owner')
  <2>1. handles'[h].occupied = 1 /\ handles'[h].pid = NoPid /\ handles'[h].gen = nextGen + 1
    BY <1>3, <1>9 DEF Renumbered
  <2>2. owner'.at = "arm" /\ owner'.task = t
    OBVIOUS
  <2>3. regs' = [regs EXCEPT ![t] = NewReg(j, pool.gen + 1, h, nextGen + 1)]
    BY DEF j
  <2>4. owner.at = "frames" /\ t \in Tasks /\ regs[t].kind = "none" /\ h \in Handles /\ hs[h].occupied = 0
    OBVIOUS
  <2> QED
    BY ONLY <1>1, <1>4, <1>8, <1>9, <2>1, <2>2, <2>3, <2>4, RegBegins
<1>11. regs' \in [Tasks -> RegRecords]
  <2>1. NewReg(j, pool.gen + 1, h, nextGen + 1) \in RegRecords
    BY <1>2, <1>6 DEF NewReg, NoReg, RegRecords
  <2> QED
    BY <1>1, <2>1 DEF j
<1>12. owner' \in [at : {"frames", "arm"}, task : Tasks \cup {NoTask}]
  OBVIOUS
<1>13. worker' \in {worker, Signalled} /\ wake' \in BOOLEAN /\ UNCHANGED <<pipe, live, child, ready, lost>>
  OBVIOUS
<1>14. /\ PoolInv /\ owner.at = "frames" /\ proc' = Reaped(SweptPids)
       /\ stale' = (stale \/ \E x \in SweptPids : Gone(x))
       /\ hs = Freed(handles, Swept) /\ h \in Handles /\ hs[h].occupied = 0
       /\ nextGen < MaxStarts /\ nextGen' = nextGen + 1 /\ handles' = Put(hs, h, r)
  BY DEF r
<1> QED
  BY ONLY <1>3, <1>5, <1>6, <1>7, <1>10, <1>11, <1>12, <1>13, <1>14, RenumberedStep

LEMMA SpawnStartInv ==
    ASSUME PoolInv, NEW t \in Tasks, SpawnStart(t)
    PROVE  PoolInv'
<1> DEFINE hs == [g \in Handles |-> IF g \in Swept THEN FreeHandle(handles[g].gen) ELSE handles[g]]
           free == {g \in Handles : hs[g].occupied = 0}
           h == First(free)
<1>1. /\ owner.at = "frames" /\ regs[t].kind = "none" /\ nextGen < MaxStarts
      /\ proc' = Reaped(SweptPids) /\ stale' = (stale \/ \E x \in SweptPids : Gone(x))
      /\ UNCHANGED <<pipe, live, child, ready, lost>>
  BY DEF SpawnStart, SweptPids
<1>2. CASE free = {} /\ handles' = hs /\ UNCHANGED <<pool, wake, worker, owner, nextGen, regs>>
  BY <1>1, <1>2, SpawnRefused DEF Freed
<1>3. ASSUME free # {}, nextGen' = nextGen + 1, NEW registered \in EnsureWake, wake' = registered
      PROVE  /\ h \in Handles /\ hs[h].occupied = 0
             /\ wake' \in EnsureWake
  <2>1. free \in SUBSET Nat
    BY HandleCapacityAssumption DEF Handles
  <2>2. h \in free
    BY <1>3, <2>1, FirstIn
  <2> QED
    BY <1>3, <2>2
<1>4. ASSUME free # {}, nextGen' = nextGen + 1, wake' \in EnsureWake, wake' /\ StartFits(pool),
             worker' = Signalled,
             pool' = [Submitted(pool, StartJob) EXCEPT !.starts = @ + 1],
             handles' = [hs EXCEPT ![h] = [FreeHandle(nextGen + 1) EXCEPT !.occupied = 1]],
             regs' = [regs EXCEPT ![t] = [NoReg EXCEPT !.kind = "start",
                                        !.job = First(FreeJobs(pool)), !.jgen = pool.gen + 1,
                                        !.handle = h, !.hgen = nextGen + 1]],
             owner' = [at |-> "arm", task |-> t]
      PROVE  PoolInv'
  <2>1. h \in Handles /\ hs[h].occupied = 0
    BY <1>3, <1>4
  <2>2. pool' = StartSubmitted(pool)
    BY <1>4 DEF StartSubmitted, Submitted
  <2>3. regs' = [regs EXCEPT ![t] = NewReg(First(FreeJobs(pool)), pool.gen + 1, h, nextGen + 1)]
    BY <1>4 DEF NewReg
  <2>4. handles' = Put(hs, h, [FreeHandle(nextGen + 1) EXCEPT !.occupied = 1])
    BY <1>4 DEF Put
  <2>5. wake' = TRUE
    BY <1>4, EnsuredWake DEF PoolInv
  <2>6. hs = Freed(handles, Swept) /\ PoolInv /\ t \in Tasks
    BY DEF Freed
  <2> HIDE DEF hs, h, free
  <2> QED
    BY ONLY <1>1, <1>4, <2>1, <2>2, <2>3, <2>4, <2>5, <2>6, SpawnFits
<1>5. ASSUME free # {}, nextGen' = nextGen + 1, wake' \in EnsureWake, ~(wake' /\ StartFits(pool)),
             worker' = IF NoPool THEN Signalled ELSE worker,
             handles' = [hs EXCEPT ![h] = FreeHandle(nextGen + 1)],
             UNCHANGED <<pool, regs, owner>>
      PROVE  PoolInv'
  <2>1. h \in Handles /\ hs[h].occupied = 0
    BY <1>3, <1>5
  <2>2. handles' = Put(hs, h, FreeHandle(nextGen + 1))
    BY <1>5 DEF Put
  <2>3. hs = Freed(handles, Swept) /\ PoolInv
    BY DEF Freed
  <2>4. UNCHANGED <<pool, owner, regs, pipe, live, child, ready, lost>>
    BY <1>1, <1>5
  <2> HIDE DEF hs, h, free
  <2> QED
    BY ONLY <1>1, <1>5, <2>1, <2>2, <2>3, <2>4, SpawnUnfit
<1> QED
  <2>1. \/ free = {} /\ handles' = hs /\ UNCHANGED <<pool, wake, worker, owner, nextGen, regs>>
        \/ /\ free # {} /\ nextGen' = nextGen + 1
           /\ \E registered \in EnsureWake :
                 LET fits == registered /\ StartFits(pool) IN
                 /\ wake' = registered
                 /\ worker' = IF fits \/ NoPool THEN Signalled ELSE worker
                 /\ IF fits
                    THEN /\ pool' = [Submitted(pool, StartJob) EXCEPT !.starts = @ + 1]
                         /\ handles' = [hs EXCEPT ![h] = [FreeHandle(nextGen + 1) EXCEPT !.occupied = 1]]
                         /\ regs' = [regs EXCEPT ![t] =
                               [NoReg EXCEPT !.kind = "start", !.job = First(FreeJobs(pool)),
                                  !.jgen = pool.gen + 1, !.handle = h, !.hgen = nextGen + 1]]
                         /\ owner' = [at |-> "arm", task |-> t]
                    ELSE /\ handles' = [hs EXCEPT ![h] = FreeHandle(nextGen + 1)]
                         /\ UNCHANGED <<pool, regs, owner>>
    BY DEF SpawnStart
  <2> HIDE DEF hs, h, free
  <2>2. ASSUME free # {}, nextGen' = nextGen + 1, NEW registered \in EnsureWake, wake' = registered,
               worker' = IF (registered /\ StartFits(pool)) \/ NoPool THEN Signalled ELSE worker,
               IF registered /\ StartFits(pool)
               THEN /\ pool' = [Submitted(pool, StartJob) EXCEPT !.starts = @ + 1]
                    /\ handles' = [hs EXCEPT ![h] = [FreeHandle(nextGen + 1) EXCEPT !.occupied = 1]]
                    /\ regs' = [regs EXCEPT ![t] =
                          [NoReg EXCEPT !.kind = "start", !.job = First(FreeJobs(pool)),
                             !.jgen = pool.gen + 1, !.handle = h, !.hgen = nextGen + 1]]
                    /\ owner' = [at |-> "arm", task |-> t]
               ELSE /\ handles' = [hs EXCEPT ![h] = FreeHandle(nextGen + 1)]
                    /\ UNCHANGED <<pool, regs, owner>>
        PROVE  PoolInv'
    <3>1. CASE registered /\ StartFits(pool)
      BY ONLY <1>4, <2>2, <3>1
    <3>2. CASE ~(registered /\ StartFits(pool))
      BY ONLY <1>5, <2>2, <3>2
    <3> QED
      BY <3>1, <3>2
  <2> QED
    BY ONLY <1>2, <2>1, <2>2

-----------------------------------------------------------------------------
(* The timer of a start.                                                   *)

Armed(rs, t) == [rs EXCEPT ![t].timer = "armed", ![t].active = TRUE]

\* The start is armed, and owned by the reactor until its completion.
LEMMA RegArmed ==
    ASSUME NEW p, NEW hs, NEW rs \in [Tasks -> RegRecords], NEW o, NEW o2,
           Reserved(p, hs, rs, o), o.at = "arm", o2.at = "frames",
           NEW t, t = o.task, NEW rs2, rs2 = Armed(rs, t)
    PROVE  Reserved(p, hs, rs2, o2) /\ rs2 \in [Tasks -> RegRecords]
<1>1. t \in Tasks /\ rs[t].kind = "start" /\ ~rs[t].ready
  BY DEF Reserved
<1>2. /\ rs2 \in [Tasks -> RegRecords]
      /\ rs2[t].active = TRUE
      /\ \A u \in Tasks : /\ rs2[u].kind = rs[u].kind /\ rs2[u].job = rs[u].job
                          /\ rs2[u].jgen = rs[u].jgen /\ rs2[u].handle = rs[u].handle
                          /\ rs2[u].hgen = rs[u].hgen /\ (rs2[u].ready <=> rs[u].ready)
                          /\ u # t => rs2[u] = rs[u]
  BY <1>1 DEF RegRecords, Armed
<1>3. ASSUME NEW u \in Tasks, rs2[u].kind = "start"
      PROVE  /\ p.jobs[rs2[u].job].gen = rs2[u].jgen
             /\ p.jobs[rs2[u].job].state \in Pending
             /\ rs2[u].ready <=> p.jobs[rs2[u].job].state = "start_delivered"
             /\ rs2[u].active <=> ~rs2[u].ready /\ ~(o2.at = "arm" /\ o2.task = u)
             /\ hs[rs2[u].handle].occupied = 1 /\ hs[rs2[u].handle].pid = NoPid
             /\ hs[rs2[u].handle].gen = rs2[u].hgen
  BY <1>1, <1>2, <1>3 DEF Reserved
<1>4. \A u \in Tasks : rs2[u].kind = "none" => ~rs2[u].ready
  BY <1>2 DEF Reserved
<1>5. \A u, v \in Tasks :
          u # v /\ rs2[u].kind = "start" /\ rs2[v].kind = "start" =>
              rs2[u].job # rs2[v].job /\ rs2[u].handle # rs2[v].handle
  BY <1>2 DEF Reserved
<1>6. \A h \in Handles : hs[h].occupied = 1 /\ hs[h].pid = NoPid =>
              \E u \in Tasks : rs2[u].kind = "start" /\ rs2[u].handle = h
  BY <1>2 DEF Reserved
<1>7. o2.at # "arm" /\ o2.at \notin {"join", "down"}
  OBVIOUS
<1> QED
  <2>1. \A u \in Tasks :
          /\ rs2[u].kind = "start" =>
                /\ p.jobs[rs2[u].job].gen = rs2[u].jgen
                /\ p.jobs[rs2[u].job].state \in Pending
                /\ rs2[u].ready <=> p.jobs[rs2[u].job].state = "start_delivered"
                /\ rs2[u].active <=> ~rs2[u].ready /\ ~(o2.at = "arm" /\ o2.task = u)
                /\ hs[rs2[u].handle].occupied = 1 /\ hs[rs2[u].handle].pid = NoPid
                /\ hs[rs2[u].handle].gen = rs2[u].hgen
          /\ rs2[u].kind = "none" => ~rs2[u].ready
    BY ONLY <1>3, <1>4
  <2> QED
    BY ONLY <1>2, <1>5, <1>6, <1>7, <2>1 DEF Reserved

LEMMA TimerArmed ==
    ASSUME PoolInv, owner.at = "arm", owner' = [at |-> "frames", task |-> NoTask],
           NEW t, t = owner.task,
           regs' = [regs EXCEPT ![t].timer = "armed", ![t].active = TRUE],
           UNCHANGED <<pool, wake, worker, lost, handles, pipe, nextGen, live, child, ready,
                       proc, stale>>
    PROVE  PoolInv'
<1>1. /\ Types /\ Reserved(pool, handles, regs, owner) /\ Parented(handles, child)
      /\ Waking /\ Closing /\ regs \in [Tasks -> RegRecords] /\ ~stale
  BY DEF PoolInv, Types
<1>2. Reserved(pool', handles', regs', owner') /\ regs' \in [Tasks -> RegRecords]
  <2>1. owner'.at = "frames"
    OBVIOUS
  <2>2. /\ owner.at = "arm" /\ t = owner.task
    OBVIOUS
  <2>3. regs' = Armed(regs, t)
    BY DEF Armed
  <2>4. Reserved(pool, handles, regs', owner') /\ regs' \in [Tasks -> RegRecords]
    BY ONLY <1>1, <2>1, <2>2, <2>3, RegArmed
  <2> QED
    BY <2>4
<1>3. Types'
  BY <1>1, <1>2 DEF Types
<1>4. Waking'
  BY <1>1 DEF Waking, WakeExact, WorkerAwake, Announced, Completed
<1>5. Closing'
  BY DEF Closing
<1>6. Dying(proc, proc')
  BY SameProc
<1>7. /\ JobsInv(pool', worker') /\ Beside(pool, pool')
      /\ \A j \in Jobs : pool'.jobs[j].pid = pool.jobs[j].pid
      /\ InHand(worker') = InHand(worker)
  BY SamePool
<1> QED
  BY <1>1, <1>2, <1>3, <1>4, <1>5, <1>6, <1>7, QuietStep

-----------------------------------------------------------------------------
(* A start ends.                                                           *)

\* The owner forgets the start of task t.
EndsStart(t) ==
    /\ t \in Tasks /\ regs[t].kind = "start"
    /\ owner.at \in {"frames", "arm"} /\ (owner.at = "arm" => owner.task = t)
    /\ regs' = [regs EXCEPT ![t] = NoReg]
    /\ owner' \in [at : {"frames"}, task : Tasks \cup {NoTask}]
    /\ ready' \subseteq ready /\ ~stale'
    /\ UNCHANGED <<pipe, nextGen>>

LEMMA StartEndsStep ==
    ASSUME PoolInv, NEW t, EndsStart(t), NEW h, h = regs[t].handle,
           JobsInv(pool', worker'), worker' \in {worker, Signalled}, pool'.done = pool.done,
           \A j \in Jobs \ {regs[t].job} : pool.jobs[j].state \in Pending => pool'.jobs[j] = pool.jobs[j],
           Watching(pool', handles', proc'), Children(pool', handles', worker', proc', lost'),
           Finished(pool') \subseteq Finished(pool),
           handles' \in [Handles -> HandleRecords], Unchanged(handles, handles', {h}),
           Handled(handles'), Numbered(handles', nextGen), ~Bare(handles'[h]),
           proc' \in [Pids -> {"unused", "running", "zombie", "reaped"}], lost' \in SUBSET Pids,
           child' \in [Tasks -> [handle : 0 .. HandleCapacity, gen : 0 .. MaxStarts]],
           Parented(handles', child'), live' = Cardinality(OpenHandles(handles')),
           wake' \in BOOLEAN, WakeExact', WorkerAwake'
    PROVE  PoolInv'
<1>1. /\ Types /\ Reserved(pool, handles, regs, owner) /\ Waking /\ JobsInv(pool, worker)
      /\ regs \in [Tasks -> RegRecords] /\ ready \subseteq Tasks
      /\ pipe \in BOOLEAN /\ nextGen \in 0 .. MaxStarts
  BY DEF PoolInv, Types
<1>2. /\ t \in Tasks /\ regs[t].kind = "start"
      /\ owner.at \in {"frames", "arm"} /\ (owner.at = "arm" => owner.task = t)
      /\ regs' = [regs EXCEPT ![t] = NoReg] /\ owner'.at = "frames"
      /\ owner' \in [at : {"frames", "arm", "drain", "watches", "rearm", "join", "down"},
                     task : Tasks \cup {NoTask}]
      /\ ready' \subseteq ready /\ ~stale' /\ UNCHANGED <<pipe, nextGen>>
  BY DEF EndsStart
<1>3. Reserved(pool', handles', regs', owner')
  <2>1. GivesUp(pool, pool', handles, handles', regs[t])
    BY DEF Unchanged, GivesUp
  <2> QED
    BY ONLY <1>1, <1>2, <2>1, RegEnds
<1>4. worker' \in Workers /\ (worker'.pc \in {"signal", "cleanup"} <=> worker.pc \in {"signal", "cleanup"})
  BY <1>1, SignalledJobs
<1>5. Types'
  <2>1. pool' \in Pools
    BY DEF JobsInv
  <2>2. regs' \in [Tasks -> RegRecords]
    <3>1. NoReg \in RegRecords
      BY JobCapacityAssumption, HandleCapacityAssumption, MaxStartsAssumption
      DEF NoReg, RegRecords, Jobs, Handles
    <3> QED
      BY <1>1, <1>2, <3>1
  <2> QED
    BY <1>1, <1>2, <1>4, <2>1, <2>2 DEF Types
<1>6. Waking'
  <2>1. Completed' \subseteq Completed
    BY DEF Completed, Finished
  <2>2. Announced' = Announced
    BY <1>2, <1>4 DEF Announced
  <2> QED
    BY <1>1, <1>2, <2>1, <2>2 DEF Waking
<1>7. Closing'
  BY <1>2 DEF Closing
<1> QED
  BY <1>1, <1>2, <1>3, <1>5, <1>6, <1>7 DEF PoolInv

\* The pool no longer has the start of task t; its child, if it has one, is
\* with somebody else or lost.
Withdrawn(t) ==
    /\ JobsInv(pool', worker') /\ worker' \in {worker, Signalled}
    /\ Beside(pool, pool') /\ pool'.done = pool.done
    /\ \A j \in Jobs \ {regs[t].job} : pool.jobs[j].state \in Pending => pool'.jobs[j] = pool.jobs[j]
    /\ Children(pool', handles, worker', proc, lost') /\ lost' \in SUBSET Pids
    /\ wake' \in BOOLEAN /\ WakeExact' /\ WorkerAwake'

\* A start that fails or is cancelled gives its handle back.
LEMMA StartFails ==
    ASSUME PoolInv, NEW t, EndsStart(t), Withdrawn(t),
           handles' = ReleaseReserved(handles, regs[t]), UNCHANGED <<live, child, proc>>
    PROVE  PoolInv'
<1> DEFINE h == regs[t].handle
<1>1. /\ Reserved(pool, handles, regs, owner) /\ Parented(handles, child)
      /\ regs \in [Tasks -> RegRecords] /\ Handled(handles)
      /\ pool \in Pools /\ worker \in Workers
      /\ handles \in [Handles -> HandleRecords] /\ Watching(pool, handles, proc)
      /\ Numbered(handles, nextGen) /\ live = Cardinality(OpenHandles(handles))
      /\ child \in [Tasks -> [handle : 0 .. HandleCapacity, gen : 0 .. MaxStarts]]
      /\ proc \in [Pids -> {"unused", "running", "zombie", "reaped"}]
  BY DEF PoolInv, Types
<1>2. t \in Tasks /\ regs[t].kind = "start"
  BY DEF EndsStart
<1>3. /\ JobsInv(pool', worker') /\ worker' \in {worker, Signalled}
      /\ Beside(pool, pool') /\ pool'.done = pool.done
      /\ \A j \in Jobs \ {regs[t].job} : pool.jobs[j].state \in Pending => pool'.jobs[j] = pool.jobs[j]
      /\ Children(pool', handles, worker', proc, lost') /\ lost' \in SUBSET Pids
      /\ wake' \in BOOLEAN /\ WakeExact' /\ WorkerAwake'
  BY DEF Withdrawn
<1>4. h \in Handles /\ Bare(handles[h]) /\ handles[h].gen = regs[t].hgen
  BY <1>1, <1>2 DEF Reserved, Bare, RegRecords
<1>5. handles' = Freed(handles, {h})
  <2>1. handles' = [handles EXCEPT ![h] = FreeHandle(handles[h].gen)]
    BY <1>4 DEF ReleaseReserved, Bare
  <2> HIDE DEF h
  <2> QED
    BY <1>1, <1>4, <2>1 DEF Freed
<1> HIDE DEF h
<1>6. /\ handles' \in [Handles -> HandleRecords] /\ Handled(handles') /\ Numbered(handles', nextGen)
      /\ \A g \in Handles \ {h} : handles'[g] = handles[g]
      /\ handles'[h].occupied = 0
      /\ OpenHandles(handles') = OpenHandles(handles) \ {h}
  <2>1. {h} \in SUBSET Handles /\ h \in {h}
    BY <1>4
  <2> QED
    BY <1>1, <1>5, <2>1, FreedFacts
<1>7. OpenHandles(handles') = OpenHandles(handles)
  BY <1>4, <1>6 DEF OpenHandles, Bare
<1>8. Unchanged(handles, handles', {h}) /\ ~Bare(handles'[h])
  BY <1>6 DEF Unchanged, Bare
<1>9. \A w \in Watches(pool) : pool.watches[w].handle # h
  BY <1>1, <1>4 DEF Watching, Bare
<1>10. Watches(pool') = Watches(pool) /\ pool'.watches = pool.watches /\ pool'.watching = pool.watching
  BY <1>3 DEF Beside, Watches
<1>11. Watching(pool', handles', proc)
  <2>1. Unwatching(pool, pool', {h})
    BY <1>1, <1>9, <1>10 DEF Unwatching, Watching
  <2> QED
    BY ONLY <1>1, <1>8, <2>1, WatchingDrop
<1>12. Children(pool', handles', worker', proc', lost')
  <2>1. pool' \in Pools /\ worker' \in Workers
    BY <1>3 DEF JobsInv
  <2>2. Freeing(handles, proc, proc, {h}, {})
    BY <1>4 DEF Freeing, Bare
  <2>3. \A g \in Handles \ {h} : <<"handle", g>> \in Late(pool', handles) =>
                                     <<"handle", g>> \in Late(pool', Freed(handles, {h}))
    <3>1. ASSUME NEW g \in Handles, handles'[g] = handles[g], <<"handle", g>> \in Late(pool', handles)
          PROVE  <<"handle", g>> \in Late(pool', handles')
      BY ONLY <3>1, LateAt
    <3> QED
      BY <1>5, <1>6, <3>1
  <2>4. \A j \in Jobs : pool'.jobs[j].pid = pool'.jobs[j].pid
    OBVIOUS
  <2>5. Children(pool', Freed(handles, {h}), worker', proc, lost')
    BY ONLY <1>1, <1>3, <2>1, <2>2, <2>3, <2>4, ChildrenFreed
  <2> QED
    BY <1>5, <2>5
<1>13. Parented(handles', child)
  <2>1. \A g \in Handles : Open(handles[g]) => Open(handles'[g]) /\ handles'[g].gen = handles[g].gen
    BY <1>4, <1>6 DEF Open, Bare
  <2> QED
    BY ONLY <1>1, <2>1, ParentedKept
<1>14. Finished(pool') \subseteq Finished(pool)
  BY <1>10 DEF Finished
<1>15. /\ PoolInv /\ EndsStart(t) /\ h = regs[t].handle /\ child' = child /\ proc' = proc /\ live' = live
  BY DEF h
<1>16. live' = Cardinality(OpenHandles(handles'))
  BY <1>1, <1>7, <1>15
<1> QED
  BY ONLY <1>1, <1>3, <1>6, <1>8, <1>11, <1>12, <1>13, <1>14, <1>15, <1>16, StartEndsStep

\* The job of task t's start is waiting, with the worker, finished or taken.
LEMMA StartJobOf ==
    ASSUME PoolInv, NEW t \in Tasks, regs[t].kind = "start", owner.at \in {"frames", "arm"}
    PROVE  LET j == regs[t].job IN
           /\ j \in Jobs /\ pool.jobs[j].state \in Pending /\ pool.jobs[j].gen = regs[t].jgen
           /\ wake /\ <<"job", j>> \in Holders
           /\ Hold(pool, handles, worker)[<<"job", j>>] = pool.jobs[j].pid
           /\ pool.jobs[j].pid \in 0 .. MaxStarts
           /\ pool.jobs[j].pid # NoPid =>
                 /\ pool.jobs[j].state \in {"start_completed", "start_delivered"}
                 /\ pool.jobs[j].pid \in Pids /\ proc[pool.jobs[j].pid] \in Alive
                 /\ pool.jobs[j].pid \notin lost
<1> DEFINE j == regs[t].job
           pid == pool.jobs[j].pid
<1>1. /\ Reserved(pool, handles, regs, owner) /\ regs \in [Tasks -> RegRecords] /\ Waking
      /\ JobsInv(pool, worker) /\ pool \in Pools
      /\ Children(pool, handles, worker, proc, lost)
  BY DEF PoolInv, Types
<1>2. j \in Jobs /\ pool.jobs[j].state \in Pending /\ pool.jobs[j].gen = regs[t].jgen
  BY <1>1 DEF Reserved, RegRecords
<1> HIDE DEF j
<1>3. wake
  <2>1. pool.jobs[j].state # "free"
    BY <1>2 DEF Pending
  <2>2. pool.active > 0
    BY ONLY <1>1, <1>2, <2>1, JobCounts
  <2> QED
    BY <1>1, <2>2 DEF Waking, WakeExact
<1>4. <<"job", j>> \in Holders /\ <<"job", j>> \notin Late(pool, handles)
  BY <1>2, HolderKinds, LateAt
<1>5. Hold(pool, handles, worker)[<<"job", j>>] = pid
  BY ONLY <1>2, HoldAt
<1>6. pid \in 0 .. MaxStarts
  BY <1>1, <1>2 DEF Pools, JobRecords
<1>7. pid # NoPid => pool.jobs[j].state \in {"start_completed", "start_delivered"}
  BY <1>1, <1>2 DEF JobsInv, Loaded, Pending
<1>8. pid # NoPid => pid \in Pids /\ proc[pid] \in Alive /\ pid \notin lost
  <2>1. pid # NoPid => /\ pid \notin lost
                       /\ proc[pid] \in Alive \/ (proc[pid] = "reaped" /\ <<"job", j>> \in Late(pool, handles))
    BY <1>1, <1>4, <1>5 DEF Children, Custody
  <2> QED
    BY <1>4, <1>6, <2>1 DEF Pids, NoPid
<1> QED
  BY <1>2, <1>3, <1>4, <1>5, <1>6, <1>7, <1>8 DEF j

\* The pool without the job of a start.
CancelledPool(p, p2, j) ==
    /\ Beside(p, p2) /\ p2.done = p.done
    /\ \A i \in Jobs \ {j} : p2.jobs[i] = p.jobs[i]
    /\ p2.jobs[j].pid = NoPid
    /\ p.queue = <<>> => p2.queue = <<>>

\* Without a child there is nothing to leave.
LEMMA WithdrawnBare ==
    ASSUME PoolInv, NEW t \in Tasks, regs[t].kind = "start", owner.at \in {"frames", "arm"},
           owner'.at = "frames", pool.jobs[regs[t].job].pid = NoPid,
           JobsInv(pool', worker), CancelledPool(pool, pool', regs[t].job),
           wake' = Idle(pool', wake), UNCHANGED <<worker, lost>>
    PROVE  Withdrawn(t)
<1> DEFINE j == regs[t].job
<1>1. /\ Waking /\ pool \in Pools /\ worker \in Workers /\ lost \in SUBSET Pids /\ Handled(handles)
      /\ handles \in [Handles -> HandleRecords] /\ Children(pool, handles, worker, proc, lost)
  BY DEF PoolInv, Types
<1>2. wake /\ j \in Jobs
  BY StartJobOf
<1>3. /\ Beside(pool, pool') /\ pool'.done = pool.done
      /\ \A i \in Jobs \ {j} : pool'.jobs[i] = pool.jobs[i]
      /\ pool'.jobs[j].pid = NoPid
      /\ pool.queue = <<>> => pool'.queue = <<>>
  BY DEF CancelledPool
<1>4. \A i \in Jobs : pool'.jobs[i].pid = pool.jobs[i].pid
  BY <1>3
<1>5. Children(pool', handles, worker', proc, lost')
  <2>1. pool'.watches = pool.watches /\ InHand(worker') = InHand(worker)
    BY <1>3 DEF Beside
  <2>2. Dying(proc, proc)
    BY DEF Dying
  <2>3. Children(pool', handles, worker', proc, lost)
    BY ONLY <1>1, <1>4, <2>1, <2>2, ChildrenKept
  <2> QED
    BY <2>3
<1>6. wake' \in BOOLEAN /\ WakeExact'
  BY <1>2 DEF WakeExact, Idle
<1>7. WorkerAwake'
  BY <1>1, <1>3 DEF Waking, WorkerAwake, Beside
<1> QED
  BY <1>1, <1>3, <1>5, <1>6, <1>7 DEF Withdrawn

\* The child of a cancelled start is lost.
LEMMA ChildLost ==
    ASSUME NEW p, NEW p2, NEW hs, NEW k, NEW pr, NEW lo \in SUBSET Pids,
           Children(p, hs, k, pr, lo), p \in Pools, hs \in [Handles -> HandleRecords], k \in Workers,
           NEW j \in Jobs, NEW pid \in Pids, p.jobs[j].pid = pid, pid # NoPid, pr[pid] \in Alive,
           CancelledPool(p, p2, j)
    PROVE  Children(p2, hs, k, pr, lo \cup {pid})
<1> DEFINE d == Hold(p, hs, k)
           d2 == Hold(p2, hs, k)
           a == <<"job", j>>
<1>1. /\ Custody(d, pr, lo, Late(p, hs)) /\ \A h \in Handles : hs[h].exited => pr[hs[h].pid] = "reaped"
  BY DEF Children
<1>2. \A r \in Holders : d[r] \in 0 .. MaxStarts
  BY HoldType
<1>3. a \in Holders /\ d[a] = pid /\ d2[a] = NoPid
  <2>1. d[a] = p.jobs[j].pid
    BY ONLY HoldAt, j \in Jobs
  <2>2. d2[a] = p2.jobs[j].pid
    BY ONLY HoldAt, j \in Jobs
  <2> QED
    BY <2>1, <2>2, HolderKinds DEF CancelledPool
<1>4. \A r \in Holders : r # a => d2[r] = d[r]
  <2>1. SameElse(p, p2, hs, hs, k, k, a, a)
    BY DEF SameElse, CancelledPool
  <2> HIDE DEF a
  <2> QED
    BY ONLY <2>1, HoldElse
<1>5. Late(p2, hs) = Late(p, hs)
  BY DEF Late, Underway, WatchesOf, CancelledPool, Beside
<1>6. \A x \in Pids : /\ pr[x] \in Alive => pr[x] \in Alive
                      /\ x \in lo \cup {pid} => pr[x] # "unused"
  BY <1>1 DEF Custody, Alive
<1> HIDE DEF d, d2, a
<1>7. \A r \in Holders :
        \/ /\ d2[r] = d[r]
           /\ d[r] # NoPid => /\ d[r] \notin lo \cup {pid}
                              /\ pr[d[r]] \in Alive \/ (pr[d[r]] = "reaped" /\ r \in Late(p, hs))
        \/ /\ d2[r] = NoPid
           /\ d[r] # NoPid => pr[d[r]] \notin Alive \/ d[r] \in lo \cup {pid}
  <2>1. \A r \in Holders : r # a => d[r] # pid
    BY <1>1, <1>3 DEF Custody
  <2> QED
    BY <1>1, <1>3, <1>4, <2>1 DEF Custody
<1>8. lo \cup {pid} \in SUBSET Pids /\ lo \subseteq lo \cup {pid}
  OBVIOUS
<1>9. Custody(d2, pr, lo \cup {pid}, Late(p, hs))
  BY ONLY <1>1, <1>2, <1>6, <1>7, <1>8, CustodyShrinks, lo \in SUBSET Pids
<1> QED
  BY <1>1, <1>5, <1>9 DEF Children, d2

LEMMA SameLate ==
    ASSUME NEW p, NEW p2, NEW hs, p2.watches = p.watches
    PROVE  LateKept(p, p2, hs, hs, {}) /\ NoneTold(hs, hs)
<1>1. Late(p2, hs) = Late(p, hs)
  BY DEF Late, Underway, WatchesOf
<1> QED
  BY ONLY <1>1 DEF LateKept, NoneTold

LEMMA WithdrawnLost ==
    ASSUME PoolInv, NEW t \in Tasks, regs[t].kind = "start", owner.at \in {"frames", "arm"},
           owner'.at = "frames", NEW pid, pid = pool.jobs[regs[t].job].pid, pid # NoPid,
           JobsInv(pool', worker), CancelledPool(pool, pool', regs[t].job),
           wake' = Idle(pool', TRUE), worker' = worker, lost' = lost \cup {pid}
    PROVE  Withdrawn(t)
<1> DEFINE j == regs[t].job
<1>1. /\ Waking /\ pool \in Pools /\ worker \in Workers /\ lost \in SUBSET Pids
      /\ handles \in [Handles -> HandleRecords] /\ Children(pool, handles, worker, proc, lost)
  BY DEF PoolInv, Types
<1>2. j \in Jobs /\ pid \in Pids /\ proc[pid] \in Alive
  BY StartJobOf
<1>3. /\ Beside(pool, pool') /\ pool'.done = pool.done
      /\ \A i \in Jobs \ {j} : pool'.jobs[i] = pool.jobs[i]
      /\ pool.queue = <<>> => pool'.queue = <<>>
  BY DEF CancelledPool
<1>4. Children(pool', handles, worker', proc, lost')
  <2>1. pool.jobs[j].pid = pid /\ pid # NoPid /\ CancelledPool(pool, pool', j)
    OBVIOUS
  <2> HIDE DEF j
  <2>2. Children(pool', handles, worker, proc, lost \cup {pid})
    BY ONLY <1>1, <1>2, <2>1, ChildLost
  <2> QED
    BY <2>2
<1>5. wake' \in BOOLEAN /\ WakeExact'
  BY DEF WakeExact, Idle
<1>6. WorkerAwake'
  BY <1>1, <1>3 DEF Waking, WorkerAwake, Beside
<1>7. lost' \in SUBSET Pids
  BY <1>1, <1>2
<1> QED
  BY <1>3, <1>4, <1>5, <1>6, <1>7 DEF Withdrawn

\* The start of task t is cancelled, and p is the pool before the child is
\* given to a reap job.
GivesAway(t, pid, p) ==
    /\ regs[t].kind = "start" /\ owner.at \in {"frames", "arm"} /\ owner'.at = "frames"
    /\ pid = pool.jobs[regs[t].job].pid /\ pid # NoPid
    /\ JobsInv(p, worker) /\ CancelledPool(pool, p, regs[t].job) /\ FreeJobs(p) # {}
    /\ pool' = Submitted(p, ReapJob(pid, NoHandle, 0))
    /\ wake' = Idle(pool', TRUE) /\ worker' = Signalled /\ lost' = lost

LEMMA WithdrawnGiven ==
    ASSUME PoolInv, NEW t \in Tasks, NEW pid, NEW p, GivesAway(t, pid, p)
    PROVE  Withdrawn(t)
<1> DEFINE i == regs[t].job
           j == First(FreeJobs(p))
           a == <<"job", i>>
           b == <<"job", j>>
           d == Hold(pool, handles, worker)
           d2 == Hold(pool', handles, worker')
<1>a. /\ regs[t].kind = "start" /\ owner.at \in {"frames", "arm"} /\ owner'.at = "frames"
      /\ pid = pool.jobs[regs[t].job].pid /\ pid # NoPid
  BY DEF GivesAway
<1>b. JobsInv(p, worker) /\ CancelledPool(pool, p, i)
  BY DEF GivesAway
<1>c. FreeJobs(p) # {} /\ pool' = Submitted(p, ReapJob(pid, NoHandle, 0))
  BY DEF GivesAway
<1>d. wake' = Idle(pool', TRUE) /\ lost' = lost
  BY DEF GivesAway
<1>e. worker' = Signalled
  BY DEF GivesAway
<1>1. /\ Waking /\ pool \in Pools /\ worker \in Workers /\ lost \in SUBSET Pids
      /\ handles \in [Handles -> HandleRecords] /\ Children(pool, handles, worker, proc, lost)
      /\ Handled(handles) /\ JobsInv(pool, worker)
  BY DEF PoolInv, Types
<1>2. i \in Jobs /\ pid \in Pids /\ proc[pid] \in Alive /\ a \in Holders /\ d[a] = pid
  BY <1>a, StartJobOf
<1>3. JobsInv(pool', worker) /\ GivenTo(p, pool', j, pid)
  <2>1. NoHandle \in 0 .. HandleCapacity /\ 0 \in 0 .. MaxStarts
    BY HandleCapacityAssumption, MaxStartsAssumption DEF NoHandle
  <2> QED
    BY ONLY <1>2, <1>b, <1>c, <2>1, GiveJob
<1> HIDE DEF i, j
<1>4. /\ j \in Jobs /\ p.jobs[j].state = "free" /\ p.jobs[j].pid = NoPid
      /\ pool'.jobs[j].pid = pid /\ b \in Holders
      /\ \A x \in Jobs \ {j} : pool'.jobs[x] = p.jobs[x]
      /\ pool'.active # 0 /\ pool'.done = p.done /\ Beside(p, pool')
  BY ONLY <1>3, HolderKinds DEF GivenTo, b
<1>5. /\ Beside(pool, p) /\ p.done = pool.done /\ p.jobs[i].pid = NoPid
      /\ \A x \in Jobs \ {i} : p.jobs[x] = pool.jobs[x]
  BY ONLY <1>b DEF CancelledPool
<1>6. /\ JobsInv(pool', worker') /\ InHand(worker') = InHand(worker) /\ worker'.pc # "waiting"
  BY <1>1, <1>3, <1>e, SignalledJobs, SignalledFacts
<1>7. j # i => pool.jobs[j].state = "free" /\ pool.jobs[j].pid = NoPid
  BY ONLY <1>4, <1>5
<1>8. Moved(d, d2, a, b)
  <2>1. d2[b] = pid
    <3>1. d2[b] = pool'.jobs[j].pid
      BY ONLY <1>4, HoldAt
    <3> QED
      BY ONLY <1>4, <3>1
  <2>2. a # b => d[b] = NoPid /\ d2[a] = NoPid
    <3>1. d[b] = pool.jobs[j].pid
      BY ONLY <1>4, HoldAt
    <3>2. d2[a] = pool'.jobs[i].pid
      BY ONLY <1>2, HoldAt DEF i
    <3>3. i # j => pool'.jobs[i].pid = NoPid
      BY ONLY <1>2, <1>4, <1>5
    <3>4. a # b => i # j
      BY ONLY DEF a, b
    <3> HIDE DEF a, b, d, d2
    <3> QED
      BY ONLY <1>7, <3>1, <3>2, <3>3, <3>4
  <2>3. \A r \in Holders : r # a /\ r # b => d2[r] = d[r]
    <3>1. \A x \in Jobs : x # i /\ x # j => pool'.jobs[x].pid = pool.jobs[x].pid
      BY ONLY <1>4, <1>5
    <3>2. \A x \in Jobs : <<"job", x>> # a /\ <<"job", x>> # b => pool'.jobs[x].pid = pool.jobs[x].pid
      BY ONLY <3>1 DEF a, b
    <3>3. SameElse(pool, pool', handles, handles, worker, worker', a, b)
      BY ONLY <1>6, <3>2 DEF SameElse
    <3> HIDE DEF a, b
    <3> QED
      BY ONLY <3>3, HoldElse
  <2>4. d[a] = pid /\ a \in Holders /\ b \in Holders /\ pid # NoPid
    BY ONLY <1>2, <1>4, <1>a
  <2> HIDE DEF d, d2, a, b
  <2> QED
    BY ONLY <2>1, <2>2, <2>3, <2>4 DEF Moved
<1>9. Children(pool', handles, worker', proc, lost)
  <2>1. Dying(proc, proc)
    BY DEF Dying
  <2>2. proc[d[a]] \in Alive
    BY ONLY <1>2
  <2>3. LateKept(pool, pool', handles, handles, {}) /\ NoneTold(handles, handles)
    <3>1. pool'.watches = pool.watches
      BY ONLY <1>4, <1>5 DEF Beside
    <3> QED
      BY ONLY <3>1, SameLate
  <2>4. \A g \in {} : a = <<"handle", g>>
    OBVIOUS
  <2> HIDE DEF a, b
  <2> QED
    BY ONLY <1>1, <1>8, <2>1, <2>2, <2>3, <2>4, ChildrenMove
<1>10. wake' \in BOOLEAN /\ WakeExact'
  BY <1>d DEF WakeExact, Idle
<1>11. WorkerAwake'
  BY <1>6 DEF WorkerAwake
<1>12. \A x \in Jobs \ {regs[t].job} : pool.jobs[x].state \in Pending => pool'.jobs[x] = pool.jobs[x]
  <2>1. ASSUME NEW x \in Jobs, x # i, pool.jobs[x].state \in Pending
        PROVE  pool'.jobs[x] = pool.jobs[x]
    <3>1. x # j
      BY ONLY <1>7, <2>1 DEF Pending
    <3> QED
      BY ONLY <1>4, <1>5, <2>1, <3>1
  <2> QED
    BY ONLY <2>1 DEF i
<1>13. Beside(pool, pool') /\ pool'.done = pool.done
  BY ONLY <1>4, <1>5 DEF Beside
<1> QED
  BY ONLY <1>1, <1>6, <1>9, <1>10, <1>11, <1>12, <1>13, <1>d, <1>e DEF Withdrawn

\* A start that is cancelled is out of the pool.
LEMMA CancelWithdraws ==
    ASSUME PoolInv, NEW t \in Tasks, regs[t].kind = "start", owner.at \in {"frames", "arm"},
           owner'.at = "frames", CancelStart(regs[t])
    PROVE  Withdrawn(t)
<1> DEFINE j == regs[t].job
           p == CancelJob(pool, j)
           pid == CleanupPid(pool, j)
<1>1. /\ j \in Jobs /\ pool.jobs[j].state \in Pending /\ pool.jobs[j].gen = regs[t].jgen
      /\ wake /\ pool.jobs[j].pid \in 0 .. MaxStarts
      /\ pool.jobs[j].pid # NoPid =>
            pool.jobs[j].state \in {"start_completed", "start_delivered"}
  BY StartJobOf
<1>2. JobsInv(pool, worker) /\ Types
  BY DEF PoolInv
<1>3. JobsInv(p, worker) /\ CancelledPool(pool, p, j)
  <2>1. /\ JobsInv(p, worker) /\ Beside(pool, p)
        /\ \A i \in Jobs \ {j} : p.jobs[i] = pool.jobs[i]
        /\ p.jobs[j].pid = NoPid /\ p.done = pool.done
        /\ pool.queue = <<>> => p.queue = <<>>
    BY <1>1, <1>2, CancelJobInv
  <2> QED
    BY <2>1 DEF CancelledPool
<1>4. pid = pool.jobs[j].pid
  BY <1>1 DEF CleanupPid
<1> HIDE DEF p, pid
<1>5. \/ pid = NoPid /\ pool' = p /\ wake' = Idle(p, wake) /\ UNCHANGED <<worker, lost>>
      \/ pid # NoPid /\ \E registered \in EnsureWake :
                /\ pool' = Reaping(p, registered, pid, NoHandle, 0)
                /\ wake' = Idle(pool', registered)
                /\ worker' = IF ReapFits(p, registered) THEN Signalled ELSE worker
                /\ lost' = IF ReapFits(p, registered) THEN lost
                           ELSE lost \cup {pid}
  BY <1>1 DEF CancelStart, p, pid
<1>6. CASE pid = NoPid /\ pool' = p /\ wake' = Idle(p, wake) /\ UNCHANGED <<worker, lost>>
  BY <1>3, <1>4, <1>6, WithdrawnBare
<1>7. ASSUME pid # NoPid, NEW registered \in EnsureWake,
             pool' = Reaping(p, registered, pid, NoHandle, 0),
             wake' = Idle(pool', registered),
             worker' = IF ReapFits(p, registered) THEN Signalled ELSE worker,
             lost' = IF ReapFits(p, registered) THEN lost ELSE lost \cup {pid}
      PROVE  Withdrawn(t)
  <2>1. registered = TRUE
    BY <1>1, <1>2, EnsuredWake
  <2>2. CASE FreeJobs(p) # {}
    <3>1. ReapFits(p, registered)
      BY <2>1, <2>2 DEF ReapFits
    <3>2. pool' = Submitted(p, ReapJob(pid, NoHandle, 0))
      BY <1>7, <3>1 DEF Reaping
    <3>3. wake' = Idle(pool', TRUE) /\ worker' = Signalled /\ lost' = lost
      BY <1>7, <2>1, <3>1
    <3>4. GivesAway(t, pid, p)
      BY <1>3, <1>4, <1>7, <2>2, <3>2, <3>3 DEF GivesAway
    <3> QED
      BY ONLY PoolInv, t \in Tasks, <3>4, WithdrawnGiven
  <2>3. CASE FreeJobs(p) = {}
    <3>1. ~ReapFits(p, registered)
      BY <2>3 DEF ReapFits
    <3> QED
      BY <1>3, <1>4, <1>7, <2>1, <3>1, WithdrawnLost DEF Reaping
  <2> QED
    BY <2>2, <2>3
<1> QED
  BY <1>5, <1>6, <1>7

LEMMA CancelTaskInv ==
    ASSUME PoolInv, NEW t \in Tasks, CancelTask(t)
    PROVE  PoolInv'
<1>1. /\ owner.at = "frames" /\ regs[t].kind = "start" /\ CancelStart(regs[t])
      /\ handles' = ReleaseReserved(handles, regs[t]) /\ regs' = [regs EXCEPT ![t] = NoReg]
      /\ ready' = ready \ {t}
      /\ UNCHANGED <<pipe, owner, nextGen, live, child, proc, stale>>
  BY DEF CancelTask
<1>2. owner \in [at : {"frames", "arm", "drain", "watches", "rearm", "join", "down"},
                 task : Tasks \cup {NoTask}] /\ ~stale
  BY DEF PoolInv, Types
<1>3. EndsStart(t)
  BY <1>1, <1>2 DEF EndsStart
<1>4. Withdrawn(t)
  BY <1>1, CancelWithdraws
<1> QED
  BY <1>1, <1>3, <1>4, StartFails

LEMMA ArmTimerInv ==
    ASSUME PoolInv, ArmTimer
    PROVE  PoolInv'
<1> DEFINE t == owner.task
<1>1. /\ owner.at = "arm" /\ owner' = [at |-> "frames", task |-> NoTask]
      /\ UNCHANGED <<pipe, nextGen, live, child, ready, proc, stale>>
  BY DEF ArmTimer
<1>2. Reserved(pool, handles, regs, owner) /\ ~stale
  BY DEF PoolInv
<1>3. t \in Tasks /\ regs[t].kind = "start"
  BY <1>1, <1>2 DEF Reserved
<1>4. CASE /\ regs' = [regs EXCEPT ![t].timer = "armed", ![t].active = TRUE]
           /\ UNCHANGED <<pool, wake, worker, lost, handles>>
  BY <1>1, <1>4, TimerArmed
<1>5. CASE /\ CancelStart(regs[t]) /\ handles' = ReleaseReserved(handles, regs[t])
           /\ regs' = [regs EXCEPT ![t] = NoReg]
  <2>1. EndsStart(t)
    BY <1>1, <1>2, <1>3, <1>5 DEF EndsStart
  <2>2. Withdrawn(t)
    BY <1>1, <1>3, <1>5, CancelWithdraws
  <2> QED
    BY <1>1, <1>5, <2>1, <2>2, StartFails
<1> QED
  BY <1>4, <1>5 DEF ArmTimer

-----------------------------------------------------------------------------
(* A started child is taken over.                                          *)

\* Task t has the child of handle h, if s is open.
Adopts(t, h, s) ==
    IF s.occupied = 1
    THEN /\ child' = [child EXCEPT ![t] = [handle |-> h, gen |-> handles[h].gen]]
         /\ live' = live + 1
    ELSE UNCHANGED <<child, live>>

\* A task gets the child of a handle that its start held.
LEMMA ParentedBegins ==
    ASSUME NEW hs, NEW hs2, NEW ch \in [Tasks -> [handle : 0 .. HandleCapacity, gen : 0 .. MaxStarts]],
           Parented(hs, ch), NEW t \in Tasks, NEW h \in Handles, Unchanged(hs, hs2, {h}),
           Bare(hs[h]), Open(hs2[h]), NEW g, hs2[h].gen = g,
           NEW ch2, ch2 = [ch EXCEPT ![t] = [handle |-> h, gen |-> g]]
    PROVE  Parented(hs2, ch2)
<1>1. /\ ch2[t] = [handle |-> h, gen |-> g] /\ ch2[t].handle = h /\ ch2[t].gen = g
      /\ \A u \in Tasks \ {t} : ch2[u] = ch[u]
  OBVIOUS
<1>2. ASSUME NEW u \in Tasks, u # t, ch[u] # NoChild
      PROVE  /\ ch[u].handle \in Handles /\ ch[u].handle # h
             /\ hs2[ch[u].handle].occupied = 1 /\ hs2[ch[u].handle].gen = ch[u].gen
             /\ hs2[ch[u].handle].pid # NoPid
  <2>1. /\ ch[u].handle \in Handles
        /\ hs[ch[u].handle].occupied = 1 /\ hs[ch[u].handle].gen = ch[u].gen
        /\ hs[ch[u].handle].pid # NoPid
    BY <1>2 DEF Parented
  <2>2. ch[u].handle # h
    BY <2>1 DEF Bare
  <2>3. hs2[ch[u].handle] = hs[ch[u].handle]
    BY <2>1, <2>2 DEF Unchanged
  <2> QED
    BY <2>1, <2>2, <2>3
<1>3. ASSUME NEW u \in Tasks, ch2[u] # NoChild
      PROVE  /\ ch2[u].handle \in Handles
             /\ hs2[ch2[u].handle].occupied = 1 /\ hs2[ch2[u].handle].gen = ch2[u].gen
             /\ hs2[ch2[u].handle].pid # NoPid
  BY <1>1, <1>2, <1>3 DEF Open
<1>4. ASSUME NEW u \in Tasks, NEW v \in Tasks, ch2[u] # NoChild, ch2[u] = ch2[v]
      PROVE  u = v
  <2>1. CASE u # t /\ v # t
    BY <1>1, <1>4, <2>1 DEF Parented
  <2>2. CASE u = t /\ v # t
    BY <1>1, <1>2, <1>4, <2>2
  <2>3. CASE u # t /\ v = t
    BY <1>1, <1>2, <1>4, <2>3
  <2> QED
    BY <2>1, <2>2, <2>3
<1> QED
  BY <1>3, <1>4 DEF Parented

LEMMA AttachStep ==
    ASSUME PoolInv, NEW t, EndsStart(t), NEW h, h = regs[t].handle,
           NEW pid, pid = pool.jobs[regs[t].job].pid, pid # NoPid,
           NEW s, InUse(handles[h], s), handles' = Put(handles, h, s), Adopts(t, h, s),
           JobsInv(pool', worker'), worker' \in {worker, Signalled}, pool'.done = pool.done,
           \A j \in Jobs \ {regs[t].job} : pool.jobs[j].state \in Pending => pool'.jobs[j] = pool.jobs[j],
           Watching(pool', handles', proc'), Finished(pool') \subseteq Finished(pool),
           Keeping(pool, pool', {h}), Dying(proc, proc'), lost' = lost,
           proc' \in [Pids -> {"unused", "running", "zombie", "reaped"}],
           NEW b, Moved(Hold(pool, handles, worker), Hold(pool', handles', worker'),
                        <<"job", regs[t].job>>, b),
           wake' \in BOOLEAN, WakeExact', WorkerAwake'
    PROVE  PoolInv'
<1>1. /\ Reserved(pool, handles, regs, owner) /\ Parented(handles, child)
      /\ regs \in [Tasks -> RegRecords] /\ Handled(handles)
      /\ pool \in Pools /\ worker \in Workers /\ lost \in SUBSET Pids
      /\ handles \in [Handles -> HandleRecords] /\ Watching(pool, handles, proc)
      /\ Numbered(handles, nextGen) /\ live = Cardinality(OpenHandles(handles))
      /\ child \in [Tasks -> [handle : 0 .. HandleCapacity, gen : 0 .. MaxStarts]]
      /\ Children(pool, handles, worker, proc, lost)
  BY DEF PoolInv, Types
<1>2. t \in Tasks /\ regs[t].kind = "start" /\ owner.at \in {"frames", "arm"}
  BY DEF EndsStart
<1>3. h \in Handles /\ Bare(handles[h])
  BY <1>1, <1>2 DEF Reserved, Bare, RegRecords
<1>4. handles[h].occupied = 1 /\ handles[h].pid = NoPid /\ ~handles[h].exited /\ handles[h].source = "none"
  BY <1>1, <1>3 DEF Handled, Bare
<1>5. pid \in Pids /\ proc[pid] \in Alive /\ Hold(pool, handles, worker)[<<"job", regs[t].job>>] = pid
  BY <1>2, StartJobOf
<1>6. /\ handles' \in [Handles -> HandleRecords] /\ Unchanged(handles, handles', {h}) /\ Handled(handles')
      /\ handles[h].gen \in 0 .. MaxStarts /\ Numbered(handles', nextGen)
      /\ s.occupied = 1 => OpenHandles(handles') = OpenHandles(handles) \cup {h}
      /\ s.occupied = 2 => OpenHandles(handles') = OpenHandles(handles) \ {h}
      /\ NoneTold(handles, handles')
  <2>1. InUse(handles[h], s) /\ handles' = Put(handles, h, s)
    OBVIOUS
  <2>2. /\ handles' \in [Handles -> HandleRecords] /\ Unchanged(handles, handles', {h}) /\ Handled(handles')
        /\ handles[h].gen \in 0 .. MaxStarts
        /\ \A m : Numbered(handles, m) => Numbered(handles', m)
        /\ s.occupied = 1 => OpenHandles(handles') = OpenHandles(handles) \cup {h}
        /\ s.occupied = 2 => OpenHandles(handles') = OpenHandles(handles) \ {h}
        /\ NoneTold(handles, handles')
    <3>1. /\ handles \in [Handles -> HandleRecords] /\ Handled(handles)
          /\ handles[h].occupied = 1 /\ ~handles[h].exited /\ h \in Handles
      BY <1>1, <1>3, <1>4
    <3> QED
      BY ONLY <2>1, <3>1, PutFacts
  <2> QED
    BY <1>1, <2>2
<1>7. handles'[h] = s
  BY <1>1, <1>3 DEF Put
<1>8. s.pid # NoPid /\ s.occupied \in {1, 2} /\ s.gen = handles[h].gen
  BY DEF InUse
<1>9. ~Bare(handles'[h])
  BY <1>7, <1>8 DEF Bare
<1>10. h \notin OpenHandles(handles) /\ OpenHandles(handles) \in SUBSET Handles
  BY <1>4 DEF OpenHandles
<1>11. live' = Cardinality(OpenHandles(handles'))
  <2>1. Cardinality(OpenHandles(handles) \cup {h}) = Cardinality(OpenHandles(handles)) + 1
    BY <1>3, <1>10, FiniteTables, CountOne
  <2>2. OpenHandles(handles) \ {h} = OpenHandles(handles)
    BY <1>10
  <2>3. CASE s.occupied = 1
    BY <1>1, <1>6, <2>1, <2>3 DEF Adopts
  <2>4. CASE s.occupied = 2
    BY <1>1, <1>6, <2>2, <2>4 DEF Adopts
  <2> QED
    BY <1>8, <2>3, <2>4
<1>12. /\ Parented(handles', child')
       /\ child' \in [Tasks -> [handle : 0 .. HandleCapacity, gen : 0 .. MaxStarts]]
  <2>1. CASE s.occupied = 1
    <3>1. child' = [child EXCEPT ![t] = [handle |-> h, gen |-> handles[h].gen]]
      BY <2>1 DEF Adopts
    <3>2. Open(handles'[h]) /\ handles'[h].gen = handles[h].gen
      BY <1>7, <1>8, <2>1 DEF Open
    <3>3. Parented(handles', child')
      BY ONLY <1>1, <1>2, <1>3, <1>6, <3>1, <3>2, ParentedBegins
    <3>4. [handle |-> h, gen |-> handles[h].gen] \in [handle : 0 .. HandleCapacity, gen : 0 .. MaxStarts]
      BY <1>3, <1>6, HandleCapacityAssumption DEF Handles
    <3> QED
      BY <1>1, <3>1, <3>3, <3>4
  <2>2. CASE s.occupied = 2
    <3>1. \A g \in Handles : Open(handles[g]) => Open(handles'[g]) /\ handles'[g].gen = handles[g].gen
      BY <1>4, <1>6 DEF Open, Unchanged
    <3>2. Parented(handles', child)
      BY ONLY <1>1, <3>1, ParentedKept
    <3> QED
      BY <1>1, <2>2, <3>2 DEF Adopts
  <2> QED
    BY <1>8, <2>1, <2>2
<1>13. Children(pool', handles', worker', proc', lost')
  <2>1. LateKept(pool, pool', handles, handles', {h})
    BY ONLY <1>1, <1>6, LateOthers, Keeping(pool, pool', {h})
  <2>2. <<"handle", h>> \notin Late(pool, handles)
    BY <1>3, <1>4, LateAt
  <2>3. LateKept(pool, pool', handles, handles', {})
    BY <2>1, <2>2 DEF LateKept
  <2>4. Dying(proc, proc') /\ NoneTold(handles, handles')
    BY <1>6
  <2>5. proc[Hold(pool, handles, worker)[<<"job", regs[t].job>>]] \in Alive
    BY <1>5
  <2>6. \A g \in {} : <<"job", regs[t].job>> = <<"handle", g>>
    OBVIOUS
  <2>7. Moved(Hold(pool, handles, worker), Hold(pool', handles', worker'),
              <<"job", regs[t].job>>, b)
    OBVIOUS
  <2>8. Children(pool', handles', worker', proc', lost)
    BY ONLY <1>1, <2>3, <2>4, <2>5, <2>6, <2>7, ChildrenMove
  <2> QED
    BY <2>8
<1>14. /\ PoolInv /\ EndsStart(t) /\ h = regs[t].handle
       /\ JobsInv(pool', worker') /\ worker' \in {worker, Signalled} /\ pool'.done = pool.done
       /\ \A j \in Jobs \ {regs[t].job} : pool.jobs[j].state \in Pending => pool'.jobs[j] = pool.jobs[j]
       /\ Watching(pool', handles', proc') /\ Finished(pool') \subseteq Finished(pool)
       /\ proc' \in [Pids -> {"unused", "running", "zombie", "reaped"}] /\ lost' \in SUBSET Pids
       /\ wake' \in BOOLEAN /\ WakeExact' /\ WorkerAwake'
  BY <1>1
<1> QED
  BY ONLY <1>6, <1>9, <1>11, <1>12, <1>13, <1>14, StartEndsStep

\* The record of a handle that has its child now, and of one whose child could
\* not be watched.
AttachedRecord(r, pid, source) == [r EXCEPT !.pid = pid, !.source = source]
LeftRecord(r, pid, q) == [r EXCEPT !.pid = pid, !.occupied = 2, !.reaping = q]

\* What a handle with a child says.
HasChild(r, s, pid) ==
    InUse(r, s) /\ s.pid = pid /\ (Reaps(s) <=> ~s.reaping)

LEMMA AttachedFacts ==
    ASSUME NEW r \in HandleRecords, Bare(r), ~r.exited, ~r.reaping, r.source = "none",
           NEW pid \in Pids, NEW source \in {"reactor", "worker"},
           NEW s, s = AttachedRecord(r, pid, source)
    PROVE  HasChild(r, s, pid) /\ s.occupied = 1 /\ s.source = source /\ Reaps(s) /\ ~s.exited
<1>1. pid \in 0 .. MaxStarts /\ pid # NoPid /\ source \in {"none", "reactor", "worker"}
  BY MaxStartsAssumption DEF Pids, NoPid
<1>2. r.occupied = 1
  BY DEF Bare
<1>3. s = [r EXCEPT !.pid = pid, !.source = source]
  BY DEF AttachedRecord
<1>4. r \in [occupied : 0 .. 2, gen : 0 .. MaxStarts, pid : 0 .. MaxStarts,
             exited : BOOLEAN, source : {"none", "reactor", "worker"}, reaping : BOOLEAN]
  BY DEF HandleRecords
<1>5. /\ s \in HandleRecords /\ s.occupied = r.occupied /\ s.gen = r.gen /\ s.pid = pid
      /\ (s.exited <=> r.exited) /\ s.source = source /\ (s.reaping <=> r.reaping)
  BY ONLY <1>1, <1>3, <1>4 DEF HandleRecords
<1> QED
  BY <1>1, <1>2, <1>5 DEF HasChild, InUse, Reaps

LEMMA LeftFacts ==
    ASSUME NEW r \in HandleRecords, Bare(r), ~r.exited, ~r.reaping, r.source = "none",
           NEW pid \in Pids, NEW q \in BOOLEAN, NEW s, s = LeftRecord(r, pid, q)
    PROVE  HasChild(r, s, pid) /\ s.occupied = 2 /\ (s.reaping <=> q)
<1>1. pid \in 0 .. MaxStarts /\ pid # NoPid /\ 2 \in 0 .. 2
  BY MaxStartsAssumption DEF Pids, NoPid
<1>2. s = [r EXCEPT !.pid = pid, !.occupied = 2, !.reaping = q]
  BY DEF LeftRecord
<1>3. r \in [occupied : 0 .. 2, gen : 0 .. MaxStarts, pid : 0 .. MaxStarts,
             exited : BOOLEAN, source : {"none", "reactor", "worker"}, reaping : BOOLEAN]
  BY DEF HandleRecords
<1>4. s \in HandleRecords
  BY ONLY <1>1, <1>2, <1>3, q \in BOOLEAN DEF HandleRecords
<1>5. /\ s.occupied = 2 /\ s.gen = r.gen /\ s.pid = pid
      /\ (s.exited <=> r.exited) /\ s.source = r.source /\ s.reaping = q
  BY ONLY <1>1, <1>2, <1>3, q \in BOOLEAN
<1> QED
  BY <1>1, <1>4, <1>5 DEF HasChild, InUse, Reaps

\* The owner takes a start's job, and its handle waits for the child.
Takes(t, p, h, pid) ==
    /\ EndsStart(t) /\ owner.at = "frames" /\ regs[t].ready
    /\ h = regs[t].handle /\ p = Release(pool, regs[t].job)
    /\ pid = pool.jobs[regs[t].job].pid /\ pid # NoPid

LEMMA TakenStart ==
    ASSUME PoolInv, NEW t \in Tasks, regs[t].kind = "start", owner.at = "frames", regs[t].ready,
           NEW p, p = Release(pool, regs[t].job)
    PROVE  /\ pool.jobs[regs[t].job].state = "start_delivered"
           /\ JobsInv(p, worker) /\ CancelledPool(pool, p, regs[t].job)
           /\ p.jobs[regs[t].job].state = "free"
<1> DEFINE j == regs[t].job
<1>1. /\ Reserved(pool, handles, regs, owner) /\ JobsInv(pool, worker)
      /\ regs \in [Tasks -> RegRecords]
  BY DEF PoolInv, Types
<1>2. j \in Jobs /\ pool.jobs[j].state = "start_delivered"
  BY <1>1 DEF Reserved, RegRecords
<1> HIDE DEF j
<1>3. /\ JobsInv(Release(pool, j), worker) /\ Beside(pool, Release(pool, j))
      /\ Release(pool, j).jobs = [pool.jobs EXCEPT ![j] = FreeJob(pool.jobs[j].gen)]
      /\ Release(pool, j).queue = pool.queue /\ Release(pool, j).done = pool.done
  BY ONLY <1>1, <1>2, ReleaseJob
<1>4. /\ JobsInv(p, worker) /\ Beside(pool, p)
      /\ p.jobs = [pool.jobs EXCEPT ![j] = FreeJob(pool.jobs[j].gen)]
      /\ p.queue = pool.queue /\ p.done = pool.done
  BY <1>3 DEF j
<1>5. pool.jobs \in [Jobs -> JobRecords]
  BY <1>1 DEF JobsInv, Pools
<1>6. p.jobs[j].pid = NoPid /\ p.jobs[j].state = "free" /\ \A i \in Jobs \ {j} : p.jobs[i] = pool.jobs[i]
  BY <1>2, <1>4, <1>5 DEF FreeJob
<1> QED
  BY <1>2, <1>4, <1>6 DEF CancelledPool, j

LEMMA TakenHandle ==
    ASSUME PoolInv, NEW t \in Tasks, regs[t].kind = "start"
    PROVE  LET h == regs[t].handle IN
           /\ h \in Handles /\ handles[h] \in HandleRecords /\ Bare(handles[h])
           /\ ~handles[h].exited /\ ~handles[h].reaping /\ handles[h].source = "none"
           /\ handles[h].gen = regs[t].hgen /\ handles[h].gen \in 0 .. MaxStarts
           /\ \A w \in Watches(pool) : pool.watches[w].handle # h
<1> DEFINE h == regs[t].handle
<1>1. /\ Reserved(pool, handles, regs, owner) /\ Handled(handles) /\ Watching(pool, handles, proc)
      /\ regs \in [Tasks -> RegRecords] /\ handles \in [Handles -> HandleRecords]
  BY DEF PoolInv, Types
<1>2. h \in Handles /\ Bare(handles[h]) /\ handles[h].gen = regs[t].hgen
  BY <1>1 DEF Reserved, Bare, RegRecords
<1> HIDE DEF h
<1>3. handles[h] \in HandleRecords /\ handles[h].gen \in 0 .. MaxStarts
  BY <1>1, <1>2 DEF HandleRecords
<1>4. ~handles[h].exited /\ ~handles[h].reaping /\ handles[h].source = "none"
  BY <1>1, <1>2 DEF Handled, Bare
<1>5. \A w \in Watches(pool) : pool.watches[w].handle # h
  BY <1>1, <1>2 DEF Watching, Bare
<1> QED
  BY <1>2, <1>3, <1>4, <1>5 DEF h

\* The job's child is the handle's now; the pool's other jobs stay.
LEMMA HandleTakes ==
    ASSUME PoolInv, NEW t \in Tasks, NEW p, NEW h, NEW pid, Takes(t, p, h, pid),
           NEW s, HasChild(handles[h], s, pid), Reaps(s), handles' = Put(handles, h, s),
           Adopts(t, h, s), JobsInv(pool', worker), worker' \in {worker, Signalled},
           pool'.jobs = p.jobs, pool'.done = p.done,
           Watching(pool', handles', proc'), Finished(pool') \subseteq Finished(p),
           Keeping(p, pool', {h}), Dying(proc, proc'), lost' = lost,
           proc' \in [Pids -> {"unused", "running", "zombie", "reaped"}],
           wake' \in BOOLEAN, wake' <=> pool'.active # 0 \/ pool'.watching # 0, WorkerAwake'
    PROVE  PoolInv'
<1> DEFINE i == regs[t].job
           a == <<"job", i>>
           b == <<"handle", h>>
           d == Hold(pool, handles, worker)
           d2 == Hold(pool', handles', worker')
<1>1. /\ EndsStart(t) /\ owner.at = "frames" /\ regs[t].ready /\ regs[t].kind = "start"
      /\ h = regs[t].handle /\ p = Release(pool, i) /\ pid = pool.jobs[i].pid /\ pid # NoPid
  BY DEF Takes, EndsStart
<1>2. CancelledPool(pool, p, i)
  BY ONLY PoolInv, t \in Tasks, <1>1, TakenStart
<1>3. /\ Beside(pool, p) /\ p.done = pool.done /\ p.jobs[i].pid = NoPid
      /\ \A x \in Jobs \ {i} : p.jobs[x] = pool.jobs[x]
  BY <1>2 DEF CancelledPool
<1>4. i \in Jobs /\ a \in Holders /\ d[a] = pid
  BY ONLY PoolInv, t \in Tasks, <1>1, StartJobOf
<1>5. h \in Handles /\ Bare(handles[h])
  BY ONLY PoolInv, t \in Tasks, <1>1, TakenHandle
<1>6. handles \in [Handles -> HandleRecords] /\ JobsInv(pool, worker)
  BY DEF PoolInv, Types
<1>7. handles'[h] = s /\ \A g \in Handles \ {h} : handles'[g] = handles[g]
  BY <1>5, <1>6 DEF Put
<1>8. JobsInv(pool', worker') /\ InHand(worker') = InHand(worker)
  BY <1>6, SignalledJobs
<1>9. Moved(d, d2, a, b)
  <2>1. d[b] = NoPid /\ d2[b] = pid /\ b \in Holders
    <3>1. d[b] = IF Reaps(handles[h]) THEN handles[h].pid ELSE NoPid
      BY ONLY <1>5, HoldAt
    <3>2. d2[b] = IF Reaps(handles'[h]) THEN handles'[h].pid ELSE NoPid
      BY ONLY <1>5, HoldAt
    <3>3. b \in Holders
      BY <1>5, HolderKinds
    <3>4. handles[h].pid = NoPid /\ s.pid = pid
      BY <1>5 DEF Bare, HasChild
    <3> QED
      BY <1>7, <3>1, <3>2, <3>3, <3>4
  <2>2. d2[a] = NoPid
    <3>1. d2[a] = pool'.jobs[i].pid
      BY ONLY <1>4, HoldAt DEF i
    <3> QED
      BY <1>3, <3>1
  <2>3. \A r \in Holders : r # a /\ r # b => d2[r] = d[r]
    <3>1. \A x \in Jobs : x # i => pool'.jobs[x].pid = pool.jobs[x].pid
      BY <1>3
    <3>2. \A x \in Jobs : <<"job", x>> # a /\ <<"job", x>> # b => pool'.jobs[x].pid = pool.jobs[x].pid
      BY <3>1
    <3>3. \A g \in Handles : <<"handle", g>> # a /\ <<"handle", g>> # b => handles'[g] = handles[g]
      BY <1>7
    <3>4. SameElse(pool, pool', handles, handles', worker, worker', a, b)
      BY <1>8, <3>2, <3>3 DEF SameElse
    <3> HIDE DEF a, b
    <3> QED
      BY ONLY <3>4, HoldElse
  <2>4. d[a] = pid /\ a \in Holders /\ pid # NoPid
    BY <1>1, <1>4
  <2> HIDE DEF d, d2, a, b
  <2> QED
    BY ONLY <2>1, <2>2, <2>3, <2>4 DEF Moved
<1>10. Keeping(pool, pool', {h}) /\ Finished(pool') \subseteq Finished(pool)
  <2>1. p.watches = pool.watches
    BY <1>3 DEF Beside
  <2> QED
    BY <2>1 DEF Keeping, Finished, Watches
<1>11. WakeExact'
  BY DEF WakeExact
<1>12. \A x \in Jobs \ {regs[t].job} : pool.jobs[x].state \in Pending => pool'.jobs[x] = pool.jobs[x]
  BY <1>3
<1>13. InUse(handles[h], s)
  BY DEF HasChild
<1>14. /\ PoolInv /\ h = regs[t].handle /\ pid = pool.jobs[regs[t].job].pid
       /\ handles' = Put(handles, h, s) /\ Adopts(t, h, s)
       /\ worker' \in {worker, Signalled} /\ pool'.done = pool.done
       /\ Watching(pool', handles', proc') /\ Dying(proc, proc') /\ lost' = lost
       /\ proc' \in [Pids -> {"unused", "running", "zombie", "reaped"}]
       /\ wake' \in BOOLEAN /\ WorkerAwake'
  BY <1>1, <1>3
<1> HIDE DEF b, d, d2
<1> QED
  BY ONLY <1>1, <1>8, <1>9, <1>10, <1>11, <1>12, <1>13, <1>14, AttachStep DEF d, d2, a, i

\* The watches do not notice a handle that none of them names.
LEMMA WatchingElse ==
    ASSUME NEW p0, NEW p, NEW hs, NEW hs2, NEW pr, NEW pr2, Watching(p0, hs, pr), Beside(p0, p),
           NEW h \in Handles, \A w \in Watches(p0) : p0.watches[w].handle # h,
           Unchanged(hs, hs2, {h}), hs2 \in [Handles -> HandleRecords], Dying(pr, pr2)
    PROVE  Watching(p, hs2, pr2) /\ Keeping(p0, p, {h})
<1>1. p.watches = p0.watches /\ p.watching = p0.watching /\ Watches(p) = Watches(p0)
  BY DEF Beside, Watches
<1>2. Unwatching(p0, p, {h})
  BY <1>1 DEF Unwatching, Watching
<1>3. Watching(p, hs2, pr)
  BY ONLY <1>2, WatchingDrop, Watching(p0, hs, pr), Unchanged(hs, hs2, {h})
<1>4. \A x \in Pids : pr2[x] = "reaped" <=> pr[x] = "reaped"
  BY DEF Dying, Alive
<1>5. \A g \in Handles : hs2[g].pid \in 0 .. MaxStarts
  BY DEF HandleRecords
<1>6. p.watches = p.watches /\ p.watching = p.watching
  OBVIOUS
<1>7. Watching(p, hs2, pr2)
  BY ONLY <1>3, <1>4, <1>5, <1>6, WatchingKept
<1> QED
  BY <1>1, <1>7 DEF Keeping

\* The handle has the child, and no watch or job begins.
LEMMA TakesAlone ==
    ASSUME PoolInv, NEW t \in Tasks, NEW p, NEW h, NEW pid, Takes(t, p, h, pid),
           NEW s, HasChild(handles[h], s, pid), Reaps(s), handles' = Put(handles, h, s),
           Adopts(t, h, s), pool' = p, worker' = worker, Dying(proc, proc'), lost' = lost,
           proc' \in [Pids -> {"unused", "running", "zombie", "reaped"}],
           wake' \in BOOLEAN, wake' <=> p.active # 0 \/ p.watching # 0
    PROVE  PoolInv'
<1>1. /\ EndsStart(t) /\ owner.at = "frames" /\ regs[t].ready /\ regs[t].kind = "start"
      /\ h = regs[t].handle /\ p = Release(pool, regs[t].job)
  BY DEF Takes, EndsStart
<1>2. JobsInv(p, worker) /\ CancelledPool(pool, p, regs[t].job)
  BY ONLY PoolInv, t \in Tasks, <1>1, TakenStart
<1>3. /\ h \in Handles /\ handles[h].occupied = 1 /\ ~handles[h].exited
      /\ \A w \in Watches(pool) : pool.watches[w].handle # h
  BY <1>1, TakenHandle DEF Bare
<1>4. /\ handles \in [Handles -> HandleRecords] /\ Watching(pool, handles, proc) /\ Waking
  BY DEF PoolInv, Types
<1>5. handles' \in [Handles -> HandleRecords] /\ Unchanged(handles, handles', {h})
  <2>1. s \in HandleRecords
    BY DEF HasChild, InUse
  <2> QED
    BY <1>3, <1>4, <2>1 DEF Put, Unchanged
<1>6. Beside(pool, p) /\ (pool.queue = <<>> => p.queue = <<>>)
  BY <1>2 DEF CancelledPool
<1>7. Watching(pool', handles', proc')
  <2>1. Watching(p, handles', proc')
    BY ONLY <1>3, <1>4, <1>5, <1>6, WatchingElse, Dying(proc, proc')
  <2> QED
    BY <2>1
<1>8. Keeping(p, pool', {h}) /\ Finished(pool') \subseteq Finished(p)
  BY DEF Keeping
<1>9. WorkerAwake'
  BY <1>4, <1>6 DEF Waking, WorkerAwake, Beside
<1>10. JobsInv(pool', worker) /\ worker' \in {worker, Signalled} /\ pool'.jobs = p.jobs /\ pool'.done = p.done
  BY <1>2
<1>11. wake' <=> pool'.active # 0 \/ pool'.watching # 0
  OBVIOUS
<1>12. /\ PoolInv /\ Takes(t, p, h, pid) /\ HasChild(handles[h], s, pid) /\ Reaps(s)
       /\ handles' = Put(handles, h, s) /\ Adopts(t, h, s) /\ Dying(proc, proc') /\ lost' = lost
       /\ proc' \in [Pids -> {"unused", "running", "zombie", "reaped"}] /\ wake' \in BOOLEAN
       /\ t \in Tasks
  OBVIOUS
<1> QED
  BY ONLY <1>7, <1>8, <1>9, <1>10, <1>11, <1>12, HandleTakes

\* The child is watched by the worker.
LEMMA TakesWatched ==
    ASSUME PoolInv, NEW t \in Tasks, NEW p, NEW h, NEW pid, Takes(t, p, h, pid),
           NEW s, s = AttachedRecord(handles[h], pid, "worker"), handles' = Put(handles, h, s),
           Adopts(t, h, s), pool' = Watched(p, pid, h, handles[h].gen), worker' = Signalled,
           wake' = TRUE, proc' = proc, lost' = lost
    PROVE  PoolInv'
<1>1. /\ EndsStart(t) /\ owner.at = "frames" /\ regs[t].ready /\ regs[t].kind = "start"
      /\ h = regs[t].handle /\ p = Release(pool, regs[t].job)
      /\ pid = pool.jobs[regs[t].job].pid /\ pid # NoPid
  BY DEF Takes, EndsStart
<1>2. JobsInv(p, worker) /\ CancelledPool(pool, p, regs[t].job)
  BY ONLY PoolInv, t \in Tasks, <1>1, TakenStart
<1>3. /\ h \in Handles /\ Bare(handles[h]) /\ ~handles[h].exited /\ ~handles[h].reaping
      /\ handles[h] \in HandleRecords /\ handles[h].source = "none" /\ handles[h].gen \in 0 .. MaxStarts
      /\ \A w \in Watches(pool) : pool.watches[w].handle # h
  BY ONLY PoolInv, t \in Tasks, <1>1, TakenHandle
<1>4. pid \in Pids /\ proc[pid] \in Alive
  BY ONLY PoolInv, t \in Tasks, <1>1, StartJobOf
<1>5. /\ handles \in [Handles -> HandleRecords] /\ Watching(pool, handles, proc)
      /\ proc \in [Pids -> {"unused", "running", "zombie", "reaped"}] /\ worker \in Workers
  BY DEF PoolInv, Types
<1>6. /\ HasChild(handles[h], s, pid) /\ s.occupied = 1 /\ s.source = "worker" /\ Reaps(s) /\ ~s.exited
  <2>1. "worker" \in {"reactor", "worker"} /\ s = AttachedRecord(handles[h], pid, "worker")
    OBVIOUS
  <2> QED
    BY ONLY <1>3, <1>4, <2>1, AttachedFacts
<1>7. /\ s.pid = pid /\ s.gen = handles[h].gen /\ s \in HandleRecords
  BY <1>6 DEF HasChild, InUse
<1>8. handles' \in [Handles -> HandleRecords] /\ Unchanged(handles, handles', {h}) /\ handles'[h] = s
  BY <1>3, <1>5, <1>7 DEF Put, Unchanged
<1>9. ToWatch(handles', h, pid, handles[h].gen)
  BY <1>6, <1>7, <1>8 DEF ToWatch
<1>10. Beside(pool, p)
  BY <1>2 DEF CancelledPool
<1>11. Watchable(p, handles, handles', proc, h, pid, handles[h].gen)
  <2>1. Watching(p, handles, proc)
    <3>1. Unchanged(handles, handles, {h}) /\ Dying(proc, proc)
      BY DEF Unchanged, Dying
    <3> QED
      BY ONLY <1>3, <1>5, <1>10, <3>1, WatchingElse
  <2>2. \A w \in Watches(p) : p.watches[w].handle # h
    BY <1>3, <1>10 DEF Beside, Watches
  <2>3. proc[pid] # "reaped"
    BY <1>4 DEF Alive
  <2> QED
    BY <1>3, <1>4, <1>8, <1>9, <2>1, <2>2, <2>3 DEF Watchable
<1>12. /\ JobsInv(pool', worker) /\ Watching(pool', handles', proc) /\ Keeping(p, pool', {h})
       /\ pool'.jobs = p.jobs /\ pool'.done = p.done
       /\ pool'.watching # 0 /\ Finished(pool') \subseteq Finished(p)
  <2>1. pool' = Watched(p, pid, h, handles[h].gen)
    OBVIOUS
  <2>2. JobsInv(p, worker)
    BY <1>2
  <2> QED
    BY ONLY <1>11, <2>1, <2>2, BeginWatch
<1>13. WorkerAwake'
  BY <1>5, SignalledFacts DEF WorkerAwake
<1>14. Dying(proc, proc')
  BY SameProc
<1>15. /\ PoolInv /\ Takes(t, p, h, pid) /\ handles' = Put(handles, h, s) /\ Adopts(t, h, s)
       /\ lost' = lost /\ proc' \in [Pids -> {"unused", "running", "zombie", "reaped"}]
       /\ wake' \in BOOLEAN /\ worker' \in {worker, Signalled}
       /\ t \in Tasks /\ proc' = proc
  BY <1>5
<1>16. wake' <=> pool'.active # 0 \/ pool'.watching # 0
  BY <1>12
<1>17. Watching(pool', handles', proc')
  BY <1>12
<1> QED
  BY ONLY <1>6, <1>12, <1>13, <1>14, <1>15, <1>16, <1>17, HandleTakes

\* A child that cannot be watched goes to a reap job.
LEMMA TakesGiven ==
    ASSUME PoolInv, NEW t \in Tasks, NEW p, NEW h, NEW pid, Takes(t, p, h, pid),
           NEW s, s = LeftRecord(handles[h], pid, TRUE), handles' = Put(handles, h, s),
           FreeJobs(p) # {}, pool' = Submitted(p, ReapJob(pid, h, handles[h].gen)),
           worker' = Signalled, wake' = TRUE, UNCHANGED <<proc, lost, child, live>>
    PROVE  PoolInv'
<1> DEFINE i == regs[t].job
           j == First(FreeJobs(p))
           a == <<"job", i>>
           b == <<"job", j>>
           d == Hold(pool, handles, worker)
           d2 == Hold(pool', handles', worker')
<1>1. /\ EndsStart(t) /\ owner.at = "frames" /\ regs[t].ready /\ regs[t].kind = "start"
      /\ h = regs[t].handle /\ p = Release(pool, regs[t].job)
      /\ pid = pool.jobs[regs[t].job].pid /\ pid # NoPid
  BY DEF Takes, EndsStart
<1>2. JobsInv(p, worker) /\ CancelledPool(pool, p, regs[t].job)
  BY ONLY PoolInv, t \in Tasks, <1>1, TakenStart
<1>3. /\ h \in Handles /\ Bare(handles[h]) /\ ~handles[h].exited /\ ~handles[h].reaping
      /\ handles[h] \in HandleRecords /\ handles[h].source = "none" /\ handles[h].gen \in 0 .. MaxStarts
      /\ \A w \in Watches(pool) : pool.watches[w].handle # h
  BY ONLY PoolInv, t \in Tasks, <1>1, TakenHandle
<1>4. /\ pid \in Pids /\ i \in Jobs /\ a \in Holders /\ d[a] = pid
  BY ONLY PoolInv, t \in Tasks, <1>1, StartJobOf
<1>5. /\ handles \in [Handles -> HandleRecords] /\ Watching(pool, handles, proc)
      /\ proc \in [Pids -> {"unused", "running", "zombie", "reaped"}] /\ worker \in Workers
      /\ JobsInv(pool, worker)
  BY DEF PoolInv, Types
<1>6. HasChild(handles[h], s, pid) /\ s.occupied = 2 /\ (s.reaping <=> TRUE)
  <2>1. TRUE \in BOOLEAN /\ s = LeftRecord(handles[h], pid, TRUE)
    OBVIOUS
  <2> QED
    BY ONLY <1>3, <1>4, <2>1, LeftFacts
<1>7. ~Reaps(s) /\ InUse(handles[h], s) /\ s \in HandleRecords
  BY <1>6 DEF HasChild, InUse
<1>8. handles' \in [Handles -> HandleRecords] /\ Unchanged(handles, handles', {h}) /\ handles'[h] = s
  BY <1>3, <1>5, <1>7 DEF Put, Unchanged
<1>9. JobsInv(pool', worker) /\ GivenTo(p, pool', j, pid)
  <2>1. h \in 0 .. HandleCapacity
    BY <1>3, HandleCapacityAssumption DEF Handles
  <2>2. JobsInv(p, worker) /\ FreeJobs(p) # {} /\ pool' = Submitted(p, ReapJob(pid, h, handles[h].gen))
    BY <1>2
  <2> QED
    BY ONLY <1>3, <1>4, <2>1, <2>2, GiveJob
<1> HIDE DEF i, j
<1>10. /\ j \in Jobs /\ p.jobs[j].state = "free" /\ p.jobs[j].pid = NoPid
       /\ pool'.jobs[j].pid = pid /\ b \in Holders
       /\ \A x \in Jobs \ {j} : pool'.jobs[x] = p.jobs[x]
       /\ pool'.active # 0 /\ pool'.done = p.done /\ Beside(p, pool')
  BY <1>9, HolderKinds DEF GivenTo
<1>11. /\ Beside(pool, p) /\ p.done = pool.done /\ p.jobs[i].pid = NoPid
       /\ \A x \in Jobs \ {i} : p.jobs[x] = pool.jobs[x]
  BY <1>2 DEF CancelledPool, i
<1>12. JobsInv(pool', worker') /\ InHand(worker') = InHand(worker) /\ worker'.pc # "waiting"
  BY <1>5, <1>9, SignalledJobs, SignalledFacts
<1>13. j # i => pool.jobs[j].state = "free" /\ pool.jobs[j].pid = NoPid
  BY <1>10, <1>11
<1>14. Moved(d, d2, a, b)
  <2>1. d2[b] = pid
    <3>1. d2[b] = pool'.jobs[j].pid
      BY ONLY <1>10, HoldAt
    <3> QED
      BY <1>10, <3>1
  <2>2. a # b => d[b] = NoPid /\ d2[a] = NoPid
    <3>1. d[b] = pool.jobs[j].pid
      BY ONLY <1>10, HoldAt
    <3>2. d2[a] = pool'.jobs[i].pid
      BY ONLY <1>4, HoldAt DEF i
    <3>3. i # j => pool'.jobs[i].pid = NoPid
      BY <1>4, <1>10, <1>11 DEF i
    <3> QED
      BY <1>13, <3>1, <3>2, <3>3
  <2>3. \A r \in Holders : r # a /\ r # b => d2[r] = d[r]
    <3>1. \A x \in Jobs : x # i /\ x # j => pool'.jobs[x].pid = pool.jobs[x].pid
      BY <1>10, <1>11
    <3>2. ASSUME NEW r \in Holders, r # a, r # b
          PROVE  d2[r] = d[r]
      <4>1. CASE \E x \in Jobs : r = <<"job", x>>
        <5>1. PICK x \in Jobs : r = <<"job", x>>
          BY <4>1
        <5>2. d2[r] = pool'.jobs[x].pid
          BY ONLY <5>1, HoldAt
        <5>3. d[r] = pool.jobs[x].pid
          BY ONLY <5>1, HoldAt
        <5> QED
          BY <3>1, <3>2, <5>1, <5>2, <5>3
      <4>2. CASE \E g \in Handles : r = <<"handle", g>>
        <5>1. PICK g \in Handles : r = <<"handle", g>>
          BY <4>2
        <5>2. d2[r] = IF Reaps(handles'[g]) THEN handles'[g].pid ELSE NoPid
          BY ONLY <5>1, HoldAt
        <5>3. d[r] = IF Reaps(handles[g]) THEN handles[g].pid ELSE NoPid
          BY ONLY <5>1, HoldAt
        <5>4. g # h => handles'[g] = handles[g]
          BY <1>8 DEF Unchanged
        <5>5. handles[h].pid = NoPid
          BY <1>3 DEF Bare
        <5> QED
          BY ONLY <1>7, <1>8, <5>2, <5>3, <5>4, <5>5
      <4>3. CASE r = <<"worker", 0>>
        <5>1. d2[r] = InHand(worker')
          BY ONLY <4>3, HoldAt
        <5>2. d[r] = InHand(worker)
          BY ONLY <4>3, HoldAt
        <5> QED
          BY <1>12, <5>1, <5>2
      <4> QED
        BY <4>1, <4>2, <4>3, HolderKinds
    <3> QED
      BY <3>2
  <2>4. d[a] = pid /\ a \in Holders /\ b \in Holders /\ pid # NoPid
    BY <1>1, <1>4, <1>10 DEF i
  <2> HIDE DEF d, d2, a, b
  <2> QED
    BY ONLY <2>1, <2>2, <2>3, <2>4 DEF Moved
<1>15. Beside(pool, pool') /\ pool'.done = pool.done
  BY <1>10, <1>11 DEF Beside
<1>16. Dying(proc, proc')
  BY SameProc
<1>17. Watching(pool', handles', proc') /\ Keeping(pool, pool', {h})
  BY ONLY <1>3, <1>5, <1>8, <1>15, <1>16, WatchingElse
<1>18. Finished(pool') \subseteq Finished(pool)
  BY <1>15 DEF Finished, Beside
<1>19. \A x \in Jobs \ {regs[t].job} : pool.jobs[x].state \in Pending => pool'.jobs[x] = pool.jobs[x]
  <2>1. ASSUME NEW x \in Jobs, x # i, pool.jobs[x].state \in Pending
        PROVE  pool'.jobs[x] = pool.jobs[x]
    <3>1. x # j
      BY <1>13, <2>1 DEF Pending
    <3> QED
      BY <1>10, <1>11, <2>1, <3>1
  <2> QED
    BY <2>1 DEF i
<1>20. WakeExact' /\ WorkerAwake' /\ wake' \in BOOLEAN
  BY <1>10, <1>12 DEF WakeExact, WorkerAwake
<1>21. Adopts(t, h, s)
  <2>1. s.occupied # 1
    BY ONLY <1>6
  <2> QED
    BY ONLY <2>1, UNCHANGED <<proc, lost, child, live>> DEF Adopts
<1>22. /\ PoolInv /\ handles' = Put(handles, h, s) /\ worker' \in {worker, Signalled} /\ lost' = lost
       /\ proc' \in [Pids -> {"unused", "running", "zombie", "reaped"}]
  BY <1>5
<1> HIDE DEF b, d, d2
<1> QED
  BY ONLY <1>1, <1>7, <1>12, <1>14, <1>15, <1>16, <1>17, <1>18, <1>19, <1>20, <1>21, <1>22, AttachStep
  DEF d, d2, a, i

\* The wake registration of a pool from which a start's job was released.
LEMMA TakenWake ==
    ASSUME PoolInv, NEW t \in Tasks, regs[t].kind = "start", owner.at = "frames",
           NEW p, NEW w, w = Idle(p, wake)
    PROVE  w \in BOOLEAN /\ (w <=> p.active # 0 \/ p.watching # 0)
BY StartJobOf DEF Idle

\* A child that cannot be watched.
LEMMA UnwatchedInv ==
    ASSUME PoolInv, NEW t \in Tasks, NEW p, NEW h, NEW pid, Takes(t, p, h, pid),
           NEW w, w = Idle(p, wake), ReapUnwatched(p, w, pid, regs[t]), lost' = lost
    PROVE  PoolInv'
<1>1. /\ regs[t].kind = "start" /\ owner.at = "frames" /\ regs[t].ready
      /\ h = regs[t].handle /\ p = Release(pool, regs[t].job)
      /\ pid = pool.jobs[regs[t].job].pid /\ pid # NoPid
  BY DEF Takes, EndsStart
<1>2. JobsInv(p, worker)
  BY ONLY PoolInv, t \in Tasks, <1>1, TakenStart
<1>3. /\ h \in Handles /\ Bare(handles[h]) /\ ~handles[h].exited /\ ~handles[h].reaping
      /\ handles[h] \in HandleRecords /\ handles[h].source = "none"
      /\ handles[h].gen = regs[t].hgen
  BY ONLY PoolInv, t \in Tasks, <1>1, TakenHandle
<1>4. pid \in Pids /\ proc[pid] \in Alive
  BY ONLY PoolInv, t \in Tasks, <1>1, StartJobOf
<1>5. w \in BOOLEAN /\ (w <=> p.active # 0 \/ p.watching # 0)
  BY <1>1, TakenWake
<1>6. PICK registered \in (IF w THEN {TRUE} ELSE BOOLEAN) :
        /\ pool' = Reaping(p, registered, pid, h, handles[h].gen)
        /\ wake' = registered
        /\ worker' = IF ReapFits(p, registered) THEN Signalled ELSE worker
        /\ proc' = IF ~ReapFits(p, registered) /\ proc[pid] = "running"
                   THEN [proc EXCEPT ![pid] = "zombie"] ELSE proc
        /\ handles' = [handles EXCEPT ![h].pid = pid, ![h].occupied = 2,
                                      ![h].reaping = ReapFits(p, registered)]
        /\ UNCHANGED <<child, live>>
  BY <1>1, <1>3 DEF ReapUnwatched
<1>7. registered \in BOOLEAN /\ (w => registered)
  BY <1>5
<1>8. FreeJobs(p) = {} => p.active # 0
  <2>1. 1 \in Jobs
    BY JobCapacityAssumption DEF Jobs
  <2>2. p.active # 0 <=> \E i \in Jobs : p.jobs[i].state # "free"
    BY ONLY <1>2, <2>1, JobCounts
  <2> QED
    BY <2>1, <2>2 DEF FreeJobs
<1>9. CASE ReapFits(p, registered)
  <2>1. FreeJobs(p) # {} /\ registered = TRUE
    BY <1>7, <1>9 DEF ReapFits
  <2>2. handles' = [handles EXCEPT ![h].pid = pid, ![h].occupied = 2, ![h].reaping = TRUE]
    BY <1>6, <1>9, <2>1 DEF ReapFits
  <2>3. handles' = Put(handles, h, LeftRecord(handles[h], pid, TRUE))
    BY <2>2 DEF Put, LeftRecord
  <2>4. pool' = Submitted(p, ReapJob(pid, h, handles[h].gen))
    BY <1>6, <1>9 DEF Reaping
  <2>5. worker' = Signalled /\ wake' = TRUE /\ UNCHANGED <<proc, lost, child, live>>
    BY <1>6, <1>9, <2>1
  <2> QED
    BY <2>1, <2>3, <2>4, <2>5, TakesGiven
<1>10. CASE ~ReapFits(p, registered)
  <2> DEFINE s == LeftRecord(handles[h], pid, FALSE)
  <2>1. registered => FreeJobs(p) = {}
    BY <1>10 DEF ReapFits
  <2>2. handles' = [handles EXCEPT ![h].pid = pid, ![h].occupied = 2, ![h].reaping = FALSE]
    BY <1>6, <1>10, <2>1 DEF ReapFits
  <2>3. handles' = Put(handles, h, s)
    BY <2>2 DEF Put, LeftRecord
  <2> HIDE DEF s
  <2>4. HasChild(handles[h], s, pid) /\ s.occupied = 2 /\ ~s.reaping
    <3>1. FALSE \in BOOLEAN /\ s = LeftRecord(handles[h], pid, FALSE)
      BY DEF s
    <3>2. HasChild(handles[h], s, pid) /\ s.occupied = 2 /\ (s.reaping <=> FALSE)
      BY ONLY <1>3, <1>4, <3>1, LeftFacts
    <3> QED
      BY <3>2
  <2>5. Reaps(s)
    BY <2>4 DEF HasChild
  <2>6. Adopts(t, h, s)
    <3>1. s.occupied # 1
      BY ONLY <2>4
    <3> QED
      BY ONLY <1>6, <3>1 DEF Adopts
  <2>7. pool' = p /\ worker' = worker
    BY <1>6, <1>10 DEF Reaping
  <2>8. /\ Dying(proc, proc')
        /\ proc' \in [Pids -> {"unused", "running", "zombie", "reaped"}]
    <3>1. proc \in [Pids -> {"unused", "running", "zombie", "reaped"}]
      BY DEF PoolInv, Types
    <3> QED
      BY <1>4, <1>6, <3>1 DEF Dying, Alive
  <2>9. wake' \in BOOLEAN /\ (wake' <=> p.active # 0 \/ p.watching # 0)
    BY <1>5, <1>6, <1>7, <1>8, <2>1
  <2> QED
    BY <2>3, <2>4, <2>5, <2>6, <2>7, <2>8, <2>9, TakesAlone
<1> QED
  BY <1>9, <1>10

LEMMA AttachInv ==
    ASSUME PoolInv, NEW t \in Tasks, NEW p, NEW h, NEW pid, Takes(t, p, h, pid),
           NEW w, w = Idle(p, wake), Attach(p, w, t, pid, regs[t]), lost' = lost
    PROVE  PoolInv'
<1>1. /\ regs[t].kind = "start" /\ owner.at = "frames" /\ regs[t].ready
      /\ h = regs[t].handle /\ p = Release(pool, regs[t].job)
      /\ pid = pool.jobs[regs[t].job].pid /\ pid # NoPid
  BY DEF Takes, EndsStart
<1>2. /\ h \in Handles /\ Bare(handles[h]) /\ ~handles[h].exited /\ ~handles[h].reaping
      /\ handles[h] \in HandleRecords /\ handles[h].source = "none"
      /\ handles[h].gen = regs[t].hgen
  BY ONLY PoolInv, t \in Tasks, <1>1, TakenHandle
<1>3. pid \in Pids
  BY ONLY PoolInv, t \in Tasks, <1>1, StartJobOf
<1>4. w \in BOOLEAN /\ (w <=> p.active # 0 \/ p.watching # 0)
  BY <1>1, TakenWake
<1>5. ASSUME handles' = [handles EXCEPT ![h].pid = pid, ![h].source = "reactor"],
             child' = [child EXCEPT ![t] = [handle |-> h, gen |-> handles[h].gen]],
             live' = live + 1, pool' = p, wake' = w, UNCHANGED <<worker, proc>>
      PROVE  PoolInv'
  <2> DEFINE s == AttachedRecord(handles[h], pid, "reactor")
  <2>1. handles' = Put(handles, h, s)
    BY <1>5 DEF Put, AttachedRecord
  <2>2. s = AttachedRecord(handles[h], pid, "reactor") /\ "reactor" \in {"reactor", "worker"}
    OBVIOUS
  <2> HIDE DEF s
  <2>3. HasChild(handles[h], s, pid) /\ s.occupied = 1 /\ Reaps(s)
    BY ONLY <1>2, <1>3, <2>2, AttachedFacts
  <2>4. Adopts(t, h, s)
    BY ONLY <1>5, <2>3 DEF Adopts
  <2>5. proc' \in [Pids -> {"unused", "running", "zombie", "reaped"}] /\ Dying(proc, proc')
    BY <1>5, SameProc DEF PoolInv, Types
  <2> QED
    BY <1>4, <1>5, <2>1, <2>3, <2>4, <2>5, TakesAlone
<1>6. ASSUME pool' = Watched(p, pid, h, handles[h].gen), wake' = TRUE, worker' = Signalled,
             handles' = [handles EXCEPT ![h].pid = pid, ![h].source = "worker"],
             child' = [child EXCEPT ![t] = [handle |-> h, gen |-> handles[h].gen]],
             live' = live + 1, UNCHANGED proc
      PROVE  PoolInv'
  <2> DEFINE s == AttachedRecord(handles[h], pid, "worker")
  <2>1. handles' = Put(handles, h, s)
    BY <1>6 DEF Put, AttachedRecord
  <2>2. s = AttachedRecord(handles[h], pid, "worker") /\ "worker" \in {"reactor", "worker"}
    OBVIOUS
  <2> HIDE DEF s
  <2>3. s.occupied = 1
    BY ONLY <1>2, <1>3, <2>2, AttachedFacts
  <2>4. Adopts(t, h, s)
    BY ONLY <1>6, <2>3 DEF Adopts
  <2> QED
    BY <1>6, <2>1, <2>2, <2>4, TakesWatched
<1>7. CASE ReapUnwatched(p, w, pid, regs[t])
  BY <1>7, UnwatchedInv
<1> QED
  BY <1>1, <1>2, <1>5, <1>6, <1>7 DEF Attach

LEMMA SpawnResumeInv ==
    ASSUME PoolInv, NEW t \in Tasks, SpawnResume(t)
    PROVE  PoolInv'
<1> DEFINE r == regs[t]
           job == pool.jobs[r.job]
           taken == job.gen = r.jgen /\ job.state = "start_delivered"
           p == Release(pool, r.job)
<1>1. /\ owner.at = "frames" /\ r.kind = "start"
      /\ ready' = ready \ {t} /\ regs' = [regs EXCEPT ![t] = NoReg]
      /\ UNCHANGED <<pipe, owner, nextGen, stale>>
      /\ \/ /\ Expired(r)
            /\ CancelStart(r)
            /\ handles' = ReleaseReserved(handles, r)
            /\ UNCHANGED <<live, child, proc>>
         \/ /\ ~Expired(r) /\ r.ready /\ (~taken \/ job.pid = NoPid)
            /\ pool' = IF taken THEN p ELSE pool
            /\ wake' = IF taken THEN Idle(p, wake) ELSE wake
            /\ handles' = ReleaseReserved(handles, r)
            /\ UNCHANGED <<worker, live, child, proc, lost>>
         \/ /\ ~Expired(r) /\ r.ready /\ taken /\ job.pid # NoPid
            /\ Attach(p, Idle(p, wake), t, job.pid, r)
            /\ UNCHANGED lost
  BY DEF SpawnResume
<1>2. EndsStart(t)
  <2>1. owner \in [at : {"frames", "arm", "drain", "watches", "rearm", "join", "down"},
                   task : Tasks \cup {NoTask}] /\ ~stale
    BY DEF PoolInv, Types
  <2> QED
    BY <1>1, <2>1 DEF EndsStart
<1>3. CASE CancelStart(r) /\ handles' = ReleaseReserved(handles, r) /\ UNCHANGED <<live, child, proc>>
  <2>1. Withdrawn(t)
    BY <1>1, <1>3, CancelWithdraws
  <2> QED
    BY <1>2, <1>3, <2>1, StartFails
<1>4. ASSUME r.ready
      PROVE  taken /\ JobsInv(p, worker) /\ CancelledPool(pool, p, r.job)
  <2>1. /\ job.state = "start_delivered" /\ JobsInv(p, worker) /\ CancelledPool(pool, p, r.job)
    BY ONLY PoolInv, t \in Tasks, <1>1, <1>4, TakenStart
  <2>2. job.gen = r.jgen
    BY ONLY PoolInv, t \in Tasks, <1>1, StartJobOf
  <2> QED
    BY <2>1, <2>2
<1>5. CASE /\ r.ready /\ (~taken \/ job.pid = NoPid)
           /\ pool' = IF taken THEN p ELSE pool
           /\ wake' = IF taken THEN Idle(p, wake) ELSE wake
           /\ handles' = ReleaseReserved(handles, r)
           /\ UNCHANGED <<worker, live, child, proc, lost>>
  <2>1. pool' = p /\ wake' = Idle(pool', wake) /\ job.pid = NoPid /\ UNCHANGED <<worker, lost>>
    BY <1>4, <1>5
  <2>2. JobsInv(pool', worker) /\ CancelledPool(pool, pool', r.job)
    BY <1>4, <1>5, <2>1
  <2>3. Withdrawn(t)
    BY <1>1, <2>1, <2>2, WithdrawnBare
  <2> QED
    BY <1>2, <1>5, <2>3, StartFails
<1>6. CASE /\ r.ready /\ taken /\ job.pid # NoPid
           /\ Attach(p, Idle(p, wake), t, job.pid, r)
           /\ UNCHANGED lost
  <2>1. Takes(t, p, r.handle, job.pid)
    BY <1>1, <1>2, <1>6 DEF Takes
  <2> QED
    BY <1>6, <2>1, AttachInv
<1> QED
  BY <1>1, <1>3, <1>5, <1>6

-----------------------------------------------------------------------------
(* The invariant holds at the start and through every step.                *)

LEMMA InitTypes ==
    ASSUME Init
    PROVE  Types
<1>1. /\ 0 \in 0 .. MaxStarts /\ 0 \in 0 .. HandleCapacity /\ 0 \in 0 .. 2
      /\ 1 \in Jobs /\ 1 \in Handles /\ 0 \in Nat
  BY MaxStartsAssumption, HandleCapacityAssumption, JobCapacityAssumption DEF Jobs, Handles
<1>2. FreeJob(0) \in JobRecords /\ NoWatch \in WatchRecords
  BY <1>1 DEF FreeJob, NoWatch, JobRecords, WatchRecords, NoPid, NoHandle, States
<1>3. FreeHandle(0) \in HandleRecords /\ NoReg \in RegRecords
  BY <1>1 DEF FreeHandle, NoReg, HandleRecords, RegRecords, NoPid
<1>4. NoChild \in [handle : 0 .. HandleCapacity, gen : 0 .. MaxStarts]
  BY <1>1 DEF NoChild, NoHandle
<1>5. [j \in Jobs |-> FreeJob(0)] \in [Jobs -> JobRecords]
      /\ [w \in Handles |-> NoWatch] \in [Handles -> WatchRecords]
  BY <1>2
<1>6. pool \in Pools
  <2>1. <<>> \in Seq(Jobs)
    OBVIOUS
  <2> QED
    BY <1>1, <1>5, <2>1 DEF Init, Pools
<1>7. worker \in Workers
  BY <1>1 DEF Init, Workers, NoPid
<1>8. handles \in [Handles -> HandleRecords] /\ regs \in [Tasks -> RegRecords]
      /\ child \in [Tasks -> [handle : 0 .. HandleCapacity, gen : 0 .. MaxStarts]]
  BY <1>3, <1>4 DEF Init
<1>9. proc \in [Pids -> {"unused", "running", "zombie", "reaped"}]
  BY DEF Init
<1>10. /\ owner \in [at : {"frames", "arm", "drain", "watches", "rearm", "join", "down"},
                     task : Tasks \cup {NoTask}]
       /\ wake \in BOOLEAN /\ pipe \in BOOLEAN /\ nextGen \in 0 .. MaxStarts
       /\ ready \subseteq Tasks /\ lost \subseteq Pids
  BY <1>1 DEF Init
<1> QED
  BY <1>6, <1>7, <1>8, <1>9, <1>10 DEF Types

LEMMA InitInv ==
    ASSUME Init
    PROVE  PoolInv
<1>1. Types
  BY InitTypes
<1>2. /\ pool.queue = <<>> /\ pool.done = <<>> /\ pool.active = 0 /\ pool.starts = 0
      /\ pool.watching = 0 /\ pool.gen = 0
      /\ \A j \in Jobs : pool.jobs[j] = FreeJob(0)
      /\ \A w \in Handles : pool.watches[w] = NoWatch
      /\ \A h \in Handles : handles[h] = FreeHandle(0)
      /\ worker.pc = "none" /\ owner.at = "frames" /\ nextGen = 0 /\ live = 0
      /\ \A t \in Tasks : regs[t] = NoReg /\ child[t] = NoChild
      /\ \A x \in Pids : proc[x] = "unused"
      /\ ~wake /\ ~stale /\ lost = {} /\ pool \in Pools /\ worker \in Workers
  BY <1>1 DEF Init, Types
<1>3. /\ \A j \in Jobs : pool.jobs[j].state = "free" /\ pool.jobs[j].pid = NoPid
                         /\ pool.jobs[j].gen = 0
      /\ \A w \in Handles : ~pool.watches[w].active
      /\ \A h \in Handles : /\ handles[h].occupied = 0 /\ handles[h].gen = 0
                            /\ handles[h].pid = NoPid /\ ~handles[h].exited
      /\ \A t \in Tasks : regs[t].kind = "none" /\ ~regs[t].ready
  BY <1>2 DEF FreeJob, NoWatch, FreeHandle, NoReg
<1>4. /\ BusyJobs(pool) = {} /\ StartJobs(pool) = {} /\ Watches(pool) = {}
      /\ OpenHandles(handles) = {} /\ Completed = {}
  BY <1>3 DEF BusyJobs, StartJobs, StartStates, Watches, OpenHandles, Completed
<1>5. Cardinality({}) = 0
  BY FS_EmptySet
<1>6. JobsInv(pool, worker)
  <2>1. Once(pool.queue) /\ Once(pool.done) /\ Elements(pool.queue) = {}
        /\ Elements(pool.done) = {}
    BY <1>2, EmptyList
  <2>2. ASSUME NEW j \in Jobs
        PROVE  Placed(pool, worker, j) /\ Loaded(pool, j) /\ pool.jobs[j].gen <= pool.gen
    BY <1>2, <1>3, <2>1 DEF Placed, Loaded
  <2>3. AtWork(pool, worker)
    BY <1>2 DEF AtWork
  <2>4. pool.starts <= StartCapacity
    BY <1>2, StartCapacityAssumption, JobCapacityAssumption
  <2> QED
    BY <1>2, <1>4, <1>5, <2>1, <2>2, <2>3, <2>4 DEF JobsInv
<1>7. Watching(pool, handles, proc)
  BY <1>2, <1>4, <1>5 DEF Watching
<1>8. Handled(handles)
  BY <1>3 DEF Handled
<1>9. Numbered(handles, nextGen)
  BY <1>2, <1>3 DEF Numbered
<1>10. Children(pool, handles, worker, proc, lost)
  <2>1. ASSUME NEW r \in Holders PROVE Hold(pool, handles, worker)[r] = NoPid
    BY <1>2, <1>3, HolderKinds, HoldAt DEF Reaps, InHand
  <2> QED
    BY <1>2, <1>3, <2>1 DEF Children, Custody, Alive
<1>11. Reserved(pool, handles, regs, owner)
  BY <1>2, <1>3 DEF Reserved
<1>12. Parented(handles, child)
  BY <1>2 DEF Parented
<1>13. Waking
  BY <1>2, <1>4 DEF Waking, WakeExact, WorkerAwake
<1>14. Closing
  BY <1>2 DEF Closing
<1> QED
  BY <1>1, <1>2, <1>4, <1>5, <1>6, <1>7, <1>8, <1>9, <1>10, <1>11, <1>12, <1>13, <1>14
     DEF PoolInv

LEMMA PoolStutters ==
    ASSUME PoolInv, UNCHANGED vars
    PROVE  PoolInv'
<1>1. UNCHANGED <<pool, wake, pipe, worker, owner, handles, nextGen, live, regs,
                  child, ready, proc, stale, lost>>
  BY DEF vars
<1>2. /\ Types' /\ JobsInv(pool, worker)' /\ Watching(pool, handles, proc)'
      /\ Handled(handles)' /\ Numbered(handles, nextGen)'
      /\ Children(pool, handles, worker, proc, lost)'
      /\ Reserved(pool, handles, regs, owner)' /\ Parented(handles, child)'
      /\ (live = Cardinality(OpenHandles(handles)))' /\ ~stale'
  BY <1>1 DEF PoolInv, Types
<1>3. Waking' /\ Closing'
  BY <1>1 DEF PoolInv, Waking, Closing, WakeExact, WorkerAwake, Completed, Announced
<1> QED
  BY <1>2, <1>3 DEF PoolInv

LEMMA PoolStep ==
    ASSUME PoolInv, [Next]_vars
    PROVE  PoolInv'
<1>1. ASSUME NEW t \in Tasks, Task(t) PROVE PoolInv'
  BY <1>1, SpawnStartInv, SpawnResumeInv, CancelTaskInv, ObserveExitInv, TerminateInv,
     WatchInsteadInv, CloseInv, AbandonInv, TimerExpiresInv DEF Task
<1>2. CASE Worker
  BY <1>2, WorkerWaitsInv, WorkerScansInv, WorkerTakesInv, WorkerSpawnsInv,
     WorkerCleansUpInv, WorkerReapsInv, WorkerSignalsInv, WorkerEndsInv DEF Worker
<1>3. CASE Reactor
  BY <1>3, PoolWakeInv, DrainCompletionInv, DeliverWatchInv, RearmWakeInv DEF Reactor
<1>4. ASSUME NEW p \in Pids, ChildExits(p) PROVE PoolInv'
  BY <1>4, ChildExitsInv
<1>5. CASE ArmTimer
  BY <1>5, ArmTimerInv
<1>6. CASE Stop
  BY <1>6, StopInv
<1>7. CASE Finish
  BY <1>7, FinishInv
<1>8. CASE UNCHANGED vars
  BY <1>8, PoolStutters
<1> QED
  BY <1>1, <1>2, <1>3, <1>4, <1>5, <1>6, <1>7, <1>8 DEF Next

LEMMA PoolSafe == Spec => []PoolInv
<1>1. Init => PoolInv
  BY InitInv
<1>2. PoolInv /\ [Next]_vars => PoolInv'
  BY PoolStep
<1> QED
  BY <1>1, <1>2, PTL DEF Spec

-----------------------------------------------------------------------------
(* What the invariant says.                                                *)

LEMMA WakesAreExact ==
    ASSUME PoolInv
    PROVE  WakesExact
<1>1. /\ Waking /\ JobsInv(pool, worker) /\ Watching(pool, handles, proc)
      /\ pool \in Pools
  BY DEF PoolInv, Types
<1>2. pool.done # <<>> => pool.active # 0
  <2> SUFFICES ASSUME pool.done # <<>> PROVE pool.active # 0
    OBVIOUS
  <2>1. pool.done \in Seq(Jobs)
    BY <1>1 DEF Pools
  <2>2. PICK j \in Jobs : j \in Elements(pool.done)
    BY <2>1, ListEmpty, TailList, <1>1 DEF JobsInv
  <2>3. pool.jobs[j].state # "free"
    BY <1>1, <2>2 DEF JobsInv, Placed
  <2>4. pool.jobs[j].state # "free" => pool.active > 0
    BY ONLY <1>1, <2>2, JobCounts
  <2> QED
    BY <2>3, <2>4
<1>3. Completed # {} => pool.watching # 0
  <2>1. pool.watching # 0 <=> Watches(pool) # {}
    BY ONLY <1>1, WatchCount
  <2> QED
    BY <2>1 DEF Completed, Watches
<1>4. owner.at = "frames" /\ (pool.done # <<>> \/ Completed # {}) =>
         wake /\ (pipe \/ worker.pc \in {"signal", "cleanup"})
  BY <1>1, <1>2, <1>3 DEF Waking, WakeExact, Announced
<1> QED
  BY <1>1, <1>4 DEF Waking, WakesExact, WakeNotLost

LEMMA CountsAreExact ==
    ASSUME PoolInv
    PROVE  CountersExact
<1>1. /\ pool.active = Cardinality(BusyJobs(pool))
      /\ pool.starts = Cardinality(StartJobs(pool))
      /\ pool.watching = Cardinality(Watches(pool))
      /\ live = Cardinality(OpenHandles(handles))
  BY DEF PoolInv, JobsInv, Watching
<1>2. BusyJobs(pool) = Jobs \ FreeJobs(pool)
  BY DEF BusyJobs, FreeJobs
<1> QED
  BY <1>1, <1>2 DEF CountersExact, StartJobs, Watches, OpenHandles

LEMMA TypesHold ==
    ASSUME PoolInv
    PROVE  TypeOK
<1>1. Types /\ JobsInv(pool, worker) /\ Watching(pool, handles, proc)
  BY DEF PoolInv
<1>2. /\ pool.active \in Nat /\ pool.starts \in Nat
      /\ pool.active <= JobCapacity /\ pool.starts <= StartCapacity
  <2>1. 1 \in Jobs
    BY JobCapacityAssumption DEF Jobs
  <2>2. /\ pool.active \in Nat /\ pool.starts \in Nat /\ pool.active <= JobCapacity
    BY ONLY <1>1, <2>1, JobCounts
  <2> QED
    BY <1>1, <2>2 DEF JobsInv
<1>3. pool.watching \in Nat /\ pool.watching <= HandleCapacity
  <2>1. Watches(pool) \in SUBSET Handles
    BY DEF Watches
  <2>2. IsFiniteSet(Handles) /\ Cardinality(Handles) = HandleCapacity
    BY FiniteTables
  <2>3. Cardinality(Watches(pool)) <= HandleCapacity /\ Cardinality(Watches(pool)) \in Nat
    BY <2>1, <2>2, FS_Subset, FS_CardinalityType
  <2> QED
    BY <1>1, <2>3 DEF Watching
<1>4. /\ pool.active \in 0 .. JobCapacity /\ pool.starts \in 0 .. StartCapacity
      /\ pool.watching \in 0 .. HandleCapacity
  BY <1>2, <1>3, JobCapacityAssumption, StartCapacityAssumption, HandleCapacityAssumption
<1>5. /\ pool.jobs \in [Jobs -> JobRecords] /\ pool.watches \in [Handles -> WatchRecords]
      /\ pool.queue \in Seq(Jobs) /\ pool.done \in Seq(Jobs)
  BY <1>1 DEF Types, Pools
<1>6. /\ worker.pc \in {"none", "top", "waiting", "polling", "woken", "spawning", "cleanup",
                        "reaping", "signal", "done"}
      /\ owner.at \in {"frames", "arm", "drain", "watches", "rearm", "join", "down"}
  BY <1>1 DEF Types, Workers
<1>7. /\ handles \in [Handles -> HandleRecords] /\ regs \in [Tasks -> RegRecords]
      /\ proc \in [Pids -> {"unused", "running", "zombie", "reaped"}]
      /\ wake \in BOOLEAN /\ pipe \in BOOLEAN /\ ready \subseteq Tasks
  BY <1>1 DEF Types
<1>8. pool.jobs \in [Jobs -> [state : StartStates \cup {"free", "reap_queued",
                                      "reap_running", "reap_completed"},
                               gen : Nat, pid : 0 .. MaxStarts,
                               handle : 0 .. HandleCapacity, hgen : 0 .. MaxStarts]]
  BY <1>5 DEF JobRecords, States
<1>9. /\ pool.watches \in [Handles -> [active : BOOLEAN, completed : BOOLEAN,
                                     pid : 0 .. MaxStarts,
                                     handle : 0 .. HandleCapacity,
                                     hgen : 0 .. MaxStarts]]
  BY <1>5 DEF WatchRecords
<1> QED
  BY ONLY <1>4, <1>5, <1>6, <1>7, <1>8, <1>9 DEF TypeOK, HandleRecords, RegRecords

LEMMA HandlesAreKept ==
    ASSUME PoolInv
    PROVE  HandleKept
<1>1. Reserved(pool, handles, regs, owner) /\ Parented(handles, child)
  BY DEF PoolInv
<1>2. owner.at \notin {"join", "down"} =>
         \A h \in Handles : handles[h].occupied = 1 /\ handles[h].pid = NoPid =>
             \E t \in Tasks : regs[t].kind = "start" /\ regs[t].handle = h
  BY <1>1 DEF Reserved
<1>3. ASSUME NEW t \in Tasks, regs[t].kind = "start"
      PROVE  /\ handles[regs[t].handle].occupied = 1
             /\ handles[regs[t].handle].gen = regs[t].hgen
             /\ handles[regs[t].handle].pid = NoPid
  BY <1>1, <1>3 DEF Reserved
<1>4. ASSUME NEW t \in Tasks, child[t] # NoChild PROVE Found(t)
  BY <1>1, <1>4 DEF Parented, Found
<1>5. ASSUME NEW t \in Tasks, child[t] # NoChild, NEW u \in Tasks \ {t}
      PROVE  child[u] # child[t]
  BY <1>1, <1>5 DEF Parented
<1> QED
  BY <1>2, <1>3, <1>4, <1>5 DEF HandleKept

LEMMA CompletionsAreKept ==
    ASSUME PoolInv
    PROVE  CompletionNotLost
<1>1. Reserved(pool, handles, regs, owner) /\ regs \in [Tasks -> RegRecords]
  BY DEF PoolInv, Types
<1>2. \A t \in Tasks : regs[t].kind \in {"none", "start"}
  BY <1>1 DEF RegRecords
<1> QED
  BY <1>1, <1>2 DEF Reserved, CompletionNotLost

\* The holders of a child are those that Reapers names.
LEMMA ReapersHold ==
    ASSUME NEW p \in Pids
    PROVE  Reapers(p) = {r \in Holders : Hold(pool, handles, worker)[r] = p}
<1> DEFINE d == Hold(pool, handles, worker)
           S == {r \in Holders : d[r] = p}
<1>1. p # NoPid
  BY MaxStartsAssumption DEF Pids, NoPid
<1>2. ASSUME NEW j \in Jobs PROVE <<"job", j>> \in Reapers(p) <=> <<"job", j>> \in S
  <2>1. <<"job", j>> \in Reapers(p) <=> pool.jobs[j].pid = p
    BY DEF Reapers
  <2>2. <<"job", j>> \in Holders /\ d[<<"job", j>>] = pool.jobs[j].pid
    BY HolderKinds, HoldAt
  <2> HIDE DEF d
  <2> QED
    BY <2>1, <2>2
<1>3. ASSUME NEW h \in Handles PROVE <<"handle", h>> \in Reapers(p) <=> <<"handle", h>> \in S
  <2>1. <<"handle", h>> \in Reapers(p) <=> Reaps(handles[h]) /\ handles[h].pid = p
    BY DEF Reapers, Reaps
  <2>2. /\ <<"handle", h>> \in Holders
        /\ d[<<"handle", h>>] = IF Reaps(handles[h]) THEN handles[h].pid ELSE NoPid
    BY HolderKinds, HoldAt
  <2> HIDE DEF d
  <2> QED
    BY <1>1, <2>1, <2>2
<1>4. <<"worker", 0>> \in Reapers(p) <=> <<"worker", 0>> \in S
  <2>1. <<"worker", 0>> \in Reapers(p) <=> worker.pc = "cleanup" /\ worker.pid = p
    BY DEF Reapers
  <2>2. <<"worker", 0>> \in Holders /\ d[<<"worker", 0>>] = InHand(worker)
    BY HolderKinds, HoldAt
  <2> HIDE DEF d
  <2> QED
    BY <1>1, <2>1, <2>2 DEF InHand
<1>5. ASSUME NEW r \in Reapers(p) PROVE r \in Holders
  BY HolderKinds DEF Reapers
<1> HIDE DEF d
<1>6. Reapers(p) \subseteq S
  BY <1>2, <1>3, <1>4, <1>5, HolderKinds
<1>7. S \subseteq Reapers(p)
  BY <1>2, <1>3, <1>4, HolderKinds
<1> QED
  BY <1>6, <1>7 DEF d

\* Custody gives each child its one reaper.
LEMMA OneReaperHolds ==
    ASSUME PoolInv
    PROVE  OneReaper
<1> DEFINE d == Hold(pool, handles, worker)
<1>1. /\ Custody(d, proc, lost, Late(pool, handles))
      /\ proc \in [Pids -> {"unused", "running", "zombie", "reaped"}]
  BY DEF PoolInv, Types, Children
<1>2. ASSUME NEW p \in Pids
      PROVE  CASE proc[p] \in {"running", "zombie"} ->
                     Cardinality(Reapers(p)) = IF p \in lost THEN 0 ELSE 1
               [] proc[p] = "reaped" ->
                     \A r \in Reapers(p) : r[1] = "handle" /\ ExitUnderway(r[2])
               [] OTHER -> Reapers(p) = {}
  <2>1. p # NoPid
    BY MaxStartsAssumption DEF Pids, NoPid
  <2>2. \A r \in Holders : r \in Reapers(p) <=> d[r] = p
    BY ReapersHold
  <2>3. \A r \in Reapers(p) : r \in Holders
    BY ReapersHold
  <2> HIDE DEF d
  <2>4. \A r, s \in Reapers(p) : r = s
    BY <1>1, <2>1, <2>2, <2>3 DEF Custody
  <2>5. p \in lost => Reapers(p) = {}
    BY <1>1, <2>1, <2>2, <2>3 DEF Custody
  <2>6. proc[p] \in Alive /\ p \notin lost => Reapers(p) # {}
    BY <1>1, <2>2 DEF Custody
  <2>7. \A r \in Reapers(p) : proc[p] \in Alive \/ (proc[p] = "reaped" /\ r \in Late(pool, handles))
    BY <1>1, <2>1, <2>2, <2>3 DEF Custody
  <2>8. CASE proc[p] \in Alive
    <3>1. p \in lost => Cardinality(Reapers(p)) = 0
      BY <2>5, FS_EmptySet
    <3>2. p \notin lost => Cardinality(Reapers(p)) = 1
      <4>1. ASSUME p \notin lost PROVE \E r : Reapers(p) = {r}
        BY <2>4, <2>6, <2>8, <4>1
      <4> QED
        BY <4>1, FS_Singleton
    <3> QED
      BY <2>8, <3>1, <3>2 DEF Alive
  <2>9. CASE proc[p] = "reaped"
    <3>1. ASSUME NEW r \in Reapers(p) PROVE r[1] = "handle" /\ ExitUnderway(r[2])
      <4>1. r \in Late(pool, handles)
        BY <2>7, <2>9 DEF Alive
      <4> QED
        BY <4>1 DEF Late, Underway, ExitUnderway
    <3> QED
      BY <2>9, <3>1
  <2>10. CASE proc[p] = "unused"
    BY <2>7, <2>10 DEF Alive
  <2> QED
    BY <1>1, <2>8, <2>9, <2>10 DEF Alive
<1> QED
  BY <1>2 DEF OneReaper

\* At the end nobody holds a child, so the children left alive are lost.
LEMMA ShutdownReapsThem ==
    ASSUME PoolInv
    PROVE  ShutdownReapsOwned
<1> DEFINE d == Hold(pool, handles, worker)
<1>1. /\ Custody(d, proc, lost, Late(pool, handles))
      /\ proc \in [Pids -> {"unused", "running", "zombie", "reaped"}] /\ Closing
  BY DEF PoolInv, Types, Children
<1>2. ASSUME owner.at = "down", NEW p \in Pids \ lost
      PROVE  proc[p] \in {"unused", "reaped"}
  <2>1. p # NoPid
    BY MaxStartsAssumption DEF Pids, NoPid
  <2>2. /\ \A j \in Jobs : pool.jobs[j].pid = NoPid
        /\ \A h \in Handles : ~Reaps(handles[h])
        /\ InHand(worker) = NoPid
    BY <1>1, <1>2 DEF Closing, Reaps, InHand
  <2>3. ASSUME NEW r \in Holders PROVE d[r] = NoPid
    BY <2>2, HolderKinds, HoldAt
  <2> HIDE DEF d
  <2> QED
    BY <1>1, <2>1, <2>3 DEF Custody, Alive
<1> QED
  BY <1>2 DEF ShutdownReapsOwned

-----------------------------------------------------------------------------

\* Every child that was started is waited for exactly once, by the one job,
\* handle or cleanup that holds it, whichever of the start, the cancellation,
\* the watch, the close, the abandoned task and the shutdown comes first; no pid
\* is waited for again; and the runtime shutdown leaves no child but those whose
\* reap job cancel_start was refused (host_async_process_unix.c).
THEOREM EachChildIsReaped == Spec => []ChildrenReaped
<1>1. PoolInv => ChildrenReaped
  <2> SUFFICES ASSUME PoolInv PROVE ChildrenReaped
    OBVIOUS
  <2>1. NoStalePid
    BY DEF PoolInv, NoStalePid
  <2> QED
    BY <2>1, OneReaperHolds, ShutdownReapsThem DEF ChildrenReaped
<1> QED
  BY <1>1, PoolSafe, PTL

\* The reactor is registered for the wake pipe exactly while a job or a watch
\* is outstanding, a finished job or watch always has its byte in the pipe or
\* coming, and the worker sleeps without a timeout only when it has nothing to
\* take, to watch or to stop for: neither thread sleeps over the other's news.
THEOREM NobodySleeps == Spec => []WakesExact
<1>1. PoolInv => WakesExact
  BY WakesAreExact
<1> QED
  BY <1>1, PoolSafe, PTL

\* The counters of the pool are the counts of its slots and within their
\* capacities, a reserved handle belongs to the one start that reserved it until
\* it belongs to one task's child, and a start that was told of its completion
\* finds its own job delivered: "process start completion was lost" is never said.
THEOREM ReservationsAreExact == Spec => []ReservationsExact
<1>1. PoolInv => ReservationsExact
  <2> SUFFICES ASSUME PoolInv PROVE ReservationsExact
    OBVIOUS
  <2> QED
    BY TypesHold, CountsAreExact, HandlesAreKept, CompletionsAreKept DEF ReservationsExact
<1> QED
  BY <1>1, PoolSafe, PTL
=============================================================================
