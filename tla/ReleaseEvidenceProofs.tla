------------------------ MODULE ReleaseEvidenceProofs ------------------------
(***************************************************************************)
(* Release evidence is whole or absent, the locks serve, and what is       *)
(* cleared is what has to be, for all processes, projects and faults but   *)
(* the ones named.                                                         *)
(*                                                                         *)
(* Two hypotheses appear, each of them necessary: "nomo clean" runs alone  *)
(* (MCReleaseEvidence_unlink shows two builders otherwise), and no removal *)
(* fails (MCReleaseEvidence_remove shows a sidecar without its metadata    *)
(* otherwise).                                                             *)
(***************************************************************************)
EXTENDS ReleaseEvidence, WellFoundedInduction, TLAPS

CleanAlone == Cleans # "anytime"
RemovesAll == "remove" \notin Faults

-----------------------------------------------------------------------------
(* The inductive invariant of the locks.                                   *)

Removing == {"rmProv", "rmReceipt", "rmMeta", "cleared"}
Building == {"write", "link", "meta", "receipt", "prov", "commit"}
Cataloging == {"catalog", "cataloging"}

Records ==
    [at : Removing \cup Building \cup Cataloging
            \cup {"idle", "done", "clean", "context", "open", "lock"},
     cmd : {"none", "build", "standalone", "workspace", "cleanup", "clean"},
     kind : {"none", "release", "debug", "emit"},
     phase : {"none", "clear", "build", "refresh", "read", "cleanup", "abort"},
     m : Projects \cup {0}, todo : SUBSET Projects, next : SUBSET Projects,
     cat : SUBSET Projects, since : Nat, file : Nat, locked : BOOLEAN, id : Nat,
     owner : BOOLEAN, failed : BOOLEAN, ok : BOOLEAN, pieces : SUBSET Pieces]

Evidence == [meta : Nat, receipt : Nat, prov : Nat]
Artifacts == [c : Nat, bin : Nat]

\* What the step of a command says of the rest of its record.
Shape(r) ==
    /\ r.at = "idle" => r = Idle
    /\ r.locked <=> \/ r.at \in Removing \cup Building
                    \/ r.at \in Cataloging /\ r.phase = "cleanup"
    /\ r.at \in {"clean", "context", "open", "lock"} \/ r.locked => r.m \in Projects
    /\ r.at \in Cataloging /\ r.phase = "build" => r.m \in Projects
    /\ r.at \in Cataloging => r.phase \in {"refresh", "build", "read", "cleanup"}
    /\ r.at \in {"open", "lock"} => r.phase \in {"clear", "build", "cleanup"}
    /\ r.at \in Removing => r.phase \in {"clear", "build", "cleanup", "abort"}
    /\ r.at \in Building \cup {"context"} => r.phase = "build"
    /\ r.at = "clean" => r.cmd = "clean"
    /\ r.cmd = "clean" => r.at \in {"clean", "done"} /\ r.phase = "none"
    /\ r.at = "receipt" => r.kind = "release" /\ r.owner
    /\ r.at = "prov" => r.kind = "release"
    /\ r.phase \in {"read", "cleanup"} => r.cmd = "cleanup"
    /\ r.cmd = "cleanup" => r.phase \in {"none", "read", "cleanup"}
    /\ r.cmd = "cleanup" /\ r.at = "done" /\ r.ok => r.phase = "cleanup"
    /\ r.phase = "abort" => r.at \in Removing \cup {"done"}

Types ==
    /\ manifest \in [ok : BOOLEAN, members : SUBSET Projects]
    /\ catalog \in SUBSET Projects
    /\ catOwner \in Procs \cup {Nobody}
    /\ lockfile \in [Projects -> Nat]
    /\ inodes \in Nat
    /\ evid \in [Projects -> Evidence]
    /\ art \in [Projects -> Artifacts]
    /\ proc \in [Procs -> Records]
    /\ ids \in Nat
    /\ commands \in Nat
    /\ edits \in Nat

Shapes == \A p \in Procs : Shape(proc[p])

\* No file is of a build after number b.
EvidBelow(f, b) == \A m \in Projects : f[m].meta <= b /\ f[m].receipt <= b /\ f[m].prov <= b
ArtBelow(f, b) == \A m \in Projects : f[m].c <= b /\ f[m].bin <= b

\* Numbers are handed out in order.
Numbered ==
    /\ \A m \in Projects : lockfile[m] <= inodes
    /\ EvidBelow(evid, ids) /\ ArtBelow(art, ids)
    /\ \A p \in Procs : proc[p].id <= ids /\ proc[p].since <= ids

\* The catalog lock is held during one step only.
CatalogHeld == \A p \in Procs : At(p, "cataloging") <=> catOwner = p

\* "nomo clean" runs while nothing else does.
CleansAlone ==
    \A p \in Procs : proc[p].cmd = "clean" =>
        Cleans # "never" /\ \A q \in Procs : p # q => At(q, "idle")

\* Who has opened the lock file has the one that is in the directory.
FileThere ==
    \A p \in Procs : At(p, "lock") \/ proc[p].locked =>
        proc[p].file = lockfile[proc[p].m] /\ proc[p].file # 0

LocksInv ==
    Types /\ Shapes /\ Numbered /\ CatalogHeld /\ CleansAlone /\ FileThere /\ OneBuilder

-----------------------------------------------------------------------------
(* The inductive invariant of the evidence.                                *)

None == [meta |-> 0, receipt |-> 0, prov |-> 0]

\* The files that command r finds in its target directory, by its step.
Stage(r, e, a) ==
    /\ r.at \in {"rmReceipt", "rmMeta"} => e.prov = 0
    /\ r.at = "rmMeta" => e.receipt = 0
    /\ r.at \in {"cleared", "write", "link", "meta"} => e = None
    /\ r.at \in {"link", "meta", "receipt", "prov", "commit"} => a.c = r.id
    /\ r.at \in {"meta", "receipt", "prov", "commit"} /\ r.kind # "emit" => a.bin = r.id
    /\ r.at \in {"receipt", "prov"} => e.prov = 0
    /\ r.at \in {"receipt", "prov", "commit"} => e.meta = r.id
    /\ r.at = "receipt" => e.receipt = 0
    /\ r.at = "prov" => e.receipt = IF r.owner THEN r.id ELSE 0
    /\ r.at = "commit" =>
          /\ e.prov = IF r.kind = "release" THEN r.id ELSE 0
          /\ e.receipt = IF r.kind = "release" /\ r.owner THEN r.id ELSE 0

Stages == \A p \in Procs : LET r == proc[p] IN r.locked => Stage(r, evid[r.m], art[r.m])

NoFailure == \A p \in Procs : ~proc[p].failed

EvidenceInv == LocksInv /\ Stages /\ NoFailure /\ Committed

-----------------------------------------------------------------------------
(* The inductive invariant of what is cleared.                             *)

Written(id, m) == id \in {evid[m].meta, evid[m].receipt, evid[m].prov}

\* No two commands work on a build of the same number.
OwnBuild ==
    \A p, q \in Procs : p # q /\ proc[p].id # 0 => proc[p].id # proc[q].id

\* A build is in no other directory.
AtHome ==
    \A p \in Procs : LET r == proc[p] IN
        r.locked /\ r.phase \in {"build", "abort"} /\ r.id # 0 =>
            \A m \in Projects \ {r.m} : ~Written(r.id, m)

\* The cleanup removes what is bound to the workspace.
CleanupBound ==
    \A p \in Procs : LET r == proc[p] IN
        At(p, "rmProv") /\ r.phase = "cleanup" => ~Unowned(evid[r.m])

\* Nothing of build b or of one before it is in m, or will be.
CleanedSince(b, m) ==
    /\ evid[m].prov = 0 \/ evid[m].prov > b
    /\ \A q \in Procs : proc[q].locked /\ proc[q].m = m =>
           proc[q].id = 0 \/ proc[q].id > b

\* The members that the cleanup has been at.
Passed(r) == IF r.at = "done" THEN r.cat ELSE r.cat \ (r.todo \cup {r.m})

CleanupPassed ==
    \A p \in Procs : LET r == proc[p] IN
        r.phase = "cleanup" /\ r.ok => \A m \in Passed(r) : CleanedSince(r.since, m)

ClearedInv ==
    EvidenceInv /\ OwnBuild /\ AtHome /\ AbortClears /\ CleanupBound /\ CleanupPassed

-----------------------------------------------------------------------------
(* The operators of the model.                                             *)

Less == {s \in Nat \X Nat : s[1] < s[2]}

\* A set of numbers has a least one.
LEMMA MinIn ==
    ASSUME NEW S \in SUBSET Nat, S # {}
    PROVE  Min(S) \in S /\ \A y \in S : Min(S) <= y
<1>1. OpToRel(<, Nat) = Less
  BY Zenon DEF OpToRel, Less
<1>2. PICK x \in S : \A y \in S : ~ (<<y, x>> \in Less)
  BY <1>1, NatLessThanWellFounded, WFMin, Zenon
<1>3. ASSUME NEW y \in S PROVE x <= y
  <2>1. x \in Nat /\ y \in Nat /\ ~ (<<y, x>> \in Less)
    BY <1>2
  <2> QED
    BY <2>1 DEF Less
<1> QED
  BY <1>3 DEF Min

\* Only the record of p changes.
LEMMA Moves ==
    ASSUME Types, NEW p \in Procs, NEW r \in Records, Becomes(p, r)
    PROVE  /\ proc' \in [Procs -> Records]
           /\ proc'[p] = r
           /\ \A q \in Procs : q # p => proc'[q] = proc[q]
BY DEF Types, Becomes

\* The record of a process that does nothing.
LEMMA IdleRecord == Idle \in Records /\ Shape(Idle)
BY DEF Idle, Records, Shape, Removing, Building, Cataloging

GoTo(r, phase, m, step, todo) ==
    [r EXCEPT !.phase = phase, !.m = m, !.at = step, !.locked = FALSE, !.todo = todo]

Steps == Removing \cup Building \cup Cataloging
            \cup {"idle", "done", "clean", "context", "open", "lock"}

\* What a command that goes on keeps.
Keeps(r, s) ==
    /\ s.cmd = r.cmd /\ s.kind = r.kind /\ s.cat = r.cat /\ s.since = r.since
    /\ s.file = r.file /\ s.id = r.id /\ s.failed = r.failed /\ s.ok = r.ok

\* The record of a command that is over.
LEMMA FinishedRecord ==
    ASSUME NEW r \in Records, NEW ok \in BOOLEAN
    PROVE  LET s == Finished(r, ok)
           IN  /\ s \in Records /\ s.at = "done" /\ ~s.locked /\ s.ok = (r.ok /\ ok)
               /\ s.cmd = r.cmd /\ s.phase = r.phase /\ s.m = r.m /\ s.cat = r.cat
               /\ s.since = r.since /\ s.id = r.id /\ s.failed = r.failed
<1> DEFINE t == r.ok /\ ok
<1>1. t \in BOOLEAN
  OBVIOUS
<1>2. Finished(r, ok) = [r EXCEPT !.at = "done", !.ok = t, !.locked = FALSE]
  BY DEF Finished
<1> HIDE DEF t
<1>3. [r EXCEPT !.at = "done", !.ok = t, !.locked = FALSE] \in Records
  BY <1>1 DEF Records
<1>4. LET s == [r EXCEPT !.at = "done", !.ok = t, !.locked = FALSE]
      IN  /\ s.at = "done" /\ ~s.locked /\ s.ok = t
          /\ s.cmd = r.cmd /\ s.phase = r.phase /\ s.m = r.m /\ s.cat = r.cat
          /\ s.since = r.since /\ s.id = r.id /\ s.failed = r.failed
  BY <1>1 DEF Records
<1> QED
  BY <1>2, <1>3, <1>4 DEF t

\* A command goes on to a target.
LEMMA GoesOn ==
    ASSUME NEW r \in Records, NEW phase \in {"clear", "cleanup", "build"},
           NEW m \in Projects, NEW step \in Steps, NEW todo \in SUBSET Projects
    PROVE  LET s == GoTo(r, phase, m, step, todo)
           IN  /\ s \in Records /\ Keeps(r, s)
               /\ ~s.locked /\ s.at = step /\ s.phase = phase /\ s.m = m /\ s.todo = todo
<1> DEFINE s == GoTo(r, phase, m, step, todo)
<1>1. s \in Records
  BY DEF GoTo, Records, Steps
<1>2. /\ Keeps(r, s)
      /\ ~s.locked /\ s.at = step /\ s.phase = phase /\ s.m = m /\ s.todo = todo
  BY DEF GoTo, Records, Keeps
<1> QED
  BY <1>1, <1>2

\* What a command does next, for each of its phases.
LEMMA OnwardGoes ==
    ASSUME Types, NEW r \in Records, r.phase \in {"clear", "cleanup", "build"}
    PROVE  LET s == Onward(r)
           IN  /\ s \in Records /\ Keeps(r, s) /\ ~s.locked
               /\ \/ s.at = "done" /\ s.phase = r.phase
                  \/ s.at = "open" /\ s.phase = r.phase /\ r.phase # "build" /\ s.m \in Projects
                  \/ s.at = "context" /\ s.phase = "build" /\ r.phase # "cleanup"
                     /\ s.m \in Projects
               /\ r.phase = "cleanup" =>
                     \A m \in r.todo : TargetExists(m) =>
                         s.at = "open" /\ (m \in s.todo \/ m = s.m)
<1> DEFINE present == {m \in r.todo : TargetExists(m)}
           after(set) == {m \in set \cup r.todo : m > Min(set)}
<1> USE ProjectsAssumption
<1>0. r.todo \in SUBSET Projects /\ r.next \in SUBSET Projects /\ present \in SUBSET Projects
  BY DEF Records
<1>1. \A S \in SUBSET Projects : S # {} => Min(S) \in S /\ \A y \in S : Min(S) <= y
  BY MinIn
<1>2. \A S \in SUBSET Projects : after(S) \in SUBSET Projects
  BY <1>0
<1>3. CASE r.phase # "build" /\ present # {}
  <2>1. Onward(r) = GoTo(r, r.phase, Min(present), "open", after(present))
    BY <1>3 DEF Onward, GoTo
  <2>2. Min(present) \in Projects /\ after(present) \in SUBSET Projects
    BY <1>0, <1>1, <1>2, <1>3
  <2>3. ASSUME NEW m \in r.todo, TargetExists(m)
        PROVE  m \in after(present) \/ m = Min(present)
    <3>1. m \in present /\ m \in Nat /\ Min(present) \in Nat
      BY <1>0, <2>2, <2>3
    <3>2. Min(present) <= m
      BY <1>0, <1>1, <1>3, <3>1
    <3> QED
      BY <3>1, <3>2
  <2>4. r.phase \in {"clear", "cleanup"} /\ "open" \in Steps
    BY <1>3 DEF Steps
  <2> DEFINE s == GoTo(r, r.phase, Min(present), "open", after(present))
  <2> HIDE DEF present, after
  <2>5. /\ s \in Records /\ Keeps(r, s) /\ ~s.locked
        /\ s.at = "open" /\ s.phase = r.phase /\ s.m = Min(present) /\ s.todo = after(present)
    BY <2>2, <2>4, GoesOn
  <2>6. Onward(r) = s
    BY <2>1
  <2> HIDE DEF s
  <2> QED
    BY <2>2, <2>3, <2>4, <2>5, <2>6, <1>3
<1>4. CASE r.phase = "build" /\ r.todo # {}
  <2> DEFINE m == Min(r.todo)
             todo == after(r.todo)
             s == GoTo(r, "build", m, "context", todo)
  <2>1. Onward(r) = s
    BY <1>4 DEF Onward, GoTo
  <2>2. m \in Projects /\ todo \in SUBSET Projects /\ "context" \in Steps
    BY <1>0, <1>1, <1>2, <1>4 DEF Steps
  <2> HIDE DEF m, todo
  <2>3. s \in Records /\ Keeps(r, s)
    BY <2>2, GoesOn
  <2>4. ~s.locked /\ s.at = "context"
    BY <2>2, GoesOn
  <2>5. s.phase = "build"
    BY <2>2, GoesOn
  <2>6. s.m = m
    BY <2>2, GoesOn
  <2> HIDE DEF s
  <2> QED
    BY <2>1, <2>2, <2>3, <2>4, <2>5, <2>6, <1>4
<1>5. CASE r.phase = "clear" /\ r.next # {} /\ present = {}
  <2>1. Min(r.next) \in Projects /\ after(r.next) \in SUBSET Projects
    BY <1>0, <1>1, <1>2, <1>5
  <2> DEFINE s == GoTo(r, "build", Min(r.next), "context", after(r.next))
  <2>2. Onward(r) = [s EXCEPT !.todo = r.next \ {Min(r.next)}, !.next = {}]
    BY <1>5 DEF Onward, GoTo
  <2>3. "context" \in Steps
    BY DEF Steps
  <2> HIDE DEF after
  <2>4. /\ s \in Records /\ Keeps(r, s) /\ ~s.locked
        /\ s.at = "context" /\ s.phase = "build" /\ s.m \in Projects
    BY <2>1, <2>3, GoesOn
  <2> DEFINE t == [s EXCEPT !.todo = r.next \ {Min(r.next)}, !.next = {}]
  <2> HIDE DEF s
  <2>5. t \in Records
    BY <2>4, <1>0 DEF Records
  <2>6. Keeps(r, t) /\ ~t.locked /\ t.at = "context" /\ t.phase = "build" /\ t.m \in Projects
    BY <2>4 DEF Records, Keeps
  <2> HIDE DEF t
  <2> QED
    BY <2>2, <2>5, <2>6, <1>5 DEF t
<1>6. CASE ~(r.phase # "build" /\ present # {}) /\ ~(r.phase = "build" /\ r.todo # {})
           /\ ~(r.phase = "clear" /\ r.next # {})
  <2>1. Onward(r) = Finished(r, TRUE)
    BY <1>6 DEF Onward
  <2>2. r.phase = "cleanup" => \A m \in r.todo : ~TargetExists(m)
    BY <1>6
  <2> HIDE DEF present
  <2> QED
    BY <2>1, <2>2 DEF Finished, Records, Keeps
<1> QED
  BY <1>3, <1>4, <1>5, <1>6

\* What the validator of the cleanup decides.
LEMMA JudgedGoes ==
    ASSUME Types, NEW r \in Records, r.phase = "cleanup", NEW e
    PROVE  LET s == Judged(r, e)
           IN  \/ s = [r EXCEPT !.at = "rmProv"] /\ ~Unowned(e)
               \/ s = Finished(r, FALSE)
               \/ \E t \in BOOLEAN : /\ s = Onward([r EXCEPT !.ok = t])
                                     /\ t => r.ok /\ e.receipt = 0 /\ e.prov = 0
<1> USE DEF Judged
<1>1. r.ok \in BOOLEAN
  BY DEF Records
<1>2. CASE catalog # r.cat
  BY <1>2
<1>3. CASE catalog = r.cat /\ e.receipt = 0
  <2>1. [r EXCEPT !.ok = @ /\ e.meta = 0 /\ e.prov = 0]
          = [r EXCEPT !.ok = r.ok /\ e.meta = 0 /\ e.prov = 0]
    OBVIOUS
  <2> DEFINE t == r.ok /\ e.meta = 0 /\ e.prov = 0
  <2>2. t \in BOOLEAN
    BY <1>1
  <2>3. Judged(r, e) = Onward([r EXCEPT !.ok = t])
    BY <1>3, <2>1
  <2>4. t => r.ok /\ e.receipt = 0 /\ e.prov = 0
    BY <1>3
  <2> HIDE DEF t, Judged
  <2> QED
    BY <2>2, <2>3, <2>4
<1>4. CASE catalog = r.cat /\ e.receipt # 0 /\ (e.meta = 0 \/ e.prov = 0)
  BY <1>4
<1>5. CASE catalog = r.cat /\ e.receipt # 0 /\ ~(e.meta = 0 \/ e.prov = 0) /\ Unowned(e)
  BY <1>5
<1>6. CASE catalog = r.cat /\ e.receipt # 0 /\ ~(e.meta = 0 \/ e.prov = 0) /\ ~Unowned(e)
  BY <1>6
<1> QED
  BY <1>2, <1>3, <1>4, <1>5, <1>6

-----------------------------------------------------------------------------
(* A step leaves every record in shape.                                    *)

Stepped(p) ==
    /\ proc' \in [Procs -> Records]
    /\ Shape(proc'[p])
    /\ \A q \in Procs : q # p => proc'[q] = proc[q]

\* What Onward makes of a record in one of its phases is in shape.
LEMMA OnwardShape ==
    ASSUME Types, NEW r \in Records, r.phase \in {"clear", "cleanup", "build"},
           r.cmd # "clean", r.phase = "cleanup" <=> r.cmd = "cleanup"
    PROVE  Onward(r) \in Records /\ Shape(Onward(r))
<1> DEFINE s == Onward(r)
<1>1. /\ s \in Records /\ Keeps(r, s) /\ ~s.locked
      /\ \/ s.at = "done" /\ s.phase = r.phase
         \/ s.at = "open" /\ s.phase = r.phase /\ r.phase # "build" /\ s.m \in Projects
         \/ s.at = "context" /\ s.phase = "build" /\ r.phase # "cleanup" /\ s.m \in Projects
  BY OnwardGoes
<1> HIDE DEF s
<1>2. Shape(s)
  BY <1>1 DEF Shape, Keeps, Removing, Building, Cataloging
<1> QED
  BY <1>1, <1>2 DEF s

\* A command starts in shape.
LEMMA CommandStepped ==
    ASSUME LocksInv, NEW p \in Procs, Command(p)
    PROVE  Stepped(p)
<1> USE KindsAssumption DEF LocksInv
<1>1. ASSUME NEW m \in Projects, NEW kind \in Kinds, NEW cmd \in {"build", "standalone"}
      PROVE  LET r == Onward([Idle EXCEPT !.cmd = cmd, !.kind = kind, !.phase = "clear",
                                          !.todo = {m}, !.next = {m}])
             IN  r \in Records /\ Shape(r)
  <2> DEFINE i == [Idle EXCEPT !.cmd = cmd, !.kind = kind, !.phase = "clear",
                               !.todo = {m}, !.next = {m}]
  <2>1. i \in Records
    BY DEF Records, Idle
  <2>2. i.phase = "clear" /\ i.cmd = cmd
    BY DEF Idle
  <2> HIDE DEF i
  <2>3. Onward(i) \in Records /\ Shape(Onward(i))
    BY <2>1, <2>2, OnwardShape
  <2> QED
    BY <2>3 DEF i
<1>2. ASSUME NEW m \in Projects, NEW kind \in Kinds,
             StartBuild(p, m, kind) \/ StartStandalone(p, m, kind)
      PROVE  Stepped(p)
  <2>1. PICK cmd \in {"build", "standalone"} :
            Becomes(p, Onward([Idle EXCEPT !.cmd = cmd, !.kind = kind, !.phase = "clear",
                                           !.todo = {m}, !.next = {m}]))
    BY <1>2 DEF StartBuild, StartStandalone, Starts
  <2> QED
    BY <1>1, <2>1, Moves DEF Stepped
<1>3. ASSUME NEW kind \in Kinds, StartWorkspace(p, kind)
      PROVE  Stepped(p)
  <2>1. PICK r :
            /\ Becomes(p, r)
            /\ \/ r = [Idle EXCEPT !.cmd = "workspace", !.kind = kind, !.phase = "refresh",
                                   !.cat = manifest.members, !.at = "catalog"]
               \/ r = Finished([Idle EXCEPT !.cmd = "cleanup"], FALSE)
               \/ r = [Idle EXCEPT !.cmd = "cleanup", !.phase = "read", !.at = "catalog",
                                   !.since = ids]
    BY <1>3 DEF StartWorkspace, Starts
  <2>2. manifest.members \in SUBSET Projects /\ ids \in Nat
    BY DEF Types
  <2>3. CASE r = [Idle EXCEPT !.cmd = "workspace", !.kind = kind, !.phase = "refresh",
                              !.cat = manifest.members, !.at = "catalog"]
    <3>1. r \in Records
      BY <2>2, <2>3 DEF Records, Idle, Cataloging
    <3>2. Shape(r)
      BY <2>3 DEF Shape, Idle, Cataloging, Removing, Building
    <3> QED
      BY <2>1, <3>1, <3>2, Moves DEF Stepped
  <2>4. CASE r = Finished([Idle EXCEPT !.cmd = "cleanup"], FALSE)
    <3>1. r \in Records
      BY <2>4 DEF Records, Idle, Finished
    <3>2. Shape(r)
      BY <2>4 DEF Shape, Idle, Finished, Cataloging, Removing, Building
    <3> QED
      BY <2>1, <3>1, <3>2, Moves DEF Stepped
  <2>5. CASE r = [Idle EXCEPT !.cmd = "cleanup", !.phase = "read", !.at = "catalog",
                              !.since = ids]
    <3>1. r \in Records
      BY <2>2, <2>5 DEF Records, Idle, Cataloging
    <3>2. Shape(r)
      BY <2>5 DEF Shape, Idle, Cataloging, Removing, Building
    <3> QED
      BY <2>1, <3>1, <3>2, Moves DEF Stepped
  <2> QED
    BY <2>1, <2>3, <2>4, <2>5
<1>4. ASSUME NEW m \in Projects, StartClean(p, m)
      PROVE  Stepped(p)
  <2> DEFINE r == [Idle EXCEPT !.cmd = "clean", !.m = m, !.at = "clean", !.pieces = Pieces]
  <2>1. r \in Records
    BY DEF Records, Idle
  <2>2. Shape(r)
    BY DEF Shape, Idle, Cataloging, Removing, Building
  <2>3. Becomes(p, r)
    BY <1>4 DEF StartClean, Starts
  <2> QED
    BY <2>1, <2>2, <2>3, Moves DEF Stepped
<1> QED
  BY <1>2, <1>3, <1>4 DEF Command

\* A step leaves the record of its process in shape: what every step but the
\* start of a command makes of it.
LEMMA CatalogStepped ==
    ASSUME LocksInv, NEW p \in Procs,
           LockCatalog(p) \/ Refresh(p) \/ Own(p) \/ ReadCatalog(p) \/ Recheck(p)
    PROVE  Stepped(p)
<1>1. Types /\ proc[p] \in Records /\ Shape(proc[p]) /\ catalog \in SUBSET Projects
  BY DEF LocksInv, Shapes, Types
<1>2. CASE LockCatalog(p)
  <2> DEFINE r == [proc[p] EXCEPT !.at = "cataloging"]
  <2>1. Becomes(p, r) /\ proc[p].at = "catalog"
    BY <1>2 DEF LockCatalog, Goes, At
  <2>2. r \in Records
    BY <1>1 DEF Records, Cataloging
  <2>3. Shape(r)
    BY <1>1, <2>1 DEF Shape, Records, Cataloging, Removing, Building
  <2> QED
    BY <1>1, <2>1, <2>2, <2>3, Moves DEF Stepped
<1>3. CASE Refresh(p)
  <2> DEFINE s == [proc[p] EXCEPT !.phase = "clear", !.todo = proc[p].cat,
                                  !.next = proc[p].cat]
  <2>1. Becomes(p, Onward(s)) /\ proc[p].at = "cataloging" /\ proc[p].phase = "refresh"
    BY <1>3 DEF Refresh, At
  <2>2. s \in Records
    BY <1>1 DEF Records
  <2>3. s.phase = "clear" /\ s.cmd # "clean" /\ s.cmd # "cleanup"
    BY <1>1, <2>1 DEF Shape, Records
  <2> HIDE DEF s
  <2> QED
    BY <1>1, <2>1, <2>2, <2>3, OnwardShape, Moves DEF Stepped
<1>4. CASE Own(p)
  <2> DEFINE member == proc[p].m \in proc[p].cat
             r == [proc[p] EXCEPT !.at = "open", !.owner = member]
  <2>1. Becomes(p, r) /\ proc[p].at = "cataloging" /\ proc[p].phase = "build"
    BY <1>4 DEF Own, At
  <2> HIDE DEF member
  <2>2. r \in Records
    <3>1. member \in BOOLEAN
      BY DEF member
    <3> QED
      BY <1>1, <3>1 DEF Records
  <2>3. Shape(r)
    BY <1>1, <2>1 DEF Shape, Records, Cataloging, Removing, Building
  <2> QED
    BY <1>1, <2>1, <2>2, <2>3, Moves DEF Stepped
<1>5. CASE ReadCatalog(p)
  <2> DEFINE s == [proc[p] EXCEPT !.phase = "cleanup", !.todo = catalog, !.cat = catalog]
  <2>1. Becomes(p, Onward(s)) /\ proc[p].at = "cataloging" /\ proc[p].phase = "read"
    BY <1>5 DEF ReadCatalog, At
  <2>2. s \in Records
    BY <1>1 DEF Records
  <2>3. s.phase = "cleanup" /\ s.cmd = "cleanup"
    BY <1>1, <2>1 DEF Shape, Records
  <2> HIDE DEF s
  <2> QED
    BY <1>1, <2>1, <2>2, <2>3, OnwardShape, Moves DEF Stepped
<1>6. CASE Recheck(p)
  <2> DEFINE s == proc[p]
             e == evid[s.m]
  <2>1. Becomes(p, Judged(s, e)) /\ s.at = "cataloging" /\ s.phase = "cleanup"
    BY <1>6 DEF Recheck, At
  <2>2. s.cmd = "cleanup" /\ s.locked /\ s.m \in Projects
    BY <1>1, <2>1 DEF Shape, Cataloging
  <2>3. Judged(s, e) \in Records /\ Shape(Judged(s, e))
    <3>1. ASSUME Judged(s, e) = [s EXCEPT !.at = "rmProv"]
          PROVE  Judged(s, e) \in Records /\ Shape(Judged(s, e))
      <4>1. [s EXCEPT !.at = "rmProv"] \in Records
        BY <1>1 DEF Records, Removing
      <4>2. Shape([s EXCEPT !.at = "rmProv"])
        BY <1>1, <2>1, <2>2 DEF Shape, Records, Cataloging, Removing, Building
      <4> QED
        BY <3>1, <4>1, <4>2
    <3>2. ASSUME Judged(s, e) = Finished(s, FALSE)
          PROVE  Judged(s, e) \in Records /\ Shape(Judged(s, e))
      <4>1. Finished(s, FALSE) \in Records
        BY <1>1 DEF Records, Finished
      <4>2. Shape(Finished(s, FALSE))
        BY <1>1, <2>1, <2>2 DEF Shape, Records, Finished, Cataloging, Removing, Building
      <4> QED
        BY <3>2, <4>1, <4>2
    <3>3. ASSUME NEW t \in BOOLEAN, Judged(s, e) = Onward([s EXCEPT !.ok = t])
          PROVE  Judged(s, e) \in Records /\ Shape(Judged(s, e))
      <4> DEFINE u == [s EXCEPT !.ok = t]
      <4>1. u \in Records
        BY <1>1 DEF Records
      <4>2. u.phase = "cleanup" /\ u.cmd = "cleanup"
        BY <1>1, <2>1, <2>2 DEF Records
      <4> HIDE DEF u
      <4>3. Onward(u) \in Records /\ Shape(Onward(u))
        BY <1>1, <4>1, <4>2, OnwardShape
      <4> QED
        BY <3>3, <4>3 DEF u
    <3> QED
      BY <1>1, <2>1, <3>1, <3>2, <3>3, JudgedGoes
  <2> HIDE DEF s, e
  <2> QED
    BY <1>1, <2>1, <2>3, Moves DEF Stepped
<1> QED
  BY <1>2, <1>3, <1>4, <1>5, <1>6

\* The record that a step with a target, or of "nomo clean", leaves.
LEMMA TargetStepped ==
    ASSUME LocksInv, NEW p \in Procs,
           \/ \E piece \in Pieces : CleanPiece(p, piece)
           \/ Context(p) \/ Open(p) \/ Lock(p) \/ Remove(p) \/ Cleared(p)
    PROVE  Stepped(p)
<1>1. Types /\ proc[p] \in Records /\ Shape(proc[p])
  BY DEF LocksInv, Shapes, Types
<1>2. ASSUME NEW piece \in Pieces, CleanPiece(p, piece)
      PROVE  Stepped(p)
  <2> DEFINE left == proc[p].pieces \ {piece}
  <2>1. /\ proc[p].at = "clean"
        /\ Becomes(p, IF left = {} THEN Finished(proc[p], TRUE)
                      ELSE [proc[p] EXCEPT !.pieces = left])
    BY <1>2 DEF CleanPiece, At
  <2>2. left \in SUBSET Pieces
    BY <1>1 DEF Records
  <2> HIDE DEF left
  <2>3. Finished(proc[p], TRUE) \in Records /\ [proc[p] EXCEPT !.pieces = left] \in Records
    <3>1. Finished(proc[p], TRUE) \in Records
      BY <1>1, FinishedRecord
    <3>2. [proc[p] EXCEPT !.pieces = left] \in Records
      BY <1>1, <2>2 DEF Records
    <3> QED
      BY <3>1, <3>2
  <2>4. proc[p].cmd = "clean" /\ proc[p].phase = "none"
    BY <1>1, <2>1 DEF Shape
  <2>5. Shape(Finished(proc[p], TRUE)) /\ Shape([proc[p] EXCEPT !.pieces = left])
    BY <1>1, <2>1, <2>4 DEF Shape, Records, Finished, Cataloging, Removing, Building
  <2> QED
    BY <1>1, <2>1, <2>3, <2>5, Moves DEF Stepped
<1>3. CASE Context(p)
  <2> DEFINE a == Finished(proc[p], FALSE)
             b == [proc[p] EXCEPT !.at = "catalog", !.cat = manifest.members]
             c == [proc[p] EXCEPT !.at = "open", !.owner = FALSE]
  <2>1. proc[p].at = "context" /\ (Becomes(p, a) \/ Becomes(p, b) \/ Becomes(p, c))
    BY <1>3 DEF Context, At
  <2>2. manifest.members \in SUBSET Projects
    BY <1>1 DEF Types
  <2>3. a \in Records /\ b \in Records /\ c \in Records
    BY <1>1, <2>2 DEF Records, Finished, Cataloging
  <2>4. proc[p].phase = "build" /\ proc[p].cmd # "clean" /\ proc[p].m \in Projects
    BY <1>1, <2>1 DEF Shape, Building
  <2>5. Shape(a)
    BY <1>1, <2>1, <2>4 DEF Shape, Records, Finished, Cataloging, Removing, Building
  <2>6. Shape(b)
    BY <1>1, <2>1, <2>4 DEF Shape, Records, Cataloging, Removing, Building
  <2>7. Shape(c)
    BY <1>1, <2>1, <2>4 DEF Shape, Records, Cataloging, Removing, Building
  <2> HIDE DEF a, b, c
  <2> QED
    BY <1>1, <2>1, <2>3, <2>5, <2>6, <2>7, Moves DEF Stepped
<1>4. CASE Open(p)
  <2> DEFINE r == [proc[p] EXCEPT !.at = "lock", !.file = lockfile'[proc[p].m]]
  <2>1. proc[p].at = "open" /\ Becomes(p, r)
    BY <1>4 DEF Open, At
  <2>2. lockfile'[proc[p].m] \in Nat
    <3>1. proc[p].m \in Projects /\ lockfile \in [Projects -> Nat] /\ inodes \in Nat
      BY <1>1, <2>1 DEF Shape, Types
    <3> QED
      BY <1>4, <3>1 DEF Open
  <2>3. r \in Records
    BY <1>1, <2>2 DEF Records
  <2>4. Shape(r)
    BY <1>1, <2>1 DEF Shape, Records, Cataloging, Removing, Building
  <2> HIDE DEF r
  <2> QED
    BY <1>1, <2>1, <2>3, <2>4, Moves DEF Stepped
<1>5. CASE Lock(p)
  <2> DEFINE step == IF proc[p].phase = "cleanup" THEN "catalog" ELSE "rmProv"
             r == [proc[p] EXCEPT !.at = step, !.locked = TRUE, !.failed = FALSE, !.id = 0]
  <2>1. proc[p].at = "lock" /\ Becomes(p, r)
    BY <1>5 DEF Lock, At, AfterLock
  <2>2. r \in Records
    BY <1>1 DEF Records, Removing, Cataloging
  <2>3. Shape(r)
    BY <1>1, <2>1 DEF Shape, Records, Cataloging, Removing, Building
  <2> HIDE DEF r
  <2> QED
    BY <1>1, <2>1, <2>2, <2>3, Moves DEF Stepped
<1>6. CASE Remove(p)
  <2>1. PICK i \in DOMAIN Removals :
            /\ proc[p].at = Removals[i].at
            /\ \/ Becomes(p, [proc[p] EXCEPT !.at = Removals[i].then])
               \/ Becomes(p, [proc[p] EXCEPT !.at = Removals[i].then, !.failed = TRUE])
    BY <1>6 DEF Remove, At, Goes
  <2> DEFINE next == Removals[i].then
             a == [proc[p] EXCEPT !.at = next]
             b == [proc[p] EXCEPT !.at = next, !.failed = TRUE]
  <2>2. proc[p].at \in Removing /\ next \in Removing
    BY <2>1 DEF Removals, Removing
  <2> HIDE DEF next
  <2>3. a \in Records /\ b \in Records
    BY <1>1, <2>2 DEF Records
  <2>4. Shape(a)
    BY <1>1, <2>2 DEF Shape, Records, Cataloging, Removing, Building
  <2>5. Shape(b)
    BY <1>1, <2>2 DEF Shape, Records, Cataloging, Removing, Building
  <2>6. Becomes(p, a) \/ Becomes(p, b)
    BY <2>1 DEF next
  <2> HIDE DEF a, b
  <2> QED
    BY <1>1, <2>3, <2>4, <2>5, <2>6, Moves DEF Stepped
<1>7. CASE Cleared(p)
  <2> DEFINE r == proc[p]
             a == Finished(r, FALSE)
             b == [r EXCEPT !.at = "rmProv", !.phase = "abort"]
             c == [r EXCEPT !.at = "write"]
             d == Onward(r)
  <2>1. /\ r.at = "cleared"
        /\ \/ Becomes(p, a)
           \/ Becomes(p, b) /\ r.phase # "cleanup"
           \/ Becomes(p, c) /\ r.phase = "build"
           \/ Becomes(p, d) /\ r.phase # "abort"
    BY <1>7 DEF Cleared, At
  <2>2. /\ r.phase \in {"clear", "build", "cleanup", "abort"} /\ r.cmd # "clean"
        /\ r.phase = "cleanup" <=> r.cmd = "cleanup"
    BY <1>1, <2>1 DEF Shape, Removing
  <2>3. a \in Records /\ b \in Records /\ c \in Records
    <3>1. a \in Records
      BY <1>1 DEF Records, Finished
    <3>2. b \in Records
      BY <1>1 DEF Records, Removing
    <3>3. c \in Records
      BY <1>1 DEF Records, Building
    <3> QED
      BY <3>1, <3>2, <3>3
  <2>4. Shape(a)
    BY <1>1, <2>1, <2>2 DEF Shape, Records, Finished, Cataloging, Removing, Building
  <2>5. r.phase # "cleanup" => Shape(b)
    BY <1>1, <2>1, <2>2 DEF Shape, Records, Cataloging, Removing, Building
  <2>6. r.phase = "build" => Shape(c)
    BY <1>1, <2>1, <2>2 DEF Shape, Records, Cataloging, Removing, Building
  <2>7. r.phase # "abort" => d \in Records /\ Shape(d)
    BY <1>1, <2>2, OnwardShape
  <2> HIDE DEF a, b, c, d
  <2> QED
    BY <1>1, <2>1, <2>3, <2>4, <2>5, <2>6, <2>7, Moves DEF Stepped
<1> QED
  BY <1>2, <1>3, <1>4, <1>5, <1>6, <1>7

\* The record that a step of the build, or the end of a command, leaves.
LEMMA BuildStepped ==
    ASSUME LocksInv, NEW p \in Procs,
           WriteC(p) \/ Link(p) \/ Publish(p) \/ Commit(p) \/ Done(p) \/ Crash(p)
    PROVE  Stepped(p)
<1>1. Types /\ proc[p] \in Records /\ Shape(proc[p])
  BY DEF LocksInv, Shapes, Types
<1>2. ASSUME NEW r \in Records, r.at \in Building, Shape(r), NEW step \in Building,
             step \in {"receipt", "prov"} => r.kind = "release",
             step = "receipt" => r.owner
      PROVE  [r EXCEPT !.at = step] \in Records /\ Shape([r EXCEPT !.at = step])
  <2>1. [r EXCEPT !.at = step] \in Records
    BY <1>2 DEF Records
  <2>2. Shape([r EXCEPT !.at = step])
    BY <1>2 DEF Shape, Records, Cataloging, Removing, Building
  <2> QED
    BY <2>1, <2>2
<1>3. ASSUME NEW r \in Records, r.at \in Building, Shape(r)
      PROVE  Aborts(r) \in Records /\ Shape(Aborts(r))
  <2>1. Aborts(r) \in Records
    BY <1>3 DEF Records, Aborts, Removing
  <2>2. r.phase = "build"
    BY <1>3 DEF Shape
  <2>3. Shape(Aborts(r))
    BY <1>3, <2>2 DEF Shape, Records, Aborts, Cataloging, Removing, Building
  <2> QED
    BY <2>1, <2>3
<1>4. CASE WriteC(p)
  <2> DEFINE r == [proc[p] EXCEPT !.id = ids + 1]
             next == IF r.kind = "emit" THEN "meta" ELSE "link"
  <2>1. proc[p].at = "write" /\ (Becomes(p, [r EXCEPT !.at = next]) \/ Becomes(p, Aborts(r)))
    BY <1>4 DEF WriteC, At
  <2>2. r \in Records
    <3>1. ids + 1 \in Nat
      BY <1>1 DEF Types
    <3> QED
      BY <1>1, <3>1 DEF Records
  <2>3. r.at = "write" /\ Shape(r)
    BY <1>1, <2>1 DEF Shape, Records, Cataloging, Removing, Building
  <2>4. r.at \in Building /\ next \in Building /\ next \notin {"receipt", "prov"}
    BY <2>3 DEF Building
  <2> HIDE DEF r, next
  <2>5. [r EXCEPT !.at = next] \in Records /\ Shape([r EXCEPT !.at = next])
    BY <1>2, <2>2, <2>3, <2>4
  <2>6. Aborts(r) \in Records /\ Shape(Aborts(r))
    BY <1>3, <2>2, <2>3, <2>4
  <2> QED
    BY <1>1, <2>1, <2>5, <2>6, Moves DEF Stepped
<1>5. CASE Link(p)
  <2>1. /\ proc[p].at = "link"
        /\ Becomes(p, [proc[p] EXCEPT !.at = "meta"]) \/ Becomes(p, Aborts(proc[p]))
    BY <1>5 DEF Link, At, Goes
  <2>2. proc[p].at \in Building /\ "meta" \in Building
    BY <2>1 DEF Building
  <2>3. [proc[p] EXCEPT !.at = "meta"] \in Records /\ Shape([proc[p] EXCEPT !.at = "meta"])
    BY <1>1, <1>2, <2>2
  <2>4. Aborts(proc[p]) \in Records /\ Shape(Aborts(proc[p]))
    BY <1>1, <1>3, <2>2
  <2> QED
    BY <1>1, <2>1, <2>3, <2>4, Moves DEF Stepped
<1>6. CASE Publish(p)
  <2>1. PICK w \in Publications(proc[p]) :
            /\ proc[p].at = w.at
            /\ Becomes(p, [proc[p] EXCEPT !.at = w.then]) \/ Becomes(p, Aborts(proc[p]))
    BY <1>6 DEF Publish, At, Goes
  <2> DEFINE next == w.then
  <2>2. /\ proc[p].at \in Building /\ next \in Building
        /\ next \in {"receipt", "prov"} => proc[p].kind = "release"
        /\ next = "receipt" => proc[p].owner
    BY <1>1, <2>1 DEF Publications, Building, Shape
  <2> HIDE DEF next
  <2>3. [proc[p] EXCEPT !.at = next] \in Records /\ Shape([proc[p] EXCEPT !.at = next])
    BY <1>1, <1>2, <2>2
  <2>4. Aborts(proc[p]) \in Records /\ Shape(Aborts(proc[p]))
    BY <1>1, <1>3, <2>2
  <2>5. Becomes(p, [proc[p] EXCEPT !.at = next]) \/ Becomes(p, Aborts(proc[p]))
    BY <2>1 DEF next
  <2> QED
    BY <1>1, <2>3, <2>4, <2>5, Moves DEF Stepped
<1>7. CASE Commit(p)
  <2>1. proc[p].at = "commit" /\ Becomes(p, Onward(proc[p]))
    BY <1>7 DEF Commit, At
  <2>2. /\ proc[p].phase = "build" /\ proc[p].cmd # "clean" /\ proc[p].cmd # "cleanup"
    BY <1>1, <2>1 DEF Shape, Building
  <2> QED
    BY <1>1, <2>1, <2>2, OnwardShape, Moves DEF Stepped
<1>8. CASE Done(p) \/ Crash(p)
  <2>1. Becomes(p, Idle)
    BY <1>8 DEF Done, Crash
  <2> QED
    BY <1>1, <2>1, IdleRecord, Moves DEF Stepped
<1> QED
  BY <1>4, <1>5, <1>6, <1>7, <1>8

\* Whatever process p does, its record stays in shape and the others stay the same.
LEMMA EveryStep ==
    ASSUME LocksInv, NEW p \in Procs, Command(p) \/ Step(p) \/ Crash(p)
    PROVE  Stepped(p)
BY CommandStepped, CatalogStepped, TargetStepped, BuildStepped DEF Step

-----------------------------------------------------------------------------
(* The invariant of the locks is inductive.                                *)

SetFile(f, m, x, v) == [f EXCEPT ![m][x] = v]

\* One file of the evidence in m gets another content.
LEMMA EvidSet ==
    ASSUME NEW f \in [Projects -> Evidence], NEW m \in Projects,
           NEW x \in {"meta", "receipt", "prov"}, NEW v \in Nat
    PROVE  LET g == SetFile(f, m, x, v)
           IN  /\ g \in [Projects -> Evidence]
               /\ \A n \in Projects : n # m => g[n] = f[n]
               /\ g[m].meta = IF x = "meta" THEN v ELSE f[m].meta
               /\ g[m].receipt = IF x = "receipt" THEN v ELSE f[m].receipt
               /\ g[m].prov = IF x = "prov" THEN v ELSE f[m].prov
               /\ \A b : v <= b /\ EvidBelow(f, b) => EvidBelow(g, b)
<1> DEFINE g == SetFile(f, m, x, v)
<1>1. /\ g \in [Projects -> Evidence]
      /\ \A n \in Projects : n # m => g[n] = f[n]
      /\ g[m].meta = IF x = "meta" THEN v ELSE f[m].meta
      /\ g[m].receipt = IF x = "receipt" THEN v ELSE f[m].receipt
      /\ g[m].prov = IF x = "prov" THEN v ELSE f[m].prov
  BY DEF Evidence, SetFile
<1> HIDE DEF g
<1>2. ASSUME NEW b, v <= b, EvidBelow(f, b) PROVE EvidBelow(g, b)
  BY <1>1, <1>2 DEF EvidBelow
<1> QED
  BY <1>1, <1>2 DEF g

\* One artifact in m gets another content.
LEMMA ArtSet ==
    ASSUME NEW f \in [Projects -> Artifacts], NEW m \in Projects,
           NEW x \in {"c", "bin"}, NEW v \in Nat
    PROVE  LET g == SetFile(f, m, x, v)
           IN  /\ g \in [Projects -> Artifacts]
               /\ \A n \in Projects : n # m => g[n] = f[n]
               /\ g[m].c = IF x = "c" THEN v ELSE f[m].c
               /\ g[m].bin = IF x = "bin" THEN v ELSE f[m].bin
               /\ \A b : v <= b /\ ArtBelow(f, b) => ArtBelow(g, b)
<1> DEFINE g == SetFile(f, m, x, v)
<1>1. /\ g \in [Projects -> Artifacts]
      /\ \A n \in Projects : n # m => g[n] = f[n]
      /\ g[m].c = IF x = "c" THEN v ELSE f[m].c
      /\ g[m].bin = IF x = "bin" THEN v ELSE f[m].bin
  BY DEF Artifacts, SetFile
<1> HIDE DEF g
<1>2. ASSUME NEW b, v <= b, ArtBelow(f, b) PROVE ArtBelow(g, b)
  BY <1>1, <1>2 DEF ArtBelow
<1> QED
  BY <1>1, <1>2 DEF g

\* A later bound bounds too.
LEMMA LaterBound ==
    ASSUME NEW f \in [Projects -> Evidence], NEW g \in [Projects -> Artifacts],
           NEW a \in Nat, NEW b \in Nat, a <= b
    PROVE  (EvidBelow(f, a) => EvidBelow(f, b)) /\ (ArtBelow(g, a) => ArtBelow(g, b))
<1>1. /\ \A m \in Projects : /\ f[m].meta \in Nat /\ f[m].receipt \in Nat /\ f[m].prov \in Nat
                             /\ g[m].c \in Nat /\ g[m].bin \in Nat
  BY DEF Evidence, Artifacts
<1> QED
  BY <1>1 DEF EvidBelow, ArtBelow

\* What a step of p may do to the files: it touches evidence and artifacts of
\* its own locked target only, and only "nomo clean" takes a lock file away.
FileEffect(p) ==
    /\ ids' \in Nat /\ ids' >= ids /\ inodes' \in Nat /\ inodes' >= inodes
    /\ evid' \in [Projects -> Evidence] /\ art' \in [Projects -> Artifacts]
    /\ lockfile' \in [Projects -> Nat]
    /\ \A m \in Projects : lockfile'[m] <= inodes'
    /\ \A m \in Projects : lockfile'[m] # lockfile[m] => lockfile[m] = 0 \/ At(p, "clean")
    /\ EvidBelow(evid', ids') /\ ArtBelow(art', ids')
    /\ \A m \in Projects : evid'[m] # evid[m] \/ art'[m] # art[m] =>
          At(p, "clean") \/ (proc[p].locked /\ proc[p].m = m)

LEMMA FilesStep ==
    ASSUME LocksInv, NEW p \in Procs, Command(p) \/ Step(p) \/ Crash(p)
    PROVE  FileEffect(p)
<1>1. /\ ids \in Nat /\ inodes \in Nat /\ lockfile \in [Projects -> Nat]
      /\ evid \in [Projects -> Evidence] /\ art \in [Projects -> Artifacts]
  BY DEF LocksInv, Types
<1>2. /\ \A m \in Projects : lockfile[m] <= inodes
      /\ EvidBelow(evid, ids) /\ ArtBelow(art, ids)
  BY DEF LocksInv, Numbered
<1>3. Shape(proc[p]) /\ proc[p] \in Records
  BY DEF LocksInv, Shapes, Types
<1>4. CASE UNCHANGED <<lockfile, inodes, files, ids>>
  BY <1>1, <1>2, <1>4 DEF FileEffect, files
<1>5. ASSUME NEW piece \in Pieces, CleanPiece(p, piece)
      PROVE  FileEffect(p)
  <2> DEFINE m == proc[p].m
  <2>1. m \in Projects
    BY <1>3, <1>5 DEF CleanPiece, At, Shape
  <2>2. /\ At(p, "clean") /\ UNCHANGED <<inodes, ids>>
        /\ lockfile' = IF piece = "lock" THEN [lockfile EXCEPT ![m] = 0] ELSE lockfile
        /\ evid' = IF piece \in DOMAIN evid[m] THEN SetFile(evid, m, piece, 0) ELSE evid
        /\ art' = IF piece \in DOMAIN art[m] THEN SetFile(art, m, piece, 0) ELSE art
    BY <1>5 DEF CleanPiece, SetFile
  <2>3. DOMAIN evid[m] = {"meta", "receipt", "prov"} /\ DOMAIN art[m] = {"c", "bin"}
    BY <1>1, <2>1 DEF Evidence, Artifacts
  <2> HIDE DEF m
  <2>4. /\ lockfile' \in [Projects -> Nat]
        /\ \A n \in Projects : lockfile'[n] <= inodes'
    BY <1>1, <1>2, <2>1, <2>2
  <2>5. /\ evid' \in [Projects -> Evidence]
        /\ EvidBelow(evid', ids')
    <3>1. CASE piece \in {"meta", "receipt", "prov"}
      <4>1. evid' = SetFile(evid, m, piece, 0)
        BY <2>2, <2>3, <3>1
      <4> QED
        BY <1>1, <1>2, <2>1, <2>2, <3>1, <4>1, EvidSet
    <3>2. CASE piece \notin {"meta", "receipt", "prov"}
      <4>1. evid' = evid
        BY <2>2, <2>3, <3>2
      <4> QED
        BY <1>1, <1>2, <2>2, <4>1
    <3> QED
      BY <3>1, <3>2
  <2>6. /\ art' \in [Projects -> Artifacts]
        /\ ArtBelow(art', ids')
    <3>1. CASE piece \in {"c", "bin"}
      <4>1. art' = SetFile(art, m, piece, 0)
        BY <2>2, <2>3, <3>1
      <4>2. ids' = ids /\ 0 <= ids /\ 0 \in Nat
        BY <1>1, <2>2
      <4> QED
        BY <1>1, <1>2, <2>1, <3>1, <4>1, <4>2, ArtSet
    <3>2. CASE piece \notin {"c", "bin"}
      <4>1. art' = art
        BY <2>2, <2>3, <3>2
      <4> QED
        BY <1>1, <1>2, <2>2, <4>1
    <3> QED
      BY <3>1, <3>2
  <2>7. ids' \in Nat /\ ids' >= ids /\ inodes' \in Nat /\ inodes' >= inodes
    BY <1>1, <2>2
  <2>8. At(p, "clean")
    BY <2>2
  <2> QED
    BY <2>4, <2>5, <2>6, <2>7, <2>8 DEF FileEffect
<1>6. CASE Open(p)
  <2>1. proc[p].m \in Projects
    BY <1>3, <1>6 DEF Open, At, Shape
  <2>2. UNCHANGED <<evid, art, ids>>
    BY <1>6 DEF Open, files
  <2>3. \/ /\ lockfile[proc[p].m] = 0 /\ inodes' = inodes + 1
           /\ lockfile' = [lockfile EXCEPT ![proc[p].m] = inodes + 1]
        \/ UNCHANGED <<lockfile, inodes>>
    BY <1>6 DEF Open
  <2>4. /\ inodes' \in Nat /\ inodes' >= inodes /\ lockfile' \in [Projects -> Nat]
        /\ \A m \in Projects : lockfile'[m] <= inodes'
        /\ \A m \in Projects : lockfile'[m] # lockfile[m] => lockfile[m] = 0
    BY <1>1, <1>2, <2>1, <2>3
  <2> QED
    BY <1>1, <1>2, <2>2, <2>4 DEF FileEffect
<1>7. CASE Remove(p)
  <2> DEFINE m == proc[p].m
  <2>1. PICK i \in DOMAIN Removals :
            /\ proc[p].at = Removals[i].at
            /\ evid' = SetFile(evid, m, Removals[i].file, 0) \/ UNCHANGED evid
            /\ UNCHANGED <<lockfile, inodes, art, ids>>
    BY <1>7 DEF Remove, At, SetFile
  <2> DEFINE x == Removals[i].file
  <2>2. proc[p].at \in Removing /\ x \in {"meta", "receipt", "prov"}
    BY <2>1 DEF Removals, Removing
  <2>3. m \in Projects /\ proc[p].locked
    BY <1>3, <2>2 DEF Shape
  <2>4. evid' = SetFile(evid, m, x, 0) \/ UNCHANGED evid
    BY <2>1
  <2> HIDE DEF x, m
  <2>5. /\ evid' \in [Projects -> Evidence]
        /\ \A n \in Projects : n # m => evid'[n] = evid[n]
        /\ EvidBelow(evid', ids')
    BY <1>1, <1>2, <2>1, <2>2, <2>3, <2>4, EvidSet
  <2> QED
    BY <1>1, <1>2, <2>1, <2>3, <2>5 DEF FileEffect, m
<1>8. CASE WriteC(p)
  <2> DEFINE m == proc[p].m
  <2>1. /\ proc[p].at = "write" /\ ids' = ids + 1 /\ art' = SetFile(art, m, "c", ids + 1)
        /\ UNCHANGED <<lockfile, inodes, evid>>
    BY <1>8 DEF WriteC, At, SetFile
  <2>2. m \in Projects /\ proc[p].locked
    BY <1>3, <2>1 DEF Shape, Building
  <2> HIDE DEF m
  <2>3. /\ art' \in [Projects -> Artifacts]
        /\ \A n \in Projects : n # m => art'[n] = art[n]
        /\ ArtBelow(art', ids')
    <3> DEFINE x == "c"
               v == ids + 1
    <3>1. x \in {"c", "bin"} /\ v \in Nat /\ ids' = v /\ v >= ids
      BY <1>1, <2>1
    <3>2. art' = SetFile(art, m, x, v)
      BY <2>1
    <3>3. ArtBelow(art, v) /\ v <= v
      BY <1>1, <1>2, <3>1, LaterBound
    <3> HIDE DEF x, v
    <3>4. ArtBelow(art', v)
      BY <1>1, <2>2, <3>1, <3>2, <3>3, ArtSet
    <3>5. art' \in [Projects -> Artifacts]
      BY <1>1, <2>2, <3>1, <3>2, ArtSet
    <3>6. \A n \in Projects : n # m => art'[n] = art[n]
      BY <1>1, <2>2, <3>1, <3>2, ArtSet
    <3> QED
      BY <3>1, <3>4, <3>5, <3>6
  <2>4. EvidBelow(evid, ids')
    BY <1>1, <1>2, <2>1, LaterBound
  <2> QED
    BY <1>1, <1>2, <2>1, <2>2, <2>3, <2>4 DEF FileEffect, m
<1>9. CASE Link(p)
  <2> DEFINE m == proc[p].m
  <2>1. /\ proc[p].at = "link"
        /\ \/ art' = SetFile(art, m, "bin", proc[p].id)
           \/ art' = SetFile(art, m, "bin", 0)
           \/ art' = art
        /\ UNCHANGED <<lockfile, inodes, evid, ids>>
    BY <1>9 DEF Link, At, SetFile
  <2>2. m \in Projects /\ proc[p].locked
    BY <1>3, <2>1 DEF Shape, Building
  <2>3. proc[p].id \in Nat /\ proc[p].id <= ids
    BY <1>3 DEF Records, LocksInv, Numbered
  <2> HIDE DEF m
  <2>4. /\ art' \in [Projects -> Artifacts]
        /\ \A n \in Projects : n # m => art'[n] = art[n]
        /\ ArtBelow(art', ids')
    <3>1. ASSUME NEW v \in Nat, v <= ids, art' = SetFile(art, m, "bin", v)
          PROVE  /\ art' \in [Projects -> Artifacts]
                 /\ \A n \in Projects : n # m => art'[n] = art[n]
                 /\ ArtBelow(art', ids')
      <4> DEFINE x == "bin"
      <4>1. x \in {"c", "bin"} /\ art' = SetFile(art, m, x, v) /\ ids' = ids
        BY <2>1, <3>1
      <4> HIDE DEF x
      <4> QED
        BY <1>1, <1>2, <2>2, <3>1, <4>1, ArtSet
    <3> QED
      BY <1>1, <1>2, <2>1, <2>3, <3>1
  <2> QED
    BY <1>1, <1>2, <2>1, <2>2, <2>4 DEF FileEffect, m
<1>10. CASE Publish(p)
  <2> DEFINE m == proc[p].m
  <2>1. PICK w \in Publications(proc[p]) :
            /\ proc[p].at = w.at
            /\ evid' = SetFile(evid, m, w.file, proc[p].id) \/ evid' = evid
            /\ UNCHANGED <<lockfile, inodes, art, ids>>
    BY <1>10 DEF Publish, At, SetFile
  <2> DEFINE x == w.file
  <2>2. proc[p].at \in Building /\ x \in {"meta", "receipt", "prov"}
    BY <2>1 DEF Publications, Building
  <2>3. m \in Projects /\ proc[p].locked
    BY <1>3, <2>2 DEF Shape
  <2>4. proc[p].id \in Nat /\ proc[p].id <= ids
    BY <1>3 DEF Records, LocksInv, Numbered
  <2>5. evid' = SetFile(evid, m, x, proc[p].id) \/ evid' = evid
    BY <2>1
  <2> HIDE DEF x, m
  <2>6. /\ evid' \in [Projects -> Evidence]
        /\ \A n \in Projects : n # m => evid'[n] = evid[n]
        /\ EvidBelow(evid', ids')
    <3> DEFINE v == proc[p].id
    <3>1. ids' = ids /\ v \in Nat /\ v <= ids
      BY <2>1, <2>4
    <3>2. CASE evid' = SetFile(evid, m, x, v)
      <4> HIDE DEF v
      <4> QED
        BY <1>1, <1>2, <2>2, <2>3, <3>1, <3>2, EvidSet
    <3>3. CASE evid' = evid
      BY <1>1, <1>2, <3>1, <3>3
    <3> QED
      BY <2>5, <3>2, <3>3
  <2> QED
    BY <1>1, <1>2, <2>1, <2>3, <2>6 DEF FileEffect, m
<1>11. CASE Command(p) \/ LockCatalog(p) \/ Refresh(p) \/ Own(p) \/ ReadCatalog(p) \/ Recheck(p)
            \/ Context(p) \/ Lock(p) \/ Cleared(p) \/ Commit(p) \/ Done(p) \/ Crash(p)
  <2>1. UNCHANGED <<lockfile, inodes, files, ids>>
    BY <1>11 DEF Command, StartBuild, StartStandalone, StartWorkspace, StartClean,
         LockCatalog, Refresh, Own, ReadCatalog, Recheck, Context, Lock, Cleared, Commit, Done,
         Crash
  <2> QED
    BY <1>4, <2>1
<1> QED
  BY <1>5, <1>6, <1>7, <1>8, <1>9, <1>10, <1>11 DEF Step

\* What a step may change in a record of the past: a number is forgotten, or it is
\* the next one.
Carries(r, s) ==
    /\ s.cmd \in {r.cmd, "none"} \/ r.at = "idle"
    /\ s.failed => r.failed \/ "remove" \in Faults
    /\ s.id \in {r.id, 0} \/ (s.id = ids + 1 /\ ids' = ids + 1)
    /\ s.since \in {r.since, 0, ids}

\* A command that goes on carries its past along.
Same(r, s) == s.id = r.id /\ s.since = r.since /\ s.cmd = r.cmd /\ s.failed = r.failed

\* What a step of p does to its own record and to the catalog lock: a process
\* that has a target locked keeps the target and the lock file that it opened.
RecordEffect(p) ==
    LET r == proc[p]
        s == proc'[p]
    IN  /\ Carries(r, s)
        /\ s.at = "cataloging" <=> catOwner' = p
        /\ catOwner' # catOwner => catOwner \in {p, Nobody} /\ catOwner' \in {p, Nobody}
        /\ s.at = "lock" \/ s.locked => s.file = lockfile'[s.m] /\ s.file # 0
        /\ s.locked => s.m = r.m /\ s.file = r.file /\ (r.locked \/ ~Locked(r.m, r.file))

LEMMA RecordStep ==
    ASSUME LocksInv, NEW p \in Procs, Command(p) \/ Step(p) \/ Crash(p)
    PROVE  RecordEffect(p)
<1> DEFINE r == proc[p]
<1> USE ProcsAssumption
<1>1. /\ Types /\ r \in Records /\ Shape(r) /\ proc' \in [Procs -> Records]
      /\ catOwner \in Procs \cup {Nobody}
  BY EveryStep DEF LocksInv, Shapes, Types, Stepped
<1>2. ids \in Nat /\ ids' \in Nat /\ ids' >= ids /\ r.id \in Nat /\ r.since \in Nat
  BY <1>1, FilesStep DEF FileEffect, Types, Records
<1>3. Carries(r, r) /\ \A s : Same(r, s) => Carries(r, s)
  BY DEF Same, Carries
<1>4. r.at = "cataloging" <=> catOwner = p
  BY DEF LocksInv, CatalogHeld, At
<1>5. r.at = "lock" \/ r.locked => r.file = lockfile[r.m] /\ r.file # 0
  BY DEF LocksInv, FileThere, At
\* A command that goes on to another target, ends, or starts.
<1>6. ASSUME NEW s \in Records, proc'[p] = s, ~s.locked, s.at \notin {"cataloging", "lock"},
             Carries(r, s),
             catOwner' = IF catOwner = p THEN Nobody ELSE catOwner
      PROVE  RecordEffect(p)
  BY <1>1, <1>6 DEF RecordEffect
\* A command that stays with its target.
<1>7. ASSUME NEW s \in Records, proc'[p] = s, s.at \notin {"cataloging", "lock"},
             r.at # "cataloging", Carries(r, s),
             s.m = r.m, s.file = r.file, s.locked => r.locked,
             catOwner' = catOwner, lockfile' = lockfile
      PROVE  RecordEffect(p)
  BY <1>1, <1>4, <1>5, <1>7 DEF RecordEffect
<1>8. ASSUME NEW i \in Records, i.phase \in {"clear", "cleanup", "build"},
             Carries(r, i), Becomes(p, Onward(i)),
             catOwner' = IF catOwner = p THEN Nobody ELSE catOwner
      PROVE  RecordEffect(p)
  <2>1. LET s == Onward(i)
        IN  s \in Records /\ ~s.locked /\ s.at \in {"open", "context", "done"}
            /\ Carries(r, s)
    BY <1>1, <1>8, OnwardGoes DEF Keeps, Carries
  <2>2. proc'[p] = Onward(i)
    BY <1>1, <1>8, <2>1, Moves
  <2> QED
    BY <1>3, <1>6, <1>8, <2>1, <2>2
<1>9. CASE Command(p)
  <2>1. r.at = "idle" /\ catOwner' = catOwner /\ ids' = ids /\ lockfile' = lockfile
    BY <1>9 DEF Command, StartBuild, StartStandalone, StartWorkspace, StartClean, Starts, At
  <2>2. catOwner' = IF catOwner = p THEN Nobody ELSE catOwner
    BY <1>4, <2>1
  <2>3. PICK t :
            /\ Becomes(p, t)
            /\ \/ \E m \in Projects, kind \in Kinds, cmd \in {"build", "standalone"} :
                     t = Onward([Idle EXCEPT !.cmd = cmd, !.kind = kind, !.phase = "clear",
                                             !.todo = {m}, !.next = {m}])
               \/ \E kind \in Kinds :
                     t = [Idle EXCEPT !.cmd = "workspace", !.kind = kind, !.phase = "refresh",
                                      !.cat = manifest.members, !.at = "catalog"]
               \/ t = Finished([Idle EXCEPT !.cmd = "cleanup"], FALSE)
               \/ t = [Idle EXCEPT !.cmd = "cleanup", !.phase = "read", !.at = "catalog",
                                   !.since = ids]
               \/ \E m \in Projects :
                     t = [Idle EXCEPT !.cmd = "clean", !.m = m, !.at = "clean",
                                      !.pieces = Pieces]
    BY <1>9 DEF Command, StartBuild, StartStandalone, StartWorkspace, StartClean, Starts
  <2>5. CASE \E m \in Projects, kind \in Kinds, cmd \in {"build", "standalone"} :
                 t = Onward([Idle EXCEPT !.cmd = cmd, !.kind = kind, !.phase = "clear",
                                         !.todo = {m}, !.next = {m}])
    <3>1. PICK m \in Projects, kind \in Kinds, cmd \in {"build", "standalone"} :
                 t = Onward([Idle EXCEPT !.cmd = cmd, !.kind = kind, !.phase = "clear",
                                         !.todo = {m}, !.next = {m}])
      BY <2>5
    <3> DEFINE i == [Idle EXCEPT !.cmd = cmd, !.kind = kind, !.phase = "clear",
                                 !.todo = {m}, !.next = {m}]
    <3>2. i \in Records
      BY KindsAssumption DEF Records, Idle
    <3>3. i.phase = "clear" /\ i.id = 0 /\ i.since = 0 /\ ~i.failed /\ t = Onward(i)
      BY <3>1 DEF Idle
    <3>4. Carries(r, i)
      BY <2>1, <3>3 DEF Carries
    <3> HIDE DEF i
    <3> QED
      BY <1>8, <2>2, <2>3, <3>2, <3>3, <3>4
  <2>6. CASE ~ \E m \in Projects, kind \in Kinds, cmd \in {"build", "standalone"} :
                 t = Onward([Idle EXCEPT !.cmd = cmd, !.kind = kind, !.phase = "clear",
                                         !.todo = {m}, !.next = {m}])
    <3>1. /\ ~t.locked /\ t.at \in {"catalog", "done", "clean"} /\ t.id = 0
          /\ t.since \in {0, ids} /\ ~t.failed
      BY <2>3, <2>6 DEF Idle, Finished
    <3>2. proc'[p] = t
      BY <1>1, <2>3 DEF Becomes, Types
    <3>3. t \in Records
      BY <1>1, <3>2
    <3>4. Carries(r, t)
      BY <2>1, <3>1 DEF Carries
    <3> QED
      BY <1>6, <2>2, <3>1, <3>2, <3>3, <3>4
  <2> QED
    BY <2>5, <2>6
<1>10. CASE LockCatalog(p)
  <2>1. /\ Becomes(p, [r EXCEPT !.at = "cataloging"]) /\ r.at = "catalog"
        /\ catOwner = Nobody /\ catOwner' = p /\ lockfile' = lockfile
    BY <1>10 DEF LockCatalog, Goes, At
  <2>2. proc'[p] = [r EXCEPT !.at = "cataloging"]
    BY <1>1, <2>1 DEF Becomes, Types
  <2>3. /\ proc'[p].at = "cataloging" /\ Same(r, proc'[p])
        /\ proc'[p].m = r.m /\ proc'[p].file = r.file /\ proc'[p].locked = r.locked
    BY <1>1, <2>2 DEF Records, Same
  <2> QED
    BY <1>3, <1>5, <2>1, <2>3 DEF RecordEffect
<1>11. CASE Refresh(p)
  <2> DEFINE i == [r EXCEPT !.phase = "clear", !.todo = r.cat, !.next = r.cat]
  <2>1. Becomes(p, Onward(i)) /\ r.at = "cataloging" /\ catOwner' = Nobody
    BY <1>11 DEF Refresh, At
  <2>2. i \in Records
    BY <1>1 DEF Records
  <2>3. i.phase = "clear" /\ Same(r, i)
    BY <1>1 DEF Records, Same
  <2> HIDE DEF i
  <2> QED
    BY <1>3, <1>4, <1>8, <2>1, <2>2, <2>3
<1>12. CASE Own(p)
  <2> DEFINE member == r.m \in r.cat
             s == [r EXCEPT !.at = "open", !.owner = member]
  <2>1. Becomes(p, s) /\ r.at = "cataloging" /\ r.phase = "build" /\ catOwner' = Nobody
    BY <1>12 DEF Own, At
  <2> HIDE DEF member
  <2>2. proc'[p] = s
    BY <1>1, <2>1 DEF Becomes, Types
  <2>3. s.at = "open" /\ s.locked = r.locked /\ Same(r, s)
    BY <1>1 DEF Records, Same
  <2>4. ~r.locked
    BY <1>1, <2>1 DEF Shape, Cataloging, Removing, Building
  <2> HIDE DEF s
  <2> QED
    BY <1>1, <1>3, <1>4, <1>6, <2>1, <2>2, <2>3, <2>4
<1>13. CASE ReadCatalog(p)
  <2> DEFINE i == [r EXCEPT !.phase = "cleanup", !.todo = catalog, !.cat = catalog]
  <2>1. Becomes(p, Onward(i)) /\ r.at = "cataloging" /\ catOwner' = Nobody
    BY <1>13 DEF ReadCatalog, At
  <2>2. catalog \in SUBSET Projects
    BY <1>1 DEF Types
  <2>3. i \in Records
    BY <1>1, <2>2 DEF Records
  <2>4. i.phase = "cleanup" /\ Same(r, i)
    BY <1>1 DEF Records, Same
  <2> HIDE DEF i
  <2> QED
    BY <1>3, <1>4, <1>8, <2>1, <2>3, <2>4
<1>14. CASE Recheck(p)
  <2> DEFINE e == evid[r.m]
  <2>1. /\ Becomes(p, Judged(r, e)) /\ r.at = "cataloging" /\ r.phase = "cleanup"
        /\ catOwner' = Nobody /\ lockfile' = lockfile
    BY <1>14 DEF Recheck, At
  <2>2. proc'[p] = Judged(r, e) /\ r.locked
    BY <1>1, <2>1 DEF Becomes, Types, Shape, Cataloging
  <2>3. ASSUME Judged(r, e) = [r EXCEPT !.at = "rmProv"]
        PROVE  RecordEffect(p)
    <3> DEFINE s == [r EXCEPT !.at = "rmProv"]
    <3>1. /\ s.at = "rmProv" /\ Same(r, s)
          /\ s.m = r.m /\ s.file = r.file /\ s.locked = r.locked
      BY <1>1 DEF Records, Same
    <3>2. proc'[p] = s
      BY <2>2, <2>3
    <3> HIDE DEF s
    <3> QED
      BY <1>3, <1>4, <1>5, <2>1, <2>2, <3>1, <3>2 DEF RecordEffect
  <2>4. ASSUME Judged(r, e) = Finished(r, FALSE)
        PROVE  RecordEffect(p)
    <3> DEFINE s == Finished(r, FALSE)
    <3>1. s \in Records /\ s.at = "done" /\ ~s.locked /\ Same(r, s)
      BY <1>1, FinishedRecord DEF Same
    <3> HIDE DEF s
    <3>2. proc'[p] = s
      BY <2>2, <2>4 DEF s
    <3> QED
      BY <1>3, <1>4, <1>6, <2>1, <3>1, <3>2
  <2>5. ASSUME NEW t \in BOOLEAN, Judged(r, e) = Onward([r EXCEPT !.ok = t])
        PROVE  RecordEffect(p)
    <3> DEFINE i == [r EXCEPT !.ok = t]
    <3>1. i \in Records
      BY <1>1 DEF Records
    <3>2. i.phase = "cleanup" /\ Same(r, i)
      BY <1>1, <2>1 DEF Records, Same
    <3>3. Becomes(p, Onward(i))
      BY <2>1, <2>5
    <3> HIDE DEF i
    <3> QED
      BY <1>3, <1>4, <1>8, <2>1, <3>1, <3>2, <3>3
  <2> HIDE DEF e
  <2> QED
    BY <1>1, <2>1, <2>3, <2>4, <2>5, JudgedGoes
\* A command that stays in its transaction, or gives it up, and ends.
<1>15. ASSUME NEW s \in Records, proc'[p] = s, s.at \in Removing \cup Building,
              r.at \in Removing \cup Building, Carries(r, s),
              s.m = r.m, s.file = r.file, s.locked = r.locked,
              catOwner' = catOwner, lockfile' = lockfile
       PROVE  RecordEffect(p)
  <2>1. s.at \notin {"cataloging", "lock"} /\ r.at # "cataloging"
    BY <1>15 DEF Removing, Building
  <2> QED
    BY <1>3, <1>7, <1>15, <2>1
<1>16. ASSUME r.at \notin {"cataloging", "lock"}, Becomes(p, Finished(r, FALSE)) \/
                Becomes(p, Finished(r, TRUE)), catOwner' = catOwner
       PROVE  RecordEffect(p)
  <2> DEFINE a == Finished(r, FALSE)
             b == Finished(r, TRUE)
  <2>1. /\ a \in Records /\ a.at = "done" /\ ~a.locked /\ Same(r, a)
        /\ b \in Records /\ b.at = "done" /\ ~b.locked /\ Same(r, b)
    BY <1>1, FinishedRecord DEF Same
  <2>2. Becomes(p, a) \/ Becomes(p, b)
    BY <1>16
  <2> HIDE DEF a, b
  <2>3. proc'[p] = a \/ proc'[p] = b
    BY <1>1, <2>1, <2>2, Moves
  <2> QED
    BY <1>3, <1>4, <1>6, <1>16, <2>1, <2>3
<1>17. ASSUME NEW piece \in Pieces, CleanPiece(p, piece)
       PROVE  RecordEffect(p)
  <2> DEFINE left == r.pieces \ {piece}
             s == [r EXCEPT !.pieces = left]
  <2>1. /\ r.at = "clean" /\ catOwner' = catOwner
        /\ Becomes(p, Finished(r, TRUE)) \/ Becomes(p, s)
    BY <1>17 DEF CleanPiece, At
  <2>2. left \in SUBSET Pieces /\ ~r.locked
    BY <1>1, <2>1 DEF Records, Shape, Removing, Building, Cataloging
  <2> HIDE DEF left
  <2>3. s \in Records
    BY <1>1, <2>2 DEF Records
  <2>4. s.at = "clean" /\ ~s.locked /\ Same(r, s)
    BY <1>1, <2>1, <2>2 DEF Records, Same
  <2> HIDE DEF s
  <2>5. CASE Becomes(p, s)
    <3>1. proc'[p] = s
      BY <1>1, <2>3, <2>5, Moves
    <3> QED
      BY <1>3, <1>4, <1>6, <2>1, <2>3, <2>4, <3>1
  <2> QED
    BY <1>16, <2>1, <2>5
<1>18. CASE Context(p)
  <2> DEFINE b == [r EXCEPT !.at = "catalog", !.cat = manifest.members]
             c == [r EXCEPT !.at = "open", !.owner = FALSE]
  <2>1. /\ r.at = "context" /\ catOwner' = catOwner
        /\ Becomes(p, Finished(r, FALSE)) \/ Becomes(p, b) \/ Becomes(p, c)
    BY <1>18 DEF Context, At
  <2>2. manifest.members \in SUBSET Projects /\ ~r.locked
    BY <1>1, <2>1 DEF Types, Shape, Removing, Building, Cataloging
  <2>3. b \in Records /\ c \in Records
    BY <1>1, <2>2 DEF Records, Cataloging
  <2>4. /\ b.at = "catalog" /\ b.locked = r.locked /\ Same(r, b)
        /\ c.at = "open" /\ c.locked = r.locked /\ Same(r, c)
    BY <1>1 DEF Records, Same
  <2> HIDE DEF b, c
  <2>5. CASE Becomes(p, b) \/ Becomes(p, c)
    <3>1. proc'[p] = b \/ proc'[p] = c
      BY <1>1, <2>3, <2>5, Moves
    <3> QED
      BY <1>3, <1>4, <1>6, <2>1, <2>2, <2>3, <2>4, <3>1
  <2> QED
    BY <1>16, <2>1, <2>5
<1>19. CASE Open(p)
  <2> DEFINE f == lockfile'[r.m]
             s == [r EXCEPT !.at = "lock", !.file = f]
  <2>1. Becomes(p, s) /\ r.at = "open" /\ catOwner' = catOwner
    BY <1>19 DEF Open, At
  <2>2. r.m \in Projects /\ ~r.locked
    BY <1>1, <2>1 DEF Shape, Removing, Building, Cataloging
  <2>3. f \in Nat /\ f # 0
    <3>1. lockfile \in [Projects -> Nat] /\ inodes \in Nat
      BY <1>1 DEF Types
    <3> QED
      BY <1>19, <2>2, <3>1 DEF Open
  <2> HIDE DEF f
  <2>4. s \in Records
    BY <1>1, <2>3 DEF Records
  <2>5. /\ s.at = "lock" /\ s.m = r.m /\ s.file = f /\ s.locked = r.locked
        /\ Same(r, s)
    BY <1>1 DEF Records, Same
  <2> HIDE DEF s
  <2>6. proc'[p] = s
    BY <1>1, <2>1, <2>4, Moves
  <2> QED
    BY <1>3, <1>4, <2>1, <2>2, <2>3, <2>5, <2>6 DEF RecordEffect, f
<1>20. CASE Lock(p)
  <2> DEFINE step == IF r.phase = "cleanup" THEN "catalog" ELSE "rmProv"
             s == [r EXCEPT !.at = step, !.locked = TRUE, !.failed = FALSE, !.id = 0]
  <2>1. /\ r.at = "lock" /\ Becomes(p, s) /\ catOwner' = catOwner /\ lockfile' = lockfile
        /\ ~Locked(r.m, r.file)
    BY <1>20 DEF Lock, At, AfterLock
  <2>5. step \in Removing \cup Cataloging /\ step # "cataloging"
    BY DEF Removing, Cataloging
  <2> HIDE DEF step
  <2>2. s \in Records
    BY <1>1, <2>5 DEF Records
  <2>3. /\ s.at # "cataloging" /\ s.m = r.m /\ s.file = r.file
        /\ Carries(r, s)
    BY <1>1, <2>5 DEF Records, Carries
  <2> HIDE DEF s
  <2>4. proc'[p] = s
    BY <1>1, <2>1, <2>2, Moves
  <2> QED
    BY <1>2, <1>3, <1>4, <1>5, <2>1, <2>3, <2>4 DEF RecordEffect
<1>21. CASE Remove(p)
  <2>1. PICK i \in DOMAIN Removals :
            /\ r.at = Removals[i].at
            /\ \/ Becomes(p, [r EXCEPT !.at = Removals[i].then])
               \/ /\ Becomes(p, [r EXCEPT !.at = Removals[i].then, !.failed = TRUE])
                  /\ "remove" \in Faults
            /\ catOwner' = catOwner /\ lockfile' = lockfile
    BY <1>21 DEF Remove, At, Goes
  <2> DEFINE next == Removals[i].then
             a == [r EXCEPT !.at = next]
             b == [r EXCEPT !.at = next, !.failed = TRUE]
  <2>2. r.at \in Removing /\ next \in Removing
    BY <2>1 DEF Removals, Removing
  <2>3. Becomes(p, a) \/ (Becomes(p, b) /\ "remove" \in Faults)
    BY <2>1
  <2> HIDE DEF next
  <2>4. a \in Records /\ b \in Records
    BY <1>1, <2>2 DEF Records
  <2>5. /\ a.at = next /\ a.m = r.m /\ a.file = r.file /\ a.locked = r.locked
        /\ Same(r, a)
        /\ b.at = next /\ b.m = r.m /\ b.file = r.file /\ b.locked = r.locked
        /\ b.id = r.id /\ b.since = r.since /\ b.cmd = r.cmd
    BY <1>1 DEF Records, Same
  <2> HIDE DEF a, b
  <2>6. proc'[p] = a \/ (proc'[p] = b /\ Carries(r, b))
    BY <1>1, <2>3, <2>4, <2>5, Moves DEF Carries
  <2> QED
    BY <1>3, <1>15, <2>1, <2>2, <2>4, <2>5, <2>6
<1>22. CASE Cleared(p)
  <2> DEFINE b == [r EXCEPT !.at = "rmProv", !.phase = "abort"]
             c == [r EXCEPT !.at = "write"]
  <2>1. /\ r.at = "cleared" /\ catOwner' = catOwner /\ lockfile' = lockfile
        /\ \/ Becomes(p, Finished(r, FALSE))
           \/ Becomes(p, b)
           \/ Becomes(p, c)
           \/ Becomes(p, Onward(r)) /\ r.phase # "abort"
    BY <1>22 DEF Cleared, At
  <2>2. b \in Records /\ c \in Records
    <3>1. b \in Records
      BY <1>1 DEF Records, Removing
    <3>2. c \in Records
      BY <1>1 DEF Records, Building
    <3> QED
      BY <3>1, <3>2
  <2>3. /\ b.at = "rmProv" /\ b.m = r.m /\ b.file = r.file /\ b.locked = r.locked
        /\ Same(r, b)
        /\ c.at = "write" /\ c.m = r.m /\ c.file = r.file /\ c.locked = r.locked
        /\ Same(r, c)
    BY <1>1 DEF Records, Same
  <2>4. r.at \in Removing /\ "rmProv" \in Removing /\ "write" \in Building
    BY <2>1 DEF Removing, Building
  <2> HIDE DEF b, c
  <2>5. CASE Becomes(p, b) \/ Becomes(p, c)
    <3>1. proc'[p] = b \/ proc'[p] = c
      BY <1>1, <2>2, <2>5, Moves
    <3> QED
      BY <1>3, <1>15, <2>1, <2>2, <2>3, <2>4, <3>1
  <2>6. CASE Becomes(p, Onward(r)) /\ r.phase # "abort"
    <3>1. r.phase \in {"clear", "build", "cleanup"}
      BY <1>1, <2>4, <2>6 DEF Shape
    <3>2. catOwner' = IF catOwner = p THEN Nobody ELSE catOwner
      BY <1>4, <2>1
    <3> QED
      BY <1>1, <1>3, <1>8, <2>6, <3>1, <3>2
  <2> QED
    BY <1>16, <2>1, <2>5, <2>6
<1>23. ASSUME NEW t \in Records, t.at \in Building, t.locked, t.m = r.m, t.file = r.file,
              Carries(r, t), r.at \in Building,
              \/ \E step \in Building : Becomes(p, [t EXCEPT !.at = step])
              \/ Becomes(p, Aborts(t)),
              catOwner' = catOwner, lockfile' = lockfile
       PROVE  RecordEffect(p)
  <2>1. r.locked
    BY <1>1, <1>23 DEF Shape
  <2>4. \A s : Same(t, s) => Carries(r, s)
    BY <1>23 DEF Same, Carries
  <2>2. ASSUME NEW step \in Building, Becomes(p, [t EXCEPT !.at = step])
        PROVE  RecordEffect(p)
    <3> DEFINE s == [t EXCEPT !.at = step]
    <3>1. s \in Records
      BY <1>23 DEF Records
    <3>2. /\ s.at = step /\ s.m = t.m /\ s.file = t.file /\ s.locked = t.locked
          /\ Same(t, s)
      BY <1>23 DEF Records, Same
    <3>3. Becomes(p, s)
      BY <2>2
    <3> HIDE DEF s
    <3>4. proc'[p] = s
      BY <1>1, <3>1, <3>3, Moves
    <3> QED
      BY <1>15, <1>23, <2>1, <2>4, <3>1, <3>2, <3>4
  <2>3. CASE Becomes(p, Aborts(t))
    <3> DEFINE s == Aborts(t)
    <3>1. s \in Records
      BY <1>23 DEF Records, Aborts, Removing
    <3>2. /\ s.at = "rmProv" /\ s.m = t.m /\ s.file = t.file /\ s.locked = t.locked
          /\ Same(t, s)
      BY <1>23 DEF Records, Aborts, Same
    <3> HIDE DEF s
    <3>3. proc'[p] = s
      BY <1>1, <2>3, <3>1, Moves DEF s
    <3>4. "rmProv" \in Removing
      BY DEF Removing
    <3> QED
      BY <1>15, <1>23, <2>1, <2>4, <3>1, <3>2, <3>3, <3>4
  <2> QED
    BY <1>23, <2>2, <2>3
<1>24. CASE WriteC(p)
  <2> DEFINE n == ids + 1
             t == [r EXCEPT !.id = n]
  <2>1. /\ r.at = "write" /\ ids' = n /\ catOwner' = catOwner /\ lockfile' = lockfile
        /\ \/ Becomes(p, [t EXCEPT !.at = IF t.kind = "emit" THEN "meta" ELSE "link"])
           \/ Becomes(p, Aborts(t))
    BY <1>24 DEF WriteC, At
  <2>2. n \in Nat /\ n <= n /\ "meta" \in Building /\ "link" \in Building
        /\ r.at \in Building
    BY <1>2, <2>1 DEF Building
  <2>3. r.locked
    BY <1>1, <2>2 DEF Shape
  <2> HIDE DEF n
  <2>4. t \in Records
    BY <1>1, <2>2 DEF Records
  <2>5. /\ t.at = r.at /\ t.locked = r.locked /\ t.m = r.m /\ t.file = r.file /\ t.id = n
        /\ t.since = r.since /\ t.cmd = r.cmd /\ t.failed = r.failed
    BY <1>1, <2>2 DEF Records
  <2>7. Carries(r, t)
    BY <2>1, <2>5 DEF Carries, n
  <2> HIDE DEF t
  <2>6. \/ \E step \in Building : Becomes(p, [t EXCEPT !.at = step])
        \/ Becomes(p, Aborts(t))
    BY <2>1, <2>2
  <2> QED
    BY <1>23, <2>1, <2>2, <2>3, <2>4, <2>5, <2>6, <2>7
<1>25. CASE Link(p)
  <2>1. /\ r.at = "link" /\ catOwner' = catOwner /\ lockfile' = lockfile
        /\ Becomes(p, [r EXCEPT !.at = "meta"]) \/ Becomes(p, Aborts(r))
    BY <1>25 DEF Link, At, Goes
  <2>2. r.at \in Building /\ "meta" \in Building
    BY <2>1 DEF Building
  <2>3. r.locked
    BY <1>1, <2>2 DEF Shape
  <2>4. \/ \E step \in Building : Becomes(p, [r EXCEPT !.at = step])
        \/ Becomes(p, Aborts(r))
    BY <2>1, <2>2
  <2> QED
    BY <1>1, <1>3, <1>23, <2>1, <2>2, <2>3, <2>4
<1>26. CASE Publish(p)
  <2>1. PICK w \in Publications(r) :
            /\ r.at = w.at /\ catOwner' = catOwner /\ lockfile' = lockfile
            /\ Becomes(p, [r EXCEPT !.at = w.then]) \/ Becomes(p, Aborts(r))
    BY <1>26 DEF Publish, At, Goes
  <2>2. r.at \in Building /\ w.then \in Building
    BY <2>1 DEF Publications, Building
  <2>3. r.locked
    BY <1>1, <2>2 DEF Shape
  <2>4. \/ \E step \in Building : Becomes(p, [r EXCEPT !.at = step])
        \/ Becomes(p, Aborts(r))
    BY <2>1, <2>2
  <2> QED
    BY <1>1, <1>3, <1>23, <2>1, <2>2, <2>3, <2>4
<1>27. CASE Commit(p)
  <2>1. Becomes(p, Onward(r)) /\ r.at = "commit" /\ catOwner' = catOwner
    BY <1>27 DEF Commit, At
  <2>2. r.phase = "build" /\ catOwner' = IF catOwner = p THEN Nobody ELSE catOwner
    BY <1>1, <1>4, <2>1 DEF Shape, Building
  <2> QED
    BY <1>1, <1>3, <1>8, <2>1, <2>2
<1>28. CASE Done(p) \/ Crash(p)
  <2>1. Becomes(p, Idle) /\ catOwner' = IF catOwner = p THEN Nobody ELSE catOwner
    BY <1>4, <1>28 DEF Done, Crash, At
  <2>2. proc'[p] = Idle /\ Idle \in Records
    BY <1>1, <2>1, IdleRecord, Moves
  <2>3. ~Idle.locked /\ Idle.at = "idle" /\ Carries(r, Idle)
    BY DEF Idle, Carries
  <2> HIDE DEF Idle
  <2> QED
    BY <1>2, <1>6, <2>1, <2>2, <2>3
<1> QED
  BY <1>9, <1>10, <1>11, <1>12, <1>13, <1>14, <1>17, <1>18, <1>19, <1>20, <1>21, <1>22, <1>24,
     <1>25, <1>26, <1>27, <1>28 DEF Step

\* While "nomo clean" runs, or is about to, nobody else does anything.
LEMMA CleansStep ==
    ASSUME CleanAlone, LocksInv, NEW p \in Procs, Command(p) \/ Step(p) \/ Crash(p)
    PROVE  CleansAlone'
<1>1. /\ Stepped(p) /\ proc \in [Procs -> Records] /\ Carries(proc[p], proc'[p])
  BY EveryStep, RecordStep DEF LocksInv, Types, RecordEffect
<1>2. CleansAlone
  BY DEF LocksInv
<1>3. CASE Command(p)
  <2>1. At(p, "idle") /\ (Cleans = "alone" => \A q \in Procs : proc[q].cmd # "clean")
    BY <1>3 DEF Command, StartBuild, StartStandalone, StartWorkspace, StartClean, Starts
  <2>2. CASE \E m \in Projects : StartClean(p, m)
    <3>1. Cleans = "alone" /\ \A q \in Procs : At(q, "idle") /\ proc[q].cmd # "clean"
      BY <2>1, <2>2, CleansAssumption DEF CleanAlone, StartClean
    <3> QED
      BY <1>1, <3>1 DEF CleansAlone, Stepped, At
  <2>3. CASE ~ \E m \in Projects : StartClean(p, m)
    <3>1. proc'[p].cmd # "clean"
      <4>1. PICK t :
                /\ Becomes(p, t)
                /\ \/ \E m \in Projects, kind \in Kinds, cmd \in {"build", "standalone"} :
                         t = Onward([Idle EXCEPT !.cmd = cmd, !.kind = kind, !.phase = "clear",
                                                 !.todo = {m}, !.next = {m}])
                   \/ \E kind \in Kinds :
                         t = [Idle EXCEPT !.cmd = "workspace", !.kind = kind,
                                          !.phase = "refresh", !.cat = manifest.members,
                                          !.at = "catalog"]
                   \/ t = Finished([Idle EXCEPT !.cmd = "cleanup"], FALSE)
                   \/ t = [Idle EXCEPT !.cmd = "cleanup", !.phase = "read", !.at = "catalog",
                                       !.since = ids]
        BY <1>3, <2>3 DEF Command, StartBuild, StartStandalone, StartWorkspace, Starts
      <4>2. proc'[p] = t
        BY <1>1, <4>1 DEF Becomes
      <4>3. ASSUME NEW m \in Projects, NEW kind \in Kinds, NEW cmd \in {"build", "standalone"},
                   t = Onward([Idle EXCEPT !.cmd = cmd, !.kind = kind, !.phase = "clear",
                                           !.todo = {m}, !.next = {m}])
            PROVE  t.cmd # "clean"
        <5> DEFINE i == [Idle EXCEPT !.cmd = cmd, !.kind = kind, !.phase = "clear",
                                     !.todo = {m}, !.next = {m}]
        <5>1. i \in Records
          BY KindsAssumption DEF Records, Idle
        <5>2. i.phase = "clear" /\ i.cmd = cmd /\ t = Onward(i)
          BY <4>3 DEF Idle
        <5> HIDE DEF i
        <5>3. Onward(i).cmd = cmd
          BY <5>1, <5>2, OnwardGoes DEF Keeps, LocksInv
        <5> QED
          BY <5>2, <5>3
      <4>4. ASSUME ~ \E m \in Projects, kind \in Kinds, cmd \in {"build", "standalone"} :
                         t = Onward([Idle EXCEPT !.cmd = cmd, !.kind = kind, !.phase = "clear",
                                                 !.todo = {m}, !.next = {m}])
            PROVE  t.cmd # "clean"
        BY <4>1, <4>4 DEF Idle, Finished
      <4> QED
        BY <4>2, <4>3, <4>4
    <3>2. \A q \in Procs : proc[q].cmd # "clean"
      <4>1. CASE Cleans = "alone"
        BY <2>1, <4>1
      <4>2. CASE Cleans = "never"
        BY <1>2, <4>2 DEF CleansAlone
      <4> QED
        BY <4>1, <4>2, CleansAssumption DEF CleanAlone
    <3> QED
      BY <1>1, <3>1, <3>2 DEF CleansAlone, Stepped
  <2> QED
    BY <2>2, <2>3
<1>4. CASE Step(p) \/ Crash(p)
  <2>1. ~At(p, "idle")
    <3>1. CASE Remove(p)
      BY <3>1 DEF Remove, Removals, At
    <3>2. CASE Publish(p)
      BY <3>2 DEF Publish, Publications, At
    <3>3. CASE \/ \E piece \in Pieces : CleanPiece(p, piece)
               \/ LockCatalog(p) \/ Refresh(p) \/ Own(p) \/ ReadCatalog(p) \/ Recheck(p)
               \/ Context(p) \/ Open(p) \/ Lock(p) \/ Cleared(p)
               \/ WriteC(p) \/ Link(p) \/ Commit(p) \/ Done(p) \/ Crash(p)
      BY <3>3 DEF Crash, CleanPiece, LockCatalog, Refresh, Own, ReadCatalog, Recheck,
           Context, Open, Lock, Cleared, WriteC, Link, Commit, Done, At
    <3> QED
      BY <1>4, <3>1, <3>2, <3>3 DEF Step
  <2>2. proc'[p].cmd \in {proc[p].cmd, "none"}
    BY <1>1, <2>1 DEF Carries, At
  <2>3. \A q \in Procs : q # p => proc[q].cmd # "clean" /\ proc'[q] = proc[q]
    BY <1>1, <1>2, <2>1 DEF CleansAlone, Stepped
  <2> QED
    BY <1>2, <2>2, <2>3 DEF CleansAlone, At
<1> QED
  BY <1>3, <1>4

\* The locks at the start.
LEMMA LocksInit == Init => LocksInv
<1> SUFFICES ASSUME Init PROVE LocksInv
  OBVIOUS
<1> USE ProcsAssumption
<1>1. Types
  BY IdleRecord DEF Init, Types, Evidence, Artifacts
<1>2. \A p \in Procs : proc[p] = Idle
  BY DEF Init
<1>3. Shapes
  BY <1>2, IdleRecord DEF Shapes
<1>4. Numbered
  BY <1>2 DEF Init, Numbered, EvidBelow, ArtBelow, Idle
<1>5. CatalogHeld /\ CleansAlone /\ FileThere /\ OneBuilder
  BY <1>2 DEF Init, CatalogHeld, CleansAlone, FileThere, OneBuilder, At, Idle
<1> QED
  BY <1>1, <1>3, <1>4, <1>5 DEF LocksInv

\* An edit of the manifest changes nothing else.
LEMMA LocksEdit ==
    ASSUME LocksInv, EditManifest \/ UNCHANGED vars
    PROVE  LocksInv'
<1>1. UNCHANGED <<catalog, catOwner, lockfile, inodes, evid, art, proc, ids, commands>>
  BY DEF EditManifest, vars, files
<1>2. Types
  BY DEF LocksInv
<1>3. manifest' \in [ok : BOOLEAN, members : SUBSET Projects]
  <2>1. manifest \in [ok : BOOLEAN, members : SUBSET Projects]
    BY <1>2 DEF Types
  <2>2. \/ manifest' = [manifest EXCEPT !.ok = FALSE]
        \/ \E x \in SUBSET Projects : manifest' = [ok |-> TRUE, members |-> x]
        \/ manifest' = manifest
    BY DEF EditManifest, vars
  <2>3. [manifest EXCEPT !.ok = FALSE] \in [ok : BOOLEAN, members : SUBSET Projects]
    BY <2>1
  <2>4. \A x \in SUBSET Projects :
            [ok |-> TRUE, members |-> x] \in [ok : BOOLEAN, members : SUBSET Projects]
    OBVIOUS
  <2> DEFINE a == [manifest EXCEPT !.ok = FALSE]
             b(x) == [ok |-> TRUE, members |-> x]
             M == [ok : BOOLEAN, members : SUBSET Projects]
  <2>5. /\ manifest' = a \/ manifest' = manifest \/ \E x \in SUBSET Projects : manifest' = b(x)
        /\ manifest \in M /\ a \in M /\ \A x \in SUBSET Projects : b(x) \in M
    BY <2>1, <2>2, <2>3, <2>4
  <2> HIDE DEF a, b, M
  <2>6. manifest' \in M
    BY <2>5
  <2> QED
    BY <2>6 DEF M
<1>5. edits' \in Nat
  BY <1>2 DEF EditManifest, vars, Types
<1>4. Types'
  BY <1>1, <1>2, <1>3, <1>5 DEF Types
<1> QED
  BY <1>1, <1>4 DEF LocksInv, Shapes, Numbered, CatalogHeld, CleansAlone, FileThere,
     OneBuilder, At

\* A step of a process preserves the invariant of the locks.
LEMMA LocksStep ==
    ASSUME CleanAlone, LocksInv, NEW p \in Procs, Command(p) \/ Step(p) \/ Crash(p)
    PROVE  LocksInv'
<1> USE ProcsAssumption
<1> DEFINE r == proc[p]
           s == proc'[p]
<1>1. /\ Stepped(p) /\ FileEffect(p) /\ RecordEffect(p) /\ CleansAlone'
  BY EveryStep, FilesStep, RecordStep, CleansStep
<1>2. /\ Types /\ Shapes /\ Numbered /\ CatalogHeld /\ CleansAlone /\ FileThere /\ OneBuilder
  BY DEF LocksInv
<1>3. /\ manifest' = manifest /\ edits' = edits /\ catalog' \in SUBSET Projects
      /\ commands' \in Nat
  <2>1. manifest' = manifest /\ edits' = edits
    BY DEF Command, StartBuild, StartStandalone, StartWorkspace, StartClean, Crash, Step,
       CleanPiece, LockCatalog, Refresh, Own, ReadCatalog, Recheck, Context, Open, Lock, Remove,
       Cleared, WriteC, Link, Publish, Commit, Done, workspace
  <2>2. catalog' \in {catalog, r.cat}
    BY DEF Command, StartBuild, StartStandalone, StartWorkspace, StartClean, Crash, Step,
       CleanPiece, LockCatalog, Refresh, Own, ReadCatalog, Recheck, Context, Open, Lock, Remove,
       Cleared, WriteC, Link, Publish, Commit, Done, workspace
  <2>3. commands' \in {commands, commands + 1}
    BY DEF Command, StartBuild, StartStandalone, StartWorkspace, StartClean, Starts, Crash, Step,
       CleanPiece, LockCatalog, Refresh, Own, ReadCatalog, Recheck, Context, Open, Lock, Remove,
       Cleared, WriteC, Link, Publish, Commit, Done
  <2>4. catalog \in SUBSET Projects /\ r.cat \in SUBSET Projects /\ commands \in Nat
    BY <1>2 DEF Types, Records
  <2> QED
    BY <2>1, <2>2, <2>3, <2>4
<1>4. catOwner \in Procs \cup {Nobody} /\ catOwner' \in Procs \cup {Nobody}
  BY <1>1, <1>2 DEF RecordEffect, Types
<1>5. Types'
  BY <1>1, <1>2, <1>3, <1>4 DEF Types, Stepped, FileEffect
<1>6. Shapes'
  BY <1>1, <1>2 DEF Shapes, Stepped
<1>7. Numbered'
  <2>1. /\ ids \in Nat /\ ids' \in Nat /\ ids' >= ids
        /\ \A q \in Procs : /\ proc[q].id \in Nat /\ proc[q].since \in Nat
                            /\ proc[q].id <= ids /\ proc[q].since <= ids
    BY <1>1, <1>2 DEF Types, FileEffect, Records, Numbered
  <2>2. s.id <= ids' /\ s.since <= ids'
    BY <1>1, <2>1 DEF RecordEffect, Carries
  <2>3. \A q \in Procs : proc'[q].id <= ids' /\ proc'[q].since <= ids'
    BY <1>1, <2>1, <2>2 DEF Stepped
  <2> QED
    BY <1>1, <2>3 DEF Numbered, FileEffect
<1>8. CatalogHeld'
  BY <1>1, <1>2, <1>4 DEF CatalogHeld, RecordEffect, Stepped, At
<1>9. FileThere'
  <2>1. ASSUME NEW q \in Procs, q # p, proc[q].at = "lock" \/ proc[q].locked
        PROVE  proc[q].file = lockfile'[proc[q].m]
    <3>1. proc[q].m \in Projects /\ proc[q].file = lockfile[proc[q].m] /\ proc[q].file # 0
      BY <1>2, <2>1 DEF Shapes, Shape, FileThere, At
    <3>2. proc[q].at # "idle"
      BY <1>2, <2>1 DEF Shapes, Shape, Idle
    <3>3. ~At(p, "clean")
      BY <1>2, <2>1, <3>2 DEF Shapes, Shape, CleansAlone, At
    <3> QED
      BY <1>1, <3>1, <3>3 DEF FileEffect
  <2>2. \A q \in Procs : q # p => proc'[q] = proc[q]
    BY <1>1 DEF Stepped
  <2> QED
    BY <1>1, <1>2, <2>1, <2>2 DEF FileThere, RecordEffect, At
<1>10. OneBuilder'
  <2>1. ASSUME NEW q \in Procs, q # p, proc[q].locked, s.locked
        PROVE  proc[q].m # s.m
    <3>1. s.m = r.m /\ s.file = r.file /\ (r.locked \/ ~Locked(r.m, r.file))
      BY <1>1, <2>1 DEF RecordEffect
    <3>2. CASE r.locked
      BY <1>2, <2>1, <3>1, <3>2 DEF OneBuilder
    <3>3. CASE ~Locked(r.m, r.file)
      <4>1. s.file = lockfile'[s.m] /\ proc[q].file = lockfile'[proc[q].m]
        BY <1>1, <1>9, <2>1 DEF FileThere, RecordEffect, Stepped
      <4> QED
        BY <2>1, <3>1, <3>3, <4>1 DEF Locked
    <3> QED
      BY <3>1, <3>2, <3>3
  <2>2. \A q \in Procs : q # p => proc'[q] = proc[q]
    BY <1>1 DEF Stepped
  <2> QED
    BY <1>2, <2>1, <2>2 DEF OneBuilder
<1> QED
  BY <1>1, <1>5, <1>6, <1>7, <1>8, <1>9, <1>10 DEF LocksInv

\* The invariant of the locks holds throughout.
LEMMA LocksInvariant == CleanAlone => (Spec => []LocksInv)
<1> SUFFICES ASSUME CleanAlone PROVE Spec => []LocksInv
  OBVIOUS
<1>1. LocksInv /\ [Next]_vars => LocksInv'
  BY LocksEdit, LocksStep DEF Next
<1> QED
  BY <1>1, LocksInit, PTL DEF Spec

\* Whoever waits, waits for somebody who does not.
LEMMA LocksServing == LocksInv => LocksServe
<1> SUFFICES ASSUME LocksInv, NEW p \in Procs, ~At(p, "idle")
             PROVE  \E q \in Procs : ~At(q, "idle") /\ ~Waits(q)
  BY DEF LocksServe, LocksInv
<1> USE DEF At
<1>1. CASE catOwner # Nobody
  <2>1. catOwner \in Procs /\ At(catOwner, "cataloging")
    BY <1>1 DEF LocksInv, Types, CatalogHeld
  <2> QED
    BY <2>1 DEF Waits
<1>2. CASE catOwner = Nobody
  <2>1. CASE Waits(p)
    <3>1. PICK q \in Procs : proc[q].locked
      BY <1>2, <2>1 DEF Waits, Locked
    <3>2. proc[q].at \in Removing \cup Building \cup Cataloging
      BY <3>1 DEF LocksInv, Shapes, Shape
    <3>3. ~At(q, "idle") /\ ~At(q, "lock")
      BY <3>2 DEF Removing, Building, Cataloging
    <3> QED
      BY <1>2, <3>3 DEF Waits
  <2> QED
    BY <2>1
<1> QED
  BY <1>1, <1>2

\* Evidence publication is serialized by the lock file of the target directory,
\* and no two commands wait for each other's target and catalog locks, however
\* many run at once and wherever they fail, as long as "nomo clean" does not run
\* beside them.
THEOREM LocksServeThroughout == CleanAlone => (Spec => []LocksServe)
BY LocksInvariant, LocksServing, PTL

-----------------------------------------------------------------------------
(* The invariant of the evidence is inductive.                             *)

\* The steps at which the record says what the files are.
Deep == {"rmReceipt", "rmMeta", "cleared"} \cup Building

\* The steps that change no evidence lead out of the transaction, or to its start.
LEMMA ShallowStep ==
    ASSUME LocksInv, NEW p \in Procs,
           \/ Command(p) \/ LockCatalog(p) \/ Refresh(p) \/ Own(p) \/ ReadCatalog(p) \/ Recheck(p)
           \/ Context(p) \/ Open(p) \/ Lock(p) \/ Commit(p) \/ Done(p) \/ Crash(p)
    PROVE  UNCHANGED <<evid, art, cleaned>> /\ proc'[p].at \notin Deep
<1> DEFINE r == proc[p]
<1>1. Types /\ r \in Records /\ Shape(r) /\ proc' \in [Procs -> Records] /\ Stepped(p)
  BY EveryStep DEF LocksInv, Shapes, Types, Stepped, Step
<1>2. UNCHANGED <<evid, art, cleaned>>
  BY DEF Command, StartBuild, StartStandalone, StartWorkspace, StartClean, LockCatalog, Refresh,
     Own, ReadCatalog, Recheck, Context, Open, Lock, Commit, Done, Crash, workspace, files
<1> SUFFICES proc'[p].at \notin Deep
  BY <1>2
<1>3. ASSUME NEW i \in Records, i.phase \in {"clear", "cleanup", "build"}, Becomes(p, Onward(i))
      PROVE  proc'[p].at \notin Deep
  <2>1. Onward(i) \in Records /\ Onward(i).at \in {"open", "context", "done"}
    BY <1>1, <1>3, OnwardGoes
  <2>2. proc'[p] = Onward(i)
    BY <1>1, <1>3, <2>1, Moves
  <2> QED
    BY <2>1, <2>2 DEF Deep, Building
<1>4. ASSUME NEW t, Becomes(p, t), t.at \notin Deep
      PROVE  proc'[p].at \notin Deep
  BY <1>1, <1>4 DEF Becomes, Types
<1>5. CASE Command(p)
  <2>1. proc'[p].at \in {"open", "context", "done", "catalog", "clean"}
    <3>1. PICK t :
              /\ Becomes(p, t)
              /\ \/ \E m \in Projects, kind \in Kinds, cmd \in {"build", "standalone"} :
                       t = Onward([Idle EXCEPT !.cmd = cmd, !.kind = kind, !.phase = "clear",
                                               !.todo = {m}, !.next = {m}])
                 \/ t.at \in {"done", "catalog", "clean"}
      <4>1. CASE \E m \in Projects, kind \in Kinds :
                     StartBuild(p, m, kind) \/ StartStandalone(p, m, kind)
        BY <4>1 DEF StartBuild, StartStandalone, Starts
      <4>2. CASE \E kind \in Kinds : StartWorkspace(p, kind)
        <5>1. PICK kind \in Kinds : StartWorkspace(p, kind)
          BY <4>2
        <5> DEFINE a == [Idle EXCEPT !.cmd = "workspace", !.kind = kind, !.phase = "refresh",
                                     !.cat = manifest.members, !.at = "catalog"]
                   b == Finished([Idle EXCEPT !.cmd = "cleanup"], FALSE)
                   c == [Idle EXCEPT !.cmd = "cleanup", !.phase = "read", !.at = "catalog",
                                     !.since = ids]
        <5>2. Becomes(p, IF manifest.ok THEN a ELSE IF catalog = {} THEN b ELSE c)
          BY <5>1 DEF StartWorkspace, Starts
        <5>3. a.at = "catalog" /\ b.at = "done" /\ c.at = "catalog"
          BY DEF Idle, Finished
        <5> HIDE DEF a, b, c
        <5> QED
          BY <5>2, <5>3
      <4>3. CASE \E m \in Projects : StartClean(p, m)
        <5>1. PICK m \in Projects : StartClean(p, m)
          BY <4>3
        <5> DEFINE a == [Idle EXCEPT !.cmd = "clean", !.m = m, !.at = "clean", !.pieces = Pieces]
        <5>2. Becomes(p, a) /\ a.at = "clean"
          BY <5>1 DEF StartClean, Starts, Idle
        <5> HIDE DEF a
        <5> QED
          BY <5>2
      <4> QED
        BY <1>5, <4>1, <4>2, <4>3 DEF Command
    <3>2. ASSUME NEW m \in Projects, NEW kind \in Kinds, NEW cmd \in {"build", "standalone"},
                 t = Onward([Idle EXCEPT !.cmd = cmd, !.kind = kind, !.phase = "clear",
                                         !.todo = {m}, !.next = {m}])
          PROVE  t.at \in {"open", "context", "done"}
      <4> DEFINE i == [Idle EXCEPT !.cmd = cmd, !.kind = kind, !.phase = "clear",
                                   !.todo = {m}, !.next = {m}]
      <4>1. i \in Records
        BY KindsAssumption DEF Records, Idle
      <4>2. i.phase = "clear" /\ t = Onward(i)
        BY <3>2 DEF Idle
      <4> HIDE DEF i
      <4> QED
        BY <1>1, <4>1, <4>2, OnwardGoes
    <3>3. proc'[p] = t
      BY <1>1, <3>1 DEF Becomes, Types
    <3> QED
      BY <3>1, <3>2, <3>3
  <2> QED
    BY <2>1 DEF Deep, Building
<1>6. CASE Refresh(p)
  <2> DEFINE i == [r EXCEPT !.phase = "clear", !.todo = r.cat, !.next = r.cat]
  <2>1. Becomes(p, Onward(i))
    BY <1>6 DEF Refresh
  <2>2. i \in Records /\ i.phase = "clear"
    BY <1>1 DEF Records
  <2> HIDE DEF i
  <2> QED
    BY <1>3, <2>1, <2>2
<1>7. CASE ReadCatalog(p)
  <2> DEFINE i == [r EXCEPT !.phase = "cleanup", !.todo = catalog, !.cat = catalog]
  <2>1. Becomes(p, Onward(i)) /\ catalog \in SUBSET Projects
    BY <1>1, <1>7 DEF ReadCatalog, Types
  <2>2. i \in Records /\ i.phase = "cleanup"
    BY <1>1, <2>1 DEF Records
  <2> HIDE DEF i
  <2> QED
    BY <1>3, <2>1, <2>2
<1>8. CASE Recheck(p)
  <2> DEFINE e == evid[r.m]
  <2>1. Becomes(p, Judged(r, e)) /\ r.phase = "cleanup"
    BY <1>8 DEF Recheck
  <2>2. CASE Judged(r, e) = [r EXCEPT !.at = "rmProv"]
    <3>1. [r EXCEPT !.at = "rmProv"].at \notin Deep
      BY <1>1 DEF Records, Deep, Building
    <3> QED
      BY <1>4, <2>1, <2>2, <3>1
  <2>3. CASE Judged(r, e) = Finished(r, FALSE)
    <3>1. Finished(r, FALSE).at \notin Deep
      BY <1>1, FinishedRecord DEF Deep, Building
    <3> QED
      BY <1>4, <2>1, <2>3, <3>1
  <2>4. ASSUME NEW t \in BOOLEAN, Judged(r, e) = Onward([r EXCEPT !.ok = t])
        PROVE  proc'[p].at \notin Deep
    <3> DEFINE i == [r EXCEPT !.ok = t]
    <3>1. i \in Records /\ i.phase = "cleanup"
      BY <1>1, <2>1 DEF Records
    <3>2. Becomes(p, Onward(i))
      BY <2>1, <2>4
    <3> HIDE DEF i
    <3> QED
      BY <1>3, <3>1, <3>2
  <2> HIDE DEF e
  <2> QED
    BY <1>1, <2>1, <2>2, <2>3, <2>4, JudgedGoes
<1>9. CASE Commit(p)
  <2>1. Becomes(p, Onward(r)) /\ r.phase = "build"
    BY <1>1, <1>9 DEF Commit, At, Shape, Building
  <2> QED
    BY <1>1, <1>3, <2>1
<1>10. CASE LockCatalog(p) \/ Own(p) \/ Context(p) \/ Open(p) \/ Lock(p) \/ Done(p) \/ Crash(p)
  <2>1. \E t : Becomes(p, t) /\ t.at \in {"cataloging", "open", "done", "catalog", "lock",
                                          "rmProv", "idle"}
    <3>1. CASE LockCatalog(p)
      <4>1. [r EXCEPT !.at = "cataloging"].at = "cataloging"
        BY <1>1 DEF Records
      <4> QED
        BY <3>1, <4>1 DEF LockCatalog, Goes
    <3>2. CASE Own(p)
      <4> DEFINE member == r.m \in r.cat
                 t == [r EXCEPT !.at = "open", !.owner = member]
      <4>1. Becomes(p, t)
        BY <3>2 DEF Own
      <4> HIDE DEF member
      <4>2. t.at = "open"
        BY <1>1 DEF Records
      <4> QED
        BY <4>1, <4>2
    <3>3. CASE Context(p)
      <4>1. /\ [r EXCEPT !.at = "catalog", !.cat = manifest.members].at = "catalog"
            /\ [r EXCEPT !.at = "open", !.owner = FALSE].at = "open"
            /\ Finished(r, FALSE).at = "done"
        BY <1>1, FinishedRecord DEF Records
      <4>2. \/ Becomes(p, [r EXCEPT !.at = "catalog", !.cat = manifest.members])
            \/ Becomes(p, [r EXCEPT !.at = "open", !.owner = FALSE])
            \/ Becomes(p, Finished(r, FALSE))
        BY <3>3 DEF Context
      <4> QED
        BY <4>1, <4>2
    <3>4. CASE Open(p)
      <4> DEFINE f == lockfile'[r.m]
                 t == [r EXCEPT !.at = "lock", !.file = f]
      <4>1. Becomes(p, t)
        BY <3>4 DEF Open
      <4> HIDE DEF f
      <4>2. t.at = "lock"
        BY <1>1 DEF Records
      <4> QED
        BY <4>1, <4>2
    <3>5. CASE Lock(p)
      <4> DEFINE step == AfterLock(r)
                 t == [r EXCEPT !.at = step, !.locked = TRUE, !.failed = FALSE, !.id = 0]
      <4>1. Becomes(p, t) /\ step \in {"catalog", "rmProv"}
        BY <3>5 DEF Lock, AfterLock
      <4> HIDE DEF step
      <4>2. t.at = step
        BY <1>1 DEF Records
      <4> QED
        BY <4>1, <4>2
    <3>6. CASE Done(p) \/ Crash(p)
      BY <3>6 DEF Done, Crash, Idle
    <3> QED
      BY <1>10, <3>1, <3>2, <3>3, <3>4, <3>5, <3>6
  <2> QED
    BY <1>4, <2>1 DEF Deep, Building
<1> QED
  BY <1>5, <1>6, <1>7, <1>8, <1>9, <1>10

\* Of another process nothing that it holds changes.
LEMMA OthersKept ==
    ASSUME LocksInv, NEW p \in Procs, Command(p) \/ Step(p) \/ Crash(p),
           NEW q \in Procs, q # p, proc[q].locked
    PROVE  /\ proc'[q] = proc[q] /\ proc[q].m \in Projects
           /\ evid'[proc[q].m] = evid[proc[q].m] /\ art'[proc[q].m] = art[proc[q].m]
<1>1. proc'[q] = proc[q] /\ Shape(proc[p]) /\ Shape(proc[q])
  BY EveryStep DEF LocksInv, Shapes, Stepped
<1>2. proc[q].m \in Projects
  BY <1>1 DEF Shape
<1>3. ~At(p, "clean")
  <2>1. ASSUME At(p, "clean") PROVE FALSE
    <3>1. At(q, "idle")
      BY <1>1, <2>1 DEF Shape, At, LocksInv, CleansAlone
    <3> QED
      BY <1>1, <3>1 DEF Shape, At, Idle
  <2> QED
    BY <2>1
<1>4. ~(proc[p].locked /\ proc[p].m = proc[q].m)
  BY DEF LocksInv, OneBuilder
<1> QED
  BY <1>1, <1>2, <1>3, <1>4, FilesStep DEF FileEffect

\* What a step of p must keep of the evidence: its own target is as its step says,
\* and a sidecar has all that it binds.
EvidenceKept(p) ==
    LET s == proc'[p]
    IN  /\ s.locked => Stage(s, evid'[s.m], art'[s.m])
        /\ \A m \in Projects \ cleaned' : evid'[m].prov # 0 => Accepts(m)'

LEMMA ShallowKept ==
    ASSUME EvidenceInv, NEW p \in Procs,
           \/ Command(p) \/ LockCatalog(p) \/ Refresh(p) \/ Own(p) \/ ReadCatalog(p) \/ Recheck(p)
           \/ Context(p) \/ Open(p) \/ Lock(p) \/ Commit(p) \/ Done(p) \/ Crash(p)
    PROVE  EvidenceKept(p)
<1>1. UNCHANGED <<evid, art, cleaned>> /\ proc'[p].at \notin Deep
  BY ShallowStep DEF EvidenceInv
<1>2. \A e, a : Stage(proc'[p], e, a)
  BY <1>1 DEF Stage, Deep, Building
<1>3. \A m \in Projects \ cleaned' : evid'[m].prov # 0 => Accepts(m)'
  BY <1>1 DEF EvidenceInv, Committed, Accepts
<1> QED
  BY <1>2, <1>3 DEF EvidenceKept

\* What is the same before each step inside a transaction.
LEMMA Inside ==
    ASSUME EvidenceInv, NEW p \in Procs, proc[p].at \in Removing \cup Building
    PROVE  LET r == proc[p]
           IN  /\ r \in Records /\ r.locked /\ r.m \in Projects /\ Shape(r)
               /\ evid[r.m] \in Evidence /\ art[r.m] \in Artifacts
               /\ evid \in [Projects -> Evidence] /\ art \in [Projects -> Artifacts]
               /\ Stage(r, evid[r.m], art[r.m])
               /\ ids \in Nat /\ r.id \in Nat
               /\ \A s : Becomes(p, s) => proc'[p] = s
<1>1. /\ proc[p] \in Records /\ Shape(proc[p]) /\ ids \in Nat
      /\ evid \in [Projects -> Evidence] /\ art \in [Projects -> Artifacts]
      /\ proc \in [Procs -> Records]
  BY DEF EvidenceInv, LocksInv, Types, Shapes
<1>2. proc[p].locked /\ proc[p].m \in Projects
  BY <1>1 DEF Shape
<1>3. Stage(proc[p], evid[proc[p].m], art[proc[p].m])
  BY <1>2 DEF EvidenceInv, Stages
<1>4. proc[p].id \in Nat
  BY <1>1 DEF Records
<1>5. \A s : Becomes(p, s) => proc'[p] = s
  BY <1>1 DEF Becomes
<1> QED
  BY <1>1, <1>2, <1>3, <1>4, <1>5

\* The targets that a step does not touch keep what is said of them.
LEMMA RestCommitted ==
    ASSUME Committed, NEW m, cleaned \ {m} \subseteq cleaned',
           \A n \in Projects : n # m => evid'[n] = evid[n] /\ art'[n] = art[n],
           \A n \in Projects \ cleaned' : n = m => (evid'[n].prov # 0 => Accepts(n)')
    PROVE  \A n \in Projects \ cleaned' : evid'[n].prov # 0 => Accepts(n)'
BY DEF Committed, Accepts

LEMMA RemoveKept ==
    ASSUME EvidenceInv, RemovesAll, NEW p \in Procs, Remove(p)
    PROVE  EvidenceKept(p)
<1> DEFINE r == proc[p]
           m == r.m
<1>1. PICK i \in {1, 2, 3} :
          LET w == Removals[i]
          IN  /\ r.at = w.at /\ evid' = SetFile(evid, m, w.file, 0) /\ Goes(p, w.then)
              /\ art' = art /\ cleaned' = cleaned
  <2>1. DOMAIN Removals = {1, 2, 3}
    BY DEF Removals
  <2> QED
    BY <2>1 DEF Remove, RemovesAll, At, SetFile, workspace
<1> DEFINE w == Removals[i]
           e == evid[m]
           s == [r EXCEPT !.at = w.then]
<1>2. /\ <<w.at, w.file, w.then>> \in {<<"rmProv", "prov", "rmReceipt">>,
                                       <<"rmReceipt", "receipt", "rmMeta">>,
                                       <<"rmMeta", "meta", "cleared">>}
  BY <1>1 DEF Removals
<1>3. r.at = w.at /\ evid' = SetFile(evid, m, w.file, 0) /\ proc'[p] = s
  BY <1>1, <1>2, Inside DEF Goes, Removing
<1>4. /\ r \in Records /\ m \in Projects /\ e \in Evidence /\ evid \in [Projects -> Evidence]
      /\ Stage(r, e, art[m])
  BY <1>2, <1>3, Inside DEF Removing
<1>5. s.at = w.then /\ s.m = m
  BY <1>4 DEF Records
<1>6. /\ evid' \in [Projects -> Evidence]
      /\ \A n \in Projects : n # m => evid'[n] = evid[n]
      /\ evid'[m].meta = IF w.file = "meta" THEN 0 ELSE e.meta
      /\ evid'[m].receipt = IF w.file = "receipt" THEN 0 ELSE e.receipt
      /\ evid'[m].prov = IF w.file = "prov" THEN 0 ELSE e.prov
  BY <1>2, <1>3, <1>4, EvidSet
<1> HIDE DEF w, s
<1>7. evid'[m].prov = 0
  BY <1>2, <1>3, <1>4, <1>6 DEF Stage
<1>8. Stage(s, evid'[m], art'[m])
  <2>1. w.then \in {"rmReceipt", "rmMeta", "cleared"}
    BY <1>2
  <2>2. w.then = "rmMeta" => evid'[m].receipt = 0
    BY <1>2, <1>6
  <2>3. w.then = "cleared" => evid'[m].meta = 0 /\ evid'[m].receipt = 0
    BY <1>2, <1>3, <1>4, <1>6 DEF Stage
  <2>4. w.then = "cleared" => evid'[m] = None
    BY <1>4, <1>6, <1>7, <2>3 DEF Evidence, None
  <2> QED
    BY <1>5, <1>7, <2>1, <2>2, <2>4 DEF Stage
<1>9. \A n \in Projects \ cleaned' : evid'[n].prov # 0 => Accepts(n)'
  BY <1>1, <1>6, <1>7, RestCommitted DEF EvidenceInv
<1> QED
  BY <1>3, <1>5, <1>8, <1>9 DEF EvidenceKept

LEMMA ClearedKept ==
    ASSUME EvidenceInv, NEW p \in Procs, Cleared(p)
    PROVE  EvidenceKept(p)
<1> DEFINE r == proc[p]
           m == r.m
<1>1. r.at = "cleared" /\ UNCHANGED <<evid, art>> /\ cleaned \ {m} \subseteq cleaned'
  BY DEF Cleared, At, files
<1>2. /\ r \in Records /\ m \in Projects /\ Shape(r) /\ evid[m] = None
      /\ \A s : Becomes(p, s) => proc'[p] = s
  BY <1>1, Inside DEF Removing, Stage
<1>3. evid'[m] = None /\ evid'[m].prov = 0
  BY <1>1, <1>2 DEF None
<1>4. proc'[p].locked => proc'[p].m = m /\ proc'[p].at \in {"rmProv", "write"}
  <2>1. \/ proc'[p] = Finished(r, FALSE)
        \/ proc'[p] = [r EXCEPT !.at = "rmProv", !.phase = "abort"]
        \/ proc'[p] = [r EXCEPT !.at = "write"]
        \/ proc'[p] = Onward(r) /\ r.phase \in {"clear", "cleanup"}
    BY <1>1, <1>2 DEF Cleared, Shape, Removing
  <2>2. ~Finished(r, FALSE).locked
    BY <1>2, FinishedRecord
  <2>3. /\ [r EXCEPT !.at = "rmProv", !.phase = "abort"].m = m
        /\ [r EXCEPT !.at = "rmProv", !.phase = "abort"].at = "rmProv"
        /\ [r EXCEPT !.at = "write"].m = m /\ [r EXCEPT !.at = "write"].at = "write"
    BY <1>2 DEF Records
  <2>4. r.phase \in {"clear", "cleanup"} => ~Onward(r).locked
    BY <1>2, OnwardGoes DEF EvidenceInv, LocksInv
  <2> QED
    BY <2>1, <2>2, <2>3, <2>4
<1>5. proc'[p].locked => Stage(proc'[p], evid'[m], art'[m])
  BY <1>3, <1>4 DEF Stage
<1>6. \A n \in Projects \ cleaned' : evid'[n].prov # 0 => Accepts(n)'
  BY <1>1, <1>3, RestCommitted DEF EvidenceInv
<1> QED
  BY <1>4, <1>5, <1>6 DEF EvidenceKept

\* A transaction that fails says nothing of the files until it has cleared them.
LEMMA AbortsRecord ==
    ASSUME NEW r \in Records
    PROVE  Aborts(r).at = "rmProv" /\ Aborts(r).m = r.m /\ \A e, a : Stage(Aborts(r), e, a)
<1>1. Aborts(r).at = "rmProv" /\ Aborts(r).m = r.m
  BY DEF Aborts, Records
<1> QED
  BY <1>1 DEF Stage

LEMMA WriteKept ==
    ASSUME EvidenceInv, NEW p \in Procs, WriteC(p)
    PROVE  EvidenceKept(p)
<1> DEFINE r == proc[p]
           m == r.m
           id == ids + 1
           t == [r EXCEPT !.id = id]
           step == IF r.kind = "emit" THEN "meta" ELSE "link"
<1>1. /\ r.at = "write" /\ cleaned' = cleaned /\ evid' = evid
      /\ art' = SetFile(art, m, "c", id)
  BY DEF WriteC, At, workspace, SetFile
<1>2. /\ r \in Records /\ m \in Projects /\ ids \in Nat /\ evid[m] = None
      /\ art \in [Projects -> Artifacts]
      /\ \A s : Becomes(p, s) => proc'[p] = s
  BY <1>1, Inside DEF Building, Stage
<1>3. t \in Records /\ t.kind = r.kind /\ t.id = id /\ t.m = m
  BY <1>2 DEF Records
<1>4. proc'[p] = [t EXCEPT !.at = step] \/ proc'[p] = Aborts(t)
  BY <1>2, <1>3 DEF WriteC
<1> HIDE DEF id, t, step
<1>5. /\ \A n \in Projects : n # m => art'[n] = art[n]
      /\ art'[m].c = id
  BY <1>1, <1>2, ArtSet DEF id
<1>6. evid'[m] = None /\ evid'[m].prov = 0
  BY <1>1, <1>2 DEF None
<1>7. proc'[p].m = m /\ Stage(proc'[p], evid'[m], art'[m])
  <2>1. CASE proc'[p] = [t EXCEPT !.at = step]
    <3>1. /\ [t EXCEPT !.at = step].at = step /\ [t EXCEPT !.at = step].m = m
          /\ [t EXCEPT !.at = step].kind = r.kind /\ [t EXCEPT !.at = step].id = id
      BY <1>3 DEF Records
    <3>2. step = "link" \/ (step = "meta" /\ r.kind = "emit")
      BY DEF step
    <3> QED
      BY <2>1, <3>1, <3>2, <1>5, <1>6 DEF Stage
  <2>2. CASE proc'[p] = Aborts(t)
    BY <2>2, <1>3, AbortsRecord
  <2> QED
    BY <1>4, <2>1, <2>2
<1>8. \A n \in Projects \ cleaned' : evid'[n].prov # 0 => Accepts(n)'
  <2>1. \A n \in Projects : n # m => evid'[n] = evid[n] /\ art'[n] = art[n]
    BY <1>1, <1>5
  <2> QED
    BY <1>1, <1>6, <2>1, RestCommitted DEF EvidenceInv
<1> QED
  BY <1>7, <1>8 DEF EvidenceKept

LEMMA LinkKept ==
    ASSUME EvidenceInv, NEW p \in Procs, Link(p)
    PROVE  EvidenceKept(p)
<1> DEFINE r == proc[p]
           m == r.m
<1>1. r.at = "link" /\ cleaned' = cleaned /\ evid' = evid
  BY DEF Link, At, workspace
<1>2. /\ r \in Records /\ m \in Projects /\ r.id \in Nat /\ evid[m] = None /\ art[m].c = r.id
      /\ art \in [Projects -> Artifacts]
      /\ \A s : Becomes(p, s) => proc'[p] = s
  BY <1>1, Inside DEF Building, Stage
<1>3. evid'[m] = None /\ evid'[m].prov = 0
  BY <1>1, <1>2 DEF None
<1>4. \/ art' = SetFile(art, m, "bin", r.id) /\ proc'[p] = [r EXCEPT !.at = "meta"]
      \/ art' \in {art, SetFile(art, m, "bin", 0)} /\ proc'[p] = Aborts(r)
  BY <1>2 DEF Link, Goes, SetFile
<1>5. \A n \in Projects : n # m => evid'[n] = evid[n] /\ art'[n] = art[n]
  <2>1. \A n \in Projects : n # m => /\ SetFile(art, m, "bin", r.id)[n] = art[n]
                                     /\ SetFile(art, m, "bin", 0)[n] = art[n]
    BY <1>2, ArtSet
  <2>2. art' \in {art, SetFile(art, m, "bin", r.id), SetFile(art, m, "bin", 0)}
    BY <1>4
  <2> QED
    BY <1>1, <2>1, <2>2
<1>6. proc'[p].m = m /\ Stage(proc'[p], evid'[m], art'[m])
  <2>1. CASE art' = SetFile(art, m, "bin", r.id) /\ proc'[p] = [r EXCEPT !.at = "meta"]
    <3>1. art'[m].c = r.id /\ art'[m].bin = r.id
      BY <1>2, <2>1, ArtSet
    <3>2. /\ [r EXCEPT !.at = "meta"].at = "meta" /\ [r EXCEPT !.at = "meta"].m = m
          /\ [r EXCEPT !.at = "meta"].id = r.id
      BY <1>2 DEF Records
    <3> QED
      BY <1>3, <2>1, <3>1, <3>2 DEF Stage
  <2>2. CASE proc'[p] = Aborts(r)
    BY <2>2, <1>2, AbortsRecord
  <2> QED
    BY <1>4, <2>1, <2>2
<1>7. \A n \in Projects \ cleaned' : evid'[n].prov # 0 => Accepts(n)'
  BY <1>1, <1>3, <1>5, RestCommitted DEF EvidenceInv
<1> QED
  BY <1>6, <1>7 DEF EvidenceKept

LEMMA PublishKept ==
    ASSUME EvidenceInv, NEW p \in Procs, Publish(p)
    PROVE  EvidenceKept(p)
<1> DEFINE r == proc[p]
           m == r.m
           e == evid[m]
<1>1. PICK w \in Publications(r) :
          /\ r.at = w.at /\ cleaned' = cleaned /\ art' = art
          /\ \/ evid' = SetFile(evid, m, w.file, r.id) /\ Goes(p, w.then)
             \/ evid' \in {evid, SetFile(evid, m, w.file, r.id)} /\ Becomes(p, Aborts(r))
  BY DEF Publish, At, workspace, SetFile
<1> DEFINE step == w.then
<1>2. \/ /\ w.at = "meta" /\ w.file = "meta"
         /\ step = IF r.kind # "release" THEN "commit" ELSE IF r.owner THEN "receipt" ELSE "prov"
      \/ w.at = "receipt" /\ w.file = "receipt" /\ step = "prov"
      \/ w.at = "prov" /\ w.file = "prov" /\ step = "commit"
  BY DEF Publications
<1> HIDE DEF step
<1>3. r.at \in {"meta", "receipt", "prov"} /\ w.file = r.at /\ w.at = r.at
  BY <1>1, <1>2
<1>4. /\ r \in Records /\ m \in Projects /\ Shape(r) /\ r.id \in Nat /\ art' = art
      /\ evid \in [Projects -> Evidence] /\ e \in Evidence /\ Stage(r, e, art[m])
      /\ \A s : Becomes(p, s) => proc'[p] = s
  BY <1>1, <1>3, Inside DEF Building
\* The sidecar is the last of the files.
<1>5. /\ art[m].c = r.id /\ (r.kind # "emit" => art[m].bin = r.id)
      /\ r.at \in {"receipt", "prov"} => e.meta = r.id /\ r.kind = "release"
      /\ r.at = "receipt" => r.owner
      /\ r.at = "prov" => e.receipt = IF r.owner THEN r.id ELSE 0
      /\ e.prov = 0
  BY <1>3, <1>4 DEF Stage, Shape, None
<1>6. LET g == SetFile(evid, m, w.file, r.id)
      IN  /\ \A n \in Projects : n # m => g[n] = evid[n]
          /\ g[m].meta = IF r.at = "meta" THEN r.id ELSE e.meta
          /\ g[m].receipt = IF r.at = "receipt" THEN r.id ELSE e.receipt
          /\ g[m].prov = IF r.at = "prov" THEN r.id ELSE 0
  BY <1>3, <1>4, <1>5, EvidSet
<1> DEFINE t == [r EXCEPT !.at = step]
<1>7. \/ evid' = SetFile(evid, m, w.file, r.id) /\ proc'[p] = t
      \/ evid' \in {evid, SetFile(evid, m, w.file, r.id)} /\ proc'[p] = Aborts(r)
  BY <1>1, <1>4 DEF Goes, step
<1>8. t.at = step /\ t.m = m /\ t.kind = r.kind /\ t.id = r.id /\ t.owner = r.owner
  BY <1>4 DEF Records
<1> HIDE DEF t
<1>9. proc'[p].m = m /\ Stage(proc'[p], evid'[m], art'[m])
  <2>1. CASE evid' = SetFile(evid, m, w.file, r.id) /\ proc'[p] = t
    <3>1. CASE r.at = "meta"
      <4>1. e.receipt = 0
        BY <1>4, <3>1 DEF Stage, None
      <4>2. /\ evid'[m].meta = r.id /\ evid'[m].receipt = 0 /\ evid'[m].prov = 0
        BY <1>6, <2>1, <3>1, <4>1
      <4>3. \/ step = "commit" /\ r.kind # "release"
            \/ step = "receipt" /\ r.kind = "release" /\ r.owner
            \/ step = "prov" /\ r.kind = "release" /\ ~r.owner
        BY <1>2, <1>3, <3>1
      <4> QED
        BY <1>4, <1>5, <1>8, <2>1, <4>2, <4>3 DEF Stage
    <3>2. CASE r.at = "receipt"
      <4>1. evid'[m].meta = r.id /\ evid'[m].receipt = r.id /\ evid'[m].prov = 0
        BY <1>5, <1>6, <2>1, <3>2
      <4>2. step = "prov"
        BY <1>2, <1>3, <3>2
      <4> QED
        BY <1>4, <1>5, <1>8, <2>1, <3>2, <4>1, <4>2 DEF Stage
    <3>3. CASE r.at = "prov"
      <4>1. /\ evid'[m].meta = r.id /\ evid'[m].prov = r.id
            /\ evid'[m].receipt = IF r.owner THEN r.id ELSE 0
        BY <1>5, <1>6, <2>1, <3>3
      <4>2. step = "commit" /\ r.kind = "release"
        BY <1>2, <1>3, <1>5, <3>3
      <4> QED
        BY <1>4, <1>5, <1>8, <2>1, <4>1, <4>2 DEF Stage
    <3> QED
      BY <1>3, <3>1, <3>2, <3>3
  <2>2. CASE proc'[p] = Aborts(r)
    BY <1>4, <2>2, AbortsRecord
  <2> QED
    BY <1>7, <2>1, <2>2
<1>10. \A n \in Projects : n # m => evid'[n] = evid[n] /\ art'[n] = art[n]
  BY <1>4, <1>6, <1>7
<1>11. ASSUME NEW n \in Projects, n = m, evid'[n].prov # 0
       PROVE  Accepts(n)'
  <2>1. CASE evid' = evid
    BY <1>5, <1>11, <2>1
  <2>2. CASE evid' = SetFile(evid, m, w.file, r.id) /\ r.at # "prov"
    BY <1>6, <1>11, <2>2
  <2>3. CASE evid' = SetFile(evid, m, w.file, r.id) /\ r.at = "prov"
    <3>1. /\ evid'[n].meta = r.id /\ evid'[n].prov = r.id
          /\ evid'[n].receipt = IF r.owner THEN r.id ELSE 0
      BY <1>5, <1>6, <1>11, <2>3
    <3>2. art'[n].c = r.id /\ art'[n].bin = r.id
      BY <1>4, <1>5, <1>11, <2>3
    <3> QED
      BY <3>1, <3>2 DEF Accepts
  <2> QED
    BY <1>7, <2>1, <2>2, <2>3
<1>12. \A n \in Projects \ cleaned' : evid'[n].prov # 0 => Accepts(n)'
  BY <1>1, <1>10, <1>11, RestCommitted DEF EvidenceInv
<1> QED
  BY <1>9, <1>12 DEF EvidenceKept

LEMMA CleanKept ==
    ASSUME EvidenceInv, NEW p \in Procs, NEW piece \in Pieces, CleanPiece(p, piece)
    PROVE  EvidenceKept(p)
<1> DEFINE r == proc[p]
           m == r.m
<1>1. /\ r \in Records /\ Shape(r) /\ r.at = "clean" /\ m \in Projects
      /\ evid \in [Projects -> Evidence] /\ art \in [Projects -> Artifacts]
      /\ \A s : Becomes(p, s) => proc'[p] = s
  BY DEF EvidenceInv, LocksInv, Types, Shapes, Shape, CleanPiece, At, Becomes
<1>2. ~r.locked
  BY <1>1 DEF Shape, Removing, Building, Cataloging
<1>3. ~proc'[p].locked
  <2> DEFINE left == r.pieces \ {piece}
  <2>1. proc'[p] = Finished(r, TRUE) \/ proc'[p] = [r EXCEPT !.pieces = left]
    BY <1>1 DEF CleanPiece
  <2>2. [r EXCEPT !.pieces = left].locked = r.locked
    BY <1>1 DEF Records
  <2> QED
    BY <1>1, <1>2, <2>1, <2>2, FinishedRecord
<1>4. \A n \in Projects : n # m => evid'[n] = evid[n] /\ art'[n] = art[n]
  BY <1>1 DEF CleanPiece
<1>5. cleaned' = cleaned \cup {m}
  BY DEF CleanPiece
<1>6. \A n \in Projects \ cleaned' : evid'[n].prov # 0 => Accepts(n)'
  BY <1>4, <1>5, RestCommitted DEF EvidenceInv
<1> QED
  BY <1>3, <1>6 DEF EvidenceKept

\* The evidence stays whole or absent in every step.
LEMMA EvidenceStep ==
    ASSUME EvidenceInv, RemovesAll, CleanAlone, NEW p \in Procs,
           Command(p) \/ Step(p) \/ Crash(p)
    PROVE  EvidenceInv'
<1>1. LocksInv /\ LocksInv' /\ Stepped(p) /\ RecordEffect(p)
  BY LocksStep, EveryStep, RecordStep DEF EvidenceInv
<1>2. EvidenceKept(p)
  BY ShallowKept, RemoveKept, ClearedKept, WriteKept, LinkKept, PublishKept, CleanKept DEF Step
<1>3. Stages'
  <2>1. ASSUME NEW q \in Procs, proc'[q].locked
        PROVE  Stage(proc'[q], evid'[proc'[q].m], art'[proc'[q].m])
    <3>1. CASE q = p
      BY <1>2, <2>1, <3>1 DEF EvidenceKept
    <3>2. CASE q # p
      <4>1. proc'[q] = proc[q]
        BY <1>1, <3>2 DEF Stepped
      <4> QED
        BY <1>1, <2>1, <3>2, <4>1, OthersKept DEF EvidenceInv, Stages
    <3> QED
      BY <3>1, <3>2
  <2> QED
    BY <2>1 DEF Stages
<1>4. NoFailure'
  BY <1>1 DEF EvidenceInv, NoFailure, Stepped, RecordEffect, Carries, RemovesAll
<1>5. Committed'
  BY <1>2 DEF EvidenceKept, Committed
<1> QED
  BY <1>1, <1>3, <1>4, <1>5 DEF EvidenceInv

LEMMA EvidenceInit == Init => EvidenceInv
<1> SUFFICES ASSUME Init PROVE EvidenceInv
  OBVIOUS
<1>1. LocksInv
  BY LocksInit
<1>2. \A p \in Procs : proc[p] = Idle
  BY DEF Init
<1>3. Stages /\ NoFailure
  BY <1>2 DEF Stages, NoFailure, Idle
<1>4. Committed
  BY DEF Init, Committed
<1> QED
  BY <1>1, <1>3, <1>4 DEF EvidenceInv

LEMMA EvidenceNext ==
    ASSUME CleanAlone, RemovesAll, EvidenceInv, [Next]_vars
    PROVE  EvidenceInv'
<1>1. CASE EditManifest
  <2>1. LocksInv'
    BY <1>1, LocksEdit DEF EvidenceInv
  <2>2. UNCHANGED <<evid, art, proc, cleaned>>
    BY <1>1 DEF EditManifest, files
  <2> QED
    BY <2>1, <2>2 DEF EvidenceInv, Stages, NoFailure, Committed, Accepts
<1>2. CASE UNCHANGED vars
  <2>1. LocksInv' = LocksInv
    BY <1>2 DEF vars, LocksInv, Types, Shapes, Numbered, CatalogHeld, CleansAlone, FileThere,
       OneBuilder, At, EvidBelow, ArtBelow
  <2>2. UNCHANGED <<evid, art, proc, cleaned>>
    BY <1>2 DEF vars
  <2> QED
    BY <2>1, <2>2 DEF EvidenceInv, Stages, NoFailure, Committed, Accepts
<1>3. CASE \E p \in Procs : Command(p) \/ Step(p) \/ Crash(p)
  BY <1>3, EvidenceStep
<1> QED
  BY <1>1, <1>2, <1>3 DEF Next

LEMMA EvidenceInvariant == CleanAlone /\ RemovesAll => (Spec => []EvidenceInv)
<1> SUFFICES ASSUME CleanAlone, RemovesAll PROVE Spec => []EvidenceInv
  OBVIOUS
<1>1. EvidenceInv /\ [Next]_vars => EvidenceInv'
  BY EvidenceNext
<1> QED
  BY <1>1, EvidenceInit, PTL DEF Spec

LEMMA EvidenceWholeOf == EvidenceInv => EvidenceWhole
<1> SUFFICES ASSUME EvidenceInv PROVE EvidenceWhole
  OBVIOUS
<1>1. Types /\ Numbered /\ Shapes /\ Stages /\ Committed
  BY DEF EvidenceInv, LocksInv
<1>2. TypeOK
  <2>1. \A m \in Projects :
            /\ evid[m] \in [meta : 0 .. ids, receipt : 0 .. ids, prov : 0 .. ids]
            /\ art[m] \in [c : 0 .. ids, bin : 0 .. ids]
            /\ lockfile[m] \in 0 .. inodes
    BY <1>1 DEF Types, Numbered, EvidBelow, ArtBelow, Evidence, Artifacts
  <2>2. \A p \in Procs : /\ proc[p].todo \subseteq Projects
                         /\ proc[p].id \in 0 .. ids
    BY <1>1 DEF Types, Numbered, Records
  <2>3. \A p \in Procs : proc[p].locked => proc[p].m \in Projects
    BY <1>1 DEF Shapes, Shape
  <2> QED
    BY <1>1, <2>1, <2>2, <2>3 DEF Types, TypeOK
<1>3. PublishedWhole
  <2>1. ASSUME NEW p \in Procs, proc[p].at = "commit"
        PROVE  proc[p].locked
    BY <1>1, <2>1 DEF Shapes, Shape, Building
  <2>2. ASSUME NEW p \in Procs, proc[p].at = "commit"
        PROVE  Stage(proc[p], evid[proc[p].m], art[proc[p].m])
    BY <1>1, <2>1, <2>2 DEF Stages
  <2> QED
    BY <2>2 DEF PublishedWhole, Stage, At
<1> QED
  BY <1>1, <1>2, <1>3 DEF EvidenceWhole

\* Evidence is whole or absent: nobody finds a sidecar without the metadata and the
\* binary that it binds, and a build that succeeds leaves all of its evidence,
\* however many commands run at once, whoever is killed, and wherever a
\* compilation or a publication fails, as long as the removals do not and
\* "nomo clean" runs alone.
THEOREM EvidenceWholeThroughout == CleanAlone /\ RemovesAll => (Spec => []EvidenceWhole)
BY EvidenceInvariant, EvidenceWholeOf, PTL

-----------------------------------------------------------------------------
(* What a step may make of the record of a command.                        *)

\* It starts, goes on to a build or ends, with nothing to clear.
Leaves(s) == ~s.locked /\ s.phase \notin {"cleanup", "abort"}

\* It stays with its target, and does not look at the evidence.
Stays(r, s) ==
    /\ s.locked = r.locked /\ s.phase = r.phase /\ s.m = r.m /\ s.cat = r.cat
    /\ s.todo = r.todo /\ s.ok = r.ok /\ s.since = r.since /\ s.id = r.id
    /\ r.at # "done" /\ s.at \notin {"done", "rmProv"}

\* It locks its target, to work on no build yet.
Locks(r, s) ==
    /\ s.locked /\ s.id = 0 /\ s.phase = r.phase /\ s.m = r.m /\ s.cat = r.cat
    /\ s.todo = r.todo /\ s.ok = r.ok /\ s.since = r.since
    /\ r.at # "done" /\ s.at # "done" /\ ~(s.at = "rmProv" /\ s.phase = "cleanup")

\* The cleanup finds the evidence of its target bound to the workspace.
Finds(r, s) ==
    /\ s.at = "rmProv" /\ r.at = "cataloging" /\ s.locked /\ r.locked
    /\ s.phase = "cleanup" /\ r.phase = "cleanup" /\ s.m = r.m /\ s.cat = r.cat
    /\ s.todo = r.todo /\ s.ok = r.ok /\ s.since = r.since /\ s.id = r.id
    /\ ~Unowned(evid[r.m]) /\ UNCHANGED evid

\* The cleanup gives up.
GivesUp(s) == ~s.locked /\ s.phase = "cleanup" /\ s.at = "done" /\ ~s.ok

\* The build, or what a failed one left, stays with its target.
Builds(r, s) ==
    /\ r.locked /\ r.phase \in {"build", "abort"} /\ s.phase \in {"build", "abort"}
    /\ s.locked /\ s.m = r.m /\ s.at # "done"
    /\ s.id = r.id \/ (s.id = ids + 1 /\ ids' = ids + 1)

\* The transaction that failed has cleared what it published.
Fails(r, s) ==
    /\ r.at = "cleared" /\ r.locked /\ r.phase = "abort"
    /\ s.phase = "abort" /\ ~s.locked /\ s.id = r.id /\ UNCHANGED evid

\* The cleanup goes on to the next target, with the record i.
Rounds(p, i) ==
    LET r == proc[p] IN
    /\ i \in Records /\ i.phase = "cleanup" /\ i.since = r.since
    /\ proc'[p] = Onward(i) /\ UNCHANGED evid
    /\ \/ i.todo = i.cat
       \/ /\ i.cat = r.cat /\ i.todo = r.todo
          /\ r.locked /\ r.phase = "cleanup"
          /\ i.ok => r.ok /\ evid[r.m].prov = 0

History(p) ==
    LET r == proc[p]
        s == proc'[p]
    IN  \/ Leaves(s) \/ Stays(r, s) \/ Locks(r, s) \/ Finds(r, s) \/ GivesUp(s)
        \/ Builds(r, s) \/ Fails(r, s) \/ \E i : Rounds(p, i)

\* What is the same before each step.
LEMMA Before ==
    ASSUME LocksInv, NEW p \in Procs
    PROVE  LET r == proc[p]
           IN  /\ Types /\ r \in Records /\ Shape(r) /\ ids \in Nat
               /\ \A s : Becomes(p, s) => proc'[p] = s
BY DEF LocksInv, Types, Shapes, Becomes

\* A command that goes on from a phase other than the cleanup.
LEMMA LeavesOn ==
    ASSUME Types, NEW i \in Records, i.phase \in {"clear", "build"}
    PROVE  Leaves(Onward(i))
<1>1. LET s == Onward(i) IN ~s.locked /\ s.phase \in {i.phase, "build"}
  BY OnwardGoes
<1> QED
  BY <1>1 DEF Leaves

LEMMA CommandHistory ==
    ASSUME LocksInv, NEW p \in Procs, Command(p)
    PROVE  History(p)
<1> SUFFICES Leaves(proc'[p])
  BY DEF History
<1>0. Types /\ \A s : Becomes(p, s) => proc'[p] = s
  BY Before
<1>1. CASE \E m \in Projects, kind \in Kinds :
               StartBuild(p, m, kind) \/ StartStandalone(p, m, kind)
  <2>1. PICK m \in Projects, kind \in Kinds, cmd \in {"build", "standalone"} :
            Becomes(p, Onward([Idle EXCEPT !.cmd = cmd, !.kind = kind, !.phase = "clear",
                                           !.todo = {m}, !.next = {m}]))
    BY <1>1 DEF StartBuild, StartStandalone, Starts
  <2> DEFINE i == [Idle EXCEPT !.cmd = cmd, !.kind = kind, !.phase = "clear",
                               !.todo = {m}, !.next = {m}]
  <2>2. i \in Records
    BY KindsAssumption DEF Records, Idle
  <2>3. i.phase = "clear" /\ Becomes(p, Onward(i))
    BY <2>1 DEF Idle
  <2> HIDE DEF i
  <2> QED
    BY <1>0, <2>2, <2>3, LeavesOn
<1>2. CASE \E kind \in Kinds : StartWorkspace(p, kind)
  <2>1. PICK kind \in Kinds : StartWorkspace(p, kind)
    BY <1>2
  <2> DEFINE a == [Idle EXCEPT !.cmd = "workspace", !.kind = kind, !.phase = "refresh",
                               !.cat = manifest.members, !.at = "catalog"]
             b == Finished([Idle EXCEPT !.cmd = "cleanup"], FALSE)
             c == [Idle EXCEPT !.cmd = "cleanup", !.phase = "read", !.at = "catalog",
                               !.since = ids]
  <2>2. Becomes(p, IF manifest.ok THEN a ELSE IF catalog = {} THEN b ELSE c)
    BY <2>1 DEF StartWorkspace, Starts
  <2>3. Leaves(a) /\ Leaves(b) /\ Leaves(c)
    BY DEF Idle, Finished, Leaves
  <2> HIDE DEF a, b, c
  <2> QED
    BY <1>0, <2>2, <2>3
<1>3. CASE \E m \in Projects : StartClean(p, m)
  <2>1. PICK m \in Projects : StartClean(p, m)
    BY <1>3
  <2> DEFINE a == [Idle EXCEPT !.cmd = "clean", !.m = m, !.at = "clean", !.pieces = Pieces]
  <2>2. Becomes(p, a) /\ Leaves(a)
    BY <2>1 DEF StartClean, Starts, Idle, Leaves
  <2> HIDE DEF a
  <2> QED
    BY <1>0, <2>2
<1> QED
  BY <1>1, <1>2, <1>3 DEF Command

LEMMA CatalogHistory ==
    ASSUME LocksInv, NEW p \in Procs,
           LockCatalog(p) \/ Refresh(p) \/ Own(p) \/ ReadCatalog(p) \/ Recheck(p)
    PROVE  History(p)
<1> DEFINE r == proc[p]
           s == proc'[p]
<1>0. /\ Types /\ r \in Records /\ Shape(r) /\ catalog \in SUBSET Projects
      /\ \A t : Becomes(p, t) => s = t
  BY Before DEF Types
<1>1. CASE LockCatalog(p)
  <2>1. s = [r EXCEPT !.at = "cataloging"] /\ r.at = "catalog"
    BY <1>0, <1>1 DEF LockCatalog, Goes, At
  <2>2. Stays(r, s)
    BY <1>0, <2>1 DEF Stays, Records
  <2> QED
    BY <2>2 DEF History
<1>2. CASE Refresh(p)
  <2> DEFINE i == [r EXCEPT !.phase = "clear", !.todo = r.cat, !.next = r.cat]
  <2>1. i \in Records /\ i.phase = "clear"
    BY <1>0 DEF Records
  <2>2. s = Onward(i)
    BY <1>0, <1>2 DEF Refresh
  <2> HIDE DEF i
  <2>3. Leaves(s)
    BY <1>0, <2>1, <2>2, LeavesOn
  <2> QED
    BY <2>3 DEF History
<1>3. CASE Own(p)
  <2> DEFINE member == r.m \in r.cat
             t == [r EXCEPT !.at = "open", !.owner = member]
  <2>1. s = t /\ r.at = "cataloging" /\ r.phase = "build"
    BY <1>0, <1>3 DEF Own, At
  <2> HIDE DEF member
  <2>2. t.locked = r.locked /\ t.phase = r.phase
    BY <1>0 DEF Records
  <2>3. ~r.locked
    BY <1>0, <2>1 DEF Shape, Cataloging, Removing, Building
  <2>4. Leaves(s)
    BY <2>1, <2>2, <2>3 DEF Leaves
  <2> QED
    BY <2>4 DEF History
<1>4. CASE ReadCatalog(p)
  <2> DEFINE i == [r EXCEPT !.phase = "cleanup", !.todo = catalog, !.cat = catalog]
  <2>1. i \in Records
    BY <1>0 DEF Records
  <2>2. i.phase = "cleanup" /\ i.todo = catalog /\ i.cat = catalog /\ i.since = r.since
    BY <1>0 DEF Records
  <2>3. s = Onward(i) /\ UNCHANGED evid
    BY <1>0, <1>4 DEF ReadCatalog, files
  <2> HIDE DEF i
  <2>4. Rounds(p, i)
    BY <2>1, <2>2, <2>3 DEF Rounds
  <2> QED
    BY <2>4 DEF History
<1>5. CASE Recheck(p)
  <2> DEFINE e == evid[r.m]
  <2>1. /\ s = Judged(r, e) /\ r.at = "cataloging" /\ r.phase = "cleanup" /\ UNCHANGED evid
    BY <1>0, <1>5 DEF Recheck, At, files
  <2>2. r.locked
    BY <1>0, <2>1 DEF Shape, Cataloging
  <2>3. ASSUME s = [r EXCEPT !.at = "rmProv"], ~Unowned(e)
        PROVE  Finds(r, s)
    <3>1. /\ s.at = "rmProv" /\ s.locked = r.locked /\ s.phase = r.phase /\ s.m = r.m
          /\ s.cat = r.cat /\ s.todo = r.todo /\ s.ok = r.ok /\ s.since = r.since
          /\ s.id = r.id
      BY <1>0, <2>3 DEF Records
    <3> QED
      BY <2>1, <2>2, <2>3, <3>1 DEF Finds
  <2>4. ASSUME s = Finished(r, FALSE) PROVE GivesUp(s)
    <3>1. LET t == Finished(r, FALSE)
          IN  ~t.locked /\ t.phase = r.phase /\ t.at = "done" /\ t.ok = (r.ok /\ FALSE)
      BY <1>0, FinishedRecord
    <3> QED
      BY <2>1, <2>4, <3>1 DEF GivesUp
  <2>5. ASSUME NEW t \in BOOLEAN, s = Onward([r EXCEPT !.ok = t]),
               t => r.ok /\ e.receipt = 0 /\ e.prov = 0
        PROVE  \E i : Rounds(p, i)
    <3> DEFINE i == [r EXCEPT !.ok = t]
    <3>1. i \in Records
      BY <1>0 DEF Records
    <3>2. i.phase = r.phase /\ i.since = r.since /\ i.cat = r.cat /\ i.todo = r.todo /\ i.ok = t
      BY <1>0 DEF Records
    <3>3. s = Onward(i)
      BY <2>5
    <3> HIDE DEF i
    <3>4. Rounds(p, i)
      BY <2>1, <2>2, <2>5, <3>1, <3>2, <3>3 DEF Rounds
    <3> QED
      BY <3>4
  <2> HIDE DEF e
  <2>6. \/ s = [r EXCEPT !.at = "rmProv"] /\ ~Unowned(e)
        \/ s = Finished(r, FALSE)
        \/ \E t \in BOOLEAN : /\ s = Onward([r EXCEPT !.ok = t])
                              /\ t => r.ok /\ e.receipt = 0 /\ e.prov = 0
    BY <1>0, <2>1, JudgedGoes
  <2> QED
    BY <2>3, <2>4, <2>5, <2>6 DEF History
<1> QED
  BY <1>1, <1>2, <1>3, <1>4, <1>5

LEMMA TargetHistory ==
    ASSUME EvidenceInv, NEW p \in Procs,
           Context(p) \/ Open(p) \/ Lock(p) \/ Remove(p) \/ Cleared(p)
    PROVE  History(p)
<1> DEFINE r == proc[p]
           s == proc'[p]
<1>0. /\ Types /\ r \in Records /\ Shape(r) /\ \A t : Becomes(p, t) => s = t
  BY Before DEF EvidenceInv
<1>1. CASE Context(p)
  <2> DEFINE a == [r EXCEPT !.at = "catalog", !.cat = manifest.members]
             b == [r EXCEPT !.at = "open", !.owner = FALSE]
  <2>1. r.phase = "build" /\ ~r.locked
    BY <1>0, <1>1 DEF Context, At, Shape, Cataloging, Removing, Building
  <2>2. s = Finished(r, FALSE) \/ s = a \/ s = b
    BY <1>0, <1>1 DEF Context
  <2>3. Leaves(a) /\ Leaves(b)
    BY <1>0, <2>1 DEF Records, Leaves
  <2>4. Leaves(Finished(r, FALSE))
    BY <1>0, <2>1, FinishedRecord DEF Leaves
  <2> HIDE DEF a, b
  <2>5. Leaves(s)
    BY <2>2, <2>3, <2>4
  <2> QED
    BY <2>5 DEF History
<1>2. CASE Open(p)
  <2> DEFINE f == lockfile'[r.m]
             t == [r EXCEPT !.at = "lock", !.file = f]
  <2>1. s = t /\ r.at = "open"
    BY <1>0, <1>2 DEF Open, At
  <2> HIDE DEF f
  <2>2. Stays(r, t)
    BY <1>0, <2>1 DEF Records, Stays
  <2> HIDE DEF t
  <2> QED
    BY <2>1, <2>2 DEF History
<1>3. CASE Lock(p)
  <2> DEFINE step == IF r.phase = "cleanup" THEN "catalog" ELSE "rmProv"
             t == [r EXCEPT !.at = step, !.locked = TRUE, !.failed = FALSE, !.id = 0]
  <2>1. s = t /\ r.at = "lock"
    BY <1>0, <1>3 DEF Lock, At, AfterLock
  <2>2. step \in {"catalog", "rmProv"} /\ (r.phase = "cleanup" => step = "catalog")
    OBVIOUS
  <2> HIDE DEF step
  <2>3. Locks(r, t)
    BY <1>0, <2>1, <2>2 DEF Records, Locks
  <2> HIDE DEF t
  <2> QED
    BY <2>1, <2>3 DEF History
<1>4. CASE Remove(p)
  <2>1. PICK w \in {"rmReceipt", "rmMeta", "cleared"} :
            /\ r.at # "done"
            /\ s = [r EXCEPT !.at = w] \/ s = [r EXCEPT !.at = w, !.failed = TRUE]
    <3>1. PICK i \in DOMAIN Removals :
              /\ r.at = Removals[i].at
              /\ \/ Becomes(p, [r EXCEPT !.at = Removals[i].then])
                 \/ Becomes(p, [r EXCEPT !.at = Removals[i].then, !.failed = TRUE])
      BY <1>4 DEF Remove, At, Goes
    <3> DEFINE w == Removals[i].then
    <3>2. w \in {"rmReceipt", "rmMeta", "cleared"} /\ r.at \in {"rmProv", "rmReceipt", "rmMeta"}
      BY <3>1 DEF Removals
    <3>3. s = [r EXCEPT !.at = w] \/ s = [r EXCEPT !.at = w, !.failed = TRUE]
      BY <1>0, <3>1
    <3> HIDE DEF w
    <3> QED
      BY <3>2, <3>3
  <2>2. Stays(r, [r EXCEPT !.at = w]) /\ Stays(r, [r EXCEPT !.at = w, !.failed = TRUE])
    BY <1>0, <2>1 DEF Records, Stays
  <2>3. Stays(r, s)
    BY <2>1, <2>2
  <2> QED
    BY <2>3 DEF History
<1>5. CASE Cleared(p)
  <2>1. r.at = "cleared" /\ UNCHANGED evid /\ ~r.failed
    BY <1>5 DEF Cleared, At, files, EvidenceInv, NoFailure
  <2>2. r.locked /\ evid[r.m].prov = 0
    BY <2>1, Inside DEF Removing, Stage, None
  <2>3. CASE r.phase = "abort"
    <3>1. s = Finished(r, FALSE)
      BY <1>0, <1>5, <2>3 DEF Cleared
    <3>2. Fails(r, Finished(r, FALSE))
      BY <1>0, <2>1, <2>2, <2>3, FinishedRecord DEF Fails
    <3> QED
      BY <3>1, <3>2 DEF History
  <2>4. CASE r.phase = "build"
    <3>1. s = [r EXCEPT !.at = "write"]
      BY <1>0, <1>5, <2>1, <2>4 DEF Cleared
    <3>2. Builds(r, [r EXCEPT !.at = "write"])
      BY <1>0, <2>2, <2>4 DEF Records, Builds
    <3> QED
      BY <3>1, <3>2 DEF History
  <2>5. CASE r.phase = "clear"
    <3>1. s = Onward(r)
      BY <1>0, <1>5, <2>1, <2>5 DEF Cleared
    <3>2. Leaves(s)
      BY <1>0, <2>5, <3>1, LeavesOn
    <3> QED
      BY <3>2 DEF History
  <2>6. CASE r.phase = "cleanup"
    <3>1. s = Onward(r)
      BY <1>0, <1>5, <2>1, <2>6 DEF Cleared
    <3>2. Rounds(p, r)
      BY <1>0, <2>1, <2>2, <2>6, <3>1 DEF Rounds
    <3> QED
      BY <3>2 DEF History
  <2> QED
    BY <1>0, <2>1, <2>3, <2>4, <2>5, <2>6 DEF Shape, Removing
<1> QED
  BY <1>1, <1>2, <1>3, <1>4, <1>5

LEMMA BuildHistory ==
    ASSUME EvidenceInv, NEW p \in Procs,
           \/ WriteC(p) \/ Link(p) \/ Publish(p) \/ Commit(p) \/ Done(p) \/ Crash(p)
           \/ \E piece \in Pieces : CleanPiece(p, piece)
    PROVE  History(p)
<1> DEFINE r == proc[p]
           s == proc'[p]
<1>0. /\ Types /\ r \in Records /\ Shape(r) /\ \A t : Becomes(p, t) => s = t
  BY Before DEF EvidenceInv
<1>1. r.at \in Building => r.locked /\ r.phase = "build"
  BY <1>0 DEF Shape
<1>2. ASSUME r.at \in Building, NEW step \in Building, s = [r EXCEPT !.at = step]
      PROVE  Builds(r, s)
  <2>1. s.locked = r.locked /\ s.phase = r.phase /\ s.m = r.m /\ s.id = r.id /\ s.at = step
    BY <1>0, <1>2 DEF Records
  <2>2. step # "done"
    BY DEF Building
  <2> QED
    BY <1>1, <1>2, <2>1, <2>2 DEF Builds
<1>3. ASSUME r.at \in Building, s = Aborts(r)
      PROVE  Builds(r, s)
  <2>1. s.locked = r.locked /\ s.phase = "abort" /\ s.m = r.m /\ s.id = r.id /\ s.at = "rmProv"
    BY <1>0, <1>3 DEF Records, Aborts
  <2> QED
    BY <1>1, <1>3, <2>1 DEF Builds
<1>4. CASE WriteC(p)
  <2> DEFINE id == ids + 1
             t == [r EXCEPT !.id = id]
             step == IF r.kind = "emit" THEN "meta" ELSE "link"
  <2>1. r.at = "write" /\ ids' = id
    BY <1>4 DEF WriteC, At
  <2>2. t.kind = r.kind /\ t.m = r.m /\ t.id = id /\ t.phase = r.phase /\ t.locked = r.locked
        /\ t.at = r.at
    BY <1>0 DEF Records
  <2>3. s = [t EXCEPT !.at = step] \/ s = Aborts(t)
    BY <1>0, <1>4, <2>2 DEF WriteC
  <2>4. t \in Records
    <3>1. id \in Nat
      BY <1>0 DEF Types
    <3> HIDE DEF id
    <3> QED
      BY <1>0, <3>1 DEF Records
  <2>5. step \in {"meta", "link"}
    OBVIOUS
  <2> HIDE DEF id, t, step
  <2>6. s.m = t.m /\ s.id = t.id /\ s.phase \in {"build", "abort"} /\ s.locked = t.locked
        /\ s.at # "done"
    <3>1. CASE s = [t EXCEPT !.at = step]
      <4>1. r.phase = "build"
        BY <1>1, <2>1 DEF Building
      <4> QED
        BY <2>2, <2>4, <2>5, <3>1, <4>1 DEF Records
    <3>2. CASE s = Aborts(t)
      BY <2>2, <2>4, <3>2 DEF Records, Aborts
    <3> QED
      BY <2>3, <3>1, <3>2
  <2>7. Builds(r, s)
    BY <1>1, <2>1, <2>2, <2>6 DEF Builds, Building, id
  <2> QED
    BY <2>7 DEF History
<1>5. CASE Link(p)
  <2>1. r.at \in Building /\ (s = [r EXCEPT !.at = "meta"] \/ s = Aborts(r))
    BY <1>0, <1>5 DEF Link, Goes, At, Building
  <2>2. Builds(r, s)
    BY <1>2, <1>3, <2>1 DEF Building
  <2> QED
    BY <2>2 DEF History
<1>6. CASE Publish(p)
  <2>1. PICK w \in Publications(r) :
            /\ r.at = w.at
            /\ Becomes(p, [r EXCEPT !.at = w.then]) \/ Becomes(p, Aborts(r))
    BY <1>6 DEF Publish, At, Goes
  <2> DEFINE step == w.then
  <2>2. r.at \in Building /\ step \in Building
    BY <2>1 DEF Publications, Building
  <2>3. s = [r EXCEPT !.at = step] \/ s = Aborts(r)
    BY <1>0, <2>1
  <2> HIDE DEF step
  <2>4. Builds(r, s)
    BY <1>2, <1>3, <2>2, <2>3
  <2> QED
    BY <2>4 DEF History
<1>7. CASE Commit(p)
  <2>1. s = Onward(r) /\ r.phase = "build"
    BY <1>0, <1>1, <1>7 DEF Commit, At, Building
  <2>2. Leaves(s)
    BY <1>0, <2>1, LeavesOn
  <2> QED
    BY <2>2 DEF History
<1>8. CASE Done(p) \/ Crash(p)
  <2>1. s = Idle
    BY <1>0, <1>8 DEF Done, Crash
  <2>2. Leaves(s)
    BY <2>1 DEF Leaves, Idle
  <2> QED
    BY <2>2 DEF History
<1>9. CASE \E piece \in Pieces : CleanPiece(p, piece)
  <2>1. PICK piece \in Pieces : CleanPiece(p, piece)
    BY <1>9
  <2> DEFINE left == r.pieces \ {piece}
             t == [r EXCEPT !.pieces = left]
  <2>2. (s = Finished(r, TRUE) \/ s = t) /\ r.at = "clean"
    BY <1>0, <2>1 DEF CleanPiece, At
  <2>3. ~r.locked /\ r.phase = "none"
    BY <1>0, <2>2 DEF Shape, Removing, Building, Cataloging
  <2> HIDE DEF left
  <2>4. Leaves(t)
    BY <1>0, <2>3 DEF Records, Leaves
  <2>5. Leaves(Finished(r, TRUE))
    BY <1>0, <2>3, FinishedRecord DEF Leaves
  <2> HIDE DEF t
  <2>6. Leaves(s)
    BY <2>2, <2>4, <2>5
  <2> QED
    BY <2>6 DEF History
<1> QED
  BY <1>4, <1>5, <1>6, <1>7, <1>8, <1>9

LEMMA EveryHistory ==
    ASSUME EvidenceInv, NEW p \in Procs, Command(p) \/ Step(p) \/ Crash(p)
    PROVE  History(p)
BY CommandHistory, CatalogHistory, TargetHistory, BuildHistory DEF Step, EvidenceInv

-----------------------------------------------------------------------------
(* The invariant of what is cleared is inductive.                          *)

\* Process p leaves a file of m, removes it, or replaces it by the one of the
\* build that it works on in its own target.
Touches(p, m, old, new) ==
    new = old \/ new = 0 \/ (proc[p].locked /\ proc[p].m = m /\ new = proc[p].id)

FilesTouched(p) ==
    \A m \in Projects : /\ Touches(p, m, evid[m].meta, evid'[m].meta)
                        /\ Touches(p, m, evid[m].receipt, evid'[m].receipt)
                        /\ Touches(p, m, evid[m].prov, evid'[m].prov)

LEMMA EvidenceTouched ==
    ASSUME LocksInv, NEW p \in Procs, Command(p) \/ Step(p) \/ Crash(p)
    PROVE  FilesTouched(p)
<1> DEFINE r == proc[p]
           m == r.m
<1>1. Types /\ r \in Records /\ Shape(r) /\ r.id \in Nat /\ evid \in [Projects -> Evidence]
  BY Before DEF Types, Records
<1>2. CASE UNCHANGED evid
  BY <1>2 DEF FilesTouched, Touches
<1>3. ASSUME m \in Projects, NEW x \in {"meta", "receipt", "prov"}, NEW v \in Nat,
             evid' = SetFile(evid, m, x, v), v = 0 \/ (r.locked /\ v = r.id)
      PROVE  FilesTouched(p)
  <2>1. /\ \A n \in Projects : n # m => evid'[n] = evid[n]
        /\ evid'[m].meta \in {evid[m].meta, v}
        /\ evid'[m].receipt \in {evid[m].receipt, v}
        /\ evid'[m].prov \in {evid[m].prov, v}
    BY <1>1, <1>3, EvidSet
  <2> QED
    BY <1>3, <2>1 DEF FilesTouched, Touches
<1>4. CASE Remove(p)
  <2>1. PICK i \in DOMAIN Removals :
            /\ r.at = Removals[i].at
            /\ evid' = SetFile(evid, m, Removals[i].file, 0) \/ UNCHANGED evid
    BY <1>4 DEF Remove, At, SetFile
  <2> DEFINE x == Removals[i].file
  <2>2. r.at \in Removing /\ x \in {"meta", "receipt", "prov"}
    BY <2>1 DEF Removals, Removing
  <2>3. m \in Projects
    BY <1>1, <2>2 DEF Shape
  <2>4. evid' = SetFile(evid, m, x, 0) \/ UNCHANGED evid
    BY <2>1
  <2> HIDE DEF x
  <2> QED
    BY <1>2, <1>3, <2>2, <2>3, <2>4
<1>5. CASE Publish(p)
  <2>1. PICK w \in Publications(r) :
            /\ r.at = w.at
            /\ evid' = SetFile(evid, m, w.file, r.id) \/ UNCHANGED evid
    BY <1>5 DEF Publish, At, SetFile
  <2> DEFINE x == w.file
  <2>2. r.at \in Building /\ x \in {"meta", "receipt", "prov"}
    BY <2>1 DEF Publications, Building
  <2>3. m \in Projects /\ r.locked
    BY <1>1, <2>2 DEF Shape
  <2>4. evid' = SetFile(evid, m, x, r.id) \/ UNCHANGED evid
    BY <2>1
  <2> HIDE DEF x
  <2> QED
    BY <1>1, <1>2, <1>3, <2>2, <2>3, <2>4
<1>6. ASSUME NEW piece \in Pieces, CleanPiece(p, piece) PROVE FilesTouched(p)
  <2>1. m \in Projects
    BY <1>1, <1>6 DEF CleanPiece, At, Shape
  <2>2. DOMAIN evid[m] = {"meta", "receipt", "prov"}
    BY <1>1, <2>1 DEF Evidence
  <2>3. \/ UNCHANGED evid
        \/ piece \in {"meta", "receipt", "prov"} /\ evid' = SetFile(evid, m, piece, 0)
    BY <1>6, <2>2 DEF CleanPiece, SetFile
  <2> QED
    BY <1>2, <1>3, <2>1, <2>3
<1>7. CASE ~Remove(p) /\ ~Publish(p) /\ ~ \E piece \in Pieces : CleanPiece(p, piece)
  <2>1. UNCHANGED evid
    BY <1>7 DEF Command, StartBuild, StartStandalone, StartWorkspace, StartClean, Step, Crash,
       LockCatalog, Refresh, Own, ReadCatalog, Recheck, Context, Open, Lock, Cleared, WriteC,
       Link, Commit, Done, files
  <2> QED
    BY <1>2, <2>1
<1> QED
  BY <1>4, <1>5, <1>6, <1>7

\* What a step relies on.
LEMMA Relies ==
    ASSUME EvidenceInv, NEW p \in Procs, Command(p) \/ Step(p) \/ Crash(p)
    PROVE  /\ Types /\ Stepped(p) /\ RecordEffect(p) /\ FilesTouched(p) /\ History(p)
           /\ EvidBelow(evid, ids) /\ ids \in Nat /\ proc[p] \in Records /\ Shape(proc[p])
           /\ \A q \in Procs : proc[q].id \in Nat /\ proc[q].id <= ids
           /\ \A m \in Projects :
                 evid[m].meta \in Nat /\ evid[m].receipt \in Nat /\ evid[m].prov \in Nat
           /\ \A i : Rounds(p, i) => /\ ~proc'[p].locked /\ proc'[p].phase = "cleanup"
                                     /\ proc'[p].at # "rmProv"
<1>1. Stepped(p) /\ RecordEffect(p) /\ FilesTouched(p) /\ History(p)
  BY EveryStep, RecordStep, EvidenceTouched, EveryHistory DEF EvidenceInv
<1>2. Types /\ ids \in Nat /\ proc[p] \in Records /\ Shape(proc[p]) /\ EvidBelow(evid, ids)
  BY Before DEF EvidenceInv, LocksInv, Numbered
<1>3. \A q \in Procs : proc[q].id \in Nat /\ proc[q].id <= ids
  BY <1>2 DEF Types, Records, EvidenceInv, LocksInv, Numbered
<1>4. \A m \in Projects :
          evid[m].meta \in Nat /\ evid[m].receipt \in Nat /\ evid[m].prov \in Nat
  BY <1>2 DEF Types, Evidence
<1>5. ASSUME NEW i, Rounds(p, i)
      PROVE  ~proc'[p].locked /\ proc'[p].phase = "cleanup" /\ proc'[p].at # "rmProv"
  <2>1. i \in Records /\ i.phase = "cleanup" /\ proc'[p] = Onward(i)
    BY <1>5 DEF Rounds
  <2> QED
    BY <1>2, <2>1, OnwardGoes
<1> QED
  BY <1>1, <1>2, <1>3, <1>4, <1>5

LEMMA OwnBuildStep ==
    ASSUME EvidenceInv, OwnBuild, NEW p \in Procs, Command(p) \/ Step(p) \/ Crash(p)
    PROVE  OwnBuild'
<1>1. /\ proc'[p].id \in {proc[p].id, 0, ids + 1}
      /\ \A q \in Procs : proc[q].id \in Nat /\ proc[q].id <= ids
      /\ \A q \in Procs : q # p => proc'[q] = proc[q]
      /\ ids \in Nat
  BY Relies DEF RecordEffect, Carries, Stepped
<1> QED
  BY <1>1 DEF OwnBuild

\* A number that is nowhere in m comes there with the one who works on it only.
LEMMA NotWritten ==
    ASSUME EvidenceInv, NEW p \in Procs, Command(p) \/ Step(p) \/ Crash(p),
           NEW m \in Projects, NEW id, id # 0, ~Written(id, m),
           proc[p].locked /\ proc[p].m = m => id # proc[p].id
    PROVE  ~Written(id, m)'
BY Relies DEF FilesTouched, Touches, Written

LEMMA AtHomeStep ==
    ASSUME EvidenceInv, OwnBuild, AtHome, NEW p \in Procs, Command(p) \/ Step(p) \/ Crash(p)
    PROVE  AtHome'
<1> SUFFICES ASSUME NEW q \in Procs, NEW id, id = proc'[q].id, id # 0,
                    proc'[q].locked, proc'[q].phase \in {"build", "abort"},
                    NEW m \in Projects, m # proc'[q].m
             PROVE  ~Written(id, m)'
  BY DEF AtHome, Written
<1>1. CASE q # p
  <2>1. proc'[q] = proc[q]
    BY <1>1, Relies DEF Stepped
  <2>2. ~Written(id, m)
    BY <2>1 DEF AtHome
  <2>3. id # proc[p].id
    BY <1>1, <2>1 DEF OwnBuild
  <2> QED
    BY <2>2, <2>3, NotWritten
<1>2. CASE q = p
  <2>1. \/ Stays(proc[p], proc'[p]) /\ proc[p].locked /\ proc[p].phase = proc'[p].phase
        \/ Builds(proc[p], proc'[p])
    BY <1>2, Relies DEF History, Leaves, Locks, Finds, GivesUp, Fails, Stays
  <2>2. /\ proc[p].locked /\ proc[p].phase \in {"build", "abort"} /\ proc'[p].m = proc[p].m
        /\ id \in {proc[p].id, ids + 1}
    BY <1>2, <2>1 DEF Stays, Builds
  <2>3. ~Written(id, m)
    <3>1. CASE id = proc[p].id
      BY <1>2, <2>2, <3>1 DEF AtHome
    <3>2. CASE id = ids + 1
      BY <3>2, Relies DEF Written, EvidBelow
    <3> QED
      BY <2>2, <3>1, <3>2
  <2> QED
    BY <1>2, <2>2, <2>3, NotWritten
<1> QED
  BY <1>1, <1>2

LEMMA AbortClearsStep ==
    ASSUME EvidenceInv, OwnBuild, AtHome, AbortClears,
           NEW p \in Procs, Command(p) \/ Step(p) \/ Crash(p)
    PROVE  AbortClears'
<1> SUFFICES ASSUME NEW q \in Procs, NEW id, id = proc'[q].id, id # 0,
                    proc'[q].at = "done", proc'[q].phase = "abort",
                    NEW m \in Projects
             PROVE  ~Written(id, m)'
  BY DEF AbortClears, At, Written
<1>1. CASE q # p
  <2>1. proc'[q] = proc[q]
    BY <1>1, Relies DEF Stepped
  <2>2. ~Written(id, m)
    BY <2>1 DEF AbortClears, At, Written
  <2>3. id # proc[p].id
    BY <1>1, <2>1 DEF OwnBuild
  <2> QED
    BY <2>2, <2>3, NotWritten
<1>2. CASE q = p
  <2>1. Fails(proc[p], proc'[p])
    BY <1>2, Relies DEF History, Leaves, Stays, Locks, Finds, GivesUp, Builds
  <2>2. /\ proc[p].at = "cleared" /\ proc[p].locked /\ proc[p].phase = "abort"
        /\ proc[p].id = id /\ evid' = evid
    BY <1>2, <2>1 DEF Fails
  <2>3. ~Written(id, m)
    <3>1. CASE m = proc[p].m
      <4>1. evid[m] = None
        BY <2>2, <3>1, Inside DEF Removing, Stage
      <4> QED
        BY <4>1 DEF None, Written
    <3>2. CASE m # proc[p].m
      BY <2>2, <3>2 DEF AtHome
    <3> QED
      BY <3>1, <3>2
  <2> QED
    BY <2>2, <2>3 DEF Written
<1> QED
  BY <1>1, <1>2

LEMMA CleanupBoundStep ==
    ASSUME EvidenceInv, CleanupBound, NEW p \in Procs, Command(p) \/ Step(p) \/ Crash(p)
    PROVE  CleanupBound'
<1> SUFFICES ASSUME NEW q \in Procs, proc'[q].at = "rmProv", proc'[q].phase = "cleanup"
             PROVE  ~Unowned(evid'[proc'[q].m])
  BY DEF CleanupBound, At
<1>1. CASE q # p
  <2>1. proc'[q] = proc[q]
    BY <1>1, Relies DEF Stepped
  <2>2. proc[q].locked
    BY <2>1 DEF EvidenceInv, LocksInv, Shapes, Shape, Removing
  <2>3. evid'[proc[q].m] = evid[proc[q].m]
    BY <1>1, <2>2, OthersKept DEF EvidenceInv
  <2> QED
    BY <2>1, <2>3 DEF CleanupBound, At
<1>2. CASE q = p
  <2>1. Finds(proc[p], proc'[p])
    BY <1>2, Relies DEF History, Leaves, Stays, Locks, GivesUp, Builds, Fails
  <2> QED
    BY <1>2, <2>1 DEF Finds
<1> QED
  BY <1>1, <1>2

\* What was cleaned stays clean of builds up to b.
LEMMA CleanedStays ==
    ASSUME EvidenceInv, NEW p \in Procs, Command(p) \/ Step(p) \/ Crash(p),
           NEW b \in Nat, b <= ids, NEW m \in Projects, CleanedSince(b, m)
    PROVE  CleanedSince(b, m)'
<1> DEFINE r == proc[p]
           s == proc'[p]
<1>1. evid'[m].prov = 0 \/ evid'[m].prov > b
  <2>1. Touches(p, m, evid[m].prov, evid'[m].prov)
    BY Relies DEF FilesTouched
  <2>2. CASE r.locked /\ r.m = m /\ evid'[m].prov = r.id
    BY <2>2 DEF CleanedSince
  <2> QED
    BY <2>1, <2>2 DEF Touches, CleanedSince
<1>2. ASSUME NEW q \in Procs, proc'[q].locked, proc'[q].m = m
      PROVE  proc'[q].id = 0 \/ proc'[q].id > b
  <2>1. CASE q # p
    <3>1. proc'[q] = proc[q]
      BY <2>1, Relies DEF Stepped
    <3> QED
      BY <1>2, <3>1 DEF CleanedSince
  <2>2. CASE q = p
    <3>1. \/ Stays(r, s) \/ Locks(r, s) \/ Finds(r, s) \/ Builds(r, s)
      BY <1>2, <2>2, Relies DEF History, Leaves, GivesUp, Fails
    <3>2. \/ s.id = 0
          \/ r.locked /\ r.m = m /\ s.id \in {r.id, ids + 1}
      BY <1>2, <2>2, <3>1 DEF Stays, Locks, Finds, Builds
    <3>3. r.locked /\ r.m = m => r.id = 0 \/ r.id > b
      BY DEF CleanedSince
    <3>4. ids \in Nat
      BY Relies
    <3> QED
      BY <2>2, <3>2, <3>3, <3>4
  <2> QED
    BY <2>1, <2>2
<1> QED
  BY <1>1, <1>2 DEF CleanedSince

\* A directory that is not there holds nothing, and nobody has it locked.
LEMMA AbsentCleaned ==
    ASSUME EvidenceInv, NEW b, NEW m \in Projects, ~TargetExists(m)
    PROVE  CleanedSince(b, m)
<1>1. lockfile[m] = 0 /\ evid[m].prov = 0
  <2>1. "prov" \in DOMAIN evid[m]
    BY DEF EvidenceInv, LocksInv, Types, Evidence
  <2> QED
    BY <2>1 DEF TargetExists
<1>2. \A q \in Procs : proc[q].locked => proc[q].m # m
  BY <1>1 DEF EvidenceInv, LocksInv, FileThere
<1> QED
  BY <1>1, <1>2 DEF CleanedSince

\* Nobody else has the target of a locked command locked.
LEMMA OwnCleaned ==
    ASSUME EvidenceInv, NEW p \in Procs, Command(p) \/ Step(p) \/ Crash(p),
           NEW b, NEW m \in Projects, proc[p].locked, proc[p].m = m, ~proc'[p].locked,
           evid'[m].prov = 0
    PROVE  CleanedSince(b, m)'
<1>1. \A q \in Procs : q # p => proc'[q] = proc[q]
  BY Relies DEF Stepped
<1>2. \A q \in Procs : q # p /\ proc[q].locked => proc[q].m # m
  BY DEF EvidenceInv, LocksInv, OneBuilder
<1> QED
  BY <1>1, <1>2 DEF CleanedSince

\* The cleanup goes on past what is clean.
LEMMA RoundsPassed ==
    ASSUME EvidenceInv, CleanupPassed, NEW p \in Procs, Command(p) \/ Step(p) \/ Crash(p),
           NEW i, Rounds(p, i), proc'[p].ok, NEW m \in Passed(proc'[p])
    PROVE  m \in Projects /\ CleanedSince(proc[p].since, m)' /\ proc'[p].since = proc[p].since
<1> DEFINE r == proc[p]
           s == proc'[p]
<1>1. /\ i \in Records /\ i.phase = "cleanup" /\ i.since = r.since /\ s = Onward(i)
      /\ UNCHANGED evid
      /\ \/ i.todo = i.cat
         \/ /\ i.cat = r.cat /\ i.todo = r.todo
            /\ r.locked /\ r.phase = "cleanup"
            /\ i.ok => r.ok /\ evid[r.m].prov = 0
  BY DEF Rounds
<1>2. /\ ~s.locked /\ s.cat = i.cat /\ s.since = i.since /\ s.ok = i.ok
      /\ s.at \in {"done", "open"}
      /\ \A n \in i.todo : TargetExists(n) => s.at = "open" /\ (n \in s.todo \/ n = s.m)
  <2>1. Types /\ i \in Records /\ i.phase = "cleanup"
    BY <1>1, Relies
  <2>2. LET t == Onward(i)
        IN  /\ ~t.locked /\ Keeps(i, t) /\ t.at \in {"done", "open"}
            /\ \A n \in i.todo : TargetExists(n) => t.at = "open" /\ (n \in t.todo \/ n = t.m)
    BY <2>1, OnwardGoes
  <2> QED
    BY <1>1, <2>2 DEF Keeps
<1>3. m \in i.cat /\ m \in Projects /\ (m \in i.todo => ~TargetExists(m))
  BY <1>1, <1>2 DEF Passed, Records
<1>4. r.since \in Nat /\ r.since <= ids
  BY Relies DEF Records, EvidenceInv, LocksInv, Numbered
<1>5. CASE ~TargetExists(m)
  BY <1>3, <1>4, <1>5, AbsentCleaned, CleanedStays, <1>1, <1>2
<1>6. CASE m \notin i.todo
  <2>1. /\ i.cat = r.cat /\ i.todo = r.todo /\ r.locked /\ r.phase = "cleanup"
        /\ r.ok /\ evid[r.m].prov = 0
    BY <1>1, <1>2, <1>3, <1>6
  <2>2. CASE m = r.m
    BY <1>1, <1>2, <1>3, <2>1, <2>2, OwnCleaned
  <2>3. CASE m # r.m
    <3>1. r.at # "done"
      BY <2>1, Relies DEF Shape, Removing, Building, Cataloging
    <3>2. m \in Passed(r)
      BY <1>3, <1>6, <2>1, <2>3, <3>1 DEF Passed
    <3>3. CleanedSince(r.since, m)
      BY <2>1, <3>2 DEF CleanupPassed
    <3> QED
      BY <1>1, <1>2, <1>3, <1>4, <3>3, CleanedStays
  <2> QED
    BY <2>2, <2>3
<1> QED
  BY <1>3, <1>5, <1>6

LEMMA CleanupPassedStep ==
    ASSUME EvidenceInv, CleanupPassed, NEW p \in Procs, Command(p) \/ Step(p) \/ Crash(p)
    PROVE  CleanupPassed'
<1> SUFFICES ASSUME NEW q \in Procs, proc'[q].phase = "cleanup", proc'[q].ok,
                    NEW b, b = proc'[q].since,
                    NEW m \in Passed(proc'[q])
             PROVE  CleanedSince(b, m)'
  BY DEF CleanupPassed, CleanedSince, Passed
<1>1. ASSUME proc[q].phase = "cleanup", proc[q].ok, b = proc[q].since, m \in Passed(proc[q])
      PROVE  CleanedSince(b, m)'
  <2>1. CleanedSince(b, m)
    BY <1>1 DEF CleanupPassed
  <2>2. proc[q] \in Records /\ b <= ids
    BY <1>1 DEF EvidenceInv, LocksInv, Types, Numbered
  <2>3. m \in Projects /\ b \in Nat
    BY <1>1, <2>2 DEF Passed, Records
  <2> QED
    BY <2>1, <2>2, <2>3, CleanedStays
<1>2. CASE q # p
  <2>1. proc'[q] = proc[q]
    BY <1>2, Relies DEF Stepped
  <2> QED
    BY <1>1, <2>1
<1>3. CASE q = p
  <2>1. \/ Stays(proc[p], proc'[p]) \/ Locks(proc[p], proc'[p]) \/ Finds(proc[p], proc'[p])
        \/ \E i : Rounds(p, i)
    BY <1>3, Relies DEF History, Leaves, GivesUp, Builds, Fails
  <2>2. CASE \E i : Rounds(p, i)
    BY <1>3, <2>2, RoundsPassed DEF CleanedSince
  <2>3. CASE Stays(proc[p], proc'[p]) \/ Locks(proc[p], proc'[p]) \/ Finds(proc[p], proc'[p])
    <3>1. /\ proc'[p].phase = proc[p].phase /\ proc'[p].ok = proc[p].ok
          /\ proc'[p].since = proc[p].since /\ proc'[p].cat = proc[p].cat
          /\ proc'[p].todo = proc[p].todo /\ proc'[p].m = proc[p].m
          /\ proc[p].at # "done" /\ proc'[p].at # "done"
      BY <2>3 DEF Stays, Locks, Finds
    <3> QED
      BY <1>1, <1>3, <3>1 DEF Passed
  <2> QED
    BY <2>1, <2>2, <2>3
<1> QED
  BY <1>2, <1>3

\* Such a cleanup removes only what is bound to the workspace.
LEMMA OwnedOnlyStep ==
    ASSUME EvidenceInv, CleanupBound, NEW p \in Procs, Command(p) \/ Step(p) \/ Crash(p)
    PROVE  OwnedOnly
<1> SUFFICES ASSUME NEW q \in Procs, proc[q].phase = "cleanup", proc[q].locked,
                    proc'[q] # proc[q],
                    evid[proc[q].m].prov # 0, evid'[proc[q].m].prov = 0
             PROVE  /\ evid[proc[q].m].receipt = evid[proc[q].m].prov
                    /\ evid[proc[q].m].meta = evid[proc[q].m].prov
  BY DEF OwnedOnly
<1>1. q = p
  BY Relies DEF Stepped
<1>2. proc[p].at \in Removing \cup Cataloging
  BY <1>1, Relies DEF Shape, Building
<1>3. CASE proc[p].at \in Cataloging
  <2>1. ~Remove(p) /\ ~ \E piece \in Pieces : CleanPiece(p, piece)
    <3>1. \A i \in DOMAIN Removals : Removals[i].at \in {"rmProv", "rmReceipt", "rmMeta"}
      BY DEF Removals
    <3>2. ~Remove(p)
      BY <1>3, <3>1 DEF Remove, At, Cataloging
    <3>3. \A piece \in Pieces : ~CleanPiece(p, piece)
      BY <1>3 DEF CleanPiece, At, Cataloging
    <3> QED
      BY <3>2, <3>3
  <2>2. ~Publish(p)
    BY <1>3 DEF Publish, Publications, At, Cataloging
  <2>3. evid' = evid
    BY <2>1, <2>2 DEF Command, StartBuild, StartStandalone, StartWorkspace, StartClean, Step,
       Crash, LockCatalog, Refresh, Own, ReadCatalog, Recheck, Context, Open, Lock, Cleared,
       WriteC, Link, Commit, Done, files
  <2> QED
    BY <1>1, <2>3
<1>4. CASE proc[p].at = "rmProv"
  <2>1. ~Unowned(evid[proc[p].m])
    BY <1>1, <1>4 DEF CleanupBound, At
  <2> QED
    BY <1>1, <2>1 DEF Unowned
<1>5. CASE proc[p].at \in {"rmReceipt", "rmMeta", "cleared"}
  <2>1. evid[proc[p].m].prov = 0
    BY <1>5, Inside DEF Removing, Stage, None
  <2> QED
    BY <1>1, <2>1
<1> QED
  BY <1>2, <1>3, <1>4, <1>5 DEF Removing

LEMMA ClearedInit == Init => ClearedInv
<1> SUFFICES ASSUME Init PROVE ClearedInv
  OBVIOUS
<1>1. EvidenceInv
  BY EvidenceInit
<1>2. \A p \in Procs : proc[p] = Idle
  BY DEF Init
<1>3. \A p \in Procs : /\ proc[p].id = 0 /\ ~proc[p].locked /\ proc[p].at = "idle"
                       /\ proc[p].phase = "none"
  BY <1>2 DEF Idle
<1> QED
  BY <1>1, <1>3 DEF ClearedInv, OwnBuild, AtHome, AbortClears, CleanupBound, CleanupPassed, At

LEMMA ClearedNext ==
    ASSUME CleanAlone, RemovesAll, ClearedInv, [Next]_vars
    PROVE  ClearedInv' /\ (UNCHANGED vars \/ OwnedOnly)
<1>1. CASE \E p \in Procs : Command(p) \/ Step(p) \/ Crash(p)
  BY <1>1, EvidenceStep, OwnBuildStep, AtHomeStep, AbortClearsStep, CleanupBoundStep,
     CleanupPassedStep, OwnedOnlyStep DEF ClearedInv
<1>2. CASE EditManifest \/ UNCHANGED vars
  <2>1. EvidenceInv'
    BY <1>2, EvidenceNext DEF ClearedInv, Next
  <2>2. UNCHANGED <<evid, proc>>
    BY <1>2 DEF EditManifest, files, vars
  <2>3. OwnBuild' /\ AtHome' /\ AbortClears' /\ CleanupBound' /\ CleanupPassed'
    BY <2>2 DEF ClearedInv, OwnBuild, AtHome, AbortClears, CleanupBound, CleanupPassed, At,
       Written, CleanedSince, Passed, Unowned
  <2>4. OwnedOnly
    BY <2>2 DEF OwnedOnly
  <2> QED
    BY <2>1, <2>3, <2>4 DEF ClearedInv
<1> QED
  BY <1>1, <1>2 DEF Next

\* A cleanup that ends well has been at every member.
LEMMA CleanupClearedOf == ClearedInv => AbortClears /\ CleanupCleared
<1> SUFFICES ASSUME ClearedInv, NEW p \in Procs, proc[p].at = "done", proc[p].cmd = "cleanup",
                    proc[p].ok, NEW m \in proc[p].cat
             PROVE  evid[m].prov = 0 \/ evid[m].prov > proc[p].since
  BY DEF ClearedInv, CleanupCleared, At
<1>1. proc[p].phase = "cleanup"
  BY DEF ClearedInv, EvidenceInv, LocksInv, Shapes, Shape
<1>2. CleanedSince(proc[p].since, m)
  BY <1>1 DEF ClearedInv, CleanupPassed, Passed
<1> QED
  BY <1>2 DEF CleanedSince

\* Failed builds and cleanups leave no evidence of theirs behind and take none of
\* others with them, however many commands run at once, as long as the removals
\* do not fail and "nomo clean" runs alone.
THEOREM ClearedExactlyThroughout == CleanAlone /\ RemovesAll => (Spec => ClearedExactly)
<1> SUFFICES ASSUME CleanAlone, RemovesAll PROVE Spec => ClearedExactly
  OBVIOUS
<1>1. ClearedInv /\ [Next]_vars => ClearedInv'
  BY ClearedNext
<1>2. ClearedInv /\ [Next]_vars => (UNCHANGED vars \/ OwnedOnly)
  BY ClearedNext
<1>3. ClearedInv => AbortClears /\ CleanupCleared
  BY CleanupClearedOf
<1>4. ClearedInv' => AbortClears' /\ CleanupCleared'
  BY <1>3, PTL
<1>5. ClearedInv /\ [Next]_vars => [AbortClears' /\ CleanupCleared' /\ OwnedOnly]_vars
  BY <1>1, <1>2, <1>4
<1> QED
  BY <1>1, <1>5, ClearedInit, PTL DEF Spec, ClearedExactly
=============================================================================
