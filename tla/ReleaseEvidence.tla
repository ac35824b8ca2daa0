--------------------------- MODULE ReleaseEvidence ---------------------------
(***************************************************************************)
(* Release evidence: who may publish and who may remove the metadata, the  *)
(* owner receipt and the provenance sidecar of a target directory.         *)
(*   crates/nomo/src/project/build.rs                                      *)
(*   crates/nomo/src/project/build_metadata.rs                             *)
(*   crates/nomo/src/bin/nomo_cli/common.rs                                *)
(*                                                                         *)
(* Several nomo commands run at once, each in a process of its own.  Every *)
(* system call that another process can see is a step, and a process may   *)
(* be killed between any two.  A build has a number; the files it writes   *)
(* carry it in place of their hashes.  Number 0 is a file that is absent.  *)
(***************************************************************************)
EXTENDS Integers, FiniteSets, FiniteSetsExt

CONSTANTS
    Procs,          \* the processes
    Projects,       \* projects with a target directory, a set of numbers
    Kinds,          \* which builds are run: "release", "debug", "emit"
    Faults,         \* which of "build", "publish", "remove", "crash" may happen
    Cleans,         \* "nomo clean" is run "never", "alone" or at "anytime"
    MaxCommands,    \* bound: commands run
    MaxEdits        \* bound: edits of the workspace manifest

ASSUME ProjectsAssumption == Projects \subseteq Nat /\ IsFiniteSet(Projects)
ASSUME KindsAssumption == Kinds \subseteq {"release", "debug", "emit"}
ASSUME FaultsAssumption == Faults \subseteq {"build", "publish", "remove", "crash"}
ASSUME CleansAssumption == Cleans \in {"never", "alone", "anytime"}
ASSUME BoundsAssumption == MaxCommands \in Nat /\ MaxEdits \in Nat

VARIABLES
    manifest,   \* the workspace manifest: can it be read, and its members
    catalog,    \* members in catalog.json; {} before the first one
    catOwner,   \* who holds .catalog.lock
    lockfile,   \* lockfile[m]: the .nomo-build.lock in the directory, 0 if none
    inodes,     \* lock files created so far
    evid,       \* evid[m]: the builds that wrote the three files
    art,        \* art[m]: the builds that wrote main.c and the binary
    proc,       \* proc[p]: what process p does
    ids,        \* builds so far
    commands,   \* commands so far
    edits,      \* edits of the manifest so far
    cleaned     \* history: targets that "nomo clean" has been at and that no
                \* transaction has cleared since

vars == <<manifest, catalog, catOwner, lockfile, inodes, evid, art, proc, ids,
          commands, edits, cleaned>>

Nobody == "nobody"
ASSUME ProcsAssumption == Nobody \notin Procs

Pieces == {"lock", "meta", "receipt", "prov", "c", "bin"}

Idle == [at |-> "idle", cmd |-> "none", kind |-> "none", phase |-> "none", m |-> 0,
         todo |-> {}, next |-> {}, cat |-> {}, since |-> 0, file |-> 0,
         locked |-> FALSE, id |-> 0, owner |-> FALSE, failed |-> FALSE,
         ok |-> TRUE, pieces |-> {}]

Init ==
    /\ manifest = [ok |-> TRUE, members |-> Projects]
    /\ catalog = {}
    /\ catOwner = Nobody
    /\ lockfile = [m \in Projects |-> 0]
    /\ inodes = 0
    /\ evid = [m \in Projects |-> [meta |-> 0, receipt |-> 0, prov |-> 0]]
    /\ art = [m \in Projects |-> [c |-> 0, bin |-> 0]]
    /\ proc = [p \in Procs |-> Idle]
    /\ ids = 0
    /\ commands = 0
    /\ edits = 0
    /\ cleaned = {}

-----------------------------------------------------------------------------

workspace == <<manifest, catalog, edits, cleaned>>
files == <<evid, art>>

At(p, step) == proc[p].at = step

\* Process p goes on with the changes in r.
Becomes(p, r) == proc' = [proc EXCEPT ![p] = r]
Goes(p, step) == Becomes(p, [proc[p] EXCEPT !.at = step])

\* The command is over; dropping the lock file's handle unlocks it.
Finished(r, ok) == [r EXCEPT !.at = "done", !.ok = r.ok /\ ok, !.locked = FALSE]

Locked(m, file) ==
    \E q \in Procs : proc[q].locked /\ proc[q].m = m /\ proc[q].file = file

\* Editors change the manifest: it becomes unreadable, readable, or has other
\* members.
EditManifest ==
    /\ edits < MaxEdits
    /\ \/ manifest' = [manifest EXCEPT !.ok = FALSE]
       \/ \E s \in (SUBSET Projects) \ {{}} : manifest' = [ok |-> TRUE, members |-> s]
    /\ manifest' # manifest
    /\ edits' = edits + 1
    /\ UNCHANGED <<catalog, catOwner, lockfile, inodes, files, proc, ids, commands,
                   cleaned>>

\* The OS takes the locks of a process that is killed.
Crash(p) ==
    /\ "crash" \in Faults /\ ~At(p, "idle") /\ ~At(p, "done")
    /\ Becomes(p, Idle)
    /\ catOwner' = IF catOwner = p THEN Nobody ELSE catOwner
    /\ UNCHANGED <<workspace, lockfile, inodes, files, ids, commands>>

Done(p) ==
    /\ At(p, "done")
    /\ Becomes(p, Idle)
    /\ UNCHANGED <<workspace, catOwner, lockfile, inodes, files, ids, commands>>

-----------------------------------------------------------------------------
(* The commands.                                                           *)

Starts(p, r) ==
    /\ At(p, "idle") /\ commands < MaxCommands
    /\ Cleans = "alone" => \A q \in Procs : proc[q].cmd # "clean"
    /\ commands' = commands + 1
    /\ Becomes(p, r)

\* The target directory is there as long as something is in it.
TargetExists(m) ==
    \/ lockfile[m] # 0
    \/ \E f \in DOMAIN evid[m] : evid[m][f] # 0
    \/ \E f \in DOMAIN art[m] : art[m][f] # 0

\* What a command does next.  It clears the target directories that exist one
\* after the other (phase "clear" is clear_build_metadata_at, "cleanup" one round
\* of clear_failed_workspace_build_metadata_from_catalog), then it builds.
Onward(r) ==
    LET present == {m \in r.todo : TargetExists(m)}
        goesOn(phase, set, step) ==
            [r EXCEPT !.phase = phase, !.m = Min(set), !.at = step, !.locked = FALSE,
                      !.todo = {m \in set \cup r.todo : m > Min(set)}]
    IN  IF r.phase # "build" /\ present # {}
        THEN goesOn(r.phase, present, "open")
        ELSE IF r.phase = "build" /\ r.todo # {}
        THEN goesOn("build", r.todo, "context")
        ELSE IF r.phase = "clear" /\ r.next # {}
        THEN [goesOn("build", r.next, "context") EXCEPT
                 !.todo = r.next \ {Min(r.next)}, !.next = {}]
        ELSE Finished(r, TRUE)

\* run_build_command for one project.
StartBuild(p, m, kind) ==
    /\ Starts(p, Onward([Idle EXCEPT !.cmd = "build", !.kind = kind, !.phase = "clear",
                                     !.todo = {m}, !.next = {m}]))
    /\ UNCHANGED <<workspace, catOwner, lockfile, inodes, files, ids>>

\* A source file outside every workspace whose build directory is that of project
\* m: "nomo run" builds a release, nomoc only emits C.
StartStandalone(p, m, kind) ==
    /\ kind # "debug"
    /\ Starts(p, Onward([Idle EXCEPT !.cmd = "standalone", !.kind = kind, !.phase = "clear",
                                     !.todo = {m}, !.next = {m}]))
    /\ UNCHANGED <<workspace, catOwner, lockfile, inodes, files, ids>>

\* run_build_command --workspace after discover_workspace.
StartWorkspace(p, kind) ==
    /\ Starts(p, IF manifest.ok
                 THEN [Idle EXCEPT !.cmd = "workspace", !.kind = kind, !.phase = "refresh",
                                   !.cat = manifest.members, !.at = "catalog"]
                 ELSE IF catalog = {} THEN Finished([Idle EXCEPT !.cmd = "cleanup"], FALSE)
                 ELSE [Idle EXCEPT !.cmd = "cleanup", !.phase = "read", !.at = "catalog",
                                   !.since = ids])
    /\ UNCHANGED <<workspace, catOwner, lockfile, inodes, files, ids>>

\* run_clean_command: remove_dir_all takes no lock and no order.
StartClean(p, m) ==
    /\ Cleans # "never" /\ TargetExists(m)
    /\ Cleans = "alone" => \A q \in Procs : At(q, "idle")
    /\ Starts(p, [Idle EXCEPT !.cmd = "clean", !.m = m, !.at = "clean", !.pieces = Pieces])
    /\ UNCHANGED <<workspace, catOwner, lockfile, inodes, files, ids>>

CleanPiece(p, piece) ==
    LET m == proc[p].m
        left == proc[p].pieces \ {piece}
    IN  /\ At(p, "clean") /\ piece \in proc[p].pieces
        /\ Becomes(p, IF left = {} THEN Finished(proc[p], TRUE)
                      ELSE [proc[p] EXCEPT !.pieces = left])
        /\ lockfile' = IF piece = "lock" THEN [lockfile EXCEPT ![m] = 0] ELSE lockfile
        /\ evid' = IF piece \in DOMAIN evid[m] THEN [evid EXCEPT ![m][piece] = 0] ELSE evid
        /\ art' = IF piece \in DOMAIN art[m] THEN [art EXCEPT ![m][piece] = 0] ELSE art
        /\ cleaned' = cleaned \cup {m}
        /\ UNCHANGED <<manifest, catalog, edits, catOwner, inodes, ids, commands>>

-----------------------------------------------------------------------------
(* The workspace catalog, under .catalog.lock.                             *)

LockCatalog(p) ==
    /\ At(p, "catalog") /\ catOwner = Nobody
    /\ catOwner' = p
    /\ Goes(p, "cataloging")
    /\ UNCHANGED <<workspace, lockfile, inodes, files, ids, commands>>

\* refresh_workspace_evidence_catalog, at the start of a workspace command.
Refresh(p) ==
    /\ At(p, "cataloging") /\ proc[p].phase = "refresh"
    /\ catalog' = proc[p].cat
    /\ catOwner' = Nobody
    /\ Becomes(p, Onward([proc[p] EXCEPT !.phase = "clear", !.todo = proc[p].cat,
                                         !.next = proc[p].cat]))
    /\ UNCHANGED <<manifest, lockfile, inodes, files, ids, commands, edits,
                   cleaned>>

\* Mutant of Own: the catalog lock is kept while the target lock is awaited.
OwnHolding(p) ==
    /\ At(p, "cataloging") /\ proc[p].phase = "build"
    /\ catalog' = proc[p].cat
    /\ Becomes(p, [proc[p] EXCEPT !.at = "open", !.owner = proc[p].m \in proc[p].cat])
    /\ UNCHANGED <<manifest, catOwner, lockfile, inodes, files, ids, commands, edits,
                   cleaned>>

\* The same in workspace_release_owner_context: is this project a member?
Own(p) ==
    /\ At(p, "cataloging") /\ proc[p].phase = "build"
    /\ catalog' = proc[p].cat
    /\ catOwner' = Nobody
    /\ Becomes(p, [proc[p] EXCEPT !.at = "open", !.owner = proc[p].m \in proc[p].cat])
    /\ UNCHANGED <<manifest, lockfile, inodes, files, ids, commands, edits,
                   cleaned>>

\* read_validated_workspace_catalog_locked, before the cleanup.
ReadCatalog(p) ==
    /\ At(p, "cataloging") /\ proc[p].phase = "read"
    /\ catOwner' = Nobody
    /\ Becomes(p, Onward([proc[p] EXCEPT !.phase = "cleanup", !.todo = catalog,
                                         !.cat = catalog]))
    /\ UNCHANGED <<workspace, lockfile, inodes, files, ids, commands>>

\* workspace_ownership_receipt_matches: not the evidence of this workspace.
Unowned(e) == e.receipt # e.meta \/ e.receipt # e.prov

\* What the cleanup does with the evidence e of one member: it is left and
\* reported unless the receipt binds it and the catalog is still the same.
Judged(r, e) ==
    IF catalog # r.cat THEN Onward([r EXCEPT !.ok = FALSE])
    ELSE IF e.receipt = 0 THEN Onward([r EXCEPT !.ok = @ /\ e.meta = 0 /\ e.prov = 0])
    ELSE IF e.meta = 0 \/ e.prov = 0 THEN Finished(r, FALSE)
    ELSE IF Unowned(e) THEN Onward([r EXCEPT !.ok = FALSE])
    ELSE [r EXCEPT !.at = "rmProv"]

\* The round of the cleanup for one member, its target locked.
Recheck(p) ==
    /\ At(p, "cataloging") /\ proc[p].phase = "cleanup"
    /\ catOwner' = Nobody
    /\ Becomes(p, Judged(proc[p], evid[proc[p].m]))
    /\ UNCHANGED <<workspace, lockfile, inodes, files, ids, commands>>

-----------------------------------------------------------------------------
(* The target lock and the transaction.                                    *)

\* The compilation before the transaction, and the owner of a release build.
Context(p) ==
    /\ At(p, "context")
    /\ \/ /\ "build" \in Faults
          /\ Becomes(p, Finished(proc[p], FALSE))
       \/ /\ Becomes(p, IF proc[p].kind = "release" /\ proc[p].cmd # "standalone" /\ manifest.ok
                        THEN [proc[p] EXCEPT !.at = "catalog", !.cat = manifest.members]
                        ELSE [proc[p] EXCEPT !.at = "open", !.owner = FALSE])
    /\ UNCHANGED <<workspace, catOwner, lockfile, inodes, files, ids, commands>>

\* BuildEvidenceLock::acquire opens the lock file, or creates it.
Open(p) ==
    LET m == proc[p].m IN
    /\ At(p, "open")
    /\ IF lockfile[m] = 0
       THEN /\ lockfile' = [lockfile EXCEPT ![m] = inodes + 1]
            /\ inodes' = inodes + 1
       ELSE UNCHANGED <<lockfile, inodes>>
    /\ Becomes(p, [proc[p] EXCEPT !.at = "lock", !.file = lockfile'[m]])
    /\ UNCHANGED <<workspace, catOwner, files, ids, commands>>

\* Mutant of AfterLock: the cleanup rechecks nothing.
AfterLockUnchecked(r) == "rmProv"

\* The transaction starts by removing old evidence; the cleanup looks first.
AfterLock(r) == IF r.phase = "cleanup" THEN "catalog" ELSE "rmProv"

Lock(p) ==
    /\ At(p, "lock") /\ ~Locked(proc[p].m, proc[p].file)
    /\ Becomes(p, [proc[p] EXCEPT !.at = AfterLock(proc[p]), !.locked = TRUE,
                                  !.failed = FALSE, !.id = 0])
    /\ UNCHANGED <<workspace, catOwner, lockfile, inodes, files, ids, commands>>

\* Mutant of Removals: metadata first.
RemovalsReversed == <<[at |-> "rmProv", file |-> "meta", then |-> "rmReceipt"],
                      [at |-> "rmReceipt", file |-> "receipt", then |-> "rmMeta"],
                      [at |-> "rmMeta", file |-> "prov", then |-> "cleared"]>>

\* clear_release_evidence_paths: the sidecar first.
Removals == <<[at |-> "rmProv", file |-> "prov", then |-> "rmReceipt"],
              [at |-> "rmReceipt", file |-> "receipt", then |-> "rmMeta"],
              [at |-> "rmMeta", file |-> "meta", then |-> "cleared"]>>

\* A removal that fails does not stop the others.
Remove(p) ==
    \E i \in DOMAIN Removals :
        LET m == proc[p].m
            w == Removals[i]
        IN  /\ At(p, w.at)
            /\ \/ /\ evid' = [evid EXCEPT ![m][w.file] = 0]
                  /\ Goes(p, w.then)
               \/ /\ "remove" \in Faults /\ evid[m][w.file] # 0
                  /\ Becomes(p, [proc[p] EXCEPT !.at = w.then, !.failed = TRUE])
                  /\ UNCHANGED evid
            /\ UNCHANGED <<workspace, catOwner, lockfile, inodes, art, ids, commands>>

\* The evidence is gone.  A transaction that fails clears it once more when it
\* is dropped.
Cleared(p) ==
    LET r == proc[p] IN
    /\ At(p, "cleared")
    /\ Becomes(p, CASE r.phase = "abort" -> Finished(r, FALSE)
                    [] r.phase # "abort" /\ r.failed /\ r.phase = "cleanup" -> Finished(r, FALSE)
                    [] r.phase # "abort" /\ r.failed /\ r.phase # "cleanup" ->
                          [r EXCEPT !.at = "rmProv", !.phase = "abort"]
                    [] r.phase = "build" /\ ~r.failed -> [r EXCEPT !.at = "write"]
                    [] OTHER -> Onward(r))
    /\ cleaned' = IF r.failed THEN cleaned ELSE cleaned \ {r.m}
    /\ UNCHANGED <<manifest, catalog, edits, catOwner, lockfile, inodes, files, ids,
                   commands>>

\* A step of the build fails: publish_release_evidence_with clears what it has
\* published, and the transaction does when it is dropped.
Aborts(r) == [r EXCEPT !.at = "rmProv", !.phase = "abort"]

\* The generated C.
WriteC(p) ==
    LET m == proc[p].m
        r == [proc[p] EXCEPT !.id = ids + 1]
    IN  /\ At(p, "write")
        /\ ids' = ids + 1
        /\ art' = [art EXCEPT ![m].c = ids + 1]
        /\ \/ Becomes(p, [r EXCEPT !.at = IF r.kind = "emit" THEN "meta" ELSE "link"])
           \/ "build" \in Faults /\ Becomes(p, Aborts(r))
        /\ UNCHANGED <<workspace, catOwner, lockfile, inodes, evid, commands>>

\* The compiler and the linker.  A release build removes the old binary once
\* the objects are compiled.
Link(p) ==
    LET m == proc[p].m
        without == [art EXCEPT ![m].bin = 0]
    IN  /\ At(p, "link")
        /\ \/ /\ art' = [art EXCEPT ![m].bin = proc[p].id]
              /\ Goes(p, "meta")
           \/ /\ "build" \in Faults
              /\ art' \in {art} \cup IF proc[p].kind = "release" THEN {without} ELSE {}
              /\ Becomes(p, Aborts(proc[p]))
        /\ UNCHANGED <<workspace, catOwner, lockfile, inodes, evid, ids, commands>>

\* What is published when, and what comes next.
Publications(r) ==
    {[at |-> "meta", file |-> "meta",
      then |-> IF r.kind # "release" THEN "commit" ELSE IF r.owner THEN "receipt" ELSE "prov"],
     [at |-> "receipt", file |-> "receipt", then |-> "prov"],
     [at |-> "prov", file |-> "prov", then |-> "commit"]}

\* publish_release_evidence, or write_build_metadata alone.  Every file is
\* replaced atomically; the check after it may still fail.
Publish(p) ==
    \E w \in Publications(proc[p]) :
        LET m == proc[p].m
            written == [evid EXCEPT ![m][w.file] = proc[p].id]
        IN  /\ At(p, w.at)
            /\ \/ /\ evid' = written
                  /\ Goes(p, w.then)
               \/ /\ "publish" \in Faults
                  /\ evid' \in {evid, written}
                  /\ Becomes(p, Aborts(proc[p]))
            /\ UNCHANGED <<workspace, catOwner, lockfile, inodes, art, ids, commands>>

\* BuildEvidenceTransaction::commit, and the next project.
Commit(p) ==
    /\ At(p, "commit")
    /\ Becomes(p, Onward(proc[p]))
    /\ UNCHANGED <<workspace, catOwner, lockfile, inodes, files, ids, commands>>

-----------------------------------------------------------------------------

Command(p) ==
    \/ \E m \in Projects, kind \in Kinds :
           StartBuild(p, m, kind) \/ StartStandalone(p, m, kind)
    \/ \E kind \in Kinds : StartWorkspace(p, kind)
    \/ \E m \in Projects : StartClean(p, m)

Step(p) ==
    \/ \E piece \in Pieces : CleanPiece(p, piece)
    \/ LockCatalog(p) \/ Refresh(p) \/ Own(p) \/ ReadCatalog(p) \/ Recheck(p)
    \/ Context(p) \/ Open(p) \/ Lock(p) \/ Remove(p) \/ Cleared(p)
    \/ WriteC(p) \/ Link(p) \/ Publish(p) \/ Commit(p) \/ Done(p)

Next ==
    \/ EditManifest
    \/ \E p \in Procs : Command(p) \/ Step(p) \/ Crash(p)

Spec == Init /\ [][Next]_vars

\* A process that can go on goes on; a lock is given to somebody who waits.
LiveSpec == Spec /\ \A p \in Procs : WF_vars(Step(p))

-----------------------------------------------------------------------------

TypeOK ==
    /\ manifest \in [ok : BOOLEAN, members : SUBSET Projects]
    /\ catalog \subseteq Projects
    /\ catOwner \in Procs \cup {Nobody}
    /\ \A m \in Projects : lockfile[m] \in 0 .. inodes
    /\ \A m \in Projects : evid[m] \in [meta : 0 .. ids, receipt : 0 .. ids, prov : 0 .. ids]
    /\ \A m \in Projects : art[m] \in [c : 0 .. ids, bin : 0 .. ids]
    /\ \A p \in Procs : /\ proc[p].todo \subseteq Projects
                        /\ proc[p].id \in 0 .. ids
                        /\ proc[p].locked => proc[p].m \in Projects

\* What the validator accepts: the metadata and the sidecar are of one build,
\* and so are the C and the binary that they bind.
Accepts(m) ==
    /\ evid[m].meta = evid[m].prov
    /\ art[m].c = evid[m].prov /\ art[m].bin = evid[m].prov
    /\ evid[m].receipt \in {0, evid[m].prov}

\* "another cooperative build or cleanup cannot observe or leave a committed
\* sidecar without its metadata": a sidecar is there only with all it binds,
\* whoever was killed or failed where.  Only "nomo clean", which removes the
\* files in any order, may have been there since.
Committed ==
    \A m \in Projects \ cleaned : evid[m].prov # 0 => Accepts(m)

\* "Evidence publication is serialized by <target-dir>/.nomo-build.lock".
OneBuilder ==
    \A p, q \in Procs :
        p # q /\ proc[p].locked /\ proc[q].locked => proc[p].m # proc[q].m

\* The process waits for a lock that somebody has.
Waits(p) == \/ At(p, "catalog") /\ catOwner # Nobody
            \/ At(p, "lock") /\ Locked(proc[p].m, proc[p].file)

\* No two commands publish into one target directory at once, and no two wait
\* for each other's target and catalog locks: among the commands that have not
\* ended there is one that can go on.
LocksServe ==
    /\ OneBuilder
    /\ (\E p \in Procs : ~At(p, "idle")) => \E p \in Procs : ~At(p, "idle") /\ ~Waits(p)

\* A build that is about to succeed has published all its evidence.
PublishedWhole ==
    \A p \in Procs : LET r == proc[p] IN
        At(p, "commit") =>
            /\ evid[r.m].meta = r.id /\ art[r.m].c = r.id
            /\ r.kind # "emit" => art[r.m].bin = r.id
            /\ evid[r.m].prov = IF r.kind = "release" THEN r.id ELSE 0
            /\ evid[r.m].receipt = IF r.kind = "release" /\ r.owner THEN r.id ELSE 0

\* Evidence is whole or absent: nobody finds a sidecar without what it binds,
\* and a build that succeeds leaves all of it.
EvidenceWhole == TypeOK /\ Committed /\ PublishedWhole

\* A build that failed left none of its evidence.
AbortClears ==
    \A p \in Procs :
        At(p, "done") /\ proc[p].phase = "abort" /\ proc[p].id # 0 =>
            \A m \in Projects : proc[p].id \notin
                {evid[m].meta, evid[m].receipt, evid[m].prov}

\* A cleanup after a failed discovery that reports no error left no sidecar
\* from before it in any member of the catalog.
CleanupCleared ==
    \A p \in Procs :
        At(p, "done") /\ proc[p].cmd = "cleanup" /\ proc[p].ok =>
            \A m \in proc[p].cat : evid[m].prov = 0 \/ evid[m].prov > proc[p].since

\* Such a cleanup removes only evidence that a receipt binds to the workspace.
OwnedOnly ==
    \A p \in Procs :
        proc[p].phase = "cleanup" /\ proc[p].locked /\ proc'[p] # proc[p]
          /\ evid[proc[p].m].prov # 0 /\ evid'[proc[p].m].prov = 0
        => /\ evid[proc[p].m].receipt = evid[proc[p].m].prov
           /\ evid[proc[p].m].meta = evid[proc[p].m].prov

\* What is cleared is what has to be: failed builds and cleanups leave no
\* evidence of theirs behind and take none of others with them.
ClearedExactly == [][AbortClears' /\ CleanupCleared' /\ OwnedOnly]_vars

\* Every command ends: no two wait for each other's locks.
CommandsEnd == \A p \in Procs : proc[p].at # "idle" ~> proc[p].at = "idle"
=============================================================================
