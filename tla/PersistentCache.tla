--------------------------- MODULE PersistentCache ---------------------------
(***************************************************************************)
(* The persistent query cache that nomo processes share on disk.           *)
(*   crates/nomo/src/incremental.rs          PersistentQueryCache          *)
(*   crates/nomo/src/project.rs              nomo check                    *)
(*   crates/nomo/src/project/build.rs        generated C                   *)
(*   crates/nomo/src/project/testing.rs      test harnesses                *)
(*                                                                         *)
(* Every read, rename and removal of a file is a step; other processes,    *)
(* and editors, act between two of them.  A source file is its content, a  *)
(* fingerprint the contents it was computed from, a digest what it was     *)
(* computed from, and a compilation the contents that it read.             *)
(***************************************************************************)
EXTENDS Integers, FiniteSets, FiniteSetsExt

CONSTANTS
    Procs,          \* the processes
    Files,          \* the Nomo sources of a project, numbers in path order
    Main,           \* the main file, or the file of the test
    Contents,       \* what a source may hold; Bad does not compile
    Bad,
    Queries,        \* which of "check", "debug", "release", "test" are asked
    Maintains,      \* "nomo cache prune" and "nomo cache clean" are run too
    EditedMidway,   \* the sources that are edited while commands run
    Faults,         \* which of "crash", "damage", "write" may happen
    MaxBytes,       \* the capacity, one byte an entry
    MaxCommands,    \* bound: commands run
    MaxEdits        \* bound: edits of a source, and damaged entries

ASSUME FilesAssumption == Files \subseteq Nat /\ IsFiniteSet(Files) /\ Main \in Files
ASSUME ContentsAssumption == Bad \notin Contents
ASSUME QueriesAssumption == Queries \subseteq {"check", "debug", "release", "test"}
ASSUME FaultsAssumption == Faults \subseteq {"crash", "damage", "write"}
ASSUME EditedAssumption == EditedMidway \subseteq Files
ASSUME BoundsAssumption == MaxBytes \in Nat /\ MaxCommands \in Nat /\ MaxEdits \in Nat

VARIABLES
    src,        \* src[f]: the source on disk
    store,      \* the entry files
    clock,      \* the modification time of the last one
    proc,       \* proc[p]: what process p does
    cut,        \* a prune was cut short, and none has listed the files since
    commands,   \* commands so far
    edits,      \* edits so far
    damages     \* damaged entries so far

vars == <<src, store, clock, proc, cut, commands, edits, damages>>

Blank == [f \in Files |-> Bad]
Sources == [Files -> Contents \cup {Bad}]

\* What the compiler answers to query q when it reads the sources s: whether
\* they check and, for C, all that the C depends on.
Value(q, s) ==
    [ok |-> \A f \in Files : s[f] # Bad,
     q |-> q,
     from |-> IF q = "check" THEN Blank ELSE s]

NoValue == [ok |-> FALSE, q |-> "none", from |-> Blank]
NoKey == [q |-> "none", inputs |-> Blank]

Idle == [at |-> "idle", q |-> "none", text |-> Bad, left |-> {}, key |-> NoKey,
         got |-> {}, read |-> Blank, val |-> NoValue, temp |-> "none", list |-> {},
         total |-> 0, calm |-> TRUE]

Init ==
    /\ src \in [Files -> Contents]
    /\ store = {}
    /\ clock = 0
    /\ proc = [p \in Procs |-> Idle]
    /\ cut = FALSE
    /\ commands = 0
    /\ edits = 0
    /\ damages = 0

-----------------------------------------------------------------------------

disk == <<store, clock>>
world == <<src, cut, commands, edits, damages>>

At(p, step) == proc[p].at = step
Becomes(p, r) == proc' = [proc EXCEPT ![p] = r]
Goes(p, step) == Becomes(p, [proc[p] EXCEPT !.at = step])
Returns(r, v) == [r EXCEPT !.at = "return", !.val = v]

\* The entry file with the name of key k, if there is one.
EntryAt(k) == {e \in store : e.path = k}

Cleaning == \E p \in Procs : At(p, "clean")

\* A user saves a source.
Edit(f, c) ==
    /\ edits < MaxEdits /\ src[f] # c
    /\ f \in EditedMidway \/ \A p \in Procs : At(p, "idle")
    /\ src' = [src EXCEPT ![f] = c]
    /\ edits' = edits + 1
    /\ proc' = [p \in Procs |-> [proc[p] EXCEPT !.calm = At(p, "idle")]]
    /\ UNCHANGED <<disk, cut, commands, damages>>

\* An entry file is damaged: other bytes, or the bytes of another entry.
Damage(e) ==
    /\ "damage" \in Faults /\ damages < MaxEdits
    /\ damages' = damages + 1
    /\ \E d \in {[e EXCEPT !.val = [NoValue EXCEPT !.ok = TRUE], !.damaged = TRUE]}
                \cup {[o EXCEPT !.path = e.path, !.damaged = TRUE] : o \in store \ {e}} :
          store' = (store \ {e}) \cup {d}
    /\ UNCHANGED <<src, clock, proc, cut, commands, edits>>

\* A temporary file that is left behind is never read.
Crash(p) ==
    /\ "crash" \in Faults /\ ~At(p, "idle")
    /\ cut' = (cut \/ At(p, "list") \/ At(p, "evict"))
    /\ Becomes(p, Idle)
    /\ UNCHANGED <<src, disk, commands, edits, damages>>

-----------------------------------------------------------------------------
(* The queries.                                                            *)

\* nomo check and nomo test read one source before they compute the key.
StartQuery(p, q) ==
    /\ At(p, "idle") /\ commands < MaxCommands
    /\ commands' = commands + 1
    /\ Becomes(p, [Idle EXCEPT !.q = q, !.left = Files,
                      !.at = IF q \in {"check", "test"} THEN "source" ELSE "fingerprint"])
    /\ UNCHANGED <<src, disk, cut, edits, damages>>

ReadSource(p) ==
    /\ At(p, "source")
    /\ Becomes(p, [proc[p] EXCEPT !.text = src[Main], !.at = "fingerprint"])
    /\ UNCHANGED <<disk, world>>

\* Mutant of Key: the profile is not part of the identity.
KeyOfSources(r, inputs) ==
    [q |-> IF r.q \in {"debug", "release"} THEN "debug" ELSE r.q, inputs |-> inputs]

\* project_query_key: the query and its configuration, and the fingerprint.
Key(r, inputs) == [q |-> r.q, inputs |-> inputs]

\* semantic_inputs: the text of a test overrides its file.
Hashed(r, f) == IF r.q = "test" /\ f = Main THEN r.text ELSE src[f]

\* File after file.
Fingerprint(p) ==
    LET r == proc[p]
        f == Min(r.left)
        inputs == [r.key.inputs EXCEPT ![f] = Hashed(r, f)]
    IN  /\ At(p, "fingerprint")
        /\ Becomes(p, IF r.left = {f}
                      THEN [r EXCEPT !.key = Key(r, inputs), !.left = Files, !.at = "lookup"]
                      ELSE [r EXCEPT !.key = [@ EXCEPT !.inputs = inputs], !.left = @ \ {f}])
        /\ UNCHANGED <<disk, world>>

\* get: the key in the file, and the checksum of the value.
Accepts(e, k) == e.key = k /\ e.sum = e.val

Lookup(p) ==
    LET r == proc[p]
        got == EntryAt(r.key)
    IN  /\ At(p, "lookup")
        /\ Becomes(p, IF got = {} THEN [r EXCEPT !.at = "compile"]
                      ELSE IF \E e \in got : Accepts(e, r.key)
                      THEN Returns(r, (CHOOSE e \in got : TRUE).val)
                      ELSE [r EXCEPT !.got = got, !.at = "reject"])
        /\ UNCHANGED <<disk, world>>

\* A bad entry is removed, or what is under its name by then.
Reject(p) ==
    /\ At(p, "reject")
    /\ store' = store \ EntryAt(proc[p].key)
    /\ Becomes(p, [proc[p] EXCEPT !.got = {}, !.at = "compile"])
    /\ UNCHANGED <<clock, world>>

\* The compiler reads the sources again, but for a text that it is given; only
\* what compiles is stored.
Compile(p) ==
    LET r == proc[p]
        f == Min(r.left)
        text == IF r.q \in {"check", "test"} /\ f = Main THEN r.text ELSE src[f]
        read == [r.read EXCEPT ![f] = text]
        v == Value(r.q, read)
    IN  /\ At(p, "compile")
        /\ Becomes(p, IF r.left # {f} THEN [r EXCEPT !.read = read, !.left = @ \ {f}]
                      ELSE IF v.ok THEN [r EXCEPT !.val = v, !.at = "create"]
                      ELSE Returns(r, v))
        /\ UNCHANGED <<disk, world>>

-----------------------------------------------------------------------------
(* insert: a temporary file that takes the name of the entry.              *)

AfterCreate == "write"

Create(p) ==
    /\ At(p, "create")
    /\ \/ Becomes(p, [proc[p] EXCEPT !.temp = "partial", !.at = AfterCreate])
       \/ /\ "write" \in Faults \/ Cleaning
          /\ Goes(p, "return")
    /\ UNCHANGED <<disk, world>>

Write(p) ==
    /\ At(p, "write")
    /\ \/ Becomes(p, [proc[p] EXCEPT !.temp = "whole", !.at = "rename"])
       \/ "write" \in Faults /\ Becomes(p, [proc[p] EXCEPT !.temp = "none", !.at = "return"])
    /\ UNCHANGED <<disk, world>>

\* atomic_replace.
Replaced(entry) == (store \ EntryAt(entry.path)) \cup {entry}

Rename(p) ==
    LET r == proc[p]
        entry == [path |-> r.key, key |-> r.key, val |-> r.val, time |-> clock + 1,
                  sum |-> IF r.temp = "whole" THEN r.val ELSE NoValue, damaged |-> FALSE]
    IN  /\ At(p, "rename")
        /\ IF r.temp = "none"
           THEN Goes(p, "return") /\ UNCHANGED disk
           ELSE /\ Becomes(p, [r EXCEPT !.temp = "none", !.at = "list"])
                /\ store' = Replaced(entry)
                /\ clock' = clock + 1
        /\ UNCHANGED world

-----------------------------------------------------------------------------
(* prune, after an insertion or as a command, and clean.                   *)

StartPrune(p) ==
    /\ Maintains /\ At(p, "idle") /\ commands < MaxCommands
    /\ commands' = commands + 1
    /\ Becomes(p, [Idle EXCEPT !.q = "prune", !.at = "list"])
    /\ UNCHANGED <<src, disk, cut, edits, damages>>

\* The temporary files of others that are an hour old go, too.  A directory that
\* is being removed makes the listing fail.
List(p) ==
    /\ At(p, "list")
    /\ \/ \E old \in SUBSET {q \in Procs \ {p} : proc[q].temp # "none"} :
             /\ proc' = [q \in Procs |->
                   IF q = p THEN [proc[p] EXCEPT !.list = store, !.total = Cardinality(store),
                                                 !.at = "evict"]
                   ELSE IF q \in old THEN [proc[q] EXCEPT !.temp = "none"] ELSE proc[q]]
             /\ cut' = FALSE
       \/ Cleaning /\ cut' = TRUE /\ Goes(p, "return")
    /\ UNCHANGED <<src, disk, commands, edits, damages>>

\* Mutant of Full: one entry too many stays.
FullBeyond(r) == r.total > MaxBytes + 1

Full(r) == r.total > MaxBytes

\* The oldest listed file first; one that is gone frees nothing.
Evict(p) ==
    LET r == proc[p]
        oldest == CHOOSE e \in r.list : \A o \in r.list : e.time <= o.time
        there == EntryAt(oldest.path)
    IN  /\ At(p, "evict")
        /\ IF Full(r) /\ r.list # {}
           THEN /\ store' = store \ there
                /\ Becomes(p, [r EXCEPT !.list = @ \ {oldest},
                                        !.total = @ - Cardinality(there)])
           ELSE Becomes(p, [r EXCEPT !.list = {}, !.total = 0, !.at = "return"])
                /\ UNCHANGED store
        /\ UNCHANGED <<clock, world>>

StartClean(p) ==
    /\ Maintains /\ At(p, "idle") /\ commands < MaxCommands
    /\ commands' = commands + 1
    /\ Becomes(p, [Idle EXCEPT !.q = "clean", !.at = "clean"])
    /\ UNCHANGED <<src, disk, cut, edits, damages>>

\* remove_dir_all, one file after the other.
CleanFile(p) ==
    /\ At(p, "clean")
    /\ \/ \E e \in store : store' = store \ {e} /\ UNCHANGED proc
       \/ \E q \in Procs : /\ proc[q].temp # "none"
                           /\ proc' = [proc EXCEPT ![q].temp = "none"]
                           /\ UNCHANGED store
    /\ UNCHANGED <<clock, world>>

\* It ends when nothing is left, or when a file is added that it does not expect.
CleanEnds(p) ==
    /\ At(p, "clean")
    /\ \/ store = {} /\ \A q \in Procs : proc[q].temp = "none"
       \/ \E q \in Procs : At(q, "list") \/ proc[q].temp # "none"
    /\ Goes(p, "return")
    /\ UNCHANGED <<disk, world>>

Return(p) ==
    /\ At(p, "return")
    /\ Becomes(p, Idle)
    /\ UNCHANGED <<disk, world>>

-----------------------------------------------------------------------------

Step(p) ==
    \/ ReadSource(p) \/ Fingerprint(p) \/ Lookup(p) \/ Reject(p) \/ Compile(p)
    \/ Create(p) \/ Write(p) \/ Rename(p) \/ List(p) \/ Evict(p)
    \/ CleanFile(p) \/ CleanEnds(p) \/ Return(p)

Next ==
    \/ \E f \in Files, c \in Contents \cup {Bad} : Edit(f, c)
    \/ \E e \in store : Damage(e)
    \/ \E p \in Procs :
          \/ \E q \in Queries : StartQuery(p, q)
          \/ StartPrune(p) \/ StartClean(p) \/ Step(p) \/ Crash(p)

Spec == Init /\ [][Next]_vars

\* A process goes on with its command.
LiveSpec == Spec /\ \A p \in Procs : WF_vars(Step(p))

-----------------------------------------------------------------------------

\* The type of the state.
TypeOK ==
    /\ src \in Sources
    /\ \A e \in store : /\ e.path.inputs \in Sources /\ e.key.inputs \in Sources
                        /\ e.time \in 1 .. clock
    /\ \A e, o \in store : e.path = o.path => e = o
    /\ \A p \in Procs : /\ proc[p].left \subseteq Files
                        /\ proc[p].total \in 0 .. clock

\* "deleting it, losing it, or rejecting an entry must produce the same
\* diagnostics and generated output as a clean invocation": what a command that
\* saw no edit returns is what the compiler says of the sources.
CleanSame ==
    \A p \in Procs :
        At(p, "return") /\ proc[p].q \in Queries /\ proc[p].calm =>
            proc[p].val = Value(proc[p].q, src)

\* "concurrent readers never observe a partial value": an entry is rejected only
\* when somebody damaged it.
RejectsDamaged ==
    \A p \in Procs : At(p, "reject") => \A e \in proc[p].got : e.damaged

\* The cache is only an optimization: no command sees the difference, and none
\* takes a partial entry for a damaged one.
AnswersClean == TypeOK /\ CleanSame /\ RejectsDamaged

\* "New writes evict the oldest entry files until the cache is within capacity":
\* when no command runs, and no prune was cut short, it is, however insertions
\* and prunes overlapped.
CapacityKept ==
    (\A p \in Procs : At(p, "idle")) /\ ~cut => Cardinality(store) <= MaxBytes

\* Every command ends, whatever the others do to the files.
CommandsEnd == \A p \in Procs : proc[p].at # "idle" ~> proc[p].at = "idle"
=============================================================================
