------------------------ MODULE PersistentCacheProofs ------------------------
(***************************************************************************)
(* The persistent query cache is within its capacity when nobody works on  *)
(* it, and nobody sees the difference between an answer from it and one    *)
(* from the compiler, for all processes, sources and failures.             *)
(*                                                                         *)
(* One hypothesis appears, and only for the answers: no source is edited   *)
(* while a command runs, but for the file of a test, which is read once.   *)
(* MCPersistentCache_stale shows a wrong answer without it.                *)
(***************************************************************************)
EXTENDS PersistentCache, FiniteSetTheorems, WellFoundedInduction, TLAPS

Steady == \A q \in Queries : EditedMidway \subseteq IF q = "test" THEN {Main} ELSE {}

-----------------------------------------------------------------------------
(* The inductive invariants.                                               *)

Names == {"none", "check", "debug", "release", "test"}
Values == [ok : BOOLEAN, q : Names, from : Sources]
Keys == [q : Names, inputs : Sources]
Entries == [path : Keys, key : Keys, val : Values, time : Nat, sum : Values,
            damaged : BOOLEAN]

Asking == {"source", "fingerprint", "lookup", "reject", "compile", "create", "write",
           "rename"}

Records ==
    [at : Asking \cup {"idle", "list", "evict", "clean", "return"},
     q : Names \cup {"prune", "clean"}, text : Contents \cup {Bad}, left : SUBSET Files,
     key : Keys, got : SUBSET Entries, read : Sources, val : Values,
     temp : {"none", "partial", "whole"}, list : SUBSET Entries, total : Nat,
     calm : BOOLEAN]

\* What the step of a command says of the rest of its record.
Shape(r) ==
    /\ r.at = "idle" => r.q = "none"
    /\ r.at = "clean" => r.q = "clean"
    /\ r.at \in Asking => r.q \in Queries
    /\ r.at \in {"fingerprint", "compile"} => r.left # {}
    /\ r.at \in {"source", "lookup", "reject"} => r.left = Files
    /\ r.at = "rename" => r.temp \in {"whole", "none"}
    /\ r.at = "reject" => \A e \in r.got : e.damaged

Types ==
    /\ src \in Sources
    /\ store \in SUBSET Entries /\ IsFiniteSet(store)
    /\ clock \in Nat
    /\ proc \in [Procs -> Records]

Shapes == \A p \in Procs : Shape(proc[p])

\* A name is that of one file, and what nobody damaged is what was written.
Filed(s, now) ==
    /\ \A e, o \in s : e.path = o.path => e = o
    /\ \A e \in s : e.time \in 1 .. now
    /\ \A e \in s : ~e.damaged => e.key = e.path /\ e.sum = e.val
    /\ Cardinality(s) <= now

Counted == \A p \in Procs : proc[p].total <= clock

FilesInv == Types /\ Shapes /\ Filed(store, clock) /\ Counted

\* What the prune of r has listed covers all that is there.
Covers(r, s) ==
    /\ r.at = "evict" /\ Cardinality(s) <= r.total
    /\ \A e \in s : \E o \in r.list : o.path = e.path

\* If the cache is beyond its capacity, somebody will list the files or has
\* listed all of them.
CapacityInv ==
    \/ cut
    \/ Cardinality(store) <= MaxBytes
    \/ \E p \in Procs : At(p, "list") \/ Covers(proc[p], store)

\* An entry whose checksum is right holds what the compiler says of its key.
Genuine(e) ==
    /\ e.sum.q # "none" \/ ~e.sum.ok
    /\ e.sum = e.val => e.val = Value(e.key.q, e.key.inputs)

\* The content of f that command r is to answer for, when the sources are s.
Seen(r, s, f) == IF r.q = "test" /\ f = Main THEN r.text ELSE s[f]

\* A query has read, and computed from, the sources s.
Faithful(r, s) ==
    r.q \in Queries =>
        /\ r.at # "source" /\ (r.q = "check" \/ (r.q = "test" /\ r.calm)) => r.text = s[Main]
        /\ r.at = "fingerprint" => \A f \in Files \ r.left : r.key.inputs[f] = Seen(r, s, f)
        /\ r.at \notin {"source", "fingerprint"} =>
              r.key.q = r.q /\ \A f \in Files : r.key.inputs[f] = Seen(r, s, f)
        /\ r.at = "compile" => \A f \in Files \ r.left : r.read[f] = Seen(r, s, f)
        /\ r.at \in {"create", "write", "rename", "list", "evict", "return"} =>
              r.val = Value(r.q, r.key.inputs)

AnswersInv ==
    /\ FilesInv
    /\ \A e \in store : Genuine(e)
    /\ \A p \in Procs : Faithful(proc[p], src)

-----------------------------------------------------------------------------
(* The operators of the model.                                             *)

Less == {s \in Nat \X Nat : s[1] < s[2]}

\* A set of numbers has a least one.
LEMMA MinIn ==
    ASSUME NEW S \in SUBSET Nat, S # {}
    PROVE  Min(S) \in S
<1>1. OpToRel(<, Nat) = Less
  BY Zenon DEF OpToRel, Less
<1>2. PICK x \in S : \A y \in S : ~ (<<y, x>> \in Less)
  BY <1>1, NatLessThanWellFounded, WFMin, Zenon
<1>3. ASSUME NEW y \in S PROVE x <= y
  <2>1. x \in Nat /\ y \in Nat /\ ~ (<<y, x>> \in Less)
    BY <1>2
  <2> QED
    BY <2>1 DEF Less
<1> QED
  BY <1>3 DEF Min

\* The next source that a command reads.
LEMMA NextSource ==
    ASSUME NEW left \in SUBSET Files, left # {}
    PROVE  Min(left) \in left /\ Min(left) \in Files
BY FilesAssumption, MinIn

LEMMA NamesOf == Blank \in Sources /\ NoValue \in Values /\ NoKey \in Keys
BY DEF Blank, Sources, NoValue, Values, NoKey, Keys, Names

\* What the compiler answers is a value.
LEMMA ValueOf ==
    ASSUME NEW q \in Queries, NEW s \in Sources
    PROVE  Value(q, s) \in Values /\ Value(q, s).q = q
<1>1. q \in Names /\ q # "none"
  BY QueriesAssumption DEF Names
<1>2. (IF q = "check" THEN Blank ELSE s) \in Sources
  BY NamesOf
<1>3. (\A f \in Files : s[f] # Bad) \in BOOLEAN
  OBVIOUS
<1> QED
  BY <1>1, <1>2, <1>3 DEF Value, Values

\* It depends on the sources only.
LEMMA ValueSame ==
    ASSUME NEW s \in Sources, NEW t \in Sources, \A f \in Files : s[f] = t[f], NEW q
    PROVE  Value(q, s) = Value(q, t)
<1>1. s = t
  BY DEF Sources
<1> QED
  BY <1>1

LEMMA IdleRecord == Idle \in Records /\ Shape(Idle) /\ \A s : Faithful(Idle, s)
<1>1. Idle \in Records
  BY NamesOf DEF Idle, Records, Names
<1>2. Idle.q = "none" /\ Idle.at = "idle"
  BY DEF Idle
<1>3. "none" \notin Queries
  BY QueriesAssumption
<1> QED
  BY <1>1, <1>2, <1>3 DEF Shape, Asking, Faithful

-----------------------------------------------------------------------------
(* A step leaves every record in shape.                                    *)

\* The temporary file of r is gone.
Deserted(r) == [r EXCEPT !.temp = "none"]

LEMMA DesertedRecord ==
    ASSUME NEW r \in Records, Shape(r)
    PROVE  LET s == Deserted(r)
           IN  /\ s \in Records /\ Shape(s) /\ s.total = r.total /\ s.at = r.at
               /\ s.list = r.list
               /\ \A w : Faithful(r, w) => Faithful(s, w)
<1> DEFINE s == Deserted(r)
<1>1. s \in Records
  BY DEF Deserted, Records
<1>2. /\ s.at = r.at /\ s.q = r.q /\ s.text = r.text /\ s.left = r.left /\ s.key = r.key
      /\ s.got = r.got /\ s.read = r.read /\ s.val = r.val /\ s.temp = "none"
      /\ s.list = r.list /\ s.total = r.total /\ s.calm = r.calm
  BY DEF Deserted, Records
<1> HIDE DEF s
<1>3. Shape(s)
  BY <1>2 DEF Shape
<1>4. \A w : Faithful(r, w) => Faithful(s, w)
  BY <1>2 DEF Faithful, Seen
<1> QED
  BY <1>1, <1>2, <1>3, <1>4 DEF s

\* What every step of p does to the records, and what it does if the entries are
\* genuine.
Stepped(p) ==
    /\ proc' \in [Procs -> Records]
    /\ Shape(proc'[p]) /\ proc'[p].total <= clock'
    /\ \A q \in Procs : q # p => proc'[q] \in {proc[q], Deserted(proc[q])}

Honest(p) ==
    (\A e \in store : Genuine(e)) /\ Faithful(proc[p], src) => Faithful(proc'[p], src)

\* The step changes the record of p only, to t.
LEMMA Steps ==
    ASSUME FilesInv, NEW p \in Procs, NEW t \in Records, Becomes(p, t), Shape(t),
           t.total <= clock',
           (\A e \in store : Genuine(e)) /\ Faithful(proc[p], src) => Faithful(t, src)
    PROVE  Stepped(p) /\ Honest(p) /\ proc'[p] = t
<1>1. /\ proc' \in [Procs -> Records] /\ proc'[p] = t
      /\ \A q \in Procs : q # p => proc'[q] = proc[q]
  BY DEF FilesInv, Types, Becomes
<1> QED
  BY <1>1 DEF Stepped, Honest

\* What is the same before each step.
LEMMA Before ==
    ASSUME FilesInv, NEW p \in Procs
    PROVE  LET r == proc[p]
           IN  /\ r \in Records /\ Shape(r) /\ clock \in Nat /\ src \in Sources
               /\ r.total \in Nat /\ r.total <= clock
               /\ store \in SUBSET Entries /\ IsFiniteSet(store)
               /\ (r.q \in Queries => r.q \in Names)
<1>1. proc[p] \in Records
  BY DEF FilesInv, Types
<1>2. proc[p].total \in Nat
  BY <1>1 DEF Records
<1> QED
  BY <1>1, <1>2, QueriesAssumption DEF FilesInv, Types, Shapes, Counted, Names

\* A command that does nothing but go on.
LEMMA GoesOn ==
    ASSUME NEW r \in Records, Shape(r), NEW step \in {"list", "return"},
           NEW t, t = [r EXCEPT !.at = step],
           r.at \in {"create", "rename", "list", "evict", "clean", "return"}
    PROVE  /\ t \in Records /\ Shape(t) /\ t.total = r.total
           /\ \A w : Faithful(r, w) => Faithful(t, w)
<1>1. t \in Records
  BY DEF Records
<1>2. /\ t.at = step /\ t.q = r.q /\ t.text = r.text /\ t.left = r.left /\ t.key = r.key
      /\ t.read = r.read /\ t.val = r.val /\ t.total = r.total /\ t.calm = r.calm
  BY DEF Records
<1>3. Shape(t)
  BY <1>2 DEF Shape, Asking
<1>4. r.at = "clean" => r.q \notin Queries
  BY QueriesAssumption DEF Shape
<1>5. \A w : Faithful(r, w) => Faithful(t, w)
  BY <1>2, <1>4 DEF Faithful, Seen
<1> QED
  BY <1>1, <1>2, <1>3, <1>5

LEMMA ReadSourceStepped ==
    ASSUME FilesInv, NEW p \in Procs, ReadSource(p)
    PROVE  Stepped(p) /\ Honest(p)
<1> DEFINE r == proc[p]
           text == src[Main]
           t == [r EXCEPT !.text = text, !.at = "fingerprint"]
<1>1. /\ r \in Records /\ Shape(r) /\ r.at = "source" /\ clock' = clock /\ r.total <= clock
      /\ Becomes(p, t) /\ src \in Sources
  BY Before DEF ReadSource, At, disk
<1>2. text \in Contents \cup {Bad}
  BY <1>1, FilesAssumption DEF Sources
<1>3. text = src[Main]
  OBVIOUS
<1> HIDE DEF text
<1>4. t \in Records
  BY <1>1, <1>2 DEF Records, Asking
<1>5. /\ t.at = "fingerprint" /\ t.q = r.q /\ t.text = text /\ t.left = r.left
      /\ t.total = r.total /\ t.calm = r.calm /\ t.key = r.key
  BY <1>1 DEF Records
<1> HIDE DEF t
<1>6. r.left = Files /\ Files # {} /\ r.q \in Queries
  BY <1>1, FilesAssumption DEF Shape, Asking
<1>7. Shape(t)
  BY <1>5, <1>6 DEF Shape, Asking
<1>8. Faithful(t, src)
  BY <1>3, <1>5, <1>6 DEF Faithful
<1> QED
  BY <1>1, <1>4, <1>5, <1>7, <1>8, Steps

LEMMA FingerprintStepped ==
    ASSUME FilesInv, NEW p \in Procs, Fingerprint(p)
    PROVE  Stepped(p) /\ Honest(p)
<1> DEFINE r == proc[p]
           f == Min(r.left)
           text == Hashed(r, f)
           inputs == [r.key.inputs EXCEPT ![f] = text]
           rest == r.left \ {f}
<1>1. /\ r \in Records /\ Shape(r) /\ r.at = "fingerprint" /\ clock' = clock
      /\ r.total <= clock /\ src \in Sources
      /\ Becomes(p, IF r.left = {f}
                    THEN [r EXCEPT !.key = Key(r, inputs), !.left = Files, !.at = "lookup"]
                    ELSE [r EXCEPT !.key = [@ EXCEPT !.inputs = inputs], !.left = @ \ {f}])
  BY Before DEF Fingerprint, At, disk
<1>2. /\ r.q \in Queries /\ r.q \in Names /\ r.left # {} /\ r.left \in SUBSET Files
      /\ r.key \in Keys /\ r.key.inputs \in Sources /\ r.text \in Contents \cup {Bad}
  BY <1>1, QueriesAssumption DEF Shape, Asking, Records, Keys, Names
<1>3. f \in r.left /\ f \in Files
  BY <1>2, NextSource
<1>4. text = Seen(r, src, f) /\ text \in Contents \cup {Bad}
  BY <1>1, <1>2, <1>3 DEF Hashed, Seen, Sources
<1> HIDE DEF f, text
<1>5. /\ inputs \in Sources /\ inputs[f] = text
      /\ \A g \in Files : g # f => inputs[g] = r.key.inputs[g]
  BY <1>2, <1>3, <1>4 DEF Sources
<1> HIDE DEF inputs
<1>6. CASE r.left = {f}
  <2> DEFINE key == [q |-> r.q, inputs |-> inputs]
             t == [r EXCEPT !.key = key, !.left = Files, !.at = "lookup"]
  <2>1. Becomes(p, t)
    BY <1>1, <1>6 DEF Key
  <2>2. key \in Keys /\ key.q = r.q /\ key.inputs = inputs
    BY <1>2, <1>5 DEF Keys
  <2> HIDE DEF key
  <2>3. t \in Records
    BY <1>1, <2>2 DEF Records, Asking
  <2>4. /\ t.at = "lookup" /\ t.q = r.q /\ t.text = r.text /\ t.left = Files
        /\ t.total = r.total /\ t.calm = r.calm /\ t.key = key
    BY <1>1 DEF Records
  <2> HIDE DEF t
  <2>5. Shape(t)
    BY <1>2, <2>4 DEF Shape, Asking
  <2>6. ASSUME Faithful(r, src) PROVE Faithful(t, src)
    <3>1. \A g \in Files : inputs[g] = Seen(r, src, g)
      BY <1>1, <1>2, <1>4, <1>5, <1>6, <2>6 DEF Faithful
    <3>2. \A g \in Files : Seen(t, src, g) = Seen(r, src, g)
      BY <2>4 DEF Seen
    <3> QED
      BY <1>1, <1>2, <2>2, <2>4, <2>6, <3>1, <3>2 DEF Faithful
  <2> QED
    BY <1>1, <2>1, <2>3, <2>4, <2>5, <2>6, Steps
<1>7. CASE r.left # {f}
  <2> DEFINE key == [r.key EXCEPT !.inputs = inputs]
             t == [r EXCEPT !.key = key, !.left = rest]
  <2>1. Becomes(p, t)
    BY <1>1, <1>7
  <2>2. key \in Keys /\ key.inputs = inputs
    BY <1>2, <1>5 DEF Keys
  <2>3. rest \in SUBSET Files /\ rest # {}
    BY <1>2, <1>3, <1>7
  <2> HIDE DEF key, rest
  <2>4. t \in Records
    BY <1>1, <2>2, <2>3 DEF Records, Asking
  <2>5. /\ t.at = "fingerprint" /\ t.q = r.q /\ t.text = r.text /\ t.left = rest
        /\ t.total = r.total /\ t.calm = r.calm /\ t.key = key
    BY <1>1 DEF Records
  <2> HIDE DEF t
  <2>6. Shape(t)
    BY <1>2, <2>3, <2>5 DEF Shape, Asking
  <2>7. ASSUME Faithful(r, src) PROVE Faithful(t, src)
    <3>1. \A g \in Files \ rest : inputs[g] = Seen(r, src, g)
      BY <1>1, <1>2, <1>4, <1>5, <2>7 DEF Faithful, rest
    <3>2. \A g \in Files : Seen(t, src, g) = Seen(r, src, g)
      BY <2>5 DEF Seen
    <3> QED
      BY <1>1, <1>2, <2>2, <2>5, <2>7, <3>1, <3>2 DEF Faithful
  <2> QED
    BY <1>1, <2>1, <2>4, <2>5, <2>6, <2>7, Steps
<1> QED
  BY <1>6, <1>7

\* A name that is there is that of one entry.
LEMMA OneEntry ==
    ASSUME FilesInv, NEW k, NEW e \in EntryAt(k)
    PROVE  EntryAt(k) = {e}
BY DEF FilesInv, Filed, EntryAt

LEMMA LookupStepped ==
    ASSUME FilesInv, NEW p \in Procs, Lookup(p)
    PROVE  Stepped(p) /\ Honest(p)
<1> DEFINE r == proc[p]
           got == EntryAt(r.key)
<1>1. /\ r \in Records /\ Shape(r) /\ r.at = "lookup" /\ clock' = clock /\ r.total <= clock
      /\ Becomes(p, IF got = {} THEN [r EXCEPT !.at = "compile"]
                    ELSE IF \E e \in got : Accepts(e, r.key)
                    THEN Returns(r, (CHOOSE e \in got : TRUE).val)
                    ELSE [r EXCEPT !.got = got, !.at = "reject"])
  BY Before DEF Lookup, At, disk
<1>2. /\ r.q \in Queries /\ r.left = Files /\ Files # {} /\ got \in SUBSET Entries
  BY <1>1, Before, FilesAssumption DEF Shape, Asking, EntryAt
<1>3. CASE got = {}
  <2> DEFINE t == [r EXCEPT !.at = "compile"]
  <2>1. t \in Records
    BY <1>1 DEF Records, Asking
  <2>2. /\ t.at = "compile" /\ t.q = r.q /\ t.text = r.text /\ t.left = r.left
        /\ t.total = r.total /\ t.calm = r.calm /\ t.key = r.key
    BY <1>1 DEF Records
  <2>3. Becomes(p, t)
    BY <1>1, <1>3
  <2> HIDE DEF t
  <2>4. Shape(t)
    BY <1>2, <2>2 DEF Shape, Asking
  <2>5. ASSUME Faithful(r, src) PROVE Faithful(t, src)
    BY <1>1, <1>2, <2>2, <2>5 DEF Faithful, Seen
  <2> QED
    BY <1>1, <2>1, <2>2, <2>3, <2>4, <2>5, Steps
<1>4. CASE \E e \in got : Accepts(e, r.key)
  <2>1. PICK e \in got : Accepts(e, r.key)
    BY <1>4
  <2>2. got = {e}
    BY <2>1, OneEntry
  <2> DEFINE v == e.val
             t == [r EXCEPT !.at = "return", !.val = v]
  <2>3. Becomes(p, t)
    BY <1>1, <2>1, <2>2 DEF Returns
  <2>4. v \in Values /\ e \in store
    BY <1>2 DEF Entries, EntryAt
  <2>5. e.key = r.key /\ e.sum = v
    BY <2>1 DEF Accepts
  <2> HIDE DEF v
  <2>6. t \in Records
    BY <1>1, <2>4 DEF Records, Asking
  <2>7. /\ t.at = "return" /\ t.q = r.q /\ t.text = r.text /\ t.val = v
        /\ t.total = r.total /\ t.calm = r.calm /\ t.key = r.key
    BY <1>1 DEF Records
  <2> HIDE DEF t
  <2>8. Shape(t)
    BY <2>7 DEF Shape, Asking
  <2>9. ASSUME Faithful(r, src), Genuine(e) PROVE Faithful(t, src)
    <3>1. r.key.q = r.q
      BY <1>1, <1>2, <2>9 DEF Faithful
    <3>2. v = Value(r.q, r.key.inputs)
      BY <2>5, <2>9, <3>1 DEF Genuine, v
    <3> QED
      BY <1>1, <1>2, <2>7, <2>9, <3>2 DEF Faithful, Seen
  <2> QED
    BY <1>1, <2>3, <2>4, <2>6, <2>7, <2>8, <2>9, Steps
<1>5. CASE got # {} /\ ~ \E e \in got : Accepts(e, r.key)
  <2> DEFINE t == [r EXCEPT !.got = got, !.at = "reject"]
  <2>1. Becomes(p, t)
    BY <1>1, <1>5
  <2>2. \A e \in got : e.damaged
    <3>1. \A e \in got : e \in store /\ e.path = r.key /\ ~Accepts(e, r.key)
      BY <1>5 DEF EntryAt
    <3> QED
      BY <3>1 DEF Accepts, FilesInv, Filed
  <2> HIDE DEF got
  <2>3. t \in Records
    BY <1>1, <1>2 DEF Records, Asking
  <2>4. /\ t.at = "reject" /\ t.q = r.q /\ t.text = r.text /\ t.left = r.left /\ t.got = got
        /\ t.total = r.total /\ t.calm = r.calm /\ t.key = r.key
    BY <1>1 DEF Records
  <2> HIDE DEF t
  <2>5. Shape(t)
    BY <1>2, <2>2, <2>4 DEF Shape, Asking
  <2>6. ASSUME Faithful(r, src) PROVE Faithful(t, src)
    BY <1>1, <1>2, <2>4, <2>6 DEF Faithful, Seen
  <2> QED
    BY <1>1, <2>1, <2>3, <2>4, <2>5, <2>6, Steps
<1> QED
  BY <1>3, <1>4, <1>5

LEMMA RejectStepped ==
    ASSUME FilesInv, NEW p \in Procs, Reject(p)
    PROVE  Stepped(p) /\ Honest(p)
<1> DEFINE r == proc[p]
           t == [r EXCEPT !.got = {}, !.at = "compile"]
<1>1. /\ r \in Records /\ Shape(r) /\ r.at = "reject" /\ clock' = clock /\ r.total <= clock
      /\ Becomes(p, t)
  BY Before DEF Reject, At
<1>2. r.q \in Queries /\ r.left = Files /\ Files # {}
  BY <1>1, FilesAssumption DEF Shape, Asking
<1>3. t \in Records
  BY <1>1 DEF Records, Asking
<1>4. /\ t.at = "compile" /\ t.q = r.q /\ t.text = r.text /\ t.left = r.left
      /\ t.total = r.total /\ t.calm = r.calm /\ t.key = r.key
  BY <1>1 DEF Records
<1> HIDE DEF t
<1>5. Shape(t)
  BY <1>2, <1>4 DEF Shape, Asking
<1>6. ASSUME Faithful(r, src) PROVE Faithful(t, src)
  BY <1>1, <1>2, <1>4, <1>6 DEF Faithful, Seen
<1> QED
  BY <1>1, <1>3, <1>4, <1>5, <1>6, Steps

LEMMA CompileStepped ==
    ASSUME FilesInv, NEW p \in Procs, Compile(p)
    PROVE  Stepped(p) /\ Honest(p)
<1> DEFINE r == proc[p]
           f == Min(r.left)
           text == IF r.q \in {"check", "test"} /\ f = Main THEN r.text ELSE src[f]
           read == [r.read EXCEPT ![f] = text]
           v == Value(r.q, read)
           rest == r.left \ {f}
<1>1. /\ r \in Records /\ Shape(r) /\ r.at = "compile" /\ clock' = clock
      /\ r.total <= clock /\ src \in Sources
      /\ Becomes(p, IF r.left # {f} THEN [r EXCEPT !.read = read, !.left = @ \ {f}]
                    ELSE IF v.ok THEN [r EXCEPT !.val = v, !.at = "create"]
                    ELSE Returns(r, v))
  BY Before DEF Compile, At, disk
<1>2. /\ r.q \in Queries /\ r.left # {} /\ r.left \in SUBSET Files /\ r.read \in Sources
      /\ r.key.inputs \in Sources /\ r.text \in Contents \cup {Bad}
  BY <1>1 DEF Shape, Asking, Records, Keys
<1>3. f \in r.left /\ f \in Files
  BY <1>2, NextSource
<1>4. text \in Contents \cup {Bad} /\ (Faithful(r, src) => text = Seen(r, src, f))
  BY <1>1, <1>2, <1>3 DEF Faithful, Seen, Sources
<1> HIDE DEF f, text
<1>5. /\ read \in Sources /\ read[f] = text
      /\ \A g \in Files : g # f => read[g] = r.read[g]
  BY <1>2, <1>3, <1>4 DEF Sources
<1> HIDE DEF read
<1>6. v \in Values
  BY <1>2, <1>5, ValueOf
<1>7. v = Value(r.q, read)
  OBVIOUS
<1> HIDE DEF v
<1>8. ASSUME Faithful(r, src) PROVE \A g \in Files \ rest : read[g] = Seen(r, src, g)
  BY <1>1, <1>2, <1>3, <1>4, <1>5, <1>8 DEF Faithful
<1>9. CASE r.left # {f}
  <2> DEFINE t == [r EXCEPT !.read = read, !.left = rest]
  <2>1. Becomes(p, t)
    BY <1>1, <1>9
  <2>2. rest \in SUBSET Files /\ rest # {}
    BY <1>2, <1>3, <1>9
  <2> HIDE DEF rest
  <2>3. t \in Records
    BY <1>1, <1>5, <2>2 DEF Records, Asking
  <2>4. /\ t.at = "compile" /\ t.q = r.q /\ t.text = r.text /\ t.left = rest
        /\ t.total = r.total /\ t.calm = r.calm /\ t.key = r.key /\ t.read = read
    BY <1>1 DEF Records
  <2> HIDE DEF t
  <2>5. Shape(t)
    BY <1>2, <2>2, <2>4 DEF Shape, Asking
  <2>6. ASSUME Faithful(r, src) PROVE Faithful(t, src)
    <3>1. \A g \in Files : Seen(t, src, g) = Seen(r, src, g)
      BY <2>4 DEF Seen
    <3> QED
      BY <1>1, <1>2, <1>8, <2>4, <2>6, <3>1 DEF Faithful
  <2> QED
    BY <1>1, <2>1, <2>3, <2>4, <2>5, <2>6, Steps
<1>10. CASE r.left = {f}
  <2>1. ASSUME NEW step \in {"create", "return"}, Becomes(p, [r EXCEPT !.val = v, !.at = step])
        PROVE  Stepped(p) /\ Honest(p)
    <3> DEFINE t == [r EXCEPT !.val = v, !.at = step]
    <3>1. t \in Records
      BY <1>1, <1>6 DEF Records, Asking
    <3>2. /\ t.at = step /\ t.q = r.q /\ t.text = r.text /\ t.val = v
          /\ t.total = r.total /\ t.calm = r.calm /\ t.key = r.key
      BY <1>1 DEF Records
    <3>3. Becomes(p, t)
      BY <2>1
    <3> HIDE DEF t
    <3>4. Shape(t)
      BY <1>2, <3>2 DEF Shape, Asking
    <3>5. ASSUME Faithful(r, src) PROVE Faithful(t, src)
      <4>1. \A g \in Files : Seen(t, src, g) = Seen(r, src, g)
        BY <3>2 DEF Seen
      <4>2. \A g \in Files : read[g] = Seen(r, src, g)
        BY <1>8, <1>10, <3>5
      <4>3. \A g \in Files : r.key.inputs[g] = Seen(r, src, g)
        BY <1>1, <1>2, <3>5 DEF Faithful
      <4>4. v = Value(r.q, r.key.inputs)
        BY <1>2, <1>5, <1>7, <4>2, <4>3, ValueSame
      <4> QED
        BY <1>1, <1>2, <3>2, <3>5, <4>1, <4>4 DEF Faithful
    <3> QED
      BY <1>1, <3>1, <3>2, <3>3, <3>4, <3>5, Steps
  <2>2. \/ Becomes(p, [r EXCEPT !.val = v, !.at = "create"])
        \/ Becomes(p, [r EXCEPT !.val = v, !.at = "return"])
    BY <1>1, <1>10 DEF Returns
  <2> QED
    BY <2>1, <2>2
<1> QED
  BY <1>9, <1>10

LEMMA WriteStepped ==
    ASSUME FilesInv, NEW p \in Procs, Create(p) \/ Write(p)
    PROVE  Stepped(p) /\ Honest(p)
<1> DEFINE r == proc[p]
<1>1. /\ r \in Records /\ Shape(r) /\ r.at \in {"create", "write"} /\ clock' = clock
      /\ r.total <= clock
  BY Before DEF Create, Write, At, disk
<1>2. r.q \in Queries
  BY <1>1 DEF Shape, Asking
<1>3. \/ \E temp \in {"none", "partial", "whole"}, step \in {"write", "rename", "return"} :
             /\ step = "rename" => temp = "whole"
             /\ Becomes(p, [r EXCEPT !.temp = temp, !.at = step])
      \/ Becomes(p, [r EXCEPT !.at = "return"])
  BY DEF Create, Write, AfterCreate, Goes
<1>4. ASSUME NEW temp \in {"none", "partial", "whole"}, NEW step \in {"write", "rename", "return"},
             step = "rename" => temp = "whole",
             Becomes(p, [r EXCEPT !.temp = temp, !.at = step])
      PROVE  Stepped(p) /\ Honest(p)
  <2> DEFINE t == [r EXCEPT !.temp = temp, !.at = step]
  <2>1. t \in Records
    BY <1>1 DEF Records, Asking
  <2>2. /\ t.at = step /\ t.q = r.q /\ t.text = r.text /\ t.val = r.val /\ t.temp = temp
        /\ t.total = r.total /\ t.calm = r.calm /\ t.key = r.key
    BY <1>1 DEF Records
  <2>3. Becomes(p, t)
    BY <1>4
  <2> HIDE DEF t
  <2>4. Shape(t)
    BY <1>2, <1>4, <2>2 DEF Shape, Asking
  <2>5. ASSUME Faithful(r, src) PROVE Faithful(t, src)
    BY <1>1, <1>2, <2>2, <2>5 DEF Faithful, Seen
  <2> QED
    BY <1>1, <2>1, <2>2, <2>3, <2>4, <2>5, Steps
<1>5. CASE Becomes(p, [r EXCEPT !.at = "return"])
  <2> DEFINE t == [r EXCEPT !.at = "return"]
  <2>1. t \in Records
    BY <1>1 DEF Records, Asking
  <2>2. /\ t.at = "return" /\ t.q = r.q /\ t.text = r.text /\ t.val = r.val
        /\ t.total = r.total /\ t.calm = r.calm /\ t.key = r.key
    BY <1>1 DEF Records
  <2>3. Becomes(p, t)
    BY <1>5
  <2> HIDE DEF t
  <2>4. Shape(t)
    BY <2>2 DEF Shape, Asking
  <2>5. ASSUME Faithful(r, src) PROVE Faithful(t, src)
    BY <1>1, <1>2, <2>2, <2>5 DEF Faithful, Seen
  <2> QED
    BY <1>1, <2>1, <2>2, <2>3, <2>4, <2>5, Steps
<1> QED
  BY <1>3, <1>4, <1>5

\* The file that a rename puts in place.
Entry(r) == [path |-> r.key, key |-> r.key, val |-> r.val, time |-> clock + 1,
             sum |-> IF r.temp = "whole" THEN r.val ELSE NoValue, damaged |-> FALSE]

LEMMA RenameStepped ==
    ASSUME FilesInv, NEW p \in Procs, Rename(p)
    PROVE  Stepped(p) /\ Honest(p)
<1> DEFINE r == proc[p]
<1>1. r \in Records /\ Shape(r) /\ r.at = "rename" /\ r.total <= clock /\ clock \in Nat
      /\ r.total \in Nat
  BY Before DEF Rename, At
<1>2. \/ Becomes(p, [r EXCEPT !.at = "return"]) /\ clock' = clock
      \/ Becomes(p, [r EXCEPT !.temp = "none", !.at = "list"]) /\ clock' = clock + 1
  BY DEF Rename, Goes, disk
<1>3. r.total <= clock'
  BY <1>1, <1>2
<1>4. CASE Becomes(p, [r EXCEPT !.at = "return"])
  <2> DEFINE t == [r EXCEPT !.at = "return"]
  <2>1. /\ t \in Records /\ Shape(t) /\ t.total = r.total
        /\ (Faithful(r, src) => Faithful(t, src))
    BY <1>1, GoesOn
  <2> HIDE DEF t
  <2> QED
    BY <1>3, <1>4, <2>1, Steps DEF t
<1>5. CASE Becomes(p, [r EXCEPT !.temp = "none", !.at = "list"])
  <2> DEFINE t == [r EXCEPT !.temp = "none", !.at = "list"]
  <2>1. t \in Records
    BY <1>1 DEF Records, Asking
  <2>2. /\ t.at = "list" /\ t.q = r.q /\ t.text = r.text /\ t.val = r.val
        /\ t.total = r.total /\ t.calm = r.calm /\ t.key = r.key
    BY <1>1 DEF Records
  <2>3. Becomes(p, t)
    BY <1>5
  <2> HIDE DEF t
  <2>4. Shape(t)
    BY <2>2 DEF Shape, Asking
  <2>5. ASSUME Faithful(r, src) PROVE Faithful(t, src)
    BY <1>1, <2>2, <2>5 DEF Faithful, Seen
  <2> QED
    BY <1>3, <2>1, <2>2, <2>3, <2>4, <2>5, Steps
<1> QED
  BY <1>2, <1>4, <1>5

LEMMA ListStepped ==
    ASSUME FilesInv, NEW p \in Procs, List(p)
    PROVE  Stepped(p) /\ Honest(p)
<1> DEFINE r == proc[p]
           n == Cardinality(store)
           t == [r EXCEPT !.list = store, !.total = n, !.at = "evict"]
<1>1. /\ r \in Records /\ Shape(r) /\ r.at = "list" /\ r.total <= clock /\ clock' = clock
      /\ store \in SUBSET Entries /\ proc \in [Procs -> Records]
  BY Before DEF List, At, disk, FilesInv, Types
<1>2. n \in Nat /\ n <= clock
  BY Before, FS_CardinalityType DEF FilesInv, Filed
<1> HIDE DEF n
<1>3. t \in Records
  BY <1>1, <1>2 DEF Records
<1>4. /\ t.at = "evict" /\ t.q = r.q /\ t.text = r.text /\ t.val = r.val
      /\ t.total = n /\ t.calm = r.calm /\ t.key = r.key
  BY <1>1, <1>2 DEF Records
<1> HIDE DEF t
<1>5. Shape(t)
  BY <1>4 DEF Shape, Asking
<1>6. ASSUME Faithful(r, src) PROVE Faithful(t, src)
  BY <1>1, <1>4, <1>6 DEF Faithful, Seen
<1>7. ASSUME NEW old,
             proc' = [q \in Procs |-> IF q = p THEN t
                                      ELSE IF q \in old THEN Deserted(proc[q]) ELSE proc[q]]
      PROVE  Stepped(p) /\ Honest(p)
  <2>1. \A q \in Procs : Deserted(proc[q]) \in Records
    BY <1>1, DesertedRecord DEF FilesInv, Shapes
  <2>2. proc' \in [Procs -> Records] /\ proc'[p] = t
    BY <1>1, <1>3, <1>7, <2>1
  <2>3. \A q \in Procs : q # p => proc'[q] \in {proc[q], Deserted(proc[q])}
    BY <1>7
  <2> QED
    BY <1>1, <1>2, <1>4, <1>5, <1>6, <2>2, <2>3 DEF Stepped, Honest
<1>8. CASE Becomes(p, [r EXCEPT !.at = "return"])
  <2> DEFINE u == [r EXCEPT !.at = "return"]
  <2>1. /\ u \in Records /\ Shape(u) /\ u.total = r.total
        /\ (Faithful(r, src) => Faithful(u, src))
    BY <1>1, GoesOn
  <2> HIDE DEF u
  <2> QED
    BY <1>1, <1>8, <2>1, Steps DEF u
<1> QED
  BY <1>7, <1>8 DEF List, Goes, Deserted, t, n

LEMMA EvictStepped ==
    ASSUME FilesInv, NEW p \in Procs, Evict(p)
    PROVE  Stepped(p) /\ Honest(p)
<1> DEFINE r == proc[p]
           oldest == CHOOSE e \in r.list : \A o \in r.list : e.time <= o.time
           there == EntryAt(oldest.path)
           list == r.list \ {oldest}
           total == r.total - Cardinality(there)
<1>1. /\ r \in Records /\ Shape(r) /\ r.at = "evict" /\ clock' = clock
      /\ r.total \in Nat /\ r.total <= clock /\ clock \in Nat
      /\ \/ Full(r) /\ Becomes(p, [r EXCEPT !.list = @ \ {oldest},
                                            !.total = @ - Cardinality(there)])
         \/ Becomes(p, [r EXCEPT !.list = {}, !.total = 0, !.at = "return"])
  BY Before DEF Evict, At
<1> HIDE DEF oldest
<1>2. Cardinality(there) \in {0, 1}
  <2>1. CASE there = {}
    BY <2>1, FS_EmptySet
  <2>2. CASE there # {}
    <3>1. PICK e : there = {e}
      BY <2>2, OneEntry
    <3> QED
      BY <3>1, FS_Singleton
  <2> QED
    BY <2>1, <2>2
<1>3. list \in SUBSET Entries
  BY <1>1 DEF Records
<1>4. Full(r) => total \in Nat /\ total <= clock
  BY <1>1, <1>2, BoundsAssumption DEF Full
<1>5. ASSUME NEW l \in SUBSET Entries, NEW n \in Nat, n <= clock, NEW step \in {"evict", "return"},
             Becomes(p, [r EXCEPT !.list = l, !.total = n, !.at = step])
      PROVE  Stepped(p) /\ Honest(p)
  <2> DEFINE t == [r EXCEPT !.list = l, !.total = n, !.at = step]
  <2>1. t \in Records
    BY <1>1, <1>5 DEF Records
  <2>2. /\ t.at = step /\ t.q = r.q /\ t.text = r.text /\ t.val = r.val
        /\ t.total = n /\ t.calm = r.calm /\ t.key = r.key
    BY <1>1 DEF Records
  <2>3. Becomes(p, t)
    BY <1>5
  <2> HIDE DEF t
  <2>4. Shape(t)
    BY <2>2 DEF Shape, Asking
  <2>5. ASSUME Faithful(r, src) PROVE Faithful(t, src)
    BY <1>1, <2>2, <2>5 DEF Faithful, Seen
  <2> QED
    BY <1>1, <1>5, <2>1, <2>2, <2>3, <2>4, <2>5, Steps
<1>6. CASE Full(r) /\ Becomes(p, [r EXCEPT !.list = @ \ {oldest},
                                           !.total = @ - Cardinality(there)])
  <2>1. Becomes(p, [r EXCEPT !.list = list, !.total = total])
    BY <1>6
  <2> HIDE DEF list, total
  <2>2. [r EXCEPT !.list = list, !.total = total]
          = [r EXCEPT !.list = list, !.total = total, !.at = "evict"]
    BY <1>1 DEF Records
  <2> QED
    BY <1>3, <1>4, <1>5, <1>6, <2>1, <2>2
<1>7. CASE Becomes(p, [r EXCEPT !.list = {}, !.total = 0, !.at = "return"])
  <2> DEFINE nothing == {}
             n == 0
  <2>1. nothing \in SUBSET Entries /\ n \in Nat /\ n <= clock
    BY <1>1
  <2>2. Becomes(p, [r EXCEPT !.list = nothing, !.total = n, !.at = "return"])
    BY <1>7
  <2> HIDE DEF nothing, n
  <2> QED
    BY <1>5, <2>1, <2>2
<1> QED
  BY <1>1, <1>6, <1>7

LEMMA CleanStepped ==
    ASSUME FilesInv, NEW p \in Procs, CleanFile(p) \/ CleanEnds(p)
    PROVE  Stepped(p) /\ Honest(p)
<1> DEFINE r == proc[p]
<1>1. /\ r \in Records /\ Shape(r) /\ r.at = "clean" /\ clock' = clock /\ r.total <= clock
      /\ proc \in [Procs -> Records]
  BY Before DEF CleanFile, CleanEnds, At, disk, FilesInv, Types
<1>2. CASE UNCHANGED proc
  BY <1>1, <1>2 DEF Stepped, Honest
<1>3. ASSUME NEW q \in Procs, proc' = [proc EXCEPT ![q] = Deserted(proc[q])]
      PROVE  Stepped(p) /\ Honest(p)
  <2>1. /\ Deserted(proc[q]) \in Records /\ Shape(Deserted(proc[q]))
        /\ Deserted(proc[q]).total = proc[q].total
        /\ (Faithful(proc[q], src) => Faithful(Deserted(proc[q]), src))
    BY <1>1, DesertedRecord DEF FilesInv, Shapes
  <2> DEFINE d == Deserted(proc[q])
  <2> HIDE DEF d
  <2>2. proc' \in [Procs -> Records] /\ \A x \in Procs : proc'[x] = IF x = q THEN d ELSE proc[x]
    BY <1>1, <1>3, <2>1 DEF d
  <2> QED
    BY <1>1, <2>1, <2>2 DEF Stepped, Honest, d
<1>4. CASE Becomes(p, [r EXCEPT !.at = "return"])
  <2> DEFINE t == [r EXCEPT !.at = "return"]
  <2>1. /\ t \in Records /\ Shape(t) /\ t.total = r.total
        /\ (Faithful(r, src) => Faithful(t, src))
    BY <1>1, GoesOn
  <2> HIDE DEF t
  <2> QED
    BY <1>1, <1>4, <2>1, Steps DEF t
<1>5. ASSUME NEW q \in Procs, proc' = [proc EXCEPT ![q].temp = "none"]
      PROVE  Stepped(p) /\ Honest(p)
  BY <1>3, <1>5 DEF Deserted
<1> QED
  BY <1>2, <1>4, <1>5 DEF CleanFile, CleanEnds, Goes

LEMMA StartStepped ==
    ASSUME FilesInv, NEW p \in Procs,
           \/ \E q \in Queries : StartQuery(p, q)
           \/ StartPrune(p) \/ StartClean(p) \/ Return(p) \/ Crash(p)
    PROVE  Stepped(p) /\ Honest(p)
<1>1. clock' = clock /\ clock \in Nat
  BY Before DEF StartQuery, StartPrune, StartClean, Return, Crash, disk
<1>2. CASE \E q \in Queries : StartQuery(p, q)
  <2>1. PICK q \in Queries : StartQuery(p, q)
    BY <1>2
  <2>2. q \in Names /\ q # "none" /\ Files # {}
    BY QueriesAssumption, FilesAssumption DEF Names
  <2> DEFINE step == IF q \in {"check", "test"} THEN "source" ELSE "fingerprint"
             t == [Idle EXCEPT !.q = q, !.left = Files, !.at = step]
  <2>3. Becomes(p, t)
    BY <2>1 DEF StartQuery
  <2>4. step \in {"source", "fingerprint"} /\ (step = "fingerprint" => q \notin {"check", "test"})
    OBVIOUS
  <2> HIDE DEF step
  <2>5. t \in Records
    BY IdleRecord, <2>2, <2>4 DEF Records, Asking
  <2>6. t.at = step /\ t.q = q /\ t.left = Files /\ t.total = 0
    BY DEF Idle
  <2> HIDE DEF t
  <2>7. Shape(t)
    BY <2>2, <2>4, <2>6 DEF Shape, Asking
  <2>8. Faithful(t, src)
    BY <2>4, <2>6 DEF Faithful
  <2> QED
    BY <1>1, <2>3, <2>5, <2>6, <2>7, <2>8, Steps
<1>3. ASSUME NEW q \in {"prune", "clean"}, NEW step \in {"list", "clean"},
             step = "clean" => q = "clean",
             Becomes(p, [Idle EXCEPT !.q = q, !.at = step])
      PROVE  Stepped(p) /\ Honest(p)
  <2> DEFINE t == [Idle EXCEPT !.q = q, !.at = step]
  <2>1. t \in Records
    BY IdleRecord DEF Records
  <2>2. t.at = step /\ t.q = q /\ t.total = 0
    BY DEF Idle
  <2>3. Becomes(p, t)
    BY <1>3
  <2> HIDE DEF t
  <2>4. q \notin Queries
    BY QueriesAssumption
  <2>5. Shape(t) /\ Faithful(t, src)
    BY <1>3, <2>2, <2>4 DEF Shape, Asking, Faithful
  <2> QED
    BY <1>1, <2>1, <2>2, <2>3, <2>5, Steps
<1>4. CASE Return(p) \/ Crash(p)
  <2>1. Becomes(p, Idle) /\ Idle.total = 0
    BY <1>4 DEF Return, Crash, Idle
  <2> QED
    BY <1>1, <2>1, IdleRecord, Steps
<1> QED
  BY <1>2, <1>3, <1>4 DEF StartPrune, StartClean

LEMMA EveryStep ==
    ASSUME FilesInv, NEW p \in Procs,
           \/ \E q \in Queries : StartQuery(p, q)
           \/ StartPrune(p) \/ StartClean(p) \/ Step(p) \/ Crash(p)
    PROVE  Stepped(p) /\ Honest(p)
BY ReadSourceStepped, FingerprintStepped, LookupStepped, RejectStepped, CompileStepped,
   WriteStepped, RenameStepped, ListStepped, EvictStepped, CleanStepped, StartStepped DEF Step

-----------------------------------------------------------------------------
(* The invariant of the files is inductive.                                *)

\* Removing entries keeps the rest as they are.
LEMMA FewerFiled ==
    ASSUME FilesInv, NEW s \in SUBSET store
    PROVE  /\ s \in SUBSET Entries /\ IsFiniteSet(s) /\ Filed(s, clock)
           /\ Cardinality(s) <= Cardinality(store)
           /\ Cardinality(s) \in Nat /\ Cardinality(store) \in Nat
<1>1. IsFiniteSet(store) /\ store \in SUBSET Entries /\ Filed(store, clock) /\ clock \in Nat
  BY DEF FilesInv, Types
<1>2. IsFiniteSet(s) /\ Cardinality(s) <= Cardinality(store)
  BY <1>1, FS_Subset
<1>3. Cardinality(s) \in Nat /\ Cardinality(store) \in Nat
  BY <1>1, <1>2, FS_CardinalityType
<1> QED
  BY <1>1, <1>2, <1>3 DEF Filed

\* An entry takes the place of the one with its name.
LEMMA ReplacedFiled ==
    ASSUME FilesInv, NEW e \in Entries, e.time = clock + 1, e.key = e.path, e.sum = e.val
    PROVE  /\ Replaced(e) \in SUBSET Entries /\ IsFiniteSet(Replaced(e))
           /\ Filed(Replaced(e), clock + 1)
<1> DEFINE rest == store \ EntryAt(e.path)
<1>1. /\ rest \in SUBSET Entries /\ IsFiniteSet(rest) /\ Filed(rest, clock)
      /\ Cardinality(rest) \in Nat
  BY FewerFiled
<1>2. Replaced(e) = rest \cup {e} /\ e \notin rest /\ \A o \in rest : o.path # e.path
  BY DEF Replaced, EntryAt
<1>3. clock \in Nat
  BY DEF FilesInv, Types
<1> HIDE DEF rest
<1>4. IsFiniteSet(Replaced(e)) /\ Cardinality(Replaced(e)) = Cardinality(rest) + 1
  BY <1>1, <1>2, FS_AddElement
<1>5. Cardinality(Replaced(e)) <= clock + 1
  BY <1>1, <1>3, <1>4 DEF Filed
<1>6. \A o \in Replaced(e) : o.time \in 1 .. clock + 1
  BY <1>1, <1>2, <1>3 DEF Filed
<1> QED
  BY <1>1, <1>2, <1>4, <1>5, <1>6 DEF Filed

\* What a step of p does to the files: it removes some, or puts its own in place.
Stored(p) ==
    \/ store' \in SUBSET store /\ clock' = clock
    \/ /\ At(p, "rename") /\ store' = Replaced(Entry(proc[p])) /\ clock' = clock + 1
       /\ proc'[p].at = "list" /\ proc[p].temp = "whole"

LEMMA EveryStored ==
    ASSUME FilesInv, NEW p \in Procs,
           \/ \E q \in Queries : StartQuery(p, q)
           \/ StartPrune(p) \/ StartClean(p) \/ Step(p) \/ Crash(p)
    PROVE  Stored(p)
<1>1. CASE ~Rename(p)
  BY <1>1 DEF Stored, StartQuery, StartPrune, StartClean, Step, Crash, ReadSource, Fingerprint,
     Lookup, Reject, Compile, Create, Write, List, Evict, CleanFile, CleanEnds, Return, disk
<1>2. CASE Rename(p)
  <2> DEFINE r == proc[p]
             t == [r EXCEPT !.temp = "none", !.at = "list"]
  <2>1. r \in Records /\ Shape(r) /\ At(p, "rename")
    BY <1>2, Before DEF Rename
  <2>2. \/ UNCHANGED disk
        \/ /\ Becomes(p, t) /\ r.temp # "none" /\ clock' = clock + 1
           /\ store' = Replaced(Entry(r))
    BY <1>2 DEF Rename, Entry
  <2>3. r.temp \in {"whole", "none"}
    BY <2>1 DEF At, Shape
  <2>4. Becomes(p, t) => proc'[p] = t
    BY DEF Becomes, FilesInv, Types
  <2>5. t.at = "list"
    BY <2>1 DEF Records
  <2> HIDE DEF t
  <2> QED
    BY <2>1, <2>2, <2>3, <2>4, <2>5 DEF Stored, disk
<1> QED
  BY <1>1, <1>2

LEMMA EntryOf ==
    ASSUME FilesInv, NEW p \in Procs, At(p, "rename"), proc[p].temp = "whole"
    PROVE  LET e == Entry(proc[p])
           IN  /\ e \in Entries /\ e.time = clock + 1 /\ e.key = e.path /\ e.sum = e.val
               /\ e.path = proc[p].key /\ e.val = proc[p].val
<1>1. proc[p].key \in Keys /\ proc[p].val \in Values /\ clock + 1 \in Nat
  BY Before DEF Records
<1> QED
  BY <1>1 DEF Entry, Entries

LEMMA FilesStep ==
    ASSUME FilesInv, NEW p \in Procs,
           \/ \E q \in Queries : StartQuery(p, q)
           \/ StartPrune(p) \/ StartClean(p) \/ Step(p) \/ Crash(p)
    PROVE  FilesInv'
<1>1. Stepped(p) /\ Stored(p) /\ src' = src
  <2>1. src' = src
    BY DEF StartQuery, StartPrune, StartClean, Step, Crash, ReadSource, Fingerprint, Lookup,
       Reject, Compile, Create, Write, Rename, List, Evict, CleanFile, CleanEnds, Return, world
  <2> QED
    BY <2>1, EveryStep, EveryStored
<1>2. /\ src \in Sources /\ clock \in Nat /\ clock' \in Nat /\ clock <= clock'
  BY <1>1 DEF FilesInv, Types, Stored
<1>3. store' \in SUBSET Entries /\ IsFiniteSet(store') /\ Filed(store', clock')
  <2>1. CASE store' \in SUBSET store /\ clock' = clock
    BY <2>1, FewerFiled
  <2>2. CASE At(p, "rename") /\ store' = Replaced(Entry(proc[p])) /\ clock' = clock + 1
             /\ proc[p].temp = "whole"
    BY <2>2, EntryOf, ReplacedFiled
  <2> QED
    BY <1>1, <2>1, <2>2 DEF Stored
<1>4. \A q \in Procs : Shape(proc'[q]) /\ proc'[q].total <= clock'
  <2>1. ASSUME NEW q \in Procs, q # p
        PROVE  Shape(proc'[q]) /\ proc'[q].total <= clock'
    <3>1. proc[q] \in Records /\ Shape(proc[q]) /\ proc[q].total <= clock /\ proc[q].total \in Nat
      BY Before
    <3>2. Shape(Deserted(proc[q])) /\ Deserted(proc[q]).total = proc[q].total
      BY <3>1, DesertedRecord
    <3> QED
      BY <1>1, <1>2, <2>1, <3>1, <3>2 DEF Stepped
  <2> QED
    BY <1>1, <2>1 DEF Stepped
<1>5. Filed(store, clock)'
  BY <1>3 DEF Filed
<1> QED
  BY <1>1, <1>2, <1>3, <1>4, <1>5 DEF FilesInv, Types, Shapes, Counted, Stepped

\* Somebody damages an entry: another takes its place, and its checksum is wrong
\* if that of the first one was made by the cache.
LEMMA DamageStored ==
    ASSUME FilesInv, NEW e \in store, Damage(e)
    PROVE  /\ UNCHANGED <<src, clock, proc, cut>>
           /\ \E d \in Entries :
                 /\ store' = (store \ {e}) \cup {d}
                 /\ d.path = e.path /\ d.damaged /\ d.time \in 1 .. clock
                 /\ (\A o \in store : Genuine(o)) => Genuine(d)
<1>1. /\ UNCHANGED <<src, clock, proc, cut>>
      /\ e \in Entries /\ store \in SUBSET Entries /\ \A o \in store : o.time \in 1 .. clock
  BY DEF Damage, FilesInv, Types, Filed
<1>2. CASE store' = (store \ {e}) \cup {[e EXCEPT !.val = [NoValue EXCEPT !.ok = TRUE],
                                                  !.damaged = TRUE]}
  <2> DEFINE v == [NoValue EXCEPT !.ok = TRUE]
             d == [e EXCEPT !.val = v, !.damaged = TRUE]
  <2>1. v \in Values /\ v.ok = TRUE /\ v.q = "none"
    BY NamesOf DEF Values, NoValue
  <2>2. store' = (store \ {e}) \cup {d}
    BY <1>2
  <2> HIDE DEF v
  <2>3. d \in Entries
    BY <1>1, <2>1 DEF Entries
  <2>4. /\ d.path = e.path /\ d.key = e.key /\ d.val = v /\ d.time = e.time
        /\ d.sum = e.sum /\ d.damaged = TRUE
    BY <1>1 DEF Entries
  <2> HIDE DEF d
  <2>5. ASSUME Genuine(e) PROVE Genuine(d)
    BY <2>1, <2>4, <2>5 DEF Genuine
  <2> QED
    BY <1>1, <2>2, <2>3, <2>4, <2>5
<1>3. ASSUME NEW o \in store \ {e},
             store' = (store \ {e}) \cup {[o EXCEPT !.path = e.path, !.damaged = TRUE]}
      PROVE  \E d \in Entries :
                 /\ store' = (store \ {e}) \cup {d}
                 /\ d.path = e.path /\ d.damaged /\ d.time \in 1 .. clock
                 /\ (\A x \in store : Genuine(x)) => Genuine(d)
  <2> DEFINE k == e.path
             d == [o EXCEPT !.path = k, !.damaged = TRUE]
  <2>1. o \in Entries /\ k \in Keys /\ store' = (store \ {e}) \cup {d} /\ k = e.path
    BY <1>1, <1>3 DEF Entries
  <2> HIDE DEF k
  <2>2. d \in Entries
    BY <2>1 DEF Entries
  <2>3. /\ d.path = k /\ d.key = o.key /\ d.val = o.val /\ d.time = o.time
        /\ d.sum = o.sum /\ d.damaged = TRUE
    BY <2>1 DEF Entries
  <2> HIDE DEF d
  <2>4. ASSUME Genuine(o) PROVE Genuine(d)
    BY <2>3, <2>4 DEF Genuine
  <2> QED
    BY <1>1, <2>1, <2>2, <2>3, <2>4
<1> QED
  BY <1>1, <1>2, <1>3 DEF Damage

LEMMA DamageFiled ==
    ASSUME FilesInv, NEW e \in store, Damage(e)
    PROVE  FilesInv' /\ Cardinality(store') = Cardinality(store)
<1>1. PICK d \in Entries :
         /\ store' = (store \ {e}) \cup {d}
         /\ d.path = e.path /\ d.damaged /\ d.time \in 1 .. clock
  BY DamageStored
<1>2. UNCHANGED <<src, clock, proc>>
  BY DamageStored
<1> DEFINE rest == store \ {e}
<1>3. /\ rest \in SUBSET Entries /\ IsFiniteSet(rest) /\ Filed(rest, clock)
      /\ Cardinality(rest) \in Nat
  BY FewerFiled
<1>4. \A o \in rest : o.path # d.path
  BY <1>1 DEF FilesInv, Filed
<1>5. Cardinality(store) = Cardinality(rest) + 1
  <2>1. store = rest \cup {e} /\ e \notin rest
    OBVIOUS
  <2> QED
    BY <1>3, <2>1, FS_AddElement
<1>6. store' = rest \cup {d} /\ d \notin rest
  BY <1>1, <1>4
<1> HIDE DEF rest
<1>7. IsFiniteSet(store') /\ Cardinality(store') = Cardinality(rest) + 1
  BY <1>3, <1>6, FS_AddElement
<1>8. Filed(store', clock)
  <2>1. Cardinality(store') <= clock
    BY <1>5, <1>7 DEF FilesInv, Filed
  <2> QED
    BY <1>1, <1>3, <1>4, <1>6, <2>1 DEF Filed
<1>9. store' \in SUBSET Entries
  BY <1>1, <1>3, <1>6
<1>10. Filed(store, clock)'
  BY <1>2, <1>8 DEF Filed
<1> QED
  BY <1>2, <1>5, <1>7, <1>9, <1>10 DEF FilesInv, Types, Shapes, Counted

\* A source is edited: the commands that run have seen it.
Edited(r) == [r EXCEPT !.calm = (r.at = "idle")]

LEMMA EditedRecord ==
    ASSUME NEW r \in Records, Shape(r)
    PROVE  LET t == Edited(r)
           IN  /\ t \in Records /\ Shape(t)
               /\ t.at = r.at /\ t.q = r.q /\ t.text = r.text /\ t.left = r.left
               /\ t.key = r.key /\ t.read = r.read /\ t.val = r.val /\ t.list = r.list
               /\ t.total = r.total /\ t.calm = (r.at = "idle")
<1> DEFINE b == (r.at = "idle")
           t == [r EXCEPT !.calm = b]
<1>1. b \in BOOLEAN /\ t = Edited(r)
  BY DEF Edited
<1> HIDE DEF b
<1>2. t \in Records
  BY <1>1 DEF Records
<1>3. /\ t.at = r.at /\ t.q = r.q /\ t.text = r.text /\ t.left = r.left /\ t.key = r.key
      /\ t.got = r.got /\ t.read = r.read /\ t.val = r.val /\ t.temp = r.temp
      /\ t.list = r.list /\ t.total = r.total /\ t.calm = b
  BY DEF Records
<1> HIDE DEF t
<1>4. Shape(t)
  BY <1>3 DEF Shape
<1> QED
  BY <1>1, <1>2, <1>3, <1>4 DEF b

LEMMA EditFiled ==
    ASSUME FilesInv, NEW f \in Files, NEW c \in Contents \cup {Bad}, Edit(f, c)
    PROVE  /\ FilesInv' /\ UNCHANGED <<store, clock, cut>>
           /\ proc' = [p \in Procs |-> Edited(proc[p])]
           /\ src' = [src EXCEPT ![f] = c]
<1>1. /\ UNCHANGED <<store, clock, cut>> /\ src' = [src EXCEPT ![f] = c]
      /\ proc' = [p \in Procs |-> Edited(proc[p])]
  BY DEF Edit, disk, At, Edited
<1>2. src' \in Sources
  BY <1>1 DEF FilesInv, Types, Sources
<1>3. \A p \in Procs : /\ Edited(proc[p]) \in Records /\ Shape(Edited(proc[p]))
                       /\ Edited(proc[p]).total = proc[p].total
  BY Before, EditedRecord
<1>4. proc' \in [Procs -> Records]
  BY <1>1, <1>3
<1>5. \A p \in Procs : Shape(proc'[p]) /\ proc'[p].total <= clock
  BY <1>1, <1>3 DEF FilesInv, Counted
<1>6. Filed(store, clock)'
  BY <1>1 DEF FilesInv, Filed
<1> QED
  BY <1>1, <1>2, <1>4, <1>5, <1>6 DEF FilesInv, Types, Shapes, Counted

LEMMA FilesInit ==
    Init => FilesInv
<1> SUFFICES ASSUME Init PROVE FilesInv
  OBVIOUS
<1>1. src \in Sources
  BY DEF Init, Sources
<1>2. store \in SUBSET Entries /\ IsFiniteSet(store) /\ Cardinality(store) = 0 /\ clock = 0
  BY FS_EmptySet DEF Init
<1>3. Filed(store, clock)
  BY <1>2 DEF Init, Filed
<1>4. proc \in [Procs -> Records] /\ \A p \in Procs : proc[p] = Idle
  BY IdleRecord DEF Init
<1>5. Idle.total = 0
  BY DEF Idle
<1>6. Shapes /\ Counted
  BY <1>2, <1>4, <1>5, IdleRecord DEF Shapes, Counted
<1> QED
  BY <1>1, <1>2, <1>3, <1>4, <1>6 DEF FilesInv, Types

\* The steps of the specification.
LEMMA Cases ==
    ASSUME [Next]_vars
    PROVE  \/ \E f \in Files, c \in Contents \cup {Bad} : Edit(f, c)
           \/ \E e \in store : Damage(e)
           \/ \E p \in Procs : \/ \E q \in Queries : StartQuery(p, q)
                               \/ StartPrune(p) \/ StartClean(p) \/ Step(p) \/ Crash(p)
           \/ UNCHANGED vars
BY DEF Next

LEMMA FilesNext ==
    ASSUME FilesInv, [Next]_vars
    PROVE  FilesInv'
<1>1. CASE UNCHANGED vars
  BY <1>1 DEF vars, FilesInv, Types, Shapes, Filed, Counted
<1> QED
  BY <1>1, Cases, EditFiled, DamageFiled, FilesStep

LEMMA FilesInvariant ==
    Spec => []FilesInv
<1>1. FilesInv /\ [Next]_vars => FilesInv'
  BY FilesNext
<1> QED
  BY <1>1, FilesInit, PTL DEF Spec

-----------------------------------------------------------------------------
(* The capacity.                                                           *)

\* Somebody lists the files, or has listed them all.
LEMMA CoversFewer ==
    ASSUME FilesInv, NEW s \in SUBSET store, NEW r \in Records, NEW t \in Records,
           Covers(r, store), t.at = r.at, t.list = r.list, t.total = r.total
    PROVE  Covers(t, s)
<1>1. /\ Cardinality(s) <= Cardinality(store) /\ Cardinality(s) \in Nat
      /\ Cardinality(store) \in Nat /\ r.total \in Nat
  BY FewerFiled DEF Records
<1> QED
  BY <1>1 DEF Covers

\* The prune of p goes on: it covers what is left, or the files are few enough.
LEMMA EvictCovers ==
    ASSUME FilesInv, NEW p \in Procs, Evict(p), Covers(proc[p], store)
    PROVE  Covers(proc'[p], store') \/ Cardinality(store') <= MaxBytes
<1> DEFINE r == proc[p]
           oldest == CHOOSE e \in r.list : \A o \in r.list : e.time <= o.time
           there == EntryAt(oldest.path)
           list == r.list \ {oldest}
           n == Cardinality(there)
           t == [r EXCEPT !.list = list, !.total = r.total - n]
<1>1. /\ r \in Records /\ r.at = "evict" /\ r.total \in Nat
      /\ IsFiniteSet(store) /\ Cardinality(store) \in Nat /\ Cardinality(store) <= r.total
      /\ \A e \in store : \E o \in r.list : o.path = e.path
  BY Before, FS_CardinalityType DEF Evict, At, Covers
<1>2. IF Full(r) /\ r.list # {}
      THEN store' = store \ there /\ Becomes(p, t)
      ELSE store' = store
  BY DEF Evict
<1> HIDE DEF oldest
<1>3. CASE Full(r) /\ r.list # {}
  <2>1. Cardinality(store') = Cardinality(store) - n /\ n \in Nat /\ n <= Cardinality(store)
    <3>1. CASE there = {}
      <4>1. n = 0
        BY <3>1, FS_EmptySet
      <4>2. store' = store
        BY <1>2, <1>3, <3>1
      <4> QED
        BY <1>1, <4>1, <4>2
    <3>2. ASSUME NEW e \in there PROVE n = 1 /\ Cardinality(store') = Cardinality(store) - 1
      <4>1. there = {e} /\ e \in store
        BY <3>2, OneEntry DEF EntryAt
      <4>2. n = 1
        BY <4>1, FS_Singleton
      <4>3. Cardinality(store \ {e}) = Cardinality(store) - 1
        BY <1>1, <4>1, FS_RemoveElement
      <4> QED
        BY <1>2, <1>3, <4>1, <4>2, <4>3
    <3>3. there # {} => Cardinality(store) >= 1
      BY <1>1, FS_EmptySet DEF EntryAt
    <3> QED
      BY <1>1, <3>1, <3>2, <3>3
  <2>2. \A e \in store' : \E o \in list : o.path = e.path
    BY <1>1, <1>2, <1>3 DEF EntryAt
  <2> HIDE DEF list, n
  <2>3. proc'[p] = t
    BY <1>2, <1>3 DEF Becomes, FilesInv, Types
  <2>4. t.at = "evict" /\ t.list = list /\ t.total = r.total - n
    BY <1>1 DEF Records
  <2> HIDE DEF t
  <2> QED
    BY <1>1, <2>1, <2>2, <2>3, <2>4 DEF Covers
<1>4. CASE ~Full(r)
  BY <1>1, <1>2, <1>4, BoundsAssumption DEF Full
<1>5. CASE r.list = {}
  <2>1. store' = {} /\ Cardinality({}) = 0
    BY <1>1, <1>2, <1>5, FS_EmptySet
  <2> QED
    BY <2>1, BoundsAssumption
<1> QED
  BY <1>3, <1>4, <1>5

\* Only a prune, and a command that goes away, changes what cut says.
LEMMA CutKept ==
    ASSUME NEW p \in Procs,
           \/ \E q \in Queries : StartQuery(p, q)
           \/ StartPrune(p) \/ StartClean(p) \/ Step(p) \/ Crash(p)
    PROVE  /\ ~List(p) /\ cut => cut'
           /\ At(p, "list") => List(p) \/ cut'
           /\ At(p, "evict") => Evict(p) \/ cut'
<1>1. CASE Crash(p)
  <2>1. (cut \/ At(p, "list") \/ At(p, "evict")) => cut'
    BY <1>1, Zenon DEF Crash
  <2> QED
    BY <2>1
<1>2. CASE (\E q \in Queries : StartQuery(p, q)) \/ StartPrune(p) \/ StartClean(p)
  <2>1. UNCHANGED cut /\ proc[p].at = "idle"
    BY <1>2 DEF StartQuery, StartPrune, StartClean, At
  <2>2. ~At(p, "list") /\ ~At(p, "evict")
    BY <2>1 DEF At
  <2>3. cut => cut'
    BY <2>1, Zenon
  <2> QED
    BY <2>2, <2>3
<1>3. CASE \/ ReadSource(p) \/ Fingerprint(p) \/ Lookup(p) \/ Reject(p) \/ Compile(p)
           \/ CleanFile(p) \/ CleanEnds(p) \/ Return(p)
  BY <1>3 DEF ReadSource, Fingerprint, Lookup, Reject, Compile, CleanFile, CleanEnds, Return,
     world, At
<1>4. CASE Create(p) \/ Write(p) \/ Rename(p) \/ Evict(p)
  BY <1>4 DEF Create, Write, Rename, Evict, world, At
<1>5. CASE List(p)
  BY <1>5 DEF List, At
<1> QED
  BY <1>1, <1>2, <1>3, <1>4, <1>5 DEF Step

LEMMA ListCovers ==
    ASSUME FilesInv, NEW p \in Procs, List(p)
    PROVE  cut' \/ Covers(proc'[p], store')
<1> DEFINE r == proc[p]
           n == Cardinality(store)
           t == [r EXCEPT !.list = store, !.total = n, !.at = "evict"]
<1>1. r \in Records /\ store' = store /\ n \in Nat /\ n = Cardinality(store)
  BY Before, FS_CardinalityType DEF List, disk
<1> HIDE DEF n
<1>2. t.at = "evict" /\ t.list = store /\ t.total = n
  BY <1>1 DEF Records
<1>3. cut' \/ proc'[p] = t
  BY DEF List, n
<1> HIDE DEF t
<1> QED
  BY <1>1, <1>2, <1>3 DEF Covers

LEMMA CapacityStep ==
    ASSUME FilesInv, CapacityInv, NEW p \in Procs,
           \/ \E q \in Queries : StartQuery(p, q)
           \/ StartPrune(p) \/ StartClean(p) \/ Step(p) \/ Crash(p)
    PROVE  CapacityInv'
<1>1. Stepped(p) /\ Stored(p)
  BY EveryStep, EveryStored
<1>2. CASE List(p)
  BY <1>2, ListCovers DEF CapacityInv
<1>3. CASE At(p, "rename") /\ proc'[p].at = "list"
  BY <1>3 DEF CapacityInv, At
<1>4. CASE store' \in SUBSET store /\ ~List(p)
  <2>1. CASE cut \/ cut'
    BY <1>4, <2>1, CutKept DEF CapacityInv
  <2>2. CASE Cardinality(store) <= MaxBytes
    <3>1. Cardinality(store') <= MaxBytes
      BY <1>4, <2>2, FewerFiled, BoundsAssumption
    <3> QED
      BY <3>1 DEF CapacityInv
  <2>3. ASSUME NEW q \in Procs, q # p, At(q, "list") \/ Covers(proc[q], store)
        PROVE  CapacityInv'
    <3>1. proc[q] \in Records /\ Shape(proc[q]) /\ proc'[q] \in Records
      BY <1>1, Before DEF Stepped
    <3>2. proc'[q].at = proc[q].at /\ proc'[q].list = proc[q].list /\ proc'[q].total = proc[q].total
      BY <1>1, <2>3, <3>1, DesertedRecord DEF Stepped
    <3>3. proc'[q].at = "list" \/ Covers(proc'[q], store')
      BY <1>4, <2>3, <3>1, <3>2, CoversFewer DEF At
    <3> QED
      BY <3>3 DEF CapacityInv, At
  <2>4. CASE At(p, "list")
    BY <1>4, <2>1, <2>4, CutKept
  <2>5. CASE Covers(proc[p], store)
    <3>1. Evict(p) \/ cut'
      BY <2>5, CutKept DEF Covers, At
    <3>2. CASE Evict(p)
      BY <2>5, <3>2, EvictCovers DEF CapacityInv
    <3> QED
      BY <2>1, <3>1, <3>2
  <2> QED
    BY <2>1, <2>2, <2>3, <2>4, <2>5 DEF CapacityInv
<1> QED
  BY <1>1, <1>2, <1>3, <1>4 DEF Stored

\* An entry that is damaged keeps its name.
LEMMA CapacityDamage ==
    ASSUME FilesInv, CapacityInv, NEW e \in store, Damage(e)
    PROVE  CapacityInv'
<1>1. PICK d \in Entries : store' = (store \ {e}) \cup {d} /\ d.path = e.path
  BY DamageStored
<1>2. /\ proc' = proc /\ cut' = cut /\ Cardinality(store') = Cardinality(store)
  BY DamageStored, DamageFiled
<1>3. \A p \in Procs : Covers(proc[p], store) => Covers(proc[p], store')
  BY <1>1, <1>2 DEF Covers
<1> QED
  BY <1>2, <1>3 DEF CapacityInv, At

LEMMA CapacityEdit ==
    ASSUME FilesInv, CapacityInv, NEW f \in Files, NEW c \in Contents \cup {Bad}, Edit(f, c)
    PROVE  CapacityInv'
<1>1. store' = store /\ cut' = cut /\ \A p \in Procs : proc'[p] = Edited(proc[p])
  BY EditFiled
<1>2. ASSUME NEW p \in Procs, At(p, "list") \/ Covers(proc[p], store)
      PROVE  proc'[p].at = "list" \/ Covers(proc'[p], store')
  <2>1. /\ proc'[p].at = proc[p].at /\ proc'[p].list = proc[p].list
        /\ proc'[p].total = proc[p].total
    BY <1>1, Before, EditedRecord
  <2> QED
    BY <1>1, <1>2, <2>1 DEF Covers, At
<1> QED
  BY <1>1, <1>2 DEF CapacityInv, At

LEMMA CapacityNext ==
    ASSUME FilesInv, CapacityInv, [Next]_vars
    PROVE  CapacityInv'
<1>1. CASE UNCHANGED vars
  BY <1>1 DEF vars, CapacityInv, Covers, At
<1> QED
  BY <1>1, Cases, CapacityEdit, CapacityDamage, CapacityStep

LEMMA CapacityInit ==
    Init => CapacityInv
<1>1. Init => store = {}
  BY DEF Init
<1> QED
  BY <1>1, FS_EmptySet, BoundsAssumption DEF CapacityInv

\* "New writes evict the oldest entry files until the cache is within capacity":
\* when no command runs, and no prune was cut short by a crash or a removal of the
\* directory, the cache is within its capacity, however the insertions, prunes and
\* removals of any number of processes overlapped.
THEOREM CapacityThroughout ==
    Spec => []CapacityKept
<1>1. CapacityInv => CapacityKept
  BY DEF CapacityInv, CapacityKept, Covers, At
<1>2. FilesInv /\ CapacityInv /\ [Next]_vars => CapacityInv'
  BY CapacityNext
<1> QED
  BY <1>1, <1>2, CapacityInit, FilesInvariant, PTL DEF Spec

-----------------------------------------------------------------------------
(* The answers.                                                            *)

\* An entry of a query that was true to the sources is genuine.
LEMMA GenuineEntry ==
    ASSUME FilesInv, NEW p \in Procs, At(p, "rename"), proc[p].temp = "whole",
           Faithful(proc[p], src)
    PROVE  Genuine(Entry(proc[p]))
<1> DEFINE r == proc[p]
           e == Entry(r)
<1>1. r.q \in Queries /\ r \in Records /\ r.at = "rename" /\ r.key.inputs \in Sources
  BY Before DEF At, Shape, Asking, Records, Keys
<1>2. r.key.q = r.q /\ r.val = Value(r.q, r.key.inputs)
  BY <1>1 DEF Faithful
<1>3. e.sum = r.val /\ e.val = r.val /\ e.key = r.key
  BY EntryOf DEF Entry
<1>4. Value(r.q, r.key.inputs).q = r.q /\ r.q # "none"
  BY <1>1, ValueOf, QueriesAssumption
<1> HIDE DEF e
<1> QED
  BY <1>2, <1>3, <1>4 DEF Genuine, e

LEMMA AnswersStep ==
    ASSUME AnswersInv, NEW p \in Procs,
           \/ \E q \in Queries : StartQuery(p, q)
           \/ StartPrune(p) \/ StartClean(p) \/ Step(p) \/ Crash(p)
    PROVE  AnswersInv'
<1>1. FilesInv /\ FilesInv' /\ Stepped(p) /\ Stored(p) /\ Honest(p)
  BY EveryStep, EveryStored, FilesStep DEF AnswersInv
<1>2. src' = src
  BY DEF StartQuery, StartPrune, StartClean, Step, Crash, ReadSource, Fingerprint, Lookup,
     Reject, Compile, Create, Write, Rename, List, Evict, CleanFile, CleanEnds, Return, world
<1>3. \A e \in store' : Genuine(e)
  <2>1. CASE store' \in SUBSET store
    BY <2>1 DEF AnswersInv
  <2>2. CASE At(p, "rename") /\ store' = Replaced(Entry(proc[p])) /\ proc[p].temp = "whole"
    <3>1. Genuine(Entry(proc[p]))
      BY <1>1, <2>2, GenuineEntry DEF AnswersInv
    <3> QED
      BY <2>2, <3>1 DEF AnswersInv, Replaced
  <2> QED
    BY <1>1, <2>1, <2>2 DEF Stored
<1>4. ASSUME NEW q \in Procs PROVE Faithful(proc'[q], src')
  <2>1. CASE q = p
    BY <1>1, <1>2, <2>1 DEF Honest, AnswersInv
  <2>2. CASE q # p
    <3>1. proc[q] \in Records /\ Shape(proc[q]) /\ Faithful(proc[q], src)
      BY <1>1, Before DEF AnswersInv
    <3> QED
      BY <1>1, <1>2, <2>2, <3>1, DesertedRecord DEF Stepped
  <2> QED
    BY <2>1, <2>2
<1> QED
  BY <1>1, <1>3, <1>4 DEF AnswersInv, Genuine

LEMMA AnswersDamage ==
    ASSUME AnswersInv, NEW e \in store, Damage(e)
    PROVE  AnswersInv'
<1>1. FilesInv /\ FilesInv' /\ src' = src /\ proc' = proc
  BY DamageStored, DamageFiled DEF AnswersInv
<1>2. PICK d \in Entries : store' = (store \ {e}) \cup {d} /\ Genuine(d)
  BY <1>1, DamageStored DEF AnswersInv
<1>3. \A o \in store' : Genuine(o)
  BY <1>2 DEF AnswersInv
<1>4. \A p \in Procs : Faithful(proc'[p], src')
  BY <1>1 DEF AnswersInv
<1> QED
  BY <1>1, <1>3, <1>4 DEF AnswersInv, Genuine

\* An edit while commands run is one of the file of a test, that every test reads
\* once.
LEMMA AnswersEdit ==
    ASSUME Steady, AnswersInv, NEW f \in Files, NEW c \in Contents \cup {Bad}, Edit(f, c)
    PROVE  AnswersInv'
<1>1. /\ FilesInv /\ FilesInv' /\ store' = store /\ src' = [src EXCEPT ![f] = c]
      /\ \A p \in Procs : proc'[p] = Edited(proc[p])
  BY EditFiled DEF AnswersInv
<1>2. ASSUME NEW p \in Procs PROVE Faithful(proc'[p], src')
  <2> DEFINE r == proc[p]
             t == proc'[p]
  <2>1. /\ r \in Records /\ Shape(r) /\ Faithful(r, src) /\ src \in Sources
        /\ t.at = r.at /\ t.q = r.q /\ t.text = r.text /\ t.left = r.left
        /\ t.key = r.key /\ t.read = r.read /\ t.val = r.val /\ t.calm = (r.at = "idle")
    BY <1>1, Before, EditedRecord DEF AnswersInv
  <2>2. CASE r.q \in Queries
    <3>1. r.at # "idle" /\ r.q # "none"
      BY <2>1, <2>2, QueriesAssumption DEF Shape
    <3>2. f \in EditedMidway
      BY <3>1 DEF Edit, At
    <3>3. f = Main /\ r.q = "test"
      BY <2>2, <3>2 DEF Steady
    <3>4. \A g \in Files : Seen(t, src', g) = Seen(r, src, g)
      BY <1>1, <2>1, <3>3 DEF Seen, Sources
    <3> HIDE DEF t, r
    <3>5. Faithful(t, src')
      BY <2>1, <3>1, <3>3, <3>4 DEF Faithful
    <3> QED
      BY <3>5 DEF t
  <2>3. CASE r.q \notin Queries
    BY <2>1, <2>3 DEF Faithful
  <2> QED
    BY <2>2, <2>3
<1>3. \A e \in store' : Genuine(e)
  BY <1>1 DEF AnswersInv
<1> QED
  BY <1>1, <1>2, <1>3 DEF AnswersInv, Genuine

LEMMA AnswersNext ==
    ASSUME Steady, AnswersInv, [Next]_vars
    PROVE  AnswersInv'
<1>1. CASE UNCHANGED vars
  BY <1>1, FilesNext DEF vars, AnswersInv, Genuine
<1> QED
  BY <1>1, Cases, AnswersEdit, AnswersDamage, AnswersStep

LEMMA AnswersInit ==
    Init => AnswersInv
BY FilesInit, IdleRecord DEF Init, AnswersInv

\* What the invariant says of the answers.
LEMMA AnswersHold ==
    ASSUME AnswersInv
    PROVE  AnswersClean
<1>1. TypeOK
  <2>1. /\ src \in Sources
        /\ \A e, o \in store : e.path = o.path => e = o
    BY DEF AnswersInv, FilesInv, Types, Filed
  <2>2. ASSUME NEW e \in store
        PROVE  e.path.inputs \in Sources /\ e.key.inputs \in Sources /\ e.time \in 1 .. clock
    BY DEF AnswersInv, FilesInv, Types, Filed, Entries, Keys
  <2>3. ASSUME NEW p \in Procs
        PROVE  proc[p].left \subseteq Files /\ proc[p].total \in 0 .. clock
    BY Before DEF AnswersInv, Records
  <2> QED
    BY <2>1, <2>2, <2>3 DEF TypeOK
<1>2. CleanSame
  <2> SUFFICES ASSUME NEW p \in Procs, At(p, "return"), proc[p].q \in Queries, proc[p].calm
               PROVE  proc[p].val = Value(proc[p].q, src)
    BY DEF CleanSame
  <2> DEFINE r == proc[p]
  <2>1. r \in Records /\ r.at = "return" /\ src \in Sources /\ Faithful(r, src)
        /\ r.key.inputs \in Sources
    BY Before DEF AnswersInv, At, Records, Keys
  <2>2. /\ r.val = Value(r.q, r.key.inputs)
        /\ \A f \in Files : r.key.inputs[f] = Seen(r, src, f)
        /\ r.q = "test" => r.text = src[Main]
    BY <2>1 DEF Faithful
  <2>3. \A f \in Files : r.key.inputs[f] = src[f]
    BY <2>2 DEF Seen
  <2>4. Value(r.q, r.key.inputs) = Value(r.q, src)
    BY <2>1, <2>3, ValueSame
  <2> QED
    BY <2>2, <2>4
<1>3. RejectsDamaged
  BY DEF AnswersInv, FilesInv, Shapes, Shape, RejectsDamaged, At
<1> QED
  BY <1>1, <1>2, <1>3 DEF AnswersClean

\* "deleting it, losing it, or rejecting an entry must produce the same diagnostics
\* and generated output as a clean invocation": whatever the processes, the crashes,
\* the damaged entries and the removals, a command that saw no edit answers what the
\* compiler says of the sources, and no entry is rejected that nobody damaged.
THEOREM AnswersThroughout ==
    Steady => (Spec => []AnswersClean)
<1> SUFFICES ASSUME Steady PROVE Spec => []AnswersClean
  OBVIOUS
<1>1. AnswersInv /\ [Next]_vars => AnswersInv'
  BY AnswersNext
<1>2. AnswersInv => AnswersClean
  BY AnswersHold
<1> QED
  BY <1>1, <1>2, AnswersInit, PTL DEF Spec
=============================================================================
