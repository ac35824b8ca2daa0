--------------------------- MODULE SemanticCache ---------------------------
(***************************************************************************)
(* QueryCache, the in-memory cache of an editor session, and its           *)
(* dependency index.   crates/nomo/src/incremental.rs                      *)
(*                                                                         *)
(* Threads share the cache.  The mutex makes each critical section one     *)
(* step; a query is computed between two of them, without the mutex.  An   *)
(* entry is the number of the computation that it came from; 0 is none.    *)
(***************************************************************************)
EXTENDS Integers, FiniteSets

CONSTANTS
    Threads,
    Keys,           \* query keys
    Inputs,         \* input files
    InputsOf,       \* InputsOf[k]: the inputs that k's caller attaches
    QueriesOf,      \* QueriesOf[k]: the queries that k's caller attaches
    MaxCalls        \* bound: calls of get_or_compute, invalidate_input and clear

ASSUME DependenciesAssumption ==
    InputsOf \in [Keys -> SUBSET Inputs] /\ QueriesOf \in [Keys -> SUBSET Keys]
ASSUME KeysAssumption == IsFiniteSet(Keys)
ASSUME BoundAssumption == MaxCalls \in Nat

VARIABLES
    entries,        \* entries[k]: the computation whose value is cached
    inputDependents,    \* inputDependents[i]: keys filed under input i
    queryDependents,    \* queryDependents[k]: keys filed under query k
    hits, misses, insertions, invalidations, generation,
    calls,          \* calls so far, also the number of the next computation
    thread          \* thread[t]: the computation under way, or none

vars == <<entries, inputDependents, queryDependents, hits, misses, insertions,
          invalidations, generation, calls, thread>>

Computations == [key : Keys, number : Nat \ {0}]

\* The keys with an entry.
Cached == {k \in Keys : entries[k] # 0}

Init ==
    /\ entries = [k \in Keys |-> 0]
    /\ inputDependents = [i \in Inputs |-> {}]
    /\ queryDependents = [k \in Keys |-> {}]
    /\ hits = 0 /\ misses = 0 /\ insertions = 0 /\ invalidations = 0
    /\ generation = 0
    /\ calls = 0
    /\ thread = [t \in Threads |-> {}]

-----------------------------------------------------------------------------

index == <<inputDependents, queryDependents>>

\* get_or_compute finds the key, or goes to compute.
Get(t, k) ==
    /\ thread[t] = {} /\ calls < MaxCalls
    /\ calls' = calls + 1
    /\ IF entries[k] # 0
       THEN hits' = hits + 1 /\ UNCHANGED <<misses, thread>>
       ELSE /\ misses' = misses + 1
            /\ thread' = [thread EXCEPT ![t] = {[key |-> k, number |-> calls + 1]}]
            /\ UNCHANGED hits
    /\ UNCHANGED <<entries, index, insertions, invalidations, generation>>

\* The computation is done, but another thread was first.
Found(t, c) ==
    /\ entries[c.key] # 0
    /\ hits' = hits + 1
    /\ thread' = [thread EXCEPT ![t] = {}]
    /\ UNCHANGED <<entries, index, misses, insertions, invalidations, generation, calls>>

\* The index with k filed under all of its dependencies.
FiledUnder(dependents, k, of) ==
    [d \in DOMAIN dependents |-> IF d \in of THEN dependents[d] \cup {k} ELSE dependents[d]]

\* The computation is done and is stored.
Insert(t, c) ==
    LET k == c.key IN
    /\ entries[k] = 0
    /\ inputDependents' = FiledUnder(inputDependents, k, InputsOf[k])
    /\ queryDependents' = FiledUnder(queryDependents, k, QueriesOf[k])
    /\ entries' = [entries EXCEPT ![k] = c.number]
    /\ insertions' = insertions + 1
    /\ generation' = generation + 1
    /\ thread' = [thread EXCEPT ![t] = {}]
    /\ UNCHANGED <<hits, misses, invalidations, calls>>

\* Mutant of Reached: only the queries filed under the input itself.
ReachedDirectly(roots) == roots

\* What the worklist of invalidate_queries visits: the least set that holds the
\* roots and whatever is filed under its members.
Reached(roots) ==
    {k \in Keys : \A s \in SUBSET Keys :
        roots \subseteq s /\ (\A q \in s : queryDependents[q] \subseteq s) => k \in s}

\* Mutant of Unfiled: the removed keys stay filed under their other inputs.
UnfiledNowhere(dependents, gone) == dependents

\* The index without the keys that lost their entries.
Unfiled(dependents, gone) == [d \in DOMAIN dependents |-> dependents[d] \ gone]

InvalidateInput(i) ==
    LET visited == Reached(inputDependents[i])
        gone == visited \cap Cached
        others == [inputDependents EXCEPT ![i] = {}]
    IN  /\ calls < MaxCalls /\ calls' = calls + 1
        /\ entries' = [k \in Keys |-> IF k \in visited THEN 0 ELSE entries[k]]
        /\ inputDependents' = Unfiled(others, gone)
        /\ queryDependents' = [k \in Keys |-> IF k \in visited THEN {}
                                              ELSE queryDependents[k] \ gone]
        /\ invalidations' = invalidations + Cardinality(gone)
        /\ generation' = IF gone # {} THEN generation + 1 ELSE generation
        /\ UNCHANGED <<hits, misses, insertions, thread>>

Clear ==
    /\ calls < MaxCalls /\ calls' = calls + 1
    /\ entries' = [k \in Keys |-> 0]
    /\ inputDependents' = [i \in Inputs |-> {}]
    /\ queryDependents' = [k \in Keys |-> {}]
    /\ invalidations' = invalidations + Cardinality(Cached)
    /\ generation' = IF Cached # {} THEN generation + 1 ELSE generation
    /\ UNCHANGED <<hits, misses, insertions, thread>>

Next ==
    \/ \E t \in Threads, k \in Keys : Get(t, k)
    \/ \E t \in Threads : \E c \in thread[t] : Found(t, c) \/ Insert(t, c)
    \/ \E i \in Inputs : InvalidateInput(i)
    \/ Clear

Spec == Init /\ [][Next]_vars

-----------------------------------------------------------------------------

\* The type of the state.
TypeOK ==
    /\ entries \in [Keys -> Nat]
    /\ inputDependents \in [Inputs -> SUBSET Keys]
    /\ queryDependents \in [Keys -> SUBSET Keys]
    /\ calls \in Nat /\ insertions \in Int /\ invalidations \in Int
    /\ thread \in [Threads -> SUBSET Computations]

\* A key is filed under exactly the dependencies of its entry, and nowhere when
\* it has none: an invalidation neither misses an entry nor finds a ghost.
IndexExact ==
    /\ \A i \in Inputs : inputDependents[i] = {k \in Cached : i \in InputsOf[k]}
    /\ \A q \in Keys : queryDependents[q] = {k \in Cached : q \in QueriesOf[k]}

\* The statistics add up to the entries.
StatsExact == insertions - invalidations = Cardinality(Cached)

\* The entries that depend on input i: on i itself, or on an entry that does.
DependOn(i) ==
    {k \in Cached : \A s \in SUBSET Cached :
        /\ \A c \in Cached : i \in InputsOf[c] => c \in s
        /\ \A c \in Cached : (\E q \in s : q \in QueriesOf[c]) => c \in s
        => k \in s}

\* invalidate_input removes the entries that depend on the input, however far,
\* and no others.
InvalidatesExactly ==
    [][\A i \in Inputs : InvalidateInput(i) =>
         {k \in Keys : entries'[k] # 0} = Cached \ DependOn(i)]_vars

\* A snapshot that names an entry stays true of it: while a key has an entry the
\* value does not change, also when several threads computed it.
EntriesStable ==
    [][\A k \in Keys : entries[k] # 0 => entries'[k] \in {entries[k], 0}]_vars
=============================================================================
