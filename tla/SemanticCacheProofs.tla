------------------------ MODULE SemanticCacheProofs ------------------------
(***************************************************************************)
(* The dependency index of QueryCache is exact and invalidation removes    *)
(* exactly what depends on the input, for all threads, keys, inputs and    *)
(* dependencies.                                                           *)
(***************************************************************************)
EXTENDS SemanticCache, FiniteSetTheorems, TLAPS

-----------------------------------------------------------------------------
(* What the worklist reaches.                                              *)

\* The roots are visited.
LEMMA ReachedRoots ==
    ASSUME NEW roots \in SUBSET Keys
    PROVE  roots \subseteq Reached(roots)
BY DEF Reached

\* What is filed under a visited key is visited.
LEMMA ReachedClosed ==
    ASSUME TypeOK, NEW roots \in SUBSET Keys, NEW q \in Reached(roots)
    PROVE  queryDependents[q] \subseteq Reached(roots)
<1> SUFFICES ASSUME NEW k \in queryDependents[q]
             PROVE  k \in Reached(roots)
  OBVIOUS
<1>1. k \in Keys
  BY DEF TypeOK, Reached
<1>2. ASSUME NEW s \in SUBSET Keys, roots \subseteq s,
             \A c \in s : queryDependents[c] \subseteq s
      PROVE  k \in s
  <2>1. q \in s
    BY <1>2 DEF Reached
  <2> QED
    BY <2>1, <1>2
<1> QED
  BY <1>1, <1>2 DEF Reached

\* With an exact index the worklist visits the entries that depend on the input.
LEMMA ReachedExact ==
    ASSUME TypeOK, IndexExact, NEW i \in Inputs
    PROVE  Reached(inputDependents[i]) = DependOn(i)
<1> DEFINE roots == inputDependents[i]
<1>1. roots \subseteq Cached /\ Cached \subseteq Keys
  BY DEF IndexExact, Cached
<1>2. \A q \in Keys : queryDependents[q] \subseteq Cached
  BY DEF IndexExact
<1>3. ASSUME NEW k \in Reached(roots)
      PROVE  k \in DependOn(i)
  <2>1. k \in Cached
    <3>1. \A q \in Cached : queryDependents[q] \subseteq Cached
      BY <1>1, <1>2
    <3> QED
      BY <1>1, <3>1 DEF Reached
  <2>2. ASSUME NEW s \in SUBSET Cached,
               \A c \in Cached : i \in InputsOf[c] => c \in s,
               \A c \in Cached : (\E q \in s : q \in QueriesOf[c]) => c \in s
        PROVE  k \in s
    <3>1. s \in SUBSET Keys
      BY <1>1
    <3>2. roots \subseteq s
      BY <2>2 DEF IndexExact
    <3>3. \A q \in s : queryDependents[q] \subseteq s
      BY <2>2, <3>1 DEF IndexExact
    <3> QED
      BY <3>1, <3>2, <3>3 DEF Reached
  <2> QED
    BY <2>1, <2>2 DEF DependOn
<1>4. ASSUME NEW k \in DependOn(i)
      PROVE  k \in Reached(roots)
  <2>1. k \in Keys
    BY <1>1 DEF DependOn
  <2>2. ASSUME NEW s \in SUBSET Keys, roots \subseteq s,
               \A q \in s : queryDependents[q] \subseteq s
        PROVE  k \in s
    <3> DEFINE both == s \cap Cached
    <3>1. \A c \in Cached : i \in InputsOf[c] => c \in both
      BY <2>2 DEF IndexExact
    <3>2. \A c \in Cached : (\E q \in both : q \in QueriesOf[c]) => c \in both
      BY <2>2 DEF IndexExact
    <3>3. both \in SUBSET Cached
      OBVIOUS
    <3> HIDE DEF both
    <3>4. k \in both
      BY <3>1, <3>2, <3>3 DEF DependOn
    <3> QED
      BY <3>4 DEF both
  <2> QED
    BY <2>1, <2>2 DEF Reached
<1> QED
  BY <1>3, <1>4

-----------------------------------------------------------------------------
(* The type invariant.                                                     *)

\* Every step keeps the types of the entries, the index and the threads.
LEMMA TypeStep == TypeOK /\ [Next]_vars => TypeOK'
<1> SUFFICES ASSUME TypeOK, [Next]_vars
             PROVE  TypeOK'
  OBVIOUS
<1> USE DependenciesAssumption
<1>1. ASSUME NEW t \in Threads, NEW k \in Keys, Get(t, k)
      PROVE  TypeOK'
  BY <1>1 DEF Get, TypeOK, index, Computations
<1>2. ASSUME NEW t \in Threads, NEW c \in thread[t], Found(t, c)
      PROVE  TypeOK'
  BY <1>2 DEF Found, TypeOK, index, Computations
<1>3. ASSUME NEW t \in Threads, NEW c \in thread[t], Insert(t, c)
      PROVE  TypeOK'
  <2>1. c.key \in Keys /\ c.number \in Nat
    BY DEF TypeOK, Computations
  <2>2. inputDependents' \in [Inputs -> SUBSET Keys]
    BY <2>1, <1>3 DEF Insert, TypeOK, FiledUnder
  <2>3. queryDependents' \in [Keys -> SUBSET Keys]
    BY <2>1, <1>3 DEF Insert, TypeOK, FiledUnder
  <2>4. entries' \in [Keys -> Nat] /\ insertions' \in Int
    BY <2>1, <1>3 DEF Insert, TypeOK
  <2> QED
    BY <2>2, <2>3, <2>4, <1>3 DEF Insert, TypeOK
<1>4. ASSUME NEW i \in Inputs, InvalidateInput(i)
      PROVE  TypeOK'
  <2> DEFINE visited == Reached(inputDependents[i])
             gone == visited \cap Cached
  <2>1. gone \in SUBSET Keys
    BY DEF Cached
  <2>2. Cardinality(gone) \in Nat
    BY <2>1, KeysAssumption, FS_Subset, FS_CardinalityType
  <2> HIDE DEF gone, visited
  <2>3. entries' \in [Keys -> Nat]
    BY <1>4 DEF InvalidateInput, TypeOK, visited
  <2>4. inputDependents' \in [Inputs -> SUBSET Keys]
    BY <1>4, <2>1 DEF InvalidateInput, TypeOK, Unfiled, gone, visited
  <2>5. queryDependents' \in [Keys -> SUBSET Keys]
    BY <1>4, <2>1 DEF InvalidateInput, TypeOK, gone, visited
  <2>6. invalidations' \in Int
    BY <1>4, <2>2 DEF InvalidateInput, TypeOK, gone, visited
  <2>7. calls' \in Nat /\ insertions' \in Int /\ thread' = thread
    BY <1>4 DEF InvalidateInput, TypeOK
  <2>8. thread' \in [Threads -> SUBSET Computations]
    BY <2>7 DEF TypeOK
  <2> QED
    BY <2>3, <2>4, <2>5, <2>6, <2>7, <2>8 DEF TypeOK, Computations
<1>5. ASSUME Clear
      PROVE  TypeOK'
  <2>1. Cardinality(Cached) \in Nat
    BY KeysAssumption, FS_Subset, FS_CardinalityType DEF Cached
  <2> QED
    BY <1>5, <2>1 DEF Clear, TypeOK
<1>6. CASE UNCHANGED vars
  BY <1>6 DEF vars, TypeOK
<1> QED
  BY <1>1, <1>2, <1>3, <1>4, <1>5, <1>6 DEF Next

-----------------------------------------------------------------------------
(* The index.                                                              *)

\* Every step keeps the index exact.
LEMMA IndexStep == TypeOK /\ IndexExact /\ [Next]_vars => IndexExact'
<1> SUFFICES ASSUME TypeOK, IndexExact, [Next]_vars
             PROVE  IndexExact'
  OBVIOUS
<1> USE DependenciesAssumption
<1>1. ASSUME NEW t \in Threads, NEW k \in Keys, Get(t, k)
      PROVE  IndexExact'
  BY <1>1 DEF Get, IndexExact, Cached, index
<1>2. ASSUME NEW t \in Threads, NEW c \in thread[t], Found(t, c)
      PROVE  IndexExact'
  BY <1>2 DEF Found, IndexExact, Cached, index
<1>3. ASSUME NEW t \in Threads, NEW c \in thread[t], Insert(t, c)
      PROVE  IndexExact'
  <2> DEFINE k == c.key
  <2>1. k \in Keys /\ c.number \in Nat \ {0}
    BY DEF TypeOK, Computations
  <2>2. Cached' = Cached \cup {k}
    BY <2>1, <1>3 DEF Insert, Cached, TypeOK
  <2>3. \A i \in Inputs : inputDependents'[i] =
            IF i \in InputsOf[k] THEN inputDependents[i] \cup {k} ELSE inputDependents[i]
    BY <1>3 DEF Insert, FiledUnder, TypeOK
  <2>4. \A q \in Keys : queryDependents'[q] =
            IF q \in QueriesOf[k] THEN queryDependents[q] \cup {k} ELSE queryDependents[q]
    BY <1>3 DEF Insert, FiledUnder, TypeOK
  <2> HIDE DEF k
  <2>5. \A i \in Inputs : inputDependents'[i] = {d \in Cached' : i \in InputsOf[d]}
    BY <2>2, <2>3 DEF IndexExact
  <2>6. \A q \in Keys : queryDependents'[q] = {d \in Cached' : q \in QueriesOf[d]}
    BY <2>2, <2>4 DEF IndexExact
  <2> QED
    BY <2>5, <2>6 DEF IndexExact
<1>4. ASSUME NEW i \in Inputs, InvalidateInput(i)
      PROVE  IndexExact'
  <2> DEFINE visited == Reached(inputDependents[i])
  <2>1. inputDependents[i] \subseteq visited
    BY ReachedRoots DEF TypeOK
  <2>2. \A q \in visited : queryDependents[q] \subseteq visited
    BY ReachedClosed DEF TypeOK
  <2>3. \A k \in Keys : entries'[k] = IF k \in visited THEN 0 ELSE entries[k]
    BY <1>4 DEF InvalidateInput
  <2>4. \A j \in Inputs : inputDependents'[j] =
            (IF j = i THEN {} ELSE inputDependents[j]) \ (visited \cap Cached)
    BY <1>4 DEF InvalidateInput, Unfiled, TypeOK
  <2>5. \A q \in Keys : queryDependents'[q] =
            IF q \in visited THEN {} ELSE queryDependents[q] \ (visited \cap Cached)
    BY <1>4 DEF InvalidateInput
  <2> HIDE DEF visited
  <2>6. Cached' = Cached \ visited
    BY <2>3 DEF Cached
  <2>7. \A j \in Inputs : inputDependents'[j] = {c \in Cached' : j \in InputsOf[c]}
    BY <2>1, <2>4, <2>6 DEF IndexExact
  <2>8. \A q \in Keys : queryDependents'[q] = {d \in Cached' : q \in QueriesOf[d]}
    BY <2>2, <2>5, <2>6 DEF IndexExact
  <2> QED
    BY <2>7, <2>8 DEF IndexExact
<1>5. ASSUME Clear
      PROVE  IndexExact'
  BY <1>5 DEF Clear, IndexExact, Cached
<1>6. CASE UNCHANGED vars
  BY <1>6 DEF vars, IndexExact, Cached
<1> QED
  BY <1>1, <1>2, <1>3, <1>4, <1>5, <1>6 DEF Next

\* Every step keeps the statistics in step with the entries.
LEMMA StatsStep == TypeOK /\ IndexExact /\ StatsExact /\ [Next]_vars => StatsExact'
<1> SUFFICES ASSUME TypeOK, IndexExact, StatsExact, [Next]_vars
             PROVE  StatsExact'
  OBVIOUS
<1>0. IsFiniteSet(Cached) /\ Cardinality(Cached) \in Nat
  BY KeysAssumption, FS_Subset, FS_CardinalityType DEF Cached
<1>1. ASSUME NEW t \in Threads, NEW k \in Keys, Get(t, k)
      PROVE  StatsExact'
  BY <1>1 DEF Get, StatsExact, Cached
<1>2. ASSUME NEW t \in Threads, NEW c \in thread[t], Found(t, c)
      PROVE  StatsExact'
  BY <1>2 DEF Found, StatsExact, Cached
<1>3. ASSUME NEW t \in Threads, NEW c \in thread[t], Insert(t, c)
      PROVE  StatsExact'
  <2> DEFINE k == c.key
  <2>1. k \in Keys /\ c.number \in Nat \ {0}
    BY DEF TypeOK, Computations
  <2>2. Cached' = Cached \cup {k} /\ k \notin Cached
    BY <2>1, <1>3 DEF Insert, Cached, TypeOK
  <2> HIDE DEF k
  <2>3. Cardinality(Cached') = Cardinality(Cached) + 1
    BY <2>2, <1>0, FS_AddElement
  <2> QED
    BY <2>3, <1>0, <1>3 DEF Insert, StatsExact, TypeOK
<1>4. ASSUME NEW i \in Inputs, InvalidateInput(i)
      PROVE  StatsExact'
  <2> DEFINE gone == Reached(inputDependents[i]) \cap Cached
  <2>1. Cached' = Cached \ gone
    BY <1>4 DEF InvalidateInput, Cached
  <2>2. gone \subseteq Cached
    OBVIOUS
  <2>3. invalidations' = invalidations + Cardinality(gone) /\ insertions' = insertions
    BY <1>4 DEF InvalidateInput
  <2> HIDE DEF gone
  <2>4. Cardinality(gone) \in Nat /\ IsFiniteSet(gone)
    BY <2>2, <1>0, FS_Subset, FS_CardinalityType
  <2>5. Cardinality(Cached \ gone) = Cardinality(Cached) - Cardinality(Cached \cap gone)
    BY <1>0, <2>4, FS_Difference
  <2>6. Cached \cap gone = gone
    BY <2>2
  <2>7. Cardinality(Cached') = Cardinality(Cached) - Cardinality(gone)
    BY <2>1, <2>5, <2>6
  <2>8. insertions \in Int /\ invalidations \in Int
    BY DEF TypeOK
  <2> QED
    BY <2>3, <2>4, <2>7, <2>8, <1>0 DEF StatsExact
<1>5. ASSUME Clear
      PROVE  StatsExact'
  <2>1. Cached' = {}
    BY <1>5 DEF Clear, Cached
  <2>2. Cardinality(Cached') = 0
    BY <2>1, FS_EmptySet
  <2> QED
    BY <2>2, <1>0, <1>5 DEF Clear, StatsExact, TypeOK
<1>6. CASE UNCHANGED vars
  BY <1>6 DEF vars, StatsExact, Cached
<1> QED
  BY <1>1, <1>2, <1>3, <1>4, <1>5, <1>6 DEF Next

-----------------------------------------------------------------------------

\* The invariant that the theorems rest on.
IndexInv == TypeOK /\ IndexExact /\ StatsExact

\* The empty cache has it.
LEMMA IndexInvInit == Init => IndexInv
<1> SUFFICES ASSUME Init
             PROVE  IndexInv
  OBVIOUS
<1>1. TypeOK
  BY DEF Init, TypeOK
<1>2. IndexExact
  BY DEF Init, IndexExact, Cached
<1>3. Cached = {}
  BY DEF Init, Cached
<1>4. StatsExact
  BY <1>3, FS_EmptySet DEF Init, StatsExact
<1> QED
  BY <1>1, <1>2, <1>4 DEF IndexInv

\* The types, the index and the statistics of QueryCache hold in every state,
\* whatever the threads call in whatever order.
THEOREM IndexIsExact == Spec => [](TypeOK /\ IndexExact /\ StatsExact)
<1>1. IndexInv /\ [Next]_vars => IndexInv'
  BY TypeStep, IndexStep, StatsStep DEF IndexInv
<1>2. IndexInv => TypeOK /\ IndexExact /\ StatsExact
  BY DEF IndexInv
<1> QED
  BY <1>1, <1>2, IndexInvInit, PTL DEF Spec

\* invalidate_input removes exactly the entries that depend on its input, at any
\* distance, for every dependency relation.
THEOREM InvalidationIsExact == Spec => InvalidatesExactly
<1>1. ASSUME IndexInv, NEW i \in Inputs, InvalidateInput(i)
      PROVE  {k \in Keys : entries'[k] # 0} = Cached \ DependOn(i)
  <2>1. Reached(inputDependents[i]) = DependOn(i)
    BY <1>1, ReachedExact DEF IndexInv
  <2> QED
    BY <1>1, <2>1 DEF InvalidateInput, Cached
<1>2. IndexInv => [\A i \in Inputs : InvalidateInput(i) =>
                     {k \in Keys : entries'[k] # 0} = Cached \ DependOn(i)]_vars
  BY <1>1
<1>3. Spec => []IndexInv
  BY IndexIsExact, PTL DEF IndexInv
<1> QED
  BY <1>2, <1>3, PTL DEF InvalidatesExactly

\* While a key has an entry, no thread replaces its value.
THEOREM EntriesAreStable == Spec => EntriesStable
<1>1. ASSUME IndexInv, [Next]_vars
      PROVE  \A k \in Keys : entries[k] # 0 => entries'[k] \in {entries[k], 0}
  <2>1. ASSUME NEW t \in Threads, NEW c \in thread[t], Insert(t, c)
        PROVE  \A k \in Keys : entries[k] # 0 => entries'[k] \in {entries[k], 0}
    BY <1>1, <2>1 DEF IndexInv, TypeOK, Computations, Insert
  <2>2. ASSUME NEW i \in Inputs, InvalidateInput(i)
        PROVE  \A k \in Keys : entries[k] # 0 => entries'[k] \in {entries[k], 0}
    BY <2>2 DEF InvalidateInput
  <2>3. ASSUME Clear
        PROVE  \A k \in Keys : entries[k] # 0 => entries'[k] \in {entries[k], 0}
    BY <2>3 DEF Clear
  <2>4. CASE UNCHANGED entries
    BY <2>4
  <2> QED
    BY <1>1, <2>1, <2>2, <2>3, <2>4 DEF Next, vars, Get, Found
<1>2. IndexInv /\ [Next]_vars =>
        [\A k \in Keys : entries[k] # 0 => entries'[k] \in {entries[k], 0}]_vars
  BY <1>1
<1>3. Spec => []IndexInv
  BY IndexIsExact, PTL DEF IndexInv
<1> QED
  BY <1>2, <1>3, PTL DEF EntriesStable, Spec
=============================================================================
