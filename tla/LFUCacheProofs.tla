--------------------------- MODULE LFUCacheProofs ---------------------------
(***************************************************************************)
(* Proofs about LFUCache for every set of keys and values, every capacity  *)
(* and every aging threshold.                                              *)
(***************************************************************************)
EXTENDS LFUCache, LFUProofs, FiniteSetTheorems, TLAPS

USE DEF Entry

(***************************************************************************)
(* The inductive invariant.  WithinCapacity alone is not inductive: that   *)
(* Delete shrinks the cache needs a finite entry map, and that the         *)
(* counters stay below the threshold needs TypeOK.                         *)
(***************************************************************************)
FiniteEntries == IsFiniteSet(DOMAIN entries)

Inv == TypeOK /\ WithinCapacity /\ FiniteEntries

\* What the calls return is a result.
LEMMA ResultTypes ==
    /\ Miss \in Results
    /\ \A v \in Values : Hit(v) \in Results /\ Stored(v) \in Results
  BY DEF Miss, Hit, Stored, Results

\* The empty map has no key.
LEMMA EmptyMap == DOMAIN NoEntries = {}
  BY DEF NoEntries

\* NewLFU establishes the invariant.
LEMMA InitInv == Init => Inv
  <1> SUFFICES ASSUME Init PROVE Inv
    OBVIOUS
  <1>1. NoEntries \in [{} -> Entry(Values)]
    BY DEF NoEntries
  <1>2. entries \in EntryMaps(Keys, Values)
    BY <1>1, EntryMapIntro DEF Init, NewLFU
  <1>3. FiniteEntries /\ (Enabled => Cardinality(DOMAIN entries) <= max)
    BY EmptyMap, FS_EmptySet, CapacitiesAssumption
       DEF Init, NewLFU, Enabled, FiniteEntries
  <1> QED
    BY <1>2, <1>3, ResultTypes DEF Init, NewLFU, Inv, TypeOK, WithinCapacity, Calls

\* Under the invariant a key can only be present in an enabled cache, and
\* what it maps to is an entry.
LEMMA PresentFacts ==
    ASSUME Inv, NEW key \in Keys, Present(key)
    PROVE  /\ Enabled
           /\ entries[key] \in Entry(Values)
  <1>1. Enabled
    BY EmptyMap DEF Inv, WithinCapacity, Present
  <1>2. entries \in [DOMAIN entries -> Entry(Values)]
    BY EntryMapElim DEF Inv, TypeOK
  <1> QED
    BY <1>1, <1>2 DEF Present

\* A step that keeps the keys keeps the invariant.
LEMMA SameKeysInv ==
    ASSUME Inv, UNCHANGED max, Enabled,
           entries' \in EntryMaps(Keys, Values), DOMAIN entries' = DOMAIN entries,
           call' \in Calls, ret' \in Results
    PROVE  Inv'
  BY DEF Inv, TypeOK, WithinCapacity, FiniteEntries, Enabled

\* Inserting an absent key into an enabled cache keeps the invariant.
LEMMA InsertInv ==
    ASSUME Inv, UNCHANGED max, Enabled,
           NEW key \in Keys, NEW value \in Values, ~Present(key),
           entries' \in Insertions(entries, key, value, max),
           call' \in Calls, ret' \in Results
    PROVE  Inv'
  <1>1. /\ entries' \in EntryMaps(Keys, Values)
        /\ Cardinality(DOMAIN entries') <= max
        /\ DOMAIN entries' \subseteq DOMAIN entries \cup {key}
    BY InsertionResult, CapacitiesAssumption DEF Inv, TypeOK, Present
  <1>2. IsFiniteSet(DOMAIN entries \cup {key})
    BY FS_AddElement DEF Inv, FiniteEntries
  <1>3. IsFiniteSet(DOMAIN entries')
    BY <1>1, <1>2, FS_Subset
  <1> QED
    BY <1>1, <1>3 DEF Inv, TypeOK, WithinCapacity, FiniteEntries, Enabled

\* Every call preserves the invariant.
LEMMA NextInv == Inv /\ [Next]_vars => Inv'
  <1> SUFFICES ASSUME Inv, [Next]_vars PROVE Inv'
    OBVIOUS
  <1>0. entries \in EntryMaps(Keys, Values)
    BY DEF Inv, TypeOK
  <1>1. ASSUME NEW key \in Keys, Get(key) PROVE Inv'
    <2>0. call' \in Calls
      BY <1>1 DEF Get, Calls
    <2>1. CASE Present(key)
      <3>1. /\ entries' \in EntryMaps(Keys, Values)
            /\ DOMAIN entries' = DOMAIN entries
        BY <1>0, <1>1, <2>1, TouchKeepsEntryMap DEF Get, Present
      <3>2. ret' \in Results
        BY <1>1, <2>1, PresentFacts, ResultTypes DEF Get
      <3> QED
        BY <1>1, <2>0, <2>1, <3>1, <3>2, PresentFacts, SameKeysInv DEF Get
    <2>2. CASE ~Present(key)
      BY <1>1, <2>0, <2>2, ResultTypes DEF Get, Inv, TypeOK, WithinCapacity, FiniteEntries, Enabled
    <2> QED
      BY <2>1, <2>2
  <1>2. ASSUME NEW key \in Keys, NEW value \in Values, Set(key, value) PROVE Inv'
    <2>0. call' \in Calls /\ ret' \in Results
      BY <1>2, ResultTypes DEF Set, Calls
    <2>1. CASE Present(key) /\ entries' = touchLocked(WithValue(entries, key, value), key)
      <3> DEFINE e == WithValue(entries, key, value)
      <3>1. e \in EntryMaps(Keys, Values) /\ DOMAIN e = DOMAIN entries
        <4>1. entries \in [DOMAIN entries -> Entry(Values)] /\ DOMAIN entries \in SUBSET Keys
          BY <1>0, EntryMapElim
        <4>2. e \in [DOMAIN entries -> Entry(Values)]
          BY <2>1, <4>1 DEF Present, WithValue
        <4> QED
          BY <4>1, <4>2, EntryMapIntro
      <3> HIDE DEF e
      <3>2. entries' \in EntryMaps(Keys, Values) /\ DOMAIN entries' = DOMAIN entries
        BY <2>1, <3>1, TouchKeepsEntryMap DEF Present, e
      <3> QED
        BY <1>2, <2>0, <2>1, <3>2, PresentFacts, SameKeysInv DEF Set
    <2>2. CASE Enabled /\ ~Present(key) /\ entries' \in Insertions(entries, key, value, max)
      BY <1>2, <2>0, <2>2, InsertInv DEF Set
    <2>3. CASE UNCHANGED entries
      BY <1>2, <2>0, <2>3 DEF Set, Inv, TypeOK, WithinCapacity, FiniteEntries, Enabled
    <2> QED
      BY <1>2, <2>1, <2>2, <2>3 DEF Set
  <1>3. ASSUME NEW key \in Keys, NEW value \in Values, LoadOrStore(key, value) PROVE Inv'
    <2>0. call' \in Calls
      BY <1>3 DEF LoadOrStore, Calls
    <2>1. CASE Present(key)
      <3>1. ~(~Present(key)) /\ Enabled
        BY <2>1, PresentFacts
      <3>2. /\ entries' \in EntryMaps(Keys, Values)
            /\ DOMAIN entries' = DOMAIN entries
        BY <1>0, <1>3, <2>1, <3>1, TouchKeepsEntryMap DEF LoadOrStore, Present
      <3>3. ret' \in Results
        BY <1>3, <2>1, <3>1, PresentFacts, ResultTypes DEF LoadOrStore
      <3> QED
        BY <1>3, <2>0, <3>1, <3>2, <3>3, SameKeysInv DEF LoadOrStore
    <2>2. CASE ~Present(key) /\ Enabled
      <3>2. ret' \in Results
        BY <1>3, <2>2, ResultTypes DEF LoadOrStore
      <3>3. UNCHANGED max /\ entries' \in Insertions(entries, key, value, max)
        BY <1>3, <2>2 DEF LoadOrStore
      <3> QED
        BY <2>0, <2>2, <3>2, <3>3, InsertInv
    <2>3. CASE ~Present(key) /\ ~Enabled
      <3>2. ret' \in Results
        BY <1>3, <2>3, ResultTypes DEF LoadOrStore
      <3>3. UNCHANGED <<max, entries>>
        BY <1>3, <2>3 DEF LoadOrStore
      <3> QED
        BY <2>0, <3>2, <3>3 DEF Inv, TypeOK, WithinCapacity, FiniteEntries, Enabled
    <2> QED
      BY <2>1, <2>2, <2>3
  <1>4. ASSUME NEW key \in Keys, Delete(key) PROVE Inv'
    <2>0. call' \in Calls
      BY <1>4 DEF Delete, Calls
    <2>1. /\ DOMAIN entries' = DOMAIN entries \ {key}
          /\ \A k \in DOMAIN entries' : entries'[k] = entries[k]
      BY <1>4 DEF Delete, Without, Keep
    <2>2. entries' \in EntryMaps(Keys, Values)
      <3>1. DOMAIN entries \in SUBSET Keys /\ entries \in [DOMAIN entries -> Entry(Values)]
        BY <1>0, EntryMapElim
      <3>2. entries' \in [DOMAIN entries \ {key} -> Entry(Values)]
        BY <1>4, <3>1 DEF Delete, Without, Keep
      <3> QED
        BY <3>1, <3>2, EntryMapIntro
    <2>3. /\ IsFiniteSet(DOMAIN entries')
          /\ Cardinality(DOMAIN entries') <= Cardinality(DOMAIN entries)
          /\ Cardinality(DOMAIN entries) \in Nat
          /\ Cardinality(DOMAIN entries') \in Nat
      BY <2>1, FS_Subset, FS_CardinalityType DEF Inv, FiniteEntries
    <2>4. entries = NoEntries => entries' = NoEntries
      BY <1>4, EmptyMap DEF Delete, Without, Keep, NoEntries
    <2> QED
      BY <1>4, <2>0, <2>2, <2>3, <2>4, CapacitiesAssumption, ResultTypes
         DEF Delete, Inv, TypeOK, WithinCapacity, FiniteEntries, Enabled
  <1>5. CASE UNCHANGED vars
    BY <1>5 DEF vars, Inv, TypeOK, WithinCapacity, FiniteEntries, Enabled
  <1> QED
    BY <1>1, <1>2, <1>3, <1>4, <1>5 DEF Next

\* Every reachable state of the cache is well typed, its counters below the
\* aging threshold and its size within max (NewLFU, touchLocked, evictLocked).
THEOREM CacheInvariant == Spec => [](TypeOK /\ WithinCapacity)
  <1>1. Inv => TypeOK /\ WithinCapacity
    BY DEF Inv
  <1> QED
    BY InitInv, NextInv, <1>1, PTL DEF Spec

\* ... which includes that every counter stays within its type.
THEOREM CacheTypes == Spec => []TypeOK
  <1>1. Inv => TypeOK
    BY DEF Inv
  <1> QED
    BY InitInv, NextInv, <1>1, PTL DEF Spec

(***************************************************************************)
(* What one call may do to the keys and to the ranking.                    *)
(***************************************************************************)

\* A call that touches key: the keys stay, and only key may overtake.
Touches(key) ==
    /\ call'[1] # "Delete" /\ call'[2] = key
    /\ DOMAIN entries' = DOMAIN entries
    /\ \A a, b \in DOMAIN entries :
          a # key /\ entries[a].useCount <= entries[b].useCount
          => entries'[a].useCount <= entries'[b].useCount

\* A call that inserts key: the other entries stay as they are or are evicted.
Inserts(key) ==
    /\ key \notin DOMAIN entries
    /\ key \in DOMAIN entries'
    /\ DOMAIN entries' \subseteq DOMAIN entries \cup {key}
    /\ EvictsAtMostOne(entries, entries', max)

\* A call that deletes key: the other entries stay as they are.
Deletes(key) ==
    /\ call' = <<"Delete", key>>
    /\ DOMAIN entries' = DOMAIN entries \ {key}
    /\ \A k \in DOMAIN entries' : entries'[k] = entries[k]

\* Touching an entry, its value replaced or not, keeps the other ranks.
LEMMA TouchStep ==
    ASSUME Inv, NEW key \in Keys, Present(key),
           call'[1] # "Delete", call'[2] = key,
           NEW es \in EntryMaps(Keys, Values), DOMAIN es = DOMAIN entries,
           \A k \in DOMAIN entries : es[k].useCount = entries[k].useCount,
           entries' = touchLocked(es, key)
    PROVE  Touches(key)
  <1>1. key \in DOMAIN es
    BY DEF Present
  <1>2. DOMAIN entries' = DOMAIN entries
    BY <1>1, TouchKeepsEntryMap
  <1>3. ASSUME NEW a \in DOMAIN es, NEW b \in DOMAIN es,
               a # key, es[a].useCount <= es[b].useCount
        PROVE  entries'[a].useCount <= entries'[b].useCount
    BY <1>1, <1>3, TouchKeepsRank
  <1> QED
    BY <1>2, <1>3 DEF Touches

\* An insertion into a cache within its capacity evicts as evictLocked says.
LEMMA InsertStep ==
    ASSUME Inv, Enabled, NEW key \in Keys, NEW value \in Values, ~Present(key),
           entries' \in Insertions(entries, key, value, max)
    PROVE  Inserts(key)
  <1>1. /\ entries \in EntryMaps(Keys, Values) /\ max \in Int
        /\ IsFiniteSet(DOMAIN entries) /\ Cardinality(DOMAIN entries) <= max
        /\ key \notin DOMAIN entries
    BY CapacitiesAssumption DEF Inv, TypeOK, WithinCapacity, FiniteEntries, Present
  <1>2. /\ key \in DOMAIN entries'
        /\ DOMAIN entries' \subseteq DOMAIN entries \cup {key}
    BY <1>1, InsertionResult
  <1>3. EvictsAtMostOne(entries, entries', max)
    BY <1>1, InsertionEvicts
  <1> QED
    BY <1>1, <1>2, <1>3 DEF Inserts

\* Every call touches, inserts, deletes or leaves the entries alone.
LEMMA StepKinds ==
    ASSUME Inv, Next
    PROVE  \/ UNCHANGED entries
           \/ \E key \in Keys : Touches(key) \/ Inserts(key) \/ Deletes(key)
  <1>0. entries \in EntryMaps(Keys, Values)
    BY DEF Inv, TypeOK
  <1> DEFINE Goal(key) == UNCHANGED entries \/ Touches(key) \/ Inserts(key) \/ Deletes(key)
  <1>1. ASSUME NEW key \in Keys, Get(key) PROVE Goal(key)
    <2>1. CASE Present(key)
      <3>1. call'[1] # "Delete" /\ call'[2] = key /\ entries' = touchLocked(entries, key)
        BY <1>1, <2>1 DEF Get
      <3> QED
        BY <1>0, <2>1, <3>1, TouchStep
    <2>2. CASE ~Present(key)
      BY <1>1, <2>2 DEF Get
    <2> QED
      BY <2>1, <2>2
  <1>2. ASSUME NEW key \in Keys, NEW value \in Values, Set(key, value) PROVE Goal(key)
    <2>1. CASE Present(key) /\ entries' = touchLocked(WithValue(entries, key, value), key)
      <3> DEFINE e == WithValue(entries, key, value)
      <3>1. entries \in [DOMAIN entries -> Entry(Values)] /\ DOMAIN entries \in SUBSET Keys
        BY <1>0, EntryMapElim
      <3>2. e \in [DOMAIN entries -> Entry(Values)]
        BY <2>1, <3>1 DEF Present, WithValue
      <3>3. e \in EntryMaps(Keys, Values) /\ DOMAIN e = DOMAIN entries
        BY <3>1, <3>2, EntryMapIntro
      <3>4. \A k \in DOMAIN entries : e[k].useCount = entries[k].useCount
        BY DEF WithValue
      <3>5. call'[1] # "Delete" /\ call'[2] = key
        BY <1>2 DEF Set
      <3> HIDE DEF e
      <3>6. entries' = touchLocked(e, key)
        BY <2>1 DEF e
      <3> QED
        BY <2>1, <3>3, <3>4, <3>5, <3>6, TouchStep
    <2>2. CASE Enabled /\ ~Present(key) /\ entries' \in Insertions(entries, key, value, max)
      BY <2>2, InsertStep
    <2>3. CASE UNCHANGED entries
      BY <2>3
    <2> QED
      BY <1>2, <2>1, <2>2, <2>3 DEF Set
  <1>3. ASSUME NEW key \in Keys, NEW value \in Values, LoadOrStore(key, value) PROVE Goal(key)
    <2>1. CASE Present(key) /\ entries' = touchLocked(entries, key)
      <3>1. call'[1] # "Delete" /\ call'[2] = key
        BY <1>3 DEF LoadOrStore
      <3> QED
        BY <1>0, <2>1, <3>1, TouchStep
    <2>2. CASE Enabled /\ ~Present(key) /\ entries' \in Insertions(entries, key, value, max)
      BY <2>2, InsertStep
    <2>3. CASE UNCHANGED entries
      BY <2>3
    <2> QED
      BY <1>3, <2>1, <2>2, <2>3 DEF LoadOrStore
  <1>4. ASSUME NEW key \in Keys, Delete(key) PROVE Goal(key)
    BY <1>4 DEF Delete, Deletes, Without, Keep
  <1> HIDE DEF Goal
  <1>5. PICK key \in Keys : Goal(key)
    BY <1>1, <1>2, <1>3, <1>4 DEF Next
  <1> QED
    BY <1>5 DEF Goal

\* A key leaves the cache only by Delete or as the least frequently used entry
\* of a full one, one victim for each insertion (evictLocked).
THEOREM VictimsAreLeastUsed == Spec => EvictsLeastUsed
  <1> DEFINE A == /\ \A gone \in DOMAIN entries \ DOMAIN entries' :
                       \/ call' = <<"Delete", gone>>
                       \/ \A kept \in DOMAIN entries \cap DOMAIN entries' :
                             entries[gone].useCount <= entries[kept].useCount
                  /\ \A new \in DOMAIN entries' \ DOMAIN entries :
                       /\ DOMAIN entries' \subseteq DOMAIN entries \cup {new}
                       /\ Cardinality(DOMAIN entries \ DOMAIN entries') =
                             IF Cardinality(DOMAIN entries) = max THEN 1 ELSE 0
  <1>1. ASSUME Inv, Next PROVE A
    <2>1. CASE UNCHANGED entries
      BY <2>1
    <2>2. ASSUME NEW key \in Keys, Touches(key) PROVE A
      BY <2>2 DEF Touches
    <2>3. ASSUME NEW key \in Keys, Inserts(key) PROVE A
      <3>1. \A new \in DOMAIN entries' \ DOMAIN entries : new = key
        BY <2>3 DEF Inserts
      <3> QED
        BY <2>3, <3>1 DEF Inserts, EvictsAtMostOne
    <2>4. ASSUME NEW key \in Keys, Deletes(key) PROVE A
      BY <2>4 DEF Deletes
    <2> HIDE DEF A
    <2> QED
      BY <1>1, StepKinds, <2>1, <2>2, <2>3, <2>4
  <1>2. Inv /\ [Next]_vars => [A]_vars
    <2> HIDE DEF A
    <2> QED
      BY <1>1
  <1> QED
    BY InitInv, NextInv, <1>2, PTL DEF Spec, EvictsLeastUsed

\* Aging never lets an entry overtake another one, except the entry the call
\* accessed (touchLocked).
THEOREM AgingKeepsRanks == Spec => RankPreserved
  <1> DEFINE A == \A a, b \in DOMAIN entries \cap DOMAIN entries' :
                    /\ entries[a].useCount <= entries[b].useCount
                    /\ entries'[a].useCount > entries'[b].useCount
                    => call'[1] # "Delete" /\ call'[2] = a
  <1>1. ASSUME Inv, Next PROVE A
    <2> SUFFICES ASSUME NEW a \in DOMAIN entries \cap DOMAIN entries',
                        NEW b \in DOMAIN entries \cap DOMAIN entries',
                        entries[a].useCount <= entries[b].useCount,
                        entries'[a].useCount > entries'[b].useCount
                 PROVE  call'[1] # "Delete" /\ call'[2] = a
      OBVIOUS
    <2>0. /\ entries[a].useCount \in Int /\ entries[b].useCount \in Int
          /\ entries'[a].useCount \in Int /\ entries'[b].useCount \in Int
      <3>1. Inv'
        BY <1>1, NextInv
      <3>2. entries \in [DOMAIN entries -> Entry(Values)]
        BY <1>1, EntryMapElim DEF Inv, TypeOK
      <3>3. entries' \in [DOMAIN entries' -> Entry(Values)]
        BY <3>1, EntryMapElim DEF Inv, TypeOK
      <3> QED
        BY <3>2, <3>3, UseCountCapAssumption
    <2>1. ~UNCHANGED entries
      BY <2>0
    <2>2. ASSUME NEW key \in Keys, Touches(key) PROVE call'[1] # "Delete" /\ call'[2] = a
      BY <2>0, <2>2 DEF Touches
    <2>3. ASSUME NEW key \in Keys, Inserts(key) \/ Deletes(key) PROVE FALSE
      BY <2>0, <2>3 DEF Inserts, EvictsAtMostOne, Deletes
    <2> QED
      BY <1>1, StepKinds, <2>1, <2>2, <2>3
  <1>2. Inv /\ [Next]_vars => [A]_vars
    <2> HIDE DEF A
    <2> QED
      BY <1>1
  <1> QED
    BY InitInv, NextInv, <1>2, PTL DEF Spec, RankPreserved

\* The cache is a bounded least-frequently-used cache: capacity, choice of the
\* victim and aging together (LoadOrStore, touchLocked, evictLocked).
THEOREM CacheIsLFU == Spec => LeastFrequentlyUsed
  BY CacheInvariant, VictimsAreLeastUsed, AgingKeepsRanks, PTL DEF LeastFrequentlyUsed

(***************************************************************************)
(* The refinement of LossyMap.                                             *)
(***************************************************************************)

\* The abstract store of an entry map: the refinement mapping.
Stores(es) == [k \in Keys |-> IF k \in DOMAIN es THEN es[k].value ELSE NoValue]

\* The abstract effect of storing value for key: it replaces what was there,
\* and any key may be forgotten.
StoresOrForgets(es, key, value, new) ==
    \E lost \in SUBSET Keys :
        Stores(new) = [k \in Keys |-> IF k \in lost THEN NoValue
                         ELSE [Stores(es) EXCEPT ![key] = value][k]]

\* Touching an entry is invisible to the callers.
LEMMA TouchKeepsStore ==
    ASSUME NEW es \in EntryMaps(Keys, Values), NEW key \in DOMAIN es
    PROVE  Stores(touchLocked(es, key)) = Stores(es)
  BY TouchKeepsEntryMap DEF Stores

\* An insertion stores the new value and otherwise only forgets.
LEMMA InsertionForgets ==
    ASSUME NEW es \in EntryMaps(Keys, Values), NEW key \in Keys, NEW value \in Values,
           NEW m \in Int, key \notin DOMAIN es,
           NEW new \in Insertions(es, key, value, m)
    PROVE  StoresOrForgets(es, key, value, new)
  <1>1. /\ DOMAIN new \subseteq DOMAIN es \cup {key}
        /\ key \in DOMAIN new
        /\ new[key].value = value
        /\ \A k \in DOMAIN new \ {key} : new[k].value = es[k].value
    BY InsertionResult
  <1>2. \A k \in Keys : k \notin DOMAIN new => Stores(new)[k] = NoValue
    BY DEF Stores
  <1>3. \A k \in DOMAIN new \cap Keys :
            Stores(new)[k] = [Stores(es) EXCEPT ![key] = value][k]
    BY <1>1 DEF Stores
  <1>4. Stores(new) = [k \in Keys |-> IF k \in Keys \ DOMAIN new THEN NoValue
                         ELSE [Stores(es) EXCEPT ![key] = value][k]]
    BY <1>2, <1>3 DEF Stores
  <1> QED
    BY <1>4 DEF StoresOrForgets

\* A nil cache stores nothing: everything is forgotten at once.
LEMMA NilCacheForgets ==
    ASSUME Inv, ~Enabled, NEW key, NEW value
    PROVE  StoresOrForgets(entries, key, value, entries)
  <1>1. Stores(entries) = [k \in Keys |-> IF k \in Keys THEN NoValue
                             ELSE [Stores(entries) EXCEPT ![key] = value][k]]
    BY EmptyMap DEF Inv, WithinCapacity, Stores
  <1> QED
    BY <1>1 DEF StoresOrForgets

\* Each call of the cache is the call of the same name of the lossy map.
LEMMA StepRefines == Inv /\ [Next]_vars => [Abstract!Next]_(Abstract!lmVars)
  <1> SUFFICES ASSUME Inv, [Next]_vars PROVE [Abstract!Next]_(Abstract!lmVars)
    OBVIOUS
  <1> USE DEF Stores
  <1>0. entries \in EntryMaps(Keys, Values) /\ max \in Int
    BY CapacitiesAssumption DEF Inv, TypeOK
  <1>1. ASSUME NEW key \in Keys, Get(key) PROVE Abstract!Get(key)
    <2>1. CASE Present(key)
      <3>1. UNCHANGED Stores(entries)
        BY <1>0, <1>1, <2>1, TouchKeepsStore DEF Get, Present
      <3>2. ret' = Abstract!Result(Stores(entries)[key])
        BY <1>1, <2>1, PresentFacts, NoValueNotAValue DEF Get, Present, Hit, Abstract!Result
      <3> QED
        BY <1>1, <3>1, <3>2 DEF Get, Abstract!Get
    <2>2. CASE ~Present(key)
      BY <1>1, <2>2 DEF Get, Present, Miss, Abstract!Get, Abstract!Result
    <2> QED
      BY <2>1, <2>2
  <1>2. ASSUME NEW key \in Keys, NEW value \in Values, Set(key, value)
        PROVE  Abstract!Set(key, value)
    <2>0. ret' = Abstract!Result(NoValue)
      BY <1>2 DEF Set, Miss, Abstract!Result
    <2>1. StoresOrForgets(entries, key, value, entries')
      <3>1. CASE Present(key) /\ entries' = touchLocked(WithValue(entries, key, value), key)
        <4> DEFINE e == WithValue(entries, key, value)
        <4>1. e \in EntryMaps(Keys, Values) /\ key \in DOMAIN e
          <5>1. entries \in [DOMAIN entries -> Entry(Values)] /\ DOMAIN entries \in SUBSET Keys
            BY <1>0, EntryMapElim
          <5>2. e \in [DOMAIN entries -> Entry(Values)]
            BY <3>1, <5>1 DEF Present, WithValue
          <5> QED
            BY <3>1, <5>1, <5>2, EntryMapIntro DEF Present
        <4>2. Stores(e) = [Stores(entries) EXCEPT ![key] = value]
          BY <3>1 DEF Present, WithValue
        <4>3. Stores(entries') = Stores(e)
          <5> HIDE DEF e, Stores
          <5> QED
            BY <3>1, <4>1, TouchKeepsStore DEF e
        <4> DEFINE lost == {}
        <4>4. /\ lost \in SUBSET Keys
              /\ Stores(entries') = [k \in Keys |-> IF k \in lost THEN NoValue
                                       ELSE [Stores(entries) EXCEPT ![key] = value][k]]
          BY <4>2, <4>3
        <4> HIDE DEF Stores, e, lost
        <4> QED
          BY <4>4 DEF StoresOrForgets
      <3>2. CASE Enabled /\ ~Present(key) /\ entries' \in Insertions(entries, key, value, max)
        BY <1>0, <3>2, InsertionForgets DEF Present
      <3>3. CASE ~Enabled /\ UNCHANGED entries
        BY <3>3, NilCacheForgets
      <3> QED
        BY <1>2, <3>1, <3>2, <3>3 DEF Set
    <2> QED
      BY <1>2, <2>0, <2>1 DEF Set, Abstract!Set, Abstract!MayForget, StoresOrForgets
  <1>3. ASSUME NEW key \in Keys, NEW value \in Values, LoadOrStore(key, value)
        PROVE  Abstract!LoadOrStore(key, value)
    <2>0. call' = <<"LoadOrStore", key, value>>
      BY <1>3 DEF LoadOrStore
    <2>1. CASE Present(key)
      <3>0. Enabled
        BY <2>1, PresentFacts
      <3>1. UNCHANGED Stores(entries)
        BY <1>0, <1>3, <2>1, <3>0, TouchKeepsStore DEF LoadOrStore, Present
      <3>2. /\ Stores(entries)[key] # NoValue
            /\ ret' = Abstract!Result(Stores(entries)[key])
        BY <1>3, <2>1, <3>0, PresentFacts, NoValueNotAValue
           DEF LoadOrStore, Present, Hit, Abstract!Result
      <3> QED
        BY <1>3, <3>1, <3>2 DEF LoadOrStore, Abstract!LoadOrStore
    <2>2. CASE ~Present(key)
      <3>1. Stores(entries)[key] = NoValue
        BY <2>2 DEF Present
      <3>2. ret' = [value |-> value, found |-> FALSE]
        BY <1>3, <2>2 DEF LoadOrStore, Stored
      <3>3. StoresOrForgets(entries, key, value, entries')
        <4>1. CASE Enabled
          <5>1. entries' \in Insertions(entries, key, value, max)
            BY <1>3, <2>2, <4>1 DEF LoadOrStore
          <5> QED
            BY <1>0, <2>2, <5>1, InsertionForgets DEF Present
        <4>2. CASE ~Enabled
          <5>1. UNCHANGED entries
            BY <1>3, <2>2, <4>2 DEF LoadOrStore
          <5> QED
            BY <4>2, <5>1, NilCacheForgets
        <4> QED
          BY <4>1, <4>2
      <3> QED
        BY <2>0, <3>1, <3>2, <3>3 DEF Abstract!LoadOrStore, Abstract!MayForget, StoresOrForgets
    <2> QED
      BY <2>1, <2>2
  <1>4. ASSUME NEW key \in Keys, Delete(key) PROVE Abstract!Delete(key)
    BY <1>4 DEF Delete, Without, Keep, Miss, Abstract!Delete, Abstract!Result
  <1>5. CASE UNCHANGED vars
    BY <1>5 DEF vars, Abstract!lmVars
  <1> QED
    BY <1>1, <1>2, <1>3, <1>4, <1>5 DEF Next, Abstract!Next

\* A hit of the cache is always the value stored last for its key
\* (Get, Set, LoadOrStore and Delete of lfu.go implement the lossy map).
THEOREM CacheImplementsLossyMap == Spec => ImplementsLossyMap
  <1>1. Init => Abstract!Init
    BY EmptyMap DEF Init, NewLFU, Miss, Abstract!Init, Abstract!Result
  <1> QED
    BY InitInv, NextInv, StepRefines, <1>1, PTL DEF Spec, ImplementsLossyMap, Abstract!Spec
=============================================================================
