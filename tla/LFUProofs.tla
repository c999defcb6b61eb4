------------------------------ MODULE LFUProofs ------------------------------
(***************************************************************************)
(* Lemmas on the operators of module LFU: what touchLocked and an          *)
(* insertion do to an entry map, for any keys, values, capacity and aging  *)
(* threshold.                                                              *)
(***************************************************************************)
EXTENDS LFU, FiniteSetTheorems, TLAPS

USE DEF Entry

\* A function into entries whose domain is a set of keys is an entry map.
LEMMA EntryMapIntro ==
    ASSUME NEW K, NEW V, NEW D \in SUBSET K, NEW es \in [D -> Entry(V)]
    PROVE  es \in EntryMaps(K, V)
  BY DEF EntryMaps

\* ... and conversely.
LEMMA EntryMapElim ==
    ASSUME NEW K, NEW V, NEW es \in EntryMaps(K, V)
    PROVE  /\ DOMAIN es \in SUBSET K
           /\ es \in [DOMAIN es -> Entry(V)]
  BY DEF EntryMaps

\* touchLocked keeps the keys and the values, and keeps every counter below
\* the aging threshold: this is where the halving is needed.
LEMMA TouchKeepsEntryMap ==
    ASSUME NEW K, NEW V, NEW es \in EntryMaps(K, V), NEW key \in DOMAIN es
    PROVE  /\ touchLocked(es, key) \in EntryMaps(K, V)
           /\ DOMAIN touchLocked(es, key) = DOMAIN es
           /\ \A k \in DOMAIN es : touchLocked(es, key)[k].value = es[k].value
  <1> DEFINE t == touchLocked(es, key)
  <1>1. DOMAIN es \in SUBSET K /\ es \in [DOMAIN es -> Entry(V)]
    BY EntryMapElim
  <1>2. \A k \in DOMAIN es : es[k].value \in V /\ es[k].useCount \in 0 .. UseCountCap - 1
    BY <1>1
  <1>3. DOMAIN t = DOMAIN es
    BY DEF touchLocked, Bumped
  <1>4. \A k \in DOMAIN es : t[k].value = es[k].value
    BY DEF touchLocked, Bumped, Halved
  <1>5. t \in [DOMAIN es -> Entry(V)]
    <2>1. CASE es[key].useCount + 1 >= UseCountCap
      <3>1. t = [k \in DOMAIN es |-> Halved(Bumped(es, key)[k])]
        BY <2>1 DEF touchLocked, Bumped
      <3>2. ASSUME NEW k \in DOMAIN es
            PROVE  Halved(Bumped(es, key)[k]) \in Entry(V)
        BY <1>2, UseCountCapAssumption DEF Bumped, Halved
      <3> QED
        BY <3>1, <3>2
    <2>2. CASE ~(es[key].useCount + 1 >= UseCountCap)
      <3>1. t = Bumped(es, key)
        BY <2>2 DEF touchLocked, Bumped
      <3>2. ASSUME NEW k \in DOMAIN es
            PROVE  Bumped(es, key)[k] \in Entry(V)
        BY <1>1, <1>2, <2>2, UseCountCapAssumption DEF Bumped
      <3> QED
        BY <3>1, <3>2 DEF Bumped
    <2> QED
      BY <2>1, <2>2
  <1> QED
    BY <1>1, <1>3, <1>4, <1>5, EntryMapIntro

\* Aging keeps the ranking: no entry but the touched one overtakes another,
\* whether its counter is bumped or all of them are halved.
LEMMA TouchKeepsRank ==
    ASSUME NEW K, NEW V, NEW es \in EntryMaps(K, V), NEW key \in DOMAIN es,
           NEW a \in DOMAIN es, NEW b \in DOMAIN es, a # key,
           es[a].useCount <= es[b].useCount
    PROVE  touchLocked(es, key)[a].useCount <= touchLocked(es, key)[b].useCount
  <1> DEFINE t == touchLocked(es, key)
             n(k) == IF k = key THEN es[k].useCount + 1 ELSE es[k].useCount
  <1>1. es \in [DOMAIN es -> Entry(V)]
    BY EntryMapElim
  <1>2. es[a].useCount \in Nat /\ es[b].useCount \in Nat
    BY <1>1, UseCountCapAssumption
  <1>3. n(a) \in Nat /\ n(b) \in Nat /\ n(a) <= n(b)
    BY <1>2
  <1>4. \A k \in DOMAIN es : Bumped(es, key)[k].useCount = n(k)
    BY DEF Bumped
  <1> HIDE DEF n
  <1>5. CASE t = Bumped(es, key)
    BY <1>3, <1>4, <1>5
  <1>6. CASE t = [k \in DOMAIN es |-> Halved(Bumped(es, key)[k])]
    <2>1. t[a].useCount = n(a) \div 2 /\ t[b].useCount = n(b) \div 2
      BY <1>4, <1>6 DEF Halved
    <2>2. n(a) \div 2 <= n(b) \div 2
      BY <1>3
    <2> QED
      BY <2>1, <2>2
  <1> QED
    BY <1>5, <1>6 DEF touchLocked

\* An insertion ends in an entry map of at most max entries that holds the
\* new key with its value, and otherwise only keys and values that were there.
LEMMA InsertionResult ==
    ASSUME NEW K, NEW V, NEW es \in EntryMaps(K, V), NEW key \in K, NEW value \in V,
           NEW max \in Int, key \notin DOMAIN es,
           NEW new \in Insertions(es, key, value, max)
    PROVE  /\ new \in EntryMaps(K, V)
           /\ Cardinality(DOMAIN new) <= max
           /\ key \in DOMAIN new
           /\ DOMAIN new \subseteq DOMAIN es \cup {key}
           /\ new[key].value = value
           /\ \A k \in DOMAIN new \ {key} : new[k].value = es[k].value
  <1> DEFINE w == WithEntry(es, key, value)
             t == touchLocked(w, key)
  <1>1. DOMAIN es \in SUBSET K /\ es \in [DOMAIN es -> Entry(V)]
    BY EntryMapElim
  <1>2. /\ DOMAIN w = DOMAIN es \cup {key}
        /\ w[key].value = value
        /\ \A k \in DOMAIN es : w[k] = es[k]
    BY DEF WithEntry
  <1>3. w \in EntryMaps(K, V)
    <2>1. w \in [DOMAIN es \cup {key} -> Entry(V)]
      BY <1>1, UseCountCapAssumption DEF WithEntry
    <2> QED
      BY <1>1, <2>1, EntryMapIntro
  <1>4. /\ t \in EntryMaps(K, V)
        /\ DOMAIN t = DOMAIN es \cup {key}
        /\ \A k \in DOMAIN t : t[k].value = w[k].value
    <2> HIDE DEF w
    <2> QED
      BY <1>2, <1>3, TouchKeepsEntryMap
  <1>5. new \in evictLocked(t, key, max)
    BY DEF Insertions
  <1> HIDE DEF t, w
  <1>6. PICK D \in SUBSET DOMAIN t :
            /\ new = Keep(t, D)
            /\ key \in D
            /\ Cardinality(D) <= max
    <2>1. CASE Cardinality(DOMAIN t) <= max
      <3>1. new = t
        BY <1>5, <2>1 DEF evictLocked
      <3>2. t = Keep(t, DOMAIN t)
        BY <1>4, EntryMapElim DEF Keep
      <3> QED
        BY <1>4, <2>1, <3>1, <3>2
    <2>2. CASE ~(Cardinality(DOMAIN t) <= max)
      <3>1. PICK D \in SUBSET DOMAIN t :
                /\ new = Keep(t, D)
                /\ Cardinality(D) = max
                /\ IsVictimSet(t, key, DOMAIN t \ D)
        BY <1>5, <2>2 DEF evictLocked
      <3>2. key \in D
        BY <1>4, <3>1 DEF IsVictimSet
      <3> QED
        BY <3>1, <3>2
    <2> QED
      BY <2>1, <2>2
  <1>7. DOMAIN new = D /\ \A k \in D : new[k] = t[k]
    BY <1>6 DEF Keep
  <1>8. new \in EntryMaps(K, V)
    <2>1. DOMAIN t \in SUBSET K /\ t \in [DOMAIN t -> Entry(V)]
      BY <1>4, EntryMapElim
    <2>2. new \in [D -> Entry(V)]
      BY <1>6, <2>1 DEF Keep
    <2> QED
      BY <2>1, <2>2, EntryMapIntro
  <1> QED
    BY <1>2, <1>4, <1>6, <1>7, <1>8
\* What an insertion that turns es into new may do to the entries of es.
EvictsAtMostOne(es, new, max) ==
    /\ \A k \in DOMAIN new \cap DOMAIN es : new[k] = es[k]
    /\ \A gone \in DOMAIN es \ DOMAIN new, kept \in DOMAIN es \cap DOMAIN new :
          es[gone].useCount <= es[kept].useCount
    /\ Cardinality(DOMAIN es \ DOMAIN new) =
          IF Cardinality(DOMAIN es) = max THEN 1 ELSE 0

\* An insertion ages nothing (the new counter is 1, below the threshold), its
\* victims were used no more than what stays, and there is exactly one of
\* them, and only when the cache was full.
LEMMA InsertionEvicts ==
    ASSUME NEW K, NEW V, NEW es \in EntryMaps(K, V), NEW key \in K, NEW value \in V,
           NEW max \in Int, key \notin DOMAIN es,
           IsFiniteSet(DOMAIN es), Cardinality(DOMAIN es) <= max,
           NEW new \in Insertions(es, key, value, max)
    PROVE  EvictsAtMostOne(es, new, max)
  <1> DEFINE w == WithEntry(es, key, value)
             t == touchLocked(w, key)
  <1>1. es \in [DOMAIN es -> Entry(V)]
    BY EntryMapElim
  <1>2. /\ DOMAIN w = DOMAIN es \cup {key}
        /\ w[key].useCount = 0
        /\ \A k \in DOMAIN es : w[k] = es[k]
    BY DEF WithEntry
  <1>3. t = Bumped(w, key)
    <2> HIDE DEF w
    <2>1. Bumped(w, key)[key].useCount = 1
      BY <1>2 DEF Bumped
    <2> QED
      BY <2>1, UseCountCapAssumption DEF touchLocked
  <1>4. DOMAIN t = DOMAIN es \cup {key} /\ \A k \in DOMAIN es : t[k] = es[k]
    <2> HIDE DEF w, t
    <2> QED
      BY <1>2, <1>3 DEF Bumped
  <1>5. new \in evictLocked(t, key, max)
    BY DEF Insertions
  <1>6. /\ IsFiniteSet(DOMAIN t)
        /\ Cardinality(DOMAIN t) = Cardinality(DOMAIN es) + 1
        /\ Cardinality(DOMAIN es) \in Nat
    <2> HIDE DEF t
    <2> QED
      BY <1>4, FS_AddElement, FS_CardinalityType
  <1> HIDE DEF t, w
  <1>7. CASE Cardinality(DOMAIN t) <= max
    <2>1. new = t
      BY <1>5, <1>7 DEF evictLocked
    <2>2. DOMAIN es \ DOMAIN new = {}
      BY <1>4, <2>1
    <2>3. Cardinality(DOMAIN es \ DOMAIN new) = 0
      BY <2>2, FS_EmptySet
    <2>4. Cardinality(DOMAIN es) # max
      BY <1>6, <1>7
    <2> QED
      BY <1>4, <2>1, <2>2, <2>3, <2>4 DEF EvictsAtMostOne
  <1>8. CASE ~(Cardinality(DOMAIN t) <= max)
    <2>1. PICK D \in SUBSET DOMAIN t :
              /\ new = Keep(t, D)
              /\ Cardinality(D) = max
              /\ IsVictimSet(t, key, DOMAIN t \ D)
      BY <1>5, <1>8 DEF evictLocked
    <2>2. DOMAIN new = D /\ \A k \in D : new[k] = t[k]
      BY <2>1 DEF Keep
    <2>3. key \in D
      BY <1>4, <2>1 DEF IsVictimSet
    <2>4. Cardinality(DOMAIN es) = max
      BY <1>6, <1>8
    <2>5. DOMAIN es \ DOMAIN new = DOMAIN t \ D
      BY <1>4, <2>2, <2>3
    <2>6. Cardinality(DOMAIN t \ D) = 1
      <3>1. /\ IsFiniteSet(D) /\ D \cap DOMAIN t = D
            /\ Cardinality(D) \in Nat
        BY <1>6, <2>1, FS_Subset, FS_CardinalityType
      <3>2. Cardinality(DOMAIN t \ D) = Cardinality(DOMAIN t) - Cardinality(DOMAIN t \cap D)
        BY <1>6, FS_Difference
      <3>3. DOMAIN t \cap D = D
        BY <3>1
      <3>4. Cardinality(DOMAIN t \ D) = Cardinality(DOMAIN t) - Cardinality(D)
        BY <3>2, <3>3
      <3> QED
        BY <1>6, <2>1, <2>4, <3>1, <3>4
    <2>7. \A gone \in DOMAIN es \ DOMAIN new, kept \in DOMAIN es \cap DOMAIN new :
              es[gone].useCount <= es[kept].useCount
      BY <1>4, <2>1, <2>2, <2>3 DEF IsVictimSet
    <2> QED
      BY <1>4, <2>2, <2>4, <2>5, <2>6, <2>7 DEF EvictsAtMostOne
  <1> QED
    BY <1>7, <1>8
=============================================================================
