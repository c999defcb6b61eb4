-------------------------------- MODULE LFU --------------------------------
(***************************************************************************)
(* The entry map of the generic least-frequently-used cache and the two    *)
(* helpers every operation is built from (internal/cache/lfu.go).  An      *)
(* entry map is a function from the cached keys to [value, useCount].      *)
(* The module has no state: LFUCache gives it one, and the components that *)
(* are built on the cache (RepoLease) use the operators on their own       *)
(* variable.                                                               *)
(***************************************************************************)
EXTENDS Integers, FiniteSets

CONSTANT UseCountCap    \* the aging threshold useCountCap (1 << 16)

ASSUME UseCountCapAssumption == UseCountCap \in Nat /\ UseCountCap >= 2

Entry(V) == [value : V, useCount : 0 .. UseCountCap - 1]

EntryMaps(K, V) == UNION {[D -> Entry(V)] : D \in SUBSET K}

NoEntries == [k \in {} |-> 0]

Keep(es, D) == [k \in D |-> es[k]]

Without(es, key) == Keep(es, DOMAIN es \ {key})

\* Mutant of WithValue: Set keeps the value of an entry that exists.
KeepsOldValue(es, key, value) == es

WithValue(es, key, value) ==
    [k \in DOMAIN es |->
        IF k = key THEN [value |-> value, useCount |-> es[k].useCount] ELSE es[k]]

---------------------------------------------------------------------------
(* touchLocked: bump the counter of key; when it reaches the cap every     *)
(* counter of the cache, the touched one included, is halved.              *)
Halved(e) == [value |-> e.value, useCount |-> e.useCount \div 2]

Bumped(es, key) ==
    [k \in DOMAIN es |->
        IF k = key THEN [value |-> es[k].value, useCount |-> es[k].useCount + 1]
                   ELSE es[k]]

\* Mutant of touchLocked: aging halves the touched counter only.
AgesTouchedOnly(es, key) ==
    [k \in DOMAIN es |->
        IF k = key /\ es[k].useCount + 1 >= UseCountCap THEN Halved(es[k]) ELSE Bumped(es, key)[k]]

touchLocked(es, key) ==
    LET bumped == Bumped(es, key)
    IN  IF bumped[key].useCount >= UseCountCap
        THEN [k \in DOMAIN es |-> Halved(bumped[k])]
        ELSE bumped

\* Mutant of IsVictimSet: the comparison is the other way round.
MostUsedVictims(es, exceptKey, victims) ==
    /\ exceptKey \notin victims
    /\ \A v \in victims, k \in DOMAIN es \ (victims \cup {exceptKey}) :
            es[v].useCount >= es[k].useCount

(* evictLocked: the entry maps the eviction loop may end in.  It removes   *)
(* the smallest counter first, never exceptKey, until max entries are      *)
(* left; Go's map order decides between equal counters.                    *)
IsVictimSet(es, exceptKey, victims) ==
    /\ exceptKey \notin victims
    /\ \A v \in victims, k \in DOMAIN es \ (victims \cup {exceptKey}) :
            es[v].useCount <= es[k].useCount

\* Mutant of evictLocked: nothing is evicted.
EvictsNothing(es, exceptKey, max) == {es}

evictLocked(es, exceptKey, max) ==
    IF Cardinality(DOMAIN es) <= max
    THEN {es}
    ELSE {Keep(es, D) : D \in {D \in SUBSET DOMAIN es :
                                  /\ Cardinality(D) = max
                                  /\ IsVictimSet(es, exceptKey, DOMAIN es \ D)}}

(* The insertion shared by Set and LoadOrStore on a miss: a new entry with *)
(* counter 0 is touched, then the cache shrinks back to max entries.       *)
WithEntry(es, key, value) ==
    [k \in DOMAIN es \cup {key} |->
        IF k = key THEN [value |-> value, useCount |-> 0] ELSE es[k]]

Insertions(es, key, value, max) ==
    evictLocked(touchLocked(WithEntry(es, key, value), key), key, max)
=============================================================================
