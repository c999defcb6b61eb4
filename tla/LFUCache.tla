------------------------------ MODULE LFUCache ------------------------------
(***************************************************************************)
(* The LFU cache of internal/cache/lfu.go as a state machine.  Every       *)
(* method runs entirely under c.mu, so each is one action.  A capacity of  *)
(* zero or less is the nil cache: all methods are no-ops.                  *)
(***************************************************************************)
EXTENDS LFU

CONSTANTS Keys, Values,
          NoValue,      \* Go's zero value, returned on a miss
          Capacities    \* the values of max NewLFU may be called with

ASSUME CapacitiesAssumption == Capacities \subseteq Int /\ Capacities # {}
ASSUME NoValueNotAValue == NoValue \notin Values

VARIABLES max,      \* capacity given to NewLFU
          entries,  \* the entry map
          call,     \* the last call and its arguments
          ret       \* what it returned: [value, found]

vars == <<max, entries, call, ret>>

Enabled == max > 0                      \* c # nil

Present(k) == k \in DOMAIN entries

Calls ==
    {<<"New">>} \cup ({"Get", "Delete"} \X Keys)
               \cup ({"Set", "LoadOrStore"} \X Keys \X Values)

Results == [value : Values \cup {NoValue}, found : BOOLEAN]

Miss == [value |-> NoValue, found |-> FALSE]

Hit(v) == [value |-> v, found |-> TRUE]

Stored(v) == [value |-> v, found |-> FALSE]     \* LoadOrStore on a miss

---------------------------------------------------------------------------
NewLFU ==
    /\ max \in Capacities
    /\ entries = NoEntries
    /\ call = <<"New">>
    /\ ret = Miss

Get(key) ==
    /\ call' = <<"Get", key>>
    /\ \/ /\ Present(key)
          /\ entries' = touchLocked(entries, key)
          /\ ret' = Hit(entries[key].value)
       \/ /\ ~Present(key)
          /\ ret' = Miss
          /\ UNCHANGED entries
    /\ UNCHANGED max

Set(key, value) ==
    /\ call' = <<"Set", key, value>>
    /\ \/ /\ Present(key)
          /\ entries' = touchLocked(WithValue(entries, key, value), key)
       \/ /\ Enabled /\ ~Present(key)
          /\ entries' \in Insertions(entries, key, value, max)
       \/ /\ ~Enabled
          /\ UNCHANGED entries
    /\ ret' = Miss
    /\ UNCHANGED max

LoadOrStore(key, value) ==
    /\ call' = <<"LoadOrStore", key, value>>
    /\ \/ /\ Present(key)
          /\ entries' = touchLocked(entries, key)
          /\ ret' = Hit(entries[key].value)
       \/ /\ Enabled /\ ~Present(key)
          /\ entries' \in Insertions(entries, key, value, max)
          /\ ret' = Stored(value)
       \/ /\ ~Enabled
          /\ ret' = Stored(value)
          /\ UNCHANGED entries
    /\ UNCHANGED max

Delete(key) ==
    /\ call' = <<"Delete", key>>
    /\ entries' = Without(entries, key)
    /\ ret' = Miss
    /\ UNCHANGED max

Init == NewLFU

Next ==
    \E key \in Keys :
        \/ Get(key)
        \/ Delete(key)
        \/ \E value \in Values : Set(key, value) \/ LoadOrStore(key, value)

Spec == Init /\ [][Next]_vars

---------------------------------------------------------------------------
(* The cached keys are keys, the counters stay below the aging threshold,  *)
(* and a nil cache stays empty.                                            *)
TypeOK ==
    /\ max \in Capacities
    /\ entries \in EntryMaps(Keys, Values)
    /\ call \in Calls
    /\ ret \in Results

(* lfu.go:31, "a cache holding at most max entries", a nil cache holding   *)
(* none, in every state between two calls.                                 *)
WithinCapacity ==
    IF Enabled THEN Cardinality(DOMAIN entries) <= max ELSE entries = NoEntries

(* A key leaves the cache only through Delete or as the least frequently   *)
(* used of the entries that were there before the insertion (evictLocked): *)
(* nothing that stays was used less, what was inserted is in, and only a   *)
(* full cache pays for an insertion, with exactly one victim.              *)
EvictsLeastUsed ==
    [][/\ \A gone \in DOMAIN entries \ DOMAIN entries' :
             \/ call' = <<"Delete", gone>>
             \/ \A kept \in DOMAIN entries \cap DOMAIN entries' :
                   entries[gone].useCount <= entries[kept].useCount
       /\ \A new \in DOMAIN entries' \ DOMAIN entries :
             /\ DOMAIN entries' \subseteq DOMAIN entries \cup {new}
             /\ Cardinality(DOMAIN entries \ DOMAIN entries') =
                   IF Cardinality(DOMAIN entries) = max THEN 1 ELSE 0]_vars

(* Aging keeps the ranking (touchLocked): the only entry that may overtake *)
(* another one is the entry the call accessed, also when every counter was *)
(* halved.                                                                 *)
RankPreserved ==
    [][\A a, b \in DOMAIN entries \cap DOMAIN entries' :
          /\ entries[a].useCount <= entries[b].useCount
          /\ entries'[a].useCount > entries'[b].useCount
          => call'[1] # "Delete" /\ call'[2] = a]_vars

(* lfu.go:13, the contract of a bounded least-frequently-used cache: it    *)
(* never outgrows max, an insertion costs a full cache its least used      *)
(* entry and nothing else, and how often each entry was used stays         *)
(* comparable when the counters are halved.                                *)
LeastFrequentlyUsed == []WithinCapacity /\ EvictsLeastUsed /\ RankPreserved

(* The cache implements the lossy map: a hit never returns anything but    *)
(* the value stored last for that key, through aging, replacement,         *)
(* eviction and deletion.                                                  *)
Abstract == INSTANCE LossyMap WITH
    store <- [k \in Keys |-> IF k \in DOMAIN entries THEN entries[k].value ELSE NoValue]

ImplementsLossyMap == Abstract!Spec
=============================================================================
