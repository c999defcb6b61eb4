------------------------------ MODULE LossyMap ------------------------------
(***************************************************************************)
(* What a bounded cache promises its callers, whatever its eviction        *)
(* policy: a hit returns the value stored last for the key, and the cache  *)
(* may forget any key at any store, never invent or resurrect a value.     *)
(***************************************************************************)
CONSTANTS Keys, Values,
          NoValue   \* not a member of Values

VARIABLES store,    \* the remembered value of each key, or NoValue
          call,     \* the last operation and its arguments
          ret       \* what it returned: [value, found]

lmVars == <<store, call, ret>>

Result(v) == [value |-> v, found |-> v # NoValue]

Init ==
    /\ store = [k \in Keys |-> NoValue]
    /\ call = <<"New">>
    /\ ret = Result(NoValue)

\* Forgetting only ever removes keys of what would have been remembered.
MayForget(remembered) ==
    \E lost \in SUBSET Keys :
        store' = [k \in Keys |-> IF k \in lost THEN NoValue ELSE remembered[k]]

Get(k) ==
    /\ call' = <<"Get", k>>
    /\ ret' = Result(store[k])
    /\ UNCHANGED store

Set(k, v) ==
    /\ call' = <<"Set", k, v>>
    /\ ret' = Result(NoValue)
    /\ MayForget([store EXCEPT ![k] = v])

LoadOrStore(k, v) ==
    /\ call' = <<"LoadOrStore", k, v>>
    /\ \/ /\ store[k] # NoValue
          /\ ret' = Result(store[k])
          /\ UNCHANGED store
       \/ /\ store[k] = NoValue
          /\ ret' = [value |-> v, found |-> FALSE]
          /\ MayForget([store EXCEPT ![k] = v])

Delete(k) ==
    /\ call' = <<"Delete", k>>
    /\ ret' = Result(NoValue)
    /\ store' = [store EXCEPT ![k] = NoValue]

Next ==
    \E k \in Keys :
        \/ Get(k)
        \/ Delete(k)
        \/ \E v \in Values : Set(k, v) \/ LoadOrStore(k, v)

Spec == Init /\ [][Next]_lmVars
=============================================================================
