--------------------------- MODULE RepoLeaseProofs ---------------------------
(***************************************************************************)
(* Mutual exclusion on the cached repositories, their freshness, the end   *)
(* of failed clones and the freedom from circular waits, for any number of *)
(* pipelines, remote targets, handles and repositories and any capacity.   *)
(***************************************************************************)
EXTENDS RepoLease, LFUProofs, WellFoundedInduction, TLAPS

Getting == {"load", "lock", "fetch", "discard", "unlock"}   \* inside getRepository

\* p has locked the handle of side s and not released it yet.
Held(p, s) ==
    IF s = "target"
    THEN \/ pc[p] \in {"work", "releaseUpstream", "releaseTarget"}
         \/ side[p] = "upstream" /\ pc[p] \in Getting
         \/ side[p] = "target" /\ pc[p] \in {"fetch", "discard", "unlock"}
    ELSE side[p] = "upstream"
         /\ pc[p] \in {"fetch", "discard", "unlock", "work", "releaseUpstream"}

\* getRepository has returned the repository of side s, and p still uses it.
Given(p, s) ==
    IF s = "target"
    THEN \/ pc[p] \in {"work", "releaseUpstream", "releaseTarget"}
         \/ side[p] = "upstream" /\ pc[p] \in Getting
    ELSE side[p] = "upstream" /\ pc[p] \in {"work", "releaseUpstream"}

\* A held handle is locked by its holder, and a lock has a holder.
LockInv ==
    /\ \A p \in Pipelines, s \in Sides :
          Held(p, s) => lease[p][s] \in Handles /\ handle[lease[p][s]].mu = p
    /\ \A h \in Handles, p \in Pipelines : handle[h].mu = p =>
          \E s \in Sides : Held(p, s) /\ lease[p][s] = h

\* A waiting pipeline waits on a handle; the two handles of a pipeline that
\* holds both are different.
WaitInv ==
    \A p \in Pipelines :
        /\ pc[p] = "lock" => lease[p][side[p]] \in Handles
        /\ Held(p, "target") /\ Held(p, "upstream") => lease[p]["target"] # lease[p]["upstream"]

\* A pipeline's repository is the one in the handle it holds, and no two
\* handles have the same repository.
CachedRepoInv ==
    /\ \A p \in Pipelines, s \in Sides :
          Given(p, s) => handle[lease[p][s]].repo = repo[p][s]
    /\ \A g, h \in Handles :
          g # h /\ handle[g].repo = handle[h].repo => handle[g].repo = NoRepository

\* Without a cache there are no leases, and every clone is private.
UncachedInv ==
    /\ \A h \in Handles : handle[h] = NewHandle
    /\ \A p \in Pipelines : pc[p] \notin {"lock", "fetch", "discard", "unlock"}
    /\ \A p, q \in Pipelines, s, t \in Sides :
          p # q /\ repo[p][s] = repo[q][t] => repo[p][s] = NoRepository

\* What a pipeline has depends on how far it is.
ProgressInv ==
    \A p \in Pipelines :
        /\ \A s \in Sides : repo[p][s] # NoRepository => Given(p, s)
        /\ pc[p] # "idle" => remoteTarget[p] \in RemoteTargets
        /\ pc[p] # "idle" /\ side[p] = "upstream" => NeedsUpstream(remoteTarget[p])
        /\ pc[p] \in {"work", "releaseUpstream"} =>
              (side[p] = "upstream" <=> NeedsUpstream(remoteTarget[p]))
        /\ pc[p] = "releaseUpstream" => side[p] = "upstream"

IInv ==
    /\ TypeOK
    /\ ProgressInv
    /\ CacheEnabled => LockInv /\ WaitInv /\ CachedRepoInv
    /\ ~CacheEnabled => UncachedInv

HandleRecords == [repo : Repositories \cup {NoRepository}, mu : Pipelines \cup {Nobody}, dirty : BOOLEAN]

USE NothingAssumption DEF Sides

\* The handle constructor builds handles.
LEMMA HandleType ==
    \A r \in Repositories \cup {NoRepository}, m \in Pipelines \cup {Nobody}, d \in BOOLEAN :
        Handle(r, m, d) \in HandleRecords
  BY DEF Handle, HandleRecords

\* A handle is the constructor applied to its own fields.
LEMMA HandleFields ==
    ASSUME NEW r, NEW m, NEW d
    PROVE  /\ Handle(r, m, d).repo = r
           /\ Handle(r, m, d).mu = m
           /\ Handle(r, m, d).dirty = d
  BY DEF Handle

\* The initial state satisfies the invariant.
LEMMA InitIInv == Init => IInv
  <1> SUFFICES ASSUME Init PROVE IInv
    OBVIOUS
  <1>1. TypeOK
    <2>1. entries \in EntryMaps(Keys, Handles)
      <3>1. NoEntries \in [{} -> Entry(Handles)]
        BY DEF NoEntries
      <3> QED
        BY <3>1, EntryMapIntro DEF Init
    <2>2. handle \in [Handles -> HandleRecords]
      BY HandleType DEF Init, NewHandle
    <2> QED
      BY <2>1, <2>2 DEF Init, TypeOK, HandleRecords, Steps
  <1>2. ProgressInv
    BY DEF Init, ProgressInv, Given, Getting
  <1>3. LockInv /\ WaitInv /\ CachedRepoInv
    <2>1. \A h \in Handles : handle[h].mu = Nobody /\ handle[h].repo = NoRepository
      BY DEF Init, NewHandle, Handle
    <2>2. \A p \in Pipelines, s \in Sides : pc[p] = "idle" /\ ~Held(p, s) /\ ~Given(p, s)
      BY DEF Init, Held, Given, Getting
    <2> QED
      BY <2>1, <2>2 DEF LockInv, WaitInv, CachedRepoInv
  <1>4. UncachedInv
    BY DEF Init, UncachedInv
  <1> QED
    BY <1>1, <1>2, <1>3, <1>4 DEF IInv

---------------------------------------------------------------------------
(* Facts about the helpers of the actions.                                 *)

\* The key of a running pipeline is a key of the cache.
LEMMA KeyInKeys ==
    ASSUME TypeOK, NEW p \in Pipelines, remoteTarget[p] \in RemoteTargets
    PROVE  Key(p) \in Keys
  BY DEF TypeOK, Key, Keys

\* A fresh handle or repository is one nothing refers to.
LEMMA FreshFacts ==
    ASSUME MemoryLeft
    PROVE  /\ FreshHandle \in Handles /\ ~Referenced(FreshHandle)
           /\ FreshRepository \in Repositories /\ IsFreshRepository(FreshRepository)
  BY DEF MemoryLeft, FreshHandle, FreshRepository

\* Collecting garbage keeps the handles handles.
LEMMA CollectType ==
    ASSUME NEW hs \in [Handles -> HandleRecords], Collect(hs)
    PROVE  handle' \in [Handles -> HandleRecords]
  BY HandleType DEF Collect, NewHandle

\* What LoadOrStoreHandle leases is a handle, and the cache stays well typed.
LEMMA LoadFacts ==
    ASSUME IInv, NEW p \in Pipelines, LoadOrStoreHandle(p)
    PROVE  /\ entries' \in EntryMaps(Keys, Handles)
           /\ \E h \in Handles : lease' = [lease EXCEPT ![p][side[p]] = h]
  <1>0. Key(p) \in Keys /\ entries \in EntryMaps(Keys, Handles)
    BY KeyInKeys DEF IInv, ProgressInv, LoadOrStoreHandle, TypeOK
  <1>1. CASE Key(p) \in DOMAIN entries
    <2>1. entries' = touchLocked(entries, Key(p)) /\ lease' = [lease EXCEPT ![p][side[p]] = entries[Key(p)].value]
      BY <1>1 DEF LoadOrStoreHandle
    <2>2. entries[Key(p)].value \in Handles
      BY <1>0, <1>1, EntryMapElim DEF Entry
    <2> QED
      BY <1>0, <1>1, <2>1, <2>2, TouchKeepsEntryMap
  <1>2. CASE Key(p) \notin DOMAIN entries
    <2>1. /\ MemoryLeft
          /\ entries' \in Insertions(entries, Key(p), FreshHandle, maxRepos)
          /\ lease' = [lease EXCEPT ![p][side[p]] = FreshHandle]
      BY <1>2 DEF LoadOrStoreHandle
    <2>2. FreshHandle \in Handles
      BY <2>1, FreshFacts
    <2>3. maxRepos \in Int
      BY CapacitiesAssumption DEF IInv, TypeOK
    <2> QED
      BY <1>0, <1>2, <2>1, <2>2, <2>3, InsertionResult
  <1> QED
    BY <1>1, <1>2

\* Deleting a key keeps the cache well typed.
LEMMA WithoutType ==
    ASSUME NEW K, NEW V, NEW es \in EntryMaps(K, V), NEW key
    PROVE  Without(es, key) \in EntryMaps(K, V)
  <1>1. DOMAIN es \in SUBSET K /\ es \in [DOMAIN es -> Entry(V)]
    BY EntryMapElim
  <1>2. Without(es, key) \in [DOMAIN es \ {key} -> Entry(V)]
    BY <1>1 DEF Without, Keep
  <1> QED
    BY <1>1, <1>2, EntryMapIntro

---------------------------------------------------------------------------
(* TypeOK and ProgressInv.                                                 *)

\* Every step keeps the state well typed.
LEMMA TypeStep == IInv /\ [Next]_vars => TypeOK'
  <1> SUFFICES ASSUME IInv, [Next]_vars PROVE TypeOK'
    OBVIOUS
  <1>0. TypeOK /\ handle \in [Handles -> HandleRecords]
    BY DEF IInv, TypeOK, HandleRecords
  <1> DEFINE HandleOK == handle' \in [Handles -> HandleRecords]
             PipeOK == /\ pc' \in [Pipelines -> Steps]
                       /\ remoteTarget' \in [Pipelines -> RemoteTargets \cup {NoTarget}]
                       /\ side' \in [Pipelines -> Sides]
             LeaseOK == lease' \in [Pipelines -> [Sides -> Handles \cup {NoHandle}]]
             RepoOK == repo' \in [Pipelines -> [Sides -> Repositories \cup {NoRepository}]]
             EntriesOK == entries' \in EntryMaps(Keys, Handles)
  <1>1. SUFFICES EntriesOK /\ HandleOK /\ PipeOK /\ LeaseOK /\ RepoOK
    BY <1>0 DEF TypeOK, HandleRecords, Next, vars
  <1>2. ASSUME NEW p \in Pipelines, NEW r \in Repositories, Acquired(p, r)
        PROVE  PipeOK /\ RepoOK
    BY <1>0, <1>2 DEF TypeOK, Acquired, Steps
  <1>3. ASSUME NEW p \in Pipelines, CloneIntoHandle(p)
        PROVE  EntriesOK /\ HandleOK /\ PipeOK /\ LeaseOK /\ RepoOK
    <2>1. FreshRepository \in Repositories
      BY <1>3, FreshFacts DEF CloneIntoHandle
    <2>2. HandleOK
      BY <1>0, <1>3, <2>1, HandleType DEF CloneIntoHandle, HandleRecords
    <2>3. PipeOK /\ RepoOK
      BY <1>2, <1>3, <2>1 DEF CloneIntoHandle
    <2> QED
      BY <1>0, <1>3, <2>2, <2>3 DEF CloneIntoHandle, TypeOK
  <1>4. ASSUME NEW p \in Pipelines, FailClone(p)
        PROVE  EntriesOK /\ PipeOK /\ LeaseOK /\ RepoOK
    BY <1>0, <1>4 DEF FailClone, TypeOK, Steps
  <1>5. ASSUME NEW h, MayLeaveLeftovers(h) PROVE HandleOK
    <2>1. \A g \in Handles : Handle(handle[g].repo, handle[g].mu, TRUE) \in HandleRecords
      BY <1>0, HandleType DEF HandleRecords
    <2> QED
      BY <1>0, <1>5, <2>1 DEF MayLeaveLeftovers
  <1>6. ASSUME NEW h PROVE Unlocked(h) \in [Handles -> HandleRecords]
    BY <1>0, HandleType DEF Unlocked, HandleRecords
  <1>7. ASSUME NEW p \in Pipelines, NEW s \in Sides, Release(p, s)
        PROVE  EntriesOK /\ HandleOK /\ side' \in [Pipelines -> Sides] /\ LeaseOK /\ RepoOK
    <2>1. HandleOK
      BY <1>0, <1>6, <1>7, CollectType DEF Release
    <2> QED
      BY <1>0, <1>7, <2>1 DEF Release, TypeOK
  <1>8. ASSUME NEW p \in Pipelines, NEW b \in BOOLEAN, NEW next \in Steps, ReturnOr(p, b, next)
        PROVE  /\ pc' \in [Pipelines -> Steps]
               /\ remoteTarget' \in [Pipelines -> RemoteTargets \cup {NoTarget}]
    BY <1>0, <1>8 DEF ReturnOr, TypeOK, Steps
  <1>11. ASSUME NEW p \in Pipelines, Start(p)
         PROVE  EntriesOK /\ HandleOK /\ PipeOK /\ LeaseOK /\ RepoOK
    BY <1>0, <1>11 DEF Start, TypeOK, Steps
  <1>12. ASSUME NEW p \in Pipelines, LoadOrStoreHandle(p)
         PROVE  EntriesOK /\ HandleOK /\ PipeOK /\ LeaseOK /\ RepoOK
    <2>1. HandleOK
      BY <1>0, <1>12, CollectType DEF LoadOrStoreHandle
    <2>2. EntriesOK /\ LeaseOK
      BY <1>0, <1>12, LoadFacts DEF TypeOK
    <2> QED
      BY <1>0, <1>12, <2>1, <2>2 DEF LoadOrStoreHandle, TypeOK, Steps
  <1>13. ASSUME NEW p \in Pipelines, Lock(p)
         PROVE  EntriesOK /\ HandleOK /\ PipeOK /\ LeaseOK /\ RepoOK
    <2>1. HandleOK
      BY <1>0, <1>13, HandleType DEF Lock, HandleRecords
    <2> QED
      BY <1>0, <1>13, <2>1 DEF Lock, TypeOK, Steps
  <1>14. ASSUME NEW p \in Pipelines, CloneMiss(p)
         PROVE  EntriesOK /\ HandleOK /\ PipeOK /\ LeaseOK /\ RepoOK
    BY <1>0, <1>3, <1>4, <1>14 DEF CloneMiss
  <1>15. ASSUME NEW p \in Pipelines, Refresh(p)
         PROVE  EntriesOK /\ HandleOK /\ PipeOK /\ LeaseOK /\ RepoOK
    <2>1. Leased(p) \in Handles
      BY <1>0, <1>15 DEF Refresh, Leased, TypeOK, IInv, LockInv, UncachedInv, Held
    <2>2. handle[Leased(p)].repo \in Repositories
      BY <1>0, <1>15, <2>1 DEF Refresh, HandleRecords
    <2>3. HandleOK
      BY <1>0, <1>15, HandleType DEF Refresh, HandleRecords
    <2>4. PipeOK /\ RepoOK
      BY <1>2, <1>15, <2>2 DEF Refresh
    <2> QED
      BY <1>0, <1>15, <2>3, <2>4 DEF Refresh, TypeOK
  <1>16. ASSUME NEW p \in Pipelines, RefreshFails(p)
         PROVE  EntriesOK /\ HandleOK /\ PipeOK /\ LeaseOK /\ RepoOK
    BY <1>3, <1>4, <1>5, <1>16 DEF RefreshFails
  <1>17. ASSUME NEW p \in Pipelines, CloneUncached(p)
         PROVE  EntriesOK /\ HandleOK /\ PipeOK /\ LeaseOK /\ RepoOK
    <2>1. CASE MemoryLeft /\ Acquired(p, FreshRepository) /\ UNCHANGED <<entries, handle, lease>>
      BY <1>0, <1>2, <2>1, FreshFacts DEF TypeOK
    <2>2. CASE /\ ReturnOr(p, side[p] = "target", "releaseTarget")
               /\ UNCHANGED <<entries, handle, side, lease, repo>>
      BY <1>0, <2>2 DEF ReturnOr, TypeOK, Steps
    <2> QED
      BY <1>17, <2>1, <2>2 DEF CloneUncached
  <1>18. ASSUME NEW p \in Pipelines, Discard(p)
         PROVE  EntriesOK /\ HandleOK /\ PipeOK /\ LeaseOK /\ RepoOK
    <2>1. HandleOK
      BY <1>0, <1>18, CollectType DEF Discard
    <2>2. EntriesOK
      BY <1>0, <1>18, WithoutType DEF Discard, TypeOK
    <2> QED
      BY <1>0, <1>18, <2>1, <2>2 DEF Discard, TypeOK, Steps
  <1>19. ASSUME NEW p \in Pipelines, UnlockDiscarded(p)
         PROVE  EntriesOK /\ HandleOK /\ PipeOK /\ LeaseOK /\ RepoOK
    <2>1. HandleOK
      BY <1>6, <1>19, CollectType DEF UnlockDiscarded
    <2> QED
      BY <1>0, <1>19, <2>1 DEF UnlockDiscarded, ReturnOr, TypeOK, Steps
  <1>20. ASSUME NEW p \in Pipelines, Work(p)
         PROVE  EntriesOK /\ HandleOK /\ PipeOK /\ LeaseOK /\ RepoOK
    <2>1. HandleOK
      BY <1>0, <1>5, <1>20 DEF Work
    <2> QED
      BY <1>0, <1>20, <2>1 DEF Work, TypeOK, Steps
  <1>21. ASSUME NEW p \in Pipelines, ReleaseUpstream(p)
         PROVE  EntriesOK /\ HandleOK /\ PipeOK /\ LeaseOK /\ RepoOK
    BY <1>7, <1>8, <1>21 DEF ReleaseUpstream, Steps
  <1>22. ASSUME NEW p \in Pipelines, ReleaseTarget(p)
         PROVE  EntriesOK /\ HandleOK /\ PipeOK /\ LeaseOK /\ RepoOK
    BY <1>7, <1>8, <1>22 DEF ReleaseTarget, Steps
  <1>23. CASE UNCHANGED vars
    BY <1>0, <1>23 DEF vars, TypeOK
  <1> QED
    BY <1>11, <1>12, <1>13, <1>14, <1>15, <1>16, <1>17, <1>18, <1>19, <1>20, <1>21, <1>22, <1>23
       DEF Next, Proceed

\* Every step keeps what a pipeline has in line with how far it is.
LEMMA ProgressStep == IInv /\ [Next]_vars => ProgressInv'
  <1> SUFFICES ASSUME IInv, [Next]_vars PROVE ProgressInv'
    OBVIOUS
  <1>0. TypeOK /\ ProgressInv
    BY DEF IInv
  <1> USE DEF ProgressInv, Given, Getting, TypeOK, Steps
  <1>2. ASSUME NEW p \in Pipelines, NEW r, pc[p] \in {"load", "fetch"}, Acquired(p, r)
        PROVE  ProgressInv'
    BY <1>0, <1>2 DEF Acquired
  <1>3. ASSUME NEW p \in Pipelines, pc[p] \in {"load", "unlock"}, UNCHANGED <<side, repo>>,
               ReturnOr(p, side[p] = "target", "releaseTarget")
        PROVE  ProgressInv'
    BY <1>0, <1>3 DEF ReturnOr
  <1>4. ASSUME NEW p \in Pipelines, pc[p] = "fetch", FailClone(p)
        PROVE  ProgressInv'
    BY <1>0, <1>4 DEF FailClone
  <1>11. ASSUME NEW p \in Pipelines, Start(p) PROVE ProgressInv'
    BY <1>0, <1>11 DEF Start
  <1>12. ASSUME NEW p \in Pipelines, LoadOrStoreHandle(p) PROVE ProgressInv'
    BY <1>0, <1>12 DEF LoadOrStoreHandle
  <1>13. ASSUME NEW p \in Pipelines, Lock(p) PROVE ProgressInv'
    BY <1>0, <1>13 DEF Lock
  <1>14. ASSUME NEW p \in Pipelines, CloneMiss(p) PROVE ProgressInv'
    <2>1. CASE CloneIntoHandle(p)
      <3>1. pc[p] \in {"load", "fetch"} /\ Acquired(p, FreshRepository)
        BY <1>14, <2>1 DEF CloneMiss, CloneIntoHandle
      <3> HIDE DEF ProgressInv
      <3> QED
        BY <1>2, <3>1
    <2>2. CASE FailClone(p)
      <3>1. pc[p] = "fetch"
        BY <1>14 DEF CloneMiss
      <3> HIDE DEF ProgressInv
      <3> QED
        BY <1>4, <2>2, <3>1
    <2> QED
      BY <1>14, <2>1, <2>2 DEF CloneMiss
  <1>15. ASSUME NEW p \in Pipelines, Refresh(p) PROVE ProgressInv'
    BY <1>2, <1>15 DEF Refresh
  <1>16. ASSUME NEW p \in Pipelines, RefreshFails(p) PROVE ProgressInv'
    <2>1. CASE CloneIntoHandle(p)
      <3>1. pc[p] \in {"load", "fetch"} /\ Acquired(p, FreshRepository)
        BY <1>16, <2>1 DEF RefreshFails, CloneIntoHandle
      <3> HIDE DEF ProgressInv
      <3> QED
        BY <1>2, <3>1
    <2>2. CASE FailClone(p)
      <3>1. pc[p] = "fetch"
        BY <1>16 DEF RefreshFails
      <3> HIDE DEF ProgressInv
      <3> QED
        BY <1>4, <2>2, <3>1
    <2> QED
      BY <1>16, <2>1, <2>2 DEF RefreshFails
  <1>17. ASSUME NEW p \in Pipelines, CloneUncached(p) PROVE ProgressInv'
    BY <1>2, <1>3, <1>17 DEF CloneUncached
  <1>18. ASSUME NEW p \in Pipelines, Discard(p) PROVE ProgressInv'
    BY <1>0, <1>18 DEF Discard
  <1>19. ASSUME NEW p \in Pipelines, UnlockDiscarded(p) PROVE ProgressInv'
    BY <1>3, <1>19 DEF UnlockDiscarded
  <1>20. ASSUME NEW p \in Pipelines, Work(p) PROVE ProgressInv'
    BY <1>0, <1>20 DEF Work
  <1>21. ASSUME NEW p \in Pipelines, ReleaseUpstream(p) PROVE ProgressInv'
    BY <1>0, <1>21 DEF ReleaseUpstream, Release, ReturnOr
  <1>22. ASSUME NEW p \in Pipelines, ReleaseTarget(p) PROVE ProgressInv'
    BY <1>0, <1>22 DEF ReleaseTarget, Release, ReturnOr
  <1>23. CASE UNCHANGED vars
    BY <1>0, <1>23 DEF vars
  <1> QED
    BY <1>11, <1>12, <1>13, <1>14, <1>15, <1>16, <1>17, <1>18, <1>19, <1>20, <1>21, <1>22, <1>23
       DEF Next, Proceed

---------------------------------------------------------------------------
(* Without a cache: every clone is private.                                *)

\* Without a cache, every step leaves the clones private.
LEMMA UncachedStep == IInv /\ ~CacheEnabled /\ [Next]_vars => UncachedInv'
  <1> SUFFICES ASSUME IInv, ~CacheEnabled, [Next]_vars PROVE UncachedInv'
    OBVIOUS
  <1>0. TypeOK /\ ProgressInv /\ UncachedInv
    BY DEF IInv
  <1> USE DEF UncachedInv, TypeOK
  <1>11. ASSUME NEW p \in Pipelines, Start(p) PROVE UncachedInv'
    BY <1>0, <1>11 DEF Start
  <1>17. ASSUME NEW p \in Pipelines, CloneUncached(p) PROVE UncachedInv'
    <2>1. CASE MemoryLeft /\ Acquired(p, FreshRepository) /\ UNCHANGED <<entries, handle, lease>>
      <3>1. \A q \in Pipelines, s \in Sides : repo[q][s] # FreshRepository
        BY <2>1, FreshFacts DEF IsFreshRepository
      <3> QED
        BY <1>0, <2>1, <3>1 DEF Acquired
    <2>2. CASE /\ ReturnOr(p, side[p] = "target", "releaseTarget")
               /\ UNCHANGED <<entries, handle, side, lease, repo>>
      BY <1>0, <2>2 DEF ReturnOr
    <2> QED
      BY <1>17, <2>1, <2>2 DEF CloneUncached
  <1>20. ASSUME NEW p \in Pipelines, Work(p) PROVE UncachedInv'
    BY <1>0, <1>20 DEF Work
  <1>21. ASSUME NEW p \in Pipelines, ReleaseUpstream(p) PROVE UncachedInv'
    BY <1>0, <1>21 DEF ReleaseUpstream, Release, ReturnOr
  <1>22. ASSUME NEW p \in Pipelines, ReleaseTarget(p) PROVE UncachedInv'
    BY <1>0, <1>22 DEF ReleaseTarget, Release, ReturnOr
  <1>23. CASE UNCHANGED vars
    BY <1>0, <1>23 DEF vars
  <1>24. ASSUME NEW p \in Pipelines
         PROVE  /\ ~LoadOrStoreHandle(p) /\ ~Lock(p) /\ ~CloneMiss(p) /\ ~Refresh(p)
                /\ ~RefreshFails(p) /\ ~Discard(p) /\ ~UnlockDiscarded(p)
    BY <1>0 DEF LoadOrStoreHandle, Lock, CloneMiss, Refresh, RefreshFails, Discard, UnlockDiscarded
  <1> QED
    BY <1>11, <1>17, <1>20, <1>21, <1>22, <1>23, <1>24 DEF Next, Proceed

---------------------------------------------------------------------------
(* With the cache: the locks and what they protect.                        *)

\* Collecting garbage never touches a handle that is locked, populated or
\* leased afterwards.
LEMMA CollectFacts ==
    ASSUME NEW hs, Collect(hs), NEW h \in Handles
    PROVE  /\ handle'[h].mu # Nobody => handle'[h] = hs[h]
           /\ handle'[h].repo # NoRepository => handle'[h] = hs[h]
           /\ (\E p \in Pipelines, s \in Sides : lease'[p][s] = h) => handle'[h] = hs[h]
  BY DEF Collect, NewHandle, Handle, Referenced

\* Unlocking changes nothing but the lock.
LEMMA UnlockedFacts ==
    ASSUME TypeOK, NEW h, NEW g \in Handles
    PROVE  /\ Unlocked(h)[g].repo = handle[g].repo
           /\ Unlocked(h)[g].mu = IF g = h THEN Nobody ELSE handle[g].mu
           /\ Unlocked(h)[g].dirty = handle[g].dirty
  BY DEF Unlocked, Handle, TypeOK

\* What a step of p leaves alone: the other pipelines.
OthersUnchanged(p) ==
    \A q \in Pipelines : q # p =>
        pc'[q] = pc[q] /\ side'[q] = side[q] /\ lease'[q] = lease[q] /\ repo'[q] = repo[q]

CachedInv == LockInv /\ WaitInv /\ CachedRepoInv

\* A step that changes no lock and no repository, and neither what p holds
\* nor what it was given, keeps the invariant.
LEMMA QuietStep ==
    ASSUME TypeOK, TypeOK', CachedInv, NEW p \in Pipelines, OthersUnchanged(p),
           \A s \in Sides : (Held(p, s)' <=> Held(p, s)) /\ (Given(p, s)' <=> Given(p, s)),
           UNCHANGED <<lease, repo>>,
           \A h \in Handles : handle'[h].mu = handle[h].mu /\ handle'[h].repo = handle[h].repo,
           pc'[p] # "lock"
    PROVE  CachedInv'
  <1>1. \A q \in Pipelines, s \in Sides : (Held(q, s)' <=> Held(q, s)) /\ (Given(q, s)' <=> Given(q, s))
    BY DEF OthersUnchanged, Held, Given
  <1>2. LockInv'
    BY <1>1 DEF CachedInv, LockInv, TypeOK
  <1>3. WaitInv'
    BY <1>1 DEF CachedInv, WaitInv, OthersUnchanged
  <1>4. CachedRepoInv'
    <2>1. \A q \in Pipelines, s \in Sides : Given(q, s) => Held(q, s)
      BY DEF Given, Held, Getting
    <2> QED
      BY <1>1, <2>1 DEF CachedInv, CachedRepoInv, LockInv
  <1> QED
    BY <1>2, <1>3, <1>4 DEF CachedInv

\* Of what a pipeline was given it holds the handle.
LEMMA GivenIsHeld ==
    ASSUME NEW p \in Pipelines, NEW s \in Sides, Given(p, s) PROVE Held(p, s)
  BY DEF Given, Held, Getting

\* Collecting garbage after a step that keeps every lease on a locked handle.
LEMMA CollectStep ==
    ASSUME TypeOK, TypeOK', CachedInv, NEW p \in Pipelines, OthersUnchanged(p),
           Collect(handle),
           \A s \in Sides : (Held(p, s)' <=> Held(p, s)) /\ (Given(p, s)' <=> Given(p, s)),
           \A s \in Sides : Held(p, s) => lease'[p][s] = lease[p][s] /\ repo'[p][s] = repo[p][s],
           pc'[p] = "lock" => lease'[p][side'[p]] \in Handles
    PROVE  CachedInv'
  <1>1. \A q \in Pipelines, s \in Sides :
            /\ Held(q, s)' <=> Held(q, s)
            /\ Given(q, s)' <=> Given(q, s)
            /\ Held(q, s) => lease'[q][s] = lease[q][s] /\ repo'[q][s] = repo[q][s]
    BY DEF OthersUnchanged, Held, Given
  <1>2. \A q \in Pipelines, s \in Sides :
            Held(q, s) => lease[q][s] \in Handles /\ handle'[lease[q][s]] = handle[lease[q][s]]
    BY <1>1, CollectFacts DEF CachedInv, LockInv
  <1>3. LockInv'
    <2>1. \A q \in Pipelines, s \in Sides :
              Held(q, s)' => lease'[q][s] \in Handles /\ handle'[lease'[q][s]].mu = q
      BY <1>1, <1>2 DEF CachedInv, LockInv
    <2>2. ASSUME NEW h \in Handles, NEW q \in Pipelines, handle'[h].mu = q
          PROVE  \E s \in Sides : Held(q, s)' /\ lease'[q][s] = h
      <3>1. handle[h].mu = q
        BY <2>2, CollectFacts
      <3> QED
        BY <1>1, <2>2, <3>1 DEF CachedInv, LockInv
    <2> QED
      BY <2>1, <2>2 DEF LockInv
  <1>4. WaitInv'
    BY <1>1 DEF CachedInv, WaitInv, OthersUnchanged
  <1>5. CachedRepoInv'
    <2>1. \A q \in Pipelines, s \in Sides : Given(q, s)' => handle'[lease'[q][s]].repo = repo'[q][s]
      BY <1>1, <1>2, GivenIsHeld DEF CachedInv, CachedRepoInv
    <2>2. ASSUME NEW g \in Handles, NEW h \in Handles, g # h, handle'[g].repo = handle'[h].repo
          PROVE  handle'[g].repo = NoRepository
      BY <2>2, CollectFacts DEF CachedInv, CachedRepoInv
    <2> QED
      BY <2>1, <2>2 DEF CachedRepoInv
  <1> QED
    BY <1>3, <1>4, <1>5 DEF CachedInv

\* Giving up the handle of side t: unlock it, drop the lease, collect.
LEMMA UnlockStep ==
    ASSUME TypeOK, TypeOK', CachedInv, NEW p \in Pipelines, OthersUnchanged(p), NEW t \in Sides,
           Held(p, t), ~Held(p, t)', Collect(Unlocked(lease[p][t])),
           \A s \in Sides : s # t =>
               /\ Held(p, s)' <=> Held(p, s)
               /\ lease'[p][s] = lease[p][s] /\ repo'[p][s] = repo[p][s]
               /\ Given(p, s)' <=> Given(p, s),
           pc'[p] # "lock"
    PROVE  CachedInv'
  <1> DEFINE h0 == lease[p][t]
  <1>0. h0 \in Handles /\ handle[h0].mu = p
    BY DEF CachedInv, LockInv
  <1>1. \A q \in Pipelines, s \in Sides :
            /\ Held(q, s)' <=> Held(q, s) /\ <<q, s>> # <<p, t>>
            /\ Held(q, s)' => lease'[q][s] = lease[q][s] /\ repo'[q][s] = repo[q][s]
            /\ Given(q, s)' => Given(q, s)
    <2>1. ~Given(p, t)'
      BY DEF Given, Held, Getting
    <2> QED
      BY <2>1 DEF OthersUnchanged, Held, Given
  <1>2. \A q \in Pipelines, s \in Sides : Held(q, s)' => lease[q][s] # h0
    <2>1. Held(p, "target") /\ Held(p, "upstream") => lease[p]["target"] # lease[p]["upstream"]
      BY DEF CachedInv, WaitInv
    <2>2. \A q \in Pipelines, s \in Sides : Held(q, s)' /\ q = p => lease[q][s] # h0
      BY <1>1, <2>1
    <2>3. \A q \in Pipelines, s \in Sides : Held(q, s)' /\ q # p => lease[q][s] # h0
      BY <1>0, <1>1 DEF CachedInv, LockInv
    <2> QED
      BY <2>2, <2>3
  <1>3. \A h \in Handles :
            /\ Unlocked(h0)[h].repo = handle[h].repo
            /\ Unlocked(h0)[h].mu = IF h = h0 THEN Nobody ELSE handle[h].mu
    BY UnlockedFacts
  <1>4. \A q \in Pipelines, s \in Sides :
            Held(q, s)' => /\ lease[q][s] \in Handles
                           /\ handle'[lease[q][s]].mu = handle[lease[q][s]].mu
                           /\ handle'[lease[q][s]].repo = handle[lease[q][s]].repo
    <2> SUFFICES ASSUME NEW q \in Pipelines, NEW s \in Sides, Held(q, s)'
                 PROVE  /\ lease[q][s] \in Handles
                        /\ handle'[lease[q][s]].mu = handle[lease[q][s]].mu
                        /\ handle'[lease[q][s]].repo = handle[lease[q][s]].repo
      OBVIOUS
    <2>1. lease[q][s] \in Handles /\ lease'[q][s] = lease[q][s] /\ lease[q][s] # h0
      BY <1>1, <1>2 DEF CachedInv, LockInv
    <2>2. handle'[lease[q][s]] = Unlocked(h0)[lease[q][s]]
      BY <2>1, CollectFacts
    <2> QED
      BY <1>3, <2>1, <2>2
  <1>5. LockInv'
    <2>1. \A q \in Pipelines, s \in Sides :
              Held(q, s)' => lease'[q][s] \in Handles /\ handle'[lease'[q][s]].mu = q
      BY <1>1, <1>4 DEF CachedInv, LockInv
    <2>2. ASSUME NEW h \in Handles, NEW q \in Pipelines, handle'[h].mu = q
          PROVE  \E s \in Sides : Held(q, s)' /\ lease'[q][s] = h
      <3>1. handle[h].mu = q /\ h # h0
        BY <1>3, <2>2, CollectFacts
      <3>2. PICK s \in Sides : Held(q, s) /\ lease[q][s] = h
        BY <3>1 DEF CachedInv, LockInv
      <3>3. <<q, s>> # <<p, t>>
        BY <3>1, <3>2
      <3> QED
        BY <1>1, <3>1, <3>2, <3>3
    <2> QED
      BY <2>1, <2>2 DEF LockInv
  <1>6. WaitInv'
    BY <1>1 DEF CachedInv, WaitInv, OthersUnchanged
  <1>7. CachedRepoInv'
    <2>1. \A q \in Pipelines, s \in Sides : Given(q, s)' => Held(q, s)'
      BY DEF Given, Held, Getting
    <2>2. \A q \in Pipelines, s \in Sides : Given(q, s)' => handle'[lease'[q][s]].repo = repo'[q][s]
      BY <1>1, <1>4, <2>1 DEF CachedInv, CachedRepoInv
    <2>3. ASSUME NEW g \in Handles, NEW h \in Handles, g # h, handle'[g].repo = handle'[h].repo
          PROVE  handle'[g].repo = NoRepository
      BY <1>3, <2>3, CollectFacts DEF CachedInv, CachedRepoInv
    <2> QED
      BY <2>2, <2>3 DEF CachedRepoInv
  <1> QED
    BY <1>5, <1>6, <1>7 DEF CachedInv

\* Locking a free handle.
LEMMA LockStep ==
    ASSUME TypeOK, TypeOK', CachedInv, NEW p \in Pipelines, Lock(p)
    PROVE  CachedInv'
  <1> DEFINE h0 == Leased(p)
  <1>0. h0 \in Handles /\ handle[h0].mu = Nobody /\ lease[p][side[p]] = h0
    BY DEF Lock, CachedInv, WaitInv, Leased
  <1>1. \A q \in Pipelines, s \in Sides :
            /\ Held(q, s)' <=> Held(q, s) \/ (q = p /\ s = side[p])
            /\ Given(q, s)' <=> Given(q, s)
    BY DEF Lock, Held, Given, Getting, TypeOK
  <1>2. \A h \in Handles : /\ handle'[h].mu = IF h = h0 THEN p ELSE handle[h].mu
                           /\ handle'[h].repo = handle[h].repo
    BY DEF Lock, Handle, TypeOK
  <1>3. ~Held(p, side[p]) /\ \A q \in Pipelines, s \in Sides : Held(q, s) => lease[q][s] # h0
    BY <1>0 DEF Lock, Held, Getting, CachedInv, LockInv, TypeOK
  <1>4. UNCHANGED <<lease, repo, side>>
    BY DEF Lock
  <1>5. LockInv'
    BY <1>0, <1>1, <1>2, <1>3, <1>4 DEF CachedInv, LockInv, TypeOK
  <1>6. WaitInv'
    <2>1. ASSUME NEW q \in Pipelines, (Held(q, "target") /\ Held(q, "upstream"))'
          PROVE  lease[q]["target"] # lease[q]["upstream"]
      BY <1>0, <1>1, <1>3, <2>1 DEF CachedInv, WaitInv
    <2>2. ASSUME NEW q \in Pipelines, pc'[q] = "lock" PROVE lease[q][side[q]] \in Handles
      BY <2>2 DEF Lock, CachedInv, WaitInv, TypeOK
    <2> QED
      BY <1>4, <2>1, <2>2 DEF WaitInv
  <1>7. CachedRepoInv'
    <2>1. \A q \in Pipelines, s \in Sides : Given(q, s) => lease[q][s] \in Handles
      BY GivenIsHeld DEF CachedInv, LockInv
    <2> QED
      BY <1>1, <1>2, <1>4, <2>1 DEF CachedInv, CachedRepoInv
  <1> QED
    BY <1>5, <1>6, <1>7 DEF CachedInv

\* getRepository returns the repository r of the handle it holds: the cached
\* one after a refresh, or a clone nobody else has.
LEMMA AcquireStep ==
    ASSUME TypeOK, TypeOK', ProgressInv, CachedInv, NEW p \in Pipelines, pc[p] = "fetch",
           NEW r, NEW d, Acquired(p, r), UNCHANGED lease,
           handle' = [handle EXCEPT ![Leased(p)] = Handle(r, @.mu, d)],
           \A h \in Handles : h # Leased(p) => handle[h].repo # r
    PROVE  CachedInv'
  <1> DEFINE h0 == Leased(p)
  <1>0. Held(p, side[p]) /\ h0 \in Handles /\ lease[p][side[p]] = h0 /\ handle[h0].mu = p
    BY DEF Held, CachedInv, LockInv, Leased, TypeOK
  <1>1. \A q \in Pipelines, s \in Sides :
            /\ Held(q, s)' <=> Held(q, s)
            /\ Given(q, s)' => Given(q, s) \/ (q = p /\ s = side[p])
            /\ repo'[q][s] = IF q = p /\ s = side[p] THEN r ELSE repo[q][s]
    <2>1. pc' = [pc EXCEPT ![p] = pc'[p]] /\ side' = [side EXCEPT ![p] = side'[p]]
      BY DEF Acquired, TypeOK
    <2>2. \A q \in Pipelines, s \in Sides : q # p =>
              (Held(q, s)' <=> Held(q, s)) /\ (Given(q, s)' <=> Given(q, s))
      BY <2>1 DEF Held, Given, TypeOK
    <2>3. CASE side[p] = "target" /\ NeedsUpstream(remoteTarget[p])
      <3>1. pc'[p] = "load" /\ side'[p] = "upstream"
        BY <2>3 DEF Acquired, TypeOK
      <3> QED
        BY <2>2, <2>3, <3>1 DEF Acquired, Held, Given, Getting, TypeOK
    <2>4. CASE ~(side[p] = "target" /\ NeedsUpstream(remoteTarget[p]))
      <3>1. pc'[p] = "work" /\ side'[p] = side[p]
        BY <2>4 DEF Acquired, TypeOK
      <3> QED
        BY <2>2, <2>4, <3>1 DEF Acquired, Held, Given, Getting, TypeOK
    <2> QED
      BY <2>3, <2>4
  <1>2. \A h \in Handles : /\ handle'[h].mu = handle[h].mu
                           /\ handle'[h].repo = IF h = h0 THEN r ELSE handle[h].repo
    BY DEF Handle, TypeOK
  <1>3. LockInv'
    BY <1>1, <1>2 DEF CachedInv, LockInv, TypeOK
  <1>4. WaitInv'
    <2>1. \A q \in Pipelines : pc'[q] = "lock" => pc[q] = "lock" /\ side'[q] = side[q]
      BY DEF Acquired, TypeOK
    <2> QED
      BY <1>1, <2>1 DEF CachedInv, WaitInv
  <1>5. CachedRepoInv'
    <2>1. \A q \in Pipelines, s \in Sides :
              Held(q, s) /\ <<q, s>> # <<p, side[p]>> => lease[q][s] # h0 /\ lease[q][s] \in Handles
      <3>1. Held(p, "target") /\ Held(p, "upstream") => lease[p]["target"] # lease[p]["upstream"]
        BY DEF CachedInv, WaitInv
      <3> QED
        BY <1>0, <3>1 DEF CachedInv, LockInv, TypeOK
    <2>2. ASSUME NEW q \in Pipelines, NEW s \in Sides, Given(q, s)'
          PROVE  handle'[lease'[q][s]].repo = repo'[q][s]
      <3>1. CASE q = p /\ s = side[p]
        BY <1>0, <1>1, <1>2, <3>1
      <3>2. CASE ~(q = p /\ s = side[p])
        BY <1>1, <1>2, <2>1, <2>2, <3>2, GivenIsHeld DEF CachedInv, CachedRepoInv
      <3> QED
        BY <3>1, <3>2
    <2>3. ASSUME NEW g \in Handles, NEW h \in Handles, g # h, handle'[g].repo = handle'[h].repo
          PROVE  handle'[g].repo = NoRepository
      BY <1>2, <2>3 DEF CachedInv, CachedRepoInv
    <2> QED
      BY <2>2, <2>3 DEF CachedRepoInv
  <1> QED
    BY <1>3, <1>4, <1>5 DEF CachedInv

\* Every step keeps the invariant of the cached repositories.
LEMMA CachedStep ==
    ASSUME IInv, CacheEnabled, [Next]_vars PROVE CachedInv'
  <1>0. TypeOK /\ ProgressInv /\ CachedInv /\ TypeOK'
    BY TypeStep DEF IInv, CachedInv
  <1> USE DEF Held, Given, Getting, OthersUnchanged
  <1>1. ASSUME NEW p \in Pipelines, pc[p] = "fetch", CloneIntoHandle(p) PROVE CachedInv'
    <2>1. IsFreshRepository(FreshRepository)
      BY <1>1, FreshFacts DEF CloneIntoHandle
    <2> HIDE DEF Held, Given, Getting, OthersUnchanged
    <2> QED
      BY <1>0, <1>1, <2>1, AcquireStep DEF CloneIntoHandle, IsFreshRepository
  <1>2. ASSUME NEW p \in Pipelines, NEW h, MayLeaveLeftovers(h)
        PROVE  \A g \in Handles : handle'[g].mu = handle[g].mu /\ handle'[g].repo = handle[g].repo
    BY <1>0, <1>2 DEF MayLeaveLeftovers, Handle, TypeOK
  <1>3. ASSUME NEW p \in Pipelines, pc[p] = "fetch", FailClone(p),
               \A g \in Handles : handle'[g].mu = handle[g].mu /\ handle'[g].repo = handle[g].repo
        PROVE  CachedInv'
    <2>1. OthersUnchanged(p) /\ UNCHANGED <<lease, repo, side>> /\ pc'[p] = "discard"
      BY <1>0, <1>3 DEF FailClone, TypeOK
    <2>2. \A s \in Sides : (Held(p, s)' <=> Held(p, s)) /\ (Given(p, s)' <=> Given(p, s))
      BY <1>3, <2>1
    <2> HIDE DEF Held, Given, Getting, OthersUnchanged
    <2> QED
      BY <1>0, <1>3, <2>1, <2>2, QuietStep
  <1>11. ASSUME NEW p \in Pipelines, Start(p) PROVE CachedInv'
    <2>1. OthersUnchanged(p) /\ UNCHANGED <<lease, repo, handle>>
          /\ pc'[p] = "load" /\ side'[p] = "target" /\ pc[p] = "idle"
      BY <1>0, <1>11 DEF Start, TypeOK
    <2>2. \A s \in Sides : (Held(p, s)' <=> Held(p, s)) /\ (Given(p, s)' <=> Given(p, s))
      BY <2>1
    <2> HIDE DEF Held, Given, Getting, OthersUnchanged
    <2> QED
      BY <1>0, <2>1, <2>2, QuietStep
  <1>12. ASSUME NEW p \in Pipelines, LoadOrStoreHandle(p) PROVE CachedInv'
    <2>1. PICK h \in Handles : lease' = [lease EXCEPT ![p][side[p]] = h]
      BY <1>12, LoadFacts
    <2>2. /\ OthersUnchanged(p) /\ UNCHANGED <<repo, side>>
          /\ pc[p] = "load" /\ pc'[p] = "lock" /\ lease'[p][side'[p]] = h
          /\ \A s \in Sides : s # side[p] => lease'[p][s] = lease[p][s]
      BY <1>0, <1>12, <2>1 DEF LoadOrStoreHandle, TypeOK
    <2>3. \A s \in Sides : /\ Held(p, s)' <=> Held(p, s)
                           /\ Given(p, s)' <=> Given(p, s)
                           /\ Held(p, s) => s # side[p]
      BY <1>0, <2>2 DEF TypeOK
    <2>4. Collect(handle)
      BY <1>12 DEF LoadOrStoreHandle
    <2> HIDE DEF Held, Given, Getting, OthersUnchanged
    <2> QED
      BY <1>0, <2>2, <2>3, <2>4, CollectStep
  <1>13. ASSUME NEW p \in Pipelines, Lock(p) PROVE CachedInv'
    BY <1>0, <1>13, LockStep
  <1>14. ASSUME NEW p \in Pipelines, CloneMiss(p) PROVE CachedInv'
    BY <1>1, <1>3, <1>14 DEF CloneMiss
  <1>15. ASSUME NEW p \in Pipelines, Refresh(p) PROVE CachedInv'
    <2>1. Leased(p) \in Handles
      BY <1>0, <1>15 DEF Refresh, CachedInv, LockInv, Leased, TypeOK
    <2>2. \A h \in Handles : h # Leased(p) => handle[h].repo # handle[Leased(p)].repo
      BY <1>0, <1>15, <2>1 DEF Refresh, CachedInv, CachedRepoInv
    <2> HIDE DEF Held, Given, Getting, OthersUnchanged
    <2> QED
      BY <1>0, <1>15, <2>2, AcquireStep DEF Refresh
  <1>16. ASSUME NEW p \in Pipelines, RefreshFails(p) PROVE CachedInv'
    BY <1>1, <1>2, <1>3, <1>16 DEF RefreshFails
  <1>17. ASSUME NEW p \in Pipelines PROVE ~CloneUncached(p)
    BY DEF CloneUncached
  <1>18. ASSUME NEW p \in Pipelines, Discard(p) PROVE CachedInv'
    <2>1. /\ OthersUnchanged(p) /\ UNCHANGED <<lease, repo, side>> /\ Collect(handle)
          /\ pc[p] = "discard" /\ pc'[p] = "unlock"
      BY <1>0, <1>18 DEF Discard, TypeOK
    <2>2. \A s \in Sides : (Held(p, s)' <=> Held(p, s)) /\ (Given(p, s)' <=> Given(p, s))
      BY <2>1
    <2> HIDE DEF Held, Given, Getting, OthersUnchanged
    <2> QED
      BY <1>0, <2>1, <2>2, CollectStep
  <1>19. ASSUME NEW p \in Pipelines, UnlockDiscarded(p) PROVE CachedInv'
    <2>0. PICK t \in Sides : t = side[p]
      BY <1>0 DEF TypeOK
    <2>1. /\ OthersUnchanged(p) /\ UNCHANGED <<repo, side>> /\ Collect(Unlocked(lease[p][t]))
          /\ pc[p] = "unlock" /\ pc'[p] = (IF t = "target" THEN "idle" ELSE "releaseTarget")
          /\ \A s \in Sides : s # t => lease'[p][s] = lease[p][s]
      BY <1>0, <1>19, <2>0 DEF UnlockDiscarded, ReturnOr, Leased, TypeOK
    <2>2. Held(p, t) /\ ~Held(p, t)'
          /\ \A s \in Sides : s # t => (Held(p, s)' <=> Held(p, s)) /\ (Given(p, s)' <=> Given(p, s))
      BY <2>0, <2>1
    <2>3. pc'[p] # "lock"
      BY <2>1
    <2> HIDE DEF Held, Given, Getting, OthersUnchanged
    <2> QED
      BY <1>0, <2>1, <2>2, <2>3, UnlockStep
  <1>20. ASSUME NEW p \in Pipelines, Work(p) PROVE CachedInv'
    <2>1. /\ OthersUnchanged(p) /\ UNCHANGED <<lease, repo, side>> /\ pc[p] = "work"
          /\ pc'[p] = IF NeedsUpstream(remoteTarget[p]) THEN "releaseUpstream" ELSE "releaseTarget"
      BY <1>0, <1>20 DEF Work, TypeOK
    <2>2. \A s \in Sides : (Held(p, s)' <=> Held(p, s)) /\ (Given(p, s)' <=> Given(p, s))
      BY <1>0, <2>1 DEF ProgressInv
    <2>3. \A g \in Handles : handle'[g].mu = handle[g].mu /\ handle'[g].repo = handle[g].repo
      BY <1>2, <1>20 DEF Work
    <2>4. pc'[p] # "lock" /\ UNCHANGED <<lease, repo>> /\ OthersUnchanged(p)
      BY <2>1
    <2> HIDE DEF Held, Given, Getting, OthersUnchanged
    <2> QED
      BY <1>0, <2>2, <2>3, <2>4, QuietStep
  <1>21. ASSUME NEW p \in Pipelines, ReleaseUpstream(p) PROVE CachedInv'
    <2>1. /\ OthersUnchanged(p) /\ UNCHANGED side /\ Collect(Unlocked(lease[p]["upstream"]))
          /\ pc[p] = "releaseUpstream" /\ pc'[p] = "releaseTarget" /\ side[p] = "upstream"
          /\ \A s \in Sides : s # "upstream" => lease'[p][s] = lease[p][s] /\ repo'[p][s] = repo[p][s]
      BY <1>0, <1>21 DEF ReleaseUpstream, Release, ReturnOr, TypeOK, ProgressInv
    <2>2. Held(p, "upstream") /\ ~Held(p, "upstream")'
          /\ \A s \in Sides : s # "upstream" =>
                (Held(p, s)' <=> Held(p, s)) /\ (Given(p, s)' <=> Given(p, s))
      BY <2>1
    <2> HIDE DEF Held, Given, Getting, OthersUnchanged
    <2> QED
      BY <1>0, <2>1, <2>2, UnlockStep
  <1>22. ASSUME NEW p \in Pipelines, ReleaseTarget(p) PROVE CachedInv'
    <2>1. /\ OthersUnchanged(p) /\ UNCHANGED side /\ Collect(Unlocked(lease[p]["target"]))
          /\ pc[p] = "releaseTarget" /\ pc'[p] = "idle"
          /\ \A s \in Sides : s # "target" => lease'[p][s] = lease[p][s] /\ repo'[p][s] = repo[p][s]
      BY <1>0, <1>22 DEF ReleaseTarget, Release, ReturnOr, TypeOK
    <2>2. Held(p, "target") /\ ~Held(p, "target")'
          /\ \A s \in Sides : s # "target" =>
                (Held(p, s)' <=> Held(p, s)) /\ (Given(p, s)' <=> Given(p, s))
      BY <2>1
    <2> HIDE DEF Held, Given, Getting, OthersUnchanged
    <2> QED
      BY <1>0, <2>1, <2>2, UnlockStep
  <1>23. CASE UNCHANGED vars
    BY <1>0, <1>23 DEF vars, CachedInv, LockInv, WaitInv, CachedRepoInv
  <1> HIDE DEF Held, Given, Getting, OthersUnchanged
  <1> QED
    BY <1>11, <1>12, <1>13, <1>14, <1>15, <1>16, <1>17, <1>18, <1>19, <1>20, <1>21, <1>22, <1>23
       DEF Next, Proceed

\* The invariant is inductive.
LEMMA NextIInv == IInv /\ [Next]_vars => IInv'
  <1> SUFFICES ASSUME IInv, [Next]_vars PROVE IInv'
    OBVIOUS
  <1>1. CacheEnabled' <=> CacheEnabled
    BY DEF CacheEnabled, Next, vars
  <1> QED
    BY <1>1, TypeStep, ProgressStep, UncachedStep, CachedStep DEF IInv, CachedInv

---------------------------------------------------------------------------
(* What the invariant implies.                                             *)

\* What p touches it holds: the repository it was given, or the one in the
\* handle it is refreshing.
LEMMA TouchedIsHeld ==
    ASSUME IInv, CacheEnabled, NEW p \in Pipelines, NEW r \in Touched(p)
    PROVE  /\ r # NoRepository
           /\ \E h \in Handles : handle[h].mu = p /\ handle[h].repo = r
  <1>0. TypeOK /\ ProgressInv /\ LockInv /\ CachedRepoInv
    BY DEF IInv
  <1>1. CASE \E s \in Sides : repo[p][s] = r
    <2>1. r # NoRepository
      BY DEF Touched
    <2>2. PICK s \in Sides : repo[p][s] = r
      BY <1>1
    <2>3. Given(p, s)
      BY <1>0, <2>1, <2>2 DEF ProgressInv
    <2>4. Held(p, s)
      BY <2>3, GivenIsHeld
    <2> QED
      BY <1>0, <2>1, <2>2, <2>3, <2>4 DEF LockInv, CachedRepoInv
  <1>2. CASE pc[p] = "fetch" /\ r = handle[Leased(p)].repo
    <2>1. Held(p, side[p])
      BY <1>0, <1>2 DEF Held, TypeOK
    <2> QED
      BY <1>0, <1>2, <2>1 DEF Touched, LockInv, Leased, TypeOK
  <1> QED
    BY <1>1, <1>2 DEF Touched

\* Held handles are disjoint, so what two pipelines touch is disjoint.
LEMMA IInvExclusive == IInv => ExclusiveRepositories
  <1> SUFFICES ASSUME IInv, NEW p \in Pipelines, NEW q \in Pipelines, p # q,
                      NEW r, r \in Touched(p), r \in Touched(q)
               PROVE  FALSE
    BY DEF ExclusiveRepositories
  <1>1. CASE CacheEnabled
    <2>1. PICK g \in Handles : handle[g].mu = p /\ handle[g].repo = r
      BY <1>1, TouchedIsHeld
    <2>2. PICK h \in Handles : handle[h].mu = q /\ handle[h].repo = r
      BY <1>1, TouchedIsHeld
    <2>3. r # NoRepository
      BY <1>1, TouchedIsHeld
    <2> QED
      BY <1>1, <2>1, <2>2, <2>3 DEF IInv, CachedRepoInv
  <1>2. CASE ~CacheEnabled
    BY <1>2 DEF IInv, UncachedInv, Touched
  <1> QED
    BY <1>1, <1>2

\* A locked handle is held, and only a running pipeline holds one.
LEMMA IInvNoLeak == IInv => NoLeakedLock
  <1> SUFFICES ASSUME IInv, NEW h \in Handles, handle[h].mu # Nobody
               PROVE  \E s \in Sides : pc[handle[h].mu] # "idle" /\ lease[handle[h].mu][s] = h
    BY DEF NoLeakedLock
  <1>1. CASE CacheEnabled
    <2>1. PICK p \in Pipelines : handle[h].mu = p
      BY DEF IInv, TypeOK
    <2>2. PICK s \in Sides : Held(p, s) /\ lease[p][s] = h
      BY <1>1, <2>1 DEF IInv, LockInv
    <2>3. pc[p] # "idle"
      BY <2>2 DEF Held, Getting
    <2> QED
      BY <2>1, <2>2, <2>3
  <1>2. CASE ~CacheEnabled
    BY <1>2 DEF IInv, UncachedInv, NewHandle, Handle
  <1> QED
    BY <1>1, <1>2

(* The state is well typed in every reachable state.                       *)
THEOREM LeaseTypes == Spec => []TypeOK
  <1>1. IInv => TypeOK
    BY DEF IInv
  <1> QED
    BY <1>1, InitIInv, NextIInv, PTL DEF Spec

(* No two pipelines ever touch the same go-git repository, for any number  *)
(* of pipelines and targets and any capacity, eviction and failing clones  *)
(* included (acquire, getRepository, release, discard).                    *)
THEOREM LeaseExclusion == Spec => []ExclusiveRepositories
  BY InitIInv, NextIInv, IInvExclusive, PTL DEF Spec

(* Whatever path a pipeline returns on, it leaves no handle locked.        *)
THEOREM LeaseNoLeak == Spec => []NoLeakedLock
  BY InitIInv, NextIInv, IInvNoLeak, PTL DEF Spec

---------------------------------------------------------------------------
(* What a lease is on: a second invariant, above the first, relates the    *)
(* leases to the keys of the cache and to what the handles hold.           *)

KeyOf(p, s) == IF s = "target" THEN TargetKey(remoteTarget[p]) ELSE UpstreamKey(remoteTarget[p])

\* p has asked the cache for the handle of side s and not given it back yet.
Asked(p, s) ==
    IF s = "target"
    THEN \/ pc[p] \in {"work", "releaseUpstream", "releaseTarget"}
         \/ side[p] = "upstream" /\ pc[p] \in Getting
         \/ side[p] = "target" /\ pc[p] \in {"lock", "fetch", "discard", "unlock"}
    ELSE side[p] = "upstream"
         /\ pc[p] \in {"lock", "fetch", "discard", "unlock", "work", "releaseUpstream"}

\* A pipeline has a lease exactly while it asked for one, and a repository
\* as soon as getRepository returned it.
LeaseInv ==
    \A p \in Pipelines, s \in Sides :
        /\ Asked(p, s) => lease[p][s] \in Handles
        /\ ~Asked(p, s) => lease[p][s] = NoHandle
        /\ Given(p, s) => repo[p][s] # NoRepository

\* A handle serves one key, in the cache and in the leases, even after its
\* entry was evicted or discarded and another handle took the key.
KeyInv ==
    /\ \A k, l \in DOMAIN entries : entries[k].value = entries[l].value => k = l
    /\ \A p \in Pipelines, s \in Sides, k \in DOMAIN entries :
          Asked(p, s) /\ entries[k].value = lease[p][s] => k = KeyOf(p, s)
    /\ \A p, q \in Pipelines, s, t \in Sides :
          Asked(p, s) /\ Asked(q, t) /\ lease[p][s] = lease[q][t] => KeyOf(p, s) = KeyOf(q, t)

\* From the return of getRepository to the end of the work, a leased
\* repository is clean.
FreshInv ==
    \A p \in Pipelines, s \in Sides :
        Given(p, s) /\ pc[p] \notin {"releaseUpstream", "releaseTarget"} => ~handle[lease[p][s]].dirty

\* An unpopulated handle is out of the cache before its discard unlocks it.
AbandonInv ==
    /\ NoAbandonedHandle
    /\ \A p \in Pipelines : pc[p] = "unlock" /\ handle[Leased(p)].repo = NoRepository =>
          \A k \in DOMAIN entries : entries[k].value # Leased(p)

KInv ==
    /\ IInv
    /\ CacheEnabled => LeaseInv /\ KeyInv /\ FreshInv /\ AbandonInv
    /\ ~CacheEnabled => DOMAIN entries = {}

\* The initial state satisfies it: there are no entries and no leases.
LEMMA InitKInv == Init => KInv
  <1> SUFFICES ASSUME Init PROVE KInv
    OBVIOUS
  <1>1. DOMAIN entries = {}
    BY DEF Init, NoEntries
  <1>2. \A p \in Pipelines, s \in Sides :
            ~Asked(p, s) /\ ~Given(p, s) /\ lease[p][s] = NoHandle /\ pc[p] = "idle"
    BY DEF Init, Asked, Given, Getting
  <1>3. LeaseInv /\ FreshInv
    BY <1>2 DEF LeaseInv, FreshInv
  <1>4. KeyInv /\ AbandonInv
    BY <1>1, <1>2 DEF KeyInv, AbandonInv, NoAbandonedHandle
  <1> QED
    BY <1>1, <1>3, <1>4, InitIInv DEF KInv

\* Every step keeps leases and requests for them in line.
LEMMA LeaseStep ==
    ASSUME IInv, IInv', CacheEnabled, LeaseInv, [Next]_vars PROVE LeaseInv'
  <1>0. TypeOK /\ ProgressInv /\ TypeOK'
    BY DEF IInv
  <1> USE DEF LeaseInv, Asked, Given, Getting, TypeOK
  <1>1. ASSUME NEW p \in Pipelines, NEW r, r # NoRepository, pc[p] = "fetch",
               Acquired(p, r), UNCHANGED lease
        PROVE  LeaseInv'
    BY <1>0, <1>1 DEF Acquired
  <1>2. ASSUME NEW p \in Pipelines, pc[p] = "fetch", CloneIntoHandle(p) PROVE LeaseInv'
    <2>1. FreshRepository # NoRepository /\ Acquired(p, FreshRepository) /\ UNCHANGED lease
      BY <1>2, FreshFacts DEF CloneIntoHandle
    <2> HIDE DEF LeaseInv
    <2> QED
      BY <1>1, <1>2, <2>1
  <1>3. ASSUME NEW p \in Pipelines, pc[p] = "fetch", FailClone(p) PROVE LeaseInv'
    BY <1>0, <1>3 DEF FailClone
  <1>11. ASSUME NEW p \in Pipelines, Start(p) PROVE LeaseInv'
    BY <1>0, <1>11 DEF Start
  <1>12. ASSUME NEW p \in Pipelines, LoadOrStoreHandle(p) PROVE LeaseInv'
    <2>1. PICK h \in Handles : lease' = [lease EXCEPT ![p][side[p]] = h]
      BY <1>12, LoadFacts
    <2> QED
      BY <1>0, <1>12, <2>1 DEF LoadOrStoreHandle
  <1>13. ASSUME NEW p \in Pipelines, Lock(p) PROVE LeaseInv'
    BY <1>0, <1>13 DEF Lock
  <1>14. ASSUME NEW p \in Pipelines, CloneMiss(p) PROVE LeaseInv'
    <2> HIDE DEF LeaseInv
    <2> QED
      BY <1>2, <1>3, <1>14 DEF CloneMiss
  <1>15. ASSUME NEW p \in Pipelines, Refresh(p) PROVE LeaseInv'
    <2> HIDE DEF LeaseInv
    <2> QED
      BY <1>1, <1>15 DEF Refresh
  <1>16. ASSUME NEW p \in Pipelines, RefreshFails(p) PROVE LeaseInv'
    <2> HIDE DEF LeaseInv
    <2> QED
      BY <1>2, <1>3, <1>16 DEF RefreshFails
  <1>17. ASSUME NEW p \in Pipelines PROVE ~CloneUncached(p)
    BY DEF CloneUncached
  <1>18. ASSUME NEW p \in Pipelines, Discard(p) PROVE LeaseInv'
    BY <1>0, <1>18 DEF Discard
  <1>19. ASSUME NEW p \in Pipelines, UnlockDiscarded(p) PROVE LeaseInv'
    BY <1>0, <1>19 DEF UnlockDiscarded, ReturnOr
  <1>20. ASSUME NEW p \in Pipelines, Work(p) PROVE LeaseInv'
    BY <1>0, <1>20 DEF Work, ProgressInv
  <1>21. ASSUME NEW p \in Pipelines, ReleaseUpstream(p) PROVE LeaseInv'
    BY <1>0, <1>21 DEF ReleaseUpstream, Release, ReturnOr, ProgressInv
  <1>22. ASSUME NEW p \in Pipelines, ReleaseTarget(p) PROVE LeaseInv'
    BY <1>0, <1>22 DEF ReleaseTarget, Release, ReturnOr
  <1>23. CASE UNCHANGED vars
    BY <1>0, <1>23 DEF vars
  <1> HIDE DEF LeaseInv
  <1> QED
    BY <1>11, <1>12, <1>13, <1>14, <1>15, <1>16, <1>17, <1>18, <1>19, <1>20, <1>21, <1>22, <1>23
       DEF Next, Proceed

\* What every step but a LoadOrStore does to the leases and the entries: it
\* may give some up, and touches none of the others.
Shrinks ==
    /\ \A p \in Pipelines, s \in Sides : Asked(p, s)' =>
          Asked(p, s) /\ lease'[p][s] = lease[p][s] /\ KeyOf(p, s)' = KeyOf(p, s)
    /\ DOMAIN entries' \subseteq DOMAIN entries
    /\ \A k \in DOMAIN entries' : entries'[k].value = entries[k].value

LEMMA ShrinkStep ==
    ASSUME IInv, IInv', CacheEnabled, [Next]_vars, \A p \in Pipelines : ~LoadOrStoreHandle(p)
    PROVE  Shrinks
  <1>0. TypeOK /\ ProgressInv
    BY DEF IInv
  <1>1. UNCHANGED entries \/ \E p \in Pipelines : Discard(p)
    BY DEF Next, Proceed, vars, Start, Lock, CloneMiss, CloneIntoHandle, FailClone, Refresh,
           RefreshFails, CloneUncached, UnlockDiscarded, Work, ReleaseUpstream, ReleaseTarget, Release
  <1>2. DOMAIN entries' \subseteq DOMAIN entries /\ \A k \in DOMAIN entries' : entries'[k].value = entries[k].value
    BY <1>1 DEF Discard, Without, Keep
  <1> DEFINE Leases == \A p \in Pipelines, s \in Sides : Asked(p, s)' =>
          Asked(p, s) /\ lease'[p][s] = lease[p][s] /\ remoteTarget'[p] = remoteTarget[p]
  <1> USE DEF Asked, Getting, TypeOK
  <1>3. ASSUME NEW p \in Pipelines, NEW r, pc[p] = "fetch", Acquired(p, r), UNCHANGED lease PROVE Leases
    BY <1>0, <1>3 DEF Acquired
  <1>4. ASSUME NEW p \in Pipelines, pc[p] = "fetch", CloneIntoHandle(p) PROVE Leases
    <2>1. Acquired(p, FreshRepository) /\ UNCHANGED lease
      BY <1>4 DEF CloneIntoHandle
    <2> HIDE DEF Leases
    <2> QED
      BY <1>3, <1>4, <2>1
  <1>5. ASSUME NEW p \in Pipelines, pc[p] = "fetch", FailClone(p) PROVE Leases
    BY <1>0, <1>5 DEF FailClone
  <1>11. ASSUME NEW p \in Pipelines, Start(p) PROVE Leases
    BY <1>0, <1>11 DEF Start
  <1>13. ASSUME NEW p \in Pipelines, Lock(p) PROVE Leases
    BY <1>0, <1>13 DEF Lock
  <1>14. ASSUME NEW p \in Pipelines, CloneMiss(p) PROVE Leases
    <2> HIDE DEF Leases
    <2> QED
      BY <1>4, <1>5, <1>14 DEF CloneMiss
  <1>15. ASSUME NEW p \in Pipelines, Refresh(p) PROVE Leases
    <2> HIDE DEF Leases
    <2> QED
      BY <1>3, <1>15 DEF Refresh
  <1>16. ASSUME NEW p \in Pipelines, RefreshFails(p) PROVE Leases
    <2> HIDE DEF Leases
    <2> QED
      BY <1>4, <1>5, <1>16 DEF RefreshFails
  <1>17. ASSUME NEW p \in Pipelines PROVE ~CloneUncached(p)
    BY DEF CloneUncached
  <1>18. ASSUME NEW p \in Pipelines, Discard(p) PROVE Leases
    BY <1>0, <1>18 DEF Discard
  <1>19. ASSUME NEW p \in Pipelines, UnlockDiscarded(p) PROVE Leases
    BY <1>0, <1>19 DEF UnlockDiscarded, ReturnOr
  <1>20. ASSUME NEW p \in Pipelines, Work(p) PROVE Leases
    BY <1>0, <1>20 DEF Work, ProgressInv
  <1>21. ASSUME NEW p \in Pipelines, ReleaseUpstream(p) PROVE Leases
    BY <1>0, <1>21 DEF ReleaseUpstream, Release, ReturnOr, ProgressInv
  <1>22. ASSUME NEW p \in Pipelines, ReleaseTarget(p) PROVE Leases
    BY <1>0, <1>22 DEF ReleaseTarget, Release, ReturnOr
  <1>23. ASSUME UNCHANGED vars PROVE Leases
    BY <1>0, <1>23 DEF vars
  <1>24. Leases
    <2> HIDE DEF Leases
    <2> QED
      BY <1>11, <1>13, <1>14, <1>15, <1>16, <1>17, <1>18, <1>19, <1>20, <1>21, <1>22, <1>23
         DEF Next, Proceed
  <1> HIDE DEF Asked
  <1> QED
    BY <1>2, <1>24 DEF Shrinks, KeyOf

\* A LoadOrStore leases the handle its key has from now on: the cached one
\* on a hit, one nothing refers to on a miss.
LEMMA LoadLease ==
    ASSUME IInv, NEW p \in Pipelines, LoadOrStoreHandle(p)
    PROVE  \E h \in Handles :
              /\ lease' = [lease EXCEPT ![p][side[p]] = h]
              /\ Key(p) \in DOMAIN entries' /\ entries'[Key(p)].value = h
              /\ \A k \in DOMAIN entries' : k # Key(p) =>
                    k \in DOMAIN entries /\ entries'[k].value = entries[k].value
              /\ \/ Key(p) \in DOMAIN entries /\ entries[Key(p)].value = h
                 \/ ~Referenced(h)
  <1>0. Key(p) \in Keys /\ entries \in EntryMaps(Keys, Handles)
    BY KeyInKeys DEF IInv, ProgressInv, LoadOrStoreHandle, TypeOK
  <1>1. CASE Key(p) \in DOMAIN entries
    <2>1. entries' = touchLocked(entries, Key(p)) /\ lease' = [lease EXCEPT ![p][side[p]] = entries[Key(p)].value]
      BY <1>1 DEF LoadOrStoreHandle
    <2>2. entries[Key(p)].value \in Handles
      BY <1>0, <1>1, EntryMapElim DEF Entry
    <2>3. DOMAIN entries' = DOMAIN entries /\ \A k \in DOMAIN entries : entries'[k].value = entries[k].value
      BY <1>0, <1>1, <2>1, TouchKeepsEntryMap
    <2> QED
      BY <1>1, <2>1, <2>2, <2>3
  <1>2. CASE Key(p) \notin DOMAIN entries
    <2>1. /\ MemoryLeft
          /\ entries' \in Insertions(entries, Key(p), FreshHandle, maxRepos)
          /\ lease' = [lease EXCEPT ![p][side[p]] = FreshHandle]
      BY <1>2 DEF LoadOrStoreHandle
    <2>2. FreshHandle \in Handles /\ ~Referenced(FreshHandle)
      BY <2>1, FreshFacts
    <2>3. maxRepos \in Int
      BY CapacitiesAssumption DEF IInv, TypeOK
    <2>4. /\ Key(p) \in DOMAIN entries' /\ entries'[Key(p)].value = FreshHandle
          /\ DOMAIN entries' \subseteq DOMAIN entries \cup {Key(p)}
          /\ \A k \in DOMAIN entries' \ {Key(p)} : entries'[k].value = entries[k].value
      BY <1>0, <1>2, <2>1, <2>2, <2>3, InsertionResult
    <2> QED
      BY <2>1, <2>2, <2>4
  <1> QED
    BY <1>1, <1>2

\* Every step keeps a handle to one key.
LEMMA KeyStep ==
    ASSUME IInv, IInv', CacheEnabled, LeaseInv, KeyInv, [Next]_vars PROVE KeyInv'
  <1>1. CASE \A p \in Pipelines : ~LoadOrStoreHandle(p)
    <2>1. Shrinks
      BY <1>1, ShrinkStep
    <2> QED
      BY <2>1 DEF Shrinks, KeyInv
  <1>2. ASSUME NEW p \in Pipelines, LoadOrStoreHandle(p) PROVE KeyInv'
    <2>1. PICK h \in Handles :
              /\ lease' = [lease EXCEPT ![p][side[p]] = h]
              /\ Key(p) \in DOMAIN entries' /\ entries'[Key(p)].value = h
              /\ \A k \in DOMAIN entries' : k # Key(p) =>
                    k \in DOMAIN entries /\ entries'[k].value = entries[k].value
              /\ \/ Key(p) \in DOMAIN entries /\ entries[Key(p)].value = h
                 \/ ~Referenced(h)
      BY <1>2, LoadLease
    <2>2. PICK t \in Sides : t = side[p]
      BY DEF IInv, TypeOK
    <2>3. PICK key : key = Key(p)
      OBVIOUS
    <2>4. \A q \in Pipelines, s \in Sides :
              /\ KeyOf(q, s)' = KeyOf(q, s)
              /\ IF q = p /\ s = t THEN lease'[q][s] = h /\ KeyOf(q, s) = key
                                   ELSE lease'[q][s] = lease[q][s] /\ (Asked(q, s)' => Asked(q, s))
      BY <1>2, <2>1, <2>2, <2>3 DEF LoadOrStoreHandle, KeyOf, Key, Asked, Getting, IInv, TypeOK
    <2>5. /\ \A k \in DOMAIN entries : entries[k].value = h => k = key
          /\ \A q \in Pipelines, s \in Sides : Asked(q, s) /\ lease[q][s] = h => KeyOf(q, s) = key
      <3>1. CASE key \in DOMAIN entries /\ entries[key].value = h
        BY <3>1 DEF KeyInv
      <3>2. CASE ~Referenced(h)
        BY <3>2 DEF Referenced
      <3> QED
        BY <2>1, <2>3, <3>1, <3>2
    <2>6. \A k, l \in DOMAIN entries' : entries'[k].value = entries'[l].value => k = l
      BY <2>1, <2>3, <2>5 DEF KeyInv
    <2>7. \A q \in Pipelines, s \in Sides, k \in DOMAIN entries' :
              Asked(q, s)' /\ entries'[k].value = lease'[q][s] => k = KeyOf(q, s)'
      BY <2>1, <2>3, <2>4, <2>5 DEF KeyInv
    <2>8. \A q, r \in Pipelines, s, u \in Sides :
              Asked(q, s)' /\ Asked(r, u)' /\ lease'[q][s] = lease'[r][u] => KeyOf(q, s)' = KeyOf(r, u)'
      BY <2>4, <2>5 DEF KeyInv
    <2> QED
      BY <2>6, <2>7, <2>8 DEF KeyInv
  <1> QED
    BY <1>1, <1>2

\* What two pipelines hold, or one on both sides, are different handles.
LEMMA HeldApart ==
    ASSUME IInv, CacheEnabled, NEW p \in Pipelines, NEW t \in Sides, Held(p, t),
           NEW q \in Pipelines, NEW s \in Sides, Held(q, s), <<q, s>> # <<p, t>>
    PROVE  lease[q][s] \in Handles /\ lease[q][s] # lease[p][t]
  <1>1. Held(p, "target") /\ Held(p, "upstream") => lease[p]["target"] # lease[p]["upstream"]
    BY DEF IInv, WaitInv
  <1> QED
    BY <1>1 DEF IInv, LockInv

\* Between getRepository's return and the end of the work.
Clean(p, s) == Given(p, s) /\ pc[p] \notin {"releaseUpstream", "releaseTarget"}

\* A step after which every clean repository is one that was clean before,
\* in a handle the step did not mark.
LEMMA KeptClean ==
    ASSUME FreshInv,
           \A q \in Pipelines, s \in Sides : Clean(q, s)' =>
              \/ Clean(q, s) /\ lease'[q][s] = lease[q][s]
                 /\ handle'[lease[q][s]].dirty = handle[lease[q][s]].dirty
              \/ ~handle'[lease'[q][s]].dirty
    PROVE  FreshInv'
  BY DEF FreshInv, Clean

\* Every step keeps the repositories that are worked on clean.
LEMMA FreshStep ==
    ASSUME IInv, IInv', CacheEnabled, FreshInv, [Next]_vars PROVE FreshInv'
  <1>0. TypeOK /\ ProgressInv /\ TypeOK' /\ LockInv /\ WaitInv
    BY DEF IInv
  <1>h. \A q \in Pipelines, s \in Sides : Clean(q, s) => Held(q, s) /\ lease[q][s] \in Handles
    BY <1>0, GivenIsHeld DEF Clean, LockInv
  <1>a. ASSUME NEW p \in Pipelines, pc[p] = "fetch", NEW r, NEW r0, Acquired(p, r), UNCHANGED lease,
               handle' = [handle EXCEPT ![Leased(p)] = Handle(r0, @.mu, FALSE)]
        PROVE  FreshInv'
    <2>1. PICK t \in Sides : t = side[p]
      BY <1>0 DEF TypeOK
    <2>2. Held(p, t) /\ lease[p][t] \in Handles /\ Leased(p) = lease[p][t]
      BY <1>0, <1>a, <2>1 DEF Held, LockInv, Leased
    <2>3. \A q \in Pipelines, s \in Sides : Clean(q, s)' => Clean(q, s) \/ (q = p /\ s = t)
      BY <1>0, <1>a, <2>1 DEF Acquired, Clean, Given, Getting, TypeOK
    <2>4. ~handle'[lease'[p][t]].dirty
      BY <1>0, <1>a, <2>2 DEF Handle, TypeOK
    <2>5. \A h \in Handles : h # lease[p][t] => handle'[h].dirty = handle[h].dirty
      BY <1>0, <1>a, <2>2 DEF TypeOK
    <2>6. \A q \in Pipelines, s \in Sides : Clean(q, s) /\ <<q, s>> # <<p, t>> =>
              lease[q][s] \in Handles /\ lease[q][s] # lease[p][t]
      BY <1>h, <2>2, HeldApart
    <2> QED
      BY <1>a, <2>3, <2>4, <2>5, <2>6, KeptClean
  <1>b. ASSUME NEW p \in Pipelines, pc[p] = "fetch", CloneIntoHandle(p) PROVE FreshInv'
    BY <1>a, <1>b DEF CloneIntoHandle
  <1>c. ASSUME NEW p \in Pipelines, NEW t \in Sides, Held(p, t), ~Clean(p, t)', UNCHANGED <<lease, side>>,
               MayLeaveLeftovers(lease[p][t]),
               \A q \in Pipelines : pc'[q] = pc[q] \/ (q = p /\ pc'[q] \in {"discard", "releaseUpstream", "releaseTarget"}),
               pc[p] \in {"fetch", "work"}
        PROVE  FreshInv'
    <2>1. \A q \in Pipelines, s \in Sides : Clean(q, s)' => Clean(q, s) /\ <<q, s>> # <<p, t>>
      BY <1>0, <1>c DEF Clean, Given, Getting, TypeOK
    <2>2. \A h \in Handles : h # lease[p][t] => handle'[h].dirty = handle[h].dirty
      BY <1>0, <1>c DEF MayLeaveLeftovers, TypeOK
    <2>3. \A q \in Pipelines, s \in Sides : Clean(q, s) /\ <<q, s>> # <<p, t>> =>
              lease[q][s] \in Handles /\ lease[q][s] # lease[p][t]
      BY <1>h, <1>c, HeldApart
    <2> QED
      BY <1>c, <2>1, <2>2, <2>3, KeptClean
  <1>d. ASSUME NEW p \in Pipelines, pc[p] = "fetch", FailClone(p),
               MayLeaveLeftovers(Leased(p)) PROVE FreshInv'
    <2>1. PICK t \in Sides : t = side[p]
      BY <1>0 DEF TypeOK
    <2>2. /\ Held(p, t) /\ Leased(p) = lease[p][t] /\ UNCHANGED <<lease, side>>
          /\ \A q \in Pipelines : pc'[q] = pc[q] \/ (q = p /\ pc'[q] = "discard")
          /\ pc'[p] = "discard"
      BY <1>0, <1>d, <2>1 DEF Held, Leased, FailClone, TypeOK
    <2>3. ~Clean(p, t)'
      BY <2>1, <2>2 DEF Clean, Given, Getting
    <2> QED
      BY <1>c, <1>d, <2>2, <2>3
  <1>e. ASSUME NEW p \in Pipelines, NEW hs, Collect(hs),
               \A h \in Handles : hs[h].dirty = handle[h].dirty,
               \A q \in Pipelines, s \in Sides : Clean(q, s)' => Clean(q, s) /\ lease'[q][s] = lease[q][s]
        PROVE  FreshInv'
    <2>1. ASSUME NEW q \in Pipelines, NEW s \in Sides, Clean(q, s)'
          PROVE  Clean(q, s) /\ lease'[q][s] = lease[q][s]
                 /\ handle'[lease[q][s]].dirty = handle[lease[q][s]].dirty
      <3>1. lease[q][s] \in Handles /\ lease'[q][s] = lease[q][s]
        BY <1>e, <1>h, <2>1
      <3>2. handle'[lease[q][s]] = hs[lease[q][s]]
        BY <1>e, <3>1, CollectFacts
      <3> QED
        BY <1>e, <2>1, <3>1, <3>2
    <2> QED
      BY <2>1, KeptClean
  <1>f. ASSUME NEW h PROVE \A g \in Handles : Unlocked(h)[g].dirty = handle[g].dirty
    BY <1>0, UnlockedFacts
  <1>11. ASSUME NEW p \in Pipelines, Start(p) PROVE FreshInv'
    BY <1>0, <1>11, KeptClean DEF Start, Clean, Given, Getting, TypeOK
  <1>12. ASSUME NEW p \in Pipelines, LoadOrStoreHandle(p) PROVE FreshInv'
    <2>1. PICK h \in Handles : lease' = [lease EXCEPT ![p][side[p]] = h]
      BY <1>12, LoadFacts
    <2>2. \A q \in Pipelines, s \in Sides : Clean(q, s)' => Clean(q, s) /\ lease'[q][s] = lease[q][s]
      BY <1>0, <1>12, <2>1 DEF LoadOrStoreHandle, Clean, Given, Getting, TypeOK
    <2> QED
      BY <1>e, <1>12, <2>2 DEF LoadOrStoreHandle
  <1>13. ASSUME NEW p \in Pipelines, Lock(p) PROVE FreshInv'
    <2>1. \A h \in Handles : handle'[h].dirty = handle[h].dirty
      BY <1>0, <1>13 DEF Lock, Handle, TypeOK
    <2>2. \A q \in Pipelines, s \in Sides : Clean(q, s)' => Clean(q, s) /\ lease'[q][s] = lease[q][s]
      BY <1>0, <1>13 DEF Lock, Clean, Given, Getting, TypeOK
    <2> QED
      BY <1>h, <2>1, <2>2, KeptClean
  <1>14. ASSUME NEW p \in Pipelines, CloneMiss(p) PROVE FreshInv'
    BY <1>b, <1>d, <1>14 DEF CloneMiss, MayLeaveLeftovers
  <1>15. ASSUME NEW p \in Pipelines, Refresh(p) PROVE FreshInv'
    <2>1. Leased(p) \in Handles
      BY <1>0, <1>15 DEF Refresh, LockInv, Leased, TypeOK, Held
    <2>2. handle' = [handle EXCEPT ![Leased(p)] = Handle(handle[Leased(p)].repo, @.mu, FALSE)]
      BY <1>0, <1>15, <2>1 DEF Refresh, TypeOK
    <2>3. pc[p] = "fetch" /\ Acquired(p, handle[Leased(p)].repo) /\ UNCHANGED lease
      BY <1>15 DEF Refresh
    <2> QED
      BY <1>a, <2>2, <2>3
  <1>16. ASSUME NEW p \in Pipelines, RefreshFails(p) PROVE FreshInv'
    BY <1>b, <1>d, <1>16 DEF RefreshFails
  <1>17. ASSUME NEW p \in Pipelines PROVE ~CloneUncached(p)
    BY DEF CloneUncached
  <1>18. ASSUME NEW p \in Pipelines, Discard(p) PROVE FreshInv'
    <2>1. \A q \in Pipelines, s \in Sides : Clean(q, s)' => Clean(q, s) /\ lease'[q][s] = lease[q][s]
      BY <1>0, <1>18 DEF Discard, Clean, Given, Getting, TypeOK
    <2> QED
      BY <1>e, <1>18, <2>1 DEF Discard
  <1>19. ASSUME NEW p \in Pipelines, UnlockDiscarded(p) PROVE FreshInv'
    <2>1. \A q \in Pipelines, s \in Sides : Clean(q, s)' => Clean(q, s) /\ lease'[q][s] = lease[q][s]
      BY <1>0, <1>19 DEF UnlockDiscarded, ReturnOr, Clean, Given, Getting, TypeOK
    <2> QED
      BY <1>e, <1>f, <1>19, <2>1 DEF UnlockDiscarded
  <1>20. ASSUME NEW p \in Pipelines, Work(p) PROVE FreshInv'
    <2>1. /\ pc[p] = "work" /\ UNCHANGED <<lease, side>> /\ MayLeaveLeftovers(lease[p]["target"])
          /\ pc'[p] \in {"releaseUpstream", "releaseTarget"}
          /\ \A q \in Pipelines : q # p => pc'[q] = pc[q]
      BY <1>0, <1>20 DEF Work, TypeOK
    <2>2. Held(p, "target") /\ ~Clean(p, "target")'
      BY <2>1 DEF Held, Clean
    <2> QED
      BY <1>c, <2>1, <2>2
  <1>21. ASSUME NEW p \in Pipelines, ReleaseUpstream(p) PROVE FreshInv'
    <2>1. \A q \in Pipelines, s \in Sides : Clean(q, s)' => Clean(q, s) /\ lease'[q][s] = lease[q][s]
      BY <1>0, <1>21 DEF ReleaseUpstream, Release, ReturnOr, Clean, Given, Getting, TypeOK
    <2> QED
      BY <1>e, <1>f, <1>21, <2>1 DEF ReleaseUpstream, Release
  <1>22. ASSUME NEW p \in Pipelines, ReleaseTarget(p) PROVE FreshInv'
    <2>1. \A q \in Pipelines, s \in Sides : Clean(q, s)' => Clean(q, s) /\ lease'[q][s] = lease[q][s]
      BY <1>0, <1>22 DEF ReleaseTarget, Release, ReturnOr, Clean, Given, Getting, TypeOK
    <2> QED
      BY <1>e, <1>f, <1>22, <2>1 DEF ReleaseTarget, Release
  <1>23. CASE UNCHANGED vars
    BY <1>23 DEF vars, FreshInv, Given
  <1> QED
    BY <1>11, <1>12, <1>13, <1>14, <1>15, <1>16, <1>17, <1>18, <1>19, <1>20, <1>21, <1>22, <1>23
       DEF Next, Proceed

\* A handle that is still referred to never loses its repository.
LEMMA RepositoryStays ==
    ASSUME IInv, IInv', CacheEnabled, [Next]_vars, NEW h \in Handles, Referenced(h)',
           handle'[h].repo = NoRepository
    PROVE  handle[h].repo = NoRepository
  <1>0. TypeOK
    BY DEF IInv
  <1>1. ASSUME Collect(handle) \/ \E g : Collect(Unlocked(g)) PROVE handle[h].repo = NoRepository
    BY <1>0, <1>1, UnlockedFacts DEF Collect
  <1>2. ASSUME NEW p \in Pipelines, CloneIntoHandle(p) PROVE handle[h].repo = NoRepository
    <2>1. FreshRepository # NoRepository
      BY <1>2, FreshFacts DEF CloneIntoHandle
    <2> QED
      BY <1>0, <1>2, <2>1 DEF CloneIntoHandle, Handle, TypeOK
  <1>3. ASSUME NEW g, MayLeaveLeftovers(g) PROVE handle[h].repo = NoRepository
    BY <1>0, <1>3 DEF MayLeaveLeftovers, Handle, TypeOK
  <1>4. ASSUME UNCHANGED handle PROVE handle[h].repo = NoRepository
    BY <1>4
  <1>5. ASSUME NEW p \in Pipelines, Lock(p) \/ Refresh(p) PROVE handle[h].repo = NoRepository
    BY <1>0, <1>5 DEF Lock, Refresh, Handle, TypeOK
  <1>6. ASSUME NEW p \in Pipelines, NEW s \in Sides, Release(p, s) PROVE handle[h].repo = NoRepository
    BY <1>1, <1>6 DEF Release
  <1>7. ASSUME NEW p \in Pipelines, Start(p) \/ LoadOrStoreHandle(p) \/ CloneMiss(p) \/ RefreshFails(p)
                                    \/ CloneUncached(p) \/ Discard(p) \/ UnlockDiscarded(p) \/ Work(p)
        PROVE  handle[h].repo = NoRepository
    BY <1>1, <1>2, <1>3, <1>4, <1>7
       DEF Start, LoadOrStoreHandle, CloneMiss, RefreshFails, CloneUncached, Discard, UnlockDiscarded, Work
  <1> QED
    BY <1>4, <1>5, <1>6, <1>7 DEF Next, Proceed, vars, ReleaseUpstream, ReleaseTarget

\* A lease that is given up is on a populated handle, or on one that its
\* discard removed from the cache.
LEMMA GivenUp ==
    ASSUME KInv, CacheEnabled, [Next]_vars, NEW p \in Pipelines, NEW s \in Sides,
           lease[p][s] # NoHandle, lease'[p][s] # lease[p][s],
           handle[lease[p][s]].repo = NoRepository
    PROVE  \A k \in DOMAIN entries : entries[k].value # lease[p][s]
  <1>0. TypeOK /\ ProgressInv /\ CachedRepoInv /\ LeaseInv /\ AbandonInv
    BY DEF KInv, IInv
  <1>1. ASSUME NEW q \in Pipelines, LoadOrStoreHandle(q) PROVE FALSE
    <2>1. PICK h \in Handles : lease' = [lease EXCEPT ![q][side[q]] = h]
      BY <1>1, LoadFacts DEF KInv
    <2>2. q = p /\ s = side[p]
      BY <1>0, <2>1 DEF TypeOK
    <2>3. ~Asked(p, s)
      BY <1>1, <2>2 DEF LoadOrStoreHandle, Asked, Getting
    <2> QED
      BY <1>0, <2>3 DEF LeaseInv
  <1>2. ASSUME NEW q \in Pipelines, NEW t \in Sides, Release(q, t), Given(q, t) PROVE FALSE
    <2>1. q = p /\ t = s
      BY <1>0, <1>2 DEF Release, TypeOK
    <2> QED
      BY <1>0, <1>2, <2>1 DEF CachedRepoInv, LeaseInv
  <1>3. ASSUME NEW q \in Pipelines, ReleaseUpstream(q) \/ ReleaseTarget(q) PROVE FALSE
    <2>1. \/ Release(q, "upstream") /\ Given(q, "upstream")
          \/ Release(q, "target") /\ Given(q, "target")
      BY <1>0, <1>3 DEF ReleaseUpstream, ReleaseTarget, Given, ProgressInv
    <2> QED
      BY <1>2, <2>1
  <1>4. ASSUME NEW q \in Pipelines, UnlockDiscarded(q)
        PROVE  \A k \in DOMAIN entries : entries[k].value # lease[p][s]
    <2>1. q = p /\ s = side[p] /\ pc[p] = "unlock"
      BY <1>0, <1>4 DEF UnlockDiscarded, TypeOK
    <2> QED
      BY <1>0, <2>1 DEF AbandonInv, Leased
  <1>5. ASSUME NEW q \in Pipelines,
               Start(q) \/ Lock(q) \/ CloneMiss(q) \/ Refresh(q) \/ RefreshFails(q)
                  \/ CloneUncached(q) \/ Discard(q) \/ Work(q)
        PROVE  FALSE
    BY <1>5 DEF Start, Lock, CloneMiss, Refresh, RefreshFails, CloneIntoHandle, FailClone,
                CloneUncached, Discard, Work
  <1> QED
    BY <1>1, <1>3, <1>4, <1>5 DEF Next, Proceed, vars

\* A pipeline about to unlock a discarded handle was there before, or has
\* just removed the entry of its key.
LEMMA AtUnlock ==
    ASSUME IInv, IInv', CacheEnabled, [Next]_vars, NEW p \in Pipelines, pc'[p] = "unlock"
    PROVE  /\ Leased(p)' = Leased(p)
           /\ pc[p] = "unlock" \/ Discard(p)
  <1>0. TypeOK
    BY DEF IInv
  <1> USE DEF TypeOK, Leased
  <1>1. ASSUME NEW q \in Pipelines, LoadOrStoreHandle(q) PROVE pc[p] = "unlock" /\ Leased(p)' = Leased(p)
    <2>1. PICK h \in Handles : lease' = [lease EXCEPT ![q][side[q]] = h]
      BY <1>1, LoadFacts
    <2> QED
      BY <1>0, <1>1, <2>1 DEF LoadOrStoreHandle
  <1>2. ASSUME NEW q \in Pipelines, NEW r, Acquired(q, r), UNCHANGED lease
        PROVE  pc[p] = "unlock" /\ Leased(p)' = Leased(p)
    BY <1>0, <1>2 DEF Acquired
  <1>3. ASSUME NEW q \in Pipelines, CloneIntoHandle(q) \/ FailClone(q)
        PROVE  pc[p] = "unlock" /\ Leased(p)' = Leased(p)
    BY <1>0, <1>2, <1>3 DEF CloneIntoHandle, FailClone
  <1>4. ASSUME NEW q \in Pipelines, CloneMiss(q) \/ Refresh(q) \/ RefreshFails(q)
        PROVE  pc[p] = "unlock" /\ Leased(p)' = Leased(p)
    BY <1>2, <1>3, <1>4 DEF CloneMiss, Refresh, RefreshFails
  <1>5. ASSUME NEW q \in Pipelines, Start(q) \/ Lock(q) \/ Work(q)
        PROVE  pc[p] = "unlock" /\ Leased(p)' = Leased(p)
    BY <1>0, <1>5 DEF Start, Lock, Work
  <1>6. ASSUME NEW q \in Pipelines, UnlockDiscarded(q) \/ ReleaseUpstream(q) \/ ReleaseTarget(q)
        PROVE  pc[p] = "unlock" /\ Leased(p)' = Leased(p)
    BY <1>0, <1>6 DEF UnlockDiscarded, ReleaseUpstream, ReleaseTarget, Release, ReturnOr
  <1>7. ASSUME NEW q \in Pipelines, Discard(q)
        PROVE  (pc[p] = "unlock" \/ Discard(p)) /\ Leased(p)' = Leased(p)
    BY <1>0, <1>7 DEF Discard
  <1>8. ASSUME NEW q \in Pipelines PROVE ~CloneUncached(q)
    BY DEF CloneUncached
  <1>9. ASSUME UNCHANGED vars PROVE pc[p] = "unlock" /\ Leased(p)' = Leased(p)
    BY <1>9 DEF vars
  <1> HIDE DEF TypeOK, Leased
  <1> QED
    BY <1>1, <1>4, <1>5, <1>6, <1>7, <1>8, <1>9 DEF Next, Proceed

\* Every step keeps unpopulated handles leased or out of the cache.
LEMMA AbandonStep ==
    ASSUME KInv, IInv', CacheEnabled, [Next]_vars PROVE AbandonInv'
  <1>0. IInv /\ TypeOK /\ TypeOK' /\ LeaseInv /\ KeyInv /\ AbandonInv
    BY DEF KInv, IInv
  <1>1. ASSUME NEW k \in DOMAIN entries' PROVE entries'[k].value \in Handles
    BY <1>0, EntryMapElim DEF TypeOK, Entry
  <1>5. ASSUME NEW h \in Handles, NEW k \in DOMAIN entries', entries'[k].value = h,
               handle'[h].repo = NoRepository
        PROVE  handle[h].repo = NoRepository
    <2>1. Referenced(h)'
      BY <1>5 DEF Referenced
    <2> QED
      BY <1>0, <1>5, <2>1, RepositoryStays
  <1>2. \/ \E p \in Pipelines : LoadOrStoreHandle(p)
        \/ DOMAIN entries' \subseteq DOMAIN entries /\ \A k \in DOMAIN entries' : entries'[k].value = entries[k].value
    BY <1>0, ShrinkStep DEF Shrinks
  <1>3. ASSUME NEW k \in DOMAIN entries', handle'[entries'[k].value].repo = NoRepository
        PROVE  \E p \in Pipelines, s \in Sides : lease'[p][s] = entries'[k].value
    <2>1. PICK h \in Handles : h = entries'[k].value
      BY <1>1
    <2>2. handle[h].repo = NoRepository
      BY <1>3, <1>5, <2>1
    <2>3. ASSUME k \in DOMAIN entries, entries[k].value = h
          PROVE  \E p \in Pipelines, s \in Sides : lease'[p][s] = h
      <3>1. PICK p \in Pipelines, s \in Sides : lease[p][s] = h
        BY <1>0, <2>2, <2>3 DEF AbandonInv, NoAbandonedHandle
      <3>2. lease'[p][s] = h
        BY <2>2, <2>3, <3>1, GivenUp
      <3> QED
        BY <3>2
    <2>4. ASSUME NEW p \in Pipelines, LoadOrStoreHandle(p)
          PROVE  \E q \in Pipelines, s \in Sides : lease'[q][s] = h
      <3>1. PICK g \in Handles :
                /\ lease' = [lease EXCEPT ![p][side[p]] = g]
                /\ Key(p) \in DOMAIN entries' /\ entries'[Key(p)].value = g
                /\ \A l \in DOMAIN entries' : l # Key(p) =>
                      l \in DOMAIN entries /\ entries'[l].value = entries[l].value
        BY <1>0, <2>4, LoadLease
      <3>2. side[p] \in Sides /\ lease'[p][side[p]] = g
        BY <1>0, <3>1 DEF TypeOK
      <3> QED
        BY <2>1, <2>3, <3>1, <3>2
    <2> QED
      BY <1>2, <2>1, <2>3, <2>4
  <1>4. ASSUME NEW p \in Pipelines, pc'[p] = "unlock", (handle[Leased(p)].repo)' = NoRepository,
               NEW k \in DOMAIN entries', entries'[k].value = Leased(p)'
        PROVE  FALSE
    <2>1. Leased(p)' = Leased(p) /\ (pc[p] = "unlock" \/ Discard(p))
      BY <1>0, <1>4, AtUnlock
    <2>2. Leased(p) \in Handles /\ lease[p][side[p]] = Leased(p) /\ Asked(p, side[p])
          /\ side[p] \in Sides
      BY <1>0, <2>1 DEF Discard, LeaseInv, Asked, Getting, Leased, TypeOK
    <2>3. handle[Leased(p)].repo = NoRepository
      BY <1>4, <1>5, <2>1, <2>2
    <2>4. CASE Discard(p)
      <3>1. k \in DOMAIN entries /\ k # Key(p) /\ entries[k].value = Leased(p)
        BY <1>4, <2>1, <2>3, <2>4 DEF Discard, Without, Keep
      <3>2. k = KeyOf(p, side[p])
        BY <1>0, <2>2, <3>1 DEF KeyInv
      <3> QED
        BY <3>1, <3>2 DEF KeyOf, Key
    <2>5. CASE pc[p] = "unlock"
      <3>1. \A l \in DOMAIN entries : entries[l].value # Leased(p)
        BY <1>0, <2>3, <2>5 DEF AbandonInv
      <3>2. ASSUME NEW q \in Pipelines, LoadOrStoreHandle(q) PROVE FALSE
        <4>1. PICK h \in Handles :
                  /\ Key(q) \in DOMAIN entries' /\ entries'[Key(q)].value = h
                  /\ \A l \in DOMAIN entries' : l # Key(q) =>
                        l \in DOMAIN entries /\ entries'[l].value = entries[l].value
                  /\ \/ Key(q) \in DOMAIN entries /\ entries[Key(q)].value = h
                     \/ ~Referenced(h)
          BY <1>0, <3>2, LoadLease
        <4>2. Referenced(Leased(p))
          BY <2>2 DEF Referenced
        <4> QED
          BY <1>4, <2>1, <3>1, <4>1, <4>2
      <3> QED
        BY <1>2, <1>4, <2>1, <3>1, <3>2
    <2> QED
      BY <2>1, <2>4, <2>5
  <1> QED
    BY <1>3, <1>4 DEF AbandonInv, NoAbandonedHandle

\* The second invariant is inductive.
LEMMA NextKInv == KInv /\ [Next]_vars => KInv'
  <1> SUFFICES ASSUME KInv, [Next]_vars PROVE KInv'
    OBVIOUS
  <1>1. IInv /\ IInv' /\ (CacheEnabled' <=> CacheEnabled)
    BY NextIInv DEF KInv, CacheEnabled, Next, vars
  <1>2. CASE CacheEnabled
    BY <1>1, <1>2, LeaseStep, KeyStep, FreshStep, AbandonStep DEF KInv
  <1>3. CASE ~CacheEnabled
    <2>1. ASSUME NEW p \in Pipelines
          PROVE  ~LoadOrStoreHandle(p) /\ ~CloneMiss(p) /\ ~Refresh(p) /\ ~RefreshFails(p) /\ ~Discard(p)
      BY <1>1, <1>3 DEF IInv, UncachedInv, LoadOrStoreHandle, CloneMiss, Refresh, RefreshFails, Discard
    <2>2. UNCHANGED entries
      BY <2>1 DEF Next, Proceed, vars, Start, Lock, CloneUncached, UnlockDiscarded, Work,
                  ReleaseUpstream, ReleaseTarget, Release
    <2> QED
      BY <1>1, <1>3, <2>2 DEF KInv
  <1> QED
    BY <1>2, <1>3

\* Work is done on what getRepository returned, and without a cache no
\* handle is ever used.
LEMMA KInvFresh == KInv => FreshWhenWorking
  <1> SUFFICES ASSUME KInv, NEW p \in Pipelines, NEW s \in Sides, pc[p] = "work", lease[p][s] # NoHandle
               PROVE  ~handle[lease[p][s]].dirty
    BY DEF FreshWhenWorking
  <1>0. TypeOK
    BY DEF KInv, IInv
  <1>1. CASE CacheEnabled
    <2>1. Asked(p, s)
      BY <1>1 DEF KInv, LeaseInv
    <2>2. Given(p, s)
      BY <2>1 DEF Asked, Given, Getting
    <2> QED
      BY <1>1, <2>2 DEF KInv, FreshInv
  <1>2. CASE ~CacheEnabled
    <2>1. handle[lease[p][s]] = NewHandle
      BY <1>0, <1>2 DEF KInv, IInv, UncachedInv, TypeOK
    <2> QED
      BY <2>1 DEF NewHandle, Handle
  <1> QED
    BY <1>1, <1>2

\* The repositories that are locked together, upstream and target, of the
\* RemoteTargets that need their upstream.
LockedAfter ==
    {<<UpstreamKey(t), TargetKey(t)>> : t \in {u \in RemoteTargets : NeedsUpstream(u)}}

\* Following upstreams never leads back: no two RemoteTargets are each
\* other's upstream, and there is no longer circle either.
AcyclicUpstreams == IsWellFoundedOn(LockedAfter, Keys)

\* A pipeline that waits while it holds a handle holds its target's and
\* waits for its upstream's.
LEMMA WaitingHolder ==
    ASSUME KInv, CacheEnabled, NEW p \in Pipelines, NEW q \in Pipelines,
           WaitsFor(p, q), pc[q] = "lock"
    PROVE  /\ side[q] = "upstream" /\ NeedsUpstream(remoteTarget[q])
           /\ remoteTarget[q] \in RemoteTargets
           /\ KeyOf(p, side[p]) = TargetKey(remoteTarget[q])
  <1>0. TypeOK /\ ProgressInv /\ LockInv /\ WaitInv /\ LeaseInv /\ KeyInv
    BY DEF KInv, IInv
  <1>1. Leased(p) \in Handles /\ handle[Leased(p)].mu = q /\ side[p] \in Sides /\ Asked(p, side[p])
        /\ lease[p][side[p]] = Leased(p)
    BY <1>0 DEF WaitsFor, WaitInv, Leased, Asked, Getting, TypeOK
  <1>2. PICK s \in Sides : Held(q, s) /\ lease[q][s] = Leased(p)
    BY <1>0, <1>1 DEF LockInv
  <1>3. s = "target" /\ side[q] = "upstream" /\ Asked(q, s)
    BY <1>2 DEF Held, Getting, Asked
  <1>4. KeyOf(p, side[p]) = KeyOf(q, s)
    BY <1>0, <1>1, <1>2, <1>3 DEF KeyInv
  <1> QED
    BY <1>0, <1>3, <1>4 DEF KeyOf, ProgressInv

\* Of pipelines that wait in a circle, the one that asks for the least key
\* waits for one that asks for a lesser key still.
LEMMA KInvNoCircle ==
    ASSUME AcyclicUpstreams PROVE KInv => NoCircularWait
  <1> SUFFICES ASSUME KInv, NEW S \in SUBSET Pipelines, S # {},
                      \A p \in S : \E q \in S : WaitsFor(p, q)
               PROVE  FALSE
    BY DEF NoCircularWait
  <1> DEFINE asked == {KeyOf(p, side[p]) : p \in S}
  <1>1. \A p \in S : pc[p] = "lock"
    BY DEF WaitsFor
  <1>2. CacheEnabled
    BY <1>1 DEF KInv, IInv, UncachedInv
  <1>3. ASSUME NEW p \in S, NEW q \in S, WaitsFor(p, q)
        PROVE  /\ KeyOf(q, side[q]) \in Keys
               /\ <<KeyOf(q, side[q]), KeyOf(p, side[p])>> \in LockedAfter
    <2>1. /\ side[q] = "upstream" /\ NeedsUpstream(remoteTarget[q])
          /\ remoteTarget[q] \in RemoteTargets
          /\ KeyOf(p, side[p]) = TargetKey(remoteTarget[q])
      BY <1>1, <1>2, <1>3, WaitingHolder
    <2>2. KeyOf(q, side[q]) = UpstreamKey(remoteTarget[q])
      BY <2>1 DEF KeyOf
    <2> QED
      BY <2>1, <2>2 DEF LockedAfter, Keys
  <1>4. asked \cap Keys # {}
    <2>1. PICK p \in S, q \in S : WaitsFor(p, q)
      OBVIOUS
    <2>2. KeyOf(q, side[q]) \in asked \cap Keys
      BY <1>3, <2>1
    <2> QED
      BY <2>2
  <1>5. PICK x \in asked \cap Keys : \A y \in asked \cap Keys : <<y, x>> \notin LockedAfter
    <2> DEFINE T == asked \cap Keys
    <2>1. T \subseteq Keys /\ T # {}
      BY <1>4
    <2> HIDE DEF T
    <2>2. \E x \in T : \A y \in T : ~(<<y, x>> \in LockedAfter)
      BY <2>1, WFMin DEF AcyclicUpstreams
    <2> QED
      BY <2>2 DEF T
  <1>6. PICK p \in S : x = KeyOf(p, side[p])
    BY <1>5
  <1>7. PICK q \in S : WaitsFor(p, q)
    OBVIOUS
  <1> QED
    BY <1>3, <1>5, <1>6, <1>7

(* Whatever an earlier lease or a refresh that failed half way left in a   *)
(* cached repository is gone before a pipeline works on it                 *)
(* (getRepository, refreshRepository).                                     *)
THEOREM LeasedIsFresh == Spec => []FreshWhenWorking
  BY InitKInv, NextKInv, KInvFresh, PTL DEF Spec

(* A handle whose clone failed is never left in the cache: discard finds   *)
(* it under its key or it is gone already (cache.go, discard).             *)
THEOREM FailedClonesLeave == Spec => []NoAbandonedHandle
  <1>1. KInv => NoAbandonedHandle
    BY DEF KInv, AbandonInv, NoAbandonedHandle
  <1> QED
    BY <1>1, InitKInv, NextKInv, PTL DEF Spec

(* Pipelines never wait for each other in a circle, however many there     *)
(* are, as long as the upstreams of the RemoteTargets form no circle: only *)
(* the target's handle is held while the upstream's is asked for           *)
(* (RunGitPipeline).  With a circle of upstreams they can deadlock.        *)
THEOREM NoDeadlockUnlessCircular ==
    ASSUME AcyclicUpstreams PROVE Spec => []NoCircularWait
  BY InitKInv, NextKInv, KInvNoCircle, PTL DEF Spec
=============================================================================
