------------------------------ MODULE RepoLease ------------------------------
(***************************************************************************)
(* The repository cache of internal/pusher and the way one git pipeline    *)
(* holds the repositories it works on: acquire/release/discard (cache.go), *)
(* getRepository (repository.go) and RunGitPipeline (pipeline.go).         *)
(*                                                                         *)
(* Admission requests run concurrently, each in its own goroutine, so a    *)
(* pipeline is a process.  Its steps are the points where another one can  *)
(* observe it: the calls into the LFU cache, the lock and unlock of a      *)
(* handle, and the git operations done while the handle is locked.         *)
(*                                                                         *)
(* Git itself is outside: a clone or a refresh succeeds or fails.  Of a    *)
(* go-git repository only its identity and whether it carries leftovers of *)
(* a pipeline (commits, files, branches, the upstream remote) are kept.    *)
(***************************************************************************)
EXTENDS LFU

CONSTANTS Pipelines,
          RemoteTargets,    \* the RemoteTarget specs requests are run for
          Capacities,       \* the capacities InitRepoCache may be given
          Handles,          \* identities of repoHandle objects
          Repositories,     \* identities of in-memory go-git repositories
          Nobody, NoHandle, NoRepository, NoTarget

Sides == {"target", "upstream"}

ASSUME CapacitiesAssumption == Capacities \subseteq Int
ASSUME NothingAssumption ==
    /\ Nobody \notin Pipelines
    /\ NoHandle \notin Handles
    /\ NoRepository \notin Repositories
    /\ NoTarget \notin RemoteTargets

(* A RemoteTarget names two repositories and the upstream branch both are  *)
(* cloned on; merges says whether its MergeStrategy is set.                *)
cacheKey(repository, branch) == <<repository, branch>>

TargetKey(t) == cacheKey(t.targetRepository, t.upstreamBranch)

UpstreamKey(t) == cacheKey(t.upstreamRepository, t.upstreamBranch)

\* Mutant of NeedsUpstream: the upstream is leased even if it is the target.
AlwaysWhenMerging(t) == t.merges

NeedsUpstream(t) == t.merges /\ t.upstreamRepository # t.targetRepository

Keys == {TargetKey(t) : t \in RemoteTargets} \cup {UpstreamKey(t) : t \in RemoteTargets}

VARIABLES maxRepos,     \* the capacity, set once by InitRepoCache
          entries,      \* repoCache: entry map from keys to handles
          handle,       \* handle[h]: [repo, mu, dirty]; dirty says that the
                        \* repository carries leftovers of a pipeline
          pc,           \* what each pipeline does next
          remoteTarget, \* the RemoteTarget its request is pushed to
          side,         \* which of its two repositories it is getting
          lease,        \* lease[p][s]: the handle it asked for
          repo          \* repo[p][s]: the repository getRepository returned

pipelineVars == <<entries, handle, pc, remoteTarget, side, lease, repo>>

vars == <<maxRepos, entries, handle, pc, remoteTarget, side, lease, repo>>

CacheEnabled == maxRepos > 0

Key(p) == IF side[p] = "target" THEN TargetKey(remoteTarget[p])
                                ELSE UpstreamKey(remoteTarget[p])

Leased(p) == lease[p][side[p]]

(* Go's memory: a handle nothing refers to any more is collected, and a    *)
(* new object is one nothing refers to; which one does not matter.         *)
Handle(r, m, d) == [repo |-> r, mu |-> m, dirty |-> d]

NewHandle == Handle(NoRepository, Nobody, FALSE)

Referenced(h) ==
    \/ \E k \in DOMAIN entries : entries[k].value = h
    \/ \E p \in Pipelines, s \in Sides : lease[p][s] = h

Collect(hs) == handle' = [h \in Handles |-> IF Referenced(h)' THEN hs[h] ELSE NewHandle]

\* Mutant of IsFreshRepository: pipelines clone into shared storage.
AnyRepository(r) == TRUE

IsFreshRepository(r) ==
    /\ \A h \in Handles : handle[h].repo # r
    /\ \A p \in Pipelines, s \in Sides : repo[p][s] # r

MemoryLeft ==
    /\ \E h \in Handles : ~Referenced(h)
    /\ \E r \in Repositories : IsFreshRepository(r)

FreshHandle == CHOOSE h \in Handles : ~Referenced(h)

FreshRepository == CHOOSE r \in Repositories : IsFreshRepository(r)

Init ==
    /\ maxRepos \in Capacities
    /\ entries = NoEntries
    /\ handle = [h \in Handles |-> NewHandle]
    /\ pc = [p \in Pipelines |-> "idle"]
    /\ remoteTarget = [p \in Pipelines |-> NoTarget]
    /\ side = [p \in Pipelines |-> "target"]
    /\ lease = [p \in Pipelines |-> [s \in Sides |-> NoHandle]]
    /\ repo = [p \in Pipelines |-> [s \in Sides |-> NoRepository]]

---------------------------------------------------------------------------
(* A request reaches RunGitPipeline, which gets the target repository.     *)
Start(p) ==
    /\ pc[p] = "idle"
    /\ \E t \in RemoteTargets : remoteTarget' = [remoteTarget EXCEPT ![p] = t]
    /\ side' = [side EXCEPT ![p] = "target"]
    /\ pc' = [pc EXCEPT ![p] = "load"]
    /\ UNCHANGED <<entries, handle, lease, repo>>

(* acquire, first half: the handle of the key, a new one on a miss.        *)
LoadOrStoreHandle(p) ==
    /\ pc[p] = "load" /\ CacheEnabled
    /\ \/ /\ Key(p) \in DOMAIN entries
          /\ entries' = touchLocked(entries, Key(p))
          /\ lease' = [lease EXCEPT ![p][side[p]] = entries[Key(p)].value]
       \/ /\ Key(p) \notin DOMAIN entries
          /\ MemoryLeft
          /\ entries' \in Insertions(entries, Key(p), FreshHandle, maxRepos)
          /\ lease' = [lease EXCEPT ![p][side[p]] = FreshHandle]
    /\ Collect(handle)
    /\ pc' = [pc EXCEPT ![p] = "lock"]
    /\ UNCHANGED <<remoteTarget, side, repo>>

\* Mutant of Lock: the handle is used without waiting for its mutex.
LockWithoutWaiting(p) ==
    /\ pc[p] = "lock"
    /\ handle' = [handle EXCEPT ![Leased(p)] = Handle(@.repo, p, @.dirty)]
    /\ pc' = [pc EXCEPT ![p] = "fetch"]
    /\ UNCHANGED <<entries, remoteTarget, side, lease, repo>>

(* acquire, second half: handle.mu.Lock().                                 *)
Lock(p) ==
    /\ pc[p] = "lock"
    /\ handle[Leased(p)].mu = Nobody
    /\ handle' = [handle EXCEPT ![Leased(p)] = Handle(@.repo, p, @.dirty)]
    /\ pc' = [pc EXCEPT ![p] = "fetch"]
    /\ UNCHANGED <<entries, remoteTarget, side, lease, repo>>

---------------------------------------------------------------------------
(* RunGitPipeline is over, or goes on with step next.                      *)
ReturnOr(p, returns, next) ==
    /\ pc' = [pc EXCEPT ![p] = IF returns THEN "idle" ELSE next]
    /\ remoteTarget' = [remoteTarget EXCEPT ![p] = IF returns THEN NoTarget ELSE @]

(* getRepository returned r: RunGitPipeline goes on with the upstream      *)
(* repository if it needs one, and then with its work.                     *)
Acquired(p, r) ==
    /\ repo' = [repo EXCEPT ![p][side[p]] = r]
    /\ IF side[p] = "target" /\ NeedsUpstream(remoteTarget[p])
       THEN /\ side' = [side EXCEPT ![p] = "upstream"]
            /\ pc' = [pc EXCEPT ![p] = "load"]
       ELSE /\ pc' = [pc EXCEPT ![p] = "work"]
            /\ UNCHANGED side
    /\ UNCHANGED remoteTarget

(* A successful clone: a new clean repository, stored in the handle.       *)
CloneIntoHandle(p) ==
    /\ MemoryLeft
    /\ handle' = [handle EXCEPT ![Leased(p)] = Handle(FreshRepository, @.mu, FALSE)]
    /\ Acquired(p, FreshRepository)
    /\ UNCHANGED <<entries, lease>>

FailClone(p) ==
    /\ pc' = [pc EXCEPT ![p] = "discard"]
    /\ UNCHANGED <<entries, remoteTarget, side, lease, repo>>

(* Cache miss: clone and store, or discard.                                *)
CloneMiss(p) ==
    /\ pc[p] = "fetch"
    /\ handle[Leased(p)].repo = NoRepository
    /\ \/ CloneIntoHandle(p)
       \/ FailClone(p) /\ UNCHANGED handle

\* Mutant of Refresh: the repository is reused as the last lease left it.
ReuseAsIs(p) ==
    /\ pc[p] = "fetch"
    /\ handle[Leased(p)].repo # NoRepository
    /\ Acquired(p, handle[Leased(p)].repo)
    /\ UNCHANGED <<entries, handle, lease>>

(* Cache hit: refreshRepository removes the leftovers of earlier leases.   *)
Refresh(p) ==
    /\ pc[p] = "fetch"
    /\ handle[Leased(p)].repo # NoRepository
    /\ handle' = [handle EXCEPT ![Leased(p)] = Handle(@.repo, @.mu, FALSE)]
    /\ Acquired(p, handle[Leased(p)].repo)
    /\ UNCHANGED <<entries, lease>>

MayLeaveLeftovers(h) ==
    \/ UNCHANGED handle
    \/ handle' = [handle EXCEPT ![h] = Handle(@.repo, @.mu, TRUE)]

(* Cache hit whose refresh fails half way: re-clone in place of the cached *)
(* repository, or discard and leave the half refreshed one in the handle.  *)
RefreshFails(p) ==
    /\ pc[p] = "fetch"
    /\ handle[Leased(p)].repo # NoRepository
    /\ \/ CloneIntoHandle(p)
       \/ /\ FailClone(p)
          /\ MayLeaveLeftovers(Leased(p))

(* Caching disabled: clone without a lease.                                *)
CloneUncached(p) ==
    /\ pc[p] = "load" /\ ~CacheEnabled
    /\ \/ /\ MemoryLeft
          /\ Acquired(p, FreshRepository)
          /\ UNCHANGED <<entries, handle, lease>>
       \/ /\ ReturnOr(p, side[p] = "target", "releaseTarget")
          /\ UNCHANGED <<entries, handle, side, lease, repo>>

\* Mutant of Discard: it only unlocks.
DiscardKeepsEntry(p) ==
    /\ pc[p] = "discard"
    /\ pc' = [pc EXCEPT ![p] = "unlock"]
    /\ UNCHANGED <<entries, handle, remoteTarget, side, lease, repo>>

(* discard, first half: a handle that was never populated leaves the cache *)
(* -- whatever handle is stored under the key by now.                      *)
Discard(p) ==
    /\ pc[p] = "discard"
    /\ entries' = IF handle[Leased(p)].repo = NoRepository
                  THEN Without(entries, Key(p)) ELSE entries
    /\ pc' = [pc EXCEPT ![p] = "unlock"]
    /\ UNCHANGED <<remoteTarget, side, lease, repo>>
    /\ Collect(handle)

Unlocked(h) == [handle EXCEPT ![h] = Handle(@.repo, Nobody, @.dirty)]

\* Mutant of UnlockDiscarded: the error path forgets the unlock.
DiscardKeepsLock(p) ==
    /\ pc[p] = "unlock"
    /\ lease' = [lease EXCEPT ![p][side[p]] = NoHandle]
    /\ ReturnOr(p, side[p] = "target", "releaseTarget")
    /\ UNCHANGED <<entries, side, repo>>
    /\ Collect(handle)

(* discard, second half: unlock; getRepository returns the error.  A lease *)
(* on the target is then released by the deferred call.                    *)
UnlockDiscarded(p) ==
    /\ pc[p] = "unlock"
    /\ lease' = [lease EXCEPT ![p][side[p]] = NoHandle]
    /\ ReturnOr(p, side[p] = "target", "releaseTarget")
    /\ UNCHANGED <<entries, side, repo>>
    /\ Collect(Unlocked(Leased(p)))

---------------------------------------------------------------------------
(* GetWorkTree, GenerateFinalWorktree, Commit and Push: they only touch    *)
(* the target repository, and whether they succeed or stop at an error     *)
(* they may leave commits, files, branches and remotes behind.             *)
Work(p) ==
    /\ pc[p] = "work"
    /\ IF CacheEnabled THEN MayLeaveLeftovers(lease[p]["target"]) ELSE UNCHANGED handle
    /\ pc' = [pc EXCEPT ![p] = IF NeedsUpstream(remoteTarget[p]) THEN "releaseUpstream"
                                                                 ELSE "releaseTarget"]
    /\ UNCHANGED <<entries, remoteTarget, side, lease, repo>>

(* The deferred release of one side, a no-op when caching is disabled.     *)
Release(p, s) ==
    /\ lease' = [lease EXCEPT ![p][s] = NoHandle]
    /\ repo' = [repo EXCEPT ![p][s] = NoRepository]
    /\ UNCHANGED <<entries, side>>
    /\ IF CacheEnabled THEN Collect(Unlocked(lease[p][s])) ELSE UNCHANGED handle

ReleaseUpstream(p) ==
    /\ pc[p] = "releaseUpstream"
    /\ Release(p, "upstream")
    /\ ReturnOr(p, FALSE, "releaseTarget")

ReleaseTarget(p) ==
    /\ pc[p] = "releaseTarget"
    /\ Release(p, "target")
    /\ ReturnOr(p, TRUE, "idle")

---------------------------------------------------------------------------
\* Everything a running pipeline does without waiting for another one.
Proceed(p) ==
    \/ LoadOrStoreHandle(p)
    \/ CloneMiss(p) \/ Refresh(p) \/ RefreshFails(p) \/ CloneUncached(p)
    \/ Discard(p) \/ UnlockDiscarded(p)
    \/ Work(p)
    \/ ReleaseUpstream(p) \/ ReleaseTarget(p)

Next ==
    /\ \E p \in Pipelines : Start(p) \/ Lock(p) \/ Proceed(p)
    /\ UNCHANGED maxRepos

Spec == Init /\ [][Next]_vars

(* Goroutines are scheduled and git calls return, with a result or an      *)
(* error; a Go mutex hands over to its longest waiter once it has waited   *)
(* for a millisecond, so a waiter is not overtaken forever.                *)
Fairness == \A p \in Pipelines : WF_pipelineVars(Proceed(p)) /\ SF_pipelineVars(Lock(p))

FairSpec == Spec /\ Fairness

---------------------------------------------------------------------------
Steps == {"idle", "load", "lock", "fetch", "discard", "unlock", "work",
          "releaseUpstream", "releaseTarget"}

TypeOK ==
    /\ maxRepos \in Capacities
    /\ entries \in EntryMaps(Keys, Handles)
    /\ handle \in [Handles -> [repo : Repositories \cup {NoRepository},
                               mu : Pipelines \cup {Nobody},
                               dirty : BOOLEAN]]
    /\ pc \in [Pipelines -> Steps]
    /\ remoteTarget \in [Pipelines -> RemoteTargets \cup {NoTarget}]
    /\ side \in [Pipelines -> Sides]
    /\ lease \in [Pipelines -> [Sides -> Handles \cup {NoHandle}]]
    /\ repo \in [Pipelines -> [Sides -> Repositories \cup {NoRepository}]]

\* The repositories p may be reading or writing right now: the ones it was
\* given, and the cached one it is refreshing.
Touched(p) ==
    ({repo[p][s] : s \in Sides}
        \cup (IF pc[p] = "fetch" THEN {handle[Leased(p)].repo} ELSE {})) \ {NoRepository}

(* cache.go:43, "never two callers touching the same go-git repository",   *)
(* through eviction, failed clones and re-clones.                          *)
ExclusiveRepositories ==
    \A p, q \in Pipelines : p # q => Touched(p) \cap Touched(q) = {}

(* A pipeline that returned, on whatever path, holds no handle: the next   *)
(* request for the key is not blocked forever (release, discard, defer).   *)
NoLeakedLock ==
    \A h \in Handles : handle[h].mu # Nobody =>
        \E s \in Sides : pc[handle[h].mu] # "idle" /\ lease[handle[h].mu][s] = h

(* repository.go:42, a leased repository is in "a fresh-clone-equivalent   *)
(* state before being reused": no work starts on what another pipeline,    *)
(* or a refresh that failed half way, left behind.                         *)
FreshWhenWorking ==
    \A p \in Pipelines, s \in Sides :
        pc[p] = "work" /\ lease[p][s] # NoHandle => ~handle[lease[p][s]].dirty

(* cache.go:61, a handle whose clone failed does not stay in the cache: a  *)
(* cached handle without a repository is one somebody is still cloning.    *)
NoAbandonedHandle ==
    \A k \in DOMAIN entries :
        handle[entries[k].value].repo = NoRepository =>
            \E p \in Pipelines, s \in Sides : lease[p][s] = entries[k].value

\* p waits for a handle that q holds.
WaitsFor(p, q) == pc[p] = "lock" /\ handle[Leased(p)].mu = q

(* pipeline.go:29, leases are taken so as to avoid "acquiring the same     *)
(* per-entry lock twice and deadlocking": no pipelines wait for each other *)
(* in a circle, and none for itself.                                       *)
NoCircularWait ==
    \A S \in (SUBSET Pipelines) \ {{}} : \E p \in S : \A q \in S : ~WaitsFor(p, q)

(* Every request the webhook started a pipeline for gets its answer,       *)
(* whatever fails in it (RunGitPipeline returns).                          *)
EveryRequestAnswered ==
    \A p \in Pipelines : pc[p] # "idle" ~> pc[p] = "idle"
=============================================================================
