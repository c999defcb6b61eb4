----------------------------- MODULE GitPipeline -----------------------------
(***************************************************************************)
(* RunGitPipeline for one request after the other: the target repository   *)
(* is cloned at the upstream branch, brought up to date with the upstream  *)
(* by the merge strategy of the RemoteTarget, changed (Placement),         *)
(* committed and pushed.  Everything remote is shared with other people,   *)
(* who push and merge between any two calls of the pipeline.               *)
(*                                                                         *)
(* A commit is its set of ancestors, itself included, and its tree; a      *)
(* branch is the index of its last commit, or 0.  The clone is what        *)
(* RepoLease shows every pipeline to start from, cached or not.  The       *)
(* upstream is the branch Main of the repository Upstream.                 *)
(***************************************************************************)
EXTENDS Placement

CONSTANTS
  Repositories, Upstream,    \* the repositories, and the syncer's one
  Branches, Main,            \* branch names, and the syncer's DefaultBranch
  RemoteTargets,             \* the admitted targets of that upstream
  MaxRequests,               \* intercepted requests
  MaxEdits,                  \* commits and merges by other people
  Requested, Finders, Kinds, Deletions  \* which inputs are tried

ASSUME GitPipelineAssumption ==
  /\ Upstream \in Repositories /\ Main \in Branches
  /\ RemoteTargets \subseteq
       [repo : Repositories, branch : Branches,
        strategy : {"", "TryFastForwardOrDie", "TryHardResetOrDie",
                    "TryFastForwardOrHardReset"}]
  /\ \A t \in RemoteTargets :
       t.strategy = "" <=> t.repo = Upstream /\ t.branch = Main
  /\ Kinds \subseteq Renderings /\ Requested \subseteq Objects
  /\ {Finders, Deletions} \subseteq SUBSET BOOLEAN
  /\ {MaxRequests, MaxEdits} \subseteq Nat

VARIABLES
  commits,    \* every commit made so far
  remote,     \* repository -> branch -> its last commit
  docCache,   \* repository -> object -> remembered path, "NoCache" or None
  pipe,       \* the pipeline in progress
  finder,     \* spec.resourceFinder of the syncer
  requests, edits

vars == <<commits, remote, docCache, pipe, finder, requests, edits>>

Ancestors(c) == IF c = 0 THEN {} ELSE commits[c].anc
Tree(c) == commits[c].tree

Idle == [pc |-> "idle"]

NewCommit(parent, tree) ==
  Append(commits, [anc |-> Ancestors(parent) \cup {Len(commits) + 1}, parent |-> parent,
                   tree |-> tree])

Init ==
  /\ \E tree \in {[p \in {DefaultPath[o][o]} |-> <<Doc(o, "old")>>] : o \in Requested}
                 \cup {[p \in {SharedPath} |-> SetToSeq({Doc(o, "old") : o \in Objects})]} :
       commits = <<[anc |-> {1}, parent |-> 0, tree |-> tree]>>
  /\ remote = [r \in Repositories |-> [b \in Branches |-> IF b = Main THEN 1 ELSE 0]]
  /\ docCache = [r \in Repositories |-> [o \in Objects |-> None]]
  /\ pipe = Idle
  /\ finder \in Finders
  /\ requests = 0 /\ edits = 0

Goto(pc) == pipe' = [pipe EXCEPT !.pc = pc]
LocalHead == pipe.heads[pipe.on]

\* A failed fast forward is an error of the pipeline, unless the strategy
\* then tries the hard reset.
Fail ==
  IF pipe.pc \in {"fetch", "checkout", "pullUpstream", "pullOrigin", "merge"}
       /\ pipe.target.strategy = "TryFastForwardOrHardReset"
    THEN Goto("fetchForReset")
    ELSE pipe' = Idle

\* The clone holds one branch, the upstream one, of the target repository.
Start(t, obj, ver, rendering) ==
  /\ pipe = Idle
  /\ requests < MaxRequests
  /\ requests' = requests + 1
  /\ remote[t.repo][Main] # 0
  /\ pipe' = [pc |-> CASE t.strategy = "" -> "generate"
                       [] t.strategy = "TryHardResetOrDie" -> "fetchForReset"
                       [] OTHER -> "fetch",
              target |-> t, obj |-> obj, ver |-> ver, rendering |-> rendering,
              heads |-> [b \in Branches |-> IF b = Main THEN remote[t.repo][Main] ELSE 0],
              on |-> Main, upstream |-> 0, force |-> FALSE,
              asked |-> remote[Upstream][Main], claim |-> None, empty |-> {}]
  /\ UNCHANGED <<commits, remote, docCache, finder, edits>>

\* The heads of the syncer's repository, into refs/remotes/upstream.
FetchUpstream ==
  /\ pipe.pc \in {"fetch", "fetchForReset"}
  /\ pipe' = [pipe EXCEPT !.pc = IF @ = "fetch" THEN "checkout" ELSE "reset",
                          !.upstream = remote[Upstream][Main]]
  /\ UNCHANGED <<commits, remote, docCache, finder, requests, edits>>

\* A missing branch is created from HEAD.
CheckoutToBranch ==
  LET b == pipe.target.branch
  IN /\ pipe.pc = "checkout"
     /\ pipe' = [pipe EXCEPT !.pc = "pullUpstream", !.on = b,
                             !.heads[b] = IF @ = 0 THEN LocalHead ELSE @]
     /\ UNCHANGED <<commits, remote, docCache, finder, requests, edits>>

\* A pull takes what is ahead of the checked out branch, leaves what is behind
\* it, and fails on what has diverged.
Pull(ref, next) ==
  /\ \/ /\ ref \in Ancestors(LocalHead)
        /\ Goto(next)
     \/ /\ LocalHead \in Ancestors(ref) \ {ref}
        /\ pipe' = [pipe EXCEPT !.pc = next, !.heads[pipe.on] = ref]
     \/ /\ ref \notin Ancestors(LocalHead) /\ LocalHead \notin Ancestors(ref)
        /\ Fail
  /\ UNCHANGED <<commits, remote, docCache, finder, requests, edits>>

\* Mutant of PullUpstream: a pull that is no fast forward is skipped.
SkipDivergedUpstream ==
  LET ref == remote[Upstream][Main]
  IN /\ pipe.pc = "pullUpstream"
     /\ IF LocalHead \in Ancestors(ref)
          THEN pipe' = [pipe EXCEPT !.pc = "pullOrigin", !.heads[pipe.on] = ref]
          ELSE Goto("pullOrigin")
     /\ UNCHANGED <<commits, remote, docCache, finder, requests, edits>>

PullUpstream ==
  /\ pipe.pc = "pullUpstream"
  /\ Pull(remote[Upstream][Main], "pullOrigin")

\* The target branch may not exist yet.
PullOrigin ==
  LET ref == remote[pipe.target.repo][pipe.target.branch]
  IN /\ pipe.pc = "pullOrigin"
     /\ \/ /\ ref = 0
           /\ Goto("merge")
           /\ UNCHANGED <<commits, remote, docCache, finder, requests, edits>>
        \/ /\ ref # 0
           /\ Pull(ref, "merge")

\* The local upstream branch is merged unless the target branch contains it.
MergeUpstream ==
  LET ref == pipe.heads[Main]
  IN /\ pipe.pc = "merge"
     /\ IF ref \in Ancestors(LocalHead) THEN Goto("generate")
        ELSE IF LocalHead \in Ancestors(ref)
          THEN pipe' = [pipe EXCEPT !.pc = "generate", !.heads[pipe.on] = ref]
          ELSE Fail
     /\ UNCHANGED <<commits, remote, docCache, finder, requests, edits>>

\* The target branch becomes the fetched upstream branch; the push is forced.
UpstreamBasedHardReset ==
  LET b == pipe.target.branch
  IN /\ pipe.pc = "reset"
     /\ pipe' = [pipe EXCEPT !.pc = "generate", !.on = b, !.force = TRUE,
                             !.heads[b] = pipe.upstream]
     /\ UNCHANGED <<commits, remote, docCache, finder, requests, edits>>

\* A call to a git server fails, a provider refuses the change, or a document
\* cannot be encrypted.
CallFails ==
  /\ pipe.pc \in {"fetch", "fetchForReset", "pullUpstream", "pullOrigin", "generate", "push"}
  /\ Fail
  /\ UNCHANGED <<commits, remote, docCache, finder, requests, edits>>

\* The artifacts a provider may leave empty on a creation or an update.
MayBeEmpty ==
  IF pipe.rendering = "derived" /\ pipe.ver # None THEN Derived[pipe.obj] ELSE {}

\* The cache is shared by all the branches pushed to one repository.
Generate ==
  /\ pipe.pc = "generate"
  /\ \E empty \in SUBSET MayBeEmpty :
       LET claim == GenerateFinalWorktree(Tree(LocalHead), docCache[pipe.target.repo],
                      finder, pipe.rendering, pipe.obj, pipe.ver, empty)
       IN /\ pipe' = [pipe EXCEPT !.pc = "commit", !.claim = claim, !.empty = empty]
          /\ docCache' = [docCache EXCEPT ![pipe.target.repo] = claim.cache]
  /\ UNCHANGED <<commits, remote, finder, requests, edits>>

\* An empty commit is skipped: the branch is pushed as it is.
Commit ==
  LET tree == CommittedTree(Tree(LocalHead), pipe.claim)
  IN /\ pipe.pc = "commit"
     /\ \/ /\ tree = Tree(LocalHead)
           /\ pipe' = [pipe EXCEPT !.pc = "push", !.claim = None, !.empty = {}]
           /\ UNCHANGED commits
        \/ /\ tree # Tree(LocalHead)
           /\ commits' = NewCommit(LocalHead, tree)
           /\ pipe' = [pipe EXCEPT !.pc = "push", !.claim = None, !.empty = {},
                                   !.heads[pipe.on] = Len(commits')]
     /\ UNCHANGED <<remote, docCache, finder, requests, edits>>

\* Mutant of MayPush: every push is forced.
AlwaysForce(force, old, new) == TRUE

\* The server takes a forced push, or one that contains its branch.
MayPush(force, old, new) == force \/ old = 0 \/ old \in Ancestors(new)

Push ==
  LET t == pipe.target
  IN /\ pipe.pc = "push"
     /\ MayPush(pipe.force, remote[t.repo][t.branch], pipe.heads[t.branch])
     /\ remote' = [remote EXCEPT ![t.repo][t.branch] = pipe.heads[t.branch]]
     /\ pipe' = Idle
     /\ UNCHANGED <<commits, docCache, finder, requests, edits>>

(***************************************************************************)
(* Other people: an object is put into its own file, moved to the shared   *)
(* one or taken out of the repository, or a branch is fast-forwarded to    *)
(* another one.  The cache forgets what the LFU evicts.                    *)
(***************************************************************************)
InOwnFile(tree, o) == WriteFile(tree, DefaultPath[o][o], <<Doc(o, "old")>>)

InSharedFile(tree, o) ==
  LET old == IF SharedPath \in DOMAIN tree THEN tree[SharedPath] ELSE <<>>
  IN WriteFile(tree, SharedPath, Append(old, Doc(o, "old")))

TakenOut(tree, o) == applyReplacement(tree, Holding(tree, o), o, None)

EditedTrees(tree) ==
  UNION {{InOwnFile(tree, o), TakenOut(tree, o), InSharedFile(TakenOut(tree, o), o)}
           : o \in Requested}

SetBranch(r, b, c) ==
  /\ edits < MaxEdits
  /\ edits' = edits + 1
  /\ remote' = [remote EXCEPT ![r][b] = c]
  /\ UNCHANGED <<docCache, pipe, finder, requests>>

PushByOthers(r, b) ==
  LET from == IF remote[r][b] = 0 THEN remote[r][Main] ELSE remote[r][b]
  IN \E tree \in EditedTrees(Tree(from)) \ {Tree(from)} :
       /\ commits' = NewCommit(from, tree)
       /\ SetBranch(r, b, Len(commits'))

MergeByOthers(r, from, to) ==
  /\ remote[r][from] # 0
  /\ remote[r][to] \in Ancestors(remote[r][from]) \ {remote[r][from]}
  /\ SetBranch(r, to, remote[r][from])
  /\ UNCHANGED commits

Evict(r, o) ==
  /\ pipe = Idle
  /\ docCache[r][o] # None
  /\ docCache' = [docCache EXCEPT ![r][o] = None]
  /\ UNCHANGED <<commits, remote, pipe, finder, requests, edits>>

Request ==
  \E t \in RemoteTargets, o \in Requested, v \in {"new", None}, rendering \in Kinds :
    /\ (v = None) \in Deletions
    /\ Start(t, o, v, rendering)

Pipeline ==
  \/ FetchUpstream \/ CheckoutToBranch \/ PullUpstream \/ PullOrigin \/ MergeUpstream
  \/ UpstreamBasedHardReset \/ Generate \/ Commit \/ Push \/ CallFails

Others ==
  \/ \E r \in Repositories, b \in Branches : PushByOthers(r, b)
  \/ \E r \in Repositories, from, to \in Branches : MergeByOthers(r, from, to)
  \/ \E r \in Repositories, o \in Objects : Evict(r, o)

Next == Request \/ Pipeline \/ Others

Spec == Init /\ [][Next]_vars

\* No committed file is left without a document.
TypeOK ==
  /\ \A c \in DOMAIN commits :
       /\ c \in commits[c].anc /\ commits[c].anc \subseteq 1 .. c
       /\ DOMAIN Tree(c) \subseteq Paths
       /\ \A p \in DOMAIN Tree(c) : Tree(c)[p] \in Seq(Docs) \ {<<>>}
  /\ remote \in [Repositories -> [Branches -> 0 .. Len(commits)]]
  /\ docCache \in [Repositories -> [Objects -> Paths \cup {"NoCache", None}]]
  /\ requests \in 0 .. MaxRequests /\ edits \in 0 .. MaxEdits

\* No push drops a commit of the target branch, whatever others pushed in the
\* meantime, unless the strategy of the target may hard reset it.
NoCommitLost ==
  [][\A r \in Repositories, b \in Branches :
       remote'[r][b] # remote[r][b] /\ remote[r][b] \notin commits'[remote'[r][b]].anc \cup {0} =>
         pipe.target.strategy \in {"TryHardResetOrDie", "TryFastForwardOrHardReset"}]_vars

\* What is pushed under a merge strategy contains the upstream branch as it
\* was when the request was intercepted.
UpstreamIncluded ==
  pipe # Idle /\ pipe.pc = "push" => pipe.asked \in Ancestors(LocalHead) \/ pipe.target.strategy = ""

\* What the request writes: the object, or what the providers derive from it.
Written == IF pipe.rendering = "derived" THEN Derived[pipe.obj] ELSE {pipe.obj}

Committing == pipe.pc = "commit" /\ pipe'.pc = "push"
OldTree == Tree(LocalHead)
NewTree == commits'[pipe'.heads[pipe'.on]].tree

\* What the request takes out of the repository: the artifacts without content.
Dropped == IF pipe.ver = None THEN Written ELSE pipe.empty

\* A commit leaves the documents of all other objects as they are, in the file
\* where they are, except in a file that held an artifact without content:
\* whatever is written, dropped or moved by the same request elsewhere, and
\* wherever the path cache says it is.  (Such a file leaves the repository as a
\* whole: SiblingsPreserved.)
WritesKeepSiblings ==
  [][Committing => KeepsSiblingsWithout(Dropped, OldTree, NewTree, Written)]_vars

\* An object that is already in the repository is rewritten where the resource
\* finder finds it, one that is not gets one file; a path remembered from an
\* earlier worktree never leads to a second copy or to none.
FoundOrCreatedOnce ==
  [][Committing /\ pipe.ver # None /\ finder /\ pipe.rendering = "unhandled" =>
       /\ \E p \in DOMAIN NewTree : Doc(pipe.obj, pipe.ver) \in ToSet(NewTree[p])
       /\ Copies(NewTree, pipe.obj) =
            (IF Copies(OldTree, pipe.obj) = 0 THEN 1 ELSE Copies(OldTree, pipe.obj))]_vars

\* ReplaceObject promises to write each file back preserving its sibling
\* documents, on a deletion too.
SiblingsPreserved ==
  [][Committing => KeepsSiblings(OldTree, NewTree, Written)]_vars
=============================================================================
