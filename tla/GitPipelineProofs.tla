-------------------------- MODULE GitPipelineProofs --------------------------
(***************************************************************************)
(* What the merge strategies and the placement guarantee for any           *)
(* repositories, branches, remote targets and objects, and any numbers of  *)
(* requests and of commits by other people.  The first half is about the   *)
(* commit graph, with trees of any kind; the second about the trees.       *)
(***************************************************************************)
EXTENDS GitPipeline, SequenceTheorems, FiniteSetTheorems, WellFoundedInduction, TLAPS

HardResets == {"TryHardResetOrDie", "TryFastForwardOrHardReset"}

PipeFields == {"pc", "target", "obj", "ver", "rendering", "heads", "on", "upstream",
               "force", "asked", "claim", "empty"}

IsPipe(p) == p = [f \in PipeFields |-> p[f]]

Indices == 1 .. Len(commits)

\* Commits have themselves and only earlier commits as ancestors, and the
\* ancestors of their ancestors; branches point to commits, and the default
\* branch of a repository exists.
CommitsInv ==
  /\ \A c \in Indices : c \in commits[c].anc /\ commits[c].anc \subseteq 1 .. c
  /\ \A c \in Indices : \A d \in commits[c].anc : commits[d].anc \subseteq commits[c].anc

RemoteInv ==
  /\ remote \in [Repositories -> [Branches -> 0 .. Len(commits)]]
  /\ \A r \in Repositories : remote[r][Main] # 0

\* The steps in which the target branch is checked out, and those in which
\* it contains the upstream.
OnTarget == {"pullUpstream", "pullOrigin", "merge", "generate", "commit", "push"}
UpToDate == OnTarget \ {"pullUpstream"}

\* A pipeline at work: what it has checked out exists, what it saw of the
\* upstream is still there, it forces its push only for a strategy that may
\* hard reset, and it is up to date once it has pulled or reset.
Running ==
  /\ IsPipe(pipe)
  /\ pipe.pc \in OnTarget \cup {"fetch", "fetchForReset", "checkout", "reset"}
  /\ pipe.target \in RemoteTargets
  /\ pipe.obj \in Requested /\ pipe.ver \in {"new", None} /\ pipe.rendering \in Kinds
  /\ pipe.heads \in [Branches -> 0 .. Len(commits)]
  /\ pipe.on \in Branches /\ LocalHead # 0
  /\ pipe.upstream \in 0 .. Len(commits)
  /\ pipe.asked \in Ancestors(remote[Upstream][Main])
  /\ pipe.force => pipe.target.strategy \in HardResets
  /\ pipe.pc \in {"fetchForReset", "reset"} => pipe.target.strategy \in HardResets
  /\ pipe.pc = "reset" => pipe.asked \in Ancestors(pipe.upstream)
  /\ pipe.pc \in OnTarget => pipe.on = pipe.target.branch
  /\ pipe.pc \in UpToDate => pipe.target.strategy = "" \/ pipe.asked \in Ancestors(LocalHead)

PipeInv == pipe = Idle \/ Running

\* The commits are a sequence, of trees of any kind.
IsHistory == \E S : commits \in Seq(S)

GraphInv == CommitsInv /\ RemoteInv /\ PipeInv

IInv == IsHistory /\ GraphInv

---------------------------------------------------------------------------
(* The commit graph.                                                       *)

\* A branch contains its own last commit; what contains it contains what it
\* contains.
LEMMA AncestorFacts ==
  ASSUME CommitsInv
  PROVE  /\ Ancestors(0) = {}
         /\ \A c \in Indices : c \in Ancestors(c) /\ Ancestors(c) \subseteq Indices
         /\ \A c, d \in 0 .. Len(commits) : d \in Ancestors(c) => Ancestors(d) \subseteq Ancestors(c)
  BY DEF CommitsInv, Ancestors, Indices

\* A commit is added at the end, has the ancestors of its parent and itself,
\* and changes no other commit.
LEMMA CommitAdded ==
  ASSUME IsHistory, CommitsInv, NEW parent \in 0 .. Len(commits), NEW tree,
         commits' = NewCommit(parent, tree)
  PROVE  /\ IsHistory' /\ CommitsInv'
         /\ Len(commits) \in Nat /\ Len(commits') = Len(commits) + 1
         /\ \A c \in 0 .. Len(commits) : Ancestors(c)' = Ancestors(c)
         /\ commits'[Len(commits) + 1].anc = Ancestors(parent) \cup {Len(commits) + 1}
  <1> DEFINE n == Len(commits)
             x == [anc |-> Ancestors(parent) \cup {n + 1}, parent |-> parent, tree |-> tree]
  <1>1. PICK S : commits \in Seq(S)
    BY DEF IsHistory
  <1>2. commits' = Append(commits, x)
    BY DEF NewCommit
  <1>3. x.anc = Ancestors(parent) \cup {n + 1}
    OBVIOUS
  <1> HIDE DEF x
  <1>4. commits \in Seq(S \cup {x})
    BY <1>1, SeqMonotonic
  <1>5. /\ commits' \in Seq(S \cup {x}) /\ n \in Nat /\ Len(commits') = n + 1
        /\ commits'[n + 1] = x /\ \A c \in 1 .. n : commits'[c] = commits[c]
    BY <1>2, <1>4
  <1>6. IsHistory'
    BY <1>5 DEF IsHistory
  <1>7. \A c \in 0 .. n : Ancestors(c)' = Ancestors(c)
    BY <1>5 DEF Ancestors
  <1>8. commits'[n + 1].anc = Ancestors(parent) \cup {n + 1}
    BY <1>3, <1>5
  <1>9. Ancestors(parent) \subseteq 1 .. n
    BY <1>5, AncestorFacts DEF Indices
  <1>10. CommitsInv'
    <2>1. ASSUME NEW c \in 1 .. n + 1
          PROVE  c \in commits'[c].anc /\ commits'[c].anc \subseteq 1 .. c
      <3>1. CASE c \in 1 .. n
        BY <1>5, <3>1 DEF CommitsInv, Indices
      <3>2. CASE c = n + 1
        BY <1>3, <1>5, <1>9, <3>2
      <3> QED
        BY <1>5, <3>1, <3>2
    <2>2. ASSUME NEW c \in 1 .. n + 1, NEW d \in commits'[c].anc
          PROVE  commits'[d].anc \subseteq commits'[c].anc
      <3>1. CASE c \in 1 .. n
        <4>1. d \in 1 .. n /\ d \in commits[c].anc
          BY <1>5, <3>1 DEF CommitsInv, Indices
        <4> QED
          BY <1>5, <3>1, <4>1 DEF CommitsInv, Indices
      <3>2. CASE c = n + 1 /\ d = n + 1
        BY <3>2
      <3>3. CASE c = n + 1 /\ d # n + 1
        <4>1. d \in Ancestors(parent) /\ d \in 1 .. n /\ parent \in 1 .. n
          BY <1>3, <1>5, <1>9, <3>3 DEF Ancestors
        <4>2. commits[d].anc \subseteq commits[parent].anc
          BY <4>1 DEF CommitsInv, Indices, Ancestors
        <4>3. commits'[d].anc = commits[d].anc /\ commits'[c].anc = commits[parent].anc \cup {n + 1}
          BY <1>3, <1>5, <3>3, <4>1 DEF Ancestors
        <4> QED
          BY <4>2, <4>3
      <3> QED
        BY <1>5, <3>1, <3>2, <3>3
    <2> QED
      BY <1>5, <2>1, <2>2 DEF CommitsInv, Indices
  <1> QED
    BY <1>5, <1>6, <1>7, <1>8, <1>10

\* The initial states satisfy the invariant.
LEMMA InitIInv == Init => IInv
  <1> SUFFICES ASSUME Init PROVE IInv
    OBVIOUS
  <1>1. PICK tree : commits = <<[anc |-> {1}, parent |-> 0, tree |-> tree]>>
    BY Zenon DEF Init
  <1> DEFINE x == [anc |-> {1}, parent |-> 0, tree |-> tree]
  <1>2. Len(commits) = 1 /\ commits[1].anc = {1}
    BY <1>1
  <1>a. IsHistory
    <2>1. <<x>> \in Seq({x})
      <3> HIDE DEF x
      <3> QED
        OBVIOUS
    <2> QED
      BY <1>1, <2>1 DEF IsHistory
  <1>3. CommitsInv
    BY <1>2 DEF CommitsInv, Indices
  <1>4. RemoteInv
    <2>1. remote = [r \in Repositories |-> [b \in Branches |-> IF b = Main THEN 1 ELSE 0]]
      BY Zenon DEF Init
    <2>2. Main \in Branches
      BY GitPipelineAssumption
    <2>3. [b \in Branches |-> IF b = Main THEN 1 ELSE 0] \in [Branches -> 0 .. 1]
      OBVIOUS
    <2>4. remote \in [Repositories -> [Branches -> 0 .. 1]]
      BY <2>1, <2>3
    <2>5. \A r \in Repositories : remote[r][Main] = 1
      BY <2>1, <2>2
    <2> QED
      BY <1>2, <2>4, <2>5 DEF RemoteInv
  <1>5. PipeInv
    BY Zenon DEF Init, PipeInv
  <1> QED
    BY <1>3, <1>4, <1>5, <1>a DEF IInv, GraphInv

---------------------------------------------------------------------------
(* The ways a step changes the pipeline in progress.                       *)

Moved(pc, b, c) == pipe' = [pipe EXCEPT !.pc = pc, !.heads[b] = c]
Fetched(pc, c) == pipe' = [pipe EXCEPT !.pc = pc, !.upstream = c]
CheckedOut(pc, b, c) == pipe' = [pipe EXCEPT !.pc = pc, !.on = b, !.heads[b] = c]
Reset(pc, b, c) == pipe' = [pipe EXCEPT !.pc = pc, !.on = b, !.force = TRUE, !.heads[b] = c]
Claimed(pc, d, e) == pipe' = [pipe EXCEPT !.pc = pc, !.claim = d, !.empty = e]
Committed(pc, d, e, b, c) ==
  pipe' = [pipe EXCEPT !.pc = pc, !.claim = d, !.empty = e, !.heads[b] = c]

\* What a step leaves in the fields that matter here.
Became(pc, heads, on, upstream, force) ==
  /\ IsPipe(pipe')
  /\ pipe'.pc = pc /\ pipe'.heads = heads /\ pipe'.on = on /\ pipe'.upstream = upstream
  /\ pipe'.force = force
  /\ pipe'.target = pipe.target /\ pipe'.asked = pipe.asked
  /\ pipe'.obj = pipe.obj /\ pipe'.ver = pipe.ver /\ pipe'.rendering = pipe.rendering

\* Every change of the pipeline, field by field.
LEMMA PipeChanges ==
  ASSUME IsPipe(pipe)
  PROVE  /\ \A pc : Goto(pc) => Became(pc, pipe.heads, pipe.on, pipe.upstream, pipe.force)
         /\ \A pc, b, c : Moved(pc, b, c) =>
              Became(pc, [pipe.heads EXCEPT ![b] = c], pipe.on, pipe.upstream, pipe.force)
         /\ \A pc, c : Fetched(pc, c) => Became(pc, pipe.heads, pipe.on, c, pipe.force)
         /\ \A pc, b, c : CheckedOut(pc, b, c) =>
              Became(pc, [pipe.heads EXCEPT ![b] = c], b, pipe.upstream, pipe.force)
         /\ \A pc, b, c : Reset(pc, b, c) =>
              Became(pc, [pipe.heads EXCEPT ![b] = c], b, pipe.upstream, TRUE)
         /\ \A pc, d, e : Claimed(pc, d, e) =>
              Became(pc, pipe.heads, pipe.on, pipe.upstream, pipe.force)
         /\ \A pc, d, e, b, c : Committed(pc, d, e, b, c) =>
              Became(pc, [pipe.heads EXCEPT ![b] = c], pipe.on, pipe.upstream, pipe.force)
  <1>1. ASSUME NEW pc, Goto(pc)
       PROVE  Became(pc, pipe.heads, pipe.on, pipe.upstream, pipe.force)
    <2>1. IsPipe(pipe')
      BY <1>1, Zenon DEF Goto, IsPipe
    <2>2. /\ pipe'.pc = pc /\ pipe'.heads = pipe.heads /\ pipe'.on = pipe.on
          /\ pipe'.upstream = pipe.upstream /\ pipe'.force = pipe.force
          /\ pipe'.target = pipe.target /\ pipe'.asked = pipe.asked
          /\ pipe'.obj = pipe.obj /\ pipe'.ver = pipe.ver /\ pipe'.rendering = pipe.rendering
      BY <1>1, Zenon DEF Goto, IsPipe, PipeFields
    <2> QED
      BY <2>1, <2>2 DEF Became
  <1>2. ASSUME NEW pc, NEW b, NEW c, Moved(pc, b, c)
       PROVE  Became(pc, [pipe.heads EXCEPT ![b] = c], pipe.on, pipe.upstream, pipe.force)
    <2>1. IsPipe(pipe')
      BY <1>2, Zenon DEF Moved, IsPipe
    <2>2. /\ pipe'.pc = pc /\ pipe'.heads = [pipe.heads EXCEPT ![b] = c] /\ pipe'.on = pipe.on
          /\ pipe'.upstream = pipe.upstream /\ pipe'.force = pipe.force
          /\ pipe'.target = pipe.target /\ pipe'.asked = pipe.asked
          /\ pipe'.obj = pipe.obj /\ pipe'.ver = pipe.ver /\ pipe'.rendering = pipe.rendering
      BY <1>2, Zenon DEF Moved, IsPipe, PipeFields
    <2> QED
      BY <2>1, <2>2 DEF Became
  <1>3. ASSUME NEW pc, NEW c, Fetched(pc, c)
       PROVE  Became(pc, pipe.heads, pipe.on, c, pipe.force)
    <2>1. IsPipe(pipe')
      BY <1>3, Zenon DEF Fetched, IsPipe
    <2>2. /\ pipe'.pc = pc /\ pipe'.heads = pipe.heads /\ pipe'.on = pipe.on
          /\ pipe'.upstream = c /\ pipe'.force = pipe.force
          /\ pipe'.target = pipe.target /\ pipe'.asked = pipe.asked
          /\ pipe'.obj = pipe.obj /\ pipe'.ver = pipe.ver /\ pipe'.rendering = pipe.rendering
      BY <1>3, Zenon DEF Fetched, IsPipe, PipeFields
    <2> QED
      BY <2>1, <2>2 DEF Became
  <1>4. ASSUME NEW pc, NEW b, NEW c, CheckedOut(pc, b, c)
       PROVE  Became(pc, [pipe.heads EXCEPT ![b] = c], b, pipe.upstream, pipe.force)
    <2>1. IsPipe(pipe')
      BY <1>4, Zenon DEF CheckedOut, IsPipe
    <2>2. /\ pipe'.pc = pc /\ pipe'.heads = [pipe.heads EXCEPT ![b] = c] /\ pipe'.on = b
          /\ pipe'.upstream = pipe.upstream /\ pipe'.force = pipe.force
          /\ pipe'.target = pipe.target /\ pipe'.asked = pipe.asked
          /\ pipe'.obj = pipe.obj /\ pipe'.ver = pipe.ver /\ pipe'.rendering = pipe.rendering
      BY <1>4, Zenon DEF CheckedOut, IsPipe, PipeFields
    <2> QED
      BY <2>1, <2>2 DEF Became
  <1>5. ASSUME NEW pc, NEW b, NEW c, Reset(pc, b, c)
       PROVE  Became(pc, [pipe.heads EXCEPT ![b] = c], b, pipe.upstream, TRUE)
    <2>1. IsPipe(pipe')
      BY <1>5, Zenon DEF Reset, IsPipe
    <2>2. /\ pipe'.pc = pc /\ pipe'.heads = [pipe.heads EXCEPT ![b] = c] /\ pipe'.on = b
          /\ pipe'.upstream = pipe.upstream /\ pipe'.force = TRUE
          /\ pipe'.target = pipe.target /\ pipe'.asked = pipe.asked
          /\ pipe'.obj = pipe.obj /\ pipe'.ver = pipe.ver /\ pipe'.rendering = pipe.rendering
      BY <1>5, Zenon DEF Reset, IsPipe, PipeFields
    <2> QED
      BY <2>1, <2>2 DEF Became
  <1>6. ASSUME NEW pc, NEW d, NEW e, Claimed(pc, d, e)
       PROVE  Became(pc, pipe.heads, pipe.on, pipe.upstream, pipe.force)
    <2>1. IsPipe(pipe')
      BY <1>6, Zenon DEF Claimed, IsPipe
    <2>2. /\ pipe'.pc = pc /\ pipe'.heads = pipe.heads /\ pipe'.on = pipe.on
          /\ pipe'.upstream = pipe.upstream /\ pipe'.force = pipe.force
          /\ pipe'.target = pipe.target /\ pipe'.asked = pipe.asked
          /\ pipe'.obj = pipe.obj /\ pipe'.ver = pipe.ver /\ pipe'.rendering = pipe.rendering
      BY <1>6, Zenon DEF Claimed, IsPipe, PipeFields
    <2> QED
      BY <2>1, <2>2 DEF Became
  <1>7. ASSUME NEW pc, NEW d, NEW e, NEW b, NEW c, Committed(pc, d, e, b, c)
       PROVE  Became(pc, [pipe.heads EXCEPT ![b] = c], pipe.on, pipe.upstream, pipe.force)
    <2>1. IsPipe(pipe')
      BY <1>7, Zenon DEF Committed, IsPipe
    <2>2. /\ pipe'.pc = pc /\ pipe'.heads = [pipe.heads EXCEPT ![b] = c] /\ pipe'.on = pipe.on
          /\ pipe'.upstream = pipe.upstream /\ pipe'.force = pipe.force
          /\ pipe'.target = pipe.target /\ pipe'.asked = pipe.asked
          /\ pipe'.obj = pipe.obj /\ pipe'.ver = pipe.ver /\ pipe'.rendering = pipe.rendering
      BY <1>7, Zenon DEF Committed, IsPipe, PipeFields
    <2> QED
      BY <2>1, <2>2 DEF Became
  <1> QED
    BY <1>1, <1>2, <1>3, <1>4, <1>5, <1>6, <1>7, Zenon

---------------------------------------------------------------------------
(* The steps of the pipeline.                                              *)

\* A pipeline that is not idle is in order.
LEMMA RunningPipe ==
  ASSUME IInv, pipe.pc # "idle"
  PROVE  Running /\ CommitsInv /\ RemoteInv
  BY DEF IInv, GraphInv, PipeInv, Idle

\* A history has a length, and a pipeline its fields.
LEMMA BasicFacts ==
  ASSUME IInv
  PROVE  Len(commits) \in Nat /\ (Running => IsPipe(pipe))
  <1>1. PICK S : commits \in Seq(S)
    BY DEF IInv, IsHistory
  <1> QED
    BY <1>1, LenProperties DEF Running

\* What admission knows of the targets.
LEMMA TargetFacts ==
  ASSUME NEW t \in RemoteTargets
  PROVE  /\ t.repo \in Repositories /\ t.branch \in Branches
         /\ t.strategy \in HardResets \cup {"", "TryFastForwardOrDie"}
         /\ t.strategy = "" <=> t.repo = Upstream /\ t.branch = Main
         /\ Upstream \in Repositories /\ Main \in Branches
  BY GitPipelineAssumption DEF HardResets

\* Every branch is empty or points to a commit, and the upstream branch of a
\* repository does not get lost.
LEMMA BranchFacts ==
  ASSUME IInv
  PROVE  /\ \A r \in Repositories, b \in Branches : remote[r][b] \in 0 .. Len(commits)
         /\ \A r \in Repositories : remote[r][Main] \in Indices
  <1>1. RemoteInv /\ Len(commits) \in Nat /\ Main \in Branches
    BY BasicFacts, GitPipelineAssumption DEF IInv, GraphInv
  <1>2. ASSUME NEW r \in Repositories, NEW b \in Branches
        PROVE  remote[r][b] \in 0 .. Len(commits)
    BY <1>1 DEF RemoteInv
  <1>3. ASSUME NEW r \in Repositories
        PROVE  remote[r][Main] \in Indices
    <2>1. remote[r][Main] \in 0 .. Len(commits) /\ remote[r][Main] # 0
      BY <1>1, <1>2 DEF RemoteInv
    <2> QED
      BY <1>1, <2>1 DEF Indices
  <1> QED
    BY <1>2, <1>3

\* A new pipeline is in order.
LEMMA StartStep ==
  ASSUME IInv, NEW t \in RemoteTargets, NEW o \in Requested, NEW v \in {"new", None},
         NEW x \in Kinds, Start(t, o, v, x)
  PROVE  Running' /\ pipe'.pc # "commit"
  <1>0. CommitsInv /\ RemoteInv /\ commits' = commits /\ remote' = remote
    BY DEF IInv, GraphInv, Start
  <1>a. /\ t.repo \in Repositories /\ t.branch \in Branches /\ Upstream \in Repositories
        /\ Main \in Branches /\ (t.strategy = "" => t.branch = Main)
        /\ t.strategy \in HardResets \cup {"", "TryFastForwardOrDie"}
    BY TargetFacts, Zenon
  <1>b. Len(commits) \in Nat
    BY BasicFacts
  <1>1. remote[t.repo][Main] \in Indices /\ remote[Upstream][Main] \in Indices
    BY <1>a, BranchFacts
  <1> DEFINE step == CASE t.strategy = "" -> "generate"
                       [] t.strategy = "TryHardResetOrDie" -> "fetchForReset"
                       [] OTHER -> "fetch"
             heads == [b \in Branches |-> IF b = Main THEN remote[t.repo][Main] ELSE 0]
  <1>2. pipe' = [pc |-> step, target |-> t, obj |-> o, ver |-> v, rendering |-> x,
                 heads |-> heads, on |-> Main, upstream |-> 0, force |-> FALSE,
                 asked |-> remote[Upstream][Main], claim |-> None, empty |-> {}]
    BY DEF Start
  <1>3. heads \in [Branches -> 0 .. Len(commits)] /\ heads[Main] # 0
    <2>1. ASSUME NEW m \in 1 .. Len(commits)
          PROVE  /\ [b \in Branches |-> IF b = Main THEN m ELSE 0] \in [Branches -> 0 .. Len(commits)]
                 /\ [b \in Branches |-> IF b = Main THEN m ELSE 0][Main] # 0
      <3>1. Main \in Branches
        BY <1>a
      <3>2. m \in 0 .. Len(commits) /\ 0 \in 0 .. Len(commits) /\ m # 0
        BY <1>b
      <3> QED
        BY <3>1, <3>2
    <2> DEFINE m == remote[t.repo][Main]
    <2>2. m \in 1 .. Len(commits)
      BY <1>1 DEF Indices
    <2>3. heads = [b \in Branches |-> IF b = Main THEN m ELSE 0]
      OBVIOUS
    <2> HIDE DEF m, heads
    <2> QED
      BY <2>1, <2>2, <2>3
  <1>4. /\ t.strategy = "" => step = "generate"
        /\ t.strategy = "TryHardResetOrDie" => step = "fetchForReset"
        /\ t.strategy \notin {"", "TryHardResetOrDie"} => step = "fetch"
    OBVIOUS
  <1> HIDE DEF step, heads
  <1>5. IsPipe(pipe')
    BY <1>2, Zenon DEF IsPipe, PipeFields
  <1>6. /\ pipe'.pc = step /\ pipe'.target = t /\ pipe'.heads = heads /\ pipe'.on = Main
        /\ pipe'.upstream = 0 /\ pipe'.force = FALSE /\ pipe'.asked = remote[Upstream][Main]
        /\ pipe'.obj = o /\ pipe'.ver = v /\ pipe'.rendering = x
    BY <1>2
  <1>7. remote[Upstream][Main] \in Ancestors(remote[Upstream][Main])
    BY <1>0, <1>1, AncestorFacts
  <1>8. /\ pipe'.heads \in [Branches -> 0 .. Len(commits')] /\ pipe'.heads[pipe'.on] # 0
        /\ pipe'.upstream \in 0 .. Len(commits') /\ pipe'.target \in RemoteTargets
    BY <1>0, <1>3, <1>6, <1>b
  <1>9. /\ pipe'.asked \in Ancestors(remote[Upstream][Main])'
    BY <1>0, <1>6, <1>7 DEF Ancestors
  <1>10. /\ pipe'.pc \in {"generate", "fetchForReset", "fetch"}
         /\ pipe'.pc = "fetchForReset" => t.strategy \in HardResets
         /\ pipe'.pc = "generate" => t.strategy = "" /\ pipe'.on = t.branch
    BY <1>4, <1>6, <1>a DEF HardResets
  <1> QED
    BY <1>5, <1>6, <1>8, <1>9, <1>10, <1>a DEF Running, OnTarget, UpToDate, LocalHead

\* A failed step ends the pipeline, or leads to the hard reset.
LEMMA FailStep ==
  ASSUME IInv, pipe.pc # "idle", Fail, UNCHANGED <<commits, remote>>
  PROVE  PipeInv'
  <1>0. Running
    BY RunningPipe
  <1>1. CASE pipe' = Idle
    BY <1>1 DEF PipeInv, Idle
  <1>2. CASE pipe' # Idle
    <2>1. Goto("fetchForReset") /\ pipe.target.strategy \in HardResets
      BY <1>2 DEF Fail, HardResets
    <2>2. Became("fetchForReset", pipe.heads, pipe.on, pipe.upstream, pipe.force)
      BY <1>0, <2>1, BasicFacts, PipeChanges
    <2>3. Running'
      BY <1>0, <2>1, <2>2 DEF Became, Running, OnTarget, UpToDate, LocalHead, Ancestors
    <2> QED
      BY <2>3 DEF PipeInv
  <1> QED
    BY <1>1, <1>2

\* A pull leaves the checked out branch alone or moves it forward.
LEMMA PullStep ==
  ASSUME IInv, NEW ref \in 0 .. Len(commits), NEW next,
         \/ pipe.pc = "pullUpstream" /\ next = "pullOrigin" /\ ref = remote[Upstream][Main]
         \/ pipe.pc = "pullOrigin" /\ next = "merge",
         Pull(ref, next)
  PROVE  PipeInv'
  <1>0. Running /\ CommitsInv /\ RemoteInv /\ commits' = commits /\ remote' = remote
    BY RunningPipe DEF Pull
  <1>1. /\ LocalHead \in 0 .. Len(commits) /\ Ancestors(0) = {}
        /\ pipe.on \in Branches
    BY <1>0, AncestorFacts DEF Running, LocalHead
  <1>2. CASE ref \in Ancestors(LocalHead) /\ Goto(next)
    <2>1. Became(next, pipe.heads, pipe.on, pipe.upstream, pipe.force)
      BY <1>0, <1>2, BasicFacts, PipeChanges
    <2>2. Ancestors(ref) \subseteq Ancestors(LocalHead)
      BY <1>0, <1>1, <1>2, AncestorFacts
    <2>3. pipe.target.strategy = "" \/ pipe.asked \in Ancestors(LocalHead)
      BY <1>0, <2>2 DEF Running, UpToDate, OnTarget
    <2>4. Running'
      BY <1>0, <2>1, <2>3 DEF Became, Running, OnTarget, UpToDate, LocalHead, Ancestors
    <2> QED
      BY <2>4 DEF PipeInv
  <1>3. CASE /\ LocalHead \in Ancestors(ref)
             /\ Moved(next, pipe.on, ref)
    <2>1. Became(next, [pipe.heads EXCEPT ![pipe.on] = ref], pipe.on, pipe.upstream, pipe.force)
      BY <1>0, <1>3, BasicFacts, PipeChanges
    <2>2. Ancestors(LocalHead) \subseteq Ancestors(ref) /\ ref # 0
      BY <1>0, <1>1, <1>3, AncestorFacts
    <2>3. pipe.target.strategy = "" \/ pipe.asked \in Ancestors(ref)
      BY <1>0, <2>2 DEF Running, UpToDate, OnTarget
    <2>4. pipe'.heads \in [Branches -> 0 .. Len(commits)] /\ pipe'.heads[pipe'.on] = ref
      BY <1>0, <1>1, <2>1 DEF Became, Running
    <2>5. Running'
      BY <1>0, <2>1, <2>2, <2>3, <2>4 DEF Became, Running, OnTarget, UpToDate, LocalHead, Ancestors
    <2> QED
      BY <2>5 DEF PipeInv
  <1>4. CASE Fail
    BY <1>0, <1>4, FailStep
  <1> QED
    BY <1>2, <1>3, <1>4, Zenon DEF Pull, Moved

\* The fetch takes the upstream branch, which still has what it had.
LEMMA FetchStep ==
  ASSUME IInv, FetchUpstream
  PROVE  PipeInv'
  <1> DEFINE next == IF pipe.pc = "fetch" THEN "checkout" ELSE "reset"
             up == remote[Upstream][Main]
  <1>0. Running /\ commits' = commits /\ remote' = remote /\ pipe.pc \in {"fetch", "fetchForReset"}
    BY RunningPipe DEF FetchUpstream
  <1>1. Fetched(next, up)
    BY Zenon DEF FetchUpstream, Fetched
  <1>2. up \in 0 .. Len(commits) /\ pipe.asked \in Ancestors(up)
    <2>0. Upstream \in Repositories
      BY GitPipelineAssumption
    <2>1. up \in Indices /\ Len(commits) \in Nat
      BY <2>0, BranchFacts, BasicFacts
    <2>2. up \in 0 .. Len(commits)
      BY <2>1 DEF Indices
    <2>3. pipe.asked \in Ancestors(up)
      BY <1>0 DEF Running
    <2> QED
      BY <2>2, <2>3
  <1>3. /\ next \in {"checkout", "reset"}
        /\ next = "reset" => pipe.pc = "fetchForReset"
    BY <1>0
  <1> HIDE DEF next, up
  <1>4. Became(next, pipe.heads, pipe.on, up, pipe.force)
    BY <1>0, <1>1, BasicFacts, PipeChanges
  <1>5. Running'
    BY <1>0, <1>2, <1>3, <1>4 DEF Became, Running, OnTarget, UpToDate, LocalHead, Ancestors
  <1> QED
    BY <1>5 DEF PipeInv

\* The target branch is checked out, created where HEAD is if it is missing.
LEMMA CheckoutStep ==
  ASSUME IInv, CheckoutToBranch
  PROVE  PipeInv'
  <1> DEFINE b == pipe.target.branch
             c == IF pipe.heads[b] = 0 THEN LocalHead ELSE pipe.heads[b]
  <1>0. Running /\ commits' = commits /\ remote' = remote /\ pipe.pc = "checkout"
    BY RunningPipe DEF CheckoutToBranch
  <1>1. CheckedOut("pullUpstream", b, c)
    BY Zenon DEF CheckoutToBranch, CheckedOut
  <1>2. b \in Branches
    BY <1>0, TargetFacts DEF Running
  <1>3. c \in 0 .. Len(commits) /\ c # 0
    BY <1>0, <1>2 DEF Running, LocalHead
  <1>4. b = pipe.target.branch
    OBVIOUS
  <1> HIDE DEF b, c
  <1>5. Became("pullUpstream", [pipe.heads EXCEPT ![b] = c], b, pipe.upstream, pipe.force)
    BY <1>0, <1>1, BasicFacts, PipeChanges
  <1>6. pipe'.heads \in [Branches -> 0 .. Len(commits)] /\ pipe'.heads[pipe'.on] = c
    BY <1>0, <1>2, <1>3, <1>5 DEF Became, Running
  <1>7. Running'
    BY <1>0, <1>2, <1>3, <1>4, <1>5, <1>6 DEF Became, Running, OnTarget, UpToDate, LocalHead, Ancestors
  <1> QED
    BY <1>7 DEF PipeInv

\* The upstream is pulled from its repository, and then the target branch
\* from its own, where it may be missing.
LEMMA PullSteps ==
  ASSUME IInv, PullUpstream \/ PullOrigin
  PROVE  PipeInv'
  <1>1. CASE PullUpstream
    <2>1. /\ remote[Upstream][Main] \in 0 .. Len(commits)
          /\ pipe.pc = "pullUpstream" /\ Pull(remote[Upstream][Main], "pullOrigin")
      BY <1>1, BranchFacts, GitPipelineAssumption DEF PullUpstream
    <2> QED
      BY <2>1, PullStep
  <1>2. CASE PullOrigin
    <2> DEFINE ref == remote[pipe.target.repo][pipe.target.branch]
    <2>0. pipe.pc = "pullOrigin" /\ Running
      BY <1>2, RunningPipe DEF PullOrigin
    <2>1. CASE Pull(ref, "merge")
      <3>1. ref \in 0 .. Len(commits)
        BY <2>0, TargetFacts, BranchFacts DEF Running
      <3> QED
        BY <2>0, <2>1, <3>1, PullStep
    <2>2. CASE Goto("merge") /\ UNCHANGED <<commits, remote>>
      <3>1. Became("merge", pipe.heads, pipe.on, pipe.upstream, pipe.force)
        BY <2>0, <2>2, BasicFacts, PipeChanges
      <3>2. Running'
        BY <2>0, <2>2, <3>1 DEF Became, Running, OnTarget, UpToDate, LocalHead, Ancestors
      <3> QED
        BY <3>2 DEF PipeInv
    <2> QED
      BY <1>2, <2>1, <2>2 DEF PullOrigin
  <1> QED
    BY <1>1, <1>2

\* The merge of the local upstream branch leaves the target branch alone or
\* moves it forward.
LEMMA MergeStep ==
  ASSUME IInv, MergeUpstream
  PROVE  PipeInv'
  <1> DEFINE ref == pipe.heads[Main]
  <1>0. /\ Running /\ CommitsInv /\ commits' = commits /\ remote' = remote
        /\ pipe.pc = "merge"
    BY RunningPipe DEF MergeUpstream
  <1>1. /\ LocalHead \in 0 .. Len(commits) /\ ref \in 0 .. Len(commits)
        /\ Ancestors(0) = {} /\ pipe.on \in Branches
    BY <1>0, AncestorFacts, GitPipelineAssumption DEF Running, LocalHead
  <1>2. CASE Goto("generate")
    <2>1. Became("generate", pipe.heads, pipe.on, pipe.upstream, pipe.force)
      BY <1>0, <1>2, BasicFacts, PipeChanges
    <2>2. Running'
      BY <1>0, <2>1 DEF Became, Running, OnTarget, UpToDate, LocalHead, Ancestors
    <2> QED
      BY <2>2 DEF PipeInv
  <1>3. CASE LocalHead \in Ancestors(ref) /\ Moved("generate", pipe.on, ref)
    <2> HIDE DEF ref
    <2>1. Became("generate", [pipe.heads EXCEPT ![pipe.on] = ref], pipe.on, pipe.upstream,
                 pipe.force)
      BY <1>0, <1>3, BasicFacts, PipeChanges
    <2>2. Ancestors(LocalHead) \subseteq Ancestors(ref) /\ ref # 0
      BY <1>0, <1>1, <1>3, AncestorFacts
    <2>3. pipe.target.strategy = "" \/ pipe.asked \in Ancestors(ref)
      BY <1>0, <2>2 DEF Running, UpToDate, OnTarget
    <2>4. pipe'.heads \in [Branches -> 0 .. Len(commits)] /\ pipe'.heads[pipe'.on] = ref
      BY <1>0, <1>1, <2>1 DEF Became, Running
    <2>5. Running'
      BY <1>0, <2>1, <2>2, <2>3, <2>4 DEF Became, Running, OnTarget, UpToDate, LocalHead, Ancestors
    <2> QED
      BY <2>5 DEF PipeInv
  <1>4. CASE Fail
    BY <1>0, <1>4, FailStep
  <1> QED
    BY <1>2, <1>3, <1>4, Zenon DEF MergeUpstream, Moved

\* The reset puts the target branch where the fetched upstream branch is.
LEMMA ResetStep ==
  ASSUME IInv, UpstreamBasedHardReset
  PROVE  PipeInv'
  <1> DEFINE b == pipe.target.branch
             c == pipe.upstream
  <1>0. /\ Running /\ CommitsInv /\ commits' = commits /\ remote' = remote
        /\ pipe.pc = "reset"
    BY RunningPipe DEF UpstreamBasedHardReset
  <1>1. Reset("generate", b, c)
    BY Zenon DEF UpstreamBasedHardReset, Reset
  <1>2. b \in Branches
    BY <1>0, TargetFacts DEF Running
  <1>3. c \in 0 .. Len(commits) /\ pipe.asked \in Ancestors(c) /\ c # 0
    BY <1>0, AncestorFacts DEF Running
  <1>4. b = pipe.target.branch /\ pipe.target.strategy \in HardResets
    BY <1>0 DEF Running
  <1> HIDE DEF b, c
  <1>5. Became("generate", [pipe.heads EXCEPT ![b] = c], b, pipe.upstream, TRUE)
    BY <1>0, <1>1, BasicFacts, PipeChanges
  <1>6. pipe'.heads \in [Branches -> 0 .. Len(commits)] /\ pipe'.heads[pipe'.on] = c
    BY <1>0, <1>2, <1>3, <1>5 DEF Became, Running
  <1>7. Running'
    BY <1>0, <1>2, <1>3, <1>4, <1>5, <1>6 DEF Became, Running, OnTarget, UpToDate, LocalHead, Ancestors
  <1> QED
    BY <1>7 DEF PipeInv

\* The documents are placed in the worktree; the branches stay.
LEMMA GenerateStep ==
  ASSUME IInv, Generate
  PROVE  PipeInv' /\ commits' = commits /\ remote' = remote
  <1>0. Running /\ commits' = commits /\ remote' = remote /\ pipe.pc = "generate"
    BY RunningPipe DEF Generate
  <1>1. PICK d, e : Claimed("commit", d, e)
    BY Zenon DEF Generate, Claimed
  <1>2. Became("commit", pipe.heads, pipe.on, pipe.upstream, pipe.force)
    BY <1>0, <1>1, BasicFacts, PipeChanges
  <1>3. Running'
    BY <1>0, <1>2 DEF Became, Running, OnTarget, UpToDate, LocalHead, Ancestors
  <1> QED
    BY <1>0, <1>3 DEF PipeInv

\* The commit is a child of the checked out branch.
LEMMA CommitStep ==
  ASSUME IInv, Commit
  PROVE  IInv' /\ remote' = remote
  <1>0. /\ Running /\ CommitsInv /\ RemoteInv /\ remote' = remote /\ IsHistory
        /\ pipe.pc = "commit"
    BY RunningPipe DEF Commit, IInv
  <1>1. CASE Claimed("push", None, {}) /\ commits' = commits
    <2>1. Became("push", pipe.heads, pipe.on, pipe.upstream, pipe.force)
      BY <1>0, <1>1, BasicFacts, PipeChanges
    <2>2. Running'
      BY <1>0, <1>1, <2>1 DEF Became, Running, OnTarget, UpToDate, LocalHead, Ancestors
    <2> QED
      BY <1>0, <1>1, <2>2
         DEF IInv, GraphInv, PipeInv, IsHistory, CommitsInv, RemoteInv, Indices
  <1>2. ASSUME NEW tree, commits' = NewCommit(LocalHead, tree),
               Committed("push", None, {}, pipe.on, Len(commits'))
        PROVE  IInv'
    <2> DEFINE n == Len(commits)
    <2>1. LocalHead \in 0 .. n /\ LocalHead # 0 /\ pipe.on \in Branches
      BY <1>0 DEF Running, LocalHead
    <2>2. /\ IsHistory' /\ CommitsInv' /\ n \in Nat /\ Len(commits') = n + 1
          /\ \A c \in 0 .. n : Ancestors(c)' = Ancestors(c)
          /\ commits'[n + 1].anc = Ancestors(LocalHead) \cup {n + 1}
      BY <1>0, <1>2, <2>1, CommitAdded
    <2>3. Became("push", [pipe.heads EXCEPT ![pipe.on] = n + 1], pipe.on, pipe.upstream, pipe.force)
      BY <1>0, <1>2, <2>2, BasicFacts, PipeChanges
    <2>4. pipe'.heads \in [Branches -> 0 .. n + 1] /\ pipe'.heads[pipe'.on] = n + 1
      <3>1. ASSUME NEW h \in [Branches -> 0 .. n], NEW b \in Branches
            PROVE  /\ [h EXCEPT ![b] = n + 1] \in [Branches -> 0 .. n + 1]
                   /\ [h EXCEPT ![b] = n + 1][b] = n + 1
        <4>1. 0 .. n \subseteq 0 .. n + 1 /\ n + 1 \in 0 .. n + 1
          BY <2>2
        <4> HIDE DEF n
        <4> QED
          BY <4>1
      <3>2. pipe.heads \in [Branches -> 0 .. n]
        BY <1>0 DEF Running
      <3> QED
        BY <2>1, <2>3, <3>1, <3>2 DEF Became
    <2>5. RemoteInv'
      BY <1>0, <2>2 DEF RemoteInv
    <2>6. Ancestors(LocalHead)' = Ancestors(LocalHead) \cup {n + 1}
      BY <2>2, <2>4 DEF Ancestors, LocalHead
    <2>7. pipe'.asked \in Ancestors(remote[Upstream][Main])'
      <3>1. remote[Upstream][Main] \in 0 .. n
        BY BranchFacts, GitPipelineAssumption
      <3>2. pipe.asked \in Ancestors(remote[Upstream][Main]) /\ pipe'.asked = pipe.asked
        BY <1>0, <2>3 DEF Running, Became
      <3> QED
        BY <1>0, <2>2, <3>1, <3>2 DEF Ancestors
    <2>8. /\ pipe.target \in RemoteTargets /\ pipe.on = pipe.target.branch
          /\ pipe.obj \in Requested /\ pipe.ver \in {"new", None} /\ pipe.rendering \in Kinds
          /\ pipe.upstream \in 0 .. n
          /\ pipe.force => pipe.target.strategy \in HardResets
          /\ pipe.target.strategy = "" \/ pipe.asked \in Ancestors(LocalHead)
      BY <1>0 DEF Running, OnTarget, UpToDate
    <2>9. /\ pipe'.upstream \in 0 .. n + 1
          /\ n + 1 # 0
          /\ pipe'.target.strategy = "" \/ pipe'.asked \in Ancestors(LocalHead)'
      <3>1. /\ pipe'.upstream = pipe.upstream /\ pipe'.target = pipe.target
            /\ pipe'.asked = pipe.asked
        BY <2>3 DEF Became
      <3>2. 0 .. n \subseteq 0 .. n + 1 /\ n + 1 # 0
        BY <2>2
      <3>3. Ancestors(LocalHead) \subseteq Ancestors(LocalHead)'
        BY <2>6
      <3> QED
        BY <2>8, <3>1, <3>2, <3>3
    <2> HIDE DEF n
    <2>10. Running'
      <3>1. /\ IsPipe(pipe)' /\ pipe'.pc = "push" /\ pipe'.target \in RemoteTargets
            /\ pipe'.on \in Branches /\ pipe'.on = pipe'.target.branch
            /\ pipe'.force => pipe'.target.strategy \in HardResets
            /\ pipe'.obj \in Requested /\ pipe'.ver \in {"new", None}
            /\ pipe'.rendering \in Kinds
        BY <2>1, <2>3, <2>8 DEF Became
      <3>2. LocalHead' = n + 1
        BY <2>4 DEF LocalHead
      <3> QED
        BY <2>2, <2>4, <2>7, <2>9, <3>1, <3>2 DEF Running, OnTarget, UpToDate
    <2> QED
      BY <2>2, <2>5, <2>10 DEF IInv, GraphInv, PipeInv
  <1> QED
    BY <1>0, <1>1, <1>2, Zenon DEF Commit, Claimed, Committed

\* The push ends the pipeline: the target branch becomes the checked out one,
\* which is not empty and, unless it is forced, contains what was there.
LEMMA PushStep ==
  ASSUME IInv, Push
  PROVE  /\ IInv'
         /\ \A r \in Repositories, b \in Branches :
              \/ remote'[r][b] = remote[r][b]
              \/ remote[r][b] \in commits'[remote'[r][b]].anc \cup {0}
              \/ pipe.target.strategy \in HardResets
  <1> DEFINE t == pipe.target
             c == LocalHead
  <1>0. /\ Running /\ CommitsInv /\ RemoteInv /\ IsHistory /\ pipe.pc = "push"
        /\ commits' = commits /\ pipe' = Idle
    BY RunningPipe DEF Push, IInv
  <1>1. t.repo \in Repositories /\ t.branch \in Branches
    BY <1>0, TargetFacts DEF Running
  <1>2. c \in 0 .. Len(commits) /\ c # 0 /\ pipe.heads[t.branch] = c
    BY <1>0 DEF Running, LocalHead, OnTarget
  <1>3. /\ remote' = [remote EXCEPT ![t.repo][t.branch] = c]
        /\ MayPush(pipe.force, remote[t.repo][t.branch], c)
    BY <1>2, Zenon DEF Push
  <1>4. \/ t.strategy \in HardResets
        \/ remote[t.repo][t.branch] = 0
        \/ remote[t.repo][t.branch] \in commits[c].anc
    BY <1>0, <1>2, <1>3 DEF MayPush, Running, Ancestors
  <1> HIDE DEF t, c
  <1>5. /\ RemoteInv'
        /\ remote'[t.repo][t.branch] = c
        /\ \A r \in Repositories, b \in Branches :
             remote'[r][b] # remote[r][b] => r = t.repo /\ b = t.branch
    BY <1>0, <1>1, <1>2, <1>3 DEF RemoteInv
  <1>6. IInv'
    BY <1>0, <1>5 DEF IInv, GraphInv, PipeInv, IsHistory, CommitsInv, Indices, Idle
  <1> QED
    BY <1>0, <1>4, <1>5, <1>6 DEF t

---------------------------------------------------------------------------
(* The steps of other people.                                              *)

\* What others do to the branches leaves a pipeline in progress in order, as
\* long as no commit changes and the upstream branch keeps what it has.
LEMMA OthersKeepPipe ==
  ASSUME IInv, pipe' = pipe, RemoteInv', Len(commits') \in Nat, Len(commits) <= Len(commits'),
         \A c \in 0 .. Len(commits) : Ancestors(c)' = Ancestors(c),
         commits[remote[Upstream][Main]].anc \subseteq commits'[remote'[Upstream][Main]].anc
  PROVE  PipeInv'
  <1> DEFINE n == Len(commits)
  <1>1. n \in Nat /\ 0 .. n \subseteq 0 .. Len(commits')
    BY BasicFacts
  <1>2. Upstream \in Repositories /\ Main \in Branches
    BY GitPipelineAssumption
  <1>3. CASE pipe = Idle
    BY <1>3 DEF PipeInv, Idle
  <1>4. CASE Running
    <2>1. /\ IsPipe(pipe) /\ pipe.target \in RemoteTargets
          /\ pipe.obj \in Requested /\ pipe.ver \in {"new", None} /\ pipe.rendering \in Kinds
          /\ pipe.pc \in OnTarget \cup {"fetch", "fetchForReset", "checkout", "reset"}
          /\ pipe.heads \in [Branches -> 0 .. n]
          /\ pipe.on \in Branches /\ pipe.heads[pipe.on] # 0
          /\ pipe.upstream \in 0 .. n
          /\ pipe.asked \in Ancestors(remote[Upstream][Main])
          /\ pipe.force => pipe.target.strategy \in HardResets
          /\ pipe.pc \in {"fetchForReset", "reset"} => pipe.target.strategy \in HardResets
          /\ pipe.pc = "reset" => pipe.asked \in Ancestors(pipe.upstream)
          /\ pipe.pc \in OnTarget => pipe.on = pipe.target.branch
          /\ pipe.pc \in UpToDate =>
               pipe.target.strategy = "" \/ pipe.asked \in Ancestors(pipe.heads[pipe.on])
      BY <1>4 DEF Running, LocalHead
    <2>2. pipe.heads[pipe.on] \in 0 .. n
      BY <2>1
    <2>3. /\ Ancestors(pipe.upstream)' = Ancestors(pipe.upstream)
          /\ Ancestors(LocalHead)' = Ancestors(pipe.heads[pipe.on])
      <3>1. ASSUME NEW c \in 0 .. n, NEW d, d = c
            PROVE  (IF d = 0 THEN {} ELSE commits'[d].anc) = Ancestors(c)
        BY <3>1 DEF Ancestors
      <3> QED
        BY <2>1, <2>2, <3>1 DEF Ancestors, LocalHead
    <2>4. pipe.asked \in Ancestors(remote[Upstream][Main])'
      <3>1. remote[Upstream][Main] # 0 /\ remote'[Upstream][Main] # 0
        BY <1>2, RunningPipe DEF RemoteInv, IInv, GraphInv
      <3> QED
        BY <2>1, <3>1 DEF Ancestors
    <2>5. pipe.heads \in [Branches -> 0 .. Len(commits')] /\ pipe.upstream \in 0 .. Len(commits')
      BY <1>1, <2>1
    <2>6. Running'
      BY <2>1, <2>3, <2>4, <2>5 DEF Running, LocalHead
    <2> QED
      BY <2>6 DEF PipeInv
  <1> QED
    BY <1>3, <1>4 DEF IInv, GraphInv, PipeInv

\* Others push a child of the branch, or of the default branch.
LEMMA PushByOthersStep ==
  ASSUME IInv, NEW r \in Repositories, NEW b \in Branches, PushByOthers(r, b)
  PROVE  /\ IInv'
         /\ \A q \in Repositories, d \in Branches :
              \/ remote'[q][d] = remote[q][d]
              \/ remote[q][d] \in commits'[remote'[q][d]].anc \cup {0}
  <1> DEFINE n == Len(commits)
             from == IF remote[r][b] = 0 THEN remote[r][Main] ELSE remote[r][b]
  <1>1. /\ IsHistory /\ CommitsInv /\ RemoteInv /\ Upstream \in Repositories
        /\ Main \in Branches
    BY GitPipelineAssumption DEF IInv, GraphInv
  <1>2. PICK tree : commits' = NewCommit(from, tree) /\ SetBranch(r, b, Len(commits'))
    BY Zenon DEF PushByOthers
  <1>3. from \in Indices /\ (remote[r][b] # 0 => from = remote[r][b])
    <2>1. remote[r][b] \in 0 .. n /\ remote[r][Main] \in Indices /\ n \in Nat
      BY BranchFacts, BasicFacts
    <2> QED
      BY <2>1 DEF Indices
  <1> HIDE DEF from
  <1>4. from \in 0 .. n
    BY <1>3, BasicFacts DEF Indices
  <1>5. /\ IsHistory' /\ CommitsInv' /\ n \in Nat /\ Len(commits') = n + 1
        /\ \A c \in 0 .. n : Ancestors(c)' = Ancestors(c)
        /\ commits'[n + 1].anc = Ancestors(from) \cup {n + 1}
    BY <1>1, <1>2, <1>4, CommitAdded
  <1>6. pipe' = pipe /\ remote' = [remote EXCEPT ![r][b] = n + 1]
    BY <1>2, <1>5 DEF SetBranch
  <1>7. 0 .. n \subseteq 0 .. n + 1 /\ n + 1 \in 0 .. n + 1 /\ n + 1 # 0
    BY <1>5
  <1>8. from \in commits'[n + 1].anc /\ commits[from].anc \subseteq commits'[n + 1].anc
    <2>1. from \in Ancestors(from) /\ Ancestors(from) = commits[from].anc
      BY <1>1, <1>3, AncestorFacts DEF Ancestors, Indices
    <2> QED
      BY <1>5, <2>1
  <1>a. \A c \in Indices : commits'[c].anc = commits[c].anc
    <2>1. ASSUME NEW c \in 1 .. n
          PROVE  commits'[c].anc = commits[c].anc
      BY <1>5 DEF Ancestors
    <2> QED
      BY <2>1 DEF Indices
  <1> HIDE DEF n
  <1>9. /\ RemoteInv' /\ remote'[r][b] = n + 1
        /\ \A q \in Repositories, d \in Branches :
             \/ q = r /\ d = b
             \/ remote'[q][d] = remote[q][d]
    <2>1. remote \in [Repositories -> [Branches -> 0 .. n + 1]]
      BY <1>1, <1>7 DEF RemoteInv, n
    <2> QED
      BY <1>1, <1>5, <1>6, <1>7, <2>1 DEF RemoteInv
  <1>10. commits[remote[Upstream][Main]].anc \subseteq commits'[remote'[Upstream][Main]].anc
    <2>1. CASE Upstream = r /\ Main = b
      <3>1. remote[Upstream][Main] # 0
        BY <1>1 DEF RemoteInv
      <3> QED
        BY <1>3, <1>8, <1>9, <2>1, <3>1
    <2>2. CASE ~(Upstream = r /\ Main = b)
      <3>1. remote[Upstream][Main] \in Indices
        BY <1>1, BranchFacts
      <3> QED
        BY <1>1, <1>9, <1>a, <2>2, <3>1
    <2> QED
      BY <2>1, <2>2
  <1>11. PipeInv'
    <2>1. Len(commits') \in Nat /\ Len(commits) <= Len(commits')
      BY <1>5 DEF n
    <2> QED
      BY <1>5, <1>6, <1>9, <1>10, <2>1, OthersKeepPipe DEF n
  <1> QED
    BY <1>3, <1>5, <1>8, <1>9, <1>11 DEF IInv, GraphInv

\* Others fast-forward a branch.
LEMMA MergeByOthersStep ==
  ASSUME IInv, NEW r \in Repositories, NEW from \in Branches, NEW to \in Branches,
         MergeByOthers(r, from, to)
  PROVE  /\ IInv'
         /\ \A q \in Repositories, d \in Branches :
              \/ remote'[q][d] = remote[q][d]
              \/ remote[q][d] \in commits'[remote'[q][d]].anc \cup {0}
  <1> DEFINE c == remote[r][from]
  <1>1. /\ IsHistory /\ CommitsInv /\ RemoteInv /\ Upstream \in Repositories
        /\ Main \in Branches /\ Len(commits) \in Nat
    BY GitPipelineAssumption, BasicFacts DEF IInv, GraphInv
  <1>2. /\ commits' = commits /\ pipe' = pipe /\ c # 0
        /\ remote' = [remote EXCEPT ![r][to] = c]
        /\ remote[r][to] \in Ancestors(c)
    BY DEF MergeByOthers, SetBranch
  <1>3. c \in 0 .. Len(commits) /\ remote[r][to] \in 0 .. Len(commits)
    BY BranchFacts
  <1> HIDE DEF c
  <1>4. /\ RemoteInv' /\ remote'[r][to] = c
        /\ \A q \in Repositories, d \in Branches :
             \/ q = r /\ d = to
             \/ remote'[q][d] = remote[q][d]
    BY <1>1, <1>2, <1>3 DEF RemoteInv
  <1>5. remote[r][to] \in commits[c].anc
    BY <1>2 DEF Ancestors
  <1>6. commits[remote[Upstream][Main]].anc \subseteq commits'[remote'[Upstream][Main]].anc
    <2>1. CASE Upstream = r /\ Main = to
      <3>1. remote[r][to] # 0
        BY <1>1, <2>1 DEF RemoteInv
      <3>2. Ancestors(remote[r][to]) \subseteq Ancestors(c)
        BY <1>1, <1>2, <1>3, AncestorFacts
      <3> QED
        BY <1>2, <1>4, <2>1, <3>1, <3>2 DEF Ancestors
    <2>2. CASE ~(Upstream = r /\ Main = to)
      BY <1>1, <1>2, <1>4, <2>2
    <2> QED
      BY <2>1, <2>2
  <1>7. PipeInv'
    <2>1. \A d \in 0 .. Len(commits) : Ancestors(d)' = Ancestors(d)
      BY <1>2 DEF Ancestors
    <2> QED
      BY <1>1, <1>2, <1>4, <1>6, <2>1, OthersKeepPipe
  <1>8. IsHistory' /\ CommitsInv'
    BY <1>1, <1>2 DEF IsHistory, CommitsInv, Indices
  <1> QED
    BY <1>2, <1>4, <1>5, <1>7, <1>8 DEF IInv, GraphInv

---------------------------------------------------------------------------
(* The theorems.                                                           *)

\* A step that moves no branch and makes no commit only has to keep the
\* pipeline in order.
LEMMA LocalStep ==
  ASSUME IInv, PipeInv', commits' = commits, remote' = remote
  PROVE  IInv'
  BY DEF IInv, GraphInv, IsHistory, CommitsInv, RemoteInv, Indices

\* Only a push and other people move a branch, and they keep its commits,
\* except for the push of a strategy that may hard reset it.
KeepsCommits ==
  \A r \in Repositories, b \in Branches :
    \/ remote'[r][b] = remote[r][b]
    \/ remote[r][b] \in commits'[remote'[r][b]].anc \cup {0}
    \/ pipe.target.strategy \in HardResets

\* Every step keeps the invariant, and the commits of every branch.
LEMMA NextIInv ==
  ASSUME IInv, [Next]_vars
  PROVE  IInv' /\ KeepsCommits
  <1>1. ASSUME PipeInv', commits' = commits, remote' = remote
        PROVE  IInv' /\ KeepsCommits
    BY <1>1, LocalStep DEF KeepsCommits
  <1>2. CASE Request
    <2>1. PICK t \in RemoteTargets, o \in Requested, v \in {"new", None}, x \in Kinds :
            Start(t, o, v, x)
      BY <1>2 DEF Request
    <2>2. PipeInv'
      BY <2>1, StartStep DEF PipeInv
    <2>3. commits' = commits /\ remote' = remote
      BY <2>1 DEF Start
    <2> QED
      BY <1>1, <2>2, <2>3
  <1>3. CASE FetchUpstream
    BY <1>1, <1>3, FetchStep DEF FetchUpstream
  <1>4. CASE CheckoutToBranch
    BY <1>1, <1>4, CheckoutStep DEF CheckoutToBranch
  <1>5. CASE PullUpstream \/ PullOrigin
    <2>1. PipeInv'
      BY <1>5, PullSteps
    <2>2. commits' = commits /\ remote' = remote
      BY <1>5 DEF PullUpstream, PullOrigin, Pull
    <2> QED
      BY <1>1, <2>1, <2>2
  <1>6. CASE MergeUpstream
    BY <1>1, <1>6, MergeStep DEF MergeUpstream
  <1>7. CASE UpstreamBasedHardReset
    BY <1>1, <1>7, ResetStep DEF UpstreamBasedHardReset
  <1>8. CASE CallFails
    <2>1. pipe.pc # "idle" /\ Fail /\ commits' = commits /\ remote' = remote
      BY <1>8 DEF CallFails
    <2> QED
      BY <1>1, <2>1, FailStep
  <1>9. CASE Generate
    BY <1>1, <1>9, GenerateStep
  <1>10. CASE Commit
    BY <1>10, CommitStep DEF KeepsCommits
  <1>11. CASE Push
    BY <1>11, PushStep DEF KeepsCommits
  <1>12. CASE \E r \in Repositories, b \in Branches : PushByOthers(r, b)
    BY <1>12, PushByOthersStep DEF KeepsCommits
  <1>13. CASE \E r \in Repositories, from, to \in Branches : MergeByOthers(r, from, to)
    BY <1>13, MergeByOthersStep DEF KeepsCommits
  <1>14. CASE UNCHANGED <<commits, remote, pipe>>
    <2>1. PipeInv'
      BY <1>14 DEF IInv, GraphInv, PipeInv, Running, LocalHead, Ancestors, Idle
    <2> QED
      BY <1>1, <1>14, <2>1
  <1>15. CASE \E r \in Repositories, o \in Objects : Evict(r, o)
    BY <1>14, <1>15 DEF Evict
  <1>16. CASE UNCHANGED vars
    BY <1>14, <1>16 DEF vars
  <1> QED
    BY <1>2, <1>3, <1>4, <1>5, <1>6, <1>7, <1>8, <1>9, <1>10, <1>11, <1>12, <1>13, <1>15, <1>16
       DEF Next, Pipeline, Others

\* The invariant holds in every reachable state.
LEMMA InvariantHolds == Spec => []IInv
  <1>1. IInv /\ [Next]_vars => IInv'
    BY NextIInv
  <1> QED
    BY InitIInv, <1>1, PTL DEF Spec

\* What RunGitPipeline pushes under a merge strategy contains the upstream
\* branch as it was when the request was intercepted, whichever way the
\* strategy took and whatever others pushed meanwhile.
THEOREM PushedHasUpstream == Spec => []UpstreamIncluded
  <1>1. IInv => UpstreamIncluded
    <2> SUFFICES ASSUME IInv, pipe # Idle, pipe.pc = "push"
                 PROVE  pipe.asked \in Ancestors(LocalHead) \/ pipe.target.strategy = ""
      BY DEF UpstreamIncluded
    <2>1. Running
      BY DEF IInv, GraphInv, PipeInv
    <2> QED
      BY <2>1 DEF Running, UpToDate, OnTarget
  <1> QED
    BY InvariantHolds, <1>1, PTL

\* No push, of syngit or of others, drops a commit of the branch, unless the
\* strategy of the target may hard reset it.
THEOREM PushesKeepCommits == Spec => NoCommitLost
  <1> DEFINE Kept ==
        \A r \in Repositories, b \in Branches :
          remote'[r][b] # remote[r][b]
            /\ remote[r][b] \notin commits'[remote'[r][b]].anc \cup {0} =>
          pipe.target.strategy \in {"TryHardResetOrDie", "TryFastForwardOrHardReset"}
  <1>1. IInv /\ [Next]_vars => [Kept]_vars
    BY NextIInv DEF KeepsCommits, HardResets
  <1> QED
    BY InvariantHolds, <1>1, PTL DEF Spec, NoCommitLost

---------------------------------------------------------------------------
(* Recursion over the artifacts of a set.                                  *)

\* A finite set in some order.
LEMMA ListOfSet ==
  ASSUME NEW S, IsFiniteSet(S)
  PROVE  /\ Cardinality(S) \in Nat
         /\ SetToSeq(S) \in [1 .. Cardinality(S) -> S]
  <1>1. Cardinality(S) \in Nat /\ ExistsBijection(1 .. Cardinality(S), S)
    BY FS_CardinalityType
  <1>2. PICK f \in Bijection(1 .. Cardinality(S), S) : TRUE
    BY <1>1 DEF ExistsBijection
  <1>3. f \in [1 .. Cardinality(S) -> S] /\ IsInjective(f)
    BY <1>2 DEF Bijection, Injection, IsInjective
  <1> QED
    BY <1>1, <1>3 DEF SetToSeq

\* A set of numbers that is not empty has a least one.
LEMMA LeastNumber ==
  ASSUME NEW S \in SUBSET Nat, S # {}
  PROVE  \E n \in S : \A m \in S : n <= m
  <1> DEFINE R == {ss \in Nat \X Nat : ss[1] < ss[2]}
  <1>1. IsWellFoundedOn(R, Nat)
    BY NatLessThanWellFounded, Zenon DEF OpToRel
  <1> HIDE DEF R
  <1>2. PICK n \in S : \A m \in S : ~(<<m, n>> \in R)
    BY <1>1, WFMin
  <1>3. \A m \in S : <<m, n>> \in Nat \X Nat /\ ~(m < n)
    BY <1>2 DEF R
  <1>4. ASSUME NEW m \in S
        PROVE  n <= m
    <2>1. m \in Nat /\ n \in Nat /\ ~(m < n)
      BY <1>2, <1>3
    <2> QED
      BY <2>1
  <1> QED
    BY <1>2, <1>4

\* A function over 0 .. n, each value of which comes from the one before.
Iterates(g, C, F, base, s, n) ==
  /\ g \in [0 .. n -> C] /\ g[0] = base
  /\ \A i \in 1 .. n : g[i] = F[<<g[i - 1], s[i]>>]

\* A function defined from its previous value exists, with values where each
\* step stays.
LEMMA RecursionExists ==
  ASSUME NEW C, NEW A, NEW F \in [C \X A -> C], NEW base \in C, NEW n \in Nat,
         NEW s \in [1 .. n -> A]
  PROVE  \E g : Iterates(g, C, F, base, s, n)
  <1> DEFINE P(m) == \E g \in [0 .. m -> C] :
                       g[0] = base /\ \A i \in 1 .. m : g[i] = F[<<g[i - 1], s[i]>>]
             Bad == {m \in 0 .. n : ~P(m)}
  <1>1. P(0)
    <2> DEFINE g == [i \in 0 .. 0 |-> base]
    <2>1. g \in [0 .. 0 -> C] /\ g[0] = base /\ \A i \in 1 .. 0 : g[i] = F[<<g[i - 1], s[i]>>]
      OBVIOUS
    <2> QED
      BY <2>1
  <1>2. ASSUME NEW m \in 1 .. n, P(m - 1)
        PROVE  P(m)
    <2>1. PICK g \in [0 .. m - 1 -> C] :
            g[0] = base /\ \A i \in 1 .. m - 1 : g[i] = F[<<g[i - 1], s[i]>>]
      BY <1>2
    <2> DEFINE h == [i \in 0 .. m |-> IF i = m THEN F[<<g[m - 1], s[m]>>] ELSE g[i]]
    <2>2. g[m - 1] \in C /\ s[m] \in A
      BY <2>1
    <2>3. F[<<g[m - 1], s[m]>>] \in C
      BY <2>2
    <2>4. h \in [0 .. m -> C]
      BY <2>1, <2>3
    <2>5. h[0] = base
      BY <2>1
    <2>6. ASSUME NEW i \in 1 .. m
          PROVE  h[i] = F[<<h[i - 1], s[i]>>]
      <3>1. h[i - 1] = g[i - 1]
        OBVIOUS
      <3>2. CASE i = m
        <4>1. h[m] = F[<<g[m - 1], s[m]>>] /\ h[m - 1] = g[m - 1]
          BY <3>1, <3>2
        <4> HIDE DEF h
        <4> QED
          BY <3>2, <4>1
      <3>3. CASE i # m
        BY <2>1, <3>1, <3>3
      <3> QED
        BY <3>2, <3>3
    <2> QED
      BY <2>4, <2>5, <2>6
  <1>3. Bad = {}
    <2> SUFFICES ASSUME Bad # {} PROVE FALSE
      OBVIOUS
    <2> HIDE DEF P
    <2>1. Bad \in SUBSET Nat
      OBVIOUS
    <2>2. PICK m \in Bad : \A k \in Bad : m <= k
      BY <2>1, LeastNumber
    <2>3. m # 0 /\ m \in 0 .. n
      BY <1>1
    <2>4. P(m - 1)
      BY <2>2, <2>3
    <2> QED
      BY <1>2, <2>3, <2>4
  <1>4. P(n)
    <2> HIDE DEF P
    <2> QED
      BY <1>3
  <1> QED
    BY <1>4 DEF Iterates

\* What it satisfies.
LEMMA RecursionStays ==
  ASSUME NEW C, NEW n \in Nat, NEW g, g[0] \in C,
         \A i \in 1 .. n : g[i - 1] \in C => g[i] \in C
  PROVE  g[n] \in C
  <1> DEFINE Bad == {m \in 0 .. n : g[m] \notin C}
  <1> SUFFICES ASSUME Bad # {} PROVE FALSE
    OBVIOUS
  <1>1. PICK m \in Bad : \A k \in Bad : m <= k
    <2>1. Bad \in SUBSET Nat
      OBVIOUS
    <2> QED
      BY <2>1, LeastNumber
  <1>2. m \in 1 .. n /\ g[m - 1] \in C
    BY <1>1
  <1> QED
    BY <1>1, <1>2

\* Placing the first n artifacts.
Placing(f, find, obj, c, s, cs, n) ==
  f = [i \in 0 .. n |-> IF i = 0 THEN c ELSE placeOne(find, obj, f[i - 1], s[i], cs[s[i]])]

PlacingResult(find, obj, c, s, cs, n) == (CHOOSE f : Placing(f, find, obj, c, s, cs, n))[n]

\* A set of claims that placing any of the artifacts does not leave.
ClosedUnder(C, A, find, obj, cs) == \A d \in C, a \in A : placeOne(find, obj, d, a, cs[a]) \in C

\* The last artifact was placed on top of such a claim.
EndsIn(c, C, find, obj, sel, cs) == \E d \in C : c = placeOne(find, obj, d, sel, cs[sel])

\* The recursion over the artifacts exists, stays in a set that each placement
\* keeps, and ends with the placement of the last artifact.
LEMMA PlacingRecursion ==
  ASSUME NEW C, NEW A, NEW c \in C, NEW find, NEW obj, NEW cs, NEW n \in Nat, n > 0,
         NEW s \in [1 .. n -> A], ClosedUnder(C, A, find, obj, cs)
  PROVE  EndsIn(PlacingResult(find, obj, c, s, cs, n), C, find, obj, s[n], cs)
  <1> DEFINE F == [x \in C \X A |-> placeOne(find, obj, x[1], x[2], cs[x[2]])]
             f == CHOOSE h : Placing(h, find, obj, c, s, cs, n)
  <1>1. F \in [C \X A -> C] /\ \A d \in C, a \in A : F[<<d, a>>] = placeOne(find, obj, d, a, cs[a])
    BY DEF ClosedUnder
  <1> HIDE DEF F
  <1>2. PICK g : Iterates(g, C, F, c, s, n)
    BY <1>1, RecursionExists
  <1>3. g \in [0 .. n -> C] /\ g[0] = c /\ \A i \in 1 .. n : g[i] = F[<<g[i - 1], s[i]>>]
    BY <1>2 DEF Iterates
  <1>4. Placing(g, find, obj, c, s, cs, n)
    <2>1. ASSUME NEW i \in 0 .. n
          PROVE  g[i] = IF i = 0 THEN c ELSE placeOne(find, obj, g[i - 1], s[i], cs[s[i]])
      <3>1. CASE i # 0
        <4>1. i \in 1 .. n /\ i - 1 \in 0 .. n
          BY <3>1
        <4>2. g[i - 1] \in C /\ s[i] \in A
          BY <1>3, <4>1
        <4> QED
          BY <1>1, <1>3, <3>1, <4>1, <4>2
      <3> QED
        BY <1>3, <3>1
    <2> QED
      BY <1>3, <2>1 DEF Placing
  <1>5. Placing(f, find, obj, c, s, cs, n)
    BY <1>4, Zenon
  <1> HIDE DEF f
  <1>6. f[0] = c /\ \A i \in 1 .. n : f[i] = placeOne(find, obj, f[i - 1], s[i], cs[s[i]])
    BY <1>5 DEF Placing
  <1>7. f[n - 1] \in C
    <2>1. f[0] \in C /\ \A i \in 1 .. n - 1 : f[i - 1] \in C => f[i] \in C
      BY <1>6 DEF ClosedUnder
    <2>2. n - 1 \in Nat
      OBVIOUS
    <2> QED
      BY <2>1, <2>2, RecursionStays
  <1>8. f[n] = placeOne(find, obj, f[n - 1], s[n], cs[s[n]])
    BY <1>6
  <1> QED
    BY <1>7, <1>8 DEF f, PlacingResult, EndsIn

\* The artifacts of a set, placed one after the other.
LEMMA PlaceEach ==
  ASSUME NEW C, NEW A, IsFiniteSet(A), A # {}, NEW c \in C, NEW find, NEW obj, NEW cs,
         ClosedUnder(C, A, find, obj, cs)
  PROVE  \E a \in A : EndsIn(place(find, obj, c, SetToSeq(A), cs), C, find, obj, a, cs)
  <1>a. PICK n \in Nat : n = Cardinality(A)
    BY ListOfSet
  <1>1. PICK s \in [1 .. n -> A] : s = SetToSeq(A)
    BY <1>a, ListOfSet
  <1>2. n > 0
    <2>1. n # 0
      BY <1>a, FS_EmptySet
    <2> QED
      BY <2>1
  <1>3. Len(s) = n
    <2>1. s \in Seq(A)
      BY SeqDef
    <2> QED
      BY <2>1
  <1>4. place(find, obj, c, s, cs) = PlacingResult(find, obj, c, s, cs, n)
    BY <1>3 DEF place, Placing, PlacingResult
  <1>5. EndsIn(PlacingResult(find, obj, c, s, cs, n), C, find, obj, s[n], cs)
    BY <1>2, PlacingRecursion
  <1>6. s[n] \in A
    BY <1>2
  <1> QED
    BY <1>1, <1>4, <1>5, <1>6

---------------------------------------------------------------------------
(* Documents of a file.                                                    *)

Contents == Seq(Docs)

\* A file whose document at position i was replaced, or dropped.
Replaced(old, new, i, sel, ver) ==
  /\ i \in DOMAIN old /\ old[i].obj = sel
  /\ new = [old EXCEPT ![i] = Doc(sel, ver)]

\* Every document of a file is one of another.
DocsFrom(new, old) == \A i \in DOMAIN new : \E j \in DOMAIN old : new[i] = old[j]

\* A document is one of its object.
LEMMA DocFacts ==
  ASSUME NEW sel \in Objects, NEW ver \in {"old", "new"}
  PROVE  Doc(sel, ver) \in Docs /\ Doc(sel, ver).obj = sel
  BY DEF Docs, Doc

\* A replacement rewrites one document of the object in its place.
LEMMA ReplaceFacts ==
  ASSUME NEW content \in Contents, NEW sel \in Objects, NEW ver, ver # None,
         Matches(content, sel) # {}
  PROVE  \E i : Replaced(content, ReplaceDocInContent(content, sel, ver), i, sel, ver)
  <1> DEFINE M == Matches(content, sel)
             i == CHOOSE j \in M : \A k \in M : j <= k
  <1>1. M \in SUBSET Nat /\ M # {}
    BY DEF Matches, Contents
  <1>2. i \in M
    <2> HIDE DEF M
    <2>1. \E j \in M : \A k \in M : j <= k
      BY <1>1, LeastNumber
    <2> QED
      BY <2>1
  <1>3. i \in DOMAIN content /\ content[i].obj = sel
    BY <1>2 DEF Matches, matchDoc
  <1>4. ReplaceDocInContent(content, sel, ver) = [content EXCEPT ![i] = Doc(sel, ver)]
    BY DEF ReplaceDocInContent, ReplaceAt
  <1> HIDE DEF i
  <1> QED
    BY <1>3, <1>4 DEF Replaced

\* A deletion drops one document and leaves only documents that were there.
LEMMA DropFacts ==
  ASSUME NEW content \in Contents, NEW sel \in Objects, Matches(content, sel) # {}
  PROVE  /\ ReplaceDocInContent(content, sel, None) \in Contents
         /\ DocsFrom(ReplaceDocInContent(content, sel, None), content)
  <1> DEFINE M == Matches(content, sel)
             i == CHOOSE j \in M : \A k \in M : j <= k
             new == SubSeq(content, 1, i - 1) \o SubSeq(content, i + 1, Len(content))
  <1>1. M \in SUBSET Nat /\ M # {}
    BY DEF Matches, Contents
  <1>2. i \in M
    <2> HIDE DEF M
    <2>1. \E j \in M : \A k \in M : j <= k
      BY <1>1, LeastNumber
    <2> QED
      BY <2>1
  <1>3. i \in 1 .. Len(content) /\ Len(content) \in Nat
    BY <1>2 DEF Matches, Contents
  <1>4. ReplaceDocInContent(content, sel, None) = new
    BY DEF ReplaceDocInContent, RemoveAt
  <1> HIDE DEF i
  <1>5. new \in Contents /\ DocsFrom(new, content)
    <2> DEFINE a == SubSeq(content, 1, i - 1)
               b == SubSeq(content, i + 1, Len(content))
    <2>1. /\ a \in Seq(Docs) /\ Len(a) = i - 1
          /\ \A j \in 1 .. i - 1 : a[j] = content[j]
      BY <1>3 DEF Contents
    <2>2. /\ b \in Seq(Docs) /\ Len(b) = Len(content) - i
          /\ \A j \in 1 .. Len(content) - i : b[j] = content[i + j]
      BY <1>3 DEF Contents
    <2> HIDE DEF a, b
    <2>3. /\ a \o b \in Seq(Docs) /\ Len(a \o b) = Len(content) - 1
          /\ \A j \in 1 .. Len(content) - 1 :
               (a \o b)[j] = IF j <= i - 1 THEN a[j] ELSE b[j - (i - 1)]
      <3>1. /\ a \o b \in Seq(Docs) /\ Len(a \o b) = Len(a) + Len(b)
            /\ \A j \in 1 .. Len(a) + Len(b) :
                 (a \o b)[j] = IF j <= Len(a) THEN a[j] ELSE b[j - Len(a)]
        BY <2>1, <2>2, ConcatProperties
      <3>2. Len(a) + Len(b) = Len(content) - 1
        BY <1>3, <2>1, <2>2
      <3> QED
        BY <2>1, <3>1, <3>2
    <2>4. ASSUME NEW j \in 1 .. Len(content) - 1
          PROVE  \E k \in 1 .. Len(content) : (a \o b)[j] = content[k]
      <3>1. CASE j <= i - 1
        BY <1>3, <2>1, <2>3, <3>1
      <3>2. CASE ~(j <= i - 1)
        <4>1. j - (i - 1) \in 1 .. Len(content) - i /\ i + (j - (i - 1)) = j + 1
          BY <1>3, <3>2
        <4>2. (a \o b)[j] = content[j + 1] /\ j + 1 \in 1 .. Len(content)
          BY <1>3, <2>2, <2>3, <3>2, <4>1
        <4> QED
          BY <4>2
      <3> QED
        BY <3>1, <3>2
    <2>5. DOMAIN (a \o b) = 1 .. Len(content) - 1 /\ DOMAIN content = 1 .. Len(content)
      BY <1>3, <2>3 DEF Contents
    <2>6. DocsFrom(a \o b, content) /\ a \o b \in Contents
      BY <2>3, <2>4, <2>5 DEF DocsFrom, Contents
    <2> QED
      BY <2>6 DEF a, b
  <1> QED
    BY <1>4, <1>5

---------------------------------------------------------------------------
(* Files of a worktree.                                                    *)

Trees == UNION {[D -> Contents] : D \in SUBSET Paths}

\* Every file has a document, and a default file only those of its object.
OwnFile(p, content) ==
  \A q, o \in Objects :
    p = DefaultPath[q][o] => \A i \in DOMAIN content : content[i].obj = o

GoodFile(p, content) == content # <<>> /\ OwnFile(p, content)

GoodTree(tree) == tree \in Trees /\ \A p \in DOMAIN tree : GoodFile(p, tree[p])

\* A worktree maps paths to documents.
LEMMA TreeFacts ==
  /\ \A tree \in Trees :
       DOMAIN tree \subseteq Paths /\ \A p \in DOMAIN tree : tree[p] \in Contents
  /\ \A D \in SUBSET Paths : \A f : (\A p \in D : f[p] \in Contents) => [p \in D |-> f[p]] \in Trees
  <1>1. ASSUME NEW tree \in Trees
        PROVE  DOMAIN tree \subseteq Paths /\ \A p \in DOMAIN tree : tree[p] \in Contents
    <2>1. PICK D \in SUBSET Paths : tree \in [D -> Contents]
      BY DEF Trees
    <2> QED
      BY <2>1
  <1>2. ASSUME NEW D \in SUBSET Paths, NEW f, \A p \in D : f[p] \in Contents
        PROVE  [p \in D |-> f[p]] \in Trees
    BY <1>2 DEF Trees
  <1> QED
    BY <1>1, <1>2

\* The ways a tree is changed.
LEMMA WriteFacts ==
  ASSUME NEW tree \in Trees, NEW path \in Paths, NEW content \in Contents
  PROVE  /\ WriteFile(tree, path, content) \in Trees
         /\ DOMAIN WriteFile(tree, path, content) = DOMAIN tree \cup {path}
         /\ WriteFile(tree, path, content)[path] = content
         /\ \A p \in DOMAIN tree \ {path} : WriteFile(tree, path, content)[p] = tree[p]
  <1> DEFINE f == [p \in DOMAIN tree \cup {path} |-> IF p = path THEN content ELSE tree[p]]
  <1>1. DOMAIN tree \subseteq Paths /\ \A p \in DOMAIN tree : tree[p] \in Contents
    BY TreeFacts
  <1>2. /\ DOMAIN f = DOMAIN tree \cup {path} /\ f[path] = content
        /\ \A p \in DOMAIN tree \ {path} : f[p] = tree[p]
    OBVIOUS
  <1>3. DOMAIN f \in SUBSET Paths /\ \A p \in DOMAIN f : f[p] \in Contents
    BY <1>1
  <1>4. f = [p \in DOMAIN f |-> f[p]]
    OBVIOUS
  <1>5. f = WriteFile(tree, path, content)
    BY DEF WriteFile
  <1> HIDE DEF f
  <1>6. f \in Trees
    BY <1>3, <1>4, TreeFacts
  <1> QED
    BY <1>2, <1>5, <1>6

\* What a removal of files leaves.
LEMMA RemoveFacts ==
  ASSUME NEW tree \in Trees, NEW paths
  PROVE  /\ RemoveFiles(tree, paths) \in Trees
         /\ DOMAIN RemoveFiles(tree, paths) = DOMAIN tree \ paths
         /\ \A p \in DOMAIN tree \ paths : RemoveFiles(tree, paths)[p] = tree[p]
  <1>1. DOMAIN tree \subseteq Paths /\ \A p \in DOMAIN tree : tree[p] \in Contents
    BY TreeFacts
  <1>2. DOMAIN tree \ paths \in SUBSET Paths /\ \A p \in DOMAIN tree \ paths : tree[p] \in Contents
    BY <1>1
  <1>3. [p \in DOMAIN tree \ paths |-> tree[p]] \in Trees
    BY <1>2, TreeFacts
  <1> QED
    BY <1>3 DEF RemoveFiles

\* A replacement in files that hold the object leaves all files where they
\* are, and all documents but one of each.
LEMMA ReplacementFacts ==
  ASSUME NEW tree \in Trees, NEW sel \in Objects, NEW ver \in {"old", "new"},
         NEW paths \in SUBSET Holding(tree, sel),
         NEW new, new = applyReplacement(tree, paths, sel, ver)
  PROVE  /\ new \in Trees /\ DOMAIN new = DOMAIN tree
         /\ \A p \in DOMAIN tree \ paths : new[p] = tree[p]
         /\ \A p \in paths : \E i : Replaced(tree[p], new[p], i, sel, ver)
  <1> DEFINE f == [p \in DOMAIN tree |->
                     IF p \in paths THEN ReplaceDocInContent(tree[p], sel, ver) ELSE tree[p]]
  <1>0. ver # None
    BY PlacementAssumption
  <1>1. /\ DOMAIN tree \subseteq Paths /\ \A p \in DOMAIN tree : tree[p] \in Contents
        /\ paths \subseteq DOMAIN tree /\ \A p \in paths : Matches(tree[p], sel) # {}
    BY TreeFacts DEF Holding
  <1>2. /\ DOMAIN f = DOMAIN tree /\ \A p \in DOMAIN tree \ paths : f[p] = tree[p]
        /\ \A p \in paths : f[p] = ReplaceDocInContent(tree[p], sel, ver)
        /\ f = [p \in DOMAIN f |-> f[p]]
    BY <1>1
  <1>3. new = RemoveFiles(f, {p \in paths : f[p] = <<>>})
    BY DEF applyReplacement
  <1> HIDE DEF f
  <1>4. ASSUME NEW p \in paths
        PROVE  /\ f[p] \in Contents /\ f[p] # <<>>
               /\ \E i : Replaced(tree[p], f[p], i, sel, ver)
    <2>1. PICK i : Replaced(tree[p], f[p], i, sel, ver)
      BY <1>0, <1>1, <1>2, ReplaceFacts
    <2>2. Doc(sel, ver) \in Docs
      BY DocFacts
    <2>3. tree[p] \in Contents /\ i \in DOMAIN tree[p] /\ f[p] = [tree[p] EXCEPT ![i] = Doc(sel, ver)]
      BY <1>1, <2>1 DEF Replaced
    <2>4. f[p] \in Contents /\ i \in DOMAIN f[p]
      BY <2>2, <2>3 DEF Contents
    <2> QED
      BY <2>1, <2>4
  <1>5. f \in Trees
    BY <1>1, <1>2, <1>4, TreeFacts
  <1>6. {p \in paths : f[p] = <<>>} = {}
    BY <1>4
  <1>7. DOMAIN new = DOMAIN f /\ new \in Trees /\ \A p \in DOMAIN f : new[p] = f[p]
    <2>1. new = RemoveFiles(f, {})
      BY <1>3, <1>6
    <2>2. /\ RemoveFiles(f, {}) \in Trees
          /\ DOMAIN RemoveFiles(f, {}) = DOMAIN f \ {}
          /\ \A p \in DOMAIN f \ {} : RemoveFiles(f, {})[p] = f[p]
      BY <1>5, RemoveFacts, Zenon
    <2> QED
      BY <2>1, <2>2
  <1> QED
    BY <1>1, <1>2, <1>4, <1>7

\* Dropping a document leaves no file without one, and only documents that
\* were there.
LEMMA DroppedFacts ==
  ASSUME NEW tree \in Trees, NEW sel \in Objects, NEW paths \in SUBSET Holding(tree, sel),
         NEW new, new = applyReplacement(tree, paths, sel, None)
  PROVE  /\ new \in Trees /\ DOMAIN new \subseteq DOMAIN tree
         /\ \A p \in DOMAIN tree \ paths : p \in DOMAIN new /\ new[p] = tree[p]
         /\ \A p \in DOMAIN new : DocsFrom(new[p], tree[p])
         /\ GoodTree(tree) => GoodTree(new)
  <1> DEFINE f == [p \in DOMAIN tree |->
                     IF p \in paths THEN ReplaceDocInContent(tree[p], sel, None) ELSE tree[p]]
             gone == {p \in paths : f[p] = <<>>}
  <1>1. /\ DOMAIN tree \subseteq Paths /\ \A p \in DOMAIN tree : tree[p] \in Contents
        /\ paths \subseteq DOMAIN tree /\ \A p \in paths : Matches(tree[p], sel) # {}
    BY TreeFacts DEF Holding
  <1>2. /\ DOMAIN f = DOMAIN tree /\ \A p \in DOMAIN tree \ paths : f[p] = tree[p]
        /\ \A p \in paths : f[p] = ReplaceDocInContent(tree[p], sel, None)
        /\ f = [p \in DOMAIN f |-> f[p]]
    BY <1>1
  <1>3. new = RemoveFiles(f, gone)
    BY DEF applyReplacement
  <1> HIDE DEF f
  <1>4. ASSUME NEW p \in paths
        PROVE  f[p] \in Contents /\ DocsFrom(f[p], tree[p])
    BY <1>1, <1>2, DropFacts
  <1>5. f \in Trees
    BY <1>1, <1>2, <1>4, TreeFacts
  <1>6. /\ new \in Trees /\ DOMAIN new = DOMAIN f \ gone
        /\ \A p \in DOMAIN f \ gone : new[p] = f[p]
    <2> HIDE DEF gone
    <2>1. /\ RemoveFiles(f, gone) \in Trees
          /\ DOMAIN RemoveFiles(f, gone) = DOMAIN f \ gone
          /\ \A p \in DOMAIN f \ gone : RemoveFiles(f, gone)[p] = f[p]
      BY <1>5, RemoveFacts, Zenon
    <2> QED
      BY <1>3, <2>1
  <1>7. ASSUME GoodTree(tree), NEW p \in DOMAIN new
        PROVE  GoodFile(p, new[p])
    <2>1. GoodFile(p, tree[p]) /\ new[p] = f[p] /\ p \in DOMAIN tree
      BY <1>2, <1>6, <1>7 DEF GoodTree
    <2>2. CASE p \in paths
      <3>1. DocsFrom(f[p], tree[p]) /\ f[p] # <<>>
        BY <1>4, <1>6, <2>2
      <3> QED
        BY <2>1, <3>1 DEF GoodFile, OwnFile, DocsFrom
    <2>3. CASE p \notin paths
      BY <1>2, <2>1, <2>3
    <2> QED
      BY <2>2, <2>3
  <1>8. ASSUME NEW p \in DOMAIN new
        PROVE  DocsFrom(new[p], tree[p])
    <2>1. new[p] = f[p] /\ p \in DOMAIN tree
      BY <1>2, <1>6
    <2>2. CASE p \in paths
      BY <1>4, <2>1, <2>2
    <2>3. CASE p \notin paths
      BY <1>2, <2>1, <2>3 DEF DocsFrom
    <2> QED
      BY <2>2, <2>3
  <1>9. /\ DOMAIN new \subseteq DOMAIN tree
        /\ \A p \in DOMAIN tree \ paths : p \in DOMAIN new /\ new[p] = tree[p]
    BY <1>1, <1>2, <1>6
  <1> QED
    BY <1>6, <1>7, <1>8, <1>9 DEF GoodTree

---------------------------------------------------------------------------
(* Claims.                                                                 *)

CacheEntries == Paths \cup {"NoCache", None}
Caches == [Objects -> CacheEntries]
Claims == [tree : Trees, add : SUBSET Paths, delete : SUBSET Paths, cache : Caches]
Versions == {"new", None}

\* A claim after another file was claimed.
ClaimsAlso(d, c, tree, paths, ver, cache) ==
  /\ d \in Claims /\ d.tree = tree /\ d.cache = cache
  /\ ver = None => d.add = c.add /\ d.delete = c.delete \cup paths
  /\ ver # None => d.add = c.add \cup paths /\ d.delete = c.delete

\* A claim adds the paths to the added or to the deleted ones.
LEMMA ClaimFacts ==
  ASSUME NEW c \in Claims, NEW tree \in Trees, NEW paths \in SUBSET Paths, NEW ver,
         NEW cache \in Caches
  PROVE  ClaimsAlso(Claim(c, tree, paths, ver, cache), c, tree, paths, ver, cache)
  <1>0. PICK d : d = Claim(c, tree, paths, ver, cache)
    OBVIOUS
  <1> SUFFICES ClaimsAlso(d, c, tree, paths, ver, cache)
    BY <1>0
  <1>1. /\ c.add \in SUBSET Paths /\ c.delete \in SUBSET Paths
    BY DEF Claims
  <1>2. CASE ver = None
    <2>1. d = [tree |-> tree, cache |-> cache, add |-> c.add, delete |-> c.delete \cup paths]
      BY <1>0, <1>2 DEF Claim
    <2> QED
      BY <1>1, <1>2, <2>1 DEF Claims, ClaimsAlso
  <1>3. CASE ver # None
    <2>1. d = [tree |-> tree, cache |-> cache, add |-> c.add \cup paths, delete |-> c.delete]
      BY <1>0, <1>3 DEF Claim
    <2> QED
      BY <1>1, <1>3, <2>1 DEF Claims, ClaimsAlso
  <1> QED
    BY <1>2, <1>3

\* A claim starts with nothing added and nothing deleted.
LEMMA NoClaimFacts ==
  ASSUME NEW tree \in Trees, NEW cache \in Caches
  PROVE  /\ NoClaim(tree, cache) \in Claims /\ NoClaim(tree, cache).tree = tree
         /\ NoClaim(tree, cache).add = {} /\ NoClaim(tree, cache).delete = {}
         /\ NoClaim(tree, cache).cache = cache
  BY DEF NoClaim, Claims

\* What the cache is told is a path or one of its two markers.
LEMMA RecordFacts ==
  ASSUME NEW matched \in SUBSET Paths, NEW ver
  PROVE  recordMatches(matched, ver) \in CacheEntries
  <1>1. matched # {} => (CHOOSE p \in matched : TRUE) \in Paths
    OBVIOUS
  <1> QED
    BY <1>1 DEF recordMatches, CacheEntries

\* ReplaceObject changes files that hold the object, at least one if there
\* is one.
Replacing(c, d, sel, ver) ==
  \E paths \in SUBSET Holding(c.tree, sel), cache \in Caches :
    /\ Holding(c.tree, sel) # {} => paths # {}
    /\ d = Claim(c, applyReplacement(c.tree, paths, sel, ver), paths, ver, cache)

\* The resource finder rewrites some of the files that hold the object, and at
\* least one if there is any, whatever the cache remembers.
LEMMA ReplaceObjectFacts ==
  ASSUME NEW c \in Claims, NEW sel \in Objects, NEW ver
  PROVE  Replacing(c, ReplaceObject(c, sel, ver), sel, ver)
  <1> DEFINE holding == Holding(c.tree, sel)
             fast    == c.cache[sel] \in holding
             paths   == IF fast THEN {c.cache[sel]} ELSE holding
             entry   == IF fast /\ ver # None THEN c.cache[sel] ELSE recordMatches(paths, ver)
             cache   == [c.cache EXCEPT ![sel] = entry]
  <1>1. c.tree \in Trees /\ c.cache \in Caches
    BY DEF Claims
  <1>2. holding \subseteq Paths
    BY <1>1, TreeFacts DEF Holding
  <1>3. paths \in SUBSET holding /\ paths \in SUBSET Paths /\ (holding # {} => paths # {})
    BY <1>2
  <1>4. entry \in CacheEntries
    <2>1. recordMatches(paths, ver) \in CacheEntries
      <3> HIDE DEF paths
      <3> QED
        BY <1>3, RecordFacts
    <2>2. c.cache[sel] \in CacheEntries
      BY <1>1 DEF Caches
    <2> HIDE DEF paths, CacheEntries, holding
    <2> QED
      BY <2>1, <2>2
  <1>5. cache \in Caches
    <2> HIDE DEF entry, CacheEntries
    <2> QED
      BY <1>1, <1>4 DEF Caches
  <1>6. ReplaceObject(c, sel, ver) =
          Claim(c, applyReplacement(c.tree, paths, sel, ver), paths, ver, cache)
    BY DEF ReplaceObject
  <1> HIDE DEF paths, cache, entry
  <1> QED
    BY <1>3, <1>5, <1>6 DEF Replacing

---------------------------------------------------------------------------
(* Where the artifacts end up.                                             *)

\* A file in which documents of the objects were replaced by their own.
Rewritten(old, new, sels) ==
  /\ DOMAIN new = DOMAIN old
  /\ \A i \in DOMAIN old : new[i].obj = old[i].obj /\ (old[i].obj \notin sels => new[i] = old[i])

\* Which of some artifacts are empty.
ContentMaps == [Objects -> Versions]
Emptied(sels, cs) == {o \in sels : cs[o] = None}

\* The documents of a file describe objects of another one.
ObjectsFrom(new, old) == \A i \in DOMAIN new : \E j \in DOMAIN old : new[i].obj = old[j].obj

\* The resource finder rewrites files, each with a document of an artifact, and
\* claims as deleted only files that held an empty one.
FoundIn(base, c, sels, cs) ==
  /\ c.add \cup c.delete \subseteq DOMAIN base
  /\ \A p \in DOMAIN c.tree : p \in DOMAIN base /\ ObjectsFrom(c.tree[p], base[p])
  /\ \A p \in DOMAIN base \ c.delete :
       p \in DOMAIN c.tree /\ Rewritten(base[p], c.tree[p], sels)
  /\ \A p \in DOMAIN base \ (c.add \cup c.delete) : c.tree[p] = base[p]
  /\ \A p \in c.add \ c.delete :
       \E o \in sels, i \in DOMAIN base[p] : c.tree[p][i] = Doc(o, "new")
  /\ \A p \in c.delete : \E o \in Emptied(sels, cs) : Matches(base[p], o) # {}

FoundClaims(base, sels, cs) == {c \in Claims : FoundIn(base, c, sels, cs)}

\* The default placement gives each artifact its own file.
DefaultIn(obj, c, sels, cs) ==
  /\ \A p \in c.add :
       /\ p \in DOMAIN c.tree
       /\ \E o \in sels \ Emptied(sels, cs) :
            p = DefaultPath[obj][o] /\ c.tree[p] = <<Doc(o, "new")>>
  /\ \A p \in c.delete : \E o \in Emptied(sels, cs) : p = DefaultPath[obj][o]

DefaultClaims(obj, sels, cs) == {c \in Claims : DefaultIn(obj, c, sels, cs)}

\* One more object in a rewritten file.
LEMMA RewrittenAgain ==
  ASSUME NEW old, NEW mid, NEW new, NEW sels, NEW sel, sel \in sels, sel \in Objects, NEW i,
         Rewritten(old, mid, sels), Replaced(mid, new, i, sel, "new")
  PROVE  /\ Rewritten(old, new, sels) /\ i \in DOMAIN old /\ new[i] = Doc(sel, "new")
         /\ \A j \in DOMAIN old \ {i} : new[j] = mid[j]
  <1>1. /\ i \in DOMAIN mid /\ mid[i].obj = sel /\ DOMAIN mid = DOMAIN old
        /\ new = [mid EXCEPT ![i] = Doc(sel, "new")]
    BY DEF Replaced, Rewritten
  <1>2. DOMAIN new = DOMAIN old /\ new[i] = Doc(sel, "new") /\ \A j \in DOMAIN old \ {i} : new[j] = mid[j]
    BY <1>1
  <1>3. Doc(sel, "new").obj = sel
    BY DocFacts
  <1>4. ASSUME NEW j \in DOMAIN old
        PROVE  new[j].obj = old[j].obj /\ (old[j].obj \notin sels => new[j] = old[j])
    <2>1. mid[j].obj = old[j].obj /\ (old[j].obj \notin sels => mid[j] = old[j])
      BY DEF Rewritten
    <2>2. CASE j = i
      BY <1>1, <1>2, <1>3, <2>1, <2>2
    <2>3. CASE j # i
      BY <1>2, <2>1, <2>3
    <2> QED
      BY <2>2, <2>3
  <1> QED
    BY <1>1, <1>2, <1>4 DEF Rewritten

\* Objects come from where their documents come from.
LEMMA ObjectsCarry ==
  /\ \A new, mid, old : DocsFrom(new, mid) /\ ObjectsFrom(mid, old) => ObjectsFrom(new, old)
  /\ \A new, mid, old : \A i, sel :
       Replaced(mid, new, i, sel, "new") /\ sel \in Objects /\ ObjectsFrom(mid, old) =>
         ObjectsFrom(new, old)
  <1>1. ASSUME NEW new, NEW mid, NEW old, DocsFrom(new, mid), ObjectsFrom(mid, old)
        PROVE  ObjectsFrom(new, old)
    BY <1>1 DEF DocsFrom, ObjectsFrom
  <1>2. ASSUME NEW new, NEW mid, NEW old, NEW i, NEW sel \in Objects,
               Replaced(mid, new, i, sel, "new"), ObjectsFrom(mid, old)
        PROVE  ObjectsFrom(new, old)
    <2>1. Doc(sel, "new").obj = sel
      BY DocFacts
    <2>2. /\ DOMAIN new = DOMAIN mid /\ new[i].obj = mid[i].obj
          /\ \A j \in DOMAIN mid \ {i} : new[j] = mid[j]
      BY <1>2, <2>1 DEF Replaced
    <2> QED
      BY <1>2, <2>2 DEF ObjectsFrom
  <1> QED
    BY <1>1, <1>2

\* An empty artifact is dropped from files that held it.
LEMMA DroppingStays ==
  ASSUME NEW base \in Trees, NEW sels \in SUBSET Objects, NEW cs \in ContentMaps,
         NEW c \in FoundClaims(base, sels, cs), NEW sel \in sels, cs[sel] = None,
         NEW paths \in SUBSET Holding(c.tree, sel), NEW cache \in Caches,
         NEW d, d = Claim(c, applyReplacement(c.tree, paths, sel, None), paths, None, cache)
  PROVE  d \in FoundClaims(base, sels, cs)
  <1>1. c \in Claims /\ c.tree \in Trees /\ sel \in Objects /\ FoundIn(base, c, sels, cs)
    BY DEF FoundClaims, Claims
  <1>2. PICK new : new = applyReplacement(c.tree, paths, sel, None)
    OBVIOUS
  <1>3. /\ paths \in SUBSET Paths /\ paths \subseteq DOMAIN c.tree
        /\ \A p \in paths : Matches(c.tree[p], sel) # {}
    BY <1>1, TreeFacts DEF Holding
  <1>4. /\ new \in Trees /\ DOMAIN new \subseteq DOMAIN c.tree
        /\ \A p \in DOMAIN c.tree \ paths : p \in DOMAIN new /\ new[p] = c.tree[p]
        /\ \A p \in DOMAIN new : DocsFrom(new[p], c.tree[p])
    BY <1>1, <1>2, DroppedFacts
  <1>5. d \in Claims /\ d.tree = new /\ d.add = c.add /\ d.delete = c.delete \cup paths
    <2>1. ClaimsAlso(d, c, new, paths, None, cache)
      BY <1>1, <1>2, <1>3, <1>4, ClaimFacts
    <2> QED
      BY <2>1 DEF ClaimsAlso
  <1>6. d.add \cup d.delete \subseteq DOMAIN base
    BY <1>1, <1>3, <1>5 DEF FoundIn
  <1>7. ASSUME NEW p \in DOMAIN d.tree
        PROVE  p \in DOMAIN base /\ ObjectsFrom(d.tree[p], base[p])
    <2>1. p \in DOMAIN c.tree /\ DocsFrom(new[p], c.tree[p]) /\ d.tree[p] = new[p]
      BY <1>4, <1>5
    <2>2. p \in DOMAIN base /\ ObjectsFrom(c.tree[p], base[p])
      BY <1>1, <2>1 DEF FoundIn
    <2> QED
      BY <2>1, <2>2, ObjectsCarry
  <1>8. ASSUME NEW p \in DOMAIN base \ d.delete
        PROVE  /\ p \in DOMAIN d.tree /\ d.tree[p] = c.tree[p] /\ p \notin c.delete
               /\ Rewritten(base[p], d.tree[p], sels)
    <2>1. p \notin paths /\ p \notin c.delete
      BY <1>5
    <2>2. p \in DOMAIN c.tree /\ Rewritten(base[p], c.tree[p], sels)
      BY <1>1, <2>1 DEF FoundIn
    <2> QED
      BY <1>4, <1>5, <2>1, <2>2
  <1>9. ASSUME NEW p \in d.delete
        PROVE  \E o \in Emptied(sels, cs) : Matches(base[p], o) # {}
    <2>1. CASE p \in c.delete
      BY <1>1, <2>1 DEF FoundIn
    <2>2. CASE p \in paths
      <3>1. PICK i \in DOMAIN c.tree[p] : c.tree[p][i].obj = sel
        BY <1>3, <2>2 DEF Matches, matchDoc
      <3>2. ObjectsFrom(c.tree[p], base[p])
        BY <1>1, <1>3, <2>2 DEF FoundIn
      <3>3. \E j \in DOMAIN base[p] : base[p][j].obj = sel
        BY <3>1, <3>2 DEF ObjectsFrom
      <3>4. Matches(base[p], sel) # {} /\ sel \in Emptied(sels, cs)
        BY <3>3 DEF Matches, matchDoc, Emptied
      <3> QED
        BY <3>4
    <2> QED
      BY <1>5, <2>1, <2>2
  <1>10. ASSUME NEW p \in DOMAIN base \ (d.add \cup d.delete)
         PROVE  d.tree[p] = base[p]
    BY <1>1, <1>5, <1>8 DEF FoundIn
  <1>11. ASSUME NEW p \in d.add \ d.delete
         PROVE  \E o \in sels, i \in DOMAIN base[p] : d.tree[p][i] = Doc(o, "new")
    <2>1. p \in c.add \ c.delete /\ p \in DOMAIN base \ d.delete
      BY <1>5, <1>6
    <2>2. d.tree[p] = c.tree[p]
      BY <1>8, <2>1
    <2> QED
      BY <1>1, <2>1, <2>2 DEF FoundIn
  <1> QED
    BY <1>5, <1>6, <1>7, <1>8, <1>9, <1>10, <1>11 DEF FoundClaims, FoundIn

\* An artifact with content is rewritten where it is found.
LEMMA RewritingStays ==
  ASSUME NEW base \in Trees, NEW sels \in SUBSET Objects, NEW cs \in ContentMaps,
         NEW c \in FoundClaims(base, sels, cs), NEW sel \in sels,
         NEW paths \in SUBSET Holding(c.tree, sel), NEW cache \in Caches,
         NEW d, d = Claim(c, applyReplacement(c.tree, paths, sel, "new"), paths, "new", cache)
  PROVE  d \in FoundClaims(base, sels, cs)
  <1>0. "new" # None
    BY PlacementAssumption
  <1>1. c \in Claims /\ c.tree \in Trees /\ sel \in Objects /\ FoundIn(base, c, sels, cs)
    BY DEF FoundClaims, Claims
  <1>2. PICK new : new = applyReplacement(c.tree, paths, sel, "new")
    OBVIOUS
  <1>3. paths \in SUBSET Paths /\ paths \subseteq DOMAIN c.tree
    BY <1>1, TreeFacts DEF Holding
  <1>4. /\ new \in Trees /\ DOMAIN new = DOMAIN c.tree
        /\ \A p \in DOMAIN c.tree \ paths : new[p] = c.tree[p]
        /\ \A p \in paths : \E i : Replaced(c.tree[p], new[p], i, sel, "new")
    BY <1>1, <1>2, ReplacementFacts
  <1>5. d \in Claims /\ d.tree = new /\ d.add = c.add \cup paths /\ d.delete = c.delete
    <2>1. ClaimsAlso(d, c, new, paths, "new", cache)
      BY <1>1, <1>2, <1>3, <1>4, ClaimFacts
    <2> QED
      BY <1>0, <2>1 DEF ClaimsAlso
  <1>6. d.add \cup d.delete \subseteq DOMAIN base
    BY <1>1, <1>3, <1>5 DEF FoundIn
  <1>7. ASSUME NEW p \in DOMAIN d.tree
        PROVE  p \in DOMAIN base /\ ObjectsFrom(d.tree[p], base[p])
    <2>1. p \in DOMAIN c.tree /\ d.tree[p] = new[p]
      BY <1>4, <1>5
    <2>2. p \in DOMAIN base /\ ObjectsFrom(c.tree[p], base[p])
      BY <1>1, <2>1 DEF FoundIn
    <2>3. CASE p \in paths
      <3>1. PICK i : Replaced(c.tree[p], new[p], i, sel, "new")
        BY <1>4, <2>3
      <3>2. ObjectsFrom(new[p], base[p])
        BY <1>1, <2>2, <3>1, ObjectsCarry
      <3> QED
        BY <2>1, <2>2, <3>2
    <2>4. CASE p \notin paths
      BY <1>4, <2>1, <2>2, <2>4
    <2> QED
      BY <2>3, <2>4
  <1>8. ASSUME NEW p \in DOMAIN base \ d.delete
        PROVE  /\ p \in DOMAIN d.tree /\ Rewritten(base[p], d.tree[p], sels)
               /\ p \in paths => \E o \in sels, i \in DOMAIN base[p] : d.tree[p][i] = Doc(o, "new")
               /\ p \notin paths => d.tree[p] = c.tree[p]
    <2>1. p \in DOMAIN c.tree /\ Rewritten(base[p], c.tree[p], sels)
      BY <1>1, <1>5 DEF FoundIn
    <2>2. CASE p \in paths
      <3>1. PICK i : Replaced(c.tree[p], new[p], i, sel, "new")
        BY <1>4, <2>2
      <3>2. Rewritten(base[p], new[p], sels) /\ i \in DOMAIN base[p] /\ new[p][i] = Doc(sel, "new")
        <4>1. PICK old, mid, rew : old = base[p] /\ mid = c.tree[p] /\ rew = new[p]
          OBVIOUS
        <4>2. Rewritten(old, mid, sels) /\ Replaced(mid, rew, i, sel, "new")
          BY <2>1, <3>1, <4>1
        <4>3. Rewritten(old, rew, sels) /\ i \in DOMAIN old /\ rew[i] = Doc(sel, "new")
          BY <1>1, <4>2, RewrittenAgain
        <4> QED
          BY <4>1, <4>3
      <3> QED
        BY <1>4, <1>5, <2>1, <2>2, <3>2
    <2>3. CASE p \notin paths
      BY <1>4, <1>5, <2>1, <2>3
    <2> QED
      BY <2>2, <2>3
  <1>9. \A p \in d.delete : \E o \in Emptied(sels, cs) : Matches(base[p], o) # {}
    BY <1>1, <1>5 DEF FoundIn
  <1>10. ASSUME NEW p \in DOMAIN base \ (d.add \cup d.delete)
         PROVE  d.tree[p] = base[p]
    BY <1>1, <1>5, <1>8 DEF FoundIn
  <1>11. ASSUME NEW p \in d.add \ d.delete
         PROVE  \E o \in sels, i \in DOMAIN base[p] : d.tree[p][i] = Doc(o, "new")
    <2>1. p \in DOMAIN base \ d.delete
      BY <1>6
    <2>2. CASE p \in paths
      BY <1>8, <2>1, <2>2
    <2>3. CASE p \notin paths
      <3>1. p \in c.add \ c.delete /\ d.tree[p] = c.tree[p]
        BY <1>5, <1>8, <2>1, <2>3
      <3> QED
        BY <1>1, <3>1 DEF FoundIn
    <2> QED
      BY <2>2, <2>3
  <1> QED
    BY <1>5, <1>6, <1>7, <1>8, <1>9, <1>10, <1>11 DEF FoundClaims, FoundIn

\* The resource finder keeps rewriting.
LEMMA FindingStays ==
  ASSUME NEW base \in Trees, NEW obj, NEW sels \in SUBSET Objects, NEW cs \in ContentMaps
  PROVE  ClosedUnder(FoundClaims(base, sels, cs), sels, TRUE, obj, cs)
  <1> SUFFICES ASSUME NEW c \in FoundClaims(base, sels, cs), NEW sel \in sels
               PROVE  ReplaceObject(c, sel, cs[sel]) \in FoundClaims(base, sels, cs)
    BY DEF ClosedUnder, placeOne
  <1>1. c \in Claims /\ sel \in Objects
    BY DEF FoundClaims
  <1>2. PICK ver : ver = cs[sel] /\ ver \in {"new", None}
    BY <1>1 DEF ContentMaps, Versions
  <1>3. PICK paths \in SUBSET Holding(c.tree, sel), cache \in Caches :
          ReplaceObject(c, sel, ver) =
            Claim(c, applyReplacement(c.tree, paths, sel, ver), paths, ver, cache)
    BY <1>1, ReplaceObjectFacts DEF Replacing
  <1>4. CASE ver = None
    <2>1. ReplaceObject(c, sel, None) \in FoundClaims(base, sels, cs)
      BY <1>2, <1>3, <1>4, DroppingStays
    <2> QED
      BY <1>2, <1>4, <2>1
  <1>5. CASE ver = "new"
    <2>1. ReplaceObject(c, sel, "new") \in FoundClaims(base, sels, cs)
      BY <1>3, <1>5, RewritingStays
    <2> QED
      BY <1>2, <1>5, <2>1
  <1> QED
    BY <1>2, <1>4, <1>5

\* The default placement keeps giving files away.
LEMMA DefaultStays ==
  ASSUME NEW obj \in Objects, NEW sels \in SUBSET Objects, NEW cs \in ContentMaps
  PROVE  ClosedUnder(DefaultClaims(obj, sels, cs), sels, FALSE, obj, cs)
  <1> SUFFICES ASSUME NEW c \in DefaultClaims(obj, sels, cs), NEW sel \in sels
               PROVE  DefaultPlace(obj, c, sel, cs[sel]) \in DefaultClaims(obj, sels, cs)
    BY DEF ClosedUnder, placeOne
  <1>0. PICK ver : ver = cs[sel]
    OBVIOUS
  <1> DEFINE path == DefaultPath[obj][sel]
             content == IF ver = None THEN <<>> ELSE <<Doc(sel, ver)>>
             new == WriteFile(c.tree, path, content)
  <1>1. /\ c \in Claims /\ c.tree \in Trees /\ c.cache \in Caches /\ sel \in Objects
        /\ DefaultIn(obj, c, sels, cs)
    BY DEF DefaultClaims, Claims
  <1>b. ver = None \/ ver = "new"
    BY <1>0, <1>1 DEF ContentMaps, Versions
  <1>2. path \in Paths /\ {path} \in SUBSET Paths
    BY <1>1 DEF Paths
  <1>3. content \in Contents
    <2>1. CASE ver = None
      BY <2>1 DEF Contents
    <2>2. CASE ver # None
      <3>1. Doc(sel, ver) \in Docs
        BY <1>1, <1>b, <2>2, DocFacts
      <3> QED
        BY <2>2, <3>1 DEF Contents
    <2> QED
      BY <2>1, <2>2
  <1>4. PICK d : d = DefaultPlace(obj, c, sel, ver)
    OBVIOUS
  <1>5. d = Claim(c, new, {path}, ver, c.cache)
    BY <1>4 DEF DefaultPlace
  <1>6. ver # None => content = <<Doc(sel, ver)>>
    OBVIOUS
  <1>c. \A o \in sels : path = DefaultPath[obj][o] => o = sel
    BY <1>1, OwnFileAssumption
  <1>d. path = DefaultPath[obj][sel]
    OBVIOUS
  <1> HIDE DEF path, content
  <1>7. /\ new \in Trees /\ DOMAIN new = DOMAIN c.tree \cup {path} /\ new[path] = content
        /\ \A p \in DOMAIN c.tree \ {path} : new[p] = c.tree[p]
    BY <1>1, <1>2, <1>3, WriteFacts
  <1> HIDE DEF new
  <1>a. ClaimsAlso(d, c, new, {path}, ver, c.cache)
    BY <1>1, <1>2, <1>5, <1>7, ClaimFacts
  <1>e. ASSUME NEW p \in c.add, p # path
        PROVE  /\ p \in DOMAIN new
               /\ \E o \in sels \ Emptied(sels, cs) :
                    p = DefaultPath[obj][o] /\ new[p] = <<Doc(o, "new")>>
    <2>1. p \in DOMAIN c.tree
      BY <1>1 DEF DefaultIn
    <2>2. p \in DOMAIN new /\ new[p] = c.tree[p]
      BY <1>7, <1>e, <2>1
    <2> QED
      BY <1>1, <2>2 DEF DefaultIn
  <1>8. CASE ver = None
    <2>1. d \in Claims /\ d.tree = new /\ d.add = c.add /\ d.delete = c.delete \cup {path}
      BY <1>8, <1>a DEF ClaimsAlso
    <2>2. sel \in Emptied(sels, cs)
      BY <1>0, <1>8 DEF Emptied
    <2>3. path \notin c.add
      <3> SUFFICES ASSUME path \in c.add
                   PROVE  FALSE
        OBVIOUS
      <3>1. PICK o \in sels \ Emptied(sels, cs) : path = DefaultPath[obj][o]
        BY <1>1 DEF DefaultIn
      <3> QED
        BY <1>c, <2>2, <3>1
    <2>4. ASSUME NEW p \in d.delete
          PROVE  \E o \in Emptied(sels, cs) : p = DefaultPath[obj][o]
      BY <1>1, <1>d, <2>1, <2>2 DEF DefaultIn
    <2>5. DefaultIn(obj, d, sels, cs)
      BY <1>e, <2>1, <2>3, <2>4 DEF DefaultIn
    <2> QED
      BY <1>0, <1>4, <2>1, <2>5 DEF DefaultClaims
  <1>9. CASE ver # None
    <2>1. d \in Claims /\ d.tree = new /\ d.add = c.add \cup {path} /\ d.delete = c.delete
      BY <1>9, <1>a DEF ClaimsAlso
    <2>2. sel \in sels \ Emptied(sels, cs)
      BY <1>0, <1>9 DEF Emptied
    <2>3. path \in DOMAIN new /\ new[path] = <<Doc(sel, "new")>>
      BY <1>6, <1>7, <1>9, <1>b
    <2>4. ASSUME NEW p \in d.add
          PROVE  /\ p \in DOMAIN d.tree
                 /\ \E o \in sels \ Emptied(sels, cs) :
                      p = DefaultPath[obj][o] /\ d.tree[p] = <<Doc(o, "new")>>
      <3>1. CASE p = path
        BY <1>d, <2>1, <2>2, <2>3, <3>1
      <3>2. CASE p # path
        BY <1>e, <2>1, <3>2
      <3> QED
        BY <3>1, <3>2
    <2>5. DefaultIn(obj, d, sels, cs)
      BY <1>1, <2>1, <2>4 DEF DefaultIn
    <2> QED
      BY <1>0, <1>4, <2>1, <2>5 DEF DefaultClaims
  <1> QED
    BY <1>8, <1>9

---------------------------------------------------------------------------
(* What a claim adds to the commit.                                        *)

\* A file that holds none of the dropped objects.
Without(base, p, drops) == \A o \in drops : Matches(Content(base, p), o) = {}

\* The files of a claim that are committed, next to the base they replace.
Fits(base, c, sels, drops) ==
  /\ c \in Claims
  /\ \A p \in c.add \ c.delete :
       /\ p \in DOMAIN c.tree /\ GoodFile(p, c.tree[p])
       /\ Without(base, p, drops) => SameSiblings(Content(base, p), c.tree[p], sels)
  /\ \A p \in c.delete :
       Without(base, p, drops) => OtherDocs(Content(base, p), sels) = {}

\* A rewritten file keeps the documents of others where they are.
LEMMA RewrittenKeeps ==
  ASSUME NEW old, NEW new, NEW sels, Rewritten(old, new, sels)
  PROVE  SameSiblings(old, new, sels)
  <1> DEFINE f == [i \in OtherDocs(old, sels) |-> i]
  <1>1. OtherDocs(new, sels) = OtherDocs(old, sels)
    BY DEF OtherDocs, Rewritten
  <1>2. f \in [OtherDocs(old, sels) -> OtherDocs(new, sels)]
    BY <1>1
  <1>3. DOMAIN f = OtherDocs(old, sels) /\ \A i \in OtherDocs(old, sels) : f[i] = i
    OBVIOUS
  <1> HIDE DEF f
  <1>4. {f[i] : i \in DOMAIN f} = OtherDocs(new, sels)
    BY <1>1, <1>3
  <1>5. \A i \in DOMAIN f : new[f[i]] = old[i]
    BY <1>3 DEF OtherDocs, Rewritten
  <1>6. \A i, j \in DOMAIN f : i < j => f[i] < f[j]
    BY <1>3
  <1> QED
    BY <1>2, <1>4, <1>5, <1>6 DEF SameSiblings

\* Files without documents of others have the same ones.
LEMMA NoSiblings ==
  ASSUME NEW old, NEW new, NEW sels, OtherDocs(old, sels) = {}, OtherDocs(new, sels) = {}
  PROVE  SameSiblings(old, new, sels)
  <1> DEFINE f == [i \in {} |-> i]
  <1>1. f \in [{} -> {}] /\ DOMAIN f = {}
    OBVIOUS
  <1> HIDE DEF f
  <1>2. {f[i] : i \in DOMAIN f} = {}
    BY <1>1
  <1>3. f \in [OtherDocs(old, sels) -> OtherDocs(new, sels)]
    BY <1>1
  <1> QED
    BY <1>1, <1>2, <1>3 DEF SameSiblings

\* Neither does a document of one's own at the end change them.
LEMMA AppendKeeps ==
  ASSUME NEW old \in Contents, NEW doc \in Docs, NEW sels, doc.obj \in sels
  PROVE  SameSiblings(old, Append(old, doc), sels)
  <1> DEFINE new == Append(old, doc)
             f == [i \in OtherDocs(old, sels) |-> i]
  <1>0. /\ Len(old) \in Nat /\ DOMAIN old = 1 .. Len(old)
        /\ DOMAIN new = 1 .. Len(old) + 1 /\ new[Len(old) + 1] = doc
        /\ \A i \in 1 .. Len(old) : new[i] = old[i]
    BY DEF Contents
  <1> HIDE DEF new
  <1>1. OtherDocs(new, sels) = OtherDocs(old, sels)
    <2>1. ASSUME NEW i \in DOMAIN new
          PROVE  new[i].obj \notin sels => i \in DOMAIN old
      BY <1>0
    <2>2. DOMAIN old \subseteq DOMAIN new /\ \A i \in DOMAIN old : new[i] = old[i]
      BY <1>0
    <2> QED
      BY <2>1, <2>2 DEF OtherDocs
  <1>2. f \in [OtherDocs(old, sels) -> OtherDocs(new, sels)]
    BY <1>1
  <1>3. DOMAIN f = OtherDocs(old, sels) /\ \A i \in OtherDocs(old, sels) : f[i] = i
    OBVIOUS
  <1> HIDE DEF f
  <1>4. {f[i] : i \in DOMAIN f} = OtherDocs(new, sels)
    BY <1>1, <1>3
  <1>5. \A i \in DOMAIN f : new[f[i]] = old[i]
    BY <1>0, <1>3 DEF OtherDocs
  <1>6. \A i, j \in DOMAIN f : i < j => f[i] < f[j]
    BY <1>3
  <1>7. SameSiblings(old, new, sels)
    BY <1>2, <1>4, <1>5, <1>6 DEF SameSiblings
  <1> QED
    BY <1>7 DEF new

\* What the resource finder rewrote fits.
LEMMA FoundFits ==
  ASSUME NEW base, GoodTree(base), NEW sels \in SUBSET Objects, NEW cs \in ContentMaps,
         NEW c \in FoundClaims(base, sels, cs)
  PROVE  Fits(base, c, sels, Emptied(sels, cs))
  <1>1. c \in Claims /\ FoundIn(base, c, sels, cs)
    BY DEF FoundClaims
  <1>2. ASSUME NEW p \in c.add \ c.delete
        PROVE  /\ p \in DOMAIN c.tree /\ GoodFile(p, c.tree[p])
               /\ SameSiblings(Content(base, p), c.tree[p], sels)
    <2>1. p \in DOMAIN base /\ p \in DOMAIN c.tree /\ Rewritten(base[p], c.tree[p], sels)
      BY <1>1 DEF FoundIn
    <2>2. PICK i \in DOMAIN base[p] : TRUE
      BY <1>1 DEF FoundIn
    <2>3. DOMAIN c.tree[p] = DOMAIN base[p] /\ c.tree[p] # <<>>
      BY <2>1, <2>2 DEF Rewritten
    <2>4. OwnFile(p, c.tree[p])
      BY <2>1, <2>3 DEF GoodTree, GoodFile, OwnFile, Rewritten
    <2> QED
      BY <2>1, <2>3, <2>4, RewrittenKeeps DEF GoodFile, Content
  <1>3. ASSUME NEW p \in c.delete
        PROVE  ~Without(base, p, Emptied(sels, cs))
    <2>1. p \in DOMAIN base
      BY <1>1 DEF FoundIn
    <2>2. PICK o \in Emptied(sels, cs) : Matches(base[p], o) # {}
      BY <1>1 DEF FoundIn
    <2> QED
      BY <2>1, <2>2 DEF Without, Content
  <1> QED
    BY <1>1, <1>2, <1>3 DEF Fits

\* The default file of an object has no documents of others.
LEMMA DefaultFile ==
  ASSUME NEW base, GoodTree(base), NEW obj \in Objects, NEW o \in Objects, NEW sels, o \in sels
  PROVE  OtherDocs(Content(base, DefaultPath[obj][o]), sels) = {}
  <1>0. PICK p : p = DefaultPath[obj][o]
    OBVIOUS
  <1>1. CASE p \in DOMAIN base
    <2>1. \A i \in DOMAIN base[p] : base[p][i].obj = o
      BY <1>0, <1>1 DEF GoodTree, GoodFile, OwnFile
    <2> QED
      BY <1>0, <1>1, <2>1 DEF OtherDocs, Content
  <1>2. CASE p \notin DOMAIN base
    <2>1. Content(base, p) = <<>> /\ DOMAIN <<>> = {}
      BY <1>2 DEF Content
    <2> QED
      BY <1>0, <2>1 DEF OtherDocs
  <1> QED
    BY <1>1, <1>2

\* What the default placement wrote fits: the file had only documents of
\* its object.
LEMMA DefaultFits ==
  ASSUME NEW base, GoodTree(base), NEW obj \in Objects, NEW sels \in SUBSET Objects,
         NEW cs \in ContentMaps, NEW c \in DefaultClaims(obj, sels, cs)
  PROVE  Fits(base, c, sels, Emptied(sels, cs))
  <1>1. c \in Claims /\ DefaultIn(obj, c, sels, cs)
    BY DEF DefaultClaims
  <1>2. ASSUME NEW p \in c.add
        PROVE  /\ p \in DOMAIN c.tree /\ GoodFile(p, c.tree[p])
               /\ SameSiblings(Content(base, p), c.tree[p], sels)
    <2>1. PICK o \in sels :
            p \in DOMAIN c.tree /\ p = DefaultPath[obj][o] /\ c.tree[p] = <<Doc(o, "new")>>
      BY <1>1 DEF DefaultIn
    <2>2. Doc(o, "new").obj = o /\ o \in Objects
      BY DocFacts
    <2>3. DOMAIN c.tree[p] = {1} /\ c.tree[p][1].obj = o /\ c.tree[p] # <<>>
      BY <2>1, <2>2
    <2>4. OwnFile(p, c.tree[p])
      <3>1. ASSUME NEW q \in Objects, NEW other \in Objects, p = DefaultPath[q][other]
            PROVE  other = o
        BY <2>1, <2>2, <3>1, OwnFileAssumption
      <3> QED
        BY <2>3, <3>1 DEF OwnFile
    <2>5. OtherDocs(c.tree[p], sels) = {}
      BY <2>3 DEF OtherDocs
    <2>6. OtherDocs(Content(base, p), sels) = {}
      BY <2>1, <2>2, DefaultFile
    <2> QED
      BY <2>1, <2>3, <2>4, <2>5, <2>6, NoSiblings DEF GoodFile
  <1>3. ASSUME NEW p \in c.delete
        PROVE  OtherDocs(Content(base, p), sels) = {}
    <2>1. PICK o \in sels : p = DefaultPath[obj][o]
      BY <1>1 DEF DefaultIn, Emptied
    <2>2. o \in Objects
      OBVIOUS
    <2> QED
      BY <2>1, <2>2, DefaultFile
  <1> QED
    BY <1>1, <1>2, <1>3 DEF Fits

\* Nothing was found yet.
LEMMA NothingFound ==
  ASSUME NEW base \in Trees, NEW cache \in Caches, NEW sels, NEW cs
  PROVE  NoClaim(base, cache) \in FoundClaims(base, sels, cs)
  <1>1. PICK none : none = NoClaim(base, cache)
    OBVIOUS
  <1>2. none \in Claims /\ none.tree = base /\ none.add = {} /\ none.delete = {}
    BY <1>1, NoClaimFacts
  <1>3. \A p \in DOMAIN base : Rewritten(base[p], base[p], sels) /\ ObjectsFrom(base[p], base[p])
    BY DEF Rewritten, ObjectsFrom
  <1>4. FoundIn(base, none, sels, cs)
    BY <1>2, <1>3 DEF FoundIn
  <1> QED
    BY <1>1, <1>2, <1>4 DEF FoundClaims

\* The path-less artifacts, found or at their default places, fit.
LEMMA PlacedFits ==
  ASSUME NEW base, GoodTree(base), NEW cache \in Caches, NEW find \in BOOLEAN,
         NEW obj \in Objects, NEW sels \in SUBSET Objects, sels # {}, NEW cs \in ContentMaps
  PROVE  Fits(base, placeArtifacts(base, cache, find, obj, sels, cs), sels, Emptied(sels, cs))
  <1> DEFINE none  == NoClaim(base, cache)
             found == IF find THEN place(TRUE, obj, none, SetToSeq(sels), cs) ELSE none
             last  == place(FALSE, obj, found, SetToSeq(sels), cs)
  <1>0. IsFiniteSet(sels) /\ base \in Trees
    BY PlacementAssumption, FS_Subset DEF GoodTree
  <1>1. none \in FoundClaims(base, sels, cs)
    BY <1>0, NothingFound
  <1>2. found \in FoundClaims(base, sels, cs)
    <2>1. CASE find
      <3> HIDE DEF none
      <3>1. ClosedUnder(FoundClaims(base, sels, cs), sels, TRUE, obj, cs)
        BY <1>0, FindingStays
      <3>2. PICK a \in sels :
              EndsIn(place(TRUE, obj, none, SetToSeq(sels), cs), FoundClaims(base, sels, cs), TRUE, obj, a, cs)
        BY <1>0, <1>1, <3>1, PlaceEach
      <3>3. place(TRUE, obj, none, SetToSeq(sels), cs) \in FoundClaims(base, sels, cs)
        BY <3>1, <3>2 DEF EndsIn, ClosedUnder
      <3> QED
        BY <2>1, <3>3
    <2>2. CASE ~find
      BY <1>1, <2>2
    <2> QED
      BY <2>1, <2>2
  <1>3. placeArtifacts(base, cache, find, obj, sels, cs) =
          IF found.add \cup found.delete # {} THEN found ELSE last
    BY DEF placeArtifacts
  <1> HIDE DEF found
  <1>4. CASE found.add \cup found.delete # {}
    BY <1>2, <1>3, <1>4, FoundFits
  <1>5. CASE found.add \cup found.delete = {}
    <2>1. found \in DefaultClaims(obj, sels, cs)
      BY <1>2, <1>5 DEF FoundClaims, DefaultClaims, DefaultIn
    <2>2. ClosedUnder(DefaultClaims(obj, sels, cs), sels, FALSE, obj, cs)
      BY DefaultStays
    <2>3. PICK a \in sels : EndsIn(last, DefaultClaims(obj, sels, cs), FALSE, obj, a, cs)
      BY <1>0, <2>1, <2>2, PlaceEach
    <2>4. last \in DefaultClaims(obj, sels, cs)
      BY <2>2, <2>3 DEF EndsIn, ClosedUnder
    <2> HIDE DEF last
    <2> QED
      BY <1>3, <1>5, <2>4, DefaultFits
  <1> QED
    BY <1>4, <1>5

\* The file of a kustomize bundle.
LEMMA BundleFacts ==
  ASSUME NEW tree \in Trees, NEW sel \in Objects, NEW ver \in Versions
  PROVE  /\ Bundle(tree, sel, ver) \in Contents
         /\ ver = None /\ Matches(Content(tree, SharedPath), sel) = {} =>
              Bundle(tree, sel, ver) = Content(tree, SharedPath)
         /\ ver # None => /\ Bundle(tree, sel, ver) # <<>>
                          /\ SameSiblings(Content(tree, SharedPath), Bundle(tree, sel, ver), {sel})
  <1> DEFINE old == Content(tree, SharedPath)
             new == Bundle(tree, sel, ver)
  <1>0. old \in Contents
    <2>1. <<>> \in Contents
      BY DEF Contents
    <2> QED
      BY <2>1, TreeFacts DEF Content
  <1>1. new = IF Matches(old, sel) # {} THEN ReplaceDocInContent(old, sel, ver)
              ELSE IF ver = None THEN old ELSE Append(old, Doc(sel, ver))
    BY DEF Bundle, Content
  <1> HIDE DEF old, new
  <1>2. CASE ver = None
    BY <1>0, <1>1, <1>2, DropFacts DEF new, old
  <1>3. CASE ver # None /\ Matches(old, sel) # {}
    <2>1. PICK i : Replaced(old, new, i, sel, ver)
      BY <1>0, <1>1, <1>3, ReplaceFacts
    <2>2. Doc(sel, ver) \in Docs /\ Doc(sel, ver).obj = sel
      BY <1>3, DocFacts DEF Versions
    <2>3. i \in DOMAIN old /\ new = [old EXCEPT ![i] = Doc(sel, ver)] /\ old[i].obj = sel
      BY <2>1 DEF Replaced
    <2>4. new \in Contents /\ DOMAIN new = DOMAIN old /\ new[i] = Doc(sel, ver)
          /\ \A j \in DOMAIN old \ {i} : new[j] = old[j]
      BY <1>0, <2>2, <2>3 DEF Contents
    <2>5. Rewritten(old, new, {sel})
      <3>1. ASSUME NEW j \in DOMAIN old
            PROVE  new[j].obj = old[j].obj /\ (old[j].obj \notin {sel} => new[j] = old[j])
        BY <2>2, <2>3, <2>4
      <3> QED
        BY <2>4, <3>1 DEF Rewritten
    <2>6. new # <<>>
      BY <2>3, <2>4
    <2> QED
      BY <1>3, <2>4, <2>5, <2>6, RewrittenKeeps DEF new, old
  <1>4. CASE ver # None /\ Matches(old, sel) = {}
    <2>1. new = Append(old, Doc(sel, ver))
      BY <1>1, <1>4
    <2>2. Doc(sel, ver) \in Docs /\ Doc(sel, ver).obj \in {sel}
      BY <1>4, DocFacts DEF Versions
    <2>3. SameSiblings(old, new, {sel})
      BY <1>0, <2>1, <2>2, AppendKeeps
    <2>4. new \in Contents /\ new # <<>>
      BY <1>0, <2>1, <2>2 DEF Contents
    <2> QED
      BY <1>4, <2>3, <2>4 DEF new, old
  <1> QED
    BY <1>2, <1>3, <1>4

\* The whole file that is written fits.
LEMMA WholeFileFits ==
  ASSUME NEW base, GoodTree(base), NEW cache \in Caches, NEW sel \in Objects,
         NEW ver \in Versions, NEW drops, ver = None => sel \in drops
  PROVE  Fits(base, writeWholeFile(NoClaim(base, cache), SharedPath, Bundle(base, sel, ver)),
              {sel}, drops)
  <1>0. base \in Trees /\ SharedPath \in Paths
    BY DEF GoodTree, Paths
  <1>1. PICK content : content = Bundle(base, sel, ver)
    OBVIOUS
  <1>2. /\ content \in Contents
        /\ ver = None /\ Matches(Content(base, SharedPath), sel) = {} =>
             content = Content(base, SharedPath)
        /\ ver # None => content # <<>> /\ SameSiblings(Content(base, SharedPath), content, {sel})
    BY <1>0, <1>1, BundleFacts
  <1>3. PICK c : c = NoClaim(base, cache)
    OBVIOUS
  <1>4. c \in Claims /\ c.tree = base /\ c.add = {} /\ c.delete = {} /\ c.cache = cache
    BY <1>0, <1>3, NoClaimFacts
  <1>5. PICK d : d = writeWholeFile(c, SharedPath, content)
    OBVIOUS
  <1>6. CASE content = <<>>
    <2>1. d = Claim(c, RemoveFiles(base, {SharedPath}), {SharedPath} \cap DOMAIN base, None, cache)
      BY <1>4, <1>5, <1>6 DEF writeWholeFile
    <2>2. RemoveFiles(base, {SharedPath}) \in Trees /\ {SharedPath} \cap DOMAIN base \in SUBSET Paths
      BY <1>0, RemoveFacts
    <2>3. ClaimsAlso(d, c, RemoveFiles(base, {SharedPath}), {SharedPath} \cap DOMAIN base, None, cache)
      BY <1>4, <2>1, <2>2, ClaimFacts
    <2>4. d \in Claims /\ d.add = {} /\ d.delete = {SharedPath} \cap DOMAIN base
      BY <1>4, <2>3 DEF ClaimsAlso
    <2>5. ASSUME NEW p \in d.delete
          PROVE  ~Without(base, p, drops)
      <3>1. p = SharedPath /\ p \in DOMAIN base
        BY <2>4
      <3>2. Content(base, SharedPath) # <<>>
        BY <3>1 DEF GoodTree, GoodFile, Content
      <3>3. ver = None /\ Matches(Content(base, SharedPath), sel) # {}
        BY <1>2, <1>6, <3>2
      <3> QED
        BY <3>1, <3>3 DEF Without
    <2>6. Fits(base, d, {sel}, drops)
      BY <2>4, <2>5 DEF Fits
    <2> QED
      BY <1>1, <1>3, <1>5, <2>6
  <1>7. CASE content # <<>>
    <2>1. PICK tree : tree = WriteFile(base, SharedPath, content)
      OBVIOUS
    <2>2. d = Claim(c, tree, {SharedPath}, "final", cache)
      BY <1>4, <1>5, <1>7, <2>1 DEF writeWholeFile
    <2>3. tree \in Trees /\ SharedPath \in DOMAIN tree /\ tree[SharedPath] = content
      <3>1. /\ WriteFile(base, SharedPath, content) \in Trees
            /\ DOMAIN WriteFile(base, SharedPath, content) = DOMAIN base \cup {SharedPath}
            /\ WriteFile(base, SharedPath, content)[SharedPath] = content
        BY <1>0, <1>2, WriteFacts, Zenon
      <3> QED
        BY <2>1, <3>1
    <2>4. ClaimsAlso(d, c, tree, {SharedPath}, "final", cache)
      BY <1>0, <1>4, <2>2, <2>3, ClaimFacts
    <2>5. "final" # None
      BY PlacementAssumption
    <2>6. d \in Claims /\ d.tree = tree /\ d.add = {SharedPath} /\ d.delete = {}
      BY <1>4, <2>4, <2>5 DEF ClaimsAlso
    <2>7. GoodFile(SharedPath, content)
      BY <1>7, OwnFileAssumption DEF GoodFile, OwnFile
    <2>8. ASSUME Without(base, SharedPath, drops)
          PROVE  SameSiblings(Content(base, SharedPath), content, {sel})
      <3>1. CASE ver # None
        BY <1>2, <3>1
      <3>2. CASE ver = None
        <4>1. content = Content(base, SharedPath)
          BY <1>2, <2>8, <3>2 DEF Without
        <4>2. Rewritten(content, content, {sel})
          BY DEF Rewritten
        <4> QED
          BY <4>1, <4>2, RewrittenKeeps
      <3> QED
        BY <3>1, <3>2
    <2>9. Fits(base, d, {sel}, drops)
      BY <2>3, <2>6, <2>7, <2>8 DEF Fits
    <2> QED
      BY <1>1, <1>3, <1>5, <2>9
  <1> QED
    BY <1>6, <1>7

\* What a request writes, what it may leave empty, and what it takes out.
WrittenBy(rendering, obj) == IF rendering = "derived" THEN Derived[obj] ELSE {obj}

EmptyIn(rendering, obj, ver) ==
  IF rendering = "derived" /\ ver # None THEN Derived[obj] ELSE {}

DroppedBy(rendering, obj, ver, empty) ==
  IF ver = None THEN WrittenBy(rendering, obj) ELSE empty

\* The artifacts without content are those of a deletion, or the empty ones.
LEMMA ContentFacts ==
  ASSUME NEW ver \in Versions, NEW sels \in SUBSET Objects, NEW empty \in SUBSET sels
  PROVE  /\ ArtifactContents(ver, empty) \in ContentMaps
         /\ Emptied(sels, ArtifactContents(ver, empty)) = IF ver = None THEN sels ELSE empty
  <1>1. PICK cs : cs = ArtifactContents(ver, empty)
    OBVIOUS
  <1>2. /\ cs = [sel \in Objects |-> IF sel \in empty THEN None ELSE ver]
        /\ \A sel \in Objects : cs[sel] = IF sel \in empty THEN None ELSE ver
    BY <1>1 DEF ArtifactContents
  <1>3. cs \in ContentMaps
    BY <1>2 DEF ContentMaps, Versions
  <1>4. Emptied(sels, cs) = IF ver = None THEN sels ELSE empty
    <2>1. CASE ver = None
      BY <1>2, <2>1 DEF Emptied
    <2>2. CASE ver # None
      BY <1>2, <2>2 DEF Emptied
    <2> QED
      BY <2>1, <2>2
  <1> QED
    BY <1>1, <1>3, <1>4

\* Whatever the providers do with the object, the claim fits.
LEMMA GenerateFits ==
  ASSUME NEW base, GoodTree(base), NEW cache \in Caches, NEW find \in BOOLEAN,
         NEW rendering \in Renderings, NEW obj \in Objects, NEW ver \in Versions,
         NEW empty \in SUBSET EmptyIn(rendering, obj, ver)
  PROVE  Fits(base, GenerateFinalWorktree(base, cache, find, rendering, obj, ver, empty),
              WrittenBy(rendering, obj), DroppedBy(rendering, obj, ver, empty))
  <1>1. CASE rendering = "unhandled"
    <2>1. PICK cs, sels : cs = ArtifactContents(ver, {}) /\ sels = {obj}
      OBVIOUS
    <2>2. sels \in SUBSET Objects /\ sels # {} /\ {} \in SUBSET sels /\ empty = {}
      BY <1>1, <2>1 DEF EmptyIn
    <2>3. cs \in ContentMaps /\ Emptied(sels, cs) = IF ver = None THEN sels ELSE {}
      BY <2>1, <2>2, ContentFacts
    <2>4. Fits(base, placeArtifacts(base, cache, find, obj, sels, cs), sels, Emptied(sels, cs))
      BY <2>2, <2>3, PlacedFits
    <2>5. GenerateFinalWorktree(base, cache, find, rendering, obj, ver, empty) =
            placeArtifacts(base, cache, find, obj, sels, cs)
      BY <1>1, <2>1, Zenon DEF GenerateFinalWorktree
    <2>6. /\ WrittenBy(rendering, obj) = sels
          /\ DroppedBy(rendering, obj, ver, empty) = Emptied(sels, cs)
      BY <1>1, <2>1, <2>2, <2>3 DEF WrittenBy, DroppedBy
    <2> QED
      BY <2>4, <2>5, <2>6
  <1>2. CASE rendering = "derived"
    <2>1. PICK cs, sels : cs = ArtifactContents(ver, empty) /\ sels = Derived[obj]
      OBVIOUS
    <2>2. sels \in SUBSET Objects /\ sels # {} /\ empty \in SUBSET sels
      BY <1>2, <2>1, PlacementAssumption DEF EmptyIn
    <2>3. cs \in ContentMaps /\ Emptied(sels, cs) = IF ver = None THEN sels ELSE empty
      BY <2>1, <2>2, ContentFacts
    <2>4. Fits(base, placeArtifacts(base, cache, find, obj, sels, cs), sels, Emptied(sels, cs))
      BY <2>2, <2>3, PlacedFits
    <2>5. GenerateFinalWorktree(base, cache, find, rendering, obj, ver, empty) =
            placeArtifacts(base, cache, find, obj, sels, cs)
      BY <1>2, <2>1, Zenon DEF GenerateFinalWorktree
    <2>6. /\ WrittenBy(rendering, obj) = sels
          /\ DroppedBy(rendering, obj, ver, empty) = Emptied(sels, cs)
      BY <1>2, <2>1, <2>3 DEF WrittenBy, DroppedBy
    <2> QED
      BY <2>4, <2>5, <2>6
  <1>3. CASE rendering = "claimed"
    <2>1. base \in Trees
      BY DEF GoodTree
    <2>2. /\ NoClaim(base, cache) \in Claims
          /\ NoClaim(base, cache).add = {} /\ NoClaim(base, cache).delete = {}
      BY <2>1, NoClaimFacts
    <2>3. \A sels, drops : Fits(base, NoClaim(base, cache), sels, drops)
      BY <2>2 DEF Fits
    <2>4. GenerateFinalWorktree(base, cache, find, rendering, obj, ver, empty) = NoClaim(base, cache)
      BY <1>3 DEF GenerateFinalWorktree
    <2> QED
      BY <2>3, <2>4
  <1>4. CASE rendering = "wholeFile"
    <2>1. PICK drops : drops = DroppedBy(rendering, obj, ver, empty)
      OBVIOUS
    <2>2. WrittenBy(rendering, obj) = {obj} /\ (ver = None => obj \in drops)
      BY <1>4, <2>1 DEF DroppedBy, WrittenBy
    <2>3. Fits(base, writeWholeFile(NoClaim(base, cache), SharedPath, Bundle(base, obj, ver)),
               {obj}, drops)
      BY <2>2, WholeFileFits
    <2>4. GenerateFinalWorktree(base, cache, find, rendering, obj, ver, empty) =
            writeWholeFile(NoClaim(base, cache), SharedPath, Bundle(base, obj, ver))
      BY <1>4 DEF GenerateFinalWorktree
    <2> QED
      BY <2>1, <2>2, <2>3, <2>4
  <1> QED
    BY <1>1, <1>2, <1>3, <1>4 DEF Renderings

---------------------------------------------------------------------------
(* The committed tree.                                                     *)

\* It has the claimed files and the others of its parent, and keeps the
\* documents of other objects.
LEMMA CommittedFacts ==
  ASSUME NEW base, GoodTree(base), NEW c, NEW sels, NEW drops, Fits(base, c, sels, drops)
  PROVE  /\ GoodTree(CommittedTree(base, c))
         /\ KeepsSiblingsWithout(drops, base, CommittedTree(base, c), sels)
  <1> DEFINE f == [p \in (DOMAIN base \cup c.add) \ c.delete |->
                     IF p \in c.add THEN c.tree[p] ELSE base[p]]
  <1>0. /\ c \in Claims /\ c.tree \in Trees /\ c.add \subseteq Paths /\ base \in Trees
        /\ \A p \in c.add \ c.delete : p \in DOMAIN c.tree /\ GoodFile(p, c.tree[p])
        /\ \A p \in DOMAIN base : GoodFile(p, base[p])
    BY DEF Fits, Claims, GoodTree
  <1>1. /\ DOMAIN base \subseteq Paths /\ \A p \in DOMAIN base : base[p] \in Contents
        /\ \A p \in DOMAIN c.tree : c.tree[p] \in Contents
    BY <1>0, TreeFacts
  <1>2. /\ DOMAIN f = (DOMAIN base \cup c.add) \ c.delete /\ f = [p \in DOMAIN f |-> f[p]]
        /\ \A p \in DOMAIN f : f[p] = IF p \in c.add THEN c.tree[p] ELSE base[p]
    OBVIOUS
  <1>3. f = CommittedTree(base, c)
    BY DEF CommittedTree
  <1> HIDE DEF f
  <1>4. ASSUME NEW p \in DOMAIN f
        PROVE  f[p] \in Contents /\ GoodFile(p, f[p])
    <2>1. CASE p \in c.add
      BY <1>0, <1>1, <1>2, <2>1
    <2>2. CASE p \notin c.add
      BY <1>0, <1>1, <1>2, <2>2
    <2> QED
      BY <2>1, <2>2
  <1>5. GoodTree(f)
    <2>1. DOMAIN f \in SUBSET Paths
      BY <1>0, <1>1, <1>2
    <2>2. f \in Trees
      BY <1>2, <1>4, <2>1, TreeFacts
    <2> QED
      BY <1>4, <2>2 DEF GoodTree
  <1>6. ASSUME NEW p \in Paths, Without(base, p, drops)
        PROVE  SameSiblings(Content(base, p), Content(f, p), sels)
    <2>1. CASE p \in c.delete
      <3>1. Content(f, p) = <<>> /\ DOMAIN <<>> = {}
        BY <1>2, <2>1 DEF Content
      <3>2. OtherDocs(Content(f, p), sels) = {}
        BY <3>1 DEF OtherDocs
      <3>3. OtherDocs(Content(base, p), sels) = {}
        BY <1>6, <2>1 DEF Fits
      <3> QED
        BY <3>2, <3>3, NoSiblings
    <2>2. CASE p \in c.add \ c.delete
      <3>1. Content(f, p) = c.tree[p]
        BY <1>2, <2>2 DEF Content
      <3> QED
        BY <1>6, <2>2, <3>1 DEF Fits
    <2>3. CASE p \notin c.add /\ p \notin c.delete
      <3>1. Content(f, p) = Content(base, p)
        BY <1>2, <2>3 DEF Content
      <3>2. Rewritten(Content(base, p), Content(base, p), sels)
        BY DEF Rewritten
      <3> QED
        BY <3>1, <3>2, RewrittenKeeps
    <2> QED
      BY <2>1, <2>2, <2>3
  <1> QED
    BY <1>3, <1>5, <1>6 DEF KeepsSiblingsWithout, Without

\* The documents of an object in a tree.
CopySet(tree, sel) == UNION {{p} \X Matches(tree[p], sel) : p \in DOMAIN tree}

\* The copies of an object are its positions in the tree.
LEMMA CopyFacts ==
  ASSUME NEW tree, NEW sel
  PROVE  /\ Copies(tree, sel) = Cardinality(CopySet(tree, sel))
         /\ \A p \in DOMAIN tree : \A i \in Matches(tree[p], sel) : <<p, i>> \in CopySet(tree, sel)
         /\ \A x \in CopySet(tree, sel) :
              \E p \in DOMAIN tree : \E i \in Matches(tree[p], sel) : x = <<p, i>>
  BY DEF CopySet, Copies

\* The image of a finite set is finite.
LEMMA FiniteImage ==
  ASSUME NEW S, IsFiniteSet(S), NEW f
  PROVE  IsFiniteSet({f[x] : x \in S})
  <1> DEFINE T == {f[x] : x \in S}
             g == [x \in S |-> f[x]]
  <1>1. g \in Surjection(S, T)
    BY DEF Surjection
  <1> HIDE DEF T
  <1> HIDE DEF g
  <1>3. IsFiniteSet(T)
    BY <1>1, FS_Surjection
  <1> QED
    BY <1>3 DEF T

\* A tree has finitely many documents.
LEMMA FiniteCopies ==
  ASSUME NEW tree \in Trees, NEW sel
  PROVE  IsFiniteSet(CopySet(tree, sel))
  <1>0. DOMAIN tree \subseteq Paths /\ \A p \in DOMAIN tree : tree[p] \in Contents
    BY TreeFacts
  <1>1. IsFiniteSet(DOMAIN tree)
    <2> DEFINE S == Objects \X Objects
               f == [x \in S |-> DefaultPath[x[1]][x[2]]]
               P == {f[x] : x \in S}
    <2>1. IsFiniteSet(P)
      <3>1. IsFiniteSet(S)
        BY PlacementAssumption, FS_Product
      <3> HIDE DEF S, f
      <3> QED
        BY <3>1, FiniteImage
    <2>a. Paths = P \cup {SharedPath}
      <3>1. \A o, q \in Objects : <<o, q>> \in S /\ f[<<o, q>>] = DefaultPath[o][q]
        OBVIOUS
      <3>2. \A x \in S : \E o, q \in Objects : f[x] = DefaultPath[o][q]
        OBVIOUS
      <3>3. \A y \in P : \E x \in S : y = f[x]
        OBVIOUS
      <3>4. \A x \in S : f[x] \in P
        OBVIOUS
      <3>5. \A p \in Paths : p = SharedPath \/ \E o, q \in Objects : p = DefaultPath[o][q]
        BY DEF Paths
      <3>6. SharedPath \in Paths /\ \A o, q \in Objects : DefaultPath[o][q] \in Paths
        BY DEF Paths
      <3> HIDE DEF S, f, P
      <3>7. ASSUME NEW p \in Paths PROVE p \in P \cup {SharedPath}
        <4>1. CASE p = SharedPath
          BY <4>1
        <4>2. CASE \E o, q \in Objects : p = DefaultPath[o][q]
          <5>1. PICK o \in Objects : \E q \in Objects : p = DefaultPath[o][q]
            BY <4>2
          <5>2. PICK q \in Objects : p = DefaultPath[o][q]
            BY <5>1
          <5> QED
            BY <3>1, <3>4, <5>2
        <4> QED
          BY <3>5, <4>1, <4>2
      <3>8. ASSUME NEW p \in P PROVE p \in Paths
        BY <3>2, <3>3, <3>6
      <3> QED
        BY <3>6, <3>7, <3>8
    <2>2. IsFiniteSet(Paths)
      <3> HIDE DEF P
      <3> QED
        BY <2>1, <2>a, FS_AddElement
    <2> QED
      BY <1>0, <2>2, FS_Subset
  <1> DEFINE f == [p \in DOMAIN tree |-> {p} \X Matches(tree[p], sel)]
             T == {f[p] : p \in DOMAIN tree}
  <1>2. IsFiniteSet(T)
    <2> HIDE DEF f
    <2> QED
      BY <1>1, FiniteImage
  <1>3. ASSUME NEW p \in DOMAIN tree
        PROVE  IsFiniteSet(f[p])
    <2>1. tree[p] \in Contents
      BY <1>0
    <2>2. PICK n \in Nat : n = Len(tree[p]) /\ DOMAIN tree[p] = 1 .. n
      BY <2>1 DEF Contents
    <2>3. IsFiniteSet(1 .. n)
      BY FS_Interval
    <2>4. IsFiniteSet(Matches(tree[p], sel))
      BY <2>2, <2>3, FS_Subset DEF Matches
    <2>5. IsFiniteSet({p})
      BY FS_Singleton
    <2> QED
      BY <2>4, <2>5, FS_Product
  <1>4. CopySet(tree, sel) = UNION T
    BY DEF CopySet
  <1>5. \A x \in T : IsFiniteSet(x)
    BY <1>3
  <1> HIDE DEF T
  <1> QED
    BY <1>2, <1>4, <1>5, FS_UNION

\* One document with the new content, and as many copies as before.
WrittenOnce(old, new, obj, ver) ==
  /\ \E p \in DOMAIN new : Doc(obj, ver) \in ToSet(new[p])
  /\ Copies(new, obj) = (IF Copies(old, obj) = 0 THEN 1 ELSE Copies(old, obj))

\* An artifact with content drops nothing.
LEMMA NothingDropped ==
  ASSUME NEW base, NEW obj, NEW cs, cs[obj] = "new", NEW c \in FoundClaims(base, {obj}, cs)
  PROVE  c.delete = {}
  <1>1. Emptied({obj}, cs) = {}
    BY PlacementAssumption DEF Emptied
  <1> QED
    BY <1>1 DEF FoundClaims, FoundIn

\* An object that was found is rewritten where it was.
LEMMA FoundOnce ==
  ASSUME NEW base, GoodTree(base), NEW obj \in Objects, NEW cs, cs[obj] = "new",
         NEW c \in FoundClaims(base, {obj}, cs), c.add # {}
  PROVE  WrittenOnce(base, CommittedTree(base, c), obj, "new")
  <1> DEFINE new == CommittedTree(base, c)
  <1>0. c.delete = {}
    BY NothingDropped
  <1>1. FoundIn(base, c, {obj}, cs)
    BY DEF FoundClaims
  <1>2. /\ DOMAIN new = DOMAIN base
        /\ \A p \in DOMAIN base : new[p] = IF p \in c.add THEN c.tree[p] ELSE base[p]
    BY <1>0, <1>1 DEF FoundIn, CommittedTree
  <1> HIDE DEF new
  <1>3. ASSUME NEW p \in DOMAIN base
        PROVE  new[p] = c.tree[p] /\ Matches(new[p], obj) = Matches(base[p], obj)
    <2>1. new[p] = c.tree[p]
      BY <1>0, <1>1, <1>2 DEF FoundIn
    <2>2. Rewritten(base[p], c.tree[p], {obj})
      BY <1>0, <1>1 DEF FoundIn
    <2>3. ASSUME NEW old, NEW cont, Rewritten(old, cont, {obj})
          PROVE  Matches(cont, obj) = Matches(old, obj)
      BY <2>3 DEF Rewritten, Matches, matchDoc
    <2>4. Matches(c.tree[p], obj) = Matches(base[p], obj)
      BY <2>2, <2>3, Zenon
    <2> QED
      BY <2>1, <2>4, Zenon
  <1>3a. PICK p \in c.add :
          p \in DOMAIN base /\ \E i \in DOMAIN base[p] : c.tree[p][i] = Doc(obj, "new")
    BY <1>0, <1>1 DEF FoundIn
  <1>4. PICK i \in DOMAIN base[p] : p \in DOMAIN base /\ c.tree[p][i] = Doc(obj, "new")
    BY <1>3a
  <1>5. i \in DOMAIN new[p] /\ new[p][i] = Doc(obj, "new") /\ Doc(obj, "new").obj = obj
    <2>1. Rewritten(base[p], c.tree[p], {obj})
      BY <1>0, <1>1, <1>4 DEF FoundIn
    <2> QED
      BY <1>3, <1>4, <2>1, DocFacts DEF Rewritten
  <1>6. CopySet(new, obj) = CopySet(base, obj)
    BY <1>2, <1>3 DEF CopySet
  <1>7. <<p, i>> \in CopySet(base, obj)
    <2>1. i \in Matches(new[p], obj)
      BY <1>5 DEF Matches, matchDoc
    <2> QED
      BY <1>2, <1>4, <1>6, <2>1, CopyFacts
  <1>8. Copies(base, obj) # 0
    <2>1. IsFiniteSet(CopySet(base, obj))
      BY FiniteCopies DEF GoodTree
    <2> QED
      BY <1>7, <2>1, FS_EmptySet, CopyFacts
  <1>9. Copies(new, obj) = Copies(base, obj)
    BY <1>6, CopyFacts
  <1>10. Doc(obj, "new") \in ToSet(new[p])
    BY <1>5 DEF ToSet
  <1>11. WrittenOnce(base, new, obj, "new")
    BY <1>2, <1>4, <1>8, <1>9, <1>10 DEF WrittenOnce
  <1> QED
    BY <1>11 DEF new

\* An object that is nowhere gets its default file.
LEMMA CreatedOnce ==
  ASSUME NEW base, GoodTree(base), NEW obj \in Objects, Holding(base, obj) = {},
         NEW cs, cs[obj] = "new", NEW c \in DefaultClaims(obj, {obj}, cs), DefaultPath[obj][obj] \in c.add
  PROVE  WrittenOnce(base, CommittedTree(base, c), obj, "new")
  <1> DEFINE new == CommittedTree(base, c)
             path == DefaultPath[obj][obj]
  <1>0. "new" # None
    BY PlacementAssumption
  <1>1. DefaultIn(obj, c, {obj}, cs) /\ Emptied({obj}, cs) = {}
    BY <1>0 DEF DefaultClaims, Emptied
  <1>2. c.add = {path} /\ c.delete = {} /\ c.tree[path] = <<Doc(obj, "new")>>
    BY <1>1 DEF DefaultIn
  <1>3. /\ DOMAIN new = DOMAIN base \cup {path} /\ new[path] = <<Doc(obj, "new")>>
        /\ \A p \in DOMAIN base \ {path} : new[p] = base[p]
    BY <1>2 DEF CommittedTree
  <1> HIDE DEF new, path
  <1>4. \A p \in DOMAIN base : Matches(base[p], obj) = {}
    BY DEF Holding
  <1>5. Matches(new[path], obj) = {1} /\ Doc(obj, "new") \in ToSet(new[path])
    <2>1. Doc(obj, "new").obj = obj
      BY DocFacts
    <2>2. DOMAIN new[path] = {1} /\ new[path][1] = Doc(obj, "new")
      BY <1>3
    <2> QED
      BY <2>1, <2>2 DEF Matches, matchDoc, ToSet
  <1>6. CopySet(new, obj) = {<<path, 1>>}
    <2>1. <<path, 1>> \in CopySet(new, obj)
      BY <1>3, <1>5, CopyFacts
    <2>2. ASSUME NEW x \in CopySet(new, obj)
          PROVE  x = <<path, 1>>
      <3>0. PICK p \in DOMAIN new : \E i \in Matches(new[p], obj) : x = <<p, i>>
        BY CopyFacts
      <3>1. PICK i \in Matches(new[p], obj) : x = <<p, i>>
        BY <3>0
      <3>2. p = path
        BY <1>3, <1>4, <3>1
      <3> QED
        BY <1>5, <3>1, <3>2
    <2> QED
      BY <2>1, <2>2
  <1>7. Copies(new, obj) = 1
    BY <1>6, FS_Singleton, CopyFacts
  <1>8. Copies(base, obj) = 0
    <2>1. CopySet(base, obj) = {}
      BY <1>4, CopyFacts
    <2> QED
      BY <2>1, FS_EmptySet, CopyFacts
  <1>9. WrittenOnce(base, new, obj, "new")
    BY <1>3, <1>5, <1>7, <1>8 DEF WrittenOnce
  <1> QED
    BY <1>9 DEF new

\* The resource finder finds an object that is there.
LEMMA FinderFinds ==
  ASSUME NEW base \in Trees, NEW obj \in Objects, NEW cs, cs[obj] = "new",
         NEW d \in FoundClaims(base, {obj}, cs), Holding(base, obj) # {}
  PROVE  ReplaceObject(d, obj, "new").add # {}
  <1>0. "new" # None /\ d \in Claims /\ d.tree \in Trees
    BY PlacementAssumption DEF FoundClaims, Claims
  <1>1. FoundIn(base, d, {obj}, cs) /\ d.delete = {}
    BY NothingDropped DEF FoundClaims
  <1>1a. PICK p \in DOMAIN base : \E i \in DOMAIN base[p] : base[p][i].obj = obj
    BY DEF Holding, Matches, matchDoc
  <1>2. PICK i \in DOMAIN base[p] : base[p][i].obj = obj
    BY <1>1a
  <1>3. p \in DOMAIN d.tree /\ i \in DOMAIN d.tree[p] /\ d.tree[p][i].obj = obj
    BY <1>1, <1>2 DEF FoundIn, Rewritten
  <1>4. p \in Holding(d.tree, obj)
    BY <1>3 DEF Holding, Matches, matchDoc
  <1>5. PICK paths \in SUBSET Holding(d.tree, obj), cache \in Caches :
          /\ paths # {}
          /\ ReplaceObject(d, obj, "new") =
               Claim(d, applyReplacement(d.tree, paths, obj, "new"), paths, "new", cache)
    BY <1>0, <1>4, ReplaceObjectFacts DEF Replacing
  <1>6. Claim(d, applyReplacement(d.tree, paths, obj, "new"), paths, "new", cache).add = d.add \cup paths
    BY <1>0 DEF Claim
  <1> QED
    BY <1>5, <1>6

\* With the resource finder, the intercepted object is written once.
LEMMA PlacedOnce ==
  ASSUME NEW base, GoodTree(base), NEW cache \in Caches, NEW obj \in Objects,
         NEW cs \in ContentMaps, cs[obj] = "new"
  PROVE  WrittenOnce(base,
             CommittedTree(base, placeArtifacts(base, cache, TRUE, obj, {obj}, cs)), obj, "new")
  <1> DEFINE none  == NoClaim(base, cache)
             found == place(TRUE, obj, none, SetToSeq({obj}), cs)
             last  == place(FALSE, obj, found, SetToSeq({obj}), cs)
             C     == FoundClaims(base, {obj}, cs)
             D     == DefaultClaims(obj, {obj}, cs)
  <1>0. /\ IsFiniteSet({obj}) /\ base \in Trees /\ "new" # None
        /\ {obj} \in SUBSET Objects /\ "new" \in Versions
    BY PlacementAssumption, FS_Singleton DEF GoodTree, Versions
  <1>1. none \in C
    BY <1>0, NothingFound
  <1>2. PICK d \in C : found = ReplaceObject(d, obj, "new")
    <2> HIDE DEF none, C
    <2>1. ClosedUnder(C, {obj}, TRUE, obj, cs)
      BY <1>0, FindingStays DEF C
    <2>2. \E a \in {obj} : EndsIn(found, C, TRUE, obj, a, cs)
      <3>1. PICK A : A = {obj}
        OBVIOUS
      <3>2. IsFiniteSet(A) /\ A # {} /\ ClosedUnder(C, A, TRUE, obj, cs)
        BY <1>0, <2>1, <3>1
      <3>3. \E a \in A : EndsIn(place(TRUE, obj, none, SetToSeq(A), cs), C, TRUE, obj, a, cs)
        BY <1>1, <3>2, PlaceEach
      <3> QED
        BY <3>1, <3>3
    <2> QED
      BY <2>2 DEF EndsIn, placeOne
  <1>3. found \in C
    <2>1. ClosedUnder(C, {obj}, TRUE, obj, cs)
      BY <1>0, FindingStays
    <2> QED
      BY <1>2, <2>1 DEF ClosedUnder, placeOne
  <1>4. placeArtifacts(base, cache, TRUE, obj, {obj}, cs) =
          IF found.add \cup found.delete # {} THEN found ELSE last
    BY DEF placeArtifacts
  <1> HIDE DEF found
  <1>5. found.delete = {}
    BY <1>3, NothingDropped
  <1>6. CASE found.add # {}
    BY <1>3, <1>4, <1>6, FoundOnce
  <1>7. CASE found.add = {}
    <2>1. Holding(base, obj) = {}
      BY <1>0, <1>2, <1>7, FinderFinds
    <2>2. found \in D
      BY <1>0, <1>3, <1>5, <1>7 DEF FoundClaims, DefaultClaims, DefaultIn
    <2>3. ClosedUnder(D, {obj}, FALSE, obj, cs)
      BY <1>0, DefaultStays
    <2>4. PICK e \in D : last = DefaultPlace(obj, e, obj, "new")
      <3> HIDE DEF D
      <3>1. \E a \in {obj} : EndsIn(last, D, FALSE, obj, a, cs)
        <4>1. PICK A : A = {obj}
          OBVIOUS
        <4>2. IsFiniteSet(A) /\ A # {} /\ ClosedUnder(D, A, FALSE, obj, cs)
          BY <1>0, <2>3, <4>1
        <4>3. \E a \in A :
                EndsIn(place(FALSE, obj, found, SetToSeq(A), cs), D, FALSE, obj, a, cs)
          BY <2>2, <4>2, PlaceEach
        <4> QED
          BY <4>1, <4>3
      <3> QED
        BY <3>1 DEF EndsIn, placeOne
    <2>5. last \in D
      BY <2>3, <2>4 DEF ClosedUnder, placeOne
    <2> HIDE DEF last
    <2>6. DefaultPath[obj][obj] \in last.add
      BY <1>0, <2>4 DEF DefaultPlace, Claim
    <2> QED
      BY <1>4, <1>5, <1>7, <2>1, <2>5, <2>6, CreatedOnce
  <1> QED
    BY <1>6, <1>7

---------------------------------------------------------------------------
(* The trees.                                                              *)

\* What the placement left for the commit.
Placed ==
  /\ Fits(OldTree, pipe.claim, Written, Dropped)
  /\ pipe.ver # None /\ finder /\ pipe.rendering = "unhandled" =>
       WrittenOnce(OldTree, CommittedTree(OldTree, pipe.claim), pipe.obj, pipe.ver)

HistoryInv == \A c \in Indices : GoodTree(Tree(c))

TreesInv ==
  /\ HistoryInv
  /\ docCache \in [Repositories -> Caches]
  /\ finder \in BOOLEAN
  /\ requests \in 0 .. MaxRequests /\ edits \in 0 .. MaxEdits
  /\ pipe.pc = "commit" => Placed

\* A file written as a whole.
LEMMA WrittenTree ==
  ASSUME NEW tree, GoodTree(tree), NEW path \in Paths, NEW content \in Contents,
         GoodFile(path, content)
  PROVE  GoodTree(WriteFile(tree, path, content))
  <1>1. tree \in Trees /\ \A p \in DOMAIN tree : GoodFile(p, tree[p])
    BY DEF GoodTree
  <1>2. PICK new : new = WriteFile(tree, path, content)
    OBVIOUS
  <1>2a. /\ WriteFile(tree, path, content) \in Trees
        /\ DOMAIN WriteFile(tree, path, content) = DOMAIN tree \cup {path}
        /\ WriteFile(tree, path, content)[path] = content
        /\ \A p \in DOMAIN tree \ {path} : WriteFile(tree, path, content)[p] = tree[p]
    BY <1>1, WriteFacts
  <1>3. /\ new \in Trees /\ DOMAIN new = DOMAIN tree \cup {path} /\ new[path] = content
        /\ \A p \in DOMAIN tree \ {path} : new[p] = tree[p]
    BY <1>2, <1>2a, Zenon
  <1> QED
    BY <1>1, <1>2, <1>3 DEF GoodTree

\* A file with one document of its object.
LEMMA OneDocument ==
  ASSUME NEW o \in Objects, NEW v \in {"old", "new"}
  PROVE  /\ DefaultPath[o][o] \in Paths /\ <<Doc(o, v)>> \in Contents
         /\ GoodFile(DefaultPath[o][o], <<Doc(o, v)>>)
  <1>1. PICK d : d = Doc(o, v)
    OBVIOUS
  <1>2. d \in Docs /\ d.obj = o
    BY <1>1, DocFacts
  <1>3. <<d>> \in Contents /\ <<d>> # <<>> /\ DOMAIN <<d>> = {1} /\ <<d>>[1] = d
    BY <1>2 DEF Contents
  <1>4. DefaultPath[o][o] \in Paths
    BY DEF Paths
  <1>5. OwnFile(DefaultPath[o][o], <<d>>)
    BY <1>2, <1>3, OwnFileAssumption DEF OwnFile
  <1> QED
    BY <1>1, <1>3, <1>4, <1>5 DEF GoodFile

\* The shared file is nobody's own.
LEMMA SharedFile ==
  ASSUME NEW content, content # <<>>
  PROVE  SharedPath \in Paths /\ GoodFile(SharedPath, content)
  BY OwnFileAssumption DEF Paths, GoodFile, OwnFile

\* What other people leave is a tree of files with documents.
LEMMA EditedFacts ==
  ASSUME NEW tree, GoodTree(tree), NEW new \in EditedTrees(tree)
  PROVE  GoodTree(new)
  <1>1. PICK o \in Requested :
          new \in {InOwnFile(tree, o), TakenOut(tree, o), InSharedFile(TakenOut(tree, o), o)}
    BY DEF EditedTrees
  <1>2. o \in Objects
    BY <1>1, GitPipelineAssumption
  <1>3. CASE new = InOwnFile(tree, o)
    BY <1>2, <1>3, OneDocument, WrittenTree DEF InOwnFile
  <1>4. PICK out : out = TakenOut(tree, o)
    OBVIOUS
  <1>5. GoodTree(out)
    <2>1. tree \in Trees /\ Holding(tree, o) \in SUBSET Holding(tree, o)
      BY DEF GoodTree
    <2> QED
      BY <1>2, <1>4, <2>1, DroppedFacts DEF TakenOut
  <1>6. CASE new = InSharedFile(out, o)
    <2>1. PICK old : old = (IF SharedPath \in DOMAIN out THEN out[SharedPath] ELSE <<>>)
      OBVIOUS
    <2>2. old \in Contents
      <3>1. out \in Trees
        BY <1>5 DEF GoodTree
      <3>2. <<>> \in Contents
        BY DEF Contents
      <3> QED
        BY <2>1, <3>1, <3>2, TreeFacts
    <2>3. PICK d \in Docs : d = Doc(o, "old")
      BY <1>2, DocFacts
    <2>4. Append(old, d) \in Contents /\ Append(old, d) # <<>>
      <3>1. old \in Seq(Docs)
        BY <2>2 DEF Contents
      <3>2. /\ Append(old, d) \in Seq(Docs) /\ Len(Append(old, d)) = Len(old) + 1
            /\ Len(old) \in Nat /\ Len(<<>>) = 0
        BY <3>1
      <3> QED
        BY <3>2 DEF Contents
    <2>5. new = WriteFile(out, SharedPath, Append(old, d))
      BY <1>6, <2>1, <2>3 DEF InSharedFile
    <2> QED
      BY <1>5, <2>4, <2>5, SharedFile, WrittenTree
  <1> QED
    BY <1>1, <1>3, <1>4, <1>5, <1>6

\* The first commit.
LEMMA FirstTrees ==
  ASSUME NEW tree \in {[p \in {DefaultPath[o][o]} |-> <<Doc(o, "old")>>] : o \in Requested}
                        \cup {[p \in {SharedPath} |-> SetToSeq({Doc(o, "old") : o \in Objects})]}
  PROVE  GoodTree(tree)
  <1>0. ASSUME NEW path \in Paths, NEW content \in Contents, GoodFile(path, content)
        PROVE  GoodTree([p \in {path} |-> content])
    <2>1. PICK new : new = [p \in {path} |-> content]
      OBVIOUS
    <2>2. DOMAIN new = {path} /\ new = [p \in {path} |-> content]
      BY <2>1
    <2>3. new[path] = content
      BY <2>2
    <2>4. new \in [{path} -> Contents]
      BY <2>2
    <2>5. new \in Trees
      BY <2>4 DEF Trees
    <2> QED
      BY <1>0, <2>1, <2>2, <2>3, <2>5 DEF GoodTree
  <1>1. CASE tree \in {[p \in {DefaultPath[o][o]} |-> <<Doc(o, "old")>>] : o \in Requested}
    <2>1. PICK o \in Requested : tree = [p \in {DefaultPath[o][o]} |-> <<Doc(o, "old")>>]
      BY <1>1
    <2>2. o \in Objects
      BY GitPipelineAssumption
    <2> QED
      BY <1>0, <2>1, <2>2, OneDocument
  <1>2. CASE tree = [p \in {SharedPath} |-> SetToSeq({Doc(o, "old") : o \in Objects})]
    <2> DEFINE f == [o \in Objects |-> Doc(o, "old")]
               S == {f[o] : o \in Objects}
    <2>1. S = {Doc(o, "old") : o \in Objects}
      OBVIOUS
    <2>2. S \subseteq Docs /\ S # {}
      BY DocFacts, PlacementAssumption
    <2>3. IsFiniteSet(S)
      <3> HIDE DEF f
      <3> QED
        BY FiniteImage, PlacementAssumption
    <2> HIDE DEF S
    <2>4. PICK n \in Nat : n = Cardinality(S)
      BY <2>3, ListOfSet
    <2>5. PICK s \in [1 .. n -> S] : s = SetToSeq(S)
      BY <2>3, <2>4, ListOfSet
    <2>6. n # 0
      BY <2>2, <2>3, <2>4, FS_EmptySet
    <2>7. s \in Contents
      <3>1. s \in [1 .. n -> Docs]
        BY <2>2
      <3> QED
        BY <3>1, SeqDef DEF Contents
    <2>8. s # <<>>
      <3>1. DOMAIN s = 1 .. n /\ 1 \in 1 .. n
        BY <2>6
      <3>2. DOMAIN <<>> = {}
        OBVIOUS
      <3> QED
        BY <3>1, <3>2
    <2> QED
      BY <1>0, <1>2, <2>1, <2>5, <2>7, <2>8, SharedFile
  <1> QED
    BY <1>1, <1>2

\* A commit of a good tree changes no other tree.
LEMMA TreeAdded ==
  ASSUME IInv, HistoryInv, NEW parent \in 0 .. Len(commits), NEW tree, GoodTree(tree),
         commits' = NewCommit(parent, tree)
  PROVE  /\ HistoryInv'
         /\ commits'[Len(commits')].tree = tree
         /\ \A c \in Indices : commits'[c].tree = Tree(c)
  <1> DEFINE n == Len(commits)
  <1>0. PICK x : /\ x.tree = tree /\ commits' = Append(commits, x)
    <2> DEFINE x == [anc |-> Ancestors(parent) \cup {n + 1}, parent |-> parent, tree |-> tree]
    <2>1. x.tree = tree /\ commits' = Append(commits, x)
      BY DEF NewCommit
    <2> HIDE DEF x
    <2> QED
      BY <2>1
  <1>1. PICK S : commits \in Seq(S)
    BY DEF IInv, IsHistory
  <1>2. commits \in Seq(S \cup {x})
    BY <1>1, SeqMonotonic
  <1>3. /\ n \in Nat /\ Len(commits') = n + 1 /\ commits'[n + 1] = x
        /\ \A c \in 1 .. n : commits'[c] = commits[c]
    BY <1>0, <1>2
  <1>4. ASSUME NEW c \in 1 .. n + 1
        PROVE  GoodTree(commits'[c].tree)
    <2>1. CASE c = n + 1
      BY <1>0, <1>3, <2>1
    <2>2. CASE c \in 1 .. n
      BY <1>3, <2>2 DEF HistoryInv, Indices, Tree
    <2> QED
      BY <1>3, <2>1, <2>2
  <1> QED
    BY <1>0, <1>3, <1>4 DEF HistoryInv, Indices, Tree

\* The placement only comes before the commit.
LEMMA BeforePlacement ==
  ASSUME IInv, \/ FetchUpstream \/ CheckoutToBranch \/ PullUpstream \/ PullOrigin
               \/ MergeUpstream \/ UpstreamBasedHardReset \/ CallFails \/ Push
  PROVE  pipe'.pc # "commit" /\ UNCHANGED <<commits, docCache, finder, requests, edits>>
  <1>1. pipe.pc # "idle" /\ UNCHANGED <<commits, docCache, finder, requests, edits>>
    BY DEF FetchUpstream, CheckoutToBranch, PullUpstream, PullOrigin, Pull, MergeUpstream,
           UpstreamBasedHardReset, CallFails, Push
  <1>2. IsPipe(pipe)
    BY <1>1, RunningPipe, BasicFacts
  <1>3. \A pc : Goto(pc) => pipe'.pc = pc
    BY <1>2, PipeChanges DEF Became
  <1>4. \A pc, b, c : Moved(pc, b, c) \/ CheckedOut(pc, b, c) \/ Reset(pc, b, c) => pipe'.pc = pc
    BY <1>2, PipeChanges DEF Became
  <1>5. \A pc, c : Fetched(pc, c) => pipe'.pc = pc
    BY <1>2, PipeChanges DEF Became
  <1>6. Fail => pipe'.pc # "commit"
    BY <1>3 DEF Fail, Idle
  <1>7. ASSUME NEW ref, NEW next, next # "commit", Pull(ref, next)
        PROVE  pipe'.pc # "commit"
    <2>1. Goto(next) \/ Moved(next, pipe.on, ref) \/ Fail
      BY <1>7, Zenon DEF Pull, Moved
    <2> QED
      BY <1>3, <1>4, <1>6, <1>7, <2>1
  <1>8. CASE FetchUpstream
    <2>1. PICK next : next \in {"checkout", "reset"} /\ Fetched(next, remote[Upstream][Main])
      BY <1>8, Zenon DEF FetchUpstream, Fetched
    <2> QED
      BY <1>1, <1>5, <2>1
  <1>9. CASE CheckoutToBranch
    <2>1. \E b, c : CheckedOut("pullUpstream", b, c)
      BY <1>9, Zenon DEF CheckoutToBranch, CheckedOut
    <2> QED
      BY <1>1, <1>4, <2>1
  <1>10. CASE PullUpstream
    BY <1>1, <1>7, <1>10 DEF PullUpstream
  <1>11. CASE PullOrigin
    BY <1>1, <1>3, <1>7, <1>11 DEF PullOrigin
  <1>12. CASE MergeUpstream
    <2>1. Goto("generate") \/ Moved("generate", pipe.on, pipe.heads[Main]) \/ Fail
      BY <1>12, Zenon DEF MergeUpstream, Moved
    <2> QED
      BY <1>1, <1>3, <1>4, <1>6, <2>1
  <1>13. CASE UpstreamBasedHardReset
    <2>1. \E b, c : Reset("generate", b, c)
      BY <1>13, Zenon DEF UpstreamBasedHardReset, Reset
    <2> QED
      BY <1>1, <1>4, <2>1
  <1>14. CASE CallFails
    BY <1>6, <1>14 DEF CallFails
  <1>15. CASE Push
    BY <1>15 DEF Push, Idle
  <1> QED
    BY <1>1, <1>8, <1>9, <1>10, <1>11, <1>12, <1>13, <1>14, <1>15

\* A step that touches no tree and does not come to the commit.
LEMMA TreesStay ==
  ASSUME TreesInv, pipe'.pc # "commit", UNCHANGED <<commits, finder>>,
         docCache' \in [Repositories -> Caches],
         requests' \in 0 .. MaxRequests, edits' \in 0 .. MaxEdits
  PROVE  TreesInv'
  BY DEF TreesInv, HistoryInv, Indices, Tree

\* The checked out branch is a commit.
LEMMA LocalHeadFacts ==
  ASSUME IInv, pipe.pc # "idle"
  PROVE  LocalHead \in Indices /\ LocalHead \in 0 .. Len(commits) /\ pipe.on \in Branches
  <1>1. Len(commits) \in Nat /\ Running
    BY BasicFacts, RunningPipe
  <1>2. pipe.heads \in [Branches -> 0 .. Len(commits)] /\ pipe.on \in Branches /\ LocalHead # 0
    BY <1>1 DEF Running
  <1>3. LocalHead \in 0 .. Len(commits)
    BY <1>2 DEF LocalHead
  <1> QED
    BY <1>1, <1>2, <1>3 DEF Indices

\* What the placement of the tree at the local head gives to the commit.
LEMMA GenerateTrees ==
  ASSUME IInv, TreesInv, Generate
  PROVE  TreesInv'
  <1>e. PICK empty \in SUBSET MayBeEmpty :
          LET claim == GenerateFinalWorktree(Tree(LocalHead), docCache[pipe.target.repo],
                         finder, pipe.rendering, pipe.obj, pipe.ver, empty)
          IN /\ pipe' = [pipe EXCEPT !.pc = "commit", !.claim = claim, !.empty = empty]
             /\ docCache' = [docCache EXCEPT ![pipe.target.repo] = claim.cache]
    BY Zenon DEF Generate
  <1> DEFINE base == OldTree
             cache == docCache[pipe.target.repo]
             claim == GenerateFinalWorktree(base, cache, finder, pipe.rendering, pipe.obj, pipe.ver,
                                            empty)
  <1>0. /\ Running /\ UNCHANGED <<commits, finder, requests, edits>> /\ pipe.pc = "generate"
    BY RunningPipe DEF Generate
  <1>1. pipe' = [pipe EXCEPT !.pc = "commit", !.claim = claim, !.empty = empty]
    BY <1>e, Zenon DEF OldTree
  <1>2. docCache' = [docCache EXCEPT ![pipe.target.repo] = claim.cache]
    BY <1>e, Zenon DEF OldTree
  <1>3. LocalHead \in Indices
    BY <1>0, LocalHeadFacts
  <1>4. GoodTree(base)
    BY <1>3 DEF OldTree, TreesInv, HistoryInv
  <1>5. cache \in Caches /\ pipe.target.repo \in Repositories
    BY <1>0, TargetFacts DEF TreesInv, Running
  <1>6. /\ pipe.rendering \in Renderings /\ pipe.obj \in Objects /\ pipe.ver \in Versions
        /\ finder \in BOOLEAN
    BY <1>0, GitPipelineAssumption DEF Running, Versions, TreesInv
  <1> HIDE DEF base, cache
  <1>a. empty \in SUBSET EmptyIn(pipe.rendering, pipe.obj, pipe.ver)
    BY DEF MayBeEmpty, EmptyIn
  <1>7. Fits(base, claim, WrittenBy(pipe.rendering, pipe.obj),
             DroppedBy(pipe.rendering, pipe.obj, pipe.ver, empty))
    BY <1>4, <1>5, <1>6, <1>a, GenerateFits
  <1>8. ASSUME pipe.ver # None, finder, pipe.rendering = "unhandled"
        PROVE  WrittenOnce(base, CommittedTree(base, claim), pipe.obj, pipe.ver)
    <2>1. pipe.ver = "new"
      BY <1>6, <1>8 DEF Versions
    <2>2. PICK cs : cs = ArtifactContents(pipe.ver, {})
      OBVIOUS
    <2>3. claim = placeArtifacts(base, cache, TRUE, pipe.obj, {pipe.obj}, cs)
      <3>1. claim = placeArtifacts(base, cache, finder, pipe.obj, {pipe.obj}, cs)
        BY <1>8, <2>2, Zenon DEF GenerateFinalWorktree
      <3>2. finder = TRUE
        BY <1>6, <1>8
      <3> QED
        BY <3>1, <3>2, Zenon
    <2>4. cs \in ContentMaps /\ cs[pipe.obj] = "new"
      <3>1. cs = [sel \in Objects |-> "new"]
        BY <2>1, <2>2 DEF ArtifactContents
      <3> QED
        BY <1>6, <3>1 DEF ContentMaps, Versions
    <2> HIDE DEF claim
    <2> QED
      BY <1>4, <1>5, <1>6, <2>1, <2>3, <2>4, PlacedOnce
  <1> HIDE DEF claim
  <1>9. /\ pipe'.claim = claim /\ pipe'.empty = empty /\ pipe'.obj = pipe.obj /\ pipe'.ver = pipe.ver
        /\ pipe'.rendering = pipe.rendering /\ pipe'.heads = pipe.heads /\ pipe'.on = pipe.on
    <2>1. IsPipe(pipe)
      BY <1>0, BasicFacts
    <2> QED
      BY <1>1, <2>1, Zenon DEF IsPipe, PipeFields
  <1>10. /\ OldTree' = base /\ Written' = WrittenBy(pipe.rendering, pipe.obj)
         /\ Dropped' = DroppedBy(pipe.rendering, pipe.obj, pipe.ver, empty)
    BY <1>0, <1>9 DEF OldTree, base, Tree, LocalHead, Written, WrittenBy, Dropped, DroppedBy
  <1>11. Placed'
    BY <1>0, <1>7, <1>8, <1>9, <1>10 DEF Placed
  <1>12. docCache' \in [Repositories -> Caches]
    <2>1. claim.cache \in Caches
      BY <1>7 DEF Fits, Claims
    <2> QED
      BY <1>2, <1>5, <2>1 DEF TreesInv
  <1> QED
    BY <1>0, <1>11, <1>12 DEF TreesInv, HistoryInv, Indices, Tree

\* The commit takes the placed files.
LEMMA CommitTrees ==
  ASSUME IInv, TreesInv, Commit
  PROVE  TreesInv' /\ NewTree = CommittedTree(OldTree, pipe.claim)
  <1> DEFINE tree == CommittedTree(OldTree, pipe.claim)
  <1>0. /\ Running /\ UNCHANGED <<docCache, finder, requests, edits>> /\ pipe.pc = "commit"
        /\ IsPipe(pipe)
    BY RunningPipe, BasicFacts DEF Commit
  <1>1. LocalHead \in 0 .. Len(commits) /\ LocalHead \in Indices /\ pipe.on \in Branches
    BY <1>0, LocalHeadFacts
  <1>2. GoodTree(OldTree)
    BY <1>1 DEF OldTree, TreesInv, HistoryInv
  <1>3. GoodTree(tree)
    BY <1>0, <1>2, CommittedFacts DEF TreesInv, Placed
  <1>4. CASE commits' = commits /\ tree = OldTree /\ Claimed("push", None, {})
    <2>1. pipe'.pc = "push" /\ pipe'.heads = pipe.heads /\ pipe'.on = pipe.on
      BY <1>0, <1>4, PipeChanges DEF Became
    <2>2. NewTree = tree
      BY <1>4, <2>1 DEF NewTree, OldTree, Tree, LocalHead
    <2> QED
      BY <1>0, <1>4, <2>1, <2>2, TreesStay DEF TreesInv
  <1>5. CASE commits' = NewCommit(LocalHead, tree) /\ Committed("push", None, {}, pipe.on, Len(commits'))
    <2>0. PICK c : c = Len(commits')
      OBVIOUS
    <2>1. /\ pipe'.pc = "push" /\ pipe'.heads = [pipe.heads EXCEPT ![pipe.on] = c]
          /\ pipe'.on = pipe.on
      <3>1. Committed("push", None, {}, pipe.on, c)
        BY <1>5, <2>0
      <3>2. Became("push", [pipe.heads EXCEPT ![pipe.on] = c], pipe.on, pipe.upstream, pipe.force)
        BY <1>0, <3>1, PipeChanges, Zenon
      <3> QED
        BY <3>2 DEF Became
    <2>2. pipe'.heads[pipe'.on] = c
      BY <1>0, <1>1, <2>1 DEF Running
    <2> HIDE DEF tree
    <2>3. HistoryInv' /\ commits'[Len(commits')].tree = tree
      BY <1>1, <1>3, <1>5, TreeAdded DEF TreesInv
    <2>4. NewTree = tree
      BY <2>0, <2>2, <2>3 DEF NewTree
    <2>5. TreesInv'
      BY <1>0, <2>1, <2>3 DEF TreesInv
    <2> QED
      BY <2>4, <2>5 DEF tree
  <1> QED
    BY <1>4, <1>5, Zenon DEF Commit, Claimed, Committed, OldTree

\* What others commit leaves a placement in progress alone.
LEMMA OthersTrees ==
  ASSUME IInv, TreesInv, NEW r \in Repositories, NEW b \in Branches, PushByOthers(r, b)
  PROVE  TreesInv'
  <1> DEFINE from == IF remote[r][b] = 0 THEN remote[r][Main] ELSE remote[r][b]
  <1>1. PICK tree \in EditedTrees(Tree(from)) :
           commits' = NewCommit(from, tree) /\ SetBranch(r, b, Len(commits'))
    BY Zenon DEF PushByOthers
  <1>2. from \in Indices /\ from \in 0 .. Len(commits) /\ Len(commits) \in Nat
    <2>1. remote[r][b] \in 0 .. Len(commits) /\ remote[r][Main] \in Indices /\ Len(commits) \in Nat
      BY BranchFacts, BasicFacts
    <2> QED
      BY <2>1 DEF Indices
  <1> HIDE DEF from
  <1>3. GoodTree(tree)
    BY <1>1, <1>2, EditedFacts DEF TreesInv, HistoryInv
  <1>4. HistoryInv' /\ \A c \in Indices : commits'[c].tree = Tree(c)
    BY <1>1, <1>2, <1>3, TreeAdded DEF TreesInv
  <1>5. pipe' = pipe /\ UNCHANGED <<docCache, finder, requests>> /\ edits < MaxEdits /\ edits' = edits + 1
    BY <1>1 DEF SetBranch
  <1>6. edits' \in 0 .. MaxEdits
    <2>1. MaxEdits \in Nat /\ edits \in 0 .. MaxEdits
      BY GitPipelineAssumption DEF TreesInv
    <2> QED
      BY <1>5, <2>1
  <1>7. ASSUME pipe.pc = "commit"
        PROVE  Placed'
    <2>2. LocalHead \in Indices
      BY <1>7, LocalHeadFacts
    <2>3. OldTree' = OldTree /\ Written' = Written /\ Dropped' = Dropped
      BY <1>4, <1>5, <2>2 DEF OldTree, Tree, LocalHead, Written, Dropped
    <2> QED
      BY <1>5, <1>7, <2>3 DEF TreesInv, Placed
  <1> QED
    BY <1>4, <1>5, <1>6, <1>7 DEF TreesInv

\* A step that changes neither the pipeline nor the commits.
LEMMA PlacedStays ==
  ASSUME TreesInv, UNCHANGED <<commits, pipe, finder>>,
         docCache' \in [Repositories -> Caches],
         requests' \in 0 .. MaxRequests, edits' \in 0 .. MaxEdits
  PROVE  TreesInv'
  BY DEF TreesInv, HistoryInv, Indices, Tree, Placed, OldTree, LocalHead, Written, Dropped

\* The first commit has good trees, and nothing is remembered or in progress.
LEMMA InitTrees == Init => TreesInv
  <1> SUFFICES ASSUME Init PROVE TreesInv
    OBVIOUS
  <1>1. PICK tree \in {[p \in {DefaultPath[o][o]} |-> <<Doc(o, "old")>>] : o \in Requested}
                       \cup {[p \in {SharedPath} |-> SetToSeq({Doc(o, "old") : o \in Objects})]} :
          commits = <<[anc |-> {1}, parent |-> 0, tree |-> tree]>>
    BY Zenon DEF Init
  <1>2. GoodTree(tree)
    BY FirstTrees
  <1>3. Len(commits) = 1 /\ commits[1].tree = tree
    BY <1>1
  <1>4. HistoryInv
    BY <1>2, <1>3 DEF HistoryInv, Indices, Tree
  <1>5. docCache \in [Repositories -> Caches]
    BY DEF Init, Caches, CacheEntries
  <1>6. pipe.pc # "commit"
    BY DEF Init, Idle
  <1>7. finder \in BOOLEAN
    BY GitPipelineAssumption DEF Init
  <1>8. requests \in 0 .. MaxRequests /\ edits \in 0 .. MaxEdits
    <2>1. MaxRequests \in Nat /\ MaxEdits \in Nat /\ requests = 0 /\ edits = 0
      BY GitPipelineAssumption DEF Init
    <2> QED
      BY <2>1
  <1> QED
    BY <1>4, <1>5, <1>6, <1>7, <1>8 DEF TreesInv

\* Every step keeps the trees good and a placement in progress fit to commit.
LEMMA NextTrees ==
  ASSUME IInv, TreesInv, [Next]_vars
  PROVE  TreesInv'
  <1>0. /\ docCache \in [Repositories -> Caches] /\ requests \in 0 .. MaxRequests
        /\ edits \in 0 .. MaxEdits /\ {MaxRequests, MaxEdits} \subseteq Nat
    BY GitPipelineAssumption DEF TreesInv
  <1>1. CASE Request
    <2>1. PICK t \in RemoteTargets, o \in Requested, v \in {"new", None}, x \in Kinds :
            Start(t, o, v, x)
      BY <1>1 DEF Request
    <2>2. pipe'.pc # "commit"
      BY <2>1, StartStep
    <2>3. /\ UNCHANGED <<commits, docCache, finder, edits>>
          /\ requests < MaxRequests /\ requests' = requests + 1
      BY <2>1 DEF Start
    <2> QED
      BY <1>0, <2>2, <2>3, TreesStay
  <1>2. CASE \/ FetchUpstream \/ CheckoutToBranch \/ PullUpstream \/ PullOrigin
             \/ MergeUpstream \/ UpstreamBasedHardReset \/ CallFails \/ Push
    BY <1>0, <1>2, BeforePlacement, TreesStay
  <1>3. CASE Generate
    BY <1>3, GenerateTrees
  <1>4. CASE Commit
    BY <1>4, CommitTrees
  <1>5. CASE \E r \in Repositories, b \in Branches : PushByOthers(r, b)
    BY <1>5, OthersTrees
  <1>6. CASE \E r \in Repositories, from, to \in Branches : MergeByOthers(r, from, to)
    <2>1. /\ UNCHANGED <<commits, pipe, finder, docCache, requests>>
          /\ edits < MaxEdits /\ edits' = edits + 1
      BY <1>6 DEF MergeByOthers, SetBranch
    <2> QED
      BY <1>0, <2>1, PlacedStays
  <1>7. CASE \E r \in Repositories, o \in Objects : Evict(r, o)
    <2>1. PICK r \in Repositories, o \in Objects : Evict(r, o)
      BY <1>7
    <2>2. /\ UNCHANGED <<commits, pipe, finder, requests, edits>>
          /\ docCache' = [docCache EXCEPT ![r][o] = None]
      BY <2>1 DEF Evict
    <2>3. docCache' \in [Repositories -> Caches]
      BY <1>0, <2>2 DEF Caches, CacheEntries
    <2> QED
      BY <1>0, <2>2, <2>3, PlacedStays
  <1>8. CASE UNCHANGED vars
    BY <1>0, <1>8, PlacedStays DEF vars
  <1> QED
    BY <1>1, <1>2, <1>3, <1>4, <1>5, <1>6, <1>7, <1>8 DEF Next, Pipeline, Others

\* Both invariants hold in every reachable state.
LEMMA TreesHold == Spec => [](IInv /\ TreesInv)
  <1>1. IInv /\ TreesInv /\ [Next]_vars => (IInv /\ TreesInv)'
    BY NextIInv, NextTrees
  <1> QED
    BY InitIInv, InitTrees, <1>1, PTL DEF Spec

\* A step from the commit to the push is the commit.
LEMMA OnlyCommit ==
  ASSUME IInv, [Next]_vars, Committing
  PROVE  Commit
  <1>1. pipe.pc = "commit" /\ pipe'.pc = "push" /\ pipe # Idle /\ pipe' # pipe
    BY DEF Committing, Idle
  <1>2. ~Request
    BY <1>1 DEF Request, Start
  <1>3. ~Others
    BY <1>1 DEF Others, PushByOthers, MergeByOthers, SetBranch, Evict
  <1>4. Pipeline
    BY <1>1, <1>2, <1>3 DEF Next, vars
  <1> QED
    BY <1>1, <1>4 DEF Pipeline, FetchUpstream, CheckoutToBranch, PullUpstream, PullOrigin,
       MergeUpstream, UpstreamBasedHardReset, Generate, Push, CallFails

\* What a commit leaves.
LEMMA CommittingFacts ==
  ASSUME IInv, TreesInv, [Next]_vars, Committing
  PROVE  /\ NewTree = CommittedTree(OldTree, pipe.claim)
         /\ GoodTree(OldTree) /\ Placed
  <1>1. Commit /\ pipe.pc = "commit"
    BY OnlyCommit DEF Committing
  <1>2. LocalHead \in Indices
    BY <1>1, LocalHeadFacts
  <1> QED
    BY <1>1, <1>2, CommitTrees DEF OldTree, TreesInv, HistoryInv

\* No reachable commit has a file without a document or a document of unknown
\* kind, every branch is a commit, and the path cache only remembers paths.
THEOREM TypesHold == Spec => []TypeOK
  <1>1. IInv /\ TreesInv => TypeOK
    <2> SUFFICES ASSUME IInv, TreesInv PROVE TypeOK
      OBVIOUS
    <2>0. DOMAIN commits = Indices
      <3>1. PICK S : commits \in Seq(S)
        BY DEF IInv, IsHistory
      <3> QED
        BY <3>1 DEF Indices
    <2>1. ASSUME NEW c \in Indices
          PROVE  /\ c \in commits[c].anc /\ commits[c].anc \subseteq 1 .. c
                 /\ DOMAIN Tree(c) \subseteq Paths
                 /\ \A p \in DOMAIN Tree(c) : Tree(c)[p] \in Seq(Docs) \ {<<>>}
      <3>1. GoodTree(Tree(c))
        BY DEF TreesInv, HistoryInv
      <3>2. /\ DOMAIN Tree(c) \subseteq Paths
            /\ \A p \in DOMAIN Tree(c) : Tree(c)[p] \in Contents /\ Tree(c)[p] # <<>>
        BY <3>1, TreeFacts DEF GoodTree, GoodFile
      <3> QED
        BY <3>2 DEF IInv, GraphInv, CommitsInv, Contents
    <2>2. remote \in [Repositories -> [Branches -> 0 .. Len(commits)]]
      BY DEF IInv, GraphInv, RemoteInv
    <2>3. /\ docCache \in [Repositories -> [Objects -> Paths \cup {"NoCache", None}]]
          /\ requests \in 0 .. MaxRequests /\ edits \in 0 .. MaxEdits
      BY DEF TreesInv, Caches, CacheEntries
    <2> QED
      BY <2>0, <2>1, <2>2, <2>3 DEF TypeOK
  <1> QED
    BY TreesHold, <1>1, PTL

\* A commit leaves the documents of all other objects as they are, in order, in
\* the file where they are, unless that file held an artifact without content:
\* whatever the providers rendered or left empty, the cache remembered and
\* others committed before.
THEOREM SiblingsKept == Spec => WritesKeepSiblings
  <1>1. IInv /\ TreesInv /\ [Next]_vars =>
          [Committing => KeepsSiblingsWithout(Dropped, OldTree, NewTree, Written)]_vars
    <2> SUFFICES ASSUME IInv, TreesInv, [Next]_vars, Committing
                 PROVE  KeepsSiblingsWithout(Dropped, OldTree, NewTree, Written)
      OBVIOUS
    <2>1. NewTree = CommittedTree(OldTree, pipe.claim) /\ GoodTree(OldTree)
          /\ Fits(OldTree, pipe.claim, Written, Dropped)
      BY CommittingFacts DEF Placed
    <2> QED
      BY <2>1, CommittedFacts
  <1> QED
    BY TreesHold, <1>1, PTL DEF Spec, WritesKeepSiblings

\* With the resource finder the commit holds the intercepted content, and as
\* many copies of the object as before, or one if there was none: a path
\* remembered from another worktree never adds a copy nor loses one.
THEOREM WrittenExactlyOnce == Spec => FoundOrCreatedOnce
  <1> DEFINE Once ==
        Committing /\ pipe.ver # None /\ finder /\ pipe.rendering = "unhandled" =>
          /\ \E p \in DOMAIN NewTree : Doc(pipe.obj, pipe.ver) \in ToSet(NewTree[p])
          /\ Copies(NewTree, pipe.obj) =
               (IF Copies(OldTree, pipe.obj) = 0 THEN 1 ELSE Copies(OldTree, pipe.obj))
  <1>1. IInv /\ TreesInv /\ [Next]_vars => [Once]_vars
    <2> SUFFICES ASSUME IInv, TreesInv, [Next]_vars, Committing, pipe.ver # None, finder,
                        pipe.rendering = "unhandled"
                 PROVE  WrittenOnce(OldTree, NewTree, pipe.obj, pipe.ver)
      BY DEF WrittenOnce
    <2> QED
      BY CommittingFacts DEF Placed
  <1> QED
    BY TreesHold, <1>1, PTL DEF Spec, FoundOrCreatedOnce
=============================================================================
