-------------------------- MODULE InterceptionProofs --------------------------
(***************************************************************************)
(* What the interception pipeline guarantees for any number of requests,   *)
(* targets and manifests, any spec of the syncer and any of the faults.    *)
(***************************************************************************)
EXTENDS Interception, SequenceTheorems, FiniteSetTheorems, TLAPS

CommitRecords == [by : Requests, content : Contents]

PushRecords == [target : Targets,
                retries : Nat \cup {spec.pushErrorRetryNumber},
                commits : Seq(CommitRecords)]

\* The content of the n-th commit, 0 for the state the branch starts from.
TipAt(commits, n) == IF n = 0 THEN Absent ELSE commits[n].content

\* The requests with a commit in a sequence of commits, and that none of
\* them has two.
Authors(commits) == {commits[i].by : i \in 1 .. Len(commits)}

Once(commits) ==
    \A i, j \in 1 .. Len(commits) : commits[i].by = commits[j].by => i = j

\* r went through RunGitPushPipeline without an error.
Finished(r) == targets[r] # {} /\ Todo(r) = {}

Building == {"condition", "observe", "answered"}

\* What a request has depends on how far it is.
Progress(r) ==
    /\ api[r] = "idle" <=> pc[r] = "idle"
    /\ pc[r] # "idle" => request[r] \in RequestRecords
    /\ pc[r] \in {"idle", "review"} =>
          targets[r] = {} /\ \A t \in Targets : responses[r][t] = NoHash
    /\ pc[r] \in {"clone", "push"} => targets[r] # {}
    /\ pc[r] = "push" => /\ pushing[r] \in PushRecords
                         /\ pushing[r].target \in Todo(r)
                         /\ Tip(pushing[r].commits) = request[r].content
    /\ pc[r] = "pushed" => Finished(r)
    /\ api[r] = "stored" => pc[r] = "answered" /\ answer[r].allowed

ProgressInv == \A r \in Requests : Progress(r)

\* A request is allowed if git is not to see it, if its pushes are through,
\* or if their failure is to be passed over; CommitOnly allows none.
Justified(r) ==
    pc[r] \in Building /\ answer[r].allowed /\ ~SkipsGit(r) =>
        /\ spec.strategy = "CommitApply"
        /\ spec.pushErrorBehavior = "Pass" \/ Finished(r)

AnswerInv == \A r \in Requests : Justified(r)

\* The status names a request whose pushes are through.
StatusInv == \A r \in Requests : status.pushed = r => Finished(r)

\* A response names a commit of the branch with what the request asks for.
Landed(r, t) ==
    /\ responses[r][t] \in 0 .. Len(branch[t])
    /\ TipAt(branch[t], responses[r][t]) = request[r].content

LandedInv ==
    \A r \in Requests, t \in Targets : responses[r][t] # NoHash => Landed(r, t)

\* No branch, and no clone about to be pushed, has two commits of a request.
\* A clone has nothing its branch has not, but the commit of its request.  A
\* request is on no branch it has not begun to push to.
OnceInv ==
    /\ \A t \in Targets : Once(branch[t])
    /\ \A r \in Requests : pc[r] = "push" =>
          /\ Once(pushing[r].commits)
          /\ Authors(pushing[r].commits) \subseteq Authors(branch[pushing[r].target]) \cup {r}
    /\ \A r \in Requests, t \in Targets :
          /\ pc[r] \in {"idle", "review", "clone", "push"}
          /\ responses[r][t] = NoHash
          /\ pc[r] = "push" => t # pushing[r].target
          => r \notin Authors(branch[t])

IInv == TypeOK /\ ProgressInv /\ AnswerInv /\ StatusInv /\ LandedInv /\ OnceInv

USE DEF NoHash

---------------------------------------------------------------------------
(* Facts about branches.                                                   *)

\* A prefix, position by position.
LEMMA PrefixMeaning ==
    ASSUME NEW S, NEW b \in Seq(S), NEW c \in Seq(S)
    PROVE  IsPrefix(b, c) <=> /\ Len(b) <= Len(c)
                              /\ \A i \in 1 .. Len(b) : b[i] = c[i]
  <1>1. CASE Len(b) <= Len(c)
    <2> DEFINE sb == SubSeq(b, 1, Len(b))
               sc == SubSeq(c, 1, Len(b))
    <2>1. sb \in Seq(S) /\ sc \in Seq(S) /\ Len(sb) = Len(b) /\ Len(sc) = Len(b)
      BY <1>1
    <2>2. \A i \in 1 .. Len(b) : sb[i] = b[i] /\ sc[i] = c[i]
      BY <1>1
    <2>3. ASSUME \A i \in 1 .. Len(b) : b[i] = c[i] PROVE sb = sc
      <3> HIDE DEF sb, sc
      <3> QED
        BY <2>1, <2>2, <2>3, SeqEqual
    <2>4. ASSUME sb = sc PROVE \A i \in 1 .. Len(b) : b[i] = c[i]
      <3> HIDE DEF sb, sc
      <3> QED
        BY <2>2, <2>4
    <2> QED
      BY <1>1, <2>3, <2>4 DEF IsPrefix
  <1>2. CASE ~(Len(b) <= Len(c))
    BY <1>2 DEF IsPrefix
  <1> QED
    BY <1>1, <1>2

\* The tip of a sequence, and of a prefix of it, by position.
LEMMA TipMeaning ==
    ASSUME NEW S, NEW c \in Seq(S)
    PROVE  /\ Tip(c) = TipAt(c, Len(c))
           /\ \A n \in 0 .. Len(c) : Tip(SubSeq(c, 1, n)) = TipAt(c, n)
  <1>1. Tip(c) = TipAt(c, Len(c))
    BY DEF Tip, TipAt, Last
  <1>2. ASSUME NEW n \in 0 .. Len(c)
        PROVE  Tip(SubSeq(c, 1, n)) = TipAt(c, n)
    <2> DEFINE s == SubSeq(c, 1, n)
    <2>1. Len(s) = n /\ s \in Seq(S) /\ (n > 0 => s[n] = c[n])
      OBVIOUS
    <2>2. (s = <<>>) <=> n = 0
      BY <2>1
    <2> HIDE DEF s
    <2>3. Tip(s) = TipAt(c, n)
      BY <2>1, <2>2 DEF Tip, TipAt, Last
    <2> QED
      BY <2>3 DEF s
  <1> QED
    BY <1>1, <1>2

\* Every branch is a prefix of itself, and its authors stay authors when it
\* grows.
LEMMA GrowingBranch ==
    ASSUME NEW b \in Seq(CommitRecords), NEW c \in Seq(CommitRecords)
    PROVE  /\ IsPrefix(b, b)
           /\ IsPrefix(b, c) => Authors(b) \subseteq Authors(c)
  <1>1. IsPrefix(b, b)
    BY PrefixMeaning
  <1>2. ASSUME IsPrefix(b, c) PROVE Authors(b) \subseteq Authors(c)
    <2>1. Len(b) <= Len(c) /\ \A i \in 1 .. Len(b) : b[i] = c[i]
      BY <1>2, PrefixMeaning
    <2> QED
      BY <2>1 DEF Authors
  <1> QED
    BY <1>1, <1>2

\* Commit leaves the clone with what r asks for, adds nothing but a commit of
\* r's, and only one if r has none there.
LEMMA CommitResult ==
    ASSUME NEW b \in Seq(CommitRecords), NEW r \in Requests,
           request[r] \in RequestRecords
    PROVE  /\ Commit(r, b) \in Seq(CommitRecords)
           /\ Tip(Commit(r, b)) = request[r].content
           /\ Authors(Commit(r, b)) \subseteq Authors(b) \cup {r}
           /\ Once(b) /\ r \notin Authors(b) => Once(Commit(r, b))
  <1>1. CASE Tip(b) = request[r].content
    BY <1>1 DEF Commit
  <1>2. CASE Tip(b) # request[r].content
    <2> DEFINE x == [by |-> r, content |-> request[r].content]
               c == Append(b, x)
    <2>1. x \in CommitRecords /\ x.by = r /\ x.content = request[r].content
      BY DEF CommitRecords, RequestRecords
    <2> HIDE DEF x
    <2>2. /\ c \in Seq(CommitRecords) /\ Len(c) = Len(b) + 1 /\ Len(b) \in Nat
          /\ c[Len(b) + 1] = x
          /\ \A i \in 1 .. Len(b) : c[i] = b[i]
      BY <2>1
    <2> HIDE DEF c
    <2>3. Tip(c) = request[r].content
      BY <2>1, <2>2, TipMeaning DEF TipAt
    <2>4. \A i \in 1 .. Len(c) : i \in 1 .. Len(b) \/ i = Len(b) + 1
      BY <2>2
    <2>5. Authors(c) \subseteq Authors(b) \cup {r}
      BY <2>1, <2>2, <2>4 DEF Authors
    <2>6. ASSUME Once(b), r \notin Authors(b) PROVE Once(c)
      BY <2>1, <2>2, <2>4, <2>6 DEF Once, Authors
    <2>7. Commit(r, b) = c
      BY <1>2 DEF Commit, c, x
    <2> QED
      BY <2>2, <2>3, <2>5, <2>6, <2>7
  <1> QED
    BY <1>1, <1>2

---------------------------------------------------------------------------
(* The initial states, and the types.                                      *)

\* The initial states satisfy the invariant.
LEMMA InitIInv == Init => IInv
  <1> SUFFICES ASSUME Init PROVE IInv
    OBVIOUS
  <1>1. TypeOK
    BY DEF Init, TypeOK, Contents
  <1>2. ProgressInv
    BY DEF Init, ProgressInv, Progress
  <1>3. AnswerInv
    BY DEF Init, AnswerInv, Justified, Building
  <1>4. StatusInv
    BY ConstantsAssumption DEF Init, StatusInv
  <1>5. LandedInv
    BY DEF Init, LandedInv
  <1>6. OnceInv
    BY DEF Init, OnceInv, Once, Authors
  <1> QED
    BY <1>1, <1>2, <1>3, <1>4, <1>5, <1>6 DEF IInv

StatusRecords == [synced : {"Unknown", "True", "False"}, observed : Requests \cup {Nobody},
                  pushed : Requests \cup {Nobody}]

\* The writes of the status change one field of it.
LEMMA StatusWrites ==
    ASSUME NEW s \in StatusRecords, NEW r \in Requests
    PROVE  /\ [s EXCEPT !.pushed = r] \in StatusRecords
           /\ [s EXCEPT !.observed = r] \in StatusRecords
           /\ [s EXCEPT !.pushed = r].pushed = r
           /\ [s EXCEPT !.observed = r].pushed = s.pushed
           /\ \A x \in {"True", "False"} :
                /\ [s EXCEPT !.synced = x] \in StatusRecords
                /\ [s EXCEPT !.synced = x].pushed = s.pushed
  BY DEF StatusRecords

\* What the three writes leave of the status.
LEMMA RecordResult ==
    ASSUME status \in StatusRecords, NEW r \in Requests
    PROVE  /\ RecordPush(r) => /\ status' \in StatusRecords
                               /\ status'.pushed \in {r, status.pushed}
           /\ RecordCondition(r) \/ RecordObserved(r) =>
                 status' \in StatusRecords /\ status'.pushed = status.pushed
  <1>1. ASSUME RecordPush(r)
        PROVE  status' \in StatusRecords /\ status'.pushed \in {r, status.pushed}
    <2>1. status' = [status EXCEPT !.pushed = r] \/ status' = status
      BY <1>1, Zenon DEF RecordPush, updateRemoteSyncerStatus
    <2> QED
      BY <2>1, StatusWrites, Zenon
  <1>2. ASSUME RecordCondition(r)
        PROVE  status' \in StatusRecords /\ status'.pushed = status.pushed
    <2>1. PICK x \in {"True", "False"} : x = IF answer[r].errored THEN "False" ELSE "True"
      OBVIOUS
    <2>2. status' = [status EXCEPT !.synced = x] \/ status' = status
      BY <1>2, <2>1, Zenon DEF RecordCondition, updateRemoteSyncerStatus
    <2> QED
      BY <2>2, StatusWrites, Zenon
  <1>3. ASSUME RecordObserved(r)
        PROVE  status' \in StatusRecords /\ status'.pushed = status.pushed
    <2>1. status' = [status EXCEPT !.observed = r] \/ status' = status
      BY <1>3, Zenon DEF RecordObserved, updateRemoteSyncerStatus
    <2>2. /\ [status EXCEPT !.observed = r] \in StatusRecords
          /\ [status EXCEPT !.observed = r].pushed = status.pushed
      BY StatusWrites, Zenon
    <2> QED
      BY <2>1, <2>2, Zenon
  <1> QED
    BY <1>1, <1>2, <1>3

\* What Pushing constructs.
LEMMA PushingResult ==
    ASSUME NEW t \in Targets, NEW c \in Seq(CommitRecords),
           NEW n \in Nat \cup {spec.pushErrorRetryNumber}
    PROVE  /\ Pushing(t, c, n) \in PushRecords
           /\ Pushing(t, c, n).target = t
           /\ Pushing(t, c, n).commits = c
  BY DEF Pushing, PushRecords

\* What RetryOrGiveUp leaves of a push in flight.
LEMMA RetryResult ==
    ASSUME TypeOK, NEW r \in Requests, pushing[r] \in PushRecords, RetryOrGiveUp(r)
    PROVE  \/ /\ UNCHANGED <<pc, answer>>
              /\ \E n \in Nat : pushing' = [pushing EXCEPT ![r] =
                                    Pushing(pushing[r].target, pushing[r].commits, n)]
           \/ /\ pushing' = [pushing EXCEPT ![r] = NoPush]
              /\ GitPushError(r)
  <1>1. CASE pushing[r].retries > 0
    <2>1. spec.pushErrorRetryNumber \in Int
      BY ConstantsAssumption DEF TypeOK, SyncerSpecs
    <2>2. pushing[r].retries \in Int /\ pushing[r].retries - 1 \in Nat
      BY <1>1, <2>1 DEF PushRecords
    <2> QED
      BY <1>1, <2>2 DEF RetryOrGiveUp, TypeOK
  <1>2. CASE ~(pushing[r].retries > 0)
    BY <1>2 DEF RetryOrGiveUp
  <1> QED
    BY <1>1, <1>2

\* Every step keeps the state well typed.
LEMMA TypeStep == IInv /\ [Next]_vars => TypeOK'
  <1> SUFFICES ASSUME IInv, [Next]_vars PROVE TypeOK'
    OBVIOUS
  <1>0. TypeOK /\ ProgressInv
    BY DEF IInv
  <1> DEFINE Steps == {"idle", "review", "clone", "push", "pushed", "condition",
                       "observe", "answered"}
             ApiOK == /\ cluster' \in [manifest : Contents, terminating : BOOLEAN, version : Nat]
                      /\ request' \in [Requests -> RequestRecords \cup {NoRequest}]
                      /\ api' \in [Requests -> {"idle", "calling", "stored", "rejected"}]
             GitOK == /\ branch' \in [Targets -> Seq(CommitRecords)]
                      /\ targets' \in [Requests -> SUBSET Targets]
                      /\ responses' \in [Requests -> [Targets -> Nat \cup {NoHash}]]
                      /\ pushing' \in [Requests -> PushRecords \cup {NoPush}]
             AnswerOK == /\ pc' \in [Requests -> Steps]
                         /\ answer' \in [Requests -> [allowed : BOOLEAN, errored : BOOLEAN]]
             StatusOK == status' \in StatusRecords
  <1>1. SUFFICES UNCHANGED spec /\ StatusOK /\ ApiOK /\ GitOK /\ AnswerOK
    BY <1>0 DEF TypeOK, StatusRecords, PushRecords, CommitRecords
  <1>a. /\ branch \in [Targets -> Seq(CommitRecords)]
        /\ pushing \in [Requests -> PushRecords \cup {NoPush}]
        /\ status \in StatusRecords
    BY <1>0 DEF TypeOK, StatusRecords, PushRecords, CommitRecords
  <1>b. UNCHANGED apiVars => ApiOK
    BY <1>0 DEF apiVars, TypeOK
  <1>c. UNCHANGED <<branch, pushVars>> => GitOK
    BY <1>0, <1>a DEF pushVars, TypeOK
  <1>d. UNCHANGED <<pc, answer>> => AnswerOK
    BY <1>0 DEF TypeOK
  <1>e. UNCHANGED status => StatusOK
    BY <1>a
  <1>f. ASSUME NEW r \in Requests, NEW a \in BOOLEAN, NEW e \in BOOLEAN, Build(r, a, e)
        PROVE  AnswerOK
    BY <1>0, <1>f DEF Build, TypeOK
  <1>g. ASSUME NEW r \in Requests, GitPushError(r) PROVE AnswerOK
    BY <1>f, <1>g DEF GitPushError
  <1>h. ASSUME NEW r \in Requests, pc[r] = "push"
        PROVE  /\ pushing[r] \in PushRecords /\ pushing[r].target \in Targets
               /\ pushing[r].commits \in Seq(CommitRecords)
               /\ Published(r) => branch' \in [Targets -> Seq(CommitRecords)]
    BY <1>0, <1>a, <1>h DEF ProgressInv, Progress, Published, PushRecords
  <1>11. ASSUME NEW r \in Requests, Submit(r)
         PROVE  UNCHANGED spec /\ StatusOK /\ ApiOK /\ GitOK /\ AnswerOK
    <2>1. PICK user \in Users, content \in Contents :
             request' = [request EXCEPT ![r] =
                [user |-> user, content |-> content,
                 deleting |-> cluster.terminating, version |-> cluster.version]]
      BY <1>11 DEF Submit
    <2>2. [user |-> user, content |-> content,
           deleting |-> cluster.terminating, version |-> cluster.version] \in RequestRecords
      BY <1>0 DEF TypeOK, RequestRecords
    <2>3. ApiOK
      BY <1>0, <1>11, <2>1, <2>2 DEF Submit, TypeOK
    <2>4. AnswerOK
      BY <1>0, <1>11 DEF Submit, TypeOK
    <2> QED
      BY <1>11, <1>c, <1>e, <2>3, <2>4 DEF Submit
  <1>12. ASSUME NEW r \in Requests, RejectElsewhere(r)
         PROVE  UNCHANGED spec /\ StatusOK /\ ApiOK /\ GitOK /\ AnswerOK
    <2>1. ApiOK
      BY <1>0, <1>12 DEF RejectElsewhere, TypeOK
    <2> QED
      BY <1>12, <1>c, <1>d, <1>e, <2>1 DEF RejectElsewhere
  <1>13. ASSUME NEW r \in Requests, Conclude(r)
         PROVE  UNCHANGED spec /\ StatusOK /\ ApiOK /\ GitOK /\ AnswerOK
    <2>1. request[r] \in RequestRecords
      BY <1>0, <1>13 DEF Conclude, ProgressInv, Progress
    <2>2. ASSUME NEW stays \in BOOLEAN
          PROVE  Object(r, stays) \in [manifest : Contents, terminating : BOOLEAN, version : Nat]
      BY <1>0, <2>1 DEF Object, TypeOK, RequestRecords, Contents
    <2>3. ApiOK
      BY <1>0, <1>13, <2>2 DEF Conclude, TypeOK
    <2> QED
      BY <1>13, <1>c, <1>d, <1>e, <2>3 DEF Conclude
  <1>14. ASSUME NEW r \in Requests, Bypass(r) \/ Refuse(r) \/ PassDeletion(r) \/ PipelineFails(r)
         PROVE  UNCHANGED spec /\ StatusOK /\ ApiOK /\ GitOK /\ AnswerOK
    <2>1. AnswerOK
      BY <1>14, <1>f, <1>g DEF Bypass, Refuse, PassDeletion, PipelineFails
    <2> QED
      BY <1>14, <1>b, <1>c, <1>e, <2>1 DEF Bypass, Refuse, PassDeletion, PipelineFails
  <1>15. ASSUME NEW r \in Requests, StartPushing(r)
         PROVE  UNCHANGED spec /\ StatusOK /\ ApiOK /\ GitOK /\ AnswerOK
    <2>1. GitOK /\ AnswerOK
      BY <1>0, <1>a, <1>15 DEF StartPushing, TypeOK
    <2> QED
      BY <1>15, <1>b, <1>e, <2>1 DEF StartPushing
  <1>16. ASSUME NEW r \in Requests, Clone(r)
         PROVE  UNCHANGED spec /\ StatusOK /\ ApiOK /\ GitOK /\ AnswerOK
    <2>1. PICK t \in Todo(r) :
             pushing' = [pushing EXCEPT ![r] =
                           Pushing(t, Commit(r, branch[t]), spec.pushErrorRetryNumber)]
      BY <1>16 DEF Clone
    <2>2. t \in Targets /\ request[r] \in RequestRecords /\ branch[t] \in Seq(CommitRecords)
      BY <1>0, <1>a, <1>16 DEF Clone, Todo, TypeOK, ProgressInv, Progress
    <2>3. Pushing(t, Commit(r, branch[t]), spec.pushErrorRetryNumber) \in PushRecords
      BY <2>2, CommitResult, PushingResult
    <2>4. GitOK /\ AnswerOK
      BY <1>0, <1>a, <1>16, <2>1, <2>3 DEF Clone, TypeOK
    <2> QED
      BY <1>16, <1>b, <1>e, <2>4 DEF Clone
  <1>17. ASSUME NEW r \in Requests, Push(r)
         PROVE  UNCHANGED spec /\ StatusOK /\ ApiOK /\ GitOK /\ AnswerOK
    <2>1. responses' \in [Requests -> [Targets -> Nat \cup {NoHash}]]
      BY <1>0, <1>h, <1>17 DEF Push, TypeOK
    <2>2. GitOK /\ AnswerOK
      BY <1>0, <1>a, <1>h, <1>17, <2>1 DEF Push, TypeOK
    <2> QED
      BY <1>17, <1>b, <1>e, <2>2 DEF Push
  <1>18. ASSUME NEW r \in Requests, PushFails(r)
         PROVE  UNCHANGED spec /\ StatusOK /\ ApiOK /\ GitOK /\ AnswerOK
    <2>1. branch' \in [Targets -> Seq(CommitRecords)]
      BY <1>a, <1>h, <1>18 DEF PushFails
    <2>2. pushing' \in [Requests -> PushRecords \cup {NoPush}] /\ AnswerOK
      <3>0. pc[r] = "push" /\ RetryOrGiveUp(r)
        BY <1>18 DEF PushFails
      <3>1. CASE UNCHANGED <<pc, answer>> /\ \E n \in Nat : pushing' = [pushing EXCEPT ![r] =
                                    Pushing(pushing[r].target, pushing[r].commits, n)]
        BY <1>a, <1>d, <1>h, <3>0, <3>1, PushingResult
      <3>2. CASE pushing' = [pushing EXCEPT ![r] = NoPush] /\ GitPushError(r)
        BY <1>a, <1>g, <3>2
      <3> QED
        BY <1>0, <1>h, <3>0, <3>1, <3>2, RetryResult
    <2>3. GitOK
      BY <1>0, <1>18, <2>1, <2>2 DEF PushFails, TypeOK
    <2> QED
      BY <1>18, <1>b, <1>e, <2>2, <2>3 DEF PushFails
  <1>19. ASSUME NEW r \in Requests, RecordPush(r) \/ RecordCondition(r) \/ RecordObserved(r)
         PROVE  UNCHANGED spec /\ StatusOK /\ ApiOK /\ GitOK /\ AnswerOK
    <2>1. AnswerOK
      BY <1>0, <1>f, <1>19 DEF RecordPush, RecordCondition, RecordObserved, TypeOK
    <2>2. StatusOK
      BY <1>a, <1>19, RecordResult
    <2> QED
      BY <1>19, <1>b, <1>c, <2>1, <2>2 DEF RecordPush, RecordCondition, RecordObserved
  <1>20. CASE UNCHANGED vars
    BY <1>b, <1>c, <1>d, <1>e, <1>20 DEF vars, apiVars
  <1> QED
    BY <1>11, <1>12, <1>13, <1>14, <1>15, <1>16, <1>17, <1>18, <1>19, <1>20 DEF Next, Intercept

---------------------------------------------------------------------------
(* The steps of one request at a time.                                     *)

\* Only r takes the step.
OthersSame(r) ==
    \A q \in Requests : q # r =>
        /\ api'[q] = api[q] /\ pc'[q] = pc[q] /\ request'[q] = request[q]
        /\ targets'[q] = targets[q] /\ responses'[q] = responses[q]
        /\ pushing'[q] = pushing[q] /\ answer'[q] = answer[q]

Step(r) == Submit(r) \/ RejectElsewhere(r) \/ Conclude(r) \/ Intercept(r)

\* A step is a step of one request and leaves the others alone.
LEMMA StepFrame ==
    ASSUME IInv, NEW r \in Requests, Step(r)
    PROVE  OthersSame(r) /\ UNCHANGED spec
  <1>0. TypeOK /\ ProgressInv
    BY DEF IInv
  <1> USE <1>0 DEF OthersSame, TypeOK, apiVars, pushVars
  <1>1. CASE Submit(r)
    BY <1>1 DEF Submit
  <1>2. CASE RejectElsewhere(r)
    BY <1>2 DEF RejectElsewhere
  <1>3. CASE Conclude(r)
    BY <1>3 DEF Conclude
  <1>4. CASE Bypass(r) \/ Refuse(r) \/ PassDeletion(r) \/ PipelineFails(r)
    BY <1>4 DEF Bypass, Refuse, PassDeletion, PipelineFails, GitPushError, Build
  <1>5. CASE StartPushing(r)
    BY <1>5 DEF StartPushing
  <1>6. CASE Clone(r)
    BY <1>6 DEF Clone
  <1>7. CASE Push(r)
    BY <1>7 DEF Push
  <1>8. CASE PushFails(r)
    BY <1>8 DEF PushFails, RetryOrGiveUp, GitPushError, Build
  <1>9. CASE RecordPush(r)
    BY <1>9 DEF RecordPush, Build
  <1>10. CASE RecordCondition(r)
    BY <1>10 DEF RecordCondition
  <1>11. CASE RecordObserved(r)
    BY <1>11 DEF RecordObserved
  <1> QED
    BY <1>1, <1>2, <1>3, <1>4, <1>5, <1>6, <1>7, <1>8, <1>9, <1>10, <1>11 DEF Step, Intercept

\* What holds of the other requests still holds of them.
LEMMA OthersKeep ==
    ASSUME NEW r \in Requests, NEW q \in Requests, q # r, OthersSame(r), UNCHANGED spec
    PROVE  /\ Progress(q) => Progress(q)'
           /\ Justified(q) => Justified(q)'
           /\ Finished(q)' <=> Finished(q)
  <1>1. Todo(q)' = Todo(q) /\ (Finished(q)' <=> Finished(q)) /\ (SkipsGit(q)' <=> SkipsGit(q))
    BY DEF OthersSame, Todo, Finished, SkipsGit, Bypasses
  <1>2. PushRecords' = PushRecords
    BY DEF PushRecords, CommitRecords, Contents
  <1>3. Progress(q) => Progress(q)'
    BY <1>1, <1>2 DEF Progress, OthersSame, RequestRecords, Contents, Tip
  <1>4. Justified(q) => Justified(q)'
    BY <1>1 DEF Justified, OthersSame, Building
  <1> QED
    BY <1>1, <1>3, <1>4

\* What r has after a step of its own is in line with how far it is then.
LEMMA OwnProgress ==
    ASSUME IInv, NEW r \in Requests, Step(r)
    PROVE  Progress(r)' /\ (Finished(r) => Finished(r)')
  <1>0. TypeOK /\ Progress(r) /\ PushRecords' = PushRecords /\ UNCHANGED spec
    BY StepFrame DEF IInv, ProgressInv, PushRecords
  <1> USE DEF TypeOK, Progress, Finished, Todo, apiVars, pushVars
  <1>a. ASSUME NEW a, NEW e, pc[r] # "idle", api[r] = "idle" <=> pc[r] = "idle",
               Build(r, a, e), UNCHANGED <<request, api, targets, responses>>,
               api[r] # "stored"
        PROVE  Progress(r)' /\ (Finished(r) => Finished(r)')
    BY <1>0, <1>a DEF Build, RequestRecords
  <1>1. CASE Submit(r)
    <2>1. request'[r] \in RequestRecords
      BY <1>0, <1>1 DEF Submit, RequestRecords
    <2> QED
      BY <1>0, <1>1, <2>1 DEF Submit, RequestRecords
  <1>2. CASE RejectElsewhere(r)
    BY <1>0, <1>2 DEF RejectElsewhere, RequestRecords
  <1>3. CASE Conclude(r)
    BY <1>0, <1>3 DEF Conclude, Stored, RequestRecords
  <1>4. CASE Bypass(r) \/ Refuse(r) \/ PassDeletion(r) \/ PipelineFails(r)
    <2>1. /\ pc[r] \in {"review", "clone"} /\ UNCHANGED <<request, api, targets, responses>>
          /\ \E a, e \in BOOLEAN : Build(r, a, e)
      BY <1>4 DEF Bypass, Refuse, PassDeletion, PipelineFails, GitPushError, Accepted
    <2> QED
      BY <1>0, <1>a, <2>1
  <1>5. CASE StartPushing(r)
    <2>1. PICK ts \in (SUBSET Targets) \ {{}} : targets' = [targets EXCEPT ![r] = ts]
      BY <1>5 DEF StartPushing
    <2>2. /\ targets'[r] # {} /\ pc[r] = "review" /\ pc'[r] = "clone"
          /\ UNCHANGED <<api, request>>
      BY <1>0, <1>5, <2>1 DEF StartPushing, Accepted
    <2> QED
      BY <1>0, <2>2 DEF RequestRecords
  <1>6. CASE Clone(r)
    <2>1. PICK t \in Todo(r) :
             pushing' = [pushing EXCEPT ![r] =
                           Pushing(t, Commit(r, branch[t]), spec.pushErrorRetryNumber)]
      BY <1>6 DEF Clone
    <2>2. t \in Targets /\ request[r] \in RequestRecords /\ branch[t] \in Seq(CommitRecords)
      BY <1>0, <1>6 DEF Clone, CommitRecords
    <2>3. /\ pushing'[r] \in PushRecords /\ pushing'[r].target = t
          /\ pushing'[r].commits = Commit(r, branch[t])
      <3>1. pushing'[r] = Pushing(t, Commit(r, branch[t]), spec.pushErrorRetryNumber)
        BY <1>0, <2>1
      <3>2. Commit(r, branch[t]) \in Seq(CommitRecords)
        BY <2>2, CommitResult
      <3> QED
        BY <2>2, <3>1, <3>2, PushingResult
    <2>4. Tip(pushing'[r].commits) = request[r].content
      BY <2>2, <2>3, CommitResult
    <2> QED
      BY <1>0, <1>6, <2>3, <2>4 DEF Clone, RequestRecords, Tip
  <1>7. CASE Push(r)
    <2>1. /\ pushing[r].target \in Todo(r) /\ pushing[r].target \in Targets
          /\ Len(pushing[r].commits) \in Nat
      BY <1>0, <1>7 DEF Push, PushRecords
    <2>2. Todo(r)' = Todo(r) \ {pushing[r].target}
      BY <1>0, <1>7, <2>1 DEF Push
    <2> QED
      BY <1>0, <1>7, <2>1, <2>2 DEF Push, RequestRecords
  <1>8. CASE PushFails(r)
    <2>0. /\ pc[r] = "push" /\ RetryOrGiveUp(r) /\ pushing[r] \in PushRecords
          /\ UNCHANGED <<request, api, targets, responses>>
      BY <1>0, <1>8 DEF PushFails
    <2>1. CASE UNCHANGED <<pc, answer>> /\ \E n \in Nat : pushing' = [pushing EXCEPT ![r] =
                                    Pushing(pushing[r].target, pushing[r].commits, n)]
      <3>1. PICK n \in Nat : pushing'[r] = Pushing(pushing[r].target, pushing[r].commits, n)
        BY <1>0, <2>1
      <3>2. /\ pushing'[r] \in PushRecords /\ pushing'[r].target = pushing[r].target
            /\ pushing'[r].commits = pushing[r].commits
        <4>1. pushing[r].target \in Targets /\ pushing[r].commits \in Seq(CommitRecords)
          BY <2>0 DEF PushRecords
        <4> QED
          BY <3>1, <4>1, PushingResult
      <3> QED
        BY <1>0, <2>0, <2>1, <3>2 DEF RequestRecords, Tip
    <2>2. CASE pushing' = [pushing EXCEPT ![r] = NoPush] /\ GitPushError(r)
      BY <1>0, <1>a, <2>0, <2>2 DEF GitPushError
    <2> QED
      BY <1>0, <2>0, <2>1, <2>2, RetryResult
  <1>9. CASE RecordPush(r)
    BY <1>0, <1>a, <1>9 DEF RecordPush
  <1>10. CASE RecordCondition(r)
    BY <1>0, <1>10 DEF RecordCondition, RequestRecords
  <1>11. CASE RecordObserved(r)
    BY <1>0, <1>11 DEF RecordObserved, RequestRecords
  <1> QED
    BY <1>1, <1>2, <1>3, <1>4, <1>5, <1>6, <1>7, <1>8, <1>9, <1>10, <1>11 DEF Step, Intercept

\* An answer is justified when it is built, and stays so.
LEMMA OwnAnswer ==
    ASSUME IInv, NEW r \in Requests, Step(r)
    PROVE  Justified(r)'
  <1>0. TypeOK /\ Progress(r) /\ Justified(r) /\ UNCHANGED spec
    BY StepFrame DEF IInv, ProgressInv, AnswerInv
  <1>1. request'[r] = request[r] => (SkipsGit(r)' <=> SkipsGit(r))
    BY <1>0 DEF SkipsGit, Bypasses
  <1>2. Finished(r) => Finished(r)'
    BY OwnProgress
  <1>3. ASSUME NEW a, NEW e, Build(r, a, e), request'[r] = request[r],
               a /\ ~SkipsGit(r) => /\ spec.strategy = "CommitApply"
                                    /\ spec.pushErrorBehavior = "Pass" \/ Finished(r)
        PROVE  Justified(r)'
    <2>1. answer'[r].allowed = a
      BY <1>0, <1>3 DEF Build, TypeOK
    <2> QED
      BY <1>0, <1>1, <1>2, <1>3, <2>1 DEF Justified
  <1>4. ASSUME GitPushError(r), request'[r] = request[r] PROVE Justified(r)'
    BY <1>3, <1>4 DEF GitPushError
  <1>5. CASE Submit(r) \/ StartPushing(r) \/ Clone(r) \/ Push(r)
    <2>1. pc'[r] \notin Building
      BY <1>0, <1>5 DEF Submit, StartPushing, Clone, Push, Building, TypeOK
    <2> QED
      BY <2>1 DEF Justified, Building
  <1>6. CASE RejectElsewhere(r) \/ Conclude(r) \/ RecordCondition(r) \/ RecordObserved(r)
    <2>1. request' = request /\ answer' = answer /\ (pc'[r] \in Building => pc[r] \in Building)
      BY <1>0, <1>6, Zenon
         DEF RejectElsewhere, Conclude, RecordCondition, RecordObserved, Building, apiVars
    <2> QED
      BY <1>0, <1>1, <1>2, <2>1 DEF Justified, Building
  <1>7. CASE Bypass(r)
    BY <1>3, <1>7 DEF Bypass, SkipsGit, apiVars
  <1>8. CASE Refuse(r)
    BY <1>3, <1>8 DEF Refuse, apiVars
  <1>9. CASE PassDeletion(r)
    BY <1>3, <1>9 DEF PassDeletion, SkipsGit, apiVars
  <1>10. CASE PipelineFails(r)
    BY <1>4, <1>10 DEF PipelineFails, apiVars
  <1>11. CASE PushFails(r)
    <2>1. /\ pc[r] = "push" /\ RetryOrGiveUp(r) /\ pushing[r] \in PushRecords
          /\ request' = request
      BY <1>0, <1>11 DEF PushFails, Progress, apiVars
    <2>2. CASE UNCHANGED <<pc, answer>>
      BY <2>1, <2>2 DEF Justified, Building
    <2>3. CASE GitPushError(r)
      BY <1>4, <2>1, <2>3
    <2> QED
      BY <1>0, <2>1, <2>2, <2>3, RetryResult
  <1>12. CASE RecordPush(r)
    BY <1>0, <1>3, <1>12 DEF RecordPush, Progress, apiVars
  <1> QED
    BY <1>5, <1>6, <1>7, <1>8, <1>9, <1>10, <1>11, <1>12 DEF Step, Intercept

\* The status names r only once r's pushes are through.
LEMMA StatusStep ==
    ASSUME IInv, NEW r \in Requests, Step(r)
    PROVE  StatusInv'
  <1>0. TypeOK /\ Progress(r) /\ StatusInv /\ status \in StatusRecords
    BY DEF IInv, ProgressInv, TypeOK, StatusRecords
  <1>1. \A q \in Requests : Finished(q) => Finished(q)'
    BY OwnProgress, StepFrame, OthersKeep
  <1>2. CASE RecordPush(r)
    <2>1. Finished(r)
      BY <1>0, <1>2 DEF RecordPush, Progress
    <2> QED
      BY <1>0, <1>1, <1>2, <2>1, RecordResult DEF StatusInv
  <1>3. CASE RecordCondition(r) \/ RecordObserved(r)
    BY <1>0, <1>1, <1>3, RecordResult DEF StatusInv
  <1>4. CASE UNCHANGED status
    BY <1>0, <1>1, <1>4 DEF StatusInv
  <1> QED
    BY <1>2, <1>3, <1>4, Zenon
       DEF Step, Intercept, Submit, RejectElsewhere, Conclude, Bypass, Refuse, PassDeletion,
           StartPushing, Clone, PipelineFails, Push, PushFails

---------------------------------------------------------------------------
(* The branches.                                                           *)

\* A step leaves the branches alone, or fast-forwards the one r pushes to.
LEMMA BranchStep ==
    ASSUME IInv, NEW r \in Requests, Step(r)
    PROVE  \/ UNCHANGED branch
           \/ pc[r] = "push" /\ FastForwards(r) /\ Published(r)
  BY Zenon DEF Step, Intercept, Submit, RejectElsewhere, Conclude, Bypass, Refuse, PassDeletion,
         StartPushing, Clone, PipelineFails, Push, PushFails, RecordPush, RecordCondition,
         RecordObserved

\* The push of r: its parts, well typed.
LEMMA PushTypes ==
    ASSUME IInv, NEW r \in Requests, pc[r] = "push"
    PROVE  /\ pushing[r].target \in Targets
           /\ pushing[r].target \in Todo(r)
           /\ pushing[r].commits \in Seq(CommitRecords)
           /\ branch \in [Targets -> Seq(CommitRecords)]
           /\ Tip(pushing[r].commits) = request[r].content
  BY DEF IInv, ProgressInv, Progress, TypeOK, PushRecords, CommitRecords

\* Every branch only grows, whatever the step.
LEMMA BranchesGrow ==
    ASSUME IInv, [Next]_vars, NEW t \in Targets
    PROVE  /\ IsPrefix(branch[t], branch'[t])
           /\ branch[t] \in Seq(CommitRecords) /\ branch'[t] \in Seq(CommitRecords)
  <1>1. branch \in [Targets -> Seq(CommitRecords)]
    BY DEF IInv, TypeOK, CommitRecords
  <1>2. CASE UNCHANGED branch
    BY <1>1, <1>2, GrowingBranch
  <1>3. ASSUME NEW r \in Requests, pc[r] = "push", FastForwards(r), Published(r)
        PROVE  /\ IsPrefix(branch[t], branch'[t])
               /\ branch[t] \in Seq(CommitRecords) /\ branch'[t] \in Seq(CommitRecords)
    <2>1. CASE t = pushing[r].target
      <3>1. branch'[t] = pushing[r].commits
        BY <1>1, <1>3, <2>1 DEF Published
      <3> QED
        BY <1>1, <1>3, <2>1, <3>1, PushTypes DEF FastForwards
    <2>2. CASE t # pushing[r].target
      <3>1. branch'[t] = branch[t]
        BY <1>1, <1>3, <2>2 DEF Published
      <3> QED
        BY <1>1, <3>1, GrowingBranch
    <2> QED
      BY <2>1, <2>2
  <1>4. CASE UNCHANGED vars
    BY <1>2, <1>4 DEF vars
  <1>5. CASE \E r \in Requests : Step(r)
    BY <1>2, <1>3, <1>5, BranchStep
  <1> QED
    BY <1>4, <1>5 DEF Next, Step

\* Only a push that succeeds adds a response, and only Submit sets a request.
LEMMA ResponseStep ==
    ASSUME IInv, NEW r \in Requests, Step(r), NEW q \in Requests
    PROVE  /\ \A t \in Targets :
                \/ responses'[q][t] = responses[q][t]
                \/ /\ q = r /\ Push(r) /\ t = pushing[r].target
                   /\ responses'[q][t] = Len(pushing[r].commits)
           /\ \/ request'[q] = request[q]
              \/ pc[q] = "idle" /\ \A t \in Targets : responses'[q][t] = NoHash
  <1>0. TypeOK /\ Progress(q)
    BY DEF IInv, ProgressInv
  <1>1. CASE Push(r)
    <2>1. pushing[r].target \in Targets /\ UNCHANGED request
      BY <1>1, PushTypes DEF Push, apiVars
    <2> QED
      BY <1>0, <1>1, <2>1 DEF Push, TypeOK
  <1>2. CASE Submit(r)
    <2>1. UNCHANGED responses /\ (q # r => request'[q] = request[q])
      BY <1>0, <1>2 DEF Submit, pushVars, TypeOK
    <2>2. q = r => pc[q] = "idle"
      BY <1>0, <1>2 DEF Submit, Progress
    <2> QED
      BY <1>0, <2>1, <2>2 DEF Progress
  <1>3. CASE UNCHANGED <<responses, request>>
    BY <1>3
  <1> QED
    BY <1>1, <1>2, <1>3, Zenon
       DEF Step, Intercept, RejectElsewhere, Conclude, Bypass, Refuse, PassDeletion, StartPushing,
           Clone, PipelineFails, PushFails, RecordPush, RecordCondition, RecordObserved,
           apiVars, pushVars

\* What a response names stays on the branch.
LEMMA LandedStep ==
    ASSUME IInv, NEW r \in Requests, Step(r)
    PROVE  LandedInv'
  <1> SUFFICES ASSUME NEW q \in Requests, NEW t \in Targets, responses'[q][t] # NoHash
               PROVE  Landed(q, t)'
    BY DEF LandedInv
  <1>0. [Next]_vars
    BY DEF Next, Step
  <1>1. /\ branch[t] \in Seq(CommitRecords) /\ branch'[t] \in Seq(CommitRecords)
        /\ Len(branch[t]) <= Len(branch'[t])
        /\ \A i \in 1 .. Len(branch[t]) : branch[t][i] = branch'[t][i]
    <2>1. /\ branch[t] \in Seq(CommitRecords) /\ branch'[t] \in Seq(CommitRecords)
          /\ IsPrefix(branch[t], branch'[t])
      BY <1>0, BranchesGrow
    <2> QED
      BY <2>1, PrefixMeaning
  <1>2. request'[q] = request[q]
    BY ResponseStep
  <1>3. CASE responses'[q][t] = responses[q][t]
    <2>1. Landed(q, t)
      BY <1>3 DEF IInv, LandedInv
    <2> QED
      BY <1>1, <1>2, <1>3, <2>1 DEF Landed, TipAt
  <1>4. CASE q = r /\ Push(r) /\ t = pushing[r].target /\ responses'[q][t] = Len(pushing[r].commits)
    <2>1. branch'[t] = pushing[r].commits
      BY <1>4, PushTypes DEF Push, Published
    <2>2. Tip(branch'[t]) = request[q].content
      BY <1>4, <2>1, PushTypes DEF Push
    <2>3. TipAt(branch'[t], Len(branch'[t])) = request[q].content
      BY <1>1, <2>2, TipMeaning
    <2>4. Len(branch'[t]) \in Nat
      BY <1>1
    <2> QED
      BY <1>2, <1>4, <2>1, <2>3, <2>4 DEF Landed, TipAt
  <1> QED
    BY <1>3, <1>4, ResponseStep

\* A step that leaves r pushing has begun the push, is a failed attempt, or
\* is the API server's; a step of a pushing r is an attempt, or the API
\* server's.
LEMMA PushIsOwn ==
    ASSUME IInv, NEW r \in Requests, Step(r)
    PROVE  /\ pc'[r] = "push" => Clone(r) \/ PushFails(r) \/ RejectElsewhere(r)
           /\ pc[r] = "push" => Push(r) \/ PushFails(r) \/ RejectElsewhere(r)
           /\ pc'[r] \in {"idle", "review", "clone", "push"} =>
                 pc[r] \in {"idle", "review", "clone", "push"}
  <1>0. TypeOK /\ Progress(r)
    BY DEF IInv, ProgressInv
  <1> USE DEF TypeOK
  <1>1. CASE RecordPush(r) \/ RecordCondition(r) \/ RecordObserved(r)
    <2>1. /\ pc[r] \in {"pushed", "condition", "observe"}
          /\ \E x \in {"condition", "observe", "answered"} : pc' = [pc EXCEPT ![r] = x]
      BY <1>1, Zenon DEF RecordPush, RecordCondition, RecordObserved, Build
    <2> QED
      BY <1>0, <2>1
  <1>2. CASE Bypass(r) \/ Refuse(r) \/ PassDeletion(r) \/ PipelineFails(r)
    <2>1. pc[r] \in {"review", "clone"} /\ pc' = [pc EXCEPT ![r] = "condition"]
      BY <1>2 DEF Bypass, Refuse, PassDeletion, PipelineFails, GitPushError, Accepted, Build
    <2> QED
      BY <1>0, <2>1
  <1>3. CASE Submit(r) \/ StartPushing(r)
    <2>1. pc[r] \in {"idle", "review"} /\ \E x \in {"review", "clone"} : pc' = [pc EXCEPT ![r] = x]
      BY <1>0, <1>3 DEF Submit, StartPushing, Accepted, Progress
    <2> QED
      BY <1>0, <2>1
  <1>4. CASE Clone(r) \/ Push(r)
    <2>1. /\ pc[r] \in {"clone", "push"} /\ (pc[r] = "push" => Push(r)) /\ (pc'[r] = "push" => Clone(r))
      BY <1>0, <1>4 DEF Clone, Push
    <2> QED
      BY <2>1
  <1>5. CASE RejectElsewhere(r) \/ PushFails(r)
    BY <1>0, <1>5 DEF RejectElsewhere, PushFails
  <1>6. CASE Conclude(r)
    BY <1>0, <1>6 DEF Conclude
  <1> QED
    BY <1>1, <1>2, <1>3, <1>4, <1>5, <1>6 DEF Step, Intercept

\* No step commits a request a second time.
LEMMA OnceStep ==
    ASSUME IInv, NEW r \in Requests, Step(r)
    PROVE  OnceInv'
  <1>0. [Next]_vars /\ TypeOK /\ Progress(r) /\ OnceInv /\ OthersSame(r)
    BY StepFrame DEF IInv, ProgressInv, Next, Step
  <1>1. \A t \in Targets : /\ branch[t] \in Seq(CommitRecords) /\ branch'[t] \in Seq(CommitRecords)
                           /\ Authors(branch[t]) \subseteq Authors(branch'[t])
    BY <1>0, BranchesGrow, GrowingBranch
  <1>2. ASSUME NEW t \in Targets
        PROVE  \/ branch'[t] = branch[t]
               \/ /\ pc[r] = "push" /\ t = pushing[r].target
                  /\ branch'[t] = pushing[r].commits
    BY <1>0, BranchStep, PushTypes DEF Published, TypeOK
  <1>3. ASSUME NEW t \in Targets PROVE Once(branch'[t])
    BY <1>0, <1>2 DEF OnceInv
  <1>4. ASSUME NEW q \in Requests, pc'[q] = "push"
        PROVE  /\ Once(pushing'[q].commits)
               /\ Authors(pushing'[q].commits) \subseteq Authors(branch'[pushing'[q].target]) \cup {q}
    <2>1. CASE /\ pc[q] = "push" /\ pushing'[q].commits = pushing[q].commits
               /\ pushing'[q].target = pushing[q].target
      BY <1>0, <1>1, <2>1, PushTypes DEF OnceInv
    <2>2. CASE q = r /\ Clone(r)
      <3>1. PICK t \in Todo(r) :
               pushing' = [pushing EXCEPT ![r] =
                             Pushing(t, Commit(r, branch[t]), spec.pushErrorRetryNumber)]
        BY <2>2 DEF Clone
      <3>2. /\ t \in Targets /\ responses[r][t] = NoHash /\ pc[r] = "clone"
            /\ request[r] \in RequestRecords
        BY <1>0, <2>2 DEF Todo, TypeOK, Progress, Clone
      <3>3. /\ pushing'[r].commits = Commit(r, branch[t]) /\ pushing'[r].target = t
        BY <1>0, <3>1 DEF TypeOK, Pushing
      <3>4. Once(branch[t]) /\ r \notin Authors(branch[t])
        BY <1>0, <3>2 DEF OnceInv
      <3>5. /\ Authors(Commit(r, branch[t])) \subseteq Authors(branch[t]) \cup {r}
            /\ Once(Commit(r, branch[t]))
        BY <1>1, <3>2, <3>4, CommitResult
      <3>6. branch'[t] = branch[t]
        BY <2>2 DEF Clone
      <3> QED
        BY <2>2, <3>3, <3>5, <3>6
    <2>3. CASE q = r /\ PushFails(r)
      <3>1. pc[r] = "push" /\ pushing[r] \in PushRecords /\ RetryOrGiveUp(r)
        BY <1>0, <2>3 DEF PushFails, Progress
      <3>2. PICK n \in Nat : pushing' = [pushing EXCEPT ![r] =
                                    Pushing(pushing[r].target, pushing[r].commits, n)]
        <4>1. ~GitPushError(r)
          BY <1>0, <1>4, <2>3 DEF GitPushError, Build, TypeOK
        <4> QED
          BY <1>0, <3>1, <4>1, RetryResult
      <3> QED
        BY <1>0, <2>1, <2>3, <3>1, <3>2 DEF Pushing, TypeOK
    <2>4. CASE q # r
      BY <1>0, <1>4, <2>1, <2>4 DEF OthersSame
    <2>5. CASE q = r /\ RejectElsewhere(r)
      BY <1>0, <1>4, <2>1, <2>5 DEF RejectElsewhere, pushVars
    <2>6. CASE q = r /\ ~(Clone(r) \/ PushFails(r) \/ RejectElsewhere(r))
      BY <1>4, <2>6, PushIsOwn
    <2> QED
      BY <2>2, <2>3, <2>4, <2>5, <2>6
  <1>5. ASSUME NEW q \in Requests, NEW t \in Targets, q \in Authors(branch'[t]),
               pc'[q] \in {"idle", "review", "clone", "push"}, responses'[q][t] = NoHash,
               pc'[q] = "push" => t # pushing'[q].target
        PROVE  FALSE
    <2>1. pc[q] \in {"idle", "review", "clone", "push"}
      BY <1>0, <1>5, PushIsOwn DEF OthersSame
    <2>2. responses[q][t] = NoHash
      <3>1. pc[r] = "push" => Len(pushing[r].commits) # NoHash
        BY PushTypes
      <3> QED
        BY <1>5, <3>1, ResponseStep DEF Push
    <2>3. pc[q] = "push" /\ t = pushing[q].target
      <3>1. CASE q \in Authors(branch[t])
        BY <1>0, <2>1, <2>2, <3>1 DEF OnceInv
      <3>2. CASE q \notin Authors(branch[t])
        <4>1. pc[r] = "push" /\ t = pushing[r].target /\ branch'[t] = pushing[r].commits
          BY <1>2, <1>5, <3>2
        <4>2. q = r
          BY <1>0, <1>5, <3>2, <4>1 DEF OnceInv
        <4> QED
          BY <4>1, <4>2
      <3> QED
        BY <3>1, <3>2
    <2>4. q = r
      BY <1>0, <1>5, <2>3 DEF OthersSame
    <2>5. CASE Push(r)
      <3>1. responses'[r][t] = Len(pushing[r].commits)
        BY <1>0, <2>3, <2>4, <2>5 DEF Push, TypeOK
      <3>2. Len(pushing[r].commits) \in Nat
        BY <2>3, <2>4, PushTypes
      <3> QED
        BY <1>5, <2>4, <3>1, <3>2
    <2>6. CASE PushFails(r)
      <3>1. pushing[r] \in PushRecords /\ RetryOrGiveUp(r)
        BY <1>0, <2>3, <2>4, <2>6 DEF PushFails, Progress
      <3>2. CASE GitPushError(r)
        BY <1>0, <1>5, <2>4, <3>2 DEF GitPushError, Build, TypeOK
      <3>3. CASE UNCHANGED pc /\ \E n \in Nat : pushing' = [pushing EXCEPT ![r] =
                                    Pushing(pushing[r].target, pushing[r].commits, n)]
        BY <1>0, <1>5, <2>3, <2>4, <3>3 DEF Pushing, TypeOK
      <3> QED
        BY <1>0, <3>1, <3>2, <3>3, RetryResult
    <2>7. CASE RejectElsewhere(r)
      BY <1>5, <2>3, <2>4, <2>7 DEF RejectElsewhere, pushVars
    <2> QED
      BY <2>3, <2>4, <2>5, <2>6, <2>7, PushIsOwn
  <1> QED
    BY <1>3, <1>4, <1>5 DEF OnceInv

---------------------------------------------------------------------------
(* The invariant, and what it implies.                                     *)

\* The invariant is inductive.
LEMMA NextIInv == IInv /\ [Next]_vars => IInv'
  <1> SUFFICES ASSUME IInv, [Next]_vars PROVE IInv'
    OBVIOUS
  <1>1. ASSUME NEW r \in Requests, Step(r) PROVE IInv'
    <2>1. ProgressInv' /\ AnswerInv'
      BY <1>1, StepFrame, OthersKeep, OwnProgress, OwnAnswer DEF IInv, ProgressInv, AnswerInv
    <2> QED
      BY <1>1, <2>1, TypeStep, StatusStep, LandedStep, OnceStep DEF IInv
  <1>2. CASE UNCHANGED vars
    <2>1. TypeOK'
      BY TypeStep
    <2>2. ProgressInv' /\ AnswerInv' /\ StatusInv'
      BY <1>2 DEF IInv, ProgressInv, Progress, AnswerInv, Justified, StatusInv, vars, pushVars,
                  RequestRecords, PushRecords, CommitRecords, Contents, Tip, Todo, Finished,
                  SkipsGit, Bypasses, Building
    <2>3. LandedInv'
      BY <1>2 DEF IInv, LandedInv, Landed, TipAt, vars, pushVars
    <2>4. OnceInv'
      BY <1>2 DEF IInv, OnceInv, vars, pushVars
    <2> QED
      BY <2>1, <2>2, <2>3, <2>4 DEF IInv
  <1> QED
    BY <1>1, <1>2 DEF Next, Step

\* A request whose pushes are through is on all its branches.
LEMMA FinishedIsPushed ==
    ASSUME IInv, NEW r \in Requests, Finished(r)
    PROVE  PushedToAll(r)
  <1> SUFFICES ASSUME NEW t \in targets[r]
               PROVE  /\ responses[r][t] \in 0 .. Len(branch[t])
                      /\ Tip(SubSeq(branch[t], 1, responses[r][t])) = request[r].content
    BY DEF Finished, PushedToAll
  <1>1. t \in Targets /\ branch[t] \in Seq(CommitRecords) /\ responses[r][t] # NoHash
    BY DEF IInv, TypeOK, CommitRecords, Finished, Todo
  <1>2. Landed(r, t)
    BY <1>1 DEF IInv, LandedInv
  <1> QED
    BY <1>1, <1>2, TipMeaning DEF Landed

(* The state is well typed in every reachable state.                       *)
THEOREM InterceptionTypes == Spec => []TypeOK
  <1>1. IInv => TypeOK
    BY DEF IInv
  <1> QED
    BY <1>1, InitIInv, NextIInv, PTL DEF Spec

(* What an ordinary user had stored is on the branch of every target it    *)
(* was to be pushed to, unless the syncer's pushErrorBehavior is Pass, and *)
(* under CommitOnly nothing is stored: whatever fails, times out or is     *)
(* rejected, for any number of concurrent requests and targets             *)
(* (RunInterceptionPipeline, RunGitPushPipeline, Push).                    *)
THEOREM StoredIsOnEveryBranch == Spec => []AppliedWasPushed
  <1>1. IInv => AppliedWasPushed
    <2> SUFFICES ASSUME IInv, NEW r \in Requests, api[r] = "stored", ~SkipsGit(r)
                 PROVE  /\ spec.strategy = "CommitApply"
                        /\ spec.pushErrorBehavior = "Pass" \/ PushedToAll(r)
      BY DEF AppliedWasPushed
    <2>1. pc[r] \in Building /\ answer[r].allowed /\ Justified(r)
      BY DEF IInv, ProgressInv, Progress, AnswerInv, Building
    <2> QED
      BY <2>1, FinishedIsPushed DEF Justified
  <1> QED
    BY <1>1, InitIInv, NextIInv, PTL DEF Spec

(* No branch has two commits of a request, although Push sends a commit    *)
(* again when the answer to the first attempt was lost.                    *)
THEOREM RequestsCommitOnce == Spec => []CommittedOnce
  <1>1. IInv => CommittedOnce
    <2> SUFFICES ASSUME IInv, NEW t \in Targets
                 PROVE  \A i, j \in DOMAIN branch[t] :
                           branch[t][i].by = branch[t][j].by => i = j
      BY DEF CommittedOnce
    <2>1. DOMAIN branch[t] = 1 .. Len(branch[t])
      BY DEF IInv, TypeOK
    <2> QED
      BY <2>1 DEF IInv, OnceInv, Once
  <1> QED
    BY <1>1, InitIInv, NextIInv, PTL DEF Spec

(* lastPushedObjectState names a request that is on all its branches.      *)
THEOREM StatusNamesPushed == Spec => []PushedStatusIsTrue
  <1>1. IInv => PushedStatusIsTrue
    <2> SUFFICES ASSUME IInv, status.pushed # Nobody
                 PROVE  PushedToAll(status.pushed)
      BY DEF PushedStatusIsTrue
    <2>1. PICK r \in Requests : status.pushed = r
      BY DEF IInv, TypeOK
    <2> QED
      BY <2>1, FinishedIsPushed DEF IInv, StatusInv
  <1> QED
    BY <1>1, InitIInv, NextIInv, PTL DEF Spec

---------------------------------------------------------------------------
(* Git and the cluster, when requests come one at a time.                  *)

\* One request at a time, by users git is to see, to the one target of a
\* CommitApply syncer that blocks on errors; git may fail, but no answer is
\* lost, and nothing rejects a request that was pushed.
Sequential ==
    /\ IsFiniteSet(Requests) /\ MaxInFlight = 1
    /\ \E t : Targets = {t}
    /\ "bypassSubject" \notin Users
    /\ Faults \cap {"lostAnswer", "timeout", "rejection"} = {}
    /\ \A s \in Specs : /\ s.strategy = "CommitApply" /\ s.pushErrorBehavior = "Block"
                        /\ s.bypassAllServiceAccounts => "serviceAccount" \notin Users

\* What git is to have once the cluster has what it has.
Wanted == IF cluster.terminating THEN Absent ELSE cluster.manifest

Tips(content) == \A t \in Targets : Tip(branch[t]) = content

\* While r is in flight git is ahead of the cluster from r's push on.
Ahead(r) ==
    \/ pc[r] = "pushed"
    \/ pc[r] \in Building /\ answer[r].allowed /\ ~request[r].deleting

InFlightOk(r) ==
    /\ \A q \in Requests : InFlight(q) => q = r
    /\ api[r] = "calling" /\ ~Bypasses(r)
    /\ request[r].version = cluster.version
    /\ request[r].deleting = cluster.terminating
    /\ pc[r] \in {"clone", "push", "pushed"} => ~request[r].deleting
    /\ Ahead(r) => Tips(request[r].content)
    /\ ~Ahead(r) => Tips(Wanted)

SequentialInv ==
    /\ (\A r \in Requests : ~InFlight(r)) => Tips(Wanted)
    /\ \A r \in Requests : InFlight(r) => InFlightOk(r)

\* Before a request is submitted nothing is in flight.
LEMMA SubmittedAlone ==
    ASSUME Sequential, NEW r \in Requests, Submit(r)
    PROVE  \A q \in Requests : ~InFlight(q)
  <1> DEFINE S == {q \in Requests : InFlight(q)}
  <1>1. IsFiniteSet(S)
    BY FS_Subset DEF Sequential
  <1>2. Cardinality(S) = 0
    BY <1>1, FS_CardinalityType DEF Submit, Sequential
  <1>3. S = {}
    BY <1>1, <1>2, FS_EmptySet
  <1> QED
    BY <1>3

\* A request submitted to a quiet system is in order.
LEMMA SequentialSubmit ==
    ASSUME Sequential, IInv, SequentialInv, NEW r \in Requests, Submit(r)
    PROVE  SequentialInv'
  <1>0. TypeOK /\ OthersSame(r) /\ UNCHANGED <<spec, cluster, branch>>
    BY StepFrame DEF IInv, Step, Submit
  <1>1. Tips(Wanted) /\ \A q \in Requests : ~InFlight(q)
    BY SubmittedAlone DEF SequentialInv
  <1>2. api'[r] = "calling" /\ pc'[r] = "review"
    BY <1>0 DEF Submit, TypeOK
  <1>3. \A q \in Requests : q # r => ~InFlight(q)'
    BY <1>0, <1>1 DEF OthersSame, InFlight
  <1>4. PICK user \in Users, content \in Contents :
             request' = [request EXCEPT ![r] =
                [user |-> user, content |-> content,
                 deleting |-> cluster.terminating, version |-> cluster.version]]
    BY DEF Submit
  <1>5. request'[r].user \in Users /\ request'[r].deleting = cluster.terminating
        /\ request'[r].version = cluster.version
    BY <1>0, <1>4 DEF TypeOK
  <1>6. ~Bypasses(r)'
    BY <1>0, <1>5 DEF Bypasses, Sequential, TypeOK
  <1>7. InFlight(r)' /\ ~Ahead(r)'
    BY <1>2 DEF InFlight, Ahead, Building
  <1>8. Tips(Wanted)'
    BY <1>0, <1>1 DEF Tips, Wanted, Tip
  <1>9. InFlightOk(r)'
    BY <1>0, <1>2, <1>3, <1>5, <1>6, <1>7, <1>8 DEF InFlightOk
  <1> QED
    BY <1>3, <1>7, <1>9 DEF SequentialInv

\* The answer to a request brings the cluster to where git is.
LEMMA SequentialConclude ==
    ASSUME Sequential, IInv, SequentialInv, NEW r \in Requests, Conclude(r)
    PROVE  SequentialInv'
  <1>0. TypeOK /\ OthersSame(r) /\ UNCHANGED branch /\ InFlight(r) /\ pc[r] = "answered"
    BY StepFrame DEF IInv, Step, Conclude, InFlight
  <1>1. InFlightOk(r)
    BY <1>0 DEF SequentialInv
  <1>2. ~InFlight(r)'
    BY <1>0 DEF Conclude, InFlight, TypeOK
  <1>3. \A q \in Requests : ~InFlight(q)'
    BY <1>0, <1>1, <1>2 DEF OthersSame, InFlightOk, InFlight
  <1>4. CASE ~answer[r].allowed
    <2>1. UNCHANGED cluster /\ ~Ahead(r)
      BY <1>0, <1>4 DEF Conclude, Stored, Ahead
    <2> QED
      BY <1>0, <1>1, <1>3, <2>1 DEF InFlightOk, SequentialInv, Tips, Wanted, Tip
  <1>5. CASE answer[r].allowed
    <2>1. PICK stays \in BOOLEAN : cluster' = Object(r, stays)
      BY <1>1, <1>5 DEF Conclude, Stored, InFlightOk
    <2>2. CASE request[r].deleting
      <3>1. cluster.terminating /\ Tips(Absent)
        BY <1>0, <1>1, <2>2 DEF InFlightOk, Ahead, Wanted
      <3>2. Wanted' = Absent
        BY <2>1, <3>1 DEF Object, Wanted
      <3> QED
        BY <1>0, <1>3, <3>1, <3>2 DEF SequentialInv, Tips, Tip
    <2>3. CASE ~request[r].deleting
      <3>1. ~cluster.terminating /\ Tips(request[r].content)
        BY <1>0, <1>1, <1>5, <2>3 DEF InFlightOk, Ahead, Building
      <3>2. Wanted' = request[r].content
        BY <2>1, <3>1 DEF Object, Wanted
      <3> QED
        BY <1>0, <1>3, <3>1, <3>2 DEF SequentialInv, Tips, Tip
    <2> QED
      BY <2>2, <2>3
  <1> QED
    BY <1>4, <1>5

\* Whatever the webhook does for the request in flight, git has what the
\* cluster has, or from the push on what the request asks for.
LEMMA SequentialIntercept ==
    ASSUME Sequential, IInv, SequentialInv, NEW r \in Requests, Intercept(r)
    PROVE  SequentialInv'
  <1>0. /\ TypeOK /\ Progress(r) /\ OthersSame(r) /\ spec' = spec /\ cluster' = cluster
        /\ request' = request /\ api' = api
    <2>1. spec' = spec /\ OthersSame(r)
      BY StepFrame DEF Step
    <2>2. cluster' = cluster /\ request' = request /\ api' = api
      BY Zenon DEF Intercept, Bypass, Refuse, PassDeletion, StartPushing, Clone, PipelineFails,
                   Push, PushFails, RecordPush, RecordCondition, RecordObserved, apiVars
    <2> QED
      BY <2>1, <2>2 DEF IInv, ProgressInv
  <1>1. pc[r] \notin {"idle", "answered"}
    BY Zenon DEF Intercept, Bypass, Refuse, PassDeletion, StartPushing, Accepted, Clone,
                 PipelineFails, Push, PushFails, RecordPush, RecordCondition, RecordObserved
  <1>2. InFlightOk(r)
    BY <1>1 DEF SequentialInv, InFlight
  <1>3. InFlight(r)' /\ \A q \in Requests : InFlight(q)' => q = r
    BY <1>0, <1>2 DEF InFlightOk, InFlight, OthersSame
  <1>4. Wanted' = Wanted /\ (Bypasses(r)' <=> Bypasses(r))
    BY <1>0 DEF Wanted, Bypasses
  <1>5. SUFFICES /\ pc'[r] \in {"clone", "push", "pushed"} => ~request[r].deleting
                 /\ Ahead(r)' => Tips(request[r].content)'
                 /\ ~Ahead(r)' => Tips(Wanted)'
    BY <1>0, <1>2, <1>3, <1>4 DEF InFlightOk, SequentialInv
  <1>6. ASSUME branch' = branch, ~Ahead(r), ~Ahead(r)',
               pc'[r] \in {"clone", "push", "pushed"} => ~request[r].deleting
        PROVE  /\ pc'[r] \in {"clone", "push", "pushed"} => ~request[r].deleting
               /\ Ahead(r)' => Tips(request[r].content)'
               /\ ~Ahead(r)' => Tips(Wanted)'
    BY <1>2, <1>4, <1>6 DEF InFlightOk, Tips, Tip
  <1>7. ASSUME branch' = branch, Ahead(r), Ahead(r)',
               pc'[r] \in {"clone", "push", "pushed"} => ~request[r].deleting
        PROVE  /\ pc'[r] \in {"clone", "push", "pushed"} => ~request[r].deleting
               /\ Ahead(r)' => Tips(request[r].content)'
               /\ ~Ahead(r)' => Tips(Wanted)'
    BY <1>0, <1>2, <1>7 DEF InFlightOk, Tips, Tip
  <1>8. ASSUME NEW a, NEW e, Build(r, a, e)
        PROVE  pc'[r] = "condition" /\ answer'[r].allowed = a
    BY <1>0, <1>8 DEF Build, TypeOK
  <1>9. ASSUME GitPushError(r) PROVE pc'[r] = "condition" /\ ~answer'[r].allowed
    <2>1. spec.pushErrorBehavior # "Pass"
      BY <1>0 DEF TypeOK, Sequential
    <2> QED
      BY <1>8, <1>9, <2>1 DEF GitPushError
  <1>10. ~Bypass(r)
    BY <1>2 DEF Bypass, InFlightOk
  <1>11. CASE Refuse(r) \/ PassDeletion(r) \/ PipelineFails(r)
    <2>1. pc[r] \in {"review", "clone"} /\ branch' = branch
      BY <1>11 DEF Refuse, PassDeletion, PipelineFails, Accepted
    <2>2. pc'[r] = "condition" /\ (answer'[r].allowed => request[r].deleting)
      BY <1>8, <1>9, <1>11 DEF Refuse, PassDeletion, PipelineFails
    <2>3. ~Ahead(r) /\ ~Ahead(r)'
      BY <1>0, <2>1, <2>2 DEF Ahead, Building
    <2> QED
      BY <1>6, <2>1, <2>2, <2>3
  <1>12. CASE StartPushing(r) \/ Clone(r)
    <2>1. /\ pc[r] \in {"review", "clone"} /\ pc'[r] \in {"clone", "push"} /\ branch' = branch
          /\ ~request[r].deleting
      BY <1>0, <1>2, <1>12 DEF StartPushing, Accepted, Clone, InFlightOk, TypeOK
    <2>2. ~Ahead(r) /\ ~Ahead(r)'
      BY <2>1 DEF Ahead, Building
    <2> QED
      BY <1>6, <2>1, <2>2
  <1>13. CASE Push(r)
    <2>1. Todo(r) = {pushing[r].target} /\ Targets = {pushing[r].target}
      BY <1>0, <1>13, PushTypes DEF Push, Sequential, Todo, TypeOK
    <2>2. pc[r] = "push" /\ pc'[r] = "pushed" /\ ~request[r].deleting
      BY <1>0, <1>2, <1>13, <2>1 DEF Push, InFlightOk, TypeOK
    <2>3. branch'[pushing[r].target] = pushing[r].commits /\ Tip(pushing[r].commits) = request[r].content
      BY <1>13, <2>2, PushTypes DEF Push, Published
    <2>4. \A t \in Targets : Tip(branch'[t]) = request'[r].content
      BY <1>0, <2>1, <2>3
    <2> QED
      BY <2>2, <2>4 DEF Tips, Tip, Ahead
  <1>14. CASE PushFails(r)
    <2>1. /\ pc[r] = "push" /\ branch' = branch /\ RetryOrGiveUp(r) /\ pushing[r] \in PushRecords
          /\ ~request[r].deleting
      BY <1>0, <1>2, <1>14 DEF PushFails, Sequential, Progress, InFlightOk
    <2>2. pc'[r] = "push" \/ (pc'[r] = "condition" /\ ~answer'[r].allowed)
      <3>1. UNCHANGED pc \/ GitPushError(r)
        BY <1>0, <2>1, RetryResult
      <3> QED
        BY <1>9, <2>1, <3>1
    <2>3. ~Ahead(r) /\ ~Ahead(r)'
      BY <2>1, <2>2 DEF Ahead, Building
    <2> QED
      BY <1>6, <2>1, <2>3
  <1>15. CASE RecordPush(r)
    <2>1. pc[r] = "pushed" /\ branch' = branch /\ Build(r, spec.strategy = "CommitApply", FALSE)
      BY <1>15, Zenon DEF RecordPush
    <2>2. spec.strategy = "CommitApply" /\ ~request[r].deleting
      BY <1>0, <1>2, <2>1 DEF Sequential, TypeOK, InFlightOk
    <2>3. pc'[r] = "condition" /\ answer'[r].allowed
      BY <1>8, <2>1, <2>2
    <2>4. Ahead(r) /\ Ahead(r)'
      BY <1>0, <2>1, <2>2, <2>3 DEF Ahead, Building
    <2> QED
      BY <1>7, <2>1, <2>2, <2>4
  <1>16. CASE RecordCondition(r) \/ RecordObserved(r)
    <2>1. /\ pc[r] \in {"condition", "observe"} /\ branch' = branch /\ answer' = answer
          /\ \E x \in {"observe", "answered"} : pc' = [pc EXCEPT ![r] = x]
      BY <1>16, Zenon DEF RecordCondition, RecordObserved
    <2>2. pc'[r] \in {"observe", "answered"}
      BY <1>0, <2>1 DEF TypeOK
    <2>3. Ahead(r)' <=> Ahead(r)
      BY <1>0, <2>1, <2>2 DEF Ahead, Building
    <2> QED
      BY <1>6, <1>7, <2>1, <2>2, <2>3
  <1> QED
    BY <1>10, <1>11, <1>12, <1>13, <1>14, <1>15, <1>16 DEF Intercept

\* Every step keeps git and the cluster in step.
LEMMA SequentialStep ==
    ASSUME Sequential
    PROVE  IInv /\ SequentialInv /\ [Next]_vars => SequentialInv'
  <1> SUFFICES ASSUME IInv, SequentialInv, [Next]_vars PROVE SequentialInv'
    OBVIOUS
  <1>1. \A r \in Requests : ~RejectElsewhere(r)
    BY DEF Sequential, RejectElsewhere
  <1>2. CASE UNCHANGED vars
    BY <1>2 DEF SequentialInv, InFlightOk, InFlight, Ahead, Tips, Wanted, Tip, Bypasses, vars
  <1> QED
    BY <1>1, <1>2, SequentialSubmit, SequentialConclude, SequentialIntercept DEF Next

(* Requests that come one at a time leave git with what the cluster has,   *)
(* for any number of them, with failing clones and pushes and failing      *)
(* status writes in between (RunInterceptionPipeline in CommitApply mode). *)
THEOREM SequentialGitMatches ==
    ASSUME Sequential
    PROVE  Spec => []GitMatchesCluster
  <1>1. Init => SequentialInv
    <2> SUFFICES ASSUME Init PROVE SequentialInv
      OBVIOUS
    <2>1. \A r \in Requests : ~InFlight(r)
      BY DEF Init, InFlight
    <2>2. Tips(Wanted)
      BY DEF Init, Tips, Tip, Wanted
    <2> QED
      BY <2>1, <2>2 DEF SequentialInv
  <1>2. SequentialInv => GitMatchesCluster
    BY DEF SequentialInv, GitMatchesCluster, Tips, Wanted
  <1>3. IInv /\ SequentialInv /\ [Next]_vars => SequentialInv'
    BY SequentialStep
  <1> QED
    BY <1>1, <1>2, <1>3, InitIInv, NextIInv, PTL DEF Spec
=============================================================================
