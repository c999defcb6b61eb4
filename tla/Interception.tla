---------------------------- MODULE Interception ----------------------------
(***************************************************************************)
(* What happens to one Kubernetes object when requests on it go through a  *)
(* RemoteSyncer's webhook: RunInterceptionPipeline and RunGitPushPipeline  *)
(* (internal/interceptor/pipeline.go), the answer they build               *)
(* (response.go, k8s_utils.go) and the push with its retries               *)
(* (internal/pusher/push.go).  A request is a process: the API server      *)
(* calls the webhook for it in a goroutine of its own.                     *)
(*                                                                         *)
(* The API server and the git servers are outside.  The API server submits *)
(* requests, gives up on a slow webhook and stores what was allowed, under *)
(* optimistic concurrency.  A git branch is the sequence of its commits,   *)
(* and a push is accepted only if it fast-forwards the branch.             *)
(*                                                                         *)
(* Targets push to the branch they are cloned from (no merge strategy),    *)
(* and requests do not share clones (the repository cache is disabled, its *)
(* default; RepoLease has the cache).                                      *)
(***************************************************************************)
EXTENDS SequencesExt

CONSTANTS Requests, MaxInFlight,    \* bounds: requests submitted, and at a time
          Targets,                  \* the RemoteTargets of the syncer's users
          Manifests, Absent,        \* object contents; Absent: no object
          Specs,                    \* the RemoteSyncer specs to start from
          Users,                    \* kinds of users submitting requests
          Faults,                   \* what goes wrong outside
          Nobody, NoRequest, NoPush

UserKinds == {"user", "serviceAccount", "bypassSubject", "ambiguousSubject"}

SyncerSpecs == [strategy : {"CommitApply", "CommitOnly"},
                pushErrorBehavior : {"Block", "Pass"},
                bypassAllServiceAccounts : BOOLEAN,
                oneTarget : BOOLEAN,
                urlParses : BOOLEAN,
                pushErrorRetryNumber : Int]

\* A git server fails a clone or a push; it accepts a push and its answer is
\* lost; the webhook is too slow; another admission plugin rejects; a write
\* of the syncer's status fails for good.
FaultKinds == {"git", "lostAnswer", "timeout", "rejection", "status"}

ASSUME ConstantsAssumption ==
    /\ Specs \subseteq SyncerSpecs
    /\ Users \subseteq UserKinds
    /\ Faults \subseteq FaultKinds
    /\ MaxInFlight \in Nat
    /\ Absent \notin Manifests
    /\ Nobody \notin Requests

VARIABLES spec,         \* the syncer's spec
          status,       \* the syncer's status: conditions and last states
          cluster,      \* the stored object: [manifest, terminating, version]
          branch,       \* branch[t]: the commits of the target's branch
          request,      \* what each request asks for, and the version it read
          api,          \* what the API server does with each request
          pc,           \* what the webhook does next for each request
          targets,      \* the user's targets, to push to
          responses,    \* responses[r][t]: the commit pushed to target t
          pushing,      \* RunGitPipeline at work: the target, the branch of the
                        \* clone with the commit, the pushes left to retry
          answer        \* the answer being built: [allowed, errored]

apiVars == <<cluster, request, api>>
pushVars == <<targets, responses, pushing>>
vars == <<spec, status, cluster, branch, request, api, pc, pushVars, answer>>

Contents == Manifests \cup {Absent}

(* A commit hash is the commit's position on its branch, 0 for the commit  *)
(* the branch starts from.                                                 *)
NoHash == -1

Todo(r) == {t \in targets[r] : responses[r][t] = NoHash}

InFlight(r) == api[r] = "calling" \/ pc[r] \notin {"idle", "answered"}

Init ==
    /\ spec \in Specs
    /\ status = [synced |-> "Unknown", observed |-> Nobody, pushed |-> Nobody]
    /\ cluster = [manifest |-> Absent, terminating |-> FALSE, version |-> 0]
    /\ branch = [t \in Targets |-> <<>>]
    /\ request = [r \in Requests |-> NoRequest]
    /\ api = [r \in Requests |-> "idle"]
    /\ pc = [r \in Requests |-> "idle"]
    /\ targets = [r \in Requests |-> {}]
    /\ responses = [r \in Requests |-> [t \in Targets |-> NoHash]]
    /\ pushing = [r \in Requests |-> NoPush]
    /\ answer = [r \in Requests |-> [allowed |-> FALSE, errored |-> FALSE]]

---------------------------------------------------------------------------
(* The API server (external).                                              *)

(* A user creates, changes (content: a manifest) or deletes (Absent) the   *)
(* object; the webhook is called.  A DELETE of a terminating object is not *)
(* admitted again; an UPDATE of one carries its deletionTimestamp.         *)
Submit(r) ==
    /\ api[r] = "idle"
    /\ Cardinality({q \in Requests : InFlight(q)}) < MaxInFlight
    /\ \E user \in Users, content \in Contents :
          /\ content = Absent => cluster.manifest # Absent /\ ~cluster.terminating
          /\ request' = [request EXCEPT ![r] =
                [user |-> user, content |-> content,
                 deleting |-> cluster.terminating, version |-> cluster.version]]
    /\ api' = [api EXCEPT ![r] = "calling"]
    /\ pc' = [pc EXCEPT ![r] = "review"]
    /\ UNCHANGED <<spec, status, cluster, branch, pushVars, answer>>

(* The webhook does not answer in time, or another plugin says no: the     *)
(* request fails (failurePolicy is left at its default), while the         *)
(* pipeline, which has the background context, goes on.                    *)
RejectElsewhere(r) ==
    /\ api[r] = "calling"
    /\ \/ "timeout" \in Faults /\ pc[r] # "answered"
       \/ "rejection" \in Faults /\ pc[r] = "answered"
    /\ api' = [api EXCEPT ![r] = "rejected"]
    /\ UNCHANGED <<spec, status, cluster, branch, request, pc, pushVars, answer>>

(* The answer arrives.  An allowed request is stored unless the object has *)
(* changed since the client read it; a deleted object may stay, with a     *)
(* deletionTimestamp, until its finalizers are gone.                       *)
Stored(r) ==
    /\ answer[r].allowed
    /\ request[r].version = cluster.version

\* The object after r: ending says that r deletes it, or finds it terminating.
Object(r, stays) ==
    LET ending == request[r].content = Absent \/ cluster.terminating
        kept == IF request[r].content = Absent THEN cluster.manifest ELSE request[r].content
    IN  [manifest |-> IF ending /\ ~stays THEN Absent ELSE kept,
         terminating |-> ending /\ stays,
         version |-> cluster.version + 1]

Conclude(r) ==
    /\ api[r] = "calling" /\ pc[r] = "answered"
    /\ \/ /\ Stored(r)
          /\ \E stays \in BOOLEAN : cluster' = Object(r, stays)
          /\ api' = [api EXCEPT ![r] = "stored"]
       \/ /\ ~Stored(r)
          /\ api' = [api EXCEPT ![r] = "rejected"]
          /\ UNCHANGED cluster
    /\ UNCHANGED <<spec, status, branch, request, pc, pushVars, answer>>

---------------------------------------------------------------------------
(* RunInterceptionPipeline.                                                *)

(* AdmissionReviewBuilder starts: the answer is fixed, the syncer's        *)
(* condition and last observed object are to be written.                   *)
Build(r, allowed, errored) ==
    /\ answer' = [answer EXCEPT ![r] = [allowed |-> allowed, errored |-> errored]]
    /\ pc' = [pc EXCEPT ![r] = "condition"]

(* IsBypassSubject counts the subjects with the user's name: one bypasses, *)
(* several are an error.                                                   *)
Bypasses(r) ==
    \/ spec.bypassAllServiceAccounts /\ request[r].user = "serviceAccount"
    \/ request[r].user = "bypassSubject"

Bypass(r) ==
    /\ pc[r] = "review" /\ spec.urlParses
    /\ Bypasses(r)
    /\ Build(r, TRUE, FALSE)
    /\ UNCHANGED <<spec, status, apiVars, branch, pushVars>>

(* The URL does not parse, the subject is ambiguous, the author may not    *)
(* get a referenced object, no binding, user or target is found, the       *)
(* manifest cannot be rendered: denied with an error.                      *)
Refuse(r) ==
    /\ pc[r] = "review"
    /\ ~spec.urlParses \/ ~Bypasses(r)
    /\ Build(r, FALSE, TRUE)
    /\ UNCHANGED <<spec, status, apiVars, branch, pushVars>>

Accepted(r) ==
    /\ pc[r] = "review" /\ spec.urlParses
    /\ ~Bypasses(r) /\ request[r].user # "ambiguousSubject"

\* Mutant of PassDeletion: deletions are let through unpushed.
PassEveryDeletion(r) ==
    /\ Accepted(r)
    /\ request[r].deleting \/ request[r].content = Absent
    /\ Build(r, TRUE, FALSE)
    /\ UNCHANGED <<spec, status, apiVars, branch, pushVars>>

(* The object carries a deletionTimestamp: its deletion was pushed when it *)
(* was requested.                                                          *)
PassDeletion(r) ==
    /\ Accepted(r)
    /\ request[r].deleting
    /\ Build(r, TRUE, FALSE)
    /\ UNCHANGED <<spec, status, apiVars, branch, pushVars>>

(* GetUserInfoRemoteTargetsAssociation found targets: never none, and only *)
(* one for a OneTarget syncer.                                             *)
StartPushing(r) ==
    /\ Accepted(r)
    /\ ~request[r].deleting
    /\ \E ts \in (SUBSET Targets) \ {{}} :
          /\ spec.oneTarget => Cardinality(ts) = 1
          /\ targets' = [targets EXCEPT ![r] = ts]
    /\ pc' = [pc EXCEPT ![r] = "clone"]
    /\ UNCHANGED <<spec, status, apiVars, branch, responses, pushing, answer>>

---------------------------------------------------------------------------
(* RunGitPushPipeline: RunGitPipeline for every target, in the order of a  *)
(* Go map, until one fails.                                                *)

Tip(commits) == IF commits = <<>> THEN Absent ELSE Last(commits).content

\* Mutant of GitPushError: the behavior is not looked at.
PassIfCommitApply(r) == Build(r, spec.strategy = "CommitApply", TRUE)

\* The error of a git pipeline ends the whole request.
GitPushError(r) ==
    Build(r, spec.strategy = "CommitApply" /\ spec.pushErrorBehavior = "Pass", TRUE)

(* Commit on a fresh clone; nothing to commit is not an error.             *)
Commit(r, commits) ==
    IF Tip(commits) = request[r].content THEN commits
    ELSE Append(commits, [by |-> r, content |-> request[r].content])

Pushing(t, commits, retries) == [target |-> t, commits |-> commits, retries |-> retries]

Clone(r) ==
    /\ pc[r] = "clone"
    /\ \E t \in Todo(r) :
          pushing' = [pushing EXCEPT ![r] =
                        Pushing(t, Commit(r, branch[t]), spec.pushErrorRetryNumber)]
    /\ pc' = [pc EXCEPT ![r] = "push"]
    /\ UNCHANGED <<spec, status, apiVars, branch, targets, responses, answer>>

(* The clone, the mutation or the commit fails.                            *)
PipelineFails(r) ==
    /\ pc[r] = "clone" /\ "git" \in Faults
    /\ GitPushError(r)
    /\ UNCHANGED <<spec, status, apiVars, branch, pushVars>>

\* Mutant of FastForwards: pushes are forced.
Forced(r) == TRUE

FastForwards(r) == IsPrefix(branch[pushing[r].target], pushing[r].commits)

Published(r) == branch' = [branch EXCEPT ![pushing[r].target] = pushing[r].commits]

\* Mutant of Push: it ends with the first target.
PushFirstTarget(r) ==
    /\ pc[r] = "push"
    /\ FastForwards(r)
    /\ Published(r)
    /\ responses' = [responses EXCEPT ![r][pushing[r].target] = Len(pushing[r].commits)]
    /\ pushing' = [pushing EXCEPT ![r] = NoPush]
    /\ pc' = [pc EXCEPT ![r] = "pushed"]
    /\ UNCHANGED <<spec, status, apiVars, targets, answer>>

(* push succeeds; "already up-to-date" is a success too.                   *)
Push(r) ==
    /\ pc[r] = "push"
    /\ FastForwards(r)
    /\ Published(r)
    /\ responses' = [responses EXCEPT ![r][pushing[r].target] = Len(pushing[r].commits)]
    /\ pushing' = [pushing EXCEPT ![r] = NoPush]
    /\ pc' = [pc EXCEPT ![r] = IF Todo(r) = {pushing[r].target} THEN "pushed" ELSE "clone"]
    /\ UNCHANGED <<spec, status, apiVars, targets, answer>>

\* Mutant of RetryOrGiveUp: the retries are not counted.
RetryForever(r) == UNCHANGED <<pushing, pc, answer>>

\* Mutant of RetryOrGiveUp: one retry too many.
RetryOnceMore(r) ==
    \/ /\ pushing[r].retries >= 0
       /\ pushing' = [pushing EXCEPT ![r] = Pushing(@.target, @.commits, @.retries - 1)]
       /\ UNCHANGED <<pc, answer>>
    \/ /\ pushing[r].retries < 0
       /\ pushing' = [pushing EXCEPT ![r] = NoPush]
       /\ GitPushError(r)

\* Mutant of RetryOrGiveUp: a retry commits again.
RetryCommits(r) ==
    \/ /\ pushing[r].retries > 0
       /\ pushing' = [pushing EXCEPT ![r] =
                Pushing(@.target, Append(@.commits, [by |-> r, content |-> request[r].content]),
                        @.retries - 1)]
       /\ UNCHANGED <<pc, answer>>
    \/ /\ pushing[r].retries <= 0
       /\ pushing' = [pushing EXCEPT ![r] = NoPush]
       /\ GitPushError(r)

\* push returned an error: the loop of Push tries again or gives up.
RetryOrGiveUp(r) ==
    \/ /\ pushing[r].retries > 0
       /\ pushing' = [pushing EXCEPT ![r] = Pushing(@.target, @.commits, @.retries - 1)]
       /\ UNCHANGED <<pc, answer>>
    \/ /\ pushing[r].retries <= 0
       /\ pushing' = [pushing EXCEPT ![r] = NoPush]
       /\ GitPushError(r)

(* push fails: the branch moved since the clone, the server is             *)
(* unreachable, or it took the commit and its answer was lost.             *)
PushFails(r) ==
    /\ pc[r] = "push"
    /\ \/ /\ ~FastForwards(r) \/ "git" \in Faults
          /\ UNCHANGED branch
       \/ /\ FastForwards(r) /\ "lostAnswer" \in Faults
          /\ Published(r)
    /\ RetryOrGiveUp(r)
    /\ UNCHANGED <<spec, status, apiVars, targets, responses>>

---------------------------------------------------------------------------
(* The status of the syncer.  A write re-reads the object and is retried   *)
(* on conflict, so it changes its own field of the current status; the     *)
(* error of the last attempt is only logged.                               *)
updateRemoteSyncerStatus(new) ==
    \/ status' = new
    \/ "status" \in Faults /\ UNCHANGED status

(* All targets are pushed: record it, then answer by the strategy.         *)
RecordPush(r) ==
    /\ pc[r] = "pushed"
    /\ updateRemoteSyncerStatus([status EXCEPT !.pushed = r])
    /\ Build(r, spec.strategy = "CommitApply", FALSE)
    /\ UNCHANGED <<spec, apiVars, branch, pushVars>>

RecordCondition(r) ==
    /\ pc[r] = "condition"
    /\ updateRemoteSyncerStatus(
            [status EXCEPT !.synced = IF answer[r].errored THEN "False" ELSE "True"])
    /\ pc' = [pc EXCEPT ![r] = "observe"]
    /\ UNCHANGED <<spec, apiVars, branch, pushVars, answer>>

RecordObserved(r) ==
    /\ pc[r] = "observe"
    /\ updateRemoteSyncerStatus([status EXCEPT !.observed = r])
    /\ pc' = [pc EXCEPT ![r] = "answered"]
    /\ UNCHANGED <<spec, apiVars, branch, pushVars, answer>>

---------------------------------------------------------------------------
\* The webhook's own steps for r.
Intercept(r) ==
    \/ Bypass(r) \/ Refuse(r) \/ PassDeletion(r) \/ StartPushing(r)
    \/ Clone(r) \/ PipelineFails(r) \/ Push(r) \/ PushFails(r)
    \/ RecordPush(r) \/ RecordCondition(r) \/ RecordObserved(r)

Done == \A r \in Requests : api[r] # "idle" /\ ~InFlight(r)

Next ==
    \/ \E r \in Requests : Submit(r) \/ RejectElsewhere(r) \/ Conclude(r) \/ Intercept(r)
    \/ Done /\ UNCHANGED vars           \* the bound on requests is reached

Spec == Init /\ [][Next]_vars

---------------------------------------------------------------------------
RequestRecords == [user : Users, content : Contents,
                   deleting : BOOLEAN, version : Nat]

TypeOK ==
    /\ spec \in Specs
    /\ status \in [synced : {"Unknown", "True", "False"}, observed : Requests \cup {Nobody},
                   pushed : Requests \cup {Nobody}]
    /\ cluster \in [manifest : Contents, terminating : BOOLEAN, version : Nat]
    /\ branch \in [Targets -> Seq([by : Requests, content : Contents])]
    /\ request \in [Requests -> RequestRecords \cup {NoRequest}]
    /\ api \in [Requests -> {"idle", "calling", "stored", "rejected"}]
    /\ pc \in [Requests -> {"idle", "review", "clone", "push", "pushed", "condition",
                            "observe", "answered"}]
    /\ targets \in [Requests -> SUBSET Targets]
    /\ responses \in [Requests -> [Targets -> Nat \cup {NoHash}]]
    /\ pushing \in [Requests -> [target : Targets,
                                 retries : Nat \cup {spec.pushErrorRetryNumber},
                                 commits : Seq([by : Requests, content : Contents])]
                                \cup {NoPush}]
    /\ answer \in [Requests -> [allowed : BOOLEAN, errored : BOOLEAN]]

\* Every target of r has, at the commit its response names, what r asks for.
PushedToAll(r) ==
    /\ targets[r] # {}
    /\ \A t \in targets[r] :
          /\ responses[r][t] \in 0 .. Len(branch[t])
          /\ Tip(SubSeq(branch[t], 1, responses[r][t])) = request[r].content

\* Requests git is not supposed to see.
SkipsGit(r) == Bypasses(r) \/ request[r].deleting

(* README.md:148, "If, for any reason, the resource has not been pushed,   *)
(* the resource will not be applied": nothing an ordinary user had stored  *)
(* is missing from the branch of a target it was to be pushed to, whatever *)
(* failed, timed out or was retried; only Pass gives that up.  And under   *)
(* CommitOnly, which is "only committed and blocked to the Kubernetes API" *)
(* (remotesyncer_types.go:49), nothing is stored, under Pass neither.      *)
AppliedWasPushed ==
    \A r \in Requests :
        api[r] = "stored" /\ ~SkipsGit(r) =>
            /\ spec.strategy = "CommitApply"
            /\ spec.pushErrorBehavior = "Pass" \/ PushedToAll(r)

(* A request is committed at most once per branch, although a push whose   *)
(* answer was lost is sent again (Push).                                   *)
CommittedOnce ==
    \A t \in Targets : \A i, j \in DOMAIN branch[t] :
        branch[t][i].by = branch[t][j].by => i = j

(* lastPushedObjectState names a request all of whose targets were pushed  *)
(* to, in the middle of other requests' failures too.                      *)
PushedStatusIsTrue ==
    status.pushed # Nobody => PushedToAll(status.pushed)

(* A call of the webhook is answered, after as many retries as the spec    *)
(* allows, if the git and API calls made for it return.  Nothing in the    *)
(* code makes them return (pushOptions and the clone have no context with  *)
(* a deadline), so the premise is part of the statement, and of this       *)
(* request alone: calls made for other requests may hang for ever.         *)
EveryCallAnswered ==
    \A r \in Requests : WF_vars(Intercept(r)) => (pc[r] = "review" ~> pc[r] = "answered")

(* README.md:144, in CommitApply mode "the automatic reconciliation will   *)
(* not have any effect since the changes made on the cluster are pushed":  *)
(* once all requests are through, git has what the cluster has -- if they  *)
(* come one at a time and nothing rejects a request once it is pushed.     *)
GitMatchesCluster ==
    (\A r \in Requests : ~InFlight(r)) =>
        \A t \in Targets : Tip(branch[t]) = IF cluster.terminating THEN Absent ELSE cluster.manifest
=============================================================================
