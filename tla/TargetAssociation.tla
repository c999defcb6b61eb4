------------------------- MODULE TargetAssociation -------------------------
(***************************************************************************)
(* Whose credentials an intercepted change is pushed with, and where to:   *)
(* the objects that decide it are written by users through the admission   *)
(* webhooks, and an interception reads them one after the other from the   *)
(* manager's caches, which follow the writes with a delay.                 *)
(***************************************************************************)
EXTENDS Admission, FiniteSets

CONSTANTS
  Users,               \* Kubernetes users, the system users among them
  Namespaces, ManagerNamespace,
  Ids,                 \* the objects: [kind, ns, name]
  Candidates,          \* what users may write into each of them
  InitialObjects,      \* the objects before any request
  Rights,              \* what an administrator may grant or revoke
  InitialRights,
  HostOf,              \* the host of a repository
  MaxChanges

SyncerKinds == {"RemoteSyncer", "ClusterWideRemoteSyncer"}
OfKind(k) == {x \in Ids : x.kind = k}

\* What is kept of the spec of a syncer, and of a RemoteUser and its labels.
RemoteSyncerFields ==
  {"remoteRepository", "defaultBranch", "targetStrategy", "strategy",
   "defaultBlockAppliedMessage", "excludedFields", "rules", "userSpecific",
   "remoteTargetSelector", "remoteUserBindingSelector", "defaultUnauthorizedUserMode",
   "defaultRemoteUserRef", "defaultRemoteTargetRef", "excludedFieldsConfigMapsRef",
   "caBundleSecretRef", "sopsSecretRef", "bypassAllServiceAccounts"}

SyncerFields(x) ==
  IF x.kind = "RemoteSyncer" THEN RemoteSyncerFields
  ELSE RemoteSyncerFields \cup {"namespaceSelector", "identityStoreNamespace"}

RemoteUserFields == {"managed", "k8sUser", "secretRef", "gitBaseDomainFQDN"}

ASSUME AssociationAssumption ==
  /\ SystemUsers \subseteq Users
  /\ None \notin Users
  /\ "" \notin Namespaces /\ ManagerNamespace \in Namespaces
  /\ \A x \in Ids : x.kind = "ClusterWideRemoteSyncer" <=> x.ns = ""
  /\ Candidates \in [Ids -> SUBSET UNION {Candidates[x] : x \in Ids}]
  /\ \A k \in SyncerKinds : \A x \in OfKind(k) :
       \A o \in Candidates[x] : DOMAIN o = SyncerFields(x)
  /\ \A x \in OfKind("RemoteUser") : \A o \in Candidates[x] :
       /\ DOMAIN o = RemoteUserFields
       /\ o.k8sUser \in {Sanitize(u) : u \in Users} \cup {None}
  /\ \A x \in OfKind("RemoteUserBinding") : \A o \in Candidates[x] : IsFiniteSet(o.remoteUserRefs)
  /\ IsFiniteSet(Ids) /\ \A x \in Ids : None \notin Candidates[x]
  /\ InitialObjects \in [Ids -> UNION {Candidates[x] : x \in Ids} \cup {None}]
  /\ \A x \in Ids : InitialObjects[x] \in Candidates[x] \cup {None}
  /\ InitialRights \subseteq Rights
  /\ MaxChanges \in Nat

VARIABLES
  objs,      \* the stored objects
  cached,    \* the objects as the manager's caches show them, and the syncers
             \* as they are registered with the interception server
  rights,    \* what the users may do
  labelled,  \* the namespaces that carry the label of the selector, as the
             \* manager's cache shows them
  changes,
  call,      \* the interception under way, or what came of it
  author,    \* who wrote an object last
  vouched    \* the references of an object that its author could get

vars == <<objs, cached, rights, labelled, changes, call, author, vouched>>
cluster == <<objs, cached, rights, labelled, changes, author, vouched>>

Get(kind, ns, name) ==
  LET x == [kind |-> kind, ns |-> ns, name |-> name]
  IN IF x \in Ids THEN cached[x] ELSE None

RefsOf(x, o) ==
  CASE o = None -> {}
    [] o # None /\ x.kind = "RemoteUser" -> RemoteUserRefs(o, x.ns)
    [] o # None /\ x.kind = "RemoteUserBinding" -> RemoteUserBindingRefs(o, x.ns)
    [] o # None /\ x.kind \in SyncerKinds -> RemoteSyncerRefs(o, x.ns)
    [] OTHER -> {}

(***************************************************************************)
(* Writes.  On a deletion the webhooks review the object that is deleted;  *)
(* the validators are called for creations and updates only.               *)
(***************************************************************************)
Validated(x, o) ==
  CASE x.kind = "RemoteSyncer"            -> validateSyncer(o)
    [] x.kind = "ClusterWideRemoteSyncer" -> validateClusterWideRemoteSyncer(o)
    [] x.kind = "RemoteTarget"            -> validateRemoteTargetSpec(o)
    [] OTHER                              -> TRUE

\* The store of a running cluster holds what admission lets through.
ASSUME StoredWasAdmitted ==
  \A x \in Ids : InitialObjects[x] # None => Validated(x, InitialObjects[x])

Permitted(user, x, old, o) ==
  CASE x.kind = "RemoteUser" ->
         /\ MayWriteRemoteUser(user, old)
         /\ HandleRemoteUserPermissions(rights, user, x, o)
    [] x.kind = "RemoteUserBinding" ->
         HandleRemoteUserBindingPermissions(rights, user, x, o)
    [] x.kind = "RemoteSyncer" ->
         HandleRemoteSyncer(rights, user, x, o)
    [] x.kind = "ClusterWideRemoteSyncer" ->
         HandleClusterWideRemoteSyncer(rights, user, x, o, labelled)
    [] OTHER -> TRUE

\* The bindings of the user where the syncer looks for them.
MatchingBindings(c, os) ==
  {b \in OfKind("RemoteUserBinding") :
     /\ os[b] # None
     /\ b.ns = IdentityNamespace(c.syncer, c.spec)
     /\ c.spec.remoteUserBindingSelector => os[b].labelled
     /\ os[b].subject = c.user}

\* History of a call: whether the caches have changed since it began, and
\* whether they showed no binding of the user at some time before it ended.
Disturb(os) ==
  call' = CASE call.pc = "idle" -> call
            [] call.pc = "end"  -> [call EXCEPT !.quiet = FALSE]
            [] OTHER -> [call EXCEPT !.quiet = FALSE,
                                     !.unbound = @ \/ MatchingBindings(call, os) = {}]

Write(user, x, sent) ==
  LET old == objs[x]
      new == IF x.kind = "RemoteUser" THEN StampRemoteUser(user, old, sent) ELSE sent
      reviewed == IF new = None THEN old ELSE new
  IN /\ changes < MaxChanges
     /\ new # old
     /\ Permitted(user, x, old, reviewed)
     /\ new # None => Validated(x, new)
     /\ objs' = [objs EXCEPT ![x] = new]
     /\ author' = [author EXCEPT ![x] = user]
     /\ vouched' = [vouched EXCEPT ![x] =
          {r \in RefsOf(x, new) : CheckAccess(rights, user, "get", r.ns, <<r.kind, r.name>>)}]
     /\ changes' = changes + 1
     /\ UNCHANGED <<cached, rights, labelled, call>>

Apply(user, x) == \E new \in Candidates[x] : Write(user, x, new)

Delete(user, x) == objs[x] # None /\ Write(user, x, None)

\* A client of the older API version reads and writes the object through the
\* conversion.
ApplyV1beta4(user, x) ==
  /\ x.kind = "RemoteSyncer"
  /\ \E new \in Candidates[x] \cup {objs[x]} :
       new # None /\ Write(user, x, ConvertTo(ConvertFrom(new)))

ChangeRights ==
  /\ changes < MaxChanges
  /\ \E r \in Rights : rights' = IF r \in rights THEN rights \ {r} ELSE rights \cup {r}
  /\ changes' = changes + 1
  /\ UNCHANGED <<objs, cached, labelled, call, author, vouched>>

LabelNamespace ==
  /\ changes < MaxChanges
  /\ \E n \in Namespaces : labelled' = IF n \in labelled THEN labelled \ {n} ELSE labelled \cup {n}
  /\ changes' = changes + 1
  /\ UNCHANGED <<objs, cached, rights, call, author, vouched>>

\* The informer of a kind catches up with the store.  Nothing that reads a
\* cache reads the store too, so a cache that is at an earlier version is
\* one that caught up before the later writes.
Observe(kind) ==
  /\ \E x \in OfKind(kind) : cached[x] # objs[x]
  /\ cached' = [x \in Ids |-> IF x.kind = kind THEN objs[x] ELSE cached[x]]
  /\ Disturb(cached')
  /\ UNCHANGED <<objs, rights, labelled, changes, author, vouched>>

(***************************************************************************)
(* The interception.  Each list, and each run of gets of one kind, is a    *)
(* step: the caches may change in between.                                 *)
(***************************************************************************)
NoPush == {}

Idle == [pc |-> "idle", user |-> None, syncer |-> None, spec |-> None, bindings |-> {},
         targets |-> {}, users |-> {}, pushes |-> NoPush, error |-> "", byDefault |-> FALSE,
         quiet |-> TRUE, unbound |-> FALSE]

\* The end of a call: what it read is forgotten.
End(error, pushes) ==
  call' = [call EXCEPT !.pc = "end", !.error = error, !.pushes = pushes,
                       !.bindings = {}, !.targets = {}, !.users = {}]

Fails(error) == End(error, NoPush)

Goto(pc) == call' = [call EXCEPT !.pc = pc]

RefOwnerNamespace == call.syncer.ns
RUBNamespace == IdentityNamespace(call.syncer, call.spec)

Host(c) == HostOf[c.spec.remoteRepository]

\* The token of a RemoteUser, empty when the Secret is missing or has none.
Token(x, ru) ==
  LET s == Get("Secret", ResolveNamespace(ru.secretRef.ns, x.ns), ru.secretRef.name)
  IN IF s = None THEN "" ELSE s.token

\* The author of the change must be allowed to get what the syncer refers to
\* in other namespaces than its own and the manager's.
Begin(user, s) ==
  LET o  == cached[s]
      rs == RemoteSyncerRefs(o, s.ns)
      c  == [Idle EXCEPT !.pc = "list", !.user = user, !.syncer = s, !.spec = o]
      error == IF MissingRefNamespace(rs) THEN "MissingRefNamespace"
               ELSE IF AuthorizeCrossNamespaceRefs(rights, user, rs, s.ns, {ManagerNamespace})
               THEN "" ELSE "CrossNamespaceRefDenied"
  IN /\ call.pc = "idle"
     /\ o # None
     /\ call' = [c EXCEPT !.pc = IF error = "" THEN "list" ELSE "end",
                          !.error = error, !.unbound = MatchingBindings(c, cached) = {}]
     /\ UNCHANGED cluster

\* The references of a list that exist: a reference that does not is skipped.
Resolved(kind, refs, ns) ==
  {[ref |-> r, id |-> [kind |-> kind, ns |-> ResolveNamespace(r.ns, ns), name |-> r.name],
    obj |-> Get(kind, ResolveNamespace(r.ns, ns), r.name)] :
     r \in {x \in refs : IsSet(x) /\ Get(kind, ResolveNamespace(x.ns, ns), x.name) # None}}

\* Mutant of BindingErrors: several RemoteUsers for the host are accepted.
AnyRemoteUser(b) ==
  LET rus == {u \in Resolved("RemoteUser", b.obj.remoteUserRefs, b.id.ns) :
                u.obj.gitBaseDomainFQDN = Host(call)}
  IN IF \E u \in rus : Token(u.id, u.obj) = "" THEN {"CredentialsNotFound"}
     ELSE IF rus = {} THEN {"RemoteUserNotFound"} ELSE {}

\* Every binding of the user must name one RemoteUser for the host, with
\* credentials.
BindingErrors(b) ==
  LET rus == {u \in Resolved("RemoteUser", b.obj.remoteUserRefs, b.id.ns) :
                u.obj.gitBaseDomainFQDN = Host(call)}
  IN IF \E u \in rus : Token(u.id, u.obj) = "" THEN {"CredentialsNotFound"}
     ELSE IF rus = {} THEN {"RemoteUserNotFound"}
     ELSE IF Cardinality(rus) > 1 THEN {"TooMuchRemoteUser"} ELSE {}

\* Mutant of ListBindings: bindings that cannot be used are left out.
ListUsableBindings ==
  /\ call.pc = "list"
  /\ call' = [call EXCEPT !.pc = "check", !.bindings =
       {b \in {[id |-> x, obj |-> cached[x]] : x \in MatchingBindings(call, cached)} :
          BindingErrors(b) = {}}]
  /\ UNCHANGED cluster

ListBindings ==
  /\ call.pc = "list"
  /\ call' = [call EXCEPT !.pc = "check", !.bindings =
       {[id |-> b, obj |-> cached[b]] : b \in MatchingBindings(call, cached)}]
  /\ UNCHANGED cluster

HasDefaultUser(spec) ==
  spec.defaultUnauthorizedUserMode = "UseDefaultUser" /\ IsSet(spec.defaultRemoteUserRef)

CheckBindings ==
  LET errors == UNION {BindingErrors(b) : b \in call.bindings}
  IN /\ call.pc = "check"
     /\ \/ \E e \in errors : Fails(e)
        \/ /\ errors = {}
           /\ \/ Cardinality(call.bindings) > 1 /\ Fails("TooMuchRemoteUserBinding")
              \/ Cardinality(call.bindings) = 1 /\ Goto("binding")
              \/ /\ call.bindings = {} /\ ~HasDefaultUser(call.spec)
                 /\ Fails("RemoteUserBindingNotFound")
              \/ call.bindings = {} /\ HasDefaultUser(call.spec) /\ Goto("defaultUser")
     /\ UNCHANGED cluster

\* The binding is read again by its name.
GetBinding ==
  LET b == CHOOSE x \in call.bindings : TRUE
  IN /\ call.pc = "binding"
     /\ \/ cached[b.id] = None /\ Fails("NotFound")
        \/ /\ cached[b.id] # None
           /\ call' = [call EXCEPT !.pc = "targets",
                                   !.bindings = {[id |-> b.id, obj |-> cached[b.id]]}]
     /\ UNCHANGED cluster

ResolveTargets ==
  LET b == CHOOSE x \in call.bindings : TRUE
  IN /\ call.pc = "targets"
     /\ call' = [call EXCEPT !.pc = "users",
                   !.targets = Resolved("RemoteTarget", b.obj.remoteTargetRefs, b.id.ns)]
     /\ UNCHANGED cluster

ResolveUsers ==
  LET b == CHOOSE x \in call.bindings : TRUE
  IN /\ call.pc = "users"
     /\ call' = [call EXCEPT !.pc = "associate",
                   !.users = Resolved("RemoteUser", b.obj.remoteUserRefs, b.id.ns)]
     /\ UNCHANGED cluster

OfUpstream(c, t) ==
  /\ t.upstreamRepository = c.spec.remoteRepository
  /\ t.upstreamBranch = c.spec.defaultBranch

\* Every target of the upstream with every RemoteUser of the target's host.
Pairs(c, ts, us) ==
  {p \in ts \X us :
     /\ c.spec.remoteTargetSelector => p[1].obj.labelled
     /\ OfUpstream(c, p[1].obj)
     /\ HostOf[p[1].obj.targetRepository] = p[2].obj.gitBaseDomainFQDN}

Push(t, u) == [target |-> t, user |-> u, token |-> Token(u.id, u.obj)]

Associate ==
  LET pushes == {Push(p[1], p[2]) : p \in Pairs(call, call.targets, call.users)}
  IN /\ call.pc = "associate"
     /\ \/ (\E p \in pushes : p.token = "") /\ Fails("CredentialsNotFound")
        \/ /\ \A p \in pushes : p.token # ""
           /\ \/ /\ call.spec.targetStrategy = "OneTarget" /\ Cardinality(pushes) > 1
                 /\ Fails("TooMuchRemoteTarget")
              \/ pushes = {} /\ Fails("RemoteTargetNotFound")
              \/ /\ pushes # {}
                 /\ call.spec.targetStrategy = "OneTarget" => Cardinality(pushes) = 1
                 /\ End("", pushes)
     /\ UNCHANGED cluster

\* Nobody is bound to the user: the syncer's default user and target.
GetDefaultUser ==
  LET r  == call.spec.defaultRemoteUserRef
      us == Resolved("RemoteUser", {r}, RefOwnerNamespace)
  IN /\ call.pc = "defaultUser"
     /\ \/ us = {} /\ Fails("RemoteUserNotFound")
        \/ \E u \in us :
             \/ u.obj.gitBaseDomainFQDN # Host(call) /\ Fails("WrongRemoteTargetConfig")
             \/ /\ u.obj.gitBaseDomainFQDN = Host(call) /\ Token(u.id, u.obj) = ""
                /\ Fails("CredentialsNotFound")
             \/ /\ u.obj.gitBaseDomainFQDN = Host(call) /\ Token(u.id, u.obj) # ""
                /\ call' = [call EXCEPT !.pc = "defaultTarget", !.byDefault = TRUE,
                                        !.users = {Push(None, u)}]
     /\ UNCHANGED cluster

GetDefaultTarget ==
  LET r  == call.spec.defaultRemoteTargetRef
      ts == IF r = None THEN {} ELSE Resolved("RemoteTarget", {r}, RefOwnerNamespace)
      p  == CHOOSE x \in call.users : TRUE
  IN /\ call.pc = "defaultTarget"
     /\ \/ ts = {} /\ Fails("RemoteTargetNotFound")
        \/ \E t \in ts :
             \/ ~OfUpstream(call, t.obj) /\ Fails("WrongRemoteSyncerConfig")
             \/ OfUpstream(call, t.obj) /\ End("", {[p EXCEPT !.target = t]})
     /\ UNCHANGED cluster

Init ==
  /\ objs = InitialObjects /\ cached = InitialObjects
  /\ rights = InitialRights
  /\ labelled = {}
  /\ changes = 0
  /\ call = Idle
  /\ author = [x \in Ids |-> None]
  /\ vouched = [x \in Ids |-> RefsOf(x, InitialObjects[x])]

Intercept ==
  \/ \E u \in Users, k \in SyncerKinds : \E s \in OfKind(k) : Begin(u, s)
  \/ ListBindings \/ CheckBindings \/ GetBinding
  \/ ResolveTargets \/ ResolveUsers \/ Associate
  \/ GetDefaultUser \/ GetDefaultTarget

Next ==
  \/ \E u \in Users, x \in Ids : Apply(u, x) \/ Delete(u, x) \/ ApplyV1beta4(u, x)
  \/ ChangeRights \/ LabelNamespace
  \/ \E x \in Ids : Observe(x.kind)
  \/ Intercept

Spec == Init /\ [][Next]_vars

(***************************************************************************)
(* Properties.                                                             *)
(***************************************************************************)
\* The shape of the state: stamps are hashes of user names, a syncer keeps its
\* fields through conversions, the history variables range over what exists.
TypeOK ==
  /\ \A x \in OfKind("RemoteUser") :
       objs[x] # None => objs[x].k8sUser \in {Sanitize(u) : u \in Users} \cup {None}
  /\ \A k \in SyncerKinds : \A x \in OfKind(k) :
       objs[x] # None => DOMAIN objs[x] = SyncerFields(x)
  /\ rights \subseteq Rights
  /\ labelled \subseteq Namespaces
  /\ changes \in 0 .. MaxChanges
  /\ author \in [Ids -> Users \cup {None}]
  /\ \A x \in Ids : vouched[x] \subseteq RefsOf(x, objs[x])
  /\ DOMAIN call = DOMAIN Idle

\* Whatever is stored, its author could get what it refers to when it was
\* written: bindings and RemoteUsers for all of their references, syncers of
\* ordinary users for those outside of their own namespace.
ReferencesVouched ==
  \A x \in Ids :
    LET rs == RefsOf(x, objs[x])
    IN IF x.kind \in SyncerKinds
         THEN author[x] \in SystemUsers \/ {r \in rs : r.ns # x.ns} \subseteq vouched[x]
         ELSE rs \subseteq vouched[x]

\* A managed RemoteUser is changed or deleted only by the user it is stamped
\* with, or by a system user; and whoever else leaves a managed RemoteUser
\* behind is the one it is stamped with.
OwnRemoteUsers ==
  [][\A x \in OfKind("RemoteUser") : objs'[x] # objs[x] =>
       LET ordinary == author'[x] \notin SystemUsers
           stamp    == Sanitize(author'[x])
       IN /\ ordinary /\ objs[x] # None => (objs[x].managed => objs[x].k8sUser = stamp)
          /\ ordinary /\ objs'[x] # None => (objs'[x].managed => objs'[x].k8sUser = stamp)]_vars

Intercepted(x, o) ==
  IF x.kind = "RemoteSyncer" THEN {x.ns}
  ELSE IF o.namespaceSelector \in {"unset", "empty"} THEN Namespaces ELSE labelled

\* An ordinary user who writes a syncer holds, in every namespace that it
\* intercepts at that time, one of the verbs of each scoped operation.
ScopedWithinReach ==
  [][\A k \in SyncerKinds : \A x \in OfKind(k) :
       objs'[x] \notin {objs[x], None} /\ author'[x] \notin SystemUsers =>
         \A n \in Intercepted(x, objs'[x]), rule \in objs'[x].rules :
           \A op \in {o \in rule.operations : OperationToVerb(o) # {}} :
             \/ rule.resource \in UnknownResources
             \/ \E v \in OperationToVerb(op) : CheckAccess(rights, author'[x], v, n, rule.resource)]_vars

\* No interception fails because a reference of an admitted syncer carries no
\* namespace and has none to fall back to.
AdmittedResolves == call.error # "MissingRefNamespace"

\* A change is pushed under the default identity of the syncer only if, at
\* some time during the call, the manager's cache showed no binding of the
\* user: a binding that is there and cannot be used is an error, not a
\* fallback.  (One that has not reached the cache is not there.)
BoundNeverDefault == call.pc = "end" /\ call.byDefault => call.unbound

\* What the cached objects, taken together, say a call must do.
UserBindings == {[id |-> b, obj |-> cached[b]] : b \in MatchingBindings(call, cached)}

ExpectedPairs ==
  LET b == CHOOSE x \in UserBindings : TRUE
  IN Pairs(call, Resolved("RemoteTarget", b.obj.remoteTargetRefs, b.id.ns),
                 Resolved("RemoteUser", b.obj.remoteUserRefs, b.id.ns))

ExpectedDefault ==
  {p \in Resolved("RemoteTarget", {call.spec.defaultRemoteTargetRef}, RefOwnerNamespace)
        \X Resolved("RemoteUser", {call.spec.defaultRemoteUserRef}, RefOwnerNamespace) :
     OfUpstream(call, p[1].obj) /\ p[2].obj.gitBaseDomainFQDN = Host(call)}

\* A call during which no cache changes pushes to every target that the user's
\* only binding and the syncer's upstream select, with the one identity the
\* binding has for the target's host, and to one target when the syncer asks
\* for it; or, for a user without a binding, to the syncer's default.  A call
\* that fails pushes nothing.
AssociationExact ==
  call.pc = "end" =>
    /\ call.error = "" <=> call.pushes # {}
    /\ call.quiet /\ call.error = "" =>
         /\ Cardinality(UserBindings) <= 1
         /\ {<<p.target, p.user>> : p \in call.pushes} =
              IF UserBindings = {} THEN ExpectedDefault ELSE ExpectedPairs
         /\ call.spec.targetStrategy = "OneTarget" => Cardinality(call.pushes) = 1
         /\ \A p, q \in call.pushes :
              HostOf[p.target.obj.targetRepository] = Host(call) /\ p.target = q.target => p = q
    /\ \A p \in call.pushes : p.token # "" /\ OfUpstream(call, p.target.obj)

=============================================================================
