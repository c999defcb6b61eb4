----------------------------- MODULE Admission -----------------------------
(***************************************************************************)
(* The admission webhooks of syngit's own objects, as functions of the     *)
(* request: the reference sites of each kind and how their namespaces      *)
(* resolve, the access reviews made for them, the validators of the        *)
(* syncers, the webhook that stamps managed RemoteUsers, and the           *)
(* conversion of RemoteSyncers written through the older API version.      *)
(*                                                                         *)
(* Namespaces are strings; the empty one is the unset namespace of a       *)
(* reference, the namespace of a cluster-scoped object, and every          *)
(* namespace in an access review.  A reference with an empty name is       *)
(* unset, None is a nil pointer.                                           *)
(***************************************************************************)
EXTENDS Naturals, Sequences, SequencesExt

CONSTANTS
  SystemUsers,        \* system:masters, and the service accounts of each namespace
                      \* whose name starts with the manager's
  GitURIs,            \* repositories with a valid git URI
  YAMLPaths,          \* excluded fields that are valid YAML paths
  UnknownResources,   \* scoped resources the API server has no kind for
  None

NoRef == [ns |-> "", name |-> ""]

(***************************************************************************)
(* References.                                                             *)
(***************************************************************************)
\* An unset namespace falls back to the owner's.  A cluster-scoped owner has
\* none: the result is then empty, which stands for MissingRefNamespace.
ResolveNamespace(refNs, ownerNs) == IF refNs # "" THEN refNs ELSE ownerNs

IsSet(r) == r # None /\ r.name # ""

Collect(kind, rs, ownerNs) ==
  {[kind |-> kind, ns |-> ResolveNamespace(r.ns, ownerNs), name |-> r.name] :
     r \in {x \in rs : IsSet(x)}}

RemoteSyncerRefs(spec, ownerNs) ==
  Collect("RemoteUser", {spec.defaultRemoteUserRef}, ownerNs)
    \cup Collect("RemoteTarget", {spec.defaultRemoteTargetRef}, ownerNs)
    \cup Collect("ConfigMap", ToSet(spec.excludedFieldsConfigMapsRef), ownerNs)
    \cup Collect("Secret", {spec.caBundleSecretRef, spec.sopsSecretRef}, ownerNs)

RemoteUserRefs(spec, ownerNs) == Collect("Secret", {spec.secretRef}, ownerNs)

RemoteUserBindingRefs(spec, ownerNs) ==
  Collect("RemoteUser", spec.remoteUserRefs, ownerNs)
    \cup Collect("RemoteTarget", spec.remoteTargetRefs, ownerNs)

MissingRefNamespace(rs) == \E r \in rs : r.ns = ""

(***************************************************************************)
(* Access reviews.  rights is a set of <<user, verb, namespace, what>>.    *)
(***************************************************************************)
CheckAccess(rights, user, verb, ns, what) ==
  \/ <<user, verb, ns, what>> \in rights
  \/ <<user, verb, "", what>> \in rights

AuthorizeRefs(rights, user, rs) ==
  \A r \in rs : CheckAccess(rights, user, "get", r.ns, <<r.kind, r.name>>)

AuthorizeCrossNamespaceRefs(rights, user, rs, ownerNs, exempt) ==
  AuthorizeRefs(rights, user, {r \in rs : r.ns # ownerNs /\ r.ns \notin exempt})

\* Unsupported operations have no verb and are skipped.
OperationToVerb(op) ==
  CASE op = "CREATE"  -> {"create"}
    [] op = "DELETE"  -> {"delete"}
    [] op = "UPDATE"  -> {"update", "patch"}
    [] op = "CONNECT" -> {"connect"}
    [] OTHER          -> {}

isOperationAllowed(rights, user, nss, resource, verbs) ==
  \/ resource \in UnknownResources
  \/ \A ns \in nss : \E v \in verbs : CheckAccess(rights, user, v, ns, resource)

hasRightResourcesPermissions(rights, user, rules, nss) ==
  \A rule \in rules : \A op \in {x \in rule.operations : OperationToVerb(x) # {}} :
    isOperationAllowed(rights, user, nss, rule.resource, OperationToVerb(op))

(***************************************************************************)
(* The two kinds of syncers.                                               *)
(***************************************************************************)
IdentityNamespace(x, spec) ==
  IF x.kind = "RemoteSyncer" THEN x.ns ELSE spec.identityStoreNamespace

\* Mutant of selectedNamespaces: an unset selector selects what it lists.
NothingWhenUnset(spec, labelled) ==
  IF spec.namespaceSelector = "empty" THEN {""} ELSE labelled

\* An unset or empty selector reviews all namespaces at once; another one the
\* namespaces that carry the label now.
selectedNamespaces(spec, labelled) ==
  IF spec.namespaceSelector \in {"unset", "empty"} THEN {""} ELSE labelled

authorizeSyncer(rights, user, x, spec, nss) ==
  LET own == x.ns
      rs  == RemoteSyncerRefs(spec, own)
      identity == IdentityNamespace(x, spec)
  IN /\ hasRightResourcesPermissions(rights, user, spec.rules, nss)
     /\ identity # own => CheckAccess(rights, user, "list", identity, "remoteuserbindings")
     /\ ~MissingRefNamespace(rs)
     /\ AuthorizeCrossNamespaceRefs(rights, user, rs, own, {})

HandleRemoteSyncer(rights, user, x, spec) ==
  \/ user \in SystemUsers
  \/ authorizeSyncer(rights, user, x, spec, {x.ns})

HandleClusterWideRemoteSyncer(rights, user, x, spec, labelled) ==
  \/ user \in SystemUsers
  \/ /\ spec.namespaceSelector # "malformed"
     /\ authorizeSyncer(rights, user, x, spec, selectedNamespaces(spec, labelled))

validateRemoteSyncerSpec(spec) ==
  LET mode == spec.defaultUnauthorizedUserMode
      hasUser   == spec.defaultRemoteUserRef # None
      hasTarget == spec.defaultRemoteTargetRef # None
  IN /\ mode = "Block" => ~hasUser
     /\ mode = "UseDefaultUser" => hasUser
     /\ hasUser = hasTarget
     /\ spec.defaultBlockAppliedMessage # "" => spec.strategy = "CommitOnly"
     /\ spec.strategy \in {"CommitOnly", "CommitApply"}
     /\ spec.remoteRepository \in GitURIs
     /\ spec.excludedFields \subseteq YAMLPaths
     /\ mode # "Block" => spec.defaultBranch # ""

validateSyncer(spec) ==
  /\ validateRemoteSyncerSpec(spec)
  /\ spec.userSpecific \in {"", "one-user-one-branch", "one-user-one-fork"}

\* Mutant of validateClusterWideRemoteSyncer: the references are not looked at.
ValidatedLikeNamespaced(spec) ==
  validateSyncer(spec) /\ spec.identityStoreNamespace # ""
    /\ spec.namespaceSelector # "malformed"

validateClusterWideRemoteSyncer(spec) ==
  /\ validateSyncer(spec)
  /\ ~MissingRefNamespace(RemoteSyncerRefs(spec, ""))
  /\ spec.identityStoreNamespace # ""
  /\ spec.namespaceSelector # "malformed"

\* A merge strategy is set exactly when target and upstream differ.
validateRemoteTargetSpec(spec) ==
  LET same == /\ spec.upstreamBranch = spec.targetBranch
              /\ spec.upstreamRepository = spec.targetRepository
  IN same <=> spec.mergeStrategy = ""

(***************************************************************************)
(* RemoteUsers and bindings.                                               *)
(***************************************************************************)
\* The label holds a hash of the user's name.
Sanitize(user) == [sha256 |-> user]

\* The mutating webhook of RemoteUsers: a managed one belongs to the user of
\* its label, and is stamped with whoever writes it; what system users change
\* is let through as it is.
MayWriteRemoteUser(user, old) ==
  \/ old = None
  \/ user \in SystemUsers
  \/ old # None /\ (old.managed => old.k8sUser = Sanitize(user))

\* Mutants of StampRemoteUser: only creations are stamped; the label holds the
\* hash of an empty name.
StampOnCreation(user, old, new) ==
  IF new # None /\ new.managed /\ old = None
    THEN [new EXCEPT !.k8sUser = Sanitize(user)] ELSE new
StampNobody(user, old, new) ==
  IF new # None /\ new.managed THEN [new EXCEPT !.k8sUser = Sanitize("")] ELSE new

StampRemoteUser(user, old, new) ==
  IF new # None /\ new.managed /\ (old = None \/ user \notin SystemUsers)
    THEN [new EXCEPT !.k8sUser = Sanitize(user)]
    ELSE new

\* The Secret of a RemoteUser, and what a binding refers to, are reviewed
\* wherever they are, in the object's own namespace too, and on deletion.
HandleRemoteUserPermissions(rights, user, x, spec) ==
  LET rs == RemoteUserRefs(spec, x.ns)
  IN ~MissingRefNamespace(rs) /\ AuthorizeRefs(rights, user, rs)

\* Mutant of HandleRemoteUserBindingPermissions: the binding's own namespace
\* is not reviewed.
ReviewOtherNamespaces(rights, user, x, spec) ==
  AuthorizeCrossNamespaceRefs(rights, user, RemoteUserBindingRefs(spec, x.ns), x.ns, {})

HandleRemoteUserBindingPermissions(rights, user, x, spec) ==
  LET rs == RemoteUserBindingRefs(spec, x.ns)
  IN ~MissingRefNamespace(rs) /\ AuthorizeRefs(rights, user, rs)

(***************************************************************************)
(* RemoteSyncers of API version v1beta4, and the stored version.           *)
(***************************************************************************)
ConvertFrom(spec) ==
  [f \in DOMAIN spec \ {"bypassAllServiceAccounts", "sopsSecretRef"} |->
     IF f # "excludedFieldsConfigMapsRef" THEN spec[f]
     ELSE IF spec[f] = <<>> THEN None ELSE spec[f][1]]

ConvertTo(spec) ==
  [f \in DOMAIN spec \cup {"bypassAllServiceAccounts", "sopsSecretRef"} |->
     CASE f = "bypassAllServiceAccounts"    -> FALSE
       [] f = "sopsSecretRef"               -> NoRef
       [] f = "excludedFieldsConfigMapsRef" -> <<spec[f]>>
       [] OTHER                             -> spec[f]]

=============================================================================
