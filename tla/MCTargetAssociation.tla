------------------------ MODULE MCTargetAssociation ------------------------
(* An instance of TargetAssociation: one identity namespace with a         *)
(* RemoteUser, a target, two bindings and a RemoteSyncer, another          *)
(* namespace with what is referred to across namespaces, and a             *)
(* ClusterWideRemoteSyncer.                                                *)
EXTENDS TargetAssociation, TLC

Id(k, n, name) == [kind |-> k, ns |-> n, name |-> name]
Ref(n, name) == [ns |-> n, name |-> name]

secret == Id("Secret", "n1", "s")
ru  == Id("RemoteUser", "n1", "r")
ru2 == Id("RemoteUser", "n2", "r")
rt  == Id("RemoteTarget", "n1", "t")
rub  == Id("RemoteUserBinding", "n1", "b")
rub2 == Id("RemoteUserBinding", "n1", "b2")
rs  == Id("RemoteSyncer", "n1", "rs")
cw  == Id("ClusterWideRemoteSyncer", "", "cw")

MCIds == {secret, ru, ru2, rt, rub, rub2, rs, cw}
MCHostOf == ("repo" :> "host") @@ ("fork" :> "otherhost") @@ ("not a URI" :> "")

user1 == [managed |-> TRUE, k8sUser |-> Sanitize("alice"), secretRef |-> Ref("", "s"),
          gitBaseDomainFQDN |-> "host"]
target1 == [upstreamRepository |-> "repo", upstreamBranch |-> "main",
            targetRepository |-> "repo", targetBranch |-> "main", mergeStrategy |-> "",
            labelled |-> FALSE]
binding1 == [subject |-> "alice", remoteUserRefs |-> {Ref("", "r")},
             remoteTargetRefs |-> {Ref("", "t")}, labelled |-> FALSE]
syncer1 ==
  [remoteRepository |-> "repo", defaultBranch |-> "main", targetStrategy |-> "OneTarget",
   strategy |-> "CommitApply", defaultBlockAppliedMessage |-> "", excludedFields |-> {},
   rules |-> {[operations |-> {"CREATE", "UPDATE"}, resource |-> "res"]},
   userSpecific |-> "", remoteTargetSelector |-> FALSE, remoteUserBindingSelector |-> FALSE,
   defaultUnauthorizedUserMode |-> "UseDefaultUser",
   defaultRemoteUserRef |-> Ref("n1", "r"), defaultRemoteTargetRef |-> Ref("n1", "t"),
   excludedFieldsConfigMapsRef |-> <<>>, caBundleSecretRef |-> NoRef,
   sopsSecretRef |-> NoRef, bypassAllServiceAccounts |-> FALSE]
cluster1 == [f \in DOMAIN syncer1 \cup {"namespaceSelector", "identityStoreNamespace"} |->
               CASE f = "namespaceSelector" -> "labelled"
                 [] f = "identityStoreNamespace" -> "n1"
                 [] OTHER -> syncer1[f]]

SyncerVariants(s) ==
  {s, [s EXCEPT !.defaultRemoteUserRef = Ref("n2", "r")],
      [s EXCEPT !.defaultRemoteUserRef = Ref("", "r")],
      [s EXCEPT !.defaultRemoteTargetRef = Ref("n1", "")],
      [s EXCEPT !.defaultRemoteTargetRef = None],
      [s EXCEPT !.defaultUnauthorizedUserMode = "Block",
                !.defaultRemoteUserRef = None, !.defaultRemoteTargetRef = None],
      [s EXCEPT !.targetStrategy = "MultipleTarget",
                !.excludedFieldsConfigMapsRef = <<Ref("n2", "c"), None, Ref("n1", "c")>>],
      [s EXCEPT !.sopsSecretRef = Ref("n2", "s"), !.remoteTargetSelector = TRUE],
      [s EXCEPT !.rules = {[operations |-> {"DELETE", "OTHER"}, resource |-> "res"],
                           [operations |-> {"CREATE"}, resource |-> "unknown"]}],
      [s EXCEPT !.remoteRepository = "not a URI"],
      [s EXCEPT !.userSpecific = "other"]}

MCCandidates ==
  [x \in MCIds |->
     CASE x = secret -> {[token |-> "token"], [token |-> ""]}
       [] x \in {ru, ru2} ->
            {user1, [user1 EXCEPT !.managed = FALSE], [user1 EXCEPT !.secretRef = Ref("n1", "s")],
             [user1 EXCEPT !.gitBaseDomainFQDN = "otherhost", !.k8sUser = None]}
       [] x = rt ->
            {target1, [target1 EXCEPT !.targetBranch = "dev"],
             [target1 EXCEPT !.targetRepository = "fork", !.mergeStrategy = "TryHardResetOrDie"],
             [target1 EXCEPT !.upstreamBranch = "dev", !.mergeStrategy = "TryHardResetOrDie"],
             [target1 EXCEPT !.labelled = TRUE]}
       [] x \in {rub, rub2} ->
            {binding1, [binding1 EXCEPT !.subject = "bob"],
             [binding1 EXCEPT !.remoteUserRefs = {Ref("", "r"), Ref("n2", "r")}],
             [binding1 EXCEPT !.remoteTargetRefs = {Ref("", "t"), Ref("n1", "t")}],
             [binding1 EXCEPT !.remoteUserRefs = {Ref("", "gone")}]}
       [] x = rs -> SyncerVariants(syncer1)
       [] x = cw -> SyncerVariants(cluster1) \cup
            {[cluster1 EXCEPT !.namespaceSelector = n] : n \in {"unset", "malformed"}}]

MCInitialObjects ==
  [x \in MCIds |->
     CASE x = secret -> [token |-> "token"]
       [] x = ru -> user1
       [] x = ru2 -> [user1 EXCEPT !.secretRef = Ref("n1", "s")]
       [] x = rt -> target1
       [] x = rub -> binding1
       [] x = rub2 -> None
       [] x = rs -> syncer1
       [] x = cw -> cluster1]

\* alice may do in n1 what her objects need, bob a part of it, and admin may
\* get everything; an administrator may grant or revoke some of it.
MCInitialRights ==
  {<<"alice", "get", "n1", <<"Secret", "s">>>>, <<"alice", "get", "n1", <<"RemoteUser", "r">>>>,
   <<"alice", "get", "n1", <<"RemoteTarget", "t">>>>, <<"alice", "create", "n1", "res">>,
   <<"alice", "patch", "n1", "res">>, <<"alice", "list", "n1", "remoteuserbindings">>,
   <<"admin", "get", "", <<"Secret", "s">>>>, <<"admin", "get", "", <<"RemoteUser", "r">>>>,
   <<"admin", "get", "", <<"RemoteTarget", "t">>>>,
   <<"bob", "get", "n1", <<"Secret", "s">>>>, <<"bob", "get", "n1", <<"RemoteUser", "r">>>>}
MCRights ==
  MCInitialRights \cup
  {<<"alice", "get", "n2", <<"RemoteUser", "r">>>>, <<"alice", "create", "", "res">>,
   <<"bob", "get", "n1", <<"RemoteTarget", "t">>>>}

=============================================================================
