---------------------- MODULE TargetAssociationProofs ----------------------
(***************************************************************************)
(* What admission and the association of targets guarantee for any users,  *)
(* namespaces, objects, rights and numbers of changes.                     *)
(***************************************************************************)
EXTENDS TargetAssociation, FiniteSetTheorems, TLAPS

\* A reference of a stored syncer always has a namespace, a stored binding is
\* one that was written.
GoodStore(os) ==
  /\ \A k \in SyncerKinds : \A x \in OfKind(k) :
       os[x] # None => ~MissingRefNamespace(RemoteSyncerRefs(os[x], x.ns))
  /\ \A x \in OfKind("RemoteUserBinding") : os[x] \in Candidates[x] \cup {None}

\* This is so in the store, and in the caches, which were filled from it.
StoreInv ==
  /\ objs = [x \in Ids |-> objs[x]] /\ vouched = [x \in Ids |-> vouched[x]]
  /\ GoodStore(objs) /\ GoodStore(cached)

CallFields == {"pc", "user", "syncer", "spec", "bindings", "targets", "users", "pushes",
               "error", "byDefault", "quiet", "unbound"}

IsCall(c) == c = [f \in CallFields |-> c[f]]

Working == {"binding", "targets", "users", "associate"}
Defaulting == {"defaultUser", "defaultTarget"}

\* A call has not failed and pushes nothing before its end, never fails for a
\* missing namespace, and turns to the default identity only if the user was
\* without a binding.
ProgressInv ==
  /\ IsCall(call)
  /\ call.pc \in {"idle", "list", "check", "end"} \cup Working \cup Defaulting
  /\ call.error # "MissingRefNamespace"
  /\ call.pc # "end" => call.error = "" /\ call.pushes = {}
  /\ call.byDefault \/ call.pc \in Defaulting => call.unbound
  /\ call.pc = "check" /\ call.bindings = {} => call.unbound
  /\ call.pc \notin {"idle", "end"} /\ MatchingBindings(call, cached) = {} => call.unbound

\* As long as no cache has changed since the call began, what it has read is
\* what the caches show now.
OneBinding(b) ==
  /\ call.bindings = {b}
  /\ call.quiet =>
       /\ UserBindings = {b} /\ BindingErrors(b) = {}
       /\ call.pc \in {"users", "associate"} =>
            call.targets = Resolved("RemoteTarget", b.obj.remoteTargetRefs, b.id.ns)
       /\ call.pc = "associate" =>
            call.users = Resolved("RemoteUser", b.obj.remoteUserRefs, b.id.ns)

DefaultPush(p) ==
  /\ call.users = {p} /\ p = [target |-> None, user |-> p.user, token |-> p.token]
  /\ p.token # ""
  /\ call.quiet =>
       /\ p.user \in Resolved("RemoteUser", {call.spec.defaultRemoteUserRef}, RefOwnerNamespace)
       /\ p.user.obj.gitBaseDomainFQDN = Host(call)

ReadInv ==
  /\ call.pc = "check" =>
       IsFiniteSet(call.bindings) /\ (call.quiet => call.bindings = UserBindings)
  /\ call.pc \in Working => \E b \in call.bindings : OneBinding(b)
  /\ call.pc \in Defaulting /\ call.quiet => UserBindings = {}
  /\ call.pc = "defaultTarget" => \E p \in call.users : DefaultPush(p)

IInv == TypeOK /\ StoreInv /\ ReferencesVouched /\ ProgressInv /\ ReadInv /\ AssociationExact

---------------------------------------------------------------------------
(* What the webhooks let through.                                          *)

\* The references of an object, by its kind.
LEMMA RefsByKind ==
  ASSUME NEW x, NEW o
  PROVE  /\ o = None => RefsOf(x, o) = {}
         /\ o # None /\ x.kind = "RemoteUser" => RefsOf(x, o) = RemoteUserRefs(o, x.ns)
         /\ o # None /\ x.kind = "RemoteUserBinding" =>
              RefsOf(x, o) = RemoteUserBindingRefs(o, x.ns)
         /\ o # None /\ x.kind \in SyncerKinds => RefsOf(x, o) = RemoteSyncerRefs(o, x.ns)
         /\ x.kind \notin SyncerKinds \cup {"RemoteUser", "RemoteUserBinding"} =>
              RefsOf(x, o) = {}
  <1>1. CASE o = None
    BY <1>1 DEF RefsOf
  <1>2. CASE o # None /\ x.kind = "RemoteUser"
    BY <1>2 DEF RefsOf, SyncerKinds
  <1>3. CASE o # None /\ x.kind = "RemoteUserBinding"
    BY <1>3 DEF RefsOf, SyncerKinds
  <1>4. CASE o # None /\ x.kind \in SyncerKinds
    BY <1>4 DEF RefsOf, SyncerKinds
  <1>5. CASE o # None /\ x.kind \notin SyncerKinds \cup {"RemoteUser", "RemoteUserBinding"}
    BY <1>5 DEF RefsOf
  <1> QED
    BY <1>1, <1>2, <1>3, <1>4, <1>5 DEF SyncerKinds

\* The webhook of an object, by its kind.
LEMMA PermittedByKind ==
  ASSUME NEW user, NEW x, NEW old, NEW o, Permitted(user, x, old, o)
  PROVE  /\ x.kind = "RemoteUser" => /\ MayWriteRemoteUser(user, old)
                                     /\ HandleRemoteUserPermissions(rights, user, x, o)
         /\ x.kind = "RemoteUserBinding" =>
              HandleRemoteUserBindingPermissions(rights, user, x, o)
         /\ x.kind = "RemoteSyncer" => HandleRemoteSyncer(rights, user, x, o)
         /\ x.kind = "ClusterWideRemoteSyncer" =>
              HandleClusterWideRemoteSyncer(rights, user, x, o, labelled)
  BY DEF Permitted

\* Whoever is permitted to write an object can get what it refers to; a
\* syncer of its own namespace and a system user's one are not reviewed.
LEMMA PermittedVouches ==
  ASSUME NEW user, NEW x, NEW old, NEW o, o # None, Permitted(user, x, old, o)
  PROVE  LET ok == {r \in RefsOf(x, o) :
                      CheckAccess(rights, user, "get", r.ns, <<r.kind, r.name>>)}
         IN IF x.kind \in SyncerKinds
              THEN user \in SystemUsers \/ {r \in RefsOf(x, o) : r.ns # x.ns} \subseteq ok
              ELSE RefsOf(x, o) \subseteq ok
  <1>1. CASE x.kind = "RemoteUser"
    BY <1>1, RefsByKind, PermittedByKind
       DEF HandleRemoteUserPermissions, AuthorizeRefs, SyncerKinds
  <1>2. CASE x.kind = "RemoteUserBinding"
    BY <1>2, RefsByKind, PermittedByKind
       DEF HandleRemoteUserBindingPermissions, AuthorizeRefs, SyncerKinds
  <1>3. CASE x.kind \in SyncerKinds
    <2>1. \/ user \in SystemUsers
          \/ AuthorizeCrossNamespaceRefs(rights, user, RefsOf(x, o), x.ns, {})
      <3>1. RefsOf(x, o) = RemoteSyncerRefs(o, x.ns)
        BY <1>3, RefsByKind
      <3>2. user \in SystemUsers \/ \E nss : authorizeSyncer(rights, user, x, o, nss)
        BY <1>3, PermittedByKind
           DEF SyncerKinds, HandleRemoteSyncer, HandleClusterWideRemoteSyncer
      <3> QED
        BY <3>1, <3>2 DEF authorizeSyncer
    <2> QED
      BY <1>3, <2>1 DEF AuthorizeCrossNamespaceRefs, AuthorizeRefs
  <1>4. CASE x.kind \notin SyncerKinds \cup {"RemoteUser", "RemoteUserBinding"}
    BY <1>4, RefsByKind
  <1> QED
    BY <1>1, <1>2, <1>3, <1>4

\* Every reference of an admitted syncer has a namespace: its own, its
\* syncer's, or the validator has asked for one.
LEMMA ValidatedResolves ==
  ASSUME NEW x \in Ids, NEW o, x.kind \in SyncerKinds, Validated(x, o)
  PROVE  ~MissingRefNamespace(RemoteSyncerRefs(o, x.ns))
  <1>1. CASE x.kind = "RemoteSyncer"
    <2>1. x.ns # ""
      BY <1>1, AssociationAssumption
    <2>2. ASSUME NEW k, NEW rs, NEW r \in Collect(k, rs, x.ns)
          PROVE  r.ns # ""
      <3>1. PICK y : r = [kind |-> k, ns |-> ResolveNamespace(y.ns, x.ns), name |-> y.name]
        BY DEF Collect
      <3>2. r.ns = ResolveNamespace(y.ns, x.ns)
        BY <3>1
      <3> QED
        BY <2>1, <3>2 DEF ResolveNamespace
    <2> QED
      BY <2>2 DEF MissingRefNamespace, RemoteSyncerRefs
  <1>2. CASE x.kind = "ClusterWideRemoteSyncer"
    <2>1. x.ns = ""
      BY <1>2, AssociationAssumption
    <2>2. validateClusterWideRemoteSyncer(o)
      BY <1>2 DEF Validated
    <2> QED
      BY <2>1, <2>2 DEF validateClusterWideRemoteSyncer
  <1> QED
    BY <1>1, <1>2 DEF SyncerKinds

\* An access review that passes for all namespaces passes for each.
LEMMA AllNamespaces ==
  ASSUME NEW user, NEW verb, NEW ns, NEW what, CheckAccess(rights, user, verb, "", what)
  PROVE  CheckAccess(rights, user, verb, ns, what)
  BY DEF CheckAccess

\* An ordinary user who may write a syncer may do what it intercepts.
LEMMA PermittedReaches ==
  ASSUME NEW user, user \notin SystemUsers, NEW x, x.kind \in SyncerKinds, NEW old, NEW o,
         Permitted(user, x, old, o), NEW n \in Intercepted(x, o), NEW rule \in o.rules,
         NEW op \in rule.operations, OperationToVerb(op) # {}
  PROVE  \/ rule.resource \in UnknownResources
         \/ \E v \in OperationToVerb(op) : CheckAccess(rights, user, v, n, rule.resource)
  <1> DEFINE nss == IF x.kind = "RemoteSyncer" THEN {x.ns} ELSE selectedNamespaces(o, labelled)
  <1>1. hasRightResourcesPermissions(rights, user, o.rules, nss)
    BY PermittedByKind
       DEF SyncerKinds, HandleRemoteSyncer, HandleClusterWideRemoteSyncer, authorizeSyncer
  <1>2. n \in nss \/ "" \in nss
    BY DEF Intercepted, selectedNamespaces
  <1> HIDE DEF nss
  <1>3. \/ rule.resource \in UnknownResources
        \/ \A ns \in nss : \E v \in OperationToVerb(op) : CheckAccess(rights, user, v, ns, rule.resource)
    BY <1>1 DEF hasRightResourcesPermissions, isOperationAllowed
  <1> QED
    BY <1>2, <1>3, AllNamespaces

---------------------------------------------------------------------------
(* Writes.                                                                 *)

\* What can be sent for an object: nothing, what users may write, or a syncer
\* that went through the older version.
Sent(x, o) ==
  \/ o = None
  \/ o \in Candidates[x]
  \/ x.kind = "RemoteSyncer" /\ DOMAIN o = SyncerFields(x)

\* A RemoteUser that is stored carries the hash of a user, or nothing.
LEMMA StampIsUser ==
  ASSUME NEW user \in Users, NEW x \in Ids, x.kind = "RemoteUser", NEW sent, Sent(x, sent),
         NEW old, StampRemoteUser(user, old, sent) # None
  PROVE  StampRemoteUser(user, old, sent).k8sUser \in {Sanitize(u) : u \in Users} \cup {None}
  <1>1. CASE sent = None
    BY <1>1 DEF StampRemoteUser
  <1>2. CASE sent \in Candidates[x]
    <2>1. /\ "k8sUser" \in DOMAIN sent
          /\ sent.k8sUser \in {Sanitize(u) : u \in Users} \cup {None}
      BY <1>2, AssociationAssumption DEF OfKind, RemoteUserFields
    <2>2. CASE StampRemoteUser(user, old, sent) = sent
      BY <2>1, <2>2
    <2>3. CASE StampRemoteUser(user, old, sent) = [sent EXCEPT !.k8sUser = Sanitize(user)]
      <3>1. [sent EXCEPT !.k8sUser = Sanitize(user)].k8sUser = Sanitize(user)
        BY <2>1, Zenon
      <3>2. StampRemoteUser(user, old, sent).k8sUser = Sanitize(user)
        BY <2>3, <3>1, Zenon
      <3> QED
        BY <3>2
    <2> QED
      BY <2>2, <2>3, Zenon DEF StampRemoteUser
  <1> QED
    BY <1>1, <1>2 DEF Sent

\* A written object is stored as the webhooks let it through.
LEMMA WriteStep ==
  ASSUME IInv, NEW user \in Users, NEW x \in Ids, NEW sent, Sent(x, sent), Write(user, x, sent),
         DOMAIN call' = DOMAIN Idle
  PROVE  StoreInv' /\ ReferencesVouched' /\ TypeOK'
  <1> DEFINE new == IF x.kind = "RemoteUser" THEN StampRemoteUser(user, objs[x], sent) ELSE sent
             ok  == {r \in RefsOf(x, new) :
                       CheckAccess(rights, user, "get", r.ns, <<r.kind, r.name>>)}
  <1>1. /\ changes < MaxChanges /\ changes' = changes + 1
        /\ objs' = [objs EXCEPT ![x] = new]
        /\ author' = [author EXCEPT ![x] = user]
        /\ vouched' = [vouched EXCEPT ![x] = ok]
        /\ rights' = rights /\ labelled' = labelled /\ cached' = cached
        /\ new # None => Permitted(user, x, objs[x], new) /\ Validated(x, new)
    BY Zenon DEF Write
  <1>2. x.kind = "RemoteUser" /\ new # None =>
          new.k8sUser \in {Sanitize(u) : u \in Users} \cup {None}
    BY StampIsUser
  <1>3. x.kind \in SyncerKinds /\ new # None => DOMAIN new = SyncerFields(x)
    BY AssociationAssumption DEF Sent, SyncerKinds, OfKind
  <1>4. x.kind = "RemoteUserBinding" => new \in Candidates[x] \cup {None}
    BY DEF Sent
  <1>5. IF x.kind \in SyncerKinds
          THEN user \in SystemUsers \/ {r \in RefsOf(x, new) : r.ns # x.ns} \subseteq ok
          ELSE RefsOf(x, new) \subseteq ok
    <2>1. CASE new = None
      <3>1. RefsOf(x, new) = {}
        BY <2>1, RefsByKind, Zenon
      <3> HIDE DEF new
      <3> QED
        BY <3>1
    <2>2. CASE new # None
      <3>1. Permitted(user, x, objs[x], new)
        BY <1>1, <2>2
      <3> HIDE DEF new
      <3> QED
        BY <2>2, <3>1, PermittedVouches
    <2> QED
      BY <2>1, <2>2
  <1>6. x.kind \in SyncerKinds /\ new # None => ~MissingRefNamespace(RemoteSyncerRefs(new, x.ns))
    BY <1>1, ValidatedResolves
  <1>7. ok \subseteq RefsOf(x, new)
    OBVIOUS
  <1> HIDE DEF new, ok
  <1>8. /\ objs = [y \in Ids |-> objs[y]] /\ vouched = [y \in Ids |-> vouched[y]]
        /\ author \in [Ids -> Users \cup {None}]
    BY DEF IInv, StoreInv, TypeOK
  <1>9. \A y \in Ids : /\ objs'[y] = IF y = x THEN new ELSE objs[y]
                       /\ author'[y] = IF y = x THEN user ELSE author[y]
                       /\ vouched'[y] = IF y = x THEN ok ELSE vouched[y]
    BY <1>1, <1>8
  <1>10. /\ objs' = [y \in Ids |-> objs'[y]] /\ vouched' = [y \in Ids |-> vouched'[y]]
         /\ author' \in [Ids -> Users \cup {None}]
    BY <1>1, <1>8
  <1>11. StoreInv'
    BY <1>1, <1>4, <1>6, <1>9, <1>10 DEF IInv, StoreInv, GoodStore, OfKind
  <1>12. ReferencesVouched'
    <2> SUFFICES ASSUME NEW y \in Ids
                 PROVE  IF y.kind \in SyncerKinds
                          THEN \/ author'[y] \in SystemUsers
                               \/ {r \in RefsOf(y, objs'[y]) : r.ns # y.ns} \subseteq vouched'[y]
                          ELSE RefsOf(y, objs'[y]) \subseteq vouched'[y]
      BY DEF ReferencesVouched
    <2>1. CASE y = x
      BY <1>5, <1>9, <2>1
    <2>2. CASE y # x
      BY <1>9, <2>2 DEF IInv, ReferencesVouched
    <2> QED
      BY <2>1, <2>2
  <1>13. TypeOK'
    <2>1. \A y \in OfKind("RemoteUser") :
            objs'[y] # None => objs'[y].k8sUser \in {Sanitize(u) : u \in Users} \cup {None}
      BY <1>2, <1>9 DEF IInv, TypeOK, OfKind
    <2>2. \A k \in SyncerKinds : \A y \in OfKind(k) :
            objs'[y] # None => DOMAIN objs'[y] = SyncerFields(y)
      BY <1>3, <1>9 DEF IInv, TypeOK, OfKind
    <2>3. rights' \subseteq Rights /\ labelled' \subseteq Namespaces /\ changes' \in 0 .. MaxChanges
      <3>1. MaxChanges \in Nat
        BY AssociationAssumption
      <3>2. rights \subseteq Rights /\ labelled \subseteq Namespaces /\ changes \in 0 .. MaxChanges
        BY DEF IInv, TypeOK
      <3> QED
        BY <1>1, <3>1, <3>2
    <2>4. \A y \in Ids : vouched'[y] \subseteq RefsOf(y, objs'[y])
      <3> SUFFICES ASSUME NEW y \in Ids
                   PROVE  vouched'[y] \subseteq RefsOf(y, objs'[y])
        OBVIOUS
      <3>1. CASE y = x
        BY <1>7, <1>9, <3>1
      <3>2. CASE y # x
        BY <1>9, <3>2 DEF IInv, TypeOK
      <3> QED
        BY <3>1, <3>2
    <2> QED
      BY <1>10, <2>1, <2>2, <2>3, <2>4, Zenon DEF TypeOK
  <1> QED
    BY <1>11, <1>12, <1>13

---------------------------------------------------------------------------
(* The ways a step changes the call.                                       *)

Bindings(pc, bs) == call' = [call EXCEPT !.pc = pc, !.bindings = bs]
Targets(pc, ts) == call' = [call EXCEPT !.pc = pc, !.targets = ts]
UsersFor(pc, us) == call' = [call EXCEPT !.pc = pc, !.users = us]
Defaults(pc, us) == call' = [call EXCEPT !.pc = pc, !.byDefault = TRUE, !.users = us]

SameCall == call'.user = call.user /\ call'.syncer = call.syncer /\ call'.spec = call.spec

\* What a step of an interception leaves in the call.
Became(pc, bs, ts, us, ps, e, d) ==
  /\ IsCall(call') /\ SameCall
  /\ call'.pc = pc /\ call'.bindings = bs /\ call'.targets = ts /\ call'.users = us
  /\ call'.pushes = ps /\ call'.error = e /\ call'.byDefault = d
  /\ call'.quiet = call.quiet /\ call'.unbound = call.unbound

\* Every step of an interception, field by field.
LEMMA CallChanges ==
  ASSUME IsCall(call)
  PROVE  /\ \A pc : Goto(pc) =>
              Became(pc, call.bindings, call.targets, call.users, call.pushes, call.error,
                     call.byDefault)
         /\ \A e, ps : End(e, ps) => Became("end", {}, {}, {}, ps, e, call.byDefault)
         /\ \A pc, bs : Bindings(pc, bs) =>
              Became(pc, bs, call.targets, call.users, call.pushes, call.error, call.byDefault)
         /\ \A pc, ts : Targets(pc, ts) =>
              Became(pc, call.bindings, ts, call.users, call.pushes, call.error, call.byDefault)
         /\ \A pc, us : UsersFor(pc, us) =>
              Became(pc, call.bindings, call.targets, us, call.pushes, call.error, call.byDefault)
         /\ \A pc, us : Defaults(pc, us) =>
              Became(pc, call.bindings, call.targets, us, call.pushes, call.error, TRUE)
  <1>1. ASSUME NEW pc, Goto(pc)
        PROVE  Became(pc, call.bindings, call.targets, call.users, call.pushes, call.error,
                      call.byDefault)
    BY <1>1, Zenon DEF Goto, IsCall, CallFields, Became, SameCall
  <1>2. ASSUME NEW e, NEW ps, End(e, ps)
        PROVE  Became("end", {}, {}, {}, ps, e, call.byDefault)
    BY <1>2, Zenon DEF End, IsCall, CallFields, Became, SameCall
  <1>3. ASSUME NEW pc, NEW bs, Bindings(pc, bs)
        PROVE  Became(pc, bs, call.targets, call.users, call.pushes, call.error, call.byDefault)
    BY <1>3, Zenon DEF Bindings, IsCall, CallFields, Became, SameCall
  <1>4. ASSUME NEW pc, NEW ts, Targets(pc, ts)
        PROVE  Became(pc, call.bindings, ts, call.users, call.pushes, call.error, call.byDefault)
    BY <1>4, Zenon DEF Targets, IsCall, CallFields, Became, SameCall
  <1>5. ASSUME NEW pc, NEW us, UsersFor(pc, us)
        PROVE  Became(pc, call.bindings, call.targets, us, call.pushes, call.error, call.byDefault)
    BY <1>5, Zenon DEF UsersFor, IsCall, CallFields, Became, SameCall
  <1>6. ASSUME NEW pc, NEW us, Defaults(pc, us)
        PROVE  Became(pc, call.bindings, call.targets, us, call.pushes, call.error, TRUE)
    BY <1>6, Zenon DEF Defaults, IsCall, CallFields, Became, SameCall
  <1> QED
    BY <1>1, <1>2, <1>3, <1>4, <1>5, <1>6, Zenon

\* A change of the caches is remembered by the call it happens in.
LEMMA DisturbFacts ==
  ASSUME IsCall(call), NEW os, Disturb(os)
  PROVE  /\ IsCall(call') /\ SameCall
         /\ call'.pc = call.pc /\ call'.bindings = call.bindings
         /\ call'.targets = call.targets /\ call'.users = call.users
         /\ call'.pushes = call.pushes /\ call'.error = call.error
         /\ call'.byDefault = call.byDefault
         /\ call.unbound => call'.unbound
         /\ call.pc \notin {"idle", "end"} /\ MatchingBindings(call, os) = {} => call'.unbound
         /\ call.pc # "idle" => ~call'.quiet
  <1> DEFINE was == call.unbound \/ MatchingBindings(call, os) = {}
  <1>1. CASE call.pc = "idle"
    <2>1. call' = call
      BY <1>1 DEF Disturb
    <2> QED
      BY <1>1, <2>1 DEF SameCall
  <1>2. CASE call.pc = "end"
    <2>1. call' = [call EXCEPT !.quiet = FALSE]
      BY <1>2 DEF Disturb
    <2> QED
      BY <1>2, <2>1, Zenon DEF IsCall, CallFields, SameCall
  <1>3. CASE call.pc \notin {"idle", "end"}
    <2>1. call' = [call EXCEPT !.quiet = FALSE, !.unbound = was]
      BY <1>3 DEF Disturb
    <2> HIDE DEF was
    <2>2. /\ IsCall(call') /\ SameCall
          /\ call'.pc = call.pc /\ call'.bindings = call.bindings
          /\ call'.targets = call.targets /\ call'.users = call.users
          /\ call'.pushes = call.pushes /\ call'.error = call.error
          /\ call'.byDefault = call.byDefault
          /\ call'.unbound = was /\ call'.quiet = FALSE
      BY <2>1, Zenon DEF IsCall, CallFields, SameCall
    <2> QED
      BY <2>2 DEF was
  <1> QED
    BY <1>1, <1>2, <1>3

---------------------------------------------------------------------------
(* What a call reads.                                                      *)

\* What a call would read depends on its user and syncer and on the caches.
LEMMA SameReads ==
  ASSUME SameCall, cached' = cached
  PROVE  /\ \A k, rs, ns : Resolved(k, rs, ns)' = Resolved(k, rs, ns)
         /\ \A b : BindingErrors(b)' = BindingErrors(b)
         /\ MatchingBindings(call, cached)' = MatchingBindings(call, cached)
         /\ UserBindings' = UserBindings
         /\ RefOwnerNamespace' = RefOwnerNamespace /\ Host(call)' = Host(call)
         /\ \A t : OfUpstream(call, t)' <=> OfUpstream(call, t)
         /\ ExpectedPairs' = ExpectedPairs /\ ExpectedDefault' = ExpectedDefault
  <1>1. \A k, ns, n : Get(k, ns, n)' = Get(k, ns, n)
    BY DEF Get
  <1>2. \A k, rs, ns : Resolved(k, rs, ns)' = Resolved(k, rs, ns)
    BY <1>1, Zenon DEF Resolved
  <1>3. \A x, u : Token(x, u)' = Token(x, u)
    BY <1>1, Zenon DEF Token
  <1>4. RefOwnerNamespace' = RefOwnerNamespace /\ Host(call)' = Host(call)
    BY DEF RefOwnerNamespace, Host, SameCall
  <1>5. \A b : BindingErrors(b)' = BindingErrors(b)
    BY <1>2, <1>3, <1>4, Zenon DEF BindingErrors
  <1>6. MatchingBindings(call, cached)' = MatchingBindings(call, cached)
    BY Zenon DEF MatchingBindings, IdentityNamespace, SameCall
  <1>7. UserBindings' = UserBindings
    BY <1>6, Zenon DEF UserBindings
  <1>8. \A t : OfUpstream(call, t)' <=> OfUpstream(call, t)
    BY DEF OfUpstream, SameCall
  <1>9. ExpectedPairs' = ExpectedPairs
    BY <1>2, <1>7, Zenon DEF ExpectedPairs, Pairs, OfUpstream, SameCall
  <1>10. ExpectedDefault' = ExpectedDefault
    BY <1>2, <1>4, Zenon DEF ExpectedDefault, OfUpstream, SameCall
  <1> QED
    BY <1>2, <1>4, <1>5, <1>6, <1>7, <1>8, <1>9, <1>10

---------------------------------------------------------------------------
(* The steps of an interception.                                           *)

CallInv == ProgressInv /\ ReadInv /\ AssociationExact

\* A call has the fields of an idle one.
LEMMA CallDomain ==
  ASSUME NEW c, IsCall(c)
  PROVE  DOMAIN c = DOMAIN Idle
  <1>1. DOMAIN c = CallFields
    BY Zenon DEF IsCall
  <1>2. DOMAIN Idle = CallFields
    BY DEF Idle, CallFields
  <1> QED
    BY <1>1, <1>2

\* A step of an interception leaves the store alone.
LEMMA StoreKept ==
  ASSUME IInv, UNCHANGED cluster, IsCall(call')
  PROVE  TypeOK' /\ StoreInv' /\ ReferencesVouched'
  <1>1. DOMAIN call' = DOMAIN Idle
    BY CallDomain
  <1>2. /\ objs' = objs /\ cached' = cached /\ rights' = rights /\ labelled' = labelled
        /\ changes' = changes /\ author' = author /\ vouched' = vouched
    BY DEF cluster
  <1>3. TypeOK'
    BY <1>1, <1>2, Zenon DEF IInv, TypeOK
  <1>4. StoreInv'
    BY <1>2, Zenon DEF IInv, StoreInv, GoodStore
  <1>5. ReferencesVouched'
    BY <1>2, Zenon DEF IInv, ReferencesVouched
  <1> QED
    BY <1>3, <1>4, <1>5

\* What ends a call with an error pushes nothing.
LEMMA FailStep ==
  ASSUME IInv, NEW e, e \notin {"", "MissingRefNamespace"}, Fails(e)
  PROVE  CallInv' /\ IsCall(call')
  <1>1. Became("end", {}, {}, {}, {}, e, call.byDefault) /\ ProgressInv
    BY CallChanges DEF IInv, ProgressInv, Fails, NoPush
  <1>2. ProgressInv'
    BY <1>1 DEF Became, ProgressInv, Working, Defaulting
  <1>3. ReadInv'
    BY <1>1 DEF Became, ReadInv, Working, Defaulting
  <1>4. AssociationExact'
    BY <1>1 DEF Became, AssociationExact
  <1> QED
    BY <1>1, <1>2, <1>3, <1>4 DEF CallInv, Became

\* What ends a call with pushes has found them as it should.
LEMMA EndStep ==
  ASSUME IInv, cached' = cached, NEW ps, ps # {}, End("", ps),
         \A p \in ps : p.token # "" /\ OfUpstream(call, p.target.obj),
         call.quiet =>
           /\ Cardinality(UserBindings) <= 1
           /\ {<<p.target, p.user>> : p \in ps} =
                IF UserBindings = {} THEN ExpectedDefault ELSE ExpectedPairs
           /\ call.spec.targetStrategy = "OneTarget" => Cardinality(ps) = 1
           /\ \A p, q \in ps :
                HostOf[p.target.obj.targetRepository] = Host(call) /\ p.target = q.target => p = q
  PROVE  CallInv' /\ IsCall(call')
  <1>1. Became("end", {}, {}, {}, ps, "", call.byDefault) /\ ProgressInv
    BY CallChanges DEF IInv, ProgressInv
  <1>2. ProgressInv'
    BY <1>1 DEF Became, ProgressInv, Working, Defaulting
  <1>3. ReadInv'
    BY <1>1 DEF Became, ReadInv, Working, Defaulting
  <1>4. AssociationExact'
    <2>1. /\ call'.pc = "end" /\ call'.error = "" /\ call'.pushes = ps
          /\ call'.quiet = call.quiet /\ SameCall
      BY <1>1 DEF Became
    <2>2. /\ UserBindings' = UserBindings /\ ExpectedPairs' = ExpectedPairs
          /\ ExpectedDefault' = ExpectedDefault /\ Host(call)' = Host(call)
          /\ \A t : OfUpstream(call, t)' <=> OfUpstream(call, t)
      BY <2>1, SameReads
    <2>3. call'.spec = call.spec
      BY <2>1 DEF SameCall
    <2> QED
      BY <2>1, <2>2, <2>3, Zenon DEF AssociationExact
  <1> QED
    BY <1>1, <1>2, <1>3, <1>4 DEF CallInv, Became

\* What has not ended has pushed nothing, so only what it read matters.
LEMMA ProgressStep ==
  ASSUME IInv, cached' = cached, NEW pc, NEW bs, NEW ts, NEW us, NEW d,
         call.pc \notin {"idle", "end"},
         Became(pc, bs, ts, us, call.pushes, call.error, d),
         pc \in {"check"} \cup Working \cup Defaulting,
         d \/ pc \in Defaulting \/ (pc = "check" /\ bs = {}) => call.unbound
  PROVE  ProgressInv' /\ AssociationExact'
  <1>1. ProgressInv
    BY DEF IInv
  <1>2. MatchingBindings(call, cached)' = MatchingBindings(call, cached)
    BY SameReads DEF Became
  <1>3. pc # "end" /\ pc # "idle"
    BY DEF Working, Defaulting
  <1> QED
    BY <1>1, <1>2, <1>3 DEF Became, ProgressInv, AssociationExact

LEMMA ListStep ==
  ASSUME IInv, ListBindings
  PROVE  CallInv' /\ IsCall(call')
  <1> DEFINE bs == {[id |-> b, obj |-> cached[b]] : b \in MatchingBindings(call, cached)}
  <1>0. ProgressInv /\ cached' = cached /\ call.pc = "list"
    BY DEF IInv, ListBindings, cluster
  <1>1. bs = UserBindings /\ (bs = {} => MatchingBindings(call, cached) = {})
    BY DEF UserBindings
  <1>2. IsFiniteSet(bs)
    <2> DEFINE M == MatchingBindings(call, cached)
               f == [b \in M |-> [id |-> b, obj |-> cached[b]]]
    <2>1. IsFiniteSet(M)
      <3>1. M \subseteq Ids /\ IsFiniteSet(Ids)
        BY AssociationAssumption DEF MatchingBindings, OfKind
      <3> QED
        BY <3>1, FS_Subset
    <2>2. f \in Surjection(M, bs)
      BY DEF Surjection
    <2> HIDE DEF M, f, bs
    <2> QED
      BY <2>1, <2>2, FS_Surjection
  <1>3. Bindings("check", bs)
    BY Zenon DEF ListBindings, Bindings
  <1> HIDE DEF bs
  <1>4. Became("check", bs, call.targets, call.users, call.pushes, call.error, call.byDefault)
    BY <1>0, <1>3, CallChanges DEF ProgressInv
  <1>5. ProgressInv' /\ AssociationExact'
    <2>1. call.byDefault \/ bs = {} => call.unbound
      BY <1>0, <1>1 DEF ProgressInv
    <2> QED
      BY <1>0, <1>4, <2>1, ProgressStep DEF Working, Defaulting
  <1>6. ReadInv'
    <2>1. UserBindings' = UserBindings
      BY <1>0, <1>4, SameReads DEF Became
    <2> QED
      BY <1>1, <1>2, <1>4, <2>1 DEF ReadInv, Became, Working, Defaulting
  <1> QED
    BY <1>4, <1>5, <1>6 DEF CallInv, Became

\* The errors of a binding are not the one for a missing namespace.
LEMMA ErrorsOfBinding ==
  ASSUME NEW b
  PROVE  BindingErrors(b) \subseteq {"CredentialsNotFound", "RemoteUserNotFound", "TooMuchRemoteUser"}
  <1> DEFINE rus == {u \in Resolved("RemoteUser", b.obj.remoteUserRefs, b.id.ns) :
                       u.obj.gitBaseDomainFQDN = Host(call)}
             none == \E u \in rus : Token(u.id, u.obj) = ""
             many == Cardinality(rus) > 1
  <1>1. BindingErrors(b) = IF none THEN {"CredentialsNotFound"}
                           ELSE IF rus = {} THEN {"RemoteUserNotFound"}
                           ELSE IF many THEN {"TooMuchRemoteUser"} ELSE {}
    BY DEF BindingErrors
  <1> HIDE DEF rus, none, many
  <1> QED
    BY <1>1

\* A call goes on with a usable binding, or without any.
LEMMA CheckStep ==
  ASSUME IInv, CheckBindings
  PROVE  CallInv' /\ IsCall(call')
  <1> DEFINE errors == UNION {BindingErrors(b) : b \in call.bindings}
             bs == call.bindings
  <1>0. ProgressInv /\ ReadInv /\ cached' = cached /\ call.pc = "check"
    BY DEF IInv, CheckBindings, cluster
  <1>1. CASE \E e \in errors : Fails(e)
    <2>1. PICK e \in errors : Fails(e)
      BY <1>1
    <2>2. e \notin {"", "MissingRefNamespace"}
      BY ErrorsOfBinding
    <2> QED
      BY <2>1, <2>2, FailStep
  <1>2. CASE Fails("TooMuchRemoteUserBinding")
    BY <1>2, FailStep
  <1>3. CASE Fails("RemoteUserBindingNotFound")
    BY <1>3, FailStep
  <1>4. CASE errors = {} /\ Cardinality(bs) = 1 /\ Goto("binding")
    <2>1. IsFiniteSet(bs) /\ (call.quiet => bs = UserBindings)
      BY <1>0 DEF ReadInv
    <2>2. PICK b : bs = {b}
      BY <1>4, <2>1, FS_Singleton
    <2>3. BindingErrors(b) = {}
      BY <1>4, <2>2
    <2>4. Became("binding", bs, call.targets, call.users, call.pushes, call.error, call.byDefault)
      BY <1>0, <1>4, CallChanges DEF ProgressInv
    <2> HIDE DEF bs
    <2>5. ProgressInv' /\ AssociationExact'
      <3>1. call.byDefault => call.unbound
        BY <1>0 DEF ProgressInv
      <3> QED
        BY <1>0, <2>4, <3>1, ProgressStep DEF Working, Defaulting
    <2>6. OneBinding(b)'
      <3>1. UserBindings' = UserBindings /\ BindingErrors(b)' = BindingErrors(b)
        BY <1>0, <2>4, SameReads DEF Became
      <3> QED
        BY <2>1, <2>2, <2>3, <2>4, <3>1 DEF OneBinding, Became
    <2>7. ReadInv'
      <3>1. call'.pc = "binding" /\ b \in call'.bindings
        BY <2>2, <2>4 DEF Became
      <3> QED
        BY <2>6, <3>1 DEF ReadInv, Working, Defaulting
    <2> QED
      BY <2>4, <2>5, <2>7 DEF CallInv, Became
  <1>5. CASE bs = {} /\ Goto("defaultUser")
    <2>1. Became("defaultUser", bs, call.targets, call.users, call.pushes, call.error, call.byDefault)
      BY <1>0, <1>5, CallChanges DEF ProgressInv
    <2>2. call.unbound /\ (call.quiet => UserBindings = {})
      BY <1>0, <1>5 DEF ProgressInv, ReadInv
    <2> HIDE DEF bs
    <2>3. ProgressInv' /\ AssociationExact'
      BY <1>0, <2>1, <2>2, ProgressStep DEF Working, Defaulting
    <2>4. UserBindings' = UserBindings
      BY <1>0, <2>1, SameReads DEF Became
    <2>5. ReadInv'
      BY <2>1, <2>2, <2>4 DEF ReadInv, Became, Working, Defaulting
    <2> QED
      BY <2>1, <2>3, <2>5 DEF CallInv, Became
  <1> QED
    BY <1>1, <1>2, <1>3, <1>4, <1>5 DEF CheckBindings

\* The binding that a working call holds.
LEMMA TheBinding ==
  ASSUME IInv, call.pc \in Working
  PROVE  \E b : OneBinding(b) /\ (CHOOSE x \in call.bindings : TRUE) = b
  <1>1. PICK b \in call.bindings : OneBinding(b)
    BY DEF IInv, ReadInv
  <1>2. call.bindings = {b}
    BY <1>1 DEF OneBinding
  <1>3. (CHOOSE x \in {b} : TRUE) = b
    BY Zenon
  <1> QED
    BY <1>1, <1>2, <1>3

\* The steps of a call that keep its binding.
LEMMA WorkingStep ==
  ASSUME IInv, cached' = cached, NEW pc \in Working, NEW b, NEW ts, NEW us,
         call.pc \in Working,
         Became(pc, {b}, ts, us, call.pushes, call.error, call.byDefault),
         OneBinding(b)'
  PROVE  CallInv' /\ IsCall(call')
  <1>1. ProgressInv' /\ AssociationExact'
    <2>1. call.byDefault => call.unbound
      BY DEF IInv, ProgressInv
    <2> QED
      BY <2>1, ProgressStep DEF Working, Defaulting
  <1>2. ReadInv'
    <2>1. call'.pc = pc /\ b \in call'.bindings
      BY DEF Became
    <2> QED
      BY <2>1 DEF ReadInv, Working, Defaulting
  <1> QED
    BY <1>1, <1>2 DEF CallInv, Became

LEMMA BindingStep ==
  ASSUME IInv, GetBinding
  PROVE  CallInv' /\ IsCall(call')
  <1>0. ProgressInv /\ cached' = cached /\ call.pc = "binding" /\ call.pc \in Working
    BY DEF IInv, GetBinding, cluster, Working
  <1>1. PICK b : OneBinding(b) /\ (CHOOSE x \in call.bindings : TRUE) = b
    BY <1>0, TheBinding
  <1>2. CASE Fails("NotFound")
    BY <1>2, FailStep
  <1>3. CASE Bindings("targets", {[id |-> b.id, obj |-> cached[b.id]]})
    <2>0. PICK d : d = [id |-> b.id, obj |-> cached[b.id]]
      OBVIOUS
    <2>1. call.quiet => d = b
      <3> SUFFICES ASSUME call.quiet PROVE d = b
        OBVIOUS
      <3>1. b \in UserBindings
        BY <1>1 DEF OneBinding
      <3>2. PICK y : b = [id |-> y, obj |-> cached[y]]
        BY <3>1 DEF UserBindings
      <3> QED
        BY <2>0, <3>2
    <2>2. Became("targets", {d}, call.targets, call.users, call.pushes, call.error, call.byDefault)
      BY <1>0, <1>3, <2>0, CallChanges DEF ProgressInv
    <2>3. OneBinding(d)'
      <3>1. UserBindings' = UserBindings /\ BindingErrors(d)' = BindingErrors(d)
        BY <1>0, <2>2, SameReads DEF Became
      <3> QED
        BY <1>1, <2>1, <2>2, <3>1 DEF OneBinding, Became
    <2> QED
      BY <1>0, <2>2, <2>3, WorkingStep DEF Working
  <1> QED
    BY <1>1, <1>2, <1>3, Zenon DEF GetBinding, Bindings

LEMMA ResolveStep ==
  ASSUME IInv, ResolveTargets \/ ResolveUsers
  PROVE  CallInv' /\ IsCall(call')
  <1>0. ProgressInv /\ cached' = cached /\ call.pc \in Working
    BY DEF IInv, ResolveTargets, ResolveUsers, cluster, Working
  <1>1. PICK b : OneBinding(b) /\ (CHOOSE x \in call.bindings : TRUE) = b
    BY <1>0, TheBinding
  <1>2. call.bindings = {b}
    BY <1>1 DEF OneBinding
  <1> DEFINE ts == Resolved("RemoteTarget", b.obj.remoteTargetRefs, b.id.ns)
             us == Resolved("RemoteUser", b.obj.remoteUserRefs, b.id.ns)
  <1>3. CASE ResolveTargets
    <2>1. Targets("users", ts) /\ call.pc = "targets"
      BY <1>1, <1>3, Zenon DEF ResolveTargets, Targets
    <2>2. Became("users", {b}, ts, call.users, call.pushes, call.error, call.byDefault)
      BY <1>0, <1>2, <2>1, CallChanges DEF ProgressInv
    <2>3. OneBinding(b)'
      <3>1. UserBindings' = UserBindings /\ BindingErrors(b)' = BindingErrors(b) /\ ts' = ts
        BY <1>0, <2>2, SameReads DEF Became
      <3> HIDE DEF ts
      <3>2. call.quiet => UserBindings = {b} /\ BindingErrors(b) = {}
        BY <1>1 DEF OneBinding
      <3> QED
        BY <2>2, <3>1, <3>2 DEF OneBinding, Became, ts
    <2> HIDE DEF ts
    <2> QED
      BY <1>0, <2>2, <2>3, WorkingStep DEF Working
  <1>4. CASE ResolveUsers
    <2>1. UsersFor("associate", us) /\ call.pc = "users"
      BY <1>1, <1>4, Zenon DEF ResolveUsers, UsersFor
    <2>2. Became("associate", {b}, call.targets, us, call.pushes, call.error, call.byDefault)
      BY <1>0, <1>2, <2>1, CallChanges DEF ProgressInv
    <2>3. OneBinding(b)'
      <3>1. /\ UserBindings' = UserBindings /\ BindingErrors(b)' = BindingErrors(b)
            /\ ts' = ts /\ us' = us
        BY <1>0, <2>2, SameReads DEF Became
      <3>2. call.quiet => UserBindings = {b} /\ BindingErrors(b) = {} /\ call.targets = ts
        BY <1>1, <2>1 DEF OneBinding
      <3> HIDE DEF ts, us
      <3> QED
        BY <2>2, <3>1, <3>2 DEF OneBinding, Became, ts, us
    <2> HIDE DEF us
    <2> QED
      BY <1>0, <2>2, <2>3, WorkingStep DEF Working
  <1> QED
    BY <1>3, <1>4

\* A push has the target, the RemoteUser and its token.
LEMMA PushFields ==
  ASSUME NEW t, NEW u
  PROVE  /\ Push(t, u).target = t /\ Push(t, u).user = u
         /\ Push(t, u).token = Token(u.id, u.obj)
  BY DEF Push

\* What is paired, and the pushes that come of it.
PushesOf(c, ts, us) == {Push(p[1], p[2]) : p \in Pairs(c, ts, us)}

\* A push of a pair goes to a target of the upstream, with a RemoteUser of its
\* host; the pushes are the pairs.
LEMMA PairFacts ==
  ASSUME NEW c, NEW ts, NEW us, NEW ps, ps = PushesOf(c, ts, us)
  PROVE  /\ \A q \in ps : \E t \in ts, u \in us :
              /\ q = Push(t, u) /\ OfUpstream(c, t.obj)
              /\ HostOf[t.obj.targetRepository] = u.obj.gitBaseDomainFQDN
         /\ {<<q.target, q.user>> : q \in ps} = Pairs(c, ts, us)
  <1>1. ASSUME NEW p \in Pairs(c, ts, us)
        PROVE  /\ p[1] \in ts /\ p[2] \in us /\ p = <<p[1], p[2]>> /\ OfUpstream(c, p[1].obj)
               /\ HostOf[p[1].obj.targetRepository] = p[2].obj.gitBaseDomainFQDN
    BY DEF Pairs
  <1>2. \A q \in ps : \E t \in ts, u \in us :
          /\ q = Push(t, u) /\ OfUpstream(c, t.obj)
          /\ HostOf[t.obj.targetRepository] = u.obj.gitBaseDomainFQDN
    BY <1>1 DEF PushesOf
  <1>3. {<<q.target, q.user>> : q \in ps} = Pairs(c, ts, us)
    <2>1. ASSUME NEW q \in ps PROVE <<q.target, q.user>> \in Pairs(c, ts, us)
      <3>1. PICK p \in Pairs(c, ts, us) : q = Push(p[1], p[2])
        BY DEF PushesOf
      <3> QED
        BY <1>1, <3>1, PushFields
    <2>2. ASSUME NEW p \in Pairs(c, ts, us) PROVE \E q \in ps : p = <<q.target, q.user>>
      <3>1. Push(p[1], p[2]) \in ps
        BY DEF PushesOf
      <3> QED
        BY <1>1, <3>1, PushFields
    <2> QED
      BY <2>1, <2>2, Zenon
  <1> QED
    BY <1>2, <1>3

\* A binding without errors names one RemoteUser for the syncer's host.
LEMMA OneUser ==
  ASSUME IInv, NEW b \in UserBindings, BindingErrors(b) = {},
         NEW u \in Resolved("RemoteUser", b.obj.remoteUserRefs, b.id.ns),
         NEW v \in Resolved("RemoteUser", b.obj.remoteUserRefs, b.id.ns),
         u.obj.gitBaseDomainFQDN = Host(call), v.obj.gitBaseDomainFQDN = Host(call)
  PROVE  u = v
  <1> DEFINE refs == b.obj.remoteUserRefs
             all == Resolved("RemoteUser", refs, b.id.ns)
             rus == {w \in all : w.obj.gitBaseDomainFQDN = Host(call)}
  <1>1. IsFiniteSet(refs)
    <2>1. PICK y \in MatchingBindings(call, cached) : b = [id |-> y, obj |-> cached[y]]
      BY DEF UserBindings
    <2>2. y \in OfKind("RemoteUserBinding") /\ cached[y] # None /\ b.obj = cached[y]
      BY <2>1 DEF MatchingBindings
    <2>3. b.obj \in Candidates[y]
      BY <2>2 DEF IInv, StoreInv, GoodStore
    <2> QED
      BY <2>2, <2>3, AssociationAssumption
  <1>2. IsFiniteSet(all)
    <2> DEFINE set == {x \in refs : /\ IsSet(x)
                                    /\ Get("RemoteUser", ResolveNamespace(x.ns, b.id.ns), x.name) # None}
               read(r) == [ref |-> r, id |-> [kind |-> "RemoteUser",
                                              ns |-> ResolveNamespace(r.ns, b.id.ns), name |-> r.name],
                           obj |-> Get("RemoteUser", ResolveNamespace(r.ns, b.id.ns), r.name)]
               f == [r \in set |-> read(r)]
    <2>1. all = {read(r) : r \in set}
      BY Zenon DEF Resolved
    <2>2. IsFiniteSet(set)
      BY <1>1, FS_Subset
    <2> HIDE DEF set, read, all
    <2>3. f \in Surjection(set, all)
      BY <2>1 DEF Surjection
    <2> HIDE DEF f
    <2> QED
      BY <2>2, <2>3, FS_Surjection
  <1>3. IsFiniteSet(rus) /\ u \in rus /\ v \in rus
    <2>1. rus \subseteq all
      OBVIOUS
    <2> QED
      BY <1>2, <2>1, FS_Subset
  <1>4. ~(Cardinality(rus) > 1)
    <2>1. rus # {}
      BY <1>3
    <2>2. BindingErrors(b) = IF \E w \in rus : Token(w.id, w.obj) = "" THEN {"CredentialsNotFound"}
                             ELSE IF rus = {} THEN {"RemoteUserNotFound"}
                             ELSE IF Cardinality(rus) > 1 THEN {"TooMuchRemoteUser"} ELSE {}
      BY Zenon DEF BindingErrors
    <2> HIDE DEF rus
    <2> QED
      BY <2>1, <2>2
  <1> HIDE DEF rus
  <1>5. Cardinality(rus) = 1
    <2>1. Cardinality(rus) \in Nat /\ Cardinality(rus) # 0
      BY <1>3, FS_CardinalityType, FS_EmptySet
    <2> QED
      BY <1>4, <2>1
  <1>6. PICK w : rus = {w}
    BY <1>3, <1>5, FS_Singleton
  <1> QED
    BY <1>3, <1>6

\* The targets of the upstream are pushed to with the identity of their host.
LEMMA AssociateStep ==
  ASSUME IInv, Associate
  PROVE  CallInv' /\ IsCall(call')
  <1>0. cached' = cached /\ call.pc = "associate" /\ call.pc \in Working
    BY DEF IInv, Associate, cluster, Working
  <1>1. PICK ps : ps = PushesOf(call, call.targets, call.users)
    OBVIOUS
  <1>2. CASE Fails("CredentialsNotFound")
    BY <1>2, FailStep
  <1>3. CASE Fails("TooMuchRemoteTarget")
    BY <1>3, FailStep
  <1>4. CASE Fails("RemoteTargetNotFound")
    BY <1>4, FailStep
  <1>5. CASE /\ \A p \in ps : p.token # ""
             /\ ps # {} /\ End("", ps)
             /\ call.spec.targetStrategy = "OneTarget" => Cardinality(ps) = 1
    <2>1. \A q \in ps : \E t \in call.targets, u \in call.users :
            /\ q = Push(t, u) /\ OfUpstream(call, t.obj)
            /\ HostOf[t.obj.targetRepository] = u.obj.gitBaseDomainFQDN
      BY <1>1, PairFacts
    <2>2. {<<q.target, q.user>> : q \in ps} = Pairs(call, call.targets, call.users)
      BY <1>1, PairFacts
    <2>3. ASSUME NEW p \in ps
          PROVE  p.token # "" /\ OfUpstream(call, p.target.obj)
      <3>1. PICK t, u : p = Push(t, u) /\ OfUpstream(call, t.obj)
        BY <2>1
      <3>2. p.target = t
        BY <3>1, PushFields
      <3> QED
        BY <1>5, <3>1, <3>2
    <2>4. ASSUME call.quiet
          PROVE  /\ Cardinality(UserBindings) <= 1
                 /\ {<<p.target, p.user>> : p \in ps} =
                      IF UserBindings = {} THEN ExpectedDefault ELSE ExpectedPairs
                 /\ \A p, q \in ps :
                      HostOf[p.target.obj.targetRepository] = Host(call) /\ p.target = q.target
                        => p = q
      <3>1. PICK b : OneBinding(b)
        BY <1>0, TheBinding
      <3>2. /\ UserBindings = {b} /\ BindingErrors(b) = {}
            /\ call.targets = Resolved("RemoteTarget", b.obj.remoteTargetRefs, b.id.ns)
            /\ call.users = Resolved("RemoteUser", b.obj.remoteUserRefs, b.id.ns)
        BY <1>0, <2>4, <3>1 DEF OneBinding
      <3>3. (CHOOSE x \in {b} : TRUE) = b
        BY Zenon
      <3>4. ExpectedPairs = Pairs(call, call.targets, call.users)
        BY <3>2, <3>3, Zenon DEF ExpectedPairs
      <3>5. Cardinality(UserBindings) = 1 /\ UserBindings # {}
        BY <3>2, FS_Singleton
      <3>6. ASSUME NEW p \in ps, NEW q \in ps, p.target = q.target,
                   HostOf[p.target.obj.targetRepository] = Host(call)
            PROVE  p = q
        <4>1. PICK t \in call.targets, u \in call.users :
                /\ p = Push(t, u)
                /\ HostOf[t.obj.targetRepository] = u.obj.gitBaseDomainFQDN
          BY <2>1
        <4>2. PICK s \in call.targets, v \in call.users :
                /\ q = Push(s, v)
                /\ HostOf[s.obj.targetRepository] = v.obj.gitBaseDomainFQDN
          BY <2>1
        <4>3. t = s /\ u.obj.gitBaseDomainFQDN = Host(call) /\ v.obj.gitBaseDomainFQDN = Host(call)
          BY <3>6, <4>1, <4>2, PushFields
        <4>4. u = v
          BY <3>2, <4>3, OneUser
        <4> QED
          BY <4>1, <4>2, <4>3, <4>4
      <3> QED
        BY <2>2, <3>4, <3>5, <3>6
    <2> QED
      BY <1>0, <1>5, <2>3, <2>4, EndStep
  <1> QED
    BY <1>1, <1>2, <1>3, <1>4, <1>5, Zenon DEF Associate, PushesOf

\* One reference leads to one object at most.
LEMMA ResolvedOne ==
  ASSUME NEW k, NEW r, NEW ns, NEW x \in Resolved(k, {r}, ns), NEW y \in Resolved(k, {r}, ns)
  PROVE  x = y
  BY Zenon DEF Resolved

\* The default user is taken if it belongs to the host and has credentials.
LEMMA DefaultUserStep ==
  ASSUME IInv, GetDefaultUser
  PROVE  CallInv' /\ IsCall(call')
  <1> DEFINE r == call.spec.defaultRemoteUserRef
             us == Resolved("RemoteUser", {r}, RefOwnerNamespace)
  <1>0. ProgressInv /\ ReadInv /\ cached' = cached /\ call.pc = "defaultUser"
    BY DEF IInv, GetDefaultUser, cluster
  <1>1. CASE \/ Fails("RemoteUserNotFound") \/ Fails("WrongRemoteTargetConfig")
             \/ Fails("CredentialsNotFound")
    BY <1>1, FailStep
  <1>2. ASSUME NEW u \in us, u.obj.gitBaseDomainFQDN = Host(call), Token(u.id, u.obj) # "",
               Defaults("defaultTarget", {Push(None, u)})
        PROVE  CallInv' /\ IsCall(call')
    <2>1. PICK p : p = Push(None, u)
      OBVIOUS
    <2>2. p = [target |-> None, user |-> p.user, token |-> p.token] /\ p.user = u /\ p.token # ""
      BY <1>2, <2>1 DEF Push
    <2>3. Became("defaultTarget", call.bindings, call.targets, {p}, call.pushes, call.error, TRUE)
      BY <1>0, <1>2, <2>1, CallChanges DEF ProgressInv
    <2>4. call.unbound
      BY <1>0 DEF ProgressInv, Defaulting
    <2>5. ProgressInv' /\ AssociationExact'
      BY <1>0, <2>3, <2>4, ProgressStep DEF Working, Defaulting
    <2>6. DefaultPush(p)'
      <3>1. /\ Host(call)' = Host(call) /\ RefOwnerNamespace' = RefOwnerNamespace
            /\ call'.spec = call.spec
            /\ \A k, rs, ns : Resolved(k, rs, ns)' = Resolved(k, rs, ns)
        BY <1>0, <2>3, SameReads DEF Became, SameCall
      <3>2. us' = us
        <4>1. PICK q : q = call.spec.defaultRemoteUserRef
          OBVIOUS
        <4>2. PICK n : n = RefOwnerNamespace
          OBVIOUS
        <4>3. Resolved("RemoteUser", {q}, n)' = Resolved("RemoteUser", {q}, n)
          BY <3>1
        <4> QED
          BY <3>1, <4>1, <4>2, <4>3 DEF Resolved
      <3>3. u \in us'
        BY <1>2, <3>2
      <3>4. call'.users = {p}
        BY <2>3 DEF Became
      <3> QED
        BY <1>2, <2>2, <3>1, <3>3, <3>4, Zenon DEF DefaultPush
    <2>7. ReadInv'
      <3>1. call'.pc = "defaultTarget" /\ p \in call'.users /\ call'.quiet = call.quiet
        BY <2>3 DEF Became
      <3>2. UserBindings' = UserBindings
        BY <1>0, <2>3, SameReads DEF Became
      <3>3. call.quiet => UserBindings = {}
        BY <1>0 DEF ReadInv, Defaulting
      <3> QED
        BY <2>6, <3>1, <3>2, <3>3 DEF ReadInv, Working, Defaulting
    <2> QED
      BY <2>3, <2>5, <2>7 DEF CallInv, Became
  <1> QED
    BY <1>1, <1>2, Zenon DEF GetDefaultUser, Defaults

\* The default target is pushed to with the default user.
LEMMA DefaultTargetStep ==
  ASSUME IInv, GetDefaultTarget
  PROVE  CallInv' /\ IsCall(call')
  <1> DEFINE r == call.spec.defaultRemoteTargetRef
             ts == Resolved("RemoteTarget", {r}, RefOwnerNamespace)
             d == call.spec.defaultRemoteUserRef
             us == Resolved("RemoteUser", {d}, RefOwnerNamespace)
  <1>0. ProgressInv /\ ReadInv /\ cached' = cached /\ call.pc = "defaultTarget"
    BY DEF IInv, GetDefaultTarget, cluster
  <1>1. PICK p \in call.users : DefaultPush(p)
    BY <1>0 DEF ReadInv
  <1>2. (CHOOSE x \in call.users : TRUE) = p
    <2>1. call.users = {p}
      BY <1>1 DEF DefaultPush
    <2>2. (CHOOSE x \in {p} : TRUE) = p
      BY Zenon
    <2> QED
      BY <2>1, <2>2
  <1>3. CASE Fails("RemoteTargetNotFound") \/ Fails("WrongRemoteSyncerConfig")
    BY <1>3, FailStep
  <1>4. ASSUME NEW t \in ts, OfUpstream(call, t.obj), End("", {[p EXCEPT !.target = t]})
        PROVE  CallInv' /\ IsCall(call')
    <2>1. PICK q : q = [p EXCEPT !.target = t]
      BY Zenon
    <2>2. p = [target |-> None, user |-> p.user, token |-> p.token] /\ p.token # ""
      BY <1>1 DEF DefaultPush
    <2>a. DOMAIN p = {"target", "user", "token"}
      BY <2>2
    <2>3. End("", {q})
      BY <1>4, <2>1, Zenon
    <2>b. q.target = t /\ q.user = p.user /\ q.token = p.token
      BY <2>1, <2>a, Zenon
    <2>4. q.target = t /\ q.user = p.user /\ q.token # ""
      BY <2>2, <2>b
    <2>5. ASSUME call.quiet
          PROVE  /\ UserBindings = {} /\ Cardinality(UserBindings) <= 1
                 /\ {<<x.target, x.user>> : x \in {q}} = ExpectedDefault
      <3>1. UserBindings = {}
        BY <1>0, <2>5 DEF ReadInv, Defaulting
      <3>2. p.user \in us /\ p.user.obj.gitBaseDomainFQDN = Host(call)
        BY <1>1, <2>5 DEF DefaultPush
      <3>3. ts = {t}
        <4>1. ASSUME NEW x \in ts PROVE x = t
          BY ResolvedOne, Zenon
        <4> HIDE DEF ts
        <4> QED
          BY <4>1
      <3>4. us = {p.user}
        <4>1. ASSUME NEW x \in us, NEW y \in us PROVE x = y
          <5> HIDE DEF ts, r, d
          <5> QED
            BY ResolvedOne, ZenonT(30)
        <4> HIDE DEF us
        <4> QED
          BY <3>2, <4>1
      <3>5. ExpectedDefault = {x \in ts \X us : /\ OfUpstream(call, x[1].obj)
                                               /\ x[2].obj.gitBaseDomainFQDN = Host(call)}
        BY Zenon DEF ExpectedDefault
      <3> HIDE DEF ts, us
      <3>6. ExpectedDefault = {<<t, p.user>>}
        <4>1. ASSUME NEW x \in ExpectedDefault PROVE x = <<t, p.user>>
          BY <3>3, <3>4, <3>5
        <4>2. <<t, p.user>> \in ExpectedDefault
          BY <1>4, <3>2, <3>3, <3>4, <3>5
        <4> QED
          BY <4>1, <4>2
      <3>7. Cardinality(UserBindings) <= 1
        BY <3>1, FS_EmptySet
      <3> QED
        BY <2>4, <3>1, <3>6, <3>7
    <2>6. Cardinality({q}) = 1
      BY FS_Singleton
    <2>7. PICK ps : ps = {q}
      OBVIOUS
    <2>8. /\ ps # {} /\ End("", ps) /\ Cardinality(ps) = 1
          /\ \A x, y \in ps : x = y
          /\ \A x \in ps : x.token # "" /\ OfUpstream(call, x.target.obj)
      BY <1>4, <2>3, <2>4, <2>6, <2>7
    <2>9. call.quiet => /\ UserBindings = {} /\ Cardinality(UserBindings) <= 1
                        /\ {<<x.target, x.user>> : x \in ps} = ExpectedDefault
      BY <2>5, <2>7
    <2> QED
      BY <1>0, <2>8, <2>9, EndStep
  <1> QED
    BY <1>2, <1>3, <1>4, Zenon DEF GetDefaultTarget

\* How a call begins.
Began(user, s, o, pc, e, m) ==
  call' = [[Idle EXCEPT !.pc = "list", !.user = user, !.syncer = s, !.spec = o]
             EXCEPT !.pc = pc, !.error = e, !.unbound = m]

\* The fields of a call that begins.
LEMMA BeganFields ==
  ASSUME NEW user, NEW s, NEW o, NEW pc, NEW e, NEW m, Began(user, s, o, pc, e, m)
  PROVE  /\ IsCall(call')
         /\ call'.pc = pc /\ call'.user = user /\ call'.syncer = s /\ call'.spec = o
         /\ call'.error = e /\ call'.unbound = m /\ call'.pushes = {} /\ call'.bindings = {}
         /\ call'.byDefault = FALSE
  <1>1. /\ IsCall(Idle) /\ Idle.pushes = {} /\ Idle.bindings = {} /\ Idle.byDefault = FALSE
    BY Zenon DEF Idle, IsCall, CallFields, NoPush
  <1>2. PICK c : c = [Idle EXCEPT !.pc = "list", !.user = user, !.syncer = s, !.spec = o]
    BY Zenon
  <1>3. /\ IsCall(c) /\ c.user = user /\ c.syncer = s /\ c.spec = o
        /\ c.pushes = {} /\ c.bindings = {} /\ c.byDefault = FALSE
    BY <1>1, <1>2, Zenon DEF IsCall, CallFields
  <1>4. call' = [c EXCEPT !.pc = pc, !.error = e, !.unbound = m]
    BY <1>2, Zenon DEF Began
  <1> QED
    BY <1>3, <1>4, Zenon DEF IsCall, CallFields

\* An admitted syncer has a namespace for all it refers to.
LEMMA BeginStep ==
  ASSUME IInv, NEW user \in Users, NEW k \in SyncerKinds, NEW s \in OfKind(k), Begin(user, s)
  PROVE  CallInv' /\ IsCall(call')
  <1> DEFINE o == cached[s]
             rs == RemoteSyncerRefs(o, s.ns)
             c == [Idle EXCEPT !.pc = "list", !.user = user, !.syncer = s, !.spec = o]
             denied == ~AuthorizeCrossNamespaceRefs(rights, user, rs, s.ns, {ManagerNamespace})
             m == MatchingBindings(c, cached) = {}
  <1>0. cached' = cached /\ o # None
    BY Zenon DEF Begin, cluster
  <1>1. ~MissingRefNamespace(rs)
    BY <1>0 DEF IInv, StoreInv, GoodStore
  <1>2. PICK e, pc : /\ Began(user, s, o, pc, e, m)
                     /\ \/ e = "" /\ pc = "list"
                        \/ e = "CrossNamespaceRefDenied" /\ pc = "end"
    <2>1. CASE denied
      <3>1. Began(user, s, o, "end", "CrossNamespaceRefDenied", m)
        BY <1>1, <2>1, Zenon DEF Begin, Began
      <3> QED
        BY <3>1, Zenon
    <2>2. CASE ~denied
      <3>1. Began(user, s, o, "list", "", m)
        BY <1>1, <2>2, Zenon DEF Begin, Began
      <3> QED
        BY <3>1, Zenon
    <2> QED
      BY <2>1, <2>2
  <1>3. /\ c.user = user /\ c.syncer = s /\ c.spec = o
    BY Zenon DEF Idle
  <1> HIDE DEF m, o, rs, c, denied
  <1>4. /\ IsCall(call') /\ call'.pc = pc /\ call'.user = user /\ call'.syncer = s
        /\ call'.spec = o /\ call'.error = e /\ call'.unbound = m /\ call'.pushes = {}
        /\ call'.byDefault = FALSE
    BY <1>2, BeganFields, Zenon
  <1>5. MatchingBindings(call, cached)' = MatchingBindings(c, cached)
    BY <1>0, <1>3, <1>4, Zenon DEF MatchingBindings, IdentityNamespace
  <1>6. ProgressInv'
    <2>1. MatchingBindings(call, cached)' = {} => call'.unbound
      BY <1>4, <1>5 DEF m
    <2> QED
      BY <1>2, <1>4, <2>1 DEF ProgressInv, Working, Defaulting
  <1>7. ReadInv'
    BY <1>2, <1>4 DEF ReadInv, Working, Defaulting
  <1>8. AssociationExact'
    BY <1>2, <1>4 DEF AssociationExact
  <1> QED
    BY <1>4, <1>6, <1>7, <1>8 DEF CallInv

\* A change of the caches in between leaves a call in order: what it has read
\* is no longer known to be current.
LEMMA DisturbStep ==
  ASSUME IInv, Disturb(cached')
  PROVE  CallInv' /\ IsCall(call')
  <1>0. ProgressInv /\ ReadInv /\ AssociationExact /\ IsCall(call)
    BY DEF IInv, ProgressInv
  <1>1. /\ IsCall(call') /\ SameCall
        /\ call'.pc = call.pc /\ call'.bindings = call.bindings
        /\ call'.targets = call.targets /\ call'.users = call.users
        /\ call'.pushes = call.pushes /\ call'.error = call.error
        /\ call'.byDefault = call.byDefault
        /\ call.unbound => call'.unbound
        /\ call.pc \notin {"idle", "end"} /\ MatchingBindings(call, cached') = {} => call'.unbound
        /\ call.pc # "idle" => ~call'.quiet
    BY <1>0, DisturbFacts
  <1>2. MatchingBindings(call, cached)' = MatchingBindings(call, cached')
    BY <1>1, Zenon DEF MatchingBindings, IdentityNamespace, SameCall
  <1>3. ProgressInv'
    BY <1>0, <1>1, <1>2 DEF ProgressInv, Working, Defaulting
  <1>4. ReadInv'
    <2>1. CASE call.pc = "check"
      BY <1>0, <1>1, <2>1 DEF ReadInv, Working, Defaulting
    <2>2. CASE call.pc \in Working
      <3>1. PICK b \in call.bindings : OneBinding(b)
        BY <1>0, <2>2 DEF ReadInv
      <3>2. ~call'.quiet /\ call'.bindings = {b}
        BY <1>1, <2>2, <3>1 DEF OneBinding, Working
      <3>3. OneBinding(b)'
        BY <3>2 DEF OneBinding
      <3> QED
        BY <1>1, <2>2, <3>2, <3>3 DEF ReadInv, Working, Defaulting
    <2>3. CASE call.pc = "defaultTarget"
      <3>1. PICK p \in call.users : DefaultPush(p)
        BY <1>0, <2>3 DEF ReadInv
      <3>2. ~call'.quiet /\ call'.users = {p}
        BY <1>1, <2>3, <3>1 DEF DefaultPush
      <3>3. DefaultPush(p)'
        BY <3>1, <3>2 DEF DefaultPush
      <3> QED
        BY <1>1, <2>3, <3>2, <3>3 DEF ReadInv, Working, Defaulting
    <2>4. CASE call.pc \notin Working \cup {"check", "defaultTarget"}
      BY <1>1, <2>4 DEF ReadInv, Defaulting
    <2> QED
      BY <2>1, <2>2, <2>3, <2>4
  <1>5. AssociationExact'
    <2> SUFFICES ASSUME call'.pc = "end" PROVE AssociationExact'
      BY DEF AssociationExact
    <2>1. ~call'.quiet /\ call'.pushes = call.pushes /\ call'.error = call.error
      BY <1>1
    <2>2. \A t : OfUpstream(call, t)' <=> OfUpstream(call, t)
      BY <1>1 DEF OfUpstream, SameCall
    <2>3. /\ call.error = "" <=> call.pushes # {}
          /\ \A p \in call.pushes : p.token # "" /\ OfUpstream(call, p.target.obj)
      BY <1>0, <1>1 DEF AssociationExact
    <2> QED
      BY <2>1, <2>2, <2>3 DEF AssociationExact
  <1> QED
    BY <1>1, <1>3, <1>4, <1>5 DEF CallInv

\* What changes neither the caches nor the call leaves a call in order.
LEMMA SameCallStep ==
  ASSUME IInv, call' = call, cached' = cached
  PROVE  CallInv' /\ IsCall(call')
  <1>1. ProgressInv' /\ IsCall(call')
    BY DEF IInv, ProgressInv, MatchingBindings
  <1>2. SameCall
    BY DEF SameCall
  <1>3. /\ UserBindings' = UserBindings /\ \A b : BindingErrors(b)' = BindingErrors(b)
        /\ \A k, rs, ns : Resolved(k, rs, ns)' = Resolved(k, rs, ns)
        /\ Host(call)' = Host(call) /\ \A t : OfUpstream(call, t)' <=> OfUpstream(call, t)
        /\ ExpectedPairs' = ExpectedPairs /\ ExpectedDefault' = ExpectedDefault
    BY <1>2, SameReads
  <1>4. ASSUME NEW b, OneBinding(b) PROVE OneBinding(b)'
    BY <1>3, <1>4, Zenon DEF OneBinding
  <1>5. ASSUME NEW p, DefaultPush(p) PROVE DefaultPush(p)'
    BY <1>5, Zenon DEF DefaultPush, Resolved, Get, RefOwnerNamespace, Host
  <1>6. ReadInv'
    BY <1>3, <1>4, <1>5 DEF IInv, ReadInv
  <1>7. AssociationExact'
    BY <1>3, Zenon DEF IInv, AssociationExact
  <1> QED
    BY <1>1, <1>6, <1>7 DEF CallInv

---------------------------------------------------------------------------
(* The theorems.                                                           *)

\* The store of a running cluster, and no call, satisfy the invariant.
LEMMA InitIInv == Init => IInv
  <1> SUFFICES ASSUME Init PROVE IInv
    OBVIOUS
  <1>1. /\ objs = InitialObjects /\ cached = objs
        /\ rights = InitialRights /\ labelled = {} /\ changes = 0
        /\ call = Idle /\ author = [x \in Ids |-> None]
        /\ vouched = [x \in Ids |-> RefsOf(x, InitialObjects[x])]
    BY DEF Init
  <1>2. /\ IsCall(Idle) /\ Idle.pc = "idle" /\ Idle.error = "" /\ Idle.pushes = {}
        /\ Idle.byDefault = FALSE
    BY Zenon DEF Idle, IsCall, CallFields, NoPush
  <1>3. \A x \in Ids : vouched[x] = RefsOf(x, objs[x]) /\ author[x] = None
    BY <1>1
  <1>4. \A x \in Ids : objs[x] \in Candidates[x] \cup {None}
    BY <1>1, AssociationAssumption
  <1>5. TypeOK
    <2>1. \A x \in OfKind("RemoteUser") :
            objs[x] # None => objs[x].k8sUser \in {Sanitize(u) : u \in Users} \cup {None}
      BY <1>4, AssociationAssumption DEF OfKind
    <2>2. \A k \in SyncerKinds : \A x \in OfKind(k) :
            objs[x] # None => DOMAIN objs[x] = SyncerFields(x)
      BY <1>4, AssociationAssumption DEF OfKind
    <2>3. /\ rights \subseteq Rights /\ labelled \subseteq Namespaces
          /\ author \in [Ids -> Users \cup {None}]
      BY <1>1, AssociationAssumption
    <2>4. changes \in 0 .. MaxChanges
      <3>1. MaxChanges \in Nat
        BY AssociationAssumption
      <3> QED
        BY <1>1, <3>1
    <2>5. DOMAIN call = DOMAIN Idle
      BY <1>1
    <2> QED
      BY <1>3, <2>1, <2>2, <2>3, <2>4, <2>5, Zenon DEF TypeOK
  <1>6. StoreInv
    <2>1. objs = [x \in Ids |-> objs[x]] /\ vouched = [x \in Ids |-> vouched[x]]
      BY <1>1, AssociationAssumption
    <2>2. ASSUME NEW k \in SyncerKinds, NEW x \in OfKind(k), objs[x] # None
          PROVE  ~MissingRefNamespace(RemoteSyncerRefs(objs[x], x.ns))
      <3>1. x \in Ids /\ x.kind \in SyncerKinds /\ Validated(x, objs[x])
        BY <1>1, <2>2, StoredWasAdmitted DEF OfKind
      <3> QED
        BY <3>1, ValidatedResolves
    <2> QED
      BY <1>1, <1>4, <2>1, <2>2 DEF StoreInv, GoodStore, OfKind
  <1>7. ReferencesVouched
    BY <1>3 DEF ReferencesVouched
  <1>8. ProgressInv /\ ReadInv /\ AssociationExact
    BY <1>1, <1>2 DEF ProgressInv, ReadInv, AssociationExact, Working, Defaulting
  <1> QED
    BY <1>5, <1>6, <1>7, <1>8 DEF IInv

\* A RemoteSyncer keeps its fields on its way through the older version.
LEMMA ConversionKeepsFields ==
  ASSUME NEW spec, DOMAIN spec = RemoteSyncerFields
  PROVE  DOMAIN ConvertTo(ConvertFrom(spec)) = RemoteSyncerFields
  <1> DEFINE new == {"bypassAllServiceAccounts", "sopsSecretRef"}
             old == ConvertFrom(spec)
  <1>1. DOMAIN old = RemoteSyncerFields \ new
    BY Zenon DEF ConvertFrom
  <1> HIDE DEF old
  <1>2. DOMAIN ConvertTo(old) = DOMAIN old \cup new
    BY Zenon DEF ConvertTo
  <1>3. new \subseteq RemoteSyncerFields
    BY DEF RemoteSyncerFields
  <1> HIDE DEF new
  <1>4. DOMAIN ConvertTo(old) = RemoteSyncerFields
    BY <1>1, <1>2, <1>3
  <1> QED
    BY <1>4 DEF old

\* Everything users do to an object is a write of something they can send.
LEMMA SentByUsers ==
  ASSUME IInv, NEW user \in Users, NEW x \in Ids,
         Apply(user, x) \/ Delete(user, x) \/ ApplyV1beta4(user, x)
  PROVE  \E sent : Sent(x, sent) /\ Write(user, x, sent)
  <1>1. CASE Apply(user, x)
    BY <1>1 DEF Apply, Sent
  <1>2. CASE Delete(user, x)
    BY <1>2 DEF Delete, Sent
  <1>3. CASE ApplyV1beta4(user, x)
    <2>1. PICK new \in Candidates[x] \cup {objs[x]} :
            new # None /\ Write(user, x, ConvertTo(ConvertFrom(new))) /\ x.kind = "RemoteSyncer"
      BY <1>3, Zenon DEF ApplyV1beta4
    <2>2. x \in OfKind("RemoteSyncer") /\ "RemoteSyncer" \in SyncerKinds
      BY <2>1 DEF OfKind, SyncerKinds
    <2>3. DOMAIN new = SyncerFields(x) /\ SyncerFields(x) = RemoteSyncerFields
      BY <2>1, <2>2, AssociationAssumption DEF IInv, TypeOK, SyncerFields
    <2>4. Sent(x, ConvertTo(ConvertFrom(new)))
      BY <2>1, <2>3, ConversionKeepsFields DEF Sent
    <2> QED
      BY <2>1, <2>4
  <1> QED
    BY <1>1, <1>2, <1>3

\* Every step keeps the invariant.
LEMMA NextIInv ==
  ASSUME IInv, [Next]_vars
  PROVE  IInv'
  <1>1. ASSUME CallInv', IsCall(call'), UNCHANGED cluster
        PROVE  IInv'
    BY <1>1, StoreKept DEF IInv, CallInv
  <1>2. ASSUME NEW user \in Users, NEW x \in Ids,
               Apply(user, x) \/ Delete(user, x) \/ ApplyV1beta4(user, x)
        PROVE  IInv'
    <2>1. PICK sent : Sent(x, sent) /\ Write(user, x, sent)
      BY <1>2, SentByUsers
    <2>2. call' = call /\ cached' = cached
      BY <2>1, Zenon DEF Write
    <2>3. CallInv' /\ IsCall(call')
      BY <2>2, SameCallStep
    <2>4. DOMAIN call' = DOMAIN Idle
      BY <2>3, CallDomain
    <2>5. StoreInv' /\ ReferencesVouched' /\ TypeOK'
      BY <2>1, <2>4, WriteStep
    <2> QED
      BY <2>3, <2>5 DEF IInv, CallInv
  <1>3. CASE ChangeRights \/ LabelNamespace
    <2>1. /\ objs' = objs /\ author' = author /\ vouched' = vouched
          /\ call' = call /\ cached' = cached
          /\ changes < MaxChanges /\ changes' = changes + 1
      BY <1>3, Zenon DEF ChangeRights, LabelNamespace
    <2>2. CallInv' /\ IsCall(call')
      BY <2>1, SameCallStep
    <2>3. rights' \subseteq Rights /\ labelled' \subseteq Namespaces
      BY <1>3 DEF IInv, TypeOK, ChangeRights, LabelNamespace
    <2>4. changes' \in 0 .. MaxChanges
      <3>1. MaxChanges \in Nat /\ changes \in 0 .. MaxChanges
        BY AssociationAssumption DEF IInv, TypeOK
      <3> QED
        BY <2>1, <3>1
    <2>5. DOMAIN call' = DOMAIN Idle
      BY <2>2, CallDomain
    <2>6. TypeOK'
      BY <2>1, <2>3, <2>4, <2>5, Zenon DEF IInv, TypeOK
    <2>7. StoreInv' /\ ReferencesVouched'
      BY <2>1, Zenon DEF IInv, StoreInv, GoodStore, ReferencesVouched
    <2> QED
      BY <2>2, <2>6, <2>7 DEF IInv, CallInv
  <1>4. CASE Intercept
    <2>1. UNCHANGED cluster
      BY <1>4, Zenon DEF Intercept, Begin, ListBindings, CheckBindings, GetBinding,
                         ResolveTargets, ResolveUsers, Associate, GetDefaultUser, GetDefaultTarget
    <2>2. CallInv' /\ IsCall(call')
      BY <1>4, BeginStep, ListStep, CheckStep, BindingStep, ResolveStep, AssociateStep,
         DefaultUserStep, DefaultTargetStep DEF Intercept
    <2> QED
      BY <1>1, <2>1, <2>2
  <1>5. CASE \E x \in Ids : Observe(x.kind)
    <2>1. PICK k : Observe(k)
      BY <1>5
    <2>2. /\ Disturb(cached')
          /\ cached' = [x \in Ids |-> IF x.kind = k THEN objs[x] ELSE cached[x]]
          /\ objs' = objs /\ rights' = rights /\ labelled' = labelled
          /\ changes' = changes /\ author' = author /\ vouched' = vouched
      BY <2>1, Zenon DEF Observe
    <2>3. CallInv' /\ IsCall(call')
      BY <2>2, DisturbStep
    <2>4. DOMAIN call' = DOMAIN Idle
      BY <2>3, CallDomain
    <2>5. TypeOK'
      BY <2>2, <2>4, Zenon DEF IInv, TypeOK
    <2>6. ReferencesVouched'
      BY <2>2, Zenon DEF IInv, ReferencesVouched
    <2>7. \A x \in Ids : cached'[x] \in {objs[x], cached[x]}
      BY <2>2
    <2>8. GoodStore(cached')
      BY <2>7 DEF IInv, StoreInv, GoodStore, OfKind
    <2>9. StoreInv'
      BY <2>2, <2>8 DEF IInv, StoreInv, GoodStore
    <2> QED
      BY <2>3, <2>5, <2>6, <2>9 DEF IInv, CallInv
  <1>6. CASE UNCHANGED vars
    <2>1. call' = call /\ UNCHANGED cluster /\ cached' = cached
      BY <1>6 DEF vars, cluster
    <2>2. CallInv' /\ IsCall(call')
      BY <2>1, SameCallStep
    <2> QED
      BY <1>1, <2>1, <2>2
  <1> QED
    BY <1>2, <1>3, <1>4, <1>5, <1>6 DEF Next

\* The invariant holds in every reachable state.
LEMMA InvariantHolds == Spec => []IInv
  <1>1. IInv /\ [Next]_vars => IInv'
    BY NextIInv
  <1> QED
    BY InitIInv, <1>1, PTL DEF Spec

\* Stamps of RemoteUsers are hashes of users, and syncers keep their fields,
\* also when they are written through the older API version.
THEOREM AssociationTypes == Spec => []TypeOK
  <1>1. IInv => TypeOK
    BY DEF IInv
  <1> QED
    BY InvariantHolds, <1>1, PTL

\* Whatever is stored, its author could get what it refers to at the time of
\* the write: the webhooks of bindings, RemoteUsers and syncers let nothing
\* else through, whatever an administrator grants and revokes.
THEOREM AuthorsCouldGetReferences == Spec => []ReferencesVouched
  <1>1. IInv => ReferencesVouched
    BY DEF IInv
  <1> QED
    BY InvariantHolds, <1>1, PTL

\* No interception fails for a reference without a namespace: the validators
\* let no such syncer in, through either API version.
THEOREM AdmittedSyncersResolve == Spec => []AdmittedResolves
  <1>1. IInv => AdmittedResolves
    BY DEF IInv, ProgressInv, AdmittedResolves
  <1> QED
    BY InvariantHolds, <1>1, PTL

\* GetUserInfoRemoteTargetsAssociation falls back to the syncer's default
\* identity only for a user of whom the manager's cache showed no binding at
\* some time during the call: however the caches change under it, it never
\* drops a binding it found and could not use.
THEOREM DefaultOnlyIfUnbound == Spec => []BoundNeverDefault
  <1>1. IInv => BoundNeverDefault
    BY DEF IInv, ProgressInv, BoundNeverDefault
  <1> QED
    BY InvariantHolds, <1>1, PTL

\* A call during which no cache changes pushes to exactly the targets that the
\* user's binding and the syncer select, with the identity of their host; a
\* failed call pushes nothing, and no push is without a token or to another
\* upstream, whatever changes.
THEOREM AssociationIsExact == Spec => []AssociationExact
  <1>1. IInv => AssociationExact
    BY DEF IInv
  <1> QED
    BY InvariantHolds, <1>1, PTL

\* What a step writes, and who.
LEMMA ChangesAreWrites ==
  ASSUME IInv, [Next]_vars, NEW x \in Ids, objs'[x] # objs[x]
  PROVE  \E user \in Users : \E sent :
           Sent(x, sent) /\ Write(user, x, sent) /\ author'[x] = user
  <1>1. /\ ~(UNCHANGED cluster) /\ ~(ChangeRights \/ LabelNamespace)
        /\ ~(\E y \in Ids : Observe(y.kind)) /\ ~Intercept /\ ~(UNCHANGED vars)
    BY Zenon DEF cluster, vars, ChangeRights, LabelNamespace, Observe, Intercept, Begin, ListBindings,
                 CheckBindings, GetBinding, ResolveTargets, ResolveUsers, Associate,
                 GetDefaultUser, GetDefaultTarget
  <1>2. PICK user \in Users, y \in Ids : Apply(user, y) \/ Delete(user, y) \/ ApplyV1beta4(user, y)
    BY <1>1 DEF Next
  <1>3. PICK sent : Sent(y, sent) /\ Write(user, y, sent)
    BY <1>2, SentByUsers
  <1>4. \E new : objs' = [objs EXCEPT ![y] = new] /\ author' = [author EXCEPT ![y] = user]
    BY <1>3, Zenon DEF Write
  <1>5. objs = [z \in Ids |-> objs[z]] /\ author \in [Ids -> Users \cup {None}]
    BY DEF IInv, StoreInv, TypeOK
  <1>6. y = x /\ author'[x] = user
    BY <1>4, <1>5
  <1> QED
    BY <1>3, <1>6

\* The stored object is the one sent, stamped if it is a RemoteUser.
LEMMA WrittenObject ==
  ASSUME IInv, NEW user \in Users, NEW x \in Ids, NEW sent, Write(user, x, sent)
  PROVE  /\ objs'[x] = IF x.kind = "RemoteUser" THEN StampRemoteUser(user, objs[x], sent) ELSE sent
         /\ Permitted(user, x, objs[x], IF objs'[x] = None THEN objs[x] ELSE objs'[x])
  <1> DEFINE new == IF x.kind = "RemoteUser" THEN StampRemoteUser(user, objs[x], sent) ELSE sent
  <1>1. /\ objs' = [objs EXCEPT ![x] = new]
        /\ Permitted(user, x, objs[x], IF new = None THEN objs[x] ELSE new)
    BY Zenon DEF Write
  <1> HIDE DEF new
  <1>2. objs = [z \in Ids |-> objs[z]]
    BY DEF IInv, StoreInv
  <1>3. objs'[x] = new
    BY <1>1, <1>2
  <1> QED
    BY <1>1, <1>3, Zenon DEF new

\* The mutating webhook of RemoteUsers: an ordinary user changes or deletes
\* only the managed RemoteUsers stamped with that user, and leaves no other
\* stamp behind.
THEOREM ManagedAreOwn == Spec => OwnRemoteUsers
  <1> DEFINE Own ==
        \A x \in OfKind("RemoteUser") : objs'[x] # objs[x] =>
          LET ordinary == author'[x] \notin SystemUsers
              stamp    == Sanitize(author'[x])
          IN /\ ordinary /\ objs[x] # None => (objs[x].managed => objs[x].k8sUser = stamp)
             /\ ordinary /\ objs'[x] # None => (objs'[x].managed => objs'[x].k8sUser = stamp)
  <1>1. ASSUME IInv, [Next]_vars PROVE Own
    <2> SUFFICES ASSUME NEW x \in OfKind("RemoteUser"), objs'[x] # objs[x],
                        author'[x] \notin SystemUsers
                 PROVE  /\ objs[x] # None =>
                             (objs[x].managed => objs[x].k8sUser = Sanitize(author'[x]))
                        /\ objs'[x] # None =>
                             (objs'[x].managed => objs'[x].k8sUser = Sanitize(author'[x]))
      BY Zenon
    <2>0. x \in Ids /\ x.kind = "RemoteUser"
      BY DEF OfKind
    <2>user. PICK user \in Users : \E sent :
                 Sent(x, sent) /\ Write(user, x, sent) /\ author'[x] = user
      BY <1>1, <2>0, ChangesAreWrites
    <2>1. PICK sent : Sent(x, sent) /\ Write(user, x, sent) /\ author'[x] = user
      BY <2>user
    <2>2. /\ objs'[x] = StampRemoteUser(user, objs[x], sent)
          /\ MayWriteRemoteUser(user, objs[x])
      BY <1>1, <2>0, <2>1, WrittenObject, PermittedByKind
    <2>3. objs[x] # None => (objs[x].managed => objs[x].k8sUser = Sanitize(author'[x]))
      BY <2>1, <2>2 DEF MayWriteRemoteUser
    <2>4. ASSUME objs'[x] # None, objs'[x].managed
          PROVE  objs'[x].k8sUser = Sanitize(user)
      <3>1. sent # None /\ sent \in Candidates[x]
        BY <2>0, <2>1, <2>2, <2>4, Zenon DEF StampRemoteUser, Sent
      <3>2. "k8sUser" \in DOMAIN sent
        BY <2>0, <3>1, AssociationAssumption DEF OfKind, RemoteUserFields
      <3>3. sent.managed
        BY <2>2, <2>4, Zenon DEF StampRemoteUser
      <3>4. objs'[x] = [sent EXCEPT !.k8sUser = Sanitize(user)]
        BY <2>1, <2>2, <3>1, <3>3, Zenon DEF StampRemoteUser
      <3> QED
        BY <3>2, <3>4, Zenon
    <2> QED
      BY <2>1, <2>3, <2>4
  <1>2. IInv /\ [Next]_vars => [Own]_vars
    BY <1>1, Zenon
  <1> QED
    BY InvariantHolds, <1>2, PTL DEF Spec, OwnRemoteUsers

\* The webhooks of the syncers: an ordinary user who writes one may do what it
\* scopes in every namespace it intercepts at that time.
THEOREM SyncersWithinReach == Spec => ScopedWithinReach
  <1> DEFINE Reach ==
        \A k \in SyncerKinds : \A x \in OfKind(k) :
          objs'[x] \notin {objs[x], None} /\ author'[x] \notin SystemUsers =>
            \A n \in Intercepted(x, objs'[x]), rule \in objs'[x].rules :
              \A op \in {o \in rule.operations : OperationToVerb(o) # {}} :
                \/ rule.resource \in UnknownResources
                \/ \E v \in OperationToVerb(op) : CheckAccess(rights, author'[x], v, n, rule.resource)
  <1>1. ASSUME IInv, [Next]_vars PROVE Reach
    <2> SUFFICES ASSUME NEW k \in SyncerKinds, NEW x \in OfKind(k), objs'[x] \notin {objs[x], None},
                        author'[x] \notin SystemUsers,
                        NEW n \in Intercepted(x, objs'[x]), NEW rule \in objs'[x].rules,
                        NEW op \in rule.operations, OperationToVerb(op) # {}
                 PROVE  \/ rule.resource \in UnknownResources
                        \/ \E v \in OperationToVerb(op) :
                             CheckAccess(rights, author'[x], v, n, rule.resource)
      BY Zenon
    <2>0. x \in Ids /\ x.kind \in SyncerKinds
      BY DEF OfKind
    <2>user. PICK user \in Users : \E sent : Write(user, x, sent) /\ author'[x] = user
      BY <1>1, <2>0, ChangesAreWrites
    <2>1. PICK sent : Write(user, x, sent) /\ author'[x] = user
      BY <2>user
    <2>2. Permitted(user, x, objs[x], objs'[x])
      BY <1>1, <2>0, <2>1, WrittenObject
    <2>3. PICK new : new = objs'[x]
      OBVIOUS
    <2> QED
      BY <2>0, <2>1, <2>2, <2>3, PermittedReaches
  <1>2. IInv /\ [Next]_vars => [Reach]_vars
    BY <1>1, Zenon
  <1> QED
    BY InvariantHolds, <1>2, PTL DEF Spec, ScopedWithinReach
=============================================================================
