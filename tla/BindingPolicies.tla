--------------------------- MODULE BindingPolicies ---------------------------
(***************************************************************************)
(* The policies that keep RemoteUserBindings and RemoteTargets up to date: *)
(* the association policy run by the RemoteUser controller, the branch and *)
(* user-specific policies run by the two syncer controllers, and the       *)
(* RemoteUserBinding controller, which prunes dead references.  They act   *)
(* on one identity namespace.                                              *)
(*                                                                         *)
(* Every controller has one worker and reads the informer cache, which     *)
(* lags behind the API server separately for each kind of object: store[k] *)
(* is the sequence of the states of kind k from the cached one to the      *)
(* stored one.  A reconcile is the policies whose turn is still to come    *)
(* and, of the current one, the calls still to make (todo), in groups of   *)
(* calls that belong together.  Each call is one step, and the calls of    *)
(* the four controllers interleave.                                        *)
(***************************************************************************)
EXTENDS Integers, Sequences, FiniteSets, SequencesExt

CONSTANTS
  RemoteUsers,               \* RemoteUser objects
  Users,                     \* Kubernetes users (sanitized user names)
  UserOf,                    \* the k8s-user stamp of a RemoteUser, or None
  Branches,                  \* branch names of the one-or-many-branches lists
  RemoteSyncers, ClusterWideRemoteSyncers,
  Annotations,               \* branches and user-specific annotation, as set
  UpstreamOf,                \* upstream repository and branch of a syncer
  OwnBindings,               \* names of user-owned bindings
  SecretStates,              \* what the Secret of the RemoteUsers can be like
  MaxAttempts,               \* names tried for a managed binding (100)
  MaxLag,                    \* how many writes the caches may miss, in all
  MaxChanges,                \* changes made by users
  MaxDisturbances,           \* restarts, and changes made while unsettled
  None

Syncers == RemoteSyncers \cup ClusterWideRemoteSyncers

ASSUME PoliciesAssumption ==
  /\ UserOf \in [RemoteUsers -> Users \cup {None}]
  /\ None \notin Users \cup RemoteUsers
  /\ Annotations \subseteq (SUBSET Branches) \X BOOLEAN
  /\ Branches \cap Users = {}
  /\ RemoteSyncers \cap ClusterWideRemoteSyncers = {}
  /\ DOMAIN UpstreamOf = Syncers
  /\ "NotFound" \in SecretStates /\ SecretStates \subseteq {"NotFound", "WrongType", "Bound"}
  /\ MaxAttempts \in Nat \ {0} /\ MaxLag \in Nat \ {0}
  /\ {MaxChanges, MaxDisturbances} \subseteq Nat

VARIABLES
  store,      \* kind -> states of its objects, from the cached to the stored
  queue,      \* controller -> keys waiting for a reconcile
  work,       \* controller -> the reconcile in progress, or Idle
  changes, overlaps, restarts

vars == <<store, queue, work, changes, overlaps, restarts>>

Controllers ==
  {"RemoteUser", "RemoteUserBinding", "RemoteSyncer", "ClusterWideRemoteSyncer"}

(***************************************************************************)
(* The objects.  A RemoteTarget is named by its upstream and its target    *)
(* branch; the policy label tells branch targets from user-specific ones,  *)
(* whose branch is the user.  A managed binding is named after its user,   *)
(* with a numeric suffix when the name is taken.                           *)
(***************************************************************************)
Upstreams == {UpstreamOf[s] : s \in Syncers}
RemoteTargets == [up : Upstreams, to : Branches \cup Users]
BranchTargets == [up : Upstreams, to : Branches]
Names == [user : Users, n : 0 .. MaxAttempts - 1]

ASSUME FinitelyMany == IsFiniteSet(Names) /\ IsFiniteSet(RemoteTargets)

\* An object under deletion has a finalizer left: without, it is gone.
UserObjects ==
  {o \in [managed : BOOLEAN, fins : SUBSET {"association"}, deleting : BOOLEAN,
          status : SecretStates \cup {""}] : o.deleting => o.fins # {}}

BindingObjects ==
  [managed : BOOLEAN, remoteUserRefs : SUBSET RemoteUsers,
   remoteTargetRefs : SUBSET RemoteTargets,
   bound : SUBSET RemoteUsers, notBound : SUBSET RemoteUsers]

NewBinding(managed, refs) ==
  [managed |-> managed, remoteUserRefs |-> refs, remoteTargetRefs |-> {},
   bound |-> {}, notBound |-> {}]

SyncerObjects ==
  {o \in [branches : SUBSET Branches, userSpecific : BOOLEAN,
          fins : SUBSET {"branch", "user"}, deleting : BOOLEAN] : o.deleting => o.fins # {}}

(***************************************************************************)
(* The API server and the shared informer cache.                           *)
(***************************************************************************)
Kinds == {"users", "bindings", "targets", "syncers", "secrets"}

Cached(k) == Head(store[k])
Stored(k) == Last(store[k])

\* A write with the resource version that was read succeeds only when the
\* object has not changed since; an update that changes nothing is no event.
Current(k, x) == \A i \in DOMAIN store[k] : store[k][i][x] = Cached(k)[x]

Lag ==
  Len(store["users"]) + Len(store["bindings"]) + Len(store["targets"])
    + Len(store["syncers"]) + Len(store["secrets"]) - 5

Put(k, v) ==
  /\ v # Stored(k) => Lag < MaxLag
  /\ store' = IF v = Stored(k) THEN store ELSE [store EXCEPT ![k] = Append(@, v)]

PutObject(k, x, v) == Put(k, [Stored(k) EXCEPT ![x] = v])

WithFinalizers(o, fins) == [o EXCEPT !.fins = fins]

\* An object with finalizers is only marked; without, it is gone.
Deleted(o) == IF o.fins = {} THEN None ELSE [o EXCEPT !.deleting = TRUE]

KindOf(c) == IF c = "RemoteUser" THEN "users" ELSE "syncers"

Live(k, s) == {x \in DOMAIN s : s[x] # None}

ManagedBindings(bs) == {b \in Live("bindings", bs) : bs[b].managed}

(***************************************************************************)
(* Conditions of the policies (Applies).                                   *)
(***************************************************************************)
Policies(c) == IF c = "RemoteUser" THEN <<"association">> ELSE <<"branch", "user">>

Applies(p, o) ==
  CASE p = "association" -> o.managed
    [] p = "branch"      -> o.branches # {}
    [] p = "user"        -> o.userSpecific

\* The other syncers of either kind that carry the annotation of a policy.
OtherSyncersWith(self, p) ==
  {s \in Live("syncers", Cached("syncers")) \ {self} :
     Applies(p, Cached("syncers")[s])}

\* Mutant of UsedByOther: only the syncers of the same kind are asked.
UsedBySameKind(self, t) ==
  \E s \in OtherSyncersWith(self, IF t \in BranchTargets THEN "branch" ELSE "user") :
    /\ s \in RemoteSyncers <=> self \in RemoteSyncers
    /\ UpstreamOf[s] = t.up
    /\ t \in BranchTargets => t.to \in Cached("syncers")[s].branches

UsedByOther(self, t) ==
  \E s \in OtherSyncersWith(self, IF t \in BranchTargets THEN "branch" ELSE "user") :
    /\ UpstreamOf[s] = t.up
    /\ t \in BranchTargets => t.to \in Cached("syncers")[s].branches

\* The policy's targets of the syncer's upstream, as cached.
ManagedTargets(self, p) ==
  {t \in Cached("targets") :
     t.up = UpstreamOf[self] /\ (t \in BranchTargets <=> p = "branch")}

(***************************************************************************)
(* The calls of a reconcile, in groups: one group for each turn of a loop. *)
(***************************************************************************)
Call(do, on, arg) == [do |-> do, on |-> on, arg |-> arg]

ForEach(S, Calls(_)) == [i \in 1 .. Cardinality(S) |-> Calls(SetToSeq(S)[i])]

\* Deletes a branch target, then removes it from the bindings.
DeleteBranchTarget(t) ==
  <<Call("deleteTarget", t, {}), Call("removeRefs", t, {})>>

\* Removes a user-specific target from the bindings, then deletes it.
DeleteUserTarget(t) ==
  <<Call("removeRefs", t, {}), Call("deleteTarget", t, {})>>

ReconcileBranchTargets(self, o) ==
  LET existing == ManagedTargets(self, "branch")
      missing  == [up : {UpstreamOf[self]}, to : o.branches] \ existing
  IN ForEach(missing, LAMBDA t : <<Call("createTarget", t, {})>>)
       \o << <<Call("pruneBranches", self, existing)>> >>

PruneBranches(self, o, existing) ==
  ForEach({t \in existing : t.to \notin o.branches /\ ~UsedByOther(self, t)},
          DeleteBranchTarget)

CleanupBranchTargets(self) ==
  ForEach({t \in ManagedTargets(self, "branch") : ~UsedByOther(self, t)},
          DeleteBranchTarget)

\* One target per managed binding, created when it was not listed, and
\* referenced from the binding.
ReconcileUserTargets(self) ==
  LET existing == ManagedTargets(self, "user")
      rubs     == ManagedBindings(Cached("bindings"))
      Target(b) == [up |-> UpstreamOf[self], to |-> b.user]
      Ensure(b) ==
        (IF Target(b) \in existing THEN <<>>
         ELSE <<Call("createTarget", Target(b), {})>>)
        \o <<Call("addTargetRef", b, {Target(b)})>>
      stale == {t \in existing : \A b \in rubs : b.user # t.to}
  IN ForEach(rubs, Ensure) \o << <<Call("pruneUsers", self, stale)>> >>

PruneUsers(self, stale) ==
  ForEach({t \in stale : ~UsedByOther(self, t)}, DeleteUserTarget)

CleanupUserTargets(self) ==
  ForEach({t \in ManagedTargets(self, "user") : ~UsedByOther(self, t)}, DeleteUserTarget)

\* A RemoteUser without the k8s-user stamp waits for the mutating webhook.
ReconcileAssociation(ru) ==
  IF UserOf[ru] = None THEN <<>> ELSE << <<Call("findBinding", ru, {})>> >>

CleanupAssociation(ru) ==
  IF UserOf[ru] = None THEN <<>>
  ELSE ForEach({b \in ManagedBindings(Cached("bindings")) : b.user = UserOf[ru]},
               LAMBDA b : <<Call("removeUserRefs", b, {ru})>>)

PolicyReconcile(p, x, o) ==
  CASE p = "association" -> ReconcileAssociation(x)
    [] p = "branch"      -> ReconcileBranchTargets(x, o)
    [] p = "user"        -> ReconcileUserTargets(x)

PolicyCleanup(p, x) ==
  CASE p = "association" -> CleanupAssociation(x)
    [] p = "branch"      -> CleanupBranchTargets(x)
    [] p = "user"        -> CleanupUserTargets(x)

(***************************************************************************)
(* A controller's worker.                                                  *)
(***************************************************************************)
Todo(c) == work[c].todo
Call1(c) == Head(Head(Todo(c)))

Later(todo) ==
  IF Len(Head(todo)) = 1 THEN Tail(todo) ELSE <<Tail(Head(todo))>> \o Tail(todo)

\* A worker with nothing left to do.
Idle == [policies |-> <<>>, todo |-> <<>>]

Job(x, o, cleaning, policies, calls) ==
  IF policies = <<>> /\ calls = <<>> THEN Idle
  ELSE [key |-> x, obj |-> o, cleaning |-> cleaning, policies |-> policies, todo |-> calls]

Continue(c, o, calls) ==
  work' = [work EXCEPT ![c] = Job(work[c].key, o, work[c].cleaning, work[c].policies, calls)]

NextCall(c) == Continue(c, work[c].obj, Later(Todo(c)))

\* The turn of a policy: reconcile, or clean up and drop the finalizer.
Turn(p, x, o, cleaning) ==
  LET drop == IF p \in o.fins THEN << <<Call("removeFinalizer", p, {})>> >> ELSE <<>>
  IN IF cleaning THEN IF p \in o.fins THEN PolicyCleanup(p, x) \o drop ELSE <<>>
     ELSE IF Applies(p, o) THEN PolicyReconcile(p, x, o)
     ELSE PolicyCleanup(p, x) \o drop

\* What a read expands into: the bindings that may hold a reference, the
\* targets no syncer asks for any more.
Read(x, o, call) ==
  CASE call.do = "removeRefs" ->
         ForEach(ManagedBindings(Cached("bindings")),
                 LAMBDA b : <<Call("removeTargetRef", b, {call.on})>>)
    [] call.do = "pruneBranches" -> PruneBranches(x, o, call.arg)
    [] call.do = "pruneUsers"    -> PruneUsers(x, call.arg)

Reads == {"removeRefs", "pruneBranches", "pruneUsers"}

\* Mutant of Abort: the error of a cleanup is logged and not returned.
AbortCleanup(c) ==
  /\ work' = [work EXCEPT ![c] =
       IF work[c].cleaning \/ Call1(c).do = "ensureFinalizers" THEN Idle
       ELSE Job(work[c].key, work[c].obj, FALSE, work[c].policies, <<>>)]
  /\ queue' = IF work[c].cleaning THEN queue
              ELSE [queue EXCEPT ![c] = @ \cup {work[c].key}]

\* An error ends the policy, or the whole reconcile when its finalizers are
\* not stored or the object is under deletion, and the key is queued again.
Abort(c) ==
  /\ work' = [work EXCEPT ![c] =
       IF work[c].cleaning \/ Call1(c).do = "ensureFinalizers" THEN Idle
       ELSE Job(work[c].key, work[c].obj, FALSE, work[c].policies, <<>>)]
  /\ queue' = [queue EXCEPT ![c] = @ \cup {work[c].key}]

\* Before the policies run, the finalizers of the applicable ones are ensured.
Needed(c, o) == {p \in ToSet(Policies(c)) : Applies(p, o)}

RunPolicies(c, o) ==
  IF o.deleting \/ Needed(c, o) = {} THEN <<>>
  ELSE << <<Call("ensureFinalizers", None, Needed(c, o))>> >>

Start(c, x, o) ==
  work' = [work EXCEPT ![c] = IF o = None THEN Idle
                              ELSE Job(x, o, o.deleting, Policies(c), RunPolicies(c, o))]

Take(c, x) ==
  /\ work[c] = Idle
  /\ x \in queue[c]
  /\ queue' = [queue EXCEPT ![c] = @ \ {x}]

Env == <<changes, overlaps, restarts>>

\* RemoteUser: the status follows the Secret (an update conflict is ignored),
\* then the association policy runs.
ReconcileRemoteUser(ru) ==
  LET o == Cached("users")[ru]
  IN /\ Take("RemoteUser", ru)
     /\ Start("RemoteUser", ru, o)
     /\ IF o = None \/ ~Current("users", ru) THEN UNCHANGED store
        ELSE IF o.deleting THEN UNCHANGED store
        ELSE PutObject("users", ru, [o EXCEPT !.status = Cached("secrets")])
     /\ UNCHANGED Env

ReconcileSyncer(c, s) ==
  /\ s \in (IF c = "RemoteSyncer" THEN RemoteSyncers ELSE ClusterWideRemoteSyncers)
  /\ Take(c, s)
  /\ Start(c, s, Cached("syncers")[s])
  /\ UNCHANGED <<store, Env>>

PruneJob(b, missing) ==
  Job(b, None, TRUE, <<>>, << <<Call("removeUserRefs", b, missing)>> >>)

\* RemoteUserBinding: references that read as missing are pruned from a
\* managed binding; otherwise the status tells which ones are bound.
ReconcileBinding(b) ==
  LET o == Cached("bindings")[b]
      missing == {ru \in o.remoteUserRefs : Cached("users")[ru] = None}
  IN /\ Take("RemoteUserBinding", b)
     /\ \/ /\ o = None
           /\ UNCHANGED <<store, work>>
        \/ /\ o # None
           /\ o.managed /\ missing # {}
           /\ work' = [work EXCEPT !["RemoteUserBinding"] = PruneJob(b, missing)]
           /\ UNCHANGED store
        \/ /\ o # None
           /\ ~(o.managed /\ missing # {})
           /\ IF Current("bindings", b)
                THEN PutObject("bindings", b,
                       [o EXCEPT !.bound = o.remoteUserRefs \ missing, !.notBound = missing])
                ELSE UNCHANGED store
           /\ UNCHANGED work
     /\ UNCHANGED Env

Doing(c, do) == work[c] # Idle /\ Todo(c) # <<>> /\ Call1(c).do = do

\* Lists and gets of the cache, which the next calls are made from.
NextPolicy(c) ==
  LET p == Head(work[c].policies)
      j == work[c]
  IN /\ Todo(c) = <<>>
     /\ work' = [work EXCEPT ![c] = Job(j.key, j.obj, j.cleaning, Tail(j.policies),
                                       Turn(p, j.key, j.obj, j.cleaning))]
     /\ UNCHANGED <<store, queue, Env>>

ReadCache(c) ==
  /\ Todo(c) # <<>> /\ Call1(c).do \in Reads
  /\ Continue(c, work[c].obj,
       Read(work[c].key, work[c].obj, Call1(c)) \o Later(Todo(c)))
  /\ UNCHANGED <<store, queue, Env>>

\* The finalizers of every applicable policy are stored first; the update
\* triggers the controller again, so the reconcile stops there.
EnsureFinalizers(c) ==
  LET k == KindOf(c)
      x == work[c].key
      o == Cached(k)[x]
      needed == Call1(c).arg
  IN /\ Doing(c, "ensureFinalizers")
     /\ o # None
     /\ \/ /\ needed \subseteq o.fins
           /\ Continue(c, o, Later(Todo(c)))
           /\ UNCHANGED store
        \/ /\ ~(needed \subseteq o.fins) /\ ~o.deleting
           /\ Current(k, x)
           /\ PutObject(k, x, WithFinalizers(o, o.fins \cup needed))
           /\ work' = [work EXCEPT ![c] = Idle]
     /\ UNCHANGED <<queue, Env>>

\* Without its last finalizer, an object under deletion is gone.
RemoveFinalizer(c) ==
  LET k == KindOf(c)
      x == work[c].key
      o == Cached(k)[x]
      p == Call1(c).on
      new == WithFinalizers(o, o.fins \ {p})
  IN /\ Doing(c, "removeFinalizer")
     /\ \/ /\ o = None
           /\ NextCall(c)
           /\ UNCHANGED store
        \/ /\ o # None
           /\ p \notin o.fins
           /\ Continue(c, o, Later(Todo(c)))
           /\ UNCHANGED store
        \/ /\ o # None
           /\ p \in o.fins /\ Current(k, x)
           /\ PutObject(k, x, IF new.deleting THEN Deleted(new) ELSE new)
           /\ Continue(c, new, Later(Todo(c)))
     /\ UNCHANGED <<queue, Env>>

(***************************************************************************)
(* MutateOrDeleteRemoteUserBinding: one attempt reads the cached binding,  *)
(* applies the change and updates it, or deletes it when both lists are    *)
(* empty.  Only the update carries the version that was read.              *)
(***************************************************************************)
Mutations == {"addUserRef", "addBranchTargets", "addTargetRef",
              "removeUserRefs", "removeTargetRef"}
IgnoresNotFound == {"removeUserRefs", "removeTargetRef"}

Mutate(call, o) ==
  CASE call.do = "addUserRef"       -> [o EXCEPT !.remoteUserRefs = @ \cup call.arg]
    [] call.do = "removeUserRefs"   -> [o EXCEPT !.remoteUserRefs = @ \ call.arg]
    [] call.do = "addTargetRef"     -> [o EXCEPT !.remoteTargetRefs = @ \cup call.arg]
    [] call.do = "removeTargetRef"  -> [o EXCEPT !.remoteTargetRefs = @ \ call.arg]
    [] call.do = "addBranchTargets" -> [o EXCEPT !.remoteTargetRefs =
                                          @ \cup (Cached("targets") \cap BranchTargets)]

IsEmpty(o) == o.remoteUserRefs = {} /\ o.remoteTargetRefs = {}

MutateOrDelete(c) ==
  LET call == Call1(c)
      b    == call.on
      o    == Cached("bindings")[b]
      new  == Mutate(call, o)
  IN /\ Todo(c) # <<>> /\ call.do \in Mutations
     /\ IF o = None THEN call.do \in IgnoresNotFound /\ UNCHANGED store
        ELSE IF IsEmpty(new) THEN PutObject("bindings", b, None)
        ELSE Current("bindings", b) /\ PutObject("bindings", b, new)
     /\ NextCall(c)
     /\ UNCHANGED <<queue, Env>>

\* Creates the binding under the name; a name already taken is reused when the
\* cache shows the managed binding of this user there, else the next is tried.
Associate(c, b, ru) ==
  Continue(c, work[c].obj,
    << <<Call("addUserRef", b, {ru}), Call("addBranchTargets", b, {})>> >>)

ClaimName(c, b, ru) ==
  \/ /\ Stored("bindings")[b] = None
     /\ PutObject("bindings", b, NewBinding(TRUE, {ru}))
     /\ Associate(c, b, ru)
  \/ /\ Stored("bindings")[b] # None
     /\ IF b \in ManagedBindings(Cached("bindings")) THEN Associate(c, b, ru)
        ELSE Continue(c, work[c].obj, << <<Call("claim", ru, b.n + 1)>> >>)
     /\ UNCHANGED store

\* The managed binding of the user as listed, or else the first free name.
FindOrCreateBinding(c) ==
  LET ru == Call1(c).on
      n  == IF Doing(c, "findBinding") THEN 0 ELSE Call1(c).arg
      listed == {b \in ManagedBindings(Cached("bindings")) : b.user = UserOf[ru]}
  IN /\ Doing(c, "findBinding") \/ Doing(c, "claim")
     /\ \/ /\ Doing(c, "findBinding")
           /\ \E b \in listed : Associate(c, b, ru)
           /\ UNCHANGED store
        \/ /\ Doing(c, "claim") \/ listed = {}
           /\ n < MaxAttempts
           /\ ClaimName(c, [user |-> UserOf[ru], n |-> n], ru)
     /\ UNCHANGED <<queue, Env>>

\* Creating what exists and deleting what is gone are no errors.
CreateTarget(c) ==
  /\ Doing(c, "createTarget")
  /\ Put("targets", Stored("targets") \cup {Call1(c).on})
  /\ NextCall(c)
  /\ UNCHANGED <<queue, Env>>

DeleteTarget(c) ==
  /\ Doing(c, "deleteTarget")
  /\ Put("targets", Stored("targets") \ {Call1(c).on})
  /\ NextCall(c)
  /\ UNCHANGED <<queue, Env>>

\* A call that fails: the object is not found, the version it was read at is
\* no longer the stored one, or no name is left.
Fails(c) ==
  LET call == Call1(c)
      k    == KindOf(c)
      x    == work[c].key
      o    == Cached("bindings")[call.on]
  IN \/ /\ call.do = "ensureFinalizers"
        /\ \/ Cached(k)[x] = None
           \/ /\ Cached(k)[x] # None
              /\ ~(call.arg \subseteq Cached(k)[x].fins)
              /\ Cached(k)[x].deleting \/ ~Current(k, x)
     \/ /\ call.do = "removeFinalizer"
        /\ Cached(k)[x] # None /\ ~Current(k, x)
        /\ call.on \in Cached(k)[x].fins
     \/ /\ call.do \in Mutations
        /\ IF o = None THEN call.do \notin IgnoresNotFound
           ELSE ~IsEmpty(Mutate(call, o)) /\ ~Current("bindings", call.on)
     \/ call.do = "claim" /\ call.arg >= MaxAttempts

Fail(c) ==
  /\ Todo(c) # <<>>
  /\ Fails(c)
  /\ Abort(c)
  /\ UNCHANGED <<store, Env>>

(***************************************************************************)
(* The informers and their watches.                                        *)
(***************************************************************************)
\* The objects of kind k that an event is about.
Changed(k, old, new) ==
  IF k = "targets" THEN (old \ new) \cup (new \ old)
  ELSE IF k = "secrets" THEN {} ELSE {x \in DOMAIN old : old[x] # new[x]}

\* Mutant of WakeRemoteUsers: their Secret is not watched.
WakeWithoutSecrets(k, changed) ==
  LET users == Cached("users")
  IN CASE k = "users" -> changed
       [] k = "targets" /\ changed \cap BranchTargets # {} ->
            {ru \in Live("users", users) : users[ru].managed}
       [] OTHER -> {}

\* RemoteUsers are reconciled on their own events, on their Secret's and, when
\* managed, on those of branch targets.
WakeRemoteUsers(k, changed) ==
  LET users == Cached("users")
  IN CASE k = "users"   -> changed
       [] k = "secrets" -> Live("users", users)
       [] k = "targets" /\ changed \cap BranchTargets # {} ->
            {ru \in Live("users", users) : users[ru].managed}
       [] OTHER -> {}

\* Mutant of WakeBindings: RemoteUsers are not watched.
WakeOwnBindings(k, changed) == IF k = "bindings" THEN changed ELSE {}

\* Bindings are reconciled on their own events and on those of the RemoteUsers
\* they refer to.
WakeBindings(k, changed) ==
  LET bs == Cached("bindings")
  IN CASE k = "bindings" -> changed
       [] k = "users" -> {b \in Live("bindings", bs) : bs[b].remoteUserRefs \cap changed # {}}
       [] OTHER -> {}

\* Mutant of WakeSyncers: the keys of both kinds are queued in both controllers.
WakeAllSyncers(k, changed, managed, kind) ==
  LET syncers == Cached("syncers")
  IN CASE k = "syncers" -> changed
       [] k = "bindings" /\ managed -> {s \in Live("syncers", syncers) : syncers[s].userSpecific}
       [] OTHER -> {}

\* Syncers are reconciled on their own events and, when they carry the
\* user-specific annotation, on those of managed bindings.
WakeSyncers(k, changed, managed, kind) ==
  LET syncers == Cached("syncers")
  IN CASE k = "syncers" -> changed \cap kind
       [] k = "bindings" /\ managed ->
            {s \in Live("syncers", syncers) \cap kind : syncers[s].userSpecific}
       [] OTHER -> {}

Watchers(k, old, new) ==
  LET changed == Changed(k, old, new)
      managed == k = "bindings" /\
                   changed \cap (ManagedBindings(old) \cup ManagedBindings(new)) # {}
  IN [c \in Controllers |->
        CASE c = "RemoteUser"        -> WakeRemoteUsers(k, changed)
          [] c = "RemoteUserBinding" -> WakeBindings(k, changed)
          [] c = "RemoteSyncer"      -> WakeSyncers(k, changed, managed, RemoteSyncers)
          [] c = "ClusterWideRemoteSyncer" ->
               WakeSyncers(k, changed, managed, ClusterWideRemoteSyncers)]

Deliver(k) ==
  /\ Len(store[k]) > 1
  /\ store' = [store EXCEPT ![k] = Tail(@)]
  /\ LET woken == Watchers(k, store[k][1], store[k][2])
     IN queue' = [c \in Controllers |-> queue[c] \cup woken[c]]
  /\ UNCHANGED <<work, Env>>

(***************************************************************************)
(* What people change, and restarts of the manager.  A change made while   *)
(* the controllers are still busy overlaps with their work.                *)
(***************************************************************************)
Settled ==
  /\ \A k \in Kinds : Len(store[k]) = 1
  /\ \A c \in Controllers : queue[c] = {} /\ work[c] = Idle

Change(k, v) ==
  /\ changes < MaxChanges
  /\ Settled \/ overlaps + restarts < MaxDisturbances
  /\ v # Stored(k)
  /\ Put(k, v)
  /\ changes' = changes + 1
  /\ overlaps' = overlaps + (IF Settled THEN 0 ELSE 1)
  /\ UNCHANGED <<queue, work, restarts>>

SetUser(ru, v) == Change("users", [Stored("users") EXCEPT ![ru] = v])
SetSyncer(s, v) == Change("syncers", [Stored("syncers") EXCEPT ![s] = v])

ChangeUser(ru) ==
  LET o == Stored("users")[ru]
  IN \/ o = None /\ SetUser(ru, [managed |-> TRUE, fins |-> {}, deleting |-> FALSE,
                                 status |-> ""])
     \/ o # None /\ SetUser(ru, [o EXCEPT !.managed = ~@])
     \/ o # None /\ SetUser(ru, Deleted(o))

ChangeSyncer(s) ==
  LET o == Stored("syncers")[s]
  IN \/ \E a \in Annotations :
          SetSyncer(s, IF o = None
            THEN [branches |-> a[1], userSpecific |-> a[2], fins |-> {}, deleting |-> FALSE]
            ELSE [o EXCEPT !.branches = a[1], !.userSpecific = a[2]])
     \/ o # None /\ SetSyncer(s, Deleted(o))

ChangeSecret == \E v \in SecretStates : Change("secrets", v)

\* A restarted manager lists everything and reconciles every object.
Restart ==
  /\ overlaps + restarts < MaxDisturbances
  /\ restarts' = restarts + 1
  /\ work' = [c \in Controllers |-> Idle]
  /\ store' = [k \in Kinds |-> <<Stored(k)>>]
  /\ LET syncers == Live("syncers", Stored("syncers"))
     IN queue' = [c \in Controllers |->
          CASE c = "RemoteUser" -> Live("users", Stored("users"))
            [] c = "RemoteUserBinding" -> Live("bindings", Stored("bindings"))
            [] c = "RemoteSyncer" -> syncers \cap RemoteSyncers
            [] c = "ClusterWideRemoteSyncer" -> syncers \cap ClusterWideRemoteSyncers]
  /\ UNCHANGED <<changes, overlaps>>

InitialState(k) ==
  CASE k = "users"    -> [ru \in RemoteUsers |-> None]
    [] k = "bindings" -> [b \in Names |-> IF b \in OwnBindings THEN NewBinding(FALSE, {}) ELSE None]
    [] k = "targets"  -> {}
    [] k = "syncers"  -> [s \in Syncers |-> None]
    [] k = "secrets"  -> "NotFound"

Init ==
  /\ store = [k \in Kinds |-> <<InitialState(k)>>]
  /\ queue = [c \in Controllers |-> {}]
  /\ work = [c \in Controllers |-> Idle]
  /\ changes = 0 /\ overlaps = 0 /\ restarts = 0

Step(c) ==
  /\ work[c] # Idle
  /\ \/ NextPolicy(c) \/ ReadCache(c) \/ EnsureFinalizers(c) \/ RemoveFinalizer(c)
     \/ MutateOrDelete(c) \/ FindOrCreateBinding(c)
     \/ CreateTarget(c) \/ DeleteTarget(c) \/ Fail(c)

Reconcile(c) ==
  \/ c = "RemoteUser" /\ \E ru \in RemoteUsers : ReconcileRemoteUser(ru)
  \/ c = "RemoteUserBinding" /\ \E b \in Names : ReconcileBinding(b)
  \/ c \in {"RemoteSyncer", "ClusterWideRemoteSyncer"} /\ \E s \in Syncers : ReconcileSyncer(c, s)

Next ==
  \/ \E c \in Controllers : Step(c) \/ Reconcile(c)
  \/ \E k \in Kinds : Deliver(k)
  \/ \E ru \in RemoteUsers : ChangeUser(ru)
  \/ \E s \in Syncers : ChangeSyncer(s)
  \/ ChangeSecret
  \/ Restart

Spec == Init /\ [][Next]_vars

States(k) ==
  CASE k = "users"    -> [RemoteUsers -> UserObjects \cup {None}]
    [] k = "bindings" -> [Names -> BindingObjects \cup {None}]
    [] k = "targets"  -> SUBSET RemoteTargets
    [] k = "syncers"  -> [Syncers -> SyncerObjects \cup {None}]
    [] k = "secrets"  -> SecretStates

KeysOf(c) ==
  CASE c = "RemoteUser"              -> RemoteUsers
    [] c = "RemoteUserBinding"       -> Names
    [] c = "RemoteSyncer"            -> RemoteSyncers
    [] c = "ClusterWideRemoteSyncer" -> ClusterWideRemoteSyncers

\* Every version of every object, and the keys in the queues of the
\* controllers, which are those of their own kind.
TypeOK ==
  /\ \A k \in Kinds : store[k] \in Seq(States(k)) \ {<<>>}
  /\ Lag \in 0 .. MaxLag
  /\ \A c \in Controllers : queue[c] \subseteq KeysOf(c)

\* Whatever the interleaving, once everything has settled no managed binding
\* refers to a RemoteUser that is gone: the binding controller has pruned it.
SelfHealing ==
  Settled =>
    \A b \in ManagedBindings(Stored("bindings")) :
      Stored("bindings")[b].remoteUserRefs \subseteq Live("users", Stored("users"))

\* Once everything has settled, no status is out of date, although an update of
\* one that meets a conflict is dropped: that of a RemoteUser tells what its
\* Secret is like, that of a binding, also one of the user's own, which of the
\* RemoteUsers it refers to are there.
StatusesCurrent ==
  Settled =>
    /\ \A ru \in Live("users", Stored("users")) :
         Stored("users")[ru].status = Stored("secrets")
    /\ \A b \in Live("bindings", Stored("bindings")) :
         LET o    == Stored("bindings")[b]
             live == Live("users", Stored("users"))
         IN o.bound = o.remoteUserRefs \cap live /\ o.notBound = o.remoteUserRefs \ live

\* Once everything has settled, no deletion is pending and every object has the
\* finalizers of the policies that apply to it, no others: one that is missing
\* would let the object go without a cleanup, one too many would keep it.
FinalizersExact ==
  Settled =>
    \A c \in Controllers \ {"RemoteUserBinding"} :
      \A x \in Live(KindOf(c), Stored(KindOf(c))) \cap KeysOf(c) :
        LET o == Stored(KindOf(c))[x]
        IN ~o.deleting /\ o.fins = Needed(c, o)

ManagedUsers ==
  {ru \in Live("users", Stored("users")) :
     Stored("users")[ru].managed /\ UserOf[ru] # None}

WantedBranchTargets ==
  {t \in BranchTargets : \E s \in Live("syncers", Stored("syncers")) :
     t.up = UpstreamOf[s] /\ t.to \in Stored("syncers")[s].branches}

WantedUserTargets ==
  {t \in RemoteTargets \ BranchTargets :
     /\ \E s \in Live("syncers", Stored("syncers")) :
          t.up = UpstreamOf[s] /\ Stored("syncers")[s].userSpecific
     /\ \E b \in ManagedBindings(Stored("bindings")) : b.user = t.to}

\* When people wait for the controllers before the next change, the cluster
\* ends up as the annotations ask, also after a restart of the manager in the
\* middle: the RemoteTargets are those of some syncer, shared by both kinds,
\* every managed RemoteUser is in a binding with all the branch targets, and no
\* binding has a user it should not have or a dead user-specific target.
Converged ==
  Settled /\ overlaps = 0 =>
    /\ Stored("targets") = WantedBranchTargets \cup WantedUserTargets
    /\ \A ru \in ManagedUsers :
         \E b \in ManagedBindings(Stored("bindings")) :
           /\ b.user = UserOf[ru]
           /\ ru \in Stored("bindings")[b].remoteUserRefs
           /\ WantedBranchTargets \subseteq Stored("bindings")[b].remoteTargetRefs
    /\ \A b \in ManagedBindings(Stored("bindings")) :
         LET o == Stored("bindings")[b]
         IN /\ o.remoteUserRefs \subseteq {ru \in ManagedUsers : UserOf[ru] = b.user}
            /\ o.remoteTargetRefs \ BranchTargets \subseteq Stored("targets")
            /\ {t \in WantedUserTargets : t.to = b.user} \subseteq o.remoteTargetRefs
=============================================================================
