------------------------ MODULE BindingPoliciesProofs ------------------------
(***************************************************************************)
(* What the controllers leave when they come to rest - no dead references, *)
(* statuses that are up to date, exactly the finalizers that are needed -  *)
(* and type correctness, for any number of objects, changes and restarts   *)
(* and any lag of the caches.                                              *)
(***************************************************************************)
EXTENDS BindingPolicies, FiniteSetTheorems, SequenceTheorems, TLAPS

PolicyNames(c) == IF c = "RemoteUser" THEN {"association"} ELSE {"branch", "user"}

\* The calls, by what they are made on.
UserRefCalls == [do : {"addUserRef", "removeUserRefs"}, on : Names, arg : SUBSET RemoteUsers]
TargetRefCalls ==
  [do : {"addTargetRef", "removeTargetRef", "addBranchTargets"}, on : Names,
   arg : SUBSET RemoteTargets]
TargetCalls ==
  [do : {"createTarget", "deleteTarget", "removeRefs"}, on : RemoteTargets, arg : {{}}]
PruneCalls == [do : {"pruneBranches", "pruneUsers"}, on : Syncers, arg : SUBSET RemoteTargets]
Stamped == {ru \in RemoteUsers : UserOf[ru] # None}
NameCalls ==
  [do : {"findBinding"}, on : Stamped, arg : {{}}] \cup [do : {"claim"}, on : Stamped, arg : Nat]
FinalizerCalls(c) ==
  [do : {"ensureFinalizers"}, on : {None}, arg : SUBSET PolicyNames(c)]
    \cup [do : {"removeFinalizer"}, on : PolicyNames(c), arg : {{}}]

Calls(c) ==
  UserRefCalls \cup TargetRefCalls \cup TargetCalls \cup PruneCalls \cup FinalizerCalls(c)

Groups(c) == Seq(Calls(c)) \ {<<>>}

\* The search for a binding is on its own.
Todos(c) == Seq(Groups(c)) \cup {<< <<call>> >> : call \in NameCalls}

\* A reconcile knows its key and, of a syncer, its annotations, and has
\* something left to do.
IsJob(c, j) ==
  /\ j.key \in KeysOf(c)
  /\ c \in {"RemoteSyncer", "ClusterWideRemoteSyncer"} => j.obj.branches \subseteq Branches
  /\ j.policies \in Seq(PolicyNames(c))
  /\ j.todo \in Todos(c)
  /\ j.policies # <<>> \/ j.todo # <<>>

\* The only call of the binding controller is to prune the binding it has read.
IsPruning(j) ==
  /\ j.cleaning /\ j.policies = <<>>
  /\ \E missing \in SUBSET RemoteUsers :
       j.todo = << <<Call("removeUserRefs", j.key, missing)>> >>

StoreInv ==
  /\ store = [k \in Kinds |-> store[k]]
  /\ \A k \in Kinds : store[k] \in Seq(States(k)) \ {<<>>}
  /\ Lag \in 0 .. MaxLag

QueueInv ==
  /\ queue = [c \in Controllers |-> queue[c]]
  /\ \A c \in Controllers : queue[c] \subseteq KeysOf(c)

WorkInv ==
  /\ work = [c \in Controllers |-> work[c]]
  /\ \A c \in Controllers : work[c] # Idle => IsJob(c, work[c])
  /\ work["RemoteUserBinding"] # Idle => IsPruning(work["RemoteUserBinding"])

\* The inductive invariant behind TypeOK.
IInv == StoreInv /\ QueueInv /\ WorkInv

\* A reference of a managed binding that reads as missing.
Dangling(b, ru) ==
  /\ Cached("bindings")[b] # None
  /\ Cached("bindings")[b].managed
  /\ ru \in Cached("bindings")[b].remoteUserRefs
  /\ Cached("users")[ru] = None

Pruning(b, ru) ==
  /\ work["RemoteUserBinding"] # Idle
  /\ work["RemoteUserBinding"].key = b
  /\ ru \in Call1("RemoteUserBinding").arg

\* ... is going to be looked at, is being pruned, or is out of date.
HealInv ==
  \A b \in Names, ru \in RemoteUsers : Dangling(b, ru) =>
    \/ b \in queue["RemoteUserBinding"]
    \/ Pruning(b, ru)
    \/ ~Current("bindings", b)

ObjectKind(c) == IF c = "RemoteUserBinding" THEN "bindings" ELSE KindOf(c)

\* The controller of an object is going to look at it.
Attended(c, x) == x \in queue[c] \/ ~Current(ObjectKind(c), x)

\* A RemoteUser or a binding whose status is not what a reconcile would write.
StaleUser(ru) ==
  /\ Cached("users")[ru] # None /\ ~Cached("users")[ru].deleting
  /\ Cached("users")[ru].status # Cached("secrets")

Gone(b) == {ru \in Cached("bindings")[b].remoteUserRefs : Cached("users")[ru] = None}

StaleBinding(b) ==
  /\ Cached("bindings")[b] # None
  /\ ~(/\ Cached("bindings")[b].bound = Cached("bindings")[b].remoteUserRefs \ Gone(b)
       /\ Cached("bindings")[b].notBound = Gone(b))

\* ... is going to be looked at, or has dead references to be pruned first.
StatusInv ==
  /\ \A ru \in RemoteUsers : StaleUser(ru) => Attended("RemoteUser", ru)
  /\ \A b \in Names : StaleBinding(b) =>
       Attended("RemoteUserBinding", b) \/ \E ru \in RemoteUsers : Dangling(b, ru)

\* The controllers that run policies, and whose objects have finalizers.
Owners == Controllers \ {"RemoteUserBinding"}

Exact(c, o) == ~o.deleting /\ o.fins = Needed(c, o)

\* The finalizers that an object is to lose.
Spare(c, o) == IF o.deleting THEN o.fins ELSE o.fins \ Needed(c, o)

\* The last call is to drop the finalizer of p.
Drops(todo, p) == todo # <<>> /\ Last(todo) = <<Call("removeFinalizer", p, {})>>

\* A reconcile ensures what is missing, then has the turn of every policy whose
\* finalizer is to go.
Ahead(c, o, policies, todo) ==
  /\ \/ o.deleting \/ Needed(c, o) \subseteq o.fins
     \/ todo = << <<Call("ensureFinalizers", None, Needed(c, o))>> >>
  /\ \A p \in Spare(c, o) : p \in ToSet(policies) \/ Drops(todo, p)

Underway(c, x, o) ==
  /\ work[c] # Idle /\ work[c].key = x /\ work[c].obj = o /\ work[c].cleaning = o.deleting
  /\ Ahead(c, o, work[c].policies, work[c].todo)

\* An object with a finalizer too many or too few is going to be looked at, or
\* the reconcile in progress is about to see to it.
FinInvOf(c) ==
  \A x \in KeysOf(c) :
    /\ Cached(KindOf(c))[x] # None /\ ~Exact(c, Cached(KindOf(c))[x])
    => Attended(c, x) \/ Underway(c, x, Cached(KindOf(c))[x])

FinInv == \A c \in Owners : FinInvOf(c)
---------------------------------------------------------------------------
(* Kinds, keys and calls, one by one.                                      *)

LEMMA StatesOf ==
  /\ States("users") = [RemoteUsers -> UserObjects \cup {None}]
  /\ States("bindings") = [Names -> BindingObjects \cup {None}]
  /\ States("targets") = SUBSET RemoteTargets
  /\ States("syncers") = [Syncers -> SyncerObjects \cup {None}]
  /\ States("secrets") = SecretStates
  BY Zenon DEF States

LEMMA KeysOfEach ==
  /\ KeysOf("RemoteUser") = RemoteUsers
  /\ KeysOf("RemoteUserBinding") = Names
  /\ KeysOf("RemoteSyncer") = RemoteSyncers
  /\ KeysOf("ClusterWideRemoteSyncer") = ClusterWideRemoteSyncers
  BY Zenon DEF KeysOf

\* A call is of one sort, which its name tells.
LEMMA CallSorts ==
  ASSUME NEW c, NEW call \in Calls(c) \cup NameCalls
  PROVE  /\ call.do \in {"addUserRef", "removeUserRefs"} =>
              call.on \in Names /\ call.arg \in SUBSET RemoteUsers
         /\ call.do \in {"addTargetRef", "removeTargetRef", "addBranchTargets"} =>
              call.on \in Names /\ call.arg \in SUBSET RemoteTargets
         /\ call.do \in {"createTarget", "deleteTarget", "removeRefs"} => call.on \in RemoteTargets
         /\ call.do \in {"pruneBranches", "pruneUsers"} => call.arg \in SUBSET RemoteTargets
         /\ call.do \in {"findBinding", "claim"} => call.on \in Stamped
         /\ call.do = "claim" => call.arg \in Nat
         /\ call.do = "ensureFinalizers" => call.arg \in SUBSET PolicyNames(c)
         /\ call.do = "removeFinalizer" => call.on \in PolicyNames(c)
  BY DEF Calls, UserRefCalls, TargetRefCalls, TargetCalls, PruneCalls, NameCalls, FinalizerCalls

\* ... and each sort can be built.
LEMMA CallTypes ==
  ASSUME NEW c
  PROVE  /\ \A b \in Names, S \in SUBSET RemoteUsers :
              Call("addUserRef", b, S) \in Calls(c) /\ Call("removeUserRefs", b, S) \in Calls(c)
         /\ \A b \in Names, S \in SUBSET RemoteTargets :
              /\ Call("addTargetRef", b, S) \in Calls(c)
              /\ Call("removeTargetRef", b, S) \in Calls(c)
              /\ Call("addBranchTargets", b, S) \in Calls(c)
         /\ \A t \in RemoteTargets :
              /\ Call("createTarget", t, {}) \in Calls(c)
              /\ Call("deleteTarget", t, {}) \in Calls(c)
              /\ Call("removeRefs", t, {}) \in Calls(c)
         /\ \A s \in Syncers, S \in SUBSET RemoteTargets :
              Call("pruneBranches", s, S) \in Calls(c) /\ Call("pruneUsers", s, S) \in Calls(c)
         /\ \A ru \in Stamped : Call("findBinding", ru, {}) \in NameCalls
         /\ \A ru \in Stamped, n \in Nat : Call("claim", ru, n) \in NameCalls
         /\ \A S \in SUBSET PolicyNames(c) : Call("ensureFinalizers", None, S) \in Calls(c)
         /\ \A p \in PolicyNames(c) : Call("removeFinalizer", p, {}) \in Calls(c)
  <1>1. \A b \in Names, S \in SUBSET RemoteUsers :
           Call("addUserRef", b, S) \in UserRefCalls /\ Call("removeUserRefs", b, S) \in UserRefCalls
    BY DEF Call, UserRefCalls
  <1>2. \A b \in Names, S \in SUBSET RemoteTargets :
           /\ Call("addTargetRef", b, S) \in TargetRefCalls
           /\ Call("removeTargetRef", b, S) \in TargetRefCalls
           /\ Call("addBranchTargets", b, S) \in TargetRefCalls
    BY DEF Call, TargetRefCalls
  <1>3. \A t \in RemoteTargets :
           /\ Call("createTarget", t, {}) \in TargetCalls
           /\ Call("deleteTarget", t, {}) \in TargetCalls
           /\ Call("removeRefs", t, {}) \in TargetCalls
    BY DEF Call, TargetCalls
  <1>4. \A s \in Syncers, S \in SUBSET RemoteTargets :
           Call("pruneBranches", s, S) \in PruneCalls /\ Call("pruneUsers", s, S) \in PruneCalls
    BY DEF Call, PruneCalls
  <1>5. /\ \A ru \in Stamped : Call("findBinding", ru, {}) \in NameCalls
        /\ \A ru \in Stamped, n \in Nat : Call("claim", ru, n) \in NameCalls
    BY DEF Call, NameCalls
  <1>6. /\ \A S \in SUBSET PolicyNames(c) : Call("ensureFinalizers", None, S) \in FinalizerCalls(c)
        /\ \A p \in PolicyNames(c) : Call("removeFinalizer", p, {}) \in FinalizerCalls(c)
    BY DEF Call, FinalizerCalls
  <1> QED
    BY <1>1, <1>2, <1>3, <1>4, <1>5, <1>6, Zenon DEF Calls

---------------------------------------------------------------------------
(* Sequences of groups of calls.                                           *)

\* A finite set can be listed.
LEMMA ListOfSet ==
  ASSUME NEW S, IsFiniteSet(S)
  PROVE  /\ Cardinality(S) \in Nat
         /\ SetToSeq(S) \in [1 .. Cardinality(S) -> S]
  <1>1. Cardinality(S) \in Nat /\ ExistsBijection(1 .. Cardinality(S), S)
    BY FS_CardinalityType
  <1>2. PICK f \in Bijection(1 .. Cardinality(S), S) : TRUE
    BY <1>1 DEF ExistsBijection
  <1>3. f \in [1 .. Cardinality(S) -> S] /\ IsInjective(f)
    BY <1>2 DEF Bijection, Injection, IsInjective
  <1> QED
    BY <1>1, <1>3 DEF SetToSeq

\* One group for each element.
LEMMA GroupForEach ==
  ASSUME NEW G, NEW S, IsFiniteSet(S), NEW f \in [S -> G]
  PROVE  [i \in 1 .. Cardinality(S) |-> f[SetToSeq(S)[i]]] \in Seq(G)
  <1> DEFINE n == Cardinality(S)
             g == [i \in 1 .. n |-> f[SetToSeq(S)[i]]]
  <1>1. n \in Nat /\ \A i \in 1 .. n : SetToSeq(S)[i] \in S
    BY ListOfSet
  <1>2. g \in [1 .. n -> G]
    BY <1>1
  <1> HIDE DEF n, g
  <1>3. g \in Seq(G)
    BY <1>1, <1>2, SeqDef
  <1> QED
    BY <1>3 DEF g, n

\* Small groups.
LEMMA SmallGroups ==
  ASSUME NEW c, NEW x \in Calls(c)
  PROVE  /\ <<x>> \in Groups(c)
         /\ << <<x>> >> \in Seq(Groups(c))
         /\ \A y \in Calls(c) : <<x, y>> \in Groups(c) /\ << <<x, y>> >> \in Seq(Groups(c))
  <1>1. <<x>> \in Groups(c) /\ \A y \in Calls(c) : <<x, y>> \in Groups(c)
    BY DEF Groups
  <1> HIDE DEF Groups
  <1> QED
    BY <1>1

\* What is left after a call.
LEMMA LaterCalls ==
  ASSUME NEW c, NEW todo \in Seq(Groups(c)), todo # <<>>
  PROVE  /\ Later(todo) \in Seq(Groups(c))
         /\ Head(Head(todo)) \in Calls(c)
  <1>1. /\ Head(todo) \in Seq(Calls(c)) /\ Head(todo) # <<>> /\ Tail(todo) \in Seq(Groups(c))
    BY DEF Groups
  <1>2. Head(Head(todo)) \in Calls(c) /\ Tail(Head(todo)) \in Seq(Calls(c))
    BY <1>1
  <1>3. Len(Head(todo)) # 1 => Tail(Head(todo)) \in Groups(c)
    <2> SUFFICES ASSUME Len(Head(todo)) # 1 PROVE Tail(Head(todo)) # <<>>
      BY <1>2 DEF Groups
    <2>1. Len(Head(todo)) \in Nat /\ Len(Head(todo)) # 0
      BY <1>1, EmptySeq, LenProperties
    <2>2. Len(Tail(Head(todo))) = Len(Head(todo)) - 1
      BY <1>1, HeadTailProperties
    <2>3. Len(Tail(Head(todo))) # 0 /\ Len(<<>>) = 0
      BY <2>1, <2>2
    <2> QED
      BY <2>3, Zenon
  <1> HIDE DEF Groups
  <1>4. Later(todo) \in Seq(Groups(c))
    <2>1. CASE Len(Head(todo)) = 1
      BY <1>1, <2>1 DEF Later
    <2>2. CASE Len(Head(todo)) # 1
      <3>1. <<Tail(Head(todo))>> \in Seq(Groups(c))
        BY <1>3, <2>2
      <3>2. <<Tail(Head(todo))>> \o Tail(todo) \in Seq(Groups(c))
        BY <1>1, <3>1
      <3> QED
        BY <2>2, <3>2 DEF Later
    <2> QED
      BY <2>1, <2>2
  <1> QED
    BY <1>2, <1>4
---------------------------------------------------------------------------
(* The lists of calls that the policies make.                              *)

\* What is cached and what is stored is a state of its kind.
LEMMA Views ==
  ASSUME IInv, NEW k \in Kinds
  PROVE  /\ store[k] \in Seq(States(k)) /\ store[k] # <<>> /\ Len(store[k]) \in Nat \ {0}
         /\ Cached(k) \in States(k) /\ Stored(k) \in States(k)
         /\ Cached(k) = store[k][1] /\ Stored(k) = store[k][Len(store[k])]
  <1>1. store[k] \in Seq(States(k)) /\ store[k] # <<>>
    BY DEF IInv, StoreInv
  <1>2. Len(store[k]) \in Nat \ {0}
    BY <1>1, EmptySeq
  <1>3. Cached(k) = store[k][1] /\ Stored(k) = store[k][Len(store[k])]
    BY <1>1 DEF Cached, Stored, Last
  <1>4. store[k][1] \in States(k) /\ store[k][Len(store[k])] \in States(k)
    BY <1>1, <1>2, ElementOfSeq
  <1> QED
    BY <1>1, <1>2, <1>3, <1>4

LEMMA CachedViews ==
  ASSUME IInv
  PROVE  /\ Cached("users") \in [RemoteUsers -> UserObjects \cup {None}]
         /\ Cached("bindings") \in [Names -> BindingObjects \cup {None}]
         /\ Cached("targets") \in SUBSET RemoteTargets
         /\ Cached("syncers") \in [Syncers -> SyncerObjects \cup {None}]
         /\ Cached("secrets") \in SecretStates
  BY Views, StatesOf DEF Kinds

LEMMA StoredViews ==
  ASSUME IInv
  PROVE  /\ Stored("users") \in [RemoteUsers -> UserObjects \cup {None}]
         /\ Stored("bindings") \in [Names -> BindingObjects \cup {None}]
         /\ Stored("targets") \in SUBSET RemoteTargets
         /\ Stored("syncers") \in [Syncers -> SyncerObjects \cup {None}]
         /\ Stored("secrets") \in SecretStates
  BY Views, StatesOf DEF Kinds

\* The managed bindings are names.
LEMMA ManagedAreNames ==
  ASSUME NEW bs \in [Names -> BindingObjects \cup {None}]
  PROVE  ManagedBindings(bs) \in SUBSET Names
  BY DEF ManagedBindings, Live

\* Targets to be deleted.
LEMMA DeleteGroups ==
  ASSUME NEW c, NEW S \in SUBSET RemoteTargets
  PROVE  /\ ForEach(S, DeleteBranchTarget) \in Seq(Groups(c))
         /\ ForEach(S, DeleteUserTarget) \in Seq(Groups(c))
  <1>1. IsFiniteSet(S) /\ \A i \in 1 .. Cardinality(S) : SetToSeq(S)[i] \in S
    BY FinitelyMany, FS_Subset, ListOfSet
  <1>2. \A t \in S : DeleteBranchTarget(t) \in Groups(c) /\ DeleteUserTarget(t) \in Groups(c)
    BY CallTypes, SmallGroups DEF DeleteBranchTarget, DeleteUserTarget
  <1> DEFINE f == [t \in S |-> DeleteBranchTarget(t)]
             g == [t \in S |-> DeleteUserTarget(t)]
  <1>3. f \in [S -> Groups(c)] /\ g \in [S -> Groups(c)]
    BY <1>2
  <1>4. /\ ForEach(S, DeleteBranchTarget) = [i \in 1 .. Cardinality(S) |-> f[SetToSeq(S)[i]]]
        /\ ForEach(S, DeleteUserTarget) = [i \in 1 .. Cardinality(S) |-> g[SetToSeq(S)[i]]]
    BY <1>1 DEF ForEach
  <1> HIDE DEF f, g
  <1>5. [i \in 1 .. Cardinality(S) |-> f[SetToSeq(S)[i]]] \in Seq(Groups(c))
    BY <1>1, <1>3, GroupForEach, Zenon
  <1>6. [i \in 1 .. Cardinality(S) |-> g[SetToSeq(S)[i]]] \in Seq(Groups(c))
    BY <1>1, <1>3, GroupForEach, Zenon
  <1> QED
    BY <1>4, <1>5, <1>6, Zenon

\* Bindings that a reference is removed from.
LEMMA RemoveGroups ==
  ASSUME NEW c, NEW S \in SUBSET Names
  PROVE  /\ \A ru \in RemoteUsers :
              [i \in 1 .. Cardinality(S) |-> <<Call("removeUserRefs", SetToSeq(S)[i], {ru})>>] \in Seq(Groups(c))
         /\ \A t \in RemoteTargets :
              [i \in 1 .. Cardinality(S) |-> <<Call("removeTargetRef", SetToSeq(S)[i], {t})>>] \in Seq(Groups(c))
  <1>1. IsFiniteSet(S) /\ \A i \in 1 .. Cardinality(S) : SetToSeq(S)[i] \in S
    BY FinitelyMany, FS_Subset, ListOfSet
  <1>2. ASSUME NEW ru \in RemoteUsers
        PROVE  [i \in 1 .. Cardinality(S) |-> <<Call("removeUserRefs", SetToSeq(S)[i], {ru})>>] \in Seq(Groups(c))
    <2> DEFINE f == [b \in S |-> <<Call("removeUserRefs", b, {ru})>>]
    <2>1. f \in [S -> Groups(c)]
      BY CallTypes, SmallGroups
    <2>2. [i \in 1 .. Cardinality(S) |-> <<Call("removeUserRefs", SetToSeq(S)[i], {ru})>>] =
            [i \in 1 .. Cardinality(S) |-> f[SetToSeq(S)[i]]]
      BY <1>1
    <2> HIDE DEF f
    <2> QED
      BY <1>1, <2>1, <2>2, GroupForEach
  <1>3. ASSUME NEW t \in RemoteTargets
        PROVE  [i \in 1 .. Cardinality(S) |-> <<Call("removeTargetRef", SetToSeq(S)[i], {t})>>] \in Seq(Groups(c))
    <2> DEFINE f == [b \in S |-> <<Call("removeTargetRef", b, {t})>>]
    <2>1. f \in [S -> Groups(c)]
      BY CallTypes, SmallGroups
    <2>2. [i \in 1 .. Cardinality(S) |-> <<Call("removeTargetRef", SetToSeq(S)[i], {t})>>] =
            [i \in 1 .. Cardinality(S) |-> f[SetToSeq(S)[i]]]
      BY <1>1
    <2> HIDE DEF f
    <2> QED
      BY <1>1, <2>1, <2>2, GroupForEach
  <1> QED
    BY <1>2, <1>3

\* Targets to be created.
LEMMA CreateGroups ==
  ASSUME NEW c, NEW S \in SUBSET RemoteTargets
  PROVE  [i \in 1 .. Cardinality(S) |-> <<Call("createTarget", SetToSeq(S)[i], {})>>] \in Seq(Groups(c))
  <1>1. IsFiniteSet(S) /\ \A i \in 1 .. Cardinality(S) : SetToSeq(S)[i] \in S
    BY FinitelyMany, FS_Subset, ListOfSet
  <1> DEFINE f == [t \in S |-> <<Call("createTarget", t, {})>>]
  <1>2. f \in [S -> Groups(c)]
    BY CallTypes, SmallGroups
  <1>3. [i \in 1 .. Cardinality(S) |-> <<Call("createTarget", SetToSeq(S)[i], {})>>] =
          [i \in 1 .. Cardinality(S) |-> f[SetToSeq(S)[i]]]
    BY <1>1
  <1> HIDE DEF f
  <1> QED
    BY <1>1, <1>2, <1>3, GroupForEach

\* The targets a policy manages are RemoteTargets.
LEMMA ManagedTargetsTyped ==
  ASSUME IInv, NEW x, NEW p
  PROVE  ManagedTargets(x, p) \in SUBSET RemoteTargets
  BY CachedViews DEF ManagedTargets

\* What a policy prunes.
LEMMA PruneGroups ==
  ASSUME NEW c, NEW x, NEW o, NEW S \in SUBSET RemoteTargets
  PROVE  /\ PruneBranches(x, o, S) \in Seq(Groups(c))
         /\ PruneUsers(x, S) \in Seq(Groups(c))
  <1>1. PruneBranches(x, o, S) \in Seq(Groups(c))
    <2> DEFINE T == {t \in S : t.to \notin o.branches /\ ~UsedByOther(x, t)}
    <2>1. T \in SUBSET RemoteTargets
      OBVIOUS
    <2>2. PruneBranches(x, o, S) = ForEach(T, DeleteBranchTarget)
      BY DEF PruneBranches
    <2> HIDE DEF T
    <2> QED
      BY <2>1, <2>2, DeleteGroups
  <1>2. PruneUsers(x, S) \in Seq(Groups(c))
    <2> DEFINE T == {t \in S : ~UsedByOther(x, t)}
    <2>1. T \in SUBSET RemoteTargets
      OBVIOUS
    <2>2. PruneUsers(x, S) = ForEach(T, DeleteUserTarget)
      BY DEF PruneUsers
    <2> HIDE DEF T
    <2> QED
      BY <2>1, <2>2, DeleteGroups
  <1> QED
    BY <1>1, <1>2

\* The calls of the branch policy.
LEMMA BranchCalls ==
  ASSUME IInv, NEW c, NEW x \in Syncers, NEW o, o.branches \subseteq Branches
  PROVE  /\ ReconcileBranchTargets(x, o) \in Seq(Groups(c))
         /\ CleanupBranchTargets(x) \in Seq(Groups(c))
  <1> DEFINE existing == ManagedTargets(x, "branch")
             missing == [up : {UpstreamOf[x]}, to : o.branches] \ existing
  <1>1. missing \in SUBSET RemoteTargets /\ existing \in SUBSET RemoteTargets
    BY ManagedTargetsTyped DEF RemoteTargets, Upstreams
  <1>2. ReconcileBranchTargets(x, o) \in Seq(Groups(c))
    <2>1. ReconcileBranchTargets(x, o) =
            [i \in 1 .. Cardinality(missing) |-> <<Call("createTarget", SetToSeq(missing)[i], {})>>]
              \o << <<Call("pruneBranches", x, existing)>> >>
      BY DEF ReconcileBranchTargets, ForEach
    <2> HIDE DEF existing, missing
    <2>2. << <<Call("pruneBranches", x, existing)>> >> \in Seq(Groups(c))
      BY <1>1, CallTypes, SmallGroups
    <2>3. [i \in 1 .. Cardinality(missing) |-> <<Call("createTarget", SetToSeq(missing)[i], {})>>]
            \in Seq(Groups(c))
      BY <1>1, CreateGroups
    <2> QED
      BY <2>1, <2>2, <2>3, ConcatProperties
  <1>3. CleanupBranchTargets(x) \in Seq(Groups(c))
    <2> DEFINE S == {t \in ManagedTargets(x, "branch") : ~UsedByOther(x, t)}
    <2>1. S \in SUBSET RemoteTargets
      BY <1>1
    <2>2. CleanupBranchTargets(x) = ForEach(S, DeleteBranchTarget)
      BY DEF CleanupBranchTargets
    <2> HIDE DEF S
    <2> QED
      BY <2>1, <2>2, DeleteGroups
  <1> QED
    BY <1>2, <1>3

\* A pair of calls.
LEMMA Pair ==
  ASSUME NEW S, NEW a \in S, NEW d \in S
  PROVE  <<a>> \o <<d>> = <<a, d>>
  <1>1. <<a>> \in Seq(S) /\ <<d>> \in Seq(S) /\ <<a, d>> \in Seq(S)
    OBVIOUS
  <1>2. Len(<<a>>) = 1 /\ Len(<<d>>) = 1 /\ Len(<<a, d>>) = 2
    OBVIOUS
  <1>3. /\ <<a>> \o <<d>> \in Seq(S)
        /\ Len(<<a>> \o <<d>>) = 2
        /\ \A i \in 1 .. 2 : (<<a>> \o <<d>>)[i] = IF i <= 1 THEN <<a>>[i] ELSE <<d>>[i - 1]
    BY <1>1, <1>2, ConcatProperties
  <1>4. \A i \in 1 .. 2 : (<<a>> \o <<d>>)[i] = <<a, d>>[i]
    BY <1>3
  <1> QED
    BY <1>1, <1>2, <1>3, <1>4, SeqEqual

\* The calls of the user-specific policy.
LEMMA UserCalls ==
  ASSUME IInv, NEW c, NEW x \in Syncers
  PROVE  /\ ReconcileUserTargets(x) \in Seq(Groups(c))
         /\ CleanupUserTargets(x) \in Seq(Groups(c))
  <1>1. ReconcileUserTargets(x) \in Seq(Groups(c))
    <2> DEFINE existing == ManagedTargets(x, "user")
               rubs == ManagedBindings(Cached("bindings"))
               Target(b) == [up |-> UpstreamOf[x], to |-> b.user]
               Ensure(b) == (IF Target(b) \in existing THEN <<>>
                             ELSE <<Call("createTarget", Target(b), {})>>)
                            \o <<Call("addTargetRef", b, {Target(b)})>>
               stale == {t \in existing : \A b \in rubs : b.user # t.to}
               f == [b \in rubs |-> Ensure(b)]
               loop == [i \in 1 .. Cardinality(rubs) |-> f[SetToSeq(rubs)[i]]]
    <2>1. /\ existing \in SUBSET RemoteTargets /\ stale \in SUBSET RemoteTargets
          /\ rubs \in SUBSET Names
      BY ManagedTargetsTyped, ManagedAreNames, CachedViews
    <2>2. \A b \in rubs : Target(b) \in RemoteTargets
      BY <2>1 DEF RemoteTargets, Upstreams, Names
    <2>3. ASSUME NEW b \in rubs PROVE Ensure(b) \in Groups(c)
      <3>1. Call("createTarget", Target(b), {}) \in Calls(c)
        BY <2>2, CallTypes
      <3>2. Call("addTargetRef", b, {Target(b)}) \in Calls(c)
        BY <2>1, <2>2, CallTypes
      <3> HIDE DEF Target, existing, rubs
      <3>3. CASE Target(b) \in existing
        <4>1. Ensure(b) = <<Call("addTargetRef", b, {Target(b)})>>
          BY <3>2, <3>3
        <4> QED
          BY <3>2, <4>1, SmallGroups
      <3>4. CASE Target(b) \notin existing
        <4>1. Ensure(b) = <<Call("createTarget", Target(b), {}), Call("addTargetRef", b, {Target(b)})>>
          <5>1. Ensure(b) = <<Call("createTarget", Target(b), {})>> \o <<Call("addTargetRef", b, {Target(b)})>>
            BY <3>4, Zenon
          <5> HIDE DEF Ensure
          <5> QED
            BY <3>1, <3>2, <5>1, Pair
        <4> QED
          BY <3>1, <3>2, <4>1, SmallGroups
      <3> QED
        BY <3>3, <3>4
    <2>4. f \in [rubs -> Groups(c)]
      BY <2>3
    <2>5. IsFiniteSet(rubs) /\ \A i \in 1 .. Cardinality(rubs) : SetToSeq(rubs)[i] \in rubs
      BY <2>1, FinitelyMany, FS_Subset, ListOfSet
    <2>6. loop = ForEach(rubs, Ensure)
      BY <2>5 DEF ForEach
    <2>7. ReconcileUserTargets(x) = loop \o << <<Call("pruneUsers", x, stale)>> >>
      BY <2>6 DEF ReconcileUserTargets
    <2>8. << <<Call("pruneUsers", x, stale)>> >> \in Seq(Groups(c))
      BY <2>1, CallTypes, SmallGroups
    <2> HIDE DEF f, rubs
    <2>9. loop \in Seq(Groups(c))
      BY <2>4, <2>5, GroupForEach
    <2> HIDE DEF loop, stale
    <2> QED
      BY <2>7, <2>8, <2>9, ConcatProperties
  <1>2. CleanupUserTargets(x) \in Seq(Groups(c))
    <2> DEFINE S == {t \in ManagedTargets(x, "user") : ~UsedByOther(x, t)}
    <2>1. S \in SUBSET RemoteTargets
      BY ManagedTargetsTyped
    <2>2. CleanupUserTargets(x) = ForEach(S, DeleteUserTarget)
      BY DEF CleanupUserTargets
    <2> HIDE DEF S
    <2> QED
      BY <2>1, <2>2, DeleteGroups
  <1> QED
    BY <1>1, <1>2

\* The calls of the association policy.
LEMMA AssociationCalls ==
  ASSUME IInv, NEW c, NEW x \in RemoteUsers
  PROVE  /\ ReconcileAssociation(x) \in Todos(c)
         /\ CleanupAssociation(x) \in Seq(Groups(c))
  <1>1. << >> \in Seq(Groups(c))
    OBVIOUS
  <1>2. CASE UserOf[x] = None
    BY <1>1, <1>2, Zenon DEF ReconcileAssociation, CleanupAssociation, Todos
  <1>3. CASE UserOf[x] # None
    <2> DEFINE S == {b \in ManagedBindings(Cached("bindings")) : b.user = UserOf[x]}
    <2>1. S \in SUBSET Names
      BY CachedViews, ManagedAreNames
    <2>2. CleanupAssociation(x) =
            [i \in 1 .. Cardinality(S) |-> <<Call("removeUserRefs", SetToSeq(S)[i], {x})>>]
      BY <1>3 DEF CleanupAssociation, ForEach
    <2>3. ReconcileAssociation(x) = << <<Call("findBinding", x, {})>> >>
      BY <1>3, Zenon DEF ReconcileAssociation
    <2>4. Call("findBinding", x, {}) \in NameCalls
      BY <1>3, CallTypes DEF Stamped
    <2>5. ReconcileAssociation(x) \in Todos(c)
      BY <2>3, <2>4, Zenon DEF Todos
    <2> HIDE DEF S
    <2>6. CleanupAssociation(x) \in Seq(Groups(c))
      BY <2>1, <2>2, RemoveGroups
    <2> QED
      BY <2>5, <2>6
  <1> QED
    BY <1>2, <1>3

\* The turn of a policy.
LEMMA TurnCalls ==
  ASSUME IInv, NEW c \in Controllers \ {"RemoteUserBinding"}, NEW x \in KeysOf(c), NEW o,
         c # "RemoteUser" => o.branches \subseteq Branches,
         NEW p \in PolicyNames(c), NEW cleaning
  PROVE  Turn(p, x, o, cleaning) \in Todos(c) /\ PolicyCleanup(p, x) \in Seq(Groups(c))
  <1>1. PolicyCleanup(p, x) \in Seq(Groups(c)) /\ PolicyReconcile(p, x, o) \in Todos(c)
    <2>1. CASE c = "RemoteUser"
      <3>1. x \in RemoteUsers /\ p = "association"
        BY <2>1, KeysOfEach DEF PolicyNames
      <3>2. PolicyCleanup(p, x) = CleanupAssociation(x) /\ PolicyReconcile(p, x, o) = ReconcileAssociation(x)
        BY <3>1, Zenon DEF PolicyCleanup, PolicyReconcile
      <3> QED
        BY <3>1, <3>2, AssociationCalls, Zenon
    <2>2. CASE c # "RemoteUser"
      <3>1. x \in Syncers /\ p \in {"branch", "user"}
        BY <2>2, KeysOfEach DEF PolicyNames, Controllers, Syncers
      <3>2. CASE p = "branch"
        <4>1. PolicyCleanup(p, x) = CleanupBranchTargets(x) /\ PolicyReconcile(p, x, o) = ReconcileBranchTargets(x, o)
          BY <3>2, Zenon DEF PolicyCleanup, PolicyReconcile
        <4> QED
          BY <2>2, <3>1, <4>1, BranchCalls, Zenon DEF Todos
      <3>3. CASE p = "user"
        <4>1. PolicyCleanup(p, x) = CleanupUserTargets(x) /\ PolicyReconcile(p, x, o) = ReconcileUserTargets(x)
          BY <3>3, Zenon DEF PolicyCleanup, PolicyReconcile
        <4> QED
          BY <3>1, <4>1, UserCalls, Zenon DEF Todos
      <3> QED
        BY <3>1, <3>2, <3>3
    <2> QED
      BY <2>1, <2>2
  <1> DEFINE drop == IF p \in o.fins THEN << <<Call("removeFinalizer", p, {})>> >> ELSE <<>>
             clean == PolicyCleanup(p, x)
             rec == PolicyReconcile(p, x, o)
  <1>2. << >> \in Seq(Groups(c)) /\ << <<Call("removeFinalizer", p, {})>> >> \in Seq(Groups(c))
    BY CallTypes, SmallGroups
  <1>3. drop \in Seq(Groups(c))
    BY <1>2
  <1>4. Turn(p, x, o, cleaning) = IF cleaning THEN IF p \in o.fins THEN clean \o drop ELSE <<>>
                                  ELSE IF Applies(p, o) THEN rec ELSE clean \o drop
    BY Zenon DEF Turn
  <1> HIDE DEF drop, clean, rec
  <1>5. clean \o drop \in Seq(Groups(c))
    BY <1>1, <1>3, ConcatProperties DEF clean
  <1>6. rec \in Todos(c)
    BY <1>1 DEF rec
  <1> QED
    BY <1>1, <1>2, <1>4, <1>5, <1>6, Zenon DEF Todos

\* What a read of the cache expands into.
LEMMA ReadCalls ==
  ASSUME IInv, NEW c, NEW x, NEW o, NEW call \in Calls(c), call.do \in Reads
  PROVE  Read(x, o, call) \in Seq(Groups(c))
  <1>1. CASE call.do = "removeRefs"
    <2> DEFINE S == ManagedBindings(Cached("bindings"))
    <2>1. S \in SUBSET Names /\ call.on \in RemoteTargets
      BY <1>1, CachedViews, ManagedAreNames, CallSorts
    <2>2. Read(x, o, call) = ForEach(S, LAMBDA b : <<Call("removeTargetRef", b, {call.on})>>)
      BY <1>1, Zenon DEF Read
    <2>3. Read(x, o, call) =
            [i \in 1 .. Cardinality(S) |-> <<Call("removeTargetRef", SetToSeq(S)[i], {call.on})>>]
      BY <2>2 DEF ForEach
    <2> HIDE DEF S
    <2> QED
      BY <2>1, <2>3, RemoveGroups
  <1>2. CASE call.do = "pruneBranches"
    <2>1. Read(x, o, call) = PruneBranches(x, o, call.arg)
      BY <1>2, Zenon DEF Read
    <2>2. call.arg \in SUBSET RemoteTargets
      BY <1>2, CallSorts
    <2> QED
      BY <2>1, <2>2, PruneGroups
  <1>3. CASE call.do = "pruneUsers"
    <2>1. Read(x, o, call) = PruneUsers(x, call.arg)
      BY <1>3, Zenon DEF Read
    <2>2. call.arg \in SUBSET RemoteTargets
      BY <1>3, CallSorts
    <2> QED
      BY <2>1, <2>2, PruneGroups
  <1> QED
    BY <1>1, <1>2, <1>3 DEF Reads

\* A reconcile with something left to do.
LEMMA JobTyped ==
  ASSUME NEW c, NEW x \in KeysOf(c), NEW o, NEW cleaning,
         c \in {"RemoteSyncer", "ClusterWideRemoteSyncer"} => o.branches \subseteq Branches,
         NEW policies \in Seq(PolicyNames(c)), NEW calls \in Todos(c),
         Job(x, o, cleaning, policies, calls) # Idle
  PROVE  IsJob(c, Job(x, o, cleaning, policies, calls))
  <1>1. /\ policies # <<>> \/ calls # <<>>
        /\ Job(x, o, cleaning, policies, calls) =
             [key |-> x, obj |-> o, cleaning |-> cleaning, policies |-> policies, todo |-> calls]
    BY Zenon DEF Job
  <1> DEFINE j == [key |-> x, obj |-> o, cleaning |-> cleaning, policies |-> policies, todo |-> calls]
  <1>2. j.key = x /\ j.obj = o /\ j.policies = policies /\ j.todo = calls
    OBVIOUS
  <1> HIDE DEF j
  <1>3. IsJob(c, j)
    BY <1>1, <1>2, Zenon DEF IsJob
  <1> QED
    BY <1>1, <1>3 DEF j
---------------------------------------------------------------------------
(* What is written is an object of its kind.                               *)

\* An object with other finalizers: without the last one, an object under
\* deletion is gone.
Written(o, fins) ==
  IF WithFinalizers(o, fins).deleting THEN Deleted(WithFinalizers(o, fins))
  ELSE WithFinalizers(o, fins)

LEMMA UserObjectWrites ==
  ASSUME NEW o \in UserObjects
  PROVE  /\ \A fins \in SUBSET {"association"} :
              /\ Written(o, fins) \in UserObjects \cup {None}
              /\ Written(o, fins) = None \/ Written(o, fins).fins = fins
              /\ WithFinalizers(o, fins).fins = fins
              /\ WithFinalizers(o, fins).deleting = o.deleting
         /\ Deleted(o) \in UserObjects \cup {None}
         /\ \A v \in SecretStates : [o EXCEPT !.status = v] \in UserObjects
         /\ [o EXCEPT !.managed = ~@] \in UserObjects
         /\ o.fins \subseteq {"association"} /\ (o.deleting => o.fins # {})
  <1> DEFINE R == [managed : BOOLEAN, fins : SUBSET {"association"}, deleting : BOOLEAN,
                   status : SecretStates \cup {""}]
  <1>1. o \in R /\ (o.deleting => o.fins # {}) /\ \A v : v \in R /\ (v.deleting => v.fins # {}) => v \in UserObjects
    BY Zenon DEF UserObjects
  <1>2. ASSUME NEW v \in R
        PROVE  /\ [v EXCEPT !.deleting = TRUE] \in R
               /\ [v EXCEPT !.deleting = TRUE].fins = v.fins
    BY Zenon
  <1>3. ASSUME NEW v \in R PROVE Deleted(v) \in UserObjects \cup {None}
    BY <1>1, <1>2, <1>3, Zenon DEF Deleted
  <1>4. ASSUME NEW fins \in SUBSET {"association"}
        PROVE  /\ WithFinalizers(o, fins) \in R /\ WithFinalizers(o, fins).fins = fins
               /\ WithFinalizers(o, fins).deleting = o.deleting
    BY <1>1, Zenon DEF WithFinalizers
  <1>5. ASSUME NEW v \in R PROVE Deleted(v) = None \/ Deleted(v).fins = v.fins
    BY <1>2, Zenon DEF Deleted
  <1>6. \A fins \in SUBSET {"association"} : Written(o, fins) = None \/ Written(o, fins).fins = fins
    BY <1>5, <1>4, Zenon DEF Written
  <1>7. \A fins \in SUBSET {"association"} : Written(o, fins) \in UserObjects \cup {None}
    BY <1>1, <1>3, <1>4, Zenon DEF Written
  <1>8. ASSUME NEW v \in SecretStates PROVE [o EXCEPT !.status = v] \in UserObjects
    <2>1. /\ [o EXCEPT !.status = v] \in R /\ [o EXCEPT !.status = v].fins = o.fins
          /\ [o EXCEPT !.status = v].deleting = o.deleting
      BY <1>1, Zenon
    <2> QED
      BY <1>1, <2>1, Zenon
  <1>9. [o EXCEPT !.managed = ~@] \in UserObjects
    <2>1. /\ [o EXCEPT !.managed = ~@] \in R /\ [o EXCEPT !.managed = ~@].fins = o.fins
          /\ [o EXCEPT !.managed = ~@].deleting = o.deleting
      BY <1>1, Zenon
    <2> QED
      BY <1>1, <2>1, Zenon
  <1>10. o.fins \subseteq {"association"}
    BY <1>1
  <1> QED
    BY <1>1, <1>3, <1>4, <1>6, <1>7, <1>8, <1>9, <1>10, Zenon

LEMMA SyncerObjectWrites ==
  ASSUME NEW o \in SyncerObjects
  PROVE  /\ \A fins \in SUBSET {"branch", "user"} :
              /\ Written(o, fins) \in SyncerObjects \cup {None}
              /\ Written(o, fins) = None \/ Written(o, fins).fins = fins
              /\ WithFinalizers(o, fins).fins = fins
              /\ WithFinalizers(o, fins).deleting = o.deleting
              /\ WithFinalizers(o, fins).branches \subseteq Branches
         /\ Deleted(o) \in SyncerObjects \cup {None}
         /\ \A B \in SUBSET Branches, u \in BOOLEAN :
              [o EXCEPT !.branches = B, !.userSpecific = u] \in SyncerObjects
         /\ o.fins \subseteq {"branch", "user"} /\ (o.deleting => o.fins # {})
         /\ o.branches \subseteq Branches
  <1> DEFINE R == [branches : SUBSET Branches, userSpecific : BOOLEAN,
                   fins : SUBSET {"branch", "user"}, deleting : BOOLEAN]
  <1>1. o \in R /\ (o.deleting => o.fins # {}) /\ \A v : v \in R /\ (v.deleting => v.fins # {}) => v \in SyncerObjects
    BY Zenon DEF SyncerObjects
  <1>2. ASSUME NEW v \in R
        PROVE  /\ [v EXCEPT !.deleting = TRUE] \in R
               /\ [v EXCEPT !.deleting = TRUE].fins = v.fins
    BY Zenon
  <1>3. ASSUME NEW v \in R PROVE Deleted(v) \in SyncerObjects \cup {None}
    BY <1>1, <1>2, <1>3, Zenon DEF Deleted
  <1>4. ASSUME NEW fins \in SUBSET {"branch", "user"}
        PROVE  /\ WithFinalizers(o, fins) \in R /\ WithFinalizers(o, fins).fins = fins
               /\ WithFinalizers(o, fins).deleting = o.deleting
    BY <1>1, Zenon DEF WithFinalizers
  <1>5. ASSUME NEW v \in R PROVE Deleted(v) = None \/ Deleted(v).fins = v.fins
    BY <1>2, Zenon DEF Deleted
  <1>6. \A fins \in SUBSET {"branch", "user"} : Written(o, fins) = None \/ Written(o, fins).fins = fins
    BY <1>5, <1>4, Zenon DEF Written
  <1>7. ASSUME NEW fins \in SUBSET {"branch", "user"}
        PROVE  /\ Written(o, fins) \in SyncerObjects \cup {None}
               /\ WithFinalizers(o, fins).branches \subseteq Branches
    <2>1. Written(o, fins) \in SyncerObjects \cup {None}
      BY <1>1, <1>3, <1>4, Zenon DEF Written
    <2>2. PICK v \in R : v = WithFinalizers(o, fins)
      BY <1>4, Zenon
    <2>3. v.branches \subseteq Branches
      OBVIOUS
    <2> QED
      BY <2>1, <2>2, <2>3, Zenon
  <1>8. ASSUME NEW B \in SUBSET Branches, NEW u \in BOOLEAN
        PROVE  [o EXCEPT !.branches = B, !.userSpecific = u] \in SyncerObjects
    <2>1. /\ [o EXCEPT !.branches = B, !.userSpecific = u] \in R
          /\ [o EXCEPT !.branches = B, !.userSpecific = u].fins = o.fins
          /\ [o EXCEPT !.branches = B, !.userSpecific = u].deleting = o.deleting
      BY <1>1, Zenon
    <2> QED
      BY <1>1, <2>1, Zenon
  <1>9. o.fins \subseteq {"branch", "user"} /\ o.branches \subseteq Branches
    BY <1>1
  <1> QED
    BY <1>1, <1>3, <1>4, <1>6, <1>7, <1>8, <1>9, Zenon

LEMMA BindingObjectWrites ==
  ASSUME NEW o \in BindingObjects
  PROVE  /\ \A U, V \in SUBSET RemoteUsers : [o EXCEPT !.bound = U, !.notBound = V] \in BindingObjects
         /\ \A U \in SUBSET RemoteUsers : [o EXCEPT !.remoteUserRefs = U] \in BindingObjects
         /\ \A T \in SUBSET RemoteTargets : [o EXCEPT !.remoteTargetRefs = T] \in BindingObjects
         /\ o.remoteUserRefs \subseteq RemoteUsers /\ o.remoteTargetRefs \subseteq RemoteTargets
  <1>1. \A U, V \in SUBSET RemoteUsers : [o EXCEPT !.bound = U, !.notBound = V] \in BindingObjects
    BY Zenon DEF BindingObjects
  <1>2. \A U \in SUBSET RemoteUsers : [o EXCEPT !.remoteUserRefs = U] \in BindingObjects
    BY Zenon DEF BindingObjects
  <1>3. \A T \in SUBSET RemoteTargets : [o EXCEPT !.remoteTargetRefs = T] \in BindingObjects
    BY Zenon DEF BindingObjects
  <1>4. o.remoteUserRefs \subseteq RemoteUsers /\ o.remoteTargetRefs \subseteq RemoteTargets
    BY DEF BindingObjects
  <1> QED
    BY <1>1, <1>2, <1>3, <1>4

LEMMA NewBindingTyped ==
  ASSUME NEW m \in BOOLEAN, NEW S \in SUBSET RemoteUsers
  PROVE  NewBinding(m, S) \in BindingObjects
  BY DEF NewBinding, BindingObjects

LEMMA MutateTyped ==
  ASSUME IInv, NEW c, NEW call \in Calls(c), call.do \in Mutations, NEW o \in BindingObjects
  PROVE  Mutate(call, o) \in BindingObjects
  <1>1. CASE call.do = "addUserRef"
    <2>1. Mutate(call, o) = [o EXCEPT !.remoteUserRefs = o.remoteUserRefs \cup call.arg]
      BY <1>1, Zenon DEF Mutate
    <2>2. (o.remoteUserRefs \cup call.arg) \in SUBSET RemoteUsers
      BY <1>1, CallSorts, BindingObjectWrites
    <2> QED
      BY <2>1, <2>2, BindingObjectWrites, Zenon
  <1>2. CASE call.do = "removeUserRefs"
    <2>1. Mutate(call, o) = [o EXCEPT !.remoteUserRefs = o.remoteUserRefs \ call.arg]
      BY <1>2, Zenon DEF Mutate
    <2>2. (o.remoteUserRefs \ call.arg) \in SUBSET RemoteUsers
      BY <1>2, CallSorts, BindingObjectWrites
    <2> QED
      BY <2>1, <2>2, BindingObjectWrites, Zenon
  <1>3. CASE call.do = "addTargetRef"
    <2>1. Mutate(call, o) = [o EXCEPT !.remoteTargetRefs = o.remoteTargetRefs \cup call.arg]
      BY <1>3, Zenon DEF Mutate
    <2>2. (o.remoteTargetRefs \cup call.arg) \in SUBSET RemoteTargets
      BY <1>3, CallSorts, BindingObjectWrites
    <2> QED
      BY <2>1, <2>2, BindingObjectWrites, Zenon
  <1>4. CASE call.do = "removeTargetRef"
    <2>1. Mutate(call, o) = [o EXCEPT !.remoteTargetRefs = o.remoteTargetRefs \ call.arg]
      BY <1>4, Zenon DEF Mutate
    <2>2. (o.remoteTargetRefs \ call.arg) \in SUBSET RemoteTargets
      BY <1>4, CallSorts, BindingObjectWrites
    <2> QED
      BY <2>1, <2>2, BindingObjectWrites, Zenon
  <1>5. CASE call.do = "addBranchTargets"
    <2>1. Mutate(call, o) =
            [o EXCEPT !.remoteTargetRefs = o.remoteTargetRefs \cup (Cached("targets") \cap BranchTargets)]
      BY <1>5, Zenon DEF Mutate
    <2>2. (o.remoteTargetRefs \cup (Cached("targets") \cap BranchTargets)) \in SUBSET RemoteTargets
      BY CachedViews, BindingObjectWrites
    <2> QED
      BY <2>1, <2>2, BindingObjectWrites, Zenon
  <1> QED
    BY <1>1, <1>2, <1>3, <1>4, <1>5 DEF Mutations
---------------------------------------------------------------------------
(* Writes: the stored state moves on and the cached one does not.          *)

\* What no write changes: the caches, and that an object is out of date.
OnlyAppends ==
  \A k \in Kinds : Cached(k)' = Cached(k) /\ \A x : ~Current(k, x) => ~Current(k, x)'

\* One of the lengths changes by d.
LEMMA LagOf ==
  ASSUME NEW L \in [Kinds -> Int], NEW M \in [Kinds -> Int], NEW k \in Kinds, NEW d \in Int,
         \A q \in Kinds : M[q] = IF q = k THEN L[q] + d ELSE L[q]
  PROVE  M["users"] + M["bindings"] + M["targets"] + M["syncers"] + M["secrets"] - 5 =
         L["users"] + L["bindings"] + L["targets"] + L["syncers"] + L["secrets"] - 5 + d
  BY DEF Kinds

LagIn(f) ==
  Len(f["users"]) + Len(f["bindings"]) + Len(f["targets"]) + Len(f["syncers"]) + Len(f["secrets"]) - 5

LEMMA LagStep ==
  ASSUME NEW f, NEW g, NEW k \in Kinds, \A q \in Kinds : Len(f[q]) \in Int
  PROVE  /\ (\A q \in Kinds : Len(g[q]) = IF q = k THEN Len(f[q]) + 1 ELSE Len(f[q])) =>
               LagIn(g) = LagIn(f) + 1
         /\ (\A q \in Kinds : Len(g[q]) = IF q = k THEN Len(f[q]) - 1 ELSE Len(f[q])) =>
               LagIn(g) = LagIn(f) - 1
  <1> SUFFICES ASSUME NEW d \in {1, -1},
                      \A q \in Kinds : Len(g[q]) = IF q = k THEN Len(f[q]) + d ELSE Len(f[q])
               PROVE  LagIn(g) = LagIn(f) + d
    OBVIOUS
  <1> DEFINE L == [q \in Kinds |-> Len(f[q])]
             M == [q \in Kinds |-> Len(g[q])]
  <1>1. L \in [Kinds -> Int]
    OBVIOUS
  <1>2. \A q \in Kinds : M[q] = IF q = k THEN L[q] + d ELSE L[q]
    BY Zenon
  <1>3. /\ LagIn(f) = L["users"] + L["bindings"] + L["targets"] + L["syncers"] + L["secrets"] - 5
        /\ LagIn(g) = M["users"] + M["bindings"] + M["targets"] + M["syncers"] + M["secrets"] - 5
    BY DEF LagIn, Kinds
  <1>4. DOMAIN M = Kinds /\ M = [q \in Kinds |-> M[q]]
    OBVIOUS
  <1> HIDE DEF L, M
  <1>5. M \in [Kinds -> Int]
    BY <1>1, <1>2, <1>4
  <1> QED
    <2>1. d \in Int
      OBVIOUS
    <2>2. M["users"] + M["bindings"] + M["targets"] + M["syncers"] + M["secrets"] - 5 =
            L["users"] + L["bindings"] + L["targets"] + L["syncers"] + L["secrets"] - 5 + d
      BY <1>1, <1>2, <1>5, <2>1, LagOf, Zenon
    <2> QED
      BY <1>3, <2>2, Zenon

LEMMA FivePositive ==
  ASSUME NEW a \in Nat \ {0}, NEW b \in Nat \ {0}, NEW c \in Nat \ {0}, NEW d \in Nat \ {0},
         NEW e \in Nat \ {0}
  PROVE  a + b + c + d + e - 5 \in Nat
  OBVIOUS

LEMMA LagNat ==
  ASSUME NEW f, \A q \in Kinds : Len(f[q]) \in Nat \ {0}
  PROVE  LagIn(f) \in Nat
  <1> DEFINE L == [q \in Kinds |-> Len(f[q])]
  <1>1. L \in [Kinds -> Nat \ {0}]
    OBVIOUS
  <1>2. LagIn(f) = L["users"] + L["bindings"] + L["targets"] + L["syncers"] + L["secrets"] - 5
    BY DEF LagIn, Kinds
  <1> HIDE DEF L
  <1>3. L["users"] + L["bindings"] + L["targets"] + L["syncers"] + L["secrets"] - 5 \in Nat
    <2>1. /\ L["users"] \in Nat \ {0} /\ L["bindings"] \in Nat \ {0} /\ L["targets"] \in Nat \ {0}
          /\ L["syncers"] \in Nat \ {0} /\ L["secrets"] \in Nat \ {0}
      BY <1>1, Zenon DEF Kinds
    <2> QED
      BY <2>1, FivePositive, Zenon
  <1> QED
    BY <1>2, <1>3, Zenon

LEMMA PutFacts ==
  ASSUME IInv, NEW k \in Kinds, NEW v \in States(k), Put(k, v)
  PROVE  StoreInv' /\ OnlyAppends /\ Stored(k)' = v
  <1> USE DEF IInv, StoreInv
  <1>1. CASE v = Stored(k)
    <2>1. store' = store
      BY <1>1 DEF Put
    <2>2. StoreInv'
      BY <2>1 DEF Lag
    <2>3. OnlyAppends /\ Stored(k)' = v
      BY <1>1, <2>1 DEF OnlyAppends, Cached, Current, Stored
    <2> QED
      BY <2>2, <2>3
  <1>2. CASE v # Stored(k)
    <2>1. Lag < MaxLag /\ store' = [store EXCEPT ![k] = Append(store[k], v)]
      BY <1>2 DEF Put
    <2>2. store' = [q \in Kinds |-> IF q = k THEN Append(store[k], v) ELSE store[q]]
      BY <2>1, Zenon
    <2>3. \A q \in Kinds : store'[q] = IF q = k THEN Append(store[k], v) ELSE store[q]
      BY <2>2
    <2>4. store[k] \in Seq(States(k)) /\ store[k] # <<>> /\ Len(store[k]) \in Nat \ {0}
      BY Views
    <2>5. /\ Append(store[k], v) \in Seq(States(k)) /\ Append(store[k], v) # <<>>
          /\ Len(Append(store[k], v)) = Len(store[k]) + 1
          /\ \A i \in 1 .. Len(store[k]) : Append(store[k], v)[i] = store[k][i]
          /\ Append(store[k], v)[Len(store[k]) + 1] = v
      BY <2>4, AppendProperties
    <2>6. \A q \in Kinds : store'[q] \in Seq(States(q)) \ {<<>>}
      BY <2>3, <2>5, Zenon
    <2>7. \A q \in Kinds : Len(store[q]) \in Int
      BY Views
    <2>8. Lag' = Lag + 1
      <3>1. \A q \in Kinds : Len(store'[q]) = IF q = k THEN Len(store[q]) + 1 ELSE Len(store[q])
        BY <2>3, <2>5, Zenon
      <3>2. LagIn(store') = LagIn(store) + 1
        BY <2>7, <3>1, LagStep
      <3> QED
        BY <3>2 DEF Lag, LagIn
    <2>9. Lag' \in 0 .. MaxLag
      BY <2>1, <2>8, PoliciesAssumption
    <2>10. StoreInv'
      <3>1. store' = [q \in Kinds |-> store'[q]]
        BY <2>2
      <3> QED
        BY <2>6, <2>9, <3>1
    <2>11. Stored(k)' = v
      <3>1. store'[k] = Append(store[k], v)
        BY <2>3
      <3> QED
        BY <2>4, <2>5, <3>1 DEF Stored, Last
    <2>12. OnlyAppends
      <3> SUFFICES ASSUME NEW q \in Kinds
                   PROVE  Cached(q)' = Cached(q) /\ \A x : ~Current(q, x) => ~Current(q, x)'
        BY DEF OnlyAppends
      <3>1. CASE q # k
        <4>1. store'[q] = store[q]
          BY <2>3, <3>1
        <4> QED
          BY <4>1 DEF Cached, Current
      <3>2. CASE q = k
        <4> DEFINE s == store[k]
                   t == store'[k]
        <4>1. /\ t \in Seq(States(k)) /\ t # <<>> /\ Len(t) = Len(s) + 1
              /\ \A i \in 1 .. Len(s) : t[i] = s[i]
          BY <2>3, <2>5, Zenon
        <4>2. s \in Seq(States(k)) /\ s # <<>> /\ Len(s) \in Nat \ {0}
          BY <2>4
        <4>3. Cached(q)' = Head(t) /\ Cached(q) = Head(s)
          BY <3>2, Zenon DEF Cached
        <4>4. \A x : /\ Current(q, x) <=> \A i \in DOMAIN s : s[i][x] = Head(s)[x]
                     /\ Current(q, x)' <=> \A i \in DOMAIN t : t[i][x] = Head(t)[x]
          BY <3>2, Zenon DEF Current, Cached
        <4> HIDE DEF s, t
        <4>5. Head(t) = Head(s)
          <5>1. Head(s) = s[1] /\ Head(t) = t[1]
            BY <4>1, <4>2
          <5>2. 1 \in 1 .. Len(s)
            BY <4>2
          <5> QED
            BY <4>1, <5>1, <5>2, Zenon
        <4>6. DOMAIN s = 1 .. Len(s) /\ DOMAIN t = 1 .. Len(s) + 1
          BY <4>1, <4>2
        <4>7. \A i \in DOMAIN s : i \in DOMAIN t /\ t[i] = s[i]
          BY <4>1, <4>2, <4>6
        <4> QED
          BY <4>3, <4>4, <4>5, <4>7, Zenon
      <3> QED
        BY <3>1, <3>2
    <2> QED
      BY <2>10, <2>11, <2>12
  <1> QED
    BY <1>1, <1>2

LEMMA SameStore ==
  ASSUME IInv, UNCHANGED store
  PROVE  StoreInv' /\ OnlyAppends
  BY DEF IInv, StoreInv, Lag, OnlyAppends, Cached, Current

\* A write of one object.
LEMMA WriteUser ==
  ASSUME IInv, NEW x \in RemoteUsers, NEW v \in UserObjects \cup {None}, PutObject("users", x, v)
  PROVE  StoreInv' /\ OnlyAppends /\ Stored("users")'[x] = v
  <1>1. [Stored("users") EXCEPT ![x] = v] \in States("users")
    BY StoredViews, StatesOf
  <1>2. /\ StoreInv' /\ OnlyAppends
        /\ Stored("users")' = [Stored("users") EXCEPT ![x] = v]
    BY <1>1, PutFacts, Zenon DEF PutObject, Kinds
  <1>3. [Stored("users") EXCEPT ![x] = v][x] = v
    BY StoredViews
  <1> QED
    BY <1>2, <1>3

LEMMA WriteSyncer ==
  ASSUME IInv, NEW x \in Syncers, NEW v \in SyncerObjects \cup {None}, PutObject("syncers", x, v)
  PROVE  StoreInv' /\ OnlyAppends /\ Stored("syncers")'[x] = v
  <1>1. [Stored("syncers") EXCEPT ![x] = v] \in States("syncers")
    BY StoredViews, StatesOf
  <1>2. /\ StoreInv' /\ OnlyAppends
        /\ Stored("syncers")' = [Stored("syncers") EXCEPT ![x] = v]
    BY <1>1, PutFacts, Zenon DEF PutObject, Kinds
  <1>3. [Stored("syncers") EXCEPT ![x] = v][x] = v
    BY StoredViews
  <1> QED
    BY <1>2, <1>3

LEMMA WriteBinding ==
  ASSUME IInv, NEW x \in Names, NEW v \in BindingObjects \cup {None}, PutObject("bindings", x, v)
  PROVE  StoreInv' /\ OnlyAppends /\ Stored("bindings")'[x] = v
  <1>1. [Stored("bindings") EXCEPT ![x] = v] \in States("bindings")
    BY StoredViews, StatesOf
  <1>2. /\ StoreInv' /\ OnlyAppends
        /\ Stored("bindings")' = [Stored("bindings") EXCEPT ![x] = v]
    BY <1>1, PutFacts, Zenon DEF PutObject, Kinds
  <1>3. [Stored("bindings") EXCEPT ![x] = v][x] = v
    BY StoredViews
  <1> QED
    BY <1>2, <1>3

LEMMA WriteTargets ==
  ASSUME IInv, NEW v \in SUBSET RemoteTargets, Put("targets", v)
  PROVE  StoreInv' /\ OnlyAppends
  BY PutFacts, StatesOf, Zenon DEF Kinds

\* An object whose stored version is another than the cached one is out of date.
LEMMA OutOfDate ==
  ASSUME IInv', NEW k \in Kinds, NEW x, Stored(k)'[x] # Cached(k)'[x]
  PROVE  ~Current(k, x)'
  <1> DEFINE t == store'[k]
  <1>1. t \in Seq(States(k)) /\ t # <<>>
    BY DEF IInv, StoreInv
  <1>2. /\ Stored(k)' = t[Len(t)]
        /\ Current(k, x)' <=> \A i \in DOMAIN t : t[i][x] = Cached(k)'[x]
    BY DEF Stored, Last, Current
  <1> HIDE DEF t
  <1>3. Len(t) \in DOMAIN t
    <2>1. Len(t) \in Nat /\ Len(t) # 0 /\ DOMAIN t = 1 .. Len(t)
      BY <1>1, EmptySeq, LenProperties
    <2> QED
      BY <2>1
  <1> QED
    BY <1>2, <1>3, Zenon
---------------------------------------------------------------------------
(* The workers.                                                            *)

\* What every step of another actor than the binding controller leaves alone.
Quiet ==
  /\ OnlyAppends
  /\ queue["RemoteUserBinding"] \subseteq queue'["RemoteUserBinding"]
  /\ work'["RemoteUserBinding"] = work["RemoteUserBinding"]

LEMMA WorkUpdated ==
  ASSUME IInv, NEW c \in Controllers, NEW j, work' = [work EXCEPT ![c] = j],
         j # Idle => IsJob(c, j),
         c = "RemoteUserBinding" /\ j # Idle => IsPruning(j)
  PROVE  WorkInv' /\ work'[c] = j /\ \A d \in Controllers \ {c} : work'[d] = work[d]
  <1>1. work = [d \in Controllers |-> work[d]]
    BY DEF IInv, WorkInv
  <1>2. work' = [d \in Controllers |-> IF d = c THEN j ELSE work[d]]
    BY <1>1, Zenon
  <1>3. \A d \in Controllers : work'[d] = IF d = c THEN j ELSE work[d]
    BY <1>2
  <1>4. work' = [d \in Controllers |-> work'[d]]
    BY <1>2
  <1>5. \A d \in Controllers : work'[d] # Idle => IsJob(d, work'[d])
    BY <1>3, Zenon DEF IInv, WorkInv
  <1>6. "RemoteUserBinding" \in Controllers
    BY DEF Controllers
  <1>7. work'["RemoteUserBinding"] # Idle => IsPruning(work'["RemoteUserBinding"])
    BY <1>3, <1>6, Zenon DEF IInv, WorkInv
  <1> QED
    BY <1>3, <1>4, <1>5, <1>7, Zenon DEF WorkInv

\* A single call.
LEMMA OneCall ==
  ASSUME NEW a
  PROVE  << <<a>> >> # <<>> /\ Later(<< <<a>> >>) = <<>>
  <1> DEFINE s == << <<a>> >>
  <1>1. s \in Seq(Seq({a})) /\ Len(s) = 1 /\ Len(s) # 0 /\ Len(Head(s)) = 1 /\ Len(<<>>) = 0
    OBVIOUS
  <1> HIDE DEF s
  <1>2. s # <<>>
    BY <1>1, Zenon
  <1>3. Tail(s) \in Seq(Seq({a})) /\ Len(Tail(s)) = 0
    BY <1>1, <1>2, HeadTailProperties
  <1>4. Tail(s) = <<>>
    BY <1>3, EmptySeq
  <1>5. Later(s) = <<>>
    BY <1>1, <1>4, Zenon DEF Later
  <1> QED
    BY <1>2, <1>5 DEF s

\* The next call, and what is left after it.
LEMMA NextCallTyped ==
  ASSUME IInv, NEW c \in Controllers, work[c] # Idle
  PROVE  /\ IsJob(c, work[c])
         /\ Todo(c) # <<>> => Call1(c) \in Calls(c) \cup NameCalls /\ Later(Todo(c)) \in Seq(Groups(c))
         /\ Todo(c) # <<>> /\ Call1(c).do \notin {"findBinding", "claim"} =>
              Call1(c) \in Calls(c) /\ Todo(c) \in Seq(Groups(c))
  <1>1. IsJob(c, work[c])
    BY Zenon DEF IInv, WorkInv
  <1>2. Todo(c) \in Todos(c)
    BY <1>1, Zenon DEF IsJob, Todo
  <1>3. CASE Todo(c) \in Seq(Groups(c))
    BY <1>1, <1>3, LaterCalls, Zenon DEF Call1
  <1>4. ASSUME NEW call \in NameCalls, Todo(c) = << <<call>> >>
        PROVE  Call1(c) \in NameCalls /\ Later(Todo(c)) \in Seq(Groups(c))
    <2>1. Call1(c) = call
      BY <1>4 DEF Call1
    <2>2. Later(Todo(c)) = <<>> /\ << >> \in Seq(Groups(c))
      BY <1>4, OneCall
    <2> QED
      BY <2>1, <2>2, Zenon
  <1>5. \A call \in NameCalls : call.do \in {"findBinding", "claim"}
    BY DEF NameCalls
  <1> QED
    BY <1>1, <1>2, <1>3, <1>4, <1>5, Zenon DEF Todos

\* The binding controller has one call to make.
LEMMA BindingWorker ==
  ASSUME IInv, work["RemoteUserBinding"] # Idle
  PROVE  LET j == work["RemoteUserBinding"]
             call == Call1("RemoteUserBinding")
         IN /\ j.cleaning /\ j.policies = <<>>
            /\ Todo("RemoteUserBinding") # <<>> /\ Later(Todo("RemoteUserBinding")) = <<>>
            /\ call.do = "removeUserRefs" /\ call.on = j.key /\ call.arg \in SUBSET RemoteUsers
            /\ j.key \in Names
  <1> DEFINE j == work["RemoteUserBinding"]
             call == Call1("RemoteUserBinding")
  <1>1. IsPruning(j) /\ IsJob("RemoteUserBinding", j)
    BY Zenon DEF IInv, WorkInv, Controllers
  <1>2. PICK missing \in SUBSET RemoteUsers : j.todo = << <<Call("removeUserRefs", j.key, missing)>> >>
    BY <1>1, Zenon DEF IsPruning
  <1>3. /\ Todo("RemoteUserBinding") = << <<Call("removeUserRefs", j.key, missing)>> >>
        /\ call = Head(Head(Todo("RemoteUserBinding")))
    BY <1>2, Zenon DEF Todo, Call1
  <1>4. call = Call("removeUserRefs", j.key, missing)
    BY <1>3
  <1>5. Todo("RemoteUserBinding") # <<>> /\ Later(Todo("RemoteUserBinding")) = <<>>
    BY <1>3, OneCall, Zenon
  <1>6. call.do = "removeUserRefs" /\ call.on = j.key /\ call.arg \in SUBSET RemoteUsers
    BY <1>4 DEF Call
  <1>7. j.cleaning /\ j.policies = <<>> /\ j.key \in Names
    BY <1>1, KeysOfEach, Zenon DEF IsPruning, IsJob
  <1> QED
    BY <1>5, <1>6, <1>7, Zenon

\* A worker that goes on.
LEMMA ContinueTyped ==
  ASSUME IInv, NEW c \in Controllers \ {"RemoteUserBinding"}, work[c] # Idle, NEW o,
         c # "RemoteUser" => o.branches \subseteq Branches,
         NEW calls \in Todos(c), Continue(c, o, calls)
  PROVE  WorkInv' /\ work'["RemoteUserBinding"] = work["RemoteUserBinding"]
  <1> DEFINE j == Job(work[c].key, o, work[c].cleaning, work[c].policies, calls)
  <1>1. work[c].key \in KeysOf(c) /\ work[c].policies \in Seq(PolicyNames(c))
    BY NextCallTyped, Zenon DEF IsJob
  <1>2. c \in {"RemoteSyncer", "ClusterWideRemoteSyncer"} => c # "RemoteUser"
    OBVIOUS
  <1>3. j # Idle => IsJob(c, j)
    BY <1>1, <1>2, JobTyped, Zenon
  <1>4. work' = [work EXCEPT ![c] = j]
    BY Zenon DEF Continue
  <1> HIDE DEF j
  <1>5. WorkInv' /\ \A d \in Controllers \ {c} : work'[d] = work[d]
    BY <1>3, <1>4, WorkUpdated, Zenon
  <1> QED
    BY <1>5, Zenon DEF Controllers

LEMMA StepDone ==
  ASSUME IInv, StoreInv', OnlyAppends, UNCHANGED queue,
         WorkInv', work'["RemoteUserBinding"] = work["RemoteUserBinding"]
  PROVE  IInv' /\ Quiet
  BY DEF IInv, QueueInv, Quiet

\* The object a syncer controller works on.
LEMMA JobObject ==
  ASSUME IInv, NEW c \in Controllers \ {"RemoteUserBinding"}, work[c] # Idle
  PROVE  /\ c # "RemoteUser" => work[c].obj.branches \subseteq Branches
         /\ c = "RemoteUser" => work[c].key \in RemoteUsers
         /\ c # "RemoteUser" => work[c].key \in Syncers
  <1>1. c \in {"RemoteUser", "RemoteSyncer", "ClusterWideRemoteSyncer"}
    BY DEF Controllers
  <1>2. IsJob(c, work[c])
    BY NextCallTyped, Zenon
  <1> QED
    BY <1>1, <1>2, KeysOfEach DEF IsJob, Syncers

LEMMA NextPolicyStep ==
  ASSUME IInv, NEW c \in Controllers \ {"RemoteUserBinding"}, work[c] # Idle, NextPolicy(c)
  PROVE  IInv' /\ Quiet
  <1> DEFINE j == work[c]
             p == Head(j.policies)
             turn == Turn(p, j.key, j.obj, j.cleaning)
             new == Job(j.key, j.obj, j.cleaning, Tail(j.policies), turn)
  <1>1. Todo(c) = <<>> /\ work' = [work EXCEPT ![c] = new] /\ UNCHANGED <<store, queue>>
    BY Zenon DEF NextPolicy
  <1>2. IsJob(c, j) /\ j.policies \in Seq(PolicyNames(c)) /\ j.policies # <<>> /\ j.key \in KeysOf(c)
    BY <1>1, NextCallTyped, Zenon DEF IsJob, Todo
  <1>3. p \in PolicyNames(c) /\ Tail(j.policies) \in Seq(PolicyNames(c))
    BY <1>2
  <1>4. c # "RemoteUser" => j.obj.branches \subseteq Branches
    BY JobObject, Zenon
  <1> HIDE DEF p
  <1>5. turn \in Todos(c)
    BY <1>2, <1>3, <1>4, TurnCalls, Zenon
  <1> HIDE DEF turn
  <1>6. c \in {"RemoteSyncer", "ClusterWideRemoteSyncer"} => j.obj.branches \subseteq Branches
    BY <1>4
  <1>7. new # Idle => IsJob(c, new)
    BY <1>2, <1>3, <1>5, <1>6, JobTyped, Zenon
  <1> HIDE DEF new
  <1>8. WorkInv' /\ \A d \in Controllers \ {c} : work'[d] = work[d]
    BY <1>1, <1>7, WorkUpdated, Zenon
  <1>9. StoreInv' /\ OnlyAppends
    BY <1>1, SameStore, Zenon
  <1>10. work'["RemoteUserBinding"] = work["RemoteUserBinding"]
    BY <1>8, Zenon DEF Controllers
  <1> QED
    BY <1>1, <1>8, <1>9, <1>10, StepDone, Zenon

LEMMA ReadCacheStep ==
  ASSUME IInv, NEW c \in Controllers \ {"RemoteUserBinding"}, work[c] # Idle, ReadCache(c)
  PROVE  IInv' /\ Quiet
  <1> DEFINE read == Read(work[c].key, work[c].obj, Call1(c))
             later == Later(Todo(c))
  <1>1. /\ Todo(c) # <<>> /\ Call1(c).do \in Reads
        /\ Continue(c, work[c].obj, read \o later) /\ UNCHANGED <<store, queue>>
    BY Zenon DEF ReadCache
  <1>2. Call1(c) \in Calls(c) /\ later \in Seq(Groups(c))
    <2>1. Call1(c).do \notin {"findBinding", "claim"}
      BY <1>1 DEF Reads
    <2> QED
      BY <1>1, <2>1, NextCallTyped, Zenon
  <1>3. read \in Seq(Groups(c))
    BY <1>1, <1>2, ReadCalls, Zenon
  <1> HIDE DEF read, later
  <1>4. read \o later \in Todos(c)
    BY <1>2, <1>3, ConcatProperties DEF Todos
  <1>5. WorkInv' /\ work'["RemoteUserBinding"] = work["RemoteUserBinding"]
    BY <1>1, <1>4, JobObject, ContinueTyped, Zenon
  <1>6. StoreInv' /\ OnlyAppends
    BY <1>1, SameStore, Zenon
  <1> QED
    BY <1>1, <1>5, <1>6, StepDone, Zenon

\* After a call that leaves the worker with the same object.
LEMMA NextCallStep ==
  ASSUME IInv, NEW c \in Controllers \ {"RemoteUserBinding"}, work[c] # Idle, Todo(c) # <<>>, NextCall(c)
  PROVE  WorkInv' /\ work'["RemoteUserBinding"] = work["RemoteUserBinding"]
  <1>1. Later(Todo(c)) \in Seq(Groups(c)) /\ Continue(c, work[c].obj, Later(Todo(c)))
    BY NextCallTyped, Zenon DEF NextCall
  <1>2. Later(Todo(c)) \in Todos(c)
    BY <1>1, Zenon DEF Todos
  <1> QED
    BY <1>1, <1>2, JobObject, ContinueTyped, Zenon

LEMMA CreateTargetStep ==
  ASSUME IInv, NEW c \in Controllers \ {"RemoteUserBinding"}, work[c] # Idle, CreateTarget(c)
  PROVE  IInv' /\ Quiet
  <1>1. /\ Todo(c) # <<>> /\ Call1(c).do = "createTarget" /\ NextCall(c) /\ UNCHANGED queue
        /\ Put("targets", Stored("targets") \cup {Call1(c).on})
    BY DEF CreateTarget, Doing
  <1>2. Call1(c).on \in RemoteTargets
    BY <1>1, NextCallTyped, CallSorts
  <1>3. (Stored("targets") \cup {Call1(c).on}) \in SUBSET RemoteTargets
    BY <1>2, StoredViews
  <1>4. StoreInv' /\ OnlyAppends
    BY <1>1, <1>3, WriteTargets, Zenon
  <1>5. WorkInv' /\ work'["RemoteUserBinding"] = work["RemoteUserBinding"]
    BY <1>1, NextCallStep, Zenon
  <1> QED
    BY <1>1, <1>4, <1>5, StepDone, Zenon

LEMMA DeleteTargetStep ==
  ASSUME IInv, NEW c \in Controllers \ {"RemoteUserBinding"}, work[c] # Idle, DeleteTarget(c)
  PROVE  IInv' /\ Quiet
  <1>1. /\ Todo(c) # <<>> /\ NextCall(c) /\ UNCHANGED queue
        /\ Put("targets", Stored("targets") \ {Call1(c).on})
    BY DEF DeleteTarget, Doing
  <1>2. (Stored("targets") \ {Call1(c).on}) \in SUBSET RemoteTargets
    BY StoredViews
  <1>3. StoreInv' /\ OnlyAppends
    BY <1>1, <1>2, WriteTargets, Zenon
  <1>4. WorkInv' /\ work'["RemoteUserBinding"] = work["RemoteUserBinding"]
    BY <1>1, NextCallStep, Zenon
  <1> QED
    BY <1>1, <1>3, <1>4, StepDone, Zenon

\* The finalizers are those of the policies of the controller.
LEMMA KindOfWorker ==
  ASSUME IInv, NEW c \in Controllers \ {"RemoteUserBinding"}, work[c] # Idle,
         NEW x, x = work[c].key, NEW o, o = Cached(KindOf(c))[x], o # None
  PROVE  /\ c = "RemoteUser" => KindOf(c) = "users" /\ x \in RemoteUsers /\ o \in UserObjects
         /\ c # "RemoteUser" => KindOf(c) = "syncers" /\ x \in Syncers /\ o \in SyncerObjects
         /\ o.fins \subseteq PolicyNames(c)
         /\ c # "RemoteUser" => o.branches \subseteq Branches
  <1>1. CASE c = "RemoteUser"
    <2>1. KindOf(c) = "users" /\ x \in RemoteUsers
      BY <1>1, JobObject DEF KindOf
    <2>2. o \in UserObjects
      BY <2>1, CachedViews
    <2>3. o.fins \subseteq PolicyNames(c)
      BY <1>1, <2>2, UserObjectWrites, Zenon DEF PolicyNames
    <2> QED
      BY <1>1, <2>1, <2>2, <2>3
  <1>2. CASE c # "RemoteUser"
    <2>1. KindOf(c) = "syncers" /\ x \in Syncers
      BY <1>2, JobObject DEF KindOf
    <2>2. o \in SyncerObjects
      BY <2>1, CachedViews
    <2>3. o.fins \subseteq PolicyNames(c) /\ o.branches \subseteq Branches
      BY <1>2, <2>2, SyncerObjectWrites, Zenon DEF PolicyNames
    <2> QED
      BY <1>2, <2>1, <2>2, <2>3
  <1> QED
    BY <1>1, <1>2

LEMMA OtherFinalizers ==
  ASSUME IInv, NEW c \in Controllers \ {"RemoteUserBinding"}, work[c] # Idle,
         NEW x, x = work[c].key, NEW o, o = Cached(KindOf(c))[x], o # None,
         NEW fins \in SUBSET PolicyNames(c)
  PROVE  /\ WithFinalizers(o, fins).fins = fins
         /\ WithFinalizers(o, fins).deleting = o.deleting
         /\ c # "RemoteUser" => WithFinalizers(o, fins).branches \subseteq Branches
         /\ Written(o, fins) = None \/ Written(o, fins).fins = fins
         /\ c = "RemoteUser" => Written(o, fins) \in UserObjects \cup {None}
         /\ c # "RemoteUser" => Written(o, fins) \in SyncerObjects \cup {None}
  <1>1. CASE c = "RemoteUser"
    <2>1. o \in UserObjects
      BY <1>1, KindOfWorker, Zenon
    <2>2. fins \in SUBSET {"association"}
      BY <1>1 DEF PolicyNames
    <2> QED
      BY <1>1, <2>1, <2>2, UserObjectWrites, Zenon
  <1>2. CASE c # "RemoteUser"
    <2>1. o \in SyncerObjects
      BY <1>2, KindOfWorker
    <2>2. fins \in SUBSET {"branch", "user"}
      BY <1>2 DEF PolicyNames
    <2> QED
      BY <1>2, <2>1, <2>2, SyncerObjectWrites, Zenon
  <1> QED
    BY <1>1, <1>2

\* A write of the worker's own object, with other finalizers or without any.
LEMMA WriteFinalizers ==
  ASSUME IInv, NEW c \in Controllers \ {"RemoteUserBinding"}, work[c] # Idle,
         NEW x, x = work[c].key, NEW o, o = Cached(KindOf(c))[x], o # None,
         NEW fins \in SUBSET PolicyNames(c), PutObject(KindOf(c), x, Written(o, fins))
  PROVE  StoreInv' /\ OnlyAppends /\ Stored(KindOf(c))'[x] = Written(o, fins)
  <1>1. CASE c = "RemoteUser"
    <2>1. KindOf(c) = "users" /\ x \in RemoteUsers
      BY <1>1, KindOfWorker, Zenon
    <2>2. Written(o, fins) \in UserObjects \cup {None}
      BY <1>1, OtherFinalizers, Zenon
    <2> QED
      BY <2>1, <2>2, WriteUser, Zenon
  <1>2. CASE c # "RemoteUser"
    <2>1. KindOf(c) = "syncers" /\ x \in Syncers
      BY <1>2, KindOfWorker
    <2>2. Written(o, fins) \in SyncerObjects \cup {None}
      BY <1>2, OtherFinalizers, Zenon
    <2> QED
      BY <2>1, <2>2, WriteSyncer, Zenon
  <1> QED
    BY <1>1, <1>2

LEMMA EnsureFinalizersStep ==
  ASSUME IInv, NEW c \in Controllers \ {"RemoteUserBinding"}, work[c] # Idle, EnsureFinalizers(c)
  PROVE  IInv' /\ Quiet
  <1> DEFINE k == KindOf(c)
             x == work[c].key
             o == Cached(k)[x]
             needed == Call1(c).arg
  <1>1. Todo(c) # <<>> /\ Call1(c).do = "ensureFinalizers" /\ o # None /\ UNCHANGED queue
    BY Zenon DEF EnsureFinalizers, Doing
  <1>2. needed \in SUBSET PolicyNames(c) /\ Later(Todo(c)) \in Todos(c)
    BY <1>1, NextCallTyped, CallSorts, Zenon DEF Todos
  <1>3. o.fins \subseteq PolicyNames(c) /\ (c # "RemoteUser" => o.branches \subseteq Branches)
    BY <1>1, KindOfWorker, Zenon
  <1>4. \/ Continue(c, o, Later(Todo(c))) /\ UNCHANGED store
        \/ PutObject(k, x, Written(o, o.fins \cup needed)) /\ work' = [work EXCEPT ![c] = Idle]
    <2>1. (o.fins \cup needed) \in SUBSET PolicyNames(c)
      BY <1>2, <1>3, Zenon
    <2>2. ~o.deleting => Written(o, o.fins \cup needed) = WithFinalizers(o, o.fins \cup needed)
      BY <1>1, <2>1, OtherFinalizers, Zenon DEF Written
    <2> QED
      BY <2>2, Zenon DEF EnsureFinalizers
  <1>5. CASE Continue(c, o, Later(Todo(c))) /\ UNCHANGED store
    <2>1. WorkInv' /\ work'["RemoteUserBinding"] = work["RemoteUserBinding"]
      BY <1>2, <1>3, <1>5, ContinueTyped, Zenon
    <2>2. StoreInv' /\ OnlyAppends
      BY <1>5, SameStore, Zenon
    <2> QED
      BY <1>1, <2>1, <2>2, StepDone, Zenon
  <1>6. CASE PutObject(k, x, Written(o, o.fins \cup needed)) /\ work' = [work EXCEPT ![c] = Idle]
    <2>1. WorkInv' /\ \A d \in Controllers \ {c} : work'[d] = work[d]
      BY <1>6, WorkUpdated, Zenon
    <2>2. work'["RemoteUserBinding"] = work["RemoteUserBinding"]
      BY <2>1, Zenon DEF Controllers
    <2>3. (o.fins \cup needed) \in SUBSET PolicyNames(c)
      BY <1>2, <1>3, Zenon
    <2>4. StoreInv' /\ OnlyAppends
      BY <1>1, <1>6, <2>3, WriteFinalizers, Zenon
    <2> QED
      BY <1>1, <2>1, <2>2, <2>4, StepDone, Zenon
  <1> QED
    BY <1>4, <1>5, <1>6, Zenon

LEMMA RemoveFinalizerStep ==
  ASSUME IInv, NEW c \in Controllers \ {"RemoteUserBinding"}, work[c] # Idle, RemoveFinalizer(c)
  PROVE  IInv' /\ Quiet
  <1> DEFINE k == KindOf(c)
             x == work[c].key
             o == Cached(k)[x]
             p == Call1(c).on
             new == WithFinalizers(o, o.fins \ {p})
             written == Written(o, o.fins \ {p})
  <1>1. Todo(c) # <<>> /\ UNCHANGED queue
    BY Zenon DEF RemoveFinalizer, Doing
  <1>2. \/ NextCall(c) /\ UNCHANGED store
        \/ o # None /\ Continue(c, o, Later(Todo(c))) /\ UNCHANGED store
        \/ o # None /\ PutObject(k, x, written) /\ Continue(c, new, Later(Todo(c)))
    BY Zenon DEF RemoveFinalizer, Written
  <1>3. Later(Todo(c)) \in Todos(c)
    BY <1>1, NextCallTyped, Zenon DEF Todos
  <1>4. CASE NextCall(c) /\ UNCHANGED store
    BY <1>1, <1>4, NextCallStep, SameStore, StepDone, Zenon
  <1>5. CASE o # None /\ Continue(c, o, Later(Todo(c))) /\ UNCHANGED store
    <2>1. c # "RemoteUser" => o.branches \subseteq Branches
      BY <1>5, KindOfWorker, Zenon
    <2>2. WorkInv' /\ work'["RemoteUserBinding"] = work["RemoteUserBinding"]
      BY <1>3, <1>5, <2>1, ContinueTyped, Zenon
    <2> QED
      BY <1>1, <1>5, <2>2, SameStore, StepDone, Zenon
  <1>6. CASE o # None /\ PutObject(k, x, written) /\ Continue(c, new, Later(Todo(c)))
    <2>1. (o.fins \ {p}) \in SUBSET PolicyNames(c)
      BY <1>6, KindOfWorker, Zenon
    <2>2. /\ StoreInv' /\ OnlyAppends
          /\ c # "RemoteUser" => new.branches \subseteq Branches
      BY <1>6, <2>1, OtherFinalizers, WriteFinalizers, Zenon
    <2>3. WorkInv' /\ work'["RemoteUserBinding"] = work["RemoteUserBinding"]
      BY <1>3, <1>6, <2>2, ContinueTyped, Zenon
    <2> QED
      BY <1>1, <2>2, <2>3, StepDone, Zenon
  <1> QED
    BY <1>2, <1>4, <1>5, <1>6, Zenon

\* One attempt at a binding, whoever makes it.
LEMMA MutateWrites ==
  ASSUME IInv, NEW c \in Controllers, work[c] # Idle, MutateOrDelete(c)
  PROVE  StoreInv' /\ OnlyAppends
  <1> DEFINE call == Call1(c)
             b == call.on
             o == Cached("bindings")[b]
             new == Mutate(call, o)
  <1>1. /\ Todo(c) # <<>> /\ call.do \in Mutations
        /\ IF o = None THEN UNCHANGED store
           ELSE IF IsEmpty(new) THEN PutObject("bindings", b, None)
           ELSE PutObject("bindings", b, new)
    BY Zenon DEF MutateOrDelete
  <1>2. call \in Calls(c)
    <2>1. call.do \notin {"findBinding", "claim"}
      BY <1>1 DEF Mutations
    <2> QED
      BY <1>1, <2>1, NextCallTyped, Zenon
  <1>3. b \in Names
    BY <1>1, <1>2, CallSorts DEF Mutations
  <1>4. CASE o = None
    BY <1>1, <1>4, SameStore, Zenon
  <1>5. CASE o # None
    <2>1. o \in BindingObjects
      BY <1>3, <1>5, CachedViews
    <2>2. new \in BindingObjects
      BY <1>1, <1>2, <2>1, MutateTyped, Zenon
    <2>3. PICK v \in BindingObjects \cup {None} : PutObject("bindings", b, v)
      BY <1>1, <1>5, <2>2, Zenon
    <2> QED
      BY <1>3, <2>3, WriteBinding, Zenon
  <1> QED
    BY <1>4, <1>5

LEMMA MutateOrDeleteStep ==
  ASSUME IInv, NEW c \in Controllers \ {"RemoteUserBinding"}, work[c] # Idle, MutateOrDelete(c)
  PROVE  IInv' /\ Quiet
  <1>1. Todo(c) # <<>> /\ NextCall(c) /\ UNCHANGED queue
    BY Zenon DEF MutateOrDelete
  <1>2. WorkInv' /\ work'["RemoteUserBinding"] = work["RemoteUserBinding"]
    BY <1>1, NextCallStep, Zenon
  <1> QED
    BY <1>1, <1>2, MutateWrites, StepDone, Zenon

\* Naming a binding for the user.
LEMMA AssociateTyped ==
  ASSUME IInv, NEW c \in Controllers \ {"RemoteUserBinding"}, work[c] # Idle,
         NEW b \in Names, NEW ru \in RemoteUsers, Associate(c, b, ru)
  PROVE  WorkInv' /\ work'["RemoteUserBinding"] = work["RemoteUserBinding"]
  <1>1. Call("addUserRef", b, {ru}) \in Calls(c) /\ Call("addBranchTargets", b, {}) \in Calls(c)
    BY CallTypes
  <1>2. << <<Call("addUserRef", b, {ru}), Call("addBranchTargets", b, {})>> >> \in Todos(c)
    BY <1>1, SmallGroups, Zenon DEF Todos
  <1> QED
    BY <1>2, JobObject, ContinueTyped, Zenon DEF Associate

LEMMA FindOrCreateStep ==
  ASSUME IInv, NEW c \in Controllers \ {"RemoteUserBinding"}, work[c] # Idle, FindOrCreateBinding(c)
  PROVE  IInv' /\ Quiet
  <1> DEFINE ru == Call1(c).on
             n == IF Doing(c, "findBinding") THEN 0 ELSE Call1(c).arg
             b == [user |-> UserOf[ru], n |-> n]
             listed == {x \in ManagedBindings(Cached("bindings")) : x.user = UserOf[ru]}
  <1>1. Doing(c, "findBinding") \/ Doing(c, "claim")
    BY Zenon DEF FindOrCreateBinding
  <1>2. /\ UNCHANGED queue
        /\ \/ (\E x \in listed : Associate(c, x, ru)) /\ UNCHANGED store
           \/ n < MaxAttempts /\ ClaimName(c, b, ru)
    BY Zenon DEF FindOrCreateBinding
  <1>3. Call1(c) \in Calls(c) \cup NameCalls
    BY <1>1, NextCallTyped, Zenon DEF Doing
  <1>4. ru \in Stamped /\ n \in Nat
    BY <1>1, <1>3, CallSorts DEF Doing
  <1>5. ru \in RemoteUsers /\ UserOf[ru] \in Users
    BY <1>4, PoliciesAssumption DEF Stamped
  <1> HIDE DEF ru, n
  <1>6. CASE (\E x \in listed : Associate(c, x, ru)) /\ UNCHANGED store
    <2>1. PICK x \in listed : Associate(c, x, ru)
      BY <1>6, Zenon
    <2>2. x \in Names
      BY CachedViews, ManagedAreNames
    <2> QED
      BY <1>2, <1>5, <1>6, <2>1, <2>2, AssociateTyped, SameStore, StepDone, Zenon
  <1>7. CASE n < MaxAttempts /\ ClaimName(c, b, ru)
    <2>1. b \in Names
      BY <1>4, <1>5, <1>7, PoliciesAssumption DEF Names
    <2>2. b.n = n
      OBVIOUS
    <2> HIDE DEF b
    <2>3. CASE PutObject("bindings", b, NewBinding(TRUE, {ru})) /\ Associate(c, b, ru)
      <3>1. NewBinding(TRUE, {ru}) \in BindingObjects \cup {None}
        BY <1>5, NewBindingTyped
      <3> QED
        BY <1>2, <1>5, <2>1, <2>3, <3>1, WriteBinding, AssociateTyped, StepDone, Zenon
    <2>4. CASE Associate(c, b, ru) /\ UNCHANGED store
      BY <1>2, <1>5, <2>1, <2>4, AssociateTyped, SameStore, StepDone, Zenon
    <2>5. CASE Continue(c, work[c].obj, << <<Call("claim", ru, b.n + 1)>> >>) /\ UNCHANGED store
      <3>1. b.n + 1 \in Nat
        BY <1>4, <2>2
      <3>2. Call("claim", ru, b.n + 1) \in NameCalls
        BY <1>4, <3>1, CallTypes, Zenon
      <3>3. << <<Call("claim", ru, b.n + 1)>> >> \in Todos(c)
        BY <3>2, Zenon DEF Todos
      <3>4. WorkInv' /\ work'["RemoteUserBinding"] = work["RemoteUserBinding"]
        BY <2>5, <3>3, JobObject, ContinueTyped, Zenon
      <3> QED
        BY <1>2, <2>5, <3>4, SameStore, StepDone, Zenon
    <2> QED
      BY <1>7, <2>3, <2>4, <2>5, Zenon DEF ClaimName
  <1> QED
    BY <1>2, <1>6, <1>7, Zenon

LEMMA QueueUpdated ==
  ASSUME IInv, NEW c \in Controllers, NEW S \in SUBSET KeysOf(c), queue' = [queue EXCEPT ![c] = S]
  PROVE  QueueInv' /\ queue'[c] = S /\ \A d \in Controllers \ {c} : queue'[d] = queue[d]
  <1>1. queue = [d \in Controllers |-> queue[d]]
    BY DEF IInv, QueueInv
  <1>2. queue' = [d \in Controllers |-> IF d = c THEN S ELSE queue[d]]
    BY <1>1, Zenon
  <1>3. \A d \in Controllers : queue'[d] = IF d = c THEN S ELSE queue[d]
    BY <1>2
  <1>4. queue' = [d \in Controllers |-> queue'[d]]
    BY <1>2
  <1>5. \A d \in Controllers : queue'[d] \subseteq KeysOf(d)
    BY <1>3, Zenon DEF IInv, QueueInv
  <1> QED
    BY <1>3, <1>4, <1>5, Zenon DEF QueueInv

LEMMA FailStep ==
  ASSUME IInv, NEW c \in Controllers \ {"RemoteUserBinding"}, work[c] # Idle, Fail(c)
  PROVE  IInv' /\ Quiet
  <1> DEFINE again == Job(work[c].key, work[c].obj, FALSE, work[c].policies, <<>>)
             j == IF work[c].cleaning \/ Call1(c).do = "ensureFinalizers" THEN Idle ELSE again
             q == queue[c] \cup {work[c].key}
  <1>1. /\ work' = [work EXCEPT ![c] = j] /\ queue' = [queue EXCEPT ![c] = q]
        /\ UNCHANGED store
    BY Zenon DEF Fail, Abort
  <1>2. work[c].key \in KeysOf(c) /\ work[c].policies \in Seq(PolicyNames(c))
    BY NextCallTyped, Zenon DEF IsJob
  <1>3. << >> \in Todos(c)
    BY DEF Todos
  <1>4. c \in {"RemoteSyncer", "ClusterWideRemoteSyncer"} => work[c].obj.branches \subseteq Branches
    BY JobObject
  <1>5. again # Idle => IsJob(c, again)
    BY <1>2, <1>3, <1>4, JobTyped, Zenon
  <1>6. j # Idle => IsJob(c, j)
    BY <1>5, Zenon
  <1>7. q \in SUBSET KeysOf(c)
    BY <1>2, Zenon DEF IInv, QueueInv
  <1> HIDE DEF j, q
  <1>8. WorkInv' /\ \A d \in Controllers \ {c} : work'[d] = work[d]
    BY <1>1, <1>6, WorkUpdated, Zenon
  <1>9. QueueInv' /\ \A d \in Controllers \ {c} : queue'[d] = queue[d]
    BY <1>1, <1>7, QueueUpdated, Zenon
  <1>10. "RemoteUserBinding" \in Controllers \ {c}
    BY DEF Controllers
  <1>11. StoreInv' /\ OnlyAppends
    BY <1>1, SameStore, Zenon
  <1> QED
    BY <1>8, <1>9, <1>10, <1>11, Zenon DEF IInv, Quiet

\* A call of another controller than that of the bindings.
LEMMA WorkerStep ==
  ASSUME IInv, NEW c \in Controllers \ {"RemoteUserBinding"}, Step(c)
  PROVE  IInv' /\ Quiet
  <1>1. work[c] # Idle
    BY Zenon DEF Step
  <1> QED
    BY <1>1, NextPolicyStep, ReadCacheStep, EnsureFinalizersStep, RemoveFinalizerStep,
       MutateOrDeleteStep, FindOrCreateStep, CreateTargetStep, DeleteTargetStep, FailStep, Zenon
       DEF Step

\* The binding controller: its call removes the references, or fails.
LEMMA BindingCall ==
  ASSUME IInv, Step("RemoteUserBinding")
  PROVE  /\ work["RemoteUserBinding"] # Idle
         /\ MutateOrDelete("RemoteUserBinding") \/ Fail("RemoteUserBinding")
  <1> DEFINE c == "RemoteUserBinding"
  <1>1. work[c] # Idle
    BY Zenon DEF Step
  <1>2. Todo(c) # <<>> /\ Call1(c).do = "removeUserRefs"
    BY <1>1, BindingWorker, Zenon
  <1> HIDE DEF c
  <1>3. ~NextPolicy(c)
    BY <1>2, Zenon DEF NextPolicy
  <1>4. ~ReadCache(c)
    BY <1>2 DEF ReadCache, Reads
  <1>5. ~Doing(c, "ensureFinalizers") /\ ~Doing(c, "removeFinalizer") /\ ~Doing(c, "findBinding")
          /\ ~Doing(c, "claim") /\ ~Doing(c, "createTarget") /\ ~Doing(c, "deleteTarget")
    BY <1>2 DEF Doing
  <1>6. ~EnsureFinalizers(c) /\ ~RemoveFinalizer(c) /\ ~FindOrCreateBinding(c)
          /\ ~CreateTarget(c) /\ ~DeleteTarget(c)
    BY <1>5, Zenon DEF EnsureFinalizers, RemoveFinalizer, FindOrCreateBinding, CreateTarget, DeleteTarget
  <1>7. Step(c)
    BY Zenon DEF c
  <1>8. MutateOrDelete(c) \/ Fail(c)
    BY <1>3, <1>4, <1>6, <1>7, Zenon DEF Step
  <1> QED
    BY <1>1, <1>8, Zenon DEF c

\* ... and ends the reconcile.
LEMMA BindingFail ==
  ASSUME IInv, work["RemoteUserBinding"] # Idle, Fail("RemoteUserBinding")
  PROVE  /\ IInv' /\ OnlyAppends
         /\ queue["RemoteUserBinding"] \subseteq queue'["RemoteUserBinding"]
         /\ work["RemoteUserBinding"].key \in queue'["RemoteUserBinding"]
  <1> DEFINE c == "RemoteUserBinding"
             q == queue[c] \cup {work[c].key}
  <1>1. work[c].cleaning /\ work[c].key \in Names
    BY BindingWorker, Zenon
  <1>2. work' = [work EXCEPT ![c] = Idle] /\ queue' = [queue EXCEPT ![c] = q] /\ UNCHANGED store
    BY <1>1, Zenon DEF Fail, Abort
  <1>3. c \in Controllers /\ q \in SUBSET KeysOf(c)
    BY <1>1, KeysOfEach, Zenon DEF Controllers, IInv, QueueInv
  <1> HIDE DEF q
  <1>4. WorkInv'
    BY <1>2, <1>3, WorkUpdated, Zenon
  <1>5. QueueInv' /\ queue'[c] = q
    BY <1>2, <1>3, QueueUpdated, Zenon
  <1>6. StoreInv' /\ OnlyAppends
    BY <1>2, SameStore, Zenon
  <1> QED
    BY <1>4, <1>5, <1>6, Zenon DEF q, IInv

LEMMA BindingMutate ==
  ASSUME IInv, work["RemoteUserBinding"] # Idle, MutateOrDelete("RemoteUserBinding")
  PROVE  IInv' /\ OnlyAppends /\ UNCHANGED queue
  <1> DEFINE c == "RemoteUserBinding"
  <1>1. NextCall(c) /\ UNCHANGED queue
    BY Zenon DEF MutateOrDelete
  <1>2. Later(Todo(c)) = <<>> /\ work[c].policies = <<>>
    BY BindingWorker, Zenon
  <1>3. work' = [work EXCEPT ![c] = Idle]
    BY <1>1, <1>2, Zenon DEF NextCall, Continue, Job
  <1>4. c \in Controllers
    BY DEF Controllers
  <1>5. WorkInv'
    BY <1>3, <1>4, WorkUpdated, Zenon
  <1>6. QueueInv'
    BY <1>1, Zenon DEF IInv, QueueInv
  <1>7. StoreInv' /\ OnlyAppends
    BY <1>4, MutateWrites, Zenon
  <1> QED
    BY <1>1, <1>5, <1>6, <1>7, Zenon DEF IInv
---------------------------------------------------------------------------
(* Reconciles that start, and changes.                                     *)

LEMMA TakeTyped ==
  ASSUME IInv, NEW c \in Controllers, NEW x, Take(c, x)
  PROVE  /\ QueueInv' /\ x \in KeysOf(c) /\ work[c] = Idle
         /\ queue'[c] = queue[c] \ {x}
         /\ \A d \in Controllers \ {c} : queue'[d] = queue[d]
  <1>1. work[c] = Idle /\ x \in queue[c] /\ queue' = [queue EXCEPT ![c] = queue[c] \ {x}]
    BY Zenon DEF Take
  <1>2. queue[c] \subseteq KeysOf(c)
    BY Zenon DEF IInv, QueueInv
  <1>3. x \in KeysOf(c) /\ (queue[c] \ {x}) \in SUBSET KeysOf(c)
    BY <1>1, <1>2, Zenon
  <1> QED
    BY <1>1, <1>3, QueueUpdated, Zenon

LEMMA StartTyped ==
  ASSUME IInv, NEW c \in Controllers \ {"RemoteUserBinding"}, NEW x \in KeysOf(c), NEW o,
         o # None /\ c # "RemoteUser" => o.branches \subseteq Branches,
         Start(c, x, o)
  PROVE  WorkInv' /\ work'["RemoteUserBinding"] = work["RemoteUserBinding"]
  <1> DEFINE job == Job(x, o, o.deleting, Policies(c), RunPolicies(c, o))
             j == IF o = None THEN Idle ELSE job
             needed == {p \in ToSet(Policies(c)) : Applies(p, o)}
  <1>1. Policies(c) \in Seq(PolicyNames(c)) /\ ToSet(Policies(c)) \subseteq PolicyNames(c)
    <2>1. CASE c = "RemoteUser"
      <3>1. Policies(c) = <<"association">> /\ PolicyNames(c) = {"association"}
        BY <2>1, Zenon DEF Policies, PolicyNames
      <3>2. <<"association">> \in Seq({"association"}) /\ ToSet(<<"association">>) \subseteq {"association"}
        BY DEF ToSet
      <3> QED
        BY <3>1, <3>2, Zenon
    <2>2. CASE c # "RemoteUser"
      <3>1. Policies(c) = <<"branch", "user">> /\ PolicyNames(c) = {"branch", "user"}
        BY <2>2, Zenon DEF Policies, PolicyNames
      <3>2. /\ <<"branch", "user">> \in Seq({"branch", "user"})
            /\ ToSet(<<"branch", "user">>) \subseteq {"branch", "user"}
        BY DEF ToSet
      <3> QED
        BY <3>1, <3>2, Zenon
    <2> QED
      BY <2>1, <2>2
  <1>2. needed \in SUBSET PolicyNames(c)
    BY <1>1, Zenon
  <1>3. RunPolicies(c, o) \in Todos(c)
    <2>1. << >> \in Seq(Groups(c))
      OBVIOUS
    <2>2. Call("ensureFinalizers", None, needed) \in Calls(c)
      BY <1>2, CallTypes, Zenon
    <2>3. << <<Call("ensureFinalizers", None, needed)>> >> \in Seq(Groups(c))
      BY <2>2, SmallGroups, Zenon
    <2>4. RunPolicies(c, o) = IF o.deleting \/ needed = {} THEN <<>>
                              ELSE << <<Call("ensureFinalizers", None, needed)>> >>
      BY Zenon DEF RunPolicies, Needed
    <2> QED
      BY <2>1, <2>3, <2>4, Zenon DEF Todos
  <1>4. work' = [work EXCEPT ![c] = j]
    BY Zenon DEF Start
  <1>5. c \in {"RemoteSyncer", "ClusterWideRemoteSyncer"} => c # "RemoteUser"
    OBVIOUS
  <1>6. o # None /\ job # Idle => IsJob(c, job)
    BY <1>1, <1>3, <1>5, JobTyped, Zenon
  <1>7. j # Idle => IsJob(c, j)
    BY <1>6, Zenon
  <1> HIDE DEF j
  <1>8. WorkInv' /\ \A d \in Controllers \ {c} : work'[d] = work[d]
    BY <1>4, <1>7, WorkUpdated, Zenon
  <1> QED
    BY <1>8, Zenon DEF Controllers

LEMMA StartDone ==
  ASSUME IInv, NEW c \in Controllers \ {"RemoteUserBinding"}, NEW x, Take(c, x),
         StoreInv', OnlyAppends,
         WorkInv', work'["RemoteUserBinding"] = work["RemoteUserBinding"]
  PROVE  IInv' /\ Quiet
  <1>1. QueueInv' /\ \A d \in Controllers \ {c} : queue'[d] = queue[d]
    BY TakeTyped, Zenon
  <1>2. queue'["RemoteUserBinding"] = queue["RemoteUserBinding"]
    BY <1>1, Zenon DEF Controllers
  <1> QED
    BY <1>1, <1>2, Zenon DEF IInv, Quiet

LEMMA ReconcileRemoteUserStep ==
  ASSUME IInv, NEW ru \in RemoteUsers, ReconcileRemoteUser(ru)
  PROVE  IInv' /\ Quiet
  <1> DEFINE o == Cached("users")[ru]
             new == [o EXCEPT !.status = Cached("secrets")]
  <1>1. /\ Take("RemoteUser", ru) /\ Start("RemoteUser", ru, o)
        /\ UNCHANGED store \/ (o # None /\ PutObject("users", ru, new))
    BY Zenon DEF ReconcileRemoteUser
  <1>2. "RemoteUser" \in Controllers \ {"RemoteUserBinding"} /\ ru \in KeysOf("RemoteUser")
    BY KeysOfEach DEF Controllers
  <1>3. StoreInv' /\ OnlyAppends
    <2>1. CASE UNCHANGED store
      BY <2>1, SameStore, Zenon
    <2>2. CASE o # None /\ PutObject("users", ru, new)
      <3>1. o \in UserObjects /\ Cached("secrets") \in SecretStates
        BY <2>2, CachedViews, Zenon
      <3>2. new \in UserObjects \cup {None}
        BY <3>1, UserObjectWrites, Zenon
      <3> QED
        BY <2>2, <3>2, WriteUser, Zenon
    <2> QED
      BY <1>1, <2>1, <2>2, Zenon
  <1>4. WorkInv' /\ work'["RemoteUserBinding"] = work["RemoteUserBinding"]
    BY <1>1, <1>2, StartTyped, Zenon
  <1> QED
    BY <1>1, <1>2, <1>3, <1>4, StartDone, Zenon

LEMMA ReconcileSyncerStep ==
  ASSUME IInv, NEW c \in {"RemoteSyncer", "ClusterWideRemoteSyncer"}, NEW s \in Syncers,
         ReconcileSyncer(c, s)
  PROVE  IInv' /\ Quiet
  <1> DEFINE o == Cached("syncers")[s]
  <1>1. Take(c, s) /\ Start(c, s, o) /\ UNCHANGED store
    BY Zenon DEF ReconcileSyncer
  <1>2. c \in Controllers \ {"RemoteUserBinding"}
    BY DEF Controllers
  <1>3. s \in KeysOf(c)
    BY <1>1, <1>2, TakeTyped, Zenon
  <1>4. o # None => o.branches \subseteq Branches
    <2>1. o # None => o \in SyncerObjects
      BY CachedViews
    <2> QED
      BY <2>1, SyncerObjectWrites, Zenon
  <1>5. WorkInv' /\ work'["RemoteUserBinding"] = work["RemoteUserBinding"]
    BY <1>1, <1>2, <1>3, <1>4, StartTyped, Zenon
  <1> QED
    BY <1>1, <1>2, <1>5, SameStore, StartDone, Zenon

\* The reconcile of a binding that has dead references prunes them all.
LEMMA ReconcileBindingStep ==
  ASSUME IInv, NEW b \in Names, ReconcileBinding(b)
  PROVE  /\ IInv' /\ OnlyAppends
         /\ work["RemoteUserBinding"] = Idle
         /\ queue'["RemoteUserBinding"] = queue["RemoteUserBinding"] \ {b}
         /\ \A ru \in RemoteUsers : Dangling(b, ru) => Pruning(b, ru)'
  <1> DEFINE c == "RemoteUserBinding"
             o == Cached("bindings")[b]
             missing == {ru \in o.remoteUserRefs : Cached("users")[ru] = None}
             new == [o EXCEPT !.bound = o.remoteUserRefs \ missing, !.notBound = missing]
             job == PruneJob(b, missing)
  <1>1. Take(c, b)
    BY Zenon DEF ReconcileBinding
  <1>2. \/ o = None /\ UNCHANGED <<store, work>>
        \/ /\ o # None /\ o.managed /\ missing # {}
           /\ work' = [work EXCEPT ![c] = job]
           /\ UNCHANGED store
        \/ /\ o # None /\ ~(o.managed /\ missing # {}) /\ UNCHANGED work
           /\ UNCHANGED store \/ PutObject("bindings", b, new)
    BY Zenon DEF ReconcileBinding
  <1>3. c \in Controllers
    BY DEF Controllers
  <1>4. QueueInv' /\ work[c] = Idle /\ queue'[c] = queue[c] \ {b}
    BY <1>1, <1>3, TakeTyped, Zenon
  <1>5. CASE o = None /\ UNCHANGED <<store, work>>
    <2>1. WorkInv'
      BY <1>5, Zenon DEF IInv, WorkInv
    <2>2. \A ru \in RemoteUsers : ~Dangling(b, ru)
      BY <1>5, Zenon DEF Dangling
    <2> QED
      BY <1>4, <1>5, <2>1, <2>2, SameStore, Zenon DEF IInv
  <1>6. CASE /\ o # None /\ ~(o.managed /\ missing # {}) /\ UNCHANGED work
             /\ UNCHANGED store \/ PutObject("bindings", b, new)
    <2>1. WorkInv'
      BY <1>6, Zenon DEF IInv, WorkInv
    <2>2. \A ru \in RemoteUsers : ~Dangling(b, ru)
      BY <1>6, Zenon DEF Dangling
    <2>3. o \in BindingObjects
      BY <1>6, CachedViews
    <2>4. missing \in SUBSET RemoteUsers /\ (o.remoteUserRefs \ missing) \in SUBSET RemoteUsers
      BY <2>3, BindingObjectWrites, Zenon
    <2>5. new \in BindingObjects \cup {None}
      BY <2>3, <2>4, BindingObjectWrites, Zenon
    <2>6. StoreInv' /\ OnlyAppends
      BY <1>6, <2>5, SameStore, WriteBinding, Zenon
    <2> QED
      BY <1>4, <2>1, <2>2, <2>6, Zenon DEF IInv
  <1>7. CASE /\ o # None /\ o.managed /\ missing # {}
             /\ work' = [work EXCEPT ![c] = job]
             /\ UNCHANGED store
    <2>1. missing \in (SUBSET RemoteUsers) \ {{}}
      BY <1>7, CachedViews, BindingObjectWrites
    <2>2. PICK m \in SUBSET RemoteUsers : m = missing
      BY <2>1, Zenon
    <2> DEFINE calls == << <<Call("removeUserRefs", b, m)>> >>
    <2>3. job = [key |-> b, obj |-> None, cleaning |-> TRUE, policies |-> <<>>, todo |-> calls]
      BY <2>2, OneCall, Zenon DEF PruneJob, Job
    <2> HIDE DEF job, calls
    <2>4. job.key = b /\ job.cleaning /\ job.policies = <<>> /\ job.todo = calls
      BY <2>3
    <2>5. IsPruning(job)
      BY <2>4, Zenon DEF IsPruning, calls
    <2>6. calls \in Todos(c) /\ calls # <<>>
      BY CallTypes, SmallGroups, OneCall, Zenon DEF calls, Todos
    <2>7. job # Idle
      BY <2>4, <2>6 DEF Idle
    <2>8. << >> \in Seq(PolicyNames(c))
      OBVIOUS
    <2>9. IsJob(c, job)
      <3>1. b \in KeysOf(c) /\ c \notin {"RemoteSyncer", "ClusterWideRemoteSyncer"}
        BY KeysOfEach
      <3> QED
        BY <2>4, <2>6, <2>8, <3>1, Zenon DEF IsJob
    <2>10. WorkInv' /\ work'[c] = job
      BY <1>3, <1>7, <2>5, <2>9, WorkUpdated, Zenon
    <2>11. Call1(c)' = Head(Head(calls))
      BY <2>4, <2>10, Zenon DEF Call1, Todo
    <2>12. Call1(c)'.arg = m
      BY <2>11 DEF Call, calls
    <2>13. ASSUME NEW ru \in RemoteUsers, Dangling(b, ru) PROVE Pruning(b, ru)'
      <3>1. ru \in m
        BY <2>2, <2>13, Zenon DEF Dangling
      <3> QED
        BY <2>7, <2>4, <2>10, <2>12, <3>1, Zenon DEF Pruning
    <2> QED
      BY <1>4, <1>7, <2>10, <2>13, SameStore, Zenon DEF IInv
  <1> QED
    BY <1>2, <1>5, <1>6, <1>7, Zenon

\* What people change is written to the store only.
LEMMA ChangeStep ==
  ASSUME IInv, NEW k \in Kinds, NEW v \in States(k), Change(k, v)
  PROVE  IInv' /\ Quiet
  <1>1. Put(k, v) /\ UNCHANGED <<queue, work>>
    BY Zenon DEF Change
  <1>2. StoreInv' /\ OnlyAppends
    BY <1>1, PutFacts, Zenon
  <1>3. WorkInv'
    BY <1>1, Zenon DEF IInv, WorkInv
  <1> QED
    BY <1>1, <1>2, <1>3, StepDone, Zenon

LEMMA SetUserStep ==
  ASSUME IInv, NEW ru \in RemoteUsers, NEW v \in UserObjects \cup {None}, SetUser(ru, v)
  PROVE  IInv' /\ Quiet
  <1>1. [Stored("users") EXCEPT ![ru] = v] \in States("users")
    BY StoredViews, StatesOf
  <1> QED
    BY <1>1, ChangeStep, Zenon DEF SetUser, Kinds

LEMMA SetSyncerStep ==
  ASSUME IInv, NEW s \in Syncers, NEW v \in SyncerObjects \cup {None}, SetSyncer(s, v)
  PROVE  IInv' /\ Quiet
  <1>1. [Stored("syncers") EXCEPT ![s] = v] \in States("syncers")
    BY StoredViews, StatesOf
  <1> QED
    BY <1>1, ChangeStep, Zenon DEF SetSyncer, Kinds

LEMMA ChangeUserStep ==
  ASSUME IInv, NEW ru \in RemoteUsers, ChangeUser(ru)
  PROVE  IInv' /\ Quiet
  <1> DEFINE o == Stored("users")[ru]
             fresh == [managed |-> TRUE, fins |-> {}, deleting |-> FALSE, status |-> ""]
  <1>1. fresh \in UserObjects
    BY DEF UserObjects
  <1>2. o # None => o \in UserObjects
    BY StoredViews
  <1>3. o # None => [o EXCEPT !.managed = ~@] \in UserObjects /\ Deleted(o) \in UserObjects \cup {None}
    BY <1>2, UserObjectWrites, Zenon
  <1>4. PICK v \in UserObjects \cup {None} : SetUser(ru, v)
    BY <1>1, <1>3, Zenon DEF ChangeUser
  <1> QED
    BY <1>4, SetUserStep, Zenon

LEMMA ChangeSyncerStep ==
  ASSUME IInv, NEW s \in Syncers, ChangeSyncer(s)
  PROVE  IInv' /\ Quiet
  <1> DEFINE o == Stored("syncers")[s]
             fresh(a) == [branches |-> a[1], userSpecific |-> a[2], fins |-> {}, deleting |-> FALSE]
             changed(a) == [o EXCEPT !.branches = a[1], !.userSpecific = a[2]]
  <1>1. o # None => o \in SyncerObjects
    BY StoredViews
  <1>2. \A a \in Annotations : a[1] \in SUBSET Branches /\ a[2] \in BOOLEAN
    BY PoliciesAssumption
  <1>3. \A a \in Annotations : fresh(a) \in SyncerObjects
    BY <1>2 DEF SyncerObjects
  <1>4. o # None => (\A a \in Annotations : changed(a) \in SyncerObjects) /\ Deleted(o) \in SyncerObjects \cup {None}
    BY <1>1, <1>2, SyncerObjectWrites, Zenon
  <1>5. \/ \E a \in Annotations : SetSyncer(s, IF o = None THEN fresh(a) ELSE changed(a))
        \/ o # None /\ SetSyncer(s, Deleted(o))
    BY Zenon DEF ChangeSyncer
  <1> HIDE DEF fresh, changed
  <1>6. CASE \E a \in Annotations : SetSyncer(s, IF o = None THEN fresh(a) ELSE changed(a))
    <2>1. PICK a \in Annotations : SetSyncer(s, IF o = None THEN fresh(a) ELSE changed(a))
      BY <1>6, Zenon
    <2>2. (IF o = None THEN fresh(a) ELSE changed(a)) \in SyncerObjects \cup {None}
      BY <1>3, <1>4, Zenon
    <2> QED
      BY <2>1, <2>2, SetSyncerStep, Zenon
  <1>7. CASE o # None /\ SetSyncer(s, Deleted(o))
    BY <1>4, <1>7, SetSyncerStep, Zenon
  <1> QED
    BY <1>5, <1>6, <1>7, Zenon

LEMMA ChangeSecretStep ==
  ASSUME IInv, ChangeSecret
  PROVE  IInv' /\ Quiet
  BY StatesOf, ChangeStep, Zenon DEF ChangeSecret, Kinds
---------------------------------------------------------------------------
(* Events, and restarts.                                                   *)

\* Only objects of their own kind are queued.
LEMMA WokenUsers ==
  ASSUME IInv, NEW k \in Kinds, NEW changed, k = "users" => changed \subseteq RemoteUsers
  PROVE  /\ WakeRemoteUsers(k, changed) \subseteq RemoteUsers
         /\ k = "users" => WakeRemoteUsers(k, changed) = changed
         /\ k = "secrets" => WakeRemoteUsers(k, changed) = Live("users", Cached("users"))
  <1> DEFINE users == Cached("users")
  <1>1. Live("users", users) \subseteq RemoteUsers
    BY CachedViews DEF Live
  <1>2. CASE k = "users"
    <2>1. WakeRemoteUsers(k, changed) = changed
      BY <1>2, Zenon DEF WakeRemoteUsers
    <2> QED
      BY <1>2, <2>1
  <1>3. CASE k = "secrets"
    <2>1. WakeRemoteUsers(k, changed) = Live("users", users)
      BY <1>3, Zenon DEF WakeRemoteUsers
    <2> QED
      BY <1>1, <1>3, <2>1
  <1>4. CASE k = "targets" /\ changed \cap BranchTargets # {}
    <2>1. WakeRemoteUsers(k, changed) = {ru \in Live("users", users) : users[ru].managed}
      BY <1>4, Zenon DEF WakeRemoteUsers
    <2> QED
      BY <1>1, <1>4, <2>1
  <1>5. CASE k \notin {"users", "secrets"} /\ ~(k = "targets" /\ changed \cap BranchTargets # {})
    <2>1. WakeRemoteUsers(k, changed) = {}
      BY <1>5, Zenon DEF WakeRemoteUsers
    <2> QED
      BY <1>5, <2>1
  <1> QED
    BY <1>2, <1>3, <1>4, <1>5

LEMMA WokenBindings ==
  ASSUME IInv, NEW k \in Kinds, NEW changed, k = "bindings" => changed \subseteq Names
  PROVE  /\ WakeBindings(k, changed) \subseteq Names
         /\ k = "bindings" => WakeBindings(k, changed) = changed
         /\ k = "users" => WakeBindings(k, changed) =
              {b \in Live("bindings", Cached("bindings")) :
                 Cached("bindings")[b].remoteUserRefs \cap changed # {}}
  <1> DEFINE bs == Cached("bindings")
  <1>1. Live("bindings", bs) \subseteq Names
    BY CachedViews DEF Live
  <1>2. CASE k = "bindings"
    <2>1. WakeBindings(k, changed) = changed
      BY <1>2, Zenon DEF WakeBindings
    <2> QED
      BY <1>2, <2>1
  <1>3. CASE k = "users"
    <2>1. WakeBindings(k, changed) = {b \in Live("bindings", bs) : bs[b].remoteUserRefs \cap changed # {}}
      BY <1>3, Zenon DEF WakeBindings
    <2> QED
      BY <1>1, <1>3, <2>1
  <1>4. CASE k \notin {"users", "bindings"}
    <2>1. WakeBindings(k, changed) = {}
      BY <1>4, Zenon DEF WakeBindings
    <2> QED
      BY <1>4, <2>1
  <1> QED
    BY <1>2, <1>3, <1>4

LEMMA WokenSyncers ==
  ASSUME NEW k \in Kinds, NEW changed, NEW managed, NEW kind
  PROVE  /\ WakeSyncers(k, changed, managed, kind) \subseteq kind
         /\ k = "syncers" => WakeSyncers(k, changed, managed, kind) = changed \cap kind
  <1> DEFINE syncers == Cached("syncers")
  <1>1. CASE k = "syncers"
    <2>1. WakeSyncers(k, changed, managed, kind) = changed \cap kind
      BY <1>1, Zenon DEF WakeSyncers
    <2> QED
      BY <1>1, <2>1
  <1>2. CASE k = "bindings" /\ managed
    <2>1. WakeSyncers(k, changed, managed, kind) =
            {s \in Live("syncers", syncers) \cap kind : syncers[s].userSpecific}
      BY <1>2, Zenon DEF WakeSyncers
    <2> QED
      BY <1>2, <2>1
  <1>3. CASE k # "syncers" /\ ~(k = "bindings" /\ managed)
    <2>1. WakeSyncers(k, changed, managed, kind) = {}
      BY <1>3, Zenon DEF WakeSyncers
    <2> QED
      BY <1>3, <2>1
  <1> QED
    BY <1>1, <1>2, <1>3

LEMMA ChangedKeys ==
  ASSUME NEW k \in Kinds, NEW old \in States(k), NEW new
  PROVE  /\ k = "users" => Changed(k, old, new) = {x \in RemoteUsers : old[x] # new[x]}
         /\ k = "bindings" => Changed(k, old, new) = {x \in Names : old[x] # new[x]}
         /\ k = "syncers" => Changed(k, old, new) = {x \in Syncers : old[x] # new[x]}
  <1>1. CASE k = "users"
    <2>1. DOMAIN old = RemoteUsers
      BY <1>1, StatesOf
    <2>2. Changed(k, old, new) = {x \in DOMAIN old : old[x] # new[x]}
      BY <1>1 DEF Changed
    <2> QED
      BY <1>1, <2>1, <2>2
  <1>2. CASE k = "bindings"
    <2>1. DOMAIN old = Names
      BY <1>2, StatesOf
    <2>2. Changed(k, old, new) = {x \in DOMAIN old : old[x] # new[x]}
      BY <1>2 DEF Changed
    <2> QED
      BY <1>2, <2>1, <2>2
  <1>3. CASE k = "syncers"
    <2>1. DOMAIN old = Syncers
      BY <1>3, StatesOf
    <2>2. Changed(k, old, new) = {x \in DOMAIN old : old[x] # new[x]}
      BY <1>3 DEF Changed
    <2> QED
      BY <1>3, <2>1, <2>2
  <1> QED
    BY <1>1, <1>2, <1>3

\* Whom an event wakes: keys of each controller, and every RemoteUser, binding
\* or syncer that the event is about or that depends on it.
Woken(k, old, new) ==
  /\ \A c \in Controllers : Watchers(k, old, new)[c] \subseteq KeysOf(c)
  /\ Watchers(k, old, new)["RemoteUserBinding"] = WakeBindings(k, Changed(k, old, new))
  /\ Watchers(k, old, new)["RemoteUser"] = WakeRemoteUsers(k, Changed(k, old, new))
  /\ k = "syncers" =>
       /\ Watchers(k, old, new)["RemoteSyncer"] = Changed(k, old, new) \cap RemoteSyncers
       /\ Watchers(k, old, new)["ClusterWideRemoteSyncer"] =
            Changed(k, old, new) \cap ClusterWideRemoteSyncers

LEMMA WatchersTyped ==
  ASSUME IInv, NEW k \in Kinds, NEW old \in States(k), NEW new
  PROVE  Woken(k, old, new)
  <1> DEFINE changed == Changed(k, old, new)
             managed == k = "bindings" /\
                          changed \cap (ManagedBindings(old) \cup ManagedBindings(new)) # {}
             w == Watchers(k, old, new)
  <1>1. w = [c \in Controllers |->
               CASE c = "RemoteUser"        -> WakeRemoteUsers(k, changed)
                 [] c = "RemoteUserBinding" -> WakeBindings(k, changed)
                 [] c = "RemoteSyncer"      -> WakeSyncers(k, changed, managed, RemoteSyncers)
                 [] c = "ClusterWideRemoteSyncer" ->
                      WakeSyncers(k, changed, managed, ClusterWideRemoteSyncers)]
    BY Zenon DEF Watchers
  <1> HIDE DEF w, managed, changed
  <1>2. /\ w["RemoteUser"] = WakeRemoteUsers(k, changed)
        /\ w["RemoteUserBinding"] = WakeBindings(k, changed)
        /\ w["RemoteSyncer"] = WakeSyncers(k, changed, managed, RemoteSyncers)
        /\ w["ClusterWideRemoteSyncer"] = WakeSyncers(k, changed, managed, ClusterWideRemoteSyncers)
    BY <1>1, Zenon DEF Controllers
  <1>3. /\ k = "users" => changed \subseteq RemoteUsers
        /\ k = "bindings" => changed \subseteq Names
    BY ChangedKeys DEF changed
  <1>4. /\ w["RemoteUser"] \subseteq KeysOf("RemoteUser")
        /\ w["RemoteUserBinding"] \subseteq KeysOf("RemoteUserBinding")
        /\ w["RemoteSyncer"] \subseteq KeysOf("RemoteSyncer")
        /\ w["ClusterWideRemoteSyncer"] \subseteq KeysOf("ClusterWideRemoteSyncer")
    <2>1. WakeRemoteUsers(k, changed) \subseteq RemoteUsers
      BY <1>3, WokenUsers, Zenon
    <2>2. WakeBindings(k, changed) \subseteq Names
      BY <1>3, WokenBindings
    <2>3. /\ WakeSyncers(k, changed, managed, RemoteSyncers) \subseteq RemoteSyncers
          /\ WakeSyncers(k, changed, managed, ClusterWideRemoteSyncers) \subseteq ClusterWideRemoteSyncers
      BY WokenSyncers
    <2> QED
      BY <1>2, <2>1, <2>2, <2>3, KeysOfEach
  <1>5. \A c \in Controllers : w[c] \subseteq KeysOf(c)
    BY <1>4, Zenon DEF Controllers
  <1>6. k = "syncers" => /\ w["RemoteSyncer"] = changed \cap RemoteSyncers
                         /\ w["ClusterWideRemoteSyncer"] = changed \cap ClusterWideRemoteSyncers
    BY <1>2, WokenSyncers, Zenon
  <1> QED
    BY <1>2, <1>5, <1>6, Zenon DEF w, changed, Woken

\* The delivery of an event: the cache moves on by one version.
LEMMA DeliverStep ==
  ASSUME IInv, NEW k \in Kinds, Deliver(k)
  PROVE  /\ IInv' /\ UNCHANGED work
         /\ store'[k] = Tail(store[k]) /\ \A q \in Kinds \ {k} : store'[q] = store[q]
         /\ Len(store[k]) > 1
         /\ queue'["RemoteUserBinding"] =
              queue["RemoteUserBinding"] \cup WakeBindings(k, Changed(k, store[k][1], store[k][2]))
         /\ \A c \in Controllers :
              queue'[c] = queue[c] \cup Watchers(k, store[k][1], store[k][2])[c]
  <1> DEFINE woken == Watchers(k, store[k][1], store[k][2])
  <1>1. /\ Len(store[k]) > 1 /\ store' = [store EXCEPT ![k] = Tail(store[k])]
        /\ queue' = [c \in Controllers |-> queue[c] \cup woken[c]]
        /\ UNCHANGED work
    BY Zenon DEF Deliver
  <1>2. store[k] \in Seq(States(k)) /\ store[k] # <<>> /\ store[k][1] \in States(k)
    BY Views, Zenon
  <1>3. store' = [q \in Kinds |-> IF q = k THEN Tail(store[k]) ELSE store[q]]
    <2>1. store = [q \in Kinds |-> store[q]]
      BY Zenon DEF IInv, StoreInv
    <2> QED
      BY <1>1, <2>1, Zenon
  <1>4. \A q \in Kinds : store'[q] = IF q = k THEN Tail(store[k]) ELSE store[q]
    BY <1>3
  <1>5. Tail(store[k]) \in Seq(States(k)) /\ Len(Tail(store[k])) = Len(store[k]) - 1
    BY <1>2, HeadTailProperties
  <1>6. Tail(store[k]) # <<>>
    <2>1. Len(store[k]) \in Nat
      BY Views, Zenon
    <2>2. PICK n \in Nat : n = Len(store[k])
      BY <2>1
    <2>3. n > 1 /\ Len(Tail(store[k])) = n - 1
      BY <1>1, <1>5, <2>2, Zenon
    <2>4. n - 1 # 0 /\ Len(<<>>) = 0
      BY <2>3
    <2> QED
      BY <2>3, <2>4, Zenon
  <1>7. StoreInv'
    <2>1. store' = [q \in Kinds |-> store'[q]]
      BY <1>3
    <2>2. \A q \in Kinds : store'[q] \in Seq(States(q)) \ {<<>>}
      BY <1>4, <1>5, <1>6, Zenon DEF IInv, StoreInv
    <2>3. \A q \in Kinds : Len(store[q]) \in Int /\ Len(store'[q]) \in Nat \ {0}
      BY <2>2, Views, EmptySeq
    <2>4. \A q \in Kinds : Len(store'[q]) = IF q = k THEN Len(store[q]) - 1 ELSE Len(store[q])
      BY <1>4, <1>5, Zenon
    <2>5. LagIn(store') = LagIn(store) - 1
      BY <2>3, <2>4, LagStep
    <2>6. LagIn(store') \in Nat
      BY <2>3, LagNat
    <2>7. Lag \in 0 .. MaxLag /\ Lag' = Lag - 1 /\ Lag' \in Nat
      BY <2>5, <2>6 DEF Lag, LagIn, IInv, StoreInv
    <2>8. Lag' \in 0 .. MaxLag
      BY <2>7, PoliciesAssumption
    <2> QED
      BY <2>1, <2>2, <2>8, Zenon DEF StoreInv
  <1>8. /\ \A c \in Controllers : woken[c] \subseteq KeysOf(c)
        /\ woken["RemoteUserBinding"] = WakeBindings(k, Changed(k, store[k][1], store[k][2]))
    <2>1. Woken(k, store[k][1], store[k][2])
      BY <1>2, WatchersTyped, Zenon
    <2> QED
      BY <2>1, Zenon DEF Woken
  <1> HIDE DEF woken
  <1>9. \A c \in Controllers : queue'[c] = queue[c] \cup woken[c]
    BY <1>1
  <1>10. QueueInv'
    <2>1. queue' = [c \in Controllers |-> queue'[c]]
      BY <1>1
    <2>2. \A c \in Controllers : queue'[c] \subseteq KeysOf(c)
      BY <1>8, <1>9, Zenon DEF IInv, QueueInv
    <2> QED
      BY <2>1, <2>2, Zenon DEF QueueInv
  <1>11. WorkInv'
    BY <1>1, Zenon DEF IInv, WorkInv
  <1>12. "RemoteUserBinding" \in Controllers
    BY DEF Controllers
  <1> QED
    BY <1>1, <1>4, <1>7, <1>8, <1>9, <1>10, <1>11, <1>12, Zenon DEF IInv, woken


\* With one version of everything, nothing lags.
LEMMA OneVersion ==
  ASSUME NEW s \in [Kinds -> UNION {States(k) : k \in Kinds}], \A k \in Kinds : s[k] \in States(k),
         NEW f, f = [k \in Kinds |-> <<s[k]>>]
  PROVE  /\ f = [k \in Kinds |-> f[k]]
         /\ \A k \in Kinds : f[k] \in Seq(States(k)) \ {<<>>} /\ Head(f[k]) = s[k]
         /\ LagIn(f) = 0
  <1>1. f = [k \in Kinds |-> f[k]] /\ \A k \in Kinds : f[k] = <<s[k]>>
    OBVIOUS
  <1>2. ASSUME NEW k \in Kinds
        PROVE  f[k] \in Seq(States(k)) \ {<<>>} /\ Head(f[k]) = s[k] /\ Len(f[k]) = 1
    <2>1. PICK a \in States(k) : a = s[k]
      OBVIOUS
    <2>2. f[k] = <<a>>
      BY <1>1, <2>1, Zenon
    <2>3. <<a>> \in Seq(States(k)) \ {<<>>} /\ Head(<<a>>) = a /\ Len(<<a>>) = 1
      OBVIOUS
    <2> QED
      BY <2>1, <2>2, <2>3, Zenon
  <1>3. /\ Len(f["users"]) = 1 /\ Len(f["bindings"]) = 1 /\ Len(f["targets"]) = 1
        /\ Len(f["syncers"]) = 1 /\ Len(f["secrets"]) = 1
    BY <1>2, Zenon DEF Kinds
  <1>4. LagIn(f) = 1 + 1 + 1 + 1 + 1 - 5
    BY <1>3, Zenon DEF LagIn
  <1> QED
    BY <1>1, <1>2, <1>4

LEMMA RestartStep ==
  ASSUME IInv, Restart
  PROVE  /\ IInv' /\ HealInv'
         /\ \A c \in Controllers : \A x \in KeysOf(c) :
              Cached(ObjectKind(c))'[x] # None => x \in queue'[c]
  <1> DEFINE s == [k \in Kinds |-> Stored(k)]
             syncers == Live("syncers", Stored("syncers"))
             keys(c) ==
               CASE c = "RemoteUser" -> Live("users", Stored("users"))
                 [] c = "RemoteUserBinding" -> Live("bindings", Stored("bindings"))
                 [] c = "RemoteSyncer" -> syncers \cap RemoteSyncers
                 [] c = "ClusterWideRemoteSyncer" -> syncers \cap ClusterWideRemoteSyncers
  <1>1. /\ work' = [c \in Controllers |-> Idle]
        /\ store' = [k \in Kinds |-> <<Stored(k)>>]
        /\ queue' = [c \in Controllers |-> keys(c)]
    BY Zenon DEF Restart
  <1>2. \A k \in Kinds : s[k] = Stored(k) /\ s[k] \in States(k)
    BY Views
  <1>3. s \in [Kinds -> UNION {States(k) : k \in Kinds}] /\ store' = [k \in Kinds |-> <<s[k]>>]
    BY <1>1, <1>2
  <1> HIDE DEF s
  <1>4. /\ store' = [k \in Kinds |-> store'[k]]
        /\ \A k \in Kinds : store'[k] \in Seq(States(k)) \ {<<>>} /\ Head(store'[k]) = s[k]
        /\ LagIn(store') = 0
    BY <1>2, <1>3, OneVersion
  <1>5. StoreInv'
    <2>1. Lag' = 0
      BY <1>4 DEF Lag, LagIn
    <2>2. Lag' \in 0 .. MaxLag
      BY <2>1, PoliciesAssumption
    <2> QED
      BY <1>4, <2>2, Zenon DEF StoreInv
  <1>6. WorkInv'
    <2>1. work' = [c \in Controllers |-> work'[c]] /\ \A c \in Controllers : work'[c] = Idle
      BY <1>1
    <2> QED
      BY <2>1, Zenon DEF WorkInv, Controllers
  <1>7. /\ queue'["RemoteUser"] = Live("users", Stored("users"))
        /\ queue'["RemoteUserBinding"] = Live("bindings", Stored("bindings"))
        /\ queue'["RemoteSyncer"] = syncers \cap RemoteSyncers
        /\ queue'["ClusterWideRemoteSyncer"] = syncers \cap ClusterWideRemoteSyncers
    BY <1>1, Zenon DEF Controllers
  <1>8. QueueInv'
    <2>1. /\ queue'["RemoteUser"] \subseteq KeysOf("RemoteUser")
          /\ queue'["RemoteUserBinding"] \subseteq KeysOf("RemoteUserBinding")
          /\ queue'["RemoteSyncer"] \subseteq KeysOf("RemoteSyncer")
          /\ queue'["ClusterWideRemoteSyncer"] \subseteq KeysOf("ClusterWideRemoteSyncer")
      BY <1>7, StoredViews, KeysOfEach DEF Live
    <2> HIDE DEF keys
    <2>2. queue' = [c \in Controllers |-> queue'[c]]
      BY <1>1
    <2> QED
      BY <2>1, <2>2, Zenon DEF QueueInv, Controllers
  <1>9. HealInv'
    <2>1. Cached("bindings")' = Stored("bindings")
      BY <1>2, <1>4, Zenon DEF Cached, Kinds
    <2>2. ASSUME NEW b \in Names, NEW ru \in RemoteUsers, Dangling(b, ru)'
          PROVE  b \in queue'["RemoteUserBinding"]
      <3>1. Stored("bindings")[b] # None
        BY <2>1, <2>2, Zenon DEF Dangling
      <3>2. b \in Live("bindings", Stored("bindings"))
        BY <3>1, StoredViews DEF Live
      <3> QED
        BY <1>7, <3>2, Zenon
    <2> QED
      BY <2>2, Zenon DEF HealInv
  <1>10. ASSUME NEW c \in Controllers, NEW x \in KeysOf(c), Cached(ObjectKind(c))'[x] # None
         PROVE  x \in queue'[c]
    <2>1. /\ Cached("users")' = Stored("users") /\ Cached("bindings")' = Stored("bindings")
          /\ Cached("syncers")' = Stored("syncers")
      BY <1>2, <1>4, Zenon DEF Cached, Kinds
    <2>2. CASE c = "RemoteUser"
      <3>1. x \in RemoteUsers /\ Stored("users")[x] # None
        BY <1>10, <2>1, <2>2, KeysOfEach DEF ObjectKind, KindOf
      <3>2. x \in Live("users", Stored("users"))
        BY <3>1, StoredViews DEF Live
      <3> QED
        BY <1>7, <2>2, <3>2, Zenon
    <2>3. CASE c = "RemoteUserBinding"
      <3>1. x \in Names /\ Stored("bindings")[x] # None
        BY <1>10, <2>1, <2>3, KeysOfEach DEF ObjectKind
      <3>2. x \in Live("bindings", Stored("bindings"))
        BY <3>1, StoredViews DEF Live
      <3> QED
        BY <1>7, <2>3, <3>2, Zenon
    <2>4. CASE c \in {"RemoteSyncer", "ClusterWideRemoteSyncer"}
      <3>1. x \in Syncers /\ Stored("syncers")[x] # None
        BY <1>10, <2>1, <2>4, KeysOfEach DEF ObjectKind, KindOf, Syncers
      <3>2. x \in Live("syncers", Stored("syncers"))
        BY <3>1, StoredViews DEF Live
      <3>3. KeysOf(c) = IF c = "RemoteSyncer" THEN RemoteSyncers ELSE ClusterWideRemoteSyncers
        BY <2>4, KeysOfEach
      <3> QED
        BY <1>7, <2>4, <3>2, <3>3
    <2> QED
      BY <2>2, <2>3, <2>4 DEF Controllers
  <1> QED
    BY <1>5, <1>6, <1>8, <1>9, <1>10, Zenon DEF IInv
---------------------------------------------------------------------------
(* A dead reference is not forgotten.                                      *)

LEMMA HealKept ==
  ASSUME HealInv,
         Cached("users")' = Cached("users"), Cached("bindings")' = Cached("bindings"),
         \A x : ~Current("bindings", x) => ~Current("bindings", x)',
         queue["RemoteUserBinding"] \subseteq queue'["RemoteUserBinding"],
         work'["RemoteUserBinding"] = work["RemoteUserBinding"]
  PROVE  HealInv'
  <1> SUFFICES ASSUME NEW b \in Names, NEW ru \in RemoteUsers, Dangling(b, ru)'
               PROVE  \/ b \in queue'["RemoteUserBinding"]
                      \/ Pruning(b, ru)'
                      \/ ~Current("bindings", b)'
    BY Zenon DEF HealInv
  <1>1. Dangling(b, ru)
    BY Zenon DEF Dangling
  <1>2. Pruning(b, ru) => Pruning(b, ru)'
    BY Zenon DEF Pruning, Call1, Todo
  <1> QED
    BY <1>1, <1>2, Zenon DEF HealInv

LEMMA QuietHeals ==
  ASSUME HealInv, Quiet
  PROVE  HealInv'
  <1>1. \A k \in {"users", "bindings"} :
          Cached(k)' = Cached(k) /\ \A x : ~Current(k, x) => ~Current(k, x)'
    BY Zenon DEF Quiet, OnlyAppends, Kinds
  <1> QED
    BY <1>1, HealKept, Zenon DEF Quiet

\* The only call of the binding controller: when it is done, the stored
\* version is another one; when it fails, the binding is queued again.
LEMMA BindingStepHeals ==
  ASSUME IInv, HealInv, Step("RemoteUserBinding")
  PROVE  IInv' /\ HealInv'
  <1> DEFINE c == "RemoteUserBinding"
             x == work[c].key
  <1>1. work[c] # Idle /\ (MutateOrDelete(c) \/ Fail(c))
    BY BindingCall, Zenon
  <1>2. IInv' /\ OnlyAppends /\ queue[c] \subseteq queue'[c]
    BY <1>1, BindingFail, BindingMutate, Zenon
  <1>3. /\ Cached("users")' = Cached("users") /\ Cached("bindings")' = Cached("bindings")
        /\ \A y : ~Current("bindings", y) => ~Current("bindings", y)'
    BY <1>2, Zenon DEF OnlyAppends, Kinds
  <1> SUFFICES ASSUME NEW b \in Names, NEW ru \in RemoteUsers, Dangling(b, ru)'
               PROVE  b \in queue'[c] \/ ~Current("bindings", b)'
    BY <1>2, Zenon DEF HealInv
  <1>4. Dangling(b, ru)
    BY <1>3, Zenon DEF Dangling
  <1>5. b \in queue[c] \/ Pruning(b, ru) \/ ~Current("bindings", b)
    BY <1>4, Zenon DEF HealInv
  <1>6. CASE Pruning(b, ru) /\ Fail(c)
    BY <1>1, <1>6, BindingFail, Zenon DEF Pruning
  <1>7. CASE Pruning(b, ru) /\ MutateOrDelete(c)
    <2> DEFINE call == Call1(c)
               o == Cached("bindings")[b]
               new == Mutate(call, o)
    <2>1. call.on = b /\ ru \in call.arg /\ call.do = "removeUserRefs" /\ call.arg \in SUBSET RemoteUsers
      BY <1>1, <1>7, BindingWorker, Zenon DEF Pruning
    <2>2. o # None /\ ru \in o.remoteUserRefs
      BY <1>4, Zenon DEF Dangling
    <2>3. o \in BindingObjects
      BY <2>2, CachedViews
    <2>4. new = [o EXCEPT !.remoteUserRefs = o.remoteUserRefs \ call.arg]
      BY <2>1, Zenon DEF Mutate
    <2>5. new.remoteUserRefs = o.remoteUserRefs \ call.arg
      BY <2>3, <2>4, Zenon DEF BindingObjects
    <2>6. new # o
      BY <2>1, <2>2, <2>5, Zenon
    <2>7. new \in BindingObjects
      <3>1. (o.remoteUserRefs \ call.arg) \in SUBSET RemoteUsers
        BY <2>3, BindingObjectWrites, Zenon
      <3> QED
        BY <2>3, <2>4, <3>1, BindingObjectWrites, Zenon
    <2>8. PutObject("bindings", b, None) \/ PutObject("bindings", b, new)
      BY <1>7, <2>1, <2>2, Zenon DEF MutateOrDelete
    <2>9. Stored("bindings")'[b] \in {None, new}
      BY <2>7, <2>8, WriteBinding, Zenon
    <2>10. Stored("bindings")'[b] # Cached("bindings")'[b]
      BY <1>3, <2>2, <2>6, <2>9, Zenon
    <2> QED
      BY <1>2, <2>10, OutOfDate, Zenon DEF Kinds
  <1> QED
    BY <1>1, <1>2, <1>3, <1>5, <1>6, <1>7, Zenon

LEMMA ReconcileBindingHeals ==
  ASSUME IInv, HealInv, NEW x \in Names, ReconcileBinding(x)
  PROVE  IInv' /\ HealInv'
  <1> DEFINE c == "RemoteUserBinding"
  <1>1. /\ IInv' /\ OnlyAppends /\ work[c] = Idle /\ queue'[c] = queue[c] \ {x}
        /\ \A ru \in RemoteUsers : Dangling(x, ru) => Pruning(x, ru)'
    BY ReconcileBindingStep, Zenon
  <1>2. /\ Cached("users")' = Cached("users") /\ Cached("bindings")' = Cached("bindings")
        /\ \A y : ~Current("bindings", y) => ~Current("bindings", y)'
    BY <1>1, Zenon DEF OnlyAppends, Kinds
  <1> SUFFICES ASSUME NEW b \in Names, NEW ru \in RemoteUsers, Dangling(b, ru)'
               PROVE  b \in queue'[c] \/ Pruning(b, ru)' \/ ~Current("bindings", b)'
    BY <1>1, Zenon DEF HealInv
  <1>3. Dangling(b, ru)
    BY <1>2, Zenon DEF Dangling
  <1>4. ~Pruning(b, ru)
    BY <1>1, Zenon DEF Pruning
  <1>5. b \in queue[c] \/ ~Current("bindings", b)
    BY <1>3, <1>4, Zenon DEF HealInv
  <1>6. CASE b = x
    BY <1>1, <1>3, <1>6, Zenon
  <1>7. CASE b # x
    BY <1>1, <1>2, <1>5, <1>7, Zenon
  <1> QED
    BY <1>6, <1>7

\* The next version becomes the cached one.
LEMMA NextVersion ==
  ASSUME IInv, NEW k \in Kinds, Len(store[k]) > 1, store'[k] = Tail(store[k])
  PROVE  /\ Cached(k) = store[k][1] /\ Cached(k)' = store[k][2]
         /\ store[k][1] \in States(k) /\ store[k][2] \in States(k)
         /\ \A x : store[k][1][x] = store[k][2][x] /\ ~Current(k, x) => ~Current(k, x)'
  <1> DEFINE s == store[k]
             t == Tail(s)
  <1>1. s \in Seq(States(k)) /\ s # <<>> /\ Len(s) \in Nat /\ Len(s) > 1 /\ Cached(k) = s[1]
    BY Views, Zenon
  <1>2. /\ Cached(k)' = Head(t)
        /\ \A x : Current(k, x) <=> \A i \in DOMAIN s : s[i][x] = s[1][x]
        /\ \A x : Current(k, x)' <=> \A i \in DOMAIN t : t[i][x] = Head(t)[x]
    BY <1>1, Zenon DEF Cached, Current
  <1> HIDE DEF s
  <1>3. /\ t \in Seq(States(k)) /\ Len(t) = Len(s) - 1
        /\ \A i \in 1 .. Len(t) : t[i] = s[i + 1]
    BY <1>1, HeadTailProperties
  <1>4. s[1] \in States(k) /\ s[2] \in States(k)
    BY <1>1, ElementOfSeq
  <1> HIDE DEF t
  <1>5. DOMAIN t = 1 .. Len(t) /\ DOMAIN s = 1 .. Len(s)
    BY <1>1, <1>3, LenProperties
  <1>6. PICK n \in Nat : n = Len(t)
    BY <1>3, LenProperties
  <1>7. n >= 1 /\ Len(s) = n + 1
    BY <1>1, <1>3, <1>6
  <1>8. Head(t) = s[2]
    <2>1. Head(t) = t[1]
      BY <1>3, <1>6, <1>7
    <2>2. 1 \in 1 .. Len(t) /\ 1 + 1 = 2
      BY <1>6, <1>7
    <2> QED
      BY <1>3, <2>1, <2>2
  <1>9. ASSUME NEW x, s[1][x] = s[2][x], ~Current(k, x) PROVE ~Current(k, x)'
    <2>1. PICK i \in DOMAIN s : s[i][x] # s[1][x]
      BY <1>2, <1>9, Zenon
    <2>2. i \in 1 .. n + 1 /\ i # 1
      BY <1>5, <1>7, <2>1
    <2>3. i - 1 \in 1 .. Len(t) /\ (i - 1) + 1 = i
      BY <1>6, <2>2
    <2>4. t[i - 1] = s[i]
      BY <1>3, <2>3
    <2>5. t[i - 1][x] # Head(t)[x] /\ i - 1 \in DOMAIN t
      BY <1>5, <1>8, <1>9, <2>1, <2>3, <2>4, Zenon
    <2> QED
      BY <1>2, <2>5, Zenon
  <1> QED
    BY <1>1, <1>2, <1>4, <1>8, <1>9, Zenon DEF s

\* An event wakes the bindings it is about, and those of the RemoteUser it is
\* about.
LEMMA DeliverHeals ==
  ASSUME IInv, HealInv, NEW k \in Kinds, Deliver(k)
  PROVE  IInv' /\ HealInv'
  <1> DEFINE c == "RemoteUserBinding"
             old == store[k][1]
             new == store[k][2]
             changed == Changed(k, old, new)
  <1>1. /\ IInv' /\ work' = work
        /\ store'[k] = Tail(store[k]) /\ \A q \in Kinds \ {k} : store'[q] = store[q]
        /\ Len(store[k]) > 1
        /\ queue'[c] = queue[c] \cup WakeBindings(k, changed)
    BY DeliverStep, Zenon
  <1>2. /\ Cached(k) = old /\ Cached(k)' = new /\ old \in States(k)
        /\ \A x : old[x] = new[x] /\ ~Current(k, x) => ~Current(k, x)'
    BY <1>1, NextVersion, Zenon
  <1>3. \A q \in Kinds \ {k} : Cached(q)' = Cached(q) /\ \A x : Current(q, x)' <=> Current(q, x)
    BY <1>1, Zenon DEF Cached, Current
  <1>4. queue[c] \subseteq queue'[c] /\ work'[c] = work[c]
    BY <1>1, Zenon
  <1>5. CASE k \notin {"users", "bindings"}
    <2>1. {"users", "bindings"} \subseteq Kinds \ {k}
      BY <1>5 DEF Kinds
    <2>2. /\ Cached("users")' = Cached("users") /\ Cached("bindings")' = Cached("bindings")
          /\ \A x : ~Current("bindings", x) => ~Current("bindings", x)'
      BY <1>3, <2>1, Zenon
    <2> QED
      BY <1>1, <1>4, <2>2, HealKept, Zenon
  <1>6. CASE k = "bindings"
    <2>1. "users" \in Kinds \ {k}
      BY <1>6 DEF Kinds
    <2>2. Cached("users")' = Cached("users")
      BY <1>3, <2>1, Zenon
    <2>3. changed = {x \in Names : old[x] # new[x]} /\ WakeBindings(k, changed) = changed
      <3>1. changed = {x \in Names : old[x] # new[x]}
        BY <1>2, <1>6, ChangedKeys
      <3> HIDE DEF changed
      <3>2. changed \subseteq Names
        BY <3>1
      <3> QED
        BY <1>6, <3>1, <3>2, WokenBindings, Zenon
    <2>4. ASSUME NEW b \in Names, NEW ru \in RemoteUsers, Dangling(b, ru)'
          PROVE  b \in queue'[c] \/ Pruning(b, ru)' \/ ~Current("bindings", b)'
      <3>1. CASE old[b] # new[b]
        BY <1>1, <2>3, <3>1, Zenon
      <3>2. CASE old[b] = new[b]
        <4>1. Cached("bindings")'[b] = Cached("bindings")[b]
          BY <1>2, <1>6, <3>2, Zenon
        <4>2. Dangling(b, ru)
          BY <2>2, <2>4, <4>1, Zenon DEF Dangling
        <4>3. ~Current("bindings", b) => ~Current("bindings", b)'
          BY <1>2, <1>6, <3>2, Zenon
        <4>4. Pruning(b, ru) => Pruning(b, ru)'
          BY <1>4, Zenon DEF Pruning, Call1, Todo
        <4> QED
          BY <1>4, <4>2, <4>3, <4>4, Zenon DEF HealInv
      <3> QED
        BY <3>1, <3>2
    <2> QED
      BY <1>1, <2>4, Zenon DEF HealInv
  <1>7. CASE k = "users"
    <2>1. "bindings" \in Kinds \ {k}
      BY <1>7 DEF Kinds
    <2>2. Cached("bindings")' = Cached("bindings") /\ \A x : Current("bindings", x)' <=> Current("bindings", x)
      BY <1>3, <2>1, Zenon
    <2>3. /\ changed = {x \in RemoteUsers : old[x] # new[x]}
          /\ WakeBindings(k, changed) = {b \in Live("bindings", Cached("bindings")) :
                                           Cached("bindings")[b].remoteUserRefs \cap changed # {}}
      <3>1. changed = {x \in RemoteUsers : old[x] # new[x]}
        BY <1>2, <1>7, ChangedKeys
      <3> HIDE DEF changed
      <3>2. k # "bindings"
        BY <1>7
      <3> QED
        BY <1>7, <3>1, <3>2, WokenBindings
    <2>4. ASSUME NEW b \in Names, NEW ru \in RemoteUsers, Dangling(b, ru)'
          PROVE  b \in queue'[c] \/ Pruning(b, ru)' \/ ~Current("bindings", b)'
      <3>1. /\ Cached("bindings")[b] # None /\ Cached("bindings")[b].managed
            /\ ru \in Cached("bindings")[b].remoteUserRefs
            /\ new[ru] = None
        BY <1>2, <1>7, <2>2, <2>4, Zenon DEF Dangling
      <3>2. CASE old[ru] # new[ru]
        <4> HIDE DEF changed
        <4>1. ru \in Cached("bindings")[b].remoteUserRefs \cap changed
          BY <2>3, <3>1, <3>2, Zenon
        <4>2. b \in Live("bindings", Cached("bindings"))
          BY <3>1, CachedViews DEF Live
        <4>3. b \in WakeBindings(k, changed)
          BY <2>3, <4>1, <4>2, Zenon
        <4> QED
          BY <1>1, <4>3, Zenon DEF changed
      <3>3. CASE old[ru] = new[ru]
        <4>1. Dangling(b, ru)
          BY <1>2, <1>7, <3>1, <3>3, Zenon DEF Dangling
        <4>2. Pruning(b, ru) => Pruning(b, ru)'
          BY <1>4, Zenon DEF Pruning, Call1, Todo
        <4> QED
          BY <1>4, <2>2, <4>1, <4>2, Zenon DEF HealInv
      <3> QED
        BY <3>2, <3>3
    <2> QED
      BY <1>1, <2>4, Zenon DEF HealInv
  <1> QED
    BY <1>5, <1>6, <1>7
---------------------------------------------------------------------------
(* What a step leaves to the controllers that do not take it.              *)

LEMMA WorkOfOne ==
  ASSUME IInv, NEW d \in Controllers, work' = work \/ \E j : work' = [work EXCEPT ![d] = j]
  PROVE  \A c \in Controllers \ {d} : work'[c] = work[c]
  <1>1. CASE work' = work
    BY <1>1
  <1>2. CASE \E j : work' = [work EXCEPT ![d] = j]
    <2>1. PICK j : work' = [work EXCEPT ![d] = j]
      BY <1>2, Zenon
    <2>2. work = [c \in Controllers |-> work[c]]
      BY Zenon DEF IInv, WorkInv
    <2>3. work' = [c \in Controllers |-> IF c = d THEN j ELSE work[c]]
      BY <2>1, <2>2, Zenon
    <2> QED
      BY <2>3
  <1> QED
    BY <1>1, <1>2

\* The steps of a worker change nothing of the others, and forget no key.
LEMMA StepOfOne ==
  ASSUME IInv, NEW d \in Controllers, Step(d)
  PROVE  /\ IInv' /\ OnlyAppends /\ queue[d] \subseteq queue'[d]
         /\ \A c \in Controllers \ {d} : queue'[c] = queue[c] /\ work'[c] = work[c]
  <1>1. IInv' /\ OnlyAppends
    <2>1. CASE d = "RemoteUserBinding"
      BY <2>1, BindingCall, BindingFail, BindingMutate, Zenon
    <2>2. CASE d # "RemoteUserBinding"
      BY <2>2, WorkerStep, Zenon DEF Quiet
    <2> QED
      BY <2>1, <2>2
  <1>2. \E j : work' = [work EXCEPT ![d] = j]
    <2>1. NextPolicy(d) => \E j : work' = [work EXCEPT ![d] = j]
      BY Zenon DEF NextPolicy
    <2>2. EnsureFinalizers(d) \/ RemoveFinalizer(d) => \E j : work' = [work EXCEPT ![d] = j]
      BY Zenon DEF EnsureFinalizers, RemoveFinalizer, NextCall, Continue
    <2>3. ReadCache(d) \/ MutateOrDelete(d) \/ CreateTarget(d) \/ DeleteTarget(d) =>
            \E j : work' = [work EXCEPT ![d] = j]
      BY Zenon DEF ReadCache, MutateOrDelete, CreateTarget, DeleteTarget, NextCall, Continue
    <2>4. FindOrCreateBinding(d) => \E j : work' = [work EXCEPT ![d] = j]
      BY Zenon DEF FindOrCreateBinding, ClaimName, Associate, Continue
    <2>5. Fail(d) => \E j : work' = [work EXCEPT ![d] = j]
      BY Zenon DEF Fail, Abort
    <2> QED
      BY <2>1, <2>2, <2>3, <2>4, <2>5, Zenon DEF Step
  <1>3. queue' = queue \/ queue' = [queue EXCEPT ![d] = @ \cup {work[d].key}]
    <2>1. Fail(d) => queue' = [queue EXCEPT ![d] = @ \cup {work[d].key}]
      BY Zenon DEF Fail, Abort
    <2>2. ~Fail(d) => queue' = queue
      BY Zenon DEF Step, NextPolicy, ReadCache, EnsureFinalizers, RemoveFinalizer, MutateOrDelete,
                   FindOrCreateBinding, CreateTarget, DeleteTarget
    <2> QED
      BY <2>1, <2>2, Zenon
  <1>4. \A c \in Controllers \ {d} : work'[c] = work[c]
    BY <1>2, WorkOfOne, Zenon
  <1>5. /\ queue[d] \subseteq queue'[d]
        /\ \A c \in Controllers \ {d} : queue'[c] = queue[c]
    <2>1. CASE queue' = queue
      BY <2>1, Zenon
    <2>2. CASE queue' = [queue EXCEPT ![d] = @ \cup {work[d].key}]
      <3>1. queue = [c \in Controllers |-> queue[c]]
        BY Zenon DEF IInv, QueueInv
      <3>2. queue' = [c \in Controllers |-> IF c = d THEN queue[d] \cup {work[d].key} ELSE queue[c]]
        BY <2>2, <3>1, Zenon
      <3> QED
        BY <3>2
    <2> QED
      BY <1>3, <2>1, <2>2
  <1> QED
    BY <1>1, <1>4, <1>5, Zenon

\* A key is taken from a queue by a worker with nothing to do.
LEMMA TakeOfOne ==
  ASSUME IInv, NEW d \in Controllers, Reconcile(d)
  PROVE  /\ IInv' /\ OnlyAppends /\ work[d] = Idle
         /\ \E x \in KeysOf(d) : queue'[d] = queue[d] \ {x}
         /\ \A c \in Controllers \ {d} : queue'[c] = queue[c] /\ work'[c] = work[c]
  <1>1. CASE d = "RemoteUser"
    <2>1. PICK ru \in RemoteUsers : ReconcileRemoteUser(ru)
      BY <1>1, Zenon DEF Reconcile
    <2>2. Take(d, ru) /\ Start(d, ru, Cached("users")[ru])
      BY <1>1, <2>1, Zenon DEF ReconcileRemoteUser
    <2>3. \E j : work' = [work EXCEPT ![d] = j]
      BY <2>2, Zenon DEF Start
    <2>4. IInv' /\ OnlyAppends
      BY <2>1, ReconcileRemoteUserStep, Zenon DEF Quiet
    <2> QED
      BY <2>2, <2>3, <2>4, TakeTyped, WorkOfOne, Zenon
  <1>2. CASE d \in {"RemoteSyncer", "ClusterWideRemoteSyncer"}
    <2>1. PICK s \in Syncers : ReconcileSyncer(d, s)
      BY <1>2 DEF Reconcile
    <2>2. Take(d, s) /\ Start(d, s, Cached("syncers")[s])
      BY <2>1, Zenon DEF ReconcileSyncer
    <2>3. \E j : work' = [work EXCEPT ![d] = j]
      BY <2>2, Zenon DEF Start
    <2>4. IInv' /\ OnlyAppends
      BY <1>2, <2>1, ReconcileSyncerStep, Zenon DEF Quiet
    <2> QED
      BY <2>2, <2>3, <2>4, TakeTyped, WorkOfOne, Zenon
  <1>3. CASE d = "RemoteUserBinding"
    <2>1. PICK b \in Names : ReconcileBinding(b)
      BY <1>3 DEF Reconcile
    <2>2. Take(d, b)
      BY <1>3, <2>1, Zenon DEF ReconcileBinding
    <2>3. work' = work \/ \E j : work' = [work EXCEPT ![d] = j]
      BY <1>3, <2>1, Zenon DEF ReconcileBinding
    <2>4. IInv' /\ OnlyAppends
      BY <2>1, ReconcileBindingStep, Zenon
    <2> QED
      BY <2>2, <2>3, <2>4, TakeTyped, WorkOfOne, Zenon
  <1> QED
    BY <1>1, <1>2, <1>3 DEF Controllers

\* What is going to be looked at stays so, and an object that changes in the
\* cache is.
LEMMA StaysAttended ==
  ASSUME OnlyAppends, NEW c \in Controllers, queue[c] \subseteq queue'[c]
  PROVE  \A x : Attended(c, x) => Attended(c, x)'
  <1>1. ObjectKind(c) \in Kinds
    BY DEF ObjectKind, KindOf, Kinds
  <1> QED
    BY <1>1, Zenon DEF Attended, OnlyAppends

LEMMA DeliverAttends ==
  ASSUME IInv, NEW k \in Kinds, Deliver(k), NEW c \in Controllers, NEW x \in KeysOf(c)
  PROVE  /\ Attended(c, x) => Attended(c, x)'
         /\ Attended(c, x)' \/ Cached(ObjectKind(c))'[x] = Cached(ObjectKind(c))[x]
  <1> DEFINE old == store[k][1]
             new == store[k][2]
             changed == Changed(k, old, new)
             w == Watchers(k, old, new)
             q == ObjectKind(c)
  <1>1. /\ store'[k] = Tail(store[k]) /\ (\A y \in Kinds \ {k} : store'[y] = store[y])
        /\ Len(store[k]) > 1 /\ queue'[c] = queue[c] \cup w[c]
    BY DeliverStep, Zenon
  <1>2. q \in Kinds
    BY DEF ObjectKind, KindOf, Kinds
  <1>3. CASE q # k
    <2>1. Cached(q)' = Cached(q) /\ (Current(q, x)' <=> Current(q, x))
      BY <1>1, <1>2, <1>3, Zenon DEF Cached, Current
    <2> QED
      BY <1>1, <2>1, Zenon DEF Attended
  <1>4. CASE q = k
    <2>1. /\ Cached(k) = old /\ Cached(k)' = new /\ old \in States(k)
          /\ old[x] = new[x] /\ ~Current(k, x) => ~Current(k, x)'
      BY <1>1, NextVersion, Zenon
    <2>2. Woken(k, old, new)
      BY <2>1, WatchersTyped, Zenon
    <2>3. old[x] # new[x] => x \in w[c]
      <3>1. CASE c = "RemoteUser"
        <4>1. k = "users" /\ x \in RemoteUsers
          BY <1>4, <3>1, KeysOfEach DEF ObjectKind, KindOf
        <4>2. changed = {y \in RemoteUsers : old[y] # new[y]}
          BY <2>1, <4>1, ChangedKeys
        <4> HIDE DEF changed, old, new
        <4>3. w[c] = changed
          <5>1. changed \subseteq RemoteUsers
            BY <4>2
          <5>2. w[c] = WakeRemoteUsers(k, changed)
            BY <2>2, <3>1, Zenon DEF changed, Woken
          <5> QED
            BY <4>1, <5>1, <5>2, WokenUsers, Zenon
        <4> QED
          BY <4>1, <4>2, <4>3
      <3>2. CASE c = "RemoteUserBinding"
        <4>1. k = "bindings" /\ x \in Names
          BY <1>4, <3>2, KeysOfEach DEF ObjectKind
        <4>2. changed = {y \in Names : old[y] # new[y]}
          BY <2>1, <4>1, ChangedKeys
        <4> HIDE DEF changed, old, new
        <4>3. w[c] = changed
          <5>1. changed \subseteq Names
            BY <4>2
          <5>2. w[c] = WakeBindings(k, changed)
            BY <2>2, <3>2, Zenon DEF changed, Woken
          <5> QED
            BY <4>1, <5>1, <5>2, WokenBindings
        <4> QED
          BY <4>1, <4>2, <4>3
      <3>3. CASE c \in {"RemoteSyncer", "ClusterWideRemoteSyncer"}
        <4>1. k = "syncers" /\ x \in Syncers
          BY <1>4, <3>3, KeysOfEach DEF ObjectKind, KindOf, Syncers
        <4>2. changed = {y \in Syncers : old[y] # new[y]}
          BY <2>1, <4>1, ChangedKeys
        <4> HIDE DEF changed, old, new
        <4>3. w[c] = changed \cap KeysOf(c)
          <5>1. CASE c = "RemoteSyncer"
            BY <2>2, <4>1, <5>1, KeysOfEach, Zenon DEF changed, Woken
          <5>2. CASE c = "ClusterWideRemoteSyncer"
            BY <2>2, <4>1, <5>2, KeysOfEach, Zenon DEF changed, Woken
          <5> QED
            BY <3>3, <5>1, <5>2
        <4> QED
          BY <4>1, <4>2, <4>3
      <3> QED
        BY <3>1, <3>2, <3>3 DEF Controllers
    <2> HIDE DEF old, new, w
    <2>4. CASE old[x] # new[x]
      BY <1>1, <2>3, <2>4, Zenon DEF Attended
    <2>5. CASE old[x] = new[x]
      BY <1>1, <1>4, <2>1, <2>5, Zenon DEF Attended
    <2> QED
      BY <2>4, <2>5
  <1> QED
    BY <1>3, <1>4

---------------------------------------------------------------------------
(* A status out of date is not forgotten.                                  *)

\* A write changes no cache.
LEMMA SameViews ==
  ASSUME OnlyAppends
  PROVE  /\ Cached("users")' = Cached("users") /\ Cached("bindings")' = Cached("bindings")
         /\ Cached("secrets")' = Cached("secrets") /\ Cached("syncers")' = Cached("syncers")
         /\ \A ru : StaleUser(ru)' => StaleUser(ru)
         /\ \A b : StaleBinding(b)' => StaleBinding(b)
         /\ \A b, ru : Dangling(b, ru) => Dangling(b, ru)'
  <1>1. /\ Cached("users")' = Cached("users") /\ Cached("bindings")' = Cached("bindings")
        /\ Cached("secrets")' = Cached("secrets") /\ Cached("syncers")' = Cached("syncers")
    BY Zenon DEF OnlyAppends, Kinds
  <1>2. \A ru : StaleUser(ru)' => StaleUser(ru)
    BY <1>1, Zenon DEF StaleUser
  <1>3. \A b : StaleBinding(b)' => StaleBinding(b)
    BY <1>1, Zenon DEF StaleBinding, Gone
  <1>4. \A b, ru : Dangling(b, ru) => Dangling(b, ru)'
    BY <1>1, Zenon DEF Dangling
  <1> QED
    BY <1>1, <1>2, <1>3, <1>4

LEMMA StatusKept ==
  ASSUME StatusInv, OnlyAppends,
         queue["RemoteUser"] \subseteq queue'["RemoteUser"],
         queue["RemoteUserBinding"] \subseteq queue'["RemoteUserBinding"]
  PROVE  StatusInv'
  <1>1. /\ \A x : Attended("RemoteUser", x) => Attended("RemoteUser", x)'
        /\ \A x : Attended("RemoteUserBinding", x) => Attended("RemoteUserBinding", x)'
    BY StaysAttended, Zenon DEF Controllers
  <1> QED
    BY <1>1, SameViews, Zenon DEF StatusInv

\* The reconcile of a RemoteUser writes what the Secret is like, unless the
\* version it has read is an old one: then there is another event to come.
LEMMA RemoteUserStatus ==
  ASSUME IInv, StatusInv, NEW ru \in RemoteUsers, ReconcileRemoteUser(ru)
  PROVE  StatusInv'
  <1> DEFINE c == "RemoteUser"
             o == Cached("users")[ru]
             new == [o EXCEPT !.status = Cached("secrets")]
  <1>1. IInv' /\ OnlyAppends
    BY ReconcileRemoteUserStep, Zenon DEF Quiet
  <1>2. c \in Controllers /\ "RemoteUserBinding" \in Controllers \ {c} /\ ObjectKind(c) = "users"
    BY DEF Controllers, ObjectKind, KindOf
  <1>3. /\ queue'[c] = queue[c] \ {ru}
        /\ queue'["RemoteUserBinding"] = queue["RemoteUserBinding"]
    <2>1. Take(c, ru)
      BY Zenon DEF ReconcileRemoteUser
    <2> QED
      BY <1>2, <2>1, TakeTyped, Zenon
  <1>4. \A x : ~Current("users", x) => ~Current("users", x)'
    BY <1>1, Zenon DEF OnlyAppends, Kinds
  <1>5. ASSUME NEW x \in RemoteUsers, StaleUser(x)' PROVE Attended(c, x)'
    <2>1. StaleUser(x) /\ Attended(c, x)
      BY <1>1, <1>5, SameViews, Zenon DEF StatusInv
    <2>2. CASE x # ru \/ ~Current("users", x)
      BY <1>2, <1>3, <1>4, <2>1, <2>2, Zenon DEF Attended
    <2>3. CASE x = ru /\ Current("users", x)
      <3>1. o # None /\ ~o.deleting /\ o.status # Cached("secrets")
        BY <2>1, <2>3, Zenon DEF StaleUser
      <3>2. PutObject("users", ru, new)
        BY <2>3, <3>1, Zenon DEF ReconcileRemoteUser
      <3>3. o \in UserObjects /\ Cached("secrets") \in SecretStates
        BY <3>1, CachedViews, Zenon
      <3>4. new \in UserObjects \cup {None} /\ new.status = Cached("secrets")
        <4>1. new \in UserObjects
          BY <3>3, UserObjectWrites, Zenon
        <4>2. new.status = Cached("secrets")
          BY <3>3, Zenon DEF UserObjects
        <4> QED
          BY <4>1, <4>2, Zenon
      <3>5. Stored("users")'[ru] = new
        BY <3>2, <3>4, WriteUser, Zenon
      <3>6. Stored("users")'[ru] # Cached("users")'[ru]
        BY <1>1, <3>1, <3>4, <3>5, SameViews, Zenon
      <3>7. ~Current("users", ru)'
        BY <1>1, <3>6, OutOfDate, Zenon DEF Kinds
      <3> QED
        BY <1>2, <2>3, <3>7, Zenon DEF Attended
    <2> QED
      BY <2>2, <2>3
  <1>6. \A x : Attended("RemoteUserBinding", x) => Attended("RemoteUserBinding", x)'
    BY <1>1, <1>2, <1>3, StaysAttended, Zenon
  <1> QED
    BY <1>1, <1>5, <1>6, SameViews, Zenon DEF StatusInv

LEMMA BindingStatus ==
  ASSUME IInv, StatusInv, NEW b \in Names, ReconcileBinding(b)
  PROVE  StatusInv'
  <1> DEFINE c == "RemoteUserBinding"
             o == Cached("bindings")[b]
             missing == {ru \in o.remoteUserRefs : Cached("users")[ru] = None}
             new == [o EXCEPT !.bound = o.remoteUserRefs \ missing, !.notBound = missing]
  <1>1. IInv' /\ OnlyAppends /\ queue'[c] = queue[c] \ {b}
    BY ReconcileBindingStep, Zenon
  <1>2. c \in Controllers /\ "RemoteUser" \in Controllers \ {c} /\ ObjectKind(c) = "bindings"
    BY DEF Controllers, ObjectKind
  <1>3. queue'["RemoteUser"] = queue["RemoteUser"]
    <2>1. Take(c, b)
      BY Zenon DEF ReconcileBinding
    <2> QED
      BY <1>2, <2>1, TakeTyped, Zenon
  <1>4. \A x : ~Current("bindings", x) => ~Current("bindings", x)'
    BY <1>1, Zenon DEF OnlyAppends, Kinds
  <1>5. ASSUME NEW x \in Names, StaleBinding(x)'
        PROVE  Attended(c, x)' \/ \E ru \in RemoteUsers : Dangling(x, ru)'
    <2>1. StaleBinding(x) /\ (Attended(c, x) \/ \E ru \in RemoteUsers : Dangling(x, ru))
      BY <1>1, <1>5, SameViews, Zenon DEF StatusInv
    <2>2. CASE \E ru \in RemoteUsers : Dangling(x, ru)
      BY <1>1, <2>2, SameViews, Zenon
    <2>3. CASE Attended(c, x) /\ (x # b \/ ~Current("bindings", x))
      BY <1>1, <1>2, <1>4, <2>3, Zenon DEF Attended
    <2>4. CASE x = b /\ Current("bindings", x) /\ ~\E ru \in RemoteUsers : Dangling(x, ru)
      <3>1. /\ o # None
            /\ ~(o.bound = o.remoteUserRefs \ missing /\ o.notBound = missing)
        BY <2>1, <2>4, Zenon DEF StaleBinding, Gone
      <3>2. o \in BindingObjects /\ o.remoteUserRefs \subseteq RemoteUsers
        BY <3>1, CachedViews, BindingObjectWrites, Zenon
      <3>3. ~(o.managed /\ missing # {})
        <4>1. ASSUME o.managed, NEW ru \in missing PROVE FALSE
          BY <2>4, <3>1, <3>2, <4>1, Zenon DEF Dangling
        <4> QED
          BY <4>1, Zenon
      <3>4. PutObject("bindings", b, new)
        BY <2>4, <3>1, <3>3, Zenon DEF ReconcileBinding
      <3>5. missing \in SUBSET RemoteUsers /\ (o.remoteUserRefs \ missing) \in SUBSET RemoteUsers
        BY <3>2, Zenon
      <3>6. new \in BindingObjects /\ new.bound = o.remoteUserRefs \ missing /\ new.notBound = missing
        <4>1. new \in BindingObjects
          BY <3>2, <3>5, BindingObjectWrites, Zenon
        <4>2. new.bound = o.remoteUserRefs \ missing /\ new.notBound = missing
          BY <3>2, Zenon DEF BindingObjects
        <4> QED
          BY <4>1, <4>2, Zenon
      <3>7. Stored("bindings")'[b] = new
        BY <3>4, <3>6, WriteBinding, Zenon
      <3>8. new # o
        BY <3>1, <3>6, Zenon
      <3>9. Stored("bindings")'[b] # Cached("bindings")'[b]
        BY <1>1, <3>7, <3>8, SameViews, Zenon
      <3>10. ~Current("bindings", b)'
        BY <1>1, <3>9, OutOfDate, Zenon DEF Kinds
      <3> QED
        BY <1>2, <2>4, <3>10, Zenon DEF Attended
    <2> QED
      BY <2>1, <2>2, <2>3, <2>4, Zenon
  <1>6. \A x : Attended("RemoteUser", x) => Attended("RemoteUser", x)'
    BY <1>1, <1>2, <1>3, StaysAttended, Zenon
  <1> QED
    BY <1>1, <1>5, <1>6, SameViews, Zenon DEF StatusInv

\* An event of the Secret wakes every RemoteUser, one of a RemoteUser the
\* bindings that refer to it.
LEMMA DeliverWakes ==
  ASSUME IInv, NEW k \in Kinds, Deliver(k)
  PROVE  /\ k = "secrets" => Live("users", Cached("users")) \subseteq queue'["RemoteUser"]
         /\ k = "users" => \A b \in Names, ru \in RemoteUsers :
              /\ Cached("bindings")[b] # None /\ ru \in Cached("bindings")[b].remoteUserRefs
              /\ Cached("users")'[ru] # Cached("users")[ru]
              => b \in queue'["RemoteUserBinding"]
         /\ \A q \in Kinds \ {k} : Cached(q)' = Cached(q)
  <1> DEFINE old == store[k][1]
             new == store[k][2]
             changed == Changed(k, old, new)
             w == Watchers(k, old, new)
  <1>1. /\ store'[k] = Tail(store[k]) /\ (\A q \in Kinds \ {k} : store'[q] = store[q])
        /\ Len(store[k]) > 1
        /\ \A c \in Controllers : queue'[c] = queue[c] \cup w[c]
    BY DeliverStep, Zenon
  <1>2. Cached(k) = old /\ Cached(k)' = new /\ old \in States(k)
    BY <1>1, NextVersion, Zenon
  <1>3. /\ queue'["RemoteUser"] = queue["RemoteUser"] \cup WakeRemoteUsers(k, changed)
        /\ queue'["RemoteUserBinding"] = queue["RemoteUserBinding"] \cup WakeBindings(k, changed)
    <2>1. Woken(k, old, new)
      BY <1>2, WatchersTyped, Zenon
    <2> QED
      BY <1>1, <2>1, Zenon DEF Woken, Controllers
  <1>4. k = "users" => changed = {x \in RemoteUsers : old[x] # new[x]}
    BY <1>2, ChangedKeys
  <1> HIDE DEF changed, old, new, w
  <1>5. k = "secrets" => WakeRemoteUsers(k, changed) = Live("users", Cached("users"))
    <2>1. k = "secrets" => (k = "users" => changed \subseteq RemoteUsers)
      OBVIOUS
    <2> QED
      BY <2>1, WokenUsers
  <1>6. k = "users" => WakeBindings(k, changed) = {b \in Live("bindings", Cached("bindings")) :
                                           Cached("bindings")[b].remoteUserRefs \cap changed # {}}
    <2>1. k = "users" => (k = "bindings" => changed \subseteq Names)
      OBVIOUS
    <2> QED
      BY <2>1, WokenBindings
  <1>7. ASSUME k = "users", NEW b \in Names, NEW ru \in RemoteUsers,
               Cached("bindings")[b] # None, ru \in Cached("bindings")[b].remoteUserRefs,
               Cached("users")'[ru] # Cached("users")[ru]
        PROVE  b \in queue'["RemoteUserBinding"]
    <2>1. ru \in Cached("bindings")[b].remoteUserRefs \cap changed
      BY <1>2, <1>4, <1>7, Zenon
    <2>2. b \in Live("bindings", Cached("bindings"))
      BY <1>7, CachedViews DEF Live
    <2> QED
      BY <1>3, <1>6, <1>7, <2>1, <2>2, Zenon
  <1>8. \A q \in Kinds \ {k} : Cached(q)' = Cached(q)
    BY <1>1, Zenon DEF Cached
  <1> QED
    BY <1>3, <1>5, <1>7, <1>8, Zenon

LEMMA DeliverStatus ==
  ASSUME IInv, StatusInv, NEW k \in Kinds, Deliver(k)
  PROVE  StatusInv'
  <1>1. /\ "RemoteUser" \in Controllers /\ "RemoteUserBinding" \in Controllers
        /\ ObjectKind("RemoteUser") = "users" /\ ObjectKind("RemoteUserBinding") = "bindings"
        /\ KeysOf("RemoteUser") = RemoteUsers /\ KeysOf("RemoteUserBinding") = Names
    BY KeysOfEach DEF Controllers, ObjectKind, KindOf
  <1>2. \A q \in Kinds \ {k} : Cached(q)' = Cached(q)
    BY DeliverWakes, Zenon
  <1>3. ASSUME NEW ru \in RemoteUsers, StaleUser(ru)' PROVE Attended("RemoteUser", ru)'
    <2>1. /\ Attended("RemoteUser", ru) => Attended("RemoteUser", ru)'
          /\ Attended("RemoteUser", ru)' \/ Cached("users")'[ru] = Cached("users")[ru]
      BY <1>1, DeliverAttends, Zenon
    <2>2. CASE k = "secrets" /\ Cached("users")'[ru] = Cached("users")[ru]
      <3>1. Cached("users")[ru] # None
        BY <1>3, <2>2, Zenon DEF StaleUser
      <3>2. ru \in Live("users", Cached("users"))
        BY <3>1, CachedViews DEF Live
      <3>3. ru \in queue'["RemoteUser"]
        BY <2>2, <3>2, DeliverWakes, Zenon
      <3> QED
        BY <3>3, Zenon DEF Attended
    <2>3. CASE k # "secrets" /\ Cached("users")'[ru] = Cached("users")[ru]
      <3>1. Cached("secrets")' = Cached("secrets")
        BY <1>2, <2>3, Zenon DEF Kinds
      <3>2. StaleUser(ru)
        BY <1>3, <2>3, <3>1, Zenon DEF StaleUser
      <3> QED
        BY <2>1, <3>2, Zenon DEF StatusInv
    <2> QED
      BY <2>1, <2>2, <2>3
  <1>4. ASSUME NEW b \in Names, StaleBinding(b)'
        PROVE  Attended("RemoteUserBinding", b)' \/ \E ru \in RemoteUsers : Dangling(b, ru)'
    <2> DEFINE o == Cached("bindings")[b]
    <2>1. /\ Attended("RemoteUserBinding", b) => Attended("RemoteUserBinding", b)'
          /\ Attended("RemoteUserBinding", b)' \/ Cached("bindings")'[b] = o
      BY <1>1, DeliverAttends, Zenon
    <2>2. CASE ~Attended("RemoteUserBinding", b)'
      <3>1. Cached("bindings")'[b] = o
        BY <2>1, <2>2, Zenon
      <3>2. o # None
        BY <1>4, <3>1, Zenon DEF StaleBinding
      <3>3. o.remoteUserRefs \subseteq RemoteUsers
        BY <3>2, CachedViews, BindingObjectWrites, Zenon
      <3>4. \A ru \in o.remoteUserRefs : Cached("users")'[ru] = Cached("users")[ru]
        <4>1. CASE k = "users"
          BY <2>2, <3>2, <3>3, <4>1, DeliverWakes, Zenon DEF Attended
        <4>2. CASE k # "users"
          BY <1>2, <4>2, Zenon DEF Kinds
        <4> QED
          BY <4>1, <4>2
      <3>5. Gone(b)' = Gone(b)
        BY <3>1, <3>4 DEF Gone
      <3>6. StaleBinding(b)
        BY <1>4, <3>1, <3>5, Zenon DEF StaleBinding
      <3>7. PICK ru \in RemoteUsers : Dangling(b, ru)
        BY <2>1, <2>2, <3>6, Zenon DEF StatusInv
      <3>8. Dangling(b, ru)'
        BY <3>1, <3>4, <3>7, Zenon DEF Dangling
      <3> QED
        BY <3>8, Zenon
    <2> QED
      BY <2>2
  <1> QED
    BY <1>3, <1>4, Zenon DEF StatusInv

LEMMA RestartStatus ==
  ASSUME IInv, Restart
  PROVE  StatusInv'
  <1>1. /\ \A x \in RemoteUsers : Cached("users")'[x] # None => x \in queue'["RemoteUser"]
        /\ \A x \in Names : Cached("bindings")'[x] # None => x \in queue'["RemoteUserBinding"]
    <2>1. /\ "RemoteUser" \in Controllers /\ "RemoteUserBinding" \in Controllers
          /\ ObjectKind("RemoteUser") = "users" /\ ObjectKind("RemoteUserBinding") = "bindings"
          /\ KeysOf("RemoteUser") = RemoteUsers /\ KeysOf("RemoteUserBinding") = Names
      BY KeysOfEach DEF Controllers, ObjectKind, KindOf
    <2> QED
      BY <2>1, RestartStep, Zenon
  <1> QED
    BY <1>1, Zenon DEF StatusInv, StaleUser, StaleBinding, Attended

---------------------------------------------------------------------------
(* Finalizers too many or too few are not forgotten.                       *)

\* The last element of a sequence.
LEMMA LastOfConcat ==
  ASSUME NEW S, NEW s \in Seq(S), NEW t \in Seq(S), t # <<>>
  PROVE  s \o t # <<>> /\ Last(s \o t) = Last(t)
  <1>1. /\ s \o t \in Seq(S) /\ Len(s \o t) = Len(s) + Len(t)
        /\ \A i \in 1 .. Len(s) + Len(t) : (s \o t)[i] = IF i <= Len(s) THEN s[i] ELSE t[i - Len(s)]
    BY ConcatProperties
  <1>2. Len(s) \in Nat /\ Len(t) \in Nat \ {0}
    BY EmptySeq, LenProperties
  <1>3. Len(s \o t) # 0 /\ Len(<<>>) = 0
    BY <1>1, <1>2
  <1>4. s \o t # <<>>
    BY <1>3, Zenon
  <1> DEFINE n == Len(s) + Len(t)
  <1>5. n \in 1 .. Len(s) + Len(t) /\ ~(n <= Len(s)) /\ n - Len(s) = Len(t)
    BY <1>2
  <1>6. (s \o t)[n] = t[Len(t)]
    BY <1>1, <1>5
  <1> QED
    BY <1>1, <1>4, <1>6 DEF Last

LEMMA LastOfTail ==
  ASSUME NEW S, NEW s \in Seq(S), s # <<>>, Head(s) # Last(s)
  PROVE  Tail(s) \in Seq(S) /\ Tail(s) # <<>> /\ Last(Tail(s)) = Last(s)
  <1>1. Len(s) \in Nat \ {0} /\ Head(s) = s[1] /\ Last(s) = s[Len(s)]
    BY EmptySeq, LenProperties DEF Last
  <1>2. Len(s) > 1
    BY <1>1
  <1>3. Tail(s) \in Seq(S) /\ Len(Tail(s)) = Len(s) - 1 /\ \A i \in 1 .. Len(Tail(s)) : Tail(s)[i] = s[i + 1]
    BY HeadTailProperties
  <1>4. PICK n \in Nat : n = Len(Tail(s))
    BY <1>3, LenProperties
  <1>5. n \in 1 .. n /\ n # 0 /\ n + 1 = Len(s)
    BY <1>1, <1>2, <1>3, <1>4
  <1>6. Tail(s)[n] = s[n + 1] /\ Len(<<>>) = 0
    BY <1>3, <1>4, <1>5
  <1>7. Tail(s) # <<>>
    BY <1>4, <1>5, <1>6, Zenon
  <1> QED
    BY <1>1, <1>3, <1>4, <1>5, <1>6, <1>7, Zenon DEF Last

LEMMA PartsOf ==
  ASSUME NEW S, NEW s \in Seq(S), s # <<>>
  PROVE  \A q \in ToSet(s) : q = Head(s) \/ q \in ToSet(Tail(s))
  <1>1. Len(s) \in Nat /\ DOMAIN s = 1 .. Len(s) /\ Head(s) = s[1]
    BY LenProperties
  <1>2. /\ Tail(s) \in Seq(S) /\ Len(Tail(s)) = Len(s) - 1
        /\ \A i \in 1 .. Len(Tail(s)) : Tail(s)[i] = s[i + 1]
    BY HeadTailProperties
  <1>3. DOMAIN Tail(s) = 1 .. Len(Tail(s))
    BY <1>2, LenProperties
  <1> SUFFICES ASSUME NEW i \in DOMAIN s, i # 1 PROVE s[i] \in ToSet(Tail(s))
    BY <1>1 DEF ToSet
  <1>4. i - 1 \in 1 .. Len(Tail(s)) /\ (i - 1) + 1 = i
    BY <1>1, <1>2
  <1>5. Tail(s)[i - 1] = s[i]
    BY <1>2, <1>4
  <1> QED
    BY <1>3, <1>4, <1>5 DEF ToSet

\* A finalizer about to be dropped still is after another call.
LEMMA DropsLater ==
  ASSUME NEW c, NEW todo \in Seq(Groups(c)), todo # <<>>, NEW p, Drops(todo, p),
         Head(Head(todo)) # Call("removeFinalizer", p, {})
  PROVE  Drops(Later(todo), p)
  <1> DEFINE call == Call("removeFinalizer", p, {})
  <1>1. Last(todo) = <<call>> /\ Head(<<call>>) = call
    BY DEF Drops
  <1>2. Head(todo) # Last(todo)
    BY <1>1, Zenon
  <1> HIDE DEF call
  <1>3. Tail(todo) \in Seq(Groups(c)) /\ Tail(todo) # <<>> /\ Last(Tail(todo)) = <<call>>
    BY <1>1, <1>2, LastOfTail, Zenon
  <1>4. CASE Len(Head(todo)) = 1
    BY <1>3, <1>4, Zenon DEF Later, Drops, call
  <1>5. CASE Len(Head(todo)) # 1
    <2>1. Later(todo) = <<Tail(Head(todo))>> \o Tail(todo)
      BY <1>5, Zenon DEF Later
    <2>2. Head(todo) \in Seq(Calls(c)) /\ Head(todo) # <<>>
      BY DEF Groups
    <2>3. <<Tail(Head(todo))>> \in Seq(Seq(Calls(c)))
      BY <2>2
    <2>4. Tail(todo) \in Seq(Seq(Calls(c)))
      <3>1. Groups(c) \subseteq Seq(Calls(c))
        BY DEF Groups
      <3> HIDE DEF Groups
      <3> QED
        BY <1>3, <3>1
    <2>5. Later(todo) # <<>> /\ Last(Later(todo)) = <<call>>
      <3>1. PICK a \in Seq(Seq(Calls(c))) : a = <<Tail(Head(todo))>>
        BY <2>3
      <3>2. PICK t \in Seq(Seq(Calls(c))) : t = Tail(todo)
        BY <2>4
      <3>3. t # <<>> /\ Last(t) = <<call>> /\ Later(todo) = a \o t
        BY <1>3, <2>1, <3>1, <3>2, Zenon
      <3>4. a \o t # <<>> /\ Last(a \o t) = Last(t)
        BY <3>3, LastOfConcat, Zenon
      <3> QED
        BY <3>3, <3>4, Zenon
    <2> QED
      BY <2>5, Zenon DEF Drops, call
  <1> QED
    BY <1>4, <1>5

ObjectsOf(c) == IF c = "RemoteUser" THEN UserObjects ELSE SyncerObjects

\* The objects of a controller that runs policies.
LEMMA Owned ==
  ASSUME IInv, NEW c \in Owners, NEW x \in KeysOf(c)
  PROVE  /\ c \in Controllers \ {"RemoteUserBinding"} /\ ObjectKind(c) = KindOf(c) /\ KindOf(c) \in Kinds
         /\ Cached(KindOf(c))[x] # None =>
              /\ Cached(KindOf(c))[x] \in ObjectsOf(c)
              /\ Cached(KindOf(c))[x].fins \subseteq PolicyNames(c)
              /\ Cached(KindOf(c))[x].deleting => Cached(KindOf(c))[x].fins # {}
              /\ c # "RemoteUser" => Cached(KindOf(c))[x].branches \subseteq Branches
         /\ ToSet(Policies(c)) = PolicyNames(c)
  <1>1. c \in Controllers \ {"RemoteUserBinding"} /\ ObjectKind(c) = KindOf(c) /\ KindOf(c) \in Kinds
    BY DEF Owners, ObjectKind, KindOf, Kinds
  <1>2. ASSUME Cached(KindOf(c))[x] # None
        PROVE  /\ Cached(KindOf(c))[x] \in ObjectsOf(c)
               /\ Cached(KindOf(c))[x].fins \subseteq PolicyNames(c)
               /\ Cached(KindOf(c))[x].deleting => Cached(KindOf(c))[x].fins # {}
               /\ c # "RemoteUser" => Cached(KindOf(c))[x].branches \subseteq Branches
    <2>1. CASE c = "RemoteUser"
      <3>1. x \in RemoteUsers /\ KindOf(c) = "users" /\ PolicyNames(c) = {"association"}
        BY <2>1, KeysOfEach DEF KindOf, PolicyNames
      <3>2. Cached(KindOf(c))[x] \in UserObjects
        BY <1>2, <3>1, CachedViews
      <3> QED
        BY <2>1, <3>1, <3>2, UserObjectWrites, Zenon DEF ObjectsOf
    <2>2. CASE c # "RemoteUser"
      <3>1. x \in Syncers /\ KindOf(c) = "syncers" /\ PolicyNames(c) = {"branch", "user"}
        BY <1>1, <2>2, KeysOfEach DEF KindOf, PolicyNames, Controllers, Syncers
      <3>2. Cached(KindOf(c))[x] \in SyncerObjects
        BY <1>2, <3>1, CachedViews
      <3> QED
        BY <2>2, <3>1, <3>2, SyncerObjectWrites, Zenon DEF ObjectsOf
    <2> QED
      BY <2>1, <2>2
  <1>3. ToSet(Policies(c)) = PolicyNames(c)
    <2>1. ToSet(<<"association">>) = {"association"} /\ ToSet(<<"branch", "user">>) = {"branch", "user"}
      BY DEF ToSet
    <2> QED
      BY <2>1, Zenon DEF Policies, PolicyNames
  <1> QED
    BY <1>1, <1>2, <1>3, Zenon

\* A write of an object with other finalizers.
LEMMA OwnWrites ==
  ASSUME IInv, NEW c \in Owners, NEW x \in KeysOf(c), NEW o \in ObjectsOf(c),
         NEW fins \in SUBSET PolicyNames(c)
  PROVE  /\ WithFinalizers(o, fins).fins = fins
         /\ WithFinalizers(o, fins).deleting = o.deleting
         /\ Written(o, fins) = None \/ Written(o, fins).fins = fins
         /\ PutObject(KindOf(c), x, Written(o, fins)) =>
              OnlyAppends /\ Stored(KindOf(c))'[x] = Written(o, fins)
  <1>1. CASE c = "RemoteUser"
    <2>1. /\ x \in RemoteUsers /\ o \in UserObjects /\ fins \in SUBSET {"association"}
          /\ KindOf(c) = "users"
      BY <1>1, KeysOfEach DEF KindOf, PolicyNames, ObjectsOf
    <2>2. Written(o, fins) \in UserObjects \cup {None}
      BY <2>1, UserObjectWrites, Zenon
    <2>3. /\ WithFinalizers(o, fins).fins = fins
          /\ WithFinalizers(o, fins).deleting = o.deleting
          /\ Written(o, fins) = None \/ Written(o, fins).fins = fins
      BY <2>1, UserObjectWrites, Zenon
    <2>4. PutObject(KindOf(c), x, Written(o, fins)) =>
            OnlyAppends /\ Stored(KindOf(c))'[x] = Written(o, fins)
      BY <2>1, <2>2, WriteUser, Zenon
    <2> QED
      BY <2>3, <2>4, Zenon
  <1>2. CASE c # "RemoteUser"
    <2>1. /\ x \in Syncers /\ o \in SyncerObjects /\ fins \in SUBSET {"branch", "user"}
          /\ KindOf(c) = "syncers"
      BY <1>2, KeysOfEach DEF KindOf, PolicyNames, ObjectsOf, Owners, Controllers, Syncers
    <2>2. Written(o, fins) \in SyncerObjects \cup {None}
      BY <2>1, SyncerObjectWrites, Zenon
    <2>3. /\ WithFinalizers(o, fins).fins = fins
          /\ WithFinalizers(o, fins).deleting = o.deleting
          /\ Written(o, fins) = None \/ Written(o, fins).fins = fins
      BY <2>1, SyncerObjectWrites, Zenon
    <2>4. PutObject(KindOf(c), x, Written(o, fins)) =>
            OnlyAppends /\ Stored(KindOf(c))'[x] = Written(o, fins)
      BY <2>1, <2>2, WriteSyncer, Zenon
    <2> QED
      BY <2>3, <2>4, Zenon
  <1> QED
    BY <1>1, <1>2

\* A worker with something ahead of it is not idle.
LEMMA JobUnderway ==
  ASSUME NEW c, NEW x, NEW o, o.deleting => o.fins # {}, ~Exact(c, o),
         NEW policies, NEW calls, Ahead(c, o, policies, calls),
         work'[c] = Job(x, o, o.deleting, policies, calls)
  PROVE  Underway(c, x, o)'
  <1>1. ~(policies = <<>> /\ calls = <<>>)
    <2> SUFFICES ASSUME policies = <<>>, calls = <<>> PROVE FALSE
      OBVIOUS
    <2>1. ToSet(<<>>) = {}
      BY DEF ToSet
    <2>2. calls # << <<Call("ensureFinalizers", None, Needed(c, o))>> >>
      BY OneCall, Zenon
    <2>3. Spare(c, o) = {}
      BY <2>1, Zenon DEF Ahead, Drops
    <2>4. o.deleting \/ Needed(c, o) \subseteq o.fins
      BY <2>2, Zenon DEF Ahead
    <2> QED
      BY <2>3, <2>4, Zenon DEF Spare, Exact
  <1> DEFINE j == [key |-> x, obj |-> o, cleaning |-> o.deleting, policies |-> policies, todo |-> calls]
  <1>2. work'[c] = j
    BY <1>1, Zenon DEF Job
  <1>3. j.key = x /\ j.obj = o /\ j.cleaning = o.deleting /\ j.policies = policies /\ j.todo = calls
    OBVIOUS
  <1> HIDE DEF j
  <1>4. j # Idle
    <2>1. Idle.policies = <<>> /\ Idle.todo = <<>>
      BY DEF Idle
    <2> QED
      BY <1>1, <1>3, <2>1, Zenon
  <1> QED
    BY <1>2, <1>3, <1>4, Zenon DEF Underway

\* What a worker that goes on has ahead of it.
LEMMA GoesOn ==
  ASSUME IInv, NEW c \in Owners, NEW x \in KeysOf(c), NEW o, o = Cached(KindOf(c))[x], o # None,
         ~Exact(c, o), Underway(c, x, o), NEW calls, Continue(c, o, calls),
         Ahead(c, o, work[c].policies, calls)
  PROVE  Underway(c, x, o)'
  <1>1. work' = [work EXCEPT ![c] = Job(x, o, o.deleting, work[c].policies, calls)]
    BY Zenon DEF Continue, Underway
  <1>2. work = [d \in Controllers |-> work[d]] /\ c \in Controllers
    BY Owned, Zenon DEF IInv, WorkInv
  <1>3. work'[c] = Job(x, o, o.deleting, work[c].policies, calls)
    <2>1. PICK j : j = Job(x, o, o.deleting, work[c].policies, calls)
      OBVIOUS
    <2>2. work' = [d \in Controllers |-> IF d = c THEN j ELSE work[d]]
      BY <1>1, <1>2, <2>1, Zenon
    <2> QED
      BY <1>2, <2>1, <2>2
  <1>4. o.deleting => o.fins # {}
    BY Owned, Zenon
  <1> QED
    BY <1>3, <1>4, JobUnderway, Zenon

LEMMA CallsAhead ==
  ASSUME IInv, NEW c \in Owners, NEW x \in KeysOf(c), NEW o, o = Cached(KindOf(c))[x], o # None,
         ~Exact(c, o), Underway(c, x, o), Todo(c) # <<>>,
         Call1(c).do \notin {"ensureFinalizers", "removeFinalizer", "findBinding", "claim"},
         NEW calls \in Seq(Groups(c)), Continue(c, work[c].obj, calls \o Later(Todo(c)))
  PROVE  Underway(c, x, o)'
  <1> DEFINE later == Later(Todo(c))
  <1>1. /\ work[c] # Idle /\ work[c].obj = o
        /\ Ahead(c, o, work[c].policies, Todo(c))
    BY Zenon DEF Underway, Todo
  <1>2. Todo(c) \in Seq(Groups(c)) /\ later \in Seq(Groups(c))
    <2>1. Call1(c).do \notin {"findBinding", "claim"} /\ c \in Controllers
      BY Owned, Zenon
    <2> QED
      BY <1>1, <2>1, NextCallTyped, Zenon
  <1>3. ASSUME NEW p, Drops(Todo(c), p) PROVE Drops(calls \o later, p)
    <2>1. Call("removeFinalizer", p, {}).do = "removeFinalizer"
      BY DEF Call
    <2>2. Head(Head(Todo(c))) # Call("removeFinalizer", p, {})
      BY <2>1, Zenon DEF Call1
    <2>3. Drops(later, p)
      BY <1>2, <1>3, <2>2, DropsLater, Zenon
    <2> QED
      BY <1>2, <2>3, LastOfConcat, Zenon DEF Drops
  <1>4. Todo(c) # << <<Call("ensureFinalizers", None, Needed(c, o))>> >>
    <2>1. Head(Head(<< <<Call("ensureFinalizers", None, Needed(c, o))>> >>)).do = "ensureFinalizers"
      BY DEF Call
    <2> QED
      BY <2>1, Zenon DEF Call1
  <1>5. Ahead(c, o, work[c].policies, calls \o later)
    BY <1>1, <1>3, <1>4, Zenon DEF Ahead
  <1> QED
    BY <1>1, <1>5, GoesOn, Zenon

LEMMA NextCallAhead ==
  ASSUME IInv, NEW c \in Owners, NEW x \in KeysOf(c), NEW o, o = Cached(KindOf(c))[x], o # None,
         ~Exact(c, o), Underway(c, x, o), Todo(c) # <<>>,
         Call1(c).do \notin {"ensureFinalizers", "removeFinalizer", "findBinding", "claim"},
         NextCall(c)
  PROVE  Underway(c, x, o)'
  <1>1. Later(Todo(c)) \in Seq(Groups(c))
    BY Owned, NextCallTyped, Zenon DEF Underway
  <1>2. << >> \o Later(Todo(c)) = Later(Todo(c)) /\ << >> \in Seq(Groups(c))
    BY <1>1
  <1>3. Continue(c, work[c].obj, << >> \o Later(Todo(c)))
    BY <1>2, Zenon DEF NextCall
  <1> QED
    BY <1>2, <1>3, CallsAhead, Zenon

\* The turn of a policy whose finalizer is to go ends with its removal.
LEMMA NextPolicyAhead ==
  ASSUME IInv, NEW c \in Owners, NEW x \in KeysOf(c), NEW o, o = Cached(KindOf(c))[x], o # None,
         ~Exact(c, o), Underway(c, x, o), NextPolicy(c)
  PROVE  Underway(c, x, o)'
  <1> DEFINE j == work[c]
             p == Head(j.policies)
             rest == Tail(j.policies)
             turn == Turn(p, x, o, o.deleting)
  <1>1. /\ c \in Controllers \ {"RemoteUserBinding"} /\ o.fins \subseteq PolicyNames(c)
        /\ (o.deleting => o.fins # {}) /\ ToSet(Policies(c)) = PolicyNames(c)
        /\ c # "RemoteUser" => o.branches \subseteq Branches
    BY Owned, Zenon
  <1>2. j # Idle /\ Ahead(c, o, j.policies, <<>>) /\ Todo(c) = <<>>
    <2>1. Todo(c) = <<>>
      BY Zenon DEF NextPolicy
    <2> QED
      BY <2>1, Zenon DEF Underway, Todo
  <1>3. j.policies \in Seq(PolicyNames(c)) /\ j.policies # <<>>
    BY <1>1, <1>2, NextCallTyped, Zenon DEF IsJob, Todo
  <1>4. /\ p \in PolicyNames(c) /\ rest \in Seq(PolicyNames(c))
        /\ \A q \in ToSet(j.policies) : q = p \/ q \in ToSet(rest)
    <2>1. PICK s \in Seq(PolicyNames(c)) : s = j.policies
      BY <1>3
    <2>2. s # <<>>
      BY <1>3, <2>1
    <2>3. Head(s) \in PolicyNames(c) /\ Tail(s) \in Seq(PolicyNames(c))
      BY <2>2
    <2>4. \A q \in ToSet(s) : q = Head(s) \/ q \in ToSet(Tail(s))
      BY <2>2, PartsOf, Zenon
    <2> QED
      BY <2>1, <2>3, <2>4, Zenon
  <1>5. work'[c] = Job(x, o, o.deleting, rest, turn)
    <2>1. j.key = x /\ j.obj = o /\ j.cleaning = o.deleting
      BY Zenon DEF Underway
    <2>2. work' = [work EXCEPT ![c] = Job(x, o, o.deleting, rest, turn)]
      BY <2>1, Zenon DEF NextPolicy
    <2>3. PICK new : new = Job(x, o, o.deleting, rest, turn)
      OBVIOUS
    <2>4. work = [d \in Controllers |-> work[d]]
      BY Zenon DEF IInv, WorkInv
    <2>5. work' = [d \in Controllers |-> IF d = c THEN new ELSE work[d]]
      BY <2>2, <2>3, <2>4, Zenon
    <2> QED
      BY <1>1, <2>3, <2>5
  <1>6. o.deleting \/ Needed(c, o) \subseteq o.fins
    BY <1>2, OneCall, Zenon DEF Ahead
  <1>7. \A q \in Spare(c, o) : q \in ToSet(j.policies)
    BY <1>2, Zenon DEF Ahead, Drops
  <1> HIDE DEF p, rest
  <1>8. p \in Spare(c, o) => Drops(turn, p)
    <2> SUFFICES ASSUME p \in Spare(c, o) PROVE Drops(turn, p)
      OBVIOUS
    <2> DEFINE clean == PolicyCleanup(p, x)
               drop == << <<Call("removeFinalizer", p, {})>> >>
    <2>1. clean \in Seq(Groups(c))
      BY <1>1, <1>4, TurnCalls, Zenon
    <2>2. p \in o.fins /\ (~o.deleting => ~Applies(p, o))
      BY <1>1, <1>4, Zenon DEF Spare, Needed
    <2>3. turn = clean \o drop
      BY <2>2, Zenon DEF Turn
    <2>4. drop \in Seq(Groups(c))
      BY <1>4, CallTypes, SmallGroups, Zenon
    <2>5. drop # <<>> /\ Last(drop) = <<Call("removeFinalizer", p, {})>>
      <3>1. PICK a : a = Call("removeFinalizer", p, {})
        OBVIOUS
      <3>2. << <<a>> >> # <<>> /\ Last(<< <<a>> >>) = <<a>>
        BY OneCall DEF Last
      <3> QED
        BY <3>1, <3>2, Zenon
    <2> HIDE DEF clean, drop
    <2>6. clean \o drop # <<>> /\ Last(clean \o drop) = Last(drop)
      BY <2>1, <2>4, <2>5, LastOfConcat, Zenon
    <2> QED
      BY <2>3, <2>5, <2>6, Zenon DEF Drops
  <1> HIDE DEF turn
  <1>9. Ahead(c, o, rest, turn)
    BY <1>4, <1>6, <1>7, <1>8, Zenon DEF Ahead
  <1> QED
    BY <1>1, <1>5, <1>9, JobUnderway, Zenon

\* The search for a binding is not what drops a finalizer.
LEMMA FindAhead ==
  ASSUME IInv, NEW c \in Owners, NEW x \in KeysOf(c), NEW o, o = Cached(KindOf(c))[x], o # None,
         ~Exact(c, o), Underway(c, x, o), FindOrCreateBinding(c)
  PROVE  Underway(c, x, o)'
  <1>1. Doing(c, "findBinding") \/ Doing(c, "claim")
    BY Zenon DEF FindOrCreateBinding
  <1>2. \E calls : Continue(c, work[c].obj, calls)
    BY Zenon DEF FindOrCreateBinding, ClaimName, Associate
  <1>3. PICK calls : Continue(c, work[c].obj, calls)
    BY <1>2, Zenon
  <1>4. work[c] # Idle /\ work[c].obj = o /\ Ahead(c, o, work[c].policies, Todo(c)) /\ Todo(c) # <<>>
    BY <1>1, Zenon DEF Underway, Todo, Doing
  <1>5. Call1(c).do \in {"findBinding", "claim"}
    BY <1>1 DEF Doing
  <1>6. PICK call \in NameCalls : Todo(c) = << <<call>> >>
    <2>1. IsJob(c, work[c])
      BY <1>4, Owned, NextCallTyped, Zenon
    <2>2. Todo(c) \in Todos(c)
      BY <2>1, Zenon DEF IsJob, Todo
    <2>3. Todo(c) \in Seq(Groups(c)) => Call1(c) \in Calls(c)
      BY <1>4, LaterCalls, Zenon DEF Call1
    <2>4. \A a \in Calls(c) : a.do \notin {"findBinding", "claim"}
      BY DEF Calls, UserRefCalls, TargetRefCalls, TargetCalls, PruneCalls, FinalizerCalls
    <2> QED
      BY <1>5, <2>2, <2>3, <2>4, Zenon DEF Todos
  <1>7. call.do \in {"findBinding", "claim"}
    BY DEF NameCalls
  <1>8. ASSUME NEW p PROVE ~Drops(Todo(c), p)
    <2>1. Last(<< <<call>> >>) = <<call>>
      BY DEF Last
    <2>2. <<call>> # <<Call("removeFinalizer", p, {})>>
      <3>1. Call("removeFinalizer", p, {}).do = "removeFinalizer"
        BY DEF Call
      <3>2. call # Call("removeFinalizer", p, {})
        BY <1>7, <3>1
      <3>3. PICK a : a = Call("removeFinalizer", p, {})
        OBVIOUS
      <3>4. <<call>>[1] = call /\ <<a>>[1] = a
        OBVIOUS
      <3> QED
        BY <3>2, <3>3, <3>4, Zenon
    <2> QED
      BY <1>6, <2>1, <2>2, Zenon DEF Drops
  <1>9. Todo(c) # << <<Call("ensureFinalizers", None, Needed(c, o))>> >>
    <2>1. Head(Head(<< <<Call("ensureFinalizers", None, Needed(c, o))>> >>)).do = "ensureFinalizers"
      BY DEF Call
    <2>2. Call1(c).do # "ensureFinalizers"
      BY <1>5
    <2> QED
      BY <2>1, <2>2, Zenon DEF Call1
  <1>10. Ahead(c, o, work[c].policies, calls)
    BY <1>4, <1>8, <1>9, Zenon DEF Ahead
  <1> QED
    BY <1>3, <1>4, <1>10, GoesOn, Zenon

\* The finalizers are stored, or there already.
LEMMA EnsureAhead ==
  ASSUME IInv, NEW c \in Owners, NEW x \in KeysOf(c), NEW o, o = Cached(KindOf(c))[x], o # None,
         ~Exact(c, o), Underway(c, x, o), EnsureFinalizers(c)
  PROVE  Underway(c, x, o)' \/ ~Current(KindOf(c), x)'
  <1> DEFINE k == KindOf(c)
             needed == Call1(c).arg
             todo == Todo(c)
  <1>1. /\ work[c] # Idle /\ x = work[c].key /\ work[c].obj = o /\ todo # <<>>
        /\ Call1(c).do = "ensureFinalizers"
        /\ Ahead(c, o, work[c].policies, todo)
    BY Zenon DEF Underway, Todo, EnsureFinalizers, Doing
  <1>2. /\ c \in Controllers \ {"RemoteUserBinding"} /\ k \in Kinds
        /\ o.fins \subseteq PolicyNames(c) /\ o \in ObjectsOf(c)
    BY Owned, Zenon
  <1>3. \/ needed \subseteq o.fins /\ Continue(c, o, Later(todo))
        \/ /\ ~(needed \subseteq o.fins) /\ ~o.deleting
           /\ PutObject(k, x, WithFinalizers(o, o.fins \cup needed))
    BY <1>1, Zenon DEF EnsureFinalizers
  <1>4. /\ needed \in SUBSET PolicyNames(c) /\ todo \in Seq(Groups(c))
    <2>1. Call1(c).do \notin {"findBinding", "claim"}
      BY <1>1
    <2>2. Call1(c) \in Calls(c) /\ todo \in Seq(Groups(c))
      BY <1>1, <1>2, <2>1, NextCallTyped, Zenon
    <2>3. Call1(c) \in Calls(c) \cup NameCalls
      BY <2>2, Zenon
    <2> QED
      BY <1>1, <2>2, <2>3, CallSorts, Zenon
  <1>5. CASE needed \subseteq o.fins /\ Continue(c, o, Later(todo))
    <2>1. ASSUME NEW p, Drops(todo, p) PROVE Drops(Later(todo), p)
      <3>1. Call("removeFinalizer", p, {}).do # "ensureFinalizers"
        BY DEF Call
      <3>2. Head(Head(todo)) # Call("removeFinalizer", p, {})
        BY <1>1, <3>1, Zenon DEF Call1
      <3> QED
        BY <1>1, <1>4, <2>1, <3>2, DropsLater, Zenon
    <2>2. o.deleting \/ Needed(c, o) \subseteq o.fins
      <3>1. CASE todo = << <<Call("ensureFinalizers", None, Needed(c, o))>> >>
        <4>1. PICK n : n = Needed(c, o)
          OBVIOUS
        <4>2. Head(Head(<< <<Call("ensureFinalizers", None, n)>> >>)).arg = n
          BY DEF Call
        <4>3. needed = n
          BY <3>1, <4>1, <4>2, Zenon DEF Call1
        <4> QED
          BY <1>5, <4>1, <4>3, Zenon
      <3> QED
        BY <1>1, <3>1, Zenon DEF Ahead
    <2>3. Ahead(c, o, work[c].policies, Later(todo))
      BY <1>1, <2>1, <2>2, Zenon DEF Ahead
    <2> QED
      BY <1>5, <2>3, GoesOn, Zenon
  <1>6. CASE /\ ~(needed \subseteq o.fins) /\ ~o.deleting
             /\ PutObject(k, x, WithFinalizers(o, o.fins \cup needed))
    <2>1. PICK fins \in SUBSET PolicyNames(c) : fins = o.fins \cup needed
      BY <1>2, <1>4, Zenon
    <2>2. fins # o.fins /\ PutObject(KindOf(c), x, WithFinalizers(o, fins))
      BY <1>6, <2>1, Zenon
    <2>3. /\ WithFinalizers(o, fins).fins = fins
          /\ WithFinalizers(o, fins).deleting = o.deleting
      BY <1>2, <2>1, OwnWrites
    <2>4. Written(o, fins) = WithFinalizers(o, fins)
      BY <1>6, <2>3, Zenon DEF Written
    <2>5. Stored(k)'[x] = Written(o, fins) /\ OnlyAppends
      BY <1>2, <2>1, <2>4, <2>2, OwnWrites
    <2>6. Cached(k)'[x] = o
      BY <1>2, <2>5, Zenon DEF OnlyAppends
    <2>7. Stored(k)'[x] # Cached(k)'[x]
      BY <2>2, <2>3, <2>4, <2>5, <2>6, Zenon
    <2>8. IInv'
      BY <1>1, <1>2, EnsureFinalizersStep, Zenon
    <2> QED
      BY <1>2, <2>7, <2>8, OutOfDate, Zenon
  <1> QED
    BY <1>3, <1>5, <1>6, Zenon

\* A finalizer is dropped, or gone already.
LEMMA RemoveAhead ==
  ASSUME IInv, NEW c \in Owners, NEW x \in KeysOf(c), NEW o, o = Cached(KindOf(c))[x], o # None,
         ~Exact(c, o), Underway(c, x, o), RemoveFinalizer(c)
  PROVE  Underway(c, x, o)' \/ ~Current(KindOf(c), x)'
  <1> DEFINE k == KindOf(c)
             p == Call1(c).on
             todo == Todo(c)
  <1>1. /\ work[c] # Idle /\ x = work[c].key /\ work[c].obj = o /\ todo # <<>>
        /\ Call1(c).do = "removeFinalizer"
        /\ Ahead(c, o, work[c].policies, todo)
    BY Zenon DEF Underway, Todo, RemoveFinalizer, Doing
  <1>2. /\ c \in Controllers \ {"RemoteUserBinding"} /\ k \in Kinds
        /\ o.fins \subseteq PolicyNames(c) /\ o \in ObjectsOf(c)
    BY Owned, Zenon
  <1>3. \/ p \notin o.fins /\ Continue(c, o, Later(todo))
        \/ p \in o.fins /\ PutObject(k, x, Written(o, o.fins \ {p}))
    BY <1>1, Zenon DEF RemoveFinalizer, Written
  <1>4. todo \in Seq(Groups(c))
    <2>1. Call1(c).do \notin {"findBinding", "claim"}
      BY <1>1
    <2> QED
      BY <1>1, <1>2, <2>1, NextCallTyped, Zenon
  <1>5. CASE p \notin o.fins /\ Continue(c, o, Later(todo))
    <2>1. ASSUME NEW q \in Spare(c, o), Drops(todo, q) PROVE Drops(Later(todo), q)
      <3>1. q # p
        BY <1>5, Zenon DEF Spare
      <3>2. Call("removeFinalizer", q, {}).on = q
        BY DEF Call
      <3>3. Head(Head(todo)) # Call("removeFinalizer", q, {})
        BY <3>1, <3>2, Zenon DEF Call1
      <3> QED
        BY <1>1, <1>4, <2>1, <3>3, DropsLater, Zenon
    <2>2. todo # << <<Call("ensureFinalizers", None, Needed(c, o))>> >>
      <3>1. Head(Head(<< <<Call("ensureFinalizers", None, Needed(c, o))>> >>)).do = "ensureFinalizers"
        BY DEF Call
      <3>2. Call1(c).do # "ensureFinalizers"
        BY <1>1
      <3> QED
        BY <3>1, <3>2, Zenon DEF Call1
    <2>3. Ahead(c, o, work[c].policies, Later(todo))
      BY <1>1, <2>1, <2>2, Zenon DEF Ahead
    <2> QED
      BY <1>5, <2>3, GoesOn, Zenon
  <1>6. CASE p \in o.fins /\ PutObject(k, x, Written(o, o.fins \ {p}))
    <2>1. PICK fins \in SUBSET PolicyNames(c) : fins = o.fins \ {p}
      BY <1>2, Zenon
    <2>2. fins # o.fins /\ PutObject(KindOf(c), x, Written(o, fins))
      BY <1>6, <2>1, Zenon
    <2>3. Written(o, fins) = None \/ Written(o, fins).fins = fins
      BY <1>2, <2>1, OwnWrites
    <2>4. Stored(k)'[x] = Written(o, fins) /\ OnlyAppends
      BY <1>2, <2>1, <2>2, OwnWrites
    <2>5. Cached(k)'[x] = o
      BY <1>2, <2>4, Zenon DEF OnlyAppends
    <2>6. Stored(k)'[x] # Cached(k)'[x]
      BY <2>3, <2>4, <2>5, <2>2, Zenon
    <2>7. IInv'
      BY <1>1, <1>2, RemoveFinalizerStep, Zenon
    <2> QED
      BY <1>2, <2>6, <2>7, OutOfDate, Zenon
  <1> QED
    BY <1>3, <1>5, <1>6, Zenon

LEMMA FinKept ==
  ASSUME IInv, NEW c \in Owners, FinInvOf(c), OnlyAppends,
         queue[c] \subseteq queue'[c], work'[c] = work[c]
  PROVE  FinInvOf(c)'
  <1>1. c \in Controllers /\ KindOf(c) \in Kinds
    BY DEF Owners, KindOf, Kinds
  <1>2. Cached(KindOf(c))' = Cached(KindOf(c))
    BY <1>1, Zenon DEF OnlyAppends
  <1>3. \A x : Attended(c, x) => Attended(c, x)'
    BY <1>1, StaysAttended, Zenon
  <1>4. \A x, o : Underway(c, x, o) => Underway(c, x, o)'
    BY Zenon DEF Underway
  <1> QED
    BY <1>2, <1>3, <1>4, Zenon DEF FinInvOf

\* A step of the controller's own worker.
LEMMA StepAhead ==
  ASSUME IInv, NEW c \in Owners, NEW x \in KeysOf(c), NEW o, o = Cached(KindOf(c))[x], o # None,
         ~Exact(c, o), Underway(c, x, o), Step(c)
  PROVE  Underway(c, x, o)' \/ Attended(c, x)'
  <1>1. work[c] # Idle /\ work[c].key = x /\ c \in Controllers \ {"RemoteUserBinding"}
        /\ ObjectKind(c) = KindOf(c)
    BY Owned, Zenon DEF Underway
  <1>2. CASE NextPolicy(c)
    BY <1>2, NextPolicyAhead, Zenon
  <1>3. CASE ReadCache(c)
    <2> DEFINE read == Read(work[c].key, work[c].obj, Call1(c))
    <2>1. /\ Todo(c) # <<>> /\ Call1(c).do \in Reads
          /\ Continue(c, work[c].obj, read \o Later(Todo(c)))
      BY <1>3, Zenon DEF ReadCache
    <2>2. Call1(c).do \notin {"ensureFinalizers", "removeFinalizer", "findBinding", "claim"}
      BY <2>1 DEF Reads
    <2>3. Call1(c).do \notin {"findBinding", "claim"}
      BY <2>2
    <2>4. Call1(c) \in Calls(c)
      BY <1>1, <2>1, <2>3, NextCallTyped, Zenon
    <2>5. read \in Seq(Groups(c))
      BY <2>1, <2>4, ReadCalls, Zenon
    <2> HIDE DEF read
    <2> QED
      BY <2>1, <2>2, <2>5, CallsAhead, Zenon
  <1>4. CASE EnsureFinalizers(c)
    BY <1>1, <1>4, EnsureAhead, Zenon DEF Attended
  <1>5. CASE RemoveFinalizer(c)
    BY <1>1, <1>5, RemoveAhead, Zenon DEF Attended
  <1>6. CASE FindOrCreateBinding(c)
    BY <1>6, FindAhead, Zenon
  <1>7. CASE MutateOrDelete(c) \/ CreateTarget(c) \/ DeleteTarget(c)
    <2>1. /\ Todo(c) # <<>> /\ NextCall(c)
          /\ Call1(c).do \in Mutations \cup {"createTarget", "deleteTarget"}
      BY <1>7, Zenon DEF MutateOrDelete, CreateTarget, DeleteTarget, Doing
    <2>2. Call1(c).do \notin {"ensureFinalizers", "removeFinalizer", "findBinding", "claim"}
      BY <2>1 DEF Mutations
    <2> QED
      BY <2>1, <2>2, NextCallAhead, Zenon
  <1>8. CASE Fail(c)
    <2>1. queue' = [queue EXCEPT ![c] = queue[c] \cup {x}]
      BY <1>1, <1>8, Zenon DEF Fail, Abort
    <2>2. queue = [d \in Controllers |-> queue[d]]
      BY Zenon DEF IInv, QueueInv
    <2>3. queue' = [d \in Controllers |-> IF d = c THEN queue[c] \cup {x} ELSE queue[d]]
      BY <2>1, <2>2, Zenon
    <2>4. x \in queue'[c]
      BY <1>1, <2>3
    <2> QED
      BY <2>4, Zenon DEF Attended
  <1> QED
    BY <1>2, <1>3, <1>4, <1>5, <1>6, <1>7, <1>8, Zenon DEF Step

LEMMA StepFins ==
  ASSUME IInv, NEW c \in Owners, FinInvOf(c), Step(c)
  PROVE  FinInvOf(c)'
  <1>1. c \in Controllers /\ KindOf(c) \in Kinds
    BY DEF Owners, KindOf, Kinds
  <1>2. OnlyAppends /\ queue[c] \subseteq queue'[c]
    BY <1>1, StepOfOne, Zenon
  <1>3. Cached(KindOf(c))' = Cached(KindOf(c))
    BY <1>1, <1>2, Zenon DEF OnlyAppends
  <1>4. \A x : Attended(c, x) => Attended(c, x)'
    BY <1>1, <1>2, StaysAttended, Zenon
  <1>5. ASSUME NEW x \in KeysOf(c), NEW o, o = Cached(KindOf(c))[x], o # None, ~Exact(c, o)
        PROVE  Attended(c, x)' \/ Underway(c, x, o)'
    <2>1. Attended(c, x) \/ Underway(c, x, o)
      BY <1>5, Zenon DEF FinInvOf
    <2> QED
      BY <1>4, <1>5, <2>1, StepAhead, Zenon
  <1> QED
    BY <1>3, <1>5, Zenon DEF FinInvOf

\* A reconcile that starts has the turns of all its policies ahead of it.
LEMMA StartFins ==
  ASSUME IInv, NEW c \in Owners, FinInvOf(c), NEW y \in KeysOf(c), Take(c, y),
         Start(c, y, Cached(KindOf(c))[y]), OnlyAppends
  PROVE  FinInvOf(c)'
  <1>1. c \in Controllers /\ KindOf(c) \in Kinds /\ ObjectKind(c) = KindOf(c)
    BY DEF Owners, ObjectKind, KindOf, Kinds
  <1>2. work[c] = Idle /\ queue'[c] = queue[c] \ {y}
    BY <1>1, TakeTyped, Zenon
  <1>3. Cached(KindOf(c))' = Cached(KindOf(c)) /\ \A x : ~Current(KindOf(c), x) => ~Current(KindOf(c), x)'
    BY <1>1, Zenon DEF OnlyAppends
  <1>4. ASSUME NEW x \in KeysOf(c), NEW o, o = Cached(KindOf(c))[x], o # None, ~Exact(c, o)
        PROVE  Attended(c, x)' \/ Underway(c, x, o)'
    <2>1. CASE x # y
      <3>1. Attended(c, x)
        BY <1>2, <1>4, Zenon DEF FinInvOf, Underway
      <3> QED
        BY <1>1, <1>2, <1>3, <2>1, <3>1, Zenon DEF Attended
    <2>2. CASE x = y
      <3>1. /\ o.fins \subseteq PolicyNames(c) /\ (o.deleting => o.fins # {})
            /\ ToSet(Policies(c)) = PolicyNames(c)
        BY <1>4, Owned, Zenon
      <3>2. work'[c] = Job(x, o, o.deleting, Policies(c), RunPolicies(c, o))
        <4>1. work' = [work EXCEPT ![c] = Job(x, o, o.deleting, Policies(c), RunPolicies(c, o))]
          BY <1>4, <2>2, Zenon DEF Start
        <4>2. PICK j : j = Job(x, o, o.deleting, Policies(c), RunPolicies(c, o))
          OBVIOUS
        <4>3. work = [d \in Controllers |-> work[d]]
          BY Zenon DEF IInv, WorkInv
        <4>4. work' = [d \in Controllers |-> IF d = c THEN j ELSE work[d]]
          BY <4>1, <4>2, <4>3, Zenon
        <4> QED
          BY <1>1, <4>2, <4>4
      <3>3. \A p \in Spare(c, o) : p \in ToSet(Policies(c))
        BY <3>1, Zenon DEF Spare
      <3>4. \/ o.deleting \/ Needed(c, o) \subseteq o.fins
            \/ RunPolicies(c, o) = << <<Call("ensureFinalizers", None, Needed(c, o))>> >>
        BY Zenon DEF RunPolicies
      <3>5. Ahead(c, o, Policies(c), RunPolicies(c, o))
        BY <3>3, <3>4, Zenon DEF Ahead
      <3> QED
        BY <1>4, <3>1, <3>2, <3>5, JobUnderway, Zenon
    <2> QED
      BY <2>1, <2>2
  <1> QED
    BY <1>3, <1>4, Zenon DEF FinInvOf

LEMMA ReconcileFins ==
  ASSUME IInv, NEW c \in Owners, FinInvOf(c), Reconcile(c)
  PROVE  FinInvOf(c)'
  <1>1. c \in Controllers
    BY DEF Owners
  <1>2. OnlyAppends
    BY <1>1, TakeOfOne, Zenon
  <1>3. CASE c = "RemoteUser"
    <2>1. PICK ru \in RemoteUsers : ReconcileRemoteUser(ru)
      BY <1>3, Zenon DEF Reconcile
    <2>2. KindOf(c) = "users" /\ ru \in KeysOf(c)
      BY <1>3, KeysOfEach DEF KindOf
    <2>3. Take(c, ru) /\ Start(c, ru, Cached(KindOf(c))[ru])
      BY <1>3, <2>1, <2>2, Zenon DEF ReconcileRemoteUser
    <2> QED
      BY <1>2, <2>2, <2>3, StartFins, Zenon
  <1>4. CASE c # "RemoteUser"
    <2>1. c \in {"RemoteSyncer", "ClusterWideRemoteSyncer"} /\ KindOf(c) = "syncers"
      BY <1>4 DEF Owners, Controllers, KindOf
    <2>2. PICK s \in Syncers : ReconcileSyncer(c, s)
      BY <2>1 DEF Reconcile
    <2>3. Take(c, s) /\ Start(c, s, Cached(KindOf(c))[s])
      BY <2>1, <2>2, Zenon DEF ReconcileSyncer
    <2>4. s \in KeysOf(c)
      BY <1>1, <2>3, TakeTyped, Zenon
    <2> QED
      BY <1>2, <2>3, <2>4, StartFins, Zenon
  <1> QED
    BY <1>3, <1>4

LEMMA DeliverFins ==
  ASSUME IInv, NEW c \in Owners, FinInvOf(c), NEW k \in Kinds, Deliver(k)
  PROVE  FinInvOf(c)'
  <1>1. c \in Controllers /\ ObjectKind(c) = KindOf(c)
    BY DEF Owners, ObjectKind
  <1>2. work' = work
    BY DeliverStep, Zenon
  <1>3. \A x, o : Underway(c, x, o) => Underway(c, x, o)'
    BY <1>2, Zenon DEF Underway
  <1>4. \A x \in KeysOf(c) :
          /\ Attended(c, x) => Attended(c, x)'
          /\ Attended(c, x)' \/ Cached(KindOf(c))'[x] = Cached(KindOf(c))[x]
    BY <1>1, DeliverAttends, Zenon
  <1> QED
    BY <1>3, <1>4, Zenon DEF FinInvOf

LEMMA RestartFins ==
  ASSUME IInv, NEW c \in Owners, Restart
  PROVE  FinInvOf(c)'
  <1>1. c \in Controllers /\ ObjectKind(c) = KindOf(c)
    BY DEF Owners, ObjectKind
  <1>2. \A x \in KeysOf(c) : Cached(KindOf(c))'[x] # None => x \in queue'[c]
    BY <1>1, RestartStep, Zenon
  <1> QED
    BY <1>2, Zenon DEF FinInvOf, Attended
---------------------------------------------------------------------------
(* The invariants together.                                                *)

LEMMA InitialStates ==
  ASSUME Init
  PROVE  IInv /\ HealInv /\ StatusInv /\ FinInv
  <1> DEFINE s == [k \in Kinds |-> InitialState(k)]
             bs == [b \in Names |-> IF b \in OwnBindings THEN NewBinding(FALSE, {}) ELSE None]
  <1>1. /\ InitialState("users") = [ru \in RemoteUsers |-> None]
        /\ InitialState("bindings") = bs
        /\ InitialState("targets") = {}
        /\ InitialState("syncers") = [x \in Syncers |-> None]
        /\ InitialState("secrets") = "NotFound"
    BY Zenon DEF InitialState
  <1>2. NewBinding(FALSE, {}) \in BindingObjects
    BY NewBindingTyped
  <1>3. /\ InitialState("users") \in States("users") /\ InitialState("bindings") \in States("bindings")
        /\ InitialState("targets") \in States("targets") /\ InitialState("syncers") \in States("syncers")
        /\ InitialState("secrets") \in States("secrets")
    <2>1. InitialState("users") \in States("users") /\ InitialState("syncers") \in States("syncers")
      BY <1>1, StatesOf
    <2>2. bs \in [Names -> BindingObjects \cup {None}]
      BY <1>2
    <2>3. InitialState("bindings") \in States("bindings")
      BY <1>1, <2>2, StatesOf, Zenon
    <2>4. InitialState("targets") \in States("targets") /\ InitialState("secrets") \in States("secrets")
      BY <1>1, StatesOf, PoliciesAssumption
    <2> QED
      BY <2>1, <2>3, <2>4, Zenon
  <1>4. \A k \in Kinds : s[k] = InitialState(k) /\ s[k] \in States(k)
    BY <1>3 DEF Kinds
  <1>5. store = [k \in Kinds |-> <<s[k]>>] /\ s \in [Kinds -> UNION {States(k) : k \in Kinds}]
    BY <1>4 DEF Init
  <1> HIDE DEF s
  <1>6. /\ store = [k \in Kinds |-> store[k]]
        /\ \A k \in Kinds : store[k] \in Seq(States(k)) \ {<<>>} /\ Head(store[k]) = s[k]
        /\ LagIn(store) = 0
    BY <1>4, <1>5, OneVersion
  <1>7. StoreInv
    <2>1. Lag = 0
      BY <1>6, Zenon DEF Lag, LagIn
    <2>2. Lag \in 0 .. MaxLag
      BY <2>1, PoliciesAssumption
    <2> QED
      BY <1>6, <2>2, Zenon DEF StoreInv
  <1>8. QueueInv /\ WorkInv
    <2>1. /\ queue = [c \in Controllers |-> queue[c]] /\ \A c \in Controllers : queue[c] = {}
          /\ work = [c \in Controllers |-> work[c]] /\ \A c \in Controllers : work[c] = Idle
      BY DEF Init
    <2> QED
      BY <2>1, Zenon DEF QueueInv, WorkInv, Controllers
  <1>9. \A b \in Names, ru \in RemoteUsers : ~Dangling(b, ru)
    <2>1. Cached("bindings") = bs
      BY <1>1, <1>4, <1>6, Zenon DEF Cached, Kinds
    <2>2. NewBinding(FALSE, {}).managed = FALSE
      BY DEF NewBinding
    <2>3. \A b \in Names : bs[b] = None \/ bs[b] = NewBinding(FALSE, {})
      BY Zenon
    <2> QED
      BY <2>1, <2>2, <2>3, Zenon DEF Dangling
  <1>10. StatusInv
    <2>1. Cached("users") = [ru \in RemoteUsers |-> None] /\ Cached("bindings") = bs
      BY <1>1, <1>4, <1>6, Zenon DEF Cached, Kinds
    <2>2. \A ru \in RemoteUsers : ~StaleUser(ru)
      BY <2>1 DEF StaleUser
    <2>3. ASSUME NEW b \in Names, Cached("bindings")[b] # None
          PROVE  /\ Cached("bindings")[b].remoteUserRefs = {}
                 /\ Cached("bindings")[b].bound = {} /\ Cached("bindings")[b].notBound = {}
      <3>1. Cached("bindings")[b] = NewBinding(FALSE, {})
        BY <2>1, <2>3, Zenon
      <3>2. /\ NewBinding(FALSE, {}).remoteUserRefs = {}
            /\ NewBinding(FALSE, {}).bound = {} /\ NewBinding(FALSE, {}).notBound = {}
        BY DEF NewBinding
      <3> QED
        BY <3>1, <3>2, Zenon
    <2>4. \A b \in Names : ~StaleBinding(b)
      BY <2>3 DEF StaleBinding, Gone
    <2> QED
      BY <2>2, <2>4, Zenon DEF StatusInv
  <1>11. FinInv
    <2>1. Cached("users") = [ru \in RemoteUsers |-> None] /\ Cached("syncers") = [x \in Syncers |-> None]
      BY <1>1, <1>4, <1>6, Zenon DEF Cached, Kinds
    <2>2. ASSUME NEW c \in Owners, NEW x \in KeysOf(c) PROVE Cached(KindOf(c))[x] = None
      <3>1. CASE c = "RemoteUser"
        BY <2>1, <3>1, KeysOfEach DEF KindOf
      <3>2. CASE c # "RemoteUser"
        <4>1. x \in Syncers /\ KindOf(c) = "syncers"
          BY <3>2, KeysOfEach DEF KindOf, Owners, Controllers, Syncers
        <4> QED
          BY <2>1, <4>1
      <3> QED
        BY <3>1, <3>2
    <2> QED
      BY <2>2, Zenon DEF FinInv, FinInvOf
  <1> QED
    BY <1>7, <1>8, <1>9, <1>10, <1>11, Zenon DEF IInv, HealInv

LEMMA NextStep ==
  ASSUME IInv, HealInv, [Next]_vars
  PROVE  IInv' /\ HealInv'
  <1>1. ASSUME NEW c \in Controllers, Step(c) PROVE IInv' /\ HealInv'
    <2>1. CASE c = "RemoteUserBinding"
      BY <1>1, <2>1, BindingStepHeals, Zenon
    <2>2. CASE c # "RemoteUserBinding"
      BY <1>1, <2>2, WorkerStep, QuietHeals, Zenon
    <2> QED
      BY <2>1, <2>2
  <1>2. ASSUME NEW c \in Controllers, Reconcile(c) PROVE IInv' /\ HealInv'
    <2>1. ASSUME NEW ru \in RemoteUsers, ReconcileRemoteUser(ru) PROVE IInv' /\ HealInv'
      BY <2>1, ReconcileRemoteUserStep, QuietHeals, Zenon
    <2>2. ASSUME NEW b \in Names, ReconcileBinding(b) PROVE IInv' /\ HealInv'
      BY <2>2, ReconcileBindingHeals, Zenon
    <2>3. ASSUME c \in {"RemoteSyncer", "ClusterWideRemoteSyncer"}, NEW x \in Syncers, ReconcileSyncer(c, x)
          PROVE  IInv' /\ HealInv'
      BY <2>3, ReconcileSyncerStep, QuietHeals, Zenon
    <2> QED
      BY <1>2, <2>1, <2>2, <2>3, Zenon DEF Reconcile
  <1>3. ASSUME NEW k \in Kinds, Deliver(k) PROVE IInv' /\ HealInv'
    BY <1>3, DeliverHeals, Zenon
  <1>4. ASSUME NEW ru \in RemoteUsers, ChangeUser(ru) PROVE IInv' /\ HealInv'
    BY <1>4, ChangeUserStep, QuietHeals, Zenon
  <1>5. ASSUME NEW x \in Syncers, ChangeSyncer(x) PROVE IInv' /\ HealInv'
    BY <1>5, ChangeSyncerStep, QuietHeals, Zenon
  <1>6. CASE ChangeSecret
    BY <1>6, ChangeSecretStep, QuietHeals, Zenon
  <1>7. CASE Restart
    BY <1>7, RestartStep, Zenon
  <1>8. CASE UNCHANGED vars
    <2>1. store' = store /\ queue' = queue /\ work' = work
      BY <1>8 DEF vars
    <2>2. StoreInv' /\ OnlyAppends
      BY <2>1, SameStore, Zenon
    <2>3. WorkInv'
      BY <2>1, Zenon DEF IInv, WorkInv
    <2> QED
      BY <2>1, <2>2, <2>3, StepDone, QuietHeals, Zenon
  <1> QED
    BY <1>1, <1>2, <1>3, <1>4, <1>5, <1>6, <1>7, <1>8, Zenon DEF Next

\* What people do changes the store only.
LEMMA PeopleStep ==
  ASSUME IInv,
         \/ \E ru \in RemoteUsers : ChangeUser(ru)
         \/ \E x \in Syncers : ChangeSyncer(x)
         \/ ChangeSecret
         \/ UNCHANGED vars
  PROVE  OnlyAppends /\ UNCHANGED <<queue, work>>
  <1>1. ASSUME NEW ru \in RemoteUsers, ChangeUser(ru) PROVE OnlyAppends /\ UNCHANGED <<queue, work>>
    <2>1. UNCHANGED <<queue, work>>
      BY <1>1, Zenon DEF ChangeUser, SetUser, Change
    <2> QED
      BY <1>1, <2>1, ChangeUserStep, Zenon DEF Quiet
  <1>2. ASSUME NEW x \in Syncers, ChangeSyncer(x) PROVE OnlyAppends /\ UNCHANGED <<queue, work>>
    <2>1. UNCHANGED <<queue, work>>
      BY <1>2, Zenon DEF ChangeSyncer, SetSyncer, Change
    <2> QED
      BY <1>2, <2>1, ChangeSyncerStep, Zenon DEF Quiet
  <1>3. CASE ChangeSecret
    <2>1. UNCHANGED <<queue, work>>
      BY <1>3, Zenon DEF ChangeSecret, Change
    <2> QED
      BY <1>3, <2>1, ChangeSecretStep, Zenon DEF Quiet
  <1>4. CASE UNCHANGED vars
    <2>1. UNCHANGED store /\ UNCHANGED <<queue, work>>
      BY <1>4, Zenon DEF vars
    <2> QED
      BY <2>1, SameStore, Zenon
  <1> QED
    BY <1>1, <1>2, <1>3, <1>4, Zenon

LEMMA NextStatus ==
  ASSUME IInv, StatusInv, [Next]_vars
  PROVE  StatusInv'
  <1>1. "RemoteUser" \in Controllers /\ "RemoteUserBinding" \in Controllers
    BY DEF Controllers
  <1>2. ASSUME NEW d \in Controllers, Step(d) PROVE StatusInv'
    <2>1. \A c \in Controllers : queue[c] \subseteq queue'[c]
      BY <1>2, StepOfOne, Zenon
    <2> QED
      BY <1>1, <1>2, <2>1, StepOfOne, StatusKept, Zenon
  <1>3. ASSUME NEW d \in Controllers, Reconcile(d) PROVE StatusInv'
    <2>1. CASE d = "RemoteUser"
      <3>1. PICK ru \in RemoteUsers : ReconcileRemoteUser(ru)
        BY <1>3, <2>1, Zenon DEF Reconcile
      <3> QED
        BY <3>1, RemoteUserStatus, Zenon
    <2>2. CASE d = "RemoteUserBinding"
      <3>1. PICK b \in Names : ReconcileBinding(b)
        BY <1>3, <2>2 DEF Reconcile
      <3> QED
        BY <3>1, BindingStatus, Zenon
    <2>3. CASE d \notin {"RemoteUser", "RemoteUserBinding"}
      <3>1. OnlyAppends /\ \A c \in Controllers \ {d} : queue'[c] = queue[c]
        BY <1>3, TakeOfOne, Zenon
      <3>2. /\ queue["RemoteUser"] \subseteq queue'["RemoteUser"]
            /\ queue["RemoteUserBinding"] \subseteq queue'["RemoteUserBinding"]
        BY <1>1, <2>3, <3>1, Zenon
      <3> QED
        BY <3>1, <3>2, StatusKept, Zenon
    <2> QED
      BY <2>1, <2>2, <2>3
  <1>4. ASSUME NEW k \in Kinds, Deliver(k) PROVE StatusInv'
    BY <1>4, DeliverStatus, Zenon
  <1>5. CASE Restart
    BY <1>5, RestartStatus, Zenon
  <1>6. CASE \/ \E ru \in RemoteUsers : ChangeUser(ru)
             \/ \E x \in Syncers : ChangeSyncer(x)
             \/ ChangeSecret
             \/ UNCHANGED vars
    <2>1. OnlyAppends /\ UNCHANGED <<queue, work>>
      BY <1>6, PeopleStep, Zenon
    <2> QED
      BY <2>1, StatusKept, Zenon
  <1> QED
    BY <1>2, <1>3, <1>4, <1>5, <1>6, Zenon DEF Next

LEMMA NextFins ==
  ASSUME IInv, FinInv, [Next]_vars
  PROVE  FinInv'
  <1> SUFFICES ASSUME NEW c \in Owners PROVE FinInvOf(c)'
    BY Zenon DEF FinInv
  <1>1. FinInvOf(c) /\ c \in Controllers
    BY DEF FinInv, Owners
  <1>2. ASSUME NEW d \in Controllers, Step(d) PROVE FinInvOf(c)'
    <2>1. CASE d = c
      BY <1>1, <1>2, <2>1, StepFins, Zenon
    <2>2. CASE d # c
      <3>1. OnlyAppends /\ queue'[c] = queue[c] /\ work'[c] = work[c]
        BY <1>1, <1>2, <2>2, StepOfOne, Zenon
      <3> QED
        BY <1>1, <3>1, FinKept, Zenon
    <2> QED
      BY <2>1, <2>2
  <1>3. ASSUME NEW d \in Controllers, Reconcile(d) PROVE FinInvOf(c)'
    <2>1. CASE d = c
      BY <1>1, <1>3, <2>1, ReconcileFins, Zenon
    <2>2. CASE d # c
      <3>1. OnlyAppends /\ queue'[c] = queue[c] /\ work'[c] = work[c]
        BY <1>1, <1>3, <2>2, TakeOfOne, Zenon
      <3> QED
        BY <1>1, <3>1, FinKept, Zenon
    <2> QED
      BY <2>1, <2>2
  <1>4. ASSUME NEW k \in Kinds, Deliver(k) PROVE FinInvOf(c)'
    BY <1>1, <1>4, DeliverFins, Zenon
  <1>5. CASE Restart
    BY <1>5, RestartFins, Zenon
  <1>6. CASE \/ \E ru \in RemoteUsers : ChangeUser(ru)
             \/ \E x \in Syncers : ChangeSyncer(x)
             \/ ChangeSecret
             \/ UNCHANGED vars
    <2>1. OnlyAppends /\ UNCHANGED <<queue, work>>
      BY <1>6, PeopleStep, Zenon
    <2> QED
      BY <1>1, <2>1, FinKept, Zenon
  <1> QED
    BY <1>2, <1>3, <1>4, <1>5, <1>6, Zenon DEF Next

Inv == IInv /\ HealInv /\ StatusInv /\ FinInv

LEMMA Inductive ==
  /\ Init => Inv
  /\ Inv /\ [Next]_vars => Inv'
  BY InitialStates, NextStep, NextStatus, NextFins, Zenon DEF Inv

\* At rest, what is cached is what is stored and nothing is going to be looked
\* at.
LEMMA AtRest ==
  ASSUME IInv, Settled
  PROVE  /\ \A k \in Kinds : Cached(k) = Stored(k)
         /\ \A c \in Controllers : work[c] = Idle /\ \A x : ~Attended(c, x)
  <1>1. \A k \in Kinds : Len(store[k]) = 1
    BY Zenon DEF Settled
  <1>2. \A k \in Kinds : Cached(k) = Stored(k)
    BY <1>1, Views, Zenon
  <1>3. ASSUME NEW k \in Kinds, NEW x PROVE Current(k, x)
    <2>1. store[k] \in Seq(States(k)) /\ Len(store[k]) = 1 /\ Cached(k) = store[k][1]
      BY <1>1, Views, Zenon
    <2>2. DOMAIN store[k] = {1}
      BY <2>1
    <2> QED
      BY <2>1, <2>2, Zenon DEF Current
  <1>4. \A c \in Controllers : queue[c] = {} /\ work[c] = Idle /\ ObjectKind(c) \in Kinds
    BY DEF Settled, ObjectKind, KindOf, Kinds
  <1> QED
    BY <1>2, <1>3, <1>4, Zenon DEF Attended

LEMMA NoneDangling ==
  ASSUME IInv, HealInv, Settled, NEW b \in Names, NEW ru \in RemoteUsers
  PROVE  ~Dangling(b, ru)
  <1>1. "RemoteUserBinding" \in Controllers /\ ObjectKind("RemoteUserBinding") = "bindings"
    BY DEF Controllers, ObjectKind
  <1>2. work["RemoteUserBinding"] = Idle /\ ~Attended("RemoteUserBinding", b)
    BY <1>1, AtRest, Zenon
  <1> QED
    BY <1>1, <1>2, Zenon DEF HealInv, Attended, Pruning

LEMMA SettledExact ==
  ASSUME IInv, FinInv
  PROVE  FinalizersExact
  <1> SUFFICES ASSUME Settled, NEW c \in Owners,
                      NEW x \in Live(KindOf(c), Stored(KindOf(c))) \cap KeysOf(c)
               PROVE  Exact(c, Stored(KindOf(c))[x])
    BY Zenon DEF FinalizersExact, Owners, Exact
  <1>1. c \in Controllers /\ KindOf(c) \in Kinds
    BY DEF Owners, KindOf, Kinds
  <1>2. Cached(KindOf(c)) = Stored(KindOf(c)) /\ work[c] = Idle /\ ~Attended(c, x)
    BY <1>1, AtRest, Zenon
  <1>3. x \in KeysOf(c) /\ Stored(KindOf(c))[x] # None
    BY DEF Live
  <1> QED
    BY <1>2, <1>3, Zenon DEF FinInv, FinInvOf, Underway

\* Every version the API server holds and the caches show is of its kind, the
\* caches never miss more than MaxLag writes, and each work queue holds keys of
\* its own controller only, however the calls of the controllers interleave
\* with the events, the changes of users and the restarts of the manager.
THEOREM PolicyTypes == Spec => []TypeOK
  <1>1. Inv => TypeOK
    BY Zenon DEF Inv, IInv, StoreInv, QueueInv, TypeOK
  <1> QED
    BY <1>1, Inductive, PTL DEF Spec

\* No dead reference is left behind: whenever every cache is up to date, every
\* queue empty and every worker idle, the managed bindings refer to existing
\* RemoteUsers only.  The RemoteUserBinding controller prunes what reads as
\* missing, its failed writes are retried, and an event of a RemoteUser wakes
\* the bindings that refer to it.
THEOREM DeadReferencesArePruned == Spec => []SelfHealing
  <1>1. Inv => SelfHealing
    <2> SUFFICES ASSUME IInv, HealInv, Settled,
                        NEW b \in ManagedBindings(Stored("bindings")),
                        NEW ru \in Stored("bindings")[b].remoteUserRefs
                 PROVE  ru \in Live("users", Stored("users"))
      BY Zenon DEF SelfHealing, Inv
    <2>1. b \in Names /\ ru \in RemoteUsers /\ ~Dangling(b, ru)
      <3>1. b \in Names /\ Stored("bindings")[b] \in BindingObjects
        BY StoredViews DEF ManagedBindings, Live
      <3>2. ru \in RemoteUsers
        BY <3>1, BindingObjectWrites, Zenon
      <3> QED
        BY <3>1, <3>2, NoneDangling, Zenon
    <2>2. Stored("bindings")[b] # None /\ Stored("bindings")[b].managed
      BY DEF ManagedBindings, Live
    <2>3. Cached("bindings") = Stored("bindings") /\ Cached("users") = Stored("users")
      BY AtRest, Zenon DEF Kinds
    <2>4. Stored("users")[ru] # None
      BY <2>1, <2>2, <2>3, Zenon DEF Dangling
    <2> QED
      BY <2>1, <2>4, StoredViews DEF Live
  <1> QED
    BY <1>1, Inductive, PTL DEF Spec

\* Once everything has settled, every object has exactly the finalizers of the
\* policies that apply to it and no deletion is pending, although a reconcile
\* may be cut short by a conflict, a failed cleanup or a restart, and works on
\* a copy that may be out of date: what is wrong with an object is seen to by
\* the reconcile in progress, or the object is looked at again.
THEOREM FinalizersAreExact == Spec => []FinalizersExact
  <1>1. Inv => FinalizersExact
    BY SettledExact, Zenon DEF Inv
  <1> QED
    BY <1>1, Inductive, PTL DEF Spec

\* Once everything has settled, every status tells what its object's Secret or
\* references are like: an update dropped because of a conflict is made up for
\* by the event of the write it was in conflict with, and an event of the
\* Secret or of a RemoteUser wakes every object whose status it may change.
THEOREM StatusesAreCurrent == Spec => []StatusesCurrent
  <1>1. Inv => StatusesCurrent
    <2> SUFFICES ASSUME IInv, HealInv, StatusInv, FinInv, Settled
                 PROVE  /\ \A ru \in Live("users", Stored("users")) :
                             Stored("users")[ru].status = Stored("secrets")
                        /\ \A b \in Live("bindings", Stored("bindings")) :
                             LET o    == Stored("bindings")[b]
                                 live == Live("users", Stored("users"))
                             IN o.bound = o.remoteUserRefs \cap live /\ o.notBound = o.remoteUserRefs \ live
      BY Zenon DEF StatusesCurrent, Inv
    <2>1. /\ Cached("users") = Stored("users") /\ Cached("bindings") = Stored("bindings")
          /\ Cached("secrets") = Stored("secrets")
      BY AtRest, Zenon DEF Kinds
    <2>2. ASSUME NEW ru \in Live("users", Stored("users"))
          PROVE  Stored("users")[ru].status = Stored("secrets")
      <3>1. ru \in RemoteUsers /\ Stored("users")[ru] # None
        BY StoredViews DEF Live
      <3>2. ~StaleUser(ru)
        BY <3>1, AtRest, Zenon DEF StatusInv, Controllers
      <3>3. ~Stored("users")[ru].deleting
        <4>1. "RemoteUser" \in Controllers \ {"RemoteUserBinding"} /\ KindOf("RemoteUser") = "users"
          BY DEF Controllers, KindOf
        <4>2. ru \in Live("users", Stored("users")) \cap KeysOf("RemoteUser")
          BY <3>1, KeysOfEach, Zenon
        <4> QED
          BY <4>1, <4>2, SettledExact, Zenon DEF FinalizersExact
      <3> QED
        BY <2>1, <3>1, <3>2, <3>3, Zenon DEF StaleUser
    <2>3. ASSUME NEW b \in Live("bindings", Stored("bindings"))
          PROVE  LET o    == Stored("bindings")[b]
                     live == Live("users", Stored("users"))
                 IN o.bound = o.remoteUserRefs \cap live /\ o.notBound = o.remoteUserRefs \ live
      <3> DEFINE o == Stored("bindings")[b]
                 live == Live("users", Stored("users"))
      <3>1. b \in Names /\ o # None
        BY StoredViews DEF Live
      <3>2. o.remoteUserRefs \subseteq RemoteUsers
        BY <3>1, StoredViews, BindingObjectWrites, Zenon
      <3>3. ~StaleBinding(b)
        BY <3>1, NoneDangling, AtRest, Zenon DEF StatusInv, Controllers
      <3>4. Gone(b) = o.remoteUserRefs \ live
        <4>1. \A ru \in RemoteUsers : ru \in live <=> Stored("users")[ru] # None
          BY StoredViews DEF Live
        <4> HIDE DEF live
        <4>2. Gone(b) = {ru \in o.remoteUserRefs : Stored("users")[ru] = None}
          BY <2>1, Zenon DEF Gone
        <4> QED
          BY <3>2, <4>1, <4>2, Zenon
      <3>5. o.bound = o.remoteUserRefs \ Gone(b) /\ o.notBound = Gone(b)
        BY <2>1, <3>1, <3>3, Zenon DEF StaleBinding
      <3> HIDE DEF o, live
      <3>6. o.remoteUserRefs \ (o.remoteUserRefs \ live) = o.remoteUserRefs \cap live
        OBVIOUS
      <3> QED
        BY <3>4, <3>5, <3>6, Zenon DEF o, live
    <2> QED
      BY <2>2, <2>3, Zenon
  <1> QED
    BY <1>1, Inductive, PTL DEF Spec
=============================================================================
