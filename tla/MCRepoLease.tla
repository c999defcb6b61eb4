---------------------------- MODULE MCRepoLease ----------------------------
(* Instances of RepoLease.  The pools of handles and repositories are as   *)
(* large as the references to them can be at once: two leases per          *)
(* pipeline and the cached entries, plus one repository for a re-clone.    *)
EXTENDS RepoLease

Target(target, upstream, merge) ==
    [targetRepository |-> target, upstreamRepository |-> upstream,
     upstreamBranch |-> "main", merges |-> merge]

\* A target on another branch of its upstream a, and one that merges b into
\* a: whoever needs both repositories locks a before b.
OrderedTargets == {Target("a", "a", TRUE), Target("a", "b", TRUE)}

\* Two targets that are each other's upstream.
SwappedTargets == {Target("a", "b", TRUE), Target("b", "a", TRUE)}
=============================================================================
