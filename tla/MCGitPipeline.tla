---------------------------- MODULE MCGitPipeline ----------------------------
(* Instances of GitPipeline.                                               *)
EXTENDS GitPipeline

\* A Helm release Secret stands for chart values and a HelmRelease.
ObjectFiles ==
  [o \in Objects |-> [sel \in Objects |->
     CASE sel = "secret" -> "secret.yaml"
       [] sel = "values" -> "values.yaml"
       [] sel = "release" -> "release.yaml"]]

HelmArtifacts == [o \in Objects |-> {"values", "release"}]

Target(repo, branch, strategy) == [repo |-> repo, branch |-> branch, strategy |-> strategy]

\* The upstream branch itself, another branch of it, and two of a fork.
VariedTargets ==
  {Target("up", "main", ""),
   Target("up", "feature", "TryFastForwardOrHardReset"),
   Target("fork", "main", "TryFastForwardOrDie"),
   Target("fork", "feature", "TryHardResetOrDie")}

UpstreamOnly == {Target("up", "main", "")}
=============================================================================
