--------------------------- MODULE MCInterception ---------------------------
(* Instances of Interception.                                              *)
EXTENDS Interception

SyncerSpec(strategy, behavior, oneTarget, retryNumber) ==
    [strategy |-> strategy, pushErrorBehavior |-> behavior,
     bypassAllServiceAccounts |-> FALSE, oneTarget |-> oneTarget,
     urlParses |-> TRUE, pushErrorRetryNumber |-> retryNumber]

CommitApplySpec == SyncerSpec("CommitApply", "Block", FALSE, 1)

\* Both strategies, both reactions to a failed push, with and without
\* retries, ServiceAccounts let through, and a repository URL that is none.
VariedSpecs ==
    {CommitApplySpec,
     SyncerSpec("CommitApply", "Pass", FALSE, 0),
     SyncerSpec("CommitOnly", "Pass", TRUE, 0),
     [SyncerSpec("CommitOnly", "Block", TRUE, 1) EXCEPT !.bypassAllServiceAccounts = TRUE],
     [CommitApplySpec EXCEPT !.urlParses = FALSE]}

CommitApplySpecs == {CommitApplySpec}

Symmetry ==
    {f @@ g @@ h : f \in Permutations(Requests), g \in Permutations(Targets),
                   h \in Permutations(Manifests)}
=============================================================================
