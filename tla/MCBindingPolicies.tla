------------------------- MODULE MCBindingPolicies -------------------------
(* Instances of BindingPolicies for TLC. *)
EXTENDS BindingPolicies

CONSTANTS u, ru1, ru2, rs, cw, b1

MCUserOf == [x \in RemoteUsers |-> u]
MCUpstreamOf == [s \in Syncers |-> "up"]
MCAnnotations == {<<{b1}, TRUE>>, <<{}, FALSE>>}
MCOwnBindings == {[user |-> u, n |-> 0]}

\* Nothing tells the two RemoteUsers of the user apart, and no loop goes over
\* RemoteUsers in a fixed order.
RemoteUserSymmetry == Permutations(RemoteUsers)
=============================================================================
