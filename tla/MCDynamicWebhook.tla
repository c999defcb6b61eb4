-------------------------- MODULE MCDynamicWebhook --------------------------
(* Instances of DynamicWebhook.                                            *)
EXTENDS DynamicWebhook

Namespaced(namespace, name) ==
    [kind |-> "RemoteSyncer", namespace |-> namespace, name |-> name]

ClusterWide(name) ==
    [kind |-> "ClusterWideRemoteSyncer", namespace |-> "", name |-> name]

\* One syncer of each kind, with the same name.
OneOfEach == {Namespaced("ns", "x"), ClusterWide("x")}

OneNamespaced == {Namespaced("ns", "x")}

\* Two values of the compared fields, with and without an object selector.
ComparedSpecs ==
    {[compared |-> 1, selector |-> TRUE], [compared |-> 2, selector |-> FALSE]}

OneSpec == {[compared |-> 1, selector |-> TRUE]}
=============================================================================
