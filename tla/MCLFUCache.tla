----------------------------- MODULE MCLFUCache -----------------------------
(* Four keys against capacities 1, 2 and 3 and the nil cache (0 and less): *)
(* every insertion into a full cache evicts; a cap of 4 makes aging and    *)
(* equal counters frequent.                                                *)
EXTENDS LFUCache

MCCapacities == {-1, 0, 1, 2, 3}
=============================================================================
