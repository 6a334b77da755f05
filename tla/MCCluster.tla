------------------------------ MODULE MCCluster ------------------------------
(* Instances of ClusterController for TLC. *)
EXTENDS ClusterController, TLC

CONSTANTS c1, c2, w1, w2, s1, s2

OneCluster  == {c1}
TwoClusters == {c1, c2}
OneWorker   == {w1}
TwoWorkers  == {w1, w2}
OneSlot     == {s1}
TwoSlots    == {s1, s2}
Symmetry    == Permutations(Slots) \cup Permutations(Workers) \cup Permutations(Clusters)
=============================================================================
