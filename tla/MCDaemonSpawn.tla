--------------------------- MODULE MCDaemonSpawn ---------------------------
(* DaemonSpawn on small instances. *)
EXTENDS DaemonSpawn, TLC

Symmetry == Permutations(Ids) \cup Permutations(Conns)
=============================================================================
