------------------------- MODULE MCDaemonLifecycle -------------------------
(* DaemonLifecycle on small instances. *)
EXTENDS DaemonLifecycle, TLC

Symmetry == Permutations(Ids) \cup Permutations(Conns)
=============================================================================
