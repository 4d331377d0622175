---------------------------- MODULE MCPaneStream ----------------------------
(* PaneStream on small instances: characters of one, two and three bytes. *)
EXTENDS PaneStream, TLC

MCLeads == {0, 1, 4, 6, 7, 8, 10, 13}

\* Bound: a connection breaks by itself only in the stream's first four bytes,
\* so that one run has both breaks and, without one, a compaction.
EarlyBreaks == breaks' > 0 => End(buffer') <= 4
MCFairSpec == Init /\ [][Next /\ EarlyBreaks]_vars /\ Fairness

Symmetry == Permutations(Conns)
=============================================================================
