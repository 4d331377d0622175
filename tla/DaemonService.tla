--------------------------- MODULE DaemonService ---------------------------
(***************************************************************************)
(* What the daemon promises of pane ids, however its threads interleave    *)
(* and wherever it dies: an id is free, or one spawn of it is under way,   *)
(* or it has a pane, or that pane is being taken away; a spawn starts only *)
(* on a free id, and an id whose pane is going is not free before the      *)
(* clean-up is over.  DaemonSpawn implements it, and the app of module     *)
(* PaneOwnership talks to any daemon that does.                            *)
(***************************************************************************)
CONSTANT Served  \* pane ids

VARIABLES
  live,      \* ids with a pane
  starting,  \* ids with a spawn under way
  ending     \* ids whose pane, if there was one, is being cleaned up after

serviceVars == <<live, starting, ending>>

ServiceInit == live = {} /\ starting = {} /\ ending = {}

Free(id) == id \notin live \cup starting \cup ending

Claim(id) ==
  /\ Free(id)
  /\ starting' = starting \cup {id}
  /\ UNCHANGED <<live, ending>>

Land(id) ==
  /\ id \in starting
  /\ starting' = starting \ {id} /\ live' = live \cup {id}
  /\ UNCHANGED ending

\* The spawn fails.
Refuse(id) ==
  /\ id \in starting
  /\ starting' = starting \ {id}
  /\ UNCHANGED <<live, ending>>

Remove(id) ==
  /\ id \in live
  /\ live' = live \ {id} /\ ending' = ending \cup {id}
  /\ UNCHANGED starting

\* A close, or the reaper, finds no pane.
Visit(id) ==
  /\ Free(id)
  /\ ending' = ending \cup {id}
  /\ UNCHANGED <<live, starting>>

Release(id) ==
  /\ id \in ending
  /\ ending' = ending \ {id}
  /\ UNCHANGED <<live, starting>>

\* The daemon dies with all it knew.
Die == live' = {} /\ starting' = {} /\ ending' = {}

ServiceNext ==
  \/ \E id \in Served :
       \/ Claim(id) \/ Land(id) \/ Refuse(id)
       \/ Remove(id) \/ Visit(id) \/ Release(id)
  \/ Die

ServiceSpec == ServiceInit /\ [][ServiceNext]_serviceVars
=============================================================================
