---------------------------- MODULE MCAppProgress ----------------------------
(***************************************************************************)
(* Writes to a pane, delegated runs and the admission queue, which share   *)
(* no state, under the fairness of their threads.  A behaviour keeps to    *)
(* one part.                                                               *)
(***************************************************************************)
EXTENDS PaneInput, Delegation, AppPane
VARIABLE part
progressvars == <<inputvars, delvars, vars, part>>

MCInit ==
  /\ InputInit /\ DelegationInit /\ Init
  /\ part \in {"input", "runs", "queue"}
  /\ part # "input" => owner = "app"

OnlyText == \A w \in Writers : input'[w] = "text"

MCNext ==
  /\ UNCHANGED part
  /\ \/ part = "input" /\ InputNext /\ OnlyText /\ UNCHANGED <<delvars, vars>>
     \/ part = "runs" /\ DelegationNext /\ UNCHANGED <<inputvars, vars>>
     \/ part = "queue" /\ Next /\ UNCHANGED <<inputvars, delvars>>

(* In a part that rests nothing that fairness asks for is enabled, but the *)
(* timer ticks.                                                            *)
QueueFairness ==
  /\ WF_vars(part = "queue" /\ TimerStep)
  /\ \A j \in Jobs : WF_vars(part = "queue" /\ JobStep(j))

MCFairSpec ==
  MCInit /\ [][MCNext]_progressvars /\ InputFairness /\ DelegationFairness /\ QueueFairness
=============================================================================
