----------------------------- MODULE BridgeRun -----------------------------
(***************************************************************************)
(* A bridge run from its dispatch to its pull request: the panes commit to *)
(* their branches, the frontend (app/src/main.js) assembles the branches   *)
(* of a two-wave run, fires the synthesis once at a time and offers the    *)
(* pull request, and the backend (app/src-tauri/src/lib.rs, core/flywheel/ *)
(* src/synthesize.rs) folds the branches into the run's one integration    *)
(* tree, runs the tree's test suites, lets the armed gates object, and     *)
(* writes final.md or final.HELD.md.                                       *)
(*                                                                         *)
(* A tree is what it holds of each pane: the number of its commits folded  *)
(* in.  main holds none.  The fold of another run may collect the tree.    *)
(***************************************************************************)
EXTENDS Naturals, FiniteSets

CONSTANTS
  CodePanes,   \* the panes of the run
  Suites,      \* test suites a tree may resolve to
  Gates,       \* armed objectors: "critique", "crap", "review"
  MaxCommits   \* bound: commits of a pane

ASSUME BridgeAssumption ==
  /\ Gates \subseteq {"critique", "crap", "review"}
  /\ MaxCommits \in Nat

Contents == [CodePanes -> 0 .. MaxCommits]
MainTree == [p \in CodePanes |-> 0]

VARIABLES
  commits,   \* per pane: commits on agent-teams/<id>
  tree,      \* disk: the worktree bridge-integ-<run>
  marker,    \* disk: integration.json, and whether it is younger than its TTL
  ui,        \* the frontend's phase of the run
  job,       \* the assembly, synthesis or pull request under way
  doc,       \* disk: final.md, and the history of what it says
  pushed,    \* origin: the branch of the pull request
  told       \* history: panes whose conflicts the user was shown

brvars == <<commits, tree, marker, ui, job, doc, pushed, told>>

\* asked: commits when the synthesis began; seen: the trees on which its
\* suites exited 0; objected: a suite, a pane's git truth or a gate said no;
\* refused: panes its fold left out; degraded: its fold failed as a whole.
NoJob == [step |-> "none", fold |-> MainTree, refused |-> {}, integ |-> FALSE,
          refreshed |-> FALSE, suites |-> {}, retry |-> FALSE, fail |-> FALSE,
          unverified |-> FALSE, truth |-> TRUE, verdict |-> "hold", gates |-> {},
          asked |-> MainTree, seen |-> {}, objected |-> FALSE, degraded |-> FALSE]
NoDoc == [there |-> FALSE, seen |-> {}, objected |-> FALSE, asked |-> MainTree,
          refused |-> {}, degraded |-> FALSE]

BridgeInit ==
  /\ commits = MainTree
  /\ tree = [there |-> FALSE, has |-> MainTree]
  /\ marker = "none"
  /\ ui \in {"held", "live"}    \* two waves, or one
  /\ job = NoJob /\ doc = NoDoc
  /\ pushed = [there |-> FALSE, has |-> MainTree]
  /\ told = {}

Doing(step) == job.step = step
Then(step) == job' = [job EXCEPT !.step = step]

-----------------------------------------------------------------------------
(* The agents, the clock and other runs.                                   *)

PaneCommits(p) ==
  /\ commits[p] < MaxCommits
  /\ commits' = [commits EXCEPT ![p] = @ + 1]
  /\ UNCHANGED <<tree, marker, ui, job, doc, pushed, told>>

MarkerAges ==
  /\ marker = "young" /\ marker' = "old"
  /\ UNCHANGED <<commits, tree, ui, job, doc, pushed, told>>

(* gc_stale_integrations of another run's fold: a tree that no young       *)
(* marker names is removed, one whose marker is not written yet included.  *)
CollectIntegrations ==
  /\ tree.there /\ marker # "young"
  /\ tree' = [tree EXCEPT !.there = FALSE]
  /\ UNCHANGED <<commits, marker, ui, job, doc, pushed, told>>

-----------------------------------------------------------------------------
(* The fold, of an assembly and of a synthesis.                            *)

HaveCommits == {p \in CodePanes : commits[p] > 0}

(* assembleAndDispatchVerify: once per run.                                *)
UiAssemble ==
  /\ ui = "held" /\ Doing("none")
  /\ ui' = "assembling"
  /\ job' = [NoJob EXCEPT !.step = "fold"]
  /\ UNCHANGED <<commits, tree, marker, doc, pushed, told>>

(* panes_with_commits and fold_pane_branches: a pane that conflicts, or    *)
(* that git fails on, is left out.  Without a pane there is no tree.       *)
FoldBranches ==
  /\ Doing("fold")
  /\ \E in \in SUBSET HaveCommits :
       job' = [job EXCEPT
         !.step = IF in = {} THEN "folded" ELSE "mount",
         !.fold = [p \in CodePanes |-> IF p \in in THEN commits[p] ELSE 0],
         !.refused = HaveCommits \ in, !.degraded = in = {}]
  /\ UNCHANGED <<commits, tree, marker, ui, doc, pushed, told>>

(* add_worktree keeps a tree that is there; reset --hard moves it.  Either *)
(* may fail, the second removes the tree.                                  *)
MountTree ==
  /\ Doing("mount")
  /\ \/ /\ job' = [job EXCEPT !.step = "folded", !.degraded = TRUE]
        /\ tree' \in {tree, [tree EXCEPT !.there = FALSE]}
     \/ Then("mark") /\ tree' = [there |-> TRUE, has |-> job.fold]
  /\ UNCHANGED <<commits, marker, ui, doc, pushed, told>>

(* The marker, whose write may fail.                                       *)
WriteMarker ==
  /\ Doing("mark")
  /\ marker' \in {marker, "young"}
  /\ job' = [job EXCEPT !.step = "folded", !.refreshed = TRUE]
  /\ UNCHANGED <<commits, tree, ui, doc, pushed, told>>

(* The assembly returns: conflicts are shown, the verify wave goes out.    *)
Assembled ==
  /\ ui = "assembling" /\ Doing("folded")
  /\ told' = told \cup job.refused
  /\ ui' = "live" /\ job' = NoJob
  /\ UNCHANGED <<commits, tree, marker, doc, pushed>>

-----------------------------------------------------------------------------
(* synthesizeResults and bridge_synthesize.                                *)

(* The live run is forgotten before the call, so none can start twice.     *)
UiSynthesize ==
  /\ ui = "live" /\ Doing("none")
  /\ ui' = "busy"
  /\ job' = [NoJob EXCEPT !.step = "read", !.asked = commits]
  /\ UNCHANGED <<commits, tree, marker, doc, pushed, told>>

(* An Err gives the run back to the frontend.                              *)
Fails == job' = NoJob /\ ui' = "live"

(* The reports, and the integration tree of the marker.                    *)
ReadRun ==
  /\ Doing("read")
  /\ \/ Fails
     \/ /\ job' = [job EXCEPT !.step = "truth", !.integ = marker # "none" /\ tree.there]
        /\ UNCHANGED ui
  /\ UNCHANGED <<commits, tree, marker, doc, pushed, told>>

(* Mutant of GatherTruth: the tree of the assembly is not folded again.    *)
FoldOnce ==
  /\ Doing("truth")
  /\ \E t \in BOOLEAN :
       job' = [job EXCEPT !.truth = t, !.objected = ~t,
                          !.step = IF job.integ \/ HaveCommits = {} THEN "folded" ELSE "fold"]
  /\ UNCHANGED <<commits, tree, marker, ui, doc, pushed, told>>

(* gather_pane_truth: a pane whose tree is gone, stale or has no known     *)
(* base contradicts its report.                                            *)
GatherTruth ==
  /\ Doing("truth")
  /\ \E t \in BOOLEAN :
       job' = [job EXCEPT !.truth = t, !.objected = ~t,
                          !.step = IF HaveCommits = {} THEN "folded" ELSE "fold"]
  /\ UNCHANGED <<commits, tree, marker, ui, doc, pushed, told>>

(* test_target: the tree just folded, else that of the marker, else main.  *)
OnTree == job.refreshed \/ job.integ
TargetThere == OnTree => tree.there
Target == IF OnTree THEN tree.has ELSE MainTree

(* resolve_test_suites: a listed suite whose manifest is missing is        *)
(* dropped, and a target that is gone has none.                            *)
ResolveSuites ==
  /\ ui = "busy" /\ Doing("folded")
  /\ \E kept \in SUBSET Suites :
       /\ ~TargetThere => kept = {}
       /\ job' = [job EXCEPT !.step = "suites", !.suites = kept, !.unverified = kept = {}]
  /\ UNCHANGED <<commits, tree, marker, ui, doc, pushed, told>>

(* run_suite_once: exit 0; a failure; a runner that is missing or an exit  *)
(* that is no verdict; or the deadline, once more after the first.         *)
SuiteEnds(s, outcome) ==
  job' = [job EXCEPT
    !.suites = @ \ {s}, !.retry = FALSE,
    !.fail = @ \/ outcome = "fail", !.unverified = @ \/ outcome = "unverified",
    !.seen = IF outcome = "ok" THEN @ \cup {Target} ELSE @,
    !.objected = @ \/ outcome # "ok"]

(* Mutant of RunSuite: a second timeout only drops the suite.              *)
DropTimedOut(s) ==
  /\ Doing("suites") /\ s \in job.suites
  /\ \/ TargetThere /\ SuiteEnds(s, "ok")
     \/ SuiteEnds(s, "fail") \/ SuiteEnds(s, "unverified")
     \/ IF job.retry
          THEN job' = [job EXCEPT !.suites = @ \ {s}, !.retry = FALSE, !.objected = TRUE]
          ELSE job' = [job EXCEPT !.retry = TRUE]
  /\ UNCHANGED <<commits, tree, marker, ui, doc, pushed, told>>

RunSuite(s) ==
  /\ Doing("suites") /\ s \in job.suites
  /\ \/ TargetThere /\ SuiteEnds(s, "ok")
     \/ SuiteEnds(s, "fail") \/ SuiteEnds(s, "unverified")
     \/ IF job.retry THEN SuiteEnds(s, "unverified") ELSE job' = [job EXCEPT !.retry = TRUE]
  /\ UNCHANGED <<commits, tree, marker, ui, doc, pushed, told>>

(* bridge_verdict.                                                         *)
BridgeVerdict ==
  CASE job.fail -> "reject"
    [] ~job.fail /\ job.unverified -> "hold"
    [] OTHER -> IF job.truth THEN "pass" ELSE "hold"

Judge ==
  /\ Doing("suites") /\ job.suites = {} /\ ~job.retry
  /\ job' = [job EXCEPT !.step = "gates", !.verdict = BridgeVerdict,
                        !.gates = IF OnTree THEN Gates ELSE {}]
  /\ UNCHANGED <<commits, tree, marker, ui, doc, pushed, told>>

(* The critique, then the CRAP delta, then the review: an objection turns  *)
(* a pass into a hold and nothing turns a hold back.                       *)
GateOrder == [critique |-> 1, crap |-> 2, review |-> 3]
RunGate(g) ==
  /\ Doing("gates") /\ g \in job.gates
  /\ \A h \in job.gates : GateOrder[g] <= GateOrder[h]
  /\ \E objects \in BOOLEAN :
       job' = [job EXCEPT
         !.gates = @ \ {g}, !.objected = @ \/ objects,
         !.verdict = IF objects /\ @ = "pass" THEN "hold" ELSE @]
  /\ UNCHANGED <<commits, tree, marker, ui, doc, pushed, told>>

(* The document: the call may fail, and then nothing of an earlier         *)
(* synthesis is taken back.                                                *)
Compose ==
  /\ Doing("gates") /\ job.gates = {}
  /\ Fails \/ (Then("route") /\ UNCHANGED ui)
  /\ UNCHANGED <<commits, tree, marker, doc, pushed, told>>

FinalDoc == [there |-> TRUE, seen |-> job.seen, objected |-> job.objected,
             asked |-> job.asked, refused |-> job.refused, degraded |-> job.degraded]

(* Only a pass is written to final.md, any other verdict removes it.  The  *)
(* frontend offers the pull request for a pass with a marker, and is done  *)
(* with the run otherwise.                                                 *)
RouteDoc ==
  /\ Doing("route")
  /\ \/ /\ job.verdict = "pass"
        /\ doc' = FinalDoc
        /\ ui' = IF marker # "none" THEN "prd" ELSE "closed"
     \/ /\ job.verdict # "pass"
        /\ doc' = NoDoc
        /\ ui' = "closed"
  /\ job' = NoJob
  /\ UNCHANGED <<commits, tree, marker, pushed, told>>

-----------------------------------------------------------------------------
(* bridgeOpenPr and bridge_open_pr.                                        *)

OpenPr ==
  /\ ui = "prd" /\ Doing("none")
  /\ doc.there /\ marker # "none" /\ tree.there
  /\ Then("push")
  /\ UNCHANGED <<commits, tree, marker, ui, doc, pushed, told>>

(* flywheel_push_and_pr pushes the tree's HEAD; it may fail, also after    *)
(* the push.                                                               *)
PushBranch ==
  /\ Doing("push")
  /\ \/ UNCHANGED <<pushed, ui>>
     \/ /\ tree.there
        /\ pushed' = [there |-> TRUE, has |-> tree.has]
        /\ ui' \in {"prd", "closed"}
  /\ job' = NoJob
  /\ UNCHANGED <<commits, tree, marker, doc, told>>

(* The app dies.  The frontend stored a run that is held or live and the   *)
(* offer of a pull request, not a synthesis under way.                     *)
AppDies ==
  /\ job' = NoJob
  /\ ui' = CASE ui = "assembling" -> "held" [] ui = "busy" -> "closed" [] OTHER -> ui
  /\ UNCHANGED <<commits, tree, marker, doc, pushed, told>>

-----------------------------------------------------------------------------
BridgeNext ==
  \/ \E p \in CodePanes : PaneCommits(p)
  \/ MarkerAges \/ CollectIntegrations
  \/ UiAssemble \/ FoldBranches \/ MountTree \/ WriteMarker \/ Assembled
  \/ UiSynthesize \/ ReadRun \/ GatherTruth \/ ResolveSuites
  \/ \E s \in Suites : RunSuite(s)
  \/ Judge \/ (\E g \in Gates : RunGate(g)) \/ Compose \/ RouteDoc
  \/ OpenPr \/ PushBranch \/ AppDies

BridgeSpec == BridgeInit /\ [][BridgeNext]_brvars
-----------------------------------------------------------------------------
(* Properties.                                                             *)

BridgeTypeOK ==
  /\ commits \in Contents
  /\ tree \in [there : BOOLEAN, has : Contents]
  /\ marker \in {"none", "young", "old"}
  /\ ui \in {"held", "assembling", "live", "busy", "prd", "closed"}
  /\ job.step \in {"none", "fold", "mount", "mark", "folded", "read", "truth", "suites",
                   "gates", "route", "push"}
  /\ job.fold \in Contents /\ job.asked \in Contents
  /\ job.refused \subseteq CodePanes /\ job.suites \subseteq Suites /\ job.gates \subseteq Gates
  /\ job.seen \subseteq Contents /\ job.verdict \in {"pass", "hold", "reject"}
  /\ doc.asked \in Contents /\ doc.seen \subseteq Contents /\ doc.refused \subseteq CodePanes
  /\ pushed \in [there : BOOLEAN, has : Contents]
  /\ told \subseteq CodePanes

(* What a pull request carries is the very tree on which every resolved    *)
(* suite of the synthesis in final.md exited 0, with nothing against it:   *)
(* no pane's git truth, no gate, no suite without a verdict.  No retry     *)
(* after an error, fold of another run or death of the app in between puts *)
(* another tree under a pass.                                              *)
ShipsTheTestedTree ==
  pushed.there => doc.there /\ doc.seen = {pushed.has} /\ ~doc.objected

(* A pass was tested on a tree with every commit a pane had when the       *)
(* synthesis began, also one made after the first assembly, unless the     *)
(* fold left the pane out or failed as a whole.                            *)
PassSawLateCommits ==
  doc.there /\ ~doc.degraded =>
    \A has \in doc.seen : \A p \in CodePanes \ doc.refused : has[p] >= doc.asked[p]

(* A pane whose work a pull request leaves out was shown to the user as a  *)
(* conflict.                                                               *)
NoSilentSkip ==
  pushed.there => \A p \in CodePanes : doc.asked[p] > 0 /\ pushed.has[p] = 0 => p \in told
=============================================================================
