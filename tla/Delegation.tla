----------------------------- MODULE Delegation -----------------------------
(***************************************************************************)
(* Delegated runs (app/src-tauri/src/lib.rs, feature delegate-live): the   *)
(* commands delegate, delegate_stop and delegate_force_clear_in_flight,    *)
(* the single-flight slot, the controller thread from its validation over  *)
(* the workers, the fold, the verdict and one remediation wave to the push *)
(* and the run record, and the loops whose scheduler tick starts runs.     *)
(*                                                                         *)
(* A run is its number, its integration tree is known by how it was made.  *)
(* mcp-config.json is read again at every check, so a gate read from it is *)
(* any value at any time.  What git, gh, a test suite or a model answers   *)
(* is a free choice.                                                       *)
(***************************************************************************)
EXTENDS Integers, FiniteSets

CONSTANTS
  Kids,      \* worker numbers of one run
  Loops,     \* ids of loops.json
  NoLoop,    \* the empty loop id
  MaxIters,  \* StopCondition::max_iters of every loop
  MaxRuns,   \* bound: runs accepted
  ClearAt    \* bound: steps of a run at which its slot may be force-cleared

ASSUME DelegationAssumption ==
  /\ NoLoop \notin Loops
  /\ MaxIters \in 1 .. 20
  /\ MaxRuns \in Nat

FLYWHEEL_REMEDIATE_CAP == 1
Runs == 1 .. MaxRuns
Callers == {"user", "sched"}    \* a frontend command, and the HUD timer thread

\* A verdict: a pass, a hold that a remediation wave may mend, one with
\* blocking review findings, or any other, advisory and reject included.
Wires == {"pass", "fixable", "review", "other"}

VARIABLES
  slot,       \* delegation_in_flight: the run, or 0
  cancel,     \* delegate_cancel
  loopTag,    \* delegate_loop_id
  caller,     \* per caller: its step and the loop it fires
  look,       \* the tick's snapshot: runs it knows of, history, loops to scan
  run,        \* per run: the controller's locals
  alive,      \* workers not reaped yet, <<run, worker>>
  committed,  \* workers whose branch has a commit
  treeLines,   \* worktree registry lines of workers
  enabled,    \* loops.json
  hist,       \* delegate-runs.jsonl: per loop, how many records, the last verdict
  firer,      \* history: the loop a run was fired for
  stopped,    \* history: unended runs that had the slot when Stop was pressed
  forced      \* history: unended runs whose slot was force-cleared

claims == <<slot, cancel>>
workers == <<alive, committed, treeLines>>
loopvars == <<enabled, hist>>
ghosts == <<firer, stopped, forced>>
delvars == <<claims, loopTag, caller, look, run, workers, loopvars, ghosts>>

Unborn == [step |-> "none", write |-> FALSE, ship |-> FALSE, fixes |-> FALSE,
           todo |-> {}, all |-> FALSE, clean |-> FALSE, missing |-> {}, tree |-> "none",
           tested |-> FALSE, wire |-> "other", wave |-> 0]
NoRecord == [n |-> 0, last |-> "none"]
Blank == [known |-> {}, hist |-> [l \in Loops |-> NoRecord], todo |-> {}]

DelegationInit ==
  /\ slot = 0 /\ cancel = FALSE /\ loopTag = NoLoop
  /\ caller = [c \in Callers |-> [step |-> "idle", loop |-> NoLoop]]
  /\ look = Blank
  /\ run = [r \in Runs |-> Unborn]
  /\ alive = {} /\ committed = {} /\ treeLines = {}
  /\ enabled \in [Loops -> BOOLEAN]
  /\ hist = [l \in Loops |-> NoRecord]
  /\ firer = [r \in Runs |-> NoLoop]
  /\ stopped = {} /\ forced = {}

AcceptedRuns == {r \in Runs : run[r].step # "none"}
Accepted == Cardinality(AcceptedRuns)
Of(r, pairs) == {p \in pairs : p[1] = r}
At(r, s) == run[r].step = s
To(r, s) == run' = [run EXCEPT ![r].step = s]
CallerTo(c, s) == caller' = [caller EXCEPT ![c].step = s]
CallerIdle(c) == caller' = [caller EXCEPT ![c] = [step |-> "idle", loop |-> NoLoop]]

-----------------------------------------------------------------------------
(* The commands.                                                           *)

(* loop_iteration: the tag is stamped before the claim.                    *)
Iterate(c, l) ==
  /\ loopTag' = l
  /\ caller' = [caller EXCEPT ![c] = [step |-> "claim", loop |-> l]]

(* loop_run_now.                                                           *)
UserRunNow(l) ==
  /\ caller["user"].step = "idle"
  /\ Iterate("user", l)
  /\ UNCHANGED <<claims, look, run, workers, loopvars, ghosts>>

(* A gate refuses, or no parent pane can be opened.                        *)
Refused(c) ==
  /\ caller[c].step = "claim"
  /\ CallerIdle(c)
  /\ UNCHANGED <<claims, loopTag, look, run, workers, loopvars, ghosts>>

(* A manual delegate claims at once, its gates and delegate_precheck (which *)
(* may refuse) having touched nothing; an iteration after its stamp.        *)
Claims(c) == caller[c].step = "claim" \/ (c = "user" /\ caller[c].step = "idle")

(* Mutant of ClaimSlot: the old cancel is wiped before the in-flight check.*)
WipeThenClaim(c) ==
  /\ Claims(c) /\ Accepted < MaxRuns
  /\ IF slot # 0
       THEN CallerIdle(c) /\ cancel' = FALSE /\ UNCHANGED <<slot, run, firer>>
       ELSE LET r == Accepted + 1 IN
              /\ slot' = r
              /\ To(r, "claimed")
              /\ firer' = [firer EXCEPT ![r] = caller[c].loop]
              /\ CallerTo(c, "clear")
              /\ UNCHANGED cancel
  /\ UNCHANGED <<loopTag, look, workers, loopvars, stopped, forced>>

(* DELEGATION_IN_FLIGHT, or the slot is taken ...                          *)
ClaimSlot(c) ==
  /\ Claims(c) /\ Accepted < MaxRuns
  /\ IF slot # 0
       THEN CallerIdle(c) /\ UNCHANGED <<slot, run, firer>>
       ELSE LET r == Accepted + 1 IN
              /\ slot' = r
              /\ To(r, "claimed")
              /\ firer' = [firer EXCEPT ![r] = caller[c].loop]
              /\ CallerTo(c, "clear")
  /\ UNCHANGED <<cancel, loopTag, look, workers, loopvars, stopped, forced>>

(* ... and, still under its lock, which delegate_stop does not take, the   *)
(* stop of an earlier run is forgotten.  The controller thread starts.     *)
ClearCancel(c) ==
  /\ caller[c].step = "clear"
  /\ cancel' = FALSE
  /\ \E r \in Runs : At(r, "claimed") /\ To(r, "validate")
  /\ CallerIdle(c)
  /\ UNCHANGED <<slot, loopTag, look, workers, loopvars, ghosts>>

(* delegate_stop: the flag alone.                                          *)
DelegateStop ==
  /\ cancel' = TRUE
  /\ stopped' = IF slot # 0 /\ ~At(slot, "claimed") THEN stopped \cup {slot} ELSE stopped
  /\ UNCHANGED <<slot, loopTag, caller, look, run, workers, loopvars, firer, forced>>

(* delegate_force_clear_in_flight, once no beat has come for 240 s: in any *)
(* step that waits for a child, the network or a model.                    *)
Silent == {"admit", "fork", "settle", "fold", "resolve", "synth", "rebase", "fix", "push"}
ForceClear ==
  /\ slot # 0 /\ run[slot].step \in Silent \cap ClearAt
  /\ slot' = 0 /\ cancel' = TRUE
  /\ forced' = forced \cup {slot}
  /\ UNCHANGED <<loopTag, caller, look, run, workers, loopvars, firer, stopped>>

-----------------------------------------------------------------------------
(* Loops.                                                                  *)

(* loop_create, loop_update, loop_set_enabled and loop_delete, each under  *)
(* loops_lock.  A deleted loop is one that stays off.                      *)
LoopEdit(l) ==
  /\ enabled' = [enabled EXCEPT ![l] = ~@]
  /\ UNCHANGED <<claims, loopTag, caller, look, run, workers, hist, ghosts>>

(* scheduler_decide with loop_driver_step on the records of one loop, when  *)
(* no stop was asked for and loop_autonomy is still on.                     *)
Fires(h) == h.n < MaxIters /\ h.last \in {"none", "fixable"}

(* Mutant of TickSlot: the tick trusts the claim to refuse an overlap.     *)
TickAnyway ==
  /\ caller["sched"].step = "idle"
  /\ CallerTo("sched", "read")
  /\ look' = [look EXCEPT !.known = AcceptedRuns \ forced]
  /\ UNCHANGED <<claims, loopTag, run, workers, loopvars, ghosts>>

(* scheduler_tick: nothing while a run is in flight, or without            *)
(* loop_autonomy;                                                          *)
TickSlot ==
  /\ caller["sched"].step = "idle" /\ slot = 0
  /\ CallerTo("sched", "read")
  /\ look' = [look EXCEPT !.known = AcceptedRuns \ forced]
  /\ UNCHANGED <<claims, loopTag, run, workers, loopvars, ghosts>>

(* then the run records and the loops are read once,                       *)
TickRead ==
  /\ caller["sched"].step = "read"
  /\ CallerTo("sched", "scan")
  /\ look' = [look EXCEPT !.hist = hist, !.todo = {l \in Loops : enabled[l]}]
  /\ UNCHANGED <<claims, loopTag, run, workers, loopvars, ghosts>>

(* and each loop of that reading is passed over (not due, or of another    *)
(* runner),                                                                *)
TickSkip(l) ==
  /\ caller["sched"].step = "scan" /\ l \in look.todo
  /\ look' = [look EXCEPT !.todo = @ \ {l}]
  /\ UNCHANGED <<claims, loopTag, caller, run, workers, loopvars, ghosts>>

(* marked terminal, for a verdict, the cap, a stop or a gate now off,      *)
TickMarkTerminal(l) ==
  /\ caller["sched"].step = "scan" /\ l \in look.todo
  /\ look' = [look EXCEPT !.todo = @ \ {l}]
  /\ enabled' = [enabled EXCEPT ![l] = FALSE]
  /\ UNCHANGED <<claims, loopTag, caller, run, workers, hist, ghosts>>

(* or fired, which ends the tick.                                          *)
TickFire(l) ==
  /\ caller["sched"].step = "scan" /\ l \in look.todo
  /\ ~cancel /\ Fires(look.hist[l])
  /\ Iterate("sched", l)
  /\ look' = [Blank EXCEPT !.known = look.known]
  /\ UNCHANGED <<claims, run, workers, loopvars, ghosts>>

TickEnd ==
  /\ caller["sched"].step = "scan" /\ look.todo = {}
  /\ CallerIdle("sched")
  /\ look' = Blank
  /\ UNCHANGED <<claims, loopTag, run, workers, loopvars, ghosts>>

-----------------------------------------------------------------------------
(* The controller.  A check that finds cancel, or autonomy_ceiling at 0,   *)
(* leaves, so leaving is always possible and going on needs ~cancel.       *)

(* An early return: the RunContext, then the guard are dropped.            *)
Leave(r) == run' = [run EXCEPT ![r] = [Unborn EXCEPT !.step = "drop"]]

(* Parent repo, trust, sync with origin, repo pin and run directory.       *)
Validate(r) ==
  /\ At(r, "validate")
  /\ Leave(r) \/ (~cancel /\ To(r, "admit"))
  /\ UNCHANGED <<claims, loopTag, caller, look, workers, loopvars, ghosts>>

(* The free capacity, the orchestrator's plan and the modes: shipping needs*)
(* write mode and a HEAD that is not ahead of main, remediation the ship   *)
(* gate.                                                                   *)
Plan(r) ==
  /\ At(r, "admit")
  /\ \/ Leave(r)
     \/ \E plan \in SUBSET Kids, write, ship, fixes \in BOOLEAN :
          /\ plan # {} /\ (ship => write) /\ (fixes => ship)
          /\ run' = [run EXCEPT ![r].step = "spawn", ![r].todo = plan, ![r].write = write,
                                ![r].ship = ship, ![r].fixes = fixes]
  /\ UNCHANGED <<claims, loopTag, caller, look, workers, loopvars, ghosts>>

(* Before each worker.                                                     *)
SpawnCheck(r) ==
  /\ At(r, "spawn") /\ run[r].todo # {}
  /\ Leave(r) \/ (~cancel /\ To(r, "fork"))
  /\ UNCHANGED <<claims, loopTag, caller, look, workers, loopvars, ghosts>>

(* spawn_worker, registry_add and the guard's list; a failed spawn has     *)
(* removed its worktree.                                                   *)
SpawnKid(r) ==
  /\ At(r, "fork")
  /\ \E k \in run[r].todo :
       /\ run' = [run EXCEPT ![r].step = "spawn", ![r].todo = @ \ {k}]
       /\ \/ alive' = alive \cup {<<r, k>>} /\ treeLines' = treeLines \cup {<<r, k>>}
          \/ UNCHANGED <<alive, treeLines>>
  /\ UNCHANGED <<claims, loopTag, caller, look, committed, loopvars, ghosts>>

Dispatched(r) ==
  /\ At(r, "spawn") /\ run[r].todo = {}
  /\ Leave(r) \/ (~cancel /\ Of(r, treeLines) # {} /\ To(r, "settle"))
  /\ UNCHANGED <<claims, loopTag, caller, look, workers, loopvars, ghosts>>

(* A worker commits its branch.                                            *)
KidCommits(p) ==
  /\ p \in alive /\ p \notin committed
  /\ committed' = committed \cup {p}
  /\ UNCHANGED <<claims, loopTag, caller, look, run, alive, treeLines, loopvars, ghosts>>

(* settle_streaming: a cancel kills all; a deadline kills the workers that *)
(* have neither exited nor written their report; one that has reported     *)
(* lives on.  flywheel_tail then looks for a commit on every branch.       *)
Settle(r) ==
  /\ At(r, "settle")
  /\ \/ alive' = alive \ Of(r, alive) /\ Leave(r)
     \/ /\ ~cancel
        /\ \E reported \in SUBSET Of(r, alive) : alive' = (alive \ Of(r, alive)) \cup reported
        /\ run' = [run EXCEPT ![r].step = "fold",
                              ![r].all = run[r].write => Of(r, treeLines) \subseteq committed]
  /\ UNCHANGED <<claims, loopTag, caller, look, committed, treeLines, loopvars, ghosts>>

\* The branches a fold is given that have a commit.
Branches(r) == {k \in Kids : <<r, k>> \in treeLines \cap committed}

(* Mutant of Fold: integ_clean survives from the wave before.              *)
FoldKeepsClean(r) ==
  /\ At(r, "fold")
  /\ \E merged \in SUBSET Branches(r) : \E clashing \in SUBSET (Branches(r) \ merged) :
       /\ IF merged = {} THEN clashing = {} ELSE run[r].write /\ ~cancel
       /\ run' = [run EXCEPT
            ![r].step = IF clashing = {} THEN "synth" ELSE "merge",
            ![r].clean = IF merged = {} THEN @ ELSE clashing = {},
            ![r].missing = clashing,
            ![r].tree = CASE merged # {} -> "current"
                          [] merged = {} /\ @ = "none" -> "none"
                          [] OTHER -> "stale",
            ![r].tested = FALSE]
  /\ UNCHANGED <<claims, loopTag, caller, look, workers, loopvars, ghosts>>

(* The fold into an integration tree, of write mode only.  A branch is     *)
(* merged, clashes, or is passed over because a git command failed on it,  *)
(* which is no conflict: the fold is clean without it.  A fold that merges *)
(* none, or whose tree cannot be made, is degraded and leaves the marker   *)
(* on the tree of an earlier wave.                                         *)
Fold(r) ==
  /\ At(r, "fold")
  /\ \E merged \in SUBSET Branches(r) : \E clashing \in SUBSET (Branches(r) \ merged) :
       /\ IF merged = {} THEN clashing = {} ELSE run[r].write /\ ~cancel
       /\ run' = [run EXCEPT
            ![r].step = IF clashing = {} THEN "synth" ELSE "merge",
            ![r].clean = merged # {} /\ clashing = {},
            ![r].missing = clashing,
            ![r].tree = CASE merged # {} -> "current"
                          [] merged = {} /\ @ = "none" -> "none"
                          [] OTHER -> "stale",
            ![r].tested = FALSE]
  /\ UNCHANGED <<claims, loopTag, caller, look, workers, loopvars, ghosts>>

(* coordinate_merge_reconcile, before each attempt on a branch.            *)
MergeCheck(r) ==
  /\ At(r, "merge")
  /\ To(r, "synth") \/ (~cancel /\ To(r, "resolve"))
  /\ UNCHANGED <<claims, loopTag, caller, look, workers, loopvars, ghosts>>

(* One coordinator worker.  It fails, and is tried again or was the last   *)
(* attempt, or it reconciles a branch; after the last branch the tests of  *)
(* the merged tree decide.                                                 *)
Resolve(r) ==
  /\ At(r, "resolve")
  /\ \/ To(r, "merge") \/ To(r, "synth")
     \/ \E k \in run[r].missing, pass \in BOOLEAN :
          LET rest == run[r].missing \ {k} IN
            run' = [run EXCEPT ![r].step = IF rest = {} THEN "synth" ELSE "merge",
                               ![r].missing = rest, ![r].clean = rest = {} /\ pass]
  /\ UNCHANGED <<claims, loopTag, caller, look, workers, loopvars, ghosts>>

(* delegate_synthesize: an error ends the run unrecorded, else the verdict *)
(* on the tree the marker names, or on main.                               *)
Synthesize(r) ==
  /\ At(r, "synth")
  /\ \/ Leave(r)
     \/ \E wire \in Wires :
          run' = [run EXCEPT ![r].step = "decide", ![r].wire = wire, ![r].tested = TRUE]
  /\ UNCHANGED <<claims, loopTag, caller, look, workers, loopvars, ghosts>>

(* Mutant of Decide: the wave is not counted.                              *)
DecideUncounted(r) ==
  /\ At(r, "decide")
  /\ \/ To(r, "gate")
     \/ /\ run[r].wire \in {"fixable", "review"} /\ run[r].fixes /\ ~cancel
        /\ run[r].wave < FLYWHEEL_REMEDIATE_CAP
        /\ run' = [run EXCEPT ![r].step = IF run[r].wire = "fixable" THEN "rebase" ELSE "revise"]
  /\ UNCHANGED <<claims, loopTag, caller, look, workers, loopvars, ghosts>>

(* Mutant of Decide: one wave more than the cap.                           *)
DecideOneMore(r) ==
  /\ At(r, "decide")
  /\ \/ To(r, "gate")
     \/ /\ run[r].wire \in {"fixable", "review"} /\ run[r].fixes /\ ~cancel
        /\ run[r].wave <= FLYWHEEL_REMEDIATE_CAP
        /\ run' = [run EXCEPT ![r].wave = @ + 1,
             ![r].step = IF run[r].wire = "fixable" THEN "rebase" ELSE "revise"]
  /\ UNCHANGED <<claims, loopTag, caller, look, workers, loopvars, ghosts>>

(* One remediation wave for a fixable hold or blocking findings.           *)
Decide(r) ==
  /\ At(r, "decide")
  /\ \/ To(r, "gate")
     \/ /\ run[r].wire \in {"fixable", "review"} /\ run[r].fixes /\ ~cancel
        /\ run[r].wave < FLYWHEEL_REMEDIATE_CAP
        /\ run' = [run EXCEPT ![r].wave = @ + 1,
             ![r].step = IF run[r].wire = "fixable" THEN "rebase" ELSE "revise"]
  /\ UNCHANGED <<claims, loopTag, caller, look, workers, loopvars, ghosts>>

(* flywheel_remediate_wave on the marked tree: the branches rebased on     *)
(* origin/main, to be folded again, the missing evidence provided for the  *)
(* same tree, or failed: gate tampering, a security surface, no marker.    *)
Remediate(r) ==
  /\ At(r, "rebase")
  /\ To(r, "gate") \/ (run[r].tree # "none" /\ (To(r, "fold") \/ To(r, "synth")))
  /\ UNCHANGED <<claims, loopTag, caller, look, workers, loopvars, ghosts>>

(* flywheel_review_fix_wave: the check, ...                                *)
ReviseCheck(r) ==
  /\ At(r, "revise")
  /\ To(r, "gate") \/ (~cancel /\ run[r].tree # "none" /\ To(r, "fix"))
  /\ UNCHANGED <<claims, loopTag, caller, look, workers, loopvars, ghosts>>

(* ... and one fix worker, which may move the tree's HEAD even when the    *)
(* wave then fails.                                                        *)
Revise(r) ==
  /\ At(r, "fix")
  /\ \E next \in {"gate", "synth"}, moved \in BOOLEAN :
       /\ next = "synth" => moved
       /\ run' = [run EXCEPT ![r].step = next, ![r].tested = @ /\ ~moved]
  /\ UNCHANGED <<claims, loopTag, caller, look, workers, loopvars, ghosts>>

(* The ship gate; the security scan, an empty diff or an open PR of the    *)
(* loop may still hold the push.                                           *)
ShipGate(r) ==
  /\ At(r, "gate")
  /\ \/ To(r, "record")
     \/ /\ run[r].write /\ run[r].ship /\ run[r].wire = "pass"
        /\ run[r].clean /\ run[r].all /\ ~cancel /\ run[r].tree # "none"
        /\ To(r, "push")
  /\ UNCHANGED <<claims, loopTag, caller, look, workers, loopvars, ghosts>>

(* flywheel_push_and_pr.                                                   *)
Push(r) ==
  /\ At(r, "push")
  /\ To(r, "record")
  /\ UNCHANGED <<claims, loopTag, caller, look, workers, loopvars, ghosts>>

(* The run record, under the loop id of the moment.                        *)
Record(r) ==
  /\ At(r, "record")
  /\ Leave(r)
  /\ hist' = IF loopTag = NoLoop THEN hist
             ELSE [hist EXCEPT ![loopTag] = [n |-> @.n + 1, last |-> run[r].wire]]
  /\ UNCHANGED <<claims, loopTag, caller, look, workers, enabled, ghosts>>

(* Mutant of DropContext: the guard was declared last, so it drops first.  *)
GuardFirst(r) ==
  /\ At(r, "drop")
  /\ To(r, "guard")
  /\ IF slot = r THEN slot' = 0 /\ cancel' = FALSE ELSE UNCHANGED <<slot, cancel>>
  /\ UNCHANGED <<loopTag, caller, look, workers, loopvars, ghosts>>

(* RunContext::drop: every worker is killed and its worktree removed.      *)
DropContext(r) ==
  /\ At(r, "drop")
  /\ To(r, "guard")
  /\ alive' = alive \ Of(r, alive)
  /\ UNCHANGED <<claims, loopTag, caller, look, committed, treeLines, loopvars, ghosts>>

(* DelegateGuard::drop: the registry lines, and the slot if it is its own. *)
DropGuard(r) ==
  /\ At(r, "guard")
  /\ To(r, "ended")
  /\ treeLines' = treeLines \ Of(r, treeLines) /\ committed' = committed \ Of(r, committed)
  /\ IF slot = r THEN slot' = 0 /\ cancel' = FALSE ELSE UNCHANGED <<slot, cancel>>
  /\ stopped' = stopped \ {r} /\ forced' = forced \ {r}
  /\ firer' = [firer EXCEPT ![r] = NoLoop]
  /\ UNCHANGED <<loopTag, caller, look, alive, loopvars>>

-----------------------------------------------------------------------------
Controller(r) ==
  \/ Validate(r) \/ Plan(r) \/ SpawnCheck(r) \/ SpawnKid(r) \/ Dispatched(r)
  \/ Settle(r) \/ Fold(r) \/ MergeCheck(r) \/ Resolve(r)
  \/ Synthesize(r) \/ Decide(r) \/ Remediate(r) \/ ReviseCheck(r) \/ Revise(r)
  \/ ShipGate(r) \/ Push(r) \/ Record(r) \/ DropContext(r) \/ DropGuard(r)

SchedulerTick ==
  \/ TickSlot \/ TickRead \/ TickEnd
  \/ \E l \in Loops : TickSkip(l) \/ TickMarkTerminal(l) \/ TickFire(l)

DelegationNext ==
  \/ \E l \in Loops : UserRunNow(l) \/ LoopEdit(l)
  \/ \E c \in Callers : Refused(c) \/ ClaimSlot(c) \/ ClearCancel(c)
  \/ DelegateStop \/ ForceClear
  \/ SchedulerTick
  \/ \E r \in Runs : Controller(r)
  \/ \E p \in Runs \X Kids : KidCommits(p)

DelegationSpec == DelegationInit /\ [][DelegationNext]_delvars

(* Every wait of the controller has a deadline, or a cap on its attempts,  *)
(* and the claim's last statement runs.  The attempts on one branch and    *)
(* the branches are finite, so Resolve does not choose "merge" for ever.   *)
DelegationFairness ==
  /\ \A c \in Callers : WF_delvars(ClearCancel(c))
  /\ \A r \in Runs : WF_delvars(Controller(r))
  /\ \A r \in Runs : SF_delvars(Resolve(r) /\ run'[r].step # "merge")
DelegationFairSpec == DelegationSpec /\ DelegationFairness
-----------------------------------------------------------------------------
(* Properties.                                                             *)

Steps == {"none", "claimed", "validate", "admit", "spawn", "fork", "settle", "fold",
          "merge", "resolve", "synth", "decide", "rebase", "revise", "fix", "gate",
          "push", "record", "drop", "guard", "ended"}

Histories == [n : Nat, last : Wires \cup {"none"}]

DelegationTypeOK ==
  /\ slot \in 0 .. MaxRuns /\ cancel \in BOOLEAN
  /\ loopTag \in Loops \cup {NoLoop}
  /\ caller \in [Callers -> [step : {"idle", "claim", "clear", "read", "scan"},
                             loop : Loops \cup {NoLoop}]]
  /\ look.known \subseteq Runs /\ look.hist \in [Loops -> Histories]
  /\ look.todo \subseteq Loops
  /\ run \in [Runs -> [step : Steps, write : BOOLEAN, ship : BOOLEAN, fixes : BOOLEAN,
                       todo : SUBSET Kids, all : BOOLEAN, clean : BOOLEAN,
                       missing : SUBSET Kids, tree : {"none", "stale", "current"},
                       tested : BOOLEAN, wire : Wires, wave : 0 .. FLYWHEEL_REMEDIATE_CAP]]
  /\ alive \subseteq Runs \X Kids /\ committed \subseteq Runs \X Kids
  /\ treeLines \subseteq Runs \X Kids
  /\ enabled \in [Loops -> BOOLEAN]
  /\ hist \in [Loops -> Histories]
  /\ firer \in [Runs -> Loops \cup {NoLoop}]
  /\ stopped \subseteq Runs /\ forced \subseteq Runs

(* Single flight: whatever starts and ends runs, unless a slot was force-  *)
(* cleared, every worker process and every worktree line belongs to the    *)
(* run in the slot, so a free slot means that nothing of an earlier run is *)
(* left to commit, or to hold capacity or disk.                            *)
WorkersOfSlot == forced = {} => \A p \in alive \cup treeLines : p[1] = slot

(* What is pushed is what was proven: the tree folded in the last wave,    *)
(* unchanged since the verdict, which was a pass, of a run whose workers   *)
(* have all committed, with every branch that clashed reconciled in it.    *)
(* A branch on which git itself failed may be missing from it.             *)
ShipsWhatWasTested ==
  \A r \in Runs : At(r, "push") =>
    /\ run[r].tree = "current" /\ run[r].clean /\ run[r].missing = {}
    /\ run[r].tested /\ run[r].wire = "pass"
    /\ Of(r, treeLines) # {} /\ Of(r, treeLines) \subseteq committed

(* Stop is not lost: after it was pressed for a run in the slot, no order  *)
(* of refused claims, ticks and other runs' ends lets that run fork a      *)
(* worker, start a coordinator or a fix worker, or push.                   *)
Guarded == {"fork", "resolve", "fix", "push"}
StopHonoured ==
  [][\A r \in stopped \ forced : run'[r].step \in Guarded => run'[r].step = run[r].step]_delvars

(* The tick never fires a loop whose last recorded iteration passed or was *)
(* rejected, also when that record is written while the tick is under way, *)
(* unless another run was accepted since the tick looked at the slot or a  *)
(* run whose slot was force-cleared had not ended then.                    *)
Concluded(h) == h.last \in {"pass", "other"}
NoFireAfterVerdict ==
  [][\A l \in Loops :
       /\ caller["sched"] = [step |-> "claim", loop |-> l] /\ caller'["sched"].step = "clear"
       /\ look.known = AcceptedRuns
       => ~Concluded(hist[l])]_delvars

(* A run is recorded under the loop it was fired for, a manual one under   *)
(* none.                                                                   *)
TaggedForItsLoop ==
  [][\A r \in Runs : At(r, "record") /\ run'[r].step = "drop" => loopTag = firer[r]]_delvars

(* Every accepted run ends, and with it its hold on the slot.              *)
RunEnds == \A r \in Runs : run[r].step = "claimed" ~> run[r].step = "ended"
=============================================================================
