------------------------------ MODULE RunProofs ------------------------------
(***************************************************************************)
(* Proofs about the two kinds of run that end in a push, for any number    *)
(* of runs, workers, loops, panes, commits and suites.  Of the delegated   *)
(* runs (Delegation): the slot, Stop, what the tick may fire again, and    *)
(* what a run may push.  Of a bridge run (BridgeRun): what final.md says   *)
(* was tested, and what a pull request carries.                            *)
(***************************************************************************)
EXTENDS Delegation, BridgeRun, FiniteSetTheorems, TLAPS

\* The controller's locals of one run.
Locals == [step : Steps, write : BOOLEAN, ship : BOOLEAN, fixes : BOOLEAN,
           todo : SUBSET Kids, all : BOOLEAN, clean : BOOLEAN,
           missing : SUBSET Kids, tree : {"none", "stale", "current"},
           tested : BOOLEAN, wire : Wires, wave : 0 .. FLYWHEEL_REMEDIATE_CAP]

\* What tells one step of a run from another: its locals, with others' at rest.
RunTyped == run \in [Runs -> Locals]

\* Going to a step changes nothing else of the locals, and no other run.
LEMMA SetStep ==
  ASSUME RunTyped, NEW r \in Runs, NEW s \in Steps, To(r, s)
  PROVE  /\ RunTyped'
         /\ run'[r].step = s
         /\ run'[r] = [run[r] EXCEPT !.step = s]
         /\ \A q \in Runs \ {r} : run'[q] = run[q]
  BY DEF RunTyped, To, Locals

\* The locals of a run that is not accepted yet are typed, at any step.
LEMMA UnbornTyped == \A s \in Steps : [Unborn EXCEPT !.step = s] \in Locals
<1> TAKE s \in Steps
<1>1. 0 \in 0 .. FLYWHEEL_REMEDIATE_CAP /\ {} \in SUBSET Kids
  BY DEF FLYWHEEL_REMEDIATE_CAP
<1>2. "other" \in Wires
  BY DEF Wires
<1>3. FALSE \in BOOLEAN
  BY Zenon
<1>4. QED
  BY <1>1, <1>2, <1>3 DEF Unborn, Locals

\* An early return resets the locals.
LEMMA SetLeave ==
  ASSUME RunTyped, NEW r \in Runs, Leave(r)
  PROVE  /\ RunTyped'
         /\ run'[r] = [Unborn EXCEPT !.step = "drop"]
         /\ \A q \in Runs \ {r} : run'[q] = run[q]
<1>1. [Unborn EXCEPT !.step = "drop"] \in Locals
  BY UnbornTyped DEF Steps
<1>2. QED
  BY <1>1 DEF RunTyped, Leave

\* So does a record of its own.
LEMMA SetLocals ==
  ASSUME RunTyped, NEW r \in Runs, NEW x \in Locals, run' = [run EXCEPT ![r] = x]
  PROVE  /\ RunTyped'
         /\ run'[r] = x
         /\ \A q \in Runs \ {r} : run'[q] = run[q]
  BY DEF RunTyped

Active(r) == run[r].step \notin {"none", "ended"}
AtRest(r) == \A q \in Runs \ {r} : run'[q] = run[q]

\* What a step of a controller does to its own run: it leaves the others, is
\* past the claim, ends only by dropping the guard, and starts what Stop
\* forbids only while the flag is down.
Moves(r) ==
  /\ RunTyped' /\ AtRest(r)
  /\ Active(r) /\ ~At(r, "claimed") /\ run'[r].step # "claimed"
  /\ run'[r].step \in {"none", "ended"} => DropGuard(r)
  /\ run'[r].step = "guard" => DropContext(r)
  /\ run'[r].step \in Guarded => run'[r].step = run[r].step \/ ~cancel

\* Such a move to a step, ...
LEMMA StepMoves ==
  ASSUME RunTyped, NEW r \in Runs, NEW s \in Steps, To(r, s),
         Active(r), ~At(r, "claimed"), s \notin {"none", "ended", "guard", "claimed"},
         s \in Guarded => s = run[r].step \/ ~cancel
  PROVE  Moves(r)
  BY SetStep DEF Moves, AtRest

\* ... with other locals changed as well, ...
LEMMA LocalsMove ==
  ASSUME RunTyped, NEW r \in Runs, NEW x \in Locals, run' = [run EXCEPT ![r] = x],
         Active(r), ~At(r, "claimed"), x.step \notin {"none", "ended", "guard", "claimed"},
         x.step \in Guarded => x.step = run[r].step \/ ~cancel
  PROVE  Moves(r)
  BY SetLocals DEF Moves, AtRest

\* ... or by an early return.
LEMMA LeaveMoves ==
  ASSUME RunTyped, NEW r \in Runs, Leave(r), Active(r), ~At(r, "claimed")
  PROVE  Moves(r)
<1>1. run'[r].step = "drop"
  BY SetLeave DEF Unborn
<1>2. QED
  BY <1>1, SetLeave DEF Moves, AtRest, Guarded

\* Every step of a controller is such a move.
LEMMA ControllerMoves == ASSUME RunTyped, NEW r \in Runs, Controller(r) PROVE Moves(r)
<1> DEFINE x == run[r]
<1>0. x \in Locals
  BY DEF RunTyped
<1>1. CASE Validate(r)
  <2>1. CASE Leave(r)   BY <1>1, <2>1, LeaveMoves DEF Validate, Active, At
  <2>2. CASE ~cancel /\ To(r, "admit")   BY <1>1, <2>2, StepMoves DEF Validate, Active, At, Steps, Guarded
  <2>3. QED BY <1>1, <2>1, <2>2 DEF Validate
<1>2. CASE Plan(r)
  <2>1. CASE Leave(r)   BY <1>2, <2>1, LeaveMoves DEF Plan, Active, At
  <2>2. CASE ~Leave(r)
    <3>1. PICK plan \in SUBSET Kids, write, ship, fixes \in BOOLEAN :
            /\ plan # {} /\ (ship => write) /\ (fixes => ship)
            /\ run' = [run EXCEPT ![r].step = "spawn", ![r].todo = plan, ![r].write = write,
                                  ![r].ship = ship, ![r].fixes = fixes]
      BY <1>2, <2>2, Zenon DEF Plan
    <3> DEFINE y == [x EXCEPT !.step = "spawn", !.todo = plan, !.write = write,
                              !.ship = ship, !.fixes = fixes]
    <3>2. y \in Locals /\ y.step = "spawn" /\ run' = [run EXCEPT ![r] = y]
      BY <1>0, <3>1 DEF Locals, Steps, RunTyped
    <3>3. QED BY <1>2, <3>2, LocalsMove DEF Plan, Active, At, Guarded
  <2>3. QED BY <2>1, <2>2
<1>3. CASE SpawnCheck(r)
  <2>1. CASE Leave(r)   BY <1>3, <2>1, LeaveMoves DEF SpawnCheck, Active, At
  <2>2. CASE ~cancel /\ To(r, "fork")   BY <1>3, <2>2, StepMoves DEF SpawnCheck, Active, At, Steps, Guarded
  <2>3. QED BY <1>3, <2>1, <2>2 DEF SpawnCheck
<1>4. CASE SpawnKid(r)
  <2>1. ASSUME NEW k \in x.todo,
              run' = [run EXCEPT ![r].step = "spawn", ![r].todo = @ \ {k}]
       PROVE  Moves(r)
    <3> DEFINE y == [x EXCEPT !.step = "spawn", !.todo = @ \ {k}]
    <3>1. y \in Locals /\ y.step = "spawn" /\ run' = [run EXCEPT ![r] = y]
      BY <1>0, <2>1 DEF Locals, Steps, RunTyped
    <3>2. QED BY <1>4, <3>1, LocalsMove DEF SpawnKid, Active, At, Guarded
  <2>2. QED BY <1>4, <2>1 DEF SpawnKid
<1>5. CASE Dispatched(r)
  <2>1. CASE Leave(r)   BY <1>5, <2>1, LeaveMoves DEF Dispatched, Active, At
  <2>2. CASE To(r, "settle")   BY <1>5, <2>2, StepMoves DEF Dispatched, Active, At, Steps, Guarded
  <2>3. QED BY <1>5, <2>1, <2>2 DEF Dispatched
<1>6. CASE Settle(r)
  <2>1. CASE Leave(r)   BY <1>6, <2>1, LeaveMoves DEF Settle, Active, At
  <2>2. ASSUME NEW b \in BOOLEAN,
              run' = [run EXCEPT ![r].step = "fold", ![r].all = b]
       PROVE  Moves(r)
    <3> DEFINE y == [x EXCEPT !.step = "fold", !.all = b]
    <3>1. y \in Locals /\ run' = [run EXCEPT ![r] = y]
      BY <1>0, <2>2 DEF Locals, Steps, RunTyped
    <3>2. QED BY <1>6, <2>2, <1>0, <3>1, LocalsMove DEF Settle, Active, At, Guarded, Locals
  <2>3. QED BY <1>6, <2>1, <2>2 DEF Settle
<1>7. CASE Fold(r)
  <2>1. ASSUME NEW s \in {"merge", "synth"}, NEW c \in BOOLEAN,
              NEW m \in SUBSET Kids, NEW t \in {"none", "stale", "current"},
              run' = [run EXCEPT ![r].step = s, ![r].clean = c, ![r].missing = m,
                                 ![r].tree = t, ![r].tested = FALSE]
       PROVE  Moves(r)
    <3> DEFINE y == [x EXCEPT !.step = s, !.clean = c, !.missing = m, !.tree = t,
                            !.tested = FALSE]
    <3>1. y \in Locals /\ run' = [run EXCEPT ![r] = y]
      BY <1>0, <2>1 DEF Locals, Steps, RunTyped
    <3>2. QED BY <1>7, <2>1, <1>0, <3>1, LocalsMove DEF Fold, Active, At, Guarded, Locals
  <2>2. PICK merged \in SUBSET Branches(r) : \E clashing \in SUBSET (Branches(r) \ merged) :
          run' = [run EXCEPT
            ![r].step = IF clashing = {} THEN "synth" ELSE "merge",
            ![r].clean = merged # {} /\ clashing = {},
            ![r].missing = clashing,
            ![r].tree = CASE merged # {} -> "current"
                          [] merged = {} /\ @ = "none" -> "none"
                          [] OTHER -> "stale",
            ![r].tested = FALSE]
    BY <1>7, Zenon DEF Fold
  <2>a. PICK clashing \in SUBSET (Branches(r) \ merged) :
          run' = [run EXCEPT
            ![r].step = IF clashing = {} THEN "synth" ELSE "merge",
            ![r].clean = merged # {} /\ clashing = {},
            ![r].missing = clashing,
            ![r].tree = CASE merged # {} -> "current"
                          [] merged = {} /\ @ = "none" -> "none"
                          [] OTHER -> "stale",
            ![r].tested = FALSE]
    BY <2>2, Zenon
  <2> DEFINE s == IF clashing = {} THEN "synth" ELSE "merge"
             c == merged # {} /\ clashing = {}
             t == CASE merged # {} -> "current"
                    [] merged = {} /\ run[r].tree = "none" -> "none"
                    [] OTHER -> "stale"
  <2>3. clashing \in SUBSET Kids  BY DEF Branches
  <2>4. s \in {"merge", "synth"} /\ c \in BOOLEAN /\ t \in {"none", "stale", "current"}
    OBVIOUS
  <2>5. run' = [run EXCEPT ![r].step = s, ![r].clean = c, ![r].missing = clashing,
                           ![r].tree = t, ![r].tested = FALSE]
    BY <2>a
  <2> HIDE DEF s, c, t
  <2>6. QED BY <2>1, <2>3, <2>4, <2>5
<1>8. CASE MergeCheck(r)
  <2>1. CASE To(r, "synth")   BY <1>8, <2>1, StepMoves DEF MergeCheck, Active, At, Steps, Guarded
  <2>2. CASE ~cancel /\ To(r, "resolve")   BY <1>8, <2>2, StepMoves DEF MergeCheck, Active, At, Steps, Guarded
  <2>3. QED BY <1>8, <2>1, <2>2 DEF MergeCheck
<1>9. CASE Resolve(r)
  <2>1. CASE To(r, "merge")   BY <1>9, <2>1, StepMoves DEF Resolve, Active, At, Steps, Guarded
  <2>2. ASSUME NEW s \in {"merge", "synth"}, NEW m \in SUBSET Kids, NEW c \in BOOLEAN,
              run' = [run EXCEPT ![r].step = s, ![r].missing = m, ![r].clean = c]
       PROVE  Moves(r)
    <3> DEFINE y == [x EXCEPT !.step = s, !.missing = m, !.clean = c]
    <3>1. y \in Locals /\ run' = [run EXCEPT ![r] = y]
      BY <1>0, <2>2 DEF Locals, Steps, RunTyped
    <3>2. QED BY <1>9, <2>2, <1>0, <3>1, LocalsMove DEF Resolve, Active, At, Guarded, Locals
  <2>3. CASE To(r, "synth")   BY <1>9, <2>3, StepMoves DEF Resolve, Active, At, Steps, Guarded
  <2>4. ASSUME NEW k \in run[r].missing, NEW pass \in BOOLEAN,
               LET rest == run[r].missing \ {k} IN
                 run' = [run EXCEPT ![r].step = IF rest = {} THEN "synth" ELSE "merge",
                                    ![r].missing = rest, ![r].clean = rest = {} /\ pass]
        PROVE  Moves(r)
    <3> DEFINE rest == run[r].missing \ {k}
               s == IF rest = {} THEN "synth" ELSE "merge"
               c == rest = {} /\ pass
    <3>1. rest \in SUBSET Kids  BY <1>0 DEF Locals
    <3>2. s \in {"merge", "synth"} /\ c \in BOOLEAN  OBVIOUS
    <3>3. run' = [run EXCEPT ![r].step = s, ![r].missing = rest, ![r].clean = c]  BY <2>4
    <3> HIDE DEF rest, s, c
    <3>4. QED BY <2>2, <3>1, <3>2, <3>3
  <2>5. QED BY <1>9, <2>1, <2>3, <2>4 DEF Resolve
<1>10. CASE Synthesize(r)
  <2>1. CASE Leave(r)   BY <1>10, <2>1, LeaveMoves DEF Synthesize, Active, At
  <2>2. ASSUME NEW wire \in Wires,
              run' = [run EXCEPT ![r].step = "decide", ![r].wire = wire, ![r].tested = TRUE]
       PROVE  Moves(r)
    <3> DEFINE y == [x EXCEPT !.step = "decide", !.wire = wire, !.tested = TRUE]
    <3>1. y \in Locals /\ run' = [run EXCEPT ![r] = y]
      BY <1>0, <2>2 DEF Locals, Steps, RunTyped
    <3>2. QED BY <1>10, <2>2, <1>0, <3>1, LocalsMove DEF Synthesize, Active, At, Guarded, Locals
  <2>3. QED BY <1>10, <2>1, <2>2 DEF Synthesize
<1>11. CASE Decide(r)
  <2>1. CASE To(r, "gate")   BY <1>11, <2>1, StepMoves DEF Decide, Active, At, Steps, Guarded
  <2>2. CASE /\ x.wave < FLYWHEEL_REMEDIATE_CAP
           /\ run' = [run EXCEPT ![r].wave = @ + 1,
                ![r].step = IF x.wire = "fixable" THEN "rebase" ELSE "revise"]
    <3> DEFINE w == x.wave + 1
               t == IF x.wire = "fixable" THEN "rebase" ELSE "revise"
               y == [x EXCEPT !.wave = w, !.step = t]
    <3>1. w \in 0 .. FLYWHEEL_REMEDIATE_CAP
      BY <1>0, <2>2 DEF Locals, FLYWHEEL_REMEDIATE_CAP
    <3>2. t \in {"rebase", "revise"} /\ t \in Steps
      BY DEF Steps
    <3>3. run' = [run EXCEPT ![r] = y]
      BY <2>2 DEF RunTyped
    <3> HIDE DEF w, t
    <3>4. y \in Locals /\ y.step = t
      BY <1>0, <3>1, <3>2 DEF Locals
    <3>5. QED BY <1>11, <3>2, <3>3, <3>4, LocalsMove DEF Decide, Active, At, Guarded
  <2>3. QED BY <1>11, <2>1, <2>2 DEF Decide
<1>12. CASE Remediate(r)
  <2>1. CASE To(r, "gate")   BY <1>12, <2>1, StepMoves DEF Remediate, Active, At, Steps, Guarded
  <2>2. CASE To(r, "fold")   BY <1>12, <2>2, StepMoves DEF Remediate, Active, At, Steps, Guarded
  <2>3. CASE To(r, "synth")   BY <1>12, <2>3, StepMoves DEF Remediate, Active, At, Steps, Guarded
  <2>4. QED BY <1>12, <2>1, <2>2, <2>3 DEF Remediate
<1>13. CASE ReviseCheck(r)
  <2>1. CASE To(r, "gate")   BY <1>13, <2>1, StepMoves DEF ReviseCheck, Active, At, Steps, Guarded
  <2>2. CASE ~cancel /\ To(r, "fix")   BY <1>13, <2>2, StepMoves DEF ReviseCheck, Active, At, Steps, Guarded
  <2>3. QED BY <1>13, <2>1, <2>2 DEF ReviseCheck
<1>14. CASE Revise(r)
  <2>1. ASSUME NEW s \in {"gate", "synth"}, NEW t \in BOOLEAN,
              run' = [run EXCEPT ![r].step = s, ![r].tested = t]
       PROVE  Moves(r)
    <3> DEFINE y == [x EXCEPT !.step = s, !.tested = t]
    <3>1. y \in Locals /\ run' = [run EXCEPT ![r] = y]
      BY <1>0, <2>1 DEF Locals, Steps, RunTyped
    <3>2. QED BY <1>14, <2>1, <1>0, <3>1, LocalsMove DEF Revise, Active, At, Guarded, Locals
  <2>2. QED BY <1>14, <2>1 DEF Revise
<1>15. CASE ShipGate(r)
  <2>1. CASE To(r, "record")   BY <1>15, <2>1, StepMoves DEF ShipGate, Active, At, Steps, Guarded
  <2>2. CASE ~cancel /\ To(r, "push")   BY <1>15, <2>2, StepMoves DEF ShipGate, Active, At, Steps, Guarded
  <2>3. QED BY <1>15, <2>1, <2>2 DEF ShipGate
<1>16. CASE Push(r)
  <2>1. CASE To(r, "record")   BY <1>16, <2>1, StepMoves DEF Push, Active, At, Steps, Guarded
  <2>2. QED BY <1>16, <2>1 DEF Push
<1>17. CASE Record(r)
  <2>1. CASE Leave(r)   BY <1>17, <2>1, LeaveMoves DEF Record, Active, At
  <2>2. QED BY <1>17, <2>1 DEF Record
<1>18. CASE DropContext(r)
  BY <1>18, SetStep DEF DropContext, Moves, AtRest, Active, At, Steps, Guarded
<1>19. CASE DropGuard(r)
  BY <1>19, SetStep DEF DropGuard, Moves, AtRest, Active, At, Steps, Guarded
<1>20. QED
  BY <1>1, <1>2, <1>3, <1>4, <1>5, <1>6, <1>7, <1>8, <1>9, <1>10, <1>11, <1>12, <1>13, <1>14, <1>15, <1>16, <1>17, <1>18, <1>19
  DEF Controller
-----------------------------------------------------------------------------
(* The slot *)

\* A run that is accepted gets a number of a run.
LEMMA NextRun == Accepted < MaxRuns => Accepted + 1 \in Runs
<1>1. IsFiniteSet(Runs) /\ Cardinality(Runs) = MaxRuns
  BY DelegationAssumption, FS_Interval DEF Runs
<1>2. Accepted \in Nat
  BY <1>1, FS_Subset, FS_CardinalityType DEF Accepted, AcceptedRuns
<1>3. QED
  BY <1>2, DelegationAssumption DEF Runs

\* A run in the hands of its controller has the slot, unless the slot was taken
\* from it; what is alive or has a line is of such a run.
FlightInv ==
  /\ slot \in Runs \cup {0}
  /\ \A r \in Runs \ forced : Active(r) => slot = r
  /\ \A r \in Runs : At(r, "claimed") => slot = r
  /\ alive \cup treeLines \subseteq Runs \X Kids
  /\ \A p \in alive \cup treeLines : Active(p[1])
  /\ \A r \in Runs : At(r, "guard") => Of(r, alive) = {}

\* The flag stays up for a run that was stopped and still has the slot.
StopInv ==
  \A r \in stopped \ forced : r \in Runs /\ slot = r /\ cancel /\ ~At(r, "claimed")

\* What the other steps do to the runs: the claim, the start, or nothing.
Others ==
  \/ \E l \in Loops : UserRunNow(l) \/ LoopEdit(l)
  \/ \E c \in Callers : Refused(c)
  \/ SchedulerTick
  \/ \E p \in Runs \X Kids : KidCommits(p)
  \/ UNCHANGED delvars

\* None of these steps moves the slot, a controller or a worker.
LEMMA OthersKeep ==
  ASSUME Others
  PROVE  UNCHANGED <<slot, cancel, run, alive, treeLines, stopped, forced>>
  BY DEF Others, UserRunNow, LoopEdit, Refused, SchedulerTick, TickSlot, TickRead, TickEnd,
     TickSkip, TickMarkTerminal, TickFire, Iterate, KidCommits, delvars, claims, workers,
     ghosts

\* A controller touches the slot only when it drops the guard, and starts
\* processes only at the fork.
LEMMA ControllerKeeps ==
  ASSUME NEW r \in Runs, Controller(r)
  PROVE  /\ DropGuard(r) \/ UNCHANGED <<slot, cancel, stopped, forced>>
         /\ DropGuard(r) \/ SpawnKid(r) \/ treeLines' = treeLines
         /\ SpawnKid(r) \/ alive' \subseteq alive
  BY DEF Controller, Validate, Plan, SpawnCheck, SpawnKid, Dispatched, Settle, Fold,
     MergeCheck, Resolve, Synthesize, Decide, Remediate, ReviseCheck, Revise, ShipGate,
     Push, Record, DropContext, DropGuard, claims, workers, ghosts, Of

\* No step lets two runs be under way in the slot, or leaves a worker behind.
LEMMA StepFlight ==
  RunTyped /\ FlightInv /\ [DelegationNext]_delvars => RunTyped' /\ FlightInv'
<1> SUFFICES ASSUME RunTyped, FlightInv, [DelegationNext]_delvars
             PROVE  RunTyped' /\ FlightInv'
  OBVIOUS
<1>0. 0 \notin Runs
  BY DEF Runs
<1>1. CASE Others
  BY <1>1, OthersKeep DEF RunTyped, FlightInv, Active, At, Of
<1>2. ASSUME NEW c \in Callers, ClaimSlot(c) PROVE RunTyped' /\ FlightInv'
  <2>1. UNCHANGED <<alive, treeLines, forced>>
    BY <1>2 DEF ClaimSlot, workers
  <2>2. CASE slot # 0
    BY <1>2, <2>1, <2>2 DEF ClaimSlot, RunTyped, FlightInv, Active, At, Of
  <2>3. CASE slot = 0
    <3> DEFINE r == Accepted + 1
    <3>1. r \in Runs /\ slot' = r /\ To(r, "claimed")
      BY <1>2, <2>3, NextRun DEF ClaimSlot
    <3> HIDE DEF r
    <3>2. /\ RunTyped' /\ run'[r].step = "claimed"
          /\ \A q \in Runs \ {r} : run'[q] = run[q]
      BY <3>1, SetStep DEF Steps
    <3>3. \A q \in Runs : Active(q) => q \in forced
      BY <1>0, <2>3 DEF FlightInv
    <3>4. \A q \in Runs : ~At(q, "claimed")
      BY <1>0, <2>3 DEF FlightInv
    <3>5. QED
      BY <2>1, <3>1, <3>2, <3>3, <3>4 DEF FlightInv, Active, At, Of
  <2>4. QED BY <2>2, <2>3
<1>3. ASSUME NEW c \in Callers, ClearCancel(c) PROVE RunTyped' /\ FlightInv'
  <2>1. PICK r \in Runs : At(r, "claimed") /\ To(r, "validate")
    BY <1>3 DEF ClearCancel
  <2>2. UNCHANGED <<slot, alive, treeLines, forced>>
    BY <1>3 DEF ClearCancel, workers, ghosts
  <2>3. RunTyped' /\ run'[r].step = "validate" /\ \A q \in Runs \ {r} : run'[q] = run[q]
    BY <2>1, SetStep DEF Steps
  <2>4. QED BY <2>1, <2>2, <2>3 DEF FlightInv, Active, At, Of
<1>4. CASE DelegateStop
  BY <1>4 DEF DelegateStop, RunTyped, FlightInv, Active, At, Of, workers
<1>5. CASE ForceClear
  <2>1. \A r \in Runs : ~At(r, "claimed")
    BY <1>5 DEF ForceClear, FlightInv, Silent, At
  <2>2. /\ slot' = 0 /\ forced' = forced \cup {slot} /\ UNCHANGED <<run, alive, treeLines>>
    BY <1>5 DEF ForceClear, workers
  <2>3. QED BY <2>1, <2>2 DEF RunTyped, FlightInv, Active, At, Of
<1>6. ASSUME NEW r \in Runs, Controller(r) PROVE RunTyped' /\ FlightInv'
  <2>1. Moves(r)
    BY <1>6, ControllerMoves
  <2>2. CASE DropGuard(r)
    <3>1. /\ At(r, "guard") /\ run'[r].step = "ended" /\ alive' = alive
          /\ treeLines' = treeLines \ Of(r, treeLines)
          /\ forced' = forced \ {r} /\ slot' = IF slot = r THEN 0 ELSE slot
      BY <2>2, SetStep DEF DropGuard, Steps
    <3>2. \A p \in alive' \cup treeLines' : p[1] # r
      BY <3>1 DEF FlightInv, Of
    <3>3. QED BY <2>1, <3>1, <3>2 DEF FlightInv, Active, At, Of, Moves, AtRest
  <2>3. CASE SpawnKid(r)
    <3>1. /\ At(r, "fork") /\ run'[r].step = "spawn" /\ UNCHANGED <<slot, forced>>
          /\ \E k \in Kids : /\ alive' \subseteq alive \cup {<<r, k>>}
                             /\ treeLines' \subseteq treeLines \cup {<<r, k>>}
      BY <2>3 DEF SpawnKid, claims, ghosts, RunTyped, Locals
    <3>2. QED BY <2>1, <3>1 DEF FlightInv, Active, At, Of, Moves, AtRest
  <2>4. CASE ~DropGuard(r) /\ ~SpawnKid(r)
    <3>1. /\ UNCHANGED <<slot, forced, treeLines>> /\ alive' \subseteq alive
          /\ Active(r) /\ run'[r].step \notin {"none", "ended", "claimed"}
      BY <1>6, <2>1, <2>4, ControllerKeeps DEF Moves
    <3>2. run'[r].step = "guard" => Of(r, alive') = {}
      BY <2>1 DEF Moves, DropContext, Of
    <3>3. QED BY <2>1, <3>1, <3>2 DEF FlightInv, Active, At, Of, Moves, AtRest
  <2>5. QED BY <2>2, <2>3, <2>4
<1>7. QED
  BY <1>1, <1>2, <1>3, <1>4, <1>5, <1>6 DEF DelegationNext, Others

\* No step takes the flag back from a run that was stopped.
LEMMA StepStop ==
  RunTyped /\ FlightInv /\ StopInv /\ [DelegationNext]_delvars => StopInv'
<1> SUFFICES ASSUME RunTyped, FlightInv, StopInv, [DelegationNext]_delvars
             PROVE  StopInv'
  OBVIOUS
<1>0. 0 \notin Runs /\ \A r \in stopped \ forced : r \in Runs /\ slot = r /\ cancel /\ ~At(r, "claimed")
  BY DEF Runs, StopInv
<1>1. CASE Others
  BY <1>1, OthersKeep DEF StopInv, At
<1>2. ASSUME NEW c \in Callers, ClaimSlot(c) PROVE StopInv'
  <2>1. UNCHANGED <<cancel, stopped, forced>>
    BY <1>2 DEF ClaimSlot
  <2>2. CASE slot # 0
    BY <1>2, <2>1, <2>2 DEF ClaimSlot, StopInv, At
  <2>3. CASE slot = 0
    BY <1>0, <2>1, <2>3 DEF StopInv
  <2>4. QED BY <2>2, <2>3
<1>3. ASSUME NEW c \in Callers, ClearCancel(c) PROVE StopInv'
  <2>1. stopped \ forced = {}
    BY <1>0, <1>3 DEF ClearCancel, FlightInv
  <2>2. QED BY <1>3, <2>1 DEF ClearCancel, ghosts, StopInv
<1>4. CASE DelegateStop
  BY <1>0, <1>4 DEF DelegateStop, FlightInv, StopInv, At
<1>5. CASE ForceClear
  <2>1. stopped' \ forced' = {}
    BY <1>0, <1>5 DEF ForceClear
  <2>2. QED BY <1>5, <2>1 DEF StopInv
<1>6. ASSUME NEW r \in Runs, Controller(r) PROVE StopInv'
  <2>1. Moves(r)
    BY <1>6, ControllerMoves
  <2>2. CASE DropGuard(r)
    <3>1. /\ At(r, "guard") /\ stopped' = stopped \ {r} /\ forced' = forced \ {r}
          /\ slot # r => UNCHANGED <<slot, cancel>>
      BY <2>2 DEF DropGuard
    <3>2. QED BY <1>0, <2>1, <3>1 DEF StopInv, At, Moves, AtRest
  <2>3. CASE ~DropGuard(r)
    <3>1. UNCHANGED <<slot, cancel, stopped, forced>>
      BY <1>6, <2>3, ControllerKeeps
    <3>2. QED BY <1>0, <2>1, <3>1 DEF StopInv, At, Moves, AtRest
  <2>4. QED BY <2>2, <2>3
<1>7. QED
  BY <1>1, <1>2, <1>3, <1>4, <1>5, <1>6 DEF DelegationNext, Others

DelegationInv == RunTyped /\ FlightInv /\ StopInv

\* Nothing runs at the start.
LEMMA InitDelegation == DelegationInit => DelegationInv
<1> SUFFICES ASSUME DelegationInit PROVE DelegationInv
  OBVIOUS
<1>1. Unborn \in Locals
  <2>1. Unborn = [Unborn EXCEPT !.step = "none"]
    BY DEF Unborn
  <2>2. QED BY <2>1, UnbornTyped DEF Steps
<1>2. RunTyped
  BY <1>1 DEF DelegationInit, RunTyped
<1>3. \A r \in Runs : run[r].step = "none"
  BY DEF DelegationInit, Unborn
<1>4. slot = 0 /\ alive = {} /\ treeLines = {} /\ stopped = {}
  BY DEF DelegationInit
<1>5. FlightInv
  BY <1>3, <1>4 DEF FlightInv, Active, At, Of
<1>6. StopInv
  BY <1>4 DEF StopInv
<1>7. QED
  BY <1>2, <1>5, <1>6 DEF DelegationInv

\* The slot and the flag are what the invariant says in every reachable state.
THEOREM DelegationInvHolds == DelegationSpec => []DelegationInv
<1>1. DelegationInv /\ [DelegationNext]_delvars => DelegationInv'
  BY StepFlight, StepStop DEF DelegationInv
<1>2. QED
  BY <1>1, InitDelegation, PTL DEF DelegationSpec

\* Single flight: unless a slot was force-cleared, whatever is alive or has a
\* worktree line belongs to the run in the slot.
THEOREM OneFlight == DelegationSpec => []WorkersOfSlot
<1>1. DelegationInv => WorkersOfSlot
  BY DEF DelegationInv, FlightInv, WorkersOfSlot
<1>2. QED
  BY <1>1, DelegationInvHolds, PTL

\* No step starts for a stopped run what Stop forbids.
LEMMA StopStep ==
  ASSUME DelegationInv, [DelegationNext]_delvars,
         NEW r \in stopped \ forced, run'[r].step \in Guarded
  PROVE  run'[r].step = run[r].step
<1>0. r \in Runs /\ slot = r /\ cancel /\ ~At(r, "claimed") /\ r # 0
  BY DEF DelegationInv, StopInv, Runs
<1>1. CASE Others \/ DelegateStop \/ ForceClear
  BY <1>1, OthersKeep DEF DelegateStop, ForceClear
<1>2. ASSUME NEW c \in Callers, ClaimSlot(c) PROVE run'[r].step = run[r].step
  BY <1>0, <1>2 DEF ClaimSlot
<1>3. ASSUME NEW c \in Callers, ClearCancel(c) PROVE run'[r].step = run[r].step
  BY <1>0, <1>3 DEF ClearCancel, DelegationInv, FlightInv
<1>4. ASSUME NEW q \in Runs, Controller(q) PROVE run'[r].step = run[r].step
  BY <1>0, <1>4, ControllerMoves DEF DelegationInv, Moves, AtRest
<1>5. QED
  BY <1>1, <1>2, <1>3, <1>4 DEF DelegationNext, Others

\* Stop is not lost, whatever claims, ticks and ends of other runs come after.
THEOREM StopIsHonoured == DelegationSpec => StopHonoured
<1>1. DelegationInv /\ [DelegationNext]_delvars =>
        [\A r \in stopped \ forced :
           run'[r].step \in Guarded => run'[r].step = run[r].step]_delvars
  BY StopStep
<1>2. QED
  BY <1>1, DelegationInvHolds, PTL DEF DelegationSpec, StopHonoured
-----------------------------------------------------------------------------
(* What the scheduler tick knows *)

Phases == [step : {"idle", "claim", "clear", "read", "scan"}, loop : Loops \cup {NoLoop}]
Looks == [known : SUBSET Runs, hist : [Loops -> Histories], todo : SUBSET Loops]
TickTyped ==
  /\ caller \in [Callers -> Phases] /\ look \in Looks
  /\ hist \in [Loops -> Histories] /\ loopTag \in Loops \cup {NoLoop}

\* While the tick knows of every run, they have all ended: nobody writes a
\* record, its reading stays that of the file, and so does its choice.
Current == look.known = AcceptedRuns /\ caller["sched"].step \in {"read", "scan", "claim"}
InOrder == \E n \in 0 .. MaxRuns : AcceptedRuns = 1 .. n
TickInv ==
  /\ TickTyped /\ InOrder
  /\ look.known \subseteq AcceptedRuns
  /\ Current =>
       /\ \A r \in Runs : ~Active(r)
       /\ caller["sched"].step = "scan" => look.hist = hist
       /\ caller["sched"].step = "claim" =>
            caller["sched"].loop \in Loops /\ ~Concluded(hist[caller["sched"].loop])

\* Runs are numbered in the order of their claims.
LEMMA FreshRun == InOrder => AcceptedRuns = 1 .. Accepted /\ Accepted \in 0 .. MaxRuns
<1> SUFFICES ASSUME NEW n \in 0 .. MaxRuns, AcceptedRuns = 1 .. n
             PROVE  Accepted = n
  BY DEF InOrder
<1>1. n \in Int /\ 1 \in Int /\ n >= 0
  BY DelegationAssumption
<1>2. Cardinality(1 .. n) = n
  BY <1>1, FS_Interval
<1>3. QED
  BY <1>2 DEF Accepted

\* The snapshot that knows of nothing.
LEMMA BlankTyped == Blank \in Looks /\ [l \in Loops |-> NoRecord] \in [Loops -> Histories]
<1>1. NoRecord \in Histories
  BY DEF NoRecord, Histories
<1>2. [l \in Loops |-> NoRecord] \in [Loops -> Histories]
  BY <1>1
<1>3. QED
  BY <1>2 DEF Blank, Looks

\* The tick's own steps, and those of the user between runs.
LEMMA TickSteps ==
  ASSUME RunTyped, FlightInv, TickInv, Others
  PROVE  TickInv'
<1>0. /\ caller \in [Callers -> Phases] /\ look \in Looks /\ hist \in [Loops -> Histories]
      /\ loopTag \in Loops \cup {NoLoop} /\ "sched" \in Callers /\ "user" \in Callers
      /\ "sched" # "user" /\ caller["sched"] \in Phases
  BY DEF TickInv, TickTyped, Callers
<1>1. /\ AcceptedRuns' = AcceptedRuns /\ (\A r \in Runs : Active(r)' <=> Active(r))
      /\ hist' = hist
  BY OthersKeep DEF AcceptedRuns, Active, Others, UserRunNow, LoopEdit, Refused, SchedulerTick,
     TickSlot, TickRead, TickEnd, TickSkip, TickMarkTerminal, TickFire, Iterate, KidCommits,
     delvars, loopvars
<1>2. CASE TickSlot
  <2>1. /\ caller' = [caller EXCEPT !["sched"].step = "read"] /\ slot = 0
        /\ look' = [look EXCEPT !.known = AcceptedRuns \ forced] /\ loopTag' = loopTag
    BY <1>2 DEF TickSlot, CallerTo
  <2>2. AcceptedRuns \subseteq Runs /\ 0 \notin Runs
    BY DEF AcceptedRuns, Runs
  <2>3. TickTyped'
    BY <1>0, <1>1, <2>1, <2>2 DEF TickTyped, Phases, Looks
  <2>4. look'.known = AcceptedRuns \ forced /\ caller'["sched"].step = "read"
    BY <1>0, <2>1 DEF Phases, Looks
  <2>5. look'.known = AcceptedRuns => \A r \in Runs : ~Active(r)
    BY <2>1, <2>2, <2>4 DEF FlightInv, AcceptedRuns, Active
  <2>6. QED BY <1>1, <2>3, <2>4, <2>5 DEF TickInv, InOrder, Current
<1>3. CASE TickRead
  <2>1. /\ caller' = [caller EXCEPT !["sched"].step = "scan"] /\ caller["sched"].step = "read"
        /\ look' = [look EXCEPT !.hist = hist, !.todo = {l \in Loops : enabled[l]}]
        /\ loopTag' = loopTag
    BY <1>3 DEF TickRead, CallerTo
  <2>2. TickTyped'
    BY <1>0, <1>1, <2>1 DEF TickTyped, Phases, Looks
  <2>3. look'.known = look.known /\ look'.hist = hist /\ caller'["sched"].step = "scan"
    BY <1>0, <2>1 DEF Phases, Looks
  <2>4. QED BY <1>1, <2>1, <2>2, <2>3 DEF TickInv, InOrder, Current
<1>4. ASSUME NEW l \in Loops, TickSkip(l) \/ TickMarkTerminal(l) PROVE TickInv'
  <2>1. UNCHANGED <<caller, loopTag>> /\ look' = [look EXCEPT !.todo = @ \ {l}]
    BY <1>4 DEF TickSkip, TickMarkTerminal
  <2>2. TickTyped'
    BY <1>0, <1>1, <2>1 DEF TickTyped, Looks
  <2>3. look'.known = look.known /\ look'.hist = look.hist
    BY <1>0, <2>1 DEF Looks
  <2>4. QED BY <1>1, <2>1, <2>2, <2>3 DEF TickInv, InOrder, Current
<1>5. ASSUME NEW l \in Loops, TickFire(l) PROVE TickInv'
  <2>1. /\ caller["sched"].step = "scan" /\ Fires(look.hist[l]) /\ loopTag' = l
        /\ caller' = [caller EXCEPT !["sched"] = [step |-> "claim", loop |-> l]]
        /\ look' = [Blank EXCEPT !.known = look.known]
    BY <1>5 DEF TickFire, Iterate
  <2>2. [step |-> "claim", loop |-> l] \in Phases /\ [Blank EXCEPT !.known = look.known] \in Looks
    BY <1>0, BlankTyped DEF Phases, Looks
  <2>3. TickTyped'
    BY <1>0, <1>1, <2>1, <2>2 DEF TickTyped
  <2>4. look'.known = look.known
    BY <2>1, BlankTyped DEF Looks
  <2>5. caller'["sched"].step = "claim" /\ caller'["sched"].loop = l
    BY <1>0, <2>1
  <2>6. Current' => Current /\ look.hist = hist
    BY <1>1, <2>1, <2>4 DEF Current, TickInv
  <2>7. look.hist[l].last \in {"none", "fixable"}
    BY <2>1 DEF Fires
  <2>8. QED BY <1>1, <2>3, <2>4, <2>5, <2>6, <2>7 DEF TickInv, InOrder, Concluded
<1>6. CASE TickEnd
  <2>1. /\ caller' = [caller EXCEPT !["sched"] = [step |-> "idle", loop |-> NoLoop]]
        /\ look' = Blank /\ loopTag' = loopTag
    BY <1>6 DEF TickEnd, CallerIdle
  <2>2. [step |-> "idle", loop |-> NoLoop] \in Phases
    BY DEF Phases
  <2>3. TickTyped'
    BY <1>0, <1>1, <2>1, <2>2, BlankTyped DEF TickTyped
  <2>4. look'.known = {} /\ caller'["sched"].step = "idle"
    BY <1>0, <2>1 DEF Blank
  <2>5. QED BY <1>1, <2>3, <2>4 DEF TickInv, InOrder, Current
<1>7. ASSUME NEW l \in Loops, UserRunNow(l) PROVE TickInv'
  <2>1. /\ caller' = [caller EXCEPT !["user"] = [step |-> "claim", loop |-> l]]
        /\ look' = look /\ loopTag' = l
    BY <1>7 DEF UserRunNow, Iterate
  <2>2. [step |-> "claim", loop |-> l] \in Phases
    BY DEF Phases
  <2>3. TickTyped' /\ caller'["sched"] = caller["sched"]
    BY <1>0, <1>1, <2>1, <2>2 DEF TickTyped
  <2>4. QED BY <1>1, <2>1, <2>3 DEF TickInv, InOrder, Current
<1>8. ASSUME NEW c \in Callers, Refused(c) PROVE TickInv'
  <2>1. /\ caller' = [caller EXCEPT ![c] = [step |-> "idle", loop |-> NoLoop]]
        /\ look' = look /\ loopTag' = loopTag
    BY <1>8 DEF Refused, CallerIdle
  <2>2. [step |-> "idle", loop |-> NoLoop] \in Phases
    BY DEF Phases
  <2>3. TickTyped'
        /\ (caller'["sched"] = caller["sched"] \/ caller'["sched"].step = "idle")
    BY <1>0, <1>1, <2>1, <2>2 DEF TickTyped
  <2>4. QED BY <1>1, <2>1, <2>3 DEF TickInv, InOrder, Current
<1>9. CASE UNCHANGED <<caller, look, loopTag>>
  BY <1>1, <1>9 DEF TickInv, TickTyped, InOrder, Current
<1>10. QED
  BY <1>2, <1>3, <1>4, <1>5, <1>6, <1>7, <1>8, <1>9
     DEF Others, SchedulerTick, LoopEdit, KidCommits, delvars, claims

\* A controller acts only for a run that is active, and writes the file then.
LEMMA TickWaits ==
  ASSUME RunTyped, FlightInv, TickInv, NEW r \in Runs, Controller(r)
  PROVE  TickInv'
<1>1. UNCHANGED <<caller, look, loopTag>>
  BY DEF Controller, Validate, Plan, SpawnCheck, SpawnKid, Dispatched, Settle, Fold,
     MergeCheck, Resolve, Synthesize, Decide, Remediate, ReviseCheck, Revise, ShipGate,
     Push, Record, DropContext, DropGuard
<1>2. /\ Active(r) /\ run'[r].step # "none"
      /\ \A q \in Runs \ {r} : run'[q] = run[q]
  <2>1. Moves(r)
    BY ControllerMoves
  <2>2. DropGuard(r) => run'[r].step = "ended"
    BY SetStep DEF DropGuard, Steps
  <2>3. QED BY <2>1, <2>2 DEF Moves, AtRest
<1>3. AcceptedRuns' = AcceptedRuns
  BY <1>2 DEF AcceptedRuns, Active
<1>4. ~Current /\ ~Current'
  BY <1>1, <1>2, <1>3 DEF TickInv, InOrder, Current
<1>5. hist' \in [Loops -> Histories]
  <2>1. hist' = hist \/ Record(r)
    BY DEF Controller, Validate, Plan, SpawnCheck, SpawnKid, Dispatched, Settle, Fold,
       MergeCheck, Resolve, Synthesize, Decide, Remediate, ReviseCheck, Revise, ShipGate,
       Push, DropContext, DropGuard, loopvars
  <2>2. CASE Record(r) /\ loopTag # NoLoop
    <3>1. loopTag \in Loops /\ hist \in [Loops -> Histories] /\ run[r].wire \in Wires
      BY <2>2 DEF TickInv, TickTyped, RunTyped, Locals
    <3>2. [n |-> hist[loopTag].n + 1, last |-> run[r].wire] \in Histories
      BY <3>1 DEF Histories
    <3>3. hist' = [hist EXCEPT ![loopTag] = [n |-> @.n + 1, last |-> run[r].wire]]
      BY <2>2 DEF Record
    <3>4. QED BY <3>1, <3>2, <3>3
  <2>3. QED BY <2>1, <2>2 DEF Record, TickInv, TickTyped
<1>6. QED
  BY <1>1, <1>3, <1>4, <1>5 DEF TickInv, TickTyped, InOrder

\* A claim makes a run the tick does not know of.
LEMMA TickClaims ==
  ASSUME RunTyped, FlightInv, TickInv, NEW c \in Callers, ClaimSlot(c) \/ ClearCancel(c)
  PROVE  TickInv'
<1>0. UNCHANGED <<look, loopTag, hist>> /\ caller \in [Callers -> Phases]
  BY DEF ClaimSlot, ClearCancel, loopvars, TickInv, TickTyped
<1>1. /\ caller' \in [Callers -> Phases]
      /\ caller'["sched"] = caller["sched"] \/ caller'["sched"].step \in {"idle", "clear"}
  <2>1. [step |-> "idle", loop |-> NoLoop] \in Phases
        /\ [caller[c] EXCEPT !.step = "clear"] \in Phases
    BY <1>0 DEF Phases
  <2>2. CallerIdle(c) \/ CallerTo(c, "clear")
    BY DEF ClaimSlot, ClearCancel
  <2>3. CASE CallerIdle(c)
    BY <1>0, <2>1, <2>3 DEF CallerIdle, Callers
  <2>4. CASE CallerTo(c, "clear")
    <3>1. caller' = [caller EXCEPT ![c] = [caller[c] EXCEPT !.step = "clear"]]
      BY <1>0, <2>4 DEF CallerTo
    <3>2. [caller[c] EXCEPT !.step = "clear"].step = "clear"
      BY <1>0 DEF Phases
    <3>3. QED BY <1>0, <2>1, <3>1, <3>2 DEF Callers
  <2>5. QED BY <2>2, <2>3, <2>4
<1>2. TickTyped'
  BY <1>0, <1>1 DEF TickInv, TickTyped
<1>3. CASE run' = run
  BY <1>0, <1>1, <1>2, <1>3 DEF TickInv, InOrder, Current, AcceptedRuns, Active
<1>4. CASE \E r \in Runs : To(r, "claimed") /\ Accepted < MaxRuns /\ r = Accepted + 1
  <2>1. PICK r \in Runs : To(r, "claimed") /\ r = Accepted + 1
    BY <1>4
  <2>2. AcceptedRuns' = AcceptedRuns \cup {r}
    BY <2>1, SetStep DEF Steps, AcceptedRuns
  <2>3. AcceptedRuns = 1 .. Accepted /\ Accepted \in 0 .. MaxRuns
    BY FreshRun DEF TickInv
  <2>4. InOrder'
    <3>1. Accepted + 1 \in 0 .. MaxRuns /\ AcceptedRuns' = 1 .. (Accepted + 1)
      BY <2>1, <2>2, <2>3, DelegationAssumption DEF Runs
    <3>2. PICK n \in 0 .. MaxRuns : n = Accepted + 1
      BY <3>1
    <3>3. AcceptedRuns' = 1 .. n
      BY <3>1, <3>2
    <3>4. QED BY <3>3 DEF InOrder
  <2>5. r \notin look.known /\ r \in AcceptedRuns'
    BY <2>1, <2>2, <2>3 DEF TickInv
  <2>6. look.known # AcceptedRuns'
    BY <2>5
  <2>7. QED BY <1>0, <1>2, <2>2, <2>4, <2>6 DEF TickInv, InOrder, Current
<1>5. CASE \E r \in Runs : At(r, "claimed") /\ To(r, "validate")
  <2>1. PICK r \in Runs : At(r, "claimed") /\ To(r, "validate")
    BY <1>5
  <2>2. AcceptedRuns' = AcceptedRuns /\ Active(r)
    BY <2>1, SetStep DEF Steps, AcceptedRuns, At, Active
  <2>3. ~Current'
    BY <1>0, <1>1, <2>2 DEF TickInv, Current
  <2>4. QED BY <1>0, <1>2, <2>2, <2>3 DEF TickInv, InOrder
<1>6. QED
  BY <1>3, <1>4, <1>5, NextRun DEF ClaimSlot, ClearCancel
\* The tick has read nothing yet.
LEMMA InitTick == DelegationInit => TickInv
<1> SUFFICES ASSUME DelegationInit PROVE TickInv
  OBVIOUS
<1>1. caller \in [Callers -> Phases] /\ caller["sched"].step = "idle"
  BY DEF DelegationInit, Phases, Callers
<1>2. TickTyped
  BY <1>1, BlankTyped DEF DelegationInit, TickTyped
<1>3. AcceptedRuns = {} /\ look.known = {}
  BY DEF DelegationInit, AcceptedRuns, Unborn, Blank
<1>4. InOrder
  <2>1. 0 \in 0 .. MaxRuns /\ 1 .. 0 = {}
    BY DelegationAssumption
  <2>2. QED BY <1>3, <2>1 DEF InOrder
<1>5. QED
  BY <1>1, <1>2, <1>3, <1>4 DEF TickInv, Current

LEMMA StepTick ==
  RunTyped /\ FlightInv /\ TickInv /\ [DelegationNext]_delvars => TickInv'
<1> SUFFICES ASSUME RunTyped, FlightInv, TickInv, [DelegationNext]_delvars
             PROVE  TickInv'
  OBVIOUS
<1>1. CASE Others
  BY <1>1, TickSteps
<1>2. CASE DelegateStop \/ ForceClear
  BY <1>2 DEF DelegateStop, ForceClear, loopvars, TickInv, TickTyped, InOrder, Current,
     AcceptedRuns, Active
<1>3. ASSUME NEW c \in Callers, ClaimSlot(c) \/ ClearCancel(c) PROVE TickInv'
  BY <1>3, TickClaims
<1>4. ASSUME NEW r \in Runs, Controller(r) PROVE TickInv'
  BY <1>4, TickWaits
<1>5. QED
  BY <1>1, <1>2, <1>3, <1>4 DEF DelegationNext, Others

\* What the tick goes by is the history it read, in every reachable state.
THEOREM TickInvHolds == DelegationSpec => []TickInv
<1>1. DelegationInv /\ TickInv /\ [DelegationNext]_delvars => TickInv'
  BY StepTick DEF DelegationInv
<1>2. QED
  BY <1>1, InitTick, DelegationInvHolds, PTL DEF DelegationSpec

\* The tick never fires a loop whose last recorded iteration passed or was
\* rejected, also when that record is written while the tick is under way: the
\* slot it saw free keeps every run it knows of from writing one.
THEOREM TickRespectsVerdicts == DelegationSpec => NoFireAfterVerdict
<1>1. ASSUME DelegationInv, TickInv, NEW l \in Loops,
             caller["sched"] = [step |-> "claim", loop |-> l], look.known = AcceptedRuns
      PROVE  ~Concluded(hist[l])
  <2>1. caller["sched"].step = "claim" /\ caller["sched"].loop = l
    BY <1>1
  <2>2. QED BY <1>1, <2>1 DEF TickInv, Current
<1>2. DelegationInv /\ TickInv =>
        [\A l \in Loops :
           /\ caller["sched"] = [step |-> "claim", loop |-> l] /\ caller'["sched"].step = "clear"
           /\ look.known = AcceptedRuns
           => ~Concluded(hist[l])]_delvars
  BY <1>1
<1>3. QED
  BY <1>2, TickInvHolds, DelegationInvHolds, PTL DEF DelegationSpec, NoFireAfterVerdict
-----------------------------------------------------------------------------
(* The types of the rest.                                                  *)

RestTyped ==
  /\ cancel \in BOOLEAN /\ committed \subseteq Runs \X Kids
  /\ enabled \in [Loops -> BOOLEAN] /\ firer \in [Runs -> Loops \cup {NoLoop}]
  /\ stopped \subseteq Runs /\ forced \subseteq Runs

LEMMA StepRest ==
  ASSUME DelegationInv, TickTyped, RestTyped, [DelegationNext]_delvars
  PROVE  RestTyped'
<1> USE DEF RestTyped, claims, workers, loopvars, ghosts
<1>1. slot \in Runs \cup {0} /\ alive \subseteq Runs \X Kids
  BY DEF DelegationInv, FlightInv
<1>2. CASE Others
  BY <1>2 DEF Others, UserRunNow, LoopEdit, Refused, SchedulerTick, TickSlot, TickRead,
     TickEnd, TickSkip, TickMarkTerminal, TickFire, KidCommits, delvars
<1>3. ASSUME NEW c \in Callers, ClaimSlot(c) PROVE RestTyped'
  <2>1. caller[c].loop \in Loops \cup {NoLoop}
    BY DEF TickTyped, Phases
  <2>2. firer' \in [Runs -> Loops \cup {NoLoop}]
    BY <1>3, <2>1 DEF ClaimSlot
  <2> QED
    BY <1>3, <2>2 DEF ClaimSlot
<1>4. ASSUME NEW c \in Callers, ClearCancel(c) PROVE RestTyped'
  BY <1>4 DEF ClearCancel
<1>5. CASE DelegateStop \/ ForceClear
  BY <1>1, <1>5 DEF DelegateStop, ForceClear
<1>6. ASSUME NEW r \in Runs, Controller(r) PROVE RestTyped'
  <2>1. CASE DropGuard(r)
    BY <2>1 DEF DropGuard
  <2>2. CASE ~DropGuard(r)
    BY <1>6, <2>2 DEF Controller, Validate, Plan, SpawnCheck, SpawnKid, Dispatched, Settle,
       Fold, MergeCheck, Resolve, Synthesize, Decide, Remediate, ReviseCheck, Revise,
       ShipGate, Push, Record, DropContext
  <2> QED
    BY <2>1, <2>2
<1> QED
  BY <1>2, <1>3, <1>4, <1>5, <1>6 DEF DelegationNext, Others

\* The variables have their types, in every reachable state.
THEOREM DelegationTypesHold == DelegationSpec => []DelegationTypeOK
<1>1. DelegationInit => RestTyped
  BY DEF DelegationInit, RestTyped
<1>2. DelegationInv /\ TickInv /\ RestTyped /\ [DelegationNext]_delvars => RestTyped'
  BY StepRest DEF TickInv
<1>3. DelegationInv /\ TickInv /\ RestTyped => DelegationTypeOK
  <2> SUFFICES ASSUME DelegationInv, TickInv, RestTyped PROVE DelegationTypeOK
    OBVIOUS
  <2>1. slot \in 0 .. MaxRuns
    BY DelegationAssumption DEF DelegationInv, FlightInv, Runs
  <2>2. /\ caller \in [Callers -> [step : {"idle", "claim", "clear", "read", "scan"},
                                    loop : Loops \cup {NoLoop}]]
        /\ look.known \subseteq Runs /\ look.hist \in [Loops -> Histories]
        /\ look.todo \subseteq Loops
        /\ hist \in [Loops -> Histories] /\ loopTag \in Loops \cup {NoLoop}
    BY DEF TickInv, TickTyped, Phases, Looks
  <2>3. run \in [Runs -> Locals] /\ alive \subseteq Runs \X Kids /\ treeLines \subseteq Runs \X Kids
    BY DEF DelegationInv, RunTyped, FlightInv
  <2> QED
    BY <2>1, <2>2, <2>3 DEF DelegationTypeOK, RestTyped, Locals
<1> QED
  BY <1>1, <1>2, <1>3, DelegationInvHolds, TickInvHolds, PTL DEF DelegationSpec

-----------------------------------------------------------------------------
(* What is pushed *)

\* The locals of a run on its way to the push: integ_clean speaks of a tree
\* that was just folded and lacks no branch that clashed, and a verdict of a tree that was just tested.
SoundLocals(x) ==
  /\ x.clean => x.tree = "current" /\ x.missing = {}
  /\ x.step \in {"merge", "resolve"} => x.tree = "current"
  /\ x.step \in {"decide", "rebase", "revise", "fix"} => x.tested
  /\ x.step = "rebase" => x.wire = "fixable"
  /\ x.step \in {"revise", "fix"} => x.wire = "review"
  /\ x.step \in {"gate", "push"} /\ x.wire = "pass" => x.tested
  /\ x.step = "push" => x.write /\ x.all /\ x.clean /\ x.wire = "pass"

AfterWave == {"fold", "merge", "resolve", "synth", "decide", "rebase", "revise", "fix",
              "gate", "push"}

\* The branches of its workers.
SoundLines(r) ==
  /\ run[r].step \in AfterWave \cup {"settle"} => Of(r, treeLines) # {}
  /\ run[r].step \in AfterWave /\ run[r].all /\ run[r].write
       => Of(r, treeLines) \subseteq committed

ShipInv == \A r \in Runs : SoundLocals(run[r]) /\ SoundLines(r)

\* A run whose locals, lines and commits stay is as sound as before.
LEMMA SoundStays ==
  ASSUME NEW r, SoundLocals(run[r]), SoundLines(r), run'[r] = run[r],
         Of(r, treeLines') = Of(r, treeLines),
         Of(r, committed) \subseteq Of(r, committed')
  PROVE  SoundLocals(run'[r]) /\ SoundLines(r)'
<1>1. SoundLocals(run'[r])
  BY Zenon
<1>2. SoundLines(r)'
  BY DEF SoundLines, Of
<1>3. QED BY <1>1, <1>2

\* The controller of another run touches neither.
LEMMA OthersLines ==
  ASSUME NEW r \in Runs, NEW q \in Runs \ {r}, Controller(r), treeLines \subseteq Runs \X Kids
  PROVE  Of(q, treeLines') = Of(q, treeLines) /\ Of(q, committed') = Of(q, committed)
<1>1. CASE SpawnKid(r)
  <2>1. committed' = committed
    BY <1>1 DEF SpawnKid
  <2>2. treeLines' = treeLines \/ \E k \in run[r].todo : treeLines' = treeLines \cup {<<r, k>>}
    BY <1>1 DEF SpawnKid
  <2>3. QED BY <2>1, <2>2 DEF Of
<1>2. CASE DropGuard(r)
  BY <1>2 DEF DropGuard, Of
<1>3. CASE ~SpawnKid(r) /\ ~DropGuard(r)
  <2>1. UNCHANGED <<treeLines, committed>>
    BY <1>3 DEF Controller, Validate, Plan, SpawnCheck, Dispatched, Settle, Fold,
     MergeCheck, Resolve, Synthesize, Decide, Remediate, ReviseCheck, Revise, ShipGate,
     Push, Record, DropContext, workers
  <2>2. QED BY <2>1
<1>4. QED BY <1>1, <1>2, <1>3

\* A step of a controller on its own run.
LEMMA ShipMoves ==
  ASSUME RunTyped, NEW r \in Runs, Controller(r), SoundLocals(run[r]), SoundLines(r)
  PROVE  SoundLocals(run'[r]) /\ SoundLines(r)'
<1> DEFINE x == run[r]
           y == run'[r]
           Sound == SoundLocals(y) /\ SoundLines(r)'
<1>0. x \in Locals
  BY DEF RunTyped
<1>a. ASSUME Leave(r) PROVE Sound
  <2>1. y = [Unborn EXCEPT !.step = "drop"]
    BY <1>a, SetLeave
  <2>2. QED BY <2>1 DEF SoundLocals, SoundLines, Unborn, AfterWave
\* A step outside the part from the fold to the push keeps the locals sound.
<1>b. ASSUME NEW s \in Steps, To(r, s), s \notin AfterWave \cup {"settle"} PROVE Sound
  <2>1. y = [x EXCEPT !.step = s]
    BY <1>b, SetStep
  <2>2. QED BY <1>0, <1>b, <2>1 DEF SoundLocals, SoundLines, Locals, AfterWave
\* A step within it needs what the step asks of the locals.
<1>c. ASSUME NEW s \in Steps, To(r, s), s \in AfterWave, x.step \in AfterWave,
             SoundLocals([x EXCEPT !.step = s]), UNCHANGED <<treeLines, committed>>
      PROVE  Sound
  <2>1. y = [x EXCEPT !.step = s]
    BY <1>c, SetStep
  <2>2. QED BY <1>0, <1>c, <2>1 DEF SoundLines, Locals
<1>1. CASE Validate(r)
  BY <1>1, <1>a, <1>b DEF Validate, Steps, AfterWave
<1>2. CASE Plan(r)
  <2>1. CASE Leave(r)   BY <1>a, <2>1
  <2>2. CASE ~Leave(r)
    <3>1. PICK plan \in SUBSET Kids, write, ship, fixes \in BOOLEAN :
            /\ plan # {} /\ (ship => write) /\ (fixes => ship)
            /\ run' = [run EXCEPT ![r].step = "spawn", ![r].todo = plan, ![r].write = write,
                                  ![r].ship = ship, ![r].fixes = fixes]
      BY <1>2, <2>2, Zenon DEF Plan
    <3>2. y.step = "spawn" /\ y.clean = x.clean /\ y.tree = x.tree /\ y.missing = x.missing
      BY <1>0, <3>1 DEF RunTyped, Locals
    <3>3. QED BY <3>2 DEF SoundLocals, SoundLines, AfterWave
  <2>3. QED BY <2>1, <2>2
<1>3. CASE SpawnCheck(r)
  BY <1>3, <1>a, <1>b DEF SpawnCheck, Steps, AfterWave
<1>4. CASE SpawnKid(r)
  <2>1. y.step = "spawn" /\ y.clean = x.clean /\ y.tree = x.tree /\ y.missing = x.missing
    BY <1>0, <1>4 DEF SpawnKid, RunTyped, Locals
  <2>2. QED BY <2>1 DEF SoundLocals, SoundLines, AfterWave
<1>5. CASE Dispatched(r)
  <2>1. CASE Leave(r)   BY <1>a, <2>1
  <2>2. CASE ~Leave(r)
    <3>1. Of(r, treeLines) # {} /\ To(r, "settle") /\ treeLines' = treeLines
      BY <1>5, <2>2 DEF Dispatched, workers
    <3>2. y = [x EXCEPT !.step = "settle"]
      BY <3>1, SetStep DEF Steps
    <3>3. QED BY <1>0, <3>1, <3>2 DEF SoundLocals, SoundLines, Locals, AfterWave
  <2>3. QED BY <2>1, <2>2
<1>6. CASE Settle(r)
  <2>1. CASE Leave(r)   BY <1>a, <2>1
  <2>2. CASE ~Leave(r)
    <3> DEFINE b == x.write => Of(r, treeLines) \subseteq committed
    <3>1. /\ x.step = "settle" /\ UNCHANGED <<treeLines, committed>>
          /\ run' = [run EXCEPT ![r].step = "fold", ![r].all = b]
      BY <1>6, <2>2 DEF Settle, At
    <3>2. y.step = "fold" /\ y.all = b /\ y.write = x.write /\ y.clean = x.clean
          /\ y.tree = x.tree /\ y.missing = x.missing
      BY <1>0, <3>1 DEF RunTyped, Locals
    <3>3. SoundLocals(y)
      BY <3>2 DEF SoundLocals
    <3>4. SoundLines(r)'
      BY <3>1, <3>2 DEF SoundLines, AfterWave
    <3>5. QED BY <3>3, <3>4
  <2>3. QED BY <2>1, <2>2
<1>7. CASE Fold(r)
  <2>1. PICK merged \in SUBSET Branches(r) : \E clashing \in SUBSET (Branches(r) \ merged) :
          /\ IF merged = {} THEN clashing = {} ELSE run[r].write /\ ~cancel
          /\ run' = [run EXCEPT
               ![r].step = IF clashing = {} THEN "synth" ELSE "merge",
               ![r].clean = merged # {} /\ clashing = {},
               ![r].missing = clashing,
               ![r].tree = CASE merged # {} -> "current"
                             [] merged = {} /\ @ = "none" -> "none"
                             [] OTHER -> "stale",
               ![r].tested = FALSE]
    BY <1>7, Zenon DEF Fold
  <2>a. PICK clashing \in SUBSET (Branches(r) \ merged) :
          /\ IF merged = {} THEN clashing = {} ELSE run[r].write /\ ~cancel
          /\ run' = [run EXCEPT
               ![r].step = IF clashing = {} THEN "synth" ELSE "merge",
               ![r].clean = merged # {} /\ clashing = {},
               ![r].missing = clashing,
               ![r].tree = CASE merged # {} -> "current"
                             [] merged = {} /\ @ = "none" -> "none"
                             [] OTHER -> "stale",
               ![r].tested = FALSE]
    BY <2>1, Zenon
  <2>2. x.step = "fold" /\ UNCHANGED <<treeLines, committed>>
    BY <1>7 DEF Fold, At, workers
  <2>3. /\ y.step = IF clashing = {} THEN "synth" ELSE "merge"
        /\ y.clean = (merged # {} /\ clashing = {}) /\ y.missing = clashing
        /\ merged # {} => y.tree = "current"
        /\ merged = {} => clashing = {}
        /\ y.all = x.all /\ y.write = x.write
    BY <1>0, <2>a DEF RunTyped, Locals
  <2>4. SoundLocals(y)
    BY <2>3 DEF SoundLocals
  <2>5. SoundLines(r)'
    BY <2>2, <2>3 DEF SoundLines, AfterWave
  <2>6. QED BY <2>4, <2>5
<1>8. CASE MergeCheck(r)
  <2>0. x.step \in AfterWave /\ UNCHANGED <<treeLines, committed>>
    BY <1>8 DEF MergeCheck, At, AfterWave, workers
  <2>1. CASE To(r, "synth")
    <3>1. SoundLocals([x EXCEPT !.step = "synth"])
      BY <1>0, <1>8, <2>1 DEF MergeCheck, At, SoundLocals, Locals
    <3>2. QED BY <1>c, <2>0, <2>1, <3>1 DEF Steps, AfterWave
  <2>2. CASE To(r, "resolve")
    <3>1. SoundLocals([x EXCEPT !.step = "resolve"])
      BY <1>0, <1>8, <2>2 DEF MergeCheck, At, SoundLocals, Locals
    <3>2. QED BY <1>c, <2>0, <2>2, <3>1 DEF Steps, AfterWave
  <2>3. QED BY <1>8, <2>1, <2>2 DEF MergeCheck
<1>9. CASE Resolve(r)
  <2>0. x.step = "resolve" /\ UNCHANGED <<treeLines, committed>>
    BY <1>9 DEF Resolve, At, workers
  <2>1. CASE To(r, "merge")
    <3>1. SoundLocals([x EXCEPT !.step = "merge"])
      BY <1>0, <2>0 DEF SoundLocals, Locals
    <3>2. QED BY <1>c, <2>0, <2>1, <3>1 DEF Steps, AfterWave
  <2>2. CASE To(r, "synth")
    <3>1. SoundLocals([x EXCEPT !.step = "synth"])
      BY <1>0, <2>0 DEF SoundLocals, Locals
    <3>2. QED BY <1>c, <2>0, <2>2, <3>1 DEF Steps, AfterWave
  <2>3. ASSUME NEW k \in run[r].missing, NEW pass \in BOOLEAN,
               LET rest == run[r].missing \ {k} IN
                 run' = [run EXCEPT ![r].step = IF rest = {} THEN "synth" ELSE "merge",
                                    ![r].missing = rest, ![r].clean = rest = {} /\ pass]
        PROVE  Sound
    <3> DEFINE rest == run[r].missing \ {k}
    <3>1. /\ y.step \in {"merge", "synth"} /\ y.tree = x.tree
          /\ y.clean = (rest = {} /\ pass) /\ y.missing = rest
          /\ y.all = x.all /\ y.write = x.write
      BY <1>0, <2>3 DEF RunTyped, Locals
    <3>2. x.tree = "current"
      BY <2>0 DEF SoundLocals
    <3> HIDE DEF rest
    <3>3. SoundLocals(y)
      BY <3>1, <3>2 DEF SoundLocals
    <3>4. SoundLines(r)'
      BY <2>0, <3>1 DEF SoundLines, AfterWave
    <3>5. QED BY <3>3, <3>4
  <2>4. QED BY <1>9, <2>1, <2>2, <2>3 DEF Resolve
<1>10. CASE Synthesize(r)
  <2>0. x.step = "synth" /\ UNCHANGED <<treeLines, committed>>
    BY <1>10 DEF Synthesize, At, workers
  <2>1. CASE Leave(r)   BY <1>a, <2>1
  <2>2. ASSUME NEW wire \in Wires,
               run' = [run EXCEPT ![r].step = "decide", ![r].wire = wire, ![r].tested = TRUE]
        PROVE  Sound
    <3>1. /\ y.step = "decide" /\ y.tree = x.tree /\ y.clean = x.clean /\ y.missing = x.missing /\ y.tested
          /\ y.all = x.all /\ y.write = x.write
      BY <1>0, <2>2 DEF RunTyped, Locals
    <3>2. SoundLocals(y)
      BY <3>1 DEF SoundLocals
    <3>3. SoundLines(r)'
      BY <2>0, <3>1 DEF SoundLines, AfterWave
    <3>4. QED BY <3>2, <3>3
  <2>3. QED BY <1>10, <2>1, <2>2 DEF Synthesize
<1>11. CASE Decide(r)
  <2>0. x.step = "decide" /\ UNCHANGED <<treeLines, committed>>
    BY <1>11 DEF Decide, At, workers
  <2>1. CASE To(r, "gate")
    <3>1. SoundLocals([x EXCEPT !.step = "gate"])
      BY <1>0, <2>0 DEF SoundLocals, Locals
    <3>2. QED BY <1>c, <2>0, <2>1, <3>1 DEF Steps, AfterWave
  <2>2. CASE /\ x.wire \in {"fixable", "review"}
             /\ run' = [run EXCEPT ![r].wave = @ + 1,
                  ![r].step = IF x.wire = "fixable" THEN "rebase" ELSE "revise"]
    <3>1. /\ y.step = IF x.wire = "fixable" THEN "rebase" ELSE "revise"
          /\ y.tree = x.tree /\ y.clean = x.clean /\ y.missing = x.missing /\ y.tested = x.tested
          /\ y.wire = x.wire /\ y.all = x.all /\ y.write = x.write
      BY <1>0, <2>2 DEF RunTyped, Locals
    <3>2. /\ x.clean => x.tree = "current" /\ x.missing = {}
          /\ x.tested
      BY <2>0 DEF SoundLocals
    <3>3. (y.clean => y.tree = "current" /\ y.missing = {}) /\ y.tested
      BY <3>1, <3>2, Zenon
    <3>4. /\ y.step \in {"rebase", "revise"}
          /\ y.step = "rebase" => y.wire = "fixable"
          /\ y.step = "revise" => y.wire = "review"
      BY <2>2, <3>1
    <3>5. SoundLocals(y)
      BY <3>3, <3>4 DEF SoundLocals
    <3>6. SoundLines(r)'
      BY <2>0, <3>1 DEF SoundLines, AfterWave
    <3>7. QED BY <3>5, <3>6
  <2>3. QED BY <1>11, <2>1, <2>2 DEF Decide
<1>12. CASE Remediate(r)
  <2>0. x.step \in AfterWave /\ UNCHANGED <<treeLines, committed>>
    BY <1>12 DEF Remediate, At, AfterWave, workers
  <2>1. CASE To(r, "gate")
    <3>1. SoundLocals([x EXCEPT !.step = "gate"])
      BY <1>0, <1>12, <2>1 DEF Remediate, At, SoundLocals, Locals
    <3>2. QED BY <1>c, <2>0, <2>1, <3>1 DEF Steps, AfterWave
  <2>2. CASE To(r, "fold")
    <3>1. SoundLocals([x EXCEPT !.step = "fold"])
      BY <1>0, <1>12, <2>2 DEF Remediate, At, SoundLocals, Locals
    <3>2. QED BY <1>c, <2>0, <2>2, <3>1 DEF Steps, AfterWave
  <2>3. CASE To(r, "synth")
    <3>1. SoundLocals([x EXCEPT !.step = "synth"])
      BY <1>0, <1>12, <2>3 DEF Remediate, At, SoundLocals, Locals
    <3>2. QED BY <1>c, <2>0, <2>3, <3>1 DEF Steps, AfterWave
  <2>4. QED BY <1>12, <2>1, <2>2, <2>3 DEF Remediate
<1>13. CASE ReviseCheck(r)
  <2>0. x.step \in AfterWave /\ UNCHANGED <<treeLines, committed>>
    BY <1>13 DEF ReviseCheck, At, AfterWave, workers
  <2>1. CASE To(r, "gate")
    <3>1. SoundLocals([x EXCEPT !.step = "gate"])
      BY <1>0, <1>13, <2>1 DEF ReviseCheck, At, SoundLocals, Locals
    <3>2. QED BY <1>c, <2>0, <2>1, <3>1 DEF Steps, AfterWave
  <2>2. CASE To(r, "fix")
    <3>1. SoundLocals([x EXCEPT !.step = "fix"])
      BY <1>0, <1>13, <2>2 DEF ReviseCheck, At, SoundLocals, Locals
    <3>2. QED BY <1>c, <2>0, <2>2, <3>1 DEF Steps, AfterWave
  <2>3. QED BY <1>13, <2>1, <2>2 DEF ReviseCheck
<1>14. CASE Revise(r)
  <2>0. x.step = "fix" /\ UNCHANGED <<treeLines, committed>>
    BY <1>14 DEF Revise, At, workers
  <2>1. PICK next \in {"gate", "synth"}, moved \in BOOLEAN :
          run' = [run EXCEPT ![r].step = next, ![r].tested = @ /\ ~moved]
    BY <1>14, Zenon DEF Revise
  <2>2. /\ y.step = next
        /\ y.tree = x.tree /\ y.clean = x.clean /\ y.missing = x.missing
        /\ y.wire = x.wire /\ y.all = x.all /\ y.write = x.write
    BY <1>0, <2>1 DEF RunTyped, Locals
  <2>3. SoundLocals(y)
    BY <2>0, <2>2 DEF SoundLocals
  <2>4. SoundLines(r)'
    BY <2>0, <2>2 DEF SoundLines, AfterWave
  <2>5. QED BY <2>3, <2>4
<1>15. CASE ShipGate(r)
  <2>0. x.step \in AfterWave /\ UNCHANGED <<treeLines, committed>>
    BY <1>15 DEF ShipGate, At, AfterWave, workers
  <2>1. CASE To(r, "record")   BY <1>b, <2>1 DEF Steps, AfterWave
  <2>2. CASE /\ x.write /\ x.wire = "pass" /\ x.clean /\ x.all
           /\ To(r, "push")
    <3>1. SoundLocals([x EXCEPT !.step = "push"])
      BY <1>0, <1>15, <2>2 DEF ShipGate, At, SoundLocals, Locals
    <3>2. QED BY <1>c, <2>0, <2>2, <3>1 DEF Steps, AfterWave
  <2>3. QED BY <1>15, <2>1, <2>2 DEF ShipGate
<1>16. CASE Push(r)
  BY <1>16, <1>b DEF Push, Steps, AfterWave
<1>17. CASE Record(r)
  BY <1>17, <1>a DEF Record
<1>18. CASE DropContext(r)
  BY <1>18, <1>b DEF DropContext, Steps, AfterWave
<1>19. CASE DropGuard(r)
  BY <1>19, <1>b DEF DropGuard, Steps, AfterWave
<1>20. QED
  BY <1>1, <1>2, <1>3, <1>4, <1>5, <1>6, <1>7, <1>8, <1>9, <1>10, <1>11, <1>12, <1>13, <1>14, <1>15, <1>16, <1>17, <1>18, <1>19
  DEF Controller

\* No step makes a run unsound.
LEMMA StepShip ==
  RunTyped /\ FlightInv /\ ShipInv /\ [DelegationNext]_delvars => ShipInv'
<1> SUFFICES ASSUME RunTyped, FlightInv, ShipInv, [DelegationNext]_delvars
             PROVE  ShipInv'
  OBVIOUS
<1> DEFINE Sound(q) == SoundLocals(run'[q]) /\ SoundLines(q)'
<1> SUFFICES ASSUME NEW q \in Runs PROVE Sound(q)
  BY DEF ShipInv
<1>0. SoundLocals(run[q]) /\ SoundLines(q)
  BY DEF ShipInv
\* Going to a step before the fold, with the other locals as they were.
<1>a. ASSUME NEW r \in Runs, NEW s \in {"claimed", "validate"}, To(r, s),
             UNCHANGED <<treeLines, committed>>
      PROVE  Sound(q)
  <2>0. s \in Steps
    BY DEF Steps
  <2>1. CASE q = r
    <3>1. run'[q] = [run[q] EXCEPT !.step = s] /\ run[q] \in Locals
      BY <1>a, <2>0, <2>1, SetStep DEF RunTyped
    <3>2. QED BY <1>0, <3>1 DEF SoundLocals, SoundLines, Locals, AfterWave
  <2>2. CASE q # r
    <3>1. run'[q] = run[q]
      BY <1>a, <2>0, <2>2, SetStep
    <3>2. QED BY <1>0, <1>a, <3>1, SoundStays
  <2>3. QED BY <2>1, <2>2
<1>1. CASE Others \/ DelegateStop \/ ForceClear
  <2>1. UNCHANGED <<run, treeLines>> /\ committed \subseteq committed'
    BY <1>1 DEF Others, UserRunNow, LoopEdit, Refused, SchedulerTick, TickSlot, TickRead,
       TickEnd, TickSkip, TickMarkTerminal, TickFire, Iterate, KidCommits, delvars, workers,
       DelegateStop, ForceClear
  <2>2. run'[q] = run[q] /\ Of(q, treeLines') = Of(q, treeLines)
        /\ Of(q, committed) \subseteq Of(q, committed')
    BY <2>1 DEF Of
  <2>3. QED BY <1>0, <2>2, SoundStays
<1>2. ASSUME NEW c \in Callers, ClaimSlot(c) PROVE Sound(q)
  <2>1. CASE slot # 0
    <3>1. UNCHANGED <<run, treeLines, committed>>
      BY <1>2, <2>1 DEF ClaimSlot, workers
    <3>2. QED BY <1>0, <3>1, SoundStays
  <2>2. CASE slot = 0
    <3>1. /\ Accepted + 1 \in Runs /\ To(Accepted + 1, "claimed")
          /\ UNCHANGED <<treeLines, committed>>
      BY <1>2, <2>2, NextRun DEF ClaimSlot, workers
    <3>2. QED BY <1>a, <3>1
  <2>3. QED BY <2>1, <2>2
<1>3. ASSUME NEW c \in Callers, ClearCancel(c) PROVE Sound(q)
  <2>1. \E r \in Runs : To(r, "validate")
    BY <1>3 DEF ClearCancel
  <2>2. UNCHANGED <<treeLines, committed>>
    BY <1>3 DEF ClearCancel, workers
  <2>3. QED BY <1>a, <2>1, <2>2
<1>4. ASSUME NEW r \in Runs, Controller(r) PROVE Sound(q)
  <2>1. CASE q = r
    BY <1>0, <1>4, <2>1, ShipMoves
  <2>2. CASE q # r
    <3>1. run'[q] = run[q]
      BY <1>4, <2>2, ControllerMoves DEF Moves, AtRest
    <3>2. treeLines \subseteq Runs \X Kids
      BY DEF FlightInv
    <3>3. Of(q, treeLines') = Of(q, treeLines) /\ Of(q, committed') = Of(q, committed)
      BY <1>4, <2>2, <3>2, OthersLines
    <3>4. QED BY <1>0, <3>1, <3>3, SoundStays
  <2>3. QED BY <2>1, <2>2
<1>5. QED
  BY <1>1, <1>2, <1>3, <1>4 DEF DelegationNext, Others

\* What is pushed is what was proven: the tree of the last fold, with every
\* branch that clashed reconciled in it, unchanged since a verdict of pass, of a
\* run whose workers have all committed.  A branch git failed on may be missing.
THEOREM ShipsTested == DelegationSpec => []ShipsWhatWasTested
<1>1. DelegationInit => ShipInv
  BY DEF DelegationInit, ShipInv, SoundLocals, SoundLines, Unborn, AfterWave
<1>2. DelegationInv /\ ShipInv /\ [DelegationNext]_delvars => ShipInv'
  BY StepShip DEF DelegationInv
<1>3. ShipInv => ShipsWhatWasTested
  BY DEF ShipInv, SoundLocals, SoundLines, ShipsWhatWasTested, At, AfterWave
<1>4. QED
  BY <1>1, <1>2, <1>3, DelegationInvHolds, PTL DEF DelegationSpec

-----------------------------------------------------------------------------
(* Bridge runs.                                                            *)

Jobs == [step : {"none", "fold", "mount", "mark", "folded", "read", "truth", "suites",
                 "gates", "route", "push"},
         fold : Contents, refused : SUBSET CodePanes, integ : BOOLEAN,
         refreshed : BOOLEAN, suites : SUBSET Suites, retry : BOOLEAN, fail : BOOLEAN,
         unverified : BOOLEAN, truth : BOOLEAN, verdict : {"pass", "hold", "reject"},
         gates : SUBSET Gates, asked : Contents, seen : SUBSET Contents,
         objected : BOOLEAN, degraded : BOOLEAN]

Typed ==
  /\ commits \in Contents
  /\ tree \in [there : BOOLEAN, has : Contents]
  /\ job \in Jobs

FoldSteps == {"fold", "mount", "mark", "folded"}
TestSteps == {"suites", "gates", "route"}

\* What is under way fits the frontend's phase of the run.
BridgePhases ==
  /\ job.step = "none" => ui \in {"held", "live", "prd", "closed"}
  /\ job.step \in FoldSteps => ui \in {"assembling", "busy"}
  /\ job.step \in TestSteps \cup {"read", "truth"} => ui = "busy"
  /\ job.step = "push" => ui = "prd"

\* Until the suites start nothing is tested and only git truth has objected.
Untested ==
  job.step \in FoldSteps \cup {"read", "truth"} =>
    job.seen = {} /\ ~job.fail /\ ~job.unverified /\ (job.objected => ~job.truth)

\* The suites see one tree, and whatever objects keeps the verdict from a pass.
Tested ==
  /\ job.step = "suites" =>
       /\ job.objected => job.fail \/ job.unverified \/ ~job.truth
       /\ job.seen = {} => job.suites # {} \/ job.fail \/ job.unverified
       /\ job.seen \subseteq {Target}
  /\ job.step \in {"gates", "route"} /\ job.verdict = "pass" =>
       ~job.objected /\ job.seen = {Target}

\* A synthesis that tests main has no marker or no tree to offer.
OffTree ==
  ui = "busy" /\ job.step \notin {"read", "none", "mark"} /\ ~OnTree => marker = "none" \/ ~tree.there

\* A pull request that may be opened, or was, is for the tree final.md names.
Offered ==
  /\ ui = "prd" => doc.there /\ ~doc.objected /\ (tree.there => doc.seen = {tree.has})
  /\ pushed.there => /\ ui \in {"prd", "closed"}
                     /\ doc.there /\ ~doc.objected /\ doc.seen = {pushed.has}

BridgeInv == Typed /\ BridgePhases /\ Untested /\ Tested /\ OffTree /\ Offered

\* The run has not begun.
LEMMA InitBridge == BridgeInit => BridgeInv
<1> SUFFICES ASSUME BridgeInit PROVE BridgeInv
  OBVIOUS
<1>1. MainTree \in Contents
  BY BridgeAssumption DEF MainTree, Contents
<1>2. FALSE \in BOOLEAN /\ TRUE \in BOOLEAN
  BY Zenon
<1>3. NoJob \in Jobs
  BY <1>1, <1>2 DEF NoJob, Jobs
<1>4. Typed
  BY <1>1, <1>2, <1>3 DEF BridgeInit, Typed
<1>5. job.step = "none"
  BY DEF BridgeInit, NoJob
<1>6. QED
  BY <1>4, <1>5 DEF BridgeInit, BridgeInv, BridgePhases, Untested, Tested, OffTree, Offered,
     FoldSteps, TestSteps

\* A run that does nothing has its types.
LEMMA NoJobTyped == NoJob \in Jobs
<1>1. MainTree \in Contents
  BY BridgeAssumption DEF MainTree, Contents
<1>2. FALSE \in BOOLEAN /\ TRUE \in BOOLEAN
  BY Zenon
<1>3. QED
  BY <1>1, <1>2 DEF NoJob, Jobs

\* A tree that is removed is still a tree.
LEMMA TreeGone ==
  ASSUME tree \in [there : BOOLEAN, has : Contents]
  PROVE  [tree EXCEPT !.there = FALSE] \in [there : BOOLEAN, has : Contents]
<1>1. FALSE \in BOOLEAN
  BY Zenon
<1>2. QED
  BY <1>1

\* The locals a suite may change.
LEMMA SuiteFields ==
  ASSUME job \in Jobs, NEW q \in SUBSET Suites, NEW e \in BOOLEAN, NEW g \in BOOLEAN,
         NEW u \in BOOLEAN, NEW n \in SUBSET Contents, NEW b \in BOOLEAN,
         job' = [job EXCEPT !.suites = q, !.retry = e, !.fail = g, !.unverified = u,
                            !.seen = n, !.objected = b]
  PROVE  job' \in Jobs
<1> DEFINE x1 == [job EXCEPT !.suites = q, !.retry = e]
           x2 == [x1 EXCEPT !.fail = g, !.unverified = u]
           x3 == [x2 EXCEPT !.seen = n, !.objected = b]
<1>1. job' = x3
  OBVIOUS
<1>2. x1 \in Jobs
  BY DEF Jobs
<1> HIDE DEF x1
<1>3. x2 \in Jobs
  BY <1>2 DEF Jobs
<1> HIDE DEF x2
<1>4. x3 \in Jobs
  BY <1>3 DEF Jobs
<1>5. QED BY <1>1, <1>4

\* The end of a suite, whatever its outcome.
LEMMA SuiteMoves ==
  ASSUME job \in Jobs, tree.has \in Contents, NEW t, NEW o \in {"ok", "fail", "unverified"},
         SuiteEnds(t, o)
  PROVE  /\ job' \in Jobs
         /\ job'.step = job.step /\ job'.suites = job.suites \ {t} /\ ~job'.retry
         /\ job'.truth = job.truth /\ job'.verdict = job.verdict
         /\ job'.integ = job.integ /\ job'.refreshed = job.refreshed
         /\ o = "ok" => /\ job'.seen = job.seen \cup {Target}
                        /\ job'.fail = job.fail /\ job'.unverified = job.unverified
                        /\ job'.objected = job.objected
         /\ o # "ok" => job'.seen = job.seen /\ (job'.fail \/ job'.unverified)
<1> DEFINE f == job.fail \/ o = "fail"
           u == job.unverified \/ o = "unverified"
           b == job.objected \/ o # "ok"
           n == IF o = "ok" THEN job.seen \cup {Target} ELSE job.seen
           q == job.suites \ {t}
<1>1. f \in BOOLEAN /\ u \in BOOLEAN /\ b \in BOOLEAN /\ FALSE \in BOOLEAN
  BY Zenon
<1>2. MainTree \in Contents /\ Target \in Contents
  BY BridgeAssumption DEF MainTree, Contents, Target
<1>3. n \in SUBSET Contents /\ q \in SUBSET Suites
  BY <1>2 DEF Jobs
<1>4. job' = [job EXCEPT !.suites = q, !.retry = FALSE, !.fail = f, !.unverified = u,
                         !.seen = n, !.objected = b]
  BY DEF SuiteEnds
<1>5. /\ o = "ok" => f = job.fail /\ u = job.unverified /\ b = job.objected
      /\ o # "ok" => f \/ u
  <2>1. job.fail \in BOOLEAN /\ job.unverified \in BOOLEAN /\ job.objected \in BOOLEAN
    BY DEF Jobs
  <2>2. QED BY <2>1
<1>6. /\ o = "ok" => n = job.seen \cup {Target}
      /\ o # "ok" => n = job.seen
  OBVIOUS
<1> HIDE DEF f, u, b, n, q
<1>7. job' = [job EXCEPT !.suites = q, !.retry = FALSE, !.fail = f, !.unverified = u,
                         !.seen = n, !.objected = b] /\ job' \in Jobs
  BY <1>1, <1>3, <1>4, SuiteFields
<1>9. /\ job'.step = job.step /\ job'.suites = q /\ job'.retry = FALSE
      /\ job'.truth = job.truth /\ job'.verdict = job.verdict
      /\ job'.integ = job.integ /\ job'.refreshed = job.refreshed
  BY <1>4 DEF Jobs
<1>10. job'.fail = f /\ job'.unverified = u /\ job'.seen = n /\ job'.objected = b
  BY <1>4 DEF Jobs
<1>11. QED
  BY <1>5, <1>6, <1>7, <1>9, <1>10 DEF q

\* A suite ends, or is tried once more.
LEMMA SuiteCases ==
  ASSUME job \in Jobs, NEW t \in Suites, RunSuite(t)
  PROVE  /\ job.step = "suites" /\ t \in job.suites
         /\ \/ \E o \in {"ok", "fail", "unverified"} : SuiteEnds(t, o)
            \/ job' = [job EXCEPT !.retry = TRUE]
         /\ UNCHANGED <<commits, tree, marker, ui, doc, pushed, told>>
  BY DEF RunSuite, Doing

\* The start of a synthesis.
LEMMA ReadMoves ==
  ASSUME job \in Jobs, ReadRun, ~Fails
  PROVE  /\ job' \in Jobs /\ job'.step = "truth"
         /\ job'.integ = (marker # "none" /\ tree.there)
         /\ job'.refreshed = job.refreshed /\ job'.seen = job.seen /\ job'.fail = job.fail
         /\ job'.unverified = job.unverified /\ job'.objected = job.objected
         /\ job'.truth = job.truth /\ job'.asked = job.asked /\ job'.degraded = job.degraded
         /\ ui' = ui
<1> DEFINE b == marker # "none" /\ tree.there
<1>1. b \in BOOLEAN
  BY Zenon
<1>2. job' = [job EXCEPT !.step = "truth", !.integ = b] /\ ui' = ui
  BY DEF ReadRun
<1>3. b <=> marker # "none" /\ tree.there
  OBVIOUS
<1> HIDE DEF b
<1>4. /\ job' \in Jobs /\ job'.step = "truth" /\ job'.integ = b
      /\ job'.refreshed = job.refreshed /\ job'.seen = job.seen /\ job'.fail = job.fail
      /\ job'.unverified = job.unverified /\ job'.objected = job.objected
      /\ job'.truth = job.truth /\ job'.asked = job.asked /\ job'.degraded = job.degraded
  BY <1>1, <1>2 DEF Jobs
<1>5. QED
  BY <1>2, <1>4, Zenon DEF b

\* No step takes the run out of its types.
LEMMA StepTyped == Typed /\ [BridgeNext]_brvars => Typed'
<1> SUFFICES ASSUME Typed, [BridgeNext]_brvars
             PROVE  Typed'
  OBVIOUS
<1> USE DEF Typed, Jobs, Doing, Then
<1>1. ASSUME NEW p \in CodePanes, PaneCommits(p) PROVE Typed'
  <2>1. commits' \in Contents
    BY <1>1, BridgeAssumption DEF PaneCommits, Contents
  <2>2. QED BY <1>1, <2>1 DEF PaneCommits
<1>2. CASE MarkerAges
  BY <1>2, NoJobTyped DEF MarkerAges
<1>3. CASE CollectIntegrations
  BY <1>3, TreeGone DEF CollectIntegrations
<1>4. CASE UiAssemble
  BY <1>4, NoJobTyped DEF UiAssemble, NoJob
<1>5. CASE FoldBranches
  <2>1. PICK in \in SUBSET HaveCommits : job' = [job EXCEPT
         !.step = IF in = {} THEN "folded" ELSE "mount",
         !.fold = [p \in CodePanes |-> IF p \in in THEN commits[p] ELSE 0],
         !.refused = HaveCommits \ in, !.degraded = in = {}]
    BY <1>5, Zenon DEF FoldBranches
  <2> DEFINE w == [p \in CodePanes |-> IF p \in in THEN commits[p] ELSE 0]
             b == in = {}
             t == IF in = {} THEN "folded" ELSE "mount"
             x == HaveCommits \ in
  <2>2. w \in Contents /\ x \in SUBSET CodePanes /\ t \in {"folded", "mount"}
    BY BridgeAssumption DEF Contents, HaveCommits
  <2>3. b \in BOOLEAN
    BY Zenon
  <2>4. job' = [job EXCEPT !.step = t, !.fold = w, !.refused = x, !.degraded = b]
    BY <2>1
  <2> HIDE DEF w, b, t, x
  <2>5. job' \in Jobs
    BY <2>2, <2>3, <2>4
  <2>6. QED BY <1>5, <2>5 DEF FoldBranches
<1>6. CASE MountTree
  <2>1. FALSE \in BOOLEAN /\ TRUE \in BOOLEAN
    BY Zenon
  <2>2. CASE job' = [job EXCEPT !.step = "folded", !.degraded = TRUE]
             /\ tree' \in {tree, [tree EXCEPT !.there = FALSE]}
    <3>1. job' \in Jobs
      BY <2>1, <2>2
    <3>2. QED BY <1>6, <2>2, <3>1, TreeGone DEF MountTree
  <2>3. CASE Then("mark") /\ tree' = [there |-> TRUE, has |-> job.fold]
    BY <1>6, <2>1, <2>3 DEF MountTree
  <2>4. QED BY <1>6, <2>2, <2>3 DEF MountTree
<1>7. CASE WriteMarker
  BY <1>7, NoJobTyped DEF WriteMarker
<1>8. CASE Assembled
  BY <1>8, NoJobTyped DEF Assembled, NoJob
<1>9. CASE UiSynthesize
  BY <1>9, NoJobTyped DEF UiSynthesize, NoJob
<1>10. CASE ReadRun
  <2>0. UNCHANGED <<commits, tree, marker, doc, pushed>> /\ job.step = "read"
    BY <1>10 DEF ReadRun
  <2>1. CASE Fails
    BY <2>0, <2>1, NoJobTyped DEF Fails, NoJob
  <2>2. CASE ~Fails
    BY <1>10, <2>0, <2>2, ReadMoves
  <2>3. QED BY <2>1, <2>2
<1>11. CASE GatherTruth
  <2>1. PICK t \in BOOLEAN :
          job' = [job EXCEPT !.truth = t, !.objected = ~t,
                             !.step = IF HaveCommits = {} THEN "folded" ELSE "fold"]
    BY <1>11, Zenon DEF GatherTruth
  <2> DEFINE b == ~t
  <2>2. b \in BOOLEAN
    BY Zenon
  <2>3. job' = [job EXCEPT !.truth = t, !.objected = b,
                           !.step = IF HaveCommits = {} THEN "folded" ELSE "fold"]
    BY <2>1
  <2> HIDE DEF b
  <2>4. job' \in Jobs
    BY <2>2, <2>3
  <2>5. QED BY <1>11, <2>4 DEF GatherTruth
<1>12. CASE ResolveSuites
  BY <1>12, NoJobTyped DEF ResolveSuites
<1>13. ASSUME NEW s \in Suites, RunSuite(s) PROVE Typed'
  <2>1. CASE job' = [job EXCEPT !.retry = TRUE]
    BY <1>13, <2>1, SuiteCases
  <2>2. ASSUME NEW o \in {"ok", "fail", "unverified"}, SuiteEnds(s, o) PROVE Typed'
    BY <1>13, <2>2, SuiteCases, SuiteMoves
  <2>3. QED BY <1>13, <2>1, <2>2, SuiteCases
<1>14. CASE Judge
  BY <1>14, NoJobTyped DEF Judge, BridgeVerdict
<1>15. ASSUME NEW g \in Gates, RunGate(g) PROVE Typed'
  <2>1. PICK objects \in BOOLEAN : job' = [job EXCEPT
         !.gates = @ \ {g}, !.objected = @ \/ objects,
         !.verdict = IF objects /\ @ = "pass" THEN "hold" ELSE @]
    BY <1>15, Zenon DEF RunGate
  <2> DEFINE b == job.objected \/ objects
             v == IF objects /\ job.verdict = "pass" THEN "hold" ELSE job.verdict
             n == job.gates \ {g}
  <2>2. b \in BOOLEAN
    BY Zenon
  <2>3. v \in {"pass", "hold", "reject"} /\ n \in SUBSET Gates
    OBVIOUS
  <2>4. job' = [job EXCEPT !.gates = n, !.objected = b, !.verdict = v]
    BY <2>1
  <2> HIDE DEF b, v, n
  <2>5. job' \in Jobs
    BY <2>2, <2>3, <2>4
  <2>6. QED BY <1>15, <2>5 DEF RunGate
<1>16. CASE Compose
  <2>1. CASE Fails
    BY <1>16, <2>1, NoJobTyped DEF Compose, Fails
  <2>2. CASE ~Fails
    BY <1>16, <2>2 DEF Compose
  <2>3. QED BY <2>1, <2>2
<1>17. CASE RouteDoc
  BY <1>17, NoJobTyped DEF RouteDoc, NoJob, NoDoc, FinalDoc
<1>18. CASE OpenPr
  BY <1>18, NoJobTyped DEF OpenPr
<1>19. CASE PushBranch
  BY <1>19, NoJobTyped DEF PushBranch, NoJob
<1>20. CASE AppDies
  BY <1>20, NoJobTyped DEF AppDies, NoJob
<1>21. CASE UNCHANGED brvars
  BY <1>21, NoJobTyped DEF brvars
<1>22. QED
  BY <1>1, <1>2, <1>3, <1>4, <1>5, <1>6, <1>7, <1>8, <1>9, <1>10, <1>11, <1>12, <1>13, <1>14, <1>15, <1>16, <1>17, <1>18, <1>19, <1>20, <1>21
  DEF BridgeNext

\* No step starts two jobs at once.
LEMMA StepPhases == Typed /\ BridgePhases /\ [BridgeNext]_brvars => BridgePhases'
<1> SUFFICES ASSUME Typed, BridgePhases, [BridgeNext]_brvars
             PROVE  BridgePhases'
  OBVIOUS
<1> USE DEF Typed, Jobs, Doing, Then, BridgePhases, FoldSteps, TestSteps
<1>1. ASSUME NEW p \in CodePanes, PaneCommits(p) PROVE BridgePhases'
  BY <1>1 DEF PaneCommits
<1>2. CASE MarkerAges
  BY <1>2 DEF MarkerAges
<1>3. CASE CollectIntegrations
  BY <1>3 DEF CollectIntegrations
<1>4. CASE UiAssemble
  BY <1>4 DEF UiAssemble, NoJob
<1>5. CASE FoldBranches
  BY <1>5 DEF FoldBranches
<1>6. CASE MountTree
  BY <1>6 DEF MountTree
<1>7. CASE WriteMarker
  BY <1>7 DEF WriteMarker
<1>8. CASE Assembled
  BY <1>8 DEF Assembled, NoJob
<1>9. CASE UiSynthesize
  BY <1>9 DEF UiSynthesize, NoJob
<1>10. CASE ReadRun
  <2>0. UNCHANGED <<commits, tree, marker, doc, pushed>> /\ job.step = "read"
    BY <1>10 DEF ReadRun
  <2>1. CASE Fails
    BY <2>0, <2>1, NoJobTyped DEF Fails, NoJob
  <2>2. CASE ~Fails
    BY <1>10, <2>0, <2>2, ReadMoves
  <2>3. QED BY <2>1, <2>2
<1>11. CASE GatherTruth
  BY <1>11 DEF GatherTruth
<1>12. CASE ResolveSuites
  BY <1>12 DEF ResolveSuites
<1>13. ASSUME NEW s \in Suites, RunSuite(s) PROVE BridgePhases'
  <2>1. CASE job' = [job EXCEPT !.retry = TRUE]
    BY <1>13, <2>1, SuiteCases
  <2>2. ASSUME NEW o \in {"ok", "fail", "unverified"}, SuiteEnds(s, o) PROVE BridgePhases'
    BY <1>13, <2>2, SuiteCases, SuiteMoves
  <2>3. QED BY <1>13, <2>1, <2>2, SuiteCases
<1>14. CASE Judge
  BY <1>14 DEF Judge, BridgeVerdict
<1>15. ASSUME NEW g \in Gates, RunGate(g) PROVE BridgePhases'
  BY <1>15 DEF RunGate
<1>16. CASE Compose
  BY <1>16 DEF Compose, NoJob, Fails
<1>17. CASE RouteDoc
  BY <1>17 DEF RouteDoc, NoJob, NoDoc, FinalDoc
<1>18. CASE OpenPr
  BY <1>18 DEF OpenPr
<1>19. CASE PushBranch
  BY <1>19 DEF PushBranch, NoJob
<1>20. CASE AppDies
  BY <1>20 DEF AppDies, NoJob
<1>21. CASE UNCHANGED brvars
  BY <1>21 DEF brvars
<1>22. QED
  BY <1>1, <1>2, <1>3, <1>4, <1>5, <1>6, <1>7, <1>8, <1>9, <1>10, <1>11, <1>12, <1>13, <1>14, <1>15, <1>16, <1>17, <1>18, <1>19, <1>20, <1>21
  DEF BridgeNext

\* No fold has seen a test.
LEMMA StepUntested == Typed /\ BridgePhases /\ Untested /\ [BridgeNext]_brvars => Untested'
<1> SUFFICES ASSUME Typed, BridgePhases, Untested, [BridgeNext]_brvars
             PROVE  Untested'
  OBVIOUS
<1> USE DEF Typed, Jobs, Doing, Then, BridgePhases, FoldSteps, TestSteps, Untested
<1>1. ASSUME NEW p \in CodePanes, PaneCommits(p) PROVE Untested'
  BY <1>1 DEF PaneCommits
<1>2. CASE MarkerAges
  BY <1>2 DEF MarkerAges
<1>3. CASE CollectIntegrations
  BY <1>3 DEF CollectIntegrations
<1>4. CASE UiAssemble
  BY <1>4 DEF UiAssemble, NoJob
<1>5. CASE FoldBranches
  BY <1>5 DEF FoldBranches
<1>6. CASE MountTree
  BY <1>6 DEF MountTree
<1>7. CASE WriteMarker
  BY <1>7 DEF WriteMarker
<1>8. CASE Assembled
  BY <1>8 DEF Assembled, NoJob
<1>9. CASE UiSynthesize
  BY <1>9 DEF UiSynthesize, NoJob
<1>10. CASE ReadRun
  <2>0. UNCHANGED <<commits, tree, marker, doc, pushed>> /\ job.step = "read"
    BY <1>10 DEF ReadRun
  <2>1. CASE Fails
    BY <2>0, <2>1, NoJobTyped DEF Fails, NoJob
  <2>2. CASE ~Fails
    BY <1>10, <2>0, <2>2, ReadMoves
  <2>3. QED BY <2>1, <2>2
<1>11. CASE GatherTruth
  BY <1>11 DEF GatherTruth
<1>12. CASE ResolveSuites
  BY <1>12 DEF ResolveSuites
<1>13. ASSUME NEW s \in Suites, RunSuite(s) PROVE Untested'
  <2>1. CASE job' = [job EXCEPT !.retry = TRUE]
    BY <1>13, <2>1, SuiteCases
  <2>2. ASSUME NEW o \in {"ok", "fail", "unverified"}, SuiteEnds(s, o) PROVE Untested'
    BY <1>13, <2>2, SuiteCases, SuiteMoves
  <2>3. QED BY <1>13, <2>1, <2>2, SuiteCases
<1>14. CASE Judge
  BY <1>14 DEF Judge, BridgeVerdict
<1>15. ASSUME NEW g \in Gates, RunGate(g) PROVE Untested'
  BY <1>15 DEF RunGate
<1>16. CASE Compose
  BY <1>16 DEF Compose, NoJob, Fails
<1>17. CASE RouteDoc
  BY <1>17 DEF RouteDoc, NoJob, NoDoc, FinalDoc
<1>18. CASE OpenPr
  BY <1>18 DEF OpenPr
<1>19. CASE PushBranch
  BY <1>19 DEF PushBranch, NoJob
<1>20. CASE AppDies
  BY <1>20 DEF AppDies, NoJob
<1>21. CASE UNCHANGED brvars
  BY <1>21 DEF brvars
<1>22. QED
  BY <1>1, <1>2, <1>3, <1>4, <1>5, <1>6, <1>7, <1>8, <1>9, <1>10, <1>11, <1>12, <1>13, <1>14, <1>15, <1>16, <1>17, <1>18, <1>19, <1>20, <1>21
  DEF BridgeNext

\* No step lets a pass stand against an objection or on another tree.
LEMMA StepTested == Typed /\ BridgePhases /\ Untested /\ Tested /\ [BridgeNext]_brvars => Tested'
<1> SUFFICES ASSUME Typed, BridgePhases, Untested, Tested, [BridgeNext]_brvars
             PROVE  Tested'
  OBVIOUS
<1> USE DEF Typed, Jobs, Doing, Then, BridgePhases, FoldSteps, TestSteps, Untested, Tested, Target, OnTree
<1>1. ASSUME NEW p \in CodePanes, PaneCommits(p) PROVE Tested'
  BY <1>1 DEF PaneCommits
<1>2. CASE MarkerAges
  BY <1>2 DEF MarkerAges
<1>3. CASE CollectIntegrations
  BY <1>3 DEF CollectIntegrations
<1>4. CASE UiAssemble
  BY <1>4 DEF UiAssemble, NoJob
<1>5. CASE FoldBranches
  BY <1>5 DEF FoldBranches
<1>6. CASE MountTree
  BY <1>6 DEF MountTree
<1>7. CASE WriteMarker
  BY <1>7 DEF WriteMarker
<1>8. CASE Assembled
  BY <1>8 DEF Assembled, NoJob
<1>9. CASE UiSynthesize
  BY <1>9 DEF UiSynthesize, NoJob
<1>10. CASE ReadRun
  <2>0. UNCHANGED <<commits, tree, marker, doc, pushed>> /\ job.step = "read"
    BY <1>10 DEF ReadRun
  <2>1. CASE Fails
    BY <2>0, <2>1, NoJobTyped DEF Fails, NoJob
  <2>2. CASE ~Fails
    BY <1>10, <2>0, <2>2, ReadMoves
  <2>3. QED BY <2>1, <2>2
<1>11. CASE GatherTruth
  BY <1>11 DEF GatherTruth
<1>12. CASE ResolveSuites
  BY <1>12 DEF ResolveSuites
<1>13. ASSUME NEW s \in Suites, RunSuite(s) PROVE Tested'
  <2>1. CASE job' = [job EXCEPT !.retry = TRUE]
    BY <1>13, <2>1, SuiteCases
  <2>2. ASSUME NEW o \in {"ok", "fail", "unverified"}, SuiteEnds(s, o) PROVE Tested'
    BY <1>13, <2>2, SuiteCases, SuiteMoves
  <2>3. QED BY <1>13, <2>1, <2>2, SuiteCases
<1>14. CASE Judge
  BY <1>14 DEF Judge, BridgeVerdict
<1>15. ASSUME NEW g \in Gates, RunGate(g) PROVE Tested'
  BY <1>15 DEF RunGate
<1>16. CASE Compose
  BY <1>16 DEF Compose, NoJob, Fails
<1>17. CASE RouteDoc
  BY <1>17 DEF RouteDoc, NoJob, NoDoc, FinalDoc
<1>18. CASE OpenPr
  BY <1>18 DEF OpenPr
<1>19. CASE PushBranch
  BY <1>19 DEF PushBranch, NoJob
<1>20. CASE AppDies
  BY <1>20 DEF AppDies, NoJob
<1>21. CASE UNCHANGED brvars
  BY <1>21 DEF brvars
<1>22. QED
  BY <1>1, <1>2, <1>3, <1>4, <1>5, <1>6, <1>7, <1>8, <1>9, <1>10, <1>11, <1>12, <1>13, <1>14, <1>15, <1>16, <1>17, <1>18, <1>19, <1>20, <1>21
  DEF BridgeNext

\* No step leaves a tree to offer that was not tested.
LEMMA StepOffTree == Typed /\ BridgePhases /\ OffTree /\ [BridgeNext]_brvars => OffTree'
<1> SUFFICES ASSUME Typed, BridgePhases, OffTree, [BridgeNext]_brvars
             PROVE  OffTree'
  OBVIOUS
<1> USE DEF Typed, Jobs, Doing, Then, BridgePhases, FoldSteps, TestSteps, OffTree, OnTree
<1>1. ASSUME NEW p \in CodePanes, PaneCommits(p) PROVE OffTree'
  BY <1>1 DEF PaneCommits
<1>2. CASE MarkerAges
  BY <1>2 DEF MarkerAges
<1>3. CASE CollectIntegrations
  BY <1>3 DEF CollectIntegrations
<1>4. CASE UiAssemble
  BY <1>4 DEF UiAssemble, NoJob
<1>5. CASE FoldBranches
  BY <1>5 DEF FoldBranches
<1>6. CASE MountTree
  BY <1>6 DEF MountTree
<1>7. CASE WriteMarker
  BY <1>7 DEF WriteMarker
<1>8. CASE Assembled
  BY <1>8 DEF Assembled, NoJob
<1>9. CASE UiSynthesize
  BY <1>9 DEF UiSynthesize, NoJob
<1>10. CASE ReadRun
  <2>0. UNCHANGED <<commits, tree, marker, doc, pushed>> /\ job.step = "read"
    BY <1>10 DEF ReadRun
  <2>1. CASE Fails
    BY <2>0, <2>1, NoJobTyped DEF Fails, NoJob
  <2>2. CASE ~Fails
    BY <1>10, <2>0, <2>2, ReadMoves
  <2>3. QED BY <2>1, <2>2
<1>11. CASE GatherTruth
  BY <1>11 DEF GatherTruth
<1>12. CASE ResolveSuites
  BY <1>12 DEF ResolveSuites
<1>13. ASSUME NEW s \in Suites, RunSuite(s) PROVE OffTree'
  <2>1. CASE job' = [job EXCEPT !.retry = TRUE]
    BY <1>13, <2>1, SuiteCases
  <2>2. ASSUME NEW o \in {"ok", "fail", "unverified"}, SuiteEnds(s, o) PROVE OffTree'
    BY <1>13, <2>2, SuiteCases, SuiteMoves
  <2>3. QED BY <1>13, <2>1, <2>2, SuiteCases
<1>14. CASE Judge
  BY <1>14 DEF Judge, BridgeVerdict
<1>15. ASSUME NEW g \in Gates, RunGate(g) PROVE OffTree'
  BY <1>15 DEF RunGate
<1>16. CASE Compose
  BY <1>16 DEF Compose, NoJob, Fails
<1>17. CASE RouteDoc
  BY <1>17 DEF RouteDoc, NoJob, NoDoc, FinalDoc
<1>18. CASE OpenPr
  BY <1>18 DEF OpenPr
<1>19. CASE PushBranch
  BY <1>19 DEF PushBranch, NoJob
<1>20. CASE AppDies
  BY <1>20 DEF AppDies, NoJob
<1>21. CASE UNCHANGED brvars
  BY <1>21 DEF brvars
<1>22. QED
  BY <1>1, <1>2, <1>3, <1>4, <1>5, <1>6, <1>7, <1>8, <1>9, <1>10, <1>11, <1>12, <1>13, <1>14, <1>15, <1>16, <1>17, <1>18, <1>19, <1>20, <1>21
  DEF BridgeNext

\* No step puts another tree under a pass.
LEMMA StepOffered == Typed /\ BridgePhases /\ Tested /\ OffTree /\ Offered /\ [BridgeNext]_brvars => Offered'
<1> SUFFICES ASSUME Typed, BridgePhases, Tested, OffTree, Offered, [BridgeNext]_brvars
             PROVE  Offered'
  OBVIOUS
<1> USE DEF Typed, Jobs, Doing, Then, BridgePhases, FoldSteps, TestSteps, Tested, OffTree, Offered, Target, OnTree
<1>1. ASSUME NEW p \in CodePanes, PaneCommits(p) PROVE Offered'
  BY <1>1 DEF PaneCommits
<1>2. CASE MarkerAges
  BY <1>2 DEF MarkerAges
<1>3. CASE CollectIntegrations
  BY <1>3 DEF CollectIntegrations
<1>4. CASE UiAssemble
  BY <1>4 DEF UiAssemble, NoJob
<1>5. CASE FoldBranches
  BY <1>5 DEF FoldBranches
<1>6. CASE MountTree
  BY <1>6 DEF MountTree
<1>7. CASE WriteMarker
  BY <1>7 DEF WriteMarker
<1>8. CASE Assembled
  BY <1>8 DEF Assembled, NoJob
<1>9. CASE UiSynthesize
  BY <1>9 DEF UiSynthesize, NoJob
<1>10. CASE ReadRun
  BY <1>10 DEF ReadRun, NoJob, Fails
<1>11. CASE GatherTruth
  BY <1>11 DEF GatherTruth
<1>12. CASE ResolveSuites
  BY <1>12 DEF ResolveSuites
<1>13. ASSUME NEW s \in Suites, RunSuite(s) PROVE Offered'
  <2>1. CASE job' = [job EXCEPT !.retry = TRUE]
    BY <1>13, <2>1, SuiteCases
  <2>2. ASSUME NEW o \in {"ok", "fail", "unverified"}, SuiteEnds(s, o) PROVE Offered'
    BY <1>13, <2>2, SuiteCases, SuiteMoves
  <2>3. QED BY <1>13, <2>1, <2>2, SuiteCases
<1>14. CASE Judge
  BY <1>14 DEF Judge, BridgeVerdict
<1>15. ASSUME NEW g \in Gates, RunGate(g) PROVE Offered'
  BY <1>15 DEF RunGate
<1>16. CASE Compose
  BY <1>16 DEF Compose, NoJob, Fails
<1>17. CASE RouteDoc
  BY <1>17 DEF RouteDoc, NoJob, NoDoc, FinalDoc
<1>18. CASE OpenPr
  BY <1>18 DEF OpenPr
<1>19. CASE PushBranch
  BY <1>19 DEF PushBranch, NoJob
<1>20. CASE AppDies
  BY <1>20 DEF AppDies, NoJob
<1>21. CASE UNCHANGED brvars
  BY <1>21 DEF brvars
<1>22. QED
  BY <1>1, <1>2, <1>3, <1>4, <1>5, <1>6, <1>7, <1>8, <1>9, <1>10, <1>11, <1>12, <1>13, <1>14, <1>15, <1>16, <1>17, <1>18, <1>19, <1>20, <1>21
  DEF BridgeNext

\* The tree of final.md is the tree of the pull request in every reachable state.
THEOREM BridgeInvHolds == BridgeSpec => []BridgeInv
<1>1. BridgeInv /\ [BridgeNext]_brvars => BridgeInv'
  BY StepTyped, StepPhases, StepUntested, StepTested, StepOffTree, StepOffered DEF BridgeInv
<1>2. QED
  BY <1>1, InitBridge, PTL DEF BridgeSpec

\* A pull request carries the very tree on which the suites of the synthesis in
\* final.md exited 0, with nothing against it, whatever retries, folds of other
\* runs and deaths of the app come between.
THEOREM PullCarriesTested == BridgeSpec => []ShipsTheTestedTree
<1>1. BridgeInv => ShipsTheTestedTree
  BY DEF BridgeInv, Offered, ShipsTheTestedTree
<1>2. QED
  BY <1>1, BridgeInvHolds, PTL
-----------------------------------------------------------------------------
(* Late commits *)

\* A synthesis knows of no commit that is not there; what it folds in, and then
\* what it tests, has all it asked for.
LateFold ==
  ui = "busy" =>
    /\ job.step # "none" => \A p \in CodePanes : job.asked[p] <= commits[p]
    /\ job.step \in {"mount", "mark"} =>
         \A p \in CodePanes \ job.refused : job.fold[p] >= job.asked[p]
    /\ job.step = "mark" => tree.has = job.fold
    /\ job.step \in {"folded"} \cup TestSteps /\ ~job.degraded =>
         \A p \in CodePanes \ job.refused : Target[p] >= job.asked[p]

LateInv == LateFold /\ PassSawLateCommits

\* The locals that say what a synthesis asked for and what it folded in.
FoldLocals == <<job.asked, job.refused, job.fold, job.degraded, job.integ, job.refreshed>>

\* A step that moves neither these nor the trees leaves the fold as it was.
LEMMA LateStays ==
  ASSUME LateFold, UNCHANGED <<FoldLocals, ui>>, tree'.has = tree.has,
         \A p \in CodePanes : commits[p] <= commits'[p],
         commits \in Contents, commits' \in Contents, job.asked \in Contents,
         job'.step # "none" => job.step # "none",
         job'.step \in {"mount", "mark"} => job'.step = job.step,
         job'.step \in {"folded"} \cup TestSteps => job.step \in {"folded"} \cup TestSteps
  PROVE  LateFold'
<1>1. Target' = Target
  BY DEF Target, OnTree, FoldLocals
<1>2. \A p \in CodePanes : job'.asked[p] <= commits[p] => job'.asked[p] <= commits'[p]
  BY DEF Contents, FoldLocals
<1>3. QED
  BY <1>1, <1>2 DEF LateFold, FoldLocals, TestSteps

\* A step with which no synthesis is under way has nothing to show.
LEMMA NoSynthesis == ui' # "busy" => LateFold'
  BY DEF LateFold

\* No step tests a tree older than what the synthesis asked for.
LEMMA StepLateFold == BridgeInv /\ LateFold /\ [BridgeNext]_brvars => LateFold'
<1> SUFFICES ASSUME Typed, BridgePhases, LateFold, [BridgeNext]_brvars
             PROVE  LateFold'
  BY DEF BridgeInv
<1>0. /\ commits \in Contents /\ job \in Jobs /\ job.asked \in Contents /\ Target \in Contents
      /\ \A p \in CodePanes : commits[p] \in Nat /\ job.asked[p] \in Nat /\ Target[p] \in Nat
  BY BridgeAssumption DEF Typed, Jobs, Contents, Target, MainTree
<1>1. ASSUME NEW p \in CodePanes, PaneCommits(p) PROVE LateFold'
  <2>1. \A q \in CodePanes : commits[q] <= commits'[q]
    BY <1>0, <1>1 DEF PaneCommits, Contents
  <2>2. commits' \in Contents
    BY <1>0, <1>1, BridgeAssumption DEF PaneCommits, Contents
  <2>3. QED BY <1>0, <1>1, <2>1, <2>2, LateStays DEF PaneCommits, FoldLocals
<1>2. CASE MarkerAges \/ OpenPr
  BY <1>0, <1>2, LateStays DEF MarkerAges, OpenPr, Doing, Then, FoldLocals, Jobs, LateFold, BridgePhases
<1>3. CASE CollectIntegrations
  <2>1. tree'.has = tree.has
    BY <1>3 DEF CollectIntegrations, Typed
  <2>2. QED BY <1>0, <1>3, <2>1, LateStays DEF CollectIntegrations, FoldLocals
<1>4. CASE UiAssemble \/ Assembled \/ RouteDoc \/ PushBranch \/ AppDies
  BY <1>4, NoSynthesis DEF UiAssemble, Assembled, RouteDoc, PushBranch, AppDies, Doing, BridgePhases
<1>5. CASE FoldBranches
  <2>1. PICK in \in SUBSET HaveCommits : job' = [job EXCEPT
         !.step = IF in = {} THEN "folded" ELSE "mount",
         !.fold = [p \in CodePanes |-> IF p \in in THEN commits[p] ELSE 0],
         !.refused = HaveCommits \ in, !.degraded = in = {}]
    BY <1>5, Zenon DEF FoldBranches
  <2>2. UNCHANGED <<commits, tree, ui>> /\ job.step = "fold"
    BY <1>5 DEF FoldBranches, Doing
  <2>3. /\ job'.asked = job.asked
        /\ job'.step = IF in = {} THEN "folded" ELSE "mount"
        /\ job'.fold = [p \in CodePanes |-> IF p \in in THEN commits[p] ELSE 0]
        /\ job'.refused = HaveCommits \ in /\ job'.degraded = (in = {})
    BY <1>0, <2>1 DEF Jobs
  <2>4. CASE in = {}
    BY <2>2, <2>3, <2>4 DEF LateFold, TestSteps
  <2>5. CASE in # {}
    <3>1. ASSUME ui = "busy", NEW p \in CodePanes \ job'.refused
          PROVE  job'.fold[p] >= job'.asked[p]
      <4>1. job.asked[p] <= commits[p]
        BY <2>2, <3>1 DEF LateFold
      <4>2. CASE p \in in
        BY <1>0, <2>3, <4>1, <4>2
      <4>3. CASE p \notin in
        BY <1>0, <2>3, <3>1, <4>1, <4>3 DEF HaveCommits
      <4>4. QED BY <4>2, <4>3
    <3>2. QED BY <2>2, <2>3, <2>5, <3>1 DEF LateFold, TestSteps
  <2>6. QED BY <2>4, <2>5
<1>6. CASE MountTree
  <2>1. job.step = "mount" /\ UNCHANGED <<commits, ui>>
    BY <1>6 DEF MountTree, Doing
  <2>2. CASE job' = [job EXCEPT !.step = "folded", !.degraded = TRUE]
    BY <1>0, <2>1, <2>2 DEF LateFold, TestSteps, Jobs
  <2>3. CASE Then("mark") /\ tree' = [there |-> TRUE, has |-> job.fold]
    BY <1>0, <2>1, <2>3 DEF LateFold, TestSteps, Jobs, Then
  <2>4. QED BY <1>6, <2>2, <2>3 DEF MountTree
<1>7. CASE WriteMarker
  <2>1. /\ job.step = "mark" /\ UNCHANGED <<commits, tree, ui>>
        /\ job'.step = "folded" /\ job'.refreshed
        /\ job'.asked = job.asked /\ job'.refused = job.refused
    BY <1>0, <1>7 DEF WriteMarker, Doing, Jobs
  <2>2. Target' = tree.has
    BY <2>1 DEF Target, OnTree
  <2>3. QED BY <2>1, <2>2 DEF LateFold, TestSteps
<1>8. CASE UiSynthesize
  <2>1. job'.step = "read" /\ job'.asked = commits /\ commits' = commits
    BY <1>8 DEF UiSynthesize, NoJob
  <2>2. QED BY <1>0, <2>1 DEF LateFold, TestSteps
<1>9. CASE ReadRun
  <2>1. CASE Fails
    BY <2>1, NoSynthesis DEF Fails
  <2>2. CASE ~Fails
    <3>1. /\ job'.step = "truth" /\ job'.asked = job.asked /\ job.step = "read"
          /\ UNCHANGED <<ui, commits>>
      BY <1>0, <1>9, <2>2, ReadMoves DEF ReadRun, Doing
    <3>2. QED BY <3>1 DEF LateFold, TestSteps
  <2>3. QED BY <2>1, <2>2
<1>10. CASE GatherTruth
  <2>1. PICK t \in BOOLEAN :
          job' = [job EXCEPT !.truth = t, !.objected = ~t,
                             !.step = IF HaveCommits = {} THEN "folded" ELSE "fold"]
    BY <1>10, Zenon DEF GatherTruth
  <2>2. /\ job'.asked = job.asked /\ job.step = "truth" /\ UNCHANGED <<ui, commits, tree>>
        /\ job'.step = IF HaveCommits = {} THEN "folded" ELSE "fold"
        /\ job'.integ = job.integ /\ job'.refreshed = job.refreshed
    BY <1>0, <1>10, <2>1 DEF GatherTruth, Doing, Jobs
  <2>3. CASE HaveCommits = {}
    <3>1. Target' = Target
      BY <2>2 DEF Target, OnTree
    <3>2. ASSUME ui = "busy", NEW p \in CodePanes PROVE Target'[p] >= job'.asked[p]
      <4>1. job.asked[p] <= commits[p] /\ commits[p] = 0
        BY <1>0, <2>2, <2>3, <3>2 DEF LateFold, HaveCommits
      <4>2. QED BY <1>0, <2>2, <3>1, <4>1
    <3>3. QED BY <2>2, <2>3, <3>2 DEF LateFold, TestSteps
  <2>4. CASE HaveCommits # {}
    BY <2>2, <2>4 DEF LateFold, TestSteps
  <2>5. QED BY <2>3, <2>4
<1>11. CASE ResolveSuites
  <2>1. PICK kept \in SUBSET Suites :
          job' = [job EXCEPT !.step = "suites", !.suites = kept, !.unverified = kept = {}]
    BY <1>11, Zenon DEF ResolveSuites
  <2>2. UNCHANGED FoldLocals /\ job'.step = "suites"
    BY <1>0, <2>1 DEF FoldLocals, Jobs
  <2>3. UNCHANGED <<commits, tree, ui>> /\ job.step = "folded"
    BY <1>11 DEF ResolveSuites, Doing
  <2>4. QED BY <1>0, <2>2, <2>3, LateStays DEF TestSteps
<1>12. ASSUME NEW t \in Suites, RunSuite(t) PROVE LateFold'
  <2>1. UNCHANGED FoldLocals /\ job'.step = job.step
    <3>1. ASSUME NEW o \in {"ok", "fail", "unverified"}, SuiteEnds(t, o)
          PROVE  UNCHANGED FoldLocals /\ job'.step = job.step
      <4>1. /\ job'.asked = job.asked /\ job'.refused = job.refused /\ job'.fold = job.fold
            /\ job'.step = job.step
        BY <1>0, <3>1 DEF SuiteEnds, Jobs
      <4>2. /\ job'.degraded = job.degraded /\ job'.integ = job.integ
            /\ job'.refreshed = job.refreshed
        BY <1>0, <3>1 DEF SuiteEnds, Jobs
      <4>3. QED BY <4>1, <4>2 DEF FoldLocals
    <3>2. CASE job' = [job EXCEPT !.retry = TRUE]
      BY <1>0, <3>2 DEF FoldLocals, Jobs
    <3>3. QED BY <1>0, <1>12, <3>1, <3>2, SuiteCases
  <2>2. QED BY <1>0, <1>12, <2>1, LateStays DEF RunSuite
<1>13. CASE Judge
  <2>1. UNCHANGED FoldLocals /\ job'.step = "gates" /\ job.step = "suites"
    BY <1>0, <1>13 DEF Judge, Doing, FoldLocals, Jobs
  <2>2. QED BY <1>0, <1>13, <2>1, LateStays DEF Judge, TestSteps
<1>14. ASSUME NEW g \in Gates, RunGate(g) PROVE LateFold'
  <2>1. UNCHANGED FoldLocals /\ job'.step = job.step
    BY <1>0, <1>14 DEF RunGate, FoldLocals, Jobs
  <2>2. QED BY <1>0, <1>14, <2>1, LateStays DEF RunGate
<1>15. CASE Compose
  <2>1. CASE Fails
    BY <2>1, NoSynthesis DEF Fails
  <2>2. CASE ~Fails
    <3>1. UNCHANGED FoldLocals /\ job'.step = "route" /\ job.step = "gates" /\ ui' = ui
      BY <1>0, <1>15, <2>2 DEF Compose, Doing, Then, FoldLocals, Jobs
    <3>2. QED BY <1>0, <1>15, <3>1, LateStays DEF Compose, TestSteps
  <2>3. QED BY <2>1, <2>2
<1>16. CASE UNCHANGED brvars
  BY <1>0, <1>16, LateStays DEF brvars, FoldLocals
<1>17. QED
  BY <1>1, <1>2, <1>3, <1>4, <1>5, <1>6, <1>7, <1>8, <1>9, <1>10, <1>11, <1>12, <1>13,
     <1>14, <1>15, <1>16
  DEF BridgeNext

\* Only the pass of a synthesis writes the document.
LEMMA StepLateDoc ==
  BridgeInv /\ LateInv /\ [BridgeNext]_brvars => PassSawLateCommits'
<1> SUFFICES ASSUME BridgeInv, LateInv, [BridgeNext]_brvars
             PROVE  PassSawLateCommits'
  OBVIOUS
<1>1. CASE RouteDoc
  <2>1. CASE job.verdict = "pass" /\ doc' = FinalDoc
    <3>1. job.seen = {Target} /\ ui = "busy" /\ job.step = "route"
      BY <1>1, <2>1 DEF RouteDoc, Doing, BridgeInv, Tested, BridgePhases, TestSteps
    <3>2. ~job.degraded => \A p \in CodePanes \ job.refused : Target[p] >= job.asked[p]
      BY <3>1 DEF LateInv, LateFold, TestSteps
    <3>3. QED BY <2>1, <3>1, <3>2 DEF PassSawLateCommits, FinalDoc
  <2>2. CASE doc' = NoDoc
    BY <2>2 DEF PassSawLateCommits, NoDoc
  <2>3. QED BY <1>1, <2>1, <2>2 DEF RouteDoc
<1>2. CASE ~RouteDoc
  <2>1. doc' = doc
    BY <1>2 DEF BridgeNext, PaneCommits, MarkerAges, CollectIntegrations, UiAssemble,
       FoldBranches, MountTree, WriteMarker, Assembled, UiSynthesize, ReadRun, GatherTruth,
       ResolveSuites, RunSuite, Judge, RunGate, Compose, OpenPr, PushBranch, AppDies, brvars
  <2>2. QED BY <2>1 DEF LateInv, PassSawLateCommits
<1>3. QED BY <1>1, <1>2

\* A pass was tested on a tree with every commit a pane had when the synthesis
\* began, one made after the first assembly included, unless the fold left the
\* pane out or failed as a whole.
THEOREM SawLateCommits == BridgeSpec => []PassSawLateCommits
<1>1. BridgeInit => LateInv
  BY DEF BridgeInit, LateInv, LateFold, PassSawLateCommits, NoDoc
<1>2. BridgeInv /\ LateInv /\ [BridgeNext]_brvars => LateInv'
  BY StepLateFold, StepLateDoc DEF LateInv
<1>3. LateInv => PassSawLateCommits
  BY DEF LateInv
<1>4. QED
  BY <1>1, <1>2, <1>3, BridgeInvHolds, PTL DEF BridgeSpec

-----------------------------------------------------------------------------
(* The types of the rest.                                                  *)

BridgeRest ==
  /\ marker \in {"none", "young", "old"}
  /\ ui \in {"held", "assembling", "live", "busy", "prd", "closed"}
  /\ doc.asked \in Contents /\ doc.seen \subseteq Contents /\ doc.refused \subseteq CodePanes
  /\ pushed \in [there : BOOLEAN, has : Contents]
  /\ told \subseteq CodePanes

LEMMA StepBridgeRest ==
  ASSUME Typed, BridgeRest, [BridgeNext]_brvars
  PROVE  BridgeRest'
<1> USE DEF BridgeRest
<1>1. /\ job.asked \in Contents /\ job.seen \subseteq Contents /\ job.refused \subseteq CodePanes
      /\ tree.has \in Contents
  BY DEF Typed, Jobs
<1>2. MainTree \in Contents
  BY BridgeAssumption DEF MainTree, Contents
<1>3. CASE WriteMarker \/ MarkerAges
  BY <1>3 DEF WriteMarker, MarkerAges
<1>4. CASE Assembled
  BY <1>1, <1>4 DEF Assembled
<1>5. CASE RouteDoc
  <2>1. doc' \in {FinalDoc, NoDoc}
    BY <1>5 DEF RouteDoc
  <2>2. /\ doc'.asked \in Contents /\ doc'.seen \subseteq Contents
        /\ doc'.refused \subseteq CodePanes
    BY <1>1, <1>2, <2>1 DEF FinalDoc, NoDoc
  <2> QED
    BY <1>5, <2>2 DEF RouteDoc
<1>6. CASE PushBranch
  <2>1. pushed' = pushed \/ pushed' = [there |-> TRUE, has |-> tree.has]
    BY <1>6 DEF PushBranch
  <2>2. [there |-> TRUE, has |-> tree.has] \in [there : BOOLEAN, has : Contents]
    BY <1>1, TRUE \in BOOLEAN
  <2>3. pushed' \in [there : BOOLEAN, has : Contents]
    BY <2>1, <2>2
  <2> QED
    BY <1>6, <2>3 DEF PushBranch
<1>7. CASE AppDies
  BY <1>7 DEF AppDies
<1>8. ASSUME NEW p \in CodePanes, PaneCommits(p) PROVE BridgeRest'
  BY <1>8 DEF PaneCommits
<1>9. ASSUME NEW s \in Suites, RunSuite(s) PROVE BridgeRest'
  BY <1>9 DEF RunSuite
<1>10. ASSUME NEW g \in Gates, RunGate(g) PROVE BridgeRest'
  BY <1>10 DEF RunGate
<1>11. CASE \/ CollectIntegrations \/ UiAssemble \/ FoldBranches \/ MountTree \/ UiSynthesize
            \/ ReadRun \/ GatherTruth \/ ResolveSuites \/ Judge \/ Compose \/ OpenPr
            \/ UNCHANGED brvars
  BY <1>11 DEF CollectIntegrations, UiAssemble, FoldBranches, MountTree, UiSynthesize,
     ReadRun, GatherTruth, ResolveSuites, Judge, Compose, OpenPr, Fails, brvars
<1> QED
  BY <1>3, <1>4, <1>5, <1>6, <1>7, <1>8, <1>9, <1>10, <1>11 DEF BridgeNext

\* The variables of a bridge run have their types, in every reachable state.
THEOREM BridgeTypesHold == BridgeSpec => []BridgeTypeOK
<1>1. BridgeInit => BridgeRest
  <2> SUFFICES ASSUME BridgeInit PROVE BridgeRest
    OBVIOUS
  <2>1. MainTree \in Contents
    BY BridgeAssumption DEF MainTree, Contents
  <2> QED
    BY <2>1 DEF BridgeInit, BridgeRest, NoDoc
<1>2. BridgeInv /\ BridgeRest /\ [BridgeNext]_brvars => BridgeRest'
  BY StepBridgeRest DEF BridgeInv
<1>3. BridgeInv /\ BridgeRest => BridgeTypeOK
  BY DEF BridgeInv, Typed, Jobs, BridgeRest, BridgeTypeOK
<1> QED
  BY <1>1, <1>2, <1>3, BridgeInvHolds, PTL DEF BridgeSpec
=============================================================================
