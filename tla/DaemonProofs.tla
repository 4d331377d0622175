---------------------------- MODULE DaemonProofs ----------------------------
(***************************************************************************)
(* Proofs about the daemon, for every number of ids, connections,          *)
(* children, clock ticks and crashes: first DaemonSpawn alone, then with   *)
(* its idle ticker (DaemonLifecycle), where an exit is one more way for    *)
(* the process to end, and cuts off no spawn that a tick fell into.        *)
(***************************************************************************)
EXTENDS DaemonLifecycle, FiniteSetTheorems, TLAPS

\* A thread past its claim has its id in inflight_ids, and every thread that
\* works on a request has an id.
ClaimsRecorded ==
  \A t \in Threads :
    /\ HoldsClaim(t) => req[t] \in inflight
    /\ pc[t] = "claim" => req[t] \in Ids

\* From the claim to the insert the map has nothing at the id.
VacantUntilInsert ==
  \A t \in Threads :
    pc[t] \in {"cap", "prepare", "fork", "insert"} => sups[req[t]] = NoPane

ClaimInv == TypeOK /\ ClaimsRecorded /\ ClaimExclusion /\ VacantUntilInsert

\* The initial states satisfy the claim invariant.
LEMMA InitClaim == Init => ClaimInv
<1> SUFFICES ASSUME Init PROVE ClaimInv
  OBVIOUS
<1>1. TypeOK
  <2>1. Empty \in IdMap
    BY DEF Empty, IdMap, PaneOrNone
  <2>2. /\ pc \in [Threads -> Steps]
        /\ op \in [Threads -> {"none", "spawn", "close"}]
        /\ req \in [Threads -> Ids \cup {NoId}]
        /\ pane \in [Threads -> PaneOrNone]
        /\ snap \in [Threads -> IdMap]
    BY <2>1 DEF Init, AllThreads, Steps, PaneOrNone
  <2>3. /\ worktree \in [Ids -> {"none", "clean", "dirty"}]
        /\ proc \in [Pids -> {"unborn", "running", "exited"}]
        /\ home \in [Pids -> Ids \cup {NoId}]
        /\ stamp \in [Pids -> Nat]
    BY DEF Init
  <2>4. anyRemoved \in BOOLEAN /\ appStamped \in BOOLEAN
    BY Zenon DEF Init
  <2>5. QED
    BY <2>1, <2>2, <2>3, <2>4 DEF Init, TypeOK
<1>2. \A t \in Threads : pc[t] = "idle"
  BY DEF Init, AllThreads
<1>3. QED
  BY <1>1, <1>2
  DEF ClaimInv, ClaimsRecorded, ClaimExclusion, VacantUntilInsert, HoldsClaim,
      SpawnSteps, CleanupSteps, PublishSteps

\* Removing worktrees, as far as git goes along, leaves worktrees.
LEMMA RemovalTyped ==
  ASSUME NEW ids, worktree \in [Ids -> {"none", "clean", "dirty"}],
         RemoveWorktrees(ids)
  PROVE  worktree' \in [Ids -> {"none", "clean", "dirty"}]
  BY DEF RemoveWorktrees

\* No step takes a variable out of its type.
LEMMA StepTypeOK == TypeOK /\ ClaimsRecorded /\ [Next]_vars => TypeOK'
<1> SUFFICES ASSUME TypeOK, ClaimsRecorded, [Next]_vars
             PROVE  TypeOK'
  OBVIOUS
<1> USE SpawnAssumption
    DEF TypeOK, ClaimsRecorded, HoldsClaim, Threads, IdMap, PaneOrNone, NoPane,
        Steps, SpawnSteps, CleanupSteps, PublishSteps, ReaperSteps, Goto,
        threadVars, reaperVars, memory, disk, registryFile, children, world
<1>1. ASSUME NEW c \in Conns, NEW id \in Ids, BeginSpawn(c, id) PROVE TypeOK'
  BY <1>1 DEF BeginSpawn
<1>2. ASSUME NEW c \in Conns, NEW id \in Ids, BeginClose(c, id) PROVE TypeOK'
  BY <1>2 DEF BeginClose
<1>3. ASSUME NEW c \in Conns, ClaimSpawn(c) PROVE TypeOK'
  <2>1. req[c] \in Ids
    BY <1>3 DEF ClaimSpawn
  <2>2. CASE req[c] \in inflight \/ sups[req[c]] # NoPane
    BY <1>3, <2>2 DEF ClaimSpawn
  <2>3. CASE ~(req[c] \in inflight \/ sups[req[c]] # NoPane)
    BY <1>3, <2>1, <2>3 DEF ClaimSpawn
  <2>4. QED BY <2>2, <2>3
<1>4. ASSUME NEW c \in Conns, CheckCap(c) PROVE TypeOK'
  BY <1>4 DEF CheckCap
<1>5. ASSUME NEW c \in Conns, PrepareWorktree(c) PROVE TypeOK'
  <2>1. /\ pc' \in [Threads -> Steps]
        /\ worktree' \in [Ids -> {"none", "clean", "dirty"}]
    BY <1>5 DEF PrepareWorktree
  <2>2. QED BY <1>5, <2>1 DEF PrepareWorktree
<1>6. ASSUME NEW c \in Conns, ForkChild(c) PROVE TypeOK'
  BY <1>6 DEF ForkChild
<1>7. ASSUME NEW c \in Conns, ForkFails(c) PROVE TypeOK'
  BY <1>7, RemovalTyped DEF ForkFails
<1>8. ASSUME NEW c \in Conns, InsertPane(c) PROVE TypeOK'
  BY <1>8 DEF InsertPane
<1>9. ASSUME NEW c \in Conns, RecordWorktree(c) PROVE TypeOK'
  BY <1>9 DEF RecordWorktree
<1>10. ASSUME NEW c \in Conns, SetChildPid(c) PROVE TypeOK'
  BY <1>10 DEF SetChildPid
<1>11. ASSUME NEW c \in Conns, Unpend(c) PROVE TypeOK'
  BY <1>11 DEF Unpend
<1>12. ASSUME NEW c \in Conns, RemovePane(c) PROVE TypeOK'
  BY <1>12 DEF RemovePane
<1>13. ASSUME NEW t \in Threads, CleanupStep(t) PROVE TypeOK'
  <2>1. CASE KillPane(t)        BY <2>1 DEF KillPane
  <2>2. CASE TakeRecord(t)      BY <2>2 DEF TakeRecord
  <2>3. CASE RemoveWorktree(t)  BY <2>3, RemovalTyped DEF RemoveWorktree
  <2>4. CASE ForgetChildPid(t)  BY <2>4 DEF ForgetChildPid
  <2>5. CASE ReleaseClaim(t)
    <3>1. UNCHANGED <<pane, snap, reaperVars, pending, sups, record, childPid, disk,
                      children, world>>
      BY <2>5 DEF ReleaseClaim
    <3>2. /\ pc' \in [Threads -> Steps] /\ op' \in [Threads -> {"none", "spawn", "close"}]
          /\ req' \in [Threads -> Ids \cup {NoId}] /\ inflight' \subseteq Ids
      BY <2>5 DEF ReleaseClaim
    <3> QED  BY <3>1, <3>2
  <2>6. QED BY <1>13, <2>1, <2>2, <2>3, <2>4, <2>5 DEF CleanupStep
<1>14. ASSUME NEW t \in Threads, PublishStep(t) PROVE TypeOK'
  <2>1. CASE ReadChildPids(t)   BY <2>1 DEF ReadChildPids
  <2>2. CASE WriteRegistry(t)   BY <2>2 DEF WriteRegistry, Empty
  <2>3. CASE ReadRecords(t)     BY <2>3 DEF ReadRecords
  <2>4. CASE WriteTrail(t)      BY <2>4 DEF WriteTrail, Empty
  <2>5. QED BY <1>14, <2>1, <2>2, <2>3, <2>4 DEF PublishStep
<1>15. CASE BeginSweep
  BY <1>15 DEF BeginSweep
<1>16. CASE ScanPanes
  BY <1>16 DEF ScanPanes
<1>17. ASSUME NEW id \in Ids, PickCandidate(id) PROVE TypeOK'
  BY <1>17 DEF PickCandidate
<1>18. CASE Recheck
  BY <1>18 DEF Recheck
<1>19. CASE EndSweep
  BY <1>19 DEF EndSweep, Empty
<1>20. CASE ColdStart
  <2>1. Empty \in IdMap /\ FALSE \in BOOLEAN
    BY DEF Empty
  <2>2. CASE KillOrphans
    BY <2>2 DEF KillOrphans
  <2>3. CASE SweepTrail
    <3>1. worktree' \in [Ids -> {"none", "clean", "dirty"}]
      BY <2>3, RemovalTyped DEF SweepTrail
    <3> QED  BY <2>3, <3>1 DEF SweepTrail
  <2>4. CASE ClearRecords
    <3>1. appStamped' \in BOOLEAN
      BY <2>4, Zenon DEF ClearRecords
    <3> QED  BY <2>1, <2>4, <3>1 DEF ClearRecords
  <2> QED  BY <1>20, <2>2, <2>3, <2>4 DEF ColdStart
<1>21. CASE Environment
  <2>1. ASSUME NEW p \in Pids, AgentExits(p) \/ AgentEdits(p) PROVE TypeOK'
    <3>1. CASE AgentExits(p)  BY <3>1 DEF AgentExits
    <3>2. CASE AgentEdits(p)  BY <3>2 DEF AgentEdits
    <3> QED  BY <2>1, <3>1, <3>2
  <2>2. CASE Tick \/ AppStarts \/ AppDies
    <3>1. CASE Tick  BY <3>1 DEF Tick
    <3>2. CASE AppStarts
      <4>1. appStamped' \in BOOLEAN
        BY <3>2, Zenon DEF AppStarts
      <4> QED  BY <3>2, <4>1 DEF AppStarts
    <3>3. CASE AppDies
      <4>1. appStamped' \in BOOLEAN
        BY <3>3, Zenon DEF AppDies
      <4> QED  BY <3>3, <4>1 DEF AppDies
    <3> QED  BY <2>2, <3>1, <3>2, <3>3
  <2>3. CASE Crash
    <3>1. Empty \in IdMap
      BY DEF Empty
    <3>2. /\ pc' \in [Threads -> Steps]
          /\ op' \in [Threads -> {"none", "spawn", "close"}]
          /\ req' \in [Threads -> Ids \cup {NoId}]
          /\ pane' \in [Threads -> PaneOrNone]
          /\ snap' \in [Threads -> IdMap]
      BY <2>3, <3>1 DEF Crash, ProcessEnds, AllThreads
    <3>3. /\ proc' \in [Pids -> {"unborn", "running", "exited"}]
          /\ orphans' \subseteq Pids
      BY <2>3 DEF Crash, ProcessEnds
    <3>4. /\ inflight' = {} /\ pending' = 0 /\ sups' = Empty /\ record' = Empty
          /\ childPid' = Empty /\ times' = Empty /\ sweptAt' = 0
          /\ candidates' = {} /\ phase' = "dead" /\ spared' = {}
          /\ crashes' = crashes + 1 /\ UNCHANGED <<disk, home, stamp, now>>
      BY <2>3 DEF Crash, ProcessEnds
    <3>5. anyRemoved' \in BOOLEAN
      BY <2>3, Zenon DEF Crash, ProcessEnds
    <3>6. QED BY <3>1, <3>2, <3>3, <3>4, <3>5
  <2>4. QED BY <1>21, <2>1, <2>2, <2>3 DEF Environment
<1>22. CASE UNCHANGED vars
  BY <1>22 DEF vars
<1>23. QED
  BY <1>1, <1>2, <1>3, <1>4, <1>5, <1>6, <1>7, <1>8, <1>9, <1>10, <1>11, <1>12,
     <1>13, <1>14, <1>15, <1>16, <1>17, <1>18, <1>19, <1>20, <1>21, <1>22
  DEF Next, ConnStep, SpawnStep, ThreadStep, ReaperStep, SweepStep

\* No step breaks the claim: a thread takes an id only when it is not in
\* inflight_ids, and gives it back only when it is its own.
LEMMA StepClaim ==
  ClaimInv /\ [Next]_vars => ClaimsRecorded' /\ ClaimExclusion' /\ VacantUntilInsert'
<1> DEFINE Kept == ClaimsRecorded' /\ ClaimExclusion' /\ VacantUntilInsert'
<1> SUFFICES ASSUME ClaimInv, [Next]_vars
             PROVE  Kept
  OBVIOUS
<1> USE SpawnAssumption
    DEF ClaimInv, TypeOK, ClaimsRecorded, ClaimExclusion, VacantUntilInsert,
        HoldsClaim, Threads, Goto, Steps,
        SpawnSteps, CleanupSteps, PublishSteps, ReaperSteps,
        threadVars, reaperVars, memory, disk, registryFile, children, world
<1>1. ASSUME NEW c \in Conns, NEW id \in Ids, BeginSpawn(c, id) PROVE Kept
  BY <1>1 DEF BeginSpawn
<1>2. ASSUME NEW c \in Conns, NEW id \in Ids, BeginClose(c, id) PROVE Kept
  BY <1>2 DEF BeginClose
<1>3. ASSUME NEW c \in Conns, ClaimSpawn(c) PROVE Kept
  BY <1>3 DEF ClaimSpawn
<1>4. ASSUME NEW c \in Conns, CheckCap(c) PROVE Kept
  BY <1>4 DEF CheckCap
<1>5. ASSUME NEW c \in Conns, PrepareWorktree(c) PROVE Kept
  BY <1>5 DEF PrepareWorktree
<1>6. ASSUME NEW c \in Conns, ForkChild(c) PROVE Kept
  BY <1>6 DEF ForkChild
<1>7. ASSUME NEW c \in Conns, ForkFails(c) PROVE Kept
  BY <1>7 DEF ForkFails
<1>8. ASSUME NEW c \in Conns, InsertPane(c) PROVE Kept
  BY <1>8 DEF InsertPane
<1>9. ASSUME NEW c \in Conns, RecordWorktree(c) PROVE Kept
  BY <1>9 DEF RecordWorktree
<1>10. ASSUME NEW c \in Conns, SetChildPid(c) PROVE Kept
  BY <1>10 DEF SetChildPid
<1>11. ASSUME NEW c \in Conns, Unpend(c) PROVE Kept
  BY <1>11 DEF Unpend
<1>12. ASSUME NEW c \in Conns, RemovePane(c) PROVE Kept
  BY <1>12 DEF RemovePane
<1>13. ASSUME NEW t \in Threads, CleanupStep(t) PROVE Kept
  <2>1. CASE KillPane(t)   BY <2>1 DEF KillPane
  <2>2. CASE TakeRecord(t)   BY <2>2 DEF TakeRecord
  <2>3. CASE RemoveWorktree(t)   BY <2>3 DEF RemoveWorktree
  <2>4. CASE ForgetChildPid(t)   BY <2>4 DEF ForgetChildPid
  <2>5. CASE ReleaseClaim(t)   BY <2>5 DEF ReleaseClaim
  <2>6. QED BY <1>13, <2>1, <2>2, <2>3, <2>4, <2>5 DEF CleanupStep
<1>14. ASSUME NEW t \in Threads, PublishStep(t) PROVE Kept
  <2>1. CASE ReadChildPids(t)   BY <2>1 DEF ReadChildPids
  <2>2. CASE WriteRegistry(t)   BY <2>2 DEF WriteRegistry
  <2>3. CASE ReadRecords(t)   BY <2>3 DEF ReadRecords
  <2>4. CASE WriteTrail(t)   BY <2>4 DEF WriteTrail
  <2>5. QED BY <1>14, <2>1, <2>2, <2>3, <2>4 DEF PublishStep
<1>15. CASE BeginSweep
  BY <1>15 DEF BeginSweep
<1>16. CASE ScanPanes
  BY <1>16 DEF ScanPanes
<1>17. ASSUME NEW id \in Ids, PickCandidate(id) PROVE Kept
  BY <1>17 DEF PickCandidate
<1>18. CASE Recheck
  <2>1. /\ pc[Reaper] = "recheck" /\ UNCHANGED <<req, inflight>>
        /\ pc' = [pc EXCEPT ![Reaper] = "kill"] \/ pc' = [pc EXCEPT ![Reaper] = "release"]
    BY <1>18 DEF Recheck
  <2>2. sups' = sups \/ sups' = [sups EXCEPT ![req[Reaper]] = NoPane]
    BY <1>18 DEF Recheck
  <2>3. sups \in [Ids -> PaneOrNone]
    BY DEF IdMap
  <2>4. ClaimsRecorded' /\ ClaimExclusion'
    BY <2>1
  <2>5. VacantUntilInsert'
    BY <2>1, <2>2, <2>3
  <2>6. QED BY <2>4, <2>5
<1>19. CASE EndSweep
  BY <1>19 DEF EndSweep
<1>20. CASE ColdStart
  BY <1>20 DEF ColdStart, KillOrphans, SweepTrail, ClearRecords
<1>21. CASE Environment
  <2>1. ASSUME NEW p \in Pids, AgentExits(p) \/ AgentEdits(p) PROVE Kept
    BY <2>1 DEF AgentExits, AgentEdits
  <2>2. CASE Tick \/ AppStarts \/ AppDies
    BY <2>2 DEF Tick, AppStarts, AppDies
  <2>3. CASE Crash
    <3>1. \A t \in Threads : pc'[t] = "idle"
      BY <2>3 DEF Crash, ProcessEnds, AllThreads
    <3>2. QED BY <3>1
  <2>4. QED BY <1>21, <2>1, <2>2, <2>3 DEF Environment
<1>22. CASE UNCHANGED vars
  BY <1>22 DEF vars
<1>23. QED
  BY <1>1, <1>2, <1>3, <1>4, <1>5, <1>6, <1>7, <1>8, <1>9, <1>10, <1>11,
     <1>12, <1>13, <1>14, <1>15, <1>16, <1>17, <1>18, <1>19, <1>20, <1>21,
     <1>22
  DEF Next, ConnStep, SpawnStep, ThreadStep, ReaperStep, SweepStep

\* The claim invariant holds in every reachable state.
THEOREM ClaimInvHolds == Spec => []ClaimInv
<1>1. Init => ClaimInv
  BY InitClaim
<1>2. ClaimInv /\ [Next]_vars => ClaimInv'
  BY StepTypeOK, StepClaim DEF ClaimInv
<1>3. QED
  BY <1>1, <1>2, PTL DEF Spec

\* Every variable of the daemon keeps its type.
THEOREM TypeCorrect == Spec => []TypeOK
<1>1. ClaimInv => TypeOK
  BY DEF ClaimInv
<1>2. QED
  BY <1>1, ClaimInvHolds, PTL

\* inflight_ids is a mutex per workspace id: spawn, close and reap never work
\* on one id together.
THEOREM Exclusion == Spec => []ClaimExclusion
<1>1. ClaimInv => ClaimExclusion
  BY DEF ClaimInv
<1>2. QED
  BY <1>1, ClaimInvHolds, PTL

\* No spawn replaces (and so kills) a pane that is already in the map.
THEOREM NoPaneReplaced == Spec => []InsertFindsVacant
<1>1. ClaimInv => InsertFindsVacant
  BY DEF ClaimInv, VacantUntilInsert, InsertFindsVacant, Threads
<1>2. QED
  BY <1>1, ClaimInvHolds, PTL
-----------------------------------------------------------------------------
(* The pane cap *)

\* The connections that have passed the cap check and not yet inserted.
Admitted == {c \in Conns : pc[c] \in {"prepare", "fork", "insert"}}

\* Both sets are finite, and so count.
LEMMA LiveFinite ==
  ASSUME TypeOK
  PROVE  /\ IsFiniteSet(Ids) /\ IsFiniteSet(Conns)
         /\ IsFiniteSet(Live) /\ Cardinality(Live) \in Nat
         /\ IsFiniteSet(Admitted) /\ Cardinality(Admitted) \in Nat
         /\ Cardinality(Admitted) <= Cardinality(Conns)
         /\ Cardinality(Conns) \in Nat
<1>1. IsFiniteSet(Ids) /\ IsFiniteSet(Conns)
  BY SpawnAssumption
<1>2. Live \subseteq Ids /\ Admitted \subseteq Conns
  BY DEF Live, Admitted
<1>3. QED
  BY <1>1, <1>2, FS_Subset, FS_CardinalityType

\* Only a passed cap check adds to Admitted, and only an insert to Live.
LEMMA CapShape ==
  ASSUME ClaimInv, [Next]_vars
  PROVE  \/ Live' \subseteq Live /\ Admitted' \subseteq Admitted
         \/ \E c \in Conns : CheckCap(c) \/ InsertPane(c)
<1> DEFINE Less == Live' \subseteq Live /\ Admitted' \subseteq Admitted
<1> USE SpawnAssumption
    DEF ClaimInv, TypeOK, Threads, Goto, IdMap, Live, Admitted,
        threadVars, reaperVars, memory, disk, registryFile, children, world
<1>1. ASSUME NEW c \in Conns, NEW id \in Ids, BeginSpawn(c, id) PROVE Less
  BY <1>1 DEF BeginSpawn
<1>2. ASSUME NEW c \in Conns, NEW id \in Ids, BeginClose(c, id) PROVE Less
  BY <1>2 DEF BeginClose
<1>3. ASSUME NEW c \in Conns, ClaimSpawn(c) PROVE Less
  BY <1>3 DEF ClaimSpawn
<1>4. ASSUME NEW c \in Conns, PrepareWorktree(c) PROVE Less
  BY <1>4 DEF PrepareWorktree
<1>5. ASSUME NEW c \in Conns, ForkChild(c) PROVE Less
  BY <1>5 DEF ForkChild
<1>6. ASSUME NEW c \in Conns, ForkFails(c) PROVE Less
  BY <1>6 DEF ForkFails
<1>7. ASSUME NEW c \in Conns, RecordWorktree(c) \/ SetChildPid(c) \/ Unpend(c) PROVE Less
  BY <1>7 DEF RecordWorktree, SetChildPid, Unpend
<1>8. ASSUME NEW c \in Conns, RemovePane(c) PROVE Less
  BY <1>8 DEF RemovePane
<1>9. ASSUME NEW t \in Threads, CleanupStep(t) PROVE Less
  <2>1. CASE KillPane(t)        BY <2>1 DEF KillPane
  <2>2. CASE TakeRecord(t)      BY <2>2 DEF TakeRecord
  <2>3. CASE RemoveWorktree(t)  BY <2>3 DEF RemoveWorktree
  <2>4. CASE ForgetChildPid(t)  BY <2>4 DEF ForgetChildPid
  <2>5. CASE ReleaseClaim(t)    BY <2>5 DEF ReleaseClaim
  <2>6. QED BY <1>9, <2>1, <2>2, <2>3, <2>4, <2>5 DEF CleanupStep
<1>10. ASSUME NEW t \in Threads, PublishStep(t) PROVE Less
  BY <1>10 DEF PublishStep, ReadChildPids, WriteRegistry, ReadRecords, WriteTrail
<1>11. CASE BeginSweep \/ ScanPanes \/ EndSweep
  BY <1>11 DEF BeginSweep, ScanPanes, EndSweep
<1>12. ASSUME NEW id \in Ids, PickCandidate(id) PROVE Less
  BY <1>12 DEF PickCandidate
<1>13. CASE Recheck
  BY <1>13 DEF Recheck
<1>14. CASE ColdStart
  BY <1>14 DEF ColdStart, KillOrphans, SweepTrail, ClearRecords
<1>15. CASE Environment
  <2>1. ASSUME NEW p \in Pids, AgentExits(p) \/ AgentEdits(p) PROVE Less
    BY <2>1 DEF AgentExits, AgentEdits
  <2>2. CASE Tick \/ AppStarts \/ AppDies
    BY <2>2 DEF Tick, AppStarts, AppDies
  <2>3. CASE Crash
    <3>1. sups' = Empty /\ pc' = AllThreads("idle")
      BY <2>3 DEF Crash, ProcessEnds
    <3>2. QED BY <3>1 DEF Empty, AllThreads
  <2>4. QED BY <1>15, <2>1, <2>2, <2>3 DEF Environment
<1>16. CASE UNCHANGED vars
  BY <1>16 DEF vars
<1>17. QED
  BY <1>1, <1>2, <1>3, <1>4, <1>5, <1>6, <1>7, <1>8, <1>9, <1>10, <1>11,
     <1>12, <1>13, <1>14, <1>15, <1>16
  DEF Next, ConnStep, SpawnStep, ThreadStep, ReaperStep, SweepStep

\* No step takes the panes, those under way included, past the bound.
LEMMA StepCap ==
  ASSUME ClaimInv, ClaimInv', CapOverrunBounded, [Next]_vars
  PROVE  CapOverrunBounded'
<1>1. /\ CountLive = Cardinality(Live) /\ CountLive' = Cardinality(Live')
      /\ CapOverrunBounded <=> Cardinality(Live) + Cardinality(Admitted)
                                 <= MaxDaemonPanes - 1 + Cardinality(Conns)
      /\ CapOverrunBounded' <=> Cardinality(Live') + Cardinality(Admitted')
                                 <= MaxDaemonPanes - 1 + Cardinality(Conns)
  BY DEF CountLive, Live, Admitted, CapOverrunBounded
<1>2. /\ IsFiniteSet(Ids) /\ IsFiniteSet(Conns)
      /\ IsFiniteSet(Live) /\ Cardinality(Live) \in Nat
      /\ IsFiniteSet(Admitted) /\ Cardinality(Admitted) \in Nat
      /\ Cardinality(Conns) \in Nat
  BY LiveFinite DEF ClaimInv
<1>3. /\ IsFiniteSet(Live') /\ Cardinality(Live') \in Nat
      /\ IsFiniteSet(Admitted') /\ Cardinality(Admitted') \in Nat
      /\ Cardinality(Admitted') <= Cardinality(Conns)
  <2>1. Live' \subseteq Ids /\ Admitted' \subseteq Conns
    BY DEF Live, Admitted
  <2>2. QED
    BY <1>2, <2>1, FS_Subset, FS_CardinalityType
<1>4. MaxDaemonPanes \in Nat \ {0}
  BY SpawnAssumption
<1>5. CASE Live' \subseteq Live /\ Admitted' \subseteq Admitted
  <2>1. Cardinality(Live') <= Cardinality(Live)
    BY <1>2, <1>5, FS_Subset
  <2>2. Cardinality(Admitted') <= Cardinality(Admitted)
    BY <1>2, <1>5, FS_Subset
  <2>3. QED
    BY <1>1, <1>2, <1>3, <1>4, <2>1, <2>2
<1>6. ASSUME NEW c \in Conns, CheckCap(c) PROVE CapOverrunBounded'
  <2>1. Live' = Live
    BY <1>6 DEF CheckCap, Live, memory
  <2>2. CASE CountLive >= MaxDaemonPanes
    <3>1. pc' = [pc EXCEPT ![c] = "release"]
      BY <1>6, <2>2 DEF CheckCap, Goto
    <3>2. Admitted' \subseteq Admitted
      BY <3>1 DEF Admitted, ClaimInv, TypeOK, Threads
    <3>3. QED
      BY <1>5, <2>1, <3>2
  <2>3. CASE ~(CountLive >= MaxDaemonPanes)
    <3>1. Cardinality(Live) <= MaxDaemonPanes - 1
      BY <1>1, <1>2, <1>4, <2>3
    <3>2. QED
      BY <1>1, <1>2, <1>3, <1>4, <2>1, <3>1
  <2>4. QED
    BY <2>2, <2>3
<1>7. ASSUME NEW c \in Conns, InsertPane(c) PROVE CapOverrunBounded'
  <2>1. pc[c] = "insert" /\ req[c] \in Ids \cup {NoId}
    BY <1>7 DEF InsertPane, ClaimInv, TypeOK, Threads
  <2>2. Live' \subseteq Live \cup {req[c]}
    BY <1>7 DEF InsertPane, Live, ClaimInv, TypeOK, IdMap
  <2>3. Admitted' = Admitted \ {c} /\ c \in Admitted
    BY <1>7, <2>1 DEF InsertPane, Goto, Admitted, ClaimInv, TypeOK, Threads
  <2>4. /\ IsFiniteSet(Live \cup {req[c]})
        /\ Cardinality(Live \cup {req[c]}) <= Cardinality(Live) + 1
    <3>1. CASE req[c] \in Live
      <4>1. Live \cup {req[c]} = Live
        BY <3>1
      <4>2. QED
        BY <1>2, <4>1
    <3>2. CASE req[c] \notin Live
      <4>1. IsFiniteSet(Live \cup {req[c]})
        BY <1>2, FS_AddElement, Zenon
      <4>2. Cardinality(Live \cup {req[c]}) = Cardinality(Live) + 1
        BY <1>2, <3>2, FS_AddElement, Zenon
      <4>3. QED
        BY <1>2, <4>1, <4>2
    <3>3. QED
      BY <3>1, <3>2
  <2>5. /\ Cardinality(Live') <= Cardinality(Live \cup {req[c]})
        /\ Cardinality(Live \cup {req[c]}) \in Nat
    BY <2>2, <2>4, FS_Subset, FS_CardinalityType
  <2>6. Cardinality(Admitted') = Cardinality(Admitted) - 1
    BY <1>2, <2>3, FS_RemoveElement
  <2>7. QED
    BY <1>1, <1>2, <1>3, <1>4, <2>4, <2>5, <2>6
<1>8. QED
  BY <1>5, <1>6, <1>7, CapShape

\* Concurrent spawns of different ids check the cap before they insert; panes
\* and spawns past the check together stay below the cap plus the connections.
THEOREM CapOverrun == Spec => []CapOverrunBounded
<1>1. Init => CapOverrunBounded
  <2> SUFFICES ASSUME Init PROVE CapOverrunBounded
    OBVIOUS
  <2>1. Live = {} /\ Admitted = {}
    BY DEF Init, Live, Admitted, Empty, AllThreads, Threads
  <2>2. Cardinality({}) = 0 /\ Cardinality(Conns) \in Nat
    BY FS_EmptySet, FS_CardinalityType, SpawnAssumption
  <2>3. CountLive = 0
        /\ Cardinality({c \in Conns : pc[c] \in {"prepare", "fork", "insert"}}) = 0
    BY <2>1, <2>2 DEF CountLive, Live, Admitted
  <2>4. QED
    BY <2>2, <2>3, SpawnAssumption DEF CapOverrunBounded
<1>2. ClaimInv /\ ClaimInv' /\ CapOverrunBounded /\ [Next]_vars => CapOverrunBounded'
  BY StepCap
<1>3. QED
  BY <1>1, <1>2, ClaimInvHolds, PTL DEF Spec

-----------------------------------------------------------------------------
(***************************************************************************)
(* The panes, on top of the claim invariant: what the three maps, the      *)
(* worktrees and the children are at each step of a thread that has an id  *)
(* claimed.                                                                *)
(***************************************************************************)
\* While the daemon is not serving there is no pane and no thread at work.
ColdIsEmpty ==
  phase # "serving" => sups = Empty /\ \A t \in Threads : pc[t] = "idle"

\* Before the insert of a spawn nothing is kept at its id.
SpawnStartsClean ==
  \A t \in Threads : pc[t] \in {"cap", "prepare", "fork", "insert"} =>
    record[req[t]] = NoPane /\ childPid[req[t]] = NoPane

\* After it the maps learn of the pane one by one.
SpawnFillsMaps ==
  \A t \in Threads :
    /\ pc[t] = "record" =>
         /\ sups[req[t]] = pane[t]
         /\ record[req[t]] = NoPane /\ childPid[req[t]] = NoPane
    /\ pc[t] = "setpid" =>
         /\ sups[req[t]] = pane[t]
         /\ record[req[t]] = pane[t] /\ childPid[req[t]] = NoPane

\* A close or a reap empties the maps one by one.
CleanupEmptiesMaps ==
  \A t \in Threads :
    /\ pc[t] \in {"kill", "take", "rmtree", "forget"} => sups[req[t]] = NoPane
    /\ pc[t] \in {"rmtree", "forget"} => record[req[t]] = NoPane

\* At the other steps under a claim the maps agree.
AgreeAtRest ==
  \A t \in Threads :
    pc[t] \in {"remove", "recheck", "release"} \/ (t # Reaper /\ pc[t] \in PublishSteps)
      => childPid[req[t]] = sups[req[t]] /\ record[req[t]] = sups[req[t]]

MapsInv ==
  /\ ColdIsEmpty /\ SettledBookkeeping
  /\ SpawnStartsClean /\ SpawnFillsMaps /\ CleanupEmptiesMaps /\ AgreeAtRest

\* A spawn that is about to fork or to insert has its worktree, and so has a
\* pane whose agent runs.
SpawnHasTree ==
  \A t \in Threads : pc[t] \in {"fork", "insert"} => worktree[req[t]] # "none"

TreeInv == SpawnHasTree /\ RunningPaneHasWorktree

\* A child belongs to the id it was forked for, in the map or in the hand of
\* the thread that inserts or kills it.
PanesHome ==
  \A id \in Ids : sups[id] # NoPane =>
    home[sups[id]] = id /\ proc[sups[id]] # "unborn"

Holding(t) == pc[t] \in {"insert", "kill"}

HandsHome ==
  \A t \in Threads : Holding(t) =>
    pane[t] \in Pids /\ home[pane[t]] = req[t] /\ proc[pane[t]] # "unborn"

\* A running child is in one of the two places.
InMapOrHand ==
  \A p \in Pids \ orphans : proc[p] = "running" =>
    /\ home[p] \in Ids
    /\ sups[home[p]] = p \/ \E t \in Threads : Holding(t) /\ pane[t] = p

ChildInv == PanesHome /\ HandsHome /\ InMapOrHand

PaneInv == MapsInv /\ TreeInv /\ ChildInv
-----------------------------------------------------------------------------
\* The initial states satisfy the invariant.
LEMMA InitPane == Init => PaneInv
<1> SUFFICES ASSUME Init PROVE PaneInv
  OBVIOUS
<1>1. \A t \in Threads : pc[t] = "idle"
  BY DEF Init, AllThreads
<1>2. \A id \in Ids : sups[id] = NoPane /\ record[id] = NoPane /\ childPid[id] = NoPane
  BY DEF Init, Empty
<1>3. sups = Empty /\ \A p \in Pids : proc[p] = "unborn"
  BY DEF Init
<1>4. MapsInv
  BY <1>1, <1>2, <1>3 DEF MapsInv, ColdIsEmpty, SettledBookkeeping, SpawnStartsClean,
     SpawnFillsMaps, CleanupEmptiesMaps, AgreeAtRest, PublishSteps
<1>5. TreeInv
  BY <1>1, <1>2 DEF TreeInv, SpawnHasTree, RunningPaneHasWorktree
<1>6. ChildInv
  BY <1>1, <1>2, <1>3 DEF ChildInv, PanesHome, HandsHome, Holding, InMapOrHand
<1>7. QED
  BY <1>4, <1>5, <1>6 DEF PaneInv

\* What holds under a claim is not disturbed when a thread leaves its claim.
LEMMA LeaveClaim ==
  ASSUME UNCHANGED <<sups, record, childPid, pane, worktree>>,
         \A s \in Threads :
           \/ pc'[s] \in {"unpend", "pick", "idle"}
           \/ pc'[s] = pc[s] /\ req'[s] = req[s]
  PROVE  /\ SpawnStartsClean => SpawnStartsClean'
         /\ SpawnFillsMaps => SpawnFillsMaps'
         /\ CleanupEmptiesMaps => CleanupEmptiesMaps'
         /\ AgreeAtRest => AgreeAtRest'
         /\ SpawnHasTree => SpawnHasTree'
<1>1. SpawnStartsClean => SpawnStartsClean'
  BY DEF SpawnStartsClean
<1>2. SpawnFillsMaps => SpawnFillsMaps'
  BY DEF SpawnFillsMaps
<1>3. CleanupEmptiesMaps => CleanupEmptiesMaps'
  BY DEF CleanupEmptiesMaps
<1>4. AgreeAtRest => AgreeAtRest'
  BY DEF AgreeAtRest, PublishSteps
<1>5. SpawnHasTree => SpawnHasTree'
  BY DEF SpawnHasTree
<1>6. QED
  BY <1>1, <1>2, <1>3, <1>4, <1>5

\* No step lets the three maps disagree where nobody is working on the id.
LEMMA StepMaps == ClaimInv /\ MapsInv /\ [Next]_vars => MapsInv'
<1> SUFFICES ASSUME ClaimInv, MapsInv, [Next]_vars
             PROVE  MapsInv'
  OBVIOUS
<1> USE SpawnAssumption
    DEF ClaimInv, TypeOK, ClaimsRecorded, ClaimExclusion, VacantUntilInsert,
        HoldsClaim, Threads, Pids, IdMap, PaneOrNone, NoPane, Goto, Steps,
        SpawnSteps, CleanupSteps, PublishSteps, ReaperSteps,
        threadVars, reaperVars, memory, disk, registryFile, children, world, 
        MapsInv, ColdIsEmpty, SettledBookkeeping, SpawnStartsClean,
        SpawnFillsMaps, CleanupEmptiesMaps, AgreeAtRest, Empty
<1>1. ASSUME NEW c \in Conns, NEW id \in Ids, BeginSpawn(c, id) PROVE MapsInv'
  BY <1>1 DEF BeginSpawn
<1>2. ASSUME NEW c \in Conns, NEW id \in Ids, BeginClose(c, id) PROVE MapsInv'
  BY <1>2 DEF BeginClose
<1>3. ASSUME NEW c \in Conns, ClaimSpawn(c) PROVE MapsInv'
  BY <1>3 DEF ClaimSpawn
<1>4. ASSUME NEW c \in Conns, CheckCap(c) PROVE MapsInv'
  BY <1>4 DEF CheckCap
<1>5. ASSUME NEW c \in Conns, PrepareWorktree(c) PROVE MapsInv'
  BY <1>5 DEF PrepareWorktree
<1>6. ASSUME NEW c \in Conns, ForkChild(c) PROVE MapsInv'
  BY <1>6 DEF ForkChild
<1>7. ASSUME NEW c \in Conns, ForkFails(c) PROVE MapsInv'
  BY <1>7 DEF ForkFails, RemoveWorktrees
<1>8. ASSUME NEW c \in Conns, InsertPane(c) PROVE MapsInv'
  BY <1>8 DEF InsertPane
<1>9. ASSUME NEW c \in Conns, RecordWorktree(c) PROVE MapsInv'
  BY <1>9 DEF RecordWorktree
<1>10. ASSUME NEW c \in Conns, SetChildPid(c) PROVE MapsInv'
  BY <1>10 DEF SetChildPid
<1>11. ASSUME NEW c \in Conns, Unpend(c) PROVE MapsInv'
  BY <1>11 DEF Unpend
<1>12. ASSUME NEW c \in Conns, RemovePane(c) PROVE MapsInv'
  BY <1>12 DEF RemovePane
<1>13. ASSUME NEW t \in Threads, CleanupStep(t) PROVE MapsInv'
  <2>1. CASE KillPane(t)   BY <2>1 DEF KillPane
  <2>2. CASE TakeRecord(t)   BY <2>2 DEF TakeRecord
  <2>3. CASE RemoveWorktree(t)   BY <2>3 DEF RemoveWorktree, RemoveWorktrees
  <2>4. CASE ForgetChildPid(t)   BY <2>4 DEF ForgetChildPid
  <2>5. CASE ReleaseClaim(t)
    <3>1. /\ pc[t] = "release" /\ inflight' = inflight \ {req[t]}
          /\ UNCHANGED <<phase, sups, record, childPid, pane, worktree>>
          /\ \A s \in Threads :
               \/ pc'[s] \in {"unpend", "pick", "idle"}
               \/ pc'[s] = pc[s] /\ req'[s] = req[s]
      BY <2>5 DEF ReleaseClaim
    <3>2. ColdIsEmpty'
      BY <2>5, <3>1
    <3>3. SettledBookkeeping'
      BY <3>1
    <3>4. SpawnStartsClean' /\ SpawnFillsMaps' /\ CleanupEmptiesMaps' /\ AgreeAtRest'
      BY <3>1, LeaveClaim
    <3>5. QED BY <3>2, <3>3, <3>4
  <2>6. QED BY <1>13, <2>1, <2>2, <2>3, <2>4, <2>5 DEF CleanupStep
<1>14. ASSUME NEW t \in Threads, PublishStep(t) PROVE MapsInv'
  <2>1. CASE ReadChildPids(t)   BY <2>1 DEF ReadChildPids
  <2>2. CASE WriteRegistry(t)   BY <2>2 DEF WriteRegistry
  <2>3. CASE ReadRecords(t)   BY <2>3 DEF ReadRecords
  <2>4. CASE WriteTrail(t)   BY <2>4 DEF WriteTrail
  <2>5. QED BY <1>14, <2>1, <2>2, <2>3, <2>4 DEF PublishStep
<1>15. CASE BeginSweep
  BY <1>15 DEF BeginSweep
<1>16. CASE ScanPanes
  BY <1>16 DEF ScanPanes
<1>17. ASSUME NEW id \in Ids, PickCandidate(id) PROVE MapsInv'
  BY <1>17 DEF PickCandidate
<1>18. CASE Recheck
  BY <1>18 DEF Recheck
<1>19. CASE EndSweep
  BY <1>19 DEF EndSweep
<1>20. CASE ColdStart
  BY <1>20 DEF ColdStart, KillOrphans, SweepTrail, ClearRecords, RemoveWorktrees
<1>21. CASE Environment
  <2>1. ASSUME NEW p \in Pids, AgentExits(p) \/ AgentEdits(p) PROVE MapsInv'
    BY <2>1 DEF AgentExits, AgentEdits
  <2>2. CASE Tick \/ AppStarts \/ AppDies
    BY <2>2 DEF Tick, AppStarts, AppDies
  <2>3. CASE Crash
    BY <2>3 DEF Crash, ProcessEnds, AllThreads
  <2>4. QED BY <1>21, <2>1, <2>2, <2>3 DEF Environment
<1>22. CASE UNCHANGED vars
  BY <1>22 DEF vars
<1>23. QED
    BY <1>1, <1>2, <1>3, <1>4, <1>5, <1>6, <1>7, <1>8, <1>9, <1>10, <1>11,
     <1>12, <1>13, <1>14, <1>15, <1>16, <1>17, <1>18, <1>19, <1>20, <1>21,
     <1>22
  DEF Next, ConnStep, SpawnStep, ThreadStep, ReaperStep, SweepStep

\* No step takes the worktree away from under a running agent.
LEMMA StepTree == ClaimInv /\ MapsInv /\ TreeInv /\ ChildInv /\ [Next]_vars => TreeInv'
<1> SUFFICES ASSUME ClaimInv, MapsInv, TreeInv, ChildInv, [Next]_vars
             PROVE  TreeInv'
  OBVIOUS
<1> USE SpawnAssumption
    DEF ClaimInv, TypeOK, ClaimsRecorded, ClaimExclusion, VacantUntilInsert,
        HoldsClaim, Threads, Pids, IdMap, PaneOrNone, NoPane, Goto, Steps,
        SpawnSteps, CleanupSteps, PublishSteps, ReaperSteps,
        threadVars, reaperVars, memory, disk, registryFile, children, world, 
        ColdIsEmpty, CleanupEmptiesMaps, MapsInv, TreeInv, SpawnHasTree, RunningPaneHasWorktree,
        ChildInv, PanesHome, Empty
<1>1. ASSUME NEW c \in Conns, NEW id \in Ids, BeginSpawn(c, id) PROVE TreeInv'
  BY <1>1 DEF BeginSpawn
<1>2. ASSUME NEW c \in Conns, NEW id \in Ids, BeginClose(c, id) PROVE TreeInv'
  BY <1>2 DEF BeginClose
<1>3. ASSUME NEW c \in Conns, ClaimSpawn(c) PROVE TreeInv'
  BY <1>3 DEF ClaimSpawn
<1>4. ASSUME NEW c \in Conns, CheckCap(c) PROVE TreeInv'
  BY <1>4 DEF CheckCap
<1>5. ASSUME NEW c \in Conns, PrepareWorktree(c) PROVE TreeInv'
  BY <1>5 DEF PrepareWorktree
<1>6. ASSUME NEW c \in Conns, ForkChild(c) PROVE TreeInv'
  BY <1>6 DEF ForkChild
<1>7. ASSUME NEW c \in Conns, ForkFails(c) PROVE TreeInv'
  BY <1>7 DEF ForkFails, RemoveWorktrees
<1>8. ASSUME NEW c \in Conns, InsertPane(c) PROVE TreeInv'
  BY <1>8 DEF InsertPane
<1>9. ASSUME NEW c \in Conns, RecordWorktree(c) PROVE TreeInv'
  BY <1>9 DEF RecordWorktree
<1>10. ASSUME NEW c \in Conns, SetChildPid(c) PROVE TreeInv'
  BY <1>10 DEF SetChildPid
<1>11. ASSUME NEW c \in Conns, Unpend(c) PROVE TreeInv'
  BY <1>11 DEF Unpend
<1>12. ASSUME NEW c \in Conns, RemovePane(c) PROVE TreeInv'
  BY <1>12 DEF RemovePane
<1>13. ASSUME NEW t \in Threads, CleanupStep(t) PROVE TreeInv'
  <2>1. CASE KillPane(t)   BY <2>1 DEF KillPane
  <2>2. CASE TakeRecord(t)   BY <2>2 DEF TakeRecord
  <2>3. CASE RemoveWorktree(t)   BY <2>3 DEF RemoveWorktree, RemoveWorktrees
  <2>4. CASE ForgetChildPid(t)   BY <2>4 DEF ForgetChildPid
  <2>5. CASE ReleaseClaim(t)
    <3>1. /\ UNCHANGED <<sups, record, childPid, pane, worktree, proc>>
          /\ \A s \in Threads :
               \/ pc'[s] \in {"unpend", "pick", "idle"}
               \/ pc'[s] = pc[s] /\ req'[s] = req[s]
      BY <2>5 DEF ReleaseClaim
    <3>2. SpawnHasTree'
      BY <3>1, LeaveClaim
    <3>3. QED BY <3>1, <3>2
  <2>6. QED BY <1>13, <2>1, <2>2, <2>3, <2>4, <2>5 DEF CleanupStep
<1>14. ASSUME NEW t \in Threads, PublishStep(t) PROVE TreeInv'
  <2>1. CASE ReadChildPids(t)   BY <2>1 DEF ReadChildPids
  <2>2. CASE WriteRegistry(t)   BY <2>2 DEF WriteRegistry
  <2>3. CASE ReadRecords(t)   BY <2>3 DEF ReadRecords
  <2>4. CASE WriteTrail(t)   BY <2>4 DEF WriteTrail
  <2>5. QED BY <1>14, <2>1, <2>2, <2>3, <2>4 DEF PublishStep
<1>15. CASE BeginSweep
  BY <1>15 DEF BeginSweep
<1>16. CASE ScanPanes
  BY <1>16 DEF ScanPanes
<1>17. ASSUME NEW id \in Ids, PickCandidate(id) PROVE TreeInv'
  BY <1>17 DEF PickCandidate
<1>18. CASE Recheck
  BY <1>18 DEF Recheck
<1>19. CASE EndSweep
  BY <1>19 DEF EndSweep
<1>20. CASE ColdStart
  BY <1>20 DEF ColdStart, KillOrphans, SweepTrail, ClearRecords, RemoveWorktrees
<1>21. CASE Environment
  <2>1. ASSUME NEW p \in Pids, AgentExits(p) \/ AgentEdits(p) PROVE TreeInv'
    BY <2>1 DEF AgentExits, AgentEdits
  <2>2. CASE Tick \/ AppStarts \/ AppDies
    BY <2>2 DEF Tick, AppStarts, AppDies
  <2>3. CASE Crash
    BY <2>3 DEF Crash, ProcessEnds, AllThreads
  <2>4. QED BY <1>21, <2>1, <2>2, <2>3 DEF Environment
<1>22. CASE UNCHANGED vars
  BY <1>22 DEF vars
<1>23. QED
    BY <1>1, <1>2, <1>3, <1>4, <1>5, <1>6, <1>7, <1>8, <1>9, <1>10, <1>11,
     <1>12, <1>13, <1>14, <1>15, <1>16, <1>17, <1>18, <1>19, <1>20, <1>21,
     <1>22
  DEF Next, ConnStep, SpawnStep, ThreadStep, ReaperStep, SweepStep

\* Without panes in the map and threads at work no child runs but orphans.
LEMMA ColdChildren ==
  ASSUME InMapOrHand, \A id \in Ids : sups[id] = NoPane, \A t \in Threads : pc[t] = "idle"
  PROVE  \A p \in Pids \ orphans : proc[p] # "running"
<1>1. NoPane \notin Pids
  BY SpawnAssumption DEF NoPane, Pids
<1>2. \A t \in Threads : ~Holding(t)
  BY DEF Holding
<1>3. QED
  BY <1>1, <1>2 DEF InMapOrHand

\* No step loses a running child.
LEMMA StepChild == ClaimInv /\ MapsInv /\ ChildInv /\ [Next]_vars => ChildInv'
<1> SUFFICES ASSUME ClaimInv, MapsInv, ChildInv, [Next]_vars
             PROVE  ChildInv'
  OBVIOUS
<1> USE SpawnAssumption
    DEF ClaimInv, TypeOK, ClaimsRecorded, HoldsClaim, Threads, Pids, IdMap, PaneOrNone,
        NoPane, Goto, SpawnSteps, CleanupSteps, ChildInv, PanesHome, HandsHome,
        InMapOrHand, Holding, threadVars, reaperVars, memory, disk, registryFile, children, world
\* A step that moves no child between the map and a hand, and starts none.
<1> DEFINE Still ==
      /\ UNCHANGED <<sups, home, orphans>>
      /\ \A t \in Threads :
           /\ Holding(t)' <=> Holding(t)
           /\ Holding(t) => pane'[t] = pane[t] /\ req'[t] = req[t]
      /\ \A p \in Pids : proc'[p] # proc[p] => proc'[p] = "exited" /\ proc[p] # "unborn"
<1>0. ASSUME Still PROVE ChildInv'
  <2>1. PanesHome'
    BY <1>0
  <2>2. HandsHome'
    BY <1>0
  <2>3. InMapOrHand'
    <3> SUFFICES ASSUME NEW q \in Pids \ orphans, proc'[q] = "running"
                 PROVE  /\ home[q] \in Ids
                        /\ \/ sups[home[q]] = q
                           \/ \E t \in Threads : Holding(t)' /\ pane'[t] = q
      BY <1>0
    <3>1. proc[q] = "running"
      BY <1>0
    <3>2. CASE sups[home[q]] = q
      BY <3>1, <3>2
    <3>3. CASE \E t \in Threads : Holding(t) /\ pane[t] = q
      <4>1. PICK t \in Threads : Holding(t) /\ pane[t] = q
        BY <3>3
      <4>2. Holding(t)' /\ pane'[t] = q
        BY <1>0, <4>1
      <4>3. QED BY <3>1, <4>2
    <3>4. QED BY <3>1, <3>2, <3>3
  <2>4. QED BY <2>1, <2>2, <2>3
<1>1. ASSUME NEW c \in Conns, NEW id \in Ids, BeginSpawn(c, id) \/ BeginClose(c, id)
      PROVE  Still
  BY <1>1 DEF BeginSpawn, BeginClose
<1>2. ASSUME NEW c \in Conns, ClaimSpawn(c) \/ CheckCap(c) \/ Unpend(c) PROVE Still
  BY <1>2 DEF ClaimSpawn, CheckCap, Unpend
<1>3. ASSUME NEW c \in Conns, PrepareWorktree(c) \/ ForkFails(c) PROVE Still
  BY <1>3 DEF PrepareWorktree, ForkFails
<1>4. ASSUME NEW c \in Conns, RecordWorktree(c) \/ SetChildPid(c) PROVE Still
  BY <1>4 DEF RecordWorktree, SetChildPid
<1>5. ASSUME NEW c \in Conns, ForkChild(c) PROVE ChildInv'
  <2>1. PICK p \in Pids :
          /\ proc[p] = "unborn"
          /\ proc' = [proc EXCEPT ![p] = "running"]
          /\ home' = [home EXCEPT ![p] = req[c]]
          /\ pane' = [pane EXCEPT ![c] = p]
    BY <1>5 DEF ForkChild
  <2>2. /\ pc[c] = "fork" /\ pc' = [pc EXCEPT ![c] = "insert"]
        /\ UNCHANGED <<req, sups, orphans>> /\ req[c] \in Ids
    BY <1>5 DEF ForkChild
  <2>3. PanesHome'
    BY <2>1, <2>2
  <2>4. HandsHome'
    BY <2>1, <2>2
  <2>5. InMapOrHand'
    <3> SUFFICES ASSUME NEW q \in Pids \ orphans, proc'[q] = "running"
                 PROVE  /\ home'[q] \in Ids
                        /\ \/ sups[home'[q]] = q
                           \/ \E t \in Threads : Holding(t)' /\ pane'[t] = q
      BY <2>2
    <3>1. CASE q = p
      BY <2>1, <2>2, <3>1
    <3>2. CASE q # p
      <4>1. proc[q] = "running" /\ home'[q] = home[q]
        BY <2>1, <3>2
      <4>2. CASE sups[home[q]] = q
        BY <4>1, <4>2
      <4>3. ASSUME NEW t \in Threads, Holding(t), pane[t] = q
            PROVE  Holding(t)' /\ pane'[t] = q
        BY <2>1, <2>2, <4>3
      <4>4. QED BY <4>1, <4>2, <4>3
    <3>3. QED BY <3>1, <3>2
  <2>6. QED BY <2>3, <2>4, <2>5
<1>6. ASSUME NEW c \in Conns, InsertPane(c) PROVE ChildInv'
  BY <1>6 DEF InsertPane
\* A pane goes from the map into the hand of the thread that will kill it.
<1>7. ASSUME NEW t \in Threads, req[t] \in Ids, ~Holding(t),
             sups' = [sups EXCEPT ![req[t]] = NoPane],
             pane' = [pane EXCEPT ![t] = sups[req[t]]],
             pc' = [pc EXCEPT ![t] = IF sups[req[t]] = NoPane THEN "release" ELSE "kill"],
             UNCHANGED <<req, proc, home, orphans>>
      PROVE  ChildInv'
  <2>1. PanesHome'
    BY <1>7
  <2>2. HandsHome'
    BY <1>7
  <2>3. InMapOrHand'
    <3> SUFFICES ASSUME NEW q \in Pids \ orphans, proc[q] = "running"
                 PROVE  /\ home[q] \in Ids
                        /\ \/ sups'[home[q]] = q
                           \/ \E s \in Threads : Holding(s)' /\ pane'[s] = q
      BY <1>7
    <3>1. CASE q = sups[req[t]]
      <4>1. Holding(t)' /\ pane'[t] = q
        BY <1>7, <3>1
      <4>2. QED BY <4>1
    <3>2. CASE q # sups[req[t]] /\ sups[home[q]] = q
      BY <1>7, <3>2
    <3>3. CASE \E s \in Threads : Holding(s) /\ pane[s] = q
      BY <1>7, <3>3
    <3>4. QED BY <3>1, <3>2, <3>3
  <2>4. QED BY <2>1, <2>2, <2>3
<1>8. ASSUME NEW c \in Conns, RemovePane(c) PROVE ChildInv'
  <2>1. pc[c] = "remove" /\ req[c] \in Ids
    BY <1>8 DEF RemovePane
  <2>2. QED BY <1>7, <1>8, <2>1 DEF RemovePane
<1>9. ASSUME NEW t \in Threads, CleanupStep(t) PROVE ChildInv'
  <2>1. CASE KillPane(t)
    BY <2>1 DEF KillPane
  <2>2. CASE TakeRecord(t) \/ RemoveWorktree(t) \/ ForgetChildPid(t)
    <3>1. Still
      BY <2>2 DEF TakeRecord, RemoveWorktree, ForgetChildPid
    <3>2. QED BY <1>0, <3>1
  <2>3. CASE ReleaseClaim(t)
    <3>1. Still
      BY <2>3 DEF ReleaseClaim
    <3>2. QED BY <1>0, <3>1
  <2>4. QED BY <1>9, <2>1, <2>2, <2>3 DEF CleanupStep
<1>10. ASSUME NEW t \in Threads, PublishStep(t) PROVE Still
  BY <1>10 DEF PublishStep, ReadChildPids, WriteRegistry, ReadRecords, WriteTrail
<1>11. CASE BeginSweep \/ ScanPanes \/ EndSweep \/ \E id \in Ids : PickCandidate(id)
  <2>1. Still
    BY <1>11 DEF BeginSweep, ScanPanes, EndSweep, PickCandidate
  <2>2. QED BY <1>0, <2>1
<1>12. CASE Recheck
  <2>1. pc[Reaper] = "recheck" /\ req[Reaper] \in Ids
    BY <1>12 DEF Recheck
  <2>2. CASE Doomed(req[Reaper])
    <3>1. sups[req[Reaper]] # NoPane
      BY <2>2 DEF Doomed
    <3>2. QED BY <1>7, <1>12, <2>1, <2>2, <3>1 DEF Recheck
  <2>3. CASE ~Doomed(req[Reaper])
    <3>1. Still
      BY <1>12, <2>1, <2>3 DEF Recheck
    <3>2. QED BY <1>0, <3>1
  <2>4. QED BY <2>2, <2>3
<1>13. CASE ColdStart
  <2>1. CASE KillOrphans
    <3>1. sups = Empty /\ \A t \in Threads : pc[t] = "idle"
      BY <2>1 DEF KillOrphans, MapsInv, ColdIsEmpty
    <3>2. \A p \in Pids : proc'[p] = "running" => proc[p] = "running"
      BY <2>1 DEF KillOrphans
    <3>3. UNCHANGED <<sups, pc, orphans>>
      BY <2>1 DEF KillOrphans
    <3>4. PanesHome' /\ HandsHome'
      BY <3>1, <3>3 DEF Empty
    <3>5. \A p \in Pids \ orphans : proc[p] # "running"
      BY <3>1, ColdChildren DEF Empty
    <3>6. InMapOrHand'
      BY <3>2, <3>3, <3>5
    <3>7. QED BY <3>4, <3>6
  <2>2. CASE SweepTrail \/ ClearRecords
    <3>1. Still
      BY <2>2 DEF SweepTrail, ClearRecords
    <3>2. QED BY <1>0, <3>1
  <2>3. QED BY <1>13, <2>1, <2>2 DEF ColdStart
<1>14. CASE Environment
  <2>1. ASSUME NEW p \in Pids, AgentExits(p) \/ AgentEdits(p) PROVE Still
    BY <2>1 DEF AgentExits, AgentEdits
  <2>2. ASSUME Tick \/ AppStarts \/ AppDies PROVE Still
    <3>1. CASE Tick  BY <3>1 DEF Tick
    <3>2. CASE AppStarts  BY <3>2 DEF AppStarts
    <3>3. CASE AppDies  BY <3>3 DEF AppDies
    <3> QED  BY <2>2, <3>1, <3>2, <3>3
  <2>3. CASE Crash
    <3>1. /\ \A t \in Threads : pc'[t] = "idle"
          /\ sups' = Empty
          /\ orphans' = {p \in Pids : proc[p] # "unborn"}
          /\ \A p \in Pids : proc'[p] = "running" => proc[p] = "running"
      BY <2>3 DEF Crash, ProcessEnds, AllThreads
    <3>2. QED BY <3>1 DEF Empty
  <2>4. QED BY <1>0, <1>14, <2>1, <2>2, <2>3 DEF Environment
<1>15. CASE UNCHANGED vars
  BY <1>15 DEF vars
<1>16. QED
  BY <1>0, <1>1, <1>2, <1>3, <1>4, <1>5, <1>6, <1>8, <1>9, <1>10, <1>11, <1>12,
     <1>13, <1>14, <1>15
  DEF Next, ConnStep, SpawnStep, ThreadStep, ReaperStep, SweepStep

\* The invariant holds in every reachable state.
THEOREM PaneInvHolds == Spec => []PaneInv
<1>1. Init => PaneInv
  BY InitPane
<1>2. ClaimInv /\ PaneInv /\ [Next]_vars => PaneInv'
  BY StepMaps, StepTree, StepChild DEF PaneInv
<1>3. QED
  BY <1>1, <1>2, ClaimInvHolds, PTL DEF Spec

\* When nobody is working on an id, the pid that would be published and the
\* worktree that would be removed are those of the pane in the map.
THEOREM BookkeepingSettles == Spec => []SettledBookkeeping
<1>1. PaneInv => SettledBookkeeping
  BY DEF PaneInv, MapsInv
<1>2. QED
  BY <1>1, PaneInvHolds, PTL

\* No rollback, close, reap or cold start removes the worktree of a pane whose
\* agent runs.
THEOREM RunningPaneKeepsWorktree == Spec => []RunningPaneHasWorktree
<1>1. PaneInv => RunningPaneHasWorktree
  BY DEF PaneInv, TreeInv
<1>2. QED
  BY <1>1, PaneInvHolds, PTL

\* The daemon never has two running children for one id.
THEOREM SingleChild == Spec => []OneChildPerId
<1>1. ClaimInv /\ PaneInv => OneChildPerId
  <2> SUFFICES ASSUME ClaimInv, PaneInv,
                      NEW p \in Pids \ orphans, NEW q \in Pids \ orphans,
                      proc[p] = "running", proc[q] = "running",
                      home[p] = home[q]
               PROVE  p = q
    BY DEF OneChildPerId
  <2> DEFINE InHand(r) ==
        \E t \in Threads : pane[t] = r /\ pc[t] \in {"insert", "kill"} /\ req[t] = home[r]
  <2>1. \A r \in {p, q} : sups[home[r]] = r \/ InHand(r)
    BY DEF PaneInv, ChildInv, HandsHome, InMapOrHand, Holding
  <2>2. \A r \in {p, q} : InHand(r) => sups[home[r]] = NoPane
    BY DEF PaneInv, MapsInv, CleanupEmptiesMaps, ClaimInv, VacantUntilInsert
  <2>3. NoPane \notin Pids
    BY SpawnAssumption DEF NoPane, Pids
  <2>4. CASE InHand(p) /\ InHand(q)
    BY <2>4 DEF ClaimInv, ClaimExclusion, HoldsClaim, SpawnSteps, CleanupSteps
  <2>5. CASE ~(InHand(p) /\ InHand(q))
    BY <2>1, <2>2, <2>3, <2>5
  <2>6. QED
    BY <2>4, <2>5
<1>2. QED
  BY <1>1, PaneInvHolds, ClaimInvHolds, PTL
-----------------------------------------------------------------------------
(* The hold on the daemon, and its cold start *)

Spawning == {c \in Conns : op[c] = "spawn"}

\* in-flight spawns are counted, each until its last step.
PendingInv ==
  /\ pending = Cardinality(Spawning)
  /\ \A t \in Threads :
       /\ pc[t] \in SpawnSteps \cup {"unpend"} => op[t] = "spawn"
       /\ pc[t] = "idle" => op[t] = "none"
  /\ op[Reaper] = "none"

\* A begin adds one spawn, the last step takes it away, no other step matters.
LEMMA SpawningShape ==
  ASSUME ClaimInv, PendingInv, [Next]_vars
  PROVE  \/ \E c \in Conns : /\ c \notin Spawning /\ Spawning' = Spawning \cup {c}
                              /\ pending' = pending + 1
         \/ \E c \in Conns : /\ c \in Spawning /\ Spawning' = Spawning \ {c}
                              /\ pending' = pending - 1
         \/ Spawning' = Spawning /\ pending' = pending
         \/ Spawning' = {} /\ pending' = 0
<1> DEFINE Same == Spawning' = Spawning /\ pending' = pending
<1> USE SpawnAssumption
    DEF ClaimInv, TypeOK, PendingInv, Threads, SpawnSteps, Spawning,
        threadVars, reaperVars, memory, disk, registryFile, children, world
<1>1. ASSUME NEW c \in Conns, NEW id \in Ids, BeginSpawn(c, id)
      PROVE  /\ c \notin Spawning /\ Spawning' = Spawning \cup {c}
             /\ pending' = pending + 1
  BY <1>1 DEF BeginSpawn
<1>2. ASSUME NEW c \in Conns, Unpend(c)
      PROVE  /\ c \in Spawning /\ Spawning' = Spawning \ {c}
             /\ pending' = pending - 1
  BY <1>2 DEF Unpend
<1>3. ASSUME NEW c \in Conns, NEW id \in Ids, BeginClose(c, id) PROVE Same
  BY <1>3 DEF BeginClose
<1>4. ASSUME NEW c \in Conns,
             \/ ClaimSpawn(c) \/ CheckCap(c) \/ PrepareWorktree(c) \/ ForkChild(c)
             \/ ForkFails(c) \/ InsertPane(c) \/ RecordWorktree(c) \/ SetChildPid(c)
             \/ RemovePane(c)
      PROVE  Same
  BY <1>4 DEF ClaimSpawn, CheckCap, PrepareWorktree, ForkChild, ForkFails, InsertPane,
              RecordWorktree, SetChildPid, RemovePane
<1>5. ASSUME NEW t \in Threads, CleanupStep(t) PROVE Same
  <2>1. CASE ReleaseClaim(t)
    BY <2>1 DEF ReleaseClaim
  <2>2. CASE ~ReleaseClaim(t)
    BY <1>5, <2>2 DEF CleanupStep, KillPane, TakeRecord, RemoveWorktree, ForgetChildPid
  <2>3. QED BY <2>1, <2>2
<1>6. ASSUME NEW t \in Threads, PublishStep(t) PROVE Same
  BY <1>6 DEF PublishStep, ReadChildPids, WriteRegistry, ReadRecords, WriteTrail
<1>7. CASE BeginSweep \/ SweepStep
  BY <1>7 DEF BeginSweep, SweepStep, ScanPanes, PickCandidate, Recheck, EndSweep
<1>8. CASE ColdStart
  BY <1>8 DEF ColdStart, KillOrphans, SweepTrail, ClearRecords
<1>9. CASE Environment /\ ~Crash
  BY <1>9 DEF Environment, AgentExits, AgentEdits, Tick, AppStarts, AppDies
<1>10. CASE Crash
  BY <1>10 DEF Crash, ProcessEnds, AllThreads
<1>11. CASE UNCHANGED vars
  BY <1>11 DEF vars
<1>12. QED
  BY <1>1, <1>2, <1>3, <1>4, <1>5, <1>6, <1>7, <1>8, <1>9, <1>10, <1>11
  DEF Next, ConnStep, SpawnStep, ThreadStep, ReaperStep, Environment

\* A thread at a step of a spawn has a spawn to do.
LEMMA StepSpawning ==
  ASSUME ClaimInv, PendingInv, [Next]_vars
  PROVE  /\ \A t \in Threads :
              /\ pc'[t] \in SpawnSteps \cup {"unpend"} => op'[t] = "spawn"
              /\ pc'[t] = "idle" => op'[t] = "none"
         /\ op'[Reaper] = "none"
<1> DEFINE Kept ==
      /\ \A t \in Threads :
           /\ pc'[t] \in SpawnSteps \cup {"unpend"} => op'[t] = "spawn"
           /\ pc'[t] = "idle" => op'[t] = "none"
      /\ op'[Reaper] = "none"
<1> SUFFICES Kept
  OBVIOUS
<1> USE SpawnAssumption
    DEF ClaimInv, TypeOK, PendingInv, Threads, Goto, SpawnSteps,
        threadVars, reaperVars, memory, disk, registryFile, children, world
<1>1. ASSUME NEW c \in Conns, NEW id \in Ids, BeginSpawn(c, id) PROVE Kept
  BY <1>1 DEF BeginSpawn
<1>2. ASSUME NEW c \in Conns, NEW id \in Ids, BeginClose(c, id) PROVE Kept
  BY <1>2 DEF BeginClose
<1>3. ASSUME NEW c \in Conns, ClaimSpawn(c) PROVE Kept
  BY <1>3 DEF ClaimSpawn
<1>4. ASSUME NEW c \in Conns, CheckCap(c) PROVE Kept
  BY <1>4 DEF CheckCap
<1>5. ASSUME NEW c \in Conns, PrepareWorktree(c) PROVE Kept
  BY <1>5 DEF PrepareWorktree
<1>6. ASSUME NEW c \in Conns, ForkChild(c) PROVE Kept
  BY <1>6 DEF ForkChild
<1>7. ASSUME NEW c \in Conns, ForkFails(c) PROVE Kept
  BY <1>7 DEF ForkFails
<1>8. ASSUME NEW c \in Conns, InsertPane(c) PROVE Kept
  BY <1>8 DEF InsertPane
<1>9. ASSUME NEW c \in Conns, RecordWorktree(c) PROVE Kept
  BY <1>9 DEF RecordWorktree
<1>10. ASSUME NEW c \in Conns, SetChildPid(c) PROVE Kept
  BY <1>10 DEF SetChildPid
<1>11. ASSUME NEW c \in Conns, Unpend(c) PROVE Kept
  BY <1>11 DEF Unpend
<1>12. ASSUME NEW c \in Conns, RemovePane(c) PROVE Kept
  BY <1>12 DEF RemovePane
<1>13. ASSUME NEW t \in Threads, CleanupStep(t) PROVE Kept
  <2>1. CASE KillPane(t)   BY <2>1 DEF KillPane
  <2>2. CASE TakeRecord(t)   BY <2>2 DEF TakeRecord
  <2>3. CASE RemoveWorktree(t)   BY <2>3 DEF RemoveWorktree
  <2>4. CASE ForgetChildPid(t)   BY <2>4 DEF ForgetChildPid
  <2>5. CASE ReleaseClaim(t)   BY <2>5 DEF ReleaseClaim
  <2>6. QED BY <1>13, <2>1, <2>2, <2>3, <2>4, <2>5 DEF CleanupStep
<1>14. ASSUME NEW t \in Threads, PublishStep(t) PROVE Kept
  <2>1. CASE ReadChildPids(t)   BY <2>1 DEF ReadChildPids
  <2>2. CASE WriteRegistry(t)   BY <2>2 DEF WriteRegistry
  <2>3. CASE ReadRecords(t)   BY <2>3 DEF ReadRecords
  <2>4. CASE WriteTrail(t)   BY <2>4 DEF WriteTrail
  <2>5. QED BY <1>14, <2>1, <2>2, <2>3, <2>4 DEF PublishStep
<1>15. CASE BeginSweep
  BY <1>15 DEF BeginSweep
<1>16. CASE ScanPanes
  BY <1>16 DEF ScanPanes
<1>17. ASSUME NEW id \in Ids, PickCandidate(id) PROVE Kept
  BY <1>17 DEF PickCandidate
<1>18. CASE Recheck
  BY <1>18 DEF Recheck
<1>19. CASE EndSweep
  BY <1>19 DEF EndSweep
<1>20. CASE ColdStart
  BY <1>20 DEF ColdStart, KillOrphans, SweepTrail, ClearRecords
<1>21. CASE Environment
  <2>1. ASSUME NEW p \in Pids, AgentExits(p) \/ AgentEdits(p) PROVE Kept
    BY <2>1 DEF AgentExits, AgentEdits
  <2>2. CASE Tick \/ AppStarts \/ AppDies
    BY <2>2 DEF Tick, AppStarts, AppDies
  <2>3. CASE Crash
    BY <2>3 DEF Crash, ProcessEnds, AllThreads
  <2>4. QED BY <1>21, <2>1, <2>2, <2>3 DEF Environment
<1>22. CASE UNCHANGED vars
  BY <1>22 DEF vars
<1>23. QED
    BY <1>1, <1>2, <1>3, <1>4, <1>5, <1>6, <1>7, <1>8, <1>9, <1>10, <1>11,
     <1>12, <1>13, <1>14, <1>15, <1>16, <1>17, <1>18, <1>19, <1>20, <1>21,
     <1>22
  DEF Next, ConnStep, SpawnStep, ThreadStep, ReaperStep, SweepStep

\* The count moves with the set of spawns under way.
LEMMA StepPending == ClaimInv /\ PendingInv /\ [Next]_vars => PendingInv'
<1> SUFFICES ASSUME ClaimInv, PendingInv, [Next]_vars PROVE PendingInv'
  OBVIOUS
<1>1. IsFiniteSet(Spawning)
  <2>1. IsFiniteSet(Conns) /\ Spawning \subseteq Conns
    BY SpawnAssumption DEF Spawning
  <2>2. QED BY <2>1, FS_Subset
<1>2. pending = Cardinality(Spawning) /\ Cardinality(Spawning) \in Nat
  BY <1>1, FS_CardinalityType DEF PendingInv
<1>3. pending' = Cardinality(Spawning')
  <2>1. ASSUME NEW c \in Conns, c \notin Spawning, Spawning' = Spawning \cup {c},
               pending' = pending + 1
        PROVE  pending' = Cardinality(Spawning')
    <3>1. Cardinality(Spawning \cup {c}) = Cardinality(Spawning) + 1
      BY <1>1, <2>1, FS_AddElement, Zenon
    <3>2. QED BY <1>2, <2>1, <3>1
  <2>2. ASSUME NEW c \in Conns, c \in Spawning, Spawning' = Spawning \ {c},
               pending' = pending - 1
        PROVE  pending' = Cardinality(Spawning')
    <3>1. Cardinality(Spawning \ {c}) = Cardinality(Spawning) - 1
      BY <1>1, <2>2, FS_RemoveElement
    <3>2. QED BY <1>2, <2>2, <3>1
  <2>3. CASE Spawning' = Spawning /\ pending' = pending
    BY <1>2, <2>3
  <2>4. CASE Spawning' = {} /\ pending' = 0
    BY <2>4, FS_EmptySet
  <2>5. QED BY SpawningShape, <2>1, <2>2, <2>3, <2>4
<1>4. QED
  BY <1>3, StepSpawning DEF PendingInv

\* Nothing is under way at the start.
LEMMA InitPending == Init => PendingInv
<1> SUFFICES ASSUME Init PROVE PendingInv
  OBVIOUS
<1>1. Spawning = {} /\ pending = 0
  BY DEF Init, Spawning, AllThreads, Threads
<1>2. Reaper \in Threads /\ \A t \in Threads : pc[t] = "idle" /\ op[t] = "none"
  BY DEF Init, AllThreads, Threads
<1>3. QED
  BY <1>1, <1>2, FS_EmptySet DEF PendingInv, SpawnSteps

\* pending is exactly the number of spawns under way.
THEOREM PendingCounted == Spec => []PendingInv
<1>1. QED
  BY InitPending, StepPending, ClaimInvHolds, PTL DEF Spec

\* Between the fork and the insert the spawn in flight is counted.
LEMMA InvNoStrayChild == PaneInv /\ PendingInv => NoStrayChild
<1> SUFFICES ASSUME PaneInv, PendingInv,
                    NEW p \in Pids \ orphans, proc[p] = "running"
             PROVE  \/ sups[home[p]] = p
                    \/ \E t \in Threads :
                         /\ pane[t] = p
                         /\ pc[t] = "kill" \/ (pc[t] = "insert" /\ pending > 0)
  BY DEF NoStrayChild
<1>1. CASE sups[home[p]] = p
  BY <1>1
<1>2. ASSUME NEW t \in Threads, Holding(t), pane[t] = p
      PROVE  pc[t] = "kill" \/ (pc[t] = "insert" /\ pending > 0)
  <2>1. CASE pc[t] = "kill"
    BY <2>1
  <2>2. CASE pc[t] = "insert"
    <3>1. t \in Spawning
      BY <2>2, SpawnAssumption DEF PendingInv, SpawnSteps, Spawning, Threads
    <3>2. IsFiniteSet(Spawning)
      <4>1. IsFiniteSet(Conns) /\ Spawning \subseteq Conns
        BY SpawnAssumption DEF Spawning
      <4>2. QED BY <4>1, FS_Subset
    <3>3. Cardinality(Spawning) # 0 /\ Cardinality(Spawning) \in Nat
      BY <3>1, <3>2, FS_EmptySet, FS_CardinalityType
    <3>4. QED BY <2>2, <3>3 DEF PendingInv
  <2>3. QED BY <1>2, <2>1, <2>2 DEF Holding
<1>3. QED
  BY <1>1, <1>2 DEF PaneInv, ChildInv, InMapOrHand

\* A running child is in the map, or about to be inserted by a spawn that holds
\* the daemon open, or about to be killed.
THEOREM NoChildStrays == Spec => []NoStrayChild
<1>1. QED
  BY InvNoStrayChild, PaneInvHolds, PendingCounted, PTL

\* After the kill of a cold start no child of a registry it will clear runs.
ColdKillInv ==
  phase \in {"killing", "sweeping"} /\ "registry" \notin spared =>
    \A id \in Ids : registry[id] # NoPane => proc[registry[id]] # "running"

\* Until the daemon serves, only the sweep and the environment take steps.
LEMMA ColdSteps ==
  ASSUME ColdIsEmpty, phase # "serving", [Next]_vars
  PROVE  ColdStart \/ Environment \/ UNCHANGED vars
<1>1. \A t \in Threads : pc[t] = "idle"
  BY DEF ColdIsEmpty
<1>2. ASSUME NEW t \in Threads PROVE ~ThreadStep(t)
  BY <1>1 DEF ThreadStep, CleanupStep, KillPane, TakeRecord, RemoveWorktree, ForgetChildPid,
     ReleaseClaim, PublishStep, ReadChildPids, WriteRegistry, ReadRecords, WriteTrail
<1>3. ASSUME NEW c \in Conns PROVE ~ConnStep(c)
  BY <1>1, <1>2 DEF ConnStep, Threads, SpawnStep, ClaimSpawn, CheckCap, PrepareWorktree,
     ForkChild, ForkFails, InsertPane, RecordWorktree, SetChildPid, Unpend, RemovePane
<1>4. ~ReaperStep
  BY <1>1, <1>2 DEF ReaperStep, Threads, BeginSweep, SweepStep, ScanPanes, PickCandidate,
     Recheck, EndSweep
<1>5. QED
  BY <1>3, <1>4 DEF Next, BeginSpawn, BeginClose

\* No step lets a recorded child run between the kill and the first request.
LEMMA StepCold ==
  ASSUME ClaimInv, ColdIsEmpty, ColdKillInv, [Next]_vars
  PROVE  ColdKillInv'
<1> USE DEF ClaimInv, TypeOK, IdMap, PaneOrNone, NoPane, ColdKillInv,
            threadVars, reaperVars, memory, disk, registryFile, children, world
<1>1. CASE phase = "serving"
  <2>1. phase' = "serving" \/ phase' = "dead"
    BY <1>1 DEF Next, BeginSpawn, BeginClose, ConnStep, SpawnStep, ClaimSpawn, CheckCap,
       PrepareWorktree, ForkChild, ForkFails, InsertPane, RecordWorktree, SetChildPid,
       Unpend, RemovePane, ReaperStep, BeginSweep, SweepStep, ScanPanes, PickCandidate,
       Recheck, EndSweep, ThreadStep, CleanupStep, KillPane, TakeRecord, RemoveWorktree,
       ForgetChildPid, ReleaseClaim, PublishStep, ReadChildPids, WriteRegistry,
       ReadRecords, WriteTrail, ColdStart, KillOrphans, SweepTrail, ClearRecords,
       Environment, AgentExits, AgentEdits, Tick, AppStarts, AppDies, Crash, ProcessEnds, vars
  <2>2. QED BY <2>1
<1>2. CASE phase # "serving" /\ KillOrphans
  BY <1>2 DEF KillOrphans
<1>3. CASE phase # "serving" /\ (SweepTrail \/ ClearRecords)
  BY <1>3 DEF SweepTrail, ClearRecords
<1>4. CASE phase # "serving" /\ Environment
  BY <1>4 DEF Environment, AgentExits, AgentEdits, Tick, AppStarts, AppDies, Crash, ProcessEnds
<1>5. CASE UNCHANGED vars
  BY <1>5 DEF vars
<1>6. QED
  BY <1>1, <1>2, <1>3, <1>4, <1>5, ColdSteps DEF ColdStart

\* The cold start forgets a registry entry only when its child is gone, whatever
\* the app does meanwhile.
THEOREM OrphansReclaimed == Spec => RegistryOutlivesOrphans
<1> DEFINE Forgets ==
      ClearRecords => \A id \in Ids :
        registry[id] # NoPane /\ registry'[id] = NoPane => proc[registry[id]] # "running"
<1>1. Init => ColdKillInv
  BY DEF Init, ColdKillInv
<1>2. ClaimInv /\ PaneInv /\ ColdKillInv /\ [Next]_vars => ColdKillInv'
  BY StepCold DEF PaneInv, MapsInv
<1>3. ColdKillInv => [Forgets]_vars
  BY DEF ColdKillInv, ClearRecords, registryFile
<1>4. QED
  BY <1>1, <1>2, <1>3, ClaimInvHolds, PaneInvHolds, PTL DEF Spec, RegistryOutlivesOrphans

-----------------------------------------------------------------------------
(* The daemon with its ticker.                                             *)

\* What is left of the daemon when its process ends is a state without panes,
\* threads and claims.
LEMMA EndIsCold ==
  ASSUME ProcessEnds
  PROVE  /\ phase' = "dead" /\ inflight' = {} /\ pending' = 0
         /\ \A t \in Threads :
              /\ pc'[t] = "idle" /\ op'[t] = "none" /\ req'[t] = NoId
              /\ pane'[t] = NoPane
         /\ sups' = Empty /\ record' = Empty /\ childPid' = Empty
         /\ \A p \in Pids : proc[p] # "running" => proc'[p] = proc[p]
         /\ orphans' = {p \in Pids : proc[p] # "unborn"}
         /\ UNCHANGED <<registry, trail, worktree, home, stamp, now>>
  BY DEF ProcessEnds, AllThreads, disk, registryFile

\* The claim invariant outlives an exit of the process.
LEMMA EndKeepsClaim ==
  ASSUME ClaimInv, ProcessEnds, UNCHANGED crashes
  PROVE  ClaimInv'
<1>1. TypeOK'
  <2>1. Empty \in IdMap
    BY DEF Empty, IdMap, PaneOrNone
  <2>2. /\ pc' \in [Threads -> Steps]
        /\ op' \in [Threads -> {"none", "spawn", "close"}]
        /\ req' \in [Threads -> Ids \cup {NoId}]
        /\ pane' \in [Threads -> PaneOrNone]
        /\ snap' \in [Threads -> IdMap]
    BY <2>1 DEF ProcessEnds, AllThreads, Steps, PaneOrNone
  <2>3. /\ proc' \in [Pids -> {"unborn", "running", "exited"}]
        /\ orphans' \subseteq Pids
    BY DEF ProcessEnds, ClaimInv, TypeOK
  <2>4. /\ inflight' = {} /\ pending' = 0 /\ sups' = Empty /\ record' = Empty
        /\ childPid' = Empty /\ times' = Empty /\ sweptAt' = 0
        /\ candidates' = {} /\ phase' = "dead" /\ spared' = {}
        /\ UNCHANGED <<registry, trail, worktree, home, stamp, now, crashes>>
    BY DEF ProcessEnds, disk, registryFile
  <2>5. anyRemoved' \in BOOLEAN /\ appStamped' \in BOOLEAN
    BY Zenon DEF ProcessEnds, disk, registryFile, ClaimInv, TypeOK
  <2>6. QED
    BY <2>1, <2>2, <2>3, <2>4, <2>5 DEF ClaimInv, TypeOK
<1>2. \A t \in Threads : pc'[t] = "idle"
  BY EndIsCold
<1>3. QED
  BY <1>1, <1>2
  DEF ClaimInv, ClaimsRecorded, ClaimExclusion, VacantUntilInsert, HoldsClaim,
      SpawnSteps, CleanupSteps, PublishSteps

\* So does the count of the spawns under way.
LEMMA EndKeepsPending ==
  ASSUME ProcessEnds
  PROVE  PendingInv'
<1>1. Conns \subseteq Threads /\ Reaper \in Threads
  BY DEF Threads
<1>2. Spawning' = {}
  BY <1>1, EndIsCold DEF Spawning
<1>3. QED
  BY <1>1, <1>2, EndIsCold, FS_EmptySet DEF PendingInv, SpawnSteps

\* And so does what is known of the panes.
LEMMA EndKeepsPanes ==
  ASSUME ClaimInv, PaneInv, ProcessEnds
  PROVE  PaneInv'
<1>1. \A t \in Threads : pc'[t] = "idle"
  BY EndIsCold
<1>2. \A id \in Ids : sups'[id] = NoPane /\ record'[id] = NoPane /\ childPid'[id] = NoPane
  BY EndIsCold DEF Empty
<1>3. MapsInv'
  BY <1>1, <1>2, EndIsCold DEF MapsInv, ColdIsEmpty, SettledBookkeeping, SpawnStartsClean,
     SpawnFillsMaps, CleanupEmptiesMaps, AgreeAtRest, PublishSteps
<1>4. TreeInv'
  BY <1>1, <1>2, SpawnAssumption
  DEF TreeInv, SpawnHasTree, RunningPaneHasWorktree, NoPane, Pids
<1>5. ChildInv'
  <2>1. \A p \in Pids \ orphans' : proc'[p] # "running"
    BY EndIsCold DEF ProcessEnds
  <2>2. QED
    BY <1>1, <1>2, <2>1 DEF ChildInv, PanesHome, HandsHome, Holding, InMapOrHand
<1>6. QED
  BY <1>3, <1>4, <1>5 DEF PaneInv

DaemonInv == ClaimInv /\ PaneInv /\ PendingInv

\* Every step of the daemon with its ticker keeps the daemon's invariant.
LEMMA LifecycleKeepsDaemon == DaemonInv /\ [LifecycleNext]_allVars => DaemonInv'
<1>1. DaemonInv /\ [Next]_vars => DaemonInv'
  BY StepTypeOK, StepClaim, StepMaps, StepTree, StepChild, StepPending
  DEF DaemonInv, ClaimInv, PaneInv
<1>2. DaemonInv /\ Exit => DaemonInv'
  BY EndKeepsClaim, EndKeepsPending, EndKeepsPanes DEF DaemonInv, Exit
<1>3. [LifecycleNext]_allVars => [Next]_vars \/ Exit
  BY DEF LifecycleNext, DaemonStep, Ticker, CountPanes, Decide, allVars
<1>4. QED
  BY <1>1, <1>2, <1>3

\* The daemon keeps its invariant under the ticker.
THEOREM DaemonUnderTicker == LifecycleSpec => []DaemonInv
<1>1. LifecycleInit => DaemonInv
  BY InitClaim, InitPane, InitPending DEF LifecycleInit, DaemonInv
<1>2. QED
  BY <1>1, LifecycleKeepsDaemon, PTL DEF LifecycleSpec

\* An exit of an idle daemon leaves no child behind that no map knows.
THEOREM NoChildStraysUnderTicker == LifecycleSpec => []NoStrayChild
<1>1. DaemonInv => NoStrayChild
  BY InvNoStrayChild DEF DaemonInv
<1>2. QED
  BY <1>1, DaemonUnderTicker, PTL

-----------------------------------------------------------------------------
(* What the ticker saw, and what a spawn it did not see can have done.      *)

\* From a count of zero on, what is in the map came after the count, and once
\* the exit is decided every spawn under way began after the decision.
CountedZero ==
  (tick = "counted" /\ counted = 0) \/ tick = "exiting" =>
    \A id \in Ids : sups[id] # NoPane => sups[id] \in late

OnlyFresh == tick = "exiting" => \A c \in Conns : op[c] = "spawn" => c \in fresh

TickInv == LifecycleTypeOK /\ CountedZero /\ OnlyFresh

\* The count of the map is a number of ids, and zero only for an empty map.
LEMMA CountOfMap ==
  ASSUME TypeOK
  PROVE  /\ CountLive \in 0..Cardinality(Ids)
         /\ CountLive = 0 => \A id \in Ids : sups[id] = NoPane
<1>1. IsFiniteSet(Ids) /\ Live \subseteq Ids
  BY SpawnAssumption DEF Live
<1>2. /\ IsFiniteSet(Live) /\ Cardinality(Live) \in Nat /\ Cardinality(Ids) \in Nat
      /\ Cardinality(Live) <= Cardinality(Ids)
  BY <1>1, FS_Subset, FS_CardinalityType
<1>3. Cardinality(Live) = 0 => Live = {}
  BY <1>2, FS_EmptySet
<1>4. QED
  BY <1>2, <1>3 DEF CountLive, Live

\* pending counts threads: it is never negative.
LEMMA PendingIsNat == PendingInv => pending \in Nat
<1>1. IsFiniteSet(Conns) /\ Spawning \subseteq Conns
  BY SpawnAssumption DEF Spawning
<1>2. Cardinality(Spawning) \in Nat
  BY <1>1, FS_Subset, FS_CardinalityType
<1>3. QED
  BY <1>2 DEF PendingInv

\* Only the insert of a spawn puts a pane into the map.
LEMMA MapGrows ==
  ASSUME TypeOK, [Next]_vars
  PROVE  \/ \E c \in Conns : InsertPane(c)
         \/ \A id \in Ids : sups'[id] = sups[id] \/ sups'[id] = NoPane
<1> DEFINE Less == \A id \in Ids : sups'[id] = sups[id] \/ sups'[id] = NoPane
<1> USE DEF TypeOK, IdMap, Threads, memory, world
<1>1. ASSUME NEW c \in Conns, NEW id \in Ids, BeginSpawn(c, id) \/ BeginClose(c, id) PROVE Less
  BY <1>1 DEF BeginSpawn, BeginClose
<1>2. ASSUME NEW c \in Conns, SpawnStep(c), ~InsertPane(c) PROVE Less
  BY <1>2 DEF SpawnStep, ClaimSpawn, CheckCap, PrepareWorktree, ForkChild, ForkFails,
              RecordWorktree, SetChildPid, Unpend
<1>3. ASSUME NEW c \in Conns, RemovePane(c) PROVE Less
  BY <1>3 DEF RemovePane
<1>4. ASSUME NEW t \in Threads, ThreadStep(t) PROVE Less
  BY <1>4 DEF ThreadStep, CleanupStep, KillPane, TakeRecord, RemoveWorktree, ForgetChildPid,
              ReleaseClaim, PublishStep, ReadChildPids, WriteRegistry, ReadRecords, WriteTrail
<1>5. CASE BeginSweep \/ SweepStep
  BY <1>5 DEF BeginSweep, SweepStep, ScanPanes, PickCandidate, Recheck, EndSweep
<1>6. CASE ColdStart
  BY <1>6 DEF ColdStart, KillOrphans, SweepTrail, ClearRecords
<1>7. CASE Environment
  BY <1>7 DEF Environment, AgentExits, AgentEdits, Tick, AppStarts, AppDies, Crash,
              ProcessEnds, Empty
<1>8. CASE UNCHANGED vars
  BY <1>8 DEF vars
<1> QED
  BY <1>1, <1>2, <1>3, <1>4, <1>5, <1>6, <1>7, <1>8 DEF Next, ConnStep, ReaperStep

\* No step lets a pane into the map behind the back of a tick that counted zero.
LEMMA StepTick ==
  ASSUME DaemonInv, DaemonInv', TickInv, [LifecycleNext]_allVars
  PROVE  TickInv'
<1>1. TypeOK /\ TypeOK'
  BY DEF DaemonInv, ClaimInv
<1>2. Cardinality(Ids) \in Nat
  BY SpawnAssumption, FS_CardinalityType
<1>3. CASE DaemonStep
  <2>1. CASE phase' = "dead"
    BY <1>2, <1>3, <2>1, GraceAssumption
    DEF DaemonStep, TickerGoes, TickInv, LifecycleTypeOK, CountedZero, OnlyFresh, NotIdle
  <2>2. CASE phase' # "dead"
    <3>1. /\ UNCHANGED <<tick, counted, idleTicks>>
          /\ late' = late \cup {p \in Pids :
               \E c \in Conns :
                 /\ pane[c] = p /\ sups[req[c]] # p /\ sups'[req[c]] = p
                 /\ tick = "counted" \/ c \in fresh}
          /\ fresh' = fresh \cup {c \in Conns :
               tick = "exiting" /\ op[c] # "spawn" /\ op'[c] = "spawn"}
      BY <1>3, <2>2 DEF DaemonStep
    <3>2. LifecycleTypeOK'
      BY <3>1 DEF TickInv, LifecycleTypeOK
    <3>3. CountedZero'
      <4>1. SUFFICES ASSUME (tick = "counted" /\ counted = 0) \/ tick = "exiting",
                            NEW id \in Ids, sups'[id] # NoPane
                     PROVE  sups'[id] \in late'
        BY <3>1 DEF CountedZero
      <4>2. sups'[id] \in Pids
        BY <1>1, <4>1 DEF TypeOK, IdMap, PaneOrNone
      <4>3. CASE sups[id] = sups'[id]
        BY <3>1, <4>1, <4>3 DEF TickInv, CountedZero
      <4>4. CASE sups[id] # sups'[id]
        <5>1. PICK c \in Conns : InsertPane(c)
          BY <1>1, <1>3, <4>1, <4>4, MapGrows DEF DaemonStep
        <5>2. req[c] = id /\ pane[c] = sups'[id]
          BY <1>1, <4>4, <5>1 DEF InsertPane, TypeOK, IdMap
        <5>3. op[c] = "spawn"
          BY <5>1 DEF InsertPane, DaemonInv, PendingInv, SpawnSteps, Threads
        <5>4. tick = "counted" \/ c \in fresh
          BY <4>1, <5>3 DEF TickInv, OnlyFresh
        <5> QED  BY <3>1, <4>2, <4>4, <5>2, <5>4
      <4>5. QED BY <4>3, <4>4
    <3>4. OnlyFresh'
      BY <3>1 DEF TickInv, OnlyFresh
    <3>5. QED BY <3>2, <3>3, <3>4 DEF TickInv
  <2>3. QED BY <2>1, <2>2
<1>4. CASE CountPanes
  <2>1. sups' = sups
    BY <1>4 DEF CountPanes, vars, memory
  <2>2. QED
    BY <1>1, <1>4, <2>1, CountOfMap
    DEF CountPanes, TickInv, LifecycleTypeOK, CountedZero, OnlyFresh
<1>5. CASE Decide
  <2>1. /\ UNCHANGED <<sups, op, counted, late, fresh>> /\ tick = "counted"
    BY <1>5 DEF Decide, vars, memory, threadVars
  <2>2. pending \in Nat /\ counted \in Nat
    BY PendingIsNat DEF DaemonInv, TickInv, LifecycleTypeOK
  <2>3. tick' = "exiting" => counted = 0 /\ pending = 0
    BY <1>5, <2>2 DEF Decide
  <2>4. tick' \in {"asleep", "exiting"} /\ idleTicks' \in NotIdle..Grace
    BY <1>5, GraceAssumption DEF Decide, TickInv, LifecycleTypeOK, NotIdle
  <2>5. pending = 0 => Spawning = {}
    <3>1. IsFiniteSet(Conns) /\ Spawning \subseteq Conns
      BY SpawnAssumption DEF Spawning
    <3> QED  BY <3>1, FS_Subset, FS_EmptySet DEF DaemonInv, PendingInv
  <2>6. OnlyFresh'
    BY <2>1, <2>3, <2>5 DEF OnlyFresh, Spawning
  <2>7. QED
    BY <2>1, <2>3, <2>4, <2>6 DEF TickInv, LifecycleTypeOK, CountedZero
<1>6. CASE Exit
  BY <1>2, <1>6, GraceAssumption
  DEF Exit, TickerGoes, TickInv, LifecycleTypeOK, CountedZero, OnlyFresh, NotIdle
<1>7. CASE UNCHANGED allVars
  BY <1>7
  DEF allVars, tickerVars, vars, memory, threadVars, TickInv, LifecycleTypeOK, CountedZero,
      OnlyFresh
<1>8. QED
  BY <1>3, <1>4, <1>5, <1>6, <1>7 DEF LifecycleNext, Ticker

\* The invariant of the ticker holds in every reachable state.
THEOREM TickInvHolds == LifecycleSpec => []TickInv
<1>1. LifecycleInit => TickInv
  <2>1. Cardinality(Ids) \in Nat
    BY SpawnAssumption, FS_CardinalityType
  <2>2. QED
    BY <2>1, GraceAssumption
    DEF LifecycleInit, TickerStarts, TickInv, LifecycleTypeOK, CountedZero, OnlyFresh, NotIdle
<1>2. DaemonInv /\ DaemonInv' /\ TickInv /\ [LifecycleNext]_allVars => TickInv'
  BY StepTick
<1>3. QED
  BY <1>1, <1>2, DaemonUnderTicker, PTL DEF LifecycleSpec

\* No spawn that was under way when the tick read the in-flight count is cut
\* off by an exit: it takes only the panes of spawns that were over by then and
\* had landed after the count of the map, and of spawns begun afterwards.
THEOREM SpawnsHoldOpen == LifecycleSpec => []SpawnHoldsOpen
<1>1. DaemonInv /\ TickInv => SpawnHoldsOpen
  <2> SUFFICES ASSUME DaemonInv, TickInv, tick = "exiting" PROVE SpawnHoldsOpen
    BY DEF SpawnHoldsOpen
  <2>1. \A c \in Conns : op[c] = "spawn" => c \in fresh
    BY DEF TickInv, OnlyFresh
  <2>2. ASSUME NEW p \in Pids \ orphans, proc[p] = "running"
        PROVE  p \in late \/ \E t \in Threads : pane[t] = p /\ (pc[t] = "kill" \/ t \in fresh)
    <3>1. home[p] \in Ids /\ NoPane \notin Pids
      BY <2>2 DEF DaemonInv, PaneInv, ChildInv, InMapOrHand, NoPane, Pids
    <3>2. CASE sups[home[p]] = p
      BY <2>2, <3>1, <3>2 DEF TickInv, CountedZero
    <3>3. ASSUME NEW t \in Threads, Holding(t), pane[t] = p
          PROVE  pc[t] = "kill" \/ t \in fresh
      <4>1. pc[t] = "insert" => op[t] = "spawn" /\ t \in Conns
        BY DEF DaemonInv, PendingInv, SpawnSteps, Threads
      <4> QED  BY <2>1, <3>3, <4>1 DEF Holding
    <3> QED
      BY <2>2, <3>2, <3>3 DEF DaemonInv, PaneInv, ChildInv, InMapOrHand
  <2> QED  BY <2>1, <2>2 DEF SpawnHoldsOpen
<1>2. QED
  BY <1>1, DaemonUnderTicker, TickInvHolds, PTL

-----------------------------------------------------------------------------
(* The service (module DaemonService).                                     *)

\* A spawn past its insert has its pane in the map until it lets go of the id.
SpawnsLanded ==
  \A c \in Conns : op[c] = "spawn" /\ pc[c] \in {"record", "setpid"} \cup PublishSteps
    => sups[req[c]] # NoPane

\* A connection that removes a pane is not spawning one.
ClosersClose ==
  \A c \in Conns : pc[c] \in CleanupSteps \cup {"remove"} => op[c] # "spawn"

LandedInv == SpawnsLanded /\ ClosersClose

LEMMA InitLanded == Init => LandedInv
BY DEF Init, AllThreads, Threads, LandedInv, SpawnsLanded, ClosersClose, CleanupSteps, PublishSteps

\* The claim keeps a pane that has landed in the map, and every request its kind.
LEMMA StepLanded ==
  ASSUME ClaimInv, HandsHome, PendingInv, LandedInv, [Next]_vars
  PROVE  LandedInv'
<1> USE SpawnAssumption
    DEF ClaimInv, TypeOK, ClaimsRecorded, ClaimExclusion, PendingInv,
        HoldsClaim, Threads, Pids, IdMap, PaneOrNone, NoPane, Goto, Steps,
        SpawnSteps, CleanupSteps, PublishSteps, ReaperSteps,
        threadVars, reaperVars, memory, disk, registryFile, children, world,
        LandedInv, SpawnsLanded, ClosersClose
<1>1. ASSUME NEW c \in Conns, NEW id \in Ids, BeginSpawn(c, id) PROVE LandedInv'
  BY <1>1 DEF BeginSpawn
<1>2. ASSUME NEW c \in Conns, NEW id \in Ids, BeginClose(c, id) PROVE LandedInv'
  BY <1>2 DEF BeginClose
<1>3. ASSUME NEW c \in Conns, ClaimSpawn(c) PROVE LandedInv'
  BY <1>3 DEF ClaimSpawn
<1>4. ASSUME NEW c \in Conns, CheckCap(c) PROVE LandedInv'
  BY <1>4 DEF CheckCap
<1>5. ASSUME NEW c \in Conns, PrepareWorktree(c) PROVE LandedInv'
  BY <1>5 DEF PrepareWorktree
<1>6. ASSUME NEW c \in Conns, ForkChild(c) PROVE LandedInv'
  BY <1>6 DEF ForkChild
<1>7. ASSUME NEW c \in Conns, ForkFails(c) PROVE LandedInv'
  BY <1>7 DEF ForkFails
<1>8. ASSUME NEW c \in Conns, InsertPane(c) PROVE LandedInv'
  <2>1. pane[c] # 0 /\ pc[c] = "insert"  BY <1>8 DEF InsertPane, HandsHome, Holding
  <2> QED  BY <1>8, <2>1 DEF InsertPane
<1>9. ASSUME NEW c \in Conns, RecordWorktree(c) PROVE LandedInv'
  BY <1>9 DEF RecordWorktree
<1>10. ASSUME NEW c \in Conns, SetChildPid(c) PROVE LandedInv'
  BY <1>10 DEF SetChildPid
<1>11. ASSUME NEW c \in Conns, Unpend(c) PROVE LandedInv'
  BY <1>11 DEF Unpend
<1>12. ASSUME NEW c \in Conns, RemovePane(c) PROVE LandedInv'
  BY <1>12 DEF RemovePane
<1>13. ASSUME NEW t \in Threads, CleanupStep(t) PROVE LandedInv'
  <2>1. CASE KillPane(t)   BY <2>1 DEF KillPane
  <2>2. CASE TakeRecord(t)   BY <2>2 DEF TakeRecord
  <2>3. CASE RemoveWorktree(t)   BY <2>3 DEF RemoveWorktree
  <2>4. CASE ForgetChildPid(t)   BY <2>4 DEF ForgetChildPid
  <2>5. CASE ReleaseClaim(t)
    <3>1. pc[t] = "release" /\ sups' = sups /\ \A s \in Threads : s # t =>
             pc'[s] = pc[s] /\ op'[s] = op[s] /\ req'[s] = req[s]
      BY <2>5 DEF ReleaseClaim
    <3>2. pc'[t] \in {"unpend", "pick", "idle"}  BY <2>5 DEF ReleaseClaim
    <3>3. ASSUME NEW c \in Conns, op'[c] = "spawn", pc'[c] \in {"record", "setpid"} \cup PublishSteps
          PROVE  sups'[req'[c]] # 0
      <4>1. c # t  BY <3>2, <3>3
      <4>2. pc'[c] = pc[c] /\ op'[c] = op[c] /\ req'[c] = req[c]  BY <3>1, <4>1
      <4> QED  BY <3>1, <3>3, <4>2
    <3>4. ClosersClose'  BY <3>1, <3>2
    <3> QED  BY <3>3, <3>4
  <2>6. QED BY <1>13, <2>1, <2>2, <2>3, <2>4, <2>5 DEF CleanupStep
<1>14. ASSUME NEW t \in Threads, PublishStep(t) PROVE LandedInv'
  <2>1. CASE ReadChildPids(t)   BY <2>1 DEF ReadChildPids
  <2>2. CASE WriteRegistry(t)   BY <2>2 DEF WriteRegistry
  <2>3. CASE ReadRecords(t)   BY <2>3 DEF ReadRecords
  <2>4. CASE WriteTrail(t)   BY <2>4 DEF WriteTrail
  <2>5. QED BY <1>14, <2>1, <2>2, <2>3, <2>4 DEF PublishStep
<1>15. CASE BeginSweep \/ ScanPanes \/ EndSweep
  BY <1>15 DEF BeginSweep, ScanPanes, EndSweep
<1>16. ASSUME NEW id \in Ids, PickCandidate(id) PROVE LandedInv'
  BY <1>16 DEF PickCandidate
<1>17. CASE Recheck
  <2>1. ASSUME NEW c \in Conns, op[c] = "spawn", pc[c] \in {"record", "setpid"} \cup PublishSteps
        PROVE  req[c] \in Ids /\ req[c] # req[Reaper] /\ sups[req[c]] # 0
    BY <2>1, <1>17 DEF Recheck
  <2>2. /\ pc[Reaper] = "recheck" /\ op' = op /\ req' = req
        /\ pc' = [pc EXCEPT ![Reaper] = "kill"] \/ pc' = [pc EXCEPT ![Reaper] = "release"]
        /\ sups' = [sups EXCEPT ![req[Reaper]] = 0] \/ sups' = sups
    BY <1>17 DEF Recheck
  <2>3. SpawnsLanded'  BY <2>1, <2>2
  <2>4. ClosersClose'  BY <2>2
  <2> QED  BY <2>3, <2>4
<1>18. CASE ColdStart
  BY <1>18 DEF ColdStart, KillOrphans, SweepTrail, ClearRecords
<1>19. CASE Environment
  <2>1. ASSUME NEW p \in Pids, AgentExits(p) \/ AgentEdits(p) PROVE LandedInv'
    BY <2>1 DEF AgentExits, AgentEdits
  <2>2. CASE Tick \/ AppStarts \/ AppDies
    BY <2>2 DEF Tick, AppStarts, AppDies
  <2>3. CASE Crash
    BY <2>3 DEF Crash, ProcessEnds, AllThreads
  <2>4. QED BY <1>19, <2>1, <2>2, <2>3 DEF Environment
<1>20. CASE UNCHANGED vars
  BY <1>20 DEF vars
<1> QED
    BY <1>1, <1>2, <1>3, <1>4, <1>5, <1>6, <1>7, <1>8, <1>9, <1>10, <1>11,
     <1>12, <1>13, <1>14, <1>15, <1>16, <1>17, <1>18, <1>19, <1>20
  DEF Next, ConnStep, SpawnStep, ThreadStep, ReaperStep, SweepStep

-----------------------------------------------------------------------------
\* A spawn under way holds the claim of its id, and is the only one to.
LEMMA SpawnsClaim ==
  ASSUME ClaimInv, NEW c \in Conns, NEW id \in Ids, Spawns(c, id)
  PROVE  /\ id \in inflight
         /\ \A t \in Threads : HoldsClaim(t) /\ req[t] = id => t = c
BY SpawnAssumption
DEF ClaimInv, ClaimsRecorded, ClaimExclusion, HoldsClaim, Spawns, Threads, SpawnSteps

\* What the clients see is the same when no spawn, pane or claim changes.
SameSpawns == \A c \in Conns, id \in Ids : Spawns(c, id)' <=> Spawns(c, id)

LEMMA SeenTheSame ==
  ASSUME SameSpawns, UNCHANGED <<sups, inflight>> PROVE UNCHANGED Service!serviceVars
BY DEF SameSpawns, Starting, Ending, Live, Service!serviceVars

\* Steps of a spawn between its claim and its insert, and all that are no
\* claim, insert, removal or release.
LEMMA QuietSteps ==
  ASSUME ClaimInv, PendingInv, LandedInv, NEW t \in Threads,
         \/ t \in Conns /\ \/ \E id \in Ids : BeginSpawn(t, id)
                           \/ CheckCap(t) \/ PrepareWorktree(t) \/ ForkChild(t) \/ ForkFails(t)
                           \/ RecordWorktree(t) \/ SetChildPid(t) \/ Unpend(t)
         \/ KillPane(t) \/ TakeRecord(t) \/ RemoveWorktree(t) \/ ForgetChildPid(t)
         \/ PublishStep(t)
         \/ BeginSweep \/ ScanPanes \/ EndSweep
         \/ ColdStart \/ Tick \/ AppStarts \/ AppDies \/ (\E p \in Pids : AgentExits(p) \/ AgentEdits(p))
         \/ UNCHANGED vars
  PROVE  UNCHANGED Service!serviceVars
<1> USE SpawnAssumption
    DEF ClaimInv, TypeOK, VacantUntilInsert, PendingInv,
        Threads, Goto, Steps, Live,
        SpawnSteps, CleanupSteps, PublishSteps,
        threadVars, reaperVars, memory, disk, registryFile, children, world,
        LandedInv, SpawnsLanded, ClosersClose, Spawns, SameSpawns
<1> DEFINE Quiet == SameSpawns /\ UNCHANGED <<sups, inflight>>
<1>1. ASSUME t \in Conns, NEW id \in Ids, BeginSpawn(t, id) PROVE Quiet
  BY <1>1 DEF BeginSpawn
<1>2. ASSUME t \in Conns /\ CheckCap(t) PROVE Quiet  BY <1>2 DEF CheckCap
<1>3. ASSUME t \in Conns /\ PrepareWorktree(t) PROVE Quiet  BY <1>3 DEF PrepareWorktree
<1>4. ASSUME t \in Conns /\ ForkChild(t) PROVE Quiet  BY <1>4 DEF ForkChild
<1>5. ASSUME t \in Conns /\ ForkFails(t) PROVE Quiet  BY <1>5 DEF ForkFails
<1>6. ASSUME t \in Conns /\ RecordWorktree(t) PROVE Quiet  BY <1>6 DEF RecordWorktree
<1>7. ASSUME t \in Conns /\ SetChildPid(t) PROVE Quiet  BY <1>7 DEF SetChildPid
<1>8. ASSUME t \in Conns /\ Unpend(t) PROVE Quiet  BY <1>8 DEF Unpend
<1>9. ASSUME KillPane(t) PROVE Quiet  BY <1>9 DEF KillPane
<1>10. ASSUME TakeRecord(t) PROVE Quiet  BY <1>10 DEF TakeRecord
<1>11. ASSUME RemoveWorktree(t) PROVE Quiet  BY <1>11 DEF RemoveWorktree
<1>12. ASSUME ForgetChildPid(t) PROVE Quiet  BY <1>12 DEF ForgetChildPid
<1>13. ASSUME PublishStep(t) PROVE Quiet
  <2>1. ASSUME ReadChildPids(t) PROVE Quiet   BY <2>1 DEF ReadChildPids
  <2>2. ASSUME WriteRegistry(t) PROVE Quiet   BY <2>2 DEF WriteRegistry
  <2>3. ASSUME ReadRecords(t) PROVE Quiet   BY <2>3 DEF ReadRecords
  <2>4. ASSUME WriteTrail(t) PROVE Quiet   BY <2>4 DEF WriteTrail
  <2>5. QED BY <1>13, <2>1, <2>2, <2>3, <2>4 DEF PublishStep
<1>14. ASSUME BeginSweep \/ ScanPanes \/ EndSweep PROVE Quiet
  BY <1>14 DEF BeginSweep, ScanPanes, EndSweep
<1>15. ASSUME ColdStart PROVE Quiet
  BY <1>15 DEF ColdStart, KillOrphans, SweepTrail, ClearRecords
<1>16. ASSUME Tick \/ AppStarts \/ AppDies \/ UNCHANGED vars PROVE Quiet
  BY <1>16 DEF Tick, AppStarts, AppDies, vars
<1>17. ASSUME NEW p \in Pids, AgentExits(p) \/ AgentEdits(p) PROVE Quiet
  BY <1>17 DEF AgentExits, AgentEdits
<1>18. Quiet
  BY <1>1, <1>2, <1>3, <1>4, <1>5, <1>6, <1>7, <1>8, <1>9, <1>10, <1>11,
     <1>12, <1>13, <1>14, <1>15, <1>16, <1>17
<1> QED  BY <1>18, SeenTheSame

-----------------------------------------------------------------------------
\* The claim of a free id is a spawn's; that of one with a pane stays with its
\* holder, and no spawn starts.
LEMMA ClaimServes ==
  ASSUME ClaimInv, PendingInv, NEW c \in Conns, ClaimSpawn(c)
  PROVE  [Service!ServiceNext]_(Service!serviceVars)
<1> DEFINE id == req[c]
<1>1. id \in Ids /\ c \in Threads /\ pc[c] = "claim" /\ op[c] = "spawn"
  BY DEF ClaimInv, ClaimsRecorded, ClaimSpawn, PendingInv, Threads, SpawnSteps
<1>2. UNCHANGED <<op, req, sups>> /\ Live' = Live  BY DEF ClaimSpawn, Live
<1>3. CASE id \in inflight \/ sups[id] # NoPane
  <2>1. SameSpawns /\ UNCHANGED <<sups, inflight>>
    BY <1>1, <1>3 DEF ClaimSpawn, SameSpawns, Spawns, Goto, ClaimInv, TypeOK, Live, Threads
  <2> QED  BY <2>1, SeenTheSame
<1>4. CASE id \notin inflight /\ sups[id] = NoPane
  <2>1. inflight' = inflight \cup {id}  BY <1>4 DEF ClaimSpawn
  <2>2. id \notin Live /\ id \notin Starting /\ id \notin Ending
    BY <1>4, SpawnsClaim DEF Live, Starting, Ending
  <2>3. \A d \in Conns, i \in Ids : Spawns(d, i)' <=> (Spawns(d, i) \/ (d = c /\ i = id))
    BY <1>1, <1>2, <1>4 DEF ClaimSpawn, Spawns, Goto, ClaimInv, TypeOK, Live, Threads
  <2>4. Starting' = Starting \cup {id}  BY <1>1, <2>3 DEF Starting
  <2>5. Ending' = Ending  BY <2>1, <2>2, <2>4, <1>2 DEF Ending
  <2>6. Service!Claim(id)  BY <2>2, <2>4, <2>5, <1>2 DEF Service!Claim, Service!Free
  <2> QED  BY <2>6, <1>1 DEF Service!ServiceNext
<1> QED  BY <1>3, <1>4

\* The insert is the landing.
LEMMA InsertServes ==
  ASSUME ClaimInv, PendingInv, HandsHome, NEW c \in Conns, InsertPane(c)
  PROVE  Service!ServiceNext
<1> DEFINE id == req[c]
<1>1. /\ c \in Threads /\ pc[c] = "insert" /\ op[c] = "spawn" /\ pane[c] # NoPane
      /\ HoldsClaim(c) /\ id \in inflight /\ id \in Ids /\ sups[id] = NoPane
  BY DEF ClaimInv, TypeOK, ClaimsRecorded, VacantUntilInsert, InsertPane, PendingInv,
         HandsHome, Holding, HoldsClaim, Threads, SpawnSteps, Pids, NoPane
<1>2. UNCHANGED <<op, req, inflight>>  BY DEF InsertPane
<1>3. Live' = Live \cup {id} /\ id \notin Live
  BY <1>1 DEF Live, InsertPane, ClaimInv, TypeOK, IdMap
<1>4. Spawns(c, id)  BY <1>1 DEF Spawns
<1>5. id \in Starting  BY <1>1, <1>4 DEF Starting
<1>6. \A d \in Conns, i \in Ids : Spawns(d, i)' <=> (Spawns(d, i) /\ i # id)
  <2> SUFFICES ASSUME NEW d \in Conns, NEW i \in Ids
               PROVE  Spawns(d, i)' <=> (Spawns(d, i) /\ i # id)
    OBVIOUS
  <2>1. CASE d = c  BY <2>1, <1>1, <1>2 DEF InsertPane, Spawns, Goto, ClaimInv, TypeOK
  <2>2. CASE d # c
    <3>1. pc'[d] = pc[d] /\ (i # id => (i \in Live' <=> i \in Live))
      BY <2>2, <1>3 DEF InsertPane, Goto, ClaimInv, TypeOK, Threads
    <3>2. i = id => ~Spawns(d, i)
      BY <2>2, <1>1, SpawnsClaim
    <3>3. i = id => ~Spawns(d, i)'
      BY <2>2, <1>1, <1>2, <1>3, <3>1, <3>2 DEF Spawns
    <3> QED  BY <3>1, <3>2, <3>3, <1>2 DEF Spawns
  <2> QED  BY <2>1, <2>2
<1>7. Starting' = Starting \ {id}  BY <1>6 DEF Starting
<1>8. Ending' = Ending  BY <1>2, <1>3, <1>5, <1>7 DEF Ending
<1>9. Service!Land(id)  BY <1>3, <1>5, <1>7, <1>8 DEF Service!Land
<1> QED  BY <1>9, <1>1 DEF Service!ServiceNext

\* A spawn that lets go without a pane has failed; one with a pane landed
\* earlier; a close and the reaper end their clean-up, with or without effect.
LEMMA ReleaseServes ==
  ASSUME ClaimInv, PendingInv, NEW t \in Threads, ReleaseClaim(t)
  PROVE  [Service!ServiceNext]_(Service!serviceVars)
<1> DEFINE id == req[t]
<1>1. pc[t] = "release" /\ HoldsClaim(t) /\ id \in inflight /\ id \in Ids
  BY DEF ClaimInv, TypeOK, ClaimsRecorded, ReleaseClaim, HoldsClaim, CleanupSteps
<1>2. /\ UNCHANGED sups /\ Live' = Live /\ inflight' = inflight \ {id}
      /\ \A s \in Threads : s # t =>
           pc'[s] = pc[s] /\ op'[s] = op[s] /\ req'[s] = req[s]
  BY DEF ReleaseClaim, Goto, ClaimInv, TypeOK, Live
<1>3. pc'[t] \in {"unpend", "pick", "idle"}
  BY DEF ReleaseClaim, Goto, ClaimInv, TypeOK
<1>4. \A d \in Conns, i \in Ids : Spawns(d, i)' <=> (Spawns(d, i) /\ i # id)
  <2> SUFFICES ASSUME NEW d \in Conns, NEW i \in Ids
               PROVE  Spawns(d, i)' <=> (Spawns(d, i) /\ i # id)
    OBVIOUS
  <2>1. CASE d = t  BY <2>1, <1>3 DEF Spawns
  <2>2. CASE d # t
    <3>1. Spawns(d, i)' <=> Spawns(d, i)  BY <2>2, <1>2 DEF Spawns, Threads
    <3>2. i = id => ~Spawns(d, i)  BY <2>2, <1>1, SpawnsClaim
    <3> QED  BY <3>1, <3>2
  <2> QED  BY <2>1, <2>2
<1>5. Starting' = Starting \ {id}  BY <1>4 DEF Starting
<1>6. CASE id \in Live
  <2>1. id \notin Starting
    <3> SUFFICES ASSUME NEW d \in Conns, Spawns(d, id) PROVE FALSE
      BY DEF Starting
    <3>1. d = t  BY <1>1, SpawnsClaim
    <3> QED  BY <3>1, <1>1, <1>6 DEF Spawns
  <2>2. Ending' = Ending /\ Starting' = Starting  BY <1>2, <1>5, <1>6, <2>1 DEF Ending
  <2> QED  BY <2>2, <1>2 DEF Service!serviceVars
<1>7. CASE id \notin Live /\ id \in Starting
  <2>1. Ending' = Ending  BY <1>2, <1>5, <1>7 DEF Ending
  <2>2. Service!Refuse(id)  BY <2>1, <1>2, <1>5, <1>7 DEF Service!Refuse
  <2> QED  BY <2>2, <1>1 DEF Service!ServiceNext
<1>8. CASE id \notin Live /\ id \notin Starting
  <2>1. id \in Ending /\ Ending' = Ending \ {id} /\ Starting' = Starting
    BY <1>1, <1>2, <1>5, <1>8 DEF Ending
  <2>2. Service!Release(id)  BY <2>1, <1>2 DEF Service!Release
  <2> QED  BY <2>2, <1>1 DEF Service!ServiceNext
<1> QED  BY <1>6, <1>7, <1>8

\* A close and the reaper claim an id: with a pane, it stays there for now.
LEMMA VisitServes ==
  ASSUME ClaimInv, NEW id \in Ids, SameSpawns, UNCHANGED sups,
         id \notin inflight, inflight' = inflight \cup {id}
  PROVE  [Service!ServiceNext]_(Service!serviceVars)
<1>1. Live' = Live  BY DEF Live
<1>2. Starting' = Starting  BY DEF Starting, SameSpawns
<1>3. id \notin Starting /\ id \notin Ending  BY SpawnsClaim DEF Starting, Ending
<1>4. CASE id \in Live
  <2>1. Ending' = Ending  BY <1>1, <1>2, <1>4 DEF Ending
  <2> QED  BY <2>1, <1>1, <1>2 DEF Service!serviceVars
<1>5. CASE id \notin Live
  <2>1. Ending' = Ending \cup {id}  BY <1>1, <1>2, <1>3, <1>5 DEF Ending
  <2>2. Service!Visit(id)
    BY <2>1, <1>1, <1>2, <1>3, <1>5 DEF Service!Visit, Service!Free
  <2> QED  BY <2>2 DEF Service!ServiceNext
<1> QED  BY <1>4, <1>5

\* A close and the reaper take out the pane of the id they claimed.
LEMMA RemoveServes ==
  ASSUME ClaimInv, NEW t \in Threads, HoldsClaim(t), UNCHANGED <<op, req, inflight>>,
         \A s \in Threads : s # t => pc'[s] = pc[s],
         t \in Conns => op[t] # "spawn",
         sups' = [sups EXCEPT ![req[t]] = NoPane]
  PROVE  [Service!ServiceNext]_(Service!serviceVars)
<1> DEFINE id == req[t]
<1>1. id \in inflight /\ id \in Ids  BY DEF ClaimInv, TypeOK, ClaimsRecorded
<1>2. Live' = Live \ {id}  BY <1>1 DEF Live, ClaimInv, TypeOK, IdMap
<1>3. \A d \in Conns, i \in Ids : Spawns(d, i) => i # id /\ d # t
  BY <1>1, SpawnsClaim DEF Spawns
<1>4. SameSpawns
  <2> SUFFICES ASSUME NEW d \in Conns, NEW i \in Ids PROVE Spawns(d, i)' <=> Spawns(d, i)
    BY DEF SameSpawns
  <2>1. CASE d = t  BY <2>1 DEF Spawns
  <2>2. CASE d # t /\ i # id  BY <2>2, <1>2 DEF Spawns, Threads
  <2>3. CASE d # t /\ i = id
    <3>1. ~(HoldsClaim(d) /\ req[d] = id)
      BY <2>3, <1>1 DEF ClaimInv, ClaimExclusion, Threads
    <3>2. ~Spawns(d, i)'
      BY <3>1, <2>3 DEF Spawns, HoldsClaim, Threads, SpawnSteps
    <3> QED  BY <3>2, <2>3, <1>3
  <2> QED  BY <2>1, <2>2, <2>3
<1>5. Starting' = Starting /\ id \notin Starting
  BY <1>3, <1>4 DEF Starting, SameSpawns
<1>6. CASE id \in Live
  <2>1. Ending' = Ending \cup {id}  BY <1>1, <1>2, <1>5, <1>6 DEF Ending
  <2>2. Service!Remove(id)  BY <2>1, <1>2, <1>5, <1>6 DEF Service!Remove
  <2> QED  BY <2>2, <1>1 DEF Service!ServiceNext
<1>7. CASE id \notin Live
  <2>1. Live' = Live /\ Ending' = Ending  BY <1>2, <1>5, <1>7 DEF Ending
  <2> QED  BY <2>1, <1>5 DEF Service!serviceVars
<1> QED  BY <1>6, <1>7

\* The claims, the map and the steps of all threads die with the process.
LEMMA DeathServes ==
  ASSUME ProcessEnds PROVE Service!ServiceNext
<1>1. Live' = {} /\ inflight' = {}  BY DEF ProcessEnds, Live, Empty
<1>2. Starting' = {}
  BY DEF ProcessEnds, Starting, Spawns, AllThreads, Threads
<1>3. Ending' = {}  BY <1>1 DEF Ending
<1> QED  BY <1>1, <1>2, <1>3 DEF Service!ServiceNext, Service!Die

LEMMA InitServes == Init => Service!ServiceInit
<1> SUFFICES ASSUME Init PROVE Service!ServiceInit
  OBVIOUS
<1>1. Live = {} /\ inflight = {}  BY DEF Init, Live, Empty
<1>2. Starting = {}
  BY DEF Init, Starting, Spawns, AllThreads, Threads
<1> QED  BY <1>1, <1>2 DEF Service!ServiceInit, Ending

\* Every step of the daemon is one of the service, or none its clients see.
LEMMA StepServes ==
  ASSUME ClaimInv, PendingInv, HandsHome, LandedInv, [Next]_vars
  PROVE  [Service!ServiceNext]_(Service!serviceVars)
<1> DEFINE Serves == [Service!ServiceNext]_(Service!serviceVars)
<1>1. ASSUME NEW c \in Conns, NEW id \in Ids, BeginSpawn(c, id) PROVE Serves
  BY <1>1, QuietSteps DEF Threads
<1>2. ASSUME NEW c \in Conns, NEW id \in Ids, BeginClose(c, id) PROVE Serves
  <2>1. SameSpawns
    BY <1>2 DEF BeginClose, SameSpawns, Spawns, Live, Goto, ClaimInv, TypeOK
  <2> QED  BY <1>2, <2>1, VisitServes DEF BeginClose
<1>3. ASSUME NEW c \in Conns, SpawnStep(c) PROVE Serves
  <2>1. c \in Threads  BY DEF Threads
  <2>2. CASE ClaimSpawn(c)  BY <2>2, ClaimServes
  <2>3. CASE InsertPane(c)  BY <2>3, InsertServes
  <2>4. CASE CheckCap(c) \/ PrepareWorktree(c) \/ ForkChild(c) \/ ForkFails(c)
               \/ RecordWorktree(c) \/ SetChildPid(c) \/ Unpend(c)
    BY <2>1, <2>4, QuietSteps
  <2> QED  BY <1>3, <2>2, <2>3, <2>4 DEF SpawnStep
<1>4. ASSUME NEW c \in Conns, RemovePane(c) PROVE Serves
  <2>1. c \in Threads /\ HoldsClaim(c) /\ op[c] # "spawn"
    BY <1>4 DEF RemovePane, Threads, HoldsClaim, LandedInv, ClosersClose
  <2>2. \A s \in Threads : s # c => pc'[s] = pc[s]
    BY <1>4 DEF RemovePane, Goto, ClaimInv, TypeOK
  <2> QED  BY <1>4, <2>1, <2>2, RemoveServes DEF RemovePane
<1>5. ASSUME NEW t \in Threads, ThreadStep(t) PROVE Serves
  <2>1. CASE ReleaseClaim(t)  BY <2>1, ReleaseServes
  <2>2. CASE KillPane(t) \/ TakeRecord(t) \/ RemoveWorktree(t) \/ ForgetChildPid(t)
               \/ PublishStep(t)
    BY <2>2, QuietSteps
  <2> QED  BY <1>5, <2>1, <2>2 DEF ThreadStep, CleanupStep
<1>6. CASE BeginSweep \/ ScanPanes \/ EndSweep \/ ColdStart
             \/ Tick \/ AppStarts \/ AppDies
             \/ (\E p \in Pids : AgentExits(p) \/ AgentEdits(p)) \/ UNCHANGED vars
  BY <1>6, QuietSteps DEF Threads
<1>7. ASSUME NEW id \in Ids, PickCandidate(id) PROVE Serves
  <2>1. SameSpawns
    BY <1>7, SpawnAssumption
    DEF PickCandidate, SameSpawns, Spawns, Live, Goto, ClaimInv, TypeOK, Threads
  <2>2. CASE id \in inflight
    <3>1. UNCHANGED <<sups, inflight>>  BY <1>7, <2>2 DEF PickCandidate
    <3> QED  BY <3>1, <2>1, SeenTheSame
  <2>3. CASE id \notin inflight
    BY <1>7, <2>1, <2>3, VisitServes DEF PickCandidate
  <2> QED  BY <2>2, <2>3
<1>8. CASE Recheck
  <2>1. Reaper \in Threads /\ HoldsClaim(Reaper) /\ Reaper \notin Conns
    BY <1>8, SpawnAssumption DEF Recheck, Threads, HoldsClaim
  <2>2. \A s \in Threads : s # Reaper => pc'[s] = pc[s]
    BY <1>8 DEF Recheck, Goto, ClaimInv, TypeOK
  <2>3. CASE Doomed(req[Reaper])
    BY <1>8, <2>1, <2>2, <2>3, RemoveServes DEF Recheck
  <2>4. CASE ~Doomed(req[Reaper])
    <3>1. UNCHANGED <<sups, inflight, op, req>>  BY <1>8, <2>4 DEF Recheck
    <3>2. SameSpawns
      BY <2>1, <2>2, <3>1 DEF SameSpawns, Spawns, Live, Threads
    <3> QED  BY <3>1, <3>2, SeenTheSame
  <2> QED  BY <2>3, <2>4
<1>9. CASE Crash
  BY <1>9, DeathServes DEF Crash
<1>10. Reaper \in Threads  BY DEF Threads
<1> QED
  BY <1>1, <1>2, <1>3, <1>4, <1>5, <1>6, <1>7, <1>8, <1>9, <1>10
  DEF Next, ConnStep, ReaperStep, SweepStep, Environment, Threads

\* The daemon implements the service its clients see, through every
\* interleaving of its connections and its reaper and through its crashes.
THEOREM DaemonServes == Spec => ActsAsService
<1>1. Init => LandedInv /\ Service!ServiceInit
  BY InitLanded, InitServes
<1>2. ClaimInv /\ PaneInv /\ PendingInv /\ LandedInv /\ [Next]_vars =>
        LandedInv' /\ [Service!ServiceNext]_(Service!serviceVars)
  BY StepLanded, StepServes DEF PaneInv, ChildInv
<1>3. QED
  BY <1>1, <1>2, ClaimInvHolds, PaneInvHolds, PendingCounted, PTL
  DEF Spec, ActsAsService, Service!ServiceSpec

\* So does the daemon whose ticker may end it at any moment.
THEOREM ServesUnderTicker == LifecycleSpec => ActsAsService
<1>1. LifecycleInit => LandedInv /\ Service!ServiceInit
  BY InitLanded, InitServes DEF LifecycleInit
<1>2. DaemonInv /\ LandedInv /\ [LifecycleNext]_allVars =>
        LandedInv' /\ [Service!ServiceNext]_(Service!serviceVars)
  <2> SUFFICES ASSUME DaemonInv, LandedInv, [LifecycleNext]_allVars
               PROVE  LandedInv' /\ [Service!ServiceNext]_(Service!serviceVars)
    OBVIOUS
  <2>1. ClaimInv /\ PendingInv /\ HandsHome
    BY DEF DaemonInv, PaneInv, ChildInv
  <2>2. CASE [Next]_vars
    BY <2>1, <2>2, StepLanded, StepServes
  <2>3. CASE Exit
    <3>1. ProcessEnds  BY <2>3 DEF Exit
    <3>2. LandedInv'
      BY <3>1 DEF ProcessEnds, AllThreads, Threads, LandedInv, SpawnsLanded, ClosersClose,
                  CleanupSteps, PublishSteps
    <3> QED  BY <3>1, <3>2, DeathServes
  <2> QED
    BY <2>2, <2>3
    DEF LifecycleNext, DaemonStep, Ticker, CountPanes, Decide, allVars
<1>3. QED
  BY <1>1, <1>2, DaemonUnderTicker, PTL DEF LifecycleSpec, ActsAsService, Service!ServiceSpec
=============================================================================
