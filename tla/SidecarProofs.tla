---------------------------- MODULE SidecarProofs ----------------------------
(***************************************************************************)
(* Proofs about what the panes' sidecars share: the task board they keep   *)
(* (TaskBoard) and the app's socket (AppSocket), for any number of         *)
(* sidecars, tasks, clients, panes and workspaces, and any bounds.         *)
(*                                                                         *)
(* The board: the log holds no illegal history, because a transition works *)
(* under the flock and finds the log as it read it but for fresh tasks     *)
(* (SnapshotHolds); ids are handed out without gaps (IdsDense).  No card   *)
(* is erased, because write_tasks is let through only when the read it     *)
(* follows dropped no line (SiftIs says what a read keeps).                *)
(*                                                                         *)
(* The socket: SlotsHonest needs to know whom the loop refuses             *)
(* (RefusesOne), and UnsharingStops what an operation may still do after   *)
(* its one crossing (Crossing): while the boundary is closed the gate lets *)
(* no line pass, so only a line that was past the gate when it closed can  *)
(* follow.                                                                 *)
(***************************************************************************)
EXTENDS TaskBoard, AppSocket, FiniteSetTheorems, SequenceTheorems,
        WellFoundedInduction, TLAPS

-----------------------------------------------------------------------------
(* The task board.                                                         *)

Creating == {s \in Sidecars : mcp[s].step = "create"}

(* Task ids are handed out without gaps, and calls past the cap check are  *)
(* counted with the tasks they will create.                                *)
IdsDense ==
  \E n \in Nat : /\ LogTaskIds(tlog) = 1 .. n
                 /\ n + Cardinality(Creating) < TaskCap + Cardinality(Sidecars)

(* A transition works under the flock, so nothing but fresh tasks was      *)
(* appended since it read the log.                                         *)
LockHeld ==
  \A s \in Sidecars : mcp[s].step \in {"read", "append"} => flock = {s}

SnapshotHolds ==
  \A s \in Sidecars : mcp[s].step = "append" =>
    /\ mcp[s].seen <= Len(tlog)
    /\ \A i \in mcp[s].seen + 1 .. Len(tlog) : tlog[i].from = "genesis"

BoardLogInv == LogTypeOK /\ LegalHistory /\ IdsDense /\ LockHeld /\ SnapshotHolds

(* What LegalHistory says of line i.                                       *)
Earlier(log, i) == {k \in LinesOf(log, log[i].task) : k < i}

LegalLine(log, i) ==
  /\ (log[i].from = "genesis") <=> (Earlier(log, i) = {})
  /\ Earlier(log, i) # {} => /\ log[i].from = log[LastOf(Earlier(log, i))].to
                             /\ ValidTransition(log[i].from, log[i].to)
                             /\ Cardinality(Earlier(log, i)) < TransitionCap

LEMMA HistoryByLine == LegalHistory <=> \A i \in DOMAIN tlog : LegalLine(tlog, i)
BY DEF LegalHistory, LegalLine, Earlier

(* A set of numbers that is not empty has a least one.                     *)
LEMMA LeastExists ==
  ASSUME NEW T \in SUBSET Nat, T # {}
  PROVE  \E x \in T : \A y \in T : ~(y < x)
<1> DEFINE R == OpToRel(<, Nat)
<1>1. IsWellFoundedOn(R, Nat)  BY NatLessThanWellFounded
<1> HIDE DEF R
<1>2. PICK x \in T : \A y \in T : <<y, x>> \notin R  BY <1>1, WFMin
<1>3. QED  BY <1>2 DEF R, OpToRel

(* The last of a set of line numbers is one of them: sets of numbers below *)
(* a bound have a greatest element.                                        *)
LEMMA LastExists ==
  ASSUME NEW n \in Nat, NEW S \in SUBSET (1 .. n), S # {}
  PROVE  LastOf(S) \in S /\ \A k \in S : k <= LastOf(S)
<1> DEFINE T == {n - k : k \in S}
<1>1. T \in SUBSET Nat /\ T # {}
  <2>1. \A k \in S : n - k \in Nat  OBVIOUS
  <2>2. QED  BY <2>1
<1> HIDE DEF T
<1>2. PICK x \in T : \A y \in T : ~(y < x)  BY <1>1, LeastExists
<1>3. PICK k \in S : x = n - k  BY DEF T
<1>4. \A i \in S : i <= k
  <2>1. TAKE i \in S
  <2>2. n - i \in T  BY DEF T
  <2>3. ~(n - i < n - k)  BY <2>2, <1>2, <1>3
  <2>4. QED  BY <2>3
<1>5. QED  BY <1>4 DEF LastOf

(* A log that grows by a line that is legal after it stays legal.          *)
LEMMA HistoryGrows ==
  ASSUME NEW log \in Seq(LogLines), NEW line \in LogLines,
         \A i \in DOMAIN log : LegalLine(log, i),
         (line.from = "genesis") <=> (LinesOf(log, line.task) = {}),
         LinesOf(log, line.task) # {} =>
           /\ line.from = log[LastOf(LinesOf(log, line.task))].to
           /\ ValidTransition(line.from, line.to)
           /\ Cardinality(LinesOf(log, line.task)) < TransitionCap
  PROVE  \A i \in DOMAIN Append(log, line) : LegalLine(Append(log, line), i)
<1> DEFINE longer == Append(log, line)
           n == Len(log)
<1>1. /\ n \in Nat /\ DOMAIN log = 1 .. n /\ DOMAIN longer = 1 .. n + 1
      /\ longer[n + 1] = line
      /\ \A i \in 1 .. n : longer[i] = log[i]
  BY AppendProperties, LenProperties
<1> HIDE DEF longer, n
<1> SUFFICES ASSUME NEW i \in 1 .. n + 1 PROVE LegalLine(longer, i)
  BY <1>1 DEF longer
<1>2. CASE i \in 1 .. n
  <2>1. Earlier(longer, i) = Earlier(log, i)
    BY <1>1, <1>2 DEF Earlier, LinesOf
  <2>2. Earlier(log, i) # {} => LastOf(Earlier(log, i)) \in 1 .. n
    <3>1. Earlier(log, i) \in SUBSET (1 .. n)  BY <1>1 DEF Earlier, LinesOf
    <3>2. QED  BY <1>1, <3>1, LastExists
  <2>3. LegalLine(log, i)  BY <1>1, <1>2
  <2>4. QED  BY <1>1, <1>2, <2>1, <2>2, <2>3 DEF LegalLine
<1>3. CASE i = n + 1
  <2>1. Earlier(longer, i) = LinesOf(log, line.task)
    BY <1>1, <1>3 DEF Earlier, LinesOf
  <2>2. LinesOf(log, line.task) # {} => LastOf(LinesOf(log, line.task)) \in 1 .. n
    <3>1. LinesOf(log, line.task) \in SUBSET (1 .. n)  BY <1>1 DEF LinesOf
    <3>2. QED  BY <1>1, <3>1, LastExists
  <2>3. QED  BY <1>1, <1>3, <2>1, <2>2 DEF LegalLine
<1>4. QED  BY <1>1, <1>2, <1>3

LEMMA IdsGrow ==
  ASSUME NEW log \in Seq(LogLines), NEW line \in LogLines
  PROVE  LogTaskIds(Append(log, line)) = LogTaskIds(log) \cup {line.task}
<1> DEFINE longer == Append(log, line)
           n == Len(log)
<1>1. /\ n \in Nat /\ DOMAIN log = 1 .. n /\ DOMAIN longer = 1 .. n + 1
      /\ longer[n + 1] = line
      /\ \A i \in 1 .. n : longer[i] = log[i]
  BY AppendProperties, LenProperties
<1> HIDE DEF longer, n
<1>2. LogTaskIds(longer) = LogTaskIds(log) \cup {line.task}
  BY <1>1 DEF LogTaskIds
<1>3. QED  BY <1>2 DEF longer

LEMMA CreatingCounted ==
  ASSUME NEW S \in SUBSET Sidecars
  PROVE  IsFiniteSet(S) /\ Cardinality(S) \in Nat /\ Cardinality(S) <= Cardinality(Sidecars)
         /\ Cardinality(Sidecars) \in Nat
BY BoardAssumption, FS_Subset, FS_CardinalityType

(* Steps that leave the log alone and add no call past the cap check.      *)
LEMMA IdsKept ==
  ASSUME IdsDense, UNCHANGED tlog, Creating' \subseteq Creating
  PROVE  IdsDense'
<1>1. PICK n \in Nat : /\ LogTaskIds(tlog) = 1 .. n
                       /\ n + Cardinality(Creating) < TaskCap + Cardinality(Sidecars)
  BY DEF IdsDense
<1>2. Creating \in SUBSET Sidecars  BY DEF Creating
<1>3. IsFiniteSet(Creating) /\ Cardinality(Creating) \in Nat /\ Cardinality(Sidecars) \in Nat
  BY <1>2, CreatingCounted
<1>4. Cardinality(Creating') <= Cardinality(Creating) /\ Cardinality(Creating') \in Nat
  BY <1>3, FS_Subset, FS_CardinalityType
<1>5. LogTaskIds(tlog)' = 1 .. n  BY <1>1 DEF LogTaskIds
<1>6. n + Cardinality(Creating') < TaskCap + Cardinality(Sidecars)
  BY <1>1, <1>3, <1>4, BoardAssumption
<1>7. QED  BY <1>5, <1>6 DEF IdsDense

LEMMA HistoryKept == ASSUME LegalHistory, UNCHANGED tlog PROVE LegalHistory'
BY DEF LegalHistory, LinesOf

LEMMA CreateReadKeepsLog ==
  ASSUME BoardLogInv, NEW s \in Sidecars, CreateRead(s)
  PROVE  BoardLogInv'
<1> USE DEF BoardLogInv
<1>1. LogTypeOK'  BY DEF LogTypeOK, CreateRead
<1>2. LegalHistory'  BY HistoryKept DEF CreateRead
<1>3. IdsDense'
  <2>1. PICK n \in Nat : LogTaskIds(tlog) = 1 .. n
    BY DEF IdsDense
  <2>2. Cardinality(1 .. n) = n  BY FS_Interval
  <2>3. n < TaskCap  BY <2>1, <2>2 DEF CreateRead
  <2>4. Creating' \in SUBSET Sidecars  BY DEF Creating
  <2>5. Cardinality(Creating') \in Nat /\ Cardinality(Creating') <= Cardinality(Sidecars)
        /\ Cardinality(Sidecars) \in Nat
    BY <2>4, CreatingCounted
  <2>6. n + Cardinality(Creating') < TaskCap + Cardinality(Sidecars)
    BY <2>3, <2>5, BoardAssumption
  <2>7. LogTaskIds(tlog)' = 1 .. n  BY <2>1 DEF LogTaskIds, CreateRead
  <2>8. QED  BY <2>6, <2>7 DEF IdsDense
<1>4. LockHeld'  BY DEF LockHeld, LogTypeOK, CreateRead
<1>5. SnapshotHolds'  BY DEF SnapshotHolds, LogTypeOK, CreateRead
<1>6. QED  BY <1>1, <1>2, <1>3, <1>4, <1>5

(* The genesis line of a fresh id leaves a transition's snapshot valid.    *)
LEMMA CreateAppendKeepsLog ==
  ASSUME BoardLogInv, NEW s \in Sidecars, CreateAppend(s)
  PROVE  BoardLogInv'
<1> USE DEF BoardLogInv
<1>1. PICK n \in Nat : /\ LogTaskIds(tlog) = 1 .. n
                       /\ n + Cardinality(Creating) < TaskCap + Cardinality(Sidecars)
  BY DEF IdsDense
<1> DEFINE line == Line(n + 1, "genesis", "created", s)
<1>2. Cardinality(LogTaskIds(tlog)) = n  BY <1>1, FS_Interval
<1>3. tlog' = Append(tlog, line)  BY <1>2 DEF CreateAppend
<1>4. s \in Creating /\ Creating \in SUBSET Sidecars /\ Creating' = Creating \ {s}
  BY DEF Creating, CreateAppend, LogTypeOK, NoCall
<1>5. /\ Cardinality(Sidecars) \in Nat
      /\ Cardinality(Creating) \in Nat /\ Cardinality(Creating') = Cardinality(Creating) - 1
  BY <1>4, CreatingCounted, FS_RemoveElement
<1>6. Cardinality(Creating') \in Nat
  BY <1>4, CreatingCounted, FS_RemoveElement, FS_CardinalityType
<1>7. line \in LogLines
  <2>1. n + 1 \in TaskIds  BY <1>1, <1>5, <1>6, BoardAssumption DEF TaskIds
  <2>2. QED  BY <2>1 DEF Line, LogLines, Stages
<1>8. tlog \in Seq(LogLines)  BY DEF LogTypeOK
<1>9. /\ tlog' \in Seq(LogLines) /\ Len(tlog) \in Nat /\ Len(tlog') = Len(tlog) + 1
      /\ tlog'[Len(tlog) + 1] = line /\ \A i \in 1 .. Len(tlog) : tlog'[i] = tlog[i]
      /\ DOMAIN tlog = 1 .. Len(tlog)
  BY <1>3, <1>7, <1>8, AppendProperties, LenProperties
<1>10. line.task = n + 1 /\ line.from = "genesis"  BY DEF Line
<1> HIDE DEF line
<1>11. LogTypeOK'
  BY <1>9 DEF LogTypeOK, CreateAppend, NoCall, Stages
<1>12. LegalHistory'
  <2>1. LinesOf(tlog, line.task) = {}
    BY <1>1, <1>10 DEF LinesOf, LogTaskIds
  <2>2. \A i \in DOMAIN tlog : LegalLine(tlog, i)  BY HistoryByLine
  <2>3. \A i \in DOMAIN Append(tlog, line) : LegalLine(Append(tlog, line), i)
    BY <1>7, <1>8, <1>10, <2>1, <2>2, HistoryGrows
  <2>4. QED  BY <1>3, <2>3, HistoryByLine DEF LegalHistory, LegalLine, Earlier
<1>13. IdsDense'
  <2>1. LogTaskIds(tlog') = (1 .. n) \cup {n + 1}
    BY <1>1, <1>3, <1>7, <1>8, <1>10, IdsGrow
  <2>2. LogTaskIds(tlog)' = 1 .. n + 1  BY <2>1 DEF LogTaskIds
  <2>3. n + 1 + Cardinality(Creating') < TaskCap + Cardinality(Sidecars)
    BY <1>1, <1>5, <1>6, BoardAssumption
  <2>4. QED  BY <2>2, <2>3 DEF IdsDense
<1>14. LockHeld'  BY DEF LockHeld, LogTypeOK, CreateAppend, NoCall
<1>15. SnapshotHolds'
  BY <1>9, <1>10 DEF SnapshotHolds, LogTypeOK, CreateAppend, NoCall
<1>16. QED  BY <1>11, <1>12, <1>13, <1>14, <1>15

LEMMA LockLogKeepsLog ==
  ASSUME BoardLogInv, NEW s \in Sidecars, NEW id \in TaskIds, NEW to \in Stages,
         LockLog(s, id, to)
  PROVE  BoardLogInv'
<1> USE DEF BoardLogInv
<1>1. LogTypeOK'  BY DEF LogTypeOK, LockLog
<1>2. LegalHistory'  BY HistoryKept DEF LockLog
<1>3. Creating' \subseteq Creating  BY DEF Creating, LogTypeOK, LockLog
<1>4. IdsDense'  BY <1>3, IdsKept DEF LockLog
<1>5. LockHeld'  BY DEF LockHeld, LogTypeOK, LockLog
<1>6. SnapshotHolds'  BY DEF SnapshotHolds, LogTypeOK, LockLog
<1>7. QED  BY <1>1, <1>2, <1>4, <1>5, <1>6

LEMMA TransitionReadKeepsLog ==
  ASSUME BoardLogInv, NEW s \in Sidecars, TransitionRead(s)
  PROVE  BoardLogInv'
<1> USE DEF BoardLogInv
<1>0. Len(tlog) \in Nat  BY LenProperties DEF LogTypeOK
<1>1. LogTypeOK'  BY <1>0 DEF LogTypeOK, TransitionRead
<1>2. LegalHistory'  BY HistoryKept DEF TransitionRead
<1>3. Creating' \subseteq Creating  BY DEF Creating, LogTypeOK, TransitionRead
<1>4. IdsDense'  BY <1>3, IdsKept DEF TransitionRead
<1>5. LockHeld'  BY DEF LockHeld, LogTypeOK, TransitionRead
<1>6. SnapshotHolds'  BY <1>0 DEF SnapshotHolds, LogTypeOK, TransitionRead
<1>7. QED  BY <1>1, <1>2, <1>4, <1>5, <1>6

(* The lines of the task are those the call saw, so the stage its edge     *)
(* leaves from is the current one.                                         *)
LEMMA TransitionAppendKeepsLog ==
  ASSUME BoardLogInv, NEW s \in Sidecars, TransitionAppend(s)
  PROVE  BoardLogInv'
<1> USE DEF BoardLogInv
<1> DEFINE id == mcp[s].task
           n == Len(tlog)
           m == mcp[s].seen
           L == LinesOf(tlog, id)
           line == Line(id, CurrentLifecycle(Seen(s), id), mcp[s].to, s)
<1>1. /\ tlog \in Seq(LogLines) /\ n \in Nat /\ DOMAIN tlog = 1 .. n /\ m \in Nat
      /\ \A i \in 1 .. n : tlog[i] \in LogLines
  BY LenProperties, ElementOfSeq DEF LogTypeOK
<1>2. m <= n /\ \A i \in m + 1 .. n : tlog[i].from = "genesis"
  BY DEF SnapshotHolds, TransitionAppend
<1>3. DOMAIN Seen(s) = 1 .. m /\ \A i \in 1 .. m : Seen(s)[i] = tlog[i]
  BY <1>1, <1>2, SubSeqProperties DEF Seen
<1>4. LinesOf(Seen(s), id) = {i \in 1 .. m : tlog[i].task = id}
  BY <1>3 DEF LinesOf
<1>5. LinesOf(Seen(s), id) # {}
  BY <1>3, <1>4 DEF TransitionAppend, LogTaskIds
<1>6. L \in SUBSET (1 .. n)  BY <1>1 DEF LinesOf
<1>7. \A i \in DOMAIN tlog : LegalLine(tlog, i)  BY HistoryByLine
<1> HIDE DEF n, m
<1>8. L \subseteq 1 .. m
  <2> SUFFICES ASSUME NEW i \in L, i \notin 1 .. m PROVE FALSE
    OBVIOUS
  <2>1. i \in 1 .. n /\ i \in m + 1 .. n  BY <1>1, <1>6
  <2>2. tlog[i].from = "genesis" /\ tlog[i].task = id
    BY <1>2, <2>1 DEF LinesOf
  <2>3. Earlier(tlog, i) = {}  BY <1>1, <1>7, <2>1, <2>2 DEF LegalLine
  <2>4. PICK k \in 1 .. m : tlog[k].task = id  BY <1>4, <1>5
  <2>5. k \in Earlier(tlog, i)
    BY <1>1, <1>2, <2>1, <2>2, <2>4 DEF Earlier, LinesOf
  <2>6. QED  BY <2>3, <2>5
<1>9. LinesOf(Seen(s), id) = L
  BY <1>1, <1>2, <1>4, <1>8 DEF LinesOf
<1>10. L # {} /\ LastOf(L) \in L
  BY <1>1, <1>5, <1>6, <1>9, LastExists
<1>11. LastOf(L) \in 1 .. m /\ LastOf(L) \in 1 .. n  BY <1>6, <1>8, <1>10
<1>12. CurrentLifecycle(Seen(s), id) = tlog[LastOf(L)].to
  BY <1>3, <1>9, <1>11 DEF CurrentLifecycle
<1>13. /\ line.task = id /\ line.from = tlog[LastOf(L)].to /\ line.to = mcp[s].to
       /\ line.from \in Stages /\ line.from # "genesis"
  BY <1>1, <1>11, <1>12 DEF Line, LogLines, Stages
<1>14. id \in TaskIds
  <2>1. tlog[LastOf(L)].task = id  BY <1>10 DEF LinesOf
  <2>2. QED  BY <1>1, <1>11, <2>1 DEF LogLines
<1>15. line \in LogLines
  BY <1>12, <1>13, <1>14 DEF LogTypeOK, Line, LogLines
<1>16. tlog' = Append(tlog, line)  BY DEF TransitionAppend
<1>17. ValidTransition(line.from, line.to) /\ Cardinality(L) < TransitionCap
  BY <1>9, <1>12, <1>13 DEF TransitionAppend
<1>18. \A i \in DOMAIN Append(tlog, line) : LegalLine(Append(tlog, line), i)
  <2>1. LinesOf(tlog, line.task) = L  BY <1>13
  <2> HIDE DEF line, L
  <2>2. QED  BY <1>1, <1>7, <1>10, <1>13, <1>15, <1>17, <2>1, HistoryGrows
<1>19. /\ tlog' \in Seq(LogLines) /\ Len(tlog') = n + 1
  BY <1>1, <1>15, <1>16, AppendProperties, LenProperties DEF n
<1>20. LogTaskIds(tlog') = LogTaskIds(tlog)
  <2>1. line.task \in LogTaskIds(tlog)  BY <1>1, <1>10, <1>11, <1>13 DEF LogTaskIds, LinesOf
  <2> HIDE DEF line, L, id
  <2>2. LogTaskIds(Append(tlog, line)) = LogTaskIds(tlog) \cup {line.task}
    BY <1>1, <1>15, IdsGrow
  <2>3. QED  BY <1>16, <2>1, <2>2
<1> HIDE DEF line
<1>21. LogTypeOK'
  BY <1>19 DEF LogTypeOK, TransitionAppend, NoCall, Stages
<1>22. LegalHistory'
  BY <1>16, <1>18, HistoryByLine DEF LegalHistory, LegalLine, Earlier
<1>23. IdsDense'
  <2>1. PICK k \in Nat : /\ LogTaskIds(tlog) = 1 .. k
                         /\ k + Cardinality(Creating) < TaskCap + Cardinality(Sidecars)
    BY DEF IdsDense
  <2>2. Creating' = Creating  BY DEF Creating, LogTypeOK, TransitionAppend, NoCall
  <2>3. LogTaskIds(tlog)' = 1 .. k  BY <1>20, <2>1 DEF LogTaskIds
  <2>4. QED  BY <2>1, <2>2, <2>3 DEF IdsDense
<1>24. LockHeld'
  BY DEF LockHeld, LogTypeOK, TransitionAppend, NoCall
<1>25. SnapshotHolds'
  <2>1. flock = {s}  BY DEF LockHeld, TransitionAppend
  <2>2. \A t \in Sidecars : mcp'[t].step # "append"
    BY <2>1 DEF LockHeld, LogTypeOK, TransitionAppend, NoCall
  <2>3. QED  BY <2>2 DEF SnapshotHolds
<1>26. QED  BY <1>21, <1>22, <1>23, <1>24, <1>25

LEMMA CallEndsKeepsLog ==
  ASSUME BoardLogInv, NEW s \in Sidecars, CallEnds(s)
  PROVE  BoardLogInv'
<1> USE DEF BoardLogInv
<1>1. LogTypeOK'  BY DEF LogTypeOK, CallEnds, NoCall, Stages
<1>2. LegalHistory'  BY HistoryKept DEF CallEnds
<1>3. Creating' \subseteq Creating  BY DEF Creating, LogTypeOK, CallEnds, NoCall
<1>4. IdsDense'  BY <1>3, IdsKept DEF CallEnds
<1>5. LockHeld'  BY DEF LockHeld, LogTypeOK, CallEnds, NoCall
<1>6. SnapshotHolds'  BY DEF SnapshotHolds, LogTypeOK, CallEnds, NoCall
<1>7. QED  BY <1>1, <1>2, <1>4, <1>5, <1>6

LEMMA LogUntouched == ASSUME BoardLogInv, UNCHANGED logvars PROVE BoardLogInv'
<1> USE DEF BoardLogInv, logvars
<1>1. Creating' = Creating  BY DEF Creating
<1>2. IdsDense'  BY <1>1, IdsKept
<1>3. LegalHistory'  BY HistoryKept
<1>4. LogTypeOK'  BY DEF LogTypeOK
<1>5. LockHeld' /\ SnapshotHolds'  BY DEF LockHeld, SnapshotHolds
<1>6. QED  BY <1>2, <1>3, <1>4, <1>5

LEMMA CardsLeaveLog == CardStep => UNCHANGED <<logvars, pollvars>>
<1>1. \A set : WriteTasks(set) => UNCHANGED <<logvars, pollvars>>  BY DEF WriteTasks
<1>2. \A card : UpsertTask(card) => UNCHANGED <<logvars, pollvars>>
  <2>1. \A card : UpsertTask(card) => \E set : WriteTasks(set)  BY DEF UpsertTask
  <2>2. QED  BY <1>1, <2>1
<1>3. \A id, col, ord : CreateCard(id, col, ord) \/ UpdateCard(id, col, ord)
                        => UNCHANGED <<logvars, pollvars>>
  BY <1>2 DEF CreateCard, UpdateCard
<1>4. \A id, col, before : ReorderCard(id, col, before) => UNCHANGED <<logvars, pollvars>>
  BY <1>2 DEF ReorderCard
<1>5. \A id : DeleteCard(id) => UNCHANGED <<logvars, pollvars>>  BY <1>1 DEF DeleteCard
<1>6. \A i : DamageCard(i) \/ ReadsTurn => UNCHANGED <<logvars, pollvars>>
  BY DEF DamageCard, ReadsTurn
<1>7. QED  BY <1>3, <1>4, <1>5, <1>6 DEF CardStep

LEMMA StepKeepsLog == ASSUME BoardLogInv, [BoardNext]_boardvars PROVE BoardLogInv'
<1>1. ASSUME NEW s \in Sidecars, SidecarStep(s) PROVE BoardLogInv'
  BY <1>1, CreateReadKeepsLog, CreateAppendKeepsLog, LockLogKeepsLog, TransitionReadKeepsLog,
     TransitionAppendKeepsLog, CallEndsKeepsLog DEF SidecarStep
<1>2. CASE CardStep  BY <1>2, CardsLeaveLog, LogUntouched
<1>3. ASSUME NEW p \in Polls, PollStep(p) PROVE BoardLogInv'
  <2>1. UNCHANGED logvars
    BY <1>3 DEF PollStep, StatLog, StatStore, LookUp, ParseLog, Refresh, Shown
  <2>2. QED  BY <2>1, LogUntouched
<1>4. CASE UNCHANGED boardvars  BY <1>4, LogUntouched DEF boardvars
<1>5. QED  BY <1>1, <1>2, <1>3, <1>4 DEF BoardNext

LEMMA LogBegins == BoardInit => BoardLogInv
<1> SUFFICES ASSUME BoardInit PROVE BoardLogInv  OBVIOUS
<1> USE DEF BoardInit
<1>1. tlog \in Seq(LogLines) /\ DOMAIN tlog = {} /\ Len(tlog) = 0
  BY EmptySeq
<1>2. LogTypeOK  BY <1>1 DEF LogTypeOK, NoCall, Stages
<1>3. LegalHistory  BY <1>1 DEF LegalHistory
<1>4. IdsDense
  <2>1. LogTaskIds(tlog) = 1 .. 0  BY <1>1 DEF LogTaskIds
  <2>2. Creating = {}  BY DEF Creating, NoCall
  <2>3. Cardinality(Creating) = 0 /\ Cardinality(Sidecars) \in Nat
    BY <2>2, FS_EmptySet, CreatingCounted
  <2>4. 0 + Cardinality(Creating) < TaskCap + Cardinality(Sidecars)
    BY <2>3, BoardAssumption
  <2>5. QED  BY <2>1, <2>4 DEF IdsDense
<1>5. LockHeld /\ SnapshotHolds  BY DEF LockHeld, SnapshotHolds, NoCall
<1>6. QED  BY <1>2, <1>3, <1>4, <1>5 DEF BoardLogInv

(* The types of the log and of the calls, ids without gaps, the lock and   *)
(* what its holder read.                                                   *)
THEOREM BoardLogInvHolds == BoardSpec => []BoardLogInv
<1>1. BoardLogInv /\ [BoardNext]_boardvars => BoardLogInv'  BY StepKeepsLog
<1>2. QED  BY <1>1, LogBegins, PTL DEF BoardSpec

(* The log of every task is one walk of the legal graph, whoever writes    *)
(* and dies (the flock of task_transition, core/task).                     *)
THEOREM HistoriesAreLegal == BoardSpec => []LegalHistory
<1>1. BoardLogInv => LegalHistory  BY DEF BoardLogInv
<1>2. QED  BY <1>1, BoardLogInvHolds, PTL

(* task_create checks MAX_TASKS without the lock; still no more tasks than *)
(* one per other sidecar come on top of the cap.                           *)
THEOREM TaskCapOverrun ==
  BoardSpec => [](Cardinality(LogTaskIds(tlog)) < TaskCap + Cardinality(Sidecars))
<1>1. ASSUME BoardLogInv PROVE Cardinality(LogTaskIds(tlog)) < TaskCap + Cardinality(Sidecars)
  <2>1. PICK n \in Nat : /\ LogTaskIds(tlog) = 1 .. n
                         /\ n + Cardinality(Creating) < TaskCap + Cardinality(Sidecars)
    BY <1>1 DEF BoardLogInv, IdsDense
  <2>2. Cardinality(LogTaskIds(tlog)) = n  BY <2>1, FS_Interval
  <2>3. Cardinality(Creating) \in Nat /\ Cardinality(Sidecars) \in Nat
    BY CreatingCounted DEF Creating
  <2>4. QED  BY <2>1, <2>2, <2>3, BoardAssumption
<1>2. QED  BY <1>1, BoardLogInvHolds, PTL

-----------------------------------------------------------------------------
(* The cached poll.  The keys a poll or the cache holds were looked up     *)
(* before what it parsed, and files only grow or are replaced.             *)

PollType == [step : {"idle", "stat", "lock", "log", "store", "shown"},
             logKey : Nat, storeKey : Nat, logRead : Nat, rows : Nat \X Nat]

PollFits(w) ==
  /\ w.step \in {"stat", "lock", "log"} => w.logKey <= Len(tlog)
  /\ w.step \in {"lock", "log", "store"} => w.storeKey <= rewrites
  /\ w.step = "store" => w.logRead >= w.logKey
  /\ w.step = "shown" => w.rows[1] >= w.logKey /\ w.rows[2] >= w.storeKey

CacheFits ==
  cache.full => /\ cache.logRead >= cache.logKey
                /\ cache.rows[1] >= cache.logKey /\ cache.rows[2] >= cache.storeKey

BoardPollInv ==
  /\ PollTypeOK /\ rewrites \in Nat /\ CacheFits
  /\ \A p \in Polls : PollFits(poll[p])

LEMMA PollUpdate ==
  ASSUME BoardPollInv, UNCHANGED <<tlog, rewrites>>, NEW p \in Polls, NEW w \in PollType,
         poll' = [poll EXCEPT ![p] = w], PollFits(w),
         cacheBy' \subseteq Polls,
         UNCHANGED cache \/ (CacheFits' /\ cache' \in [full : BOOLEAN, logKey : Nat,
                              storeKey : Nat, logRead : Nat, rows : Nat \X Nat])
  PROVE  BoardPollInv'
<1> USE DEF BoardPollInv
<1>1. PollTypeOK'  BY DEF PollTypeOK, PollType
<1>2. CacheFits'  BY DEF CacheFits
<1>3. ASSUME NEW q \in Polls PROVE PollFits(poll[q])'
  <2>1. poll'[q] = IF q = p THEN w ELSE poll[q]  BY DEF PollTypeOK
  <2>2. CASE q = p  BY <2>1, <2>2 DEF PollFits
  <2>3. CASE q # p  BY <2>1, <2>3 DEF PollFits
  <2>4. QED  BY <2>2, <2>3
<1>4. QED  BY <1>1, <1>2, <1>3

LEMMA PollStepKeepsPoll ==
  ASSUME BoardPollInv, Len(tlog) \in Nat, NEW p \in Polls, PollStep(p)
  PROVE  BoardPollInv'
<1>0. /\ poll[p] \in PollType /\ PollFits(poll[p]) /\ CacheFits /\ NoPoll \in PollType
      /\ cacheBy \subseteq Polls /\ rewrites \in Nat
      /\ cache \in [full : BOOLEAN, logKey : Nat, storeKey : Nat, logRead : Nat, rows : Nat \X Nat]
  BY DEF BoardPollInv, PollTypeOK, PollType, NoPoll
<1> USE <1>0 DEF Polling, logvars, cardvars
<1>1. CASE StatLog(p)
  <2> DEFINE w == [NoPoll EXCEPT !.step = "stat", !.logKey = Len(tlog)]
  <2>0. w \in PollType /\ w.step = "stat" /\ w.logKey = Len(tlog)
    BY DEF NoPoll, PollType
  <2>1. w \in PollType /\ PollFits(w)
    <3> HIDE DEF w
    <3>1. QED  BY <2>0 DEF PollFits
  <2>2. poll' = [poll EXCEPT ![p] = w] /\ UNCHANGED <<tlog, rewrites, cache, cacheBy>>
    BY <1>1 DEF StatLog
  <2> HIDE DEF w
  <2>3. QED  BY <2>1, <2>2, PollUpdate
<1>2. CASE StatStore(p)
  <2> DEFINE w == [poll[p] EXCEPT !.step = "lock", !.storeKey = rewrites]
  <2>0. /\ w \in PollType /\ w.step = "lock" /\ w.storeKey = rewrites
        /\ w.logKey <= Len(tlog)
    BY <1>2 DEF StatStore, PollType, PollFits
  <2>1. w \in PollType /\ PollFits(w)
    <3> HIDE DEF w
    <3>1. QED  BY <2>0 DEF PollFits
  <2>2. poll' = [poll EXCEPT ![p] = w] /\ UNCHANGED <<tlog, rewrites, cache, cacheBy>>
    BY <1>2 DEF StatStore
  <2> HIDE DEF w
  <2>3. QED  BY <2>1, <2>2, PollUpdate
<1>3. CASE LookUp(p)
  <2> DEFINE sameLog == cache.full /\ cache.logKey = poll[p].logKey
             hit == [poll[p] EXCEPT !.step = "shown", !.rows = cache.rows]
             half == [poll[p] EXCEPT !.step = "store", !.logRead = cache.logRead]
             miss == [poll[p] EXCEPT !.step = "log"]
  <2>1. UNCHANGED <<tlog, rewrites, cache>> /\ cacheBy' \subseteq Polls
    BY <1>3 DEF LookUp
  <2>2. CASE sameLog /\ cache.storeKey = poll[p].storeKey
    <3>1. hit \in PollType /\ PollFits(hit)
      BY <2>2 DEF PollType, PollFits, CacheFits
    <3>2. poll' = [poll EXCEPT ![p] = hit]  BY <1>3, <2>2 DEF LookUp
    <3> HIDE DEF hit
    <3>3. QED  BY <2>1, <3>1, <3>2, PollUpdate
  <2>3. CASE sameLog /\ cache.storeKey # poll[p].storeKey /\ cache.logKey # 0
    <3>1. half \in PollType /\ PollFits(half)
      BY <1>3, <2>3 DEF LookUp, PollType, PollFits, CacheFits
    <3>2. poll' = [poll EXCEPT ![p] = half]  BY <1>3, <2>3 DEF LookUp
    <3> HIDE DEF half
    <3>3. QED  BY <2>1, <3>1, <3>2, PollUpdate
  <2>4. CASE ~sameLog \/ (cache.storeKey # poll[p].storeKey /\ cache.logKey = 0)
    <3>1. miss \in PollType /\ PollFits(miss)
      BY <1>3 DEF LookUp, PollType, PollFits
    <3>2. poll' = [poll EXCEPT ![p] = miss]  BY <1>3, <2>4 DEF LookUp
    <3> HIDE DEF miss
    <3>3. QED  BY <2>1, <3>1, <3>2, PollUpdate
  <2>5. QED  BY <2>2, <2>3, <2>4
<1>4. CASE ParseLog(p)
  <2> DEFINE w == [poll[p] EXCEPT !.step = "store", !.logRead = Len(tlog)]
  <2>1. w \in PollType /\ PollFits(w)  BY <1>4 DEF ParseLog, PollType, PollFits
  <2>2. poll' = [poll EXCEPT ![p] = w] /\ UNCHANGED <<tlog, rewrites, cache, cacheBy>>
    BY <1>4 DEF ParseLog
  <2> HIDE DEF w
  <2>3. QED  BY <2>1, <2>2, PollUpdate
<1>5. CASE Refresh(p)
  <2> DEFINE rows == <<poll[p].logRead, rewrites>>
             w == [poll[p] EXCEPT !.step = "shown", !.rows = rows, !.logRead = 0]
             c == [full |-> TRUE, logKey |-> poll[p].logKey, storeKey |-> poll[p].storeKey,
                   logRead |-> poll[p].logRead, rows |-> rows]
  <2>0. rows \in Nat \X Nat /\ rows[1] = poll[p].logRead /\ rows[2] = rewrites
    BY DEF PollType
  <2>1. poll' = [poll EXCEPT ![p] = w] /\ cache' = c /\ UNCHANGED <<tlog, rewrites>>
        /\ cacheBy' \subseteq Polls
    BY <1>5 DEF Refresh
  <2> HIDE DEF rows
  <2>2. w \in PollType /\ PollFits(w)
    BY <1>5, <2>0 DEF Refresh, PollType, PollFits
  <2>3. c \in [full : BOOLEAN, logKey : Nat, storeKey : Nat, logRead : Nat, rows : Nat \X Nat]
    BY <2>0 DEF PollType
  <2>4. CacheFits'  BY <1>5, <2>0, <2>1 DEF CacheFits, Refresh, PollFits, PollType
  <2> HIDE DEF w, c
  <2>5. QED  BY <2>1, <2>2, <2>3, <2>4, PollUpdate
<1>6. CASE Shown(p)
  <2>1. PollFits(NoPoll)  BY DEF PollFits, NoPoll
  <2>2. poll' = [poll EXCEPT ![p] = NoPoll] /\ UNCHANGED <<tlog, rewrites, cache, cacheBy>>
    BY <1>6 DEF Shown
  <2>3. QED  BY <2>1, <2>2, PollUpdate
<1>7. QED  BY <1>1, <1>2, <1>3, <1>4, <1>5, <1>6 DEF PollStep

(* Files only grow or are replaced.                                        *)
LEMMA FilesMoveOn ==
  ASSUME BoardLogInv, rewrites \in Nat, [BoardNext]_boardvars
  PROVE  /\ Len(tlog) \in Nat /\ Len(tlog') \in Nat /\ Len(tlog) <= Len(tlog')
         /\ rewrites' \in Nat /\ rewrites <= rewrites'
<1> DEFINE Grown == tlog' = tlog \/ \E line : tlog' = Append(tlog, line)
           Rewritten == rewrites' = rewrites \/ rewrites' = rewrites + 1
<1>1. tlog \in Seq(LogLines) /\ tlog' \in Seq(LogLines)
  BY StepKeepsLog DEF BoardLogInv, LogTypeOK
<1>2. Len(tlog) \in Nat /\ Len(tlog') \in Nat  BY <1>1, LenProperties
<1>3. ASSUME NEW s \in Sidecars, SidecarStep(s) PROVE Grown /\ Rewritten
  BY <1>3 DEF SidecarStep, CreateRead, CreateAppend, LockLog, TransitionRead,
              TransitionAppend, CallEnds, cardvars
<1>4. ASSUME CardStep PROVE Grown /\ Rewritten
  <2>1. UNCHANGED tlog  BY <1>4, CardsLeaveLog DEF logvars
  <2>2. \A set : WriteTasks(set) => Rewritten  BY DEF WriteTasks
  <2>3. \A card : UpsertTask(card) => Rewritten  BY <2>2 DEF UpsertTask
  <2> HIDE DEF Rewritten
  <2>4. Rewritten \/ ReadsTurn \/ \E i \in DOMAIN cards : DamageCard(i)
    BY <1>4, <2>2, <2>3 DEF CardStep, CreateCard, UpdateCard, ReorderCard, DeleteCard
  <2>5. ASSUME NEW i \in DOMAIN cards, DamageCard(i) \/ ReadsTurn PROVE Rewritten
    BY <2>5 DEF DamageCard, ReadsTurn, Rewritten
  <2>6. ReadsTurn => Rewritten  BY DEF ReadsTurn, Rewritten
  <2>7. QED  BY <2>1, <2>4, <2>5, <2>6
<1>5. ASSUME NEW p \in Polls, PollStep(p) PROVE Grown /\ Rewritten
  BY <1>5 DEF PollStep, StatLog, StatStore, LookUp, ParseLog, Refresh, Shown, logvars, cardvars
<1>6. ASSUME UNCHANGED boardvars PROVE Grown /\ Rewritten
  BY <1>6 DEF boardvars, logvars, cardvars
<1>7. Grown /\ Rewritten
  <2> HIDE DEF Grown, Rewritten
  <2>1. QED  BY <1>3, <1>4, <1>5, <1>6 DEF BoardNext
<1>8. Len(tlog) <= Len(tlog')
  <2>1. CASE tlog' = tlog  BY <1>2, <2>1
  <2>2. ASSUME NEW line, tlog' = Append(tlog, line) PROVE Len(tlog) <= Len(tlog')
    <3>1. tlog \in Seq(LogLines \cup {line})  BY <1>1, SeqMonotonic
    <3>2. Len(tlog') = Len(tlog) + 1  BY <2>2, <3>1, AppendProperties
    <3>3. QED  BY <1>2, <3>2
  <2>3. QED  BY <1>7, <2>1, <2>2
<1>9. QED  BY <1>2, <1>7, <1>8

LEMMA StepKeepsPoll ==
  ASSUME BoardLogInv, BoardPollInv, [BoardNext]_boardvars
  PROVE  BoardPollInv'
<1>1. /\ Len(tlog) \in Nat /\ Len(tlog') \in Nat /\ Len(tlog) <= Len(tlog')
      /\ rewrites' \in Nat /\ rewrites <= rewrites'
  BY FilesMoveOn DEF BoardPollInv
<1>2. ASSUME NEW p \in Polls, PollStep(p) PROVE BoardPollInv'
  BY <1>1, <1>2, PollStepKeepsPoll
<1>3. ASSUME UNCHANGED pollvars PROVE BoardPollInv'
  <2>1. PollTypeOK' /\ CacheFits'  BY <1>3 DEF BoardPollInv, PollTypeOK, CacheFits, pollvars
  <2>2. ASSUME NEW p \in Polls PROVE PollFits(poll[p])'
    <3>1. poll'[p] = poll[p] /\ poll[p] \in PollType /\ PollFits(poll[p])
      BY <1>3 DEF BoardPollInv, PollTypeOK, PollType, pollvars
    <3>2. QED  BY <1>1, <3>1 DEF PollFits, PollType, BoardPollInv
  <2>3. QED  BY <1>1, <2>1, <2>2 DEF BoardPollInv
<1>4. CASE \E s \in Sidecars : SidecarStep(s)
  <2>1. UNCHANGED pollvars
    BY <1>4 DEF SidecarStep, CreateRead, CreateAppend, LockLog, TransitionRead,
                TransitionAppend, CallEnds
  <2>2. QED  BY <1>3, <2>1
<1>5. CASE CardStep  BY <1>3, <1>5, CardsLeaveLog
<1>6. CASE UNCHANGED boardvars  BY <1>3, <1>6 DEF boardvars
<1>7. QED  BY <1>2, <1>4, <1>5, <1>6 DEF BoardNext

LEMMA PollBegins == BoardInit => BoardPollInv
BY EmptySeq DEF BoardInit, BoardPollInv, PollTypeOK, PollFits, CacheFits, NoPoll

LEMMA PollInvHolds == BoardSpec => []BoardPollInv
<1>1. BoardLogInv /\ BoardPollInv /\ [BoardNext]_boardvars => BoardPollInv'
  BY StepKeepsPoll
<1>2. QED  BY <1>1, PollBegins, BoardLogInvHolds, PTL DEF BoardSpec

(* A poll never answers with less than the files held when it looked at    *)
(* them (the keys of CACHE in list_mcp_tasks).                             *)
THEOREM PollsAreFresh == BoardSpec => []PollIsFresh
<1>1. BoardPollInv => PollIsFresh  BY DEF BoardPollInv, PollFits, PollIsFresh, Polling
<1>2. QED  BY <1>1, PollInvHolds, PTL

-----------------------------------------------------------------------------
(* Sifting a sequence.                                                     *)

SiftStep(f, seq, keep, n) ==
  IF n = 0 THEN <<>>
  ELSE IF n \in keep THEN Append(f[n - 1], seq[n]) ELSE f[n - 1]

Sifts(f, seq, keep, m) == f = [n \in 0 .. m |-> SiftStep(f, seq, keep, n)]

(* The function that Sift takes the last value of exists, for no seq has a *)
(* shortest prefix without one.                                            *)
LEMMA SiftExists ==
  ASSUME NEW seq, NEW keep, NEW m \in Nat PROVE \E f : Sifts(f, seq, keep, m)
<1> DEFINE T == {n \in Nat : ~\E f : Sifts(f, seq, keep, n)}
<1>1. CASE T # {}
  <2>1. PICK x \in T : \A y \in T : ~(y < x)
    <3>1. T \in SUBSET Nat  OBVIOUS
    <3> HIDE DEF T
    <3> QED  BY <1>1, <3>1, LeastExists
  <2>2. CASE x = 0
    <3> DEFINE f == [n \in 0 .. 0 |-> <<>>]
    <3>1. f = [n \in 0 .. 0 |-> SiftStep(f, seq, keep, n)]  BY DEF SiftStep
    <3>2. Sifts(f, seq, keep, 0)  BY <3>1 DEF Sifts
    <3> QED  BY <2>2, <3>2
  <2>3. CASE x # 0
    <3>1. x - 1 \in Nat /\ x - 1 < x  BY <2>3
    <3>2. PICK g : Sifts(g, seq, keep, x - 1)  BY <2>1, <3>1
    <3> DEFINE f == [n \in 0 .. x |-> SiftStep(g, seq, keep, n)]
    <3>3. \A n \in 0 .. x - 1 : g[n] = SiftStep(g, seq, keep, n)  BY <3>2 DEF Sifts
    <3>4. \A n \in 0 .. x - 1 : f[n] = g[n]  BY <3>3
    <3>5. ASSUME NEW n \in 0 .. x PROVE SiftStep(f, seq, keep, n) = SiftStep(g, seq, keep, n)
      <4>1. n = 0 \/ n - 1 \in 0 .. x - 1  OBVIOUS
      <4> HIDE DEF f
      <4> QED  BY <3>4, <4>1 DEF SiftStep
    <3>6. f = [n \in 0 .. x |-> SiftStep(f, seq, keep, n)]  BY <3>5
    <3>7. Sifts(f, seq, keep, x)
      <4> HIDE DEF f
      <4> QED  BY <3>6 DEF Sifts
    <3> QED  BY <3>7
  <2> QED  BY <2>2, <2>3
<1>2. CASE T = {}  BY <1>2
<1> QED  BY <1>1, <1>2

LEMMA SiftIsLast ==
  ASSUME NEW seq, NEW keep, Len(seq) \in Nat
  PROVE  \E f : Sifts(f, seq, keep, Len(seq)) /\ Sift(seq, keep) = f[Len(seq)]
<1> DEFINE f == CHOOSE g : Sifts(g, seq, keep, Len(seq))
<1>1. Sifts(f, seq, keep, Len(seq))  BY SiftExists
<1>2. Sift(seq, keep) = f[Len(seq)]  BY DEF Sift, Sifts, SiftStep
<1> QED  BY <1>1, <1>2
(* What upTo has sifted of the first n elements.                           *)
Sifted(g, seq, keep, S, n) ==
  /\ g \in Seq(S)
  /\ \A i \in 1 .. n : i \in keep => \E k \in DOMAIN g : g[k] = seq[i]
  /\ (\A i \in 1 .. n : i \in keep) => g = SubSeq(seq, 1, n)

LEMMA SiftedGrows ==
  ASSUME NEW S, NEW seq \in Seq(S), NEW keep, NEW n \in 1 .. Len(seq), NEW g,
         Sifted(g, seq, keep, S, n - 1)
  PROVE  /\ n \in keep => Sifted(Append(g, seq[n]), seq, keep, S, n)
         /\ n \notin keep => Sifted(g, seq, keep, S, n)
<1>1. Len(seq) \in Nat /\ DOMAIN seq = 1 .. Len(seq) /\ seq[n] \in S
  BY LenProperties, ElementOfSeq
<1>2. n - 1 \in Nat /\ (1 .. n) = (1 .. n - 1) \cup {n}  BY <1>1
<1>3. g \in Seq(S)  BY DEF Sifted
<1>4. CASE n \in keep
  <2> DEFINE longer == Append(g, seq[n])
  <2>1. /\ longer \in Seq(S) /\ DOMAIN g = 1 .. Len(g) /\ Len(g) \in Nat
        /\ DOMAIN longer = 1 .. Len(g) + 1 /\ longer[Len(g) + 1] = seq[n]
        /\ \A k \in 1 .. Len(g) : longer[k] = g[k]
    BY <1>1, <1>3, AppendProperties, LenProperties
  <2> HIDE DEF longer
  <2>2. ASSUME NEW i \in 1 .. n, i \in keep PROVE \E k \in DOMAIN longer : longer[k] = seq[i]
    <3>1. CASE i = n  BY <2>1, <3>1
    <3>2. CASE i \in 1 .. n - 1
      <4>1. PICK k \in DOMAIN g : g[k] = seq[i]  BY <2>2, <3>2 DEF Sifted
      <4>2. k \in DOMAIN longer /\ longer[k] = seq[i]  BY <2>1, <4>1
      <4> QED  BY <4>2
    <3> QED  BY <1>2, <3>1, <3>2
  <2>3. ASSUME \A i \in 1 .. n : i \in keep PROVE longer = SubSeq(seq, 1, n)
    <3>1. g = SubSeq(seq, 1, n - 1)  BY <1>2, <2>3 DEF Sifted
    <3>2. 1 \in 1 .. Len(seq) + 1 /\ n - 1 \in 0 .. Len(seq)  BY <1>1
    <3>3. Len(g) = n - 1 /\ \A k \in 1 .. n - 1 : g[k] = seq[k]
      BY <1>1, <1>2, <3>1
    <3>4. /\ SubSeq(seq, 1, n) \in Seq(S) /\ Len(SubSeq(seq, 1, n)) = n
          /\ \A k \in 1 .. n : SubSeq(seq, 1, n)[k] = seq[k]
      BY <1>1, <1>2
    <3>5. Len(longer) = n
      <4>1. DOMAIN longer = 1 .. Len(longer) /\ Len(longer) \in Nat  BY <2>1, LenProperties
      <4>2. Len(longer) = Len(g) + 1  BY <1>1, <1>3, AppendProperties DEF longer
      <4> QED  BY <1>2, <3>3, <4>2
    <3>6. \A k \in 1 .. n : longer[k] = SubSeq(seq, 1, n)[k]
      BY <1>2, <2>1, <3>3, <3>4
    <3> QED  BY <2>1, <3>4, <3>5, <3>6, SeqEqual
  <2> QED  BY <1>4, <2>1, <2>2, <2>3 DEF Sifted, longer
<1>5. CASE n \notin keep
  <2>1. n \in 1 .. n  BY <1>1
  <2> QED  BY <1>2, <1>5, <2>1 DEF Sifted
<1> QED  BY <1>4, <1>5

(* What is kept is there, and when all is kept nothing changes.            *)
LEMMA SiftIs ==
  ASSUME NEW S, NEW seq \in Seq(S), NEW keep
  PROVE  /\ Sift(seq, keep) \in Seq(S)
         /\ \A i \in DOMAIN seq : i \in keep =>
              \E k \in DOMAIN Sift(seq, keep) : Sift(seq, keep)[k] = seq[i]
         /\ DOMAIN seq \subseteq keep => Sift(seq, keep) = seq
<1>1. Len(seq) \in Nat /\ DOMAIN seq = 1 .. Len(seq)  BY LenProperties
<1>2. PICK f : Sifts(f, seq, keep, Len(seq)) /\ Sift(seq, keep) = f[Len(seq)]
  BY <1>1, SiftIsLast
<1> DEFINE m == Len(seq)
           T == {n \in 0 .. m : ~Sifted(f[n], seq, keep, S, n)}
<1>3. \A n \in 0 .. m : f[n] = SiftStep(f, seq, keep, n)  BY <1>2 DEF Sifts
<1>4. T = {}
  <2> SUFFICES ASSUME T # {} PROVE FALSE  OBVIOUS
  <2>1. T \in SUBSET Nat  BY <1>1
  <2>2. PICK x \in T : \A y \in T : ~(y < x)
    <3> HIDE DEF T
    <3> QED  BY <2>1, LeastExists
  <2>3. CASE x = 0
    <3>1. f[0] = <<>>  BY <1>1, <1>3 DEF SiftStep
    <3>2. SubSeq(seq, 1, 0) = <<>>  BY <1>1
    <3>3. Sifted(f[0], seq, keep, S, 0)  BY <3>1, <3>2 DEF Sifted
    <3> QED  BY <2>3, <3>3
  <2>4. CASE x # 0
    <3>1. x \in 1 .. m /\ x - 1 \in 0 .. m /\ x - 1 < x  BY <1>1, <2>4
    <3>2. Sifted(f[x - 1], seq, keep, S, x - 1)  BY <2>2, <3>1
    <3>3. f[x] = IF x \in keep THEN Append(f[x - 1], seq[x]) ELSE f[x - 1]
      BY <1>3, <2>4, <3>1 DEF SiftStep
    <3>4. Sifted(f[x], seq, keep, S, x)
      <4> HIDE DEF T
      <4> QED  BY <3>1, <3>2, <3>3, SiftedGrows
    <3> QED  BY <3>4
  <2> QED  BY <2>3, <2>4
<1>5. Sifted(f[m], seq, keep, S, m)  BY <1>1, <1>4
<1>6. SubSeq(seq, 1, m) = seq  BY <1>1
<1> QED  BY <1>1, <1>2, <1>5, <1>6 DEF Sifted

-----------------------------------------------------------------------------
(* The order of a dropped card is a number.                                *)

LEMMA OrdersTyped ==
  ASSUME NEW tasks \in Seq(CardLines) PROVE \A i \in DOMAIN tasks : tasks[i].order \in Int
<1>1. \A i \in DOMAIN tasks : tasks[i] \in CardLines  BY LenProperties, ElementOfSeq
<1>2. \A c \in CardLines : c.order \in Int  BY DEF CardLines
<1> QED  BY <1>1, <1>2

(* Cards, by order and then by place in the file, are in a line.           *)
LEMMA LastInExists ==
  ASSUME NEW tasks \in Seq(CardLines), NEW set \in SUBSET DOMAIN tasks, set # {}
  PROVE  LastIn(tasks, set) \in set
<1> DEFINE HasLast(s) == \E i \in s : \A k \in s \ {i} : Precedes(tasks, k, i)
           T == {m \in 0 .. Len(tasks) : \E s \in SUBSET (1 .. m) : s # {} /\ ~HasLast(s)}
<1>1. Len(tasks) \in Nat /\ DOMAIN tasks = 1 .. Len(tasks)  BY LenProperties
<1>2. \A i \in DOMAIN tasks : tasks[i].order \in Int  BY OrdersTyped
<1>3. T = {}
  <2> SUFFICES ASSUME T # {} PROVE FALSE  OBVIOUS
  <2>1. T \in SUBSET Nat  BY <1>1
  <2>2. PICK x \in T : \A y \in T : ~(y < x)
    <3> HIDE DEF T
    <3> QED  BY <2>1, LeastExists
  <2>3. PICK s \in SUBSET (1 .. x) : s # {} /\ ~HasLast(s)  OBVIOUS
  <2>4. x # 0
    <3> SUFFICES ASSUME x = 0 PROVE FALSE  OBVIOUS
    <3>1. 1 .. x = {}  OBVIOUS
    <3> QED  BY <2>3, <3>1
  <2>5. x \in 1 .. Len(tasks) /\ x - 1 \in 0 .. Len(tasks) /\ x - 1 < x  BY <1>1, <2>4
  <2>6. \A r \in SUBSET (1 .. x - 1) : r # {} => HasLast(r)
    <3> HIDE DEF HasLast
    <3> QED  BY <2>2, <2>5
  <2>7. (1 .. x) = (1 .. x - 1) \cup {x}  BY <2>5
  <2>8. s \ {x} \in SUBSET (1 .. x - 1)  BY <2>7
  <2>9. x \in s
    <3> HIDE DEF HasLast, T
    <3> QED  BY <2>3, <2>6, <2>8
  <2>10. s \ {x} # {}
    <3> SUFFICES ASSUME s \ {x} = {} PROVE HasLast(s)  BY <2>3
    <3> QED  BY <2>9
  <2>11. PICK i \in s \ {x} : \A k \in (s \ {x}) \ {i} : Precedes(tasks, k, i)
    BY <2>6, <2>8, <2>10
  <2>12. s \subseteq DOMAIN tasks  BY <1>1, <2>3, <2>5
  <2>13. CASE Precedes(tasks, x, i)
    <3>1. HasLast(s)  BY <2>11, <2>13
    <3> QED  BY <2>3, <3>1
  <2>14. CASE ~Precedes(tasks, x, i)
    <3>1. i \in Int /\ x \in Int /\ i # x /\ tasks[i].order \in Int /\ tasks[x].order \in Int
      BY <1>1, <1>2, <2>5, <2>9, <2>11, <2>12
    <3>2. Precedes(tasks, i, x)  BY <2>14, <3>1, <2>5, <2>11, <2>7 DEF Precedes
    <3>3. ASSUME NEW k \in s \ {x} PROVE Precedes(tasks, k, x)
      <4>1. CASE k = i  BY <3>2, <4>1
      <4>2. CASE k # i
        <5>1. Precedes(tasks, k, i)  BY <2>11, <4>2
        <5>2. k \in Int /\ tasks[k].order \in Int  BY <1>1, <1>2, <2>12
        <5> QED  BY <3>1, <3>2, <5>1, <5>2 DEF Precedes
      <4> QED  BY <4>1, <4>2
    <3>4. HasLast(s)  BY <2>9, <3>3
    <3> QED  BY <2>3, <3>4
  <2> QED  BY <2>13, <2>14
<1>4. HasLast(set)
  <2>1. Len(tasks) \in 0 .. Len(tasks) /\ set \in SUBSET (1 .. Len(tasks))  BY <1>1
  <2> HIDE DEF HasLast
  <2> QED  BY <1>3, <2>1
<1> QED  BY <1>4 DEF LastIn

LEMMA DropOrderTyped ==
  ASSUME NEW tasks \in Seq(CardLines), NEW id, NEW col, NEW before
  PROVE  DropOrder(tasks, id, col, before) \in Int
<1> DEFINE dest == ColumnOf(tasks, id, col)
           onto == {i \in dest : tasks[i].id = before}
           above(i) == {k \in dest : Precedes(tasks, k, i)}
           half(i) == LET prev == tasks[LastIn(tasks, above(i))].order
                      IN  IF above(i) = {} THEN tasks[i].order - 1
                                           ELSE prev + (tasks[i].order - prev) \div 2
<1>1. Len(tasks) \in Nat /\ DOMAIN tasks = 1 .. Len(tasks)  BY LenProperties
<1>2. \A i \in DOMAIN tasks : tasks[i].order \in Int  BY OrdersTyped
<1>3. dest \in SUBSET DOMAIN tasks /\ onto \subseteq dest /\ \A i : above(i) \in SUBSET DOMAIN tasks
  BY DEF ColumnOf
<1>4. dest # {} => tasks[LastIn(tasks, dest)].order \in Int
  <2> HIDE DEF dest
  <2> QED  BY <1>2, <1>3, LastInExists
<1>5. ASSUME NEW i \in onto PROVE half(i) \in Int
  <2>1. tasks[i].order \in Int  BY <1>2, <1>3
  <2>2. above(i) # {} => tasks[LastIn(tasks, above(i))].order \in Int
    <3> DEFINE a == above(i)
    <3>1. a \in SUBSET DOMAIN tasks  BY <1>3
    <3> HIDE DEF a
    <3>2. a # {} => tasks[LastIn(tasks, a)].order \in Int  BY <1>2, <3>1, LastInExists
    <3> QED  BY <3>2 DEF a
  <2>3. CASE above(i) = {}  BY <2>1, <2>3
  <2>4. CASE above(i) # {}
    <3> DEFINE prev == tasks[LastIn(tasks, above(i))].order
               own == tasks[i].order
    <3>1. prev \in Int /\ own \in Int  BY <2>1, <2>2, <2>4
    <3>2. half(i) = prev + (own - prev) \div 2  BY <2>4
    <3> HIDE DEF prev, own
    <3> QED  BY <3>1, <3>2
  <2> QED  BY <2>3, <2>4
<1>6. CASE dest = {}  BY <1>6 DEF DropOrder
<1>7. CASE dest # {} /\ onto = {}
  <2>1. DropOrder(tasks, id, col, before) = tasks[LastIn(tasks, dest)].order + 1
    BY <1>7 DEF DropOrder
  <2> QED  BY <1>4, <1>7, <2>1
<1>8. CASE dest # {} /\ onto # {}
  <2>1. DropOrder(tasks, id, col, before) = half(CHOOSE k \in onto : TRUE)
    BY <1>8 DEF DropOrder
  <2>2. (CHOOSE k \in onto : TRUE) \in onto  BY <1>8
  <2> HIDE DEF half, onto
  <2> QED  BY <1>5, <2>1, <2>2
<1> QED  BY <1>6, <1>7, <1>8
-----------------------------------------------------------------------------
(* What a step does to the cards: nothing, or one rewrite by which a card  *)
(* keeps its id or goes because it was deleted, if the file could be read. *)
Held(id, file) == \E k \in DOMAIN file : file[k].id = id

Rewrites(file) ==
  /\ cards' = file /\ rewrites < MaxRewrites /\ rewrites' = rewrites + 1
  /\ legible' = legible /\ file \in Seq(CardLines)

KeepsIds(file) == legible => \A i \in DOMAIN cards : Held(cards[i].id, file)

LEMMA TasksTyped ==
  CardsTypeOK => Parsed \in Seq(CardLines) /\ \A tasks \in ReadTasks : tasks \in Seq(CardLines)
<1>1. CardsTypeOK => Parsed \in Seq(CardLines)  BY SiftIs DEF CardsTypeOK, Parsed
<1> QED  BY <1>1, EmptySeq DEF ReadTasks

(* write_tasks is let through only when the read has dropped no line.      *)
LEMMA WriteReadsAll ==
  ASSUME CardsTypeOK, legible, NEW set, WriteTasks(set), NEW tasks \in ReadTasks
  PROVE  tasks = cards /\ \A i \in DOMAIN cards : cards[i].parses
<1>1. \A i \in DOMAIN cards : cards[i].parses  BY DEF WriteTasks
<1>2. DOMAIN cards \subseteq {i \in DOMAIN cards : cards[i].parses}  BY <1>1
<1>3. cards \in Seq(CardLines)  BY DEF CardsTypeOK
<1>4. Parsed = cards  BY <1>1, <1>2, <1>3, SiftIs DEF Parsed
<1>5. tasks = Parsed  BY DEF ReadTasks
<1> QED  BY <1>1, <1>4, <1>5

LEMMA UpsertKeepsIds ==
  ASSUME CardsTypeOK, NEW card \in CardLines, UpsertTask(card)
  PROVE  \E file : Rewrites(file) /\ KeepsIds(file)
<1>1. PICK tasks \in ReadTasks :
        IF \E i \in DOMAIN tasks : tasks[i].id = card.id
          THEN WriteTasks([i \in DOMAIN tasks |-> IF tasks[i].id = card.id THEN card ELSE tasks[i]])
          ELSE WriteTasks(Append(tasks, card))
  BY DEF UpsertTask
<1> DEFINE replaced == [i \in DOMAIN tasks |-> IF tasks[i].id = card.id THEN card ELSE tasks[i]]
           longer == Append(tasks, card)
<1>2. /\ tasks \in Seq(CardLines) /\ DOMAIN tasks = 1 .. Len(tasks) /\ Len(tasks) \in Nat
      /\ \A i \in DOMAIN tasks : tasks[i] \in CardLines
  BY TasksTyped, LenProperties, ElementOfSeq
<1>3. ASSUME NEW file, WriteTasks(file), file \in Seq(CardLines),
             \A i \in DOMAIN tasks : Held(tasks[i].id, file)
      PROVE  Rewrites(file) /\ KeepsIds(file)
  <2>1. legible => tasks = cards  BY <1>3, WriteReadsAll
  <2>2. KeepsIds(file)  BY <1>3, <2>1 DEF KeepsIds
  <2>3. Rewrites(file)  BY <1>3 DEF Rewrites, WriteTasks
  <2> QED  BY <2>2, <2>3
<1>4. CASE \E i \in DOMAIN tasks : tasks[i].id = card.id
  <2>1. replaced \in Seq(CardLines)  BY <1>2
  <2>2. DOMAIN replaced = DOMAIN tasks  OBVIOUS
  <2>3. \A i \in DOMAIN tasks : replaced[i].id = tasks[i].id  OBVIOUS
  <2>4. WriteTasks(replaced)  BY <1>1, <1>4
  <2> HIDE DEF replaced
  <2>5. \A i \in DOMAIN tasks : Held(tasks[i].id, replaced)  BY <2>2, <2>3 DEF Held
  <2> QED  BY <1>3, <2>1, <2>4, <2>5
<1>5. CASE ~ \E i \in DOMAIN tasks : tasks[i].id = card.id
  <2>1. /\ longer \in Seq(CardLines) /\ DOMAIN longer = 1 .. Len(tasks) + 1
        /\ \A i \in 1 .. Len(tasks) : longer[i] = tasks[i]
    BY <1>2, AppendProperties
  <2>2. \A i \in DOMAIN tasks : i \in DOMAIN longer /\ longer[i].id = tasks[i].id
    BY <1>2, <2>1
  <2>3. WriteTasks(longer)  BY <1>1, <1>5
  <2> HIDE DEF longer
  <2>4. \A i \in DOMAIN tasks : Held(tasks[i].id, longer)  BY <2>2 DEF Held
  <2> QED  BY <1>3, <2>1, <2>3, <2>4
<1> QED  BY <1>4, <1>5

LEMMA DeleteKeepsOthers ==
  ASSUME CardsTypeOK, NEW id, DeleteCard(id)
  PROVE  \E file : /\ Rewrites(file)
                   /\ legible => \A i \in DOMAIN cards :
                        Held(cards[i].id, file) \/ (cards[i].parses /\ cards[i].id = id)
<1>1. PICK tasks \in ReadTasks : WriteTasks(Sift(tasks, {i \in DOMAIN tasks : tasks[i].id # id}))
  BY DEF DeleteCard
<1> DEFINE keep == {i \in DOMAIN tasks : tasks[i].id # id}
           file == Sift(tasks, keep)
<1>2. WriteTasks(file)  BY <1>1
<1>3. tasks \in Seq(CardLines)  BY TasksTyped
<1>4. /\ file \in Seq(CardLines)
      /\ \A i \in DOMAIN tasks : i \in keep => \E k \in DOMAIN file : file[k] = tasks[i]
  <2> HIDE DEF keep
  <2> QED  BY <1>3, SiftIs
<1>5. \A i \in DOMAIN tasks : tasks[i].id # id => i \in keep  OBVIOUS
<1>6. Rewrites(file)  BY <1>2, <1>4 DEF Rewrites, WriteTasks
<1> HIDE DEF file, keep
<1>7. \A i \in DOMAIN tasks : tasks[i].id # id => Held(tasks[i].id, file)
  BY <1>4, <1>5 DEF Held
<1>8. legible => tasks = cards /\ \A i \in DOMAIN cards : cards[i].parses
  BY <1>2, WriteReadsAll
<1> QED  BY <1>6, <1>7, <1>8

LEMMA DamageKeepsIds ==
  ASSUME CardsTypeOK, NEW i \in DOMAIN cards, DamageCard(i)
  PROVE  \E file : Rewrites(file) /\ KeepsIds(file)
<1> DEFINE file == [cards EXCEPT ![i].parses = FALSE]
<1>1. /\ cards \in Seq(CardLines) /\ DOMAIN cards = 1 .. Len(cards) /\ Len(cards) \in Nat
      /\ \A k \in DOMAIN cards : cards[k] \in CardLines
  BY LenProperties, ElementOfSeq DEF CardsTypeOK
<1>2. /\ DOMAIN file = DOMAIN cards
      /\ \A k \in DOMAIN cards :
           file[k] = IF k = i THEN [cards[k] EXCEPT !.parses = FALSE] ELSE cards[k]
  OBVIOUS
<1>3. \A c \in CardLines : LET d == [c EXCEPT !.parses = FALSE] IN d \in CardLines /\ d.id = c.id
  BY DEF CardLines
<1>4. \A k \in DOMAIN cards : file[k] \in CardLines /\ file[k].id = cards[k].id
  <2> HIDE DEF file
  <2> QED  BY <1>1, <1>2, <1>3
<1>5. file \in Seq(CardLines)
  <2>1. file = [k \in 1 .. Len(cards) |-> file[k]]  BY <1>1
  <2> HIDE DEF file
  <2> QED  BY <1>1, <1>4, <2>1
<1>6. Rewrites(file)  BY <1>5 DEF Rewrites, DamageCard
<1> HIDE DEF file
<1>7. KeepsIds(file)  BY <1>2, <1>4 DEF KeepsIds, Held
<1> QED  BY <1>6, <1>7

(* The steps that rewrite the cards and delete none, and those that delete.*)
LEMMA CardSteps ==
  ASSUME CardsTypeOK, CardStep
  PROVE  \/ \E file : Rewrites(file) /\ KeepsIds(file)
         \/ \E id \in CardIds : DeleteCard(id)
         \/ ReadsTurn
<1>1. \A id \in CardIds, col \in Columns, ord \in Int : Card(id, col, ord) \in CardLines
  BY DEF Card, CardLines
<1>2. \A i \in DOMAIN cards : cards[i].order \in Int  BY OrdersTyped DEF CardsTypeOK
<1>3. Orders \subseteq Int  BY BoardAssumption
<1>4. ASSUME NEW id \in CardIds, NEW col \in Columns, NEW ord \in Orders, CreateCard(id, col, ord)
      PROVE  \E file : Rewrites(file) /\ KeepsIds(file)
  BY <1>1, <1>3, <1>4, UpsertKeepsIds DEF CreateCard
<1>5. ASSUME NEW id \in CardIds, NEW col \in Columns,
             NEW ord \in Orders \cup {cards[i].order : i \in DOMAIN cards}, UpdateCard(id, col, ord)
      PROVE  \E file : Rewrites(file) /\ KeepsIds(file)
  <2>1. ord \in Int  BY <1>2, <1>3
  <2>2. UpsertTask(Card(id, col, ord))  BY <1>5 DEF UpdateCard
  <2> QED  BY <1>1, <2>1, <2>2, UpsertKeepsIds
<1>6. ASSUME NEW id \in CardIds, NEW col \in Columns, NEW before \in CardIds \cup {NoTask},
             ReorderCard(id, col, before)
      PROVE  \E file : Rewrites(file) /\ KeepsIds(file)
  <2>1. DropOrder(Parsed, id, col, before) \in Int  BY TasksTyped, DropOrderTyped
  <2>2. UpsertTask(Card(id, col, DropOrder(Parsed, id, col, before)))
    BY <1>6 DEF ReorderCard
  <2> QED  BY <1>1, <2>1, <2>2, UpsertKeepsIds
<1> QED  BY <1>4, <1>5, <1>6, DamageKeepsIds DEF CardStep

LEMMA OthersLeaveCards ==
  ASSUME NEW s, NEW p, SidecarStep(s) \/ PollStep(p) PROVE UNCHANGED cardvars
BY DEF SidecarStep, CreateRead, CreateAppend, LockLog, TransitionRead, TransitionAppend, CallEnds,
       PollStep, StatLog, StatStore, LookUp, ParseLog, Refresh, Shown, cardvars

LEMMA RewriteTyped ==
  ASSUME CardsTypeOK, NEW file, Rewrites(file) PROVE CardsTypeOK'
<1>1. rewrites \in 0 .. MaxRewrites /\ MaxRewrites \in Nat
  BY BoardAssumption DEF CardsTypeOK
<1> QED  BY <1>1 DEF Rewrites, CardsTypeOK

LEMMA StepKeepsCards ==
  ASSUME CardsTypeOK, [BoardNext]_boardvars PROVE CardsTypeOK'
<1>1. CASE CardStep
  <2>1. CASE ReadsTurn
    <3>1. legible' \in BOOLEAN  BY <2>1, Zenon DEF ReadsTurn
    <3> QED  BY <2>1, <3>1 DEF ReadsTurn, CardsTypeOK
  <2> QED  BY <1>1, <2>1, CardSteps, DeleteKeepsOthers, RewriteTyped
<1>2. CASE ~CardStep
  <2>1. UNCHANGED cardvars
    BY <1>2, OthersLeaveCards DEF BoardNext, boardvars
  <2> QED  BY <2>1 DEF CardsTypeOK, cardvars
<1> QED  BY <1>1, <1>2

LEMMA CardsBegin == BoardInit => CardsTypeOK
BY BoardAssumption, EmptySeq DEF BoardInit, CardsTypeOK

(* What NoCardErased says of a step.                                       *)
Erases ==
  ~ (legible => \A i \in DOMAIN cards :
       \/ \E k \in DOMAIN cards' : cards'[k].id = cards[i].id
       \/ cards[i].parses /\ DeleteCard(cards[i].id))

LEMMA StepErasesNone ==
  ASSUME CardsTypeOK, [BoardNext]_boardvars PROVE ~Erases
<1>1. ASSUME NEW file, Rewrites(file), KeepsIds(file) PROVE ~Erases
  BY <1>1 DEF Rewrites, KeepsIds, Held, Erases
<1>2. ASSUME NEW id \in CardIds, DeleteCard(id) PROVE ~Erases
  <2>1. PICK file : /\ Rewrites(file)
                    /\ legible => \A i \in DOMAIN cards :
                         Held(cards[i].id, file) \/ (cards[i].parses /\ cards[i].id = id)
    BY <1>2, DeleteKeepsOthers
  <2>2. cards' = file  BY <2>1 DEF Rewrites
  <2>3. ASSUME legible, NEW i \in DOMAIN cards
        PROVE  \/ \E k \in DOMAIN cards' : cards'[k].id = cards[i].id
               \/ cards[i].parses /\ DeleteCard(cards[i].id)
    <3>1. CASE Held(cards[i].id, file)  BY <2>2, <3>1 DEF Held
    <3>2. CASE cards[i].parses /\ cards[i].id = id
      <4>1. DeleteCard(cards[i].id)  BY <1>2, <3>2
      <4> QED  BY <3>2, <4>1
    <3> QED  BY <2>1, <2>3, <3>1, <3>2
  <2> QED  BY <2>3 DEF Erases
<1>3. CASE UNCHANGED cards  BY <1>3 DEF Erases
<1>4. CASE CardStep
  <2>1. ReadsTurn => UNCHANGED cards  BY DEF ReadsTurn
  <2> QED  BY <1>1, <1>2, <1>3, <1>4, <2>1, CardSteps
<1>5. CASE ~CardStep
  <2>1. UNCHANGED cardvars
    BY <1>5, OthersLeaveCards DEF BoardNext, boardvars
  <2> QED  BY <1>3, <2>1 DEF cardvars
<1> QED  BY <1>4, <1>5

LEMMA CardsTyped == BoardSpec => []CardsTypeOK
<1>1. CardsTypeOK /\ [BoardNext]_boardvars => CardsTypeOK'  BY StepKeepsCards
<1> QED  BY CardsBegin, <1>1, PTL DEF BoardSpec

(* The log holds transitions, the file of cards cards, whatever the        *)
(* sidecars write and the board's commands create, move and damage: the    *)
(* order reorder_task_kanban computes is always a number.                  *)
THEOREM BoardTypesHold == BoardSpec => []BoardTypeOK
<1>1. BoardLogInv /\ CardsTypeOK /\ BoardPollInv => BoardTypeOK
  BY DEF BoardLogInv, BoardPollInv, BoardTypeOK
<1> QED  BY <1>1, BoardLogInvHolds, CardsTyped, PollInvHolds, PTL

(* While the card file can be read, no command but delete_task_kanban      *)
(* erases a card: the guard of write_tasks, which counts the lines that do *)
(* not parse (core/task), refuses every rewrite that would have dropped a  *)
(* line.  A read that fails is the exception NoCardErased states.          *)
THEOREM CardsSurvive == BoardSpec => NoCardErased
<1>1. CardsTypeOK /\ [BoardNext]_boardvars =>
        [legible => \A i \in DOMAIN cards :
           \/ \E k \in DOMAIN cards' : cards'[k].id = cards[i].id
           \/ cards[i].parses /\ DeleteCard(cards[i].id)]_boardvars
  BY StepErasesNone DEF Erases
<1> QED  BY <1>1, CardsTyped, PTL DEF BoardSpec, NoCardErased
-----------------------------------------------------------------------------
(* The app's socket.                                                       *)

Busy == {c \in Clients : conn[c].step = "busy"}

RefusesOne ==
  /\ refusing = Busy
  /\ \A b, d \in refusing : b = d

SlotInv == SocketTypeOK /\ RefusesOne /\ SlotsHonest

\* What is known of one operation k and the lines n it put across.
Crossing(k, n) ==
  /\ \A w \in Spaces : n[w] <= 1
  /\ k.step \in HandlerSteps \ {"check", "land"} => \A w \in Spaces : n[w] = 0
  /\ k.step \in {"check", "land"} =>
       \A w \in Spaces : n[w] = 1 => ~AuthorizeCross(k.ws, w)
  /\ k.step = "land" => \E p \in Grid : k.at = {p} /\ n[SpaceOf(p)] = 0

Crossings == \A c \in Clients : Crossing(conn[c], crossed[c])

SocketInv == SlotInv /\ Crossings

Serving == HandlerSteps \cup {"served", "answered"}

\* A step of the handler of c: the slots and the other connections stay.
Serves(c) ==
  /\ conn[c].step \in Serving /\ conn'[c].step \in Serving
  /\ UNCHANGED hostvars

OnlyMoves(c) ==
  /\ conn' \in [Clients -> ConnType]
  /\ \A d \in Clients \ {c} : conn'[d] = conn[d]

-----------------------------------------------------------------------------
(* What a step does to its connection. *)

LEMMA AbsentTyped ==
  /\ Absent \in ConnType /\ Absent.step = "away"
  /\ [Absent EXCEPT !.step = "answered"] \in ConnType
  /\ [Absent EXCEPT !.step = "answered"].step = "answered"
  BY DEF Absent, ConnType, HandlerSteps

LEMMA NowMoves ==
  ASSUME SocketTypeOK, NEW c \in Clients, NEW k \in ConnType, Now(c, k)
  PROVE  OnlyMoves(c) /\ conn'[c] = k
  BY DEF SocketTypeOK, OnlyMoves, Now

LEMMA ReplyMoves ==
  ASSUME SocketTypeOK, NEW c \in Clients, Reply(c)
  PROVE  OnlyMoves(c) /\ conn'[c].step = "answered"
  BY NowMoves, AbsentTyped DEF Reply

LEMMA GoMoves ==
  ASSUME SocketTypeOK, NEW c \in Clients,
         NEW step \in {"dialled", "busy", "served", "split"}, Go(c, step)
  PROVE  /\ OnlyMoves(c) /\ conn'[c].step = step
         /\ conn'[c] = [conn[c] EXCEPT !.step = step]
  <1> DEFINE k == [conn[c] EXCEPT !.step = step]
  <1>1. k \in ConnType /\ k.step = step  BY DEF SocketTypeOK, ConnType, HandlerSteps
  <1>2. QED  BY <1>1, NowMoves DEF Go

LEMMA SpaceTyped == \A p \in Grid : SpaceOf(p) \in Spaces
  BY DEF Spaces

LEMMA RequestMoves ==
  ASSUME SocketTypeOK, NEW c \in Clients, NEW op \in ExternalOps \cup {"handoff"}, NEW role,
         NEW ws \in Spaces \cup {NoSpace}, Request(c, op, role, ws)
  PROVE  /\ OnlyMoves(c) /\ Serves(c)
         /\ conn'[c].step \in HandlerSteps \ {"land"}
  <1>1. PICK todo \in Named(op) :
          Now(c, [Absent EXCEPT !.step = FirstStep(op), !.op = op, !.ws = ws, !.todo = todo])
    BY DEF Request
  <1>2. todo \in SUBSET Grid  BY DEF Named
  <1>3. FirstStep(op) \in {"check", "ends", "registry", "panes"}  BY DEF FirstStep
  <1> DEFINE k == [Absent EXCEPT !.step = FirstStep(op), !.op = op, !.ws = ws, !.todo = todo]
  <1>4. k \in ConnType /\ k.step = FirstStep(op)
    BY <1>2, <1>3 DEF Absent, ConnType, HandlerSteps
  <1>5. Now(c, k)  BY <1>1
  <1> HIDE DEF k
  <1>6. OnlyMoves(c) /\ conn'[c] = k  BY <1>4, <1>5, NowMoves
  <1>7. QED
    BY <1>3, <1>4, <1>6 DEF Serves, Serving, HandlerSteps, Request, OnStep, hostvars

LEMMA ScopeMoves ==
  ASSUME SocketTypeOK, NEW c \in Clients,
         \/ HandoffEnds(c) \/ BroadcastRegistry(c) \/ BroadcastAuthority(c)
         \/ \E target \in Spaces \cup {NoSpace} : OrchestratePanes(c, target)
         \/ OrchestrateShare(c) \/ OrchestrateSplit(c)
  PROVE  /\ OnlyMoves(c) /\ Serves(c)
         /\ conn[c].step \in HandlerSteps \ {"check", "land"}
         /\ conn'[c].step \in (HandlerSteps \ {"land"}) \cup {"answered"}
  <1> USE DEF Serves, Serving, HandlerSteps, OnStep, Quiet
  <1>0. conn[c] \in ConnType  BY DEF SocketTypeOK
  <1>1. CASE HandoffEnds(c)
    <2>1. CASE Reply(c)  BY <1>1, <2>1, ReplyMoves DEF HandoffEnds
    <2>2. CASE ~Reply(c)
      <3>1. PICK to \in conn[c].todo : Now(c, [conn[c] EXCEPT !.step = "check", !.todo = {to}])
        BY <1>1, <2>2 DEF HandoffEnds
      <3>2. [conn[c] EXCEPT !.step = "check", !.todo = {to}] \in ConnType
        BY <1>0 DEF ConnType
      <3>3. QED  BY <1>0, <1>1, <3>1, <3>2, NowMoves DEF HandoffEnds, ConnType
    <2>3. QED  BY <2>1, <2>2
  <1>2. CASE BroadcastRegistry(c)
    <2>1. [conn[c] EXCEPT !.step = "authority", !.shares = Shared] \in ConnType
      BY <1>0 DEF ConnType, Shared
    <2>2. QED  BY <1>0, <1>2, <2>1, NowMoves DEF BroadcastRegistry, ConnType
  <1>3. CASE BroadcastAuthority(c)
    <2>1. [conn[c] EXCEPT !.step = "check", !.todo = AuthoritySet(conn[c])] \in ConnType
      BY <1>0 DEF ConnType, AuthoritySet, LivePanes
    <2>2. CASE Reply(c)  BY <1>3, <2>2, ReplyMoves DEF BroadcastAuthority
    <2>3. CASE ~Reply(c)
      BY <1>0, <1>3, <2>1, <2>3, NowMoves DEF BroadcastAuthority, ConnType
    <2>4. QED  BY <2>2, <2>3
  <1>4. CASE \E target \in Spaces \cup {NoSpace} : OrchestratePanes(c, target)
    <2>1. PICK target \in Spaces \cup {NoSpace} : OrchestratePanes(c, target)  BY <1>4
    <2> DEFINE step == IF conn[c].ws = NoSpace THEN "share" ELSE "split"
               k == [conn[c] EXCEPT !.step = step,
                                    !.ws = IF target = NoSpace THEN @ ELSE target,
                                    !.todo = LivePanes]
    <2>2. k \in ConnType /\ k.step \in {"share", "split"}
      BY <1>0 DEF ConnType, LivePanes
    <2>3. CASE Reply(c)  BY <2>1, <2>3, ReplyMoves DEF OrchestratePanes
    <2>4. CASE ~Reply(c)
      <3>1. Now(c, k)  BY <2>1, <2>4 DEF OrchestratePanes
      <3> HIDE DEF k
      <3>2. QED  BY <2>1, <2>2, <3>1, NowMoves DEF OrchestratePanes
    <2>5. QED  BY <2>3, <2>4
  <1>5. CASE OrchestrateShare(c)
    BY <1>5, ReplyMoves, GoMoves DEF OrchestrateShare
  <1>6. CASE OrchestrateSplit(c)
    <2>1. CASE Reply(c)  BY <1>6, <2>1, ReplyMoves DEF OrchestrateSplit
    <2>2. CASE ~Reply(c)
      <3>1. PICK tasks \in SUBSET conn[c].todo :
              Now(c, [conn[c] EXCEPT !.step = "check", !.todo = tasks])
        BY <1>6, <2>2 DEF OrchestrateSplit
      <3>2. [conn[c] EXCEPT !.step = "check", !.todo = tasks] \in ConnType
        BY <1>0 DEF ConnType
      <3>3. QED  BY <1>0, <1>6, <3>1, <3>2, NowMoves DEF OrchestrateSplit, ConnType
    <2>3. QED  BY <2>1, <2>2
  <1>7. QED  BY <1>1, <1>2, <1>3, <1>4, <1>5, <1>6

LEMMA CheckMoves ==
  ASSUME SocketTypeOK, NEW c \in Clients, NEW p \in Grid, CheckWrite(c, p)
  PROVE  /\ OnlyMoves(c) /\ Serves(c) /\ conn'[c].ws = conn[c].ws
         /\ \/ conn'[c].step = "check"
            \/ /\ AuthorizeCross(conn[c].ws, SpaceOf(p))
               /\ conn'[c].step = "land" /\ conn'[c].at = {p}
  <1>0. conn[c] \in ConnType  BY DEF SocketTypeOK
  <1> DEFINE passed == [conn[c] EXCEPT !.step = "land", !.todo = @ \ {p}, !.at = {p}]
             refused == [conn[c] EXCEPT !.todo = @ \ {p}]
  <1>1. passed \in ConnType /\ passed.step = "land" /\ passed.at = {p} /\ passed.ws = conn[c].ws
    BY <1>0 DEF ConnType, HandlerSteps
  <1>2. refused \in ConnType /\ refused.step = conn[c].step /\ refused.ws = conn[c].ws
    BY <1>0 DEF ConnType
  <1>3. conn[c].step = "check" /\ UNCHANGED hostvars  BY DEF CheckWrite, OnStep, Quiet
  <1>4. CASE GateWrite(conn[c].op, conn[c].ws, p)
    <2>1. Now(c, passed)  BY <1>4 DEF CheckWrite
    <2> HIDE DEF passed
    <2>2. QED
      BY <1>1, <1>3, <1>4, <2>1, NowMoves DEF Serves, Serving, HandlerSteps, GateWrite
  <1>5. CASE ~GateWrite(conn[c].op, conn[c].ws, p)
    <2>1. Now(c, refused)  BY <1>5 DEF CheckWrite
    <2> HIDE DEF refused
    <2>2. QED
      BY <1>2, <1>3, <2>1, NowMoves DEF Serves, Serving, HandlerSteps
  <1>6. QED  BY <1>4, <1>5

LEMMA LandMoves ==
  ASSUME SocketTypeOK, NEW c \in Clients, LandLine(c)
  PROVE  /\ OnlyMoves(c) /\ Serves(c) /\ conn'[c].ws = conn[c].ws
         /\ conn'[c].step = "check"
  <1>0. conn[c] \in ConnType  BY DEF SocketTypeOK
  <1> DEFINE k == [conn[c] EXCEPT !.step = "check", !.at = {}]
  <1>1. k \in ConnType /\ k.step = "check" /\ k.ws = conn[c].ws
    BY <1>0 DEF ConnType, HandlerSteps
  <1>2. Now(c, k) /\ conn[c].step = "land" /\ UNCHANGED hostvars
    BY DEF LandLine, OnStep
  <1> HIDE DEF k
  <1>3. QED  BY <1>1, <1>2, NowMoves DEF Serves, Serving, HandlerSteps

LEMMA EndMoves ==
  ASSUME SocketTypeOK, NEW c \in Clients,
         HandlerPanics(c) \/ RefuseRequest(c) \/ FanOutEnds(c)
  PROVE  OnlyMoves(c) /\ Serves(c) /\ conn'[c].step = "answered"
  BY ReplyMoves DEF HandlerPanics, RefuseRequest, FanOutEnds, OnStep, Quiet, Serves, Serving,
                    HandlerSteps

\* Any step of the handler.
HandlerStep(c) ==
  \/ HandlerPanics(c) \/ RefuseRequest(c) \/ FanOutEnds(c)
  \/ \E op \in ExternalOps \cup {"handoff"}, role \in {"coordinator", "external"},
        ws \in Spaces \cup {NoSpace} : Request(c, op, role, ws)
  \/ HandoffEnds(c) \/ BroadcastRegistry(c) \/ BroadcastAuthority(c)
  \/ \E target \in Spaces \cup {NoSpace} : OrchestratePanes(c, target)
  \/ OrchestrateShare(c) \/ OrchestrateSplit(c)
  \/ \E p \in Grid : CheckWrite(c, p)
  \/ LandLine(c)

LEMMA HandlerMoves ==
  ASSUME SocketTypeOK, NEW c \in Clients, HandlerStep(c)
  PROVE  OnlyMoves(c) /\ Serves(c)
  BY EndMoves, RequestMoves, ScopeMoves, CheckMoves, LandMoves DEF HandlerStep

LEMMA ConnSteps ==
  ASSUME NEW c, ConnStep(c)
  PROVE  DialSocket(c) \/ AcceptConn(c) \/ RefuseBusy(c) \/ EndConn(c) \/ HandlerStep(c)
  BY DEF ConnStep, HandlerStep

\* The variables of policy, and what crossed, over a step of the handler.
LEMMA HandlerKeeps ==
  ASSUME SocketTypeOK, NEW c \in Clients, HandlerStep(c)
  PROVE  /\ UNCHANGED <<policyvars, dials>>
         /\ \A d \in Clients \ {c} : crossed'[d] = crossed[d]
         /\ crossed' \in [Clients -> [Spaces -> Nat]]
  <1> USE DEF Quiet, policyvars
  <1>1. CASE UNCHANGED <<policyvars, dials, crossed>>  BY <1>1 DEF SocketTypeOK
  <1>2. CASE \E op \in ExternalOps \cup {"handoff"}, role \in {"coordinator", "external"},
               ws \in Spaces \cup {NoSpace} : Request(c, op, role, ws)
    BY <1>2 DEF SocketTypeOK, Request
  <1>3. CASE LandLine(c)
    <2>1. PICK p \in conn[c].at :
            crossed' = IF grid[p] = "live" /\ ~AuthorizeCross(conn[c].ws, SpaceOf(p))
                         THEN [crossed EXCEPT ![c][SpaceOf(p)] = @ + 1] ELSE crossed
      BY <1>3 DEF LandLine
    <2>2. p \in Grid  BY DEF SocketTypeOK, ConnType
    <2>3. SpaceOf(p) \in Spaces  BY <2>2, SpaceTyped
    <2>4. crossed \in [Clients -> [Spaces -> Nat]]  BY DEF SocketTypeOK
    <2>5. /\ \A d \in Clients \ {c} : crossed'[d] = crossed[d]
          /\ crossed' \in [Clients -> [Spaces -> Nat]]
      BY <2>1, <2>3, <2>4
    <2>6. QED  BY <1>3, <2>5 DEF LandLine
  <1>4. QED
    BY <1>1, <1>2, <1>3 DEF HandlerStep, HandlerPanics, RefuseRequest, FanOutEnds, HandoffEnds,
       BroadcastRegistry, BroadcastAuthority, OrchestratePanes, OrchestrateShare,
       OrchestrateSplit, CheckWrite

-----------------------------------------------------------------------------
(* The slots. *)

LEMMA HoldersFinite ==
  ASSUME SocketTypeOK
  PROVE  /\ IsFiniteSet(Holders) /\ Cardinality(Holders) \in Nat
         /\ IsFiniteSet(Clients)
  BY SocketAssumption, FS_Subset, FS_CardinalityType DEF Holders

LEMMA SlotHeld ==
  ASSUME SlotInv, NEW c \in Holders
  PROVE  inFlight \in Nat \ {0} /\ Cardinality(Holders \ {c}) = inFlight - 1
  <1>1. IsFiniteSet(Holders)  BY HoldersFinite DEF SlotInv
  <1>2. Cardinality(Holders \ {c}) = Cardinality(Holders) - 1 /\ IsFiniteSet(Holders \ {c})
    BY <1>1, FS_RemoveElement
  <1>3. Cardinality(Holders \ {c}) \in Nat  BY <1>2, FS_CardinalityType
  <1>4. QED  BY <1>2, <1>3 DEF SlotInv, SlotsHonest, SocketTypeOK

LEMMA ConnKeepsSlots ==
  ASSUME SlotInv, NEW c \in Clients, ConnStep(c)
  PROVE  SlotInv'
  <1> USE DEF SlotInv
  <1>0. SocketTypeOK /\ IsFiniteSet(Holders)  BY HoldersFinite
  <1>1. CASE DialSocket(c)
    <2>1. OnlyMoves(c) /\ conn'[c].step = "dialled" /\ conn[c].step = "away"
      BY <1>1, GoMoves DEF DialSocket, OnStep
    <2>a. UNCHANGED <<hostvars, policyvars, crossed>> /\ dials' = dials + 1
      BY <1>1 DEF DialSocket
    <2>b. dials' \in Nat  BY <2>a DEF SocketTypeOK
    <2>c. Holders' = Holders /\ Busy' = Busy  BY <2>1 DEF Holders, Busy, OnlyMoves
    <2>2. UNCHANGED <<Holders, Busy, hostvars, policyvars, crossed>> /\ dials' \in Nat
      BY <2>a, <2>b, <2>c
    <2>3. SocketTypeOK'
      BY <2>1, <2>2 DEF SocketTypeOK, OnlyMoves, hostvars, policyvars
    <2>4. QED  BY <2>2, <2>3 DEF RefusesOne, SlotsHonest, hostvars
  <1>2. CASE AcceptConn(c)
    <2>1. OnlyMoves(c) /\ conn'[c].step \in {"busy", "served"} /\ conn[c].step = "dialled"
      BY <1>2, GoMoves DEF AcceptConn, OnStep
    <2>2. /\ refusing = {} /\ Busy = {} /\ inFlight \in Nat
          /\ UNCHANGED <<policyvars, dials, crossed>>
          /\ inFlight' = inFlight + 1
      BY <1>2 DEF AcceptConn, RefusesOne, SocketTypeOK
    <2>3. Holders' = Holders \cup {c} /\ c \notin Holders
      BY <2>1 DEF Holders, OnlyMoves
    <2>4. inFlight' = Cardinality(Holders')
      BY <1>0, <2>2, <2>3, FS_AddElement DEF SlotsHonest
    <2>5. refusing' \in SUBSET {c} /\ (refusing' = {c} <=> conn'[c].step = "busy")
      BY <1>2, <2>2, GoMoves DEF AcceptConn
    <2>6. RefusesOne'
      BY <2>1, <2>2, <2>5 DEF RefusesOne, Busy, OnlyMoves
    <2>7. Cardinality(Holders' \ refusing') <= MaxSocketConns
      <3>1. CASE inFlight >= MaxSocketConns
        <4>1. refusing' = {c}  BY <1>2, <3>1 DEF AcceptConn
        <4>2. Holders' \ refusing' = Holders \ refusing  BY <2>2, <2>3, <4>1
        <4>3. QED  BY <4>2 DEF SlotsHonest
      <3>2. CASE ~(inFlight >= MaxSocketConns)
        <4>1. refusing' = {}  BY <1>2, <2>2, <3>2 DEF AcceptConn
        <4>2. Holders' \ refusing' = Holders'  BY <4>1
        <4>3. QED  BY <2>2, <2>4, <3>2, <4>2, SocketAssumption
      <3>3. QED  BY <3>1, <3>2
    <2>8. SocketTypeOK'
      BY <2>1, <2>2, <2>5 DEF SocketTypeOK, OnlyMoves, policyvars
    <2>9. QED  BY <2>4, <2>6, <2>7, <2>8 DEF SlotsHonest
  <1>3. CASE RefuseBusy(c)
    <2>1. OnlyMoves(c) /\ conn'[c].step = "away" /\ conn[c].step = "busy"
      BY <1>3, NowMoves, AbsentTyped DEF RefuseBusy, OnStep
    <2>2. c \in Holders /\ Holders' = Holders \ {c} /\ Busy' = Busy \ {c}
      BY <2>1 DEF Holders, Busy, OnlyMoves
    <2>3. /\ inFlight' = inFlight - 1 /\ refusing' = {}
          /\ UNCHANGED <<policyvars, dials, crossed>>
      BY <1>3 DEF RefuseBusy
    <2>4. refusing = {c}  BY <2>1 DEF RefusesOne, Busy
    <2>5. RefusesOne'  BY <2>2, <2>3, <2>4 DEF RefusesOne
    <2>6. inFlight' \in Nat /\ inFlight' = Cardinality(Holders')  BY <2>2, <2>3, SlotHeld
    <2>7. Holders' \ refusing' = Holders \ refusing  BY <2>2, <2>3, <2>4
    <2>8. SocketTypeOK'
      BY <2>1, <2>3, <2>6 DEF SocketTypeOK, OnlyMoves, policyvars
    <2>9. QED  BY <2>5, <2>6, <2>7, <2>8 DEF SlotsHonest
  <1>4. CASE EndConn(c)
    <2>1. OnlyMoves(c) /\ conn'[c].step = "away" /\ conn[c].step = "answered"
      BY <1>4, NowMoves, AbsentTyped DEF EndConn, OnStep
    <2>2. c \in Holders /\ Holders' = Holders \ {c} /\ Busy' = Busy
      BY <2>1 DEF Holders, Busy, OnlyMoves
    <2>3. /\ inFlight' = inFlight - 1 /\ refusing' = refusing
          /\ UNCHANGED <<policyvars, dials, crossed>>
      BY <1>4 DEF EndConn
    <2>4. inFlight' \in Nat /\ inFlight' = Cardinality(Holders')  BY <2>2, <2>3, SlotHeld
    <2>5. Cardinality(Holders' \ refusing') <= MaxSocketConns
      <3>1. IsFiniteSet(Holders \ refusing)  BY <1>0, FS_Subset
      <3>2. Holders' \ refusing' \in SUBSET (Holders \ refusing)  BY <2>2, <2>3
      <3>3. /\ IsFiniteSet(Holders' \ refusing')
            /\ Cardinality(Holders' \ refusing') <= Cardinality(Holders \ refusing)
        BY <3>1, <3>2, FS_Subset
      <3>4. Cardinality(Holders \ refusing) \in Nat /\ Cardinality(Holders' \ refusing') \in Nat
        BY <3>1, <3>3, FS_CardinalityType
      <3>5. Cardinality(Holders \ refusing) <= MaxSocketConns  BY DEF SlotsHonest
      <3>6. QED  BY <3>3, <3>4, <3>5, SocketAssumption
    <2>6. RefusesOne'  BY <2>2, <2>3 DEF RefusesOne
    <2>7. SocketTypeOK'
      BY <2>1, <2>3, <2>4 DEF SocketTypeOK, OnlyMoves, policyvars
    <2>8. QED  BY <2>4, <2>5, <2>6, <2>7 DEF SlotsHonest
  <1>5. CASE HandlerStep(c)
    <2>1. /\ OnlyMoves(c) /\ Serves(c) /\ UNCHANGED <<policyvars, dials>>
          /\ crossed' \in [Clients -> [Spaces -> Nat]]
      BY <1>0, <1>5, HandlerMoves, HandlerKeeps
    <2>2. UNCHANGED <<Holders, Busy, hostvars>>
      BY <2>1 DEF Holders, Busy, OnlyMoves, Serves, Serving, HandlerSteps
    <2>3. SocketTypeOK'
      BY <2>1, <2>2 DEF SocketTypeOK, OnlyMoves, hostvars, policyvars
    <2>4. QED  BY <2>2, <2>3 DEF RefusesOne, SlotsHonest, hostvars
  <1>6. QED  BY <1>1, <1>2, <1>3, <1>4, <1>5, ConnSteps

-----------------------------------------------------------------------------
(* What crosses a closed boundary. *)

\* The operation of another connection: nothing of it, and nothing of the
\* policy, moves.
LEMMA OthersCross ==
  ASSUME Crossings, NEW d \in Clients, conn'[d] = conn[d], crossed'[d] = crossed[d],
         UNCHANGED policyvars
  PROVE  Crossing(conn[d], crossed[d])'
  <1>1. \A w : AuthorizeCross(conn[d].ws, w)' <=> AuthorizeCross(conn[d].ws, w)
    BY DEF AuthorizeCross, Shared, SharingEnabled, policyvars
  <1>2. Crossing(conn[d], crossed[d])  BY DEF Crossings
  <1>3. QED  BY <1>1, <1>2 DEF Crossing

LEMMA HandlerCrosses ==
  ASSUME SocketTypeOK, Crossings, NEW c \in Clients, HandlerStep(c)
  PROVE  Crossing(conn[c], crossed[c])'
  <1> DEFINE n == crossed[c]
             closed(w) == ~AuthorizeCross(conn[c].ws, w)
  <1>0. Crossing(conn[c], crossed[c])  BY DEF Crossings
  <1>1. UNCHANGED policyvars  BY HandlerKeeps
  <1>2. \A ws, w : AuthorizeCross(ws, w)' <=> AuthorizeCross(ws, w)
    BY <1>1 DEF AuthorizeCross, Shared, SharingEnabled, policyvars
  <1>3. crossed[c] \in [Spaces -> Nat] /\ crossed'[c] \in [Spaces -> Nat]
    BY HandlerKeeps DEF SocketTypeOK
  <1>4. CASE HandlerPanics(c) \/ RefuseRequest(c) \/ FanOutEnds(c)
    <2>1. conn'[c].step = "answered" /\ crossed' = crossed
      BY <1>4, EndMoves DEF HandlerPanics, RefuseRequest, FanOutEnds, Quiet
    <2>2. QED  BY <1>0, <2>1 DEF Crossing, HandlerSteps
  <1>5. CASE \E op \in ExternalOps \cup {"handoff"}, role \in {"coordinator", "external"},
               ws \in Spaces \cup {NoSpace} : Request(c, op, role, ws)
    <2>1. conn'[c].step \in HandlerSteps \ {"land"}  BY <1>5, RequestMoves
    <2>2. \A w \in Spaces : crossed'[c][w] = 0  BY <1>5 DEF Request, SocketTypeOK
    <2>3. QED  BY <2>1, <2>2 DEF Crossing
  <1>6. CASE \/ HandoffEnds(c) \/ BroadcastRegistry(c) \/ BroadcastAuthority(c)
             \/ \E target \in Spaces \cup {NoSpace} : OrchestratePanes(c, target)
             \/ OrchestrateShare(c) \/ OrchestrateSplit(c)
    <2>1. /\ conn[c].step \in HandlerSteps \ {"check", "land"}
          /\ conn'[c].step \in (HandlerSteps \ {"land"}) \cup {"answered"}
      BY <1>6, ScopeMoves
    <2>2. crossed' = crossed
      BY <1>6 DEF HandoffEnds, BroadcastRegistry, BroadcastAuthority, OrchestratePanes,
                  OrchestrateShare, OrchestrateSplit, Quiet
    <2>3. \A w \in Spaces : crossed'[c][w] = 0  BY <1>0, <2>1, <2>2 DEF Crossing
    <2>4. QED  BY <2>1, <2>3 DEF Crossing, HandlerSteps
  <1>7. CASE \E p \in Grid : CheckWrite(c, p)
    <2>1. PICK p \in Grid : CheckWrite(c, p)  BY <1>7
    <2>2. crossed' = crossed /\ conn[c].step = "check"
      BY <2>1 DEF CheckWrite, OnStep, Quiet
    <2>3. /\ \A w \in Spaces : crossed'[c][w] <= 1
          /\ \A w \in Spaces : crossed'[c][w] = 1 => closed(w)
      BY <1>0, <2>2 DEF Crossing
    <2>4. /\ conn'[c].ws = conn[c].ws
          /\ \/ conn'[c].step = "check"
             \/ /\ ~closed(SpaceOf(p))
                /\ conn'[c].step = "land" /\ conn'[c].at = {p}
      BY <2>1, CheckMoves
    <2>5. SpaceOf(p) \in Spaces  BY SpaceTyped
    <2>6. ~closed(SpaceOf(p)) => crossed'[c][SpaceOf(p)] = 0
      BY <1>3, <2>3, <2>5
    <2>7. \A w \in Spaces : crossed'[c][w] = 1 => ~AuthorizeCross(conn[c].ws, w)'
      BY <1>2, <2>3, <2>4
    <2>8. conn'[c].step = "land" => conn'[c].at = {p} /\ crossed'[c][SpaceOf(p)] = 0
      BY <2>4, <2>6
    <2>9. QED  BY <2>3, <2>4, <2>7, <2>8 DEF Crossing, HandlerSteps
  <1>8. CASE LandLine(c)
    <2>1. PICK p \in conn[c].at :
            crossed' = IF grid[p] = "live" /\ ~AuthorizeCross(conn[c].ws, SpaceOf(p))
                         THEN [crossed EXCEPT ![c][SpaceOf(p)] = @ + 1] ELSE crossed
      BY <1>8 DEF LandLine
    <2>2. p \in Grid /\ SpaceOf(p) \in Spaces
      BY SpaceTyped DEF SocketTypeOK, ConnType
    <2>3. conn[c].step = "land"  BY <1>8 DEF LandLine, OnStep
    <2>4. crossed[c][SpaceOf(p)] = 0  BY <1>0, <2>3 DEF Crossing
    <2>5. \A w \in Spaces : crossed[c][w] <= 1 /\ (crossed[c][w] = 1 => closed(w))
      BY <1>0, <2>3 DEF Crossing
    <2>6. conn'[c].step = "check" /\ conn'[c].ws = conn[c].ws  BY <1>8, LandMoves
    <2>7. \A w \in Spaces : crossed'[c][w] <= 1 /\ (crossed'[c][w] = 1 => closed(w))
      <3>1. CASE grid[p] = "live" /\ closed(SpaceOf(p))
        <4>1. crossed' = [crossed EXCEPT ![c][SpaceOf(p)] = @ + 1]  BY <2>1, <3>1
        <4>2. crossed'[c] = [crossed[c] EXCEPT ![SpaceOf(p)] = @ + 1]
          BY <4>1 DEF SocketTypeOK
        <4>3. QED  BY <1>3, <2>2, <2>4, <2>5, <3>1, <4>2
      <3>2. CASE ~(grid[p] = "live" /\ closed(SpaceOf(p)))
        BY <2>1, <2>5, <3>2
      <3>3. QED  BY <3>1, <3>2
    <2>8. QED  BY <1>2, <2>6, <2>7 DEF Crossing, HandlerSteps
  <1>9. QED  BY <1>4, <1>5, <1>6, <1>7, <1>8 DEF HandlerStep

LEMMA ConnKeepsCrossings ==
  ASSUME SocketTypeOK, Crossings, NEW c \in Clients, ConnStep(c)
  PROVE  Crossings'
  <1>1. CASE HandlerStep(c)
    <2>1. /\ OnlyMoves(c) /\ UNCHANGED policyvars
          /\ \A d \in Clients \ {c} : crossed'[d] = crossed[d]
      BY <1>1, HandlerMoves, HandlerKeeps
    <2>2. \A d \in Clients \ {c} : Crossing(conn[d], crossed[d])'
      BY <2>1, OthersCross DEF OnlyMoves
    <2>3. QED  BY <1>1, <2>2, HandlerCrosses DEF Crossings
  <1>2. CASE DialSocket(c) \/ AcceptConn(c) \/ RefuseBusy(c) \/ EndConn(c)
    <2>1. OnlyMoves(c) /\ conn'[c].step \in {"dialled", "busy", "served", "away"}
      BY <1>2, GoMoves, NowMoves, AbsentTyped DEF DialSocket, AcceptConn, RefuseBusy, EndConn
    <2>2. UNCHANGED policyvars /\ crossed' = crossed
      BY <1>2 DEF DialSocket, AcceptConn, RefuseBusy, EndConn
    <2>3. \A d \in Clients \ {c} : Crossing(conn[d], crossed[d])'
      BY <2>1, <2>2, OthersCross DEF OnlyMoves
    <2>4. \A w \in Spaces : crossed[c][w] <= 1  BY DEF Crossings, Crossing
    <2>5. Crossing(conn[c], crossed[c])'
      BY <2>1, <2>2, <2>4 DEF Crossing, HandlerSteps
    <2>6. QED  BY <2>3, <2>5 DEF Crossings
  <1>3. QED  BY <1>1, <1>2, ConnSteps

LEMMA OperatorKeeps ==
  ASSUME SocketInv, OperatorActs
  PROVE  SocketInv'
  <1> USE DEF SocketInv, SlotInv
  <1>1. Act /\ Forget
    BY DEF OperatorActs, OpenPane, PaneDies, ShutPane, SetSharing, FlipIsolation, FlipSwitch
  <1>2. UNCHANGED <<inFlight, refusing, conn, dials>> /\ turns' = turns + 1
    BY <1>1 DEF Act, hostvars
  <1>3. crossed' \in [Clients -> [Spaces -> Nat]]
    BY <1>1 DEF Forget, SocketTypeOK
  <1>4. /\ grid' \in [Grid -> {"live", "dead", "gone"}]
        /\ sharing' \in [Grid -> {"shared", "private", "none"}]
        /\ isolation' \in BOOLEAN /\ switches' \subseteq Switches
    BY DEF OperatorActs, OpenPane, PaneDies, ShutPane, SetSharing, FlipIsolation, FlipSwitch,
           SocketTypeOK
  <1>5. SocketTypeOK'
    <2>1. turns' \in Nat  BY <1>2 DEF SocketTypeOK
    <2>2. QED  BY <1>2, <1>3, <1>4, <2>1 DEF SocketTypeOK
  <1>6. RefusesOne' /\ SlotsHonest'
    BY <1>2 DEF RefusesOne, SlotsHonest, Holders, Busy
  <1>7. Crossings'
    <2> SUFFICES ASSUME NEW c \in Clients
                 PROVE  Crossing(conn[c], crossed[c])'
      BY DEF Crossings
    <2>1. Crossing(conn[c], crossed[c])  BY DEF Crossings
    <2>2. \A w \in Spaces : crossed'[c][w] = IF AuthorizeCross(conn[c].ws, w)' THEN 0 ELSE crossed[c][w]
      BY <1>1 DEF Forget
    <2>3. conn'[c] = conn[c]  BY <1>2
    <2>4. \A w \in Spaces : crossed'[c][w] \in {0, crossed[c][w]}  BY <2>2
    <2>5. \A w \in Spaces : crossed'[c][w] = 1 => ~AuthorizeCross(conn[c].ws, w)'
      BY <2>2
    <2>6. \A w \in Spaces : crossed'[c][w] <= 1  BY <2>1, <2>4 DEF Crossing
    <2>7. conn[c].step \in HandlerSteps \ {"check", "land"} =>
            \A w \in Spaces : crossed'[c][w] = 0
      BY <2>1, <2>4 DEF Crossing
    <2>8. conn[c].step = "land" =>
            \E p \in Grid : conn[c].at = {p} /\ crossed'[c][SpaceOf(p)] = 0
      BY <2>1, <2>4, SpaceTyped DEF Crossing
    <2>9. QED  BY <2>3, <2>5, <2>6, <2>7, <2>8 DEF Crossing
  <1>8. QED  BY <1>5, <1>6, <1>7

-----------------------------------------------------------------------------
(* In every reachable state: the types hold, the loop refuses one          *)
(* connection at a time, the slots are those of the connections it holds,  *)
(* and each operation has put at most one line across a boundary since it  *)
(* closed; after that one, none is on its way.                             *)
THEOREM SocketInvHolds == SocketSpec => []SocketInv
  <1>1. SocketInit => SocketInv
    <2> SUFFICES ASSUME SocketInit PROVE SocketInv
      OBVIOUS
    <2>1. SocketTypeOK
      BY AbsentTyped DEF SocketInit, SocketTypeOK
    <2>2. Holders = {} /\ Busy = {} /\ refusing = {} /\ inFlight = 0
      BY AbsentTyped DEF SocketInit, Holders, Busy
    <2>3. SlotsHonest
      <3>1. Holders \ refusing = {}  BY <2>2
      <3>2. QED  BY <2>2, <3>1, FS_EmptySet, SocketAssumption DEF SlotsHonest
    <2>4. Crossings
      BY AbsentTyped DEF SocketInit, Crossings, Crossing, HandlerSteps
    <2>5. QED  BY <2>1, <2>2, <2>3, <2>4 DEF SocketInv, SlotInv, RefusesOne
  <1>2. SocketInv /\ [SocketNext]_socketvars => SocketInv'
    <2> SUFFICES ASSUME SocketInv, [SocketNext]_socketvars PROVE SocketInv'
      OBVIOUS
    <2>1. CASE \E c \in Clients : ConnStep(c)
      BY <2>1, ConnKeepsSlots, ConnKeepsCrossings DEF SocketInv, SlotInv
    <2>2. CASE OperatorActs
      BY <2>2, OperatorKeeps
    <2>3. CASE UNCHANGED socketvars
      BY <2>3 DEF SocketInv, SlotInv, SocketTypeOK, RefusesOne, Busy, SlotsHonest, Holders,
                  Crossings, Crossing, AuthorizeCross, Shared, SharingEnabled,
                  socketvars, hostvars, policyvars
    <2>4. QED  BY <2>1, <2>2, <2>3 DEF SocketNext
  <1>3. QED  BY <1>1, <1>2, PTL DEF SocketSpec

(* The slots of the accept loop are those of the connections it holds, and *)
(* no panic or refusal loses one (Slot's Drop, fetch_add and fetch_sub).   *)
THEOREM SlotsAreHonest == SocketSpec => []SlotsHonest
  <1>1. SocketInv => SlotsHonest  BY DEF SocketInv, SlotInv
  <1>2. QED  BY <1>1, SocketInvHolds, PTL

(* A send, handoff or broadcast under way when sharing ends puts at most   *)
(* the one line across that write_to_pane had already let pass: whoever    *)
(* the broadcast had chosen to write to.  (Of an orchestrate, which writes *)
(* as its target workspace, this says nothing.)                            *)
THEOREM UnsharingHolds == SocketSpec => []UnsharingStops
  <1>1. SocketInv => UnsharingStops
    BY DEF SocketInv, Crossings, Crossing, UnsharingStops
  <1>2. QED  BY <1>1, SocketInvHolds, PTL
=============================================================================
