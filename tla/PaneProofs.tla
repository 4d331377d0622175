------------------------------ MODULE PaneProofs ------------------------------
(***************************************************************************)
(* Proofs about a pane that the app or the daemon may have, for any panes, *)
(* commands and writers: which process owns it (PaneOwnership, with any    *)
(* daemon that keeps DaemonService), and what is written into it           *)
(* (PaneInput).                                                            *)
(*                                                                         *)
(* Ownership: none of the three properties is inductive, because which     *)
(* process may have a pane depends on what the one command that works on   *)
(* its id has done so far.  The invariant says, for an id that nothing     *)
(* unguarded happened to, that at most one command works on it, what the   *)
(* step of that command relies on, and where a pane the daemon runs is     *)
(* known to the app (Sound).                                               *)
(*                                                                         *)
(* Input: NoSplice needs two things besides itself.  The write lock is     *)
(* held by whoever is between its prime or body and its CR, and a body     *)
(* that is still open, with no line after it, belongs to the holder unless *)
(* the pane has died.  WrittenIsSubmitted needs the body of a writer that  *)
(* settles to be in the pane it was written to.                            *)
(***************************************************************************)
EXTENDS PaneOwnership, PaneInput, SequenceTheorems, TLAPS

(* Steps that hold an id the app has no daemon pane for, ids that are on   *)
(* their way to the daemon or from it, ids written ahead, and ids whose    *)
(* pane the daemon has taken out.                                          *)
Unowned == {"route", "insert", "addrow", "adding", "anchor", "dial", "sent", "busy",
            "spawned", "refused", "alreadylive", "unanchor", "stop", "remove", "droprow",
            "dropping"}
DaemonSide == {"anchor", "dial", "sent", "busy", "spawned", "refused", "alreadylive",
               "unanchor", "stop", "stream", "closing", "ending", "disown"}
Anchored == {"dial", "sent", "busy", "spawned"}
Closed == {"ending", "disown"}

CmdSteps == {"rest", "route", "insert", "addrow", "droprow", "adding", "dropping", "anchor",
             "dial", "sent", "busy", "spawned", "refused", "alreadylive", "stream", "unanchor",
             "closing", "ending", "remove", "disown", "stop"}
CmdType == [Commands -> [step : CmdSteps, id : PaneIds \cup {NoPaneId}, read : SUBSET PaneIds]]

(* The commands rest between their operations and while the app starts.    *)
RestInv ==
  /\ \A c \in Commands : cmd[c].id = NoPaneId <=> cmd[c].step = "rest"
  /\ boot # "up" => /\ localPanes = {} /\ owned = {} /\ streams = {}
                    /\ \A c \in Commands : cmd[c].id = NoPaneId

(* The one command that works on the id is at s; "rest" when none does.    *)
WorkedOn(id, s) ==
  \/ s = "rest" /\ \A c \in Commands : cmd[c].id # id
  \/ \E c \in Commands : /\ cmd[c].id = id /\ cmd[c].step = s
                         /\ \A d \in Commands \ {c} : cmd[d].id # id

(* What step s of that command relies on, and where the pane is known.     *)
Sound(id, s) ==
  /\ s \in Unowned => id \notin owned
  /\ s \in DaemonSide => id \notin localPanes
  /\ s \in Anchored => id \in ahead
  /\ s = "stream" => id \in owned
  /\ s \in Closed => id \notin dLive
  /\ id \in owned => id \notin localPanes
  /\ id \notin late
  /\ id \in dBusy => s = "busy"
  /\ id \in dLive /\ boot = "up" => id \in owned \/ s = "spawned"
  /\ id \in dLive /\ boot \in {"wipe", "adopt"} => id \in survivors
  /\ id \in dLive \cup dBusy => id \in ahead
  /\ id \in streams => id \in owned \/ s = "stop"

Defended(id) == \E s \in CmdSteps : WorkedOn(id, s) /\ Sound(id, s)

OwnershipInv ==
  /\ OwnershipTypeOK
  /\ RestInv
  /\ \A id \in PaneIds \ astray : Defended(id)

USE DEF appMemory, appDisk, bootVars, daemonVars, served

-----------------------------------------------------------------------------
\* The types of the commands, for the steps below.
LEMMA CommandsTyped ==
  ASSUME OwnershipInv
  PROVE  /\ cmd \in CmdType
         /\ \A c \in Commands : cmd[c].step # "rest" => cmd[c].id \in PaneIds
         /\ \A c \in Commands : cmd[c].step = "rest" => cmd[c].id = NoPaneId
  BY DEF OwnershipInv, OwnershipTypeOK, RestInv, CmdType, CmdSteps

\* The command c goes to step s, or rests; the others stay where they are.
Moved(c, s) ==
  /\ cmd' \in CmdType
  /\ cmd'[c].step = s /\ cmd'[c].id = IF s = "rest" THEN NoPaneId ELSE cmd[c].id
  /\ \A d \in Commands \ {c} : cmd'[d] = cmd[d]

LEMMA ProceedMoves ==
  ASSUME OwnershipInv, NEW c \in Commands, NEW s \in CmdSteps \ {"rest"}, Proceed(c, s)
  PROVE  Moved(c, s)
  BY CommandsTyped DEF CmdType, Proceed, Moved

LEMMA RestMoves ==
  ASSUME OwnershipInv, NEW c \in Commands, Rest(c)
  PROVE  Moved(c, "rest")
  BY CommandsTyped DEF CmdType, CmdSteps, Rest, Resting, Moved

LEMMA ReadMoved ==
  ASSUME OwnershipInv, NEW c \in Commands, ReadRows(c)
  PROVE  Moved(c, IF cmd[c].step = "addrow" THEN "adding" ELSE "dropping")
<1> DEFINE s == IF cmd[c].step = "addrow" THEN "adding" ELSE "dropping"
<1>1. cmd \in CmdType /\ rows \in SUBSET PaneIds
  BY CommandsTyped DEF OwnershipInv, OwnershipTypeOK
<1>2. cmd' = [cmd EXCEPT ![c] = [step |-> s, id |-> cmd[c].id, read |-> rows]]
  BY <1>1 DEF ReadRows, CmdType
<1>3. s \in CmdSteps /\ s # "rest"
  BY DEF CmdSteps
<1> HIDE DEF s
<1>4. Moved(c, s)
  BY <1>1, <1>2, <1>3 DEF CmdType, Moved
<1> QED
  BY <1>4 DEF s

\* What is sound of an id stays so.
Kept(id) == \A s \in CmdSteps : Sound(id, s) => Sound(id, s)'

\* A step of one command keeps the invariant when it disturbs no other id and
\* leaves its own as its next step needs it.
LEMMA CommandKeeps ==
  ASSUME OwnershipInv, NEW c \in Commands, NEW s \in CmdSteps, NEW p \in PaneIds,
         cmd[c].id = p, Moved(c, s), boot = "up", boot' = "up", OwnershipTypeOK',
         astray \subseteq astray',
         \A id \in PaneIds \ {p} : Kept(id),
         p \in astray' \/ (Sound(p, cmd[c].step) => Sound(p, s)')
  PROVE  OwnershipInv'
<1>1. cmd \in CmdType
  BY CommandsTyped
<1>2. RestInv'
  BY <1>1, OwnershipAssumption DEF OwnershipInv, RestInv, Moved
<1>3. ASSUME NEW id \in PaneIds \ astray' PROVE Defended(id)'
  <2>1. PICK t \in CmdSteps : WorkedOn(id, t) /\ Sound(id, t)
    BY DEF OwnershipInv, Defended
  <2>2. CASE id # p
    <3>1. \A d \in Commands : cmd'[d].id = id <=> cmd[d].id = id
      BY <2>2, OwnershipAssumption DEF Moved
    <3>2. \A d \in Commands : cmd[d].id = id => cmd'[d] = cmd[d]
      BY <2>2 DEF Moved
    <3>3. WorkedOn(id, t)'
      BY <2>1, <3>1, <3>2 DEF WorkedOn
    <3>4. Sound(id, t)'
      BY <2>1, <2>2 DEF Kept
    <3> QED
      BY <3>3, <3>4 DEF Defended
  <2>3. CASE id = p
    <3>1. t = cmd[c].step /\ \A d \in Commands \ {c} : cmd[d].id # p
      BY <2>1, <2>3 DEF WorkedOn
    <3>2. WorkedOn(p, s)'
      BY <3>1, OwnershipAssumption DEF WorkedOn, Moved
    <3>3. Sound(p, s)'
      BY <2>1, <2>3, <3>1
    <3> QED
      BY <2>3, <3>2, <3>3 DEF Defended
  <2> QED
    BY <2>2, <2>3
<1> QED
  BY <1>2, <1>3 DEF OwnershipInv

-----------------------------------------------------------------------------
(* The steps of a command.                                                 *)

\* Routing a spawn: the daemon's way only without a pane of the app's own.
LEMMA StepRoute ==
  ASSUME OwnershipInv, NEW c \in Commands, Route(c)
  PROVE  OwnershipInv'
<1>1. PICK p \in PaneIds : cmd[c].id = p
  BY CommandsTyped DEF Route, Is
<1>2. PICK s \in {"anchor", "insert"} : Moved(c, s) /\ (s = "anchor" => p \notin localPanes)
  BY <1>1, ProceedMoves DEF Route, CmdSteps
<1>3. OwnershipTypeOK'
  BY <1>2 DEF OwnershipInv, OwnershipTypeOK, Moved, CmdType, CmdSteps, Route
<1>4. \A id \in PaneIds : Kept(id)
  BY DEF Route, Kept, Sound
<1>5. Sound(p, cmd[c].step) => Sound(p, s)'
  BY <1>2 DEF Route, Is, Sound, Unowned, DaemonSide, Anchored, Closed
<1> QED
  BY <1>1, <1>2, <1>3, <1>4, <1>5, CommandKeeps DEF Route, Is, CmdSteps

\* The insert of a pane of the app's own.
LEMMA StepInsertLocal ==
  ASSUME OwnershipInv, NEW c \in Commands, InsertLocal(c)
  PROVE  OwnershipInv'
<1>1. PICK p \in PaneIds : cmd[c].id = p
  BY CommandsTyped DEF InsertLocal, Is
<1>2. Moved(c, "addrow")
  BY ProceedMoves DEF InsertLocal, CmdSteps
<1>3. OwnershipTypeOK'
  BY <1>1, <1>2 DEF OwnershipInv, OwnershipTypeOK, Moved, CmdType, CmdSteps, InsertLocal
<1>4. \A id \in PaneIds \ {p} : Kept(id)
  BY <1>1 DEF InsertLocal, Kept, Sound
<1>5. Sound(p, cmd[c].step) => Sound(p, "addrow")'
  BY <1>1 DEF InsertLocal, Is, Sound, Unowned, DaemonSide, Anchored, Closed
<1> QED
  BY <1>1, <1>2, <1>3, <1>4, <1>5, CommandKeeps DEF InsertLocal, Is, CmdSteps

\* A step that moves the command and reads or writes the registry file.
LEMMA StepReadRows ==
  ASSUME OwnershipInv, NEW c \in Commands, ReadRows(c)
  PROVE  OwnershipInv'
<1>1. PICK p \in PaneIds : cmd[c].id = p
  BY CommandsTyped DEF ReadRows
<1>2. PICK s \in {"adding", "dropping"} :
        Moved(c, s) /\ (cmd[c].step = "addrow" <=> s = "adding")
  BY ReadMoved
<1>3. OwnershipTypeOK'
  BY <1>2 DEF OwnershipInv, OwnershipTypeOK, Moved, CmdType, CmdSteps, ReadRows
<1>4. \A id \in PaneIds : Kept(id)
  BY DEF ReadRows, Kept, Sound
<1>5. Sound(p, cmd[c].step) => Sound(p, s)'
  BY <1>2 DEF ReadRows, Sound, Unowned, DaemonSide, Anchored, Closed
<1> QED
  BY <1>1, <1>2, <1>3, <1>4, <1>5, CommandKeeps DEF ReadRows, CmdSteps

LEMMA StepWriteRows ==
  ASSUME OwnershipInv, NEW c \in Commands, WriteRows(c)
  PROVE  OwnershipInv'
<1>1. PICK p \in PaneIds : cmd[c].id = p
  BY CommandsTyped DEF WriteRows
<1>2. Moved(c, "rest")
  BY RestMoves DEF WriteRows
<1>3. OwnershipTypeOK'
  <2>1. cmd[c].read \subseteq PaneIds
    BY CommandsTyped DEF CmdType
  <2> QED
    BY <1>1, <1>2, <2>1 DEF OwnershipInv, OwnershipTypeOK, Moved, CmdType, CmdSteps, WriteRows
<1>4. \A id \in PaneIds : Kept(id)
  BY DEF WriteRows, Kept, Sound
<1>5. Sound(p, cmd[c].step) => Sound(p, "rest")'
  BY DEF WriteRows, Sound, Unowned, DaemonSide, Anchored, Closed
<1> QED
  BY <1>1, <1>2, <1>3, <1>4, <1>5, CommandKeeps DEF WriteRows, CmdSteps

\* The write-ahead of the id.
LEMMA StepAnchor ==
  ASSUME OwnershipInv, NEW c \in Commands, Anchor(c)
  PROVE  OwnershipInv'
<1>1. PICK p \in PaneIds : cmd[c].id = p
  BY CommandsTyped DEF Anchor, Is
<1>2. Moved(c, "dial")
  BY ProceedMoves DEF Anchor, CmdSteps
<1>3. OwnershipTypeOK'
  BY <1>1, <1>2 DEF OwnershipInv, OwnershipTypeOK, Moved, CmdType, CmdSteps, Anchor
<1>4. \A id \in PaneIds : Kept(id)
  BY <1>1 DEF Anchor, Kept, Sound
<1>5. Sound(p, cmd[c].step) => Sound(p, "dial")'
  BY <1>1 DEF Anchor, Is, Sound, Unowned, DaemonSide, Anchored, Closed
<1> QED
  BY <1>1, <1>2, <1>3, <1>4, <1>5, CommandKeeps DEF Anchor, Is, CmdSteps

LEMMA StepDial ==
  ASSUME OwnershipInv, NEW c \in Commands, Dial(c)
  PROVE  OwnershipInv'
<1>1. PICK p \in PaneIds : cmd[c].id = p
  BY CommandsTyped DEF Dial, Is
<1>2. PICK s \in {"sent", "unanchor"} : Moved(c, s)
  BY ProceedMoves DEF Dial, CmdSteps
<1>3. OwnershipTypeOK'
  BY <1>2 DEF OwnershipInv, OwnershipTypeOK, Moved, CmdType, CmdSteps, Dial
<1>4. \A id \in PaneIds : Kept(id)
  BY DEF Dial, Kept, Sound
<1>5. Sound(p, cmd[c].step) => Sound(p, s)'
  BY DEF Dial, Is, Sound, Unowned, DaemonSide, Anchored, Closed
<1> QED
  BY <1>1, <1>2, <1>3, <1>4, <1>5, CommandKeeps DEF Dial, Is, CmdSteps

\* A caller that gives up on a reply gives up on the id.
LEMMA StepGiveUp ==
  ASSUME OwnershipInv, NEW c \in Commands, GiveUp(c)
  PROVE  OwnershipInv'
<1>1. PICK p \in PaneIds : cmd[c].id = p
  BY CommandsTyped DEF GiveUp
<1>2. Moved(c, "rest")
  BY RestMoves DEF GiveUp
<1>3. OwnershipTypeOK'
  BY <1>1, <1>2 DEF OwnershipInv, OwnershipTypeOK, Moved, CmdType, CmdSteps, GiveUp
<1>4. \A id \in PaneIds \ {p} : Kept(id)
  BY <1>1 DEF GiveUp, Kept, Sound
<1>5. astray' = astray \cup {p} /\ boot = "up" /\ boot' = "up"
  BY <1>1 DEF GiveUp
<1> QED
  BY <1>1, <1>2, <1>3, <1>4, <1>5, CommandKeeps DEF CmdSteps

\* The app owns a pane before it follows its stream.
LEMMA StepOwn ==
  ASSUME OwnershipInv, NEW c \in Commands, Own(c)
  PROVE  OwnershipInv'
<1>1. PICK p \in PaneIds : cmd[c].id = p
  BY CommandsTyped DEF Own, Is
<1>2. Moved(c, "stream")
  BY ProceedMoves DEF Own, CmdSteps
<1>3. OwnershipTypeOK'
  BY <1>1, <1>2 DEF OwnershipInv, OwnershipTypeOK, Moved, CmdType, CmdSteps, Own
<1>4. \A id \in PaneIds \ {p} : Kept(id)
  BY <1>1 DEF Own, Kept, Sound
<1>5. Sound(p, cmd[c].step) => Sound(p, "stream")'
  BY <1>1 DEF Own, Is, Sound, Unowned, DaemonSide, Anchored, Closed
<1> QED
  BY <1>1, <1>2, <1>3, <1>4, <1>5, CommandKeeps DEF Own, Is, CmdSteps

LEMMA StepEnsureStream ==
  ASSUME OwnershipInv, NEW c \in Commands, EnsureStream(c)
  PROVE  OwnershipInv'
<1>1. PICK p \in PaneIds : cmd[c].id = p
  BY CommandsTyped DEF EnsureStream, Is
<1>2. Moved(c, "rest")
  BY RestMoves DEF EnsureStream
<1>3. OwnershipTypeOK'
  BY <1>1, <1>2 DEF OwnershipInv, OwnershipTypeOK, Moved, CmdType, CmdSteps, EnsureStream
<1>4. \A id \in PaneIds \ {p} : Kept(id)
  BY <1>1 DEF EnsureStream, Kept, Sound
<1>5. Sound(p, cmd[c].step) => Sound(p, "rest")'
  BY <1>1 DEF EnsureStream, Is, Sound, Unowned, DaemonSide, Anchored, Closed
<1> QED
  BY <1>1, <1>2, <1>3, <1>4, <1>5, CommandKeeps DEF EnsureStream, Is, CmdSteps

\* The two refusals: one keeps what was written ahead, the other drops it.
LEMMA StepAlreadyLive ==
  ASSUME OwnershipInv, NEW c \in Commands, AlreadyLive(c)
  PROVE  OwnershipInv'
<1>1. PICK p \in PaneIds : cmd[c].id = p
  BY CommandsTyped DEF AlreadyLive, Is
<1>2. Moved(c, "rest")
  BY RestMoves DEF AlreadyLive
<1>3. OwnershipTypeOK'
  BY <1>2 DEF OwnershipInv, OwnershipTypeOK, Moved, CmdType, CmdSteps, AlreadyLive
<1>4. \A id \in PaneIds : Kept(id)
  BY DEF AlreadyLive, Kept, Sound
<1>5. Sound(p, cmd[c].step) => Sound(p, "rest")'
  BY DEF AlreadyLive, Is, Sound, Unowned, DaemonSide, Anchored, Closed
<1> QED
  BY <1>1, <1>2, <1>3, <1>4, <1>5, CommandKeeps DEF AlreadyLive, Is, CmdSteps

LEMMA StepUnanchor ==
  ASSUME OwnershipInv, NEW c \in Commands, Unanchor(c)
  PROVE  OwnershipInv'
<1>1. PICK p \in PaneIds : cmd[c].id = p
  BY CommandsTyped DEF Unanchor
<1>2. Moved(c, "rest")
  BY RestMoves DEF Unanchor
<1>3. OwnershipTypeOK'
  BY <1>1, <1>2 DEF OwnershipInv, OwnershipTypeOK, Moved, CmdType, CmdSteps, Unanchor
<1>4. \A id \in PaneIds \ {p} : Kept(id)
  BY <1>1 DEF Unanchor, Kept, Sound
<1>5. Sound(p, cmd[c].step) => Sound(p, "rest")'
  BY <1>1 DEF Unanchor, Sound, Unowned, DaemonSide, Anchored, Closed
<1> QED
  BY <1>1, <1>2, <1>3, <1>4, <1>5, CommandKeeps DEF Unanchor, CmdSteps

\* The close of a pane of the app's own.
LEMMA StepRemoveLocal ==
  ASSUME OwnershipInv, NEW c \in Commands, RemoveLocal(c)
  PROVE  OwnershipInv'
<1>1. PICK p \in PaneIds : cmd[c].id = p
  BY CommandsTyped DEF RemoveLocal, Is
<1>2. Moved(c, "droprow")
  BY ProceedMoves DEF RemoveLocal, CmdSteps
<1>3. OwnershipTypeOK'
  BY <1>1, <1>2 DEF OwnershipInv, OwnershipTypeOK, Moved, CmdType, CmdSteps, RemoveLocal
<1>4. \A id \in PaneIds \ {p} : Kept(id)
  BY <1>1 DEF RemoveLocal, Kept, Sound
<1>5. Sound(p, cmd[c].step) => Sound(p, "droprow")'
  BY <1>1 DEF RemoveLocal, Is, Sound, Unowned, DaemonSide, Anchored, Closed
<1> QED
  BY <1>1, <1>2, <1>3, <1>4, <1>5, CommandKeeps DEF RemoveLocal, Is, CmdSteps

\* The close of a pane of the daemon: while the daemon cleans up it has no pane.
LEMMA StepDaemonClose ==
  ASSUME OwnershipInv, NEW c \in Commands, DaemonClose(c)
  PROVE  OwnershipInv'
<1>1. PICK p \in PaneIds : cmd[c].id = p
  BY CommandsTyped DEF DaemonClose, Is
<1>2. /\ dLive' \subseteq dLive /\ dBusy' = dBusy /\ dEnding' \subseteq dEnding \cup {p}
      /\ \A id \in PaneIds \ {p} : id \in dLive' <=> id \in dLive
  BY <1>1 DEF DaemonClose, Daemon!Remove, Daemon!Visit
<1>3. PICK s \in {"ending", "rest"} : Moved(c, s) /\ (s = "ending" => p \notin dLive')
  BY <1>1, ProceedMoves, RestMoves
  DEF DaemonClose, CmdSteps, Daemon!Remove, Daemon!Visit, Daemon!Free
<1>4. OwnershipTypeOK'
  BY <1>2, <1>3 DEF OwnershipInv, OwnershipTypeOK, Moved, CmdType, CmdSteps, DaemonClose
<1>5. \A id \in PaneIds \ {p} : Kept(id)
  BY <1>2 DEF DaemonClose, Kept, Sound
<1>6. Sound(p, cmd[c].step) => Sound(p, s)'
  BY <1>2, <1>3 DEF DaemonClose, Is, Sound, Unowned, DaemonSide, Anchored, Closed
<1> QED
  BY <1>1, <1>3, <1>4, <1>5, <1>6, CommandKeeps DEF DaemonClose, Is, CmdSteps

\* The app disowns the pane, then stops its reader.
LEMMA StepDisown ==
  ASSUME OwnershipInv, NEW c \in Commands, Disown(c)
  PROVE  OwnershipInv'
<1>1. PICK p \in PaneIds : cmd[c].id = p
  BY CommandsTyped DEF Disown, Is
<1>2. PICK s \in {"stop", "unanchor"} :
        /\ Moved(c, s)
        /\ \/ /\ s = "stop" /\ cmd[c].step = "disown"
              /\ owned' = owned \ {p} /\ UNCHANGED streams
           \/ /\ s = "unanchor" /\ cmd[c].step = "stop"
              /\ streams' = streams \ {p} /\ UNCHANGED owned
  BY <1>1, ProceedMoves DEF Disown, Is, CmdSteps
<1>3. OwnershipTypeOK'
  BY <1>2 DEF OwnershipInv, OwnershipTypeOK, Moved, CmdType, CmdSteps, Disown
<1>4. \A id \in PaneIds \ {p} : Kept(id)
  BY <1>2 DEF Disown, Kept, Sound
<1>5. Sound(p, cmd[c].step) => Sound(p, s)'
  BY <1>2 DEF Disown, Is, Sound, Unowned, DaemonSide, Anchored, Closed
<1> QED
  BY <1>1, <1>2, <1>3, <1>4, <1>5, CommandKeeps DEF Disown, Is, CmdSteps

\* The daemon claims a spawn, or refuses it.
LEMMA StepServeSpawn ==
  ASSUME OwnershipInv, NEW c \in Commands, ServeSpawn(c)
  PROVE  OwnershipInv'
<1>1. PICK p \in PaneIds : cmd[c].id = p
  BY CommandsTyped DEF ServeSpawn, Is
<1>2. PICK s \in {"refused", "alreadylive", "busy"} :
        Moved(c, s) /\ dBusy' = IF s = "busy" THEN dBusy \cup {p} ELSE dBusy
  BY <1>1, ProceedMoves DEF ServeSpawn, CmdSteps, Daemon!Claim
<1>3. UNCHANGED <<dLive, dEnding>>
  BY DEF ServeSpawn, Daemon!Claim
<1>4. OwnershipTypeOK'
  BY <1>2, <1>3 DEF OwnershipInv, OwnershipTypeOK, Moved, CmdType, CmdSteps, ServeSpawn
<1>5. \A id \in PaneIds \ {p} : Kept(id)
  BY <1>2, <1>3 DEF ServeSpawn, Kept, Sound
<1>6. Sound(p, cmd[c].step) => Sound(p, s)'
  BY <1>2, <1>3 DEF ServeSpawn, Is, Sound, Unowned, DaemonSide, Anchored, Closed
<1> QED
  BY <1>1, <1>2, <1>4, <1>5, <1>6, CommandKeeps DEF ServeSpawn, Is, CmdSteps

\* What the end of a spawn does to the daemon's panes.
LEMMA OutcomeIs ==
  ASSUME NEW p \in PaneIds, Outcome(p), OwnershipInv
  PROVE  /\ p \in dBusy /\ dBusy' = dBusy \ {p} /\ dEnding' = dEnding
         /\ dLive' \in {dLive, dLive \cup {p}}
         /\ rows' \subseteq PaneIds
  BY DEF Outcome, Publish, Daemon!Land, Daemon!Refuse, OwnershipInv, OwnershipTypeOK

\* The pane of the spawn lands, or it fails.
LEMMA StepFinishSpawn ==
  ASSUME OwnershipInv, NEW c \in Commands, FinishSpawn(c)
  PROVE  OwnershipInv'
<1>1. PICK p \in PaneIds : cmd[c].id = p
  BY CommandsTyped DEF FinishSpawn, Is
<1>2. PICK s \in {"spawned", "refused"} : Moved(c, s) /\ (s = "spawned" <=> p \in dLive')
  BY <1>1, ProceedMoves DEF FinishSpawn, CmdSteps
<1>3. /\ dBusy' = dBusy \ {p} /\ dEnding' = dEnding /\ rows' \subseteq PaneIds
      /\ dLive' \in {dLive, dLive \cup {p}}
  BY <1>1, OutcomeIs DEF FinishSpawn
<1>4. OwnershipTypeOK'
  BY <1>2, <1>3 DEF OwnershipInv, OwnershipTypeOK, Moved, CmdType, CmdSteps, FinishSpawn
<1>5. \A id \in PaneIds \ {p} : Kept(id)
  BY <1>3 DEF FinishSpawn, Kept, Sound
<1>6. Sound(p, cmd[c].step) => Sound(p, s)'
  BY <1>2, <1>3 DEF FinishSpawn, Is, Sound, Unowned, DaemonSide, Anchored, Closed
<1> QED
  BY <1>1, <1>2, <1>4, <1>5, <1>6, CommandKeeps DEF FinishSpawn, Is, CmdSteps

\* The daemon has cleaned up after a close.
LEMMA StepFinishClose ==
  ASSUME OwnershipInv, NEW c \in Commands, FinishClose(c)
  PROVE  OwnershipInv'
<1>1. PICK p \in PaneIds : cmd[c].id = p
  BY CommandsTyped DEF FinishClose, Is
<1>2. Moved(c, "disown")
  BY ProceedMoves DEF FinishClose, CmdSteps
<1>3. UNCHANGED <<dLive, dBusy>> /\ dEnding' \subseteq dEnding
  BY DEF FinishClose, CleansUp, Daemon!Release
<1>4. rows' \in {rows, dLive}
  BY <1>3 DEF FinishClose, CleansUp, Publish
<1>5. OwnershipTypeOK'
  BY <1>2, <1>3, <1>4 DEF OwnershipInv, OwnershipTypeOK, Moved, CmdType, CmdSteps, FinishClose
<1>6. \A id \in PaneIds : Kept(id)
  BY <1>3 DEF FinishClose, Kept, Sound
<1>7. Sound(p, cmd[c].step) => Sound(p, "disown")'
  BY <1>3 DEF FinishClose, Is, Sound, Unowned, DaemonSide, Anchored, Closed
<1> QED
  BY <1>1, <1>2, <1>5, <1>6, <1>7, CommandKeeps DEF FinishClose, Is, CmdSteps

-----------------------------------------------------------------------------
(* Commands that begin.                                                    *)

\* If another command has the id, the id is given up on; else this one is alone on it.
LEMMA BeginKeeps ==
  ASSUME OwnershipInv, NEW c \in Commands, NEW p \in PaneIds, NEW s \in CmdSteps \ {"rest"},
         Begin(c, p, s),
         UNCHANGED <<flag, appMemory, appDisk, regLock, bootVars, daemonVars>>,
         Sound(p, "rest") => Sound(p, s)
  PROVE  OwnershipInv'
<1>1. cmd \in CmdType /\ cmd[c].id = NoPaneId /\ boot = "up" /\ boot' = "up"
  BY CommandsTyped DEF Begin, Is
<1>2. /\ cmd' \in CmdType /\ cmd'[c].step = s /\ cmd'[c].id = p
      /\ \A d \in Commands \ {c} : cmd'[d] = cmd[d]
  BY <1>1 DEF CmdType, Begin
<1>3. astray \subseteq astray' /\ astray' \subseteq astray \cup {p}
  BY DEF Begin
<1>4. OwnershipTypeOK'
  BY <1>2, <1>3 DEF OwnershipInv, OwnershipTypeOK, CmdType, CmdSteps
<1>5. RestInv'
  BY <1>1, <1>2, OwnershipAssumption DEF OwnershipInv, RestInv
<1>6. ASSUME NEW id \in PaneIds \ astray' PROVE Defended(id)'
  <2>1. PICK t \in CmdSteps : WorkedOn(id, t) /\ Sound(id, t)
    BY <1>3 DEF OwnershipInv, Defended
  <2>2. \A r : Sound(id, r)' <=> Sound(id, r)
    BY DEF Sound
  <2>3. CASE id # p
    <3>1. \A d \in Commands : /\ cmd'[d].id = id <=> cmd[d].id = id
                              /\ cmd[d].id = id => cmd'[d] = cmd[d]
      BY <1>1, <1>2, <2>3, OwnershipAssumption
    <3>2. WorkedOn(id, t)'
      BY <2>1, <3>1 DEF WorkedOn
    <3> QED
      BY <2>1, <2>2, <3>2 DEF Defended
  <2>4. CASE id = p
    <3>1. \A d \in Commands : cmd[d].id # p
      BY <1>1, <2>4, OwnershipAssumption DEF Begin
    <3>2. t = "rest"
      BY <2>1, <2>4, <3>1 DEF WorkedOn
    <3>3. WorkedOn(p, s)'
      BY <1>2, <3>1 DEF WorkedOn
    <3> QED
      BY <2>1, <2>2, <2>4, <3>2, <3>3 DEF Defended
  <2> QED
    BY <2>3, <2>4
<1> QED
  BY <1>4, <1>5, <1>6 DEF OwnershipInv

\* A spawn, of an id the app has no daemon pane for.
LEMMA StepSpawnPane ==
  ASSUME OwnershipInv, NEW c \in Commands, NEW p \in PaneIds, SpawnPane(c, p)
  PROVE  OwnershipInv'
<1>1. Sound(p, "rest") => Sound(p, "route")
  BY DEF SpawnPane, Begin, Is, Sound, Unowned, DaemonSide, Anchored, Closed
<1> QED
  BY <1>1, BeginKeeps DEF SpawnPane, CmdSteps

\* A close, of a daemon pane, which is none of the app's own, or of one of its own.
LEMMA StepClosePane ==
  ASSUME OwnershipInv, NEW c \in Commands, NEW p \in PaneIds, ClosePane(c, p)
  PROVE  OwnershipInv'
<1>1. PICK s \in {"closing", "remove"} : Begin(c, p, s) /\ (s = "closing" <=> p \in owned)
  BY DEF ClosePane
<1>2. Sound(p, "rest") => Sound(p, s)
  BY <1>1 DEF Begin, Is, Sound, Unowned, DaemonSide, Anchored, Closed
<1> QED
  BY <1>1, <1>2, BeginKeeps DEF ClosePane, CmdSteps

-----------------------------------------------------------------------------
(* Steps that leave the commands where they are: reads, the daemon's own,  *)
(* and the flag.                                                           *)

LEMMA IdleKeeps ==
  ASSUME OwnershipInv, OwnershipTypeOK', UNCHANGED cmd, boot' = boot, astray' = astray,
         boot # "up" => UNCHANGED appMemory,
         \A id \in PaneIds, s \in CmdSteps : WorkedOn(id, s) /\ Sound(id, s) => Sound(id, s)'
  PROVE  OwnershipInv'
<1>1. RestInv'
  BY DEF OwnershipInv, RestInv
<1>2. \A id, s : WorkedOn(id, s)' <=> WorkedOn(id, s)
  BY DEF WorkedOn
<1> QED
  BY <1>1, <1>2 DEF OwnershipInv, Defended

LEMMA StepIdle ==
  ASSUME OwnershipInv, NEW p \in PaneIds, ReadPane(p) \/ DaemonReaps(p)
  PROVE  OwnershipInv'
<1>1. OwnershipTypeOK'
  BY DEF OwnershipInv, OwnershipTypeOK, ReadPane, DaemonReaps, Daemon!Remove,
     Daemon!Visit
<1>2. \A id \in PaneIds : Kept(id)
  BY DEF ReadPane, DaemonReaps, Daemon!Remove, Daemon!Visit, Kept, Sound
<1> QED
  BY <1>1, <1>2, IdleKeeps DEF ReadPane, DaemonReaps, Kept

\* What nobody waits for is of an id that is given up on.
LEMMA StepLate ==
  ASSUME OwnershipInv, NEW p \in PaneIds, ServeLate(p) \/ FinishLate(p)
  PROVE  OwnershipInv'
<1>1. ASSUME ServeLate(p) PROVE OwnershipInv'
  <2>1. OwnershipTypeOK'
    BY <1>1 DEF OwnershipInv, OwnershipTypeOK, ServeLate, Daemon!Claim
  <2>2. \A id \in PaneIds : Kept(id)
    BY <1>1 DEF ServeLate, Daemon!Claim, Kept, Sound
  <2> QED
    BY <1>1, <2>1, <2>2, IdleKeeps DEF ServeLate, Kept
<1>2. ASSUME FinishLate(p), Outcome(p) PROVE OwnershipInv'
  <2>1. /\ p \in dBusy /\ dBusy' = dBusy \ {p} /\ dEnding' = dEnding /\ rows' \subseteq PaneIds
        /\ dLive' \in {dLive, dLive \cup {p}}
    BY <1>2, OutcomeIs
  <2>2. OwnershipTypeOK'
    BY <1>2, <2>1 DEF OwnershipInv, OwnershipTypeOK, FinishLate
  <2>3. ASSUME NEW s \in CmdSteps, WorkedOn(p, s) PROVE ~Sound(p, s)
    BY <1>2, <2>1, <2>3 DEF FinishLate, WorkedOn, Sound
  <2>4. \A id \in PaneIds \ {p} : Kept(id)
    BY <1>2, <2>1 DEF FinishLate, Kept, Sound
  <2> QED
    BY <1>2, <2>2, <2>3, <2>4, IdleKeeps DEF FinishLate, Kept
<1>3. ASSUME FinishLate(p), CleansUp(p) PROVE OwnershipInv'
  <2>1. UNCHANGED <<dLive, dBusy>> /\ dEnding' \subseteq dEnding
    BY <1>3 DEF CleansUp, Daemon!Release
  <2>2. rows' \in {rows, dLive}
    BY <1>3, <2>1 DEF CleansUp, Publish
  <2>3. OwnershipTypeOK'
    BY <1>3, <2>1, <2>2 DEF OwnershipInv, OwnershipTypeOK, FinishLate
  <2>4. \A id \in PaneIds : Kept(id)
    BY <1>3, <2>1 DEF FinishLate, Kept, Sound
  <2> QED
    BY <1>3, <2>3, <2>4, IdleKeeps DEF FinishLate, Kept
<1> QED
  BY <1>1, <1>2, <1>3 DEF FinishLate

-----------------------------------------------------------------------------
(* The deaths of the two processes, and the start of the app.              *)

LEMMA RestingTyped == Resting \in [step : CmdSteps, id : PaneIds \cup {NoPaneId},
                                   read : SUBSET PaneIds]
  BY DEF Resting, CmdSteps

\* The daemon dies: the commands that wait for it rest, and it has no pane and no
\* spawn in flight.
LEMMA StepDaemonDies ==
  ASSUME OwnershipInv, DaemonDies
  PROVE  OwnershipInv'
<1>1. dLive' = {} /\ dBusy' = {} /\ dEnding' = {} /\ late' = {}
  BY DEF DaemonDies, Daemon!Die
<1>2. \A c \in Commands : cmd'[c] = cmd[c] \/ /\ cmd[c].step \in {"sent", "busy", "ending"}
                                              /\ cmd'[c] = Resting
  BY DEF DaemonDies, InFlight
<1>3. cmd' \in CmdType
  BY CommandsTyped, RestingTyped, <1>2 DEF CmdType, DaemonDies
<1>4. OwnershipTypeOK'
  BY <1>1, <1>3 DEF OwnershipInv, OwnershipTypeOK, CmdType, CmdSteps, DaemonDies
<1>5. RestInv'
  BY <1>2 DEF OwnershipInv, RestInv, DaemonDies, Resting
<1>6. ASSUME NEW id \in PaneIds \ astray' PROVE Defended(id)'
  <2>1. PICK s \in CmdSteps : WorkedOn(id, s) /\ Sound(id, s)
    BY DEF OwnershipInv, Defended, DaemonDies
  <2>2. \A c \in Commands : cmd'[c].id = id => cmd[c].id = id
    BY <1>2, OwnershipAssumption DEF Resting
  <2>3. WorkedOn(id, s)' \/ (WorkedOn(id, "rest")' /\ s \in {"sent", "busy", "ending"})
    BY <1>2, <2>1, <2>2, OwnershipAssumption DEF WorkedOn, Resting
  <2>4. Sound(id, s)'
    BY <1>1, <2>1 DEF Sound, DaemonDies
  <2>5. s \in {"sent", "busy", "ending"} => Sound(id, "rest")'
    BY <1>1, <2>1 DEF Sound, DaemonDies, Unowned, DaemonSide, Anchored, Closed
  <2> QED
    BY <2>3, <2>4, <2>5 DEF Defended, CmdSteps
<1> QED
  BY <1>4, <1>5, <1>6 DEF OwnershipInv

\* The app dies: what it had asked the daemon for is given up on, what the daemon
\* runs is written ahead.
LEMMA StepRestart ==
  ASSUME OwnershipInv, Restart
  PROVE  OwnershipInv'
<1>1. \A c \in Commands : cmd'[c] = Resting
  BY DEF Restart
<1>2. cmd' \in CmdType
  BY RestingTyped DEF CmdType, Restart
<1>3. \A c \in Commands : cmd[c].step \in InFlight => cmd[c].id \in PaneIds
  BY CommandsTyped DEF InFlight
<1>4. late' \subseteq PaneIds /\ astray' \subseteq PaneIds
  BY <1>3 DEF OwnershipInv, OwnershipTypeOK, Restart, InFlight
<1>5. restarts' \in 0 .. MaxRestarts
  BY OwnershipAssumption DEF OwnershipInv, OwnershipTypeOK, Restart
<1>6. OwnershipTypeOK'
  <2>1. FALSE \in BOOLEAN
    OBVIOUS
  <2> QED
    BY <1>2, <1>4, <1>5, <2>1 DEF OwnershipInv, OwnershipTypeOK, Restart, CmdType, CmdSteps
<1>7. RestInv'
  BY <1>1 DEF RestInv, Restart, Resting
<1>8. ASSUME NEW id \in PaneIds \ astray' PROVE Defended(id)'
  <2>1. PICK s \in CmdSteps : WorkedOn(id, s) /\ Sound(id, s)
    BY DEF OwnershipInv, Defended, Restart
  <2>2. \A c \in Commands : cmd[c].id = id => cmd[c].step \notin InFlight
    BY DEF Restart
  <2>3. id \notin dBusy /\ id \notin late'
    BY <2>1, <2>2 DEF Sound, WorkedOn, InFlight, Restart
  <2>4. Sound(id, "rest")'
    BY <2>1, <2>3 DEF Sound, Restart, Unowned, DaemonSide, Anchored, Closed
  <2>5. WorkedOn(id, "rest")'
    BY <1>1, OwnershipAssumption DEF WorkedOn, Resting
  <2> QED
    BY <2>4, <2>5 DEF Defended, CmdSteps
<1> QED
  BY <1>6, <1>7, <1>8 DEF OwnershipInv

\* The start of the app: it adopts every pane of the daemon it is not astray about.
LEMMA StepBoot ==
  ASSUME OwnershipInv, Survey \/ Wipe \/ Adopt
  PROVE  OwnershipInv'
<1>1. /\ UNCHANGED cmd /\ boot # "up" /\ localPanes = {} /\ owned = {} /\ streams = {}
      /\ \A c \in Commands : cmd[c].id = NoPaneId
  BY DEF OwnershipInv, RestInv, Survey, Wipe, Adopt
<1>2. OwnershipTypeOK'
  BY DEF OwnershipInv, OwnershipTypeOK, Survey, Wipe, Adopt
<1>3. RestInv'
  BY <1>1 DEF OwnershipInv, RestInv, Survey, Wipe, Adopt
<1>4. ASSUME NEW id \in PaneIds \ astray' PROVE Defended(id)'
  <2>1. PICK s \in CmdSteps : WorkedOn(id, s) /\ Sound(id, s)
    BY DEF OwnershipInv, Defended, Survey, Wipe, Adopt
  <2>2. s = "rest" /\ WorkedOn(id, "rest")'
    BY <1>1, <2>1, OwnershipAssumption DEF WorkedOn
  <2>3. CASE Survey
    BY <1>1, <2>1, <2>2, <2>3
    DEF Survey, Defended, Sound, Unowned, DaemonSide, Anchored, Closed
  <2>4. CASE Wipe
    BY <1>1, <2>1, <2>2, <2>4 DEF Wipe, Defended, Sound
  <2>5. CASE Adopt
    BY <1>1, <2>1, <2>2, <2>5
    DEF Adopt, Defended, Sound, Unowned, DaemonSide, Anchored, Closed
  <2> QED
    BY <2>3, <2>4, <2>5
<1> QED
  BY <1>2, <1>3, <1>4 DEF OwnershipInv

\* At first the app is up and empty, and so is the daemon.
LEMMA InitOwnership == OwnershipInit => OwnershipInv
<1> SUFFICES ASSUME OwnershipInit PROVE OwnershipInv
  OBVIOUS
<1>1. cmd \in CmdType /\ \A c \in Commands : cmd[c] = Resting
  BY RestingTyped DEF OwnershipInit, CmdType
<1>2. OwnershipTypeOK
  <2>1. 0 \in 0 .. MaxRestarts /\ FALSE \in BOOLEAN
    BY OwnershipAssumption
  <2> QED
    BY <1>1, <2>1 DEF OwnershipInit, Daemon!ServiceInit, OwnershipTypeOK, CmdType, CmdSteps
<1>3. RestInv
  BY <1>1 DEF OwnershipInit, RestInv, Resting
<1>4. ASSUME NEW id \in PaneIds PROVE Defended(id)
  <2>1. WorkedOn(id, "rest")
    BY <1>1, OwnershipAssumption DEF WorkedOn, Resting
  <2>2. Sound(id, "rest")
    BY DEF OwnershipInit, Daemon!ServiceInit, Sound, Unowned, DaemonSide, Anchored, Closed
  <2> QED
    BY <2>1, <2>2 DEF Defended, CmdSteps
<1> QED
  BY <1>2, <1>3, <1>4 DEF OwnershipInv

-----------------------------------------------------------------------------
\* What the steps of the commands rely on holds in every reachable state.
THEOREM OwnershipInvHolds == OwnershipSpec => []OwnershipInv
<1>1. OwnershipInv /\ [OwnershipNext]_ownVars => OwnershipInv'
  <2> SUFFICES ASSUME OwnershipInv, [OwnershipNext]_ownVars PROVE OwnershipInv'
    OBVIOUS
  <2>1. ASSUME NEW c \in Commands, CommandStep(c) PROVE OwnershipInv'
    BY <2>1, StepRoute, StepInsertLocal, StepReadRows, StepWriteRows, StepAnchor, StepDial,
       StepGiveUp, StepOwn, StepEnsureStream, StepAlreadyLive, StepUnanchor, StepRemoveLocal,
       StepDaemonClose, StepDisown, StepServeSpawn, StepFinishSpawn, StepFinishClose
    DEF CommandStep
  <2>2. ASSUME NEW c \in Commands, NEW id \in PaneIds, SpawnPane(c, id) \/ ClosePane(c, id)
        PROVE  OwnershipInv'
    BY <2>2, StepSpawnPane, StepClosePane
  <2>3. ASSUME NEW id \in PaneIds,
               ReadPane(id) \/ ServeLate(id) \/ FinishLate(id) \/ DaemonReaps(id)
        PROVE  OwnershipInv'
    BY <2>3, StepIdle, StepLate
  <2>4. ASSUME FlipFlag \/ UNCHANGED ownVars PROVE OwnershipInv'
    <3>1. OwnershipTypeOK'
      BY <2>4 DEF OwnershipInv, OwnershipTypeOK, FlipFlag, ownVars
    <3>2. \A id \in PaneIds : Kept(id)
      BY <2>4 DEF FlipFlag, ownVars, Kept, Sound
    <3> QED
      BY <2>4, <3>1, <3>2, IdleKeeps DEF FlipFlag, ownVars, Kept
  <2> QED
    BY <2>1, <2>2, <2>3, <2>4, StepRestart, StepDaemonDies, StepBoot DEF OwnershipNext
<1> QED
  BY <1>1, InitOwnership, PTL DEF OwnershipSpec

\* No id has an agent in the app and one in the daemon, whatever commands run
\* together, however the flag is flipped and however often the app or the daemon
\* starts again.
THEOREM NeverTwoOwners == OwnershipSpec => []OneOwner
<1>1. OwnershipInv => OneOwner
  BY DEF OwnershipInv, OwnershipTypeOK, RestInv, Defended, Sound, OneOwner, DaemonSide
<1> QED
  BY <1>1, OwnershipInvHolds, PTL

\* A crash between any two steps leaves no pane of the daemon that the write-ahead
\* store does not name.
THEOREM CrashFindsAnchor == OwnershipSpec => []AnchorCovers
<1>1. OwnershipInv => AnchorCovers
  BY DEF OwnershipInv, Defended, Sound, AnchorCovers
<1> QED
  BY <1>1, OwnershipInvHolds, PTL

\* A read that races a close leaves no reader without a pane behind.
THEOREM NoReaderLeft == OwnershipSpec => []StreamHasOwner
<1>1. OwnershipInv => StreamHasOwner
  BY DEF OwnershipInv, OwnershipTypeOK, Defended, WorkedOn, Sound, StreamHasOwner
<1> QED
  BY <1>1, OwnershipInvHolds, PTL

HIDE DEF appMemory, appDisk, bootVars, daemonVars, served

-----------------------------------------------------------------------------
(* Writes into a pane.                                                     *)

Kinds == {"esc", "body", "cr", "line", "enter"}
Holding(w) == at[w] \in {"prime", "body", "settle"} \/ (owner = "app" /\ at[w] = "esc")

(* Who holds what.                                                         *)
LockInv ==
  /\ \A w \in Writers : Holding(w) => holder[gen[w]] = w
  /\ \A w \in Writers : \A g \in 0 .. MaxPanes : holder[g] = w => gen[w] = g /\ Holding(w)
  /\ \A w \in Writers : gen[w] <= entry
  /\ \A w \in Writers : owner = "daemon" => at[w] # "prime"
  /\ \A w \in Writers : owner = "app" => at[w] \notin {"claim", "isclaude", "contains"}

Alive == pane.up /\ pane.alive

(* The body at i has no line after it.                                     *)
Open(i) ==
  /\ tty[i][1] = "body"
  /\ \A k \in i + 1 .. Len(tty) : ~IsLine(tty[k])

OpenInv ==
  /\ pane.alive => pane.up
  /\ entry = 0 /\ Alive =>
       \A i \in DOMAIN tty : Open(i) =>
         \E w \in Writers : at[w] = "settle" /\ tty[i] = Byte("body", w)

(* What a settling writer wrote is still there.                            *)
BodyInv ==
  \A w \in Writers :
    /\ born[w] <= pane.n
    /\ at[w] = "settle" /\ born[w] = pane.n /\ pane.alive =>
         \E i \in DOMAIN tty : tty[i] = Byte("body", w)
    /\ at[w] # "idle" => answer[w] = "none"

InputInv == InputTypeOK /\ LockInv /\ OpenInv /\ NoSplice /\ BodyInv /\ WrittenIsSubmitted
-----------------------------------------------------------------------------
\* At the start nobody writes and nothing is written.
LEMMA InitInput == InputInit => InputInv
<1> SUFFICES ASSUME InputInit PROVE InputInv
  OBVIOUS
<1>1. InputTypeOK
  <2>1. 0 \in 0 .. MaxPanes /\ MaxWrites \in 0 .. MaxWrites
    BY InputAssumption
  <2>2. FALSE \in BOOLEAN
    BY Zenon
  <2>3. pane \in [n : 0 .. MaxPanes, up : BOOLEAN, alive : BOOLEAN,
                  harness : Harnesses \cup {"bash"}]
    BY <2>1, <2>2 DEF InputInit
  <2>4. tty \in Seq({"esc", "body", "cr", "line", "enter"} \X Writers \X (0 .. MaxWrites))
    BY DEF InputInit
  <2> QED
    BY <2>1, <2>2, <2>3, <2>4 DEF InputInit, InputTypeOK, Inputs
<1>2. LockInv
  BY InputAssumption DEF InputInit, LockInv, Holding
<1>3. OpenInv /\ NoSplice /\ BodyInv /\ WrittenIsSubmitted
  BY InputAssumption DEF InputInit, OpenInv, NoSplice, BodyInv, WrittenIsSubmitted, Alive
<1> QED
  BY <1>1, <1>2, <1>3 DEF InputInv

\* The type of the state, in parts.
Bytes == Kinds \X Writers \X (0 .. MaxWrites)
Panes == [n : 0 .. MaxPanes, up : BOOLEAN, alive : BOOLEAN, harness : Harnesses \cup {"bash"}]
WriterSteps == {"idle", "claim", "isclaude", "esc", "contains", "lock", "wait", "prime", "body",
                "settle"}
LockType ==
  /\ owner \in Owners /\ entry \in 0 .. MaxPanes
  /\ holder \in [0 .. MaxPanes -> Writers \cup {Nobody}]
  /\ closing \in {"no", "remove", "drop", "forget"}
WriterType ==
  /\ at \in [Writers -> WriterSteps]
  /\ input \in [Writers -> Inputs]
  /\ gen \in [Writers -> 0 .. MaxPanes] /\ born \in [Writers -> 0 .. MaxPanes]
  /\ left \in [Writers -> 0 .. MaxWrites]
  /\ answer \in [Writers -> {"none", "ok", "unknown", "dead"}]
  /\ early \in SUBSET Writers

\* They make up the type invariant.
LEMMA TypeParts ==
  InputTypeOK <=> /\ LockType /\ WriterType /\ pane \in Panes /\ tty \in Seq(Bytes)
                  /\ primed \in BOOLEAN /\ spawning \in BOOLEAN
  BY DEF InputTypeOK, LockType, WriterType, Panes, Bytes, Kinds, WriterSteps

\* No step takes a variable out of its type.
LEMMA StepInputType ==
  ASSUME InputTypeOK, [InputNext]_inputvars
  PROVE  InputTypeOK'
<1> USE InputAssumption
<1>1. /\ LockType /\ WriterType /\ pane \in Panes /\ tty \in Seq(Bytes)
      /\ primed \in BOOLEAN /\ spawning \in BOOLEAN
  BY TypeParts
<1>2. LockType'
  <2>1. ASSUME NEW w \in Writers, WriterStep(w) PROVE LockType'
    BY <1>1, <2>1 DEF LockType, WriterType, WriterStep, ClaimPrime, IsClaude, WriteEsc, Contains,
       TakeEntry, Acquire, PrimeUnderLock, WriteBody, WriteCr, Return, panevars
  <2>2. ASSUME NEW w \in Writers, Call(w) PROVE LockType'
    BY <1>1, <2>2 DEF LockType, Call, panevars
  <2>3. CASE Insert \/ ForgetPrimed \/ Die \/ CloseStart \/ CloseRemove \/ CloseDropLock
             \/ CloseForget \/ UNCHANGED inputvars
    BY <1>1, <2>3 DEF LockType, Insert, ForgetPrimed, Die, CloseStart, CloseRemove, CloseDropLock,
       CloseForget, inputvars, panevars
  <2> QED
    BY <2>1, <2>2, <2>3 DEF InputNext
<1>3. WriterType'
  <2>1. ASSUME NEW w \in Writers, Call(w) PROVE WriterType'
    BY <1>1, <2>1 DEF WriterType, WriterSteps, Call, GoOn, Inputs
  <2>2. ASSUME NEW w \in Writers, ClaimPrime(w) \/ IsClaude(w) \/ Acquire(w) \/ PrimeUnderLock(w)
        PROVE  WriterType'
    BY <1>1, <2>2 DEF WriterType, WriterSteps, ClaimPrime, IsClaude, Acquire, PrimeUnderLock, GoOn
  <2>3. ASSUME NEW w \in Writers, TakeEntry(w) \/ WriteEsc(w) \/ Contains(w)
        PROVE  WriterType'
    <3>1. CASE TakeEntry(w)
      BY <1>1, <3>1 DEF WriterType, WriterSteps, TakeEntry, GoOn, LockType
    <3>2. CASE WriteEsc(w)
      BY <1>1, <3>2 DEF WriterType, WriterSteps, WriteEsc, GoOn
    <3>3. CASE Contains(w)
      BY <1>1, <3>3 DEF WriterType, WriterSteps, Contains, GoOn, Return
    <3> QED
      BY <2>3, <3>1, <3>2, <3>3
  <2>4. ASSUME NEW w \in Writers, WriteBody(w) \/ WriteCr(w) PROVE WriterType'
    BY <1>1, <2>4 DEF WriterType, WriterSteps, WriteBody, WriteCr, GoOn, Return, Panes
  <2>5. CASE Insert
    BY <1>1, <2>5 DEF WriterType, Insert, wrvars
  <2>6. CASE ForgetPrimed \/ Die \/ CloseStart \/ CloseRemove \/ CloseDropLock
             \/ CloseForget \/ UNCHANGED inputvars
    BY <1>1, <2>6 DEF WriterType, ForgetPrimed, Die, CloseStart, CloseRemove, CloseDropLock,
       CloseForget, inputvars, wrvars
  <2> QED
    BY <2>1, <2>2, <2>3, <2>4, <2>5, <2>6 DEF InputNext, WriterStep
<1>4. pane' \in Panes
  <2>1. ASSUME NEW w \in Writers, Call(w) \/ WriterStep(w) PROVE pane' \in Panes
    BY <1>1, <2>1 DEF Call, WriterStep, ClaimPrime, IsClaude, WriteEsc, Contains,
       TakeEntry, Acquire, PrimeUnderLock, WriteBody, WriteCr, panevars
  <2>2. CASE Insert
    <3>1. PICK h \in Harnesses :
            pane' = [n |-> pane.n + 1, up |-> TRUE, alive |-> TRUE, harness |-> h]
      BY <2>2 DEF Insert
    <3>2. pane.n + 1 \in 0 .. MaxPanes
      BY <1>1, <2>2 DEF Insert, Panes
    <3>3. TRUE \in BOOLEAN
      BY Zenon
    <3> QED
      BY <3>1, <3>2, <3>3 DEF Panes
  <2>3. FALSE \in BOOLEAN
    BY Zenon
  <2>4. CASE Die
    BY <1>1, <2>3, <2>4 DEF Die, Panes
  <2>5. CASE CloseStart \/ CloseRemove
    BY <1>1, <2>3, <2>5 DEF CloseStart, CloseRemove, Panes
  <2>6. CASE ForgetPrimed \/ CloseDropLock \/ CloseForget \/ UNCHANGED inputvars
    BY <1>1, <2>6 DEF ForgetPrimed, CloseDropLock, CloseForget, inputvars, panevars
  <2> QED
    BY <2>1, <2>2, <2>4, <2>5, <2>6 DEF InputNext
<1>5. tty' \in Seq(Bytes)
  <2>1. ASSUME NEW w \in Writers, NEW k \in Kinds, Put(k, w) PROVE tty' \in Seq(Bytes)
    <3>1. Byte(k, w) \in Bytes
      BY <1>1, <2>1 DEF Byte, Bytes, WriterType
    <3> QED
      BY <1>1, <2>1, <3>1, AppendProperties DEF Put
  <2>2. ASSUME NEW w \in Writers, WriterStep(w) PROVE tty' \in Seq(Bytes)
    BY <1>1, <2>1, <2>2 DEF Kinds, WriterStep, ClaimPrime, IsClaude, WriteEsc, Contains,
       TakeEntry, Acquire, PrimeUnderLock, WriteBody, WriteCr, panevars
  <2>3. ASSUME NEW w \in Writers, Call(w) PROVE tty' \in Seq(Bytes)
    BY <1>1, <2>3 DEF Call, panevars
  <2>4. CASE Insert
    BY <2>4 DEF Insert
  <2>5. CASE ForgetPrimed \/ Die \/ CloseStart \/ CloseRemove \/ CloseDropLock
             \/ CloseForget \/ UNCHANGED inputvars
    BY <1>1, <2>5 DEF ForgetPrimed, Die, CloseStart, CloseRemove, CloseDropLock, CloseForget,
       inputvars, panevars
  <2> QED
    BY <2>2, <2>3, <2>4, <2>5 DEF InputNext
<1>6. primed' \in BOOLEAN /\ spawning' \in BOOLEAN
  <2>1. TRUE \in BOOLEAN /\ FALSE \in BOOLEAN
    BY Zenon
  <2>2. ASSUME NEW w \in Writers, PrimeUnderLock(w) PROVE primed' \in BOOLEAN
    BY <1>1, <2>2, Zenon DEF PrimeUnderLock
  <2>3. ASSUME NEW w \in Writers, PrimeUnderLock(w) PROVE spawning' = spawning
    BY <2>3 DEF PrimeUnderLock, panevars
  <2>4. ASSUME NEW w \in Writers, WriterStep(w), ~PrimeUnderLock(w)
        PROVE  (primed' = TRUE \/ primed' = primed) /\ spawning' = spawning
    BY <2>4 DEF WriterStep, ClaimPrime, IsClaude, WriteEsc, Contains, TakeEntry, Acquire,
       WriteBody, WriteCr, panevars
  <2>5. CASE ~\E w \in Writers : WriterStep(w)
    <3>1. /\ primed' = FALSE \/ UNCHANGED primed
          /\ spawning' = TRUE \/ spawning' = FALSE \/ UNCHANGED spawning
      BY <2>5 DEF InputNext, Call, Insert, ForgetPrimed, Die, CloseStart, CloseRemove,
         CloseDropLock, CloseForget, inputvars, panevars
    <3> QED
      BY <1>1, <2>1, <3>1
  <2> QED
    BY <1>1, <2>1, <2>2, <2>3, <2>4, <2>5
<1> QED
  BY <1>2, <1>3, <1>4, <1>5, <1>6, TypeParts DEF InputTypeOK, LockType, WriterType, Panes, Bytes,
     Kinds, WriterSteps

\* No step gives the write lock to two writers, or lets one go on without it.
LEMMA StepLock ==
  ASSUME InputTypeOK, LockInv, [InputNext]_inputvars
  PROVE  LockInv'
<1> USE InputAssumption
<1>1. LockType /\ WriterType
  BY TypeParts
<1>2. ASSUME NEW w \in Writers, Call(w) PROVE LockInv'
  BY <1>1, <1>2 DEF LockType, WriterType, WriterSteps, LockInv, Holding, Call, GoOn, Return, panevars
<1>3. ASSUME NEW w \in Writers, ClaimPrime(w) PROVE LockInv'
  BY <1>1, <1>3 DEF LockType, WriterType, WriterSteps, LockInv, Holding, ClaimPrime, GoOn, Return, panevars
<1>4. ASSUME NEW w \in Writers, IsClaude(w) PROVE LockInv'
  BY <1>1, <1>4 DEF LockType, WriterType, WriterSteps, LockInv, Holding, IsClaude, GoOn, Return, panevars
<1>5. ASSUME NEW w \in Writers, WriteEsc(w) PROVE LockInv'
  BY <1>1, <1>5 DEF LockType, WriterType, WriterSteps, LockInv, Holding, WriteEsc, GoOn, Return, panevars
<1>6. ASSUME NEW w \in Writers, Contains(w) PROVE LockInv'
  BY <1>1, <1>6 DEF LockType, WriterType, WriterSteps, LockInv, Holding, Contains, GoOn, Return, panevars
<1>7. ASSUME NEW w \in Writers, TakeEntry(w) PROVE LockInv'
  BY <1>1, <1>7 DEF LockType, WriterType, WriterSteps, LockInv, Holding, TakeEntry, GoOn, Return, panevars
<1>8. ASSUME NEW w \in Writers, Acquire(w) PROVE LockInv'
  BY <1>1, <1>8 DEF LockType, WriterType, WriterSteps, LockInv, Holding, Acquire, GoOn, Return, panevars
<1>9. ASSUME NEW w \in Writers, PrimeUnderLock(w) PROVE LockInv'
  <2>1. /\ at[w] = "prime" /\ UNCHANGED <<owner, entry, holder, gen>>
        /\ at' = [at EXCEPT ![w] = "esc"] \/ at' = [at EXCEPT ![w] = "body"]
    BY <1>9 DEF PrimeUnderLock, GoOn
  <2>2. owner = "app"
    BY <1>1, <2>1 DEF LockType, LockInv
  <2>3. \A q \in Writers : Holding(q)' <=> Holding(q)
    BY <1>1, <2>1, <2>2 DEF WriterType, Holding
  <2>4. \A q \in Writers : at'[q] \notin {"claim", "isclaude", "contains"}
    BY <1>1, <2>1, <2>2 DEF WriterType, LockInv
  <2> QED
    BY <2>1, <2>2, <2>3, <2>4 DEF LockInv
<1>10. ASSUME NEW w \in Writers, WriteBody(w) PROVE LockInv'
  <2>1. /\ at[w] = "body" /\ UNCHANGED <<owner, entry, gen>>
        /\ \/ at' = [at EXCEPT ![w] = "settle"] /\ UNCHANGED holder
           \/ at' = [at EXCEPT ![w] = "idle"] /\ holder' = [holder EXCEPT ![gen[w]] = Nobody]
    BY <1>10 DEF WriteBody, GoOn, Return, LockInv, Holding
  <2>2. \A q \in Writers : at'[q] # at[q] => q = w /\ at'[q] \in {"settle", "idle"}
    BY <1>1, <2>1 DEF WriterType
  <2>3. \A q \in Writers \ {w} : Holding(q)' <=> Holding(q)
    BY <2>1, <2>2 DEF Holding
  <2>4. CASE at'[w] = "settle" /\ UNCHANGED holder
    BY <2>1, <2>2, <2>3, <2>4 DEF LockInv, Holding
  <2>5. CASE at'[w] = "idle" /\ holder' = [holder EXCEPT ![gen[w]] = Nobody]
    <3>1. holder[gen[w]] = w /\ gen[w] \in 0 .. MaxPanes
      BY <1>1, <2>1 DEF LockInv, Holding, WriterType
    <3>2. \A g \in 0 .. MaxPanes :
            holder'[g] = IF g = gen[w] THEN Nobody ELSE holder[g]
      BY <1>1, <2>5 DEF LockType
    <3>3. \A q \in Writers \ {w} : Holding(q) => gen[q] # gen[w] /\ gen[q] \in 0 .. MaxPanes
      BY <1>1, <3>1 DEF LockInv, WriterType
    <3> QED
      BY <2>1, <2>2, <2>3, <2>5, <3>1, <3>2, <3>3 DEF LockInv, Holding
  <2> QED
    BY <1>1, <2>1, <2>4, <2>5 DEF WriterType
<1>11. ASSUME NEW w \in Writers, WriteCr(w) PROVE LockInv'
  BY <1>1, <1>11 DEF LockType, WriterType, WriterSteps, LockInv, Holding, WriteCr, GoOn, Return, panevars
<1>12. CASE CloseDropLock
  BY <1>1, <1>12 DEF LockType, WriterType, LockInv, Holding, CloseDropLock, wrvars
<1>13. CASE Insert \/ ForgetPrimed \/ Die \/ CloseStart \/ CloseRemove \/ CloseForget
            \/ UNCHANGED inputvars
  BY <1>13 DEF LockInv, Holding, Insert, ForgetPrimed, Die, CloseStart, CloseRemove, CloseForget,
     inputvars, wrvars
<1> QED
  BY <1>2, <1>3, <1>4, <1>5, <1>6, <1>7, <1>8, <1>9, <1>10, <1>11, <1>12, <1>13 DEF InputNext, WriterStep

-----------------------------------------------------------------------------
\* The body of a split line is followed by its own CR.
Paired ==
  \A i \in DOMAIN tty : \A j \in i + 1 .. Len(tty) :
    /\ tty[i][1] = "body" /\ IsLine(tty[j])
    /\ \A k \in i + 1 .. j - 1 : ~IsLine(tty[k])
    => tty[j] = <<"cr", tty[i][2], tty[i][3]>>

\* A byte after the others.
LEMMA PutLast ==
  ASSUME tty \in Seq(Bytes), NEW k \in Kinds, NEW w \in Writers, left[w] \in 0 .. MaxWrites,
         Put(k, w)
  PROVE  /\ Len(tty) \in Nat /\ Len(tty') = Len(tty) + 1
         /\ DOMAIN tty = 1 .. Len(tty) /\ DOMAIN tty' = 1 .. Len(tty) + 1
         /\ \A i \in 1 .. Len(tty) : tty'[i] = tty[i]
         /\ tty'[Len(tty) + 1] = Byte(k, w)
<1>1. Byte(k, w) \in Bytes
  BY DEF Byte, Bytes
<1> QED
  BY <1>1, AppendProperties DEF Put

\* An Esc neither opens nor closes a line.
LEMMA PutEsc ==
  ASSUME tty \in Seq(Bytes), NEW w \in Writers, left[w] \in 0 .. MaxWrites, Put("esc", w)
  PROVE  /\ Paired => Paired'
         /\ \A i \in DOMAIN tty' : Open(i)' => i \in DOMAIN tty /\ Open(i) /\ tty'[i] = tty[i]
<1>1. "esc" \in Kinds /\ Byte("esc", w)[1] = "esc"
  BY DEF Kinds, Byte
<1>2. /\ Len(tty) \in Nat /\ Len(tty') = Len(tty) + 1
      /\ DOMAIN tty = 1 .. Len(tty) /\ DOMAIN tty' = 1 .. Len(tty) + 1
      /\ \A i \in 1 .. Len(tty) : tty'[i] = tty[i]
      /\ tty'[Len(tty) + 1][1] = "esc"
  BY <1>1, PutLast
<1>3. Paired => Paired'
  BY <1>2 DEF Paired, IsLine
<1>4. ASSUME NEW i \in DOMAIN tty', Open(i)'
      PROVE  i \in DOMAIN tty /\ Open(i) /\ tty'[i] = tty[i]
  BY <1>2, <1>4 DEF Open, IsLine
<1> QED
  BY <1>3, <1>4

\* A line may come when no body is open but the one it submits; afterwards only a
\* body is open, and only itself.
LEMMA PutLine ==
  ASSUME tty \in Seq(Bytes), NEW k \in Kinds \ {"esc"}, NEW w \in Writers,
         left[w] \in 0 .. MaxWrites, Put(k, w),
         \A i \in DOMAIN tty : Open(i) => k = "cr" /\ tty[i] = Byte("body", w)
  PROVE  /\ Paired => Paired'
         /\ \A i \in DOMAIN tty' : Open(i)' => k = "body" /\ tty'[i] = Byte("body", w)
<1>1. Byte(k, w)[1] = k /\ k \in Kinds
  BY DEF Byte
<1>2. /\ Len(tty) \in Nat /\ Len(tty') = Len(tty) + 1
      /\ DOMAIN tty = 1 .. Len(tty) /\ DOMAIN tty' = 1 .. Len(tty) + 1
      /\ \A i \in 1 .. Len(tty) : tty'[i] = tty[i]
      /\ tty'[Len(tty) + 1] = Byte(k, w)
  BY <1>1, PutLast
<1>3. ASSUME Paired PROVE Paired'
  <2> SUFFICES ASSUME NEW i \in 1 .. Len(tty) + 1, NEW j \in i + 1 .. Len(tty) + 1,
                      tty'[i][1] = "body", IsLine(tty'[j]),
                      \A m \in i + 1 .. j - 1 : ~IsLine(tty'[m])
               PROVE  tty'[j] = <<"cr", tty'[i][2], tty'[i][3]>>
    BY <1>2 DEF Paired, IsLine
  <2>1. i \in 1 .. Len(tty) /\ tty'[i] = tty[i]
    BY <1>2
  <2>2. CASE j = Len(tty) + 1
    <3>1. Open(i)
      BY <1>2, <2>1, <2>2 DEF Open, IsLine
    <3>2. k = "cr" /\ tty[i] = Byte("body", w)
      BY <1>2, <2>1, <3>1
    <3> QED
      BY <1>2, <2>1, <2>2, <3>2 DEF Byte
  <2>3. CASE j # Len(tty) + 1
    <3>1. j \in i + 1 .. Len(tty) /\ tty'[j] = tty[j]
      BY <1>2, <2>1, <2>3
    <3>2. \A m \in i + 1 .. j - 1 : ~IsLine(tty[m])
      <4>1. \A m \in i + 1 .. j - 1 : tty'[m] = tty[m]
        BY <1>2, <2>1, <3>1
      <4> QED
        BY <4>1 DEF IsLine
    <3>3. IsLine(tty[j]) /\ tty[i][1] = "body" /\ i \in DOMAIN tty
      BY <1>2, <2>1, <3>1 DEF IsLine
    <3> QED
      BY <1>3, <2>1, <3>1, <3>2, <3>3 DEF Paired
  <2> QED
    BY <2>2, <2>3
<1>4. ASSUME NEW i \in DOMAIN tty', Open(i)'
      PROVE  k = "body" /\ tty'[i] = Byte("body", w)
  <2>1. i = Len(tty) + 1
    BY <1>1, <1>2, <1>4 DEF Open, IsLine
  <2> QED
    BY <1>1, <1>2, <1>4, <2>1 DEF Open
<1> QED
  BY <1>3, <1>4

\* The lock that no close has dropped has one holder.
LEMMA OneHolder ==
  ASSUME InputTypeOK, LockInv, entry = 0, NEW v \in Writers, NEW w \in Writers,
         Holding(v), Holding(w)
  PROVE  v = w
<1>1. gen[v] = 0 /\ gen[w] = 0
  <2>1. WriterType /\ MaxPanes \in Nat
    BY TypeParts, InputAssumption
  <2> QED
    BY <2>1 DEF LockInv, WriterType
<1> QED
  BY <1>1 DEF LockInv

\* A step that writes nothing lets the open body be: its writer is at its settle as
\* before, or its pane has died.
WritesNothing ==
  /\ UNCHANGED tty
  /\ entry' = 0 => entry = 0
  /\ Alive' => Alive
  /\ pane'.alive => pane'.up
  /\ Alive' => \A w \in Writers : at[w] = "settle" => at'[w] = "settle" /\ left'[w] = left[w]

\* Such a step keeps the two invariants.
LEMMA QuietKeeps ==
  ASSUME OpenInv, NoSplice, WritesNothing
  PROVE  OpenInv' /\ NoSplice'
<1>1. \A i \in DOMAIN tty : Open(i)' <=> Open(i)
  BY DEF WritesNothing, Open
<1>2. NoSplice'
  BY DEF WritesNothing, NoSplice
<1>3. OpenInv'
  BY <1>1 DEF WritesNothing, OpenInv, Byte
<1> QED
  BY <1>2, <1>3

\* No step puts a line between a body and its CR.
LEMMA StepSplice ==
  ASSUME InputTypeOK, LockInv, OpenInv, NoSplice, [InputNext]_inputvars
  PROVE  OpenInv' /\ NoSplice'
<1> USE InputAssumption
<1>1. /\ LockType /\ WriterType /\ pane \in Panes /\ tty \in Seq(Bytes)
      /\ \A w \in Writers : left[w] \in 0 .. MaxWrites
  BY TypeParts DEF WriterType
<1>2. NoSplice <=> (entry = 0 => Paired)
  BY DEF NoSplice, Paired
<1>3. NoSplice' <=> (entry' = 0 => Paired')
  BY DEF NoSplice, Paired
<1>4. ASSUME NEW w \in Writers, Call(w) \/ ClaimPrime(w) \/ IsClaude(w) \/ Contains(w)
                                \/ TakeEntry(w) \/ Acquire(w) \/ PrimeUnderLock(w)
      PROVE  WritesNothing
  BY <1>1, <1>4 DEF WritesNothing, OpenInv, Alive, Call, ClaimPrime, IsClaude, Contains, TakeEntry,
     Acquire, PrimeUnderLock, GoOn, Return, WriterType, panevars
<1>5. CASE ForgetPrimed \/ Die \/ CloseStart \/ CloseRemove \/ CloseDropLock \/ CloseForget
           \/ UNCHANGED inputvars
  <2>1. WritesNothing
    <3>1. UNCHANGED <<tty, at, left>>
      BY <1>5 DEF ForgetPrimed, Die, CloseStart, CloseRemove, CloseDropLock, CloseForget,
         inputvars, wrvars, panevars
    <3>2. entry' = 0 => entry = 0
      BY <1>1, <1>5 DEF LockType, ForgetPrimed, Die, CloseStart, CloseRemove, CloseDropLock,
         CloseForget, inputvars
    <3>3. pane' = pane \/ (pane'.alive = FALSE)
      BY <1>1, <1>5 DEF Panes, ForgetPrimed, Die, CloseStart, CloseRemove, CloseDropLock,
         CloseForget, inputvars, panevars
    <3> QED
      BY <3>1, <3>2, <3>3 DEF WritesNothing, OpenInv, Alive
  <2> QED
    BY <2>1, QuietKeeps
<1>6. CASE Insert
  <2>1. tty' = <<>> /\ pane'.up
    BY <1>6 DEF Insert
  <2> QED
    BY <2>1 DEF OpenInv, NoSplice
<1>7. ASSUME NEW w \in Writers, WriteEsc(w) PROVE OpenInv' /\ NoSplice'
  <2>1. UNCHANGED <<pane, entry, left>> /\ \A q \in Writers : at[q] = "settle" => at'[q] = "settle"
    BY <1>1, <1>7 DEF WriteEsc, GoOn, WriterType
  <2>2. CASE UNCHANGED tty
    <3>1. WritesNothing
      BY <2>1, <2>2 DEF WritesNothing, OpenInv, Alive
    <3> QED
      BY <3>1, QuietKeeps
  <2>3. CASE Put("esc", w)
    <3>1. /\ Paired => Paired'
          /\ \A i \in DOMAIN tty' : Open(i)' => i \in DOMAIN tty /\ Open(i) /\ tty'[i] = tty[i]
      BY <1>1, <2>3, PutEsc
    <3> QED
      BY <1>2, <1>3, <2>1, <3>1 DEF OpenInv, Alive, Byte
  <2> QED
    BY <1>7, <2>2, <2>3 DEF WriteEsc
<1>8. ASSUME NEW w \in Writers, WriteBody(w) PROVE OpenInv' /\ NoSplice'
  <2>1. UNCHANGED <<pane, entry, left, gen, owner>> /\ at[w] = "body"
        /\ at'[w] \in {"settle", "idle"} /\ \A q \in Writers \ {w} : at'[q] = at[q]
    BY <1>1, <1>8 DEF WriteBody, GoOn, Return, WriterType, panevars
  <2>2. CASE ~Alive
    <3>1. UNCHANGED tty
      BY <1>8, <2>2 DEF WriteBody, Alive
    <3>2. WritesNothing
      BY <2>1, <2>2, <3>1 DEF WritesNothing, OpenInv, Alive
    <3> QED
      BY <3>2, QuietKeeps
  <2>3. CASE Alive /\ entry = 0
    <3>1. PICK k \in {"body", "line", "enter"} :
            Put(k, w) /\ (k = "body" => at'[w] = "settle")
      BY <1>1, <1>8, <2>3 DEF WriteBody, Alive, GoOn, WriterType
    <3>2. \A i \in DOMAIN tty : ~Open(i)
      <4>1. \A v \in Writers : at[v] # "settle"
        BY <2>1, <2>3, OneHolder DEF Holding
      <4> QED
        BY <2>3, <4>1 DEF OpenInv
    <3>3. /\ Paired => Paired'
          /\ \A i \in DOMAIN tty' : Open(i)' => k = "body" /\ tty'[i] = Byte("body", w)
      <4>1. k \in Kinds \ {"esc"}
        BY <3>1 DEF Kinds
      <4> QED
        BY <1>1, <3>1, <3>2, <4>1, PutLine
    <3> QED
      BY <1>2, <1>3, <2>1, <2>3, <3>1, <3>3 DEF OpenInv, Alive, Byte
  <2>4. CASE entry # 0
    BY <2>1, <2>4 DEF OpenInv, NoSplice
  <2> QED
    BY <2>2, <2>3, <2>4
<1>9. ASSUME NEW w \in Writers, WriteCr(w) PROVE OpenInv' /\ NoSplice'
  <2>1. UNCHANGED <<pane, entry, left, gen, owner>> /\ at[w] = "settle"
        /\ \A q \in Writers \ {w} : at'[q] = at[q]
    BY <1>1, <1>9 DEF WriteCr, GoOn, Return, WriterType, panevars
  <2>2. CASE ~Alive
    <3>1. UNCHANGED tty
      BY <1>9, <2>2 DEF WriteCr, Alive
    <3>2. WritesNothing
      BY <2>1, <2>2, <3>1 DEF WritesNothing, OpenInv, Alive
    <3> QED
      BY <3>2, QuietKeeps
  <2>3. CASE Alive /\ entry = 0
    <3>1. Put("cr", w)
      BY <1>9, <2>3 DEF WriteCr, Alive
    <3>2. \A i \in DOMAIN tty : Open(i) => tty[i] = Byte("body", w)
      <4>1. \A v \in Writers : at[v] = "settle" => v = w
        BY <2>1, <2>3, OneHolder DEF Holding
      <4> QED
        BY <2>3, <4>1 DEF OpenInv
    <3>3. /\ Paired => Paired'
          /\ \A i \in DOMAIN tty' : ~Open(i)'
      <4>1. "cr" \in Kinds \ {"esc"} /\ "cr" # "body"
        BY DEF Kinds
      <4> QED
        BY <1>1, <3>1, <3>2, <4>1, PutLine
    <3> QED
      BY <1>2, <1>3, <2>1, <2>3, <3>3 DEF OpenInv, Alive
  <2>4. CASE entry # 0
    BY <2>1, <2>4 DEF OpenInv, NoSplice
  <2> QED
    BY <2>2, <2>3, <2>4
<1> QED
  BY <1>4, <1>5, <1>6, <1>7, <1>8, <1>9, QuietKeeps DEF InputNext, WriterStep

-----------------------------------------------------------------------------
\* What is in the terminal stays there while the pane is the same.
LEMMA PutKeeps ==
  ASSUME tty \in Seq(Bytes), NEW k \in Kinds, NEW w \in Writers, left[w] \in 0 .. MaxWrites,
         Put(k, w), NEW i \in DOMAIN tty
  PROVE  i \in DOMAIN tty' /\ tty'[i] = tty[i]
  BY PutLast

\* A line of the writer w is in the terminal, with its submit.
Submitted(w) ==
  \E i \in DOMAIN tty :
    \/ tty[i] = Byte("line", w) \/ tty[i] = Byte("enter", w)
    \/ tty[i] = Byte("body", w) /\ \E j \in i + 1 .. Len(tty) : tty[j] = Byte("cr", w)
BodyIn(w) == \E i \in DOMAIN tty : tty[i] = Byte("body", w)

BodyOf(w) ==
  /\ born[w] <= pane.n
  /\ at[w] = "settle" /\ born[w] = pane.n /\ pane.alive => BodyIn(w)
  /\ at[w] # "idle" => answer[w] = "none"
  /\ answer[w] = "ok" /\ born[w] = pane.n /\ pane.alive => Submitted(w)

\* They are the two invariants, writer by writer.
LEMMA BodyParts == BodyInv /\ WrittenIsSubmitted <=> \A w \in Writers : BodyOf(w)
  BY DEF BodyInv, WrittenIsSubmitted, BodyOf, BodyIn, Submitted

\* Both survive another byte.
LEMMA PutKeepsLines ==
  ASSUME tty \in Seq(Bytes), NEW k \in Kinds, NEW w \in Writers, left[w] \in 0 .. MaxWrites,
         Put(k, w), NEW q \in Writers, left'[q] = left[q]
  PROVE  (BodyIn(q) => BodyIn(q)') /\ (Submitted(q) => Submitted(q)')
<1>1. /\ Len(tty) \in Nat /\ Len(tty') = Len(tty) + 1
      /\ DOMAIN tty = 1 .. Len(tty) /\ DOMAIN tty' = 1 .. Len(tty) + 1
      /\ \A i \in 1 .. Len(tty) : tty'[i] = tty[i]
  BY PutLast
<1>2. BodyIn(q) => BodyIn(q)'
  BY <1>1 DEF BodyIn, Byte
<1>3. Submitted(q) => Submitted(q)'
  BY <1>1 DEF Submitted, Byte
<1> QED
  BY <1>2, <1>3

\* No step answers for a line that is not there.
LEMMA StepBody ==
  ASSUME InputTypeOK, [InputNext]_inputvars, OpenInv, \A w \in Writers : BodyOf(w)
  PROVE  \A w \in Writers : BodyOf(w)'
<1> USE InputAssumption
<1>1. /\ LockType /\ WriterType /\ pane \in Panes /\ tty \in Seq(Bytes) /\ pane.n \in Nat
      /\ \A w \in Writers : left[w] \in 0 .. MaxWrites /\ born[w] \in Nat
  BY TypeParts DEF WriterType, Panes
<1>2. \A w \in Writers : BodyOf(w)
  OBVIOUS
<1>3. ASSUME UNCHANGED <<tty, born>>, pane'.n = pane.n, pane'.alive => pane.alive,
             \A w \in Writers :
               \/ at'[w] = at[w] /\ answer'[w] = answer[w] /\ left'[w] = left[w]
               \/ at'[w] # "settle" /\ answer'[w] = "none"
               \/ at'[w] # "settle" /\ answer'[w] = answer[w] /\ at[w] # "idle"
               \/ at'[w] = "idle" /\ answer'[w] # "ok"
               \/ at'[w] = "idle" /\ ~pane.alive
      PROVE  \A w \in Writers : BodyOf(w)'
  <2> SUFFICES ASSUME NEW w \in Writers PROVE BodyOf(w)'
    OBVIOUS
  <2>1. BodyOf(w)
    BY <1>2
  <2>2. CASE at'[w] = at[w] /\ answer'[w] = answer[w] /\ left'[w] = left[w]
    <3>1. (BodyIn(w)' <=> BodyIn(w)) /\ (Submitted(w)' <=> Submitted(w))
      BY <1>3, <2>2 DEF BodyIn, Submitted, Byte
    <3> QED
      BY <1>3, <2>1, <2>2, <3>1 DEF BodyOf
  <2>3. CASE \/ at'[w] # "settle" /\ answer'[w] = "none"
             \/ at'[w] # "settle" /\ answer'[w] = answer[w] /\ at[w] # "idle"
             \/ at'[w] = "idle" /\ answer'[w] # "ok"
             \/ at'[w] = "idle" /\ ~pane.alive
    BY <1>3, <2>1, <2>3 DEF BodyOf
  <2> QED
    BY <1>3, <2>2, <2>3
<1>4. ASSUME NEW w \in Writers, Call(w) PROVE \A q \in Writers : BodyOf(q)'
  <2>1. UNCHANGED <<tty, born, pane>>
    BY <1>4 DEF Call, panevars
  <2>2. \A q \in Writers \ {w} : at'[q] = at[q] /\ answer'[q] = answer[q] /\ left'[q] = left[q]
    BY <1>1, <1>4 DEF Call, GoOn, WriterType
  <2>3. at'[w] # "settle" /\ answer'[w] = "none"
    BY <1>1, <1>4 DEF Call, GoOn, WriterType
  <2> QED
    BY <1>3, <2>1, <2>2, <2>3
<1>5. ASSUME NEW w \in Writers, ClaimPrime(w) \/ IsClaude(w) \/ TakeEntry(w) \/ Acquire(w)
                                \/ PrimeUnderLock(w) \/ Contains(w)
      PROVE  \A q \in Writers : BodyOf(q)'
  <2>1. UNCHANGED <<tty, born, pane, left>>
    BY <1>5 DEF ClaimPrime, IsClaude, TakeEntry, Acquire, PrimeUnderLock, Contains, panevars
  <2>2. \A q \in Writers \ {w} : at'[q] = at[q] /\ answer'[q] = answer[q]
    BY <1>1, <1>5 DEF ClaimPrime, IsClaude, TakeEntry, Acquire, PrimeUnderLock, Contains, GoOn,
       Return, WriterType
  <2>3. \/ at'[w] # "settle" /\ answer'[w] = answer[w] /\ at[w] # "idle"
        \/ at'[w] = "idle" /\ answer'[w] # "ok"
    BY <1>1, <1>5 DEF ClaimPrime, IsClaude, TakeEntry, Acquire, PrimeUnderLock, Contains, GoOn,
       Return, WriterType
  <2> QED
    BY <1>3, <2>1, <2>2, <2>3
<1>6. ASSUME NEW w \in Writers, WriteEsc(w) PROVE \A q \in Writers : BodyOf(q)'
  <2> SUFFICES ASSUME NEW q \in Writers PROVE BodyOf(q)'
    OBVIOUS
  <2>1. UNCHANGED <<born, pane, left, answer>> /\ BodyOf(q)
        /\ (at'[q] = at[q] \/ (at'[q] # "settle" /\ at[q] # "idle"))
    BY <1>1, <1>2, <1>6 DEF WriteEsc, GoOn, WriterType
  <2>2. Put("esc", w) \/ UNCHANGED tty
    BY <1>6 DEF WriteEsc
  <2>3. (BodyIn(q) => BodyIn(q)') /\ (Submitted(q) => Submitted(q)')
    <3>1. CASE Put("esc", w)
      BY <1>1, <2>1, <3>1, PutKeepsLines DEF Kinds
    <3>2. CASE UNCHANGED tty
      BY <2>1, <3>2 DEF BodyIn, Submitted, Byte
    <3> QED
      BY <2>2, <3>1, <3>2
  <2> QED
    BY <2>1, <2>3 DEF BodyOf
<1>7. ASSUME NEW w \in Writers, WriteBody(w) PROVE \A q \in Writers : BodyOf(q)'
  <2>1. UNCHANGED <<pane, left>> /\ at[w] = "body"
        /\ \A q \in Writers \ {w} : at'[q] = at[q] /\ answer'[q] = answer[q] /\ born'[q] = born[q]
    BY <1>1, <1>7 DEF WriteBody, GoOn, Return, WriterType, panevars
  <2>2. CASE ~Alive
    <3>1. UNCHANGED <<tty, born>> /\ at'[w] = "idle" /\ answer'[w] # "ok"
      BY <1>1, <1>7, <2>2 DEF WriteBody, Alive, GoOn, Return, WriterType
    <3> QED
      BY <1>3, <2>1, <3>1
  <2>3. CASE Alive
    <3>1. PICK k \in {"body", "line", "enter"} :
            /\ Put(k, w) /\ born'[w] = pane.n
            /\ \/ k = "body" /\ at'[w] = "settle" /\ answer'[w] = answer[w]
               \/ k # "body" /\ at'[w] = "idle" /\ answer'[w] = "ok"
      BY <1>1, <1>7, <2>3 DEF WriteBody, Alive, GoOn, Return, WriterType
    <3>2. k \in Kinds
      BY <3>1 DEF Kinds
    <3>3. ASSUME NEW q \in Writers \ {w} PROVE BodyOf(q)'
      <4>1. (BodyIn(q) => BodyIn(q)') /\ (Submitted(q) => Submitted(q)')
        BY <1>1, <2>1, <3>1, <3>2, PutKeepsLines
      <4> QED
        BY <1>2, <2>1, <4>1 DEF BodyOf
    <3>4. BodyOf(w)'
      <4>1. DOMAIN tty' = 1 .. Len(tty) + 1 /\ Len(tty) \in Nat
            /\ tty'[Len(tty) + 1] = Byte(k, w) /\ Byte(k, w)' = Byte(k, w)
        BY <1>1, <2>1, <3>1, <3>2, PutLast DEF Byte
      <4>2. Len(tty) + 1 \in DOMAIN tty'
        BY <4>1
      <4>3. k = "body" => BodyIn(w)'
        BY <4>1, <4>2 DEF BodyIn, Byte
      <4>4. k # "body" => Submitted(w)'
        BY <3>1, <4>1, <4>2 DEF Submitted, Byte
      <4> QED
        BY <1>1, <1>2, <2>1, <3>1, <4>3, <4>4 DEF BodyOf
    <3> QED
      BY <3>3, <3>4
  <2> QED
    BY <2>2, <2>3
<1>8. ASSUME NEW w \in Writers, WriteCr(w) PROVE \A q \in Writers : BodyOf(q)'
  <2>1. UNCHANGED <<pane, left, born>> /\ at[w] = "settle" /\ at'[w] = "idle" /\ answer'[w] = "ok"
        /\ \A q \in Writers \ {w} : at'[q] = at[q] /\ answer'[q] = answer[q]
    BY <1>1, <1>8 DEF WriteCr, GoOn, Return, WriterType
  <2>2. CASE ~Alive
    <3>1. UNCHANGED tty /\ ~pane.alive
      BY <1>8, <2>2 DEF WriteCr, Alive, OpenInv
    <3> QED
      BY <1>3, <2>1, <3>1
  <2>3. CASE Alive
    <3>1. Put("cr", w) /\ "cr" \in Kinds
      BY <1>8, <2>3 DEF WriteCr, Alive, Kinds
    <3>2. ASSUME NEW q \in Writers \ {w} PROVE BodyOf(q)'
      <4>1. (BodyIn(q) => BodyIn(q)') /\ (Submitted(q) => Submitted(q)')
        BY <1>1, <2>1, <3>1, PutKeepsLines
      <4> QED
        BY <1>2, <2>1, <4>1 DEF BodyOf
    <3>3. ASSUME born[w] = pane.n, pane.alive PROVE Submitted(w)'
      <4>1. PICK i \in DOMAIN tty : tty[i] = Byte("body", w)
        BY <1>2, <2>1, <3>3 DEF BodyOf, BodyIn
      <4>2. /\ Len(tty) \in Nat /\ Len(tty') = Len(tty) + 1
            /\ DOMAIN tty = 1 .. Len(tty) /\ DOMAIN tty' = 1 .. Len(tty) + 1
            /\ tty'[i] = tty[i]
            /\ tty'[Len(tty) + 1] = Byte("cr", w)
        BY <1>1, <3>1, PutLast
      <4>3. i \in DOMAIN tty' /\ Len(tty) + 1 \in i + 1 .. Len(tty')
        BY <4>2
      <4>4. tty'[i] = Byte("body", w)' /\ tty'[Len(tty) + 1] = Byte("cr", w)'
        BY <2>1, <4>1, <4>2 DEF Byte
      <4> QED
        BY <4>3, <4>4 DEF Submitted
    <3>4. BodyOf(w)'
      BY <1>2, <2>1, <3>3 DEF BodyOf
    <3> QED
      BY <3>2, <3>4
  <2> QED
    BY <2>2, <2>3
<1>9. CASE Insert
  <2>1. pane'.n = pane.n + 1 /\ UNCHANGED <<at, answer, born>>
    BY <1>9 DEF Insert, wrvars
  <2> QED
    BY <1>1, <1>2, <2>1 DEF BodyOf
<1>10. CASE ForgetPrimed \/ Die \/ CloseStart \/ CloseRemove \/ CloseDropLock \/ CloseForget
            \/ UNCHANGED inputvars
  <2>1. UNCHANGED <<tty, at, left, answer, born>>
    BY <1>10 DEF ForgetPrimed, Die, CloseStart, CloseRemove, CloseDropLock, CloseForget,
       inputvars, wrvars, panevars
  <2>2. pane'.n = pane.n /\ (pane'.alive => pane.alive)
    BY <1>1, <1>10 DEF Panes, ForgetPrimed, Die, CloseStart, CloseRemove, CloseDropLock,
       CloseForget, inputvars, panevars
  <2> QED
    BY <1>3, <2>1, <2>2
<1> QED
  BY <1>4, <1>5, <1>6, <1>7, <1>8, <1>9, <1>10 DEF InputNext, WriterStep

-----------------------------------------------------------------------------
\* The lock, the open body and the settling writers are as said in every reachable
\* state.
THEOREM InputInvHolds == InputSpec => []InputInv
<1>1. InputInit => InputInv
  BY InitInput
<1>2. InputInv /\ [InputNext]_inputvars => InputInv'
  <2> SUFFICES ASSUME InputInv, [InputNext]_inputvars PROVE InputInv'
    OBVIOUS
  <2>1. InputTypeOK' /\ LockInv' /\ OpenInv' /\ NoSplice'
    BY StepInputType, StepLock, StepSplice DEF InputInv
  <2>2. \A w \in Writers : BodyOf(w)
    BY BodyParts DEF InputInv
  <2>3. \A w \in Writers : BodyOf(w)'
    BY <2>2, StepBody DEF InputInv
  <2>4. BodyInv' /\ WrittenIsSubmitted'
    BY <2>3 DEF BodyInv, WrittenIsSubmitted, BodyOf, BodyIn, Submitted
  <2> QED
    BY <2>1, <2>4 DEF InputInv
<1> QED
  BY <1>1, <1>2, PTL DEF InputSpec

\* Nobody submits or extends another writer's half-written line, for any number of
\* threads, deaths and respawns, as long as no close of the app has dropped the lock.
THEOREM LinesStayWhole == InputSpec => []NoSplice
  BY InputInvHolds, PTL DEF InputInv

\* Whatever was answered ok is in the pane with its submit, while that pane lives.
THEOREM AnswersAreTrue == InputSpec => []WrittenIsSubmitted
  BY InputInvHolds, PTL DEF InputInv

-----------------------------------------------------------------------------
(* The app's prime.                                                        *)

HasEsc == \E j \in DOMAIN tty : tty[j][1] = "esc"
FreshClaude == Alive /\ pane.harness = "claude"

\* A mark that is set for the pane under the id stands for an Esc, written or about
\* to be.
MarkInv ==
  FreshClaude /\ primed /\ ~spawning => HasEsc \/ \E w \in Writers : at[w] = "esc"

\* A writer past its prime check, with the pane settled, finds the Esc written.
PastPrime ==
  \A w \in Writers : at[w] = "body" /\ w \notin early /\ FreshClaude => HasEsc

\* The bodies of a writer bear numbers from its last write on, and of the write under
\* way none is there before it settles.
BodyNumbers ==
  \A i \in DOMAIN tty : tty[i][1] = "body" =>
    /\ tty[i][3] >= left[tty[i][2]]
    /\ tty[i][3] = left[tty[i][2]] => at[tty[i][2]] \in {"settle", "idle"}

PrimeInv ==
  /\ BodyNumbers
  /\ owner = "app" => MarkInv
  /\ owner = "app" /\ entry = 0 => PastPrime /\ PrimedBeforeLine

\* A writer that was neither settling nor idle has put no body of this write, so it may
\* put its body when it goes to settle, and other bytes at any time.
LEMMA NumbersStay ==
  ASSUME InputTypeOK, BodyNumbers, NEW w \in Writers, NEW step \in WriterSteps, GoOn(w, step),
         at[w] \in {"settle", "idle"} => step \in {"settle", "idle"},
         UNCHANGED left,
         UNCHANGED tty \/ \E k \in Kinds : Put(k, w) /\ (k = "body" => step = "settle")
  PROVE  BodyNumbers'
<1>1. WriterType /\ tty \in Seq(Bytes)
  BY TypeParts
<1>2. \A v \in Writers : at[v] \in {"settle", "idle"} => at'[v] \in {"settle", "idle"}
  BY <1>1 DEF GoOn, WriterType
<1>3. \A i \in DOMAIN tty : tty[i][2] \in Writers
  BY <1>1, ElementOfSeq, LenProperties DEF Bytes
<1>4. CASE UNCHANGED tty
  BY <1>2, <1>3, <1>4 DEF BodyNumbers
<1>5. ASSUME NEW k \in Kinds, Put(k, w), k = "body" => step = "settle" PROVE BodyNumbers'
  <2>1. /\ Len(tty) \in Nat /\ DOMAIN tty = 1 .. Len(tty) /\ DOMAIN tty' = 1 .. Len(tty) + 1
        /\ \A i \in 1 .. Len(tty) : tty'[i] = tty[i]
        /\ tty'[Len(tty) + 1] = <<k, w, left[w]>> /\ left[w] \in Nat
    BY <1>1, <1>5, PutLast DEF Byte, WriterType
  <2>2. k = "body" => at'[w] = "settle"
    BY <1>1, <1>5 DEF GoOn, WriterType
  <2> QED
    BY <1>2, <1>3, <2>1, <2>2 DEF BodyNumbers
<1> QED
  BY <1>4, <1>5

LEMMA StepNumbers ==
  ASSUME InputTypeOK, BodyNumbers, [InputNext]_inputvars
  PROVE  BodyNumbers'
<1>1. WriterType /\ tty \in Seq(Bytes)
  BY TypeParts
<1>2. ASSUME NEW w \in Writers, Call(w) PROVE BodyNumbers'
  <2>1. \A i \in DOMAIN tty : tty[i][2] \in Writers /\ tty[i][3] \in Nat
    BY <1>1, ElementOfSeq, LenProperties, InputAssumption DEF Bytes
  <2>2. /\ UNCHANGED tty /\ at[w] = "idle"
        /\ \A v \in Writers : left'[v] = IF v = w THEN left[w] - 1 ELSE left[v]
        /\ \A v \in Writers : left[v] \in Nat
        /\ \A v \in Writers \ {w} : at'[v] = at[v]
    BY <1>1, <1>2, InputAssumption DEF Call, GoOn, WriterType, panevars
  <2> QED
    BY <2>1, <2>2 DEF BodyNumbers
<1>3. ASSUME NEW w \in Writers, WriterStep(w) PROVE BodyNumbers'
  <2> DEFINE Fine == \E step \in WriterSteps :
               /\ GoOn(w, step)
               /\ at[w] \in {"settle", "idle"} => step \in {"settle", "idle"}
               /\ UNCHANGED left
               /\ UNCHANGED tty \/ \E k \in Kinds : Put(k, w) /\ (k = "body" => step = "settle")
  <2>1. ASSUME ClaimPrime(w) PROVE Fine  BY <2>1 DEF ClaimPrime, WriterSteps, panevars
  <2>2. ASSUME IsClaude(w) PROVE Fine  BY <2>2 DEF IsClaude, WriterSteps, panevars
  <2>3. ASSUME WriteEsc(w) PROVE Fine  BY <2>3 DEF WriteEsc, WriterSteps, Kinds
  <2>4. ASSUME Contains(w) PROVE Fine  BY <2>4 DEF Contains, Return, WriterSteps, panevars
  <2>5. ASSUME TakeEntry(w) PROVE Fine  BY <2>5 DEF TakeEntry, WriterSteps, panevars
  <2>6. ASSUME Acquire(w) PROVE Fine  BY <2>6 DEF Acquire, WriterSteps, panevars
  <2>7. ASSUME PrimeUnderLock(w) PROVE Fine  BY <2>7 DEF PrimeUnderLock, WriterSteps, panevars
  <2>8. ASSUME WriteBody(w) PROVE Fine  BY <2>8 DEF WriteBody, Return, WriterSteps, Kinds
  <2>9. ASSUME WriteCr(w) PROVE Fine  BY <2>9 DEF WriteCr, Return, WriterSteps, Kinds
  <2> HIDE DEF Fine
  <2>10. Fine
    BY <1>3, <2>1, <2>2, <2>3, <2>4, <2>5, <2>6, <2>7, <2>8, <2>9 DEF WriterStep
  <2> QED
    BY <2>10, NumbersStay DEF Fine
<1>4. CASE Insert
  BY <1>4 DEF Insert, BodyNumbers
<1>5. CASE ForgetPrimed \/ Die \/ CloseStart \/ CloseRemove \/ CloseDropLock \/ CloseForget
           \/ UNCHANGED inputvars
  <2>1. UNCHANGED <<tty, at, left>>
    BY <1>5 DEF ForgetPrimed, Die, CloseStart, CloseRemove, CloseDropLock, CloseForget,
       inputvars, wrvars, panevars
  <2> QED
    BY <2>1 DEF BodyNumbers
<1> QED
  BY <1>2, <1>3, <1>4, <1>5 DEF InputNext

\* An Esc stays in what the pane received.
LEMMA EscStays ==
  ASSUME InputTypeOK, NEW w \in Writers, NEW k \in Kinds, Put(k, w)
  PROVE  (HasEsc \/ k = "esc") => HasEsc'
<1>1. WriterType /\ tty \in Seq(Bytes)
  BY TypeParts
<1>2. /\ Len(tty) \in Nat /\ DOMAIN tty = 1 .. Len(tty) /\ DOMAIN tty' = 1 .. Len(tty) + 1
      /\ \A i \in 1 .. Len(tty) : tty'[i] = tty[i]
      /\ tty'[Len(tty) + 1][1] = k
  BY <1>1, PutLast DEF Byte, WriterType
<1> QED
  BY <1>2 DEF HasEsc

\* A writer's step other than the prime check, in the app.
LEMMA OtherSteps ==
  ASSUME InputTypeOK, LockInv, owner = "app", NEW w \in Writers,
         TakeEntry(w) \/ Acquire(w) \/ WriteBody(w) \/ WriteCr(w) \/ Call(w)
  PROVE  /\ UNCHANGED <<owner, pane, spawning, primed, entry, early>>
         /\ at[w] # "esc" /\ at'[w] \notin {"esc", "body"}
         /\ \A v \in Writers \ {w} : at'[v] = at[v]
         /\ HasEsc => HasEsc'
<1>1. WriterType
  BY TypeParts
<1>2. HasEsc => HasEsc' \/ ~(UNCHANGED tty \/ \E k \in Kinds : Put(k, w))
  BY EscStays DEF HasEsc
<1>3. CASE TakeEntry(w)  BY <1>1, <1>2, <1>3 DEF TakeEntry, GoOn, WriterType, panevars
<1>4. CASE Acquire(w)  BY <1>1, <1>2, <1>4 DEF Acquire, GoOn, WriterType, panevars
<1>5. CASE WriteBody(w)
  <2>1. UNCHANGED tty \/ \E k \in Kinds : Put(k, w)  BY <1>5 DEF WriteBody, Kinds
  <2> QED
    BY <1>1, <1>2, <1>5, <2>1 DEF WriteBody, GoOn, Return, WriterType
<1>6. CASE WriteCr(w)
  <2>1. UNCHANGED tty \/ \E k \in Kinds : Put(k, w)  BY <1>6 DEF WriteCr, Kinds
  <2> QED
    BY <1>1, <1>2, <1>6, <2>1 DEF WriteCr, GoOn, Return, WriterType
<1>7. CASE Call(w)  BY <1>1, <1>2, <1>7 DEF Call, GoOn, WriterType, panevars
<1> QED
  BY <1>3, <1>4, <1>5, <1>6, <1>7

\* The mark stands for an Esc, written or about to be.
LEMMA StepMark ==
  ASSUME InputTypeOK, LockInv, MarkInv, owner = "app", [InputNext]_inputvars
  PROVE  MarkInv'
<1>1. WriterType /\ tty \in Seq(Bytes) /\ pane \in Panes
  BY TypeParts
<1>2. ASSUME NEW w \in Writers,
             TakeEntry(w) \/ Acquire(w) \/ WriteBody(w) \/ WriteCr(w) \/ Call(w)
      PROVE  MarkInv'
  BY <1>2, OtherSteps DEF MarkInv, FreshClaude, Alive
<1>3. ASSUME NEW w \in Writers, ClaimPrime(w) \/ IsClaude(w) \/ Contains(w) PROVE MarkInv'
  BY <1>3 DEF LockInv, ClaimPrime, IsClaude, Contains
<1>4. ASSUME NEW w \in Writers, WriteEsc(w) PROVE MarkInv'
  <2>1. UNCHANGED <<pane, primed, spawning>>  BY <1>4 DEF WriteEsc
  <2>2. Alive => HasEsc'
    BY <1>4, EscStays DEF WriteEsc, Kinds, Alive
  <2> QED
    BY <2>1, <2>2 DEF MarkInv, FreshClaude, Alive
<1>5. ASSUME NEW w \in Writers, PrimeUnderLock(w) PROVE MarkInv'
  <2>1. /\ UNCHANGED <<tty, pane, spawning>> /\ at[w] = "prime"
        /\ FreshClaude /\ ~primed => at'[w] = "esc"
        /\ FreshClaude => (primed' <=> TRUE)
        /\ \A v \in Writers \ {w} : at'[v] = at[v]
    BY <1>1, <1>5 DEF PrimeUnderLock, GoOn, WriterType, panevars, FreshClaude, Alive
  <2> QED
    BY <2>1 DEF MarkInv, FreshClaude, Alive, HasEsc
<1>6. CASE Insert \/ ForgetPrimed \/ CloseStart \/ CloseForget
  BY <1>6 DEF MarkInv, Insert, ForgetPrimed, CloseStart, CloseForget
<1>7. CASE Die \/ CloseRemove
  BY <1>1, <1>7 DEF MarkInv, Die, CloseRemove, FreshClaude, Alive, Panes
<1>8. CASE CloseDropLock \/ UNCHANGED inputvars
  BY <1>8 DEF MarkInv, CloseDropLock, inputvars, wrvars, panevars, FreshClaude, Alive, HasEsc
<1> QED
  BY <1>2, <1>3, <1>4, <1>5, <1>6, <1>7, <1>8 DEF InputNext, WriterStep

\* Whoever may write its line to a settled pane finds the Esc there.
LEMMA StepPast ==
  ASSUME InputTypeOK, LockInv, MarkInv, PastPrime, owner = "app", entry = 0,
         [InputNext]_inputvars
  PROVE  PastPrime'
<1>1. WriterType /\ tty \in Seq(Bytes) /\ pane \in Panes
  BY TypeParts
<1>2. ASSUME NEW w \in Writers,
             TakeEntry(w) \/ Acquire(w) \/ WriteBody(w) \/ WriteCr(w) \/ Call(w)
      PROVE  PastPrime'
  BY <1>2, OtherSteps DEF PastPrime, FreshClaude, Alive
<1>3. ASSUME NEW w \in Writers, ClaimPrime(w) \/ IsClaude(w) \/ Contains(w) PROVE PastPrime'
  BY <1>3 DEF LockInv, ClaimPrime, IsClaude, Contains
<1>4. ASSUME NEW w \in Writers, WriteEsc(w) PROVE PastPrime'
  <2>1. UNCHANGED pane  BY <1>4 DEF WriteEsc
  <2>2. Alive => HasEsc'
    BY <1>4, EscStays DEF WriteEsc, Kinds, Alive
  <2> QED
    BY <2>1, <2>2 DEF PastPrime, FreshClaude, Alive
<1>5. ASSUME NEW w \in Writers, PrimeUnderLock(w) PROVE PastPrime'
  <2>1. /\ UNCHANGED <<tty, pane>> /\ at[w] = "prime"
        /\ FreshClaude /\ ~primed => at'[w] = "esc"
        /\ \A v \in Writers \ {w} : at'[v] = at[v] /\ (v \in early' <=> v \in early)
        /\ w \notin early' => ~spawning
    BY <1>1, <1>5 DEF PrimeUnderLock, GoOn, WriterType, panevars, FreshClaude, Alive
  <2>2. \A v \in Writers : at[v] # "esc"
    BY <2>1, OneHolder DEF Holding
  <2>3. w \notin early' /\ FreshClaude /\ primed => HasEsc
    BY <2>1, <2>2 DEF MarkInv
  <2> QED
    BY <2>1, <2>3 DEF PastPrime, FreshClaude, Alive, HasEsc
<1>6. CASE Insert
  BY <1>6 DEF PastPrime, Insert, wrvars
<1>7. CASE Die \/ CloseRemove
  BY <1>1, <1>7 DEF PastPrime, Die, CloseRemove, FreshClaude, Alive, Panes
<1>8. CASE ForgetPrimed \/ CloseStart \/ CloseForget \/ CloseDropLock \/ UNCHANGED inputvars
  BY <1>8 DEF PastPrime, ForgetPrimed, CloseStart, CloseForget, CloseDropLock, inputvars, wrvars,
     panevars, FreshClaude, Alive, HasEsc
<1> QED
  BY <1>2, <1>3, <1>4, <1>5, <1>6, <1>7, <1>8 DEF InputNext, WriterStep

\* The line a writer puts comes after the Esc; later bytes and steps of others do not
\* change what lies before it.
LEMMA StepPrimedLine ==
  ASSUME InputTypeOK, BodyNumbers, PastPrime, PrimedBeforeLine, owner = "app",
         [InputNext]_inputvars
  PROVE  PrimedBeforeLine'
<1> DEFINE Same == /\ \A w \in Writers : at'[w] = "settle" =>
                        at[w] = "settle" /\ left'[w] = left[w] /\ born'[w] = born[w]
                                         /\ (w \in early => w \in early')
                   /\ pane'.n = pane.n /\ pane'.harness = pane.harness
<1>1. WriterType /\ tty \in Seq(Bytes) /\ pane \in Panes
  BY TypeParts
<1>2. \A i \in DOMAIN tty : tty[i][2] \in Writers
  BY <1>1, ElementOfSeq, LenProperties DEF Bytes
<1>3. ASSUME Same, UNCHANGED tty PROVE PrimedBeforeLine'
  BY <1>2, <1>3 DEF PrimedBeforeLine, Byte
<1>4. ASSUME Same, NEW w \in Writers, NEW k \in Kinds \ {"body"}, Put(k, w) PROVE PrimedBeforeLine'
  <2>1. /\ Len(tty) \in Nat /\ DOMAIN tty = 1 .. Len(tty) /\ DOMAIN tty' = 1 .. Len(tty) + 1
        /\ \A i \in 1 .. Len(tty) : tty'[i] = tty[i]
        /\ tty'[Len(tty) + 1][1] = k
    BY <1>1, <1>4, PutLast DEF Byte, WriterType
  <2> SUFFICES ASSUME NEW i \in DOMAIN tty',
                      pane'.harness = "claude" /\ tty'[i][1] = "body" /\ at'[tty'[i][2]] = "settle"
                        /\ tty'[i] = <<"body", tty'[i][2], left'[tty'[i][2]]>>
                        /\ born'[tty'[i][2]] = pane'.n /\ tty'[i][2] \notin early'
               PROVE  \E j \in 1 .. i - 1 : tty'[j][1] = "esc"
    BY DEF PrimedBeforeLine, Byte
  <2>2. i \in 1 .. Len(tty) /\ tty'[i] = tty[i] /\ tty[i][2] \in Writers
    BY <1>2, <2>1
  <2>3. tty[i] = Byte("body", tty[i][2])
    BY <1>4, <2>2 DEF Byte
  <2>4. \E j \in 1 .. i - 1 : tty[j][1] = "esc"
    BY <1>4, <2>1, <2>2, <2>3 DEF PrimedBeforeLine
  <2> QED
    BY <2>1, <2>2, <2>4
<1>5. ASSUME NEW w \in Writers, Call(w) PROVE PrimedBeforeLine'
  <2>1. Same /\ UNCHANGED tty  BY <1>1, <1>5 DEF Call, GoOn, WriterType, panevars
  <2> QED
    BY <1>3, <2>1
<1>6. ASSUME NEW w \in Writers,
             ClaimPrime(w) \/ IsClaude(w) \/ Contains(w) \/ TakeEntry(w) \/ Acquire(w)
      PROVE  PrimedBeforeLine'
  <2>1. Same /\ UNCHANGED tty
    BY <1>1, <1>6 DEF ClaimPrime, IsClaude, Contains, TakeEntry, Acquire, GoOn, Return, WriterType,
       panevars
  <2> QED
    BY <1>3, <2>1
<1>7. ASSUME NEW w \in Writers, PrimeUnderLock(w) PROVE PrimedBeforeLine'
  <2>1. Same /\ UNCHANGED tty
    BY <1>1, <1>7 DEF PrimeUnderLock, GoOn, WriterType, panevars
  <2> QED
    BY <1>3, <2>1
<1>8. ASSUME NEW w \in Writers, WriteEsc(w) \/ WriteCr(w) PROVE PrimedBeforeLine'
  <2>1. Same /\ (UNCHANGED tty \/ \E k \in Kinds \ {"body"} : Put(k, w))
    BY <1>1, <1>8 DEF WriteEsc, WriteCr, GoOn, Return, WriterType, Kinds
  <2> QED
    BY <1>3, <1>4, <2>1
<1>9. ASSUME NEW w \in Writers, WriteBody(w) PROVE PrimedBeforeLine'
  <2>1. CASE at'[w] # "settle"
    <3>1. Same /\ (UNCHANGED tty \/ \E k \in Kinds \ {"body"} : Put(k, w))
      BY <1>1, <1>9, <2>1 DEF WriteBody, GoOn, Return, WriterType, Kinds
    <3> QED
      BY <1>3, <1>4, <3>1
  <2>2. CASE at'[w] = "settle"
    <3>1. /\ Put("body", w) /\ Alive /\ at[w] = "body"
          /\ UNCHANGED <<pane, left, early>>
          /\ \A v \in Writers \ {w} : at'[v] = at[v] /\ born'[v] = born[v]
      BY <1>1, <1>9, <2>2 DEF WriteBody, GoOn, Return, WriterType, Alive
    <3>2. /\ Len(tty) \in Nat /\ DOMAIN tty = 1 .. Len(tty) /\ DOMAIN tty' = 1 .. Len(tty) + 1
          /\ \A i \in 1 .. Len(tty) : tty'[i] = tty[i]
          /\ tty'[Len(tty) + 1] = <<"body", w, left[w]>>
      BY <1>1, <3>1, PutLast DEF Byte, WriterType, Kinds
    <3> SUFFICES ASSUME NEW i \in DOMAIN tty',
                      pane'.harness = "claude" /\ tty'[i][1] = "body" /\ at'[tty'[i][2]] = "settle"
                        /\ tty'[i] = <<"body", tty'[i][2], left'[tty'[i][2]]>>
                        /\ born'[tty'[i][2]] = pane'.n /\ tty'[i][2] \notin early'
                 PROVE  \E j \in 1 .. i - 1 : tty'[j][1] = "esc"
      BY DEF PrimedBeforeLine, Byte
    <3>3. CASE i = Len(tty) + 1
      <4>1. w \notin early /\ FreshClaude
        BY <3>1, <3>2, <3>3 DEF FreshClaude
      <4>2. HasEsc
        BY <3>1, <4>1 DEF PastPrime
      <4> QED
        BY <3>2, <3>3, <4>2 DEF HasEsc
    <3>4. CASE i \in 1 .. Len(tty)
      <4>1. tty'[i] = tty[i] /\ tty[i][2] \in Writers
        BY <1>2, <3>2, <3>4
      <4>2. tty[i] = Byte("body", tty[i][2])
        BY <3>1, <4>1 DEF Byte
      <4>3. tty[i][2] # w
        <5>1. tty[i][3] = left[tty[i][2]]  BY <4>2 DEF Byte
        <5>2. at[tty[i][2]] \in {"settle", "idle"}
          BY <3>2, <3>4, <4>1, <5>1 DEF BodyNumbers
        <5> QED
          BY <3>1, <5>2
      <4>4. \E j \in 1 .. i - 1 : tty[j][1] = "esc"
        BY <3>1, <3>2, <3>4, <4>1, <4>2, <4>3 DEF PrimedBeforeLine
      <4> QED
        BY <3>2, <3>4, <4>4
    <3> QED
      BY <3>2, <3>3, <3>4
  <2> QED
    BY <2>1, <2>2
<1>10. CASE Insert
  BY <1>10 DEF Insert, PrimedBeforeLine
<1>11. CASE ForgetPrimed \/ Die \/ CloseStart \/ CloseRemove \/ CloseDropLock \/ CloseForget
            \/ UNCHANGED inputvars
  <2>1. UNCHANGED <<tty, at, left, born, early>>
    BY <1>11 DEF ForgetPrimed, Die, CloseStart, CloseRemove, CloseDropLock, CloseForget,
       inputvars, wrvars, panevars
  <2>2. pane'.n = pane.n /\ pane'.harness = pane.harness
    BY <1>1, <1>11 DEF Panes, ForgetPrimed, Die, CloseStart, CloseRemove, CloseDropLock,
       CloseForget, inputvars, panevars
  <2> QED
    BY <1>3, <2>1, <2>2
<1> QED
  BY <1>5, <1>6, <1>7, <1>8, <1>9, <1>10, <1>11 DEF InputNext, WriterStep

\* The owner of the id does not change, and a dropped write lock stays dropped.
LEMMA OwnerStays ==
  ASSUME InputTypeOK, [InputNext]_inputvars
  PROVE  UNCHANGED owner /\ (entry' = 0 => entry = 0)
<1>1. LockType
  BY TypeParts
<1>2. ASSUME NEW w \in Writers, Call(w) \/ WriterStep(w) PROVE UNCHANGED <<owner, entry>>
  BY <1>2 DEF Call, WriterStep, ClaimPrime, IsClaude, WriteEsc, Contains,
     TakeEntry, Acquire, PrimeUnderLock, WriteBody, WriteCr
<1>3. CASE CloseDropLock
  BY <1>1, <1>3, InputAssumption DEF CloseDropLock, LockType
<1>4. CASE Insert \/ ForgetPrimed \/ Die \/ CloseStart \/ CloseRemove \/ CloseForget
           \/ UNCHANGED inputvars
  BY <1>4 DEF Insert, ForgetPrimed, Die, CloseStart, CloseRemove, CloseForget, inputvars
<1> QED
  BY <1>2, <1>3, <1>4 DEF InputNext

\* The app primes under the write lock: no order of writers, deaths, closes and respawns
\* puts a line before the Esc of a fresh claude pane, but for a writer whose check
\* overtook the spawn and after a close has dropped the lock.
THEOREM LinesFollowThePrime == InputSpec => []AppPrimedBeforeLine
<1>1. InputInit => PrimeInv
  BY DEF InputInit, PrimeInv, BodyNumbers, MarkInv, FreshClaude, Alive, PastPrime,
     PrimedBeforeLine
<1>2. InputInv /\ PrimeInv /\ [InputNext]_inputvars => PrimeInv'
  <2> SUFFICES ASSUME InputInv, PrimeInv, [InputNext]_inputvars PROVE PrimeInv'
    OBVIOUS
  <2> USE DEF InputInv, PrimeInv
  <2>1. BodyNumbers'  BY StepNumbers
  <2>2. UNCHANGED owner /\ (entry' = 0 => entry = 0)  BY OwnerStays
  <2>3. owner = "app" => MarkInv'  BY StepMark
  <2>4. owner = "app" /\ entry = 0 => PastPrime'  BY StepPast
  <2>5. owner = "app" /\ entry = 0 => PrimedBeforeLine'  BY StepPrimedLine
  <2> QED
    BY <2>1, <2>2, <2>3, <2>4, <2>5
<1>3. PrimeInv => AppPrimedBeforeLine
  BY DEF PrimeInv, AppPrimedBeforeLine
<1> QED
  BY <1>1, <1>2, <1>3, InputInvHolds, PTL DEF InputSpec
=============================================================================
