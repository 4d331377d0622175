---------------------------- MODULE AppPaneProofs ----------------------------
(***************************************************************************)
(* Proofs about AppPane, for any number of threads, ids, children and      *)
(* closes: no child is left running that nobody holds, a pane keeps the    *)
(* worktree it was given, a worktree on disk has its registry line, and    *)
(* the live registry lists what lives.                                     *)
(*                                                                         *)
(* The argument about an id is one about whoever is inside do_spawn or     *)
(* close_workspace for it: as long as nothing happened that the code does  *)
(* not guard against, that is at most one thread, and what it has still to *)
(* do says how sups, meta, the live registry and the worktree stand.  A    *)
(* cleanup is its rival: while one is under way, a thread that spawns the  *)
(* id stands before the barrier.                                           *)
(***************************************************************************)
EXTENDS AppPane, SequenceTheorems, TLAPS

-----------------------------------------------------------------------------
(* Types.                                                                  *)

AllSteps == SpawnSteps \cup CloseSteps \cup
            {"idle", "seek", "count", "enqueue", "admit", "respawn"}

\* Steps a thread takes for an id.
Named == SpawnSteps \cup CloseSteps \cup {"seek", "count", "enqueue", "respawn"}

ThreadTypes ==
  /\ pc \in [Threads -> AllSteps]
  /\ req \in [Threads -> Ids \cup {NoId}]
  /\ held \in [Threads -> Pids \cup {Nothing}]
  /\ waits \in [Threads -> Jobs \cup {Nothing}]
  /\ hasTree \in [Threads -> BOOLEAN] /\ counted \in Nat
  /\ \A t \in Threads : pc[t] \in Named => req[t] \in Ids

DataTypes ==
  /\ sups \in [Ids -> Pids \cup {Nothing}]
  /\ meta \in [Ids -> {"none", "bare", "tree"}]
  /\ barrier \in [Ids -> Jobs \cup {Nothing}]
  /\ queue \in Seq(Ids)
  /\ watch \in [Ids -> Nat] /\ tries \in [Ids -> 0 .. Budget]
  /\ jobId \in [Jobs -> Ids \cup {NoId}]
  /\ jobStep \in [Jobs -> {"none", "claimed", "published", "rmtree", "unrecord",
                           "drain", "done"}]
  /\ jobTree \in [Jobs -> BOOLEAN]
  /\ tree \subseteq Ids /\ lines \subseteq Ids /\ listed \subseteq Ids
  /\ undefended \subseteq Ids /\ working \in 0 .. MaxWorking
  /\ proc \in [Pids -> {"unborn", "running", "exited"}]
  /\ home \in [Pids -> Ids \cup {NoId}]

TypeInv == ThreadTypes /\ DataTypes

\* What a thread's step leaves to every other thread.
Alone(t) ==
  \A u \in Threads \ {t} :
    /\ pc'[u] = pc[u] /\ req'[u] = req[u] /\ held'[u] = held[u]
    /\ waits'[u] = waits[u] /\ hasTree'[u] = hasTree[u]

\* A step of t that goes to a step for the id it has, with the rest of what it
\* holds typed, keeps the threads' types.
LEMMA ThreadMoves ==
  ASSUME ThreadTypes, NEW t \in Threads, NEW step \in AllSteps, Goto(t, step),
         NEW r \in Ids \cup {NoId}, req' = [req EXCEPT ![t] = r],
         NEW h \in Pids \cup {Nothing}, held' = [held EXCEPT ![t] = h],
         NEW w \in Jobs \cup {Nothing}, waits' = [waits EXCEPT ![t] = w],
         NEW b \in BOOLEAN, hasTree' = [hasTree EXCEPT ![t] = b],
         counted' \in Nat, step \in Named => r \in Ids
  PROVE  /\ ThreadTypes' /\ Alone(t)
         /\ pc'[t] = step /\ req'[t] = r /\ held'[t] = h /\ waits'[t] = w /\ hasTree'[t] = b
  <1>1. /\ pc' \in [Threads -> AllSteps] /\ pc'[t] = step
        /\ \A u \in Threads \ {t} : pc'[u] = pc[u]
    BY DEF ThreadTypes, Goto
  <1>2. /\ req' \in [Threads -> Ids \cup {NoId}] /\ req'[t] = r
        /\ \A u \in Threads \ {t} : req'[u] = req[u]
    BY DEF ThreadTypes
  <1>3. /\ held' \in [Threads -> Pids \cup {Nothing}] /\ held'[t] = h
        /\ \A u \in Threads \ {t} : held'[u] = held[u]
    BY DEF ThreadTypes
  <1>4. /\ waits' \in [Threads -> Jobs \cup {Nothing}] /\ waits'[t] = w
        /\ \A u \in Threads \ {t} : waits'[u] = waits[u]
    BY DEF ThreadTypes
  <1>5. /\ hasTree' \in [Threads -> BOOLEAN] /\ hasTree'[t] = b
        /\ \A u \in Threads \ {t} : hasTree'[u] = hasTree[u]
    BY DEF ThreadTypes
  <1>6. ASSUME NEW u \in Threads, pc'[u] \in Named PROVE req'[u] \in Ids
    BY <1>1, <1>2, <1>6 DEF ThreadTypes
  <1> QED  BY <1>1, <1>2, <1>3, <1>4, <1>5, <1>6 DEF ThreadTypes, Alone

\* The unchanged locals are updates to what they are.
LEMMA SameLocals ==
  ASSUME ThreadTypes, NEW t \in Threads
  PROVE  /\ req = [req EXCEPT ![t] = req[t]] /\ held = [held EXCEPT ![t] = held[t]]
         /\ waits = [waits EXCEPT ![t] = waits[t]]
         /\ hasTree = [hasTree EXCEPT ![t] = hasTree[t]]
         /\ pc[t] \in AllSteps /\ req[t] \in Ids \cup {NoId}
         /\ held[t] \in Pids \cup {Nothing} /\ waits[t] \in Jobs \cup {Nothing}
         /\ hasTree[t] \in BOOLEAN /\ counted \in Nat
         /\ pc[t] \in Named => req[t] \in Ids
  BY DEF ThreadTypes

\* A step that only goes on.
LEMMA GoesOn ==
  ASSUME ThreadTypes, NEW t \in Threads, NEW step \in AllSteps, Goto(t, step),
         UNCHANGED locals, step \in Named => req[t] \in Ids
  PROVE  /\ ThreadTypes' /\ Alone(t) /\ pc'[t] = step
         /\ req'[t] = req[t] /\ held'[t] = held[t] /\ waits'[t] = waits[t]
         /\ hasTree'[t] = hasTree[t]
  <1>1. PICK r, h, w, b : r = req[t] /\ h = held[t] /\ w = waits[t] /\ b = hasTree[t]
    OBVIOUS
  <1>2. /\ req' = [req EXCEPT ![t] = r] /\ held' = [held EXCEPT ![t] = h]
        /\ waits' = [waits EXCEPT ![t] = w] /\ hasTree' = [hasTree EXCEPT ![t] = b]
        /\ counted' \in Nat
    BY <1>1, SameLocals DEF locals
  <1>3. /\ r \in Ids \cup {NoId} /\ h \in Pids \cup {Nothing} /\ w \in Jobs \cup {Nothing}
        /\ b \in BOOLEAN /\ (step \in Named => r \in Ids)
    BY <1>1, SameLocals
  <1>4. /\ ThreadTypes' /\ Alone(t)
        /\ pc'[t] = step /\ req'[t] = r /\ held'[t] = h /\ waits'[t] = w /\ hasTree'[t] = b
    BY <1>2, <1>3, ThreadMoves
  <1> QED  BY <1>1, <1>4

\* do_spawn begins.
Hands == <<held, waits, hasTree>>

LEMMA Enters ==
  ASSUME ThreadTypes, NEW t \in Threads, NEW id \in Ids, EnterDoSpawn(t, id),
         UNCHANGED Hands, counted' \in Nat
  PROVE  /\ ThreadTypes' /\ Alone(t) /\ pc'[t] = "lookup" /\ req'[t] = id
         /\ held'[t] = held[t] /\ waits'[t] = waits[t] /\ hasTree'[t] = hasTree[t]
  <1>1. PICK h, w, b : h = held[t] /\ w = waits[t] /\ b = hasTree[t]  OBVIOUS
  <1>2. /\ held' = [held EXCEPT ![t] = h] /\ waits' = [waits EXCEPT ![t] = w]
        /\ hasTree' = [hasTree EXCEPT ![t] = b]
        /\ h \in Pids \cup {Nothing} /\ w \in Jobs \cup {Nothing} /\ b \in BOOLEAN
    BY <1>1, SameLocals DEF Hands
  <1>3. Goto(t, "lookup") /\ req' = [req EXCEPT ![t] = id]  BY DEF EnterDoSpawn
  <1>4. PICK step, r : step = "lookup" /\ r = id  OBVIOUS
  <1>6. step \in AllSteps /\ r \in Ids \cup {NoId} /\ r \in Ids
    BY <1>4 DEF AllSteps, SpawnSteps
  <1>7. Goto(t, step) /\ req' = [req EXCEPT ![t] = r]  BY <1>3, <1>4
  <1>8. /\ ThreadTypes' /\ Alone(t) /\ pc'[t] = step /\ req'[t] = r
        /\ held'[t] = h /\ waits'[t] = w /\ hasTree'[t] = b
    BY <1>2, <1>6, <1>7, ThreadMoves
  <1>5. /\ ThreadTypes' /\ Alone(t) /\ pc'[t] = "lookup" /\ req'[t] = id
        /\ held'[t] = h /\ waits'[t] = w /\ hasTree'[t] = b
    BY <1>4, <1>8
  <1> QED  BY <1>1, <1>5

LEMMA Finishes ==
  ASSUME ThreadTypes, NEW t \in Threads, NEW ok \in BOOLEAN, Finish(t, ok)
  PROVE  /\ ThreadTypes' /\ Alone(t) /\ pc'[t] \in {"idle", "admit"} /\ req'[t] = NoId
         /\ held'[t] = Nothing /\ waits'[t] = Nothing /\ hasTree'[t] = FALSE
  <1>1. PICK step \in {"idle", "admit"} : Goto(t, step)  BY DEF Finish
  <1>2. step \in AllSteps /\ step \notin Named
    BY DEF AllSteps, Named, SpawnSteps, CloseSteps
  <1>3. counted' \in Nat  BY SameLocals DEF Finish
  <1>4. /\ req' = [req EXCEPT ![t] = NoId] /\ held' = [held EXCEPT ![t] = Nothing]
        /\ waits' = [waits EXCEPT ![t] = Nothing]
        /\ hasTree' = [hasTree EXCEPT ![t] = FALSE]
    BY DEF Finish
  <1> QED  BY <1>1, <1>2, <1>3, <1>4, ThreadMoves

-----------------------------------------------------------------------------
(* How the threads move.                                                   *)

\* Steps outside do_spawn and close_workspace.
Out == {"idle", "seek", "count", "enqueue", "admit", "respawn"}

\* What do_spawn and close_workspace work on.
panes == <<sups, meta, barrier, jobs, disk, proc, home>>

\* A step that stays outside.
IdleMove(t) ==
  /\ ThreadTypes' /\ Alone(t) /\ pc[t] \in Out /\ pc'[t] \in Out
  /\ held'[t] \in {held[t], Nothing} /\ hasTree'[t] \in {hasTree[t], FALSE}
  /\ UNCHANGED <<panes, undefended>>

\* A step into do_spawn.
EnterMove(t, id) ==
  /\ ThreadTypes' /\ Alone(t) /\ pc[t] \in Out /\ pc'[t] = "lookup" /\ req'[t] = id
  /\ held'[t] = held[t] /\ hasTree'[t] = hasTree[t]
  /\ undefended' = IF OthersOn(t, id) THEN undefended \cup {id} ELSE undefended
  /\ UNCHANGED panes

LEMMA OutIs ==
  /\ Out \subseteq AllSteps /\ Out \cap (SpawnSteps \cup CloseSteps) = {}
  /\ Out \cap Named = {"seek", "count", "enqueue", "respawn"}
  /\ AllSteps = Out \cup SpawnSteps \cup CloseSteps
  BY DEF Out, AllSteps, Named, SpawnSteps, CloseSteps

LEMMA IdleGoes ==
  ASSUME ThreadTypes, NEW t \in Threads, pc[t] \in Out, NEW step \in Out, Goto(t, step),
         UNCHANGED locals, step \in Named => req[t] \in Ids, UNCHANGED <<panes, undefended>>
  PROVE  IdleMove(t)
  <1>1. step \in AllSteps  BY OutIs
  <1>2. /\ ThreadTypes' /\ Alone(t) /\ pc'[t] = step /\ held'[t] = held[t]
        /\ hasTree'[t] = hasTree[t]
    BY <1>1, GoesOn
  <1> QED  BY <1>2 DEF IdleMove

LEMMA IdleFinishes ==
  ASSUME ThreadTypes, NEW t \in Threads, pc[t] \in Out, NEW ok \in BOOLEAN, Finish(t, ok),
         UNCHANGED <<panes, undefended>>
  PROVE  IdleMove(t)
  <1>1. /\ ThreadTypes' /\ Alone(t) /\ pc'[t] \in {"idle", "admit"} /\ held'[t] = Nothing
        /\ hasTree'[t] = FALSE
    BY Finishes
  <1> QED  BY <1>1 DEF IdleMove, Out

LEMMA EnterGoes ==
  ASSUME ThreadTypes, NEW t \in Threads, pc[t] \in Out, NEW id \in Ids, EnterDoSpawn(t, id),
         UNCHANGED <<Hands, panes>>, counted' \in Nat
  PROVE  EnterMove(t, id)
  <1>1. UNCHANGED Hands /\ UNCHANGED panes  OBVIOUS
  <1>2. /\ ThreadTypes' /\ Alone(t) /\ pc'[t] = "lookup" /\ req'[t] = id
        /\ held'[t] = held[t] /\ hasTree'[t] = hasTree[t]
    BY <1>1, Enters
  <1> QED  BY <1>1, <1>2 DEF EnterMove, EnterDoSpawn

\* A step that takes a new id outside.
LEMMA IdleTakes ==
  ASSUME ThreadTypes, NEW t \in Threads, pc[t] \in Out, NEW step \in Out, Goto(t, step),
         NEW r \in Ids, req' = [req EXCEPT ![t] = r], UNCHANGED Hands, counted' \in Nat,
         UNCHANGED <<panes, undefended>>
  PROVE  IdleMove(t)
  <1>1. PICK h, w, b : h = held[t] /\ w = waits[t] /\ b = hasTree[t]  OBVIOUS
  <1>2. /\ held' = [held EXCEPT ![t] = h] /\ waits' = [waits EXCEPT ![t] = w]
        /\ hasTree' = [hasTree EXCEPT ![t] = b]
        /\ h \in Pids \cup {Nothing} /\ w \in Jobs \cup {Nothing} /\ b \in BOOLEAN
    BY <1>1, SameLocals DEF Hands
  <1>3. step \in AllSteps /\ r \in Ids \cup {NoId}  BY OutIs
  <1>4. /\ ThreadTypes' /\ Alone(t) /\ pc'[t] = step /\ held'[t] = h /\ hasTree'[t] = b
    BY <1>2, <1>3, ThreadMoves
  <1> QED  BY <1>1, <1>4 DEF IdleMove

Outer(t) ==
  \/ \E id \in Ids : BeginSpawn(t, id) \/ SeeDead(t, id)
  \/ SeekQueued(t) \/ CountWorking(t) \/ Enqueue(t) \/ RunNow(t) \/ Respawn(t)
  \/ t = Timer /\ (Tick \/ Admit)

LEMMA OuterMoves ==
  ASSUME TypeInv, NEW t \in Threads, Outer(t)
  PROVE  IdleMove(t) \/ \E id \in Ids : EnterMove(t, id)
  <1>0. ThreadTypes /\ DataTypes /\ counted \in Nat  BY DEF TypeInv, ThreadTypes
  <1> USE DEF panes, jobs, disk, world, memory
  <1>1. ASSUME NEW id \in Ids, BeginSpawn(t, id)
        PROVE  IdleMove(t) \/ EnterMove(t, id)
    <2>1. CASE EnterDoSpawn(t, id)
      <3>1. pc[t] \in Out /\ UNCHANGED <<Hands, panes>> /\ counted' \in Nat
        BY <1>0, <1>1 DEF BeginSpawn, Hands, Out
      <3> QED  BY <1>0, <2>1, <3>1, EnterGoes
    <2>2. CASE Goto(t, "seek") /\ req' = [req EXCEPT ![t] = id] /\ UNCHANGED undefended
      <3>1. /\ pc[t] \in Out /\ UNCHANGED Hands /\ UNCHANGED <<panes, undefended>>
            /\ counted' \in Nat
        BY <1>0, <1>1, <2>2 DEF BeginSpawn, Hands, Out
      <3>2. "seek" \in Out  BY DEF Out
      <3> QED  BY <1>0, <2>2, <3>1, <3>2, IdleTakes
    <2> QED  BY <1>1, <2>1, <2>2 DEF BeginSpawn
  <1>2. ASSUME NEW id \in Ids, SeeDead(t, id) PROVE IdleMove(t)
    <2>1. /\ pc[t] \in Out /\ UNCHANGED Hands /\ UNCHANGED <<panes, undefended>>
          /\ counted' \in Nat /\ Goto(t, "respawn") /\ req' = [req EXCEPT ![t] = id]
      BY <1>0, <1>2 DEF SeeDead, Hands, Out
    <2>2. "respawn" \in Out  BY DEF Out
    <2> QED  BY <1>0, <2>1, <2>2, IdleTakes
  <1>3. CASE SeekQueued(t)
    <2>1. pc[t] \in Out /\ UNCHANGED <<panes, undefended>> /\ req[t] \in Ids
      BY <1>0, <1>3, SameLocals DEF SeekQueued, Out, Named
    <2>2. CASE Finish(t, FALSE)  BY <1>0, <2>1, <2>2, IdleFinishes
    <2>3. CASE Goto(t, "count") /\ UNCHANGED locals
      <3>1. "count" \in Out  BY DEF Out
      <3> QED  BY <1>0, <2>1, <2>3, <3>1, IdleGoes
    <2> QED  BY <1>3, <2>2, <2>3 DEF SeekQueued
  <1>4. ASSUME CountWorking(t) PROVE IdleMove(t) \/ \E id \in Ids : EnterMove(t, id)
    <2>1. /\ pc[t] \in Out /\ UNCHANGED panes /\ req[t] \in Ids /\ UNCHANGED Hands
          /\ counted' \in Nat /\ UNCHANGED counted
      BY <1>0, <1>4, SameLocals DEF CountWorking, Out, Named, Hands
    <2>2. CASE EnterDoSpawn(t, req[t])
      <3>1. UNCHANGED <<Hands, panes>>  BY <2>1
      <3>2. PICK id \in Ids : id = req[t]  BY <2>1
      <3> QED  BY <1>0, <2>1, <2>2, <3>1, <3>2, EnterGoes
    <2>3. CASE Goto(t, "enqueue") /\ UNCHANGED <<req, undefended>>
      <3>1. "enqueue" \in Out  BY DEF Out
      <3>2. UNCHANGED locals /\ UNCHANGED <<panes, undefended>>
        BY <2>1, <2>3 DEF locals, Hands
      <3> QED  BY <1>0, <2>1, <2>3, <3>1, <3>2, IdleGoes
    <2> QED  BY <1>4, <2>2, <2>3 DEF CountWorking
  <1>5. CASE Enqueue(t)
    <2>1. pc[t] \in Out /\ UNCHANGED <<panes, undefended>> /\ Finish(t, FALSE)
      BY <1>5 DEF Enqueue, Out
    <2> QED  BY <1>0, <2>1, IdleFinishes
  <1>6. ASSUME RunNow(t) PROVE \E id \in Ids : EnterMove(t, id)
    <2>1. PICK i \in DOMAIN queue : EnterDoSpawn(t, queue[i])  BY <1>6 DEF RunNow
    <2>2. queue[i] \in Ids  BY <1>0 DEF DataTypes
    <2>3. pc[t] \in Out /\ UNCHANGED <<Hands, panes>> /\ counted' \in Nat
      BY <1>0, <1>6 DEF RunNow, Hands, Out
    <2> QED  BY <1>0, <2>1, <2>2, <2>3, EnterGoes
  <1>7. ASSUME Respawn(t) PROVE \E id \in Ids : EnterMove(t, id)
    <2>1. /\ pc[t] \in Out /\ req[t] \in Ids /\ UNCHANGED <<Hands, panes>>
          /\ counted' \in Nat /\ EnterDoSpawn(t, req[t])
      BY <1>0, <1>7, SameLocals DEF Respawn, Out, Named, Hands
    <2> QED  BY <1>0, <2>1, EnterGoes
  <1>8. ASSUME t = Timer, Tick PROVE IdleMove(t)
    <2>1. PICK r, h, w, b : r = req[t] /\ h = held[t] /\ w = waits[t] /\ b = hasTree[t]
      OBVIOUS
    <2>2. /\ req' = [req EXCEPT ![t] = r] /\ held' = [held EXCEPT ![t] = h]
          /\ waits' = [waits EXCEPT ![t] = w] /\ hasTree' = [hasTree EXCEPT ![t] = b]
      BY <1>0, <1>8, <2>1, SameLocals DEF Tick
    <2>3. /\ r \in Ids \cup {NoId} /\ h \in Pids \cup {Nothing} /\ w \in Jobs \cup {Nothing}
          /\ b \in BOOLEAN
      BY <1>0, <2>1, SameLocals
    <2>4. /\ pc[t] \in Out /\ Goto(t, "admit") /\ counted' \in Nat
          /\ UNCHANGED <<panes, undefended>> /\ "admit" \in AllSteps /\ "admit" \notin Named
      BY <1>0, <1>8 DEF Tick, Out, DataTypes, AllSteps, Named, SpawnSteps, CloseSteps
    <2>5. ThreadTypes' /\ Alone(t) /\ pc'[t] = "admit" /\ held'[t] = h /\ hasTree'[t] = b
      BY <1>0, <2>2, <2>3, <2>4, ThreadMoves
    <2> QED  BY <2>1, <2>4, <2>5 DEF IdleMove, Out
  <1>9. ASSUME t = Timer, Admit PROVE IdleMove(t) \/ \E id \in Ids : EnterMove(t, id)
    <2>1. pc[t] \in Out /\ UNCHANGED Hands /\ UNCHANGED panes
      BY <1>9 DEF Admit, Out, Hands
    <2>2. CASE queue # <<>> /\ EnterDoSpawn(t, Head(queue)) /\ UNCHANGED counted
      <3>1. Head(queue) \in Ids  BY <1>0, <2>2, HeadTailProperties DEF DataTypes
      <3>2. UNCHANGED <<Hands, panes>> /\ counted' \in Nat  BY <1>0, <2>1, <2>2
      <3> QED  BY <1>0, <2>1, <2>2, <3>1, <3>2, EnterGoes
    <2>3. CASE Goto(t, "idle") /\ counted' = 0 /\ UNCHANGED <<req, queue, undefended>>
      <3>1. PICK r, h, w, b : r = req[t] /\ h = held[t] /\ w = waits[t] /\ b = hasTree[t]
        OBVIOUS
      <3>2. /\ req' = [req EXCEPT ![t] = r] /\ held' = [held EXCEPT ![t] = h]
            /\ waits' = [waits EXCEPT ![t] = w] /\ hasTree' = [hasTree EXCEPT ![t] = b]
        BY <1>0, <2>1, <2>3, <3>1, SameLocals DEF Hands
      <3>3. /\ r \in Ids \cup {NoId} /\ h \in Pids \cup {Nothing} /\ w \in Jobs \cup {Nothing}
            /\ b \in BOOLEAN /\ counted' \in Nat
        BY <1>0, <2>3, <3>1, SameLocals
      <3>4. "idle" \in AllSteps /\ "idle" \notin Named
        BY DEF AllSteps, Named, SpawnSteps, CloseSteps
      <3>5. ThreadTypes' /\ Alone(t) /\ pc'[t] = "idle" /\ held'[t] = h /\ hasTree'[t] = b
        BY <1>0, <2>3, <3>2, <3>3, <3>4, ThreadMoves
      <3> QED  BY <2>1, <2>3, <3>1, <3>5 DEF IdleMove, Out
    <2> QED  BY <1>9, <2>2, <2>3 DEF Admit
  <1> QED  BY <1>1, <1>2, <1>3, <1>4, <1>5, <1>6, <1>7, <1>8, <1>9 DEF Outer

\* A step inside, and one that leaves.
InMove(t, from, to) ==
  /\ ThreadTypes' /\ Alone(t) /\ pc[t] = from /\ pc'[t] = to
  /\ req[t] \in Ids /\ req'[t] = req[t]

OutMove(t, from) ==
  /\ ThreadTypes' /\ Alone(t) /\ pc[t] = from /\ pc'[t] \in {"idle", "admit"}
  /\ req[t] \in Ids /\ req'[t] = NoId
  /\ held'[t] = Nothing /\ waits'[t] = Nothing /\ hasTree'[t] = FALSE

LEMMA InGoes ==
  ASSUME ThreadTypes, NEW t \in Threads, pc[t] \in Named, NEW step \in AllSteps,
         Goto(t, step), UNCHANGED locals
  PROVE  /\ InMove(t, pc[t], step) /\ held'[t] = held[t] /\ waits'[t] = waits[t]
         /\ hasTree'[t] = hasTree[t]
  BY GoesOn, SameLocals DEF InMove

LEMMA InTakes ==
  ASSUME ThreadTypes, NEW t \in Threads, pc[t] \in Named, NEW step \in AllSteps,
         Goto(t, step), UNCHANGED <<req, counted>>,
         NEW h \in Pids \cup {Nothing}, held' = [held EXCEPT ![t] = h],
         NEW w \in Jobs \cup {Nothing}, waits' = [waits EXCEPT ![t] = w],
         NEW b \in BOOLEAN, hasTree' = [hasTree EXCEPT ![t] = b]
  PROVE  /\ InMove(t, pc[t], step) /\ held'[t] = h /\ waits'[t] = w
         /\ hasTree'[t] = b
  <1>1. PICK r : r = req[t]  OBVIOUS
  <1>2. r \in Ids /\ r \in Ids \cup {NoId} /\ req' = [req EXCEPT ![t] = r] /\ counted' \in Nat
    BY <1>1, SameLocals
  <1>3. /\ ThreadTypes' /\ Alone(t) /\ pc'[t] = step /\ req'[t] = r /\ held'[t] = h
        /\ waits'[t] = w /\ hasTree'[t] = b
    BY <1>2, ThreadMoves
  <1> QED  BY <1>1, <1>2, <1>3 DEF InMove

LEMMA OutGoes ==
  ASSUME ThreadTypes, NEW t \in Threads, pc[t] \in Named, NEW ok \in BOOLEAN, Finish(t, ok)
  PROVE  OutMove(t, pc[t])
  BY Finishes, SameLocals DEF OutMove

LEMMA SpawnMoves ==
  ASSUME TypeInv, NEW t \in Threads
  PROVE  /\ LookupBarrier(t) => /\ InMove(t, "lookup", "wait") /\ held'[t] = held[t]
                                /\ waits'[t] = barrier[req[t]] /\ hasTree'[t] = hasTree[t]
         /\ WaitBarrier(t) => /\ InMove(t, "wait", "tree") /\ held'[t] = held[t]
                              /\ waits'[t] = Nothing /\ hasTree'[t] = hasTree[t]
         /\ PrepareTree(t) =>
              \/ /\ InMove(t, "tree", "fork") /\ held'[t] = held[t] /\ waits'[t] = waits[t]
                 /\ hasTree'[t] = TRUE /\ tree' = tree \cup {req[t]} /\ UNCHANGED undefended
              \/ /\ InMove(t, "tree", "fork") /\ held'[t] = held[t] /\ waits'[t] = waits[t]
                 /\ hasTree'[t] = hasTree[t] /\ tree' \in {tree, tree \cup {req[t]}}
                 /\ undefended' = undefended \cup (tree' \cap {req[t]})
              \/ /\ OutMove(t, "tree") /\ tree' = tree \cup {req[t]}
                 /\ undefended' = undefended \cup (tree' \ tree)
         /\ Fork(t) => \E p \in Pids :
              /\ InMove(t, "fork", "record") /\ held'[t] = p /\ waits'[t] = waits[t]
              /\ hasTree'[t] = hasTree[t] /\ proc[p] = "unborn"
              /\ proc' = [proc EXCEPT ![p] = "running"] /\ home' = [home EXCEPT ![p] = req[t]]
         /\ ForkFails(t) => OutMove(t, "fork")
         /\ RecordTree(t) => /\ InMove(t, "record", "insert") /\ held'[t] = held[t]
                             /\ waits'[t] = waits[t] /\ hasTree'[t] = hasTree[t]
         /\ InsertPane(t) => /\ InMove(t, "insert", "killold") /\ held'[t] = sups[req[t]]
                             /\ waits'[t] = waits[t] /\ hasTree'[t] = hasTree[t]
         /\ KillHeld(t) =>
              /\ InMove(t, "killold", "meta") \/ InMove(t, "kill", "unlist")
              /\ held'[t] = Nothing /\ waits'[t] = waits[t] /\ hasTree'[t] = hasTree[t]
         /\ SetMeta(t) => /\ InMove(t, "meta", "list") /\ held'[t] = held[t]
                          /\ waits'[t] = waits[t] /\ hasTree'[t] = hasTree[t]
         /\ ListPane(t) => /\ InMove(t, "list", "arm") /\ held'[t] = held[t]
                           /\ waits'[t] = waits[t] /\ hasTree'[t] = hasTree[t]
         /\ ArmWatcher(t) => OutMove(t, "arm")
  <1>0. /\ ThreadTypes /\ DataTypes
        /\ req = [req EXCEPT ![t] = req[t]] /\ held = [held EXCEPT ![t] = held[t]]
        /\ waits = [waits EXCEPT ![t] = waits[t]]
        /\ hasTree = [hasTree EXCEPT ![t] = hasTree[t]]
        /\ held[t] \in Pids \cup {Nothing} /\ waits[t] \in Jobs \cup {Nothing}
        /\ hasTree[t] \in BOOLEAN /\ (pc[t] \in Named => req[t] \in Ids)
    BY SameLocals DEF TypeInv
  <1>00. PICK h, w, b : h = held[t] /\ w = waits[t] /\ b = hasTree[t]  OBVIOUS
  <1>01. /\ held = [held EXCEPT ![t] = h] /\ waits = [waits EXCEPT ![t] = w]
         /\ hasTree = [hasTree EXCEPT ![t] = b]
         /\ h \in Pids \cup {Nothing} /\ w \in Jobs \cup {Nothing} /\ b \in BOOLEAN
    BY <1>0, <1>00
  <1>02. SpawnSteps \cup CloseSteps \subseteq Named /\ Named \subseteq AllSteps
    BY DEF Named, AllSteps
  <1>03. /\ Nothing \in Pids \cup {Nothing} /\ Nothing \in Jobs \cup {Nothing}
         /\ TRUE \in BOOLEAN
    OBVIOUS
  <1> USE DEF SpawnSteps, CloseSteps
  <1>1. ASSUME LookupBarrier(t)
        PROVE  /\ InMove(t, "lookup", "wait") /\ held'[t] = held[t]
               /\ waits'[t] = barrier[req[t]] /\ hasTree'[t] = hasTree[t]
    <2>1. PICK v : v = barrier[req[t]]  OBVIOUS
    <2>2. /\ pc[t] = "lookup" /\ Goto(t, "wait") /\ UNCHANGED <<req, counted>>
          /\ held' = [held EXCEPT ![t] = h] /\ waits' = [waits EXCEPT ![t] = v]
          /\ hasTree' = [hasTree EXCEPT ![t] = b] /\ v \in Jobs \cup {Nothing}
          /\ pc[t] \in Named /\ "wait" \in AllSteps
      BY <1>0, <1>01, <1>02, <1>1, <2>1 DEF LookupBarrier, DataTypes
    <2>3. InMove(t, pc[t], "wait") /\ held'[t] = h /\ waits'[t] = v /\ hasTree'[t] = b
      BY <1>0, <1>01, <2>2, InTakes
    <2> QED  BY <1>00, <2>1, <2>2, <2>3
  <1>2. ASSUME WaitBarrier(t)
        PROVE  /\ InMove(t, "wait", "tree") /\ held'[t] = held[t]
               /\ waits'[t] = Nothing /\ hasTree'[t] = hasTree[t]
    <2>2. /\ pc[t] = "wait" /\ Goto(t, "tree") /\ UNCHANGED <<req, counted>>
          /\ held' = [held EXCEPT ![t] = h] /\ waits' = [waits EXCEPT ![t] = Nothing]
          /\ hasTree' = [hasTree EXCEPT ![t] = b]
          /\ pc[t] \in Named /\ "tree" \in AllSteps
      BY <1>0, <1>01, <1>02, <1>2 DEF WaitBarrier
    <2>3. InMove(t, pc[t], "tree") /\ held'[t] = h /\ waits'[t] = Nothing /\ hasTree'[t] = b
      BY <1>0, <1>01, <1>03, <2>2, InTakes
    <2> QED  BY <1>00, <2>2, <2>3
  <1>3. ASSUME PrepareTree(t)
        PROVE  \/ /\ InMove(t, "tree", "fork") /\ held'[t] = held[t] /\ waits'[t] = waits[t]
                  /\ hasTree'[t] = TRUE /\ tree' = tree \cup {req[t]} /\ UNCHANGED undefended
               \/ /\ InMove(t, "tree", "fork") /\ held'[t] = held[t] /\ waits'[t] = waits[t]
                  /\ hasTree'[t] = hasTree[t] /\ tree' \in {tree, tree \cup {req[t]}}
                  /\ undefended' = undefended \cup (tree' \cap {req[t]})
               \/ /\ OutMove(t, "tree") /\ tree' = tree \cup {req[t]}
                  /\ undefended' = undefended \cup (tree' \ tree)
    <2>0. pc[t] = "tree" /\ pc[t] \in Named /\ "fork" \in AllSteps
      BY <1>02, <1>3 DEF PrepareTree
    <2>1. CASE /\ Goto(t, "fork") /\ hasTree' = [hasTree EXCEPT ![t] = TRUE]
               /\ tree' = tree \cup {req[t]} /\ UNCHANGED <<req, held, waits, counted, undefended>>
      <3>1. /\ held' = [held EXCEPT ![t] = h] /\ waits' = [waits EXCEPT ![t] = w]
            /\ UNCHANGED <<req, counted>>
        BY <1>01, <2>1
      <3>2. InMove(t, pc[t], "fork") /\ held'[t] = h /\ waits'[t] = w /\ hasTree'[t] = TRUE
        BY <1>0, <1>01, <1>03, <2>0, <2>1, <3>1, InTakes
      <3> QED  BY <1>00, <2>0, <2>1, <3>2
    <2>2. CASE /\ Goto(t, "fork") /\ UNCHANGED locals /\ tree' \in {tree, tree \cup {req[t]}}
               /\ undefended' = undefended \cup (tree' \cap {req[t]})
      <3>1. UNCHANGED locals  BY <2>2
      <3> QED  BY <1>0, <2>0, <2>2, <3>1, InGoes
    <2>3. CASE /\ Finish(t, FALSE) /\ tree' = tree \cup {req[t]}
               /\ undefended' = undefended \cup (tree' \ tree)
      BY <1>0, <2>0, <2>3, OutGoes
    <2> QED  BY <1>3, <2>1, <2>2, <2>3 DEF PrepareTree
  <1>4. ASSUME Fork(t)
        PROVE  \E p \in Pids :
                 /\ InMove(t, "fork", "record") /\ held'[t] = p /\ waits'[t] = waits[t]
                 /\ hasTree'[t] = hasTree[t] /\ proc[p] = "unborn"
                 /\ proc' = [proc EXCEPT ![p] = "running"]
                 /\ home' = [home EXCEPT ![p] = req[t]]
    <2>1. PICK p \in Pids : /\ proc[p] = "unborn" /\ held' = [held EXCEPT ![t] = p]
                            /\ proc' = [proc EXCEPT ![p] = "running"]
                            /\ home' = [home EXCEPT ![p] = req[t]]
      BY <1>4 DEF Fork
    <2>2. /\ pc[t] = "fork" /\ Goto(t, "record") /\ UNCHANGED <<req, counted>>
          /\ waits' = [waits EXCEPT ![t] = w] /\ hasTree' = [hasTree EXCEPT ![t] = b]
          /\ pc[t] \in Named /\ "record" \in AllSteps /\ p \in Pids \cup {Nothing}
      BY <1>01, <1>02, <1>4 DEF Fork
    <2>3. InMove(t, pc[t], "record") /\ held'[t] = p /\ waits'[t] = w /\ hasTree'[t] = b
      BY <1>0, <1>01, <2>1, <2>2, InTakes
    <2> QED  BY <1>00, <2>1, <2>2, <2>3
  <1>5. ASSUME ForkFails(t) PROVE OutMove(t, "fork")
    <2>1. pc[t] = "fork" /\ pc[t] \in Named /\ Finish(t, FALSE)  BY <1>02, <1>5 DEF ForkFails
    <2> QED  BY <1>0, <2>1, OutGoes
  <1>6. ASSUME RecordTree(t)
        PROVE  /\ InMove(t, "record", "insert") /\ held'[t] = held[t]
               /\ waits'[t] = waits[t] /\ hasTree'[t] = hasTree[t]
    <2>1. /\ pc[t] = "record" /\ pc[t] \in Named /\ "insert" \in AllSteps
          /\ Goto(t, "insert") /\ UNCHANGED locals
      BY <1>02, <1>6 DEF RecordTree
    <2> QED  BY <1>0, <2>1, InGoes
  <1>7. ASSUME InsertPane(t)
        PROVE  /\ InMove(t, "insert", "killold") /\ held'[t] = sups[req[t]]
               /\ waits'[t] = waits[t] /\ hasTree'[t] = hasTree[t]
    <2>1. PICK p : p = sups[req[t]]  OBVIOUS
    <2>2. /\ pc[t] = "insert" /\ Goto(t, "killold") /\ UNCHANGED <<req, counted>>
          /\ held' = [held EXCEPT ![t] = p] /\ waits' = [waits EXCEPT ![t] = w]
          /\ hasTree' = [hasTree EXCEPT ![t] = b] /\ p \in Pids \cup {Nothing}
          /\ pc[t] \in Named /\ "killold" \in AllSteps
      BY <1>0, <1>01, <1>02, <1>7, <2>1 DEF InsertPane, DataTypes
    <2>3. InMove(t, pc[t], "killold") /\ held'[t] = p /\ waits'[t] = w /\ hasTree'[t] = b
      BY <1>0, <1>01, <2>2, InTakes
    <2> QED  BY <1>00, <2>1, <2>2, <2>3
  <1>8. ASSUME KillHeld(t)
        PROVE  /\ InMove(t, "killold", "meta") \/ InMove(t, "kill", "unlist")
               /\ held'[t] = Nothing /\ waits'[t] = waits[t] /\ hasTree'[t] = hasTree[t]
    <2>1. PICK step : step = IF pc[t] = "killold" THEN "meta" ELSE "unlist"  OBVIOUS
    <2>2. /\ pc[t] \in {"killold", "kill"} /\ Goto(t, step) /\ UNCHANGED <<req, counted>>
          /\ held' = [held EXCEPT ![t] = Nothing] /\ waits' = [waits EXCEPT ![t] = w]
          /\ hasTree' = [hasTree EXCEPT ![t] = b]
          /\ pc[t] \in Named /\ step \in AllSteps
      BY <1>01, <1>02, <1>8, <2>1 DEF KillHeld
    <2>3. InMove(t, pc[t], step) /\ held'[t] = Nothing /\ waits'[t] = w /\ hasTree'[t] = b
      BY <1>0, <1>01, <1>03, <2>2, InTakes
    <2> QED  BY <1>00, <2>1, <2>2, <2>3
  <1>9. ASSUME SetMeta(t)
        PROVE  /\ InMove(t, "meta", "list") /\ held'[t] = held[t]
               /\ waits'[t] = waits[t] /\ hasTree'[t] = hasTree[t]
    <2>1. /\ pc[t] = "meta" /\ pc[t] \in Named /\ "list" \in AllSteps
          /\ Goto(t, "list") /\ UNCHANGED locals
      BY <1>02, <1>9 DEF SetMeta
    <2> QED  BY <1>0, <2>1, InGoes
  <1>10. ASSUME ListPane(t)
         PROVE  /\ InMove(t, "list", "arm") /\ held'[t] = held[t]
                /\ waits'[t] = waits[t] /\ hasTree'[t] = hasTree[t]
    <2>1. /\ pc[t] = "list" /\ pc[t] \in Named /\ "arm" \in AllSteps
          /\ Goto(t, "arm") /\ UNCHANGED locals
      BY <1>02, <1>10 DEF ListPane
    <2> QED  BY <1>0, <2>1, InGoes
  <1>11. ASSUME ArmWatcher(t) PROVE OutMove(t, "arm")
    <2>1. pc[t] = "arm" /\ pc[t] \in Named /\ Finish(t, TRUE)  BY <1>02, <1>11 DEF ArmWatcher
    <2> QED  BY <1>0, <2>1, OutGoes
  <1> QED  BY <1>1, <1>2, <1>3, <1>4, <1>5, <1>6, <1>7, <1>8, <1>9, <1>10, <1>11

LEMMA CloseMoves ==
  ASSUME TypeInv, NEW t \in Threads
  PROVE  /\ TakePane(t) => /\ InMove(t, "take", "kill") /\ held'[t] = sups[req[t]]
                           /\ waits'[t] = waits[t] /\ hasTree'[t] = hasTree[t]
         /\ UnlistPane(t) => /\ InMove(t, "unlist", "takemeta") /\ held'[t] = held[t]
                             /\ waits'[t] = waits[t] /\ hasTree'[t] = hasTree[t]
         /\ TakeMeta(t) => /\ InMove(t, "takemeta", "publish") /\ held'[t] = held[t]
                           /\ waits'[t] = waits[t] /\ hasTree'[t] = hasTree[t]
         /\ PublishBarrier(t) => /\ InMove(t, "publish", "handshake") /\ held'[t] = held[t]
                                 /\ waits'[t] = waits[t] /\ hasTree'[t] = hasTree[t]
         /\ Handshake(t) => OutMove(t, "handshake")
  <1>0. ThreadTypes /\ DataTypes  BY DEF TypeInv
  <1>02. SpawnSteps \cup CloseSteps \subseteq Named /\ Named \subseteq AllSteps
    BY DEF Named, AllSteps
  <1> USE DEF SpawnSteps, CloseSteps
  <1>1. ASSUME TakePane(t)
        PROVE  /\ InMove(t, "take", "kill") /\ held'[t] = sups[req[t]]
               /\ waits'[t] = waits[t] /\ hasTree'[t] = hasTree[t]
    <2>1. PICK p, w, b : p = sups[req[t]] /\ w = waits[t] /\ b = hasTree[t]  OBVIOUS
    <2>2. /\ pc[t] = "take" /\ pc[t] \in Named /\ "kill" \in AllSteps  /\ req[t] \in Ids
      BY <1>0, <1>02, <1>1, SameLocals DEF TakePane
    <2>3. /\ Goto(t, "kill") /\ UNCHANGED <<req, counted>>
          /\ held' = [held EXCEPT ![t] = p] /\ waits' = [waits EXCEPT ![t] = w]
          /\ hasTree' = [hasTree EXCEPT ![t] = b]
          /\ p \in Pids \cup {Nothing} /\ w \in Jobs \cup {Nothing} /\ b \in BOOLEAN
      BY <1>0, <1>1, <2>1, <2>2, SameLocals DEF TakePane, DataTypes
    <2>4. InMove(t, pc[t], "kill") /\ held'[t] = p /\ waits'[t] = w /\ hasTree'[t] = b
      BY <1>0, <2>2, <2>3, InTakes
    <2> QED  BY <2>1, <2>2, <2>4
  <1>2. ASSUME UnlistPane(t)
        PROVE  /\ InMove(t, "unlist", "takemeta") /\ held'[t] = held[t]
               /\ waits'[t] = waits[t] /\ hasTree'[t] = hasTree[t]
    <2>1. /\ pc[t] = "unlist" /\ pc[t] \in Named /\ "takemeta" \in AllSteps
          /\ Goto(t, "takemeta") /\ UNCHANGED locals
      BY <1>02, <1>2 DEF UnlistPane
    <2> QED  BY <1>0, <2>1, InGoes
  <1>3. ASSUME TakeMeta(t)
        PROVE  /\ InMove(t, "takemeta", "publish") /\ held'[t] = held[t]
               /\ waits'[t] = waits[t] /\ hasTree'[t] = hasTree[t]
    <2>1. /\ pc[t] = "takemeta" /\ pc[t] \in Named /\ "publish" \in AllSteps
          /\ Goto(t, "publish") /\ UNCHANGED locals
      BY <1>02, <1>3 DEF TakeMeta
    <2> QED  BY <1>0, <2>1, InGoes
  <1>4. ASSUME PublishBarrier(t)
        PROVE  /\ InMove(t, "publish", "handshake") /\ held'[t] = held[t]
               /\ waits'[t] = waits[t] /\ hasTree'[t] = hasTree[t]
    <2>1. /\ pc[t] = "publish" /\ pc[t] \in Named /\ "handshake" \in AllSteps
          /\ Goto(t, "handshake") /\ UNCHANGED locals
      BY <1>02, <1>4 DEF PublishBarrier
    <2> QED  BY <1>0, <2>1, InGoes
  <1>5. ASSUME Handshake(t) PROVE OutMove(t, "handshake")
    <2>1. pc[t] = "handshake" /\ pc[t] \in Named /\ Finish(t, TRUE)
      BY <1>02, <1>5 DEF Handshake
    <2> QED  BY <1>0, <2>1, OutGoes
  <1> QED  BY <1>1, <1>2, <1>3, <1>4, <1>5

LEMMA BeginCloseMoves ==
  ASSUME TypeInv, NEW t \in Threads, NEW id \in Ids, BeginClose(t, id)
  PROVE  \E j \in Jobs :
           /\ ThreadTypes' /\ Alone(t) /\ pc[t] = "idle" /\ pc'[t] = "take"
           /\ req'[t] = id /\ waits'[t] = j /\ held'[t] = held[t] /\ hasTree'[t] = hasTree[t]
           /\ jobStep[j] = "none"
           /\ jobStep' = [jobStep EXCEPT ![j] = "claimed"] /\ jobId' = [jobId EXCEPT ![j] = id]
  <1>0. ThreadTypes /\ DataTypes  BY DEF TypeInv
  <1>1. PICK j \in Jobs : /\ jobStep[j] = "none" /\ jobStep' = [jobStep EXCEPT ![j] = "claimed"]
                          /\ jobId' = [jobId EXCEPT ![j] = id]
                          /\ waits' = [waits EXCEPT ![t] = j]
    BY DEF BeginClose
  <1>2. PICK h, b : h = held[t] /\ b = hasTree[t]  OBVIOUS
  <1>3. /\ pc[t] = "idle" /\ Goto(t, "take") /\ req' = [req EXCEPT ![t] = id]
        /\ held' = [held EXCEPT ![t] = h] /\ hasTree' = [hasTree EXCEPT ![t] = b]
        /\ counted' \in Nat /\ h \in Pids \cup {Nothing} /\ b \in BOOLEAN
    BY <1>0, <1>2, SameLocals DEF BeginClose
  <1>4. PICK step, r : step = "take" /\ r = id  OBVIOUS
  <1>5. step \in AllSteps /\ r \in Ids /\ r \in Ids \cup {NoId} /\ j \in Jobs \cup {Nothing}
    BY <1>4 DEF AllSteps, CloseSteps
  <1>6. Goto(t, step) /\ req' = [req EXCEPT ![t] = r]  BY <1>3, <1>4
  <1>7. /\ ThreadTypes' /\ Alone(t) /\ pc'[t] = step /\ req'[t] = r /\ held'[t] = h
        /\ waits'[t] = j /\ hasTree'[t] = b
    BY <1>0, <1>1, <1>3, <1>5, <1>6, ThreadMoves
  <1> QED  BY <1>1, <1>2, <1>3, <1>4, <1>7

\* Steps that are no thread's.
Bystander ==
  \/ \E j \in Jobs : JobStep(j)
  \/ \E id \in Ids : StopWatching(id)
  \/ \E p \in Pids : AgentExits(p)
  \/ HooksLand \/ UNCHANGED vars

\* Every step is one of these.
LEMMA Cases ==
  [Next]_vars =>
    \/ \E t \in Threads : Outer(t)
    \/ \E t \in Threads : DoSpawnStep(t)
    \/ \E t \in Threads : \E id \in Ids : BeginClose(t, id)
    \/ \E t \in Threads : \/ TakePane(t) \/ UnlistPane(t) \/ TakeMeta(t)
                           \/ PublishBarrier(t) \/ Handshake(t)
    \/ Bystander
  <1> SUFFICES ASSUME [Next]_vars
               PROVE  \/ \E t \in Threads : Outer(t)
                      \/ \E t \in Threads : DoSpawnStep(t)
                      \/ \E t \in Threads : \E id \in Ids : BeginClose(t, id)
                      \/ \E t \in Threads : \/ TakePane(t) \/ UnlistPane(t) \/ TakeMeta(t)
                                             \/ PublishBarrier(t) \/ Handshake(t)
                      \/ Bystander
    OBVIOUS
  <1>1. Cmds \subseteq Threads /\ Watchers \subseteq Threads /\ Timer \in Threads
    BY DEF Threads
  <1>2. ASSUME NEW c \in Cmds, Request(c)
        PROVE  Outer(c) \/ \E id \in Ids : BeginClose(c, id)
    BY <1>2 DEF Request, Outer
  <1>3. ASSUME NEW c \in Cmds, CmdStep(c)
        PROVE  Outer(c) \/ DoSpawnStep(c) \/ TakePane(c) \/ UnlistPane(c) \/ TakeMeta(c)
                 \/ PublishBarrier(c) \/ Handshake(c)
    BY <1>3 DEF CmdStep, Outer
  <1>4. ASSUME NEW w \in Watchers,
               (\E id \in Ids : SeeDead(w, id)) \/ Respawn(w) \/ DoSpawnStep(w)
        PROVE  Outer(w) \/ DoSpawnStep(w)
    BY <1>4 DEF Outer
  <1>5. TimerStep => Outer(Timer) \/ DoSpawnStep(Timer)  BY DEF TimerStep, Outer
  <1> QED  BY <1>1, <1>2, <1>3, <1>4, <1>5 DEF Next, Bystander

LEMMA InitTypes == Init => TypeInv
  <1> SUFFICES ASSUME Init PROVE TypeInv  OBVIOUS
  <1>1. Budget \in Nat /\ MaxWorking \in Nat  BY AppAssumption
  <1>2. ThreadTypes
    BY DEF Init, ThreadTypes, AllSteps, Named, SpawnSteps, CloseSteps
  <1>3. DataTypes
    <2>1. <<>> \in Seq(Ids)  OBVIOUS
    <2> QED  BY <1>1, <2>1 DEF Init, DataTypes
  <1> QED  BY <1>2, <1>3 DEF TypeInv

LEMMA OuterTypes ==
  ASSUME TypeInv, NEW t \in Threads, Outer(t) PROVE TypeInv'
  <1>0. ThreadTypes /\ DataTypes  BY DEF TypeInv
  <1>1. /\ ThreadTypes' /\ UNCHANGED panes
        /\ undefended' \in {undefended} \cup {undefended \cup {id} : id \in Ids}
    <2>1. CASE IdleMove(t)  BY <2>1 DEF IdleMove
    <2>2. ASSUME NEW id \in Ids, EnterMove(t, id)
          PROVE  /\ ThreadTypes' /\ UNCHANGED panes
                 /\ undefended' \in {undefended} \cup {undefended \cup {i} : i \in Ids}
      BY <2>2 DEF EnterMove
    <2> QED  BY <2>1, <2>2, OuterMoves
  <1>2. undefended' \subseteq Ids  BY <1>0, <1>1 DEF DataTypes
  <1>3. queue' \in Seq(Ids)
    <2>0. queue \in Seq(Ids)  BY <1>0 DEF DataTypes
    <2>1. CASE UNCHANGED queue  BY <2>0, <2>1
    <2>2. CASE Enqueue(t)
      <3>1. pc[t] \in Named /\ req[t] \in Ids
        BY <1>0, <2>2, SameLocals DEF Enqueue, Named
      <3>2. queue' \in {queue, Append(queue, req[t])}  BY <2>2 DEF Enqueue
      <3> QED  BY <2>0, <3>1, <3>2, AppendProperties
    <2>3. CASE RunNow(t)
      <3>1. PICK i \in DOMAIN queue :
              queue' = SubSeq(queue, 1, i - 1) \o SubSeq(queue, i + 1, Len(queue))
        BY <2>3 DEF RunNow
      <3>2. i \in 1 .. Len(queue) /\ Len(queue) \in Nat /\ \A k \in 1 .. Len(queue) : queue[k] \in Ids
        BY <2>0, <3>1
      <3>3. \A k \in 1 .. i - 1 : queue[k] \in Ids  BY <3>2
      <3>4. \A k \in i + 1 .. Len(queue) : queue[k] \in Ids  BY <3>2
      <3>5. 1 \in Int /\ i - 1 \in Int /\ i + 1 \in Int /\ Len(queue) \in Int  BY <3>2
      <3>6. SubSeq(queue, 1, i - 1) \in Seq(Ids)  BY <3>3, <3>5, SubSeqProperties
      <3>7. SubSeq(queue, i + 1, Len(queue)) \in Seq(Ids)  BY <3>4, <3>5, SubSeqProperties
      <3> QED  BY <3>1, <3>6, <3>7, ConcatProperties
    <2>4. CASE Admit
      <3>1. queue' = queue \/ (queue # <<>> /\ queue' = Tail(queue))
        <4>1. CASE AdmitDecision(counted) /\ queue # <<>>  BY <2>4, <4>1 DEF Admit
        <4>2. CASE ~(AdmitDecision(counted) /\ queue # <<>>)  BY <2>4, <4>2 DEF Admit
        <4> QED  BY <4>1, <4>2
      <3> QED  BY <2>0, <3>1, HeadTailProperties
    <2> QED  BY <2>1, <2>2, <2>3, <2>4
             DEF Outer, BeginSpawn, SeeDead, SeekQueued, CountWorking, Respawn, Tick, memory
  <1>4. /\ watch' \in [Ids -> Nat] /\ tries' \in [Ids -> 0 .. Budget]
        /\ UNCHANGED working
    <2>0. watch \in [Ids -> Nat] /\ tries \in [Ids -> 0 .. Budget] /\ Budget \in Nat
      BY <1>0, AppAssumption DEF DataTypes
    <2>1. ASSUME NEW id \in Ids, SeeDead(t, id)
          PROVE  watch' \in [Ids -> Nat] /\ tries' \in [Ids -> 0 .. Budget]
      <3>1. watch[id] \in Nat /\ watch[id] > 0 /\ tries[id] \in 0 .. Budget /\ tries[id] < Budget
        BY <2>0, <2>1 DEF SeeDead
      <3>2. watch[id] - 1 \in Nat /\ tries[id] + 1 \in 0 .. Budget  BY <2>0, <3>1
      <3>3. /\ watch' = [watch EXCEPT ![id] = watch[id] - 1]
            /\ tries' = [tries EXCEPT ![id] = tries[id] + 1]
        BY <2>1 DEF SeeDead
      <3> QED  BY <2>0, <3>2, <3>3
    <2>2. (\E id \in Ids : SeeDead(t, id)) \/ UNCHANGED <<watch, tries>>
      BY DEF Outer, BeginSpawn, SeekQueued, CountWorking, Enqueue, RunNow, Respawn, Tick,
         Admit, memory
    <2>3. UNCHANGED working
      BY DEF Outer, BeginSpawn, SeekQueued, CountWorking, Enqueue, RunNow, Respawn, Tick,
         Admit, SeeDead, world
    <2> QED  BY <2>0, <2>1, <2>2, <2>3
  <1>5. DataTypes'
    BY <1>0, <1>1, <1>2, <1>3, <1>4 DEF DataTypes, panes, jobs, disk
  <1> QED  BY <1>1, <1>5 DEF TypeInv

LEMMA SpawnTypes ==
  ASSUME TypeInv, NEW t \in Threads, DoSpawnStep(t) PROVE TypeInv'
  <1>0. ThreadTypes /\ DataTypes  BY DEF TypeInv
  <1>1. ThreadTypes' /\ req[t] \in Ids
    <2>1. \A from, to : InMove(t, from, to) => ThreadTypes' /\ req[t] \in Ids  BY DEF InMove
    <2>2. \A from : OutMove(t, from) => ThreadTypes' /\ req[t] \in Ids  BY DEF OutMove
    <2> QED  BY <2>1, <2>2, SpawnMoves DEF DoSpawnStep
  <1> USE DEF DataTypes, memory, jobs, disk, world
  <1>2. CASE LookupBarrier(t)  BY <1>0, <1>1, <1>2 DEF LookupBarrier, TypeInv
  <1>3. CASE WaitBarrier(t)  BY <1>0, <1>1, <1>3 DEF WaitBarrier, TypeInv
  <1>4. CASE PrepareTree(t)
    <2>1. tree' \subseteq Ids /\ undefended' \subseteq Ids
      BY <1>0, <1>1, <1>4 DEF PrepareTree
    <2> QED  BY <1>0, <1>1, <1>4, <2>1 DEF PrepareTree, TypeInv
  <1>5. CASE Fork(t)
    <2>1. /\ proc' \in [Pids -> {"unborn", "running", "exited"}]
          /\ home' \in [Pids -> Ids \cup {NoId}]
      BY <1>0, <1>1, <1>5 DEF Fork
    <2> QED  BY <1>0, <1>1, <1>5, <2>1 DEF Fork, TypeInv
  <1>6. CASE ForkFails(t)
    <2>1. tree' \subseteq Ids /\ undefended' \subseteq Ids  BY <1>0, <1>1, <1>6 DEF ForkFails
    <2> QED  BY <1>0, <1>1, <1>6, <2>1 DEF ForkFails, TypeInv
  <1>7. CASE RecordTree(t)
    <2>1. lines' \subseteq Ids  BY <1>0, <1>1, <1>7 DEF RecordTree
    <2> QED  BY <1>0, <1>1, <1>7, <2>1 DEF RecordTree, TypeInv
  <1>8. CASE InsertPane(t)
    <2>1. held[t] \in Pids \cup {Nothing}  BY <1>0, SameLocals
    <2>2. sups' \in [Ids -> Pids \cup {Nothing}]  BY <1>0, <1>1, <1>8, <2>1 DEF InsertPane
    <2> QED  BY <1>0, <1>1, <1>8, <2>2 DEF InsertPane, TypeInv
  <1>9. CASE KillHeld(t)
    <2>1. proc' \in [Pids -> {"unborn", "running", "exited"}]  BY <1>0, <1>9 DEF KillHeld
    <2> QED  BY <1>0, <1>1, <1>9, <2>1 DEF KillHeld, TypeInv
  <1>10. CASE SetMeta(t)
    <2>1. meta' \in [Ids -> {"none", "bare", "tree"}]  BY <1>0, <1>1, <1>10 DEF SetMeta
    <2> QED  BY <1>0, <1>1, <1>10, <2>1 DEF SetMeta, TypeInv
  <1>11. CASE ListPane(t)
    <2>1. listed' \subseteq Ids  BY <1>0, <1>1, <1>11 DEF ListPane
    <2> QED  BY <1>0, <1>1, <1>11, <2>1 DEF ListPane, TypeInv
  <1>12. CASE ArmWatcher(t)
    <2>1. watch' = [watch EXCEPT ![req[t]] = watch[req[t]] + 1]  BY <1>12 DEF ArmWatcher
    <2>2. watch[req[t]] + 1 \in Nat  BY <1>0, <1>1
    <2>3. watch' \in [Ids -> Nat]  BY <1>0, <2>1, <2>2
    <2> QED  BY <1>0, <1>1, <1>12, <2>3 DEF ArmWatcher, TypeInv
  <1> QED  BY <1>2, <1>3, <1>4, <1>5, <1>6, <1>7, <1>8, <1>9, <1>10, <1>11, <1>12
           DEF DoSpawnStep

LEMMA CloseTypes ==
  ASSUME TypeInv, NEW t \in Threads,
         \/ \E id \in Ids : BeginClose(t, id)
         \/ TakePane(t) \/ UnlistPane(t) \/ TakeMeta(t) \/ PublishBarrier(t) \/ Handshake(t)
  PROVE  TypeInv'
  <1>0. ThreadTypes /\ DataTypes  BY DEF TypeInv
  <1> USE DEF DataTypes, memory, jobs, disk, world
  <1>1. ASSUME NEW id \in Ids, BeginClose(t, id) PROVE TypeInv'
    <2>1. PICK j \in Jobs : /\ ThreadTypes'
                            /\ jobStep' = [jobStep EXCEPT ![j] = "claimed"]
                            /\ jobId' = [jobId EXCEPT ![j] = id]
      BY <1>1, BeginCloseMoves
    <2>2. undefended' \subseteq Ids  BY <1>0, <1>1 DEF BeginClose
    <2>3. UNCHANGED <<sups, meta, barrier, queue, watch, tries, jobTree, tree, lines, listed,
                      working, proc, home>>
      BY <1>1 DEF BeginClose
    <2> QED  BY <1>0, <2>1, <2>2, <2>3 DEF TypeInv
  <1>2. ASSUME \/ TakePane(t) \/ UnlistPane(t) \/ TakeMeta(t) \/ PublishBarrier(t)
               \/ Handshake(t)
        PROVE  ThreadTypes' /\ req[t] \in Ids /\ waits[t] \in Jobs \cup {Nothing}
    <2>1. \A from, to : InMove(t, from, to) => ThreadTypes' /\ req[t] \in Ids  BY DEF InMove
    <2>2. \A from : OutMove(t, from) => ThreadTypes' /\ req[t] \in Ids  BY DEF OutMove
    <2> QED  BY <1>0, <1>2, <2>1, <2>2, CloseMoves, SameLocals
  <1>3. CASE TakePane(t)
    <2>1. sups' \in [Ids -> Pids \cup {Nothing}]  BY <1>0, <1>2, <1>3 DEF TakePane
    <2> QED  BY <1>0, <1>2, <1>3, <2>1 DEF TakePane, TypeInv
  <1>4. CASE UnlistPane(t)
    <2>1. listed' \subseteq Ids  BY <1>0, <1>4 DEF UnlistPane
    <2> QED  BY <1>0, <1>2, <1>4, <2>1 DEF UnlistPane, TypeInv
  <1>5. CASE TakeMeta(t)
    <2>1. /\ meta' \in [Ids -> {"none", "bare", "tree"}]
          /\ jobTree' \in [Jobs -> BOOLEAN] /\ undefended' \subseteq Ids
      BY <1>0, <1>2, <1>5 DEF TakeMeta
    <2> QED  BY <1>0, <1>2, <1>5, <2>1 DEF TakeMeta, TypeInv
  <1>6. CASE PublishBarrier(t)
    <2>1. /\ barrier' \in [Ids -> Jobs \cup {Nothing}]
          /\ jobStep' \in [Jobs -> {"none", "claimed", "published", "rmtree", "unrecord",
                                     "drain", "done"}]
      BY <1>0, <1>2, <1>6 DEF PublishBarrier
    <2> QED  BY <1>0, <1>2, <1>6, <2>1 DEF PublishBarrier, TypeInv
  <1>7. CASE Handshake(t)  BY <1>0, <1>2, <1>7 DEF Handshake, TypeInv
  <1> QED  BY <1>1, <1>3, <1>4, <1>5, <1>6, <1>7

\* What a bystander's step leaves: the threads, and all but its own subject.
LEMMA BystanderTypes ==
  ASSUME TypeInv, Bystander
  PROVE  TypeInv' /\ UNCHANGED <<pc, req, held, waits, hasTree>>
  <1>0. ThreadTypes /\ DataTypes  BY DEF TypeInv
  <1>1. UNCHANGED <<pc, locals>>
    BY DEF Bystander, JobStep, LockBarrier, RemoveTree, UnrecordTree, DrainBarrier,
       StopWatching, AgentExits, HooksLand, vars
  <1>2. ThreadTypes'  BY <1>0, <1>1 DEF ThreadTypes, locals
  <1> USE DEF DataTypes, memory, jobs, disk, world
  <1>3. ASSUME NEW j \in Jobs, JobStep(j) PROVE DataTypes'
    <2>1. CASE LockBarrier(j)  BY <1>0, <2>1 DEF LockBarrier, JobGoto
    <2>2. CASE RemoveTree(j)
      <3>1. tree' \subseteq Ids /\ undefended' \subseteq Ids  BY <1>0, <2>2 DEF RemoveTree
      <3> QED  BY <1>0, <2>2, <3>1 DEF RemoveTree, JobGoto
    <2>3. CASE UnrecordTree(j)
      <3>1. lines' \subseteq Ids  BY <1>0, <2>3 DEF UnrecordTree
      <3> QED  BY <1>0, <2>3, <3>1 DEF UnrecordTree, JobGoto
    <2>4. CASE DrainBarrier(j)
      <3>1. barrier' \in [Ids -> Jobs \cup {Nothing}]  BY <1>0, <2>4 DEF DrainBarrier
      <3> QED  BY <1>0, <2>4, <3>1 DEF DrainBarrier, JobGoto
    <2> QED  BY <1>3, <2>1, <2>2, <2>3, <2>4 DEF JobStep
  <1>4. ASSUME NEW id \in Ids, StopWatching(id) PROVE DataTypes'
    <2>1. watch[id] \in Nat /\ watch[id] > 0  BY <1>0, <1>4 DEF StopWatching
    <2>2. watch' = [watch EXCEPT ![id] = watch[id] - 1] /\ watch[id] - 1 \in Nat
      BY <1>4, <2>1 DEF StopWatching
    <2>3. watch' \in [Ids -> Nat]  BY <1>0, <2>2
    <2> QED  BY <1>0, <1>4, <2>3 DEF StopWatching
  <1>5. ASSUME NEW p \in Pids, AgentExits(p) PROVE DataTypes'
    BY <1>0, <1>5 DEF AgentExits
  <1>6. ASSUME HooksLand PROVE DataTypes'  BY <1>0, <1>6 DEF HooksLand
  <1>7. ASSUME UNCHANGED vars PROVE DataTypes'  BY <1>0, <1>7 DEF vars
  <1>8. DataTypes'  BY <1>3, <1>4, <1>5, <1>6, <1>7 DEF Bystander
  <1> QED  BY <1>1, <1>2, <1>8 DEF TypeInv, locals

LEMMA StepTypes == TypeInv /\ [Next]_vars => TypeInv'
  BY Cases, OuterTypes, SpawnTypes, CloseTypes, BystanderTypes

\* Every variable keeps its type.
THEOREM AppTypesHold == Spec => []TypeOK
  <1>1. TypeInv => TypeOK  BY DEF TypeInv, ThreadTypes, DataTypes, TypeOK, AllSteps
  <1> QED  BY <1>1, InitTypes, StepTypes, PTL DEF Spec

-----------------------------------------------------------------------------
(* Children: a pid is the child of the id it was forked for, wherever it   *)
(* is held.                                                                *)

Holding == {"record", "insert", "killold", "kill"}

Homes ==
  /\ \A id \in Ids : sups[id] # Nothing => home[sups[id]] = id /\ proc[sups[id]] # "unborn"
  /\ \A t \in Threads : held[t] # Nothing => proc[held[t]] # "unborn"
  /\ \A t \in Threads :
       pc[t] \in {"record", "insert"} => held[t] # Nothing /\ home[held[t]] = req[t]
  /\ NoStrayChild

\* A running child has its place.
Placed(p) ==
  \/ sups[home[p]] = p
  \/ \E t \in Threads : held[t] = p /\ pc[t] \in Holding

LEMMA StrayIs == NoStrayChild <=> \A p \in Pids : proc[p] = "running" => Placed(p)
  BY DEF NoStrayChild, Placed, Holding

LEMMA InitHomes == Init => Homes
  <1> SUFFICES ASSUME Init PROVE Homes  OBVIOUS
  <1>1. \A p \in Pids : proc[p] # "running"  BY DEF Init
  <1> QED  BY <1>1 DEF Init, Homes, NoStrayChild

\* A step of a thread that holds no child.
LEMMA QuietHomes ==
  ASSUME TypeInv, Homes, NEW t \in Threads, Alone(t), UNCHANGED <<sups, proc, home>>,
         held'[t] \in {held[t], Nothing}, pc[t] \notin Holding,
         pc'[t] \notin {"record", "insert"}
  PROVE  Homes'
  <1>1. \A id \in Ids : sups'[id] # Nothing => home'[sups'[id]] = id /\ proc'[sups'[id]] # "unborn"
    BY DEF Homes
  <1>2. \A u \in Threads : held'[u] # Nothing => proc'[held'[u]] # "unborn"
    BY DEF Homes, Alone
  <1>3. \A u \in Threads : pc'[u] \in {"record", "insert"} => held'[u] # Nothing /\ home'[held'[u]] = req'[u]
    BY DEF Homes, Alone
  <1>4. ASSUME NEW p \in Pids, proc'[p] = "running" PROVE Placed(p)'
    <2>1. Placed(p)  BY <1>4, StrayIs DEF Homes
    <2>2. CASE sups[home[p]] = p  BY <2>2 DEF Placed
    <2>3. ASSUME NEW u \in Threads, held[u] = p, pc[u] \in Holding PROVE Placed(p)'
      <3>1. u # t  BY <2>3
      <3>2. held'[u] = p /\ pc'[u] \in Holding  BY <2>3, <3>1 DEF Alone
      <3> QED  BY <3>2 DEF Placed
    <2> QED  BY <2>1, <2>2, <2>3 DEF Placed
  <1>5. NoStrayChild'
    BY <1>4 DEF NoStrayChild, Placed, Holding
  <1> QED  BY <1>1, <1>2, <1>3, <1>5 DEF Homes

LEMMA OuterHomes ==
  ASSUME TypeInv, Homes, NEW t \in Threads, Outer(t) PROVE Homes'
  <1>1. ASSUME IdleMove(t) PROVE Homes'
    <2>1. pc[t] \notin Holding /\ pc'[t] \notin {"record", "insert"}
      BY <1>1 DEF IdleMove, Out, Holding
    <2>2. Alone(t) /\ UNCHANGED <<sups, proc, home>> /\ held'[t] \in {held[t], Nothing}
      BY <1>1 DEF IdleMove, panes
    <2> QED  BY <2>1, <2>2, QuietHomes
  <1>2. ASSUME NEW id \in Ids, EnterMove(t, id) PROVE Homes'
    <2>1. pc[t] \notin Holding /\ pc'[t] \notin {"record", "insert"}
      BY <1>2 DEF EnterMove, Out, Holding
    <2>2. Alone(t) /\ UNCHANGED <<sups, proc, home>> /\ held'[t] \in {held[t], Nothing}
      BY <1>2 DEF EnterMove, panes
    <2> QED  BY <2>1, <2>2, QuietHomes
  <1> QED  BY <1>1, <1>2, OuterMoves

LEMMA ForkHomes ==
  ASSUME TypeInv, Homes, NEW t \in Threads, Fork(t) PROVE Homes'
  <1>1. PICK p \in Pids :
          /\ InMove(t, "fork", "record") /\ held'[t] = p /\ proc[p] = "unborn"
          /\ proc' = [proc EXCEPT ![p] = "running"] /\ home' = [home EXCEPT ![p] = req[t]]
    BY SpawnMoves
  <1>2. UNCHANGED sups  BY DEF Fork, memory
  <1>3. /\ proc \in [Pids -> {"unborn", "running", "exited"}]
        /\ home \in [Pids -> Ids \cup {NoId}] /\ sups \in [Ids -> Pids \cup {Nothing}]
        /\ held \in [Threads -> Pids \cup {Nothing}]
    BY DEF TypeInv, DataTypes, ThreadTypes
  <1>4. /\ proc'[p] = "running" /\ home'[p] = req[t]
        /\ \A q \in Pids \ {p} : proc'[q] = proc[q] /\ home'[q] = home[q]
    BY <1>1, <1>3
  <1>5. /\ Alone(t) /\ pc[t] = "fork" /\ pc'[t] = "record" /\ req'[t] = req[t] /\ req[t] \in Ids
    BY <1>1 DEF InMove
  <1>6. Nothing \notin Pids  BY DEF Nothing, Pids
  <1>7. ASSUME NEW id \in Ids, sups[id] # Nothing
        PROVE  home'[sups[id]] = id /\ proc'[sups[id]] # "unborn"
    <2>1. sups[id] \in Pids /\ sups[id] # p  BY <1>1, <1>3, <1>7 DEF Homes
    <2> QED  BY <1>4, <1>7, <2>1 DEF Homes
  <1>8. ASSUME NEW u \in Threads
        PROVE  /\ held'[u] # Nothing => proc'[held'[u]] # "unborn"
               /\ pc'[u] \in {"record", "insert"} =>
                    held'[u] # Nothing /\ home'[held'[u]] = req'[u]
    <2>1. CASE u = t  BY <1>1, <1>4, <1>5, <1>6, <2>1
    <2>2. CASE u # t
      <3>1. held'[u] = held[u] /\ pc'[u] = pc[u] /\ req'[u] = req[u]  BY <1>5, <2>2 DEF Alone
      <3>2. held[u] # Nothing => held[u] \in Pids /\ held[u] # p  BY <1>1, <1>3 DEF Homes
      <3> QED  BY <1>4, <3>1, <3>2 DEF Homes
    <2> QED  BY <2>1, <2>2
  <1>9. ASSUME NEW q \in Pids, proc'[q] = "running" PROVE Placed(q)'
    <2>1. CASE q = p  BY <1>1, <1>5, <2>1 DEF Placed, Holding
    <2>2. CASE q # p
      <3>1. Placed(q) /\ home'[q] = home[q]  BY <1>4, <1>9, <2>2, StrayIs DEF Homes
      <3>2. CASE sups[home[q]] = q  BY <1>2, <3>1, <3>2 DEF Placed
      <3>3. ASSUME NEW u \in Threads, held[u] = q, pc[u] \in Holding PROVE Placed(q)'
        <4>1. u # t  BY <1>5, <3>3 DEF Holding
        <4>2. held'[u] = q /\ pc'[u] \in Holding  BY <1>5, <3>3, <4>1 DEF Alone
        <4> QED  BY <4>2 DEF Placed
      <3> QED  BY <3>1, <3>2, <3>3 DEF Placed
    <2> QED  BY <2>1, <2>2
  <1>10. NoStrayChild'  BY <1>9 DEF NoStrayChild, Placed, Holding
  <1> QED  BY <1>2, <1>7, <1>8, <1>10 DEF Homes

\* A thread that takes what sups has for its id, and puts what it held or
\* nothing in its place.
LEMMA SwapHomes ==
  ASSUME TypeInv, Homes, NEW t \in Threads, InsertPane(t) \/ TakePane(t) PROVE Homes'
  <1>0. /\ sups \in [Ids -> Pids \cup {Nothing}] /\ held \in [Threads -> Pids \cup {Nothing}]
    BY DEF TypeInv, DataTypes, ThreadTypes
  <1>1. PICK id \in Ids, p \in Pids \cup {Nothing} :
          /\ req[t] = id /\ sups' = [sups EXCEPT ![id] = p] /\ held'[t] = sups[id]
          /\ Alone(t) /\ UNCHANGED <<proc, home>> /\ pc'[t] \in {"killold", "kill"}
          /\ p # Nothing => home[p] = id /\ proc[p] # "unborn"
          /\ pc[t] \in Holding => held[t] = p /\ p # Nothing
    <2>1. CASE InsertPane(t)
      <3>1. /\ InMove(t, "insert", "killold") /\ held'[t] = sups[req[t]]
        BY <2>1, SpawnMoves
      <3>2. sups' = [sups EXCEPT ![req[t]] = held[t]] /\ UNCHANGED <<proc, home>>
        BY <2>1 DEF InsertPane, world
      <3>3. /\ Alone(t) /\ pc[t] = "insert" /\ pc'[t] = "killold" /\ req[t] \in Ids
        BY <3>1 DEF InMove
      <3>4. held[t] # Nothing /\ home[held[t]] = req[t] /\ proc[held[t]] # "unborn"
        BY <3>3 DEF Homes
      <3>5. held[t] \in Pids \cup {Nothing}  BY <1>0
      <3> QED  BY <3>1, <3>2, <3>3, <3>4, <3>5
    <2>2. CASE TakePane(t)
      <3>1. /\ InMove(t, "take", "kill") /\ held'[t] = sups[req[t]]
        BY <2>2, CloseMoves
      <3>2. sups' = [sups EXCEPT ![req[t]] = Nothing] /\ UNCHANGED <<proc, home>>
        BY <2>2 DEF TakePane, world
      <3>3. /\ Alone(t) /\ pc[t] = "take" /\ pc'[t] = "kill" /\ req[t] \in Ids
        BY <3>1 DEF InMove
      <3>4. pc[t] \notin Holding /\ Nothing \in Pids \cup {Nothing}  BY <3>3 DEF Holding
      <3> QED  BY <3>1, <3>2, <3>3, <3>4
    <2> QED  BY <2>1, <2>2
  <1>2. sups'[id] = p /\ \A i \in Ids \ {id} : sups'[i] = sups[i]  BY <1>0, <1>1
  <1>3. ASSUME NEW i \in Ids, sups'[i] # Nothing
        PROVE  home'[sups'[i]] = i /\ proc'[sups'[i]] # "unborn"
    BY <1>1, <1>2, <1>3 DEF Homes
  <1>4. ASSUME NEW u \in Threads
        PROVE  /\ held'[u] # Nothing => proc'[held'[u]] # "unborn"
               /\ pc'[u] \in {"record", "insert"} =>
                    held'[u] # Nothing /\ home'[held'[u]] = req'[u]
    <2>1. CASE u = t  BY <1>1, <2>1 DEF Homes
    <2>2. CASE u # t  BY <1>1, <2>2 DEF Homes, Alone
    <2> QED  BY <2>1, <2>2
  <1>5. ASSUME NEW q \in Pids, proc'[q] = "running" PROVE Placed(q)'
    <2>0. home'[q] = home[q] /\ Placed(q) /\ q # Nothing
      BY <1>1, <1>5, StrayIs DEF Homes, Nothing, Pids
    <2>1. CASE sups[home[q]] = q
      <3>1. home[q] \in Ids \cup {NoId}  BY DEF TypeInv, DataTypes
      <3>2. CASE home[q] = id
        <4>1. held'[t] = q /\ pc'[t] \in Holding  BY <1>1, <2>1, <3>2 DEF Holding
        <4> QED  BY <4>1 DEF Placed
      <3>3. CASE home[q] # id
        <4>1. sups'[home[q]] = sups[home[q]]  BY <1>0, <1>1, <3>3
        <4> QED  BY <2>0, <2>1, <4>1 DEF Placed
      <3> QED  BY <3>2, <3>3
    <2>2. ASSUME NEW u \in Threads, held[u] = q, pc[u] \in Holding PROVE Placed(q)'
      <3>1. CASE u = t
        <4>1. q = p /\ home[q] = id  BY <1>1, <2>2, <3>1
        <4> QED  BY <1>2, <2>0, <4>1 DEF Placed
      <3>2. CASE u # t
        <4>1. held'[u] = q /\ pc'[u] \in Holding  BY <1>1, <2>2, <3>2 DEF Alone
        <4> QED  BY <4>1 DEF Placed
      <3> QED  BY <3>1, <3>2
    <2> QED  BY <2>0, <2>1, <2>2 DEF Placed
  <1>6. NoStrayChild'  BY <1>5 DEF NoStrayChild, Placed, Holding
  <1> QED  BY <1>3, <1>4, <1>6 DEF Homes

\* A step that only stops a child, and keeps no hold of it if it is a thread's.
LEMMA StopHomes ==
  ASSUME TypeInv, Homes, NEW p \in Pids, proc' = [proc EXCEPT ![p] = "exited"],
         UNCHANGED <<sups, home>>, proc[p] # "unborn",
         \A u \in Threads :
           \/ pc'[u] = pc[u] /\ held'[u] = held[u] /\ req'[u] = req[u]
           \/ held[u] = p /\ held'[u] = Nothing /\ pc'[u] \notin {"record", "insert"}
  PROVE  Homes'
  <1>0. /\ proc \in [Pids -> {"unborn", "running", "exited"}]
        /\ sups \in [Ids -> Pids \cup {Nothing}] /\ held \in [Threads -> Pids \cup {Nothing}]
    BY DEF TypeInv, DataTypes, ThreadTypes
  <1>1. /\ proc'[p] = "exited" /\ \A q \in Pids \ {p} : proc'[q] = proc[q]  BY <1>0
  <1>2. ASSUME NEW q \in Pids, proc[q] # "unborn" PROVE proc'[q] # "unborn"
    BY <1>1, <1>2
  <1>3. ASSUME NEW id \in Ids, sups'[id] # Nothing
        PROVE  home'[sups'[id]] = id /\ proc'[sups'[id]] # "unborn"
    <2>1. sups[id] \in Pids  BY <1>0, <1>3
    <2> QED  BY <1>2, <1>3, <2>1 DEF Homes
  <1>4. ASSUME NEW u \in Threads
        PROVE  /\ held'[u] # Nothing => proc'[held'[u]] # "unborn"
               /\ pc'[u] \in {"record", "insert"} =>
                    held'[u] # Nothing /\ home'[held'[u]] = req'[u]
    <2>1. CASE held'[u] = Nothing /\ pc'[u] \notin {"record", "insert"}  BY <2>1
    <2>2. CASE pc'[u] = pc[u] /\ held'[u] = held[u] /\ req'[u] = req[u]
      <3>1. held[u] # Nothing => held[u] \in Pids  BY <1>0
      <3> QED  BY <1>2, <2>2, <3>1 DEF Homes
    <2> QED  BY <2>1, <2>2
  <1>5. ASSUME NEW q \in Pids, proc'[q] = "running" PROVE Placed(q)'
    <2>0. q # p /\ proc[q] = "running"  BY <1>1, <1>5
    <2>1. Placed(q)  BY <2>0, StrayIs DEF Homes
    <2>2. CASE sups[home[q]] = q  BY <2>2 DEF Placed
    <2>3. ASSUME NEW u \in Threads, held[u] = q, pc[u] \in Holding PROVE Placed(q)'
      <3>1. held'[u] = q /\ pc'[u] \in Holding  BY <2>0, <2>3
      <3> QED  BY <3>1 DEF Placed
    <2> QED  BY <2>1, <2>2, <2>3 DEF Placed
  <1>6. NoStrayChild'  BY <1>5 DEF NoStrayChild, Placed, Holding
  <1> QED  BY <1>3, <1>4, <1>6 DEF Homes

\* A step on which no child, and no hold of one, changes.
LEMMA SameHomes ==
  ASSUME Homes, UNCHANGED <<sups, proc, home>>,
         \A u \in Threads :
           /\ held'[u] = held[u] /\ req'[u] = req[u]
           /\ \/ pc'[u] = pc[u]
              \/ pc[u] = "record" /\ pc'[u] = "insert"
              \/ held[u] = Nothing /\ pc'[u] \notin {"record", "insert"}
  PROVE  Homes'
  <1>1. ASSUME NEW u \in Threads
        PROVE  /\ held'[u] # Nothing => proc'[held'[u]] # "unborn"
               /\ pc'[u] \in {"record", "insert"} =>
                    held'[u] # Nothing /\ home'[held'[u]] = req'[u]
    BY DEF Homes
  <1>2. ASSUME NEW q \in Pids, proc'[q] = "running" PROVE Placed(q)'
    <2>1. Placed(q) /\ q # Nothing  BY <1>2, StrayIs DEF Homes, Pids, Nothing
    <2>2. CASE sups[home[q]] = q  BY <2>2 DEF Placed
    <2>3. ASSUME NEW u \in Threads, held[u] = q, pc[u] \in Holding PROVE Placed(q)'
      <3>1. held'[u] = q /\ pc'[u] \in Holding  BY <2>1, <2>3 DEF Holding
      <3> QED  BY <3>1 DEF Placed
    <2> QED  BY <2>1, <2>2, <2>3 DEF Placed
  <1>3. NoStrayChild'  BY <1>2 DEF NoStrayChild, Placed, Holding
  <1> QED  BY <1>1, <1>3 DEF Homes

LEMMA KillHomes ==
  ASSUME TypeInv, Homes, NEW t \in Threads, KillHeld(t) PROVE Homes'
  <1>1. /\ Alone(t) /\ pc'[t] \in {"meta", "unlist"} /\ held'[t] = Nothing
        /\ req'[t] = req[t] /\ UNCHANGED <<sups, home>>
    <2>1. /\ InMove(t, "killold", "meta") \/ InMove(t, "kill", "unlist")
          /\ held'[t] = Nothing
      BY SpawnMoves
    <2>2. UNCHANGED <<sups, home>>  BY DEF KillHeld, memory
    <2> QED  BY <2>1, <2>2 DEF InMove
  <1>2. CASE held[t] = Nothing
    <2>1. UNCHANGED proc  BY <1>2 DEF KillHeld
    <2>2. \A u \in Threads :
            /\ held'[u] = held[u] /\ req'[u] = req[u]
            /\ pc'[u] = pc[u] \/ (held[u] = Nothing /\ pc'[u] \notin {"record", "insert"})
      BY <1>1, <1>2 DEF Alone
    <2> QED  BY <1>1, <2>1, <2>2, SameHomes
  <1>3. CASE held[t] # Nothing
    <2>1. PICK p \in Pids : p = held[t]  BY <1>3 DEF TypeInv, ThreadTypes
    <2>2. proc' = [proc EXCEPT ![p] = "exited"] /\ proc[p] # "unborn"
      BY <1>3, <2>1 DEF KillHeld, Homes
    <2>3. ASSUME NEW u \in Threads
          PROVE  \/ pc'[u] = pc[u] /\ held'[u] = held[u] /\ req'[u] = req[u]
                 \/ held[u] = p /\ held'[u] = Nothing /\ pc'[u] \notin {"record", "insert"}
      BY <1>1, <2>1 DEF Alone
    <2> QED  BY <1>1, <2>2, <2>3, StopHomes
  <1> QED  BY <1>2, <1>3

LEMMA SpawnHomes ==
  ASSUME TypeInv, Homes, NEW t \in Threads, DoSpawnStep(t) PROVE Homes'
  <1> USE DEF memory, world
  <1>1. ASSUME NEW from, pc[t] = from, from \notin Holding, UNCHANGED <<sups, proc, home>>,
               \/ OutMove(t, from)
               \/ \E to \in AllSteps \ {"record", "insert"} :
                    InMove(t, from, to) /\ held'[t] = held[t]
        PROVE  Homes'
    <2>1. /\ Alone(t) /\ held'[t] \in {held[t], Nothing} /\ pc'[t] \notin {"record", "insert"}
      BY <1>1 DEF OutMove, InMove
    <2> QED  BY <1>1, <2>1, QuietHomes
  <1>2. {"wait", "tree", "fork", "list", "arm"} \subseteq AllSteps \ {"record", "insert"}
    BY DEF AllSteps, SpawnSteps
  <1>3. {"lookup", "wait", "tree", "fork", "meta", "list", "arm"} \cap Holding = {}
    BY DEF Holding
  <1>4. CASE LookupBarrier(t)
    <2>1. InMove(t, "lookup", "wait") /\ held'[t] = held[t]  BY <1>4, SpawnMoves
    <2>2. pc[t] = "lookup" /\ UNCHANGED <<sups, proc, home>>  BY <1>4 DEF LookupBarrier
    <2> QED  BY <1>1, <1>2, <1>3, <2>1, <2>2
  <1>5. CASE WaitBarrier(t)
    <2>1. InMove(t, "wait", "tree") /\ held'[t] = held[t]  BY <1>5, SpawnMoves
    <2>2. pc[t] = "wait" /\ UNCHANGED <<sups, proc, home>>  BY <1>5 DEF WaitBarrier
    <2> QED  BY <1>1, <1>2, <1>3, <2>1, <2>2
  <1>6. CASE PrepareTree(t)
    <2>1. OutMove(t, "tree") \/ (InMove(t, "tree", "fork") /\ held'[t] = held[t])
      BY <1>6, SpawnMoves
    <2>2. pc[t] = "tree" /\ UNCHANGED <<sups, proc, home>>  BY <1>6 DEF PrepareTree
    <2> QED  BY <1>1, <1>2, <1>3, <2>1, <2>2
  <1>7. CASE Fork(t)  BY <1>7, ForkHomes
  <1>8. CASE ForkFails(t)
    <2>1. OutMove(t, "fork")  BY <1>8, SpawnMoves
    <2>2. pc[t] = "fork" /\ UNCHANGED <<sups, proc, home>>  BY <1>8 DEF ForkFails
    <2> QED  BY <1>1, <1>3, <2>1, <2>2
  <1>9. CASE RecordTree(t)
    <2>1. InMove(t, "record", "insert") /\ held'[t] = held[t]  BY <1>9, SpawnMoves
    <2>2. UNCHANGED <<sups, proc, home>>  BY <1>9 DEF RecordTree
    <2>3. \A u \in Threads :
            /\ held'[u] = held[u] /\ req'[u] = req[u]
            /\ pc'[u] = pc[u] \/ (pc[u] = "record" /\ pc'[u] = "insert")
      BY <2>1 DEF InMove, Alone
    <2> QED  BY <2>2, <2>3, SameHomes
  <1>10. CASE InsertPane(t)  BY <1>10, SwapHomes
  <1>11. CASE KillHeld(t)  BY <1>11, KillHomes
  <1>12. CASE SetMeta(t)
    <2>1. InMove(t, "meta", "list") /\ held'[t] = held[t]  BY <1>12, SpawnMoves
    <2>2. pc[t] = "meta" /\ UNCHANGED <<sups, proc, home>>  BY <1>12 DEF SetMeta
    <2> QED  BY <1>1, <1>2, <1>3, <2>1, <2>2
  <1>13. CASE ListPane(t)
    <2>1. InMove(t, "list", "arm") /\ held'[t] = held[t]  BY <1>13, SpawnMoves
    <2>2. pc[t] = "list" /\ UNCHANGED <<sups, proc, home>>  BY <1>13 DEF ListPane
    <2> QED  BY <1>1, <1>2, <1>3, <2>1, <2>2
  <1>14. CASE ArmWatcher(t)
    <2>1. OutMove(t, "arm")  BY <1>14, SpawnMoves
    <2>2. pc[t] = "arm" /\ UNCHANGED <<sups, proc, home>>  BY <1>14 DEF ArmWatcher
    <2> QED  BY <1>1, <1>3, <2>1, <2>2
  <1> QED  BY <1>4, <1>5, <1>6, <1>7, <1>8, <1>9, <1>10, <1>11, <1>12, <1>13, <1>14
           DEF DoSpawnStep

LEMMA CloseHomes ==
  ASSUME TypeInv, Homes, NEW t \in Threads,
         \/ \E id \in Ids : BeginClose(t, id)
         \/ TakePane(t) \/ UnlistPane(t) \/ TakeMeta(t) \/ PublishBarrier(t) \/ Handshake(t)
  PROVE  Homes'
  <1> USE DEF memory, world
  <1>1. ASSUME NEW id \in Ids, BeginClose(t, id) PROVE Homes'
    <2>1. Alone(t) /\ pc[t] = "idle" /\ pc'[t] = "take" /\ held'[t] = held[t]
      BY <1>1, BeginCloseMoves
    <2>2. UNCHANGED <<sups, proc, home>>  BY <1>1 DEF BeginClose
    <2>3. pc[t] \notin Holding /\ pc'[t] \notin {"record", "insert"}  BY <2>1 DEF Holding
    <2> QED  BY <2>1, <2>2, <2>3, QuietHomes
  <1>2. CASE TakePane(t)  BY <1>2, SwapHomes
  <1>3. ASSUME UnlistPane(t) \/ TakeMeta(t) \/ PublishBarrier(t) \/ Handshake(t) PROVE Homes'
    <2>1. /\ Alone(t) /\ pc[t] \in {"unlist", "takemeta", "publish", "handshake"}
          /\ pc'[t] \in {"takemeta", "publish", "handshake", "idle", "admit"}
          /\ held'[t] \in {held[t], Nothing}
      BY <1>3, CloseMoves DEF InMove, OutMove
    <2>2. UNCHANGED <<sups, proc, home>>
      BY <1>3 DEF UnlistPane, TakeMeta, PublishBarrier, Handshake
    <2>3. pc[t] \notin Holding /\ pc'[t] \notin {"record", "insert"}  BY <2>1 DEF Holding
    <2> QED  BY <2>1, <2>2, <2>3, QuietHomes
  <1> QED  BY <1>1, <1>2, <1>3

LEMMA BystanderHomes ==
  ASSUME TypeInv, Homes, Bystander PROVE Homes'
  <1>1. UNCHANGED <<pc, req, held>>  BY BystanderTypes
  <1>2. UNCHANGED <<sups, home>> /\ (UNCHANGED proc \/ \E p \in Pids : AgentExits(p))
    BY DEF Bystander, JobStep, LockBarrier, RemoveTree, UnrecordTree, DrainBarrier,
       StopWatching, AgentExits, HooksLand, vars, memory, world
  <1>3. CASE UNCHANGED proc  BY <1>1, <1>2, <1>3, SameHomes
  <1>4. ASSUME NEW p \in Pids, AgentExits(p) PROVE Homes'
    <2>1. proc' = [proc EXCEPT ![p] = "exited"] /\ proc[p] # "unborn"  BY <1>4 DEF AgentExits
    <2> QED  BY <1>1, <1>2, <2>1, StopHomes
  <1> QED  BY <1>2, <1>3, <1>4

LEMMA StepHomes == TypeInv /\ Homes /\ [Next]_vars => Homes'
  BY Cases, OuterHomes, SpawnHomes, CloseHomes, BystanderHomes

\* Kill-on-replace: whatever spawns, respawns and closes of an id interleave, a
\* running child is the one sups has for its id or a thread has it in hand.
THEOREM ChildrenAreHeld == Spec => []NoStrayChild
  <1>1. Homes => NoStrayChild  BY DEF Homes
  <1> QED  BY <1>1, InitTypes, StepTypes, InitHomes, StepHomes, PTL DEF Spec

-----------------------------------------------------------------------------
(* Closes: each has a cleanup of its own, claimed until the barrier is     *)
(* published.                                                              *)

Claiming == {"take", "kill", "unlist", "takemeta", "publish"}

TreeSteps == {"fork", "record", "insert", "killold", "meta", "list", "arm"}

Closes ==
  /\ \A t \in Threads : pc[t] \in Claiming =>
       waits[t] \in Jobs /\ jobStep[waits[t]] = "claimed" /\ jobId[waits[t]] = req[t]
  /\ \A t \in Threads : pc[t] = "handshake" =>
       waits[t] \in Jobs /\ jobStep[waits[t]] \notin {"none", "claimed"}
  /\ \A t, u \in Threads :
       pc[t] \in Claiming /\ pc[u] \in Claiming /\ waits[t] = waits[u] => t = u
  /\ \A t \in Threads : hasTree[t] => pc[t] \in TreeSteps
  /\ \A j \in Jobs : jobStep[j] # "none" => jobId[j] \in Ids

LEMMA InitCloses == Init => Closes
  BY DEF Init, Closes, Claiming

\* A thread's step that leaves the cleanups alone.
LEMMA QuietCloses ==
  ASSUME Closes, NEW t \in Threads, Alone(t), UNCHANGED <<jobId, jobStep>>,
         \/ pc'[t] \notin Claiming /\ pc'[t] # "handshake"
         \/ /\ pc[t] \in Claiming /\ pc'[t] \in Claiming
            /\ waits'[t] = waits[t] /\ req'[t] = req[t],
         hasTree'[t] => pc'[t] \in TreeSteps
  PROVE  Closes'
  <1>1. ASSUME NEW u \in Threads, pc'[u] \in Claiming
        PROVE  /\ pc[u] \in Claiming /\ waits'[u] = waits[u]
               /\ waits'[u] \in Jobs /\ jobStep'[waits'[u]] = "claimed"
               /\ jobId'[waits'[u]] = req'[u]
    <2>1. pc[u] \in Claiming /\ waits'[u] = waits[u] /\ req'[u] = req[u]
      <3>1. CASE u = t  BY <1>1, <3>1
      <3>2. CASE u # t  BY <1>1, <3>2 DEF Alone
      <3> QED  BY <3>1, <3>2
    <2> QED  BY <2>1 DEF Closes
  <1>2. ASSUME NEW u \in Threads, pc'[u] = "handshake"
        PROVE  waits'[u] \in Jobs /\ jobStep'[waits'[u]] \notin {"none", "claimed"}
    <2>1. u # t  BY <1>2 DEF Claiming
    <2> QED  BY <1>2, <2>1 DEF Alone, Closes
  <1>3. ASSUME NEW u \in Threads, hasTree'[u] PROVE pc'[u] \in TreeSteps
    BY <1>3 DEF Alone, Closes
  <1>4. ASSUME NEW u \in Threads, NEW v \in Threads, pc'[u] \in Claiming, pc'[v] \in Claiming,
               waits'[u] = waits'[v]
        PROVE  u = v
    BY <1>1, <1>4 DEF Closes
  <1>5. \A j \in Jobs : jobStep'[j] # "none" => jobId'[j] \in Ids  BY DEF Closes
  <1> QED  BY <1>1, <1>2, <1>3, <1>4, <1>5 DEF Closes

LEMMA OuterCloses ==
  ASSUME TypeInv, Closes, NEW t \in Threads, Outer(t) PROVE Closes'
  <1>0. Out \cap (Claiming \cup TreeSteps \cup {"handshake"}) = {}
    BY DEF Out, Claiming, TreeSteps
  <1>1. ASSUME IdleMove(t) PROVE Closes'
    <2>1. /\ Alone(t) /\ UNCHANGED <<jobId, jobStep>> /\ pc[t] \in Out /\ pc'[t] \in Out
          /\ hasTree'[t] \in {hasTree[t], FALSE}
      BY <1>1 DEF IdleMove, panes, jobs
    <2>2. hasTree[t] = FALSE  BY <1>0, <2>1 DEF Closes, TypeInv, ThreadTypes
    <2> QED  BY <1>0, <2>1, <2>2, QuietCloses
  <1>2. ASSUME NEW id \in Ids, EnterMove(t, id) PROVE Closes'
    <2>1. /\ Alone(t) /\ UNCHANGED <<jobId, jobStep>> /\ pc[t] \in Out /\ pc'[t] = "lookup"
          /\ hasTree'[t] = hasTree[t]
      BY <1>2 DEF EnterMove, panes, jobs
    <2>2. hasTree[t] = FALSE  BY <1>0, <2>1 DEF Closes, TypeInv, ThreadTypes
    <2>3. pc'[t] \notin Claiming /\ pc'[t] # "handshake"  BY <2>1 DEF Claiming
    <2> QED  BY <2>1, <2>2, <2>3, QuietCloses
  <1> QED  BY <1>1, <1>2, OuterMoves

LEMMA SpawnCloses ==
  ASSUME TypeInv, Closes, NEW t \in Threads, DoSpawnStep(t) PROVE Closes'
  <1>1. UNCHANGED <<jobId, jobStep>>
    BY DEF DoSpawnStep, LookupBarrier, WaitBarrier, PrepareTree, Fork, ForkFails, RecordTree,
       InsertPane, KillHeld, SetMeta, ListPane, ArmWatcher, jobs
  <1>2. /\ Alone(t)
        /\ \/ pc[t] = "kill" /\ pc'[t] = "unlist" /\ waits'[t] = waits[t] /\ req'[t] = req[t]
              /\ hasTree'[t] = hasTree[t]
           \/ hasTree'[t] = FALSE /\ pc'[t] \in {"idle", "admit"}
           \/ pc[t] \in {"lookup", "wait"} /\ pc'[t] \in {"wait", "tree"} /\ hasTree'[t] = hasTree[t]
           \/ pc'[t] \in TreeSteps
    <2>1. CASE LookupBarrier(t)  BY <2>1, SpawnMoves DEF InMove
    <2>2. CASE WaitBarrier(t)  BY <2>2, SpawnMoves DEF InMove
    <2>3. CASE PrepareTree(t)  BY <2>3, SpawnMoves DEF InMove, OutMove, TreeSteps
    <2>4. CASE Fork(t)  BY <2>4, SpawnMoves DEF InMove, TreeSteps
    <2>5. CASE ForkFails(t)  BY <2>5, SpawnMoves DEF OutMove
    <2>6. CASE RecordTree(t)  BY <2>6, SpawnMoves DEF InMove, TreeSteps
    <2>7. CASE InsertPane(t)  BY <2>7, SpawnMoves DEF InMove, TreeSteps
    <2>8. CASE KillHeld(t)  BY <2>8, SpawnMoves DEF InMove, TreeSteps
    <2>9. CASE SetMeta(t)  BY <2>9, SpawnMoves DEF InMove, TreeSteps
    <2>10. CASE ListPane(t)  BY <2>10, SpawnMoves DEF InMove, TreeSteps
    <2>11. CASE ArmWatcher(t)  BY <2>11, SpawnMoves DEF OutMove
    <2> QED  BY <2>1, <2>2, <2>3, <2>4, <2>5, <2>6, <2>7, <2>8, <2>9, <2>10, <2>11
             DEF DoSpawnStep
  <1>3. hasTree'[t] => pc'[t] \in TreeSteps
    <2>1. pc[t] \in {"kill", "lookup", "wait"} => hasTree[t] = FALSE
      BY DEF Closes, TreeSteps, TypeInv, ThreadTypes
    <2> QED  BY <1>2, <2>1
  <1>4. \/ pc'[t] \notin Claiming /\ pc'[t] # "handshake"
        \/ /\ pc[t] \in Claiming /\ pc'[t] \in Claiming
           /\ waits'[t] = waits[t] /\ req'[t] = req[t]
    BY <1>2 DEF Claiming, TreeSteps
  <1> QED  BY <1>1, <1>2, <1>3, <1>4, QuietCloses

LEMMA ClosingCloses ==
  ASSUME TypeInv, Closes, NEW t \in Threads,
         TakePane(t) \/ UnlistPane(t) \/ TakeMeta(t) \/ Handshake(t)
  PROVE  Closes'
  <1>1. UNCHANGED <<jobId, jobStep>>
    BY DEF TakePane, UnlistPane, TakeMeta, Handshake, jobs
  <1>2. /\ Alone(t)
        /\ \/ /\ pc[t] \in {"take", "unlist", "takemeta"}
              /\ pc'[t] \in {"kill", "takemeta", "publish"}
              /\ waits'[t] = waits[t] /\ req'[t] = req[t] /\ hasTree'[t] = hasTree[t]
           \/ pc'[t] \in {"idle", "admit"} /\ hasTree'[t] = FALSE
    <2>1. CASE TakePane(t)  BY <2>1, CloseMoves DEF InMove
    <2>2. CASE UnlistPane(t)  BY <2>2, CloseMoves DEF InMove
    <2>3. CASE TakeMeta(t)  BY <2>3, CloseMoves DEF InMove
    <2>4. CASE Handshake(t)  BY <2>4, CloseMoves DEF OutMove
    <2> QED  BY <2>1, <2>2, <2>3, <2>4
  <1>3. hasTree'[t] => pc'[t] \in TreeSteps
    <2>1. pc[t] \in {"take", "unlist", "takemeta"} => hasTree[t] = FALSE
      BY DEF Closes, TreeSteps, TypeInv, ThreadTypes
    <2> QED  BY <1>2, <2>1
  <1>4. \/ pc'[t] \notin Claiming /\ pc'[t] # "handshake"
        \/ /\ pc[t] \in Claiming /\ pc'[t] \in Claiming
           /\ waits'[t] = waits[t] /\ req'[t] = req[t]
    BY <1>2 DEF Claiming
  <1> QED  BY <1>1, <1>2, <1>3, <1>4, QuietCloses

LEMMA BeginCloses ==
  ASSUME TypeInv, Closes, NEW t \in Threads, NEW id \in Ids, BeginClose(t, id)
  PROVE  Closes'
  <1>0. /\ jobStep \in [Jobs -> {"none", "claimed", "published", "rmtree", "unrecord",
                                 "drain", "done"}]
        /\ jobId \in [Jobs -> Ids \cup {NoId}]
    BY DEF TypeInv, DataTypes
  <1>1. PICK j \in Jobs :
          /\ Alone(t) /\ pc[t] = "idle" /\ pc'[t] = "take" /\ req'[t] = id /\ waits'[t] = j
          /\ hasTree'[t] = hasTree[t] /\ jobStep[j] = "none"
          /\ jobStep' = [jobStep EXCEPT ![j] = "claimed"] /\ jobId' = [jobId EXCEPT ![j] = id]
    BY BeginCloseMoves
  <1>2. /\ jobStep'[j] = "claimed" /\ jobId'[j] = id
        /\ \A k \in Jobs \ {j} : jobStep'[k] = jobStep[k] /\ jobId'[k] = jobId[k]
    BY <1>0, <1>1
  <1>3. ASSUME NEW u \in Threads, u # t
        PROVE  /\ pc'[u] \in Claiming => /\ waits'[u] \in Jobs \ {j} /\ jobStep'[waits'[u]] = "claimed"
                                         /\ jobId'[waits'[u]] = req'[u]
               /\ pc'[u] = "handshake" => /\ waits'[u] \in Jobs
                                          /\ jobStep'[waits'[u]] \notin {"none", "claimed"}
               /\ hasTree'[u] => pc'[u] \in TreeSteps
    <2>1. pc'[u] = pc[u] /\ waits'[u] = waits[u] /\ req'[u] = req[u] /\ hasTree'[u] = hasTree[u]
      BY <1>1, <1>3 DEF Alone
    <2>2. pc[u] \in Claiming \/ pc[u] = "handshake" => waits[u] \in Jobs \ {j}
      BY <1>1 DEF Closes
    <2> QED  BY <1>2, <2>1, <2>2 DEF Closes
  <1>4. /\ waits'[t] \in Jobs /\ jobStep'[waits'[t]] = "claimed" /\ jobId'[waits'[t]] = req'[t]
        /\ pc'[t] # "handshake" /\ ~hasTree'[t]
    BY <1>1, <1>2 DEF Closes, TreeSteps
  <1>5. ASSUME NEW u \in Threads, NEW v \in Threads, pc'[u] \in Claiming, pc'[v] \in Claiming,
               waits'[u] = waits'[v]
        PROVE  u = v
    <2>1. CASE u = t \/ v = t  BY <1>1, <1>3, <1>5, <2>1
    <2>2. CASE u # t /\ v # t  BY <1>1, <1>5, <2>2 DEF Alone, Closes
    <2> QED  BY <2>1, <2>2
  <1>6. \A k \in Jobs : jobStep'[k] # "none" => jobId'[k] \in Ids  BY <1>2 DEF Closes
  <1>7. ASSUME NEW u \in Threads
        PROVE  /\ pc'[u] \in Claiming => /\ waits'[u] \in Jobs /\ jobStep'[waits'[u]] = "claimed"
                                         /\ jobId'[waits'[u]] = req'[u]
               /\ pc'[u] = "handshake" => /\ waits'[u] \in Jobs
                                          /\ jobStep'[waits'[u]] \notin {"none", "claimed"}
               /\ hasTree'[u] => pc'[u] \in TreeSteps
    BY <1>3, <1>4
  <1> QED  BY <1>5, <1>6, <1>7 DEF Closes

\* A cleanup that goes on from a step past its claim, or from its claim with the
\* thread that has it.
LEMMA JobCloses ==
  ASSUME TypeInv, Closes, NEW j \in Jobs, jobStep[j] # "none", UNCHANGED jobId,
         NEW s \in {"published", "rmtree", "unrecord", "drain", "done"},
         jobStep' = [jobStep EXCEPT ![j] = s],
         \A u \in Threads :
           \/ /\ pc'[u] = pc[u] /\ waits'[u] = waits[u] /\ req'[u] = req[u]
              /\ pc[u] \in Claiming => waits[u] # j
           \/ pc[u] \in Claiming /\ pc'[u] = "handshake" /\ waits'[u] = waits[u] /\ waits[u] = j,
         \A u \in Threads : hasTree'[u] = hasTree[u]
  PROVE  Closes'
  <1>0. jobStep \in [Jobs -> {"none", "claimed", "published", "rmtree", "unrecord",
                              "drain", "done"}]
    BY DEF TypeInv, DataTypes
  <1>1. jobStep'[j] = s /\ \A k \in Jobs \ {j} : jobStep'[k] = jobStep[k]  BY <1>0
  <1>2. ASSUME NEW u \in Threads, pc'[u] \in Claiming
        PROVE  /\ pc[u] \in Claiming /\ waits'[u] = waits[u] /\ waits'[u] \in Jobs
               /\ jobStep'[waits'[u]] = "claimed" /\ jobId'[waits'[u]] = req'[u]
    <2>1. pc'[u] = pc[u] /\ waits'[u] = waits[u] /\ req'[u] = req[u] /\ waits[u] # j
      BY <1>2 DEF Claiming
    <2> QED  BY <1>1, <1>2, <2>1 DEF Closes
  <1>3. ASSUME NEW u \in Threads, pc'[u] = "handshake"
        PROVE  waits'[u] \in Jobs /\ jobStep'[waits'[u]] \notin {"none", "claimed"}
    BY <1>1, <1>3 DEF Closes
  <1>4. ASSUME NEW u \in Threads, hasTree'[u] PROVE pc'[u] \in TreeSteps
    <2>1. pc[u] \in TreeSteps  BY <1>4 DEF Closes
    <2> QED  BY <2>1 DEF Claiming, TreeSteps
  <1>5. ASSUME NEW u \in Threads, NEW v \in Threads, pc'[u] \in Claiming, pc'[v] \in Claiming,
               waits'[u] = waits'[v]
        PROVE  u = v
    BY <1>2, <1>5 DEF Closes
  <1>6. \A k \in Jobs : jobStep'[k] # "none" => jobId'[k] \in Ids  BY <1>1 DEF Closes
  <1> QED  BY <1>2, <1>3, <1>4, <1>5, <1>6 DEF Closes

LEMMA PublishCloses ==
  ASSUME TypeInv, Closes, NEW t \in Threads, PublishBarrier(t) PROVE Closes'
  <1>1. /\ InMove(t, "publish", "handshake") /\ waits'[t] = waits[t] /\ hasTree'[t] = hasTree[t]
    BY CloseMoves
  <1>2. PICK j \in Jobs : j = waits[t] /\ jobStep[j] = "claimed"
    BY <1>1 DEF InMove, Claiming, Closes
  <1>3. jobStep' = [jobStep EXCEPT ![j] = "published"] /\ UNCHANGED jobId
    BY <1>2 DEF PublishBarrier
  <1>4. ASSUME NEW u \in Threads
        PROVE  /\ hasTree'[u] = hasTree[u]
               /\ \/ /\ pc'[u] = pc[u] /\ waits'[u] = waits[u] /\ req'[u] = req[u]
                     /\ pc[u] \in Claiming => waits[u] # j
                  \/ /\ pc[u] \in Claiming /\ pc'[u] = "handshake" /\ waits'[u] = waits[u]
                     /\ waits[u] = j
    <2>1. CASE u = t  BY <1>1, <1>2, <2>1 DEF InMove, Claiming
    <2>2. CASE u # t
      <3>1. pc[t] \in Claiming  BY <1>1 DEF InMove, Claiming
      <3>2. pc[u] \in Claiming => waits[u] # j  BY <1>2, <2>2, <3>1 DEF Closes
      <3> QED  BY <1>1, <2>2, <3>2 DEF InMove, Alone
    <2> QED  BY <2>1, <2>2
  <1> QED  BY <1>2, <1>3, <1>4, JobCloses

\* What a cleanup's step does to its own record.
LEMMA JobGoes ==
  ASSUME NEW j \in Jobs, JobStep(j)
  PROVE  /\ Unfinished(j) /\ UNCHANGED <<jobId, jobTree>>
         /\ \E s \in {"rmtree", "unrecord", "drain", "done"} :
              jobStep' = [jobStep EXCEPT ![j] = s]
  BY DEF JobStep, LockBarrier, RemoveTree, UnrecordTree, DrainBarrier, JobGoto, Unfinished

LEMMA BystanderCloses ==
  ASSUME TypeInv, Closes, Bystander PROVE Closes'
  <1>1. UNCHANGED <<pc, req, held, waits, hasTree>>  BY BystanderTypes
  <1>2. ASSUME NEW j \in Jobs, JobStep(j) PROVE Closes'
    <2>1. PICK s \in {"rmtree", "unrecord", "drain", "done"} :
            /\ jobStep' = [jobStep EXCEPT ![j] = s] /\ UNCHANGED jobId /\ Unfinished(j)
      BY <1>2, JobGoes
    <2>2. jobStep[j] # "none" /\ jobStep[j] # "claimed"  BY <2>1 DEF Unfinished
    <2>3. \A u \in Threads : pc[u] \in Claiming => waits[u] # j  BY <2>2 DEF Closes
    <2> QED  BY <1>1, <2>1, <2>2, <2>3, JobCloses
  <1>3. (\E j \in Jobs : JobStep(j)) \/ UNCHANGED <<jobId, jobStep>>
    BY DEF Bystander, StopWatching, AgentExits, HooksLand, vars, jobs
  <1>4. CASE UNCHANGED <<jobId, jobStep>>  BY <1>1, <1>4 DEF Closes
  <1> QED  BY <1>2, <1>3, <1>4

LEMMA StepCloses == TypeInv /\ Closes /\ [Next]_vars => Closes'
  BY Cases, OuterCloses, SpawnCloses, ClosingCloses, BeginCloses, PublishCloses, BystanderCloses

-----------------------------------------------------------------------------
(* An id nothing undefended has happened to.                               *)

\* The disk and the memory agree about the id.
Agree(id) ==
  /\ meta[id] = "none" <=> sups[id] = Nothing
  /\ id \in listed <=> sups[id] # Nothing

\* What the step a thread has reached says of its id.
Stage(t, id) ==
  /\ pc[t] \in {"lookup", "wait", "tree", "fork", "record", "insert", "take"} => Agree(id)
  /\ pc[t] \in {"killold", "meta", "list", "arm"} => sups[id] # Nothing
  /\ pc[t] \in {"list", "arm"} => meta[id] # "none"
  /\ pc[t] = "arm" => id \in listed
  /\ pc[t] \in {"kill", "unlist", "takemeta", "publish", "handshake"} => sups[id] = Nothing
  /\ pc[t] \in {"takemeta", "publish", "handshake"} => id \notin listed
  /\ pc[t] \in {"publish", "handshake"} => meta[id] = "none"
  /\ pc[t] \in {"fork", "record", "insert", "killold", "meta"} => (hasTree[t] <=> id \in tree)
  /\ pc[t] = "publish" => jobTree[waits[t]] \/ id \notin tree

\* A thread that has not passed the barrier of the cleanup.
Before(t, j) == pc[t] \in {"lookup", "handshake"} \/ (pc[t] = "wait" /\ waits[t] = j)

\* What a cleanup that is under way says of its id.
Cleanup(j, id) ==
  /\ Unfinished(j) => barrier[id] = j /\ sups[id] = Nothing
  /\ jobStep[j] \in {"published", "rmtree"} => jobTree[j] \/ id \notin tree
  /\ jobStep[j] \in {"unrecord", "drain"} => id \notin tree

Stored(id) == meta[id] = "tree" /\ sups[id] # Nothing => id \in tree

Defended(id) ==
  /\ \A t, u \in Threads : Inside(t, id) /\ Inside(u, id) => t = u
  /\ (\A t \in Threads : ~Inside(t, id)) => Agree(id)
  /\ \A t \in Threads : Inside(t, id) => Stage(t, id)
  /\ \A j \in Jobs : jobId[j] = id =>
       /\ Cleanup(j, id)
       /\ Unfinished(j) => \A t \in Threads : Inside(t, id) => Before(t, j)
       /\ jobStep[j] = "published" =>
            \E t \in Threads : req[t] = id /\ pc[t] = "handshake" /\ waits[t] = j
  /\ Stored(id)
  /\ id \in tree => id \in lines \/ \E t \in Threads : req[t] = id /\ pc[t] \in {"fork", "record"}

\* The same, of an id that has its one thread, and of an id that has none.
Mine(t, id) ==
  /\ Inside(t, id) /\ \A u \in Threads : Inside(u, id) => u = t
  /\ Stage(t, id)
  /\ \A j \in Jobs : jobId[j] = id =>
       /\ Cleanup(j, id)
       /\ Unfinished(j) => Before(t, j)
       /\ jobStep[j] = "published" => pc[t] = "handshake" /\ waits[t] = j
  /\ Stored(id)
  /\ id \in tree => id \in lines \/ pc[t] \in {"fork", "record"}

Free(id) ==
  /\ \A u \in Threads : ~Inside(u, id)
  /\ Agree(id)
  /\ \A j \in Jobs : jobId[j] = id => Cleanup(j, id) /\ jobStep[j] # "published"
  /\ Stored(id)
  /\ id \in tree => id \in lines

LEMMA InsideIs ==
  \A t, id : /\ req[t] = id /\ pc[t] \in {"fork", "record", "handshake"} => Inside(t, id)
  BY DEF Inside, SpawnSteps, CloseSteps

LEMMA DefendedIsMine ==
  ASSUME NEW id, Defended(id), NEW t \in Threads, Inside(t, id)
  PROVE  Mine(t, id)
  <1>1. \A u \in Threads : Inside(u, id) => u = t  BY DEF Defended
  <1>2. Stage(t, id) /\ Stored(id)  BY DEF Defended
  <1>3. ASSUME NEW j \in Jobs, jobId[j] = id
        PROVE  /\ Cleanup(j, id) /\ (Unfinished(j) => Before(t, j))
               /\ jobStep[j] = "published" => pc[t] = "handshake" /\ waits[t] = j
    BY <1>1, <1>3, InsideIs DEF Defended
  <1>4. id \in tree => id \in lines \/ pc[t] \in {"fork", "record"}
    BY <1>1, InsideIs DEF Defended
  <1> QED  BY <1>1, <1>2, <1>3, <1>4 DEF Mine

LEMMA DefendedIsFree ==
  ASSUME NEW id, Defended(id), \A u \in Threads : ~Inside(u, id)
  PROVE  Free(id)
  <1>1. Agree(id) /\ Stored(id)  BY DEF Defended
  <1>2. ASSUME NEW j \in Jobs, jobId[j] = id PROVE Cleanup(j, id) /\ jobStep[j] # "published"
    BY <1>2, InsideIs DEF Defended
  <1>3. id \in tree => id \in lines  BY InsideIs DEF Defended
  <1> QED  BY <1>1, <1>2, <1>3 DEF Free

LEMMA MineIsDefended ==
  ASSUME NEW id, NEW t \in Threads
  PROVE  (Mine(t, id) => Defended(id)) /\ (Mine(t, id)' => Defended(id)')
  <1>1. Mine(t, id) => req[t] = id /\ Inside(t, id)  BY DEF Mine, Inside
  <1>2. Mine(t, id)' => req'[t] = id /\ Inside(t, id)'  BY DEF Mine, Inside
  <1>3. Mine(t, id) => Defended(id)  BY <1>1 DEF Mine, Defended
  <1>4. Mine(t, id)' => Defended(id)'  BY <1>2 DEF Mine, Defended
  <1> QED  BY <1>3, <1>4

LEMMA FreeIsDefended ==
  ASSUME NEW id
  PROVE  (Free(id) => Defended(id)) /\ (Free(id)' => Defended(id)')
  <1>1. Free(id) => Defended(id)  BY DEF Free, Defended
  <1>2. Free(id)' => Defended(id)'  BY DEF Free, Defended
  <1> QED  BY <1>1, <1>2

\* A step that has nothing to do with the id.
Untouched(id) ==
  /\ sups'[id] = sups[id] /\ meta'[id] = meta[id] /\ barrier'[id] = barrier[id]
  /\ id \in listed' <=> id \in listed
  /\ id \in tree' <=> id \in tree
  /\ id \in lines => id \in lines'
  /\ \A t \in Threads :
       \/ pc'[t] = pc[t] /\ req'[t] = req[t] /\ waits'[t] = waits[t] /\ hasTree'[t] = hasTree[t]
       \/ ~Inside(t, id) /\ ~Inside(t, id)'
  /\ \A t \in Threads : Inside(t, id) /\ pc[t] = "publish" => jobTree'[waits[t]] = jobTree[waits[t]]
  /\ \A j \in Jobs : jobId'[j] = id =>
       jobId[j] = id /\ jobStep'[j] = jobStep[j] /\ jobTree'[j] = jobTree[j]

LEMMA UntouchedStays ==
  ASSUME NEW id, Defended(id), Untouched(id)
  PROVE  Defended(id)'
  <1>1. \A t \in Threads : Inside(t, id)' <=> Inside(t, id)  BY DEF Untouched, Inside
  <1>2. Agree(id)' <=> Agree(id)  BY DEF Agree, Untouched
  <1>3. ASSUME NEW t \in Threads, Inside(t, id)
        PROVE  /\ pc'[t] = pc[t] /\ req'[t] = req[t] /\ waits'[t] = waits[t]
               /\ hasTree'[t] = hasTree[t]
    BY <1>3 DEF Untouched
  <1>4. ASSUME NEW t \in Threads, Inside(t, id)' PROVE Stage(t, id)'
    <2>1. Inside(t, id) /\ Stage(t, id)  BY <1>1, <1>4 DEF Defended
    <2>2. pc[t] = "publish" => jobTree'[waits[t]] = jobTree[waits[t]]
      BY <2>1 DEF Untouched
    <2>3. /\ sups'[id] = sups[id] /\ meta'[id] = meta[id] /\ (id \in listed' <=> id \in listed)
          /\ id \in tree' <=> id \in tree
      BY DEF Untouched
    <2> QED  BY <1>2, <1>3, <2>1, <2>2, <2>3 DEF Stage
  <1>5. ASSUME NEW j \in Jobs, jobId'[j] = id
        PROVE  /\ Cleanup(j, id)'
               /\ Unfinished(j)' => \A t \in Threads : Inside(t, id)' => Before(t, j)'
               /\ jobStep'[j] = "published" =>
                    \E t \in Threads : req'[t] = id /\ pc'[t] = "handshake" /\ waits'[t] = j
    <2>1. jobId[j] = id /\ jobStep'[j] = jobStep[j] /\ jobTree'[j] = jobTree[j]
      BY <1>5 DEF Untouched
    <2>2. Cleanup(j, id)'  BY <2>1 DEF Defended, Cleanup, Unfinished, Untouched
    <2>3. ASSUME Unfinished(j)', NEW t \in Threads, Inside(t, id)' PROVE Before(t, j)'
      <3>1. Unfinished(j) /\ Inside(t, id)  BY <1>1, <2>1, <2>3 DEF Unfinished
      <3>2. Before(t, j)  BY <2>1, <3>1 DEF Defended
      <3> QED  BY <1>3, <3>1, <3>2 DEF Before
    <2>4. ASSUME jobStep'[j] = "published"
          PROVE  \E t \in Threads : req'[t] = id /\ pc'[t] = "handshake" /\ waits'[t] = j
      <3>1. PICK t \in Threads : req[t] = id /\ pc[t] = "handshake" /\ waits[t] = j
        BY <2>1, <2>4 DEF Defended
      <3>2. Inside(t, id)  BY <3>1, InsideIs
      <3> QED  BY <1>3, <3>1, <3>2
    <2> QED  BY <2>2, <2>3, <2>4
  <1>6. Stored(id)'  BY DEF Stored, Untouched, Defended
  <1>7. ASSUME id \in tree'
        PROVE  id \in lines' \/ \E t \in Threads : req'[t] = id /\ pc'[t] \in {"fork", "record"}
    <2>1. CASE id \in lines  BY <2>1 DEF Untouched
    <2>2. ASSUME NEW t \in Threads, req[t] = id, pc[t] \in {"fork", "record"}
          PROVE  \E u \in Threads : req'[u] = id /\ pc'[u] \in {"fork", "record"}
      BY <1>3, <2>2, InsideIs
    <2> QED  BY <1>7, <2>1, <2>2 DEF Untouched, Defended
  <1>8. \A t, u \in Threads : Inside(t, id)' /\ Inside(u, id)' => t = u  BY <1>1 DEF Defended
  <1>9. (\A t \in Threads : ~Inside(t, id)') => Agree(id)'  BY <1>1, <1>2 DEF Defended
  <1> QED  BY <1>4, <1>5, <1>6, <1>7, <1>8, <1>9 DEF Defended

\* Only the thread that moves can be inside for another id than before.
LEMMA InsideStays ==
  ASSUME NEW t \in Threads, Alone(t), NEW id, NEW u \in Threads, u # t
  PROVE  Inside(u, id)' <=> Inside(u, id)
  BY DEF Alone, Inside

LEMMA OuterDefends ==
  ASSUME TypeInv, NEW t \in Threads, Outer(t), NEW id \in Ids \ undefended', Defended(id)
  PROVE  Defended(id)'
  <1>0. Out \cap (SpawnSteps \cup CloseSteps) = {}  BY OutIs
  <1>1. ASSUME Alone(t), ~Inside(t, id), ~Inside(t, id)', UNCHANGED panes PROVE Defended(id)'
    <2>1. Untouched(id)  BY <1>1 DEF Untouched, Alone, Inside, panes, jobs, disk
    <2> QED  BY <2>1, UntouchedStays
  <1>2. CASE IdleMove(t)
    <2>1. ~Inside(t, id) /\ ~Inside(t, id)' /\ Alone(t) /\ UNCHANGED panes
      BY <1>0, <1>2 DEF IdleMove, Inside
    <2> QED  BY <1>1, <2>1
  <1>3. ASSUME NEW i \in Ids, EnterMove(t, i) PROVE Defended(id)'
    <2>0. Alone(t) /\ UNCHANGED panes /\ ~Inside(t, id)  BY <1>0, <1>3 DEF EnterMove, Inside
    <2>1. CASE i # id
      <3>1. ~Inside(t, id)'  BY <1>3, <2>1 DEF EnterMove, Inside
      <3> QED  BY <1>1, <2>0, <3>1
    <2>2. CASE i = id
      <3>1. ~OthersOn(t, id)  BY <1>3, <2>2 DEF EnterMove
      <3>2. \A u \in Threads : ~Inside(u, id)  BY <2>0, <3>1 DEF OthersOn
      <3>3. Free(id)  BY <3>2, DefendedIsFree
      <3>4. Inside(t, id)' /\ pc'[t] = "lookup"  BY <1>3, <2>2 DEF EnterMove, Inside, SpawnSteps
      <3>5. \A u \in Threads : Inside(u, id)' => u = t  BY <2>0, <3>2, InsideStays
      <3>6. Agree(id)' /\ Stored(id)' /\ (id \in tree' => id \in lines')
        BY <2>0, <3>3 DEF Free, Agree, Stored, panes, disk
      <3>7. Stage(t, id)'  BY <3>4, <3>6 DEF Stage
      <3>8. ASSUME NEW j \in Jobs, jobId'[j] = id
            PROVE  /\ Cleanup(j, id)' /\ (Unfinished(j)' => Before(t, j)')
                   /\ jobStep'[j] = "published" => pc'[t] = "handshake" /\ waits'[t] = j
        <4>1. jobId[j] = id /\ Cleanup(j, id) /\ jobStep[j] # "published"
          BY <2>0, <3>3, <3>8 DEF Free, panes, jobs
        <4>2. Cleanup(j, id)' /\ jobStep'[j] # "published"
          BY <2>0, <4>1 DEF Cleanup, Unfinished, panes, jobs, disk
        <4> QED  BY <3>4, <4>2 DEF Before
      <3>9. Mine(t, id)'  BY <3>4, <3>5, <3>6, <3>7, <3>8 DEF Mine
      <3> QED  BY <3>9, MineIsDefended
    <2> QED  BY <2>1, <2>2
  <1> QED  BY <1>2, <1>3, OuterMoves

\* Past the barrier, no cleanup of the id is under way.
LEMMA NoCleanup ==
  ASSUME NEW id, NEW t \in Threads, Mine(t, id), pc[t] \notin {"lookup", "wait", "handshake"}
  PROVE  \A j \in Jobs : jobId[j] = id => ~Unfinished(j)
  BY DEF Mine, Before

LEMMA InMine ==
  ASSUME NEW id, NEW t \in Threads, Mine(t, id), pc[t] \notin {"lookup", "wait", "handshake"},
         NEW to \in SpawnSteps \cup CloseSteps, InMove(t, pc[t], to),
         \A j \in Jobs : jobId'[j] = id => jobId[j] = id /\ jobStep'[j] = jobStep[j],
         Stage(t, id)', Stored(id)', id \in tree' => id \in lines' \/ to \in {"fork", "record"}
  PROVE  Defended(id)'
  <1>1. Inside(t, id)' /\ pc'[t] = to /\ Alone(t)  BY DEF Mine, Inside, InMove
  <1>2. \A u \in Threads : Inside(u, id)' => u = t  BY <1>1, InsideStays DEF Mine
  <1>3. \A j \in Jobs : jobId'[j] = id => ~Unfinished(j)'  BY NoCleanup DEF Unfinished
  <1>4. Mine(t, id)'  BY <1>1, <1>2, <1>3 DEF Mine, Cleanup, Unfinished
  <1> QED  BY <1>4, MineIsDefended

LEMMA OutFree ==
  ASSUME NEW id \in Ids, NEW t \in Threads, Mine(t, id), pc[t] \notin {"lookup", "wait", "handshake"},
         OutMove(t, pc[t]), UNCHANGED jobs,
         Agree(id)', Stored(id)', id \in tree' => id \in lines'
  PROVE  Defended(id)'
  <1>1. Alone(t) /\ ~Inside(t, id)'
    BY DEF OutMove, Inside, SpawnSteps, CloseSteps
  <1>2. \A u \in Threads : ~Inside(u, id)'  BY <1>1, InsideStays DEF Mine
  <1>3. \A j \in Jobs : jobId'[j] = id => ~Unfinished(j)'  BY NoCleanup DEF Unfinished, jobs
  <1>4. Free(id)'  BY <1>2, <1>3 DEF Free, Cleanup, Unfinished
  <1> QED  BY <1>4, FreeIsDefended

\* What a step leaves to an id it is not about.
Elsewhere(id) ==
  /\ sups'[id] = sups[id] /\ meta'[id] = meta[id] /\ barrier'[id] = barrier[id]
  /\ id \in listed' <=> id \in listed
  /\ id \in tree' <=> id \in tree
  /\ id \in lines' <=> id \in lines

LEMMA OthersStay ==
  ASSUME NEW t \in Threads, Alone(t), req'[t] \in {req[t], NoId}, NEW id \in Ids \ {req[t]},
         Elsewhere(id), UNCHANGED jobs, Defended(id)
  PROVE  Defended(id)'
  <1>1. id # NoId  BY AppAssumption
  <1>2. ~Inside(t, id) /\ ~Inside(t, id)'  BY <1>1 DEF Inside
  <1>3. Untouched(id)  BY <1>2 DEF Untouched, Elsewhere, Alone, Inside, jobs
  <1> QED  BY <1>3, UntouchedStays

LEMMA SpawnElsewhere ==
  ASSUME TypeInv, NEW t \in Threads, DoSpawnStep(t), NEW id \in Ids \ {req[t]}
  PROVE  /\ Elsewhere(id) /\ UNCHANGED jobs
         /\ Alone(t) /\ req'[t] \in {req[t], NoId} /\ undefended \subseteq undefended'
         /\ Inside(t, req[t])
  <1>0. DataTypes  BY DEF TypeInv
  <1>1. /\ Alone(t) /\ req'[t] \in {req[t], NoId}
    BY SpawnMoves DEF DoSpawnStep, InMove, OutMove
  <1>2. /\ UNCHANGED jobs /\ undefended \subseteq undefended' /\ Inside(t, req[t])
    BY DEF DoSpawnStep, LookupBarrier, WaitBarrier, PrepareTree, Fork, ForkFails, RecordTree,
       InsertPane, KillHeld, SetMeta, ListPane, ArmWatcher, jobs, Inside, SpawnSteps, CloseSteps
  <1>3. /\ sups'[id] = sups[id] /\ meta'[id] = meta[id] /\ barrier'[id] = barrier[id]
    BY <1>0 DEF DoSpawnStep, LookupBarrier, WaitBarrier, PrepareTree, Fork, ForkFails,
       RecordTree, InsertPane, KillHeld, SetMeta, ListPane, ArmWatcher, memory, DataTypes
  <1>4. /\ id \in listed' <=> id \in listed
        /\ id \in tree' <=> id \in tree
        /\ id \in lines' <=> id \in lines
    BY DEF DoSpawnStep, LookupBarrier, WaitBarrier, PrepareTree, Fork, ForkFails,
       RecordTree, InsertPane, KillHeld, SetMeta, ListPane, ArmWatcher, disk
  <1> QED  BY <1>1, <1>2, <1>3, <1>4 DEF Elsewhere

\* The steps of do_spawn up to the barrier.
LEMMA WaitDefends ==
  ASSUME TypeInv, NEW t \in Threads, NEW id \in Ids, req[t] = id, Mine(t, id),
         LookupBarrier(t) \/ WaitBarrier(t)
  PROVE  Defended(id)'
  <1>1. /\ UNCHANGED <<sups, meta, barrier, jobs, disk>>
    BY DEF LookupBarrier, WaitBarrier, memory
  <1>2. Agree(id)' /\ Stored(id)' /\ (id \in tree' => id \in lines')
    <2>1. pc[t] \in {"lookup", "wait"}  BY DEF LookupBarrier, WaitBarrier
    <2>2. Agree(id) /\ Stored(id) /\ (id \in tree => id \in lines)  BY <2>1 DEF Mine, Stage
    <2> QED  BY <1>1, <2>2 DEF Agree, Stored, disk
  <1>3. \A j \in Jobs : jobId'[j] = id => Cleanup(j, id)' /\ jobStep'[j] # "published"
    <2>1. pc[t] # "handshake"  BY DEF LookupBarrier, WaitBarrier
    <2> QED  BY <1>1, <2>1 DEF Mine, Cleanup, Unfinished, jobs, disk
  <1>4. CASE LookupBarrier(t)
    <2>1. InMove(t, "lookup", "wait") /\ waits'[t] = barrier[id]  BY <1>4, SpawnMoves
    <2>2. Alone(t) /\ pc'[t] = "wait" /\ Inside(t, id)'
      BY <2>1 DEF InMove, Inside, SpawnSteps
    <2>3. \A u \in Threads : Inside(u, id)' => u = t  BY <2>2, InsideStays DEF Mine
    <2>4. ASSUME NEW j \in Jobs, jobId'[j] = id, Unfinished(j)' PROVE Before(t, j)'
      <3>1. barrier[id] = j  BY <1>1, <2>4 DEF Unfinished, jobs, Mine, Cleanup
      <3> QED  BY <2>1, <2>2, <3>1 DEF Before
    <2>5. Stage(t, id)'  BY <1>2, <2>2 DEF Stage
    <2>6. Mine(t, id)'  BY <1>2, <1>3, <2>2, <2>3, <2>4, <2>5 DEF Mine
    <2> QED  BY <2>6, MineIsDefended
  <1>5. CASE WaitBarrier(t)
    <2>1. InMove(t, "wait", "tree")  BY <1>5, SpawnMoves
    <2>2. Alone(t) /\ pc[t] = "wait" /\ pc'[t] = "tree" /\ Inside(t, id)'
      BY <2>1 DEF InMove, Inside, SpawnSteps
    <2>3. \A u \in Threads : Inside(u, id)' => u = t  BY <2>2, InsideStays DEF Mine
    <2>4. ASSUME NEW j \in Jobs, jobId'[j] = id PROVE ~Unfinished(j)'
      <3>1. jobId[j] = id /\ jobStep'[j] = jobStep[j]  BY <1>1, <2>4 DEF jobs
      <3>2. ASSUME Unfinished(j) PROVE FALSE
        <4>1. waits[t] = j  BY <2>2, <3>1, <3>2 DEF Mine, Before
        <4>2. jobStep[j] \in {"published", "done"}
          BY <1>5, <4>1 DEF WaitBarrier, Jobs, Nothing
        <4>3. jobStep[j] = "published"  BY <3>2, <4>2 DEF Unfinished
        <4> QED  BY <2>2, <3>1, <4>3 DEF Mine
      <3> QED  BY <3>1, <3>2 DEF Unfinished
    <2>5. Stage(t, id)'  BY <1>2, <2>2 DEF Stage
    <2>6. Mine(t, id)'  BY <1>2, <1>3, <2>2, <2>3, <2>4, <2>5 DEF Mine
    <2> QED  BY <2>6, MineIsDefended
  <1> QED  BY <1>4, <1>5

LEMMA TreeDefends ==
  ASSUME TypeInv, Closes, NEW t \in Threads, NEW id \in Ids \ undefended', req[t] = id,
         Mine(t, id), PrepareTree(t)
  PROVE  Defended(id)'
  <1>0. pc[t] = "tree" /\ pc[t] \notin {"lookup", "wait", "handshake"}  BY DEF PrepareTree
  <1>1. UNCHANGED <<sups, meta, barrier, jobs, lines, listed>>  BY DEF PrepareTree, memory
  <1>2. Agree(id)' /\ Agree(id) /\ Stored(id) /\ (id \in tree => id \in lines)
    BY <1>0, <1>1 DEF Mine, Stage, Agree
  <1>3. hasTree[t] = FALSE  BY <1>0 DEF Closes, TreeSteps, TypeInv, ThreadTypes
  <1>4. \A j \in Jobs : jobId'[j] = id => jobId[j] = id /\ jobStep'[j] = jobStep[j]
    BY <1>1 DEF jobs
  <1>5. ASSUME InMove(t, "tree", "fork"), hasTree'[t] <=> id \in tree', tree \subseteq tree'
        PROVE  Defended(id)'
    <2>1. pc'[t] = "fork"  BY <1>5 DEF InMove
    <2>2. Stage(t, id)'  BY <1>2, <1>5, <2>1 DEF Stage
    <2>3. Stored(id)'  BY <1>1, <1>2, <1>5 DEF Stored
    <2>4. "fork" \in SpawnSteps \cup CloseSteps  BY DEF SpawnSteps
    <2>5. InMove(t, pc[t], "fork")  BY <1>0, <1>5
    <2> QED  BY <1>0, <1>4, <2>2, <2>3, <2>4, <2>5, InMine
  <1>6. ASSUME OutMove(t, "tree"), id \in tree' <=> id \in tree PROVE Defended(id)'
    <2>1. Stored(id)' /\ (id \in tree' => id \in lines')  BY <1>1, <1>2, <1>6 DEF Stored
    <2>2. OutMove(t, pc[t])  BY <1>0, <1>6
    <2> QED  BY <1>0, <1>1, <1>2, <2>1, <2>2, OutFree
  <1>7. CASE InMove(t, "tree", "fork") /\ hasTree'[t] = TRUE /\ tree' = tree \cup {id}
    BY <1>5, <1>7
  <1>8. CASE /\ InMove(t, "tree", "fork") /\ hasTree'[t] = hasTree[t]
             /\ tree' \in {tree, tree \cup {id}}
             /\ undefended' = undefended \cup (tree' \cap {id})
    <2>1. id \notin tree' /\ tree \subseteq tree'  BY <1>8
    <2> QED  BY <1>3, <1>5, <1>8, <2>1
  <1>9. CASE /\ OutMove(t, "tree") /\ tree' = tree \cup {id}
             /\ undefended' = undefended \cup (tree' \ tree)
    <2>1. id \in tree' <=> id \in tree  BY <1>9
    <2> QED  BY <1>6, <1>9, <2>1
  <1> QED  BY <1>7, <1>8, <1>9, SpawnMoves

LEMMA ForkDefends ==
  ASSUME TypeInv, Homes, NEW t \in Threads, NEW id \in Ids \ undefended', req[t] = id,
         Mine(t, id),
         Fork(t) \/ ForkFails(t) \/ RecordTree(t) \/ InsertPane(t)
  PROVE  Defended(id)'
  <1>0. DataTypes /\ ThreadTypes  BY DEF TypeInv
  <1>1. /\ UNCHANGED <<meta, barrier, jobs, listed>> /\ pc[t] \in {"fork", "record", "insert"}
    BY DEF Fork, ForkFails, RecordTree, InsertPane, memory, disk
  <1>2. /\ pc[t] \notin {"lookup", "wait", "handshake"}
        /\ \A j \in Jobs : jobId'[j] = id => jobId[j] = id /\ jobStep'[j] = jobStep[j]
        /\ {"record", "insert", "killold"} \subseteq SpawnSteps \cup CloseSteps
    BY <1>1 DEF jobs, SpawnSteps
  <1>3. /\ Agree(id) /\ Stored(id) /\ (hasTree[t] <=> id \in tree)
    BY <1>1 DEF Mine, Stage
  <1>4. CASE Fork(t)
    <2>1. /\ InMove(t, "fork", "record") /\ hasTree'[t] = hasTree[t] /\ UNCHANGED <<sups, disk>>
      BY <1>4, SpawnMoves DEF Fork, memory
    <2>2. Agree(id)' /\ Stored(id)'  BY <1>1, <1>3, <2>1 DEF Agree, Stored, disk
    <2>3. Stage(t, id)'  BY <1>3, <2>1, <2>2 DEF Stage, InMove, disk
    <2>4. InMove(t, pc[t], "record")  BY <2>1 DEF InMove
    <2> QED  BY <1>2, <2>2, <2>3, <2>4, InMine
  <1>5. CASE ForkFails(t)
    <2>1. /\ OutMove(t, pc[t]) /\ UNCHANGED <<sups, lines>>
      BY <1>5, SpawnMoves DEF ForkFails, memory, OutMove
    <2>2. Agree(id)'  BY <1>1, <1>3, <2>1 DEF Agree
    <2>3. CASE hasTree[t]
      <3>1. CASE sups[id] = Nothing /\ id \notin tree'
        <4>1. Stored(id)'  BY <2>1, <3>1 DEF Stored
        <4> QED  BY <1>1, <1>2, <2>1, <2>2, <3>1, <4>1, OutFree
      <3>2. CASE UNCHANGED tree /\ id \in lines
        <4>1. Stored(id)' /\ id \in lines'  BY <1>1, <1>3, <2>1, <3>2 DEF Stored
        <4> QED  BY <1>1, <1>2, <2>1, <2>2, <4>1, OutFree
      <3> QED  BY <1>5, <2>3, <3>1, <3>2 DEF ForkFails
    <2>4. CASE ~hasTree[t]
      <3>1. id \notin tree' /\ UNCHANGED tree  BY <1>3, <1>5, <2>4 DEF ForkFails
      <3>2. Stored(id)'  BY <1>1, <1>3, <2>1, <3>1 DEF Stored
      <3> QED  BY <1>1, <1>2, <2>1, <2>2, <3>1, <3>2, OutFree
    <2> QED  BY <2>3, <2>4
  <1>6. CASE RecordTree(t)
    <2>1. /\ InMove(t, "record", "insert") /\ hasTree'[t] = hasTree[t] /\ UNCHANGED <<sups, tree>>
      BY <1>6, SpawnMoves DEF RecordTree, memory
    <2>2. Agree(id)' /\ Stored(id)'  BY <1>1, <1>3, <2>1 DEF Agree, Stored
    <2>3. Stage(t, id)'  BY <1>3, <2>1, <2>2 DEF Stage, InMove
    <2>4. InMove(t, pc[t], "insert")  BY <2>1 DEF InMove
    <2>5. id \in tree' => id \in lines'  BY <1>3, <1>6, <2>1 DEF RecordTree
    <2> QED  BY <1>2, <2>2, <2>3, <2>4, <2>5, InMine
  <1>7. CASE InsertPane(t)
    <2>1. /\ InMove(t, "insert", "killold") /\ hasTree'[t] = hasTree[t] /\ UNCHANGED disk
          /\ pc[t] = "insert" /\ pc'[t] = "killold"
      BY <1>7, SpawnMoves DEF InsertPane, InMove
    <2>2. held[t] # Nothing  BY <2>1 DEF Homes
    <2>3. sups'[id] = held[t]  BY <1>0, <1>7 DEF InsertPane, DataTypes
    <2>4. Stored(id)'
      BY <1>1, <1>3, <2>1 DEF Stored, Agree, disk
    <2>5. Stage(t, id)'  BY <1>3, <2>1, <2>2, <2>3 DEF Stage, disk
    <2>6. InMove(t, pc[t], "killold")  BY <2>1
    <2>7. id \in tree' => id \in lines'  BY <2>1 DEF Mine, disk
    <2> QED  BY <1>2, <2>4, <2>5, <2>6, <2>7, InMine
  <1> QED  BY <1>4, <1>5, <1>6, <1>7

LEMMA ArmDefends ==
  ASSUME TypeInv, NEW t \in Threads, NEW id \in Ids, req[t] = id, Mine(t, id),
         KillHeld(t) \/ SetMeta(t) \/ ListPane(t) \/ ArmWatcher(t)
  PROVE  Defended(id)'
  <1>0. DataTypes  BY DEF TypeInv
  <1>1. /\ UNCHANGED <<sups, barrier, jobs, tree, lines>>
        /\ pc[t] \in {"killold", "kill", "meta", "list", "arm"}
    BY DEF KillHeld, SetMeta, ListPane, ArmWatcher, memory, disk
  <1>2. /\ pc[t] \notin {"lookup", "wait", "handshake"}
        /\ \A j \in Jobs : jobId'[j] = id => jobId[j] = id /\ jobStep'[j] = jobStep[j]
        /\ {"meta", "unlist", "list", "arm"} \subseteq SpawnSteps \cup CloseSteps
    BY <1>1 DEF jobs, SpawnSteps, CloseSteps
  <1>3. /\ Stored(id) /\ Stage(t, id) /\ (id \in tree' => id \in lines')
    BY <1>1 DEF Mine
  <1>4. CASE KillHeld(t)
    <2>1. /\ InMove(t, "killold", "meta") \/ InMove(t, "kill", "unlist")
          /\ hasTree'[t] = hasTree[t] /\ UNCHANGED meta
      BY <1>4, SpawnMoves DEF KillHeld, memory
    <2>2. Stored(id)'  BY <1>1, <1>3, <2>1 DEF Stored
    <2>3. CASE InMove(t, "killold", "meta")
      <3>1. Stage(t, id)'  BY <1>1, <1>3, <2>1, <2>3 DEF Stage, InMove
      <3>2. InMove(t, pc[t], "meta")  BY <2>3 DEF InMove
      <3> QED  BY <1>2, <1>3, <2>2, <3>1, <3>2, InMine
    <2>4. CASE InMove(t, "kill", "unlist")
      <3>1. Stage(t, id)'  BY <1>1, <1>3, <2>1, <2>4 DEF Stage, InMove
      <3>2. InMove(t, pc[t], "unlist")  BY <2>4 DEF InMove
      <3> QED  BY <1>2, <1>3, <2>2, <3>1, <3>2, InMine
    <2> QED  BY <2>1, <2>3, <2>4
  <1>5. CASE SetMeta(t)
    <2>1. /\ InMove(t, "meta", "list") /\ UNCHANGED listed
          /\ meta'[id] = IF hasTree[t] THEN "tree" ELSE "bare"
      BY <1>0, <1>5, SpawnMoves DEF SetMeta, disk, DataTypes
    <2>2. hasTree[t] <=> id \in tree  BY <1>3, <2>1 DEF Stage, InMove
    <2>3. Stored(id)'  BY <1>1, <2>1, <2>2 DEF Stored
    <2>4. Stage(t, id)'
      <3>1. pc[t] = "meta" /\ pc'[t] = "list" /\ sups'[id] # Nothing /\ meta'[id] # "none"
        BY <1>1, <1>3, <2>1 DEF Stage, InMove
      <3> QED  BY <3>1 DEF Stage
    <2>5. InMove(t, pc[t], "list")  BY <2>1 DEF InMove
    <2> QED  BY <1>2, <1>3, <2>3, <2>4, <2>5, InMine
  <1>6. CASE ListPane(t)
    <2>1. InMove(t, "list", "arm") /\ UNCHANGED meta /\ id \in listed'
      BY <1>6, SpawnMoves DEF ListPane, memory
    <2>2. Stored(id)'  BY <1>1, <1>3, <2>1 DEF Stored
    <2>3. Stage(t, id)'  BY <1>1, <1>3, <2>1 DEF Stage, InMove
    <2>4. InMove(t, pc[t], "arm")  BY <2>1 DEF InMove
    <2> QED  BY <1>2, <1>3, <2>2, <2>3, <2>4, InMine
  <1>7. CASE ArmWatcher(t)
    <2>1. OutMove(t, pc[t]) /\ pc[t] = "arm" /\ UNCHANGED <<meta, listed>>
      BY <1>7, SpawnMoves DEF ArmWatcher, OutMove, disk
    <2>2. Agree(id)' /\ Stored(id)'  BY <1>1, <1>3, <2>1 DEF Stage, Agree, Stored
    <2> QED  BY <1>1, <1>2, <1>3, <2>1, <2>2, OutFree
  <1> QED  BY <1>4, <1>5, <1>6, <1>7

LEMMA SpawnDefends ==
  ASSUME TypeInv, Homes, Closes, NEW t \in Threads, DoSpawnStep(t),
         NEW id \in Ids \ undefended', Defended(id)
  PROVE  Defended(id)'
  <1>1. CASE id # req[t]
    <2>1. /\ Elsewhere(id) /\ UNCHANGED jobs /\ Alone(t) /\ req'[t] \in {req[t], NoId}
      BY <1>1, SpawnElsewhere
    <2> QED  BY <1>1, <2>1, OthersStay
  <1>2. CASE id = req[t]
    <2>1. Inside(t, id)
      BY <1>2 DEF DoSpawnStep, LookupBarrier, WaitBarrier, PrepareTree, Fork, ForkFails,
         RecordTree, InsertPane, KillHeld, SetMeta, ListPane, ArmWatcher, Inside, SpawnSteps,
         CloseSteps
    <2>2. Mine(t, id)  BY <2>1, DefendedIsMine
    <2> QED  BY <1>2, <2>2, WaitDefends, TreeDefends, ForkDefends, ArmDefends DEF DoSpawnStep
  <1> QED  BY <1>1, <1>2

LEMMA BeginDefends ==
  ASSUME TypeInv, Closes, NEW t \in Threads, NEW i \in Ids, BeginClose(t, i),
         NEW id \in Ids \ undefended', Defended(id)
  PROVE  Defended(id)'
  <1>0. /\ jobStep \in [Jobs -> {"none", "claimed", "published", "rmtree", "unrecord",
                                 "drain", "done"}]
        /\ jobId \in [Jobs -> Ids \cup {NoId}]
    BY DEF TypeInv, DataTypes
  <1>1. PICK j \in Jobs :
          /\ Alone(t) /\ pc[t] = "idle" /\ pc'[t] = "take" /\ req'[t] = i /\ waits'[t] = j
          /\ jobStep[j] = "none"
          /\ jobStep' = [jobStep EXCEPT ![j] = "claimed"] /\ jobId' = [jobId EXCEPT ![j] = i]
    BY BeginCloseMoves
  <1>2. /\ jobStep'[j] = "claimed" /\ jobId'[j] = i
        /\ \A k \in Jobs \ {j} : jobStep'[k] = jobStep[k] /\ jobId'[k] = jobId[k]
    BY <1>0, <1>1
  <1>3. UNCHANGED <<sups, meta, barrier, jobTree, disk>>  BY DEF BeginClose, memory
  <1>4. ~Inside(t, id)  BY <1>1 DEF Inside, SpawnSteps, CloseSteps
  <1>5. CASE i # id
    <2>1. ~Inside(t, id)'  BY <1>1, <1>5 DEF Inside
    <2>2. Untouched(id)
      BY <1>1, <1>2, <1>3, <1>4, <1>5, <2>1 DEF Untouched, Alone, Inside, disk
    <2> QED  BY <2>2, UntouchedStays
  <1>6. CASE i = id
    <2>1. /\ ~OthersOn(t, id)
          /\ ~ \E k \in Jobs : jobId[k] = id /\ Unfinished(k)
      BY <1>6 DEF BeginClose
    <2>2. \A u \in Threads : ~Inside(u, id)  BY <1>4, <2>1 DEF OthersOn
    <2>3. Free(id)  BY <2>2, DefendedIsFree
    <2>4. Inside(t, id)'  BY <1>1, <1>6 DEF Inside, CloseSteps
    <2>5. \A u \in Threads : Inside(u, id)' => u = t  BY <1>1, <2>2, InsideStays
    <2>6. Agree(id)' /\ Stored(id)' /\ (id \in tree' => id \in lines')
      BY <1>3, <2>3 DEF Free, Agree, Stored, disk
    <2>7. Stage(t, id)'  BY <1>1, <2>6 DEF Stage
    <2>8. \A k \in Jobs : jobId'[k] = id => ~Unfinished(k)'
      BY <1>2, <2>1 DEF Unfinished
    <2>9. Mine(t, id)'  BY <2>4, <2>5, <2>6, <2>7, <2>8 DEF Mine, Cleanup, Unfinished
    <2> QED  BY <2>9, MineIsDefended
  <1> QED  BY <1>5, <1>6

\* The steps of a close, for its own id.
LEMMA CloseDefends ==
  ASSUME TypeInv, Closes, NEW t \in Threads, NEW id \in Ids \ undefended', req[t] = id,
         Mine(t, id),
         TakePane(t) \/ UnlistPane(t) \/ TakeMeta(t)
  PROVE  Defended(id)'
  <1>0. DataTypes  BY DEF TypeInv
  <1>1. /\ UNCHANGED <<barrier, jobId, jobStep, tree, lines>>
        /\ pc[t] \in {"take", "unlist", "takemeta"}
    BY DEF TakePane, UnlistPane, TakeMeta, memory, jobs, disk
  <1>2. /\ pc[t] \notin {"lookup", "wait", "handshake"}
        /\ \A j \in Jobs : jobId'[j] = id => jobId[j] = id /\ jobStep'[j] = jobStep[j]
        /\ {"kill", "takemeta", "publish"} \subseteq SpawnSteps \cup CloseSteps
    BY <1>1 DEF CloseSteps
  <1>3. /\ Stored(id) /\ Stage(t, id) /\ (id \in tree' => id \in lines')
    BY <1>1 DEF Mine
  <1>4. CASE TakePane(t)
    <2>1. /\ InMove(t, "take", "kill") /\ sups'[id] = Nothing
      BY <1>0, <1>4, CloseMoves DEF TakePane, DataTypes
    <2>2. Stored(id)'  BY <2>1 DEF Stored
    <2>3. Stage(t, id)'  BY <2>1 DEF Stage, InMove
    <2>4. InMove(t, pc[t], "kill")  BY <2>1 DEF InMove
    <2> QED  BY <1>2, <1>3, <2>2, <2>3, <2>4, InMine
  <1>5. CASE UnlistPane(t)
    <2>1. /\ InMove(t, "unlist", "takemeta") /\ UNCHANGED <<sups, meta>> /\ id \notin listed'
      BY <1>5, CloseMoves DEF UnlistPane, memory
    <2>2. Stored(id)'  BY <1>1, <1>3, <2>1 DEF Stored
    <2>3. Stage(t, id)'  BY <1>3, <2>1 DEF Stage, InMove
    <2>4. InMove(t, pc[t], "takemeta")  BY <2>1 DEF InMove
    <2> QED  BY <1>2, <1>3, <2>2, <2>3, <2>4, InMine
  <1>6. CASE TakeMeta(t)
    <2>1. /\ InMove(t, "takemeta", "publish") /\ waits'[t] = waits[t]
          /\ UNCHANGED <<sups, listed>> /\ meta'[id] = "none"
      BY <1>0, <1>6, CloseMoves DEF TakeMeta, disk, DataTypes
    <2>2. pc[t] = "takemeta" /\ pc'[t] = "publish"  BY <2>1 DEF InMove
    <2>3. waits[t] \in Jobs  BY <2>2 DEF Closes, Claiming
    <2>4. jobTree'[waits'[t]] = (meta[id] = "tree")
      BY <1>0, <1>6, <2>1, <2>3 DEF TakeMeta, DataTypes
    <2>5. meta[id] # "tree" => id \notin tree  BY <1>6 DEF TakeMeta
    <2>6. jobTree'[waits'[t]] \/ id \notin tree'  BY <1>1, <2>4, <2>5
    <2>7. Stored(id)'  BY <2>1 DEF Stored
    <2>8. Stage(t, id)'  BY <1>3, <2>1, <2>2, <2>6 DEF Stage
    <2>9. InMove(t, pc[t], "publish")  BY <2>1, <2>2
    <2> QED  BY <1>2, <1>3, <2>7, <2>8, <2>9, InMine
  <1> QED  BY <1>4, <1>5, <1>6

LEMMA PublishDefends ==
  ASSUME TypeInv, Closes, NEW t \in Threads, NEW id \in Ids, req[t] = id, Mine(t, id),
         PublishBarrier(t)
  PROVE  Defended(id)'
  <1>0. DataTypes  BY DEF TypeInv
  <1>1. /\ InMove(t, "publish", "handshake") /\ waits'[t] = waits[t]
        /\ UNCHANGED <<sups, meta, jobId, jobTree, disk>>
    BY CloseMoves DEF PublishBarrier
  <1>2. pc[t] = "publish" /\ pc'[t] = "handshake" /\ Alone(t) /\ Inside(t, id)'
    BY <1>1 DEF InMove, Inside, CloseSteps
  <1>3. PICK j \in Jobs : j = waits[t]  BY <1>2 DEF Closes, Claiming
  <1>4. /\ barrier'[id] = j /\ jobStep'[j] = "published"
        /\ \A k \in Jobs \ {j} : jobStep'[k] = jobStep[k]
    BY <1>0, <1>3 DEF PublishBarrier, DataTypes
  <1>5. \A u \in Threads : Inside(u, id)' => u = t  BY <1>2, InsideStays DEF Mine
  <1>6. /\ Stage(t, id) /\ Stored(id)' /\ (id \in tree' => id \in lines')
    BY <1>1, <1>2 DEF Mine, Stored, disk
  <1>7. Stage(t, id)'  BY <1>1, <1>2, <1>6 DEF Stage, disk
  <1>8. ASSUME NEW k \in Jobs, jobId'[k] = id
        PROVE  /\ Cleanup(k, id)' /\ (Unfinished(k)' => Before(t, k)')
               /\ jobStep'[k] = "published" => pc'[t] = "handshake" /\ waits'[t] = k
    <2>1. CASE k = j
      <3>1. sups'[id] = Nothing  BY <1>1, <1>2, <1>6 DEF Stage
      <3>2. jobTree'[j] \/ id \notin tree'  BY <1>1, <1>2, <1>3, <1>6 DEF Stage, disk
      <3>3. Cleanup(k, id)'  BY <1>4, <2>1, <3>1, <3>2 DEF Cleanup
      <3> QED  BY <1>1, <1>2, <1>3, <2>1, <3>3 DEF Before
    <2>2. CASE k # j
      <3>1. ~Unfinished(k)  BY <1>1, <1>2, <1>8, NoCleanup
      <3>2. ~Unfinished(k)'  BY <1>4, <2>2, <3>1 DEF Unfinished
      <3> QED  BY <3>2 DEF Cleanup, Unfinished
    <2> QED  BY <2>1, <2>2
  <1>9. Mine(t, id)'  BY <1>2, <1>5, <1>6, <1>7, <1>8 DEF Mine
  <1> QED  BY <1>9, MineIsDefended

LEMMA HandshakeDefends ==
  ASSUME TypeInv, Closes, NEW t \in Threads, NEW id \in Ids, req[t] = id, Mine(t, id),
         Handshake(t)
  PROVE  Defended(id)'
  <1>1. /\ OutMove(t, "handshake") /\ UNCHANGED <<sups, meta, barrier, jobs, disk>>
    BY CloseMoves DEF Handshake, memory
  <1>2. pc[t] = "handshake" /\ Alone(t) /\ ~Inside(t, id)'
    BY <1>1 DEF OutMove, Inside, SpawnSteps, CloseSteps
  <1>3. \A u \in Threads : ~Inside(u, id)'  BY <1>2, InsideStays DEF Mine
  <1>4. Agree(id)'  BY <1>1, <1>2 DEF Mine, Stage, Agree, disk
  <1>5. Stored(id)' /\ (id \in tree' => id \in lines')  BY <1>1, <1>2 DEF Mine, Stored, disk
  <1>6. ASSUME NEW j \in Jobs, jobId'[j] = id PROVE Cleanup(j, id)' /\ jobStep'[j] # "published"
    <2>1. jobId[j] = id /\ jobStep'[j] = jobStep[j]  BY <1>1, <1>6 DEF jobs
    <2>2. Cleanup(j, id)'  BY <1>1, <2>1 DEF Mine, Cleanup, Unfinished, jobs, disk
    <2>3. jobStep[j] # "published"  BY <2>1 DEF Mine, Handshake
    <2> QED  BY <2>1, <2>2, <2>3
  <1>7. Free(id)'  BY <1>3, <1>4, <1>5, <1>6 DEF Free
  <1> QED  BY <1>7, FreeIsDefended

LEMMA ClosingDefends ==
  ASSUME TypeInv, Closes, NEW t \in Threads, NEW id \in Ids \ undefended', Defended(id),
         TakePane(t) \/ UnlistPane(t) \/ TakeMeta(t) \/ PublishBarrier(t) \/ Handshake(t)
  PROVE  Defended(id)'
  <1>0. DataTypes  BY DEF TypeInv
  <1>1. /\ Alone(t) /\ req'[t] \in {req[t], NoId} /\ pc[t] \in CloseSteps
    BY CloseMoves DEF InMove, OutMove, CloseSteps
  <1>2. CASE id # req[t]
    <2>1. /\ sups'[id] = sups[id] /\ meta'[id] = meta[id] /\ barrier'[id] = barrier[id]
          /\ id \in listed' <=> id \in listed
          /\ UNCHANGED <<jobId, tree, lines>>
      BY <1>0, <1>2 DEF TakePane, UnlistPane, TakeMeta, PublishBarrier, Handshake, memory, jobs,
         disk, DataTypes
    <2>2. id # NoId  BY AppAssumption
    <2>3. ~Inside(t, id) /\ ~Inside(t, id)'  BY <1>1, <1>2, <2>2 DEF Inside
    <2>4. ASSUME NEW j \in Jobs, jobId[j] = id
          PROVE  jobStep'[j] = jobStep[j] /\ jobTree'[j] = jobTree[j]
      <3>1. pc[t] \in Claiming => jobId[waits[t]] # id /\ waits[t] \in Jobs
        BY <1>2 DEF Closes
      <3>2. TakeMeta(t) \/ PublishBarrier(t) => waits[t] # j /\ waits[t] \in Jobs
        BY <2>4, <3>1 DEF TakeMeta, PublishBarrier, Claiming
      <3>3. CASE TakeMeta(t)  BY <1>0, <3>2, <3>3 DEF TakeMeta, DataTypes
      <3>4. CASE PublishBarrier(t)  BY <1>0, <3>2, <3>4 DEF PublishBarrier, DataTypes
      <3>5. CASE TakePane(t) \/ UnlistPane(t) \/ Handshake(t)
        BY <3>5 DEF TakePane, UnlistPane, Handshake, jobs
      <3> QED  BY <3>3, <3>4, <3>5
    <2>5. ASSUME NEW u \in Threads, Inside(u, id), pc[u] = "publish"
          PROVE  jobTree'[waits[u]] = jobTree[waits[u]]
      <3>1. waits[u] \in Jobs /\ jobId[waits[u]] = id  BY <2>5 DEF Closes, Claiming, Inside
      <3> QED  BY <2>4, <3>1
    <2>6. Untouched(id)  BY <1>1, <2>1, <2>3, <2>4, <2>5 DEF Untouched, Alone
    <2> QED  BY <2>6, UntouchedStays
  <1>3. CASE id = req[t]
    <2>1. Mine(t, id)  BY <1>1, <1>3, DefendedIsMine DEF Inside
    <2> QED  BY <1>3, <2>1, CloseDefends, PublishDefends, HandshakeDefends
  <1> QED  BY <1>2, <1>3

\* A cleanup's step, for its own id: whoever is inside stands before it.
LEMMA JobDefends ==
  ASSUME TypeInv, NEW j \in Jobs, JobStep(j), UNCHANGED <<pc, req, waits, hasTree>>,
         NEW id \in Ids \ undefended', jobId[j] = id, Defended(id)
  PROVE  Defended(id)'
  <1>0. DataTypes  BY DEF TypeInv
  <1>1. PICK s \in {"rmtree", "unrecord", "drain", "done"} :
          /\ jobStep' = [jobStep EXCEPT ![j] = s]
          /\ Unfinished(j) /\ UNCHANGED <<jobId, jobTree>>
    BY JobGoes
  <1>2. jobStep'[j] = s /\ \A k \in Jobs \ {j} : jobStep'[k] = jobStep[k]
    BY <1>0, <1>1 DEF DataTypes
  <1>3. /\ barrier[id] = j /\ sups[id] = Nothing
        /\ \A t \in Threads : Inside(t, id) => Before(t, j)
    BY <1>1 DEF Defended, Cleanup
  <1>4. \A k \in Jobs \ {j} : jobId[k] = id => ~Unfinished(k)
    BY <1>3 DEF Defended, Cleanup
  <1>5. /\ UNCHANGED <<sups, meta, listed>> /\ (id \in tree' => id \in tree)
        /\ s \in {"unrecord", "drain"} => id \notin tree'
        /\ s = "rmtree" => UNCHANGED tree /\ jobStep[j] = "published"
        /\ id \in lines' \/ id \notin tree' \/ id \notin lines
        /\ s # "done" => barrier'[id] = barrier[id]
    <2>1. CASE LockBarrier(j)
      <3>1. s = "rmtree"  BY <1>0, <1>2, <2>1 DEF LockBarrier, JobGoto, DataTypes
      <3> QED  BY <2>1, <3>1 DEF LockBarrier, memory, disk
    <2>2. CASE RemoveTree(j)
      <3>1. s = "unrecord" /\ jobStep[j] = "rmtree"
        BY <1>0, <1>2, <2>2 DEF RemoveTree, JobGoto, DataTypes
      <3>2. jobTree[j] \/ id \notin tree  BY <3>1 DEF Defended, Cleanup
      <3>3. id \notin tree' /\ (id \in tree' => id \in tree)
        BY <2>2, <3>2 DEF RemoveTree
      <3> QED  BY <2>2, <3>1, <3>3 DEF RemoveTree, memory
    <2>3. CASE UnrecordTree(j)
      <3>1. s = "drain" /\ jobStep[j] = "unrecord"
        BY <1>0, <1>2, <2>3 DEF UnrecordTree, JobGoto, DataTypes
      <3>2. id \notin tree  BY <3>1 DEF Defended, Cleanup
      <3> QED  BY <2>3, <3>1, <3>2 DEF UnrecordTree, memory
    <2>4. CASE DrainBarrier(j)
      <3>1. s = "done"  BY <1>0, <1>2, <2>4 DEF DrainBarrier, JobGoto, DataTypes
      <3> QED  BY <2>4, <3>1 DEF DrainBarrier, disk
    <2> QED  BY <2>1, <2>2, <2>3, <2>4 DEF JobStep
  <1>6. \A t \in Threads : Inside(t, id)' <=> Inside(t, id)  BY DEF Inside
  <1>7. Agree(id)' <=> Agree(id)  BY <1>5 DEF Agree
  <1>8. ASSUME NEW t \in Threads, Inside(t, id)' PROVE Stage(t, id)'
    <2>1. pc[t] \in {"lookup", "wait", "handshake"} /\ Stage(t, id)
      BY <1>3, <1>6, <1>8 DEF Before, Defended
    <2> QED  BY <1>5, <1>7, <2>1 DEF Stage
  <1>9. ASSUME NEW k \in Jobs, jobId'[k] = id
        PROVE  /\ Cleanup(k, id)'
               /\ Unfinished(k)' => \A t \in Threads : Inside(t, id)' => Before(t, k)'
               /\ jobStep'[k] # "published"
    <2>1. CASE k # j
      <3>1. ~Unfinished(k)'  BY <1>1, <1>2, <1>4, <1>9, <2>1 DEF Unfinished
      <3> QED  BY <3>1 DEF Cleanup, Unfinished
    <2>2. CASE k = j
      <3>1. Unfinished(k)' => barrier'[id] = j  BY <1>2, <1>3, <1>5, <2>2 DEF Unfinished
      <3>2. s = "rmtree" => jobTree'[j] \/ id \notin tree'
        BY <1>1, <1>5 DEF Defended, Cleanup
      <3>3. Cleanup(k, id)'  BY <1>2, <1>3, <1>5, <2>2, <3>1, <3>2 DEF Cleanup
      <3> QED  BY <1>2, <1>3, <1>6, <2>2, <3>3 DEF Before
    <2> QED  BY <2>1, <2>2
  <1>10. Stored(id)'  BY <1>3, <1>5 DEF Stored
  <1>11. ASSUME id \in tree'
         PROVE  id \in lines' \/ \E t \in Threads : req'[t] = id /\ pc'[t] \in {"fork", "record"}
    <2>1. id \in lines \/ \E t \in Threads : req[t] = id /\ pc[t] \in {"fork", "record"}
      BY <1>5, <1>11 DEF Defended
    <2>2. ~ \E t \in Threads : req[t] = id /\ pc[t] \in {"fork", "record"}
      BY <1>3, InsideIs DEF Before
    <2> QED  BY <1>5, <1>11, <2>1, <2>2
  <1>12. \A t, u \in Threads : Inside(t, id)' /\ Inside(u, id)' => t = u
    BY <1>6 DEF Defended
  <1>13. (\A t \in Threads : ~Inside(t, id)') => Agree(id)'
    BY <1>6, <1>7 DEF Defended
  <1> QED  BY <1>8, <1>9, <1>10, <1>11, <1>12, <1>13 DEF Defended

LEMMA BystanderDefends ==
  ASSUME TypeInv, Closes, Bystander, NEW id \in Ids \ undefended', Defended(id)
  PROVE  Defended(id)'
  <1>0. DataTypes  BY DEF TypeInv
  <1>1. UNCHANGED <<pc, req, held, waits, hasTree>>  BY BystanderTypes
  <1>2. ASSUME NEW j \in Jobs, JobStep(j), jobId[j] # id PROVE Defended(id)'
    <2>1. PICK s \in {"rmtree", "unrecord", "drain", "done"} :
            /\ jobStep' = [jobStep EXCEPT ![j] = s] /\ UNCHANGED <<jobId, jobTree>>
      BY <1>2, JobGoes
    <2>2. \A k \in Jobs : jobId'[k] = id => jobStep'[k] = jobStep[k]
      BY <1>0, <1>2, <2>1 DEF DataTypes
    <2>3. UNCHANGED <<sups, meta, listed>>
      BY <1>2 DEF JobStep, LockBarrier, RemoveTree, UnrecordTree, DrainBarrier, memory, disk
    <2>4. /\ id \in tree' <=> id \in tree
          /\ id \in lines => id \in lines'
      BY <1>2 DEF JobStep, LockBarrier, RemoveTree, UnrecordTree, DrainBarrier, memory, disk
    <2>5. barrier'[id] = barrier[id]
      BY <1>0, <1>2 DEF JobStep, LockBarrier, RemoveTree, UnrecordTree, DrainBarrier, memory,
         DataTypes
    <2>6. Untouched(id)  BY <1>1, <2>1, <2>2, <2>3, <2>4, <2>5 DEF Untouched
    <2> QED  BY <2>6, UntouchedStays
  <1>3. ASSUME NEW j \in Jobs, JobStep(j), jobId[j] = id PROVE Defended(id)'
    BY <1>1, <1>3, JobDefends
  <1>4. ASSUME ~ \E j \in Jobs : JobStep(j) PROVE Defended(id)'
    <2>1. UNCHANGED <<sups, meta, barrier, jobs, disk>>
      BY <1>4 DEF Bystander, StopWatching, AgentExits, HooksLand, vars, memory
    <2>2. Untouched(id)  BY <1>1, <2>1 DEF Untouched, jobs, disk
    <2> QED  BY <2>2, UntouchedStays
  <1> QED  BY <1>2, <1>3, <1>4

\* Once undefended, an id stays so.
LEMMA UndefendedGrows ==
  ASSUME TypeInv, [Next]_vars PROVE undefended \subseteq undefended'
  <1>1. ASSUME NEW t \in Threads, Outer(t) PROVE undefended \subseteq undefended'
    BY <1>1, OuterMoves DEF IdleMove, EnterMove
  <1>2. ASSUME NEW t \in Threads, DoSpawnStep(t) PROVE undefended \subseteq undefended'
    BY <1>2 DEF DoSpawnStep, LookupBarrier, WaitBarrier, PrepareTree, Fork, ForkFails,
       RecordTree, InsertPane, KillHeld, SetMeta, ListPane, ArmWatcher
  <1>3. ASSUME NEW t \in Threads, NEW id \in Ids, BeginClose(t, id)
        PROVE  undefended \subseteq undefended'
    BY <1>3 DEF BeginClose
  <1>4. ASSUME NEW t \in Threads,
               TakePane(t) \/ UnlistPane(t) \/ TakeMeta(t) \/ PublishBarrier(t) \/ Handshake(t)
        PROVE  undefended \subseteq undefended'
    BY <1>4 DEF TakePane, UnlistPane, TakeMeta, PublishBarrier, Handshake
  <1>5. ASSUME Bystander PROVE undefended \subseteq undefended'
    BY <1>5 DEF Bystander, JobStep, LockBarrier, RemoveTree, UnrecordTree, DrainBarrier,
       StopWatching, AgentExits, HooksLand, vars
  <1> QED  BY <1>1, <1>2, <1>3, <1>4, <1>5, Cases

AllDefended == \A id \in Ids \ undefended : Defended(id)

PaneInv == TypeInv /\ Homes /\ Closes /\ AllDefended

LEMMA InitDefends == Init => AllDefended
  <1> SUFFICES ASSUME Init, NEW id \in Ids PROVE Defended(id)
    BY DEF AllDefended
  <1>1. \A t \in Threads : ~Inside(t, id)
    BY DEF Init, Inside, SpawnSteps, CloseSteps
  <1>2. Agree(id) /\ Stored(id) /\ (id \in tree => id \in lines)
    BY DEF Init, Agree, Stored
  <1>3. \A j \in Jobs : ~Unfinished(j)  BY DEF Init, Unfinished
  <1>4. Free(id)  BY <1>1, <1>2, <1>3 DEF Free, Cleanup, Unfinished
  <1> QED  BY <1>4, FreeIsDefended

LEMMA StepDefends == PaneInv /\ [Next]_vars => AllDefended'
  <1> SUFFICES ASSUME PaneInv, [Next]_vars, NEW id \in Ids \ undefended'
               PROVE  Defended(id)'
    BY DEF AllDefended
  <1>1. TypeInv /\ Homes /\ Closes  BY DEF PaneInv
  <1>2. id \notin undefended  BY <1>1, UndefendedGrows
  <1>3. Defended(id)  BY <1>2 DEF PaneInv, AllDefended
  <1> QED  BY <1>1, <1>3, Cases, OuterDefends, SpawnDefends, BeginDefends, ClosingDefends,
             BystanderDefends

\* As long as nothing happens to an id that the code does not guard against, it
\* has at most one thread in do_spawn and close_workspace, and all of memory and
\* disk stand as that thread's step says.
THEOREM PaneInvHolds == Spec => []PaneInv
  <1>1. Init => PaneInv  BY InitTypes, InitHomes, InitCloses, InitDefends DEF PaneInv
  <1>2. PaneInv /\ [Next]_vars => PaneInv'
    BY StepTypes, StepHomes, StepCloses, StepDefends DEF PaneInv
  <1> QED  BY <1>1, <1>2, PTL DEF Spec

\* The cleanup barrier: a pane that was given a worktree keeps it, unless its id
\* was undefended.
THEOREM PanesKeepTrees == Spec => []PaneKeepsTree
  <1>1. PaneInv => PaneKeepsTree
    BY DEF PaneInv, AllDefended, Defended, Stored, PaneKeepsTree
  <1> QED  BY <1>1, PaneInvHolds, PTL

\* The crash-safe order: a worktree on disk has its registry line, except between
\* add_worktree and registry_add.
THEOREM TreesAreRecorded == Spec => []TreeIsRecorded
  <1>1. PaneInv => TreeIsRecorded
    <2> SUFFICES ASSUME PaneInv, NEW id \in tree \ undefended
                 PROVE  \/ id \in lines
                        \/ \E t \in Threads : req[t] = id /\ pc[t] \in {"fork", "record"}
      BY DEF TreeIsRecorded
    <2>1. id \in Ids  BY DEF PaneInv, TypeInv, DataTypes
    <2> QED  BY <2>1 DEF PaneInv, AllDefended, Defended
  <1> QED  BY <1>1, PaneInvHolds, PTL

\* Once the threads are done with an id, the live registry lists it exactly when
\* sups has it, and meta agrees.
THEOREM LiveIsListed == Spec => []ListedIsLive
  <1>1. PaneInv => ListedIsLive
    BY DEF PaneInv, AllDefended, Defended, Agree, ListedIsLive
  <1> QED  BY <1>1, PaneInvHolds, PTL
=============================================================================
