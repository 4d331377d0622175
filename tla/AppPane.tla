------------------------------ MODULE AppPane ------------------------------
(***************************************************************************)
(* The life of a pane the app itself owns (app/src-tauri/src/lib.rs, flag  *)
(* daemon_spawn off): spawn_workspace with its admission gate, run_now,    *)
(* the admission tick of the HUD timer, the one-shot respawn of a pane     *)
(* that died at startup, and close_workspace, whose disk cleanup runs on a *)
(* detached thread.                                                        *)
(*                                                                         *)
(* Commands run on the async runtime, so between two critical sections of  *)
(* one any other may run.  A pane is named by the pid of its child, a      *)
(* cleanup by the number of its close; 0 is neither.  Delegate workers,    *)
(* the run log and the primed set are left out.                            *)
(***************************************************************************)
EXTENDS Integers, Sequences, FiniteSets

CONSTANTS
  Ids, NoId,      \* workspace ids, and the id of a thread without work
  Cmds,           \* threads of the async runtime that serve the frontend
  Timer,          \* the HUD timer thread
  Watchers,       \* early-death watchers that have found a dead pane
  MaxConcurrent,  \* max_concurrent
  Budget,         \* early_respawn_budget
  MaxWorking,     \* bound: working panes
  MaxPid,         \* bound: children ever forked
  MaxCloses       \* bound: closes

ASSUME AppAssumption ==
  /\ NoId \notin Ids
  /\ Timer \notin Cmds \cup Watchers /\ Cmds \cap Watchers = {}
  /\ MaxConcurrent \in Nat \ {0}
  /\ Budget \in Nat /\ MaxWorking \in Nat /\ MaxPid \in Nat /\ MaxCloses \in Nat

Threads == Cmds \cup Watchers \cup {Timer}
Pids == 1 .. MaxPid
Jobs == 1 .. MaxCloses
Nothing == 0

VARIABLES
  pc, req, held,  \* per thread: next step, its id, the pane it holds
  waits,          \* per thread: the cleanup whose lock do_spawn took from the map
  hasTree,        \* per thread: wt / wt_meta is a worktree
  counted,        \* the timer's working count of this tick
  sups, meta,     \* AppState.sups; meta: "none", "bare" or "tree"
  barrier,        \* pending_cleanups: id -> the cleanup whose lock is there
  queue,          \* AppState.pending
  watch, tries,   \* armed early-death watchers; early_respawned
  jobId, jobStep, jobTree, \* the cleanup threads
  tree, lines,    \* disk: worktrees, and the ids in the worktree registry
  listed,         \* disk: agent-teams-live.json
  working,        \* working_count, as the hook events have it
  proc, home,     \* per child: its state and its id
  undefended      \* history: ids with an event the code does not guard against

locals == <<req, held, waits, hasTree, counted>>
memory == <<sups, meta, barrier, queue, watch, tries>>
jobs == <<jobId, jobStep, jobTree>>
disk == <<tree, lines, listed>>
world == <<working, proc, home>>
vars == <<pc, locals, memory, jobs, disk, world, undefended>>

SpawnSteps == {"lookup", "wait", "tree", "fork", "record", "insert", "killold",
               "meta", "list", "arm"}
CloseSteps == {"take", "kill", "unlist", "takemeta", "publish", "handshake"}

\* A thread is inside do_spawn or close_workspace for this id.
Inside(t, id) == pc[t] \in SpawnSteps \cup CloseSteps /\ req[t] = id

OthersOn(t, id) == \E u \in Threads \ {t} : Inside(u, id)

Unfinished(j) == jobStep[j] \in {"published", "rmtree", "unrecord", "drain"}

Queued(id) == \E i \in DOMAIN queue : queue[i] = id

\* Mutant: one slot is never used.
AdmitBelow(count) == count + 1 < MaxConcurrent

AdmitDecision(count) == count < MaxConcurrent

TypeOK ==
  /\ pc \in [Threads -> SpawnSteps \cup CloseSteps \cup
               {"idle", "seek", "count", "enqueue", "admit", "respawn"}]
  /\ req \in [Threads -> Ids \cup {NoId}]
  /\ held \in [Threads -> Pids \cup {Nothing}]
  /\ waits \in [Threads -> Jobs \cup {Nothing}]
  /\ hasTree \in [Threads -> BOOLEAN] /\ counted \in Nat
  /\ sups \in [Ids -> Pids \cup {Nothing}]
  /\ meta \in [Ids -> {"none", "bare", "tree"}]
  /\ barrier \in [Ids -> Jobs \cup {Nothing}]
  /\ queue \in Seq(Ids)
  /\ watch \in [Ids -> Nat] /\ tries \in [Ids -> 0 .. Budget]
  /\ jobId \in [Jobs -> Ids \cup {NoId}]
  /\ jobStep \in [Jobs -> {"none", "claimed", "published", "rmtree", "unrecord",
                           "drain", "done"}]
  /\ jobTree \in [Jobs -> BOOLEAN]
  /\ tree \subseteq Ids /\ lines \subseteq Ids /\ listed \subseteq Ids
  /\ undefended \subseteq Ids /\ working \in 0 .. MaxWorking
  /\ proc \in [Pids -> {"unborn", "running", "exited"}]
  /\ home \in [Pids -> Ids \cup {NoId}]

\* The startup sweep has run: a worktree left from an earlier run is a dirty
\* one, and its line was kept.
Init ==
  /\ pc = [t \in Threads |-> "idle"] /\ req = [t \in Threads |-> NoId]
  /\ held = [t \in Threads |-> Nothing] /\ waits = [t \in Threads |-> Nothing]
  /\ hasTree = [t \in Threads |-> FALSE] /\ counted = 0
  /\ sups = [id \in Ids |-> Nothing] /\ meta = [id \in Ids |-> "none"]
  /\ barrier = [id \in Ids |-> Nothing] /\ queue = <<>>
  /\ watch = [id \in Ids |-> 0] /\ tries = [id \in Ids |-> 0]
  /\ jobId = [j \in Jobs |-> NoId] /\ jobStep = [j \in Jobs |-> "none"]
  /\ jobTree = [j \in Jobs |-> FALSE]
  /\ tree \in SUBSET Ids /\ lines = tree /\ listed = {}
  /\ working = 0
  /\ proc = [p \in Pids |-> "unborn"] /\ home = [p \in Pids |-> NoId]
  /\ undefended = {}

Goto(t, step) == pc' = [pc EXCEPT ![t] = step]

\* do_spawn begins.
EnterDoSpawn(t, id) ==
  /\ Goto(t, "lookup")
  /\ req' = [req EXCEPT ![t] = id]
  /\ undefended' = IF OthersOn(t, id) THEN undefended \cup {id} ELSE undefended

\* do_spawn or a command ends; the timer goes on with its admission loop and
\* counts what it admitted.
Finish(t, ok) ==
  /\ Goto(t, IF t = Timer THEN "admit" ELSE "idle")
  /\ counted' = IF t = Timer /\ ok THEN counted + 1 ELSE counted
  /\ req' = [req EXCEPT ![t] = NoId]
  /\ held' = [held EXCEPT ![t] = Nothing]
  /\ waits' = [waits EXCEPT ![t] = Nothing]
  /\ hasTree' = [hasTree EXCEPT ![t] = FALSE]

-----------------------------------------------------------------------------
(* spawn_workspace, run_now and the admission tick *)

\* A reopen, and a create over a live id, skip the gate.
BeginSpawn(c, id) ==
  /\ pc[c] = "idle"
  /\ \/ EnterDoSpawn(c, id)
     \/ /\ sups[id] = Nothing
        /\ Goto(c, "seek")
        /\ req' = [req EXCEPT ![c] = id]
        /\ UNCHANGED undefended
  /\ UNCHANGED <<held, waits, hasTree, counted, memory, jobs, disk, world>>

\* An id already queued is left to the timer.
SeekQueued(c) ==
  /\ pc[c] = "seek"
  /\ IF Queued(req[c])
       THEN Finish(c, FALSE)
       ELSE Goto(c, "count") /\ UNCHANGED locals
  /\ UNCHANGED <<memory, jobs, disk, world, undefended>>

CountWorking(c) ==
  /\ pc[c] = "count"
  /\ IF AdmitDecision(working)
       THEN EnterDoSpawn(c, req[c])
       ELSE Goto(c, "enqueue") /\ UNCHANGED <<req, undefended>>
  /\ UNCHANGED <<held, waits, hasTree, counted, memory, jobs, disk, world>>

Enqueue(c) ==
  /\ pc[c] = "enqueue"
  /\ queue' = IF Queued(req[c]) THEN queue ELSE Append(queue, req[c])
  /\ Finish(c, FALSE)
  /\ UNCHANGED <<sups, meta, barrier, watch, tries, jobs, disk, world, undefended>>

RunNow(c) ==
  /\ pc[c] = "idle"
  /\ \E i \in DOMAIN queue :
       /\ queue' = SubSeq(queue, 1, i - 1) \o SubSeq(queue, i + 1, Len(queue))
       /\ EnterDoSpawn(c, queue[i])
  /\ UNCHANGED <<held, waits, hasTree, counted, sups, meta, barrier, watch, tries,
                 jobs, disk, world>>

\* The tick counts once, before it admits anything.
Tick ==
  /\ pc[Timer] = "idle"
  /\ Goto(Timer, "admit")
  /\ counted' = working
  /\ UNCHANGED <<req, held, waits, hasTree, memory, jobs, disk, world, undefended>>

\* admit_pending: a failed spawn is dropped and takes no slot.
Admit ==
  /\ pc[Timer] = "admit"
  /\ IF AdmitDecision(counted) /\ queue # <<>>
       THEN /\ queue' = Tail(queue)
            /\ EnterDoSpawn(Timer, Head(queue))
            /\ UNCHANGED counted
       ELSE /\ Goto(Timer, "idle")
            /\ counted' = 0
            /\ UNCHANGED <<req, queue, undefended>>
  /\ UNCHANGED <<held, waits, hasTree, sups, meta, barrier, watch, tries,
                 jobs, disk, world>>

-----------------------------------------------------------------------------
(* do_spawn *)

LookupBarrier(t) ==
  /\ pc[t] = "lookup"
  /\ Goto(t, "wait")
  /\ waits' = [waits EXCEPT ![t] = barrier[req[t]]]
  /\ UNCHANGED <<req, held, hasTree, counted, memory, jobs, disk, world, undefended>>

\* The lock is taken and dropped: it is free until the cleanup thread has it.
WaitBarrier(t) ==
  /\ pc[t] = "wait"
  /\ waits[t] # Nothing => jobStep[waits[t]] \in {"published", "done"}
  /\ Goto(t, "tree")
  /\ waits' = [waits EXCEPT ![t] = Nothing]
  /\ UNCHANGED <<req, held, hasTree, counted, memory, jobs, disk, world, undefended>>

\* add_worktree creates or reuses.  When it errs, possibly after git has made
\* the tree, the pane runs in the folder itself.  Uncommitted work, or a
\* freshen_worktree that errs, ends a spawn that wanted a fresh tree: one that
\* add_worktree made just now is left, and nothing has recorded it.
PrepareTree(t) ==
  /\ pc[t] = "tree"
  /\ \/ /\ Goto(t, "fork")
        /\ hasTree' = [hasTree EXCEPT ![t] = TRUE]
        /\ tree' = tree \cup {req[t]}
        /\ UNCHANGED <<req, held, waits, counted, undefended>>
     \/ /\ Goto(t, "fork")
        /\ tree' \in {tree, tree \cup {req[t]}}
        /\ undefended' = undefended \cup (tree' \cap {req[t]})
        /\ UNCHANGED locals
     \/ /\ Finish(t, FALSE)
        /\ tree' = tree \cup {req[t]}
        /\ undefended' = undefended \cup (tree' \ tree)
  /\ UNCHANGED <<memory, jobs, lines, listed, world>>

Fork(t) ==
  /\ pc[t] = "fork"
  /\ \E p \in Pids :
       /\ proc[p] = "unborn" /\ \A q \in 1 .. p - 1 : proc[q] # "unborn"
       /\ proc' = [proc EXCEPT ![p] = "running"]
       /\ home' = [home EXCEPT ![p] = req[t]]
       /\ held' = [held EXCEPT ![t] = p]
  /\ Goto(t, "record")
  /\ UNCHANGED <<req, waits, hasTree, counted, memory, jobs, disk, working, undefended>>

\* The rollback removes a reused worktree too, that of a live pane included; it
\* is best effort, and what git refuses to remove has a line only if reused.
ForkFails(t) ==
  /\ pc[t] = "fork"
  /\ \/ /\ tree' = IF hasTree[t] THEN tree \ {req[t]} ELSE tree
        /\ undefended' = IF hasTree[t] /\ sups[req[t]] # Nothing
                           THEN undefended \cup {req[t]} ELSE undefended
     \/ /\ hasTree[t] /\ req[t] \in tree
        /\ undefended' = undefended \cup ({req[t]} \ lines)
        /\ UNCHANGED tree
  /\ Finish(t, FALSE)
  /\ UNCHANGED <<memory, jobs, lines, listed, world>>

RecordTree(t) ==
  /\ pc[t] = "record"
  /\ Goto(t, "insert")
  /\ lines' = IF hasTree[t] THEN lines \cup {req[t]} ELSE lines
  /\ UNCHANGED <<locals, memory, jobs, tree, listed, world, undefended>>

\* Mutant: the pane that was there is dropped without a kill.
InsertOver(t) ==
  /\ pc[t] = "insert"
  /\ Goto(t, "meta")
  /\ sups' = [sups EXCEPT ![req[t]] = held[t]]
  /\ held' = [held EXCEPT ![t] = Nothing]
  /\ UNCHANGED <<req, waits, hasTree, counted, meta, barrier, queue, watch, tries,
                 jobs, disk, world, undefended>>

InsertPane(t) ==
  /\ pc[t] = "insert"
  /\ Goto(t, "killold")
  /\ sups' = [sups EXCEPT ![req[t]] = held[t]]
  /\ held' = [held EXCEPT ![t] = sups[req[t]]]
  /\ UNCHANGED <<req, waits, hasTree, counted, meta, barrier, queue, watch, tries,
                 jobs, disk, world, undefended>>

\* Supervisor::kill of the pane the thread took out of sups, if any.
KillHeld(t) ==
  /\ pc[t] \in {"killold", "kill"}
  /\ Goto(t, IF pc[t] = "killold" THEN "meta" ELSE "unlist")
  /\ proc' = IF held[t] = Nothing THEN proc ELSE [proc EXCEPT ![held[t]] = "exited"]
  /\ held' = [held EXCEPT ![t] = Nothing]
  /\ UNCHANGED <<req, waits, hasTree, counted, memory, jobs, disk, working, home,
                 undefended>>

SetMeta(t) ==
  /\ pc[t] = "meta"
  /\ Goto(t, "list")
  /\ meta' = [meta EXCEPT ![req[t]] = IF hasTree[t] THEN "tree" ELSE "bare"]
  /\ UNCHANGED <<locals, sups, barrier, queue, watch, tries, jobs, disk, world,
                 undefended>>

\* live_registry_update: the file is read and rewritten under its lock.
ListPane(t) ==
  /\ pc[t] = "list"
  /\ Goto(t, "arm")
  /\ listed' = listed \cup {req[t]}
  /\ UNCHANGED <<locals, memory, jobs, tree, lines, world, undefended>>

ArmWatcher(t) ==
  /\ pc[t] = "arm"
  /\ watch' = [watch EXCEPT ![req[t]] = @ + 1]
  /\ Finish(t, TRUE)
  /\ UNCHANGED <<sups, meta, barrier, queue, tries, jobs, disk, world, undefended>>

-----------------------------------------------------------------------------
(* arm_early_death_respawn: the watcher knows its pane only by the id *)

SeeDead(w, id) ==
  /\ pc[w] = "idle" /\ watch[id] > 0
  /\ sups[id] # Nothing /\ proc[sups[id]] = "exited"
  /\ tries[id] < Budget
  /\ watch' = [watch EXCEPT ![id] = @ - 1]
  /\ tries' = [tries EXCEPT ![id] = @ + 1]
  /\ Goto(w, "respawn")
  /\ req' = [req EXCEPT ![w] = id]
  /\ UNCHANGED <<held, waits, hasTree, counted, sups, meta, barrier, queue, jobs,
                 disk, world, undefended>>

Respawn(w) ==
  /\ pc[w] = "respawn"
  /\ EnterDoSpawn(w, req[w])
  /\ UNCHANGED <<held, waits, hasTree, counted, memory, jobs, disk, world>>

\* The window is over, the id is gone or the budget is spent.
StopWatching(id) ==
  /\ watch[id] > 0
  /\ watch' = [watch EXCEPT ![id] = @ - 1]
  /\ UNCHANGED <<pc, locals, sups, meta, barrier, queue, tries, jobs, disk, world,
                 undefended>>

-----------------------------------------------------------------------------
(* close_workspace and its cleanup thread *)

BeginClose(c, id) ==
  /\ pc[c] = "idle"
  /\ \E j \in Jobs :
       /\ jobStep[j] = "none" /\ \A k \in 1 .. j - 1 : jobStep[k] # "none"
       /\ jobStep' = [jobStep EXCEPT ![j] = "claimed"]
       /\ jobId' = [jobId EXCEPT ![j] = id]
       /\ waits' = [waits EXCEPT ![c] = j]
  /\ Goto(c, "take")
  /\ req' = [req EXCEPT ![c] = id]
  /\ undefended' =
       IF OthersOn(c, id) \/ \E j \in Jobs : jobId[j] = id /\ Unfinished(j)
         THEN undefended \cup {id} ELSE undefended
  /\ UNCHANGED <<held, hasTree, counted, memory, jobTree, disk, world>>

TakePane(c) ==
  /\ pc[c] = "take"
  /\ Goto(c, "kill")
  /\ held' = [held EXCEPT ![c] = sups[req[c]]]
  /\ sups' = [sups EXCEPT ![req[c]] = Nothing]
  /\ UNCHANGED <<req, waits, hasTree, counted, meta, barrier, queue, watch, tries,
                 jobs, disk, world, undefended>>

\* Mutant: the closed pane stays in the live registry.
LeaveListed(c) ==
  /\ pc[c] = "unlist"
  /\ Goto(c, "takemeta")
  /\ UNCHANGED <<locals, memory, jobs, disk, world, undefended>>

UnlistPane(c) ==
  /\ pc[c] = "unlist"
  /\ Goto(c, "takemeta")
  /\ listed' = listed \ {req[c]}
  /\ UNCHANGED <<locals, memory, jobs, tree, lines, world, undefended>>

\* Only a worktree of this run is known to the cleanup; one kept from an
\* earlier run loses its registry line and stays.
TakeMeta(c) ==
  /\ pc[c] = "takemeta"
  /\ Goto(c, "publish")
  /\ jobTree' = [jobTree EXCEPT ![waits[c]] = meta[req[c]] = "tree"]
  /\ meta' = [meta EXCEPT ![req[c]] = "none"]
  /\ undefended' = IF meta[req[c]] # "tree" THEN undefended \cup (tree \cap {req[c]})
                                             ELSE undefended
  /\ UNCHANGED <<locals, sups, barrier, queue, watch, tries, jobId, jobStep, disk,
                 world>>

\* A fresh lock takes the place of any other; the cleanup thread starts.
PublishBarrier(c) ==
  /\ pc[c] = "publish"
  /\ Goto(c, "handshake")
  /\ barrier' = [barrier EXCEPT ![req[c]] = waits[c]]
  /\ jobStep' = [jobStep EXCEPT ![waits[c]] = "published"]
  /\ UNCHANGED <<locals, sups, meta, queue, watch, tries, jobId, jobTree, disk,
                 world, undefended>>

\* Mutant: the close returns without the handshake.
ReturnAtOnce(c) ==
  /\ pc[c] = "handshake"
  /\ Finish(c, TRUE)
  /\ UNCHANGED <<memory, jobs, disk, world, undefended>>

\* ready_rx.recv(): the close returns once the cleanup thread has its lock.
Handshake(c) ==
  /\ pc[c] = "handshake"
  /\ jobStep[waits[c]] # "published"
  /\ Finish(c, TRUE)
  /\ UNCHANGED <<memory, jobs, disk, world, undefended>>

JobGoto(j, step) == jobStep' = [jobStep EXCEPT ![j] = step]

\* Mutant: the registry line goes first.
UnrecordFirst(j) ==
  /\ jobStep[j] = "published"
  /\ JobGoto(j, "rmtree")
  /\ lines' = lines \ {jobId[j]}
  /\ UNCHANGED <<pc, locals, memory, jobId, jobTree, tree, listed, world,
                 undefended>>

LockBarrier(j) ==
  /\ jobStep[j] = "published"
  /\ JobGoto(j, "rmtree")
  /\ UNCHANGED <<pc, locals, memory, jobId, jobTree, disk, world, undefended>>

\* remove_worktree is best effort: git may refuse.
RemoveTree(j) ==
  /\ jobStep[j] = "rmtree"
  /\ JobGoto(j, "unrecord")
  /\ \/ /\ tree' = IF jobTree[j] THEN tree \ {jobId[j]} ELSE tree
        /\ UNCHANGED undefended
     \/ /\ jobTree[j] /\ jobId[j] \in tree
        /\ undefended' = undefended \cup {jobId[j]}
        /\ UNCHANGED tree
  /\ UNCHANGED <<pc, locals, memory, jobId, jobTree, lines, listed, world>>

\* registry_remove; the state directory goes after it.
UnrecordTree(j) ==
  /\ jobStep[j] = "unrecord"
  /\ JobGoto(j, "drain")
  /\ lines' = lines \ {jobId[j]}
  /\ UNCHANGED <<pc, locals, memory, jobId, jobTree, tree, listed, world, undefended>>

DrainBarrier(j) ==
  /\ jobStep[j] = "drain"
  /\ JobGoto(j, "done")
  /\ barrier' = IF barrier[jobId[j]] = j
                  THEN [barrier EXCEPT ![jobId[j]] = Nothing] ELSE barrier
  /\ UNCHANGED <<pc, locals, sups, meta, queue, watch, tries, jobId, jobTree, disk,
                 world, undefended>>

-----------------------------------------------------------------------------
(* The agents *)

AgentExits(p) ==
  /\ proc[p] = "running"
  /\ proc' = [proc EXCEPT ![p] = "exited"]
  /\ UNCHANGED <<pc, locals, memory, jobs, disk, working, home, undefended>>

\* Hook events land: any number of panes may be working.
HooksLand ==
  /\ working' \in 0 .. MaxWorking
  /\ UNCHANGED <<pc, locals, memory, jobs, disk, proc, home, undefended>>

-----------------------------------------------------------------------------
DoSpawnStep(t) ==
  \/ LookupBarrier(t) \/ WaitBarrier(t) \/ PrepareTree(t)
  \/ Fork(t) \/ ForkFails(t) \/ RecordTree(t)
  \/ InsertPane(t) \/ KillHeld(t) \/ SetMeta(t) \/ ListPane(t) \/ ArmWatcher(t)

CmdStep(c) ==
  \/ SeekQueued(c) \/ CountWorking(c) \/ Enqueue(c) \/ DoSpawnStep(c)
  \/ TakePane(c) \/ UnlistPane(c) \/ TakeMeta(c) \/ PublishBarrier(c) \/ Handshake(c)

TimerStep == Tick \/ Admit \/ DoSpawnStep(Timer)

JobStep(j) == LockBarrier(j) \/ RemoveTree(j) \/ UnrecordTree(j) \/ DrainBarrier(j)

Request(c) ==
  \/ \E id \in Ids : BeginSpawn(c, id) \/ BeginClose(c, id)
  \/ RunNow(c)

Next ==
  \/ \E c \in Cmds : Request(c) \/ CmdStep(c)
  \/ \E w \in Watchers :
       (\E id \in Ids : SeeDead(w, id)) \/ Respawn(w) \/ DoSpawnStep(w)
  \/ TimerStep
  \/ \E j \in Jobs : JobStep(j)
  \/ \E id \in Ids : StopWatching(id)
  \/ \E p \in Pids : AgentExits(p)
  \/ HooksLand

Spec == Init /\ [][Next]_vars

-----------------------------------------------------------------------------
(* Properties *)

\* Kill-on-replace: however spawns, respawns and closes of an id interleave, a
\* running child is the one sups holds for its id, or a thread has it in hand.
NoStrayChild ==
  \A p \in Pids : proc[p] = "running" =>
    \/ sups[home[p]] = p
    \/ \E t \in Threads :
         held[t] = p /\ pc[t] \in {"record", "insert", "killold", "kill"}

\* The cleanup barrier: unless its id was undefended, a pane that was given a
\* worktree keeps it for as long as sups has the pane.
PaneKeepsTree ==
  \A id \in Ids \ undefended : sups[id] # Nothing /\ meta[id] = "tree" =>
    id \in tree \/ \E t \in Threads : req[t] = id /\ pc[t] \in CloseSteps

\* The crash-safe order: a worktree on disk has its registry line, except in
\* the window of do_spawn between add_worktree and registry_add, and after the
\* events of undefended: the tree of a spawn that failed in that window and was
\* not, or could not be, taken back is one of them.
TreeIsRecorded ==
  \A id \in tree \ undefended :
    id \in lines \/ \E t \in Threads : req[t] = id /\ pc[t] \in {"fork", "record"}

\* Once the threads are done with an id, the live registry lists it exactly
\* when sups has it, and meta agrees.
ListedIsLive ==
  \A id \in Ids \ undefended :
    \/ \E t \in Threads : Inside(t, id)
    \/ /\ id \in listed <=> sups[id] # Nothing
       /\ meta[id] = "none" <=> sups[id] = Nothing

\* No request is left in the queue while working slots stay free.
QueueServed ==
  \A id \in Ids : []<>(~Queued(id) \/ working >= MaxConcurrent)
=============================================================================
