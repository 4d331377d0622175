---------------------------- MODULE DaemonSpawn ----------------------------
(***************************************************************************)
(* The life of a daemon-owned pane (core/daemon/src/spawn.rs): Spawn and   *)
(* Close requests, each on its own connection thread, the 30-second reaper *)
(* thread, a crash of the daemon and its cold-start sweep.                 *)
(*                                                                         *)
(* One action is one critical section or one system call of the code: the  *)
(* locks are per map, so between two of them any other thread may run.     *)
(* A pane is named by the pid of its child; 0 is "no pane".  The primed    *)
(* set (forget_primed) belongs to the write path, and the idle ticker to   *)
(* module DaemonLifecycle.  A request refused before the id is claimed     *)
(* (spawn gate, validation) changes nothing and has no action.             *)
(***************************************************************************)
EXTENDS Integers, FiniteSets

CONSTANTS
  Ids, NoId,      \* workspace ids, and the id of a thread without a request
  Conns,          \* connection threads
  Reaper,         \* the reaper thread
  MaxDaemonPanes, \* MAX_DAEMON_PANES
  PaneTTL,        \* DAEMON_PANE_TTL, in clock ticks
  MaxPid,         \* bound: children ever forked
  MaxTime,        \* bound: clock ticks
  MaxCrashes      \* bound: daemon crashes

ASSUME SpawnAssumption ==
  /\ Reaper \notin Conns /\ NoId \notin Ids
  /\ MaxDaemonPanes \in Nat \ {0}
  /\ PaneTTL \in Nat \ {0}
  /\ MaxPid \in Nat /\ MaxTime \in Nat /\ MaxCrashes \in Nat
  /\ IsFiniteSet(Conns) /\ IsFiniteSet(Ids)

Threads == Conns \cup {Reaper}
Pids == 1..MaxPid
NoPane == 0
PaneOrNone == Pids \cup {NoPane}
IdMap == [Ids -> PaneOrNone]
Empty == [id \in Ids |-> NoPane]

VARIABLES
  phase,      \* the daemon process: "dead", its cold start, "serving"
  pc, op, req, pane, \* per thread: next step, request, its id, the pane it holds
  snap,       \* per thread: the map it cloned and is about to write
  inflight,   \* inflight_ids: the claimed ids
  pending,    \* in-flight spawns, read by the idle ticker
  sups,       \* DaemonSups: id -> pane
  record,     \* worktrees: id -> the pane whose WorktreeRecord is kept
  childPid,   \* child_pids
  times, sweptAt, candidates, anyRemoved, \* the reaper's locals
  registry, trail,    \* disk: agent-teams-live.json, the worktree trail
  appStamped, \* disk: the registry's app_pid is that of a running app
  worktree,   \* disk: the per-id worktree
  proc, home, stamp,  \* per child: its state, its id, its spawned_at
  orphans,    \* children that outlived the daemon that forked them
  spared,     \* cold start: the files that cold_start_sweep will not clear
  now, crashes

threadVars == <<pc, op, req, pane, snap>>
reaperVars == <<times, sweptAt, candidates, anyRemoved>>
memory == <<inflight, pending, sups, record, childPid>>
registryFile == <<registry, appStamped>>
disk == <<registryFile, trail, worktree>>
children == <<proc, home, stamp, orphans>>
world == <<phase, spared, now, crashes>>
vars == <<threadVars, reaperVars, memory, disk, children, world>>

SpawnSteps == {"claim", "cap", "prepare", "fork", "insert", "record", "setpid"}
CleanupSteps == {"kill", "take", "rmtree", "forget"}
PublishSteps == {"readpids", "writereg", "readrecs", "writetrail"}
ReaperSteps == {"scan", "pick", "recheck"}
Steps == SpawnSteps \cup CleanupSteps \cup PublishSteps \cup ReaperSteps
           \cup {"idle", "remove", "release", "unpend"}

\* The thread is between a successful claim_spawn_id / try_claim_id and the
\* drop of its InflightGuard; the reaper publishes after its guards are gone.
HoldsClaim(t) ==
  \/ pc[t] \in (SpawnSteps \ {"claim"}) \cup CleanupSteps
                 \cup {"remove", "recheck", "release"}
  \/ t # Reaper /\ pc[t] \in PublishSteps

Live == {id \in Ids : sups[id] # NoPane}
CountLive == Cardinality(Live)

Goto(t, step) == pc' = [pc EXCEPT ![t] = step]

\* supervisor::remove_worktree of these ids, best effort: git may refuse any.
RemoveWorktrees(ids) ==
  \E removed \in SUBSET ids :
    worktree' = [id \in Ids |-> IF id \in removed THEN "none" ELSE worktree[id]]

TypeOK ==
  /\ phase \in {"dead", "killing", "sweeping", "serving"}
  /\ pc \in [Threads -> Steps]
  /\ op \in [Threads -> {"none", "spawn", "close"}]
  /\ req \in [Threads -> Ids \cup {NoId}]
  /\ pane \in [Threads -> PaneOrNone]
  /\ snap \in [Threads -> IdMap]
  /\ inflight \subseteq Ids
  /\ pending \in Int
  /\ sups \in IdMap /\ record \in IdMap /\ childPid \in IdMap
  /\ times \in IdMap /\ sweptAt \in Nat
  /\ candidates \subseteq Ids /\ anyRemoved \in BOOLEAN
  /\ registry \in IdMap /\ trail \in IdMap
  /\ appStamped \in BOOLEAN /\ spared \subseteq {"registry", "trail"}
  /\ worktree \in [Ids -> {"none", "clean", "dirty"}]
  /\ proc \in [Pids -> {"unborn", "running", "exited"}]
  /\ home \in [Pids -> Ids \cup {NoId}]
  /\ stamp \in [Pids -> Nat]
  /\ orphans \subseteq Pids
  /\ now \in Nat /\ crashes \in Nat

-----------------------------------------------------------------------------
\* Threads without a request; a local goes back to this value when its last
\* use is past.
AllThreads(value) == [t \in Threads |-> value]

\* A worktree may be left from an earlier run: the app keeps a dirty one.
Init ==
  /\ phase = "dead"
  /\ pc = AllThreads("idle") /\ op = AllThreads("none") /\ req = AllThreads(NoId)
  /\ pane = AllThreads(NoPane) /\ snap = AllThreads(Empty)
  /\ times = Empty /\ sweptAt = 0 /\ candidates = {} /\ anyRemoved = FALSE
  /\ inflight = {} /\ pending = 0
  /\ sups = Empty /\ record = Empty /\ childPid = Empty
  /\ registry = Empty /\ trail = Empty /\ appStamped = FALSE /\ spared = {}
  /\ worktree \in [Ids -> {"none", "dirty"}]
  /\ proc = [p \in Pids |-> "unborn"]
  /\ home = [p \in Pids |-> NoId]
  /\ stamp = [p \in Pids |-> 0]
  /\ orphans = {}
  /\ now = 0 /\ crashes = 0

-----------------------------------------------------------------------------
(* handle_spawn *)

\* Mutant: no PendingGuard.
BeginSpawnUnheld(c, id) ==
  /\ phase = "serving" /\ pc[c] = "idle"
  /\ Goto(c, "claim")
  /\ op' = [op EXCEPT ![c] = "spawn"]
  /\ req' = [req EXCEPT ![c] = id]
  /\ UNCHANGED <<pane, snap, reaperVars, memory, disk, children, world>>

\* The in-flight hold is taken before the id is looked at.
BeginSpawn(c, id) ==
  /\ phase = "serving" /\ pc[c] = "idle"
  /\ Goto(c, "claim")
  /\ op' = [op EXCEPT ![c] = "spawn"]
  /\ req' = [req EXCEPT ![c] = id]
  /\ pending' = pending + 1
  /\ UNCHANGED <<pane, snap, reaperVars, inflight, sups, record, childPid,
                 disk, children, world>>

\* Mutant: the map is not looked at under the lock.
ClaimUnlooked(c) ==
  /\ pc[c] = "claim"
  /\ IF req[c] \in inflight
       THEN Goto(c, "unpend") /\ UNCHANGED inflight
       ELSE Goto(c, "cap") /\ inflight' = inflight \cup {req[c]}
  /\ UNCHANGED <<op, req, pane, snap, reaperVars, pending, sups, record,
                 childPid, disk, children, world>>

\* claim_spawn_id: one lock spans the liveness check and the insert.
ClaimSpawn(c) ==
  /\ pc[c] = "claim"
  /\ IF req[c] \in inflight \/ sups[req[c]] # NoPane
       THEN Goto(c, "unpend") /\ UNCHANGED inflight
       ELSE Goto(c, "cap") /\ inflight' = inflight \cup {req[c]}
  /\ UNCHANGED <<op, req, pane, snap, reaperVars, pending, sups, record,
                 childPid, disk, children, world>>

CheckCap(c) ==
  /\ pc[c] = "cap"
  /\ Goto(c, IF CountLive >= MaxDaemonPanes THEN "release" ELSE "prepare")
  /\ UNCHANGED <<op, req, pane, snap, reaperVars, memory, disk, children, world>>

\* prepare_worktree: create or reuse; git may fail; a dirty reused tree is
\* refused when the request wanted a fresh one (UNCOMMITTED_WORK).
PrepareWorktree(c) ==
  /\ pc[c] = "prepare"
  /\ \/ Goto(c, "release") /\ UNCHANGED worktree
     \/ /\ worktree[req[c]] = "none"
        /\ worktree' = [worktree EXCEPT ![req[c]] = "clean"]
        /\ Goto(c, "fork")
     \/ /\ worktree[req[c]] # "none"
        /\ \E freshFromMain \in BOOLEAN :
             Goto(c, IF freshFromMain /\ worktree[req[c]] = "dirty"
                       THEN "release" ELSE "fork")
        /\ UNCHANGED worktree
  /\ UNCHANGED <<op, req, pane, snap, reaperVars, memory, registryFile, trail,
                 children, world>>

\* exec.spawn succeeds; pids are handed out in order.
ForkChild(c) ==
  /\ pc[c] = "fork"
  /\ \E p \in Pids :
       /\ proc[p] = "unborn" /\ \A q \in 1..(p - 1) : proc[q] # "unborn"
       /\ proc' = [proc EXCEPT ![p] = "running"]
       /\ home' = [home EXCEPT ![p] = req[c]]
       /\ pane' = [pane EXCEPT ![c] = p]
  /\ Goto(c, "insert")
  /\ UNCHANGED <<op, req, snap, reaperVars, memory, disk, stamp, orphans, world>>

\* exec.spawn fails: the worktree is rolled back, created just now or reused.
ForkFails(c) ==
  /\ pc[c] = "fork"
  /\ RemoveWorktrees({req[c]})
  /\ Goto(c, "release")
  /\ UNCHANGED <<op, req, pane, snap, reaperVars, memory, registryFile, trail,
                 children, world>>

\* sups.insert, and the kill of a pane it may have replaced.
InsertPane(c) ==
  /\ pc[c] = "insert"
  /\ sups' = [sups EXCEPT ![req[c]] = pane[c]]
  /\ proc' = [p \in Pids |-> IF p = sups[req[c]] THEN "exited" ELSE proc[p]]
  /\ Goto(c, "record")
  /\ UNCHANGED <<op, req, pane, snap, reaperVars, inflight, pending, record,
                 childPid, disk, home, stamp, orphans, world>>

RecordWorktree(c) ==
  /\ pc[c] = "record"
  /\ record' = [record EXCEPT ![req[c]] = pane[c]]
  /\ stamp' = [p \in Pids |-> IF p = pane[c] THEN now ELSE stamp[p]]
  /\ Goto(c, "setpid")
  /\ UNCHANGED <<op, req, pane, snap, reaperVars, inflight, pending, sups,
                 childPid, disk, proc, home, orphans, world>>

SetChildPid(c) ==
  /\ pc[c] = "setpid"
  /\ childPid' = [childPid EXCEPT ![req[c]] = pane[c]]
  /\ pane' = [pane EXCEPT ![c] = NoPane]
  /\ Goto(c, "readpids")
  /\ UNCHANGED <<op, req, snap, reaperVars, inflight, pending, sups, record,
                 disk, children, world>>

\* Drop of the PendingGuard, after the claim's guard.
Unpend(c) ==
  /\ pc[c] = "unpend"
  /\ pending' = pending - 1
  /\ Goto(c, "idle")
  /\ op' = [op EXCEPT ![c] = "none"]
  /\ req' = [req EXCEPT ![c] = NoId]
  /\ UNCHANGED <<pane, snap, reaperVars, inflight, sups, record, childPid,
                 disk, children, world>>

-----------------------------------------------------------------------------
(* handle_close; an id in flight is answered CLOSE_PENDING and nothing done. *)

BeginClose(c, id) ==
  /\ phase = "serving" /\ pc[c] = "idle"
  /\ id \notin inflight
  /\ inflight' = inflight \cup {id}
  /\ op' = [op EXCEPT ![c] = "close"]
  /\ req' = [req EXCEPT ![c] = id]
  /\ Goto(c, "remove")
  /\ UNCHANGED <<pane, snap, reaperVars, pending, sups, record, childPid,
                 disk, children, world>>

RemovePane(c) ==
  /\ pc[c] = "remove"
  /\ sups' = [sups EXCEPT ![req[c]] = NoPane]
  /\ pane' = [pane EXCEPT ![c] = sups[req[c]]]
  /\ Goto(c, IF sups[req[c]] = NoPane THEN "release" ELSE "kill")
  /\ UNCHANGED <<op, req, snap, reaperVars, inflight, pending, record,
                 childPid, disk, children, world>>

-----------------------------------------------------------------------------
(* What close and reap do to the pane they removed. *)

\* Mutant: the removed pane is dropped and its child runs on.
DropPane(t) ==
  /\ pc[t] = "kill"
  /\ pane' = [pane EXCEPT ![t] = NoPane]
  /\ Goto(t, "take")
  /\ UNCHANGED <<op, req, snap, reaperVars, memory, disk, children, world>>

KillPane(t) ==
  /\ pc[t] = "kill"
  /\ proc' = [p \in Pids |-> IF p = pane[t] THEN "exited" ELSE proc[p]]
  /\ pane' = [pane EXCEPT ![t] = NoPane]
  /\ Goto(t, "take")
  /\ UNCHANGED <<op, req, snap, reaperVars, memory, disk, home, stamp,
                 orphans, world>>

\* Mutant: the record is read and not taken.
GetRecord(t) ==
  /\ pc[t] = "take"
  /\ Goto(t, IF record[req[t]] = NoPane THEN "forget" ELSE "rmtree")
  /\ UNCHANGED <<op, req, pane, snap, reaperVars, memory, disk, children, world>>

TakeRecord(t) ==
  /\ pc[t] = "take"
  /\ record' = [record EXCEPT ![req[t]] = NoPane]
  /\ Goto(t, IF record[req[t]] = NoPane THEN "forget" ELSE "rmtree")
  /\ UNCHANGED <<op, req, pane, snap, reaperVars, inflight, pending, sups,
                 childPid, disk, children, world>>

RemoveWorktree(t) ==
  /\ pc[t] = "rmtree"
  /\ RemoveWorktrees({req[t]})
  /\ Goto(t, "forget")
  /\ UNCHANGED <<op, req, pane, snap, reaperVars, memory, registryFile, trail,
                 children, world>>

\* The reaper publishes once, after its last candidate; close publishes now.
ForgetChildPid(t) ==
  /\ pc[t] = "forget"
  /\ childPid' = [childPid EXCEPT ![req[t]] = NoPane]
  /\ IF t = Reaper
       THEN Goto(t, "release") /\ anyRemoved' = TRUE
       ELSE Goto(t, "readpids") /\ UNCHANGED anyRemoved
  /\ UNCHANGED <<op, req, pane, snap, times, sweptAt, candidates, inflight,
                 pending, sups, record, disk, children, world>>

ReleaseClaim(t) ==
  /\ pc[t] = "release"
  /\ inflight' = inflight \ {req[t]}
  /\ IF op[t] = "spawn"
       THEN Goto(t, "unpend") /\ UNCHANGED <<op, req>>
       ELSE /\ Goto(t, IF t = Reaper THEN "pick" ELSE "idle")
            /\ op' = [op EXCEPT ![t] = "none"]
            /\ req' = [req EXCEPT ![t] = NoId]
  /\ UNCHANGED <<pane, snap, reaperVars, pending, sups, record, childPid,
                 disk, children, world>>

-----------------------------------------------------------------------------
(* write_live_registry(child_pid_map()) and persist_worktrees: each clones *)
(* its map under the lock and writes the whole file outside it: the rows   *)
(* and the stamp of an app that wrote it go.                               *)

ReadChildPids(t) ==
  /\ pc[t] = "readpids"
  /\ snap' = [snap EXCEPT ![t] = childPid]
  /\ Goto(t, "writereg")
  /\ UNCHANGED <<op, req, pane, reaperVars, memory, disk, children, world>>

WriteRegistry(t) ==
  /\ pc[t] = "writereg"
  /\ registry' = snap[t] /\ appStamped' = FALSE
  /\ snap' = [snap EXCEPT ![t] = Empty]
  /\ Goto(t, "readrecs")
  /\ UNCHANGED <<op, req, pane, reaperVars, memory, trail, worktree, children,
                 world>>

ReadRecords(t) ==
  /\ pc[t] = "readrecs"
  /\ snap' = [snap EXCEPT ![t] = record]
  /\ Goto(t, "writetrail")
  /\ UNCHANGED <<op, req, pane, reaperVars, memory, disk, children, world>>

WriteTrail(t) ==
  /\ pc[t] = "writetrail"
  /\ trail' = snap[t]
  /\ snap' = [snap EXCEPT ![t] = Empty]
  /\ Goto(t, IF t = Reaper THEN "idle" ELSE "release")
  /\ UNCHANGED <<op, req, pane, reaperVars, memory, registryFile, worktree,
                 children, world>>

-----------------------------------------------------------------------------
(* reaper_sweep *)

\* The clock and the spawn times are read once, before the map is looked at.
BeginSweep ==
  /\ phase = "serving" /\ pc[Reaper] = "idle"
  /\ times' = record
  /\ sweptAt' = now
  /\ Goto(Reaper, "scan")
  /\ UNCHANGED <<op, req, pane, snap, candidates, anyRemoved, memory, disk,
                 children, world>>

\* is_doomed: dead, or expired by the spawn time in the snapshot.
Expired(id) == times[id] # NoPane /\ sweptAt - stamp[times[id]] >= PaneTTL
\* Mutant: only the age counts.
DoomedByAge(id) == sups[id] # NoPane /\ Expired(id)
Doomed(id) ==
  /\ sups[id] # NoPane
  /\ proc[sups[id]] = "exited" \/ Expired(id)

ScanPanes ==
  /\ pc[Reaper] = "scan"
  /\ candidates' = {id \in Ids : Doomed(id)}
  /\ Goto(Reaper, "pick")
  /\ UNCHANGED <<op, req, pane, snap, times, sweptAt, anyRemoved, memory, disk,
                 children, world>>

\* Mutant: the reaper looks for a claim and takes none.
PickUnclaimed(id) ==
  /\ pc[Reaper] = "pick" /\ id \in candidates
  /\ candidates' = candidates \ {id}
  /\ IF id \in inflight
       THEN UNCHANGED <<pc, req>>
       ELSE req' = [req EXCEPT ![Reaper] = id] /\ Goto(Reaper, "recheck")
  /\ UNCHANGED <<op, pane, snap, times, sweptAt, anyRemoved, memory, disk,
                 children, world>>

\* try_claim_id: a candidate claimed by somebody else is skipped.
PickCandidate(id) ==
  /\ pc[Reaper] = "pick" /\ id \in candidates
  /\ candidates' = candidates \ {id}
  /\ IF id \in inflight
       THEN UNCHANGED <<pc, req, inflight>>
       ELSE /\ inflight' = inflight \cup {id}
            /\ req' = [req EXCEPT ![Reaper] = id]
            /\ Goto(Reaper, "recheck")
  /\ UNCHANGED <<op, pane, snap, times, sweptAt, anyRemoved, pending, sups,
                 record, childPid, disk, children, world>>

Recheck ==
  /\ pc[Reaper] = "recheck"
  /\ IF Doomed(req[Reaper])
       THEN /\ sups' = [sups EXCEPT ![req[Reaper]] = NoPane]
            /\ pane' = [pane EXCEPT ![Reaper] = sups[req[Reaper]]]
            /\ Goto(Reaper, "kill")
       ELSE Goto(Reaper, "release") /\ UNCHANGED <<sups, pane>>
  /\ UNCHANGED <<op, req, snap, reaperVars, inflight, pending, record,
                 childPid, disk, children, world>>

EndSweep ==
  /\ pc[Reaper] = "pick" /\ candidates = {}
  /\ Goto(Reaper, IF anyRemoved THEN "readpids" ELSE "idle")
  /\ times' = Empty /\ sweptAt' = 0 /\ anyRemoved' = FALSE
  /\ UNCHANGED <<op, req, pane, snap, candidates, memory, disk, children, world>>

-----------------------------------------------------------------------------
(* The process: its children, its death, and cold_start_sweep.  The        *)
(* registry is shared with the app, of which only the start is here, as    *)
(* far as the sweep can tell: its rows for panes of its own, and its later *)
(* rewrites, are those of module PaneOwnership.                            *)

AgentExits(p) ==
  /\ proc[p] = "running"
  /\ proc' = [proc EXCEPT ![p] = "exited"]
  /\ UNCHANGED <<threadVars, reaperVars, memory, disk, home, stamp, orphans, world>>

AgentEdits(p) ==
  /\ proc[p] = "running" /\ worktree[home[p]] = "clean"
  /\ worktree' = [worktree EXCEPT ![home[p]] = "dirty"]
  /\ UNCHANGED <<threadVars, reaperVars, memory, registryFile, trail, children,
                 world>>

Tick ==
  /\ now < MaxTime
  /\ now' = now + 1
  /\ UNCHANGED <<threadVars, reaperVars, memory, disk, children, phase, spared,
                 crashes>>

\* The process image goes; the terminals hang up, of which a child dies or not.
ProcessEnds ==
  /\ phase' = "dead" /\ spared' = {}
  /\ pc' = AllThreads("idle") /\ op' = AllThreads("none") /\ req' = AllThreads(NoId)
  /\ pane' = AllThreads(NoPane) /\ snap' = AllThreads(Empty)
  /\ times' = Empty /\ sweptAt' = 0 /\ candidates' = {} /\ anyRemoved' = FALSE
  /\ inflight' = {} /\ pending' = 0
  /\ sups' = Empty /\ record' = Empty /\ childPid' = Empty
  /\ \E hungUp \in SUBSET {p \in Pids : proc[p] = "running"} :
       proc' = [p \in Pids |-> IF p \in hungUp THEN "exited" ELSE proc[p]]
  /\ orphans' = {p \in Pids : proc[p] # "unborn"}
  /\ UNCHANGED <<disk, home, stamp, now>>

Crash ==
  /\ phase # "dead" /\ crashes < MaxCrashes
  /\ crashes' = crashes + 1
  /\ ProcessEnds

\* The app starts: it asks the daemon for its panes (an answer may not come,
\* and does not from a daemon that is down or sweeping), wipes the registry with
\* its own pid as app_pid, and takes the rows of those panes over.
AppStarts ==
  /\ \E survivors \in {{}, IF phase = "serving" THEN Live ELSE {}} :
       registry' = [id \in Ids |-> IF id \in survivors THEN registry[id] ELSE NoPane]
  /\ appStamped' = TRUE
  /\ UNCHANGED <<threadVars, reaperVars, memory, trail, worktree, children, world>>

AppDies ==
  /\ appStamped
  /\ appStamped' = FALSE
  /\ UNCHANGED <<threadVars, reaperVars, memory, registry, trail, worktree,
                 children, world>>

\* writer_alive is looked at once: under a running app nothing is killed, and
\* the registry is not cleared either.
KillOrphans ==
  /\ phase = "dead"
  /\ spared' = IF appStamped THEN {"registry"} ELSE {}
  /\ proc' = [p \in Pids |-> IF ~appStamped /\ \E id \in Ids : registry[id] = p
                               THEN "exited" ELSE proc[p]]
  /\ phase' = "killing"
  /\ UNCHANGED <<threadVars, reaperVars, memory, disk, home, stamp, orphans,
                 now, crashes>>

\* The trail is swept whoever runs; one that does not parse is kept.
SweepTrail ==
  /\ phase = "killing"
  /\ \/ RemoveWorktrees({id \in Ids : trail[id] # NoPane}) /\ UNCHANGED spared
     \/ /\ trail # Empty
        /\ spared' = spared \cup {"trail"}
        /\ UNCHANGED worktree
  /\ phase' = "sweeping"
  /\ UNCHANGED <<threadVars, reaperVars, memory, registryFile, trail, children,
                 now, crashes>>

\* Mutant: the registry goes whatever the check of its writer said.
ClearAlways ==
  /\ phase = "sweeping"
  /\ trail' = Empty /\ registry' = Empty /\ appStamped' = FALSE
  /\ phase' = "serving" /\ spared' = {}
  /\ UNCHANGED <<threadVars, reaperVars, memory, worktree, children, now, crashes>>

ClearRecords ==
  /\ phase = "sweeping"
  /\ IF "trail" \in spared THEN UNCHANGED trail ELSE trail' = Empty
  /\ IF "registry" \in spared
       THEN UNCHANGED registryFile
       ELSE registry' = Empty /\ appStamped' = FALSE
  /\ phase' = "serving" /\ spared' = {}
  /\ UNCHANGED <<threadVars, reaperVars, memory, worktree, children, now, crashes>>

-----------------------------------------------------------------------------
SpawnStep(c) ==
  \/ ClaimSpawn(c) \/ CheckCap(c) \/ PrepareWorktree(c)
  \/ ForkChild(c) \/ ForkFails(c)
  \/ InsertPane(c) \/ RecordWorktree(c) \/ SetChildPid(c) \/ Unpend(c)

CleanupStep(t) ==
  \/ KillPane(t) \/ TakeRecord(t) \/ RemoveWorktree(t) \/ ForgetChildPid(t)
  \/ ReleaseClaim(t)

PublishStep(t) ==
  \/ ReadChildPids(t) \/ WriteRegistry(t) \/ ReadRecords(t) \/ WriteTrail(t)

ThreadStep(t) == CleanupStep(t) \/ PublishStep(t)
ConnStep(c) == SpawnStep(c) \/ RemovePane(c) \/ ThreadStep(c)
SweepStep == ScanPanes \/ (\E id \in Ids : PickCandidate(id)) \/ Recheck \/ EndSweep
ReaperStep == BeginSweep \/ SweepStep \/ ThreadStep(Reaper)
ColdStart == KillOrphans \/ SweepTrail \/ ClearRecords
Environment ==
  \/ \E p \in Pids : AgentExits(p) \/ AgentEdits(p)
  \/ Tick \/ Crash \/ AppStarts \/ AppDies

Next ==
  \/ \E c \in Conns, id \in Ids : BeginSpawn(c, id) \/ BeginClose(c, id)
  \/ \E c \in Conns : ConnStep(c)
  \/ ReaperStep
  \/ ColdStart
  \/ Environment

Spec == Init /\ [][Next]_vars

-----------------------------------------------------------------------------
(* Properties *)

\* At most one thread is inside the claimed section of an id (the per-id mutex
\* of inflight_ids, whatever mix of spawn, close and reap is running).
ClaimExclusion ==
  \A s, t \in Threads :
    s # t /\ HoldsClaim(s) /\ HoldsClaim(t) => req[s] # req[t]

\* sups.insert in handle_spawn never replaces a pane: the defensive old.kill()
\* is dead code, so no spawn ever kills a running agent.
InsertFindsVacant ==
  \A c \in Conns : pc[c] = "insert" => sups[req[c]] = NoPane

\* The children this daemon forked never include two running ones for one id,
\* not even while a close or a reap is killing the first.
OneChildPerId ==
  \A p, q \in Pids \ orphans :
    /\ proc[p] = "running" /\ proc[q] = "running"
    /\ home[p] = home[q]
    => p = q

\* No removal (rollback, close or reap) takes the worktree away from under a
\* running agent: the reaper-versus-respawn race inflight_ids is there to stop.
RunningPaneHasWorktree ==
  \A id \in Ids :
    sups[id] # NoPane /\ proc[sups[id]] = "running" => worktree[id] # "none"

\* A running child is in the map, or about to be inserted by a spawn that holds
\* the daemon open (pending), or about to be killed: never out of reach.
NoStrayChild ==
  \A p \in Pids \ orphans : proc[p] = "running" =>
    \/ sups[home[p]] = p
    \/ \E t \in Threads :
         /\ pane[t] = p
         /\ pc[t] = "kill" \/ (pc[t] = "insert" /\ pending > 0)

\* When nobody is working on an id, the three maps agree on it: the pid that
\* would be published and the worktree that would be removed are the pane's.
SettledBookkeeping ==
  \A id \in Ids \ inflight :
    childPid[id] = sups[id] /\ record[id] = sups[id]

\* Concurrent spawns of different ids check the cap before they insert, so the
\* cap can be overrun, but by no more than the other connections.
CapOverrunBounded ==
  CountLive + Cardinality({c \in Conns : pc[c] \in {"prepare", "fork", "insert"}})
    <= MaxDaemonPanes - 1 + Cardinality(Conns)

\* The cold start forgets a registry entry only when its child is reclaimed,
\* whichever app starts or dies while it sweeps: a child it did not kill because
\* the registry was a running app's is still on record when the daemon serves.
RegistryOutlivesOrphans ==
  [][ClearRecords =>
       \A id \in Ids : registry[id] # NoPane /\ registry'[id] = NoPane =>
         proc[registry[id]] # "running"]_vars

-----------------------------------------------------------------------------
(* The daemon as its clients see it: a spawn is under way from its claim   *)
(* until its pane is in the map or it has failed and let go of the id, and *)
(* any other claim of an id without a pane is a clean-up.                  *)
Spawns(c, id) ==
  /\ op[c] = "spawn" /\ req[c] = id
  /\ pc[c] \in {"cap", "prepare", "fork", "insert"} \/ (pc[c] = "release" /\ id \notin Live)

Starting == {id \in Ids : \E c \in Conns : Spawns(c, id)}
Ending == inflight \ (Live \cup Starting)

Service == INSTANCE DaemonService
             WITH Served <- Ids, live <- Live, starting <- Starting, ending <- Ending

\* Whatever its connections, its reaper and its crashes do, no id is given to a
\* spawn that another spawn, a close or the reaper still works on, and no pane
\* goes while its id is free: the map, the claims and the steps of all threads
\* together behave like one atomic table of ids.
ActsAsService == Service!ServiceSpec

-----------------------------------------------------------------------------
(* What the comments promise and the code does not do. *)

\* "re-confirm still-present AND still-doomed, then remove": the reaper removes
\* only a pane that is dead or as old as the TTL.
ReapsOnlyDoomed ==
  [][\A id \in Ids : Recheck /\ sups[id] # NoPane /\ sups'[id] = NoPane =>
       proc[sups[id]] = "exited" \/ now - stamp[sups[id]] >= PaneTTL]_vars

\* "roll back the just-created worktree": a failed spawn does not destroy the
\* uncommitted work of a worktree it reused.
RollbackSparesReused ==
  [][\A c \in Conns :
       ForkFails(c) /\ worktree[req[c]] = "dirty" => UNCHANGED worktree]_vars
=============================================================================
