# Verification of harness-ready

harness-ready runs coding agents in terminal panes. A desktop app shows the panes;
either the app itself or a per-user daemon that outlives it owns each pane's child
process and git worktree. Agents reach the app and each other through a sidecar and a
socket; the app runs whole teams of them, tests what they commit and opens pull
requests. This directory holds TLA+ models of the parts where threads, processes and
files meet, the TLC runs that check them on small instances, and proofs that hold for
every instance.

All paths below are relative to the repository. `daemon/` stands for
`core/daemon/src/`, `lib.rs` for `app/src-tauri/src/lib.rs`, `memory.rs` for
`agent-teams-mcp/src/memory.rs`.

## 1. The system

| Component | State | Operations | Where it is hard |
|---|---|---|---|
| Daemon pane lifecycle (`daemon/spawn.rs`, `sups.rs`, `registry_writer.rs`) | `DaemonSups` (id → pane), `worktrees`, `child_pids`, `inflight_ids`, the pending counter; on disk the live registry, the worktree trail, one worktree per id | Spawn, Close, `reaper_sweep`, `cold_start_sweep`; one thread per connection, one reaper thread | each map has its own lock, so threads meet between any two steps; a crash may fall anywhere |
| Daemon idle shutdown (`idle_tick.rs`, `lifecycle.rs`, `server.rs`) | when the daemon became idle | every tick: count, decide, `exit(0)` | two counters read one after the other; the exit is unsynchronised |
| Pane output (`core/supervisor`, `daemon/server.rs`, `daemon_stream.rs`, `lib.rs`, `poll-core.js`) | the retained tail, the subscriber set, a queue per subscription, `StreamBuf`, the frontend's cursor | push and fan out, attach, drain, classify, apply a frame, dial again, read a delta, repaint | full queues, broken connections, cursors from an earlier generation |
| App pane lifecycle (`lib.rs`) | `sups`, `ws_meta`, `pending_cleanups`, `pending`, `early_respawned`; on disk the worktree registry and the live registry | `spawn_workspace`, `run_now`, the admission tick, the early-death respawn, `close_workspace` with its detached cleanup | commands, the timer, watchers and cleanup threads share ids with no lock across one operation |
| Ownership between app and daemon (`lib.rs`, `daemon_client.rs`) | the flag, write-ahead ids, `daemon_panes`, stream readers; the registry file both processes write | route, dial a spawn, classify the answer, close, adopt at start | a lost acknowledgement; a restart with the daemon unreachable; two writers of one file |
| Pane input (`lib.rs`, `daemon/handlers.rs`, `server.rs`) | a write lock and a primed mark per id | prime, write the body, settle, submit | the pane may die, close or be replaced during the settle |
| Task board (`core/task`, `agent-teams-mcp/src/task.rs`, `lib.rs`) | the transition log, the card file, a cache of both | create, transition, edit a card, poll | many processes append; a file that does not parse; a cache keyed before the read |
| Delegated runs and loops (`lib.rs`, `core/flywheel`) | the slot, the cancel flag, the loop tag, workers, their registry lines, the integration tree, run records, loops | delegate, stop, force clear, the controller, the scheduler tick | stop against a new claim; a forced clear of a run that still runs; remediation waves that reuse a tree |
| Bridge runs (`lib.rs`, `core/flywheel`, `main.js`) | the integration tree and its marker, `final.md`, the frontend's phase | assemble, synthesise, test, gate, open the pull request | panes go on committing; another run collects the tree; the app dies |
| Note store (`core/memory`, `memory.rs`, `lib.rs`) | one file per note, no lock | create, update, delete, harvest, capture | racing read-modify-writes of several processes |
| App socket (`lib.rs`, `core/mcp`) | connection slots, sharing per registry row, the switches of the configuration | accept, gate, send, broadcast, handoff, orchestrate | a fan-out outlives what authorised it |
| Daemon protocol, installation, audit | frames, launchd files, an append-only log | parse, authorise, install, log | little shared state |
| Agent state (`core/state-adapter`) | event files, a tail cache | fold the events, rank, build the queue rows | a pure fold over truncated or rotated files |
| Ring buffer, roles, harness registry | in-memory tables | pure operations | boundary cases |
| Sidecar (`agent-teams-mcp`), frontends (`app/src`, `ui/src`) | layout, sessions | forward requests, poll, present | stale views |

How they interact: the app and the sidecars talk to the daemon over a Unix socket, one
daemon thread per connection. Spawn and Close run on that thread and share the maps
with the reaper and the idle ticker. The PTY reader thread of a pane pushes output
into its buffer and the queues of the attached connections. The app keeps one reader
thread per daemon pane that copies the frames into a `StreamBuf`; the frontend polls
it with a byte cursor. Agents call the app's own socket, one thread per connection,
which writes into panes by the same `write_to_pane` the frontend uses. A delegated run
is one controller thread of the app with worker processes; a bridge run is driven by
the frontend. Everything else is exchanged through files next to the state root: the
live registry, the worktree records, hook events, tasks, notes, run directories.

What makes the parts correct, in short: one owner per id at a time; no running child
that nobody can reach; no worktree removed under a running agent; nothing on disk
forgotten before it is reclaimed; the daemon up while it has agents and down when it
does not; a terminal that shows what the pane wrote, without gaps and without
repetitions; a line that reaches a pane whole; a stopped run that stops; a pull
request that carries what was tested; notes and lines that stay in their workspace;
every accepted request served once.

`PROJECT.json` lists all components, with the ones that are left out and why, and the
hazards, each at its line. Hazards that the models also cover but the list leaves to
this file: the temporary file of `daemon/fsutil.rs:12` shared by two threads, the
cursor reset of `main.js:8442`, the staleness of the admission count (`lib.rs:14645`,
any value in `AppPane`), the overrun of the daemon's cap (`spawn.rs:430`, bounded by
theorem `CapOverrun`), the order of two publishers (`spawn.rs:573`), the routing flag
flipped between two commands (`lib.rs:1243`, under `OneOwner`), the whole-file
overwrite of the registry by the daemon (`registry_writer.rs:71`, in `PaneOwnership`),
the drop order of two locals (`lib.rs:11612`, mutant of `WorkersOfSlot`), the slots of
the socket (`lib.rs:13651`, theorem `SlotsAreHonest`).

## 2. Modules

| Module | Models |
|---|---|
| `DaemonService` | abstract: what the daemon promises its clients of pane ids |
| `DaemonSpawn` | Spawn, Close, reaper, both file publications, crash and cold start; refines `DaemonService` |
| `DaemonLifecycle` | `DaemonSpawn` composed with the idle ticker |
| `PaneBuffer` | the retained tail, the cursor, the split of UTF-8 characters: pure operators |
| `OutputView` | abstract: what a terminal promises about output |
| `PaneStream` | output from the PTY to the screen, on `PaneBuffer`; refines `OutputView` |
| `AppPane` | panes the app owns itself, admission, respawn, close and cleanup |
| `PaneOwnership` | which process owns an id: routing, write-ahead ids, lost answers, deaths of either process; over `DaemonService` |
| `PaneInput` | both write paths into a pane: prime, body, settle, submit |
| `TaskBoard` | the transition log, the cards, the cached poll |
| `Delegation` | delegated runs, stop, force clear, loops and the scheduler tick |
| `BridgeRun` | a bridge run from the panes' commits to the pull request |
| `SharedMemory` | the note store with its racing users, harvests and captures |
| `AppSocket` | the accept loop, the gates, the operations that write into panes, sharing |
| `MCAppBackend` | seven of these that share no state, one scope at a time |
| `MCAppProgress` | input, delegated runs and the admission queue under fairness |
| `MC*` | instances for TLC: symmetry and the constants a cfg cannot write |
| `DaemonProofs` | proofs about `DaemonSpawn` and `DaemonLifecycle`, and that both implement `DaemonService` |
| `PaneStreamProofs`, `AppPaneProofs`, `SharedMemoryProofs` | proofs about the module they are named after |
| `PaneProofs` | proofs about a pane either process may have, `PaneOwnership` and `PaneInput` |
| `RunProofs` | proofs about the two kinds of run, `Delegation` and `BridgeRun` |
| `SidecarProofs` | proofs about what the sidecars share, `TaskBoard` and `AppSocket` |
| `BackendProofs` | proofs that a run of `MCAppBackend` is a run of each of its machines |

Operators named in a comment as "Mutant" are plausible bugs of the definition that
follows them; `PROJECT.json` says which property each one breaks in which run. They
are no part of any specification.

### DaemonSpawn

One action is one critical section or one system call of the code. A pane is named by
the pid of its child. Each thread has a program counter: a spawn goes through `claim`
(`claim_spawn_id`: liveness check and claim under one lock), `cap`, `prepare`
(`prepare_worktree`), `fork`, `insert`, `record`, `setpid`; a close through `remove`,
then as the reaper does `kill`, `take`, `rmtree`, `forget`; both publish (`readpids`,
`writereg`, `readrecs`, `writetrail`: clone a map under its lock, write the file
outside it) and end with `release` and, for a spawn, `unpend` (the drops of
`InflightGuard` and `PendingGuard`). The reaper reads the clock and the spawn times,
scans, and per candidate claims and looks again (`recheck`). `Crash` may happen in
any state and loses memory, not disk; children may outlive it. `ColdStart` is the
sweep in its order: kill the recorded children, remove the recorded worktrees, clear
both files. git may refuse any removal. A dirty worktree from an earlier run may be
there at the start; a clean one becomes dirty when an agent writes.

The registry is shared with the app: `AppStarts` and `AppDies` are the app as far as the
sweep can tell. A start wipes the file, keeps the rows of the panes the daemon answers
for, and stamps it with the app's pid (`appStamped`); the daemon's own publication takes
the stamp away again. The sweep looks at the writer once: under a running app no child is
killed and the registry is not cleared, while the trail is swept all the same; a trail
that does not parse is neither swept nor deleted (`spared`). That a dead app's pid may
belong to another process by then, which counts as a running app, is left out.

Not in it: `kill_all`, which has no caller; the primed set, which is in `PaneInput`;
requests refused before the claim, which change nothing.

`DaemonService` is what all of this amounts to for a client: three sets of ids, `live`,
`starting` and `ending`, and atomic steps between them. `ActsAsService` maps an id to
`starting` from the claim of its spawn until the insert, or until a failed spawn lets go;
to `live` while it is in the map; and to `ending` when it is claimed and neither, which
is a close or the reaper. A `Release` is then what frees the id for a spawn, however far
the clean-up's file writes have come, and `Die` is a crash or the ticker's exit.

### DaemonLifecycle

Adds `tick`, the count read, and the idle time in ticks. `CountPanes` reads the map,
`Decide` reads pending and decides, `Exit` is `exit(0)`, three steps with anything in
between. Two history variables say what the ticker cannot see: `late` are panes that
landed between the two reads, or whose spawn began after the decision, and `fresh` the
connections that began one since. `SpawnHoldsOpen` is what the in-flight count is for:
when the exit is decided, every spawn under way began after the decision, and no child
runs but those of such spawns, those in `late`, and those a close or the reaper is about
to kill. A ticker that counts the map only (`DecideCounted`) kills an agent in the middle
of its spawn.

### PaneBuffer, PaneStream, OutputView

A byte is its offset in everything the pane wrote, so a copy of the stream is a
sequence of consecutive numbers and a gap or a repetition is visible. `Leads` says
which offsets begin a character. `Push` is the tail with its compaction to a character
boundary; `Delta`, `DeltaPayload` and `ApplyDelta` are the cursor protocol.

`PaneStream` has the daemon's side of a connection (`request`, `gated`, `streaming`,
`classify`, `awaiting`), the socket as a sequence of frames, the app's reader thread,
the frontend's read in flight. Two connections exist because the daemon may go on
serving the one the app has hung up on. `ConnBreaks` ends a connection from the daemon's
side at any time, `Reload` empties the terminal.

`OutputView` says that the screen is one unbroken stretch of the output in whole
characters whose end never goes back; `ShowsUnbrokenOutput` is the refinement, with
`written` mapped to the end of the daemon's buffer and `screen` to the terminal.

### AppPane

Commands, the HUD timer, early-death watchers and cleanup threads over one set of ids.
`do_spawn` is `lookup` and `wait` (the cleanup lock of the id), `tree`, `fork`,
`record`, `insert` and `killold`, `meta`, `list`, `arm`; `close_workspace` is `take`,
`kill`, `unlist`, `takemeta`, `publish`, `handshake`; the cleanup thread locks, removes
the worktree, removes its line, drops its lock from the map. The admission count is
`working_count`, which follows hook events: it may take any value up to a bound.

The app does not guard an id against itself, and says so nowhere, so the properties of
this module are stated for ids outside `undefended`, a history variable. An id enters
it at one of these events, each of which the code lets happen:

1. `do_spawn` or a close begins while another thread is inside one of the two for the
   id, or a close begins while the cleanup of an earlier one is unfinished;
2. the spawn runs in the folder itself although a worktree of the id exists, one that
   `add_worktree` made before it erred included, or git refuses a removal;
3. a spawn ends after it made the worktree and before the registry line is written,
   because `freshen_worktree` errs or because git refuses the rollback: the tree stays
   without a line;
4. the rollback of a failed spawn removes the worktree of a pane that is in `sups`;
5. a close of an id whose kept worktree this run never spawned.

`NoStrayChild` and `QueueServed` need no such exception and have none.

### PaneOwnership

Frontend commands on the async runtime, with the daemon as any process that keeps
`DaemonService`: every step of the daemon (`ServeSpawn`, `FinishSpawn`, `DaemonClose`,
`FinishClose`, `DaemonReaps`, `DaemonDies`) is a step of the service on `dLive`, `dBusy`
and `dEnding`, together with the answer the app gets and the publication of the registry.
`Route` decides by the flag, `SpawnPane` refuses an id the daemon owns; `Anchor` writes
the id ahead, the dial may be served, refused, answered `ALREADY_LIVE` (while the id has a
pane, or a spawn, a close or a reap is at it), or time out (`GiveUp`) while the daemon goes
on with it (`ServeLate`, `FinishLate`); `Own`, then the stream. Close drops the owner, then
stops the reader (`Disown`); `ReadPane` is a read of the frontend that meets it. Both
processes read, change and replace the registry file; only the app has a lock among its
own threads. `Restart` loses the app's memory and its panes; `Survey`, `Wipe` and `Adopt`
are the start: `ListLive`, which may fail, the wipe of the registry, the adoption. When the
daemon dies, the commands that wait for it end with an error, and its next start may clear
the registry.

`astray` is a history variable as `undefended` is: an id enters it when two commands
work on it at once, when a caller gives up on a reply or the app dies with a spawn at
the daemon, and when the start does not learn of a live pane. Each leads the code to
states the properties exclude (section 6).

### PaneInput

`write_to_pane` of the app and `handle_split_write` of the daemon with one set of steps:
`esc` before or under the write lock (daemon, app), then `lock`, `prime`, `body`,
`settle`. Spawn, close, the reaper and the death of the child are actions of their own
between any two of them, with the order in which each side drops its maps. A byte is
what wrote it: `<<kind, writer, number>>`. `gen` is the entry of the write-lock map a
writer got hold of; the app's close drops the entry, and `entry` counts that.

### TaskBoard

The log is a sequence of lines, the cards a sequence with one version number. Sidecars
take the `flock`, read, check and append, or are killed in between; the app's commands
rewrite the card file whole, with the shrink guard of `write_tasks`. A read of that file
may fail while `legible` is false (`ReadsTurn`): `read_tasks` then returns no cards and
`write_tasks` skips its guard, so `NoCardErased` is stated for a file that can be read.
Update and reorder must find their card on a first read and read again to rewrite. The
reads of a poll are taken to succeed (a failed one is cached as an empty file). Polls look at
both files' keys, look up the cache, parse, fold and fill it. `DamageCard` is a line
that does not parse. `Sift` is the filter both the reader and the delete apply, a
recursive function so that proofs may use it.

### Delegation

The callers (the user's command and the scheduler), `ClaimSlot` (`try_claim` and the
wipe of the old cancel flag in one critical section, the clear outside it), Stop, the
forced clear, and a controller thread per run: validation, spawn of workers, settle,
fold, the merge coordinator, the verdict, one remediation wave, review fixes, the ship
gate, push, record, and the two drops at the end. What git, a test suite, a model or
the configuration says is a free choice. A fold goes through the branches with a commit:
each is merged, clashes, or is passed over because a git command failed on it, which
`fold_pane_branches` does not count as a conflict; `missing` are the branches that clashed
and no coordinator has reconciled yet. A fold that passes a branch over may be clean, be
tested and be pushed, and `ShipsWhatWasTested` says so. Loops have their records; the scheduler tick
looks at the slot, reads the records once and goes through the loops.

### BridgeRun

One run as the frontend drives it (`held`, `assembling`, `live`, `busy`, `prd`,
`closed`) and the backend job it started. A tree is a function from panes to the number
of their commits it holds, so that "the tested tree" and "the pushed tree" can be
compared. Panes commit at any time; another run's fold collects a tree whose marker is
old; suites exit, miss, or time out twice; gates object; the app dies.

### SharedMemory

Scribes are threads with a current step and copy: sidecar users, the editor, harvesters
and capturers. `update_note` is the tenant check on one read, then another read, then
the rename; `delete` a check and an unlink; a harvest one listing, a note per lesson,
the mesh of its siblings. Notes are minted once and never reuse an id. Sharing is a
variable (`openDesks`) that `FlipSharing` changes between any two steps, and the tenant
check keeps what the workspace could see then (`may`): a later write does not look again.
A user may give a note any links, to itself, to a note that is gone and to one that never
was, when it is made and with every patch. `revived` are ids written back after their
delete, `relinked` those to which a user gave links; `touched`, `meshed`, `overlapped` are
history too. Who wrote a note last is not kept.

### AppSocket

`AcceptConn` takes a slot or refuses with BUSY; a panic answers like any handler; the
slot falls with the connection. A request passes `Admitted`, with the switches as they
are then. A handoff authorises both ends; a broadcast reads the registry, then the map;
an orchestrate chooses its panes, its target workspace and, for a caller of no
workspace, asks whether the target shares. Each write is `CheckWrite` (the gate of
`write_to_pane`) and `LandLine`, with anything in between: panes open, die and close,
sharing and isolation are switched. `crossed` counts, per operation and workspace, the
lines that landed across a boundary while it was closed.

### MCAppBackend and MCAppProgress

`MCAppBackend` holds machines that share no variable; a product of their states would
say nothing more than each of them. Every behaviour stays in one scope, and the
machines outside it rest in their initial state, so a run checks the sum of them
instead of the product; the scopes and their bounds are named in the module.
`MCAppProgress` does the same for three liveness properties.

## 3. Runs

| Run | Question | Instance |
|---|---|---|
| `DaemonSpawn_safety` | do the maps agree; is a child doubled, lost or left without its worktree; does the cold start reclaim before it forgets, whatever the app does; is it the service its clients assume | one id, 2 connections, reaper, 3 children, 1 tick, 1 crash, any number of app starts |
| `DaemonLifecycle_ticker` | does every spawn a tick falls into hold the daemon open; does an idle daemon end | one id, 1 connection, 2 children, no crash, grace 1 |
| `PaneStream_conns` | gaps, zombie subscriptions, with a connection the app has hung up on | 2 connections, queue of 1, 4 bytes, 2 breaks, 1 reload |
| `PaneStream_liveness` | is the end reported, does the screen catch up, also through compaction | 1 connection, queue of 2, 7 bytes, cap 4, 1 early break |
| `AppPane_races` | no stray child; cleanup barrier; disk agrees with memory | one id, 1 command thread, timer, 1 watcher, 2 children, 1 close |
| `AppBackend_suite` | the promises of delegated runs, ownership, input, tasks, bridge runs, notes and the socket | 13 scopes, below |
| `AppProgress_fair` | is the queue served, does every write end, does every accepted run end | one id each; 2 writers of either owner; 2 runs of one worker |
| `DaemonSpawn_reap`, `DaemonSpawn_rollback`, `PaneStream_replay`, `Delegation_tag`, `BridgeRun_skip` | violations: section 6 | |

The scopes of `AppBackend_suite`: `loops` (three runs of one worker that a loop and a
user start, the third without workers), `clears` (two runs, the slot force-cleared
during the push), `pair` (one run with two workers), `panes` (one id, two commands, one
restart), `input` (two writers, two panes of the id, either owner, a harness that
splits and one that does not), `log`, `polls` and `cards` (two sidecars, one scoped;
two polls; two cards), `bridge` (two panes, two suites, two gates, one commit each),
`tenants` (two workspaces and the editor), `harvests` (one harvest against a capture
and the editor), `overlap` (two harvests and a capture), `socket` (two clients, one
slot, three panes of two workspaces, three connections).

**Bounds.** Everything that can go wrong in `DaemonSpawn` is between threads on one id,
except the cap; so the safety run spends its states on two connections plus the reaper
and three children (a pane, its successor, and one more after a crash), and the cap is
proved instead. The ticker's run leaves crashes out, which lose nothing an exit does not
(`DaemonSpawn_safety` has one). One tick is enough to make a pane expire (`PaneTTL` = 1). The queue of
one chunk makes every second chunk overflow it. `MCLeads` has characters of one, two
and three bytes, so a chunk, a compaction or a cursor can fall inside one. With one
connection no stale one exists, which is why `PaneStream_conns` has two.
`PaneStream_liveness` goes past the retained cap, so the app evicts bytes the screen has not
seen; a connection breaks only among the first four bytes there (`EarlyBreaks`), since a
compaction after a second attach is what `PaneStream_replay` shows to break the
refinement. `AppPane_races` allows one close, so a second close during the first one's
cleanup is outside it by the bound as well as by `undefended`; `MaxWorking` =
`MaxConcurrent` lets the gate be open and closed.

In the suite each bound is the smallest at which each of the module's mutants shows: a
stop needs a second claim, hence two runs, and the verdict a tick must see a third;
ownership needs two commands for the close that meets a read, and one restart; a splice
needs two writers and a pane that is replaced; a log needs a second sidecar between the
read and the append; a stale poll two polls; a resurrected note a delete between two
steps of an update, within four operations, with one workspace that turns its sharing on
and off; users' links are the note itself, a note that never was, or none, and only where
a harvest or a capture runs, three operations at most (`FewLinks`); the socket two open
connections for one slot and up to three acts of the operator during one operation. The
largest runs are `AppPane_races` with 3.3 million states, `DaemonSpawn_safety` with 1.3
and the suite with 1.2; each ends in about three minutes or less with two workers. Where a
theorem exists (section 4) it holds without the bounds.

**Deadlock** is checked in every run but three, which say so: `AppBackend_suite`,
`AppProgress_fair` and `BridgeRun_skip` stop when the bounded number of runs, writes or
commits is used up. In the others the environment can always act.

**Fairness.** Weak fairness stands for "a thread with a step to take is scheduled":
connection threads, the reaper's loop, the cold start, the ticker, the app's reader,
the frontend's poll timer, the HUD timer, the cleanup threads, a thread that serves a
write, the controller of a delegated run. Nothing is assumed of requests, agents,
crashes, broken connections or hook events. Weak fairness suffices for the daemon,
the stream and the panes because no step waits for a lock that others may take over and
over: the claim is a try, a claimed candidate is skipped and comes back next sweep, and
the writers of a pane are finitely many with finitely many writes. `DelegationFairness`
adds strong fairness that the merge coordinator is not asked for ever: the code bounds
attempts and branches, which the model does not count. `IdleDaemonExits` and
`QueueServed` are of the form []<>(goal or excuse), the excuse being what the code may
legitimately wait for: a running agent, a request, a full set of working slots.

## 4. Proofs

The invariants below are proved inductive for any sets of ids, connections, threads, runs,
panes, notes and clients, and for any bounds. The assumptions are those named in the
modules: thread names distinct, the sets finite where something is counted, numbers
natural.

**DaemonProofs**, the daemon's panes.

- *ClaimInv* = `TypeOK` ∧ `ClaimsRecorded` ∧ `ClaimExclusion` ∧ `VacantUntilInsert`.
  Exclusion is not inductive by itself: that a thread past its claim has its id in
  `inflight_ids` is what stops the next claim, and that the map stays vacant from the
  claim to the insert follows only because a claim is needed to insert. From it:
  `TypeCorrect`, `Exclusion`, `NoPaneReplaced`.
- *CapOverrun*. Let Live be the ids with a pane and Admitted the connections between
  the cap check and the insert. A passed check adds one to Admitted when Live is below the cap;
  an insert moves one from Admitted to Live; everything else shrinks both. So
  |Live| + |Admitted| ≤ MaxDaemonPanes − 1 + |Conns|: with c connections at most c − 1
  panes too many. Three lemmas on cardinalities carry it.
- *PaneInv* = `MapsInv` ∧ `TreeInv` ∧ `ChildInv` gives what the three maps, the worktree
  and the child are at each step under a claim, and needs ClaimInv: a thread that has
  the claim is the only one that changes them at its id. `MapsInv` says the maps agree
  outside claims and how they are filled and emptied inside; `TreeInv` that a spawn
  about to fork has its worktree; `ChildInv` that a running child is in the map or in
  the hand of a thread that inserts or kills it. From it: `BookkeepingSettles`,
  `RunningPaneKeepsWorktree`, `SingleChild`.
- *PendingCounted*: the counter is the number of connections doing a spawn. With
  `PaneInv` it gives `NoChildStrays`: a forked child not yet in the map holds the
  daemon open.
- *LandedInv* and `SpawnsClaim` give `DaemonServes`, the refinement: a spawn past its
  insert has its pane in the map until it lets go, and a spawn under way is the only
  holder of its id's claim. `QuietSteps` are the steps that leave the service where it is;
  claim, insert, release, removal and crash are one lemma each. `ServesUnderTicker` says
  the same with the idle exit, which is a `Die`.
- *OrphansReclaimed*: between the kill and the first request only the cold start and
  the environment take steps (`ColdSteps`), and neither starts a child. If the sweep did
  not spare the registry, each recorded child is dead, and stays so; an app that starts
  in between can only take rows away.

**DaemonProofs**, the ticker. All of that carries over the exit of an idle process.
*TickInv* adds what a count of zero is worth: since then the map holds only panes in
`late`; and once the exit is decided every spawn under way is in `fresh`. The first uses
that `sups.insert` never replaces a pane, the second that pending counts exactly the spawns
under way (`PendingCounted`). With `ChildInv`, which says where a running child can be,
they give `SpawnsHoldOpen`.

**PaneStreamProofs.** The unit is the pipe of a connection: the frames on the wire and
the chunks queued behind them. `PipeInv` = `Windows` ∧ `Ends` ∧ `Pipes` says that it is
a chain, each delta beginning where the frame before it ends, from what the app applied
last to, while the subscription is registered, the end of the daemon's buffer; nothing
follows a frame that ends a connection; and only the connection the reader thread
listens to has frames that matter. It holds because registration and snapshot are one
step under the buffer's lock, and because a full queue closes the subscription instead
of dropping the chunk. From it `NoGapSeen`, `SubscribersAreServed`, and `NothingIsLost`:
a live subscription with nothing queued and nothing on the wire has brought the app the
whole output. `StreamTypesHold` bounds both buffers by the cap and the slack of a
compaction.

**PaneStreamProofs**, the refinement. `ScreenIsUnbroken` proves
`Spec ∧ □[CleanRead]_vars ⇒ ShowsUnbrokenOutput`, for any retention cap, any character
boundaries at most four bytes apart and any number of breaks, reloads and reattaches.
`CleanRead` excludes one step only: a read whose cursor is of an earlier attach while
compaction has cut the app's buffer of this one, which is where `PaneStream_replay`
finds the code wrong. Reattaches with reads in flight, and compaction, stay in; with
`OnlyThatReplays`, no byte is on the screen twice without that step. Four facts carry it.
`CutOnLead` and `PushOnLead`: compaction leaves the first byte of a character in front.
`HoldsAtLead`: what `delta_payload` holds back is exactly the character that is not all
there. `FrameInv` (with `PipeInv`): what a connection carries was written, a snapshot
comes before any delta, begins at a character and is not behind what the app applied.
`KeepsPlace`: the map from the frontend's cursors to offsets of the output (`Stands`) is
kept by every frame, because a new generation begins past every offset the frontend can
have read. `ShowInv` ties the terminal and the reply in flight to it, and each reply is
then an `Extend`, a `Repaint` or a stutter of `OutputView`.

**AppPaneProofs.** `ChildrenAreHeld` needs no history: `Homes` adds to it that a child
in the map, or being recorded, is one that was forked for that id. The other three do.
For an id outside `undefended`, `Defended` says that at most one thread is inside a
spawn or a close of it (which the code assumes and says nowhere), what `Stage` says
of sups, meta, the live registry and the worktree at each of that thread's steps, and
that they agree when no thread is inside. The cleanup of a close is the rival of that
thread: while one is unfinished, whoever spawns the id stands before the barrier
(`Before`). `Closes` ties a closing thread to the cleanup it will start. From it
`PanesKeepTrees`, `TreesAreRecorded`, `LiveIsListed`.

**PaneProofs**, ownership: for any daemon that keeps `DaemonService`, hence for
`DaemonSpawn` with and without the ticker. None of the three properties is inductive,
because which process may have a pane depends on how far the one command that works on the
id has come. The invariant is `OwnershipTypeOK` ∧ `RestInv` ∧ ∀ id ∉ `astray`: `Defended`,
which says that at most one command works on the id, at some step s (`WorkedOn`), and what
`Sound(id, s)` lists for that step: whether the app owns the pane, whether it may have one
of its own, whether the id is written ahead, and where a pane of the daemon is known (it is
owned, about to be, or found by the start). `CommandKeeps` reduces a step of a command to
its own id, `IdleKeeps` a step of the daemon to the facts it disturbs. Of the service the
proof uses that a claim needs a free id and that only a pane that is live can be removed.
The daemon may die at any step: then it has no pane and no spawn, and who waited for it
rests. From it `NeverTwoOwners`, `CrashFindsAnchor`, `NoReaderLeft`.

**PaneProofs**, input: `InputTypeOK` ∧ `LockInv` ∧ `OpenInv` ∧ `NoSplice` ∧ `BodyInv` ∧
`WrittenIsSubmitted`: the write lock is held by whoever is between prime or body and CR,
a body still open belongs to the holder unless the pane has died, and what a settling
writer wrote is still there. `PrimeInv` adds what the mark of a primed Claude pane is
worth: it stands for an Esc that is in the pane or about to be, and while no close has
dropped the lock a writer that comes to its body finds it there. From it
`LinesFollowThePrime`.

**RunProofs**, delegated runs. A run is in the slot from its claim to the drop of its
guard, its workers die before that, and the cancel flag stands for a stopped run, unless
the slot was force-cleared; and the tree of a run at each step of the fold, the verdict
and the waves: a clean tree has no branch `missing`. From it `OneFlight`, `StopIsHonoured` (an action property),
`ShipsTested`. `DelegationTypesHold` bounds the waves,
the records and the loops. `TickRespectsVerdicts`, also an action property, is about what the
scheduler read: as long as the runs it knew of when it saw the slot free are all the
runs there are, and none of them is active, nobody can write the file behind it
(`TickInvHolds`). The attempt showed which exceptions the property needs: a run accepted
since the look, or a force-cleared run that is still at work, may record a verdict
between the read and the firing.

**RunProofs**, bridge runs. What is under way fits the frontend's phase; the suites see
one tree; whatever objected keeps the verdict from a pass; the offer and the pushed tree
are those of `final.md`. From it `PullCarriesTested` and `SawLateCommits`; the types are
`BridgeTypesHold`.

**SharedMemoryProofs.** `MemoryTypeOK` ∧ `StampsKept` ∧ `ThreadsFit` (`TenantInv`). An update holds a copy
in its memory and a tenant check whose note may be gone the next moment. `Fits` says per
thread and step what it may rely on; `Grows` what the store may do behind a thread
(mint, and write back only what it counts as revived), under which `Fits` is stable;
sharing may change at any step, since what a thread relies on is the answer it got
(`MayWrite`). With it `TenantsStayApart`.
`NotesInv` adds `LinkInv` and `RepeatInv`. For links: a harvest or a capture only links to
notes that were minted, and what users link is in `relinked`; a lesson a harvest has patched
is linked to all its siblings unless a user touched it (`Weaves`), and no two harvests write
the same lessons. For repeats, while
nothing overlapped: every lesson in the store is in the listing of the harvest under way
or was written by it, and no outcome of the run a capture is about is there yet
(`Knows`). From it `LinksAlwaysReach` and `RepeatsNeverAdd`.

**SidecarProofs**, the task board. `BoardLogInv` adds to `LegalHistory` that a
transition works under the flock (`LockHeld`), that since it read the log nothing was
appended but the first lines of new tasks, whose creation takes no lock
(`SnapshotHolds`), and that ids are handed out without gaps while the creations past the
check of the cap are counted (`IdsDense`). From it `HistoriesAreLegal`, and
`TaskCapOverrun`: the tasks over the cap are fewer than the sidecars. `BoardPollInv`
compares the keys of a poll and of the cache with what was parsed: keys are taken first,
and files only grow or are replaced, whence `PollsAreFresh`. `BoardTypesHold` gives the
types of log, cards and caches. `CardsSurvive` rests on what `Sift` keeps of a file of
any length (`SiftIs`). No rule of induction can be instantiated here, so its lemmas argue
with a least counterexample (`SiftExists` that the function is there at all). With it a
rewrite built from `Parsed` drops no card but the deleted one, provided every line
parses, which is the guard of `write_tasks` while it can read the file.

**SidecarProofs**, the socket. `SlotInv` (types, the connection being refused,
`SlotsHonest`) and `Crossings`: while a boundary is closed the gate lets nothing pass,
so only a line that was past it can follow, and after that one none is on its way. An
orchestrate writes as its target workspace, so that none of its lines counts as a crossing
and the theorem says nothing of it. From these `SlotsAreHonest` and `UnsharingHolds`. Cardinality lemmas carry the slots.

**BackendProofs.** `StepIsOneMachines`: a step of the suite is a step of one machine and
leaves the variables of the others alone. Hence `SuiteRunsMachines`: a behaviour of
`MCAppBackend` is, seen from each of its seven machines, a behaviour of that machine's own
specification, so the scopes and bounds only leave behaviours out, and every theorem above
holds of the suite's run. `SuiteTypesHold` puts the machines' types together.

**Only model-checked**: liveness (`IdleDaemonExits`, `DeathReported`, `CatchesUp`,
`QueueServed`, `WriteAnswered`, `RunEnds`), which is beyond the prover. Every other property
a passing run checks is stated by a theorem, `ShowsUnbrokenOutput` under the hypothesis on
`CleanRead` named above. No module uses RECURSIVE operators.

## 5. Not modelled

Building command lines, parsing requests, formats of files, launchd, the audit log,
layout: no state that threads share, or formatting. The torn write of a shared temporary
file is below the grain of the models, which write a file in one step. Also left out:

- *ownership*: `reconcile_daemon_panes` (`lib.rs:2975`), which no frontend code calls,
  and a second instance of the app;
- *input*: nothing of the two write paths; the contents of a line;
- *daemon start*: a pid of a dead app that another process has taken, an app that fails
  to write the registry;
- *tasks*: a poll whose reads fail, dependencies between cards, import of old files, the overflow of the cap by
  unlocked creations, two versions of a file with the same time and length;
- *delegated runs*: prompts and planning, `last_run`, beats, the reuse of pull
  requests, the flywheel as a program of its own;
- *bridge runs*: dispatch of the panes, the reviewers' prompts, panes of the verify wave
  that change the tree;
- *notes*: search, ranking, suggestions, the graph; users do not patch titles; at most
  two lessons per harvest;
- *socket*: `focus`, `synthesize`, `delegate`'s own gate, `create_workspace`, `add_pane`,
  `read_output`, the HTTP transport, audit rows, read timeouts, write errors, a split
  that names a pane twice; a pane of the daemon, which is routed before the gate;
- *agent state, ring buffer, roles, harness arguments*: pure functions on data, planned.

The models cover the code where processes and threads meet; most of the repository's
lines are prompts, formats, layout and tests, which they do not.

## 6. Known not to hold

Shown by a run; each contradicts a sentence of the code's comments, quoted in
`PROJECT.json`:

- `DaemonSpawn_reap`: the reaper's second look uses the spawn times it read at the
  start of the sweep. A pane closed and respawned in between is judged by its
  predecessor's age and killed (`daemon/spawn.rs:637`).
- `DaemonSpawn_rollback`: a spawn that fails after it reused a dirty worktree removes
  it, uncommitted work included (`daemon/spawn.rs:491`).
- `PaneStream_replay`: after a second attach and a compaction of the app's own buffer a
  cursor from before gets a wrong start, and its tail is shown twice
  (`app/src-tauri/src/daemon_stream.rs:180`).
- `Delegation_tag`: the loop tag is stamped before the claim and never cleared, so a
  manual run, or one in flight while an iteration is refused, is recorded under a loop
  that did not fire it (`lib.rs:9668`).
- `BridgeRun_skip`: the re-fold of a synthesis drops its conflicts, so a pane is left out
  of the pull request and nobody is told (`lib.rs:5751`).

Reproduced with these models, or read from the code while writing them, without a run of
their own:

*Daemon and app panes*
- the cold start looks at the registry's writer once: an app that starts between the look
  and the clear loses its rows and its pid (`daemon/spawn.rs:725`, `782`, against the
  comment at `775`);
- under a running app the recorded children of the daemon's own last life are not killed,
  although the trail is swept and their worktrees with it (if git lets them go); the next
  daemon publication then overwrites their rows (`daemon/spawn.rs:732`, `registry_writer.rs:71`);
- an app that starts while the daemon is down wipes the rows of the panes a crashed daemon
  left, so that the next cold start does not find their children (`lib.rs:14345`); so does
  a pid of the old writer that another process has by then;
- a spawn whose `freshen_worktree` errs after `add_worktree` made the tree, and a failed
  spawn whose rollback git refuses, leave a worktree no registry line speaks of
  (`lib.rs:1490`, `1584`);
- a spawn that begins and ends between the ticker's two reads, or that begins after its
  decision, loses its agent at the exit (`daemon/server.rs:138`, against
  `daemon/spawn.rs:151`);
- the two publishers of the live registry (and of the trail) are not ordered: an older
  clone may be written last, which leaves a closed pane listed or a worktree unrecorded
  until the next publication (`daemon/spawn.rs:573`, `303`);
- the trail is cleared although git refused to remove a worktree (`daemon/spawn.rs:768`);
- a connection drops, then the pane ends before the app is back: the attach is refused
  and the last output is never shown (`daemon_stream.rs:341`, `daemon/server.rs:349`);
- a second close replaces the first one's cleanup lock while that cleanup still runs, so
  a spawn waits for the wrong one (`lib.rs:2145`);
- a close of an id this run never spawned drops the registry line of its kept worktree
  (`lib.rs:2161`);
- the early-death watcher knows its pane by id only and can bring back a pane that was
  closed after it was seen dead (`lib.rs:1733`);
- a queued pane that is closed is admitted later (`lib.rs:2087`);
- the rollback of a failed reopen removes the worktree of the live pane (`lib.rs:1583`).

*Ownership*
- a retry that is refused after a lost acknowledgement drops the anchor of a pane the
  daemon runs (`lib.rs:1383`);
- the daemon's publication replaces the registry file without the app's rows;
- `ALREADY_LIVE` is also answered while a spawn, a close or a reap is at the id
  (`daemon/spawn.rs:420`), although `daemon_client.rs:99` says that it confirms a live pane;
- a `ListLive` that fails at the start leaves the daemon's panes unadopted;
- a second instance of the app empties the registry of the first, sweeps its clean
  worktrees, and two that start together may unlink each other's socket.

*Input*
- the app's close drops the write lock's entry, so the CR of an old writer may land
  between another's body and CR after a respawn (`lib.rs:2121`, against `lib.rs:2434`);
- the daemon's deferred CR goes to whatever pane has the id by then
  (`daemon/handlers.rs:225`);
- in the daemon the Esc may go twice, between another writer's body and CR, or after a
  second writer's line (`daemon/handlers.rs:266`); a CR to a pane that vanished counts
  as sent.

*Delegated runs*
- a branch on which a git command fails is passed over by a fold and is no conflict: the
  fold counts as clean, and what is tested and pushed is without it (`lib.rs:6013`, `6041`,
  `6067`, `6096`, with `6300` and `12747`);
- a loop that is armed again does not start anew, and its cap counts records only
  (`lib.rs:8981`, `8609`); Stop with no run in flight stays set, and the next tick
  switches off the loops that are due;
- a forced clear can hit a healthy run that was silent for 240 s, and the next claim
  then resets its stop (`lib.rs:10171`); a worker that has reported lives on and may
  commit after the fold.

*Bridge runs*
- a re-fold that fails falls back to the older tree and may pass on it (`lib.rs:5734`);
  `final.HELD.md` stays after a later pass; a suite whose manifest is missing is dropped
  and does not block a pass.

*Tasks and notes*
- when the card file cannot be read (one byte that is no UTF-8 is enough) it counts as
  empty and the shrink guard is skipped, so that the next rewrite erases every card; a poll
  caches the empty board under the keys of that file (`core/task/src/lib.rs:123`, `148`);
- sharing that is withdrawn between the tenant check and the rename does not stop the write
  (`memory.rs:345`); a user may link a note to itself or to one that never was
  (`core/memory/src/lib.rs:494`);
- dropping a card between two with neighbouring orders gives a tie (`lib.rs:15635`); the
  cap of `task_create` is read without the lock;
- an update that races a delete writes the note back, and one whose tenant check ran
  while the file was gone may then write a note it must not see (`memory.rs`); the cap
  on notes is read without a lock; overlapping harvests or captures write twice; after
  a crash in a harvest its notes are never linked.

*Socket*
- an orchestrate writes as its target workspace: sharing is asked once, only of a
  caller of no workspace, and may end during the synthesizer's run or between two of its
  lines, none of which it stops (`lib.rs:7421`, `7540`); the authority set of
  a broadcast does not depend on the isolation switch, and is computed from a registry
  read before the map, not from one snapshot (comment at `lib.rs:7572`);
- sharing is stored per row and a spawn or respawn pushes a private one, so the rows of
  a workspace may differ although comments (`lib.rs:1905`, `1940`) call the value
  uniform: one shared row is enough for `sharing_enabled`, the last row decides what the
  HUD shows, and a workspace whose panes are all reopened shares no more;
- a client that times out and asks again may have the operation done twice;
- a fan-in reads its verdicts before the reports, so a report that lands in between is
  consolidated and called missing; two of one directory: the last writer wins.

## 7. Plan

Done: the daemon's panes and ticker with their proofs and the service they implement, the output stream, the app's
panes, ownership, input, the task board, delegated runs and loops, bridge runs, the note
store, the socket.

1. **Pure algorithms** in one module and one run: the fold of hook events with the tail
   cache of `core/state-adapter`, the ring buffer, the ranking of the queue, each
   against a reference definition.
2. **Composition**: `PaneInput` under the socket's fan-out, as `PaneOwnership` now is over
   the service that `DaemonSpawn` implements.
3. **Rest of the socket**: `synthesize` and its run directory, `create_workspace` and
   `add_pane` with the admission of `AppPane`.
