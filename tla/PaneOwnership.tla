--------------------------- MODULE PaneOwnership ---------------------------
(***************************************************************************)
(* Which process owns a pane id (app/src-tauri/src/lib.rs with the flag    *)
(* daemon_spawn, and daemon_client.rs): the app's own panes, the daemon's  *)
(* panes the app has adopted, the write-ahead store of their ids, their    *)
(* stream readers, and the registry file that both processes write without *)
(* a common lock.  The app may crash and start again at any time, and so   *)
(* may the daemon.                                                         *)
(*                                                                         *)
(* Frontend commands run concurrently.  Of the daemon the app sees the     *)
(* service of module DaemonService: every step of the daemon here is one   *)
(* of that service's, with what the app is told of it.  A spawn request of *)
(* a caller that timed out or crashed still runs.                          *)
(***************************************************************************)
EXTENDS Naturals, FiniteSets

CONSTANTS
  PaneIds, NoPaneId,
  Commands,     \* threads of the async runtime
  MaxRestarts   \* bound: crashes of the app

ASSUME OwnershipAssumption == NoPaneId \notin PaneIds /\ MaxRestarts \in Nat

VARIABLES
  flag,        \* daemon_spawn of mcp-config.json
  localPanes,  \* AppState.sups
  owned,       \* AppState.daemon_panes
  streams,     \* AppState.daemon_streams
  ahead,       \* disk: daemon-spawned.json
  rows,        \* disk: agent-teams-live.json
  regLock,     \* live_registry_lock is held
  cmd,         \* per command: step, id, the rows it read, its answer
  boot,        \* "up", or the next step of the app's start
  survivors,   \* what the start found
  dLive, dBusy, dEnding, \* the daemon's panes, spawns in flight and clean-ups
  late,        \* spawn requests whose caller is gone
  restarts,
  astray       \* history: ids with an event the code does not guard against

appMemory == <<localPanes, owned, streams>>
appDisk == <<ahead, rows>>
served == <<dLive, dBusy, dEnding>>
daemonVars == <<served, late>>
bootVars == <<boot, survivors, restarts>>
ownVars == <<flag, appMemory, appDisk, regLock, cmd, bootVars, daemonVars, astray>>

Daemon == INSTANCE DaemonService
            WITH Served <- PaneIds, live <- dLive, starting <- dBusy, ending <- dEnding

Resting == [step |-> "rest", id |-> NoPaneId, read |-> {}]

OwnershipInit ==
  /\ flag \in BOOLEAN
  /\ localPanes = {} /\ owned = {} /\ streams = {}
  /\ ahead = {} /\ rows = {} /\ regLock = FALSE
  /\ cmd = [c \in Commands |-> Resting]
  /\ boot = "up" /\ survivors = {} /\ restarts = 0
  /\ Daemon!ServiceInit /\ late = {}
  /\ astray = {}

Is(c, step) == boot = "up" /\ cmd[c].step = step
Proceed(c, step) == cmd' = [cmd EXCEPT ![c].step = step]
Rest(c) == cmd' = [cmd EXCEPT ![c] = Resting]
Begin(c, id, step) ==
  /\ Is(c, "rest")
  /\ cmd' = [cmd EXCEPT ![c] = [step |-> step, id |-> id, read |-> {}]]
  /\ astray' = IF \E d \in Commands \ {c} : cmd[d].id = id THEN astray \cup {id} ELSE astray

-----------------------------------------------------------------------------
(* spawn_workspace and do_spawn.                                           *)

(* Mutant of SpawnPane: no check for a pane the daemon owns.               *)
SpawnUnchecked(c, id) ==
  /\ Begin(c, id, "route")
  /\ UNCHANGED <<flag, appMemory, appDisk, regLock, bootVars, daemonVars>>

(* An id the daemon owns is rendered from its stream, not spawned again.   *)
SpawnPane(c, id) ==
  /\ id \notin owned
  /\ Begin(c, id, "route")
  /\ UNCHANGED <<flag, appMemory, appDisk, regLock, bootVars, daemonVars>>

(* daemon_owns_spawn.                                                      *)
Route(c) ==
  /\ Is(c, "route")
  /\ Proceed(c, IF flag /\ cmd[c].id \notin localPanes THEN "anchor" ELSE "insert")
  /\ UNCHANGED <<flag, appMemory, appDisk, regLock, bootVars, daemonVars, astray>>

(* A local pane: sups.insert, then its row.                                *)
InsertLocal(c) ==
  /\ Is(c, "insert")
  /\ localPanes' = localPanes \cup {cmd[c].id}
  /\ Proceed(c, "addrow")
  /\ UNCHANGED <<flag, owned, streams, appDisk, regLock, bootVars, daemonVars, astray>>

(* live_registry_update: the file is read and replaced under a lock of the *)
(* app alone.                                                              *)
ReadRows(c) ==
  /\ boot = "up" /\ cmd[c].step \in {"addrow", "droprow"} /\ ~regLock
  /\ regLock' = TRUE
  /\ cmd' = [cmd EXCEPT ![c].read = rows,
                        ![c].step = IF @ = "addrow" THEN "adding" ELSE "dropping"]
  /\ UNCHANGED <<flag, appMemory, appDisk, bootVars, daemonVars, astray>>

WriteRows(c) ==
  /\ boot = "up" /\ cmd[c].step \in {"adding", "dropping"}
  /\ rows' = IF cmd[c].step = "adding" THEN cmd[c].read \cup {cmd[c].id}
                                       ELSE cmd[c].read \ {cmd[c].id}
  /\ regLock' = FALSE
  /\ Rest(c)
  /\ UNCHANGED <<flag, appMemory, ahead, bootVars, daemonVars, astray>>

(* Mutant of Anchor: the id is written ahead of nothing.                   *)
NoAnchor(c) ==
  /\ Is(c, "anchor")
  /\ Proceed(c, "dial")
  /\ UNCHANGED <<flag, appMemory, appDisk, regLock, bootVars, daemonVars, astray>>

(* do_spawn_via_daemon: the write-ahead id before the dial.                *)
Anchor(c) ==
  /\ Is(c, "anchor")
  /\ ahead' = ahead \cup {cmd[c].id}
  /\ Proceed(c, "dial")
  /\ UNCHANGED <<flag, appMemory, rows, regLock, bootVars, daemonVars, astray>>

Dial(c) ==
  /\ Is(c, "dial")
  /\ Proceed(c, "sent") \/ Proceed(c, "unanchor")
  /\ UNCHANGED <<flag, appMemory, appDisk, regLock, bootVars, daemonVars, astray>>

(* The caller gives up on the reply and keeps the anchor.                  *)
GiveUp(c) ==
  /\ boot = "up" /\ cmd[c].step \in {"sent", "busy", "spawned", "refused", "alreadylive"}
  /\ Rest(c)
  /\ late' = IF cmd[c].step = "sent" THEN late \cup {cmd[c].id} ELSE late
  /\ astray' = astray \cup {cmd[c].id}
  /\ UNCHANGED <<flag, appMemory, appDisk, regLock, bootVars, served>>

(* Ok: own, then stream.  ALREADY_LIVE keeps the anchor, any other refusal *)
(* drops it.                                                               *)
Own(c) ==
  /\ Is(c, "spawned")
  /\ owned' = owned \cup {cmd[c].id}
  /\ Proceed(c, "stream")
  /\ UNCHANGED <<flag, localPanes, streams, appDisk, regLock, bootVars, daemonVars, astray>>

EnsureStream(c) ==
  /\ Is(c, "stream")
  /\ streams' = streams \cup {cmd[c].id}
  /\ Rest(c)
  /\ UNCHANGED <<flag, localPanes, owned, appDisk, regLock, bootVars, daemonVars, astray>>

AlreadyLive(c) ==
  /\ Is(c, "alreadylive")
  /\ Rest(c)
  /\ UNCHANGED <<flag, appMemory, appDisk, regLock, bootVars, daemonVars, astray>>

Unanchor(c) ==
  /\ boot = "up" /\ cmd[c].step \in {"refused", "unanchor"}
  /\ ahead' = ahead \ {cmd[c].id}
  /\ Rest(c)
  /\ UNCHANGED <<flag, appMemory, rows, regLock, bootVars, daemonVars, astray>>

-----------------------------------------------------------------------------
(* close_workspace, and the reader of a pane's stream.                     *)

ClosePane(c, id) ==
  /\ id \in owned \cup localPanes
  /\ Begin(c, id, IF id \in owned THEN "closing" ELSE "remove")
  /\ UNCHANGED <<flag, appMemory, appDisk, regLock, bootVars, daemonVars>>

RemoveLocal(c) ==
  /\ Is(c, "remove")
  /\ localPanes' = localPanes \ {cmd[c].id}
  /\ Proceed(c, "droprow")
  /\ UNCHANGED <<flag, owned, streams, appDisk, regLock, bootVars, daemonVars, astray>>

(* daemon_close: refused while the daemon has a claim of the id, and by a  *)
(* gate; an absent pane is closed.  Its reply may be lost.                 *)
DaemonClose(c) ==
  /\ Is(c, "closing")
  /\ \/ Rest(c) /\ UNCHANGED served
     \/ /\ Daemon!Remove(cmd[c].id) \/ Daemon!Visit(cmd[c].id)
        /\ Proceed(c, "ending") \/ Rest(c)
  /\ UNCHANGED <<flag, appMemory, appDisk, regLock, bootVars, late, astray>>

(* Mutant of Disown: the reader is stopped while the pane is still owned.  *)
StopBeforeDisown(c) ==
  /\ \/ /\ Is(c, "disown")
        /\ streams' = streams \ {cmd[c].id} /\ Proceed(c, "stop") /\ UNCHANGED owned
     \/ /\ Is(c, "stop")
        /\ owned' = owned \ {cmd[c].id} /\ Proceed(c, "unanchor") /\ UNCHANGED streams
  /\ UNCHANGED <<flag, localPanes, appDisk, regLock, bootVars, daemonVars, astray>>

(* daemon_panes.remove, then stop_daemon_stream.                           *)
Disown(c) ==
  /\ \/ /\ Is(c, "disown")
        /\ owned' = owned \ {cmd[c].id} /\ Proceed(c, "stop") /\ UNCHANGED streams
     \/ /\ Is(c, "stop")
        /\ streams' = streams \ {cmd[c].id} /\ Proceed(c, "unanchor") /\ UNCHANGED owned
  /\ UNCHANGED <<flag, localPanes, appDisk, regLock, bootVars, daemonVars, astray>>

(* daemon_stream_handle: ownership is looked up under the streams' lock.   *)
ReadPane(id) ==
  /\ boot = "up" /\ id \in owned
  /\ streams' = streams \cup {id}
  /\ UNCHANGED <<flag, localPanes, owned, appDisk, regLock, cmd, bootVars, daemonVars, astray>>

-----------------------------------------------------------------------------
(* The daemon, and what happens to it.                                     *)

(* ALREADY_LIVE: the id has a pane, or a spawn, a close or a reap is at it.*)
ServeSpawn(c) ==
  /\ Is(c, "sent")
  /\ \/ Proceed(c, "refused") /\ UNCHANGED served
     \/ ~Daemon!Free(cmd[c].id) /\ Proceed(c, "alreadylive") /\ UNCHANGED served
     \/ Daemon!Claim(cmd[c].id) /\ Proceed(c, "busy")
  /\ UNCHANGED <<flag, appMemory, appDisk, regLock, bootVars, late, astray>>

(* The spawn's pane lands and is published, or it fails.                   *)
Publish == rows' = dLive'
Outcome(id) == (Daemon!Land(id) /\ Publish) \/ (Daemon!Refuse(id) /\ UNCHANGED rows)

FinishSpawn(c) ==
  /\ Is(c, "busy")
  /\ Outcome(cmd[c].id)
  /\ Proceed(c, IF cmd[c].id \in dLive' THEN "spawned" ELSE "refused")
  /\ UNCHANGED <<flag, appMemory, ahead, regLock, bootVars, late, astray>>

(* The clean-up ends; there is nothing to publish when no pane was found.  *)
CleansUp(id) == Daemon!Release(id) /\ (Publish \/ UNCHANGED rows)

FinishClose(c) ==
  /\ Is(c, "ending")
  /\ CleansUp(cmd[c].id)
  /\ Proceed(c, "disown")
  /\ UNCHANGED <<flag, appMemory, ahead, regLock, bootVars, late, astray>>

(* A request that nobody waits for is served, and ends.                    *)
ServeLate(id) ==
  /\ id \in late
  /\ late' = late \ {id}
  /\ Daemon!Claim(id) \/ UNCHANGED served
  /\ UNCHANGED <<flag, appMemory, appDisk, regLock, cmd, bootVars, astray>>

FinishLate(id) ==
  /\ \A c \in Commands : cmd[c].id = id => cmd[c].step \notin {"busy", "ending"}
  /\ Outcome(id) \/ CleansUp(id)
  /\ UNCHANGED <<flag, appMemory, ahead, regLock, cmd, bootVars, late, astray>>

(* A pane exits and the reaper takes it out, or finds that a close has.    *)
DaemonReaps(id) ==
  /\ Daemon!Remove(id) \/ Daemon!Visit(id)
  /\ UNCHANGED <<flag, appMemory, appDisk, regLock, cmd, bootVars, late, astray>>

(* The daemon dies with its requests, which are answered by the end of     *)
(* their connections; its next start may clear the registry.               *)
InFlight == {"sent", "busy"}

DaemonDies ==
  /\ Daemon!Die /\ late' = {}
  /\ cmd' = [c \in Commands |-> IF cmd[c].step \in InFlight \cup {"ending"}
                                THEN Resting ELSE cmd[c]]
  /\ rows' \in {rows, {}}
  /\ UNCHANGED <<flag, appMemory, ahead, regLock, bootVars, astray>>

FlipFlag ==
  /\ flag' = ~flag
  /\ UNCHANGED <<appMemory, appDisk, regLock, cmd, bootVars, daemonVars, astray>>

-----------------------------------------------------------------------------
(* The app dies with its panes and starts again.                           *)
Restart ==
  /\ restarts < MaxRestarts
  /\ restarts' = restarts + 1
  /\ localPanes' = {} /\ owned' = {} /\ streams' = {}
  /\ regLock' = FALSE
  /\ cmd' = [c \in Commands |-> Resting]
  /\ late' = late \cup {cmd[c].id : c \in {d \in Commands : cmd[d].step = "sent"}}
  /\ astray' = astray \cup {cmd[c].id : c \in {d \in Commands : cmd[d].step \in InFlight}}
  /\ boot' = "survey" /\ survivors' = {}
  /\ UNCHANGED <<flag, appDisk, served>>

(* startup_daemon_survivors: ListLive, which may fail, of the panes with a *)
(* row.                                                                    *)
Survey ==
  /\ boot = "survey"
  /\ survivors' \in {{}, dLive \cap rows}
  /\ astray' = astray \cup (dLive \ survivors')
  /\ boot' = "wipe"
  /\ UNCHANGED <<flag, appMemory, appDisk, regLock, cmd, daemonVars, restarts>>

Wipe ==
  /\ boot = "wipe"
  /\ rows' = {}
  /\ boot' = "adopt"
  /\ UNCHANGED <<flag, appMemory, ahead, regLock, cmd, daemonVars, survivors, restarts, astray>>

Adopt ==
  /\ boot = "adopt"
  /\ rows' = rows \cup survivors
  /\ owned' = owned \cup survivors
  /\ ahead' = ahead \cup survivors /\ streams' = streams \cup survivors
  /\ boot' = "up" /\ survivors' = {}
  /\ UNCHANGED <<flag, localPanes, regLock, cmd, daemonVars, restarts, astray>>

-----------------------------------------------------------------------------
CommandStep(c) ==
  \/ Route(c) \/ InsertLocal(c) \/ ReadRows(c) \/ WriteRows(c)
  \/ Anchor(c) \/ Dial(c) \/ GiveUp(c) \/ Own(c) \/ EnsureStream(c)
  \/ AlreadyLive(c) \/ Unanchor(c)
  \/ RemoveLocal(c) \/ DaemonClose(c) \/ Disown(c)
  \/ ServeSpawn(c) \/ FinishSpawn(c) \/ FinishClose(c)

OwnershipNext ==
  \/ \E c \in Commands : CommandStep(c) \/ \E id \in PaneIds : SpawnPane(c, id) \/ ClosePane(c, id)
  \/ \E id \in PaneIds :
       ReadPane(id) \/ ServeLate(id) \/ FinishLate(id) \/ DaemonReaps(id)
  \/ DaemonDies \/ FlipFlag \/ Restart \/ Survey \/ Wipe \/ Adopt

OwnershipSpec == OwnershipInit /\ [][OwnershipNext]_ownVars
-----------------------------------------------------------------------------
(* Properties.                                                             *)

OwnershipTypeOK ==
  /\ flag \in BOOLEAN /\ regLock \in BOOLEAN
  /\ localPanes \subseteq PaneIds /\ owned \subseteq PaneIds /\ streams \subseteq PaneIds
  /\ ahead \subseteq PaneIds /\ rows \subseteq PaneIds
  /\ cmd \in [Commands -> [step : {"rest", "route", "insert", "addrow", "droprow", "adding",
                                   "dropping", "anchor", "dial", "sent", "busy", "spawned",
                                   "refused", "alreadylive", "stream", "unanchor", "closing",
                                   "ending", "remove", "disown", "stop"},
                           id : PaneIds \cup {NoPaneId}, read : SUBSET PaneIds]]
  /\ boot \in {"up", "survey", "wipe", "adopt"}
  /\ survivors \subseteq PaneIds /\ restarts \in 0 .. MaxRestarts
  /\ dLive \subseteq PaneIds /\ dBusy \subseteq PaneIds /\ dEnding \subseteq PaneIds
  /\ late \subseteq PaneIds /\ astray \subseteq PaneIds

(* No id ever has an agent in the app and one in the daemon, however the   *)
(* flag is flipped and the app restarted, while the daemon keeps the pane. *)
OneOwner == \A id \in PaneIds \ astray : ~(id \in localPanes /\ id \in dLive)

(* A pane the daemon runs, or is about to, has its id in the write-ahead   *)
(* store: a crash between any two steps of a spawn or a close leaves no    *)
(* pane the store does not name.                                           *)
AnchorCovers == \A id \in PaneIds \ astray : id \in dLive \cup dBusy => id \in ahead

(* A reader runs only for a pane the app owns: a read that races a close   *)
(* leaves none behind.                                                     *)
StreamHasOwner ==
  \A id \in streams \ astray :
    id \in owned \/ \E c \in Commands : cmd[c].id = id /\ cmd[c].step \in {"stop", "stream"}
=============================================================================
