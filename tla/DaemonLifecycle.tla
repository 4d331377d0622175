-------------------------- MODULE DaemonLifecycle --------------------------
(***************************************************************************)
(* The daemon of module DaemonSpawn together with its idle ticker          *)
(* (core/daemon/src/idle_tick.rs, lifecycle.rs, and their wiring in        *)
(* server.rs): a thread that every tick adds the panes in the map and the  *)
(* spawns in flight, and ends the process when the sum has been zero for   *)
(* the grace period.  Idle time is counted in ticks.                       *)
(***************************************************************************)
EXTENDS DaemonSpawn

CONSTANT Grace  \* the grace period, in ticks

ASSUME GraceAssumption == Grace \in Nat

VARIABLES
  tick,       \* the ticker: "asleep", "counted" (the map, not yet pending), "exiting"
  counted,    \* count_live() as this tick read it
  idleTicks,  \* ticks since idle_since; NotIdle when it is None
  late,       \* history: panes that landed between the tick's two reads, or from fresh
  fresh       \* history: connections that began a spawn since the tick decided to exit

NotIdle == -1
tickerVars == <<tick, counted, idleTicks, late, fresh>>
allVars == <<vars, tickerVars>>

LifecycleTypeOK ==
  /\ tick \in {"asleep", "counted", "exiting"}
  /\ counted \in 0..Cardinality(Ids)
  /\ idleTicks \in NotIdle..Grace
  /\ late \subseteq Pids /\ fresh \subseteq Conns

TickerStarts ==
  tick = "asleep" /\ counted = 0 /\ idleTicks = NotIdle /\ late = {} /\ fresh = {}

TickerGoes ==
  tick' = "asleep" /\ counted' = 0 /\ idleTicks' = NotIdle /\ late' = {} /\ fresh' = {}

LifecycleInit == Init /\ TickerStarts

\* The live_pane_count closure reads the map first and pending second.
CountPanes ==
  /\ phase = "serving" /\ tick = "asleep"
  /\ tick' = "counted"
  /\ counted' = CountLive
  /\ late' = {}
  /\ UNCHANGED <<vars, idleTicks, fresh>>

\* Mutant: only the panes in the map hold the daemon open.
DecideCounted ==
  /\ tick = "counted"
  /\ LET idle == IF counted > 0 THEN NotIdle
                 ELSE IF idleTicks < Grace THEN idleTicks + 1 ELSE Grace
     IN /\ idleTicks' = idle
        /\ tick' = IF counted = 0 /\ idle >= Grace THEN "exiting" ELSE "asleep"
  /\ UNCHANGED <<vars, counted, late, fresh>>

\* The rest of the tick: the sum, the idle timer, idle_shutdown_decision.
Decide ==
  /\ tick = "counted"
  /\ LET live == counted + pending
         idle == IF live > 0 THEN NotIdle
                 ELSE IF idleTicks < Grace THEN idleTicks + 1 ELSE Grace
     IN /\ idleTicks' = idle
        /\ tick' = IF live = 0 /\ idle >= Grace THEN "exiting" ELSE "asleep"
  /\ UNCHANGED <<vars, counted, late, fresh>>

\* on_shutdown: exit(0), whatever the other threads are doing.
Exit ==
  /\ tick = "exiting"
  /\ ProcessEnds
  /\ UNCHANGED crashes
  /\ TickerGoes

\* A step of the daemon; a crash takes the ticker with it.
DaemonStep ==
  /\ Next
  /\ IF phase' = "dead"
       THEN TickerGoes
       ELSE /\ UNCHANGED <<tick, counted, idleTicks>>
            /\ late' = late \cup {p \in Pids :
                 \E c \in Conns :
                   /\ pane[c] = p /\ sups[req[c]] # p /\ sups'[req[c]] = p
                   /\ tick = "counted" \/ c \in fresh}
            /\ fresh' = fresh \cup {c \in Conns :
                 tick = "exiting" /\ op[c] # "spawn" /\ op'[c] = "spawn"}

Ticker == CountPanes \/ Decide \/ Exit
LifecycleNext == DaemonStep \/ Ticker
LifecycleSpec == LifecycleInit /\ [][LifecycleNext]_allVars

\* The threads of DaemonSpawn and the ticker are all scheduled.
LifecycleFairSpec ==
  /\ LifecycleSpec
  /\ \A c \in Conns : WF_allVars(ConnStep(c) /\ DaemonStep)
  /\ WF_allVars(ReaperStep /\ DaemonStep)
  /\ WF_allVars(ColdStart /\ DaemonStep)
  /\ WF_allVars(Ticker)

-----------------------------------------------------------------------------
(* Properties *)

\* The hold of D4: no tick that falls anywhere in a spawn takes its agent down.
\* What an exit can take is a pane whose spawn landed and let go of its hold
\* between the tick's two reads, and one whose spawn began after the decision:
\* every older spawn and every older child is over.
SpawnHoldsOpen ==
  tick = "exiting" =>
    /\ \A c \in Conns : op[c] = "spawn" => c \in fresh
    /\ \A p \in Pids \ orphans : proc[p] = "running" =>
         p \in late \/ \E t \in Threads : pane[t] = p /\ (pc[t] = "kill" \/ t \in fresh)

\* The daemon does not linger: unless an agent keeps running or requests keep
\* coming, it is down again and again (reaper, maps and ticker together).
IdleDaemonExits ==
  []<>(\/ phase = "dead"
       \/ \E p \in Pids : proc[p] = "running"
       \/ \E c \in Conns : pc[c] # "idle")
=============================================================================
