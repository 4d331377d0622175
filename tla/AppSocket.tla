------------------------------ MODULE AppSocket ------------------------------
(***************************************************************************)
(* The socket of the app (app/src-tauri/src/lib.rs): the accept loop with  *)
(* its bound on connections, the gates, and the four operations that write *)
(* into panes: send_input, broadcast, handoff and orchestrate, with the    *)
(* sharing of workspaces that the operator turns on and off meanwhile.     *)
(*                                                                         *)
(* A write into a pane is one step (PaneInput has its steps); so are a     *)
(* pane's entries in the supervisor map and the registry (AppPane).  The   *)
(* app owns every pane here: a line for a pane of the daemon is routed     *)
(* there before any of these checks.                                       *)
(***************************************************************************)
EXTENDS Integers, FiniteSets

CONSTANTS
  Clients,         \* programs that dial the socket, one connection at a time
  Grid,            \* pane ids: <<workspace, index>>
  NoSpace,         \* the workspace of a caller found in no pane
  MaxSocketConns,  \* MAX_SOCKET_CONNS
  MaxDials,        \* bound: connections
  MaxTurns         \* bound: acts of the operator

SpaceOf(p) == p[1]
Spaces == {SpaceOf(p) : p \in Grid}

ASSUME SocketAssumption ==
  /\ IsFiniteSet(Clients) /\ NoSpace \notin Spaces
  /\ MaxSocketConns \in Nat \ {0} /\ MaxDials \in Nat /\ MaxTurns \in Nat

VARIABLES
  inFlight,   \* in_flight
  refusing,   \* the accept loop is between fetch_add and fetch_sub
  conn,       \* per client: its connection and the request served on it
  grid,       \* AppState.sups and is_alive
  sharing,    \* live registry: allow_sharing of each row
  isolation,  \* ws_isolation_enabled
  switches,   \* allow_mutations, send_input_enabled, allow_external_orchestrator
  dials, turns,
  crossed     \* history: per operation and workspace, the lines it put there since
              \* the boundary in between closed

hostvars == <<inFlight, refusing>>
policyvars == <<grid, sharing, isolation, switches, turns>>
socketvars == <<hostvars, conn, policyvars, dials, crossed>>

\* Of the configuration file, read anew for every request.
Switches == {"mutations", "send_input", "external"}

Absent == [step |-> "away", op |-> "none", ws |-> NoSpace, todo |-> {}, shares |-> {}, at |-> {}]

SocketInit ==
  /\ inFlight = 0 /\ refusing = {}
  /\ conn = [c \in Clients |-> Absent]
  /\ grid = [p \in Grid |-> "live"]
  /\ sharing = [p \in Grid |-> "shared"]
  /\ isolation = TRUE /\ switches = Switches
  /\ dials = 0 /\ turns = 0
  /\ crossed = [c \in Clients |-> [w \in Spaces |-> 0]]

HandlerSteps ==
  {"ends", "registry", "authority", "panes", "share", "split", "check", "land"}

OnStep(c, step) == conn[c].step = step
Now(c, k) == conn' = [conn EXCEPT ![c] = k]
Go(c, step) == Now(c, [conn[c] EXCEPT !.step = step])
Reply(c) == Now(c, [Absent EXCEPT !.step = "answered"])
Quiet == UNCHANGED <<hostvars, policyvars, dials, crossed>>

-----------------------------------------------------------------------------
(* The accept loop *)

DialSocket(c) ==
  /\ OnStep(c, "away") /\ dials < MaxDials
  /\ dials' = dials + 1
  /\ Go(c, "dialled")
  /\ UNCHANGED <<hostvars, policyvars, crossed>>

AcceptConn(c) ==
  /\ OnStep(c, "dialled") /\ refusing = {}
  /\ inFlight' = inFlight + 1
  /\ IF inFlight >= MaxSocketConns
       THEN refusing' = {c} /\ Go(c, "busy")
       ELSE UNCHANGED refusing /\ Go(c, "served")
  /\ UNCHANGED <<policyvars, dials, crossed>>

\* The client is told BUSY and hangs up.
RefuseBusy(c) ==
  /\ OnStep(c, "busy")
  /\ inFlight' = inFlight - 1
  /\ refusing' = {}
  /\ Now(c, Absent)
  /\ UNCHANGED <<policyvars, dials, crossed>>

\* The slot falls when the thread ends, after the answer; a handler that
\* panics answers like any other.
EndConn(c) ==
  /\ OnStep(c, "answered")
  /\ inFlight' = inFlight - 1
  /\ Now(c, Absent)
  /\ UNCHANGED <<refusing, policyvars, dials, crossed>>

HandlerPanics(c) == conn[c].step \in HandlerSteps /\ Reply(c) /\ Quiet

-----------------------------------------------------------------------------
(* Sharing and isolation *)

SharingEnabled(w) == \E p \in Grid : SpaceOf(p) = w /\ sharing[p] = "shared"

Shared == {w \in Spaces : SharingEnabled(w)}

\* authorize_cross, the kill switch first.
AuthorizeCross(ws, w) ==
  \/ ~isolation
  \/ ws = w
  \/ ws # NoSpace /\ {ws, w} \subseteq Shared

\* Mutant of GateWrite: the lines of a broadcast rely on its authority set.
GateOnce(op, ws, p) == op = "broadcast" \/ AuthorizeCross(ws, SpaceOf(p))

\* The gate of each write.
GateWrite(op, ws, p) == AuthorizeCross(ws, SpaceOf(p))

-----------------------------------------------------------------------------
(* Requests.  The caller's role, and the workspace of its pane, come from  *)
(* two looks at the supervisor map.                                        *)

\* op_external_orchestrator_allowed
ExternalOps == {"send", "broadcast", "orchestrate"}

\* gate_socket_request: a coordinator, or the pinned program from outside.
Admitted(op, role) ==
  /\ (IF op = "send" THEN "send_input" ELSE "mutations") \in switches
  /\ \/ role = "coordinator"
     \/ role = "external" /\ op \in ExternalOps /\ "external" \in switches

LivePanes == {p \in Grid : grid[p] # "gone"}

\* The panes a request names, and the first step of its handler.
Named(op) ==
  CASE op = "send" -> {{p} : p \in Grid}
    [] op = "handoff" -> {{p, q} : p, q \in Grid}
    [] OTHER -> {{}}

FirstStep(op) ==
  CASE op = "send" -> "check" [] op = "handoff" -> "ends"
    [] op = "broadcast" -> "registry" [] OTHER -> "panes"

Request(c, op, role, ws) ==
  /\ OnStep(c, "served") /\ Admitted(op, role)
  /\ \E todo \in Named(op) :
       Now(c, [Absent EXCEPT !.step = FirstStep(op), !.op = op, !.ws = ws, !.todo = todo])
  /\ crossed' = [crossed EXCEPT ![c] = [w \in Spaces |-> 0]]
  /\ UNCHANGED <<hostvars, policyvars, dials>>

\* No request before the timeout, a malformed one, a text that is not one line,
\* or a request the gates refuse.
RefuseRequest(c) == OnStep(c, "served") /\ Reply(c) /\ Quiet

\* socket_handoff authorises both ends and writes to the second.
HandoffEnds(c) ==
  /\ OnStep(c, "ends")
  /\ IF \A p \in conn[c].todo : AuthorizeCross(conn[c].ws, SpaceOf(p))
       THEN \E to \in conn[c].todo :
              Now(c, [conn[c] EXCEPT !.step = "check", !.todo = {to}])
       ELSE Reply(c)
  /\ Quiet

BroadcastRegistry(c) ==
  /\ OnStep(c, "registry")
  /\ Now(c, [conn[c] EXCEPT !.step = "authority", !.shares = Shared])
  /\ Quiet

\* coordinator_authority_set over the registry read before.
AuthoritySet(k) ==
  {p \in LivePanes : \/ SpaceOf(p) = k.ws
                     \/ {k.ws, SpaceOf(p)} \subseteq k.shares}

BroadcastAuthority(c) ==
  /\ OnStep(c, "authority")
  /\ IF AuthoritySet(conn[c]) = {}
       THEN Reply(c)
       ELSE Now(c, [conn[c] EXCEPT !.step = "check", !.todo = AuthoritySet(conn[c])])
  /\ Quiet

\* live_pane_ctxs, the target (the caller's workspace unless one is named) and,
\* for a caller of no workspace, the sharing of the target, read afterwards.
OrchestratePanes(c, target) ==
  /\ OnStep(c, "panes")
  /\ IF LivePanes = {} \/ (target = NoSpace /\ conn[c].ws = NoSpace)
       THEN Reply(c)
       ELSE Now(c, [conn[c] EXCEPT
                      !.step = IF conn[c].ws = NoSpace THEN "share" ELSE "split",
                      !.ws = IF target = NoSpace THEN @ ELSE target,
                      !.todo = LivePanes])
  /\ Quiet

OrchestrateShare(c) ==
  /\ OnStep(c, "share")
  /\ IF SharingEnabled(conn[c].ws) THEN Go(c, "split") ELSE Reply(c)
  /\ Quiet

\* scope_panes_to_workspace, the synthesizer and dispatch_plan: the tasks go to
\* some of the panes, or none do (no pane in scope, an error, a preview).  From
\* here on the operation writes as its target.
OrchestrateSplit(c) ==
  /\ OnStep(c, "split")
  /\ \/ Reply(c)
     \/ \E tasks \in SUBSET {p \in conn[c].todo : SpaceOf(p) = conn[c].ws} \ {{}} :
          Now(c, [conn[c] EXCEPT !.step = "check", !.todo = tasks])
  /\ Quiet

\* write_to_pane: the gate before the pane's lock, then the write.  A pane that
\* is refused, gone or dead is skipped.
CheckWrite(c, p) ==
  /\ OnStep(c, "check") /\ p \in conn[c].todo
  /\ IF GateWrite(conn[c].op, conn[c].ws, p)
       THEN Now(c, [conn[c] EXCEPT !.step = "land", !.todo = @ \ {p}, !.at = {p}])
       ELSE Now(c, [conn[c] EXCEPT !.todo = @ \ {p}])
  /\ Quiet

LandLine(c) ==
  /\ OnStep(c, "land")
  /\ \E p \in conn[c].at :
       crossed' = IF grid[p] = "live" /\ ~AuthorizeCross(conn[c].ws, SpaceOf(p))
                 THEN [crossed EXCEPT ![c][SpaceOf(p)] = @ + 1]
                 ELSE crossed
  /\ Now(c, [conn[c] EXCEPT !.step = "check", !.at = {}])
  /\ UNCHANGED <<hostvars, policyvars, dials>>

\* The lines are out; an orchestrate also leaves its manifest.
FanOutEnds(c) ==
  /\ OnStep(c, "check") /\ conn[c].todo = {}
  /\ Reply(c) /\ Quiet

-----------------------------------------------------------------------------
(* The operator *)

Act == turns < MaxTurns /\ turns' = turns + 1 /\ UNCHANGED <<hostvars, conn, dials>>

\* What crossed a boundary while it was closed is forgotten when it opens.
Forget ==
  crossed' = [c \in Clients |-> [w \in Spaces |->
             IF AuthorizeCross(conn[c].ws, w)' THEN 0 ELSE crossed[c][w]]]

\* do_spawn of a pane: its row is private, whatever its workspace shares.
OpenPane(p) ==
  /\ Act /\ grid[p] = "gone"
  /\ grid' = [grid EXCEPT ![p] = "live"]
  /\ sharing' = [sharing EXCEPT ![p] = "private"]
  /\ UNCHANGED <<isolation, switches>> /\ Forget

PaneDies(p) ==
  /\ Act /\ grid[p] = "live"
  /\ grid' = [grid EXCEPT ![p] = "dead"]
  /\ UNCHANGED <<sharing, isolation, switches>> /\ Forget

ShutPane(p) ==
  /\ Act /\ grid[p] # "gone"
  /\ grid' = [grid EXCEPT ![p] = "gone"]
  /\ sharing' = [sharing EXCEPT ![p] = "none"]
  /\ UNCHANGED <<isolation, switches>> /\ Forget

\* set_workspace_sharing rewrites every row of the workspace.
SetSharing(w, value) ==
  /\ Act
  /\ \E p \in Grid : SpaceOf(p) = w /\ sharing[p] # "none"
  /\ sharing' = [p \in Grid |-> IF SpaceOf(p) = w /\ sharing[p] # "none" THEN value ELSE sharing[p]]
  /\ sharing' # sharing
  /\ UNCHANGED <<grid, isolation, switches>> /\ Forget

FlipIsolation ==
  /\ Act /\ isolation' = ~isolation
  /\ UNCHANGED <<grid, sharing, switches>> /\ Forget

FlipSwitch(s) ==
  /\ Act /\ switches' = IF s \in switches THEN switches \ {s} ELSE switches \cup {s}
  /\ UNCHANGED <<grid, sharing, isolation>> /\ Forget

-----------------------------------------------------------------------------
ConnStep(c) ==
  \/ DialSocket(c) \/ AcceptConn(c) \/ RefuseBusy(c) \/ EndConn(c) \/ HandlerPanics(c)
  \/ \E op \in ExternalOps \cup {"handoff"}, role \in {"coordinator", "external"},
        ws \in Spaces \cup {NoSpace} : Request(c, op, role, ws)
  \/ RefuseRequest(c) \/ HandoffEnds(c) \/ BroadcastRegistry(c) \/ BroadcastAuthority(c)
  \/ \E target \in Spaces \cup {NoSpace} : OrchestratePanes(c, target)
  \/ OrchestrateShare(c) \/ OrchestrateSplit(c)
  \/ \E p \in Grid : CheckWrite(c, p)
  \/ LandLine(c) \/ FanOutEnds(c)

OperatorActs ==
  \/ \E p \in Grid : OpenPane(p) \/ PaneDies(p) \/ ShutPane(p)
  \/ \E w \in Spaces, value \in {"shared", "private"} : SetSharing(w, value)
  \/ FlipIsolation \/ (\E s \in Switches : FlipSwitch(s))

SocketNext == (\E c \in Clients : ConnStep(c)) \/ OperatorActs

SocketSpec == SocketInit /\ [][SocketNext]_socketvars

-----------------------------------------------------------------------------
ConnType ==
  [step : HandlerSteps \cup {"away", "dialled", "busy", "served", "answered"},
   op : ExternalOps \cup {"handoff", "none"}, ws : Spaces \cup {NoSpace},
   todo : SUBSET Grid, shares : SUBSET Spaces, at : SUBSET Grid]

(* The variables have their types. *)
SocketTypeOK ==
  /\ inFlight \in Nat /\ refusing \in SUBSET Clients
  /\ conn \in [Clients -> ConnType]
  /\ grid \in [Grid -> {"live", "dead", "gone"}]
  /\ sharing \in [Grid -> {"shared", "private", "none"}]
  /\ isolation \in BOOLEAN /\ switches \subseteq Switches
  /\ dials \in Nat /\ turns \in Nat /\ crossed \in [Clients -> [Spaces -> Nat]]

Holders == {c \in Clients : conn[c].step \notin {"away", "dialled"}}

(* in_flight counts the connections that hold a slot, no more of them are  *)
(* served than MAX_SOCKET_CONNS, and a refusal or a panic loses no slot:   *)
(* so a client meets BUSY only while every slot is taken.                  *)
SlotsHonest ==
  /\ inFlight = Cardinality(Holders)
  /\ Cardinality(Holders \ refusing) <= MaxSocketConns

(* When two workspaces stop sharing, or isolation is turned on, a send, a  *)
(* handoff or a broadcast under way puts at most the one line across that  *)
(* had already passed the gate: a broadcast does not go on from the panes  *)
(* it chose at its start.  An orchestrate is no part of this: once it has  *)
(* split its tasks it writes as its target workspace, which the gate       *)
(* always lets write to itself.  Sharing, which it looks at once and for a *)
(* caller of no workspace only, stops no line of it, none counts as a      *)
(* crossing, and the property says nothing of it.                          *)
UnsharingStops == \A c \in Clients, w \in Spaces : crossed[c][w] <= 1
=============================================================================
