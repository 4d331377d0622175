---------------------------- MODULE MCAppBackend ----------------------------
(***************************************************************************)
(* Machines of the app's backend that share no state, on small instances.  *)
(* A behaviour keeps to one scope: writes to one pane id, the ownership of *)
(* one, three delegated runs that loops start (the last without workers),  *)
(* two runs whose slot is force-cleared, one run with two workers, the     *)
(* task log, its polls while tasks are created and a card is rewritten,    *)
(* the cards, a bridge run, users of the note store, one harvest with      *)
(* captures and the editor, harvests and captures that overlap, or the     *)
(* socket, with fewer acts of the operator the more clients dial.          *)
(***************************************************************************)
EXTENDS Delegation, PaneOwnership, PaneInput, TaskBoard, BridgeRun, SharedMemory,
        AppSocket
VARIABLE scope
allvars == <<delvars, ownVars, inputvars, boardvars, brvars, memvars, socketvars, scope>>

MCGrid == {<<"A", 1>>, <<"B", 1>>, <<"B", 2>>}

RunScopes == {"loops", "clears", "pair"}
BoardScopes == {"log", "polls", "cards"}
MemoryScopes == {"tenants", "harvests", "overlap"}
OtherScopes == {"input", "panes", "bridge", "socket"}

OneKid == \A r \in Runs : run'[r].todo \subseteq {1}
ReadOnly == \A r \in Runs : ~run'[r].write
LastIsEmpty == run'[MaxRuns].todo = {}
NoLoops == loopTag' = NoLoop /\ caller'["sched"].step = "idle"
UpTo(n) == \A r \in Runs : r > n => run'[r] = Unborn

NoTransitions == \A s \in Sidecars : mcp'[s].step \in {"idle", "create"}
OneRewrite ==
  legible' /\ rewrites' <= 1 /\ \A i \in DOMAIN cards' : cards'[i] = Card(1, "doing", 1)

Threads(some) == \E s \in Scribes \cap some : ScribeStep(s) \/ ScribeDies(s)
\* What users link to.
FewLinks ==
  \A u \in Users : LET w == scribe'[u] IN
    /\ \A k \in DOMAIN w.patch : w.patch[k] \in {{}, {w.id}, {NoSuchNote}}
    /\ w.step \in {"count", "write"} => w.note.links = {}
OneDesk ==
  \A s \in Harvesters \cup Capturers : scribe'[s].step # "idle" => scribe'[s].note.ws = "d1"

\* A machine out of scope rests in one of its initial states.
MCInit ==
  /\ DelegationInit /\ OwnershipInit /\ InputInit /\ BoardInit /\ BridgeInit
  /\ MemoryInit /\ SocketInit
  /\ scope \in RunScopes \cup BoardScopes \cup MemoryScopes \cup OtherScopes
  /\ scope \notin RunScopes => enabled = [l \in Loops |-> FALSE]
  /\ scope # "panes" => flag = FALSE
  /\ scope # "input" => owner = "app"
  /\ scope # "bridge" => ui = "live"

InputScope == scope = "input" /\ InputNext
PanesScope == scope = "panes" /\ OwnershipNext
BridgeScope == scope = "bridge" /\ BridgeNext

BoardScope ==
  /\ scope \in BoardScopes /\ BoardNext
  /\ \/ scope = "log" /\ UNCHANGED <<cardvars, pollvars>>
     \/ scope = "polls" /\ NoTransitions /\ OneRewrite
     \/ scope = "cards" /\ UNCHANGED <<logvars, pollvars>>

RunScope ==
  /\ scope \in RunScopes /\ DelegationNext
  /\ \/ scope = "loops" /\ forced' = {} /\ OneKid /\ ReadOnly /\ LastIsEmpty
     \/ scope = "clears" /\ NoLoops /\ OneKid /\ UpTo(2)
     \/ scope = "pair" /\ NoLoops /\ UpTo(1)

MemoryScope ==
  /\ scope \in MemoryScopes
  /\ \/ /\ scope = "tenants" /\ relinked' = {}
        /\ Threads(Users) \/ \E d \in Desks \cap {"d2"} : FlipSharing(d)
     \/ scope = "harvests" /\ Threads({Editor, "h1"} \cup Capturers) /\ ops' <= 3 /\ OneDesk
     \/ scope = "overlap" /\ Threads(Harvesters \cup Capturers) /\ ops' <= 2 /\ OneDesk
  /\ FewLinks

SocketScope ==
  /\ scope = "socket" /\ SocketNext
  /\ dials' > 1 => turns' <= 1
  /\ dials' > 2 => turns' = 0

MCNext ==
  /\ UNCHANGED scope
  /\ \/ InputScope /\ UNCHANGED <<delvars, ownVars, boardvars, brvars, memvars, socketvars>>
     \/ PanesScope /\ UNCHANGED <<delvars, inputvars, boardvars, brvars, memvars, socketvars>>
     \/ BridgeScope /\ UNCHANGED <<delvars, ownVars, inputvars, boardvars, memvars, socketvars>>
     \/ BoardScope /\ UNCHANGED <<delvars, ownVars, inputvars, brvars, memvars, socketvars>>
     \/ RunScope /\ UNCHANGED <<ownVars, inputvars, boardvars, brvars, memvars, socketvars>>
     \/ MemoryScope /\ UNCHANGED <<delvars, ownVars, inputvars, boardvars, brvars, socketvars>>
     \/ SocketScope /\ UNCHANGED <<delvars, ownVars, inputvars, boardvars, brvars, memvars>>

(* The variables have their types; a machine out of scope keeps its state. *)
SuiteTypeOK ==
  /\ scope = "input" => InputTypeOK
  /\ scope = "panes" => OwnershipTypeOK
  /\ scope \in BoardScopes => BoardTypeOK
  /\ scope \in RunScopes => DelegationTypeOK
  /\ scope = "bridge" => BridgeTypeOK
  /\ scope \in MemoryScopes => MemoryTypeOK
  /\ scope = "socket" => SocketTypeOK

MCSpec == MCInit /\ [][MCNext]_allvars
=============================================================================
