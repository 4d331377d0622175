--------------------------- MODULE BackendProofs ---------------------------
(***************************************************************************)
(* The backend's machines together (MCAppBackend): a behaviour of the      *)
(* suite is, seen from each machine, a behaviour of that machine, so what  *)
(* the other modules prove of a machine holds of the suite's run, for any  *)
(* constants.                                                              *)
(***************************************************************************)
EXTENDS MCAppBackend, RunProofs, PaneProofs, SidecarProofs, SharedMemoryProofs

\* A step of the suite is a step of one machine; the others keep their variables.
LEMMA StepIsOneMachines ==
  ASSUME [MCNext]_allvars
  PROVE  /\ [DelegationNext]_delvars /\ [OwnershipNext]_ownVars /\ [InputNext]_inputvars
         /\ [BoardNext]_boardvars /\ [BridgeNext]_brvars /\ [MemoryNext]_memvars
         /\ [SocketNext]_socketvars
<1>0. MemoryScope => MemoryNext
  <2>1. \A some : Threads(some) => MemoryNext  BY DEF Threads, MemoryNext
  <2>2. (\E d \in Desks \cap {"d2"} : FlipSharing(d)) => MemoryNext  BY DEF MemoryNext
  <2> QED  BY <2>1, <2>2 DEF MemoryScope
<1>1. CASE MCNext
  BY <1>0, <1>1, Zenon
  DEF MCNext, InputScope, PanesScope, BridgeScope, BoardScope, RunScope, SocketScope
<1>2. CASE UNCHANGED allvars
  BY <1>2, Zenon DEF allvars
<1> QED
  BY <1>1, <1>2

\* Every machine runs as its own specification says: the scopes and their bounds
\* only leave steps out, and a machine out of scope starts as it may.
THEOREM SuiteRunsMachines ==
  MCSpec => /\ DelegationSpec /\ OwnershipSpec /\ InputSpec /\ BoardSpec
            /\ BridgeSpec /\ MemorySpec /\ SocketSpec
<1>1. MCInit => /\ DelegationInit /\ OwnershipInit /\ InputInit /\ BoardInit
                /\ BridgeInit /\ MemoryInit /\ SocketInit
  BY DEF MCInit
<1>2. QED
  BY <1>1, StepIsOneMachines, PTL
  DEF MCSpec, DelegationSpec, OwnershipSpec, InputSpec, BoardSpec, BridgeSpec, MemorySpec,
      SocketSpec

\* The variables of every machine keep their types, in the suite as alone.
THEOREM SuiteTypesHold == MCSpec => []SuiteTypeOK
<1>1. /\ OwnershipInv => OwnershipTypeOK
      /\ InputInv => InputTypeOK
      /\ NotesInv => MemoryTypeOK
      /\ SocketInv => SocketTypeOK
  BY DEF OwnershipInv, InputInv, NotesInv, TenantInv, SocketInv, SlotInv
<1>2. (InputTypeOK /\ OwnershipTypeOK /\ BoardTypeOK /\ DelegationTypeOK
         /\ BridgeTypeOK /\ MemoryTypeOK /\ SocketTypeOK) => SuiteTypeOK
  BY DEF SuiteTypeOK
<1> QED
  BY <1>1, <1>2, SuiteRunsMachines, DelegationTypesHold, OwnershipInvHolds, InputInvHolds,
     BoardTypesHold, BridgeTypesHold, NotesInvHolds, SocketInvHolds, PTL
=============================================================================
