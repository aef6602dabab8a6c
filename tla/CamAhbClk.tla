------------------------------ MODULE CamAhbClk ------------------------------
(***************************************************************************)
(* The camera AHB clock vote of src/drivers/common/cam_hw_ops.c: every     *)
(* client's last vote is kept in data.clients[], and                       *)
(* cam_consolidate_ahb_vote sends the highest of them to the interconnect  *)
(* as a bus usecase index, remembering it in data.ahb_clk_state.  Each     *)
(* entry point is one step: the consolidation runs under data.lock.        *)
(*                                                                         *)
(* Votes are enum cam_ahb_clk_vote values, an unsigned type.  A DYNAMIC    *)
(* vote is turned into a level from the OPP voltage corner, and an         *)
(* unknown corner yields -EINVAL, which as that unsigned type is larger    *)
(* than every level.  The model keeps only the order of the values, so     *)
(* it writes that value as BadVote, above DynamicVote.                     *)
(***************************************************************************)
EXTENDS Naturals, FiniteSets, FiniteSetsExt

CONSTANTS
    Clients,       \* enum cam_ahb_clk_client ids below CAM_AHB_CLIENT_MAX
    NumUsecases,   \* data.cnt: the bus-vectors of the device tree
    Corners,       \* voltage corners the OPP of a requested freq can have
    FailingCalls   \* "bus": cam_soc_bus_client_update_request may fail

\* enum cam_ahb_clk_vote (cam_hw_ops.h)
SuspendVote == 0
SvsVote     == 1
NominalVote == 2
TurboVote   == 3
DynamicVote == 255
BadVote     == 256             \* (enum cam_ahb_clk_vote)-EINVAL
Levels      == {SuspendVote, SvsVote, NominalVote, TurboVote}

\* enum rpm_regulator_voltage_corner
CornerNone       == 1
CornerRetention  == 2
CornerSvsKrait   == 3
CornerSvsSoc     == 4
CornerNormal     == 5
CornerTurbo      == 6
CornerSuperTurbo == 7

ASSUME Corners \subseteq CornerNone..CornerSuperTurbo

VARIABLES
    probeDone,     \* data.probe_done
    votes,         \* data.clients[id].vote
    ahbClkState,   \* data.ahb_clk_state
    busLevel       \* the usecase the interconnect last accepted

vars == <<probeDone, votes, ahbClkState, busLevel>>

\* cam_soc_bus_client_update_request: an index past the usecases is refused
UpdateRequest(idx) ==
    IF idx < NumUsecases /\ "bus" \notin FailingCalls THEN {idx}
    ELSE IF idx < NumUsecases THEN {idx, busLevel}
    ELSE {busLevel}

\* cam_ahb_get_voltage_level
VoltageLevel(corner) ==
    CASE corner = CornerNone                          -> SuspendVote
      [] corner \in {CornerSvsKrait, CornerSvsSoc}    -> SvsVote
      [] corner = CornerNormal                        -> NominalVote
      [] corner = CornerSuperTurbo                    -> TurboVote
      [] OTHER                                        -> BadVote

\* cam_ahb_clk_init: the "suspend" usecase (index 0) is requested; a failure
\* there unregisters the bus client and leaves probe undone, changing nothing
AhbClkInit ==
    /\ ~probeDone
    /\ busLevel' = SuspendVote
    /\ ahbClkState' = SuspendVote
    /\ probeDone' = TRUE
    /\ UNCHANGED votes

\* cam_consolidate_ahb_vote: store the vote; if it equals the state, stop;
\* else the max over all clients is requested when it differs from the
\* state, and the state is set to it whatever the request returned
ConsolidateAhbVote(id, vote) ==
    LET newVotes == [votes EXCEPT ![id] = vote]
        max      == Max({newVotes[c] : c \in Clients} \cup {0})
    IN  /\ votes' = newVotes
        /\ IF vote = ahbClkState \/ max = ahbClkState
           THEN UNCHANGED <<ahbClkState, busLevel>>
           ELSE /\ ahbClkState' = max
                /\ busLevel' \in UpdateRequest(max)

\* cam_config_ahb_clk: a level is consolidated as is; a DYNAMIC vote maps
\* the OPP's voltage corner to a level, and its "dyn_vote < 0" check can
\* never hold for the unsigned enum
ConfigAhbClk(id) ==
    /\ probeDone
    /\ \/ \E vote \in Levels : ConsolidateAhbVote(id, vote)
       \/ \E corner \in Corners : ConsolidateAhbVote(id, VoltageLevel(corner))
    /\ UNCHANGED probeDone

Init ==
    /\ probeDone = FALSE
    /\ votes = [c \in Clients |-> SuspendVote]
    /\ ahbClkState = SuspendVote
    /\ busLevel = SuspendVote

Next == AhbClkInit \/ \E id \in Clients : ConfigAhbClk(id)

Spec == Init /\ [][Next]_vars

TypeOK ==
    /\ probeDone \in BOOLEAN
    /\ votes \in [Clients -> Levels \cup {BadVote}]
    /\ ahbClkState \in Levels \cup {BadVote}
    /\ busLevel \in 0..(NumUsecases - 1)

\* The interconnect carries at least every level a client holds: the
\* consolidation is meant to keep the bus at the highest client vote.
BusCoversClientVotes ==
    probeDone => \A c \in Clients : votes[c] \in Levels => busLevel >= votes[c]
==============================================================================
