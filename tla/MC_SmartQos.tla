----------------------------- MODULE MC_SmartQos -----------------------------
(***************************************************************************)
(* Checks the SmartQoS ramp over every combination of camnoc bandwidths on *)
(* three real-time write NIUs. A step changes the bandwidth of one NIU,    *)
(* as a tree walk of cam_cpas_util_apply_client_axi_vote does.             *)
(***************************************************************************)
EXTENDS SmartQos

CONSTANTS
    Nius,        \* the rt_wr_niu_node[] entries
    NiuSizeOf,   \* niu_size of each NIU
    MaxCamnocBw  \* bound on the camnoc_bw of one NIU

VARIABLE camnocBw

vars == <<camnocBw>>

Init == camnocBw \in [Nius -> 0..MaxCamnocBw]

SetNiuBw(n, b) == camnocBw' = [camnocBw EXCEPT ![n] = b]

Next == \E n \in Nius, b \in 0..MaxCamnocBw : SetNiuBw(n, b)

MCNiuSizeOf == [n \in Nius |-> IF n = CHOOSE x \in Nius : TRUE THEN 1 ELSE 2]

Spec == Init /\ [][Next]_vars

MaxKb == MaxBwPerKb(Nius, camnocBw, NiuSizeOf)

Prio == NewPriorities(Nius, camnocBw, NiuSizeOf)

KbOf(n) == BwPerKb(camnocBw[n], NiuSizeOf[n])

\* The LUT word that cam_cpas_calculate_smart_qos packs with its shift/or
\* loop and its remainder rounding equals, for every NIU, the word built
\* from the closed form min + round(pos * bw / max), capped at max.
RampMatchesReference ==
    LET mx == MaxKb  P == Prio
    IN  mx > 0 => \A n \in Nius : P[n] = RefPriority(KbOf(n), mx)

\* The ramp is monotone both ways: within one NIU's word the levels never
\* fall from pos 0 to pos 7, and an NIU with no less bandwidth per KB than
\* another gets a level no lower at any position.
RampMonotone ==
    LET L == [n \in Nius |-> [i \in 0..7 |-> LevelOf(Prio[n], i)]]
    IN  MaxKb > 0 =>
          \A n, m \in Nius : \A i \in 0..6 :
             /\ L[n][i] <= L[n][i + 1]
             /\ KbOf(n) <= KbOf(m) => L[n][i] <= L[m][i]
=============================================================================
