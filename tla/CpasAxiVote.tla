----------------------------- MODULE CpasAxiVote -----------------------------
(***************************************************************************)
(* The AXI bandwidth arbiter of the camera CPAS driver                     *)
(* (src/drivers/cam_cpas/cam_cpas_hw.c): the vote tree, the MNOC and       *)
(* CAMNOC ports, the SmartQoS NIU records, and the two operations that     *)
(* change them, cam_cpas_util_apply_client_axi_vote and                    *)
(* cam_cpas_util_apply_default_axi_vote.                                   *)
(*                                                                         *)
(* Both run under tree_lock and their callers hold hw_mutex, so each is    *)
(* one atomic step. They are written as functions from a state record S to *)
(* the set of records they can end in, one per failure point of the        *)
(* interconnect / clock / secure-channel calls they make, so that the      *)
(* lifecycle module can chain them inside a single start or stop step.     *)
(* Every external call is appended to S.calls with the power state at the  *)
(* moment it is made.                                                      *)
(***************************************************************************)
EXTENDS Integers, Sequences, SequencesExt, FiniteSets, SmartQos

CONSTANTS
    Clients,          \* cpas_client[] slots
    TreeClients,      \* clients with tree_node_valid
    Nodes, NoNode,    \* soc_private->tree_node[]; NULL
    Parent,           \* tree_node->parent_node
    MergeType,        \* tree_node->merge_type: "SUM" or "SUM_INTERLEAVE"
    NumPaths,         \* CAM_CPAS_PATH_DATA_MAX
    NumTrans,         \* CAM_CPAS_TRANSACTION_MAX
    ClientNode,       \* cpas_client->tree_node[path][transac]
    Constituents,     \* tree_node->constituent_paths[] as a set of paths
    NumAxiPorts,      \* num_axi_ports
    NumCamnocPorts,   \* num_camnoc_axi_ports
    NumVirtPorts,     \* CAM_CPAS_MAX_VIRT_PORTS
    RootPortIdx,      \* tree_node->axi_port_idx_arr[] (-1: none)
    RootCamnocIdx,    \* tree_node->camnoc_axi_port_idx
    RtPorts,          \* axi ports with is_rt
    VirtPorts,        \* axi ports whose bus client is_virt_port
    IbVotingPorts,    \* axi ports with ib_bw_voting_needed
    NiuOrder,         \* smart_qos_info->rt_wr_niu_node[] in order
    NiuSize,          \* niu_size of each NIU node
    CamnocMaxNeeded,  \* tree nodes with camnoc_max_needed
    BusWidthFactor,   \* tree_node->bus_width_factor
    RtBwVotingNeeded, ControlCamnocClk, EnableSmartQos, SecureQosUpdate,
    CamnocAxiClkBwMargin, CamnocAxiMinIbBw, CamnocBusWidth,
    DefaultAxiBw,     \* CAM_CPAS_DEFAULT_AXI_BW
    MinMnocAbBw, MinMnocIbBw, MinCamnocAbBw, MinCamnocIbBw,
    BwWidth,          \* bandwidth fields are u64; modelled modulo 2^BwWidth
    FailingCalls      \* kinds of external call that may return an error

Paths == 0 .. NumPaths - 1
Trans == 0 .. NumTrans - 1
AxiPorts == 0 .. NumAxiPorts - 1
CamnocPorts == 0 .. NumCamnocPorts - 1
VirtIdx == 0 .. NumVirtPorts - 1
Nius == ToSet(NiuOrder)
Roots == {n \in Nodes : Parent[n] = NoNode}
Children(n) == {m \in Nodes : Parent[m] = n}

ASSUME /\ NoNode \notin Nodes
       /\ Parent \in [Nodes -> Nodes \cup {NoNode}]
       /\ MergeType \in [Nodes -> {"SUM", "SUM_INTERLEAVE"}]
       /\ ClientNode \in [Clients \X Paths \X Trans -> Nodes \cup {NoNode}]
       /\ RootPortIdx \in [Roots -> [VirtIdx -> AxiPorts \cup {-1}]]
       /\ \A r \in Roots : RootPortIdx[r][0] # -1
       \* distinct roots drive distinct ports
       /\ \A r1, r2 \in Roots, i, j \in VirtIdx :
             RootPortIdx[r1][i] = RootPortIdx[r2][j] /\ RootPortIdx[r1][i] # -1
                => r1 = r2 /\ i = j
       \* camnoc_axi_port[] is indexed by axi_port_idx_arr[0] in
       \* cam_cpas_update_axi_vote_bw
       /\ ControlCamnocClk \/ \A r \in Roots : RootPortIdx[r][0] \in CamnocPorts
       /\ Nius \subseteq Nodes

BwMod == 2 ^ BwWidth
U64Add(a, b) == (a + b) % BwMod
U64Sub(a, b) == (a - b) % BwMod

Bw == [camnoc : Nat, ab : Nat, ib : Nat]
ZeroBw == [camnoc |-> 0, ab |-> 0, ib |-> 0]
\* a cam_axi_per_path_bw_vote
PathVote == [path : Paths, trans : Trans, camnoc : Nat, ab : Nat, ib : Nat]
\* a cam_axi_vote: axi_path[0] as the start/stop decision reads it, and
\* axi_path[0 .. num_paths-1]
AxiVote == [path0 : PathVote, paths : Seq(PathVote)]

(***************************************************************************)
(* cam_cpas_axi_consolidate_path_votes                                     *)
(***************************************************************************)
\* the k of the first client node [k][transac] whose constituent_paths
\* contain the raw path
SumPaths(c, p, t) ==
    {k \in Paths : ClientNode[c, k, t] # NoNode
                   /\ p \in Constituents[ClientNode[c, k, t]]}

\* accumulate into the first consolidated entry [k][t], or add a new one
AddToConsolidated(con, k, t, e) ==
    LET ls == {l \in DOMAIN con : con[l].path = k /\ con[l].trans = t}
    IN  IF ls = {}
        THEN Append(con, [path |-> k, trans |-> t, camnoc |-> e.camnoc,
                          ab |-> e.ab, ib |-> e.ib])
        ELSE LET l == Min(ls)
             IN  [con EXCEPT ![l] = [camnoc |-> U64Add(@.camnoc, e.camnoc),
                                     ab |-> U64Add(@.ab, e.ab),
                                     ib |-> U64Add(@.ib, e.ib),
                                     path |-> k, trans |-> t]]

RECURSIVE ConsolidateFrom(_, _, _)
ConsolidateFrom(c, paths, con) ==
    IF paths = <<>> THEN [ok |-> TRUE, con |-> con]
    ELSE LET e == Head(paths)
         IN  IF ClientNode[c, e.path, e.trans] # NoNode
             THEN ConsolidateFrom(c, Tail(paths), Append(con, e))
             ELSE IF SumPaths(c, e.path, e.trans) = {}
             THEN [ok |-> FALSE, con |-> con]
             ELSE ConsolidateFrom(c, Tail(paths),
                    AddToConsolidated(con, Min(SumPaths(c, e.path, e.trans)),
                                      e.trans, e))

ConsolidatePathVotes(c, vote) == ConsolidateFrom(c, vote.paths, <<>>)

\* an ab-only path votes its ab on camnoc too, a camnoc-only path the reverse
MirrorBw(e) ==
    LET ab == IF e.ab = 0 THEN e.camnoc ELSE e.ab
    IN  [camnoc |-> IF e.camnoc = 0 THEN ab ELSE e.camnoc, ab |-> ab, ib |-> e.ib]

(***************************************************************************)
(* The tree walk: the node 'cur' has just changed from 'old' to nd[cur];   *)
(* each ancestor takes the old contribution out and puts the new one in.   *)
(***************************************************************************)
Contribution(p, b) ==
    IF MergeType[p] = "SUM" THEN b.camnoc ELSE b.camnoc \div 2

\* Seeded fault: the old camnoc contribution is taken out whole even under
\* SUM_INTERLEAVE, while the new one is halved.
MergeChildFullInterleave(p, pold, old, new) ==
    [ab     |-> U64Add(U64Sub(pold.ab, old.ab), new.ab),
     ib     |-> U64Add(U64Sub(pold.ib, old.ib), new.ib),
     camnoc |-> U64Add(U64Sub(pold.camnoc, old.camnoc), Contribution(p, new))]

MergeChild(p, pold, old, new) ==
    [ab     |-> U64Add(U64Sub(pold.ab, old.ab), new.ab),
     ib     |-> U64Add(U64Sub(pold.ib, old.ib), new.ib),
     camnoc |-> U64Add(U64Sub(pold.camnoc, Contribution(p, old)),
                       Contribution(p, new))]

RECURSIVE WalkToRoot(_, _, _, _)
WalkToRoot(nd, cur, old, roots) ==
    IF Parent[cur] = NoNode THEN [node |-> nd, roots |-> roots]
    ELSE LET p == Parent[cur]
         IN  WalkToRoot([nd EXCEPT ![p] = MergeChild(p, nd[p], old, nd[cur])],
                        p, nd[p],
                        IF Parent[p] = NoNode THEN roots \cup {p} ELSE roots)

\* the loop over the consolidated paths; 'walked' is par_tree_node # NULL
RECURSIVE WalkPaths(_, _, _)
WalkPaths(c, con, w) ==
    IF con = <<>> THEN w
    ELSE LET e == MirrorBw(Head(con))
             n == ClientNode[c, Head(con).path, Head(con).trans]
             r == WalkToRoot([w.node EXCEPT ![n] = e], n, w.node[n], w.roots)
         IN  IF w.node[n] = e THEN WalkPaths(c, Tail(con), w)
             ELSE WalkPaths(c, Tail(con),
                            [node |-> r.node, roots |-> r.roots,
                             walked |-> w.walked \/ Parent[n] # NoNode])

(***************************************************************************)
(* The arbiter's state. The functions below take it as one record S with  *)
(* these fields (plus streamon and powered, which the lifecycle owns).    *)
(***************************************************************************)
VARIABLES
    node,      \* camnoc_bw, mnoc_ab_bw, mnoc_ib_bw of every tree node
    axi,       \* axi_port[]: ab_bw, ib_bw, additional_bw, applied_ab/ib_bw
    camnoc,    \* camnoc_axi_port[]: camnoc_bw, additional_bw, applied_ab/ib_bw
    clkRate,   \* applied_camnoc_axi_rate
    niu,       \* curr_priority and applied_priority of every RT write NIU
    hw,        \* what the interconnect, the clock and the NIU registers hold
    calls,     \* the external calls made by the last step, in order
    streamon,  \* streamon_clients
    powered    \* CPAS regulators and clocks enabled

voteVars == <<node, axi, camnoc, clkRate, niu, hw, calls>>

VoteSnap == [node |-> node, axi |-> axi, camnoc |-> camnoc, clkRate |-> clkRate,
             niu |-> niu, hw |-> hw, calls |-> <<>>,
             streamon |-> streamon, powered |-> powered]

CommitVote(S) ==
    /\ node' = S.node
    /\ axi' = S.axi
    /\ camnoc' = S.camnoc
    /\ clkRate' = S.clkRate
    /\ niu' = S.niu
    /\ hw' = S.hw
    /\ calls' = S.calls

\* after probe: empty tree and ports, no priority applied, nothing voted
VoteInit ==
    /\ node = [n \in Nodes |-> ZeroBw]
    /\ axi = [p \in AxiPorts |-> [ab |-> 0, ib |-> 0, additional |-> 0,
                                  appliedAb |-> 0, appliedIb |-> 0]]
    /\ camnoc = [q \in CamnocPorts |-> [bw |-> 0, additional |-> 0,
                                        appliedAb |-> 0, appliedIb |-> 0]]
    /\ clkRate = 0
    /\ niu = [n \in Nius |-> [curr |-> 0, applied |-> 0]]
    /\ hw = [mnoc |-> [p \in AxiPorts |-> [ab |-> 0, ib |-> 0]],
             camnoc |-> [q \in CamnocPorts |-> [ab |-> 0, ib |-> 0]],
             clk |-> 0,
             niuReg |-> [n \in Nius |-> 0]]
    /\ calls = <<>>

(***************************************************************************)
(* cam_cpas_update_axi_vote_bw for every root the walks reached. Roots     *)
(* drive distinct ports, and a root's last update sees its final value,    *)
(* so updating after all walks gives the ports the values they end with.   *)
(***************************************************************************)
Slots(roots) ==
    {x \in roots \X VirtIdx : (x[2] = 0 \/ RtBwVotingNeeded)
                              /\ RootPortIdx[x[1]][x[2]] # -1}

SlotOf(roots, p) == CHOOSE x \in Slots(roots) : RootPortIdx[x[1]][x[2]] = p

\* the MMNOC port takes ab/ib (ib := ab with RT voting), a DDR RT port ib as ab
PortBw(S, x) ==
    LET r == S.node[x[1]]
    IN  IF x[2] > 0 THEN [ab |-> r.ib, ib |-> 0]
        ELSE [ab |-> r.ab, ib |-> IF RtBwVotingNeeded THEN r.ab ELSE r.ib]

UpdateAxiVoteBw(S, roots) ==
    LET mnocUpd == {RootPortIdx[x[1]][x[2]] : x \in Slots(roots)}
        camRoot(q) == CHOOSE r \in roots : RootPortIdx[r][0] = q
        camWritten == IF ControlCamnocClk THEN {}
                      ELSE {RootPortIdx[r][0] : r \in roots}
    IN  [st |-> [S EXCEPT
            !.axi = [p \in AxiPorts |->
                       IF p \in mnocUpd
                       THEN [S.axi[p] EXCEPT !.ab = PortBw(S, SlotOf(roots, p)).ab,
                                             !.ib = PortBw(S, SlotOf(roots, p)).ib]
                       ELSE S.axi[p]],
            !.camnoc = [q \in CamnocPorts |->
                          IF q \in camWritten
                          THEN [S.camnoc[q] EXCEPT !.bw = S.node[camRoot(q)].camnoc]
                          ELSE S.camnoc[q]]],
         mnocUpd |-> mnocUpd,
         camUpd |-> IF ControlCamnocClk THEN {} ELSE {RootCamnocIdx[r] : r \in roots}]

(***************************************************************************)
(* The external calls. Each is a record; a plan is the sequence of calls   *)
(* an operation makes when none fails. With a failure at call k the        *)
(* operation stops after k (every failure in these functions aborts).      *)
(***************************************************************************)
\* f with the value at x replaced (built whole rather than by EXCEPT, which
\* TLC mishandles on functions it has not yet evaluated)
SetAt(f, x, v) == [y \in DOMAIN f |-> IF y = x THEN v ELSE f[y]]

Clamp(v, floor) == IF v > 0 /\ v < floor THEN floor ELSE v

Call(kind, tgt, ab, ib) == [kind |-> kind, tgt |-> tgt, ab |-> ab, ib |-> ib]

\* Seeded fault: additional_bw is preferred over the port's ab_bw.
MnocCallAdditionalFirst(S, p) ==
    LET a == S.axi[p]
        ab == IF a.additional # 0 THEN a.additional ELSE a.ab
        ib == IF p \in IbVotingPorts THEN a.ib ELSE 0
    IN  Call("mnoc", p, Clamp(ab, MinMnocAbBw), Clamp(ib, MinMnocIbBw))

\* the mnoc loop of vote_start_clients, through cam_cpas_util_vote_bus_client_bw
MnocCall(S, p) ==
    LET a == S.axi[p]
        ab == IF a.ab # 0 THEN a.ab
              ELSE IF a.additional # 0 THEN a.additional
              ELSE IF S.streamon > 0 /\ p \notin VirtPorts THEN DefaultAxiBw
              ELSE 0
        ib == IF p \in IbVotingPorts THEN a.ib ELSE 0
    IN  Call("mnoc", p, Clamp(ab, MinMnocAbBw), Clamp(ib, MinMnocIbBw))

\* cam_cpas_camnoc_set_vote_axi_clk_rate without camnoc clock control
CamnocCall(S, q) ==
    LET c == S.camnoc[q]
        bw == IF c.bw # 0 THEN c.bw
              ELSE IF c.additional # 0 THEN c.additional
              ELSE IF S.streamon > 0 THEN DefaultAxiBw
              ELSE 0
    IN  Call("camnoc", q, Clamp(0, MinCamnocAbBw), Clamp(bw, MinCamnocIbBw))

\* cam_cpas_util_set_camnoc_axi_clk_rate (debug override left out)
CamnocClkRate(S) ==
    LET req0 == Max({S.node[n].camnoc * BusWidthFactor[n] : n \in CamnocMaxNeeded}
                    \cup {0})
        req1 == req0 + (req0 * CamnocAxiClkBwMargin) \div 100
        req2 == IF S.streamon > 0 /\ req1 = 0 THEN DefaultAxiBw ELSE req1
        req3 == IF req2 > 0 /\ req2 < CamnocAxiMinIbBw THEN CamnocAxiMinIbBw ELSE req2
    IN  req3 \div CamnocBusWidth

SortedSeq(set) == SetToSortSeq(set, <)

MnocCalls(S, upd) ==
    [i \in 1 .. Cardinality(upd) |-> MnocCall(S, SortedSeq(upd)[i])]

CamnocCalls(S, upd) ==
    IF ControlCamnocClk
    THEN IF S.streamon > 0 THEN <<Call("clk", 0, CamnocClkRate(S), 0)>> ELSE <<>>
    ELSE [i \in 1 .. Cardinality(upd) |-> CamnocCall(S, SortedSeq(upd)[i])]

\* Seeded fault: the loop over the NIUs stops after the first one.
QosCallsFirstOnly(S) ==
    LET differ == SelectSeq(NiuOrder, LAMBDA n : S.niu[n].curr # S.niu[n].applied)
    IN  [i \in 1 .. IF differ = <<>> THEN 0 ELSE 1 |->
           Call(IF SecureQosUpdate THEN "scm" ELSE "mmio", differ[i],
                S.niu[differ[i]].curr, 0)]

\* cam_cpas_apply_smart_qos: one register write, or one secure call, per
\* NIU whose curr_priority differs from applied_priority
QosCalls(S) ==
    LET differ == SelectSeq(NiuOrder, LAMBDA n : S.niu[n].curr # S.niu[n].applied)
    IN  [i \in 1 .. Len(differ) |->
           Call(IF SecureQosUpdate THEN "scm" ELSE "mmio", differ[i],
                S.niu[differ[i]].curr, 0)]

(***************************************************************************)
(* What one call does. A bus vote that succeeds reaches the interconnect   *)
(* and is recorded as applied_ab/ib_bw; one that fails changes nothing.    *)
(* cam_cpas_util_set_camnoc_axi_clk_rate records applied_camnoc_axi_rate   *)
(* whether or not setting the rate worked. A register write reaches the    *)
(* NIU only while CPAS is powered. The secure channel never records        *)
(* applied_priority.                                                       *)
(***************************************************************************)
\* Seeded fault: applied_ab/ib_bw are copied even when the update failed.
BusVoteEffectIgnoringRc(T, x, ok) ==
    LET applied(r) == [r EXCEPT !.appliedAb = x.ab, !.appliedIb = x.ib]
        granted == [ab |-> x.ab, ib |-> x.ib]
    IN  CASE x.kind = "mnoc" ->
               [T EXCEPT !.hw = [T.hw EXCEPT !.mnoc = IF ok THEN SetAt(T.hw.mnoc, x.tgt, granted) ELSE @],
                         !.axi = SetAt(T.axi, x.tgt, applied(T.axi[x.tgt]))]
          [] OTHER ->
               [T EXCEPT !.hw = [T.hw EXCEPT !.camnoc = IF ok THEN SetAt(T.hw.camnoc, x.tgt, granted) ELSE @],
                         !.camnoc = SetAt(T.camnoc, x.tgt, applied(T.camnoc[x.tgt]))]

\* cam_cpas_util_vote_bus_client_bw: the backend takes the vote, and the
\* caller copies the clamped values into applied_ab_bw / applied_ib_bw, only
\* when the update returned 0
BusVoteEffect(T, x, ok) ==
    LET granted == [ab |-> x.ab, ib |-> x.ib]
        applied(r) == [r EXCEPT !.appliedAb = x.ab, !.appliedIb = x.ib]
    IN  CASE ~ok -> T
          [] x.kind = "mnoc" ->
               [T EXCEPT !.hw = [T.hw EXCEPT !.mnoc = SetAt(T.hw.mnoc, x.tgt, granted)],
                         !.axi = SetAt(T.axi, x.tgt, applied(T.axi[x.tgt]))]
          [] OTHER ->
               [T EXCEPT !.hw = [T.hw EXCEPT !.camnoc = SetAt(T.hw.camnoc, x.tgt, granted)],
                         !.camnoc = SetAt(T.camnoc, x.tgt, applied(T.camnoc[x.tgt]))]

\* the clock call of set_camnoc_axi_clk_rate: the rate is recorded as
\* applied whether or not cam_soc_util_set_src_clk_rate succeeded
ClkEffect(T, x, ok) ==
    [T EXCEPT !.hw = [T.hw EXCEPT !.clk = IF ok THEN x.ab ELSE @],
              !.clkRate = x.ab]

\* the effect of one collaborator call on the state: an NIU LUT write by
\* cam_io_w_mb sets applied_priority (and the register if CPAS is powered);
\* a secure SmartQoS call writes the registers only when it succeeds
CallEffect(S, x, ok) ==
    LET T == [S EXCEPT !.calls = Append(@, [kind |-> x.kind, tgt |-> x.tgt,
                                            ab |-> x.ab, ib |-> x.ib,
                                            pw |-> S.powered, ok |-> ok])]
        niuReg == SetAt(T.hw.niuReg, x.tgt, IF S.powered THEN x.ab ELSE T.hw.niuReg[x.tgt])
    IN  CASE x.kind \in {"mnoc", "camnoc"} -> BusVoteEffect(T, x, ok)
          [] x.kind = "clk" -> ClkEffect(T, x, ok)
          [] x.kind = "mmio" ->
               [T EXCEPT !.hw = [T.hw EXCEPT !.niuReg = niuReg],
                         !.niu = SetAt(T.niu, x.tgt, [T.niu[x.tgt] EXCEPT !.applied = x.ab])]
          [] x.kind = "scm" /\ ok ->
               [T EXCEPT !.hw = [T.hw EXCEPT !.niuReg = niuReg]]
          \* a failed secure call, or a call of the lifecycle whose effect its
          \* caller applies
          [] OTHER -> T

\* a register write cannot fail
CanFail(x) == x.kind \in FailingCalls /\ x.kind # "mmio"

RECURSIVE RunCalls(_, _, _, _)
RunCalls(S, plan, i, k) ==
    IF i > Len(plan) \/ (k > 0 /\ i > k) THEN S
    ELSE RunCalls(CallEffect(S, plan[i], i # k), plan, i + 1, k)

\* every way a plan can end: all calls succeed (k = 0) or call k fails
Outcomes(S, plan) ==
    {[ok |-> k = 0, st |-> RunCalls(S, plan, 1, k)] :
        k \in {0} \cup {i \in 1 .. Len(plan) : CanFail(plan[i])}}

(***************************************************************************)
(* cam_cpas_util_apply_client_axi_vote                                     *)
(***************************************************************************)
\* Seeded fault: the comparison of new and applied RT bandwidth is reversed.
NewRtBwLowerSwapped(S) ==
    MapThenSumSet(LAMBDA p : S.axi[p].appliedAb, RtPorts)
      < MapThenSumSet(LAMBDA p : S.axi[p].ab, RtPorts)

\* cam_cpas_is_new_rt_bw_lower
NewRtBwLower(S) ==
    MapThenSumSet(LAMBDA p : S.axi[p].ab, RtPorts)
      < MapThenSumSet(LAMBDA p : S.axi[p].appliedAb, RtPorts)

NiuBw(S) == [n \in Nius |-> S.node[n].camnoc]

\* cam_cpas_calculate_smart_qos: new curr_priority unless every NIU is idle
CalculateSmartQos(S) ==
    IF MaxBwPerKb(Nius, NiuBw(S), NiuSize) = 0 THEN S
    ELSE LET P == NewPriorities(Nius, NiuBw(S), NiuSize)
         IN  [S EXCEPT !.niu = [n \in Nius |-> [S.niu[n] EXCEPT !.curr = P[n]]]]

NeedsQosUpdate(S) ==
    /\ MaxBwPerKb(Nius, NiuBw(S), NiuSize) > 0
    /\ \E n \in Nius : S.niu[n].curr # S.niu[n].applied

\* a client without tree nodes adds (start) or takes away (stop) the
\* default bandwidth on every non-virtual MNOC port and every CAMNOC port
DefaultStep(x, start) ==
    IF start THEN U64Add(x, DefaultAxiBw) ELSE U64Sub(x, DefaultAxiBw)

NonTreeVote(S, vote) ==
    LET T == [S EXCEPT
               !.axi = [p \in AxiPorts |->
                          IF p \in VirtPorts THEN S.axi[p]
                          ELSE [S.axi[p] EXCEPT !.additional =
                                  DefaultStep(@, vote.path0.ab # 0)]],
               !.camnoc = [q \in CamnocPorts |->
                             [S.camnoc[q] EXCEPT !.additional =
                                DefaultStep(@, vote.path0.camnoc # 0)]]]
    IN  Outcomes(T, MnocCalls(T, AxiPorts \ VirtPorts) \o CamnocCalls(T, CamnocPorts))

TreeVote(S, c, vote) ==
    LET cons == ConsolidatePathVotes(c, vote)
        w == WalkPaths(c, cons.con, [node |-> S.node, roots |-> {}, walked |-> FALSE])
        u == UpdateAxiVoteBw([S EXCEPT !.node = w.node], w.roots)
        rtUpdated == EnableSmartQos /\ u.mnocUpd \cap RtPorts # {}
        T == IF rtUpdated THEN CalculateSmartQos(u.st) ELSE u.st
        applyQos == rtUpdated /\ NeedsQosUpdate(T)
        qosFirst == applyQos /\ NewRtBwLower(T)
        votes == MnocCalls(T, u.mnocUpd) \o CamnocCalls(T, u.camUpd)
    IN  IF ~cons.ok THEN {[ok |-> FALSE, st |-> S]}
        ELSE IF ~w.walked THEN {[ok |-> TRUE, st |-> u.st]}
        ELSE Outcomes(T, IF qosFirst THEN QosCalls(T) \o votes
                         ELSE IF applyQos THEN votes \o QosCalls(T)
                         ELSE votes)

ApplyClientAxiVote(S, c, vote) ==
    IF c \in TreeClients THEN TreeVote(S, c, vote) ELSE NonTreeVote(S, vote)

\* Seeded fault: the enable flag is ignored and the default ib always voted.
ApplyDefaultAxiVoteAlwaysOn(S, enable) ==
    LET ports == {p \in AxiPorts \ VirtPorts : S.axi[p].ab = 0 \/ S.axi[p].ib = 0}
    IN  Outcomes(S, [i \in 1 .. Cardinality(ports) |->
                       Call("mnoc", SortedSeq(ports)[i], 0, Clamp(DefaultAxiBw, MinMnocIbBw))])

(***************************************************************************)
(* cam_cpas_util_apply_default_axi_vote: a port with no ab or no ib gets   *)
(* ab 0 and ib DEFAULT (enable) or 0                                       *)
(***************************************************************************)
ApplyDefaultAxiVote(S, enable) ==
    LET ports == {p \in AxiPorts \ VirtPorts : S.axi[p].ab = 0 \/ S.axi[p].ib = 0}
        ib == IF enable THEN DefaultAxiBw ELSE 0
    IN  Outcomes(S, [i \in 1 .. Cardinality(ports) |->
                       Call("mnoc", SortedSeq(ports)[i], 0, Clamp(ib, MinMnocIbBw))])
=============================================================================
