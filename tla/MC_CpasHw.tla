------------------------------ MODULE MC_CpasHw ------------------------------
(***************************************************************************)
(* A small CPAS instance for TLC. Three clients: IFE (real-time writes on  *)
(* two paths, the second also standing for a consolidated raw path), ICP   *)
(* (non-real-time reads) and CDM (no tree nodes: the default-vote path).   *)
(*                                                                         *)
(*     IfeWr0 -> Niu0 --\                                                  *)
(*                       >-- RtRoot (SUM_INTERLEAVE): axi port 0 (RT),     *)
(*     IfeWr1 -> Niu1 --/                          camnoc port 0           *)
(*     IcpRd  -------------- NrtRoot: axi port 1, camnoc port 1            *)
(*                                                                         *)
(* Niu0 and Niu1 are the RT write NIUs of SmartQoS. Internal path ids: 0  *)
(* and 1 are direct paths, 2 is a raw path consolidated into IFE's path-1  *)
(* node. With a CONSO offset of 4 and two granular paths per client, the   *)
(* UAPI ids 0, 1 and 4 translate to 0, 1 and 2, and 5 to the invalid 3.    *)
(* Transaction 0 is read, 1 is write.                                      *)
(***************************************************************************)
EXTENDS CpasHw

CONSTANTS ife, icp, cdm, IfeWr0, IfeWr1, Niu0, Niu1, RtRoot, IcpRd, NrtRoot

MCParent ==
    [n \in Nodes |->
        CASE n = IfeWr0 -> Niu0 [] n = IfeWr1 -> Niu1
          [] n = Niu0 -> RtRoot [] n = Niu1 -> RtRoot
          [] n = IcpRd -> NrtRoot [] OTHER -> NoNode]

MCMergeType == [n \in Nodes |-> IF n = RtRoot THEN "SUM_INTERLEAVE" ELSE "SUM"]

MCClientNode ==
    [x \in Clients \X (0 .. 2) \X (0 .. 1) |->
        CASE x = <<ife, 0, 1>> -> IfeWr0
          [] x = <<ife, 1, 1>> -> IfeWr1
          [] x = <<icp, 0, 0>> -> IcpRd
          [] OTHER -> NoNode]

MCConstituents == [n \in Nodes |-> IF n = IfeWr1 THEN {2} ELSE {}]

MCRootPortIdx == [r \in {RtRoot, NrtRoot} |-> [i \in {0} |-> IF r = RtRoot THEN 0 ELSE 1]]
MCRootCamnocIdx == [r \in {RtRoot, NrtRoot} |-> IF r = RtRoot THEN 0 ELSE 1]

MCNiuOrder == <<Niu0, Niu1>>
MCNiuSize == [n \in {Niu0, Niu1} |-> IF n = Niu0 THEN 1 ELSE 2]
MCBusWidthFactor == [n \in Nodes |-> 1]

PV(p, t, c, a, i) == [path |-> p, trans |-> t, camnoc |-> c, ab |-> a, ib |-> i]

\* STD_START votes: path0 applied on every client node
Std(c, a, i) == [std |-> TRUE, path0 |-> PV(0, 0, c, a, i), paths |-> <<>>]

MCStartVotes ==
    [c \in Clients |->
        CASE c = ife -> {Std(2, 2, 2)}
          [] c = icp -> {Std(1, 1, 1)}
          [] OTHER   -> {Std(1, 1, 1)}]

MCUpdateVotes ==
    [c \in Clients |->
        CASE c = ife -> {[path0 |-> PV(0, 1, 3, 3, 3), paths |-> <<PV(0, 1, 3, 3, 3)>>],
                         [path0 |-> PV(0, 1, 1, 0, 1),
                          paths |-> <<PV(0, 1, 1, 0, 1), PV(4, 1, 0, 1, 1)>>]}
          [] c = icp -> {[path0 |-> PV(0, 0, 2, 2, 2), paths |-> <<PV(0, 0, 2, 2, 2)>>],
                         [path0 |-> PV(5, 0, 1, 1, 1), paths |-> <<PV(5, 0, 1, 1, 1)>>]}
          [] OTHER   -> {}]
\* the same votes, with CDM (no tree nodes) also sending an AXI update
MCUpdateVotesNonTree ==
    [c \in Clients |->
        IF c = cdm THEN {[path0 |-> PV(0, 0, 1, 1, 1), paths |-> <<PV(0, 0, 1, 1, 1)>>]}
        ELSE MCUpdateVotes[c]]
\* IFE also sends a raw path consolidated into its path-1 node followed by
\* a direct vote on that node
MCUpdateVotesConso ==
    [c \in Clients |->
        IF c = ife THEN {[path0 |-> PV(0, 1, 3, 3, 3), paths |-> <<PV(0, 1, 3, 3, 3)>>],
                         [path0 |-> PV(4, 1, 1, 1, 1),
                          paths |-> <<PV(4, 1, 1, 1, 1), PV(1, 1, 2, 2, 2)>>]}
        ELSE MCUpdateVotes[c]]
=============================================================================
