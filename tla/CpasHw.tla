-------------------------------- MODULE CpasHw --------------------------------
(***************************************************************************)
(* The client lifecycle of the camera CPAS driver                          *)
(* (src/drivers/cam_cpas/cam_cpas_hw.c): register, unregister, start,      *)
(* stop, the AHB and AXI vote updates, and the register accessors, on top  *)
(* of the AXI arbiter of CpasAxiVote.                                      *)
(*                                                                         *)
(* register/unregister/start/stop/update_* hold hw_mutex for their whole   *)
(* run, so each is one step; the arbiter functions they call are chained   *)
(* inside that step, with one successor per failing collaborator call.     *)
(* cam_cpas_hw_reg_read takes no lock: its started check and its register  *)
(* read are two steps.                                                     *)
(***************************************************************************)
EXTENDS CpasAxiVote

CONSTANTS
    AhbLevels,     \* the cam_vote_level values used; 0 is CAM_SUSPEND_VOTE
    SvsLevel,      \* CAM_SVS_VOTE
    StartVotes,    \* per client: the start votes it may send
    UpdateVotes,   \* per client: the AXI votes it may send once started
    ReadClients,   \* clients that read CPAS registers
    PowerOnPriority, \* NIU priority LUT the power_on hook programs
    ConsoOffset,   \* CAM_CPAS_PATH_DATA_CONSO_OFFSET
    MaxGranPaths,  \* CAM_CPAS_MAX_GRAN_PATHS_PER_CLIENT
    IrqHandlers,   \* runs of the CPAS IRQ handler that may be in flight
    IrqTimeout     \* TRUE: a handler may stay in flight past stop's HZ wait

ASSUME /\ 0 \in AhbLevels /\ SvsLevel \in AhbLevels \ {0}
       /\ ReadClients \subseteq Clients /\ IrqTimeout \in BOOLEAN

\* a vote as the client passes it, with UAPI path ids; std_start asks for
\* path0 on all paths
UapiPathVote == [path : Nat, trans : Trans, camnoc : Nat, ab : Nat, ib : Nat]
RawVote == [std : BOOLEAN, path0 : UapiPathVote, paths : Seq(UapiPathVote)]

VARIABLES
    registered,  \* cpas_client->registered
    started,     \* cpas_client->started
    ahbLevel,    \* cpas_client->ahb_level
    ahbBus,      \* ahb_bus_client.curr_vote_level
    hwUp,        \* cpas_hw->hw_state = CAM_HW_STATE_POWER_UP
    readPc,      \* where a cam_cpas_hw_reg_read of each client is
    lastOp,      \* the operation of the last step (a history variable)
    lastVote,    \* the client and translated vote of the last update_axi
    startOk,     \* the last step was a start that returned 0
    irqCount,    \* cpas_core->irq_count
    irqIn        \* the IRQ handlers between their increment and decrement

vars == <<node, axi, camnoc, clkRate, niu, hw, calls, streamon, powered,
          registered, started, ahbLevel, ahbBus, hwUp, readPc, lastOp, lastVote,
          startOk, irqCount, irqIn>>

Snap == [node |-> node, axi |-> axi, camnoc |-> camnoc, clkRate |-> clkRate,
         niu |-> niu, hw |-> hw, calls |-> <<>>,
         streamon |-> streamon, powered |-> powered,
         registered |-> registered, started |-> started,
         ahbLevel |-> ahbLevel, ahbBus |-> ahbBus, hwUp |-> hwUp,
         irqCount |-> irqCount, irqIn |-> irqIn]

Commit(S) ==
    /\ CommitVote(S)
    /\ streamon' = S.streamon
    /\ powered' = S.powered
    /\ registered' = S.registered
    /\ started' = S.started
    /\ ahbLevel' = S.ahbLevel
    /\ ahbBus' = S.ahbBus
    /\ hwUp' = S.hwUp
    /\ irqCount' = S.irqCount
    /\ irqIn' = S.irqIn
    /\ UNCHANGED readPc

\* one collaborator call of the lifecycle that may fail
Ext(S, kind) == Outcomes(S, <<Call(kind, 0, 0, 0)>>)

\* cam_cpas_util_vote_bus_client_level: nothing to do at the current level;
\* curr_vote_level changes only when the request succeeds
VoteBusClientLevel(T, level) ==
    IF level = T.ahbBus THEN {[ok |-> TRUE, st |-> T]}
    ELSE {[ok |-> o.ok, st |-> IF o.ok THEN [o.st EXCEPT !.ahbBus = level] ELSE o.st]
          : o \in Ext(T, "ahb")}

\* Seeded fault: the bus is voted at the client's own level, not the highest.
ApplyClientAhbVoteNoMax(S, c, level) ==
    LET T == [S EXCEPT !.ahbLevel[c] = level]
        bus == VoteBusClientLevel(T, level)
        clk(o) == IF ~o.ok \/ T.streamon = 0 THEN {o} ELSE Ext(o.st, "ahbclk")
    IN  IF S.ahbLevel[c] = level THEN {[ok |-> TRUE, st |-> S]}
        ELSE IF level = S.ahbBus THEN {[ok |-> TRUE, st |-> T]}
        ELSE UNION {clk(o) : o \in bus}

(***************************************************************************)
(* cam_cpas_util_apply_client_ahb_vote (absolute votes)                    *)
(***************************************************************************)
ApplyClientAhbVote(S, c, level) ==
    LET T == [S EXCEPT !.ahbLevel[c] = level]
        highest == Max({T.ahbLevel[other] : other \in Clients})
        bus == VoteBusClientLevel(T, highest)
        \* cam_soc_util_set_clk_rate_level while streaming
        clk(o) == IF ~o.ok \/ T.streamon = 0 THEN {o} ELSE Ext(o.st, "ahbclk")
    IN  IF S.ahbLevel[c] = level THEN {[ok |-> TRUE, st |-> S]}
        ELSE IF level = S.ahbBus THEN {[ok |-> TRUE, st |-> T]}
        ELSE UNION {clk(o) : o \in bus}

(***************************************************************************)
(* cam_cpas_util_create_vote_all_paths: path0's bandwidth on every client  *)
(* tree node, transaction type outermost                                   *)
(***************************************************************************)
AllPathsVote(c, e) ==
    LET slots == SetToSortSeq({<<t, p>> \in Trans \X Paths : ClientNode[c, p, t] # NoNode},
                              LAMBDA a, b : a[1] < b[1] \/ (a[1] = b[1] /\ a[2] < b[2]))
    IN  [path0 |-> e,
         paths |-> [i \in 1 .. Len(slots) |->
                      [e EXCEPT !.trans = slots[i][1], !.path = slots[i][2]]]]

NoVote == [client |-> "none"]

\* the memset vote of stop and of the start failure path
ZeroPath == [path |-> 0, trans |-> 0, camnoc |-> 0, ab |-> 0, ib |-> 0]

\* cam_cpas_util_translate_client_paths: UAPI path ids to internal ones,
\* in place; an id past CAM_CPAS_PATH_DATA_MAX fails the call
TranslatePath(p) ==
    IF p >= ConsoOffset THEN MaxGranPaths + (p % MaxGranPaths) ELSE p % MaxGranPaths

TranslateClientPaths(vote) ==
    LET tr(e) == [e EXCEPT !.path = TranslatePath(e.path)]
        paths == [i \in DOMAIN vote.paths |-> tr(vote.paths[i])]
    IN  [ok |-> \A i \in DOMAIN paths : paths[i].path < NumPaths,
         vote |-> [path0 |-> tr(vote.path0), paths |-> paths]]

StartAxiVote(c, raw) ==
    IF raw.std THEN [ok |-> TRUE, vote |-> AllPathsVote(c, raw.path0)]
    ELSE TranslateClientPaths(raw)

\* the start vote is refused when every path is zero
ValidStart(raw) ==
    \E e \in ToSet(IF raw.std THEN <<raw.path0>> ELSE raw.paths) :
        e.camnoc # 0 \/ e.ab # 0 \/ e.ib # 0

(***************************************************************************)
(* The operations                                                          *)
(***************************************************************************)
Init ==
    /\ VoteInit
    /\ streamon = 0
    /\ powered = FALSE
    /\ registered = [c \in Clients |-> FALSE]
    /\ started = [c \in Clients |-> FALSE]
    /\ ahbLevel = [c \in Clients |-> 0]
    /\ ahbBus = 0
    /\ hwUp = FALSE
    /\ readPc = [c \in Clients |-> "idle"]
    /\ lastOp = "none"
    /\ lastVote = NoVote
    /\ startOk = FALSE
    /\ irqCount = 0
    /\ irqIn = {}

\* cam_cpas_hw_register_client
Register(c) ==
    /\ lastOp' = "register" /\ lastVote' = NoVote /\ startOk' = FALSE
    /\ ~registered[c]
    /\ registered' = [registered EXCEPT ![c] = TRUE]
    /\ calls' = <<>>
    /\ UNCHANGED <<node, axi, camnoc, clkRate, niu, hw, streamon, powered,
                   started, ahbLevel, ahbBus, hwUp, readPc, irqCount, irqIn>>

\* cam_cpas_hw_unregister_client
Unregister(c) ==
    /\ lastOp' = "unregister" /\ lastVote' = NoVote /\ startOk' = FALSE
    /\ registered[c] /\ ~started[c]
    /\ registered' = [registered EXCEPT ![c] = FALSE]
    /\ calls' = <<>>
    /\ UNCHANGED <<node, axi, camnoc, clkRate, niu, hw, streamon, powered,
                   started, ahbLevel, ahbBus, hwUp, readPc, irqCount, irqIn>>

\* the remove_ahb_vote and remove_axi_vote exits of start: the AXI removal's
\* result is only logged, and start returns the AHB removal's
RemoveAhbVote(S, c) ==
    \E r \in ApplyClientAhbVote(S, c, 0) : Commit(r.st) /\ startOk' = r.ok

RemoveAxiVote(S, c) ==
    \E r \in ApplyClientAxiVote(S, c, AllPathsVote(c, ZeroPath)) :
        RemoveAhbVote(r.st, c)

MarkStarted(S, c) == [S EXCEPT !.started[c] = TRUE, !.streamon = @ + 1]

\* Seeded fault: power-up leaves applied_priority as it was.
PoweredUpNoReset(S) ==
    [S EXCEPT !.hw.niuReg = [n \in Nius |-> PowerOnPriority], !.hwUp = TRUE]

\* power_on succeeded: reset_niu_priorities, POWER_UP
PoweredUp(S) ==
    [S EXCEPT !.hw.niuReg = [n \in Nius |-> PowerOnPriority],
              !.niu = IF EnableSmartQos
                      THEN [n \in Nius |-> [S.niu[n] EXCEPT !.applied = 0]]
                      ELSE S.niu,
              !.hwUp = TRUE]

\* Seeded fault: a failed power_on disables the resources but does not
\* leave through remove_axi_vote.
FirstStartPowerOnFallThrough(S, c) ==
    \E d \in ApplyDefaultAxiVote(S, TRUE) :
      IF ~d.ok THEN RemoveAhbVote(d.st, c)
      ELSE \E e \in Ext([d.st EXCEPT !.irqCount = 1], "enable") :
        IF ~e.ok THEN RemoveAxiVote([e.st EXCEPT !.irqCount = 0], c)
        ELSE \E p \in Ext([e.st EXCEPT !.powered = TRUE], "power_on") :
          IF ~p.ok THEN Commit(MarkStarted([p.st EXCEPT !.powered = FALSE, !.irqCount = 0], c))
                        /\ startOk' = FALSE
          ELSE Commit(MarkStarted(PoweredUp(p.st), c)) /\ startOk' = TRUE

\* Seeded fault: a failed enable_resources leaves irq_count at 1.
FirstStartNoIrqReset(S, c) ==
    \E d \in ApplyDefaultAxiVote(S, TRUE) :
      IF ~d.ok THEN RemoveAhbVote(d.st, c)
      ELSE \E e \in Ext([d.st EXCEPT !.irqCount = 1], "enable") :
        IF ~e.ok THEN RemoveAxiVote(e.st, c)
        ELSE \E p \in Ext([e.st EXCEPT !.powered = TRUE], "power_on") :
          IF ~p.ok THEN RemoveAxiVote([p.st EXCEPT !.powered = FALSE, !.irqCount = 0], c)
          ELSE Commit(MarkStarted(PoweredUp(p.st), c)) /\ startOk' = TRUE

\* the first client powers CPAS up after its votes are in place
FirstStart(S, c) ==
    \E d \in ApplyDefaultAxiVote(S, TRUE) :
      IF ~d.ok THEN RemoveAhbVote(d.st, c)
      ELSE \E e \in Ext([d.st EXCEPT !.irqCount = 1], "enable") :
        IF ~e.ok THEN RemoveAxiVote([e.st EXCEPT !.irqCount = 0], c)
        ELSE \E p \in Ext([e.st EXCEPT !.powered = TRUE], "power_on") :
          IF ~p.ok THEN RemoveAxiVote([p.st EXCEPT !.powered = FALSE, !.irqCount = 0], c)
          ELSE Commit(MarkStarted(PoweredUp(p.st), c)) /\ startOk' = TRUE

\* cam_cpas_hw_start
Start(c) ==
    /\ lastOp' = "start" /\ lastVote' = NoVote
    /\ registered[c] /\ ~started[c]
    /\ \E level \in AhbLevels \ {0}, raw \in StartVotes[c] :
         /\ ValidStart(raw)
         /\ \E a \in ApplyClientAhbVote(Snap, c, level) :
              IF ~a.ok THEN Commit(a.st) /\ startOk' = FALSE
              ELSE IF ~StartAxiVote(c, raw).ok THEN RemoveAhbVote(a.st, c)
              ELSE \E v \in ApplyClientAxiVote(a.st, c, StartAxiVote(c, raw).vote) :
                IF ~v.ok THEN RemoveAhbVote(v.st, c)
                ELSE IF v.st.streamon = 0 THEN FirstStart(v.st, c)
                ELSE Commit(MarkStarted(v.st, c)) /\ startOk' = TRUE

\* the vote removal of stop; each failure ends the stop
StopVotes(S, c) ==
    \E a \in ApplyClientAhbVote(S, c, 0) :
      IF ~a.ok THEN Commit(a.st)
      ELSE \E v \in ApplyClientAxiVote(a.st, c, AllPathsVote(c, ZeroPath)) :
        IF ~v.ok \/ v.st.streamon > 0 THEN Commit(v.st)
        ELSE \E d \in ApplyDefaultAxiVote(v.st, FALSE) : Commit(d.st)

\* the handlers that finish while stop waits on irq_count_wq, n being the
\* count after its atomic_dec: the wait ends once the count is at most 0,
\* or after HZ, when the handlers still inside stay there
DrainFinishers(in, n) ==
    IF n <= 0 THEN {{}}
    ELSE {F \in SUBSET in : \/ Cardinality(F) = n
                            \/ Cardinality(F) < n /\ (IrqTimeout \/ F = in)}

\* Seeded fault: stop waits without dropping its own count.
IrqDrainNoDec(S) ==
    {[S EXCEPT !.irqCount = S.irqCount - Cardinality(F), !.irqIn = S.irqIn \ F]
       : F \in DrainFinishers(S.irqIn, S.irqCount)}

\* atomic_dec(irq_count), then wait_event_timeout(irq_count_wq, count <= 0,
\* HZ); a timeout is only logged.  Each finishing handler does its register
\* work with CPAS still powered.
IrqDrain(S) ==
    {[S EXCEPT !.irqCount = S.irqCount - 1 - Cardinality(F), !.irqIn = S.irqIn \ F]
       : F \in DrainFinishers(S.irqIn, S.irqCount - 1)}

\* Seeded fault: the last-client test is off by one.
StopFromOffByOne(S, c) ==
    IF S.streamon > 1 THEN StopVotes(S, c)
    ELSE \E i \in Ext(S, "disable_irq") :
      IF ~i.ok THEN Commit(i.st)
      ELSE \E w \in IrqDrain(i.st) : \E d \in Ext(w, "disable") :
        IF ~d.ok THEN Commit(d.st)
        ELSE StopVotes([d.st EXCEPT !.powered = FALSE, !.hwUp = FALSE], c)

\* the body of cam_cpas_hw_stop once the client is marked stopped: the last
\* client disables the IRQ and the resources (either failure ends the stop
\* with the votes still in place), then every client takes its votes out
StopFrom(S, c) ==
    IF S.streamon > 0 THEN StopVotes(S, c)
    ELSE \E i \in Ext(S, "disable_irq") :
      IF ~i.ok THEN Commit(i.st)
      ELSE \E w \in IrqDrain(i.st) : \E d \in Ext(w, "disable") :
        IF ~d.ok THEN Commit(d.st)
        ELSE StopVotes([d.st EXCEPT !.powered = FALSE, !.hwUp = FALSE], c)

\* Seeded fault: stop does not check that the client was started.
StopUnchecked(c) ==
    /\ lastOp' = "stop" /\ lastVote' = NoVote /\ startOk' = FALSE
    /\ StopFrom([Snap EXCEPT !.started[c] = FALSE, !.streamon = @ - 1], c)

\* cam_cpas_hw_stop
Stop(c) ==
    /\ lastOp' = "stop" /\ lastVote' = NoVote /\ startOk' = FALSE
    /\ started[c]
    /\ StopFrom([Snap EXCEPT !.started[c] = FALSE, !.streamon = @ - 1], c)

\* cam_cpas_hw_update_axi_vote
UpdateAxiVote(c) ==
    /\ lastOp' = "update_axi" /\ startOk' = FALSE
    /\ started[c]
    /\ \E raw \in UpdateVotes[c] :
         LET t == TranslateClientPaths(raw)
         IN  /\ lastVote' = IF t.ok THEN [client |-> c, vote |-> t.vote] ELSE NoVote
             /\ IF ~t.ok THEN Commit(Snap)
                ELSE \E r \in ApplyClientAxiVote(Snap, c, t.vote) : Commit(r.st)

\* cam_cpas_hw_update_ahb_vote: a 0 level is taken as SVS
UpdateAhbVote(c) ==
    /\ lastOp' = "update_ahb" /\ lastVote' = NoVote /\ startOk' = FALSE
    /\ started[c]
    /\ \E level \in AhbLevels :
         \E r \in ApplyClientAhbVote(Snap, c, IF level = 0 THEN SvsLevel ELSE level) :
            Commit(r.st)

RegAccess(kind, c) ==
    <<[kind |-> kind, tgt |-> c, ab |-> 0, ib |-> 0, pw |-> powered, ok |-> TRUE]>>

\* cam_cpas_hw_reg_write: under client_mutex, started checked with the write
RegWrite(c) ==
    /\ lastOp' = "reg_write" /\ lastVote' = NoVote /\ startOk' = FALSE
    /\ c \in ReadClients /\ started[c]
    /\ calls' = RegAccess("write", c)
    /\ UNCHANGED <<node, axi, camnoc, clkRate, niu, hw, streamon, powered,
                   registered, started, ahbLevel, ahbBus, hwUp, readPc,
                   irqCount, irqIn>>

\* cam_cpas_hw_reg_read: the started check, without a lock ...
RegReadCheck(c) ==
    /\ lastOp' = "reg_read" /\ lastVote' = NoVote /\ startOk' = FALSE
    /\ c \in ReadClients /\ readPc[c] = "idle" /\ started[c]
    /\ readPc' = [readPc EXCEPT ![c] = "checked"]
    /\ calls' = <<>>
    /\ UNCHANGED <<node, axi, camnoc, clkRate, niu, hw, streamon, powered,
                   registered, started, ahbLevel, ahbBus, hwUp, irqCount, irqIn>>

\* ... then the read
RegRead(c) ==
    /\ lastOp' = "reg_read" /\ lastVote' = NoVote /\ startOk' = FALSE
    /\ readPc[c] = "checked"
    /\ readPc' = [readPc EXCEPT ![c] = "idle"]
    /\ calls' = RegAccess("read", c)
    /\ UNCHANGED <<node, axi, camnoc, clkRate, niu, hw, streamon, powered,
                   registered, started, ahbLevel, ahbBus, hwUp, irqCount, irqIn>>

\* cam_cpas_log_event -> cam_cpas_update_monitor_array: no lock and no
\* power check; it reads the CAMNOC fill-level registers and, with SmartQoS,
\* every NIU's priority LUT (the RPMH reads are skipped when no client
\* streams, the CAMNOC ones are not)
LogEvent(c) ==
    /\ lastOp' = "log_event" /\ lastVote' = NoVote /\ startOk' = FALSE
    /\ c \in ReadClients
    /\ calls' = RegAccess("read", c)
    /\ UNCHANGED <<node, axi, camnoc, clkRate, niu, hw, streamon, powered,
                   registered, started, ahbLevel, ahbBus, hwUp, readPc,
                   irqCount, irqIn>>

\* The CPAS IRQ handler (its hard IRQ half and its work item): it enters
\* only through atomic_inc_not_zero(irq_count) ...
IrqEnter(h) ==
    /\ lastOp' = "irq" /\ lastVote' = NoVote /\ startOk' = FALSE
    /\ h \notin irqIn /\ irqCount > 0
    /\ irqCount' = irqCount + 1 /\ irqIn' = irqIn \cup {h}
    /\ calls' = <<>>
    /\ UNCHANGED <<node, axi, camnoc, clkRate, niu, hw, streamon, powered,
                   registered, started, ahbLevel, ahbBus, hwUp, readPc>>

\* ... reads and clears the IRQ status registers, then atomic_dec and
\* wake_up(irq_count_wq)
IrqHandle(h) ==
    /\ lastOp' = "irq" /\ lastVote' = NoVote /\ startOk' = FALSE
    /\ h \in irqIn
    /\ irqCount' = irqCount - 1 /\ irqIn' = irqIn \ {h}
    /\ calls' = <<[kind |-> "read", tgt |-> 0, ab |-> 0, ib |-> 0, pw |-> powered,
                   ok |-> TRUE]>>
    /\ UNCHANGED <<node, axi, camnoc, clkRate, niu, hw, streamon, powered,
                   registered, started, ahbLevel, ahbBus, hwUp, readPc>>

Next ==
    \/ \E h \in IrqHandlers : IrqEnter(h) \/ IrqHandle(h)
    \/ \E c \in Clients :
        \/ Register(c) \/ Unregister(c)
        \/ Start(c) \/ Stop(c)
        \/ UpdateAxiVote(c) \/ UpdateAhbVote(c)
        \/ RegWrite(c) \/ RegReadCheck(c) \/ RegRead(c)
        \/ LogEvent(c)

Spec == Init /\ [][Next]_vars

(***************************************************************************)
(* Properties                                                              *)
(***************************************************************************)
Level == 0 .. BwMod - 1
PortRec == [ab : Nat, ib : Nat]
CallRec == [kind : STRING, tgt : Clients \cup Nius \cup Nat, ab : Nat, ib : Nat,
            pw : BOOLEAN, ok : BOOLEAN]

TypeOK ==
    /\ node \in [Nodes -> [camnoc : Level, ab : Level, ib : Level]]
    /\ axi \in [AxiPorts -> [ab : Level, ib : Level, additional : Level,
                             appliedAb : Nat, appliedIb : Nat]]
    /\ camnoc \in [CamnocPorts -> [bw : Level, additional : Level,
                                   appliedAb : Nat, appliedIb : Nat]]
    /\ clkRate \in Nat
    /\ niu \in [Nius -> [curr : Nat, applied : Nat]]
    /\ hw \in [mnoc : [AxiPorts -> PortRec], camnoc : [CamnocPorts -> PortRec],
               clk : Nat, niuReg : [Nius -> Nat]]
    /\ calls \in Seq(CallRec)
    /\ streamon \in 0 .. Cardinality(Clients)
    /\ powered \in BOOLEAN /\ hwUp \in BOOLEAN
    /\ registered \in [Clients -> BOOLEAN]
    /\ started \in [Clients -> BOOLEAN]
    /\ ahbLevel \in [Clients -> AhbLevels]
    /\ ahbBus \in AhbLevels
    /\ readPc \in [Clients -> {"idle", "checked"}]
    /\ lastOp \in {"none", "register", "unregister", "start", "stop", "update_axi",
                   "update_ahb", "reg_write", "reg_read", "log_event", "irq"}
    /\ startOk \in BOOLEAN
    /\ irqCount \in -1 .. 1 + Cardinality(IrqHandlers)
    /\ irqIn \subseteq IrqHandlers

\* After any sequence of votes, starts, stops and failed bus calls, every
\* inner tree node holds exactly the sum of its children's ab and ib, and of
\* their camnoc (halved per child under SUM_INTERLEAVE): the incremental
\* subtract-old/add-new walk of cam_cpas_util_apply_client_axi_vote never
\* drifts from a bottom-up recomputation.
TreeConsistent ==
    \A n \in Nodes : Children(n) # {} =>
        /\ node[n].ab = MapThenSumSet(LAMBDA m : node[m].ab, Children(n)) % BwMod
        /\ node[n].ib = MapThenSumSet(LAMBDA m : node[m].ib, Children(n)) % BwMod
        /\ node[n].camnoc =
              MapThenSumSet(LAMBDA m : Contribution(n, node[m]), Children(n)) % BwMod

\* The applied_ab_bw / applied_ib_bw the driver keeps for every MNOC and
\* CAMNOC port is what the interconnect last accepted, whatever bus calls
\* failed in between (cam_cpas_util_vote_bus_client_bw and its callers).
AppliedMatchesBackend ==
    /\ \A p \in AxiPorts :
          hw.mnoc[p] = [ab |-> axi[p].appliedAb, ib |-> axi[p].appliedIb]
    /\ \A q \in CamnocPorts :
          hw.camnoc[q] = [ab |-> camnoc[q].appliedAb, ib |-> camnoc[q].appliedIb]

\* While any client is started, CPAS resources are enabled and the hardware
\* state is POWER_UP: the start and stop sequences, with every failure exit,
\* never leave a started client on unpowered hardware.
PoweredWhileStarted ==
    (\E c \in Clients : started[c]) => powered /\ hwUp

\* While CPAS is powered up, a nonzero applied_priority of an NIU is what
\* its priority LUT register holds, so cam_cpas_apply_smart_qos skipping an
\* NIU whose curr_priority equals applied_priority leaves it correct.
NiuRecordMatchesHw ==
    powered /\ hwUp =>
        \A n \in Nius : niu[n].applied # 0 => hw.niuReg[n] = niu[n].applied

QosCall(x) == x.kind \in {"mmio", "scm"}

\* the RT ports' total ab drops in this step
RtDemandDrops ==
    MapThenSumSet(LAMBDA p : axi'[p].ab, RtPorts)
      < MapThenSumSet(LAMBDA p : axi[p].appliedAb, RtPorts)

\* a step with one client AXI vote: an update, a stop, or a start that
\* succeeded (a failed start may take its vote back out in the same step)
SingleAxiVoteStep ==
    \/ lastOp' \in {"update_axi", "stop"}
    \/ lastOp' = "start" /\ \E c \in Clients : started'[c] /\ ~started[c]

\* In a step that both reprograms SmartQoS priorities and votes MNOC
\* bandwidth, the priorities go first exactly when the real-time bandwidth
\* falls (cam_cpas_util_apply_client_axi_vote's ordering rule).
QosOrderFollowsRtTrend ==
    [][ SingleAxiVoteStep =>
        LET qs == {i \in DOMAIN calls' : QosCall(calls'[i])}
            ms == {i \in DOMAIN calls' : calls'[i].kind = "mnoc"}
        IN  qs # {} /\ ms # {} => (Min(qs) < Min(ms) <=> RtDemandDrops)
      ]_vars

\* Once no client is streaming, the vote tree, the additional_bw of every
\* MNOC port and every MNOC grant at the interconnect are back to zero:
\* the start, update and stop paths together never leave MNOC bandwidth
\* voted for a client that is gone (spec: start then stop restores the
\* ports' applied bandwidth to the baseline).
IdleHoldsNoBandwidth ==
    streamon = 0 =>
        /\ \A n \in Nodes : node[n] = ZeroBw
        /\ \A p \in AxiPorts : axi[p].additional = 0 /\ hw.mnoc[p] = [ab |-> 0, ib |-> 0]

\* Once no client is streaming, no CAMNOC port holds a grant at the
\* interconnect either: cam_cpas_camnoc_set_vote_axi_clk_rate votes the
\* default floor only "if any client is started" (spec, step 8).
IdleHoldsNoCamnocBandwidth ==
    streamon = 0 =>
        \A q \in CamnocPorts : camnoc[q].additional = 0
                               /\ hw.camnoc[q] = [ab |-> 0, ib |-> 0]

\* Once no client is streaming, neither MNOC nor CAMNOC bandwidth is held
\* for anyone: every start that failed, every update and every stop,
\* including a stop whose teardown failed (spec 4.1: teardown failures do
\* not abort the stop), has taken its votes back out.
IdleReleasesAllBandwidth ==
    IdleHoldsNoBandwidth /\ IdleHoldsNoCamnocBandwidth

\* While a client streams, the interconnect grants every non-virtual MNOC
\* port at least the ab (and, where ib is voted, the ib) the tree asks of
\* it, and every CAMNOC port at least its camnoc_bw: no later call of the
\* lifecycle overwrites a client's vote with a smaller one.
GrantedCoversDemand ==
    streamon > 0 =>
        /\ \A p \in AxiPorts \ VirtPorts :
              /\ hw.mnoc[p].ab >= axi[p].ab
              /\ p \in IbVotingPorts => hw.mnoc[p].ib >= axi[p].ib
        /\ ~ControlCamnocClk => \A q \in CamnocPorts : hw.camnoc[q].ib >= camnoc[q].bw

\* no external call of the last step returned an error
NoCallFailed == \A i \in DOMAIN calls : calls[i].ok

\* the client leaf [k][transac] a vote entry lands on: its own node, or the
\* first node whose constituent_paths hold the raw path
EntryTarget(c, e) ==
    IF ClientNode[c, e.path, e.trans] # NoNode THEN <<e.path, e.trans>>
    ELSE <<Min(SumPaths(c, e.path, e.trans)), e.trans>>

\* the leaves that consolidated raw paths of the vote land on
ConsoTargets(c, vote) ==
    {EntryTarget(c, vote.paths[i]) :
        i \in {j \in DOMAIN vote.paths :
                 ClientNode[c, vote.paths[j].path, vote.paths[j].trans] = NoNode}}

\* the bandwidth of every entry of the vote that lands on leaf kt, summed
VoteTotal(c, vote, kt) ==
    LET is == {i \in DOMAIN vote.paths : EntryTarget(c, vote.paths[i]) = kt}
        sum(f(_)) == MapThenSumSet(LAMBDA i : f(vote.paths[i]), is) % BwMod
    IN  [camnoc |-> sum(LAMBDA e : e.camnoc), ab |-> sum(LAMBDA e : e.ab),
         ib |-> sum(LAMBDA e : e.ib)]

\* every leaf a consolidated path of the last vote lands on holds the
\* whole of what the vote asks of it
LeavesHoldLastVote ==
    LET c == lastVote.client
        v == lastVote.vote
    IN  c \in TreeClients =>
            \A kt \in ConsoTargets(c, v) :
                node[ClientNode[c, kt[1], kt[2]]] = MirrorBw(VoteTotal(c, v, kt))

\* The AHB bus client is voted at least at the level of every started
\* client (cam_cpas_util_apply_client_ahb_vote takes the highest level over
\* all clients).
AhbBusCoversStartedClients ==
    \A c \in Clients : started[c] => ahbBus >= ahbLevel[c]

\* the last update_axi_vote returned 0: its paths translated and
\* consolidated, and no bus or QoS call failed
VoteReturnedOk ==
    /\ lastVote # NoVote
    /\ lastVote.client \in TreeClients =>
          ConsolidatePathVotes(lastVote.client, lastVote.vote).ok
    /\ NoCallFailed

\* A vote that returns success is in effect. A start that returns 0 has
\* started the client (spec: on failure of any step, start rolls back and
\* propagates the error), and a start that succeeds has the AHB bus at the
\* client's level or above, even when it retries a start whose bus vote
\* failed. An update_axi_vote that returns 0 has been
\* applied whole: every raw path consolidated into a leaf adds to it,
\* whatever the order of the entries (spec 4.2 step 2: the first occurrence
\* creates the entry, later ones accumulate); every port is granted what
\* the tree asks, so the caller's retry of a vote that failed part way
\* (spec 4.2 step 7) brings the interconnect in line; and SmartQoS
\* priorities written in the step are recorded as applied (spec 4.3).
SuccessfulVoteIsApplied ==
    [][ /\ lastOp' = "start" /\ startOk' => \E c \in Clients : started'[c] /\ ~started[c]
        /\ lastOp' = "start" /\ (\E c \in Clients : started'[c] /\ ~started[c]) =>
              AhbBusCoversStartedClients'
        /\ lastOp' = "update_axi" /\ VoteReturnedOk' =>
              /\ LeavesHoldLastVote'
              /\ GrantedCoversDemand'
              /\ (\E i \in DOMAIN calls' : QosCall(calls'[i])) =>
                    \A n \in Nius : niu'[n].applied = niu'[n].curr ]_vars

\* After an AXI update or stop in which SmartQoS priorities were written
\* and no call failed, every NIU's applied_priority is its curr_priority
\* (spec 4.3: after the apply, applied_priority matches), so the next
\* calculation compares against what the NIUs hold.
QosApplyRecordsPriorities ==
    [][ /\ lastOp' \in {"update_axi", "stop"}
        /\ \E i \in DOMAIN calls' : QosCall(calls'[i])
        /\ NoCallFailed'
        => \A n \in Nius : niu'[n].applied = niu'[n].curr ]_vars

\* Every CPAS register access, by the CPU (a SmartQoS LUT write, a client's
\* reg_read or reg_write, a monitor snapshot of log_event), happens while CPAS clocks and regulators are on.
RegisterAccessOnlyWhenPowered ==
    \A i \in DOMAIN calls : calls[i].kind \in {"mmio", "read", "write"} => calls[i].pw

\* irq_count never owes more than CPAS being up and the IRQ handlers inside:
\* every failed first start (enable_resources or power_on) resets the count
\* set at 1797, and this holds across stops whose HZ wait timed out, later
\* restarts and failed disables.  Otherwise atomic_inc_not_zero would let a
\* handler in on powered-down CPAS, and the last stop's wait would need its
\* timeout with no handler left to finish.
IrqCountOwed ==
    irqCount <= (IF hwUp THEN 1 ELSE 0) + Cardinality(irqIn)
=============================================================================
