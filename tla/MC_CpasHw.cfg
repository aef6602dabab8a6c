CONSTANTS
    ife = ife  icp = icp  cdm = cdm
    IfeWr0 = IfeWr0  IfeWr1 = IfeWr1  Niu0 = Niu0  Niu1 = Niu1
    RtRoot = RtRoot  IcpRd = IcpRd  NrtRoot = NrtRoot  NoNode = NoNode
    Clients = {ife, icp, cdm}
    TreeClients = {ife, icp}
    Nodes = {IfeWr0, IfeWr1, Niu0, Niu1, RtRoot, IcpRd, NrtRoot}
    Parent <- MCParent
    MergeType <- MCMergeType
    NumPaths = 3
    NumTrans = 2
    ClientNode <- MCClientNode
    Constituents <- MCConstituents
    NumAxiPorts = 2
    NumCamnocPorts = 2
    NumVirtPorts = 1
    RootPortIdx <- MCRootPortIdx
    RootCamnocIdx <- MCRootCamnocIdx
    RtPorts = {0}
    VirtPorts = {}
    IbVotingPorts = {0, 1}
    NiuOrder <- MCNiuOrder
    NiuSize <- MCNiuSize
    CamnocMaxNeeded = {}
    BusWidthFactor <- MCBusWidthFactor
    RtBwVotingNeeded = FALSE
    ControlCamnocClk = FALSE
    EnableSmartQos = TRUE
    SecureQosUpdate = FALSE
    CamnocAxiClkBwMargin = 0
    CamnocAxiMinIbBw = 0
    CamnocBusWidth = 1
    DefaultAxiBw = 1
    MinMnocAbBw = 2
    MinMnocIbBw = 2
    MinCamnocAbBw = 2
    MinCamnocIbBw = 3
    BwWidth = 5
    FailingCalls = {}
    RtWrPriorityMin = 1
    RtWrPriorityMax = 6
    AhbLevels = {0, 1, 2}
    SvsLevel = 1
    StartVotes <- MCStartVotes
    UpdateVotes <- MCUpdateVotes
    ReadClients = {ife}
    PowerOnPriority = 0
    ConsoOffset = 4
    MaxGranPaths = 2
    IrqHandlers = {q1}
    IrqTimeout = FALSE
SPECIFICATION Spec
INVARIANTS
    TypeOK
    PoweredWhileStarted
    NiuRecordMatchesHw
    IdleHoldsNoBandwidth
    GrantedCoversDemand
    AhbBusCoversStartedClients
PROPERTIES
    QosOrderFollowsRtTrend
    QosApplyRecordsPriorities
