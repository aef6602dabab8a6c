CONSTANTS
    ife = ife  icp = icp  cdm = cdm
    IfeWr0 = IfeWr0  IfeWr1 = IfeWr1  Niu0 = Niu0  Niu1 = Niu1
    RtRoot = RtRoot  IcpRd = IcpRd  NrtRoot = NrtRoot  NoNode = NoNode
    Clients = {ife, icp}
    TreeClients = {ife, icp}
    Nodes = {IfeWr0, IfeWr1, Niu0, Niu1, RtRoot, IcpRd, NrtRoot}
    Parent <- MCParent
    MergeType <- MCMergeType
    NumPaths = 3
    NumTrans = 2
    ClientNode <- MCClientNode
    Constituents <- MCConstituents
    NumAxiPorts = 2
    NumCamnocPorts = 2
    NumVirtPorts = 1
    RootPortIdx <- MCRootPortIdx
    RootCamnocIdx <- MCRootCamnocIdx
    RtPorts = {0}
    VirtPorts = {}
    IbVotingPorts = {0, 1}
    NiuOrder <- MCNiuOrder
    NiuSize <- MCNiuSize
    CamnocMaxNeeded = {}
    BusWidthFactor <- MCBusWidthFactor
    RtBwVotingNeeded = FALSE
    ControlCamnocClk = FALSE
    EnableSmartQos = TRUE
    SecureQosUpdate = FALSE
    CamnocAxiClkBwMargin = 0
    CamnocAxiMinIbBw = 0
    CamnocBusWidth = 1
    DefaultAxiBw = 1
    MinMnocAbBw = 2
    MinMnocIbBw = 2
    MinCamnocAbBw = 2
    MinCamnocIbBw = 3
    BwWidth = 5
    FailingCalls = {"mnoc", "camnoc"}
    RtWrPriorityMin = 1
    RtWrPriorityMax = 6
    AhbLevels = {0, 1}
    SvsLevel = 1
    StartVotes <- MCStartVotes
    UpdateVotes <- MCUpdateVotes
    ReadClients = {}
    PowerOnPriority = 0
    ConsoOffset = 4
    MaxGranPaths = 2
    IrqHandlers = {}
    IrqTimeout = FALSE
SPECIFICATION Spec
INVARIANTS
    TreeConsistent
    AppliedMatchesBackend
