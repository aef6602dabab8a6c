\* A DYNAMIC vote whose OPP sits at the TURBO corner; the bus calls succeed.
CONSTANTS
    cpas = cpas
    csiphy = csiphy
    cci = cci
    Clients = {cpas, csiphy, cci}
    NumUsecases = 4
    Corners <- MCCorners
    FailingCalls = {}
INIT Init
NEXT Next
INVARIANT BusCoversClientVotes
