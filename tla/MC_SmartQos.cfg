CONSTANTS
    Nius = {n1, n2, n3}
    NiuSizeOf <- MCNiuSizeOf
    MaxCamnocBw = 10
    RtWrPriorityMin = 2
    RtWrPriorityMax = 6
SPECIFICATION Spec
INVARIANTS
    RampMatchesReference
    RampMonotone
