\* Untrusted callers: any handle may be released, twice or while a kernel
\* thread is inside get_cpu_buf; CPU and SMMU mapping calls may fail.
CONSTANTS
    m1 = m1
    m2 = m2
    k1 = k1
    k2 = k2
    BufqMax = 3
    Fds = {3, 4}
    MmuHdls = {m1, m2}
    HdlLists <- MCHdlLists
    AllocFlags <- MCAllocFlags
    MapFlags <- MCMapFlags
    Holders = {k1, k2}
    FailingCalls = {"cpu_map", "smmu_map", "smmu_unmap"}
    Untrusted = TRUE
INIT Init
NEXT Next
INVARIANT NoStaleMapping
