\* Caches of types 0, 2 and 0; clients ask for type 0 (two entries), 1 (no
\* cache) and 3 (past num_caches); both LLCC driver calls failing; a ring
\* of two entries.
CONSTANTS
    c1 = c1
    c2 = c2
    Users = {c1, c2}
    NumCaches = 3
    CacheType <- MCCacheTypesSparse
    ReqTypes = {0, 1, 3}
    FailingLlcc = {"activate", "deactivate"}
    MonitorMax = 2
    FullStateDump = TRUE
    MaxEvents = 3
SPECIFICATION Spec
PROPERTY
    CmdResultIsTruthful
