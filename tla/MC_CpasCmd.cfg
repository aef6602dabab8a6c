\* Two clients, caches of types 0 and 1, both LLCC driver calls failing,
\* a ring of two entries and four events.
CONSTANTS
    c1 = c1
    c2 = c2
    Users = {c1, c2}
    NumCaches = 2
    CacheType <- MCCacheTypes
    ReqTypes = {0, 1, 2}
    FailingLlcc = {"activate", "deactivate"}
    MonitorMax = 2
    FullStateDump = TRUE
    MaxEvents = 4
SPECIFICATION Spec
INVARIANTS
    TypeOK
    RefCountMatchesHolders
    SliceActiveWhileHeld
