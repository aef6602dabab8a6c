---------------------------- MODULE MC_CamMemMgr ----------------------------
(* Small instances of the memory manager: two SMMU handles, alloc and map   *)
(* called with one or two of them.                                          *)
EXTENDS CamMemMgr

CONSTANTS m1, m2, k1, k2

MCHdlLists   == {<<m1>>, <<m1, m2>>}
MCAllocFlags == {{"KMD", "HW_RW"}, {"HW_RW"}, {"KMD"}, {"SHARED"}}
MCMapFlags   == {{"HW_RW"}}
==============================================================================
