------------------------------ MODULE CpasLlcc ------------------------------
(***************************************************************************)
(* The system-cache (LLCC) slices of the camera CPAS driver                *)
(* (src/drivers/cam_cpas/cam_cpas_hw.c): soc_private->llcc_info[] holds    *)
(* one entry per cache of the device tree, with its type and an activation *)
(* count; the first activation of an entry activates its slice in the      *)
(* LLCC driver and the last deactivation deactivates it.                   *)
(*                                                                         *)
(* The functions are operators on a record L = [ref, active] (ref_cnt of   *)
(* every llcc_info entry, and whether the LLCC driver has the slice        *)
(* active) that return the set of [rc, st] outcomes, one for each way the  *)
(* LLCC driver calls can end.  Each cam_cpas_activate_cache and            *)
(* cam_cpas_deactivate_cache runs under hw_mutex.                          *)
(***************************************************************************)
EXTENDS Naturals, Integers, Sequences, FiniteSets

CONSTANTS
    NumCaches,     \* soc_private->num_caches
    CacheType,     \* llcc_info[i].type, for i in 0 .. NumCaches-1
    FailingLlcc    \* "activate", "deactivate": LLCC driver calls that may fail

Caches == 0 .. NumCaches - 1

ASSUME CacheType \in [Caches -> Nat]

\* return codes; any failure of the LLCC driver is written ELlcc
RcOk    == 0
EFault  == -14
ELlcc   == -5

Out(rc, st) == [rc |-> rc, st |-> st]

\* llcc_slice_activate / llcc_slice_deactivate of the LLCC driver: a slice
\* already in the asked state is left alone and 0 returned
LlccSliceSet(L, i, on) ==
    IF L.active[i] = on THEN {Out(RcOk, L)}
    ELSE {Out(RcOk, [L EXCEPT !.active[i] = on])}
         \cup (IF (IF on THEN "activate" ELSE "deactivate") \in FailingLlcc
               THEN {Out(ELlcc, L)} ELSE {})

\* cam_cpas_validate_cache_type: the type is compared with the number of
\* caches, not with the types the caches have
ValidCacheType(t) == NumCaches # 0 /\ t >= 0 /\ t < NumCaches

\* Seeded fault: the already-activated test counts the first activation.
ActivateCacheEarly(L, i) ==
    LET L1 == [L EXCEPT !.ref[i] = @ + 1]
    IN  IF L1.ref[i] >= 1 THEN {Out(RcOk, L1)}
        ELSE {IF o.rc = RcOk THEN o ELSE Out(o.rc, [o.st EXCEPT !.ref[i] = @ - 1])
              : o \in LlccSliceSet(L1, i, TRUE)}

\* cam_cpas_activate_cache: count up; the first activation activates the
\* slice, and a failure takes the count back down
ActivateCache(L, i) ==
    LET L1 == [L EXCEPT !.ref[i] = @ + 1]
    IN  IF L1.ref[i] > 1 THEN {Out(RcOk, L1)}
        ELSE {IF o.rc = RcOk THEN o ELSE Out(o.rc, [o.st EXCEPT !.ref[i] = @ - 1])
              : o \in LlccSliceSet(L1, i, TRUE)}

\* Seeded fault: the count is not taken back when the LLCC call fails.
DeactivateCacheNoCount(L, i) ==
    IF L.ref[i] = 0 THEN {Out(EFault, L)}
    ELSE IF L.ref[i] > 1 THEN {Out(RcOk, [L EXCEPT !.ref[i] = @ - 1])}
    ELSE {IF o.rc = RcOk THEN Out(RcOk, [o.st EXCEPT !.ref[i] = 0]) ELSE o
          : o \in LlccSliceSet(L, i, FALSE)}

\* cam_cpas_deactivate_cache: an unbalanced call is refused; the count goes
\* down before the LLCC call, whose failure is only returned
DeactivateCache(L, i) ==
    IF L.ref[i] = 0 THEN {Out(EFault, L)}
    ELSE LET L1 == [L EXCEPT !.ref[i] = @ - 1]
         IN  IF L1.ref[i] > 0 THEN {Out(RcOk, L1)}
             ELSE LlccSliceSet(L1, i, FALSE)

\* the loop of cam_cpas_(de)activate_cache_slice over every llcc_info entry
\* of the type, in index order: rc is the last entry's result
RECURSIVE ForEachCache(_, _, _, _)
ForEachCache(Op(_, _), L, rc, is) ==
    IF is = <<>> THEN {Out(rc, L)}
    ELSE UNION {ForEachCache(Op, o.st, o.rc, Tail(is)) : o \in Op(L, Head(is))}

CachesOfType(t) == SelectSeq([k \in 1 .. NumCaches |-> k - 1],
                             LAMBDA i : CacheType[i] = t)

\* cam_cpas_activate_cache_slice: an invalid type returns 0
ActivateCacheSlice(L, t) ==
    IF ~ValidCacheType(t) THEN {Out(RcOk, L)}
    ELSE ForEachCache(ActivateCache, L, RcOk, CachesOfType(t))

\* cam_cpas_deactivate_cache_slice
DeactivateCacheSlice(L, t) ==
    IF ~ValidCacheType(t) THEN {Out(RcOk, L)}
    ELSE ForEachCache(DeactivateCache, L, RcOk, CachesOfType(t))

LlccInit == [ref |-> [i \in Caches |-> 0], active |-> [i \in Caches |-> FALSE]]
=============================================================================
