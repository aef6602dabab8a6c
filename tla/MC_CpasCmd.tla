------------------------------ MODULE MC_CpasCmd ------------------------------
(***************************************************************************)
(* Two clients and a ring of two entries, so a few events wrap it.         *)
(* MCCacheTypes gives two system caches the types 0 and 1.                 *)
(* MCCacheTypesSparse gives three caches the types 0, 2 and 0 (a device   *)
(* tree listing two caches of one type), so type 0 has two entries and    *)
(* type 1 passes cam_cpas_validate_cache_type but names no cache.          *)
(***************************************************************************)
EXTENDS CpasCmd

CONSTANTS c1, c2

MCCacheTypes == [i \in 0 .. 1 |-> i]
MCCacheTypesSparse == [i \in 0 .. 2 |-> IF i = 1 THEN 2 ELSE 0]
=============================================================================
