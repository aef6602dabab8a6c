----------------------------- MODULE CpasMonitor -----------------------------
(***************************************************************************)
(* The CPAS monitor ring of src/drivers/cam_cpas/cam_cpas_hw.c: every      *)
(* logged event takes the next slot of monitor_entries[] through an atomic *)
(* increment of monitor_head (which starts at -1) taken modulo the ring    *)
(* size, and fills it; cam_cpas_dump_monitor_array prints the ring from    *)
(* its oldest entry.  Neither takes a lock.                                *)
(*                                                                         *)
(* An entry is modelled by the number of the event it records (1 for the   *)
(* first event logged, 0 for a slot never written); the snapshot of votes  *)
(* and registers it holds is left out.                                     *)
(***************************************************************************)
EXTENDS Naturals, Integers, Sequences

CONSTANTS
    MonitorMax,     \* CAM_CPAS_MONITOR_MAX_ENTRIES
    FullStateDump   \* cpas_core->full_state_dump (debugfs)

ASSUME MonitorMax \in Nat \ {0} /\ FullStateDump \in BOOLEAN

MonSlots == 0 .. MonitorMax - 1

\* Seeded fault: the slot is the counter itself, not taken modulo the ring.
IncMonitorHeadNoWrap(head) == [head |-> head + 1, slot |-> head + 1]

\* CAM_CPAS_INC_MONITOR_HEAD: atomic64_add_return, then the remainder by
\* the ring size is the slot to fill
IncMonitorHead(head) == [head |-> head + 1, slot |-> (head + 1) % MonitorMax]

\* the number of entries a dump prints, and the slot it starts from, for a
\* head read by cam_cpas_dump_monitor_array
DumpCount(head) ==
    IF head = -1 THEN 0
    ELSE IF head < MonitorMax THEN head
    ELSE MonitorMax

DumpOldest(head) ==
    IF head >= MonitorMax THEN (head + 1) % MonitorMax ELSE 0

\* cam_cpas_dump_monitor_array: the entries printed, in order
DumpMonitorArray(head, entries) ==
    IF ~FullStateDump \/ head = -1 THEN <<>>
    ELSE [i \in 1 .. DumpCount(head) |->
            entries[(DumpOldest(head) + i - 1) % MonitorMax]]

\* The events the ring is meant to hold after n events: the last
\* MonitorMax of them, oldest first.
LatestEvents(n) ==
    LET k == IF n < MonitorMax THEN n ELSE MonitorMax
    IN  [i \in 1 .. k |-> n - k + i]

MonInitEntries == [s \in MonSlots |-> 0]
=============================================================================
