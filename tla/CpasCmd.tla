------------------------------- MODULE CpasCmd -------------------------------
(***************************************************************************)
(* The commands of cam_cpas_hw_process_cmd that act on the LLCC slices and *)
(* on the monitor ring (src/drivers/cam_cpas/cam_cpas_hw.c):               *)
(* ACTIVATE_LLC and DEACTIVATE_LLC (CpasLlcc), LOG_EVENT and LOG_VOTE       *)
(* (CpasMonitor), issued by camera clients, each client one thread.        *)
(*                                                                         *)
(* The LLCC commands are one step each (every cache entry is updated under *)
(* hw_mutex).  LOG_EVENT takes no lock: the head increment and the filling *)
(* of the entry are two steps, so other events and dumps run in between.   *)
(* A dump is one step.  The size checks of process_cmd only return         *)
(* -EINVAL and are left out.                                               *)
(***************************************************************************)
EXTENDS CpasLlcc, CpasMonitor, FiniteSets

CONSTANTS
    Users,         \* clients that send these commands
    ReqTypes,      \* cache types the clients ask for
    MaxEvents      \* bound on the events logged

ASSUME ReqTypes \subseteq Nat /\ MaxEvents \in Nat

VARIABLES
    llcc,      \* ref_cnt of every llcc_info entry, and the slices' state
    holds,     \* per client: the types it activated and has not deactivated
    head,      \* monitor_head
    entries,   \* monitor_entries[]
    writer,    \* per client: a LOG_EVENT between its increment and its write
    lastCmd    \* the command the last step finished and its result

vars == <<llcc, holds, head, entries, writer, lastCmd>>

Idle == [pc |-> "idle", slot |-> 0, ev |-> 0]
Done(op, arg, rc, out) == [op |-> op, arg |-> arg, rc |-> rc, out |-> out]

Init ==
    /\ llcc = LlccInit
    /\ holds = [u \in Users |-> {}]
    /\ head = -1
    /\ entries = MonInitEntries
    /\ writer = [u \in Users |-> Idle]
    /\ lastCmd = Done("none", 0, RcOk, <<>>)

\* CAM_CPAS_HW_CMD_ACTIVATE_LLC: a client activates a type it does not
\* hold, and holds it when the command returns 0
ActivateLlc(u) ==
    /\ writer[u].pc = "idle"
    /\ \E t \in ReqTypes \ holds[u] : \E o \in ActivateCacheSlice(llcc, t) :
         /\ llcc' = o.st
         /\ holds' = [holds EXCEPT ![u] = IF o.rc = RcOk THEN @ \cup {t} ELSE @]
         /\ lastCmd' = Done("activate", t, o.rc, <<>>)
    /\ UNCHANGED <<head, entries, writer>>

\* CAM_CPAS_HW_CMD_DEACTIVATE_LLC: a client gives back a type it holds,
\* whatever the command returns
DeactivateLlc(u) ==
    /\ writer[u].pc = "idle"
    /\ \E t \in holds[u] : \E o \in DeactivateCacheSlice(llcc, t) :
         /\ llcc' = o.st
         /\ holds' = [holds EXCEPT ![u] = @ \ {t}]
         /\ lastCmd' = Done("deactivate", t, o.rc, <<>>)
    /\ UNCHANGED <<head, entries, writer>>

\* CAM_CPAS_HW_CMD_LOG_EVENT -> cam_cpas_update_monitor_array: the head
\* increment ...
LogEventClaim(u) ==
    /\ writer[u].pc = "idle"
    /\ head + 1 < MaxEvents
    /\ LET h == IncMonitorHead(head)
       IN  /\ head' = h.head
           /\ writer' = [writer EXCEPT ![u] = [pc |-> "claimed", slot |-> h.slot,
                                               ev |-> h.head + 1]]
    /\ lastCmd' = Done("log_event", 0, RcOk, <<>>)
    /\ UNCHANGED <<llcc, holds, entries>>

\* ... and the filling of the entry it got
LogEventWrite(u) ==
    /\ writer[u].pc = "claimed"
    /\ entries' = [entries EXCEPT ![writer[u].slot] = writer[u].ev]
    /\ writer' = [writer EXCEPT ![u] = Idle]
    /\ lastCmd' = Done("log_event", 0, RcOk, <<>>)
    /\ UNCHANGED <<llcc, holds, head>>

\* CAM_CPAS_HW_CMD_LOG_VOTE -> cam_cpas_log_vote, whose monitor part is
\* cam_cpas_dump_monitor_array; it returns 0
LogVote(u) ==
    /\ writer[u].pc = "idle"
    /\ lastCmd' = Done("log_vote", 0, RcOk, DumpMonitorArray(head, entries))
    /\ UNCHANGED <<llcc, holds, head, entries, writer>>

Next ==
    \E u \in Users :
        \/ ActivateLlc(u) \/ DeactivateLlc(u)
        \/ LogEventClaim(u) \/ LogEventWrite(u)
        \/ LogVote(u)

Spec == Init /\ [][Next]_vars

-----------------------------------------------------------------------------
Holders(i) == {u \in Users : CacheType[i] \in holds[u]}
Quiet == \A u \in Users : writer[u].pc = "idle"

TypeOK ==
    /\ llcc \in [ref : [Caches -> Nat], active : [Caches -> BOOLEAN]]
    /\ holds \in [Users -> SUBSET ReqTypes]
    /\ head \in -1 .. MaxEvents - 1
    /\ entries \in [MonSlots -> 0 .. MaxEvents]
    /\ writer \in [Users -> [pc : {"idle", "claimed"}, slot : MonSlots,
                             ev : 0 .. MaxEvents]]

\* Every llcc_info entry's ref_cnt counts the clients holding its type: an
\* activation the LLCC driver refused, and a deactivation, whether or not
\* the driver's call failed, leave the count as the clients see it.
RefCountMatchesHolders ==
    \A i \in Caches : llcc.ref[i] = Cardinality(Holders(i))

\* A slice is active in the LLCC driver for as long as any client holds
\* its type: the first activation turns it on and only the last
\* deactivation turns it off.
SliceActiveWhileHeld ==
    \A i \in Caches : Holders(i) # {} => llcc.active[i]

\* process_cmd's result tells the caller what happened (spec: errors are
\* returned as status codes; a bad type is InvalidArgument; the monitor
\* dump shows the recent entries): an ACTIVATE_LLC that returns 0 has
\* every slice of that type active, and there is one; an LLCC command that fails has changed
\* nothing (so the caller may retry it), and a LOG_VOTE made while no
\* LOG_EVENT is half-way prints the latest events, oldest first.
CmdResultIsTruthful ==
    [][ /\ lastCmd'.op = "activate" /\ lastCmd'.rc = RcOk =>
              LET of == {i \in Caches : CacheType[i] = lastCmd'.arg}
              IN  of # {} /\ \A i \in of : llcc'.active[i]
        /\ lastCmd'.op \in {"activate", "deactivate"} /\ lastCmd'.rc # RcOk =>
              llcc' = llcc
        /\ lastCmd'.op = "log_vote" /\ FullStateDump /\ Quiet =>
              lastCmd'.out = LatestEvents(head + 1) ]_vars
=============================================================================
