----------------------------- MODULE CamMemMgr -----------------------------
(***************************************************************************)
(* The camera memory manager of src/drivers/cam_req_mgr/cam_mem_mgr.c: the *)
(* buffer table tbl.bufq[] with its slot bitmap, the user ioctls (alloc,   *)
(* map, release), the kernel API (request_mem, release_mem, reserve and    *)
(* free of the secondary-heap region), cam_mem_mgr_init/deinit, and the    *)
(* CPU-buffer references kernel threads take with cam_mem_get_cpu_buf and  *)
(* drop with cam_mem_put_cpu_buf.                                          *)
(*                                                                         *)
(* A buffer's lifetime is its krefcount: kref_init gives the creator one   *)
(* reference, get_cpu_buf takes one with kref_get_unless_zero, and the    *)
(* kref_put that reaches zero runs cam_mem_util_unmap, which frees the    *)
(* slot.  get_cpu_buf reads the table without a lock, so it is split into  *)
(* its checks and its kref_get; every other entry point is one step (they  *)
(* run under tbl.m_lock and the slot's q_lock, or are ioctls of one        *)
(* process).  SMMU mappings of user fds are tracked in smmu, to see what   *)
(* the failure exits leave mapped.                                         *)
(***************************************************************************)
EXTENDS Naturals, Integers, FiniteSets, Sequences, SequencesExt, FiniteSetsExt

CONSTANTS
    BufqMax,       \* CAM_MEM_BUFQ_MAX; slot 0 is reserved
    Fds,           \* dma-buf fd numbers userspace holds (non-negative)
    MmuHdls,       \* SMMU context-bank handles
    HdlLists,      \* mmu_hdls[] arrays the ioctls are called with
    AllocFlags,    \* flag sets of CAM_REQ_MGR_ALLOC_BUF
    MapFlags,      \* flag sets of CAM_REQ_MGR_MAP_BUF
    Holders,       \* kernel threads calling get_cpu_buf / put_cpu_buf
    FailingCalls,  \* "cpu_map", "smmu_map", "smmu_unmap" may return errors
    Untrusted      \* callers may pass any handle at any time (see Release)

ASSUME BufqMax \in Nat /\ BufqMax >= 2
ASSUME Fds \subseteq Nat
ASSUME HdlLists \subseteq Seq(MmuHdls)
ASSUME Untrusted \in BOOLEAN

Slots    == 1..(BufqMax - 1)
\* GET_MEM_HANDLE(idx, fd); kernel buffers are made with fd -1
Handle(i, f) == [idx |-> i, fd |-> f]
Handles  == {Handle(i, f) : i \in Slots, f \in Fds \cup {-1}}
NoHandle == Handle(-1, -1)                 \* buf_handle = -1
\* flags that make alloc map the buffer into the SMMU
HwFlags  == {"HW_RW", "SHARED", "PROTECTED"}
KrefMax  == 1 + Cardinality(Holders)
MaxHdls  == Max({Len(l) : l \in HdlLists} \cup {1})

VARIABLES
    initialized,   \* cam_mem_mgr_state
    bufq,          \* tbl.bufq[1..BufqMax-1]
    bitmap,        \* tbl.bitmap: the set bits, bit 0 included
    smmu,          \* live SMMU mappings of user fds: [hdl, fd] records
    owned,         \* handles userspace got from alloc/map and not released
    kowned,        \* handles kernel drivers got from request_mem
    regions,       \* handles kernel drivers got from reserve_memory_region
    holder,        \* per kernel thread: idle, checked (in get_cpu_buf), holding
    lastIo         \* the buffer and mmu handle of the last get_io_buf that
                   \* returned an address (a history variable)

vars == <<initialized, bufq, bitmap, smmu, owned, kowned, regions, holder, lastIo>>

\* kmd: kmdvaddr # 0; vaddr: the device address # 0
EmptySlot == [active |-> FALSE, handle |-> NoHandle, fd |-> -1, flags |-> {},
              kmd |-> FALSE, vaddr |-> FALSE, hdls |-> <<>>, kref |-> 0,
              client |-> "user"]

\* The table is handled as one record T = [bufq, bitmap, smmu]; every
\* helper returns the table, or the set of tables its failing calls allow.
Tbl == [bufq |-> bufq, bitmap |-> bitmap, smmu |-> smmu]
Commit(T) == /\ bufq' = T.bufq /\ bitmap' = T.bitmap /\ smmu' = T.smmu

Failing(kind, n) == IF kind \in FailingCalls THEN 1..n ELSE {}
Mapped(f, hs) == {[hdl |-> m, fd |-> f] : m \in hs}
FdsInUse(T) == {T.bufq[i].fd : i \in {j \in Slots : T.bufq[j].active}}

\* cam_mem_get_slot: find_first_zero_bit, rejected unless 0 < idx < MAX
FirstZero(T) == Min((0..BufqMax) \ T.bitmap)
\* mutant: the upper bound checked with > instead of >=
CanGetSlotPastEnd(T) == FirstZero(T) <= BufqMax /\ FirstZero(T) > 0
CanGetSlot(T) == FirstZero(T) < BufqMax /\ FirstZero(T) > 0
GetSlot(T) == [T EXCEPT !.bitmap = @ \cup {FirstZero(T)},
                        !.bufq[FirstZero(T)].active = TRUE]
\* cam_mem_put_slot: leaves fd, flags and buf_handle as they are
PutSlot(T, i) == [T EXCEPT !.bufq[i].active = FALSE, !.bitmap = @ \ {i}]

\* cam_mem_util_get_dma_dir: only HW access or protected mode map
DmaDirOk(flags) == flags \cap {"HW_RW", "PROTECTED"} # {}

\* cam_mem_util_map_hw_va: maps fd into each handle in turn (rc starts at
\* -1, so an empty list fails).  On a failure at entry j the rollback
\* for (--i; i > 0; i--) unmaps entries j-1 down to 2 and never entry 1.
MappedBeforeFail(hdls, j) ==
    ToSet(SubSeq(hdls, 1, j - 1)) \ ToSet(SubSeq(hdls, 2, j - 1))
MapHwVa(T, flags, hdls, f) ==
    IF ~DmaDirOk(flags) \/ hdls = <<>>
    THEN {[ok |-> FALSE, t |-> T]}
    ELSE {[ok |-> TRUE, t |-> [T EXCEPT !.smmu = @ \cup Mapped(f, ToSet(hdls))]]}
         \cup {[ok |-> FALSE,
                t |-> [T EXCEPT !.smmu = @ \cup Mapped(f, MappedBeforeFail(hdls, j))]]
               : j \in Failing("smmu_map", Len(hdls))}

\* cam_mem_util_unmap_hw_va: unmaps each handle, stops at the first error.
\* Kernel buffers (fd -1) are mapped by dma_buf and are not in smmu.
UnmapCounts(b) == {Len(b.hdls)} \cup {j - 1 : j \in Failing("smmu_unmap", Len(b.hdls))}
Unmapped(T, i, n) ==
    [T EXCEPT !.smmu = @ \ Mapped(T.bufq[i].fd, ToSet(SubSeq(T.bufq[i].hdls, 1, n)))]
UnmapHwVa(T, i) == {Unmapped(T, i, n) : n \in UnmapCounts(T.bufq[i])}

\* cam_mem_util_unmap, the kref release: returns early for a slot already
\* freed; else unmaps and clears the slot.  kmdvaddr and the count stay.
Scrub(b) == [b EXCEPT !.flags = {}, !.handle = NoHandle, !.vaddr = FALSE,
                     !.hdls = <<>>, !.fd = -1, !.active = FALSE]
Cleared(T, i) == [T EXCEPT !.bufq[i] = Scrub(@), !.bitmap = @ \ {i}]
\* mutant: the "already unmapped" test with || for &&
UnmapEarlyOr(T, i) ==
    IF ~T.bufq[i].active \/ ~T.bufq[i].vaddr THEN {T}
    ELSE {Cleared(u, i) : u \in IF T.bufq[i].flags \cap HwFlags # {}
                                THEN UnmapHwVa(T, i) ELSE {T}}
Unmap(T, i) ==
    IF ~T.bufq[i].active /\ ~T.bufq[i].vaddr THEN {T}
    ELSE {Cleared(u, i) : u \in IF T.bufq[i].flags \cap HwFlags # {}
                                THEN UnmapHwVa(T, i) ELSE {T}}

\* kref_put(&krefcount, cam_mem_util_unmap); a put at zero only warns
KrefPut(T, i) ==
    CASE T.bufq[i].kref = 0 -> {T}
      [] T.bufq[i].kref = 1 -> Unmap([T EXCEPT !.bufq[i].kref = 0], i)
      [] OTHER             -> {[T EXCEPT !.bufq[i].kref = @ - 1]}

\* The fill under q_lock, from kref_init on: a live buffer with one ref
Filled(T, i, f, flags, hdls, kmd, vaddr, client) ==
    [T EXCEPT !.bufq[i] = [active |-> TRUE, handle |-> Handle(i, f), fd |-> f,
                           flags |-> flags, kmd |-> kmd, vaddr |-> vaddr,
                           hdls |-> hdls, kref |-> 1, client |-> client]]

(***************************************************************************)
(* Who may pass which handle.  Trusted callers pass only handles they own  *)
(* and never release one while a kernel thread is inside get_cpu_buf on    *)
(* it; untrusted ones pass any handle at any time.                         *)
(***************************************************************************)
InFlight(h) == \E k \in Holders : holder[k].pc = "checked" /\ holder[k].h = h
Usable(S)   == IF Untrusted THEN Handles ELSE S
Quiet(h)    == Untrusted \/ ~InFlight(h)
Owners      == owned \cup kowned \cup regions

\* cam_mem_util_check_alloc_flags: no kernel mapping of a protected buffer
\* (the handle count is bounded by HdlLists)
CheckAllocFlags(flags) == ~({"PROTECTED", "KMD"} \subseteq flags)

\* cam_mem_util_check_map_flags: some flag, no kernel mapping of a protected
\* buffer, and no shared buffer
CheckMapFlags(flags) ==
    /\ flags # {}
    /\ CheckAllocFlags(flags)
    /\ "SHARED" \notin flags

(***************************************************************************)
(* cam_mem_mgr_alloc_and_map: check_alloc_flags, buffer_alloc (a fresh fd),*)
(* get_slot, map_hw_va for HW/shared/protected buffers, the fill under     *)
(* q_lock, map_cpu_va for KMD access, then kref_init.  map_hw_fail puts the *)
(* slot back; map_kernel_fail does too, after buf_handle and fd were set   *)
(* and without undoing map_hw_va.  slot_fail only drops the dma-buf.       *)
(***************************************************************************)
AllocOutcomes(T, flags, hdls, f) ==
    LET i  == FirstZero(T)
        hw == IF flags \cap HwFlags # {} THEN MapHwVa(GetSlot(T), flags, hdls, f)
              ELSE {[ok |-> TRUE, t |-> GetSlot(T)]}
        Named(t) == [t EXCEPT !.bufq[i].fd = f, !.bufq[i].flags = flags,
                              !.bufq[i].handle = Handle(i, f)]
    IN  {[ok |-> FALSE, t |-> PutSlot(r.t, i)] : r \in {x \in hw : ~x.ok}}
        \cup {[ok |-> FALSE, t |-> PutSlot(Named(r.t), i)]
              : r \in {x \in hw : x.ok /\ "KMD" \in flags /\ "cpu_map" \in FailingCalls}}
        \cup {[ok |-> TRUE,
               t |-> Filled(r.t, i, f, flags, hdls, "KMD" \in flags,
                            flags \cap HwFlags # {}, "user")]
              : r \in {x \in hw : x.ok}}

AllocAndMap ==
    /\ initialized
    /\ CanGetSlot(Tbl)
    /\ \E flags \in AllocFlags, hdls \in HdlLists, f \in Fds \ FdsInUse(Tbl) :
          /\ CheckAllocFlags(flags)
          /\ \E o \in AllocOutcomes(Tbl, flags, hdls, f) :
                /\ Commit(o.t)
                /\ owned' = IF o.ok THEN owned \cup {Handle(FirstZero(Tbl), f)}
                            ELSE owned
    /\ UNCHANGED <<initialized, kowned, regions, holder, lastIo>>

(***************************************************************************)
(* cam_mem_mgr_map: imports a dma-buf fd.  map_hw_va runs BEFORE get_slot, *)
(* and map_fail (a failed map or no free slot) only drops the dma-buf:     *)
(* whatever was mapped stays mapped.                                       *)
(***************************************************************************)
MapOutcomes(T, flags, hdls, f) ==
    LET hw == IF DmaDirOk(flags) THEN MapHwVa(T, flags, hdls, f)
              ELSE {[ok |-> TRUE, t |-> T]}
    IN  {[ok |-> FALSE, t |-> r.t] : r \in {x \in hw : ~x.ok \/ ~CanGetSlot(x.t)}}
        \cup {[ok |-> TRUE,
               t |-> Filled(GetSlot(r.t), FirstZero(r.t), f, flags, hdls, FALSE,
                            DmaDirOk(flags) /\ hdls # <<>>, "user")]
              : r \in {x \in hw : x.ok /\ CanGetSlot(x.t)}}

Map ==
    /\ initialized
    /\ \E flags \in MapFlags, hdls \in HdlLists, f \in Fds \ FdsInUse(Tbl) :
          /\ CheckMapFlags(flags)
          /\ \E o \in MapOutcomes(Tbl, flags, hdls, f) :
                /\ Commit(o.t)
                /\ owned' = IF o.ok THEN owned \cup {Handle(FirstZero(Tbl), f)}
                            ELSE owned
    /\ UNCHANGED <<initialized, kowned, regions, holder, lastIo>>

\* The checks release, release_mem and free_memory_region share
PutOwnerRef(h) ==
    /\ bufq[h.idx].active
    /\ bufq[h.idx].handle = h
    /\ \E t \in KrefPut(Tbl, h.idx) : Commit(t)

\* cam_mem_mgr_release: drops the creator's reference; nothing records
\* whether this caller had already dropped it
Release ==
    /\ initialized
    /\ \E h \in Usable(owned) :
          /\ Quiet(h)
          /\ PutOwnerRef(h)
          /\ owned' = owned \ {h}
    /\ UNCHANGED <<initialized, kowned, regions, holder, lastIo>>

\* cam_mem_mgr_request_mem: a KMD-mapped kernel buffer (fd -1) mapped into
\* one SMMU handle; every failure exit unwinds what it did, so only the
\* success changes the table
RequestMem ==
    /\ initialized
    /\ CanGetSlot(Tbl)
    /\ \E m \in MmuHdls :
          /\ Commit(Filled(GetSlot(Tbl), FirstZero(Tbl), -1, {"KMD", "HW_RW"},
                           <<m>>, TRUE, TRUE, "kernel"))
          /\ kowned' = kowned \cup {Handle(FirstZero(Tbl), -1)}
    /\ UNCHANGED <<initialized, owned, regions, holder, lastIo>>

\* cam_mem_mgr_release_mem ("released already" changes nothing)
ReleaseMem ==
    /\ initialized
    /\ \E h \in Usable(kowned) :
          /\ Quiet(h)
          /\ PutOwnerRef(h)
          /\ kowned' = kowned \ {h}
    /\ UNCHANGED <<initialized, owned, regions, holder, lastIo>>

\* cam_mem_mgr_reserve_memory_region: a secondary-heap buffer, no kernel
\* mapping (kmdvaddr = 0), stored with the caller's flags (none here)
ReserveMemoryRegion ==
    /\ initialized
    /\ CanGetSlot(Tbl)
    /\ \E m \in MmuHdls :
          /\ Commit(Filled(GetSlot(Tbl), FirstZero(Tbl), -1, {}, <<m>>, FALSE,
                           TRUE, "kernel"))
          /\ regions' = regions \cup {Handle(FirstZero(Tbl), -1)}
    /\ UNCHANGED <<initialized, owned, kowned, holder, lastIo>>

\* cam_mem_mgr_free_memory_region: one SMMU handle, the heap released,
\* then the creator's reference dropped
FreeMemoryRegion ==
    /\ initialized
    /\ \E h \in Usable(regions) :
          /\ Quiet(h)
          /\ Len(bufq[h.idx].hdls) = 1
          /\ PutOwnerRef(h)
          /\ regions' = regions \ {h}
    /\ UNCHANGED <<initialized, owned, kowned, holder, lastIo>>

(***************************************************************************)
(* cam_mem_get_cpu_buf, split at its only shared step: the unlocked checks *)
(* (state, index, active, handle, KMD flag), then                          *)
(* kmdvaddr && kref_get_unless_zero on whatever the slot holds by then.    *)
(***************************************************************************)
GetCpuBufCheck(k) ==
    /\ holder[k].pc = "idle"
    /\ initialized
    /\ \E h \in Usable(Owners) :
          /\ bufq[h.idx].active
          /\ bufq[h.idx].handle = h
          /\ "KMD" \in bufq[h.idx].flags
          /\ holder' = [holder EXCEPT ![k] = [pc |-> "checked", h |-> h]]
    /\ UNCHANGED <<initialized, bufq, bitmap, smmu, owned, kowned, regions, lastIo>>

GetCpuBufRef(k) ==
    /\ holder[k].pc = "checked"
    /\ LET i == holder[k].h.idx IN
       IF bufq[i].kmd /\ bufq[i].kref > 0
       THEN /\ bufq' = [bufq EXCEPT ![i].kref = @ + 1]
            /\ holder' = [holder EXCEPT ![k].pc = "holding"]
       ELSE /\ holder' = [holder EXCEPT ![k] = [pc |-> "idle", h |-> NoHandle]]
            /\ UNCHANGED bufq
    /\ UNCHANGED <<initialized, bitmap, smmu, owned, kowned, regions, lastIo>>

\* mutant: put_cpu_buf that returns after its checks without the kref_put
PutCpuBufNoPut(k) ==
    /\ holder[k].pc = "holding"
    /\ holder' = [holder EXCEPT ![k] = [pc |-> "idle", h |-> NoHandle]]
    /\ UNCHANGED <<initialized, bufq, bitmap, smmu, owned, kowned, regions, lastIo>>

\* cam_mem_put_cpu_buf: unlocked checks, then kref_put; a handle that no
\* longer matches the slot returns without a put
PutCpuBuf(k) ==
    /\ holder[k].pc = "holding"
    /\ LET h == holder[k].h IN
       IF bufq[h.idx].active /\ bufq[h.idx].handle = h
       THEN \E t \in KrefPut(Tbl, h.idx) : Commit(t)
       ELSE UNCHANGED <<bufq, bitmap, smmu>>
    /\ holder' = [holder EXCEPT ![k] = [pc |-> "idle", h |-> NoHandle]]
    /\ UNCHANGED <<initialized, owned, kowned, regions, lastIo>>

\* cam_smmu_get_iova: the address of fd's mapping in the context bank, or
\* an error when that bank holds none
NoIo == [h |-> NoHandle, m |-> NoHandle]
SmmuGetIova(T, m, f) == [hdl |-> m, fd |-> f] \in T.smmu

\* cam_mem_get_io_buf: the device address of a buffer in one SMMU handle,
\* under the slot's q_lock (the active test before it only returns early)
GetIoBuf ==
    /\ initialized
    /\ \E h \in Usable(Owners), m \in MmuHdls :
          LET b == bufq[h.idx]
          IN  lastIo' = IF b.active /\ b.handle = h /\ SmmuGetIova(Tbl, m, b.fd)
                        THEN [h |-> h, m |-> m] ELSE NoIo
    /\ UNCHANGED <<initialized, bufq, bitmap, smmu, owned, kowned, regions, holder>>

\* cam_mem_mgr_init: memset of the table, fd and handle -1, bit 0 reserved
MemInit ==
    /\ ~initialized
    /\ initialized' = TRUE
    /\ bufq' = [i \in Slots |-> EmptySlot]
    /\ bitmap' = {0}
    /\ UNCHANGED <<smmu, owned, kowned, regions, holder, lastIo>>

\* cam_mem_mgr_deinit -> cleanup_table: every active slot is unmapped and
\* cleared whatever its krefcount; kmdvaddr and krefcount are left as they
\* are.  Trusted callers deinit only once no kernel thread uses a buffer.
Deinit ==
    /\ initialized
    /\ Untrusted \/ \A k \in Holders : holder[k].pc = "idle"
    /\ LET act == {i \in Slots : bufq[i].active} IN
       \E n \in [act -> 0..MaxHdls] :
          /\ \A i \in act : n[i] \in UnmapCounts(bufq[i])
          /\ smmu' = smmu \ UNION {Mapped(bufq[i].fd, ToSet(SubSeq(bufq[i].hdls, 1, n[i])))
                                   : i \in act}
          /\ bufq' = [i \in Slots |-> IF i \in act THEN Scrub(bufq[i]) ELSE bufq[i]]
    /\ initialized' = FALSE
    /\ bitmap' = {}
    /\ owned' = {} /\ kowned' = {} /\ regions' = {}
    /\ UNCHANGED <<holder, lastIo>>

Init ==
    /\ initialized = FALSE
    /\ bufq = [i \in Slots |-> EmptySlot]
    /\ bitmap = {}
    /\ smmu = {}
    /\ owned = {} /\ kowned = {} /\ regions = {}
    /\ holder = [k \in Holders |-> [pc |-> "idle", h |-> NoHandle]]
    /\ lastIo = NoIo

Next ==
    \/ MemInit \/ Deinit
    \/ AllocAndMap \/ Map \/ Release
    \/ RequestMem \/ ReleaseMem \/ ReserveMemoryRegion \/ FreeMemoryRegion
    \/ GetIoBuf
    \/ \E k \in Holders : GetCpuBufCheck(k) \/ GetCpuBufRef(k) \/ PutCpuBuf(k)

\* A thread past get_cpu_buf's checks runs on to its kref_get (nothing in
\* between blocks), and callers pair every get_cpu_buf with a put_cpu_buf
Fairness == \A k \in Holders : WF_vars(GetCpuBufRef(k)) /\ WF_vars(PutCpuBuf(k))

Spec == Init /\ [][Next]_vars /\ Fairness

-----------------------------------------------------------------------------
\* The slots that hold a buffer, and the abstract view of the table
LiveSlots == {i \in Slots : bufq[i].active}
LiveHandles == {bufq[i].handle : i \in LiveSlots}
RefsOf(h) == IF \E i \in LiveSlots : bufq[i].handle = h
             THEN bufq[(CHOOSE i \in LiveSlots : bufq[i].handle = h)].kref
             ELSE 0
HeldHandle(k) == IF holder[k].pc = "holding" THEN holder[k].h ELSE NoHandle

Buffers == INSTANCE CamMemBuffers
               WITH live   <- LiveHandles,
                    refs   <- [h \in Handles |-> RefsOf(h)],
                    owners <- Owners,
                    held   <- [k \in Holders |-> HeldHandle(k)]

TypeOK ==
    /\ initialized \in BOOLEAN
    /\ bufq \in [Slots -> [active : BOOLEAN, handle : Handles \cup {NoHandle},
                           fd : Fds \cup {-1}, flags : SUBSET (HwFlags \cup {"KMD"}),
                           kmd : BOOLEAN, vaddr : BOOLEAN,
                           hdls : HdlLists \cup {<<m>> : m \in MmuHdls} \cup {<<>>},
                           kref : 0..KrefMax, client : {"user", "kernel"}]]
    /\ bitmap \subseteq 0..(BufqMax - 1)
    /\ smmu \subseteq [hdl : MmuHdls, fd : Fds]
    /\ Owners \subseteq Handles
    /\ holder \in [Holders -> [pc : {"idle", "checked", "holding"},
                               h : Handles \cup {NoHandle}]]
    /\ lastIo \in {NoIo} \cup [h : Handles, m : MmuHdls]

\* The table implements CamMemBuffers: alloc, map, request_mem and
\* reserve create a handle, release/release_mem/free_memory_region give the
\* creator's reference back, get_cpu_buf takes a reference on a live buffer
\* and put_cpu_buf drops it, the kref_put that reaches zero ends the buffer,
\* and deinit drops the whole table.
MemRefinesBuffers == Buffers!Spec

\* A buffer every creator has released is eventually freed: the kernel
\* threads' get_cpu_buf/put_cpu_buf pairs give back every reference they
\* took, so its krefcount reaches zero and cam_mem_util_unmap runs.
OrphanedBufferIsFreed ==
    \A h \in Handles :
        (h \in LiveHandles /\ h \notin Owners) ~> (h \notin LiveHandles)

\* No mapping outlives its table entry: a kernel thread that holds a CPU
\* reference (get_cpu_buf succeeded, put_cpu_buf not yet called) holds it
\* on the live, KMD-mapped buffer of the handle it asked for, and every
\* SMMU mapping of a user fd belongs to an active buffer with that fd and
\* that mmu handle.
NoStaleMapping ==
    /\ \A k \in Holders :
          holder[k].pc = "holding" =>
             LET b == bufq[holder[k].h.idx]
             IN  b.active /\ b.handle = holder[k].h /\ b.kmd
    /\ \A m \in smmu :
          \E i \in Slots : /\ bufq[i].active
                           /\ bufq[i].fd = m.fd
                           /\ m.hdl \in ToSet(bufq[i].hdls)
==============================================================================
