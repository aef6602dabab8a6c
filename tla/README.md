# TLA+ models of the camera CPAS driver

These modules model three parts of the camera kernel driver: the Camera
Power And Scheduling (CPAS) core in `src/drivers/cam_cpas/cam_cpas_hw.c`,
the camera memory manager in `src/drivers/cam_req_mgr/cam_mem_mgr.c`, and
the AHB clock vote consolidation in `src/drivers/common/cam_hw_ops.c`. CPAS is the arbiter that every camera
block (IFE, ICP, CDM, ...) uses to power up the camera subsystem, to vote AHB
(register bus) levels and to vote AXI bandwidth, and it programs the SmartQoS
priority LUTs of the real-time write NIUs. The modules are checked with TLC.

## The system and how its parts interact

* **Client registry and lifecycle.** `register_client` and `unregister_client`
  manage slots. `start` and `stop` bump `streamon_clients`, power the hardware
  on for the first client and off for the last, and vote and unvote bandwidth.
  `update_axi_vote` and `update_ahb_vote` change a started client's votes.
  `reg_write` and `reg_read` access registers, and only while the client is
  started.
* **IRQ drain.** The first start sets `irq_count` to 1. The CPAS IRQ handler
  enters only through `atomic_inc_not_zero(irq_count)` and decrements it when
  it is done. The last stop disables the IRQ, drops its own 1, and waits at
  most `HZ` for the count to reach 0 before it disables clocks and
  regulators. The handler itself is outside `src/`; it is modelled from the
  spec.
* **Vote tree (arbiter).** A client's AXI vote is first consolidated: raw
  CONSO paths are summed into their node. It is then written into the client's
  leaf nodes. Each change is propagated to the root by subtracting the old
  value and adding the new one, halved under `SUM_INTERLEAVE`. Each root feeds
  one or more MNOC AXI ports and a CAMNOC port.
* **Bus clients.** `cam_cpas_util_vote_bus_client_bw` clamps a vote and sends
  it to the interconnect. It records `applied_ab/ib_bw` only when the vote
  succeeds. `vote_bus_client_level` does the same for the AHB level.
* **SmartQoS.** From the per-NIU RT write bandwidth,
  `cam_cpas_calculate_smart_qos` computes a 16-nibble priority ramp for each
  NIU. `cam_cpas_apply_smart_qos` writes the ramp by MMIO or through the
  secure channel. When the new RT bandwidth is lower, the priorities are
  applied before the MNOC votes. Otherwise they are applied after them.
* **Commands (`process_cmd`).** Besides the lifecycle entry points,
  `cam_cpas_hw_process_cmd` dispatches ACTIVATE_LLC and DEACTIVATE_LLC to the
  system-cache (LLCC) code. Each `llcc_info` entry has a type and a
  `ref_cnt`: its first activation turns its slice on in the LLCC driver, and
  its last deactivation turns it off, each under `hw_mutex`. LOG_EVENT
  claims the next slot of the monitor ring by an atomic increment of
  `monitor_head`, then fills it without a lock. LOG_VOTE prints the ring,
  oldest entry first.

A start goes through these steps:

1. AHB vote.
2. AXI vote: tree walk, SmartQoS, then MNOC and CAMNOC votes.
3. For the first client only: `apply_default_axi_vote(true)`,
   `enable_resources`, the power-on hook, then the NIU priority reset.

Each step has its own failure exit: `remove_axi_vote`, `remove_ahb_vote` or
`error`.

## Modules

| Module | Part | State / actions |
|---|---|---|
| `SmartQos` | ramp computation of `cam_cpas_calculate_smart_qos` (lines 596-691) | pure operators: `BwPerKb`, `RampVal`, `LevelVal`, `PackLevels` (RECURSIVE), `Priority`, `MaxBwPerKb`, `NewPriorities` |
| `MC_SmartQos` | checks the ramp against a closed-form reference | `RampMatchesReference`, `RampMonotone` |
| `CpasAxiVote` | vote tree, bus clients, SmartQoS apply, default vote | operations on a state record that return the set of possible outcomes, one for each call that can fail |
| `CpasHw` | the CPAS hw interface: the client registry, start/stop, vote updates and register access | VARIABLES `clients`, `axi` (the tree and ports), `ahbBus`, `streamon`, `powered`, `niu`, `hw`, `calls`; one action per entry point |
| `CamMemMgr` | the buffer table of `cam_mem_mgr.c` | VARIABLES `initialized`, `bufq` (slots with handle, fd, flags, kmd/device mapping, mmu handles, `krefcount`), `bitmap`, `smmu` (live SMMU mappings), `owned`/`kowned`/`regions` (who created which handle), `holder` (kernel threads in `get_cpu_buf`); one action per ioctl or kernel API |
| `CamMemBuffers` | abstract buffer store: handles, reference counts, creators, holders | `Create`, `Give`, `Take`, `Put`, `Reset` |
| `MC_CamMemMgr` | two mmu handles, one or two user fds, two kernel threads | constants only |
| `CamAhbClk` | AHB clock votes of `cam_hw_ops.c` | VARIABLES `probeDone`, `votes`, `ahbClkState`, `busLevel`; `AhbClkInit`, `ConfigAhbClk` (level and DYNAMIC votes) |
| `MC_CamAhbClk` | three clients, three voltage corners | constants only |
| `CpasLlcc` | `llcc_info` and the LLCC slices (lines 2594-2735) | operators on `[ref, active]` returning outcome sets: `ActivateCache`, `DeactivateCache`, `ValidCacheType`, the slice loops `ActivateCacheSlice`/`DeactivateCacheSlice` (RECURSIVE `ForEachCache`, the last entry's rc wins) |
| `CpasMonitor` | the monitor ring: `CAM_CPAS_INC_MONITOR_HEAD` and `cam_cpas_dump_monitor_array` | `IncMonitorHead`, `DumpCount`, `DumpOldest`, `DumpMonitorArray`; `LatestEvents` is the reference (the last `MonitorMax` events) |
| `CpasCmd` | the LLCC and monitor commands of `process_cmd`, one thread per client | VARIABLES `llcc`, `holds` (the types each client activated), `head`, `entries` (an entry is the number of the event it records), `writer` (a LOG_EVENT between its increment and its fill), `lastCmd` (history: the command just finished and its result); `ActivateLlc`, `DeactivateLlc`, `LogEventClaim`, `LogEventWrite`, `LogVote` |
| `MC_CpasCmd` | two clients, two or three caches, a ring of two | constants only |
| `MC_CpasHw` | a small topology: IFE with two RT write paths into two NIUs under an interleaved root; ICP on an NRT root; CDM with no tree nodes | constants only |

How operations are modelled:

* **Operations as outcome sets.** Each driver function is an operator from a
  state record to a set of `[ok, st]` outcomes. A call to a collaborator
  (an MNOC, CAMNOC or AHB bus vote, `enable_resources`, `power_on`,
  `disable_irq`, `disable_resources`) fails only when its kind is in the
  constant `FailingCalls`. A failing call yields two outcomes: one where it
  succeeds and one where it returns an error.
* **Entry points are atomic.** Each action takes its whole entry point as one
  step, including every goto exit, because the driver runs them under
  `cpas_core->tree_lock` and `client_mutex`.
* **`reg_read` is split.** It does not take `client_mutex`, so it is split
  into `RegReadCheck` (the started test) and `RegRead` (the access).
* **The `calls` log.** `calls` records each collaborator call the last step
  made: its kind, its target, whether CPAS was powered, and whether it
  succeeded. Properties about order and about what was applied read this log.
  `lastVote` records the client and the translated vote of the last
  `update_axi_vote`, so that a property can compare the tree with the vote.
* **IRQ handlers.** `irqCount` is `irq_count` and `irqIn` is the set of
  handlers between their increment and their decrement. `IrqEnter` and
  `IrqHandle` are the two steps of a handler (`IrqHandlers` of them). The
  handler's register read is a `read` call in the `calls` log.
  * `IrqDrain` is stop's decrement and wait. Handlers finish during the wait
    until the count is at most 0 (`DrainFinishers`).
  * With `IrqTimeout = TRUE`, a handler may outlast the `HZ` wait. Stop then
    goes on with that handler still inside.
* **Start's return code.** `startOk` is TRUE after a start that returned 0.
  Every failure exit after the AHB vote goes through `remove_ahb_vote`, and
  start returns that removal's result (`RemoveAhbVote`).
* **LOG_EVENT is split.** The increment of `monitor_head` and the fill of
  the slot are two steps of a per-client program counter (`writer`), because
  nothing orders them against other events or against a dump.

### The memory manager

* **Table.** `GetSlot` takes the first zero bit of the bitmap and refuses the
  last index, as `cam_mem_get_slot` does. `PutSlot` clears the bit and
  `active`, and leaves the old handle in place.
* **Failure exits.** Each entry point is one action, with all of its goto
  exits. An SMMU map, SMMU unmap or kernel CPU map fails when its kind is in
  `FailingCalls`. `MapHwVa` rolls back with the code's own loop bounds
  (`MappedBeforeFail`). `Unmap` is the kref release function, and `KrefPut`
  is `kref_put`.
* **`get_cpu_buf` is split.** It reads the table without `m_lock`, so it is
  split into `GetCpuBufCheck` (the active, handle and KMD checks) and
  `GetCpuBufRef` (`kref_get_unless_zero`).
* **`get_io_buf`.** `GetIoBuf` checks the slot and its handle under `q_lock`,
  then asks the SMMU (`SmmuGetIova`) for the mapping of the slot's fd
  number in one context bank. `cam_smmu` is not in `src/`, so the lookup
  is modelled as a search of `smmu` by handle and fd. The address it
  returns is kept in the history variable `lastIo`. A mapping leaked by a
  failure exit for the same fd number is found by this lookup, and
  `NoStaleMapping` reports that leaked mapping.
* **Callers.** With `Untrusted = FALSE`, callers keep the contract the driver
  relies on:
  * only a handle's creator releases it, and only once;
  * no handle is released while a kernel thread is between the two halves of
    `get_cpu_buf`;
  * deinit happens only when no thread is in there.

  With `Untrusted = TRUE`, any caller may pass any handle at any time.
* **Refinement.** `CamMemMgr` instantiates `CamMemBuffers` with this mapping:
  * the live handles are those of the active slots;
  * the reference count is the slot's `krefcount`;
  * the owners are the union of the three creator sets;
  * each thread's held handle is its handle in state `holding`.

  The run checks `Buffers!Spec` as a property (`MemRefinesBuffers`).
* **Fairness.** There is weak fairness on `GetCpuBufRef(k)` and
  `PutCpuBuf(k)` for every thread. A thread past the checks runs on to its
  `kref_get`, because nothing in between blocks. Kernel callers pair every
  `get_cpu_buf` with a `put_cpu_buf`. No fairness is assumed of userspace or
  of the kernel APIs that create and release buffers.

### AHB clock consolidation

`cam_config_ahb_clk` turns a DYNAMIC vote into a level through the voltage
corner of the OPP and calls `cam_consolidate_ahb_vote`. That function keeps
every client's vote, requests the highest one from the interconnect, and
stores it in `ahb_clk_state` whatever the request returned.

The vote enum is unsigned, and `-EINVAL` becomes the largest value. The model
keeps the order of the values and writes that one as `BadVote`. The
interconnect refuses a usecase index past `NumUsecases`.

## Runs

There are 6 passing runs and 6 violation runs.

| Run | Kind | Bounds | Shows |
|---|---|---|---|
| `lifecycle` | pass | 3 CPAS clients, every call succeeds | `PoweredWhileStarted`, `NiuRecordMatchesHw`, `IdleHoldsNoBandwidth`, `GrantedCoversDemand`, `AhbBusCoversStartedClients`, `QosOrderFollowsRtTrend` (action property: SmartQoS goes before the MNOC votes exactly when RT bandwidth drops), `QosApplyRecordsPriorities` |
| `power_failures` | pass | power-on, enable, disable_irq, disable and AHB calls fail; one IRQ handler that may outlast stop's wait | started clients stay powered; NIU records match the hardware; `IrqCountOwed`: `irq_count` never exceeds 1 while CPAS is up plus the handlers inside, because each failed first start resets the count set at 1797 (1805, 1831), across timed-out waits, restarts and failed disables |
| `bus_failures` | pass | MNOC and CAMNOC votes fail | the incremental walk equals a bottom-up sum; applied bandwidth equals what the bus holds |
| `smart_qos_ramp` | pass | every bandwidth 0..10 on three NIUs | the ramp equals a closed-form reference and is monotone |
| `mem_table` | pass | 2 slots, 1 fd, 2 mmu handles, 2 kernel threads, every mapping call may fail, trusted callers | `TypeOK`; `MemRefinesBuffers` (refinement); `OrphanedBufferIsFreed` (liveness under the fairness above) |
| `idle_leak` | violation | failed MNOC, enable and disable_irq calls | bandwidth stays voted with no client streaming: after a failed start, through the default CAMNOC floor, after a non-tree update, and after a stop whose teardown failed |
| `vote_applied` | violation | MNOC and AHB calls fail, secure QoS, a vote with a CONSO path then a direct path to one node | `SuccessfulVoteIsApplied`: a start or AXI update that returns 0 is not always in effect. A start whose client AXI vote fails returns the result of removing its AHB vote, which is 0, without starting the client. A retried start skips the AHB bus vote because `ahb_level` was stored before the failed one. A retried AXI vote finds the tree already updated and votes nothing. The secure QoS path never records `applied_priority`. A direct path after a consolidated one overwrites its sum |
| `unpowered_access` | violation | one IRQ handler that may outlast stop's wait | `reg_read` races with the last stop; NIU registers are written before the first start enables the clocks; `log_event` reads CAMNOC registers with CPAS off; an IRQ handler still in flight when the wait times out reads registers after power-down |
| `mem_stale_mapping` | violation | 2 fds, untrusted callers | SMMU mappings outlive their slot, and a kernel thread can hold a freed or reused slot (`NoStaleMapping`) |
| `llcc_refcount` | pass | 2 clients, caches of types 0 and 1, clients asking for 0, 1 and 2 (past `num_caches`), both LLCC calls failing, 4 events in a ring of 2 | `RefCountMatchesHolders` (every `ref_cnt` is the number of clients holding the type), `SliceActiveWhileHeld` |
| `cmd_result` | violation | caches of types 0, 2, 0; types 0, 1 and 3 asked for | `CmdResultIsTruthful`: ACTIVATE_LLC returns 0 for a type with no cache and past `num_caches`, and with two caches of a type returns one rc for both. A failed deactivation leaves `ref_cnt` at 0 with the slice on. LOG_VOTE's dump leaves out the newest event, and a delayed LOG_EVENT overwrites a newer one |
| `ahb_clk_vote` | violation | | a DYNAMIC vote at an unmapped corner wedges the consolidated state, and the bus stays below a client's vote (`BusCoversClientVotes`) |

The `mem_stale_mapping` run reaches these routes to a stale mapping. All are
listed in `findings`.

* The `map_hw_va` rollback never unmaps handle 0.
* A failed kernel CPU map puts the slot back with its SMMU mappings live.
* An import into a full table leaks its mappings.
* Untrusted callers can also reach:
  * a `get_cpu_buf` that takes its reference after the slot was released and
    reused (ABA on the repeated handle value);
  * a double release under a holder;
  * a deinit under a holder, where the kept `krefcount` lets
    `kref_get_unless_zero` succeed.

Each property of a passing run has a mutant in `PROJECT.json`. The mutant
reproduces a plausible bug in the mapped code, and TLC finds the property
violated.

## Bounds

* **CPAS tree.** Two root ports, and two NIUs under an interleaved root. This
  is the smallest tree that exercises both `SUM` and `SUM_INTERLEAVE`, a
  CONSO raw path and a client without nodes.
* **CPAS bandwidths.** Small integers, clamped to a 5-bit width. This is
  enough to make ramps differ and to make RT bandwidth both rise and fall.
* **CPAS clients.** Two or three clients, each with one or two votes. Failure
  kinds are split across runs, because enabling all of them at once
  multiplies the state space beyond the time limit.
* **Memory manager.** `CAM_MEM_BUFQ_MAX` is 3, which gives two usable slots.
  That is enough to fill the table, to reuse a slot, and to have a user and a
  kernel buffer side by side.
  * The mmu-handle lists are one or two entries long. Two entries make the
    rollback's off-by-one visible.
  * With two threads, one can hold a reference while the other is between
    its checks.
  * The passing run uses one fd. Two fds only add renamed states: about 96k
    states, against the limit of a few minutes.
* **IRQ handlers.** One handler is enough. It can be inside when the last
  stop runs, and it can outlive the wait. A second handler only adds
  interleavings of the same count.
* **Commands.** Two clients are enough for a second holder of a slice and
  for a LOG_EVENT delayed while another runs. A ring of two entries and
  three or four events makes the ring wrap and the writer overwrite a newer
  slot. The passing run gives each cache its own type: with two caches of
  one type a failed activation leaves the other counted with no holder (the
  finding at line 2705), so that case belongs to the violation run, which
  also asks for a missing type.
* **AHB.** Three clients and three corners: one mapped to SVS, one to NOMINAL,
  one unmapped.

## Not modelled

* **CPAS.**
  * The contents of a monitor entry (the vote and register snapshot) and the
    printing in `log_vote`; an entry is modelled by the event it records.
  * GET_SCID (it only reads), SELECT_QOS and DUMP_BUFF_FILL_INFO (register
    programming and reads), and `process_cmd`'s `arg_size` checks.
  * Probe, remove, debugfs and device-tree parsing.
  * Dynamic (clock-frequency) AHB votes, and the power-off and qchannel
    hooks. Their failures only pass through.
  * The name lookup of `register_client`. An unknown name locks
    `client_mutex[-1]` (line 2104), which is undefined behaviour that depends
    on the structure layout. `Register` takes only the clients probe named.
  * The CAMNOC clock rate `enable_resources` applies for the first client
    (line 827). It is a device-tree clock level. The stale
    `applied_camnoc_axi_rate` is read only by the log and the monitor entry.
  * A timed-out wait followed by a restart (the `irq_count` hazard at line
    1797) understates the count: a stale handler's decrement leaves it below
    1 plus the handlers inside while CPAS is up. TLC finds this lower bound
    violated in `power_failures`' configuration, but no run checks it;
    `IrqCountOwed` checks the upper bound there.
* **Memory manager.**
  * `cache_ops`, which only syncs CPU caches and changes no table state, and
    `is_map_internal`.
  * The secure-mode handle bit.
  * The dma-buf heaps. Allocation is assumed to succeed; only the mapping
    calls fail.
* **AHB.** The failure path of `cam_ahb_clk_init`, and the device-tree vector
  lookup.
* **Headers.** They carry declarations only. The enum values of
  `cam_hw_ops.h` and the handle encoding of `cam_mem_mgr.h` are not in the
  tree, so they are marked spec_modelled.

`PROJECT.json` lists these, and the hazards that no property covers yet.
