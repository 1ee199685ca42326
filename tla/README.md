# A TLA+ model of the TrustZone test bench

The repository is a bare-metal test program for ARM TrustZone emulation. Five
images run on one processor: a monitor at EL3, and in each world (secure,
nonsecure) a kernel at EL1 and a program at EL0. The nonsecure EL0 program walks
a table of tests; each entry names the exception level and the world its test
function must run in, and the images forward the request until it gets there. A
test function changes trap-control registers, executes an instruction that must
(or must not) trap, and looks in a shared exception log for what happened.

What makes this hard to get right is that the test bench manipulates the very
registers it depends on: SCR.NS says which world is live, CPACR and CPTR decide
whether `printf` works, and a fault inside a handler, inside a call, inside a
test is the normal case.

## Inventory

| Component | State | Operations | Talks to |
|---|---|---|---|
| EL3 monitor (`el3/el3.c`) | `secure_state`, the interop buffer, SCR, CPTR | `el3_handle_smc` (7 opcodes), `el3_handle_exception`, start, shutdown | EL1 by SMC; the other world by a switch |
| World switch (`el3/*/el3_monitor_asm.S`) | `sec_state`, `nsec_state`, SCR.NS | `monitor_switch`, save, restore | called when `el3_handle_smc` returns non-zero |
| EL1 kernels (`el1/el1.c`, one image per world) | the SVC being handled, CPACR, SCTLR | `el1_handle_svc` (9 opcodes), `el1_handle_exception`, start | EL0 by SVC, EL3 by SMC and the interop buffer |
| Nonsecure EL0 (`el0/nonsecure`, `el0/el0.c`, `tztest/tztest.c`) | table index | `main`, `alloc_mem`, `map_va`, `interop_test`, `run_test`, `tztest_start` | SVC |
| Secure EL0 service (`el0/secure`) | last opcode, its descriptor | `el0_sec_loop` | SVC, above all YIELD |
| Test functions (`tztest/el0`, `el1`, `el3`) | locals holding register values | macros of `tztest_internal.h` | SVC / SMC register access, exception log |
| Shared blocks (`common/syscntl.h`, `interop.h`, `smc.h`, `svc.h`) | interop buffer, exception log, test counters | - | mapped by every image |
| Vectors (`el*/*/el*_exception.S`) | general registers on the stack, ELR, SPSR | entry and exit for SVC, SMC and traps, current and lower level | C handlers, `monitor_switch` |
| Page tables and heap (`common/*/mem_util.c`) | translation tables, two page pools, a heap pointer | `mem_map_pa`, `mem_map_va`, `mem_unmap_va`, `mem_lookup_pa`, `mem_heap_allocate` | EL1, EL3, loader |
| Boot assembly (`el*/*/el*_init.S`, `common/*/init_util.S`) | the same tables, before and after the MMU goes on | map ranges, enable the MMU, copy text and data, unmap flash | hands pools and `syscntl` to the C code |
| Loader (`el1/*/el1_loader.c`) | - | `el1_load_el0` | page tables |
| libcflat, platform headers, linker scripts | - | - | - |

Hard behaviours: control passes between worlds in the middle of handlers, so a
handler is suspended at its SMC while the other world runs arbitrary tests; two
indicators of the current world are updated at different places; one buffer is a
union written by every call; exceptions nest; an exception returned to the same
instruction recurs for ever; one request visits up to four images; a field is
used uninitialised. `mem_map_pa()` calls itself between reading an entry and
filling it, tables are edited through the mapping they implement, and no change
of a mapping invalidates the TLB. Vectors of two levels, four stacks and one pair
of state buffers have to bring every register back to its owner. There are no interrupts, no second processor and nothing is
persisted, so there is no preemption and no crash recovery to model. What is
correct for each component is stated in "Properties" below; `PROJECT.json`
lists every hazard at its line.

## Modules

| Module | Models |
|---|---|
| `Interop` | opcodes, register keys and bits, descriptors, one interop stage |
| `TestMacros` | the macros of `tztest_internal.h` as a small language of steps |
| `TestScripts` | every test function as the sequence of macros it calls; the `tztest[]` table; `test_func[]` |
| `TzMachine` | the shared state; traps; SVC, SMC, returns, `monitor_switch`; `TEST_CONDITION` |
| `El3Monitor` | `el3.c`: one action per SMC opcode, the exception handler, start, shutdown |
| `El1Kernel` | `el1.c`, for both worlds: one action per SVC opcode, two where the handler issues an SMC |
| `El0Programs` | the nonsecure driver and the secure service loop |
| `TestInterpreter` | a test function at work, at whichever level it runs |
| `TestRunner` | abstract specification: the table is executed in order, each entry once, where it says; then the run ends |
| `TzSystem` | the composition, the properties, the refinement of `TestRunner` |
| `TzInvariant` | the inductive invariants `IInv` and `FullInv` |
| `TzImageProofs`, `TzTestProofs`, `TzProofs` | the proofs |
| `MCTzSystem` | constants for TLC |
| `PageWalk` | the layout of the tables (four levels or two), the walk of the MMU and of the code |
| `PageTables` | the tables and `mem_map_pa()` / `map_va_to_pa`, step by step with its recursion; `mem_unmap_va()`; the pools |
| `AddressMap` | abstract specification: an address space is a partial function from pages to frames, changed by a call where the call says |
| `ImageCalls` | the calls the images make of the memory functions, and what the memory map of `memory.h` lets them rely on (the assumptions of the proofs) |
| `ImageMemory` | the memory functions as the images call them, accesses, copies, the TLB, aborts; the properties |
| `BootSequence` | the calls the three privileged images make, from reset to the first use of every shared page |
| `MCBootSequence` | a layout for TLC |
| `PageWalkProofs`, `MemoryProofs`, `ImageProofs` | the proofs about them |
| `VectorState` | registers, stacks and state buffers by owner; the properties of the vectors |
| `VectorsA64`, `VectorsArm` | the vectors, `monitor_switch` and the start of both kernels, per architecture |
| `VectorsA64Invariant`, `VectorsArmInvariant` | their inductive invariants, both named `FrameInv` |
| `VectorsA64Proofs`, `VectorsArmProofs` | the proofs about them |

There are three models. `TzSystem` composes the images at the level of their
handlers. `BootSequence` and `VectorsA64` / `VectorsArm` look underneath, at what
`TzSystem` takes for granted: that an address means the same page to everyone,
and that a handler returns to whom it was called by, with its registers.

### State and actions

Each image is a coroutine. The C code that will run after the call an image is
in is a label: `ctx.k0` (EL0) and `ctx.k1` (EL1) are part of the banked context,
as the stacks they stand for are; `k3` is EL3's. `ctx` is the live EL1&0
context; `saved[w]` the monitor's state buffer of world `w`. `ctx.w` is a ghost:
the world a context belongs to, whatever SCR.NS claims. `x0` carries an opcode
in and a result out. `desc[w]` is the descriptor world `w`'s EL0 last passed,
`buf` the interop buffer. Descriptors carry a `kind`, the union member last
written. `fault` is the synchronous exception being handled, or the note that
the handler stepped over the instruction. `excp` is the exception log. `tcmap`
says which physical page stands behind `syscntl->test_cntl` in each of the three
address spaces, `cnt` the counters in each page. `executed` and `judged` are
history variables: what was executed where, and the conditions evaluated.

An action is a handler, from the instruction that enters it to the one that
leaves it. Handlers that issue an SMC are two actions (`SvcTest`,
`SvcTestReturn`), because the other world runs in between. Register accesses in
a handler or test may trap; then the exception is taken (`SvcRegTrap`,
`TestTrap`, `TestDirectTrap`), handled (`El1HandleException`,
`El3HandleException`), and the interrupted code goes on as skipped: the read
leaves garbage (two extreme values stand for it), the write has no effect.
`SmcTest` keeps the missing `break` of the C switch. `monitor_switch` keeps the
difference between the architectures: AArch64 writes the NS bit alone to SCR,
ARM flips it in place and does not bank CPACR.

### Memory

A page number stands for a virtual page and for a frame alike; offsets within a
page are left out. `pt[t][j]` is the frame entry `j` of table page `t` points to,
or `Nil`; of the attributes only EL0 access is kept (`user`). `next` holds the
pool pointers `mem_next_pa` and `mem_next_l1_page`. A call of `mem_map_pa()` in
progress is a stack of activations, `frames`; `Descend`, `Grow` (allocate a table
page and call `mem_map_pa()` for it), `Link` (the call returned, fill the entry)
and `SetLeaf` are its steps, `BootGrow` the variant of the boot code, which
needs no mapping while the MMU is off. `mmu[I]` says whether the image reaches
tables through their own mapping; an access that does not is an abort, and the
abort handlers shut the system down.

`Program` is the sequence of calls, one page each; `BootSequence` builds it from
the four init files, `el3_start()`, `el1_start()`, `el1_load_el0()` and the
nonsecure driver's request to share the test control block. `ref` holds the
frames images hand each other (`syscntl`, `buf_pa`, `map.pa`). The TLB is
modelled lazily: `touched` are the pages used since their entry last changed;
when it changes, the old translation goes to `stale`, and later accesses may
succeed through it or not. Only the ARM MMU switch drops entries.

Kept from the code: on ARM the monitor and secure EL1 share one root table, the
boot code keeps an entry that is valid already, `el1_init` turns the MMU off
first (`mmu` is per image), and `mem_lookup_pa()` ignores the valid bit of the
last level; its `mem_map_pa()` takes table pages from the general pool, not from
the one `el1_init.S:168` sets apart for them. RAM is zero at reset, as the code relies on: table pages are never
cleared.

### Registers

A register or stack word is a pair: whose value it is, and what it is. The code
between a vector's entry and its exit is an activity (`main` at EL0; `svc`,
`lower`, `current` or `und` at EL1; `smc`, `lower`, `current` at EL3). General
registers are grouped as the procedure call standard treats them. An action is
a vector's entry up to the C handler, or the handler's return up to the `eret` or
`rfefd`; `SmcSwitch` includes all of `monitor_switch`. The stacks are sequences
of words with a stack pointer of their own, so what a vector forgets to pop, or
pops in the wrong order, shows. Between the two, the activity may call or trap:
SVC from EL0, SMC from an SVC handler, traps to EL1 and EL3 from EL0 and EL1, to
EL3 from an SMC handler (AArch64), undefined instructions from EL0 and SVC
handlers (ARM). The exception handlers themselves do not trap: `TzSystem` shows
that for the tests (`PrintNeverTraps`, `NoStrayException`).

### External

Modelled from how the code uses it: the trap rules of the architecture
(`TrapOf` and what it uses), with no virtualization extension; no interrupt ever
completes a `wfi`; `printf` uses floating point.

Left out of the data: lengths, addresses (apart from the page of `test_cntl`),
the `arg` of a request, `iss` and `far` of the log, registers no test touches.

## Properties

* `TypeOK` - the one type invariant.
* `WorldConsistency` - SCR.NS, `secure_state` and the loaded context agree, and
  each state buffer holds its own world. Broken by a lost toggle, a register
  write with the wrong NS bit, a switch from the wrong place.
* `ServiceParked` - whichever world runs, the other waits in the SMC that will
  hand it the next request or the answer.
* `OpMatchesDescriptor` - nobody reads a descriptor as another union member than
  the one written.
* `MappedBeforeUse`, `CountsAccurate` - the counters are mapped where tests run,
  and the final report counts every condition of every image.
* `RegistersRestored` - between table entries every register is as at boot, in
  both worlds, and the exception log is disarmed.
* `NoStrayException` - every exception was provoked with the log armed and SKIP
  set, so no handler returns onto the faulting instruction.
* `PrintNeverTraps` - nothing is printed while floating point traps.
* `AllTestsPass` - on a conforming processor no condition fails. That covers the
  interop check: three of the four stages that handle its descriptor (nonsecure
  EL1, EL3, secure EL0, nonsecure EL1 again) leave their verdict in what comes
  back. The secure service's does not come back, since YIELD (`el1/el1.c:91-94`)
  copies the buffer out and never in; the property says of it that it finds
  nothing to report.
* `RunsTheTable` - the system implements `TestRunner`.
* `ReachesShutdown` - every run ends.
* `FullInv` - the inductive invariant, see below.

Memory:

* `MemTypeOK` - the type invariant: every walk stays within the tables.
* `TreeShape` - no table page is entered twice, at any level or under any root.
* `NestingBound` - the nested `mem_map_pa()` never needs a table page itself.
* `TablesReachable` - with the MMU on, every table page is mapped at its own
  address; what the page table window is for.
* `ImageIntact` - copied code and data are never overwritten and never double as
  a table.
* `NoStaleUse` - nobody uses a page through an entry only the TLB still has.
* `OnlyEntryAborts` - everything is mapped when it is used, with the access it
  is used with, the loader's last read apart.
* `SharedPagesAgree` - the control block, the SMC buffer and the test counters
  are one frame in all three address spaces, open to EL0 of both worlds.
* `ProgramEnds` - every call returns: the recursion ends.
* `ImplementsAddressMap` - the tables implement `AddressMap`.
* `HandledOnDemand` - refuted, see Findings.

Registers:

* `OwnContext` - whatever is resumed, after whatever nesting and switching, runs
  in its mode, with its callee-saved registers, its link register and its frame
  on its stack.
* `ResultDelivered` - an SVC or SMC returns its own handler's result, also when
  the other world ran in between.
* `BootHandover` - both kernels start with the control block's address in
  register 4.
* `MonitorStack` - balanced on AArch64; on ARM two words deeper with every switch
  and no more.
* `KernelStacks` - whenever EL0 runs, its kernel's stacks are where `el1_start()`
  left them. EL0 has a stack of its own, so a word left behind at each exception,
  by a path that takes the exit of another entry, disturbs nobody until the page
  is full.
* `RetryUnlessSkip` - an instruction is passed over only with SKIP set. Refuted on
  ARM, see Findings; on AArch64 the handler computes it so and no property is
  stated of it.
* `TrapRestoresSaved` - a handled exception gives back the registers its vector
  saved (ARM; refuted on AArch64).
* `FrameInv` - the inductive invariant, one per architecture, see below.

## Runs

The first four runs use `MCTzSystem`, the `memory_` runs `MCBootSequence`, the
`vectors_` runs the vectors of their architecture, with the inductive invariant
(`VectorsA64Invariant`, `VectorsArmInvariant`) where the run is to pass.

| Run | Constants | Checks |
|---|---|---|
| `aarch64_table` | AArch64, the shipped table | `RegistersRestored`, `NoStrayException`, `PrintNeverTraps`, `AllTestsPass`, `ReachesShutdown` |
| `aarch64_tables` | AArch64, the shipped table and every table of at most two of its entries | `TypeOK`, `WorldConsistency`, `ServiceParked`, `OpMatchesDescriptor`, `MappedBeforeUse`, `CountsAccurate`, `FullInv`, `RunsTheTable` |
| `arm_tables` | ARM, the same family of tables | `RegistersRestored`, `AllTestsPass`, `ReachesShutdown` |
| `uninit_pa` | as `aarch64_tables`, the uninitialised address may be zero | `CountsAccurate` is violated |
| `memory_aarch64` | AArch64, the boot sequence | `MemTypeOK`, `TreeShape`, `TablesReachable`, `NestingBound`, `ImageIntact`, `NoStaleUse`, `OnlyEntryAborts`, `SharedPagesAgree`, `ImplementsAddressMap` |
| `memory_arm` | ARM, the boot sequence | `OnlyEntryAborts`, `SharedPagesAgree`, `ProgramEnds` |
| `memory_on_demand` | as `memory_aarch64` | `HandledOnDemand` is violated |
| `vectors_aarch64` | AArch64, 23 switches | `OwnContext`, `ResultDelivered`, `BootHandover`, `MonitorStack`, `KernelStacks`, `FrameInv` |
| `vectors_arm` | ARM, 15 switches | `OwnContext`, `ResultDelivered`, `BootHandover`, `MonitorStack`, `TrapRestoresSaved`, `FrameInv` |
| `vectors_trap_x0` | AArch64 | `TrapRestoresSaved` is violated |
| `vectors_arm_retry` | ARM | `RetryUnlessSkip` is violated |

Bounds. The program itself is bounded: the table is finite and there are no
external inputs, so with the shipped table the state space is the program's own;
nondeterminism comes from garbage values only. The family of tables adds every
order of every two tests, the empty table included: since `RegistersRestored`
holds between entries, a test can be affected by its predecessors only through
what a pair shows. `UninitPa = {"junk"}` in the passing runs is the case in
which the lookup happens; the other case is the finding below.

Memory. The sequence of calls is the program's own; what is scaled down is the
layout (`MCBootSequence`): 11 regions of 24 pages stand for what the last-level
tables map, each section has one or two pages (an ARM kernel four stack pages,
an ELF image three), the heap two, the ARM table pool 8 pages, the AArch64 window
14. The regions keep the real layout's relations: which images share a
first-level or second-level entry, pools that lie in one region with their
window, table pages that must be allocated while a walk is going on. Branches
come from the TLB and the ELF check. The pools are as long as a region: a pool
that grew out of the region its window covers (2 MB on AArch64, 1 MB on ARM)
would make `mem_map_pa()` recurse deeper, which the code does not exclude and
the images are too small to reach. The layout follows the virt and vexpress-a15
platforms; that of vexpress-a9 is not covered.

Registers. `MaxSwitches` is the number of world switches the shipped table makes
(counted in `TzSystem`: 23 on AArch64, 15 on ARM); between two switches any
sequence of calls, traps and returns is followed. With 15 switches the ARM
monitor has lost 120 bytes of the page its stack has; the 4096 would be used up
after some 500, in an abort whose vector pushes onto the same stack.

Fairness. `WF_vars(Next)` (`WF_vars(Step)` in `ImageMemory`): one processor, no scheduler, interrupts never taken;
the only thing assumed is that the processor goes on executing. Nothing is
assumed about which action is taken.

Deadlock is checked. After shutdown the machine may only stutter (`Off`), as it
may at the end of the boot sequence (`Finished`).

## Findings

* `uninit_pa`: `map_va()` (`el0/el0.c:33`) does not set `op.map.pa`, and
  `el1_map_secure()` (`el1/el1.c:52`) looks the physical address up only when
  that field is non-zero. If the stack holds zero there, EL3 and the secure
  world map the counters' address to physical page 0, and what they count is
  missing from the final report.
* `memory_on_demand`: `el1_load_el0()` unmaps the ELF image and then reads
  `e_entry` through the mapping (`el1/aarch64/el1_loader.c:79`). It works as long
  as the TLB still has the entry. Nothing maps a page "on demand", as
  `el1_init.S:128` has it: every abort ends in shutdown.
* `vectors_trap_x0`: on AArch64 an exception from EL0 that is not an SVC leaves
  through the exit of the SVC path, which drops the saved x0
  (`el1/aarch64/el1_exception.S:65`). The EL3 vector restores it.
* `vectors_arm_retry`: on ARM the return address of an undefined instruction is
  never moved back (`el1/el1.c:215` adds to it, and `__set_exception_return()` is
  empty): the instruction is skipped with or without SKIP.

## Proofs

### The composed system

`TzProofs` proves, for **every** `Scripts`, `Tables`, `UninitPa` and both
architectures:

* `Inductive`: `Spec => []IInv`, from `InitEstablishesIInv` and
  `NextPreservesIInv`;
* `TypeCorrect`, `WorldsAgree`, `ServiceAlwaysParked`, `DescriptorsMatch`:
  `[]TypeOK`, `[]WorldConsistency`, `[]ServiceParked`, `[]OpMatchesDescriptor`.

Assumptions (in `TzMachine`; TLC evaluates them in every run):
`ArchAssumption`, `ScriptsAssumption` and `TablesAssumption` are types;
`UninitPaAssumption` lists the possible garbage; `ScrDisciplineAssumption` says
how test functions treat SCR: they never set or clear NS themselves, write only
a value read earlier, and read and write it at one level. The scripts of the
repository satisfy it. So the theorems hold for any test the bench is extended
with that follows this discipline, and the assumption is what an author of a new
test has to keep.

Argument. `WorldConsistency` alone is not inductive: a SET_REG of SCR writes
whatever is in the descriptor, a switch resumes whatever the other world was
doing, a handler believes the descriptor it finds. `IInv` adds
`ContextsLinked` (what EL0 waits for is what EL1 is doing, in live and saved
contexts), `LevelsAgree` (the running level and the labels), `OtherWorldParked`,
`TestActive` and `LocalScr` (the running test, and the world its copy of SCR came
from), `SvcRequest` / `SmcRequest` (opcode, caller and descriptor of the pending
call) and `SmcResult` / `SvcResult` (what it leaves for the code it returns to).
The NS bit is followed through all of these: from the register into the buffer,
into the descriptor, into the test's local, and back. `TzImageProofs` has the lemmas
about calls, returns and switches and one step per action of EL0, EL1 and EL3,
`TzTestProofs` one per action of the test functions.

The second half of `TzProofs` goes on from there, for the same constants:

* `FullyInductive`: `Spec => []FullInv`;
* `TableIsRun`: `Spec => RunsTheTable`. `TestRunner` states no fairness, so the
  refinement is initial states and steps: each entry is executed once, in order,
  at its level and in its world, and the shutdown comes after the last;
* `AlwaysMapped`: `[]MappedBeforeUse`;
* `CountsAreAccurate`: `[]CountsAccurate`, when `"zero"` is not in `UninitPa`. This
  is the exact condition: with it in, the run `uninit_pa` violates the property.

Argument. The step that matters for `RunsTheTable` is the start of a test, which
may be taken by any of the images, several calls and up to two world switches
after the driver chose the entry. `InFlight(op)` says that a request is still on
its way and `Carried` which of the copies of the descriptor the code at work
reads; `TableProgress` that this copy is the entry under the index, and that the
entry is counted as executed exactly when its request is not in flight any more
(`EntryDone`). An entry executed twice, or lost in a YIELD, would break that.
`ControlMapped` follows the page of the counters the same way: mapped in the
nonsecure world when it is allocated, carried with the MAP request as the physical
address `el1_map_secure()` looks up, mapped by EL3 before the secure world gets the
request, and everywhere when it is answered. `CountsKept` then needs no more than
that all three mappings are the same page.

### Memory

`MemoryProofs` proves, for **every** layout and every sequence of calls that meet
the assumptions of `PageWalk`, `ImageCalls` and `ImageMemory`, on both architectures
(of `ImageCalls` it needs the first three only):

* `MemInvariant`: `Spec => []MemInv`;
* `MemTypeCorrect`, `NestingCorrect`, `TreesCorrect`: `[]MemTypeOK`,
  `[]NestingBound`, `[]TreeShape`;
* `AddressMapRefined`: `Spec => ImplementsAddressMap`, that is, the tables with
  their recursive edits implement the partial functions of `AddressMap`.

Assumptions, all evaluated by TLC on the layout of the runs: `PoolAssumption`
(pool pages are distinct and no roots; roots may be shared), `IndexAssumption`
(a page is determined by its indices), `ProgramAssumption`, `HeapAssumption` and
`FrameAssumption` (types), and `WindowAssumption`: when an image turns its MMU on
it has mapped a page in each region its pool runs through. The last one is what
`el3_map_pt` and `el1_map_pt` are for; without it the nesting is unbounded.

Argument. `TreeShape` says nothing about pages not yet used and about calls in
progress, so `MemInv` adds: every table page in use has one level and one parent
(`Shape`, by two functions from pages to levels and parents), pages the pools
have not handed out are in no table and in no frame, a page just taken is held
by one activation, the entry it will go to is still empty when the nested call
returns, and the region of every pool page is mapped once the MMU is on. From the
last one follows that the nested call meets no empty entry above the last level:
the stack has at most two activations (`NoThird`). `PageWalkProofs` has the facts
about walks: what writing a last-level entry, or linking a fresh table, changes
in the walk of any other page. Refinement then is one step per action: only
`SetLeaf` and `mem_unmap_va()` change a translation, and they change one.

`ImageProofs` goes on to what the images can rely on while they boot, load and run,
again for every layout and every sequence of calls that meet the assumptions:

* `ReachInvariant`, `TablesReachableCorrect`: `[]ReachInv`, `[]TablesReachable`, and
  from it `WalksNeverFault`: no step of `mem_map_pa()` ends in a data abort;
* `TlbInvariant`, `NoStaleUseCorrect`: `[]TlbInv`, `[]NoStaleUse`;
* `CopyInvariant`, `ImageIntactCorrect`: `[]CopyInv`, `[]ImageIntact`;
* `UseInvariant`, `OnlyEntryAbortsCorrect`: `[]UseInv`, `[]OnlyEntryAborts`.

The assumptions say what an image does in which order, never what is then in a table
or in the TLB; `ImageCalls` states them and the code meets them as follows.

| Assumption | Says of the calls | Why the code meets it |
|---|---|---|
| `OrderAssumption` | an image that boots is not interrupted by one that shares its root | the images run one after the other; only the ARM monitor and secure EL1 share a root |
| `TablePageAssumption` | what can become a table page is mapped at its own address or not at all, and never unmapped | the regions of `memory.h` do not overlap; the boot code maps its window with VA = PA |
| `BootAssumption` | the boot code takes nothing from the heap; its window holds the root and all pool pages it can have taken by then | the heap starts in `el3_start()` and `el1_start()`; `el3_map_pt` and `el1_map_pt` map the window before the MMU goes on |
| `UseAssumption` | a page is not used, changed and used again, unless the TLB was emptied meanwhile | the code maps before it uses and unmaps after; the header of the ELF image is the exception (see Findings) |
| `CopyAssumption` | a page that is copied to is mapped once, by `map_va`, and copied from one page that is mapped in place | the sections are copied from flash and from the ELF image, which are mapped with VA = PA |
| `ProvidedAssumption` | a page is mapped by an earlier call before it is used, with EL0 access if EL0 uses it | the order of `el*_init.S`, `el*_start()` and `el1_load_el0()` |

How many pages a booting image can have taken is bounded by `Demand`: one for each
`map_va` call and one for each entry above the last level that the pages it has named
select.

Argument. `TablesReachable` speaks of an image that runs with its MMU on; its tables
were built with the MMU off, from a pool whose pages nothing had mapped. `ReachInv`
therefore says that each table page of a root is mapped, or was handed out to an image
still booting (`TablesMapped`); that the page an activation is about to enter is
mapped when the inner call has returned (`NewMapped`); that the pool pointer of an
image still booting is within `Demand` (`WithinDemand`:
every table page taken stands for a prefix of some page named so far, and for one
only); and that what the calls have mapped stays mapped (`ShownMapped`). Switching
the MMU on is where these meet `BootAssumption`. `TlbInv` follows an entry from its
use: one that only the TLB holds is older than a call that changed its page
(`StaleOutdated`), and one that still is in the tables was used by an earlier call
(`TouchedUsed`). For `ImageIntact`, contents are not enough: a page of the pool that
was copied to must not be handed out again, as a table or otherwise. `CopyInv` says
that the frame behind each destination was taken from the pool, is no table and is
waited for by no activation (`Data`), that no two destinations have the same frame
(`DestApart`), also while the call that maps one is under way (`DestPending`), that
what was flash at reset still is, and that the page a copy reads is in place.
`UseInv` says that what the calls have provided (`Provided`) is mapped, with the right
EL0 has; the ARM boot code is what makes it delicate, since it keeps an entry that is
valid already, whatever right that one gives.

### Registers

`VectorsA64Proofs` proves, for **every** `MaxSwitches`, on AArch64:

* `FramesKept`: `Spec => []FrameInv`;
* `ContextIsOwn`, `ResultIsDelivered`, `KernelsGetSyscntl`, `MonitorStackIsKept`,
  `KernelStacksAreKept`: `[]OwnContext`, `[]ResultDelivered`, `[]BootHandover`,
  `[]MonitorStack`, `[]KernelStacks`.

The only assumption is `Arch = "aarch64"`, the architecture `VectorsA64` is for.

Argument. `OwnContext` looks at the registers in use; what a return brings back is
elsewhere. `FrameInv` says where: `LowerFrame` and `CurrentFrame` name every word
of the frames a vector and its C handler push; `KernelStack`, `MonitorFrames` and
`UserStack` say which frames are on which stack for each chain of calls and
exceptions there can be; `Suspended` says that the world that waits stopped in the
SMC of an SVC handler, and what its buffer and its stacks keep for it. A step of
one world touches its own stacks and the monitor's, so what the other keeps stays
(`Parked`). A return from an exception taken at its own level restores no SPSR:
the proof needs, and `FrameInv` states, that nothing wrote it since the entry. The
proof has a predicate for what each operation of a vector does to the processor
(pushing, taking an exception, calling C, returning from it, restoring from a
buffer), a lemma that the operation does it, and one lemma per action that puts
these together.

`VectorsArmProofs` proves, for **every** `MaxSwitches`, on ARM:

* `ArmFramesKept`: `Spec => []FrameInv`;
* `ArmContextIsOwn`, `ArmResultIsDelivered`, `ArmKernelsGetSyscntl`,
  `ArmMonitorStackGrows`, `ArmKernelStacksAreKept`, `ArmTrapRestoresSaved`:
  `[]OwnContext`, `[]ResultDelivered`, `[]BootHandover`, `[]MonitorStack`,
  `[]KernelStacks`, `[]TrapRestoresSaved`. (The run `vectors_arm` checks `FrameInv`,
  from which `KernelStacks` follows, and not `KernelStacks` itself.)

The only assumption is `Arch = "arm"`.

Argument. Here every mode has its own stack, link register and SPSR, and a vector
stores the return state on the stack of the mode it enters (`srsdb`). The frames
of all three vectors have one form, `Frame`; `InMain`, `InSvc` and `InTrap` say
which of them are on the stacks of USR, SVC and UND mode, for the live world out
of its registers and for the waiting one out of its buffer (`Suspended`). The
monitor's stack is the exception: `monitor_switch` leaves the two words it returns
through behind, so `FrameInv` counts them. Outside the monitor the stack is
`Depth` words deep, 1 + 2 * (1 + switches); the frame of an SMC lies above that,
whatever the earlier switches left below. `ArmMonitorStackGrows` is therefore an
exact statement of the leak, not a bound on it: it holds for any number of
switches because the model's stack has no end.

### Only model-checked

`ReachesShutdown` and `ProgramEnds` (liveness); the properties that depend on what the
shipped scripts contain: `RegistersRestored`, `NoStrayException`,
`PrintNeverTraps`, `AllTestsPass`; and `SharedPagesAgree`, which is about the one
sequence of calls `BootSequence` gives (a fold over sequences that no theorem here
looks into). That this sequence meets the assumptions of `ImageCalls` is evaluated by
TLC, on the two layouts of the runs.

## Not modelled

* The abort vectors of EL1 and EL3 beyond the shutdown they end in, and the
  interrupt vectors, which loop and are never entered.
* In the boot assembly: UART and device set-up, and the values written to SCTLR,
  TTBCR, DACR, MAIR and VBAR. They are straight-line code with no state the rest
  depends on other than "the MMU is on".
* Registers the switch saves that nothing but the boot code of a kernel writes,
  and the IRQ and ABT banks.
* Scratch registers across a trap (x4 to x18, r12): no vector saves them, and
  what is in them is the compiler's choice.
* Offsets within pages, section headers of the ELF file (a list of pages to
  copy), sizes of descriptors.
* libcflat (third party), platform headers, linker scripts and build files (no
  behaviour).
* Code under `#if 0` or `REMOVE_OR_INTEGRATE`, which is not part of the program.

## Order of development

Interop, TzMachine, El3Monitor, El1Kernel, El0Programs, TestMacros / TestScripts /
TestInterpreter, TestRunner, TzSystem, TzInvariant and its proofs; PageWalk,
PageTables, AddressMap, ImageMemory, BootSequence and their proofs; VectorState,
VectorsA64, VectorsArm; the proofs of `RunsTheTable` and of the vectors; ImageCalls
and ImageProofs.
