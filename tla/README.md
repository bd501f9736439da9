# Verification of eVisor

eVisor is a type-1 hypervisor for ARMv8-A: it runs at EL2 on one core of a
Raspberry Pi 4 or of QEMU's virt machine, loads guest images from a FAT32
volume and runs each guest in a vCPU of its own. These modules model the parts
whose correctness depends on interleaving, ordering or state kept across calls,
check them with TLC on small instances, and prove the main results with TLAPS.

Paths below are relative to the repository's `src/`.

## 1. The system

| Part | State | Operations | Works with |
|---|---|---|---|
| Scheduler (`kernel/sched`, `kernel/kernel_main.cc`) | task table `tsks_`, `count_tsks_`, `cur_tsk_`, each `Tcb`'s counter, state, saved EL2 context | `CreateTask`, `Schedule`, the tick (`SchedTimerHandler`), `ExitTask`, the init loop | world switch, traps, tick |
| World switch (`kernel/vm`, `vectors*.S`, `sched_vcpu_switch.S`, `cpu_regs.cc`) | exception frames, `Tcb::vcpu_sysregs`, `VTTBR_EL2` | `enter_hypervisor`/`VmLeave`, `leave_hypervisor`/`VmEnter`, `SchedContextSwitch` | every entry to and exit from EL2 |
| Traps (`arch/arm64/irq/trap.cc`, `mm/kmm_trap.cc`) | the trapped frame | WFx, system register access, MMIO, stage-2 fault | scheduler, board, page tables |
| Interrupts (`gic_v2.cc`, `arm_generic_timer.cc`, `cpu_irq.cc`) | handler table, the GIC's active interrupt, the comparator | `RegisterIrq`, `HandleIrq`, `NotifyVirqHardware` | scheduler (tick), serial |
| Console (`platforms/serial.cc`, `board.h`, `virtio_pl011_uart.cc`, `common/queue.cc`, `sched_task_console.cc`, `sched_virq.cc`) | command state, forwarded PID, in and out queues, virtual UART registers, virtual interrupt | `?l`, `?s<n>`, forwarding, `FlushConsole`, virtual UART access | interrupts, world switch, MMIO traps |
| Stage-2 tables (`mm/pgtable_stage2.cc`) | each guest's table tree | `MapPage` and its callers | fault trap, board set-up, loader |
| Stage-1 tables (`arch/arm64/mmu.cc`, `boot_el2.cc`) | pool of tables | `InitXlatTables`, block splitting, `Enable` | boot only |
| Allocators (`mm/heap`, `mm/uncached`, `mm/user_heap`) | page maps | allocate, free | everything above and below |
| Files (`fs/fat/fat32.cc`, `fs/loader.cc`) | BPB geometry, cluster chain walk | `Init`, `Open`, `Read`, `LoaderLoadFile` | block devices, stage-2 tables |
| Block devices (`drivers/virtio`, `drivers/mmc`) | virtqueue indices; card state and command registers | `ReadWriteDisk`; command, data and reset sequences | mailbox, timer, uncached allocator |
| Board drivers (`drivers/uart`, `mailbox`, `gpio`, `clkrst`, `platforms/timer.cc`) | device registers | register access and polling | everything |
| Support (`common/cstdio`, `cstring`, `cctype`, `common/list.cc`) | none | formatting, copying; `list.cc` is not built | everything |

One core, one EL2 stack per task, interrupts masked while EL2 code runs except
in the init task's loop: there is no parallelism, but any task can be left in
the middle of a handler by `SchedContextSwitch`, and devices act at any time.
What is hard follows from that:

- a handler that switches tasks continues much later, with state read before
  (`iar`, the current task) and a processor that ran others in between;
- saving and restoring is split over `VmLeave` and `VmEnter` with a switch
  between them, so each must name the right task;
- an interrupt stays active at the GIC while its handler is suspended;
- credit is handed out in rounds; who runs next depends on everyone's history;
- the console's queues, virtual UART and virtual interrupt are filled in an
  interrupt and emptied in traps and world switches;
- drivers poll devices that answer late, fail or time out.

`PROJECT.json` lists each hazard with its line and the property that covers it.

## 2. Modules

| Module | What it is |
|---|---|
| `Vcpus` | Abstract specification: what the hypervisor promises its guests, each a private machine |
| `Sched` | The EL2 core: scheduler, world switch, trap handlers, interrupt path, with guests and devices as environment |
| `MCSched` | Instances of `Sched` |
| `SchedProofs` | The inductive invariant of `Sched` and the properties that follow |
| `GuestProofs` | `Sched` implements `Vcpus` |
| `Fifo` | Abstract specification: a bounded first-in first-out queue |
| `Queue` | The ring buffer |
| `Emulation`, `MCEmulation`, `EmulationProofs` | System register and device traps, the emulated distributor and UART over `Queue`; its instance; that the ring implements `Fifo`, by itself and here, and the action properties |
| `Console` | Serial commands, the board's queues, virtual UART, virtual interrupt, guests' drivers |
| `MCConsole`, `ConsoleProofs` | Instances of `Console`; its inductive invariants |
| `GuestMemory` | Abstract specification: each guest has a private memory that starts as its image |
| `Memory` | Kernel and user heap, stage-2 tables, vCPU set-up, loader's page loop, stage-2 fault |
| `MCMemory`, `MemoryProofs` | Instances of `Memory`; its inductive invariant, and that it implements `GuestMemory` |
| `Storage`, `MCStorage`, `StorageProofs` | `LoaderLoadVcpu` of both boards: FAT32 volume or virtio disk, cluster list, virtqueue, uncached pages; its instances; its invariants |
| `Mmu`, `MCMmu`, `MmuProofs` | EL2's own translation tables, as the boot code builds them; its instances and the program's layouts; its inductive invariants |
| `Mmc`, `MCMmc`, `MmcProofs` | The SD card driver: `Open` with the steps of `ResetCard`, `Read`, the commands below them; its instance; its inductive invariants |

`Console` uses sequences where the code has `Queue`s, which `EmulationProofs`
justifies, and leaves open which task runs next, which `Sched` decides. `Memory`
runs one handler at a time, which is what `Sched` shows of EL2 code that does not
call `Schedule`; the loader and the fault handler do not. `Storage` is what happens
inside a `LoadPage` of `Memory`, and where the page comes from. `Mmc` is the driver below the reads of `Storage` on
`raspi4`: `Read` either copies what was asked for or returns an error (`ReadsAreRight`), and
these are the two outcomes `Storage` has for a sector. `Emulation` is what happens between a
trap of `Sched` and the return from it, for one guest at a time; it contains `Queue`. `Mmu` ends
before `Sched` begins.

### `Sched`

A task is a continuation `pc[t]` on its own EL2 stack; only the continuation of
`cur_tsk_` moves. An action is a stretch of EL2 code between two points where
something else can happen: a context switch, a return to a guest, or the
unmasked instructions of the init loop. A handler that calls `Schedule` ends its
action there, and what follows in the source is the action of the next point:
`HandleTrapWfx` and `HandleTrapWfxEnd`, `HandleIrq` and `EndOfInterrupt`.

| Point `pc[t]` | In the code |
|---|---|
| `create` | `KernelMain`, creating the vCPUs |
| `loop`, `sched`, `unmask` | the init loop before `CpuDisableIrq`, `Schedule`, `CpuEnableIrq` |
| `new` | a vCPU that was never dispatched; next is `LoadTaskImage` |
| `guest` | executing at EL1 |
| `trap` | `TrapHandleLowerElAarch64Sync`, after `enter_hypervisor` |
| `wfx` | after `Schedule` in `HandleTrapWfx` |
| `irq`, `eoi` | before and after the registered handler in `GicV2::HandleIrq` |
| `leave` | before `leave_hypervisor` |

`Best` and `Credits` are the two loops of `ScheduleInternal`. The `while` runs at
most twice: the init task is always RUNNING and priorities are positive, so
after one refill the largest counter is not 0. `LoadTaskImage` runs the loader
in one step; the file system and the block device below it are other components.

The guests are the environment: they execute any instruction (`hw_pc`
advances, `hw_el1` takes any value) and raise any trap. `ExitTask` has no caller
in the tree; the run `sched` lets a trap handler call it for vCPU 2 (`Exiting`).

Abstractions and bounds:

- The EL1 register file is one value of `Vals`; the general-purpose registers
  are saved and restored on the same frame as the PC and are left out.
- Guest addresses are `0..LastPc` and wrap; two are enough to tell a retired
  instruction from one that was not.
- Priorities at the GIC: `RegisterIrq` only clears bits of registers that reset
  to 0, so the tick and the UART have the same priority and neither preempts
  the other (`Signalled`). The acknowledge order is left open.
- `due` counts elapsed timer intervals up to `MaxDue`; `TimerFire` is disabled
  at the bound. One interval is enough for the safety runs, two make the timer
  lag behind.
- `kInitTask` is `constexpr` and written through a `const_cast`; the models take
  it to be in writable memory.
- The task table has room for every configured vCPU (`SchedAssumption`): the code
  has one entry in `kConfigVCPUs` and eight slots.
- Bounds are in the guards: no state constraints are used, and no symmetry (PIDs
  are ordered).

Fairness: `FairSpec` assumes that the processor goes on executing EL2 code (weak fairness
of `Hypervisor`), that it takes an interrupt that is signalled when a guest is
entered (strong fairness: the guest may leave at once, but `ERET` is context
synchronizing and the interrupt is taken before the next exception completes),
that timer intervals go on elapsing, and that the acknowledge register does not
return the UART for ever while the timer is pending (the lower INTID wins at
equal priority). Nothing is assumed of guests: a guest may loop for ever without
a trap. `YieldSpec` adds that guests go on executing WFI or WFE.

### `Queue`

`head_`, `tail_` and `queue_` of `common/queue.cc`, with `Push`, `Pop`, `Full` and `Empty`
as the code computes them. One slot is kept free; `Contents` reads the ring from
head to tail and is the sequence of `Fifo`. The buffer starts with whatever the
page held (any function in `Init`).

### `Emulation`

One guest and what its trapped instructions find. A trap is one step: interrupts are masked
from the vector to the return. `insn` is the instruction that trapped in the last step,
`regs` the frame it left, `skip` by how much the saved PC was moved.

| Definition | In the code |
|---|---|
| `Mrs`, `Msr` | the tables of encodings of `HandleTrapSystem` |
| `VCpuSysregs`, `AllSysregs` | the fields of `struct VCpuSysregs`, and the order in which the assembler stores registers into it |
| `Banks`, `GicWord` | the tests of `VirtioGic::Read` and `Write` in their order, and the word of `struct Regs` an offset comes to |
| `UartSize`, `UartReset`, `UartId` | the registers of `VirtioPl011Uart`, their widths, what they start with |
| `vcpu_sysregs`, `gicd`, `uart`, `out` | the vCPU's copies, the distributor's words, the UART's registers, the length of the transmit queue |
| `stored` | history: what was last stored to each register without side effects |

`LoadsFollowStores` compares every load with what was last stored, so the index arithmetic of
the seventeen banks shows. It found that four of them (`IGROUPR`, `ICENABLER`, `ICPENDR`, `ICACTIVER`) start
at an offset whose index is 32 of an array of 32 words: the access is to the array
that follows in the struct. The proof found another: the test for `ISENABLER` also takes the
reserved offsets `0xc` to `0x7f`. `Shares` names these pairs and no other; nothing acts on the
distributor's words, so a guest only sees it when it reads back what it wrote.

`SysregsAreOwn` ties together three lists written by hand (the assembler's order, the
struct's, the encodings). `ExecutedOnce` says what may stop EL2 and that the guest otherwise goes on
behind the instruction, with no register changed but the one it names.

- Register 31 is the zero register in an instruction and the word behind x30 in the
  frame, where `enter_hypervisor` stores EL2's stack pointer (`SP`): `str xzr` stores that word. A load
  into it would overwrite it, and `leave_hypervisor` does not restore the stack pointer from there.
- The size and the sign extension of an access are ignored by the code, and in the model. Bytes of one
  word are not told apart, so `LoadsFollowStores` is about guests that access words (`WordAccesses`).
- The encoding that the code takes for a write of `CSSELR_EL1` is that of `CCSIDR_EL1`, which cannot be
  written; no program does (`CcsidrIsReadOnly`).
- The `frame` is the one of this trap: x0 to x30 are one register, `x1`.

Bounds: three guest programs (a UART driver; a distributor driver with registers that
share a word, alone in their words, reserved, and outside every bank; a starting kernel with
every system register and accesses that stop EL2), values 0 and `0x41`, a ring of three
slots. EL2 stops after a PANIC, so deadlock is not checked.

### `Mmu`

`InitXlatTables` for the nine regions of `BootFromEl2`, in their order: an action is one turn of the
loop (`MapBlock`, `NewTable`, `SplitPteBlockDesc`, `NextLevel`) at `level` for the rest (`va`, `size`) of region `r`. `xlat` is the
tables, table 0 the base table, the others the pool of which `idx` are taken. Addresses
count pages. `Path` is `FindPteIndex`, which descends without looking at the type of the entries
it passes; `Walk` is the processor's walk, which looks. The two are written separately.

- `Attributes` is the descriptor a region's attributes come to.
- `Sections` is `linker.ld`: the places of the regions from the sizes of the sections.
- `CheckMmuConfigs` looks at the guest regions only; that kernel regions end inside the
  address space is assumed (`MmuAssumption`). Its check of the physical address is left out.
- `PANIC` (an assertion, or no table left) ends everything. With `NDEBUG` the assertions vanish; that
  build is not modelled.

Bounds: tables of two entries and three levels, eight pages; every three regions
in them (the code has nine, whose sizes the linker decides) and the program's nine with
sections of one or two pages; a pool that runs out for some. `PoolSuffices` evaluates the
count of tables (`TablesFor`, which `TablesAreShared` shows to be what is taken) for the real
512-entry tables, both boards' layouts and sections of 1 to 700 pages: the pool of 14 is enough.
This is the premise of the theorem `BootNeverStops`.
The specification ends when the last region is mapped, so deadlock is not checked.

Fairness (`BootEnds`): the code runs on, with nothing else running.

### `Console`

| Variable | In the code |
|---|---|
| `cur`, `pc`, `state` | `cur_tsk_`, where each task's code is, `Tcb::state` |
| `fwd` | `console_forwarded_pid_` |
| `comming`, `switch_req` | the two static flags of the receive handler in `serial.cc` |
| `in`, `out` | `Board::Console`'s queues |
| `DR`, `RXFE` | the virtual UART's data register and the receive-empty flag |
| `irq_pending`, `is_asserted`, `vi` | `Tcb::stat`, the static flag of `SetCpuVirtualInterrupt`, `HCR_EL2.VI` |
| `lr` | state of list register 0, written by `NotifyVirqHardware` |
| `drv` | where each guest's UART driver is (environment) |
| `typed`, `accepted`, `got`, `sent`, `fault` | histories: what was typed, pushed, received, how much was transmitted, and whether the board of a task without one was used (a null dereference) |

There is one board: `GetPlatformBoard` returns a singleton, so all vCPUs share one
pair of queues and one set of UART registers, and the model has one of each.
The receive interrupt is `TakeUartIrq`, then one `Serial` action per character of the
physical FIFO, then `EndUartIrq`; a guest's access to the UART is `AccessUart`,
which traps, then `ReadFR`, `ReadDR` or `WriteDR`. `VmEnter` and `VmLeave` flush the console of
the assigned task and set the virtual interrupt.

The guest's driver is the interrupt handler and transmitter a PL011 driver
has: acknowledge, read while the receiver is not empty, end the interrupt; poll
the flags, write. At the list register, ending an interrupt that was made
pending again leaves it pending. That the end of virtual interrupt 33 also
deactivates the physical one (the HW bit) is left out.

Bounds: `Capacity` elements per queue (the code: 1023), `MaxTyped` characters typed,
`MaxSent` transmitted. The keys contain every command character and PIDs
of the table; the queues fill with three characters.

Fairness (`FairSpec`, used by `InputIsServed` alone): EL2 code runs on; each task
keeps being dispatched, which is what `EveryVcpuRuns` checks of `Sched`; a guest
executes now and then while it is dispatched and its driver serves its
interrupt; somebody goes on typing up to the bound, so that the receive
handler ends.

### `Memory`

`kheap` holds the kernel heap: the map `kernelHeapMemMap`, the pages as tables, and each
task's `mm` (root table, page count). `uheap` holds the user heap: map,
`nextFreeSpaceIndex`, contents of the pages. `handler` is the call in progress:
set-up of vCPU `g` at step `k` (objects, device pages), loading its image at page `k`,
or none. `CreatePageTable`, `TablesFor` and `MapPage` build tables as the code does, with
entries written into pages; `Walk` is the processor's walk of the same pages. The
two are independent definitions, and what the walk finds after a mapping is what
the properties are about.

- An address is its three table indices. `Index` has two values in the runs, any
  number in the proofs.
- `use` labels each page with what it was allocated for. The code does not have
  it; no action reads it.
- A page that was never written holds `Stale` data and, as a table, `StaleEntry`: a
  heap that forgot to clear would show.
- `PANIC` sets `full` and ends everything (`Halted`).
- The file system may allocate a node of its cluster list for each page
  (`LoadPage(node)`). Read errors panic, and are in `Sched` (`LoadFails`).
- Nothing is freed: `kmm_free` and `umm_free` are reached by nothing that runs.
- A guest that translates one to one (`OneToOne`) is an assumption of the run `memory`;
  `far` drops it.
- TLB and cache maintenance are left out.

Bounds: two guests, two device pages, three RAM pages over two table branches,
one image of one page and one of two. The guests need 27 kernel pages and 6 user
pages at most; the run has 26 and 5, so that both heaps can also run out.

### `Storage`

One specification for both builds: `board` is chosen in `Init`. On `raspi4`, `MmcOpen`,
`FsInit`, then `OpenRead` and `OpenNext` alternate over the sectors of the directory,
`OpenEnd` leaves the loop, and for every page `ReadBegin` (`CalcCluster`), `ReadStep` for
each turn of the loop of `Read` (with `CalcNextSector`), `ReadEnd`. On `qemu`, `VirtioInit`
and `VirtioInitEnd`, then for every sector `ReadWriteDisk` up to the notification,
`CountRequest` (`last_used_index++`), and `ReadWriteDiskEnd` when the wait is over; `Disk`
is the device and acts at any time.

| Variable | In the code |
|---|---|
| `pages` | `kernelUncachedMemoryRegionMap_`: reference count (8 bits) and size of each page |
| `after` | whether what lies behind that map looks free: the search for two pages reads one entry too far |
| `live` | blocks handed out and not given back |
| `list`, `node` | the `ClusterLinkedListNode`s of the file or directory, and `cluster_list` in it |
| `cluster`, `sector`, `buf`, `found` | the locals of `Open` and `Read` |
| `pos`, `remains`, `mem` | how much is copied, how much `Read` still has to copy, and where on the disk each unit in memory came from |
| `vq` | the indices of the two rings, `last_used_index`, the driver's and the device's view; the request's sector, buffer and status |

- Sizes are in units, four to a sector, so that "half a sector" exists. What is
  copied is named by its place on the disk (`<<sector, unit>>`), so memory can be
  compared with the file.
- A name is the sector its entry is in: how long and short names are put
  together is left out.
- `cluster_list` may become null, and both loops step it in every turn. Nothing is mapped at
  address 0 at EL2 (`boot_el2.cc`), so following it is the end: `astray` from the walk of the
  directory (`OpenAstray`), `lost` from `Read` (`ReadLost`, `ReadBeginLost`).
- A read of the card may fail anywhere (`ReadSectorFails`; how it does is in `Mmc`): `ReadSector` then returns
  a null pointer that every caller follows, and the loader is `lost`. A card that does
  not come up ends in `PANIC`.
- The mailbox takes two pages for a load and gets one back, in the map: the
  other stays in use and the count of the first goes below 0. The virtio driver
  keeps three. `RegionLasts` says that nothing else is lost.

With several sectors per cluster the list has an element to go to after a sector only if that sector is a
cluster's last, which `CalcNextSector` tells from the sector's number in the volume and not in its
cluster. So `Open` gets past its first sector only where the data begin one sector before
a multiple of the cluster's size (`FirstIsLast`): always with one sector per cluster, and hardly ever
with several, for which formatters align the data. One sector per cluster is what formatters choose for small FAT32
volumes.

The run `storage` has volumes of one sector per cluster with the entry anywhere; of one and two pages per
cluster with `FirstIsLast`, without the sizes whose last page leaves a small part of a
sector (see section 3); no valid volume; and volumes that make the loader follow a null
pointer or stop short. Those of the run `directory` are aligned. Chains are fragmented, two clusters for the
directory and five for the file. The region has 7 pages and three images are loaded, so
that the third allocation fails, also at the page where the search looks past
the end. Ring indices have 2 bits and wrap within five sectors.

Fairness (`FairSpec`, used by `LoadEnds`): the loader runs with interrupts masked, so
nothing stops it; the disk answers in the end, possibly with an error. A disk
that never answers stops the hypervisor, the wait has no bound.

### `Mmc`

`step` is the function of `ResetCard` that called `SendCommand` or `AppCommand` last (`CheckRca`
and `SetScr` call twice), or `open`, `read`, `failed`; `phase` is where that call is: `app` and `send`
before a command is issued, `wait` in `WaitCommandDone`, `data` in `PerformDataTransfer`,
`finish` in the wait for the end, `sent` and `failed` when it has returned. Each step is one
action, which looks at what came back and makes the next call; `ResetFails` is the
way out to `Open`'s loop (`TryAgain` where the address has just been noted and the card says
that it is not ready). `d`, `device`, `v2_card` and `cmd_error` are the code's; `saved` is what
`AppCommand` keeps of `d` while it sends `APP_CMD`, and `tries`, `ocr_tries` are the loops' turns.

`INTERRUPT` holds the bits the driver looks at (`cmd`, `ready`, `done`, `cto`, `crc`, `dto`); `ctl` is
the command the controller works on and what is left of its transfer. The
controller and the card are the environment: the card follows the states of the
SD specification (`Needs`), answers only what is meant for it, reports that it is
ready after `MaxBusy` polls at most, and stays busy for ever if it has high
capacity and is not told of support. A command or its answer is lost or garbled
(the card may have acted or not), a block does not come or is garbled.

- A wait is long enough: if an answer comes, it comes before the wait is over, since the
  controller itself reports a missing one after 64 clocks of the card. That `WaitCommandDone` takes
  an answer in its last turn for none (`mmc.cc:213`) is left out: what follows would depend on what a
  controller does with a command written while it is busy with another.
- The controller's own reset, the card detection and the clock may fail in
  `ResetHostFails`; `ResetCommandHandlingCircuit` succeeds. Dividers and delays are left out.
- After a transfer that broke off the card is taken to be ready for the next command.
- Blocks are numbers, addresses have a unit; a card that is asked in the wrong unit
  reads somewhere else.
- `CMD_ERROR` bits of answers and the bus width are only printed by the code.

Bounds: four kinds of card (version 1; version 2; high capacity, without and with SDIO), reads
of one and of two blocks, two of them, and the code's own numbers of turns (4 and
5) with five faults, so that every loop is exhausted and one fault is left over.

Fairness (`FairSpec`, used by `CallsReturn`): the driver polls with interrupts masked and
nothing else to run; the controller brings every command to an end.

## 3. Runs

| Run | Instance | What it shows |
|---|---|---|
| `sched` | 2 vCPUs of priority 2, all traps, both interrupts, loader and allocator failures, `ExitTask` on vCPU 2 by either | `SchedInv`, `IrqOwner`, `SwitchOnlyMasked`, `RefillEndsRound`, `WaitIsBounded`, `GuestsArePrivate` |
| `yield` | 2 vCPUs that keep waiting | `EveryVcpuRuns`, `TicksAreHandled` |
| `tick` | 1 vCPU that may stop trapping | `TicksAreHandled` is violated |
| `console` | 1 vCPU with an interrupt-driven driver, 4 characters out of the commands and a PID | `InputInOrder`, `WaitingCharHasIrq`, `CommandsAreStripped`, `InputIsServed` |
| `switch` | 2 vCPUs that receive and transmit, the console changes hands, also to the init task, one ends | `ConsoleInv`, `VirqFollowsQueue`, `NothingHeldBack` |
| `memory` | 2 guests set up, loaded and faulting in any order, both heaps may run out | `MemoryInv`, `PagesArePrivate`, `DevicesStayMapped`, `PagesAreCounted`, `ImplementsGuestMemory`, `OneFaultIsEnough` |
| `far` | guest 2 translates two pages to each other | `OneFaultIsEnough` is violated |
| `storage` | 3 loads on either board, the region runs out, card and disk may fail | `LoadedIsFile`, `OpenFinds`, `ListFollowsFat`, `RegionLasts`, `BuffersReturned`, `LoadEnds` |
| `directory` | 1 load, two, four and eight sectors per cluster, aligned, the entry in the directory's first sector or behind it | `OpenFinds` is violated |
| `mmc` | 4 kinds of card, 2 reads, 5 faults, the code's retries | `NoStaleAnswers`, `OpenMeansReady`, `ReadsAreRight`, `RetriesSuffice`, `CallsReturn` |
| `emulation` | 3 guest programs, a ring of 3 slots, characters typed and printed meanwhile | `ImplementsFifo`, `LoadsFollowStores`, `SysregsAreOwn`, `ExecutedOnce` |
| `mmu` | every three regions in 8 pages, the program's nine, a pool of 6 tables | `TranslatesAsLastRegion`, `TablesAreATree`, `TablesAreShared`, `BootEnds` |

Deadlock is checked in all but the last two: a state where the hypervisor waits for
ever would be one (after `PANIC` it spins, `Halted`). Each property has a mutant in `PROJECT.json`: a
change of one definition that a bug in that code could be, under which TLC finds the
property violated.

"One fault is enough" is stated of the step of the handler rather than as
liveness: that the access completes in the end would otherwise rest on fairness
of the guest.

### Findings

- **The tick can stop** (`tick`). An interrupt taken in the unmasked window of
  the init loop switches to the vCPU inside the handler, so `GICC_EOIR` is not
  written before the init task runs again. Until then the interrupt is active
  and nothing of the same priority is signalled: a guest that never traps keeps
  the processor, without ticks and without console input.
- **The fault handler maps the virtual address** (`far`). It passes `FAR_EL2` where
  the intermediate physical address is needed: a guest whose own translation is
  not one to one faults for ever and takes a page each time.
- **The walk of the directory follows a null pointer** (`directory`). On a card with several
  sectors per cluster `Open` goes to the next element of the directory's cluster list after every
  sector, found or not. The list has one element until a cluster's end has been passed, so
  it reads through null after the first sector, and no file is ever loaded (`OpenGoesAstray`
  proves this for every volume without `FirstIsLast`).

Two properties of `mmc` name what the driver does not do:

- **A retry after the card has its address cannot succeed** (`RetriesSuffice`, its
  `device.rca # 0`): `Open` clears `device_.rca` once, `GO_IDLE_STATE` takes the address back
  in every turn, and `APP_CMD` goes on using it.
- **A lost answer to `SEND_IF_COND` stops the hypervisor** (`CallsReturn`, its second
  disjunct): a card of high capacity is taken for one of version 1, and
  `CheckSdhcSupport` waits for it without a bound.

Met on the way, without a property of their own:

- `?s0` gives the console to the init task, which has no board, and the next flush
  dereferences null.
- Reading the UART's flags takes a character out of the queue and leaves "receive FIFO
  empty" clear; a write of the data register that follows replaces the character, and
  a driver that polls before it transmits then reads what it wrote.
- All vCPUs share the one board of `GetPlatformBoard`, so output a vCPU wrote without having
  the console is printed by the one that has it.
- The comment "Skip init task." in `ScheduleInternal` (`sched_core.cc:151`) is about a loop that
  includes the init task.
- The second turn of `CheckOcr` sends `APP_CMD` twice and not the question, since a failed `AppCommand`
  leaves `APP_CMD` in `d`.
- `mmc_clock.cc:70` masks out the divider it has just put in; `SetupInitialClockRate` asks for the high
  clock where the comment says the identification frequency.
- Behind that, where `FirstIsLast` lets `Open` pass with several sectors per cluster: the walk looks at the
  first sector of each cluster only; `Read` copies the nearest number of whole sectors at once
  (`fat32.cc:260`), goes on one sector behind the first of them, and copies what is left, less than half a sector, from
  there; and a page that begins within a cluster is read past the cluster's end, since the
  bound at `fat32.cc:262` wraps. `Exact` (in `StorageProofs`) is the condition under which none of these happens.
- `CSSELR_EL1` is written under `op1` 1 and read under `op1` 2; the encoding of `ID_AA64MMFR3_EL1` gives `MPIDR_EL1`;
  `ID_DFR0_EL1`, `ID_AFR0_EL1` and `ID_AA64MMFR2_EL1` are in neither table, and reading one stops EL2.
- `GICD_TYPER` and `GICD_IIDR` are writable, and a write to a reserved offset below `0x80` changes an
  enable register (`virtio_gic.cc:65`).
- Normal memory that is not to be executed gets PXN (bit 53), which EL2 does not look at,
  not XN (bit 54): the data, stack and heap sections stay executable, although `mmu.cc:441` and
  `boot_el2.cc:62` read otherwise.
- In `linker.ld` the stack's section is empty and the heap's begins at the same address,
  so the regions of stack and heap are the same 64 MB.

## 4. Proofs

`SchedProofs` proves for any number of vCPUs the table holds, any priority, any
registers and traps:

- `Safety`: `Spec => []SchedInv`. `SchedInv` is inductive. Type correctness alone
  is not: that a dispatched task is a task needs `Runnable` to be non-empty, which
  needs the init task to be RUNNING (`CurrentRuns`); that the active interrupt has
  one owner (`IrqOwner`) needs that a handler is entered with none active and
  masked (`MaskedAtEL2`) and that the other tasks are parked at points of a
  switch (`OthersParked`).
- `InterruptOwnership`, `BoundedCredit`, `RunningOnCredit`: parts of it. That the task with the
  processor has credit (`RunsOnCredit`) needs that `Best` has the largest counter and that a refill
  gives every runnable task some; before the first `Schedule`, IRQs masked, the init task has none.
- `SwitchesAreMasked`, `DispatchesRunning` (only a registered task that was not ended is
  given the processor), `RefillsEndRounds`: what a step may never do.
- `WaitingIsBounded`: bounded overtaking (`WaitIsBounded`). `Ahead(v, t)` is what `t` may still use before the
  waiting task `v` gets the processor: its counter and, when `v` has none left, one refill. A refill
  happens only when `v` has none left, so no step raises it, and each tick or `Schedule`
  lowers the current task's; `AheadIsBounded` starts it at twice the priority at most. What is left to
  liveness (`EveryVcpuRuns`) is that ticks or switches keep coming.

The step that looks like induction over data is `Best`, a `CHOOSE` over the task
table: `BestInRun` climbs the eight slots of the table with `BestStep`, which is
where `NrVcpus < kNrTasks` is used.

`GuestProofs` proves `PrivateMachines`: `Spec => GuestsArePrivate`, the refinement of
`Vcpus`. The mapping takes a vCPU's PC, registers and translation from the
processor while its guest executes and from its frame and `Tcb` otherwise;
`OnlyCurrentExecutes` (from `SchedInv`) makes it well defined, `CurrentSeen` shows
that a step changes at most what the current vCPU sees, and each action is then
one step of `Vcpus` or none.

`EmulationProofs` proves `RingIsFifo` for every ring size: `Contents` is a sequence of
`Count` elements (`ContentsSeq`), a push appends to it, a pop takes its head. The
case split is where an index wraps. For every set of guest programs:

- `EmulatedRingIsFifo`: a trap uses the ring by `Pop` or not at all (`StepOfRing`).
- `TrapsExecuteOnce`: `ExecutedOnce`.
- `LoadsAreFaithful`: `LoadsFollowStores`, for guests that access words. `StoreInv` says that what was stored
  to each register is what its word holds. That a store disturbs no other is arithmetic: `WordOf`
  resolves the seventeen tests into one list of ranges (`Place`), and two registers have the same
  place exactly when `Shares` says so (`SharesWord`). The run has five registers of the distributor.
- `SysregsStayOwn`: `SysregsAreOwn`. `SysInv` says that every copy but `ACTLR_EL1`'s is still what the machine
  held; `FieldOf`, `SameOrder` and `MrsUnique` are about the three lists.

`ConsoleProofs` proves `ConsoleSafety` for any number of vCPUs, capacity and keys.
`VirqFollowsQueue` is not inductive: the static flag `is_asserted` has to agree
with `HCR_EL2.VI` whoever ran last, and each vCPU's pending flag may only be read
after `Board::VmEnter` refreshed it (`VirqInv`). `NoLostWakeup` is the order of "write
the list register, then push" against "read the flags, then end".
`OneReaderReadsInOrder` proves `InputInOrder` for the shipped configuration, one guest
that only receives (`OneReader`), and any queue size: what was accepted is what the guest
has got, what its last read of the flags took out into `DR`, and what is in the queue, in this
order (`Held`). With two receivers or a transmitter it does not hold.
`CommandsStay` proves `CommandsAreStripped` for any input, while no vCPU ends and the init task is not
given the console (`ConsoleRuns`). `Parsed` says that the receive handler's two flags are where in a
command the input is: `Reads` gives a place in the input behind which nothing is decided yet,
for every continuation, so that a character more needs one unfolding of `Stripped`.
Characters are only lost to a full queue, hence its second part (`Len(o) <= Capacity`).

`MemoryProofs` proves for any number of guests, tables of any width and heaps of any
size:

- `MapPageUpdates`: if the tables are disjoint trees, `MapPage` either panics and
  changes no translation, or changes the translation of the one address. The
  argument goes up in layers: a fresh page is in no tree (`FreshTrees`,
  `FreshWalk`), linking it changes no walk (`LinkTrees`, `LinkWalk`), so growing
  tables changes no translation (`Grown`, `TablesGrow`), and writing the last entry
  changes one (`LeafWalk`).
- `MemoryIsSafe`: `MemoryInv`, with one lemma per action. The labels `use` are what
  makes it inductive: that two tables do not share a page is a property of pairs
  of paths, and the label turns it into one of single references.
- `PagesPrivate`: a consequence, since a page has one label.
- `MemoryIsPrivate`: the refinement of `GuestMemory`. What a guest finds at an address
  (`Content`) does not change when a page is taken for an address where nothing was mapped
  (`TakenUnseen`), changes at one address of one guest when an access completes (`CompleteFinishes`,
  from `RamIsOwned`), and is the image when the last page is loaded (`LoadEndStarts`, from
  `LoadProgress`).
- `PagesCounted`, `FaultsDoNotRepeat`: `mm.pages` is the number of mapped pages, and a fault maps
  the page that was missing. The count needs that while a guest is set up nothing but the board's pages is
  mapped (`OnlyDevices`).

The last three assume `Identity`, the guests' own translation being one to one: the run
`far` shows that the code does not keep them without it.

`MmcProofs` proves for any cards, requests, numbers of turns, polls and faults `MmcSafety`: `MmcInv` is
inductive. Its centre is `Wire`: at each place of a call, what the controller may still have of it and which
interrupt bits may be set; that nothing is left over when the next command is issued is what
`NoStaleAnswers` says (`AnswersAreFresh`), and it is not inductive without the bits and
blocks that may be there while the call is under way (`Issued`, `Transferring`, `Through`).
`CallsOfStep` says which commands a step can have in flight, also while `AppCommand` has put its own in
front. `Agreement` relates `device_` to the card's state step by step and gives `OpenMeansReady`
(`OpenAgrees`); `Copied` relates the blocks copied to the address asked for and gives `ReadsAreRight`
(`ReadsReturnTheirBlocks`). `RetriesAreEnough` proves `RetriesSuffice`: no call fails with fewer faults
than turns. It counts, and needs to know that a turn without a fault gets through: in such a
reset the card is where the driver takes it to be at every step, so only the commands that
may be refused are (`Clean`), and a read that will fail has had its fault (`Doomed`).
`EveryCallAdvances` and `ControllerEndsCommands` are what `CallsReturn` rests on beside fairness, for
any bounds. A step of the driver (`DriverAdvances`) starts a `Read`, is the last of a call, or goes on in
the order turn of `Open` or `Read`, step of `ResetCard`, turn of `CheckOcr`, part of `SendCommand`
(`Within`), block; the one way round is the loop in `CheckSdhcSupport`, which has no bound in the code either.
That a command after `APP_CMD` is not taken for one before needs `SavedInv`. What the controller has
still to do (`Rest`) shrinks with each of its steps and grows only when a command is issued.

`MmuProofs` proves for any regions that are aligned and inside the address space, any size of tables and
any pool (`MmuAssumption`):

- `MmuSafety`: `MmuInv` is inductive. `Tree` (each table is linked once, or free) and the translation of
  every page need each other and the loop's state: what is left of the region (`Progress`), that the
  tables of the pool are still zero (`FreeTables`), that `FindPteIndex` finds its way (`WayOpen`).
- `LastRegionTranslates`: `TranslatesAsLastRegion`, at every turn and not only in the end: splitting a block
  moves no page (the offset goes on in the new table), and a block over a table replaces just what it
  covers.
- `TablesFormATree`: `TablesAreATree`.
- `PoolDemand`: `TablesAreShared`. `PoolInv` counts the tables by the blocks that have one: as long as no
  region replaces a table, these are the blocks that a region covers in part. That the loop maps
  the largest blocks it can (`Above`, `Behind`) makes it so.
- `BootNeverStops`: with a pool for that many blocks the assertion in `NewXlatTablesEntry` never fails.
  `MCMmu` evaluates this premise for the program's layouts.
- `EveryTurnAdvances`: every turn of the loop, for any layout, stops EL2, is done with a region, maps
  pages of it, or goes a level further down: in this order none can be taken for ever.

`StorageProofs` proves for any region, number of loads, block size, volumes and disks:

- `TypeCorrect`: `TypeInv` is inductive. That the position stays in the file needs that the
  disk is read by whole sectors and that `Read` has no more to copy than there is (`Copying`).
- `BuffersComeBack`: between calls of `ReadSector` the only block is the one `Open` searches
  (`BufInv`).
- `TheRegionLasts`: `RegInv` says which pages are in use, not only how many: the first two, or three,
  for each image, and behind them at most the buffer of `Open`. So the first fit is known
  (`FirstSpace`, `SpaceBeside`), and no block is handed out twice.
- `ListsAreChains`: each of the two functions that extend the list keeps `Follows`
  (`NextSectorIs`, `Extends`).
- `OpenFindsTheFile`, where the first sector of each cluster counts as its last (`FirstIsLast`; with one
  sector per cluster it is) and the entry is in no other sector (`Searched`), and `LoadsTheFile`: the list's
  elements are those of the chain (`FollowsAt`); the directory's first clusters have been looked at
  and past the chain's end there is none (`EndedChain`), so that the walk does not go astray; in `Read` cluster, sector and position
  belong together before each turn (`ReadAt`); the indices of the virtqueue tell apart a
  request that is served from one that is not (`VqInv`, `SuccDiffers`).
- `LoadsTheFile` also holds for clusters of whole pages with `FirstIsLast`, under a condition on the
  file's last page (`PageClusters`, with the number of units in that page, `Rest`). All that a page needs
  lies in one cluster (`PageInCluster`), and one turn copies it (`CopiesAll`); a second turn would
  follow a null element or read from the wrong place.
  The condition `Exact` joins the three cases; the run `storage` has volumes and disks of each.
- `OpenGoesAstray`: on all other volumes no `Open` returns that the file was found, since the first sector is not the last of
  its cluster and the list has one element (`AstrayInv`). It is what the run `directory` shows on seven volumes.

A chain is a recursive function of the position in it, and so is `Stripped` in `Console`. What is proved of
them goes by the least position that fails (`Least` and `LeastNat`, from the well-foundedness of
`<` on the naturals), the existence of the function included (`StrippedIs`).

Assumptions of the proofs are the named `ASSUME`s of the modules, which TLC
evaluates: fewer vCPUs than slots and positive priority; room in the queues and a
transmitted character apart from the keys; of a guest, that what it loads, accesses and
translates to is its RAM, apart from the device pages, and that no address is
loaded twice; of a volume, that its clusters are numbered from 2 (`IsVolume`).

Only model-checked: the liveness properties (`EveryVcpuRuns`, `TicksAreHandled`, `InputIsServed`, `LoadEnds`,
`CallsReturn`, `BootEnds`: fairness and ENABLED are outside TLAPS), and that the system does not deadlock.
For three of them the part that is safety is proved: `WaitingIsBounded`, `EveryTurnAdvances` and
`EveryCallAdvances` with `ControllerEndsCommands`; that a bounded order has no infinite descent under fairness is
what TLC's runs add.
Also only model-checked: `DevicesStayMapped`. With images and accesses inside RAM and devices outside it
says that pages mapped elsewhere do not disturb a device's entry, for which `MapPageUpdates` is the general statement;
whether a guest's fault can come to a device's address is the question of the run `far`.
Every other property of a passing run is stated by a theorem, some under a hypothesis that
the run makes too: `Identity`; one receiver for `InputInOrder`; `Exact` for
`LoadedIsFile`; `FirstIsLast` and `Searched` for `OpenFinds`, which hold of every volume of the run but
one without an entry, where nothing could be missed.

## 5. Plan

Done: the core (`Sched`, `Console`, `Memory`, `Queue`), files and drivers (`Storage`, `Mmc`),
reads that fail, the stage-1 tables, trap decoding, and the proofs of section 4. Left, in this order:

1. `Evisor`: `Console` under `Sched` instead of an open choice of the next task.
2. Answers of the card that come late, with the timers' 32-bit clock and its wrap.

Not modelled: formatting and copying (`common/cstdio`, `cstring`, `cctype`), which
hold no state; register set-up of GPIO, clocks and boot assembly, which is
straight-line device I/O; `common/list.cc`, which is not built. `PROJECT.json` gives
the reason for each.
