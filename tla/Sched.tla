------------------------------- MODULE Sched -------------------------------
(***************************************************************************)
(* The EL2 core of the hypervisor: the scheduler (kernel/sched), the world *)
(* switch (kernel/vm, vectors.S), the trap handlers (trap.cc, kmm_trap.cc) *)
(* and the interrupt path (gic_v2.cc, arm_generic_timer.cc), with the      *)
(* devices that raise interrupts and the guests that execute and trap.     *)
(*                                                                         *)
(* One physical CPU.  A task is an EL2 stack and a continuation, pc[t];    *)
(* only the continuation of cur_tsk_ runs.  SwitchTaskTo makes another     *)
(* continuation current and leaves the caller's where it was called.  EL2  *)
(* code runs with IRQs masked, so each action is a stretch of EL2 code     *)
(* between two points where another task or a device can get in: a context *)
(* switch, a return to the guest, an unmasked instruction of the init loop.*)
(*                                                                         *)
(* Left out: wording of logs, the statistics in Tcb::stat, the contents of *)
(* general-purpose registers, console and virtual interrupt state (module  *)
(* Console).                                                               *)
(***************************************************************************)
EXTENDS Naturals

CONSTANTS
  NrVcpus,   \* length of kConfigVCPUs
  Priority,  \* Tcb::priority of a vCPU task (the code: 1)
  Vals,      \* contents of the EL1 register file
  Reset,     \* the initial template of sched_create_task.cc
  LastPc,    \* last guest address, in instructions
  MaxDue,    \* bound on the timer intervals counted as elapsed
  Traps,     \* synchronous exceptions the guests may raise
  Failures,  \* fatal conditions that may happen: loader, page allocator
  Exiting    \* vCPUs some caller of ExitTask may name

kNrTasks == 8

TrapKinds == {"wfx", "system", "mmio", "fault", "exit", "unhandled"}

ASSUME SchedAssumption ==
  /\ NrVcpus \in Nat \ {0} /\ NrVcpus < kNrTasks
  /\ Priority \in Nat \ {0}
  /\ Reset \in Vals
  /\ LastPc \in Nat
  /\ MaxDue \in Nat \ {0}
  /\ Traps \subseteq TrapKinds
  /\ Failures \subseteq {"load", "page"}
  /\ Exiting \subseteq 1 .. NrVcpus

VARIABLES
  count_tsks_,  \* Sched::count_tsks_: tasks 0..count_tsks_-1 are registered
  cur_tsk_,     \* Sched::cur_tsk_, as a pid
  counter,      \* Tcb::counter
  state,        \* Tcb::state
  pc,           \* where each task's EL2 code continues ("guest": at EL1)
  why,          \* the exception class of each task's last trap
  ctx_pc,       \* VCpuContext::pc in each vCPU's exception frame
  vcpu_sysregs, \* Tcb::vcpu_sysregs
  hw_pc,        \* the processor's PC while a guest executes
  hw_el1,       \* the processor's EL1 registers
  vttbr,        \* whose stage-2 table VTTBR_EL2 holds, 0 when nobody's
  masked,       \* PSTATE.I
  due,          \* timer intervals elapsed and not yet accounted for
  rx,           \* the physical UART holds received characters
  active,       \* interrupts acknowledged and not ended at the GIC
  iar,          \* the interrupt each task's GicV2::HandleIrq read from GICC_IAR
  panicked      \* PANIC: while (1)

cpu == <<hw_pc, hw_el1, vttbr>>
dev == <<due, rx>>
gic == <<active, iar>>
guest == <<ctx_pc, vcpu_sysregs>>
tsks == <<count_tsks_, cur_tsk_, counter, state>>
vars == <<tsks, pc, why, guest, cpu, masked, dev, gic, panicked>>

Tasks == 0 .. NrVcpus
Vcpu == 1 .. NrVcpus
Registered == 0 .. count_tsks_ - 1
Irqs == {"timer", "uart"}
kInitPriority == 1

\* priority of a task's Tcb
priority(t) == IF t = 0 THEN kInitPriority ELSE Priority

\* pc + 4
Succ4(p) == IF p = LastPc THEN 0 ELSE p + 1

\* The current task's EL2 code moves from one point to the next.
Goto(from, to) ==
  /\ ~panicked
  /\ pc[cur_tsk_] = from
  /\ pc' = [pc EXCEPT ![cur_tsk_] = to]

-----------------------------------------------------------------------------
(* Scheduler *)

Runnable(st) == {t \in Registered : st[t] = "RUNNING"}

\* The first of the tasks in run with the largest counter.
Best(run, c) ==
  CHOOSE t \in run : \A u \in run : c[u] < c[t] \/ (c[u] = c[t] /\ t <= u)

Refilled(c) ==
  [t \in Tasks |->
     IF t \in Registered THEN (c[t] \div 2) + priority(t) ELSE c[t]]

\* Faulty: one task without credit is enough for a refill.
CreditsEager(run, c) == IF \A t \in run : c[t] > 0 THEN c ELSE Refilled(c)

\* The counters when the while loop breaks: the init task is always RUNNING
\* and priorities are positive, so one refill at most is needed.
Credits(run, c) == IF \E t \in run : c[t] > 0 THEN c ELSE Refilled(c)

ScheduleInternal(run, c) ==
  /\ counter' = Credits(run, c)
  /\ cur_tsk_' = Best(run, Credits(run, c))

\* Faulty: the task that gives the processor away keeps its credit.
ScheduleKeepsCredit == ScheduleInternal(Runnable(state'), counter)

\* The states are those the caller leaves: only ExitTask changes one.
Schedule == ScheduleInternal(Runnable(state'), [counter EXCEPT ![cur_tsk_] = 0])

SchedTimerHandler ==
  IF counter[cur_tsk_] > 1
  THEN /\ counter' = [counter EXCEPT ![cur_tsk_] = @ - 1]
       /\ UNCHANGED cur_tsk_
  ELSE Schedule

-----------------------------------------------------------------------------
(* World switch *)

\* VmLeave: the EL1 registers of whatever was interrupted go to the current
\* task's Tcb.
CpuRegStoreVCpuSysregs ==
  vcpu_sysregs' = [vcpu_sysregs EXCEPT ![cur_tsk_] = hw_el1]

CpuRegLoadVCpuSysregs == hw_el1' = vcpu_sysregs[cur_tsk_]

\* Faulty: the stage-2 table stays the previous guest's.
RunVcpuKeepsTable ==
  /\ CpuRegLoadVCpuSysregs
  /\ UNCHANGED vttbr

\* VmEnter: the current task's registers and table go to the processor.
RunVcpu ==
  /\ CpuRegLoadVCpuSysregs
  /\ vttbr' = cur_tsk_

\* enter_hypervisor from a guest, or from the init loop.
EnterHypervisor ==
  /\ IF cur_tsk_ = 0
     THEN UNCHANGED ctx_pc
     ELSE ctx_pc' = [ctx_pc EXCEPT ![cur_tsk_] = hw_pc]
  /\ CpuRegStoreVCpuSysregs
  /\ masked' = TRUE

\* leave_hypervisor: back to the guest, or to the interrupted init loop.
LeaveHypervisor ==
  /\ Goto("leave", IF cur_tsk_ = 0 THEN "loop" ELSE "guest")
  /\ RunVcpu
  /\ hw_pc' = IF cur_tsk_ = 0 THEN hw_pc ELSE ctx_pc[cur_tsk_]
  /\ masked' = FALSE
  /\ UNCHANGED <<tsks, why, guest, dev, gic, panicked>>

IncrementCurrentTaskPc == ctx_pc' = [ctx_pc EXCEPT ![cur_tsk_] = Succ4(@)]

-----------------------------------------------------------------------------
(* The init task: KernelMain *)

Init ==
  /\ count_tsks_ = 1
  /\ cur_tsk_ = 0
  /\ counter = [t \in Tasks |-> 0]
  /\ state = [t \in Tasks |-> "RUNNING"]
  /\ pc = [t \in Tasks |-> IF t = 0 THEN "create" ELSE "new"]
  /\ why = [t \in Vcpu |-> "none"]
  /\ ctx_pc = [t \in Vcpu |-> 0]
  /\ vcpu_sysregs = [t \in Tasks |-> Reset]
  /\ hw_pc = 0
  /\ hw_el1 = Reset
  /\ vttbr = 0
  /\ masked = TRUE
  /\ due = 0
  /\ rx = FALSE
  /\ active = {}
  /\ iar = [t \in Tasks |-> "none"]
  /\ panicked = FALSE

\* CreateTask and AddTask for the next entry of kConfigVCPUs.  The Tcb is a
\* zeroed page; its registers are the template, its entry LoadTaskImage.
CreateTask ==
  /\ count_tsks_ < NrVcpus + 1
  /\ Goto("create", "create")
  /\ count_tsks_' = count_tsks_ + 1
  /\ counter' = [counter EXCEPT ![count_tsks_] = Priority]
  /\ state' = [state EXCEPT ![count_tsks_] = "RUNNING"]
  /\ vcpu_sysregs' = [vcpu_sysregs EXCEPT ![count_tsks_] = Reset]
  /\ UNCHANGED <<cur_tsk_, why, ctx_pc, cpu, masked, dev, gic, panicked>>

\* Every vCPU is registered: KernelMain enters its loop, IRQs still masked.
StartLoop ==
  /\ count_tsks_ = NrVcpus + 1
  /\ Goto("create", "loop")
  /\ UNCHANGED <<tsks, why, guest, cpu, masked, dev, gic, panicked>>

\* Faulty: the critical section is left out.
CpuDisableIrqNot ==
  /\ Goto("loop", "sched")
  /\ UNCHANGED <<tsks, why, guest, cpu, masked, dev, gic, panicked>>

CpuDisableIrq ==
  /\ Goto("loop", "sched")
  /\ masked' = TRUE
  /\ UNCHANGED <<tsks, why, guest, cpu, dev, gic, panicked>>

LoopSchedule ==
  /\ Goto("sched", "unmask")
  /\ UNCHANGED <<count_tsks_, state, why, guest, cpu, masked, dev, gic, panicked>>
  /\ Schedule

CpuEnableIrq ==
  /\ Goto("unmask", "loop")
  /\ masked' = FALSE
  /\ UNCHANGED <<tsks, why, guest, cpu, dev, gic, panicked>>

-----------------------------------------------------------------------------
(* A vCPU's first dispatch: KernelSwitchFromKThread *)

LoadTaskImage ==
  /\ Goto("new", "leave")
  /\ ctx_pc' = [ctx_pc EXCEPT ![cur_tsk_] = 0]
  /\ RunVcpu
  /\ UNCHANGED <<tsks, why, vcpu_sysregs, hw_pc, masked, dev, gic, panicked>>

Panic(from) ==
  /\ ~panicked
  /\ pc[cur_tsk_] = from
  /\ panicked' = TRUE
  /\ UNCHANGED <<tsks, pc, why, guest, cpu, masked, dev, gic>>

LoadFails == "load" \in Failures /\ Panic("new")

-----------------------------------------------------------------------------
(* Synchronous exceptions: TrapHandleLowerElAarch64Sync *)

\* The guest executes an instruction EL2 does not see.
Execute ==
  /\ ~panicked
  /\ pc[cur_tsk_] = "guest"
  /\ hw_pc' = Succ4(hw_pc)
  /\ \E x \in Vals : hw_el1' = x
  /\ UNCHANGED <<tsks, pc, why, guest, vttbr, masked, dev, gic, panicked>>

TakeTrap(kind) ==
  /\ kind \in Traps
  /\ Goto("guest", "trap")
  /\ why' = [why EXCEPT ![cur_tsk_] = kind]
  /\ EnterHypervisor
  /\ UNCHANGED <<tsks, cpu, dev, gic, panicked>>

Handling(kind, next) ==
  /\ Goto("trap", next)
  /\ why[cur_tsk_] = kind

\* WFI or WFE: give the processor away; "wfx" is where Schedule returns to.
HandleTrapWfx ==
  /\ Handling("wfx", "wfx")
  /\ UNCHANGED <<count_tsks_, state, why, guest, cpu, masked, dev, gic, panicked>>
  /\ Schedule

\* Dispatched again: the instruction retires.
HandleTrapWfxEnd ==
  /\ Goto("wfx", "leave")
  /\ IncrementCurrentTaskPc
  /\ UNCHANGED <<tsks, why, vcpu_sysregs, cpu, masked, dev, gic, panicked>>

\* An ID register or csselr/actlr access.
HandleTrapSystem ==
  /\ Handling("system", "leave")
  /\ IncrementCurrentTaskPc
  /\ UNCHANGED <<tsks, why, vcpu_sysregs, cpu, masked, dev, gic, panicked>>

\* A load or store to a virtual device.
HandleMmTrapRegisterAccess ==
  /\ Handling("mmio", "leave")
  /\ IncrementCurrentTaskPc
  /\ UNCHANGED <<tsks, why, vcpu_sysregs, cpu, masked, dev, gic, panicked>>

\* A stage-2 translation fault: map a page; FlushTlbVMID clears VTTBR_EL2.
HandleMmTrapMemoryAccessFault ==
  /\ Handling("fault", "leave")
  /\ vttbr' = 0
  /\ UNCHANGED <<tsks, why, guest, hw_pc, hw_el1, masked, dev, gic, panicked>>

PageAllocateFails ==
  /\ "page" \in Failures
  /\ Panic("trap")
  /\ why[cur_tsk_] = "fault"

\* HVC, SVE, FP and every other class.
UncaughtException ==
  /\ Panic("trap")
  /\ why[cur_tsk_] = "unhandled"

\* Faulty: a task that ends itself goes on.
ExitTaskReturns(victim) ==
  /\ victim \in Exiting \cap Registered
  /\ Handling("exit", "leave")
  /\ state' = [state EXCEPT ![victim] = "ZOMBIE"]
  /\ UNCHANGED <<count_tsks_, cur_tsk_, counter, why, guest, cpu, masked, dev, gic,
                 panicked>>

\* ExitTask has no caller in the tree; it is taken to be called, for any
\* registered vCPU, from a trap handler that then returns to its guest.
ExitTask(victim) ==
  /\ victim \in Exiting \cap Registered
  /\ Handling("exit", "leave")
  /\ state' = [state EXCEPT ![victim] = "ZOMBIE"]
  /\ Schedule
  /\ UNCHANGED <<count_tsks_, why, guest, cpu, masked, dev, gic, panicked>>

HandleTrap ==
  \/ HandleTrapWfx
  \/ HandleTrapWfxEnd
  \/ HandleTrapSystem
  \/ HandleMmTrapRegisterAccess
  \/ HandleMmTrapMemoryAccessFault
  \/ PageAllocateFails
  \/ UncaughtException
  \/ \E v \in Vcpu : ExitTask(v)

-----------------------------------------------------------------------------
(* Interrupts *)

\* Another interval of the EL2 timer elapses.
TimerFire ==
  /\ due < MaxDue
  /\ due' = due + 1
  /\ UNCHANGED <<tsks, pc, why, guest, cpu, masked, rx, gic, panicked>>

\* A character arrives at the physical UART.
UartFire ==
  /\ ~rx
  /\ rx' = TRUE
  /\ UNCHANGED <<tsks, pc, why, guest, cpu, masked, due, gic, panicked>>

\* Interrupt lines that are high: both devices are level triggered.
Lines == {i \in Irqs : IF i = "timer" THEN due > 0 ELSE rx}

Pending == Lines \ active

\* Faulty: an interrupt preempts the one being handled.
SignalledNested == Pending # {}

\* The GIC signals the processor.  Every priority is 0 (RegisterIrq only
\* clears bits of the reset value), so none preempts an active interrupt.
Signalled == Pending # {} /\ active = {}

\* An IRQ is taken from a guest (lower_el_aarch64_irq) or from the unmasked
\* instructions of the init loop (current_el_spx_irq).
TakeIrq ==
  /\ Signalled
  /\ ~masked
  /\ \E from \in {"guest", "loop"} : Goto(from, "irq")
  /\ EnterHypervisor
  /\ UNCHANGED <<tsks, why, cpu, dev, gic, panicked>>

\* The handler SchedTimer registered: ArmGenericTimer::HandleIrq moves the
\* comparator one interval on, and the tick may switch tasks.
TimerIrq ==
  /\ due' = due - 1
  /\ SchedTimerHandler
  /\ UNCHANGED rx

\* The handler Pl011Uart registered drains the receive FIFO.
UartIrq ==
  /\ rx' = FALSE
  /\ UNCHANGED <<due, counter, cur_tsk_>>

\* GicV2::HandleIrq up to the end of the handler.  "eoi" is where the handler
\* returns to, at once or when this task is dispatched again.
HandleIrq ==
  /\ Goto("irq", "eoi")
  /\ UNCHANGED <<count_tsks_, state, why, guest, cpu, masked, panicked>>
  /\ \E id \in Pending :
       /\ active' = active \cup {id}
       /\ iar' = [iar EXCEPT ![cur_tsk_] = id]
       /\ IF id = "timer" THEN TimerIrq ELSE UartIrq

\* Faulty: GICC_EOIR is not written.
EndOfInterruptForgotten ==
  /\ Goto("eoi", "leave")
  /\ iar' = [iar EXCEPT ![cur_tsk_] = "none"]
  /\ UNCHANGED <<tsks, why, guest, cpu, masked, dev, active, panicked>>

\* GICC_EOIR = iar.
EndOfInterrupt ==
  /\ Goto("eoi", "leave")
  /\ active' = active \ {iar[cur_tsk_]}
  /\ iar' = [iar EXCEPT ![cur_tsk_] = "none"]
  /\ UNCHANGED <<tsks, why, guest, cpu, masked, dev, panicked>>

-----------------------------------------------------------------------------
\* while (1) of PANIC, with IRQs masked.
Halted == panicked /\ UNCHANGED vars

\* Code executed at EL2.
Hypervisor ==
  \/ CreateTask \/ StartLoop
  \/ CpuDisableIrq \/ LoopSchedule \/ CpuEnableIrq
  \/ LoadTaskImage \/ LoadFails
  \/ HandleTrap
  \/ HandleIrq \/ EndOfInterrupt
  \/ LeaveHypervisor

Guest == Execute \/ \E kind \in TrapKinds : TakeTrap(kind)

Device == TimerFire \/ UartFire

Next == Hypervisor \/ TakeIrq \/ Guest \/ Device \/ Halted

Spec == Init /\ [][Next]_vars

\* The processor keeps executing EL2 code, and takes a signalled interrupt
\* when it gets to a guest (ERET synchronizes); time passes; an acknowledge that keeps
\* finding both lines high sometimes returns the timer (the GIC prefers the lower
\* ID, 26).  Nothing is assumed of the guests.
Fairness ==
  /\ WF_vars(Hypervisor)
  /\ SF_vars(TakeIrq /\ pc[cur_tsk_] = "guest")
  /\ WF_vars(TimerFire)
  /\ SF_vars(HandleIrq /\ iar'[cur_tsk_] = "timer")

FairSpec == Spec /\ Fairness

\* The same, with guests that keep giving the processor away.
YieldSpec == FairSpec /\ \A v \in Vcpu : SF_vars(cur_tsk_ = v /\ TakeTrap("wfx"))
-----------------------------------------------------------------------------
(* Properties *)

VcpuPcs == {"new", "guest", "trap", "wfx", "irq", "eoi", "leave"}
InitPcs == {"create", "loop", "sched", "unmask", "irq", "eoi", "leave"}

\* The types of the variables, in five parts.
TasksOK ==
  /\ count_tsks_ \in 1 .. NrVcpus + 1
  /\ cur_tsk_ \in Registered
  /\ counter \in [Tasks -> Nat]
  /\ state \in [Tasks -> {"RUNNING", "ZOMBIE"}]

PcsOK ==
  /\ pc \in [Tasks -> InitPcs \cup VcpuPcs]
  /\ pc[0] \in InitPcs
  /\ \A v \in Vcpu : pc[v] \in VcpuPcs

GuestsOK ==
  /\ why \in [Vcpu -> TrapKinds \cup {"none"}]
  /\ ctx_pc \in [Vcpu -> 0 .. LastPc]
  /\ vcpu_sysregs \in [Tasks -> Vals]

CpuOK ==
  /\ hw_pc \in 0 .. LastPc
  /\ hw_el1 \in Vals
  /\ vttbr \in Tasks
  /\ masked \in BOOLEAN
  /\ panicked \in BOOLEAN

IrqsOK ==
  /\ due \in 0 .. MaxDue
  /\ rx \in BOOLEAN
  /\ active \subseteq Irqs
  /\ iar \in [Tasks -> Irqs \cup {"none"}]

\* Every variable has its type.
TypeOK == TasksOK /\ PcsOK /\ GuestsOK /\ CpuOK /\ IrqsOK

\* GicV2::HandleIrq keeps iar on its stack across a context switch: at any time
\* one task at most is between its read of GICC_IAR and its write of GICC_EOIR,
\* and the interrupt active at the GIC is the one that task will end.
IrqOwner ==
  /\ \A t \in Tasks : pc[t] = "eoi" <=> iar[t] # "none"
  /\ \A t \in Tasks : iar[t] # "none" => active = {iar[t]}
  /\ active # {} => \E t \in Tasks : iar[t] \in active
  /\ \A t, u \in Tasks : iar[t] # "none" /\ iar[u] # "none" => t = u

\* SchedContextSwitch never runs with IRQs unmasked: an interrupt between the
\* assignment of cur_tsk_ and the switch of stacks would save the wrong task.
SwitchOnlyMasked == [][cur_tsk_' # cur_tsk_ => masked /\ masked']_vars

\* ScheduleInternal dispatches registered RUNNING tasks only: a task ExitTask
\* made a ZOMBIE never gets the processor again.
DispatchRunning ==
  [][cur_tsk_' # cur_tsk_ => /\ cur_tsk_' < count_tsks_
                             /\ state'[cur_tsk_'] = "RUNNING"]_vars

\* Credit is handed out only when the round is over: no runnable task but the
\* one giving the processor up has any left.
RefillEndsRound ==
  [][\A t \in Registered : counter'[t] > counter[t] =>
       \A u \in Runnable(state') \ {cur_tsk_} : counter[u] = 0]_vars

\* The credit a task in state s may hold.  A runnable task is refilled only when
\* it has none left; only an ended one is refilled on top of what it had.
CreditLimit(t, s) ==
  IF s = "RUNNING" THEN priority(t) ELSE 2 * priority(t) - 1

\* Nobody piles up credit while waiting: however many rounds a task sits out,
\* it gets the processor for at most its priority in ticks, and the halving
\* keeps the counters of ended tasks, which are refilled for ever, finite.
CreditBounded == \A t \in Tasks : counter[t] <= CreditLimit(t, state[t])

\* The current task t uses up credit: a tick, or a call of Schedule, which takes
\* all t has.  (At boot the init task calls Schedule with none.)
Charged(t) ==
  /\ t = cur_tsk_ /\ counter[t] > 0
  /\ \/ due' < due
     \/ LoopSchedule \/ HandleTrapWfx \/ \E v \in Vcpu : ExitTask(v)

\* How often t can be charged before v gets the processor.
Ahead(v, t) == counter[t] + (IF counter[v] = 0 THEN priority(t) ELSE 0)

\* Nobody overtakes a waiting task without bound: while it is runnable and does
\* not get the processor, no task's share of what comes before it ever grows,
\* and each tick or voluntary switch uses up some of the current task's share.
WaitIsBounded ==
  [][\A v \in Runnable(state) \ {cur_tsk_} : state'[v] = "RUNNING" =>
       \A t \in Registered \ {v} :
         IF Charged(t) THEN Ahead(v, t)' < Ahead(v, t)
                       ELSE Ahead(v, t)' <= Ahead(v, t)]_vars

\* The private machine each guest sees: what it is doing, its PC and registers
\* (the processor's while it executes) and the translation in force.
ModeOf(v) ==
  IF state[v] = "ZOMBIE" THEN "exited"
  ELSE IF pc[v] = "new" THEN "off"
  ELSE IF pc[v] = "guest" THEN "running"
  ELSE IF pc[v] = "wfx" \/ (pc[v] = "trap" /\ why[v] \notin {"fault", "exit"})
  THEN "trapped" ELSE "ready"

VcpuMode == [v \in Vcpu |-> ModeOf(v)]

VcpuIp == [v \in Vcpu |-> IF pc[v] = "guest" THEN hw_pc ELSE ctx_pc[v]]

VcpuRegs == [v \in Vcpu |-> IF pc[v] = "guest" THEN hw_el1 ELSE vcpu_sysregs[v]]

VcpuXlat == IF \E v \in Vcpu : pc[v] = "guest" THEN vttbr ELSE 0

Guests == INSTANCE Vcpus
  WITH mode <- VcpuMode, ip <- VcpuIp, regs <- VcpuRegs, xlat <- VcpuXlat

\* Whatever interleaving of traps, ticks, faults and context switches, each
\* guest sees a machine of its own: registers and PC are nobody else's, an
\* emulated instruction retires once, translation is by its own table.
GuestsArePrivate == Guests!Spec

\* Where a task that is not current may be: the points a context switch leaves.
Parked(t) ==
  pc[t] \in IF t = 0 THEN {"unmask", "eoi"} ELSE {"new", "wfx", "eoi", "leave"}

OthersParked == \A t \in Tasks \ {cur_tsk_} : Parked(t)

\* The processor is with a task that may run; the init task always may.
CurrentRuns == state[0] = "RUNNING" /\ state[cur_tsk_] = "RUNNING"

\* EL2 code runs masked but for the init loop, an IRQ handler is entered with
\* no interrupt active, and a guest executes under its own translation only.
MaskedAtEL2 ==
  /\ pc[cur_tsk_] \notin {"guest", "loop"} => masked
  /\ pc[cur_tsk_] = "irq" => active = {}
  /\ pc[cur_tsk_] = "guest" => ~masked /\ vttbr = cur_tsk_

\* A vCPU that was never dispatched is as CreateTask left it, one that was not
\* created yet as the boot code did.
NewIsReset ==
  /\ pc[0] # "create" => count_tsks_ = NrVcpus + 1
  /\ \A t \in Tasks \ Registered : pc[t] = "new" /\ state[t] = "RUNNING"
  /\ \A v \in Vcpu : pc[v] = "new" => ctx_pc[v] = 0 /\ vcpu_sysregs[v] = Reset

\* Whoever has the processor has credit to run on, but for the boot code until
\* its first Schedule, which no interrupt can precede.
RunsOnCredit ==
  counter[cur_tsk_] = 0 =>
    cur_tsk_ = 0 /\ pc[0] \in {"create", "loop", "sched"} /\ masked

\* Each task is where the code can have left it.
ControlInv == OthersParked /\ CurrentRuns /\ MaskedAtEL2 /\ NewIsReset

\* What the code preserves at every step and the properties follow from: who
\* may be where, who owns the active interrupt, how much credit there is.
SchedInv == TypeOK /\ ControlInv /\ IrqOwner /\ CreditBounded /\ RunsOnCredit

\* Each vCPU keeps getting the processor.
EveryVcpuRuns == \A v \in Vcpu : []<>(pc[v] = "guest")

\* The scheduler's tick keeps running: elapsed intervals are accounted for.
TicksAreHandled == due = MaxDue ~> due < MaxDue
=============================================================================
