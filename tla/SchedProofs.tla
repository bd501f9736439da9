---------------------------- MODULE SchedProofs ----------------------------
(***************************************************************************)
(* Proofs about Sched, for any number of vCPUs the task table holds, any   *)
(* priority, any register contents and any traps.                          *)
(***************************************************************************)
EXTENDS Sched, TLAPS

-----------------------------------------------------------------------------
(* ScheduleInternal *)

\* run, if not empty, has a first task with the largest counter.
HasBest(run, c) ==
  run = {} \/ \E t \in run : \A u \in run : c[u] < c[t] \/ (c[u] = c[t] /\ t <= u)

\* One more slot of tsks_ keeps a best task.
LEMMA BestStep ==
  ASSUME NEW c \in [Tasks -> Nat], NEW run \in SUBSET Tasks, NEW k \in Nat,
         HasBest(run \cap (0 .. k), c)
  PROVE  HasBest(run \cap (0 .. k + 1), c)
<1> DEFINE low == run \cap (0 .. k)
           all == run \cap (0 .. k + 1)
<1>1. CASE k + 1 \notin run
  <2>1. all = low
    BY <1>1
  <2> QED
    BY <2>1
<1>2. CASE k + 1 \in run
  <2>1. all = low \cup {k + 1}
    BY <1>2
  <2>2. CASE low = {}
    <3>1. all = {k + 1}
      BY <2>1, <2>2
    <3>2. k + 1 \in all /\ k + 1 <= k + 1
      BY <3>1
    <3>3. \A u \in all : u = k + 1
      BY <3>1
    <3> QED
      BY <3>2, <3>3 DEF HasBest
  <2>3. CASE low # {}
    <3>1. PICK t \in low : \A u \in low : c[u] < c[t] \/ (c[u] = c[t] /\ t <= u)
      BY <2>3 DEF HasBest
    <3>2. c[t] \in Nat /\ c[k + 1] \in Nat /\ \A u \in low : c[u] \in Nat
      BY <1>2, <3>1 DEF Tasks
    <3>3. CASE c[k + 1] <= c[t]
      <4>1. \A u \in all : c[u] < c[t] \/ (c[u] = c[t] /\ t <= u)
        BY <2>1, <3>1, <3>2, <3>3
      <4> QED
        BY <2>1, <3>1, <4>1 DEF HasBest
    <3>4. CASE c[k + 1] > c[t]
      <4>1. \A u \in all : c[u] < c[k + 1] \/ (c[u] = c[k + 1] /\ k + 1 <= u)
        BY <2>1, <3>1, <3>2, <3>4
      <4> QED
        BY <2>1, <4>1 DEF HasBest
    <3> QED
      BY <3>2, <3>3, <3>4
  <2> QED
    BY <2>2, <2>3
<1> QED
  BY <1>1, <1>2

\* ScheduleInternal picks a task it may run, and no such task has more credit.
\* Only that the table has kNrTasks slots is used, one slot after the other.
LEMMA BestInRun ==
  ASSUME NEW c \in [Tasks -> Nat], NEW run \in SUBSET Tasks, run # {}
  PROVE  Best(run, c) \in run /\ \A u \in run : c[u] <= c[Best(run, c)]
<1>0. HasBest(run \cap (0 .. 0), c)
  BY DEF HasBest, Tasks
<1>1. HasBest(run \cap (0 .. 1), c)
  BY <1>0, BestStep, 0 + 1 = 1
<1>2. HasBest(run \cap (0 .. 2), c)
  BY <1>1, BestStep, 1 + 1 = 2
<1>3. HasBest(run \cap (0 .. 3), c)
  BY <1>2, BestStep, 2 + 1 = 3
<1>4. HasBest(run \cap (0 .. 4), c)
  BY <1>3, BestStep, 3 + 1 = 4
<1>5. HasBest(run \cap (0 .. 5), c)
  BY <1>4, BestStep, 4 + 1 = 5
<1>6. HasBest(run \cap (0 .. 6), c)
  BY <1>5, BestStep, 5 + 1 = 6
<1>7. HasBest(run \cap (0 .. 7), c)
  BY <1>6, BestStep, 6 + 1 = 7
<1>8. run \cap (0 .. 7) = run
  <2>1. NrVcpus \in Nat /\ NrVcpus < 8
    BY SchedAssumption DEF kNrTasks
  <2>2. \A u \in run : u \in 0 .. 7
    BY <2>1 DEF Tasks
  <2> HIDE DEF Tasks
  <2> QED
    BY <2>2
<1>9. \E t \in run : \A u \in run : c[u] < c[t] \/ (c[u] = c[t] /\ t <= u)
  BY <1>7, <1>8 DEF HasBest
<1>10. /\ Best(run, c) \in run
       /\ \A u \in run : \/ c[u] < c[Best(run, c)]
                         \/ c[u] = c[Best(run, c)] /\ Best(run, c) <= u
  BY <1>9 DEF Best
<1>11. \A u \in run : c[u] \in Nat
  OBVIOUS
<1> HIDE DEF Best
<1> QED
  BY <1>10, <1>11

\* A refill, whether or not it happens, leaves every counter a natural number
\* within its limit.
LEMMA CreditsBounded ==
  ASSUME NEW c \in [Tasks -> Nat], NEW st,
         \A t \in Tasks : c[t] <= CreditLimit(t, st[t])
  PROVE  /\ Credits(Runnable(st), c) \in [Tasks -> Nat]
         /\ \A t \in Tasks : Credits(Runnable(st), c)[t] <= CreditLimit(t, st[t])
<1>1. \A t \in Tasks : priority(t) \in Nat \ {0}
  BY SchedAssumption DEF priority, kInitPriority
<1>2. ASSUME ~ \E t \in Runnable(st) : c[t] > 0, NEW t \in Tasks
      PROVE  Refilled(c)[t] \in Nat /\ Refilled(c)[t] <= CreditLimit(t, st[t])
  <2>1. Refilled(c)[t] = IF t \in Registered THEN (c[t] \div 2) + priority(t) ELSE c[t]
    BY DEF Refilled
  <2>2. c[t] \in Nat /\ priority(t) \in Nat \ {0} /\ c[t] <= CreditLimit(t, st[t])
    BY <1>1
  <2>3. CASE t \notin Registered
    BY <2>1, <2>2, <2>3
  <2>4. CASE t \in Registered /\ st[t] = "RUNNING"
    <3>1. c[t] = 0
      BY <1>2, <2>2, <2>4 DEF Runnable
    <3>2. c[t] \div 2 = 0
      BY <3>1
    <3> HIDE DEF Refilled
    <3> QED
      BY <2>1, <2>2, <2>4, <3>2 DEF CreditLimit
  <2>5. CASE t \in Registered /\ st[t] # "RUNNING"
    <3>1. c[t] <= 2 * priority(t) - 1
      BY <2>2, <2>5 DEF CreditLimit
    <3>2. c[t] \div 2 \in Nat /\ c[t] \div 2 <= priority(t) - 1
      BY <2>2, <3>1
    <3> HIDE DEF Refilled
    <3> QED
      BY <2>1, <2>2, <2>5, <3>2 DEF CreditLimit
  <2> QED
    BY <2>3, <2>4, <2>5
<1>3. CASE \E t \in Runnable(st) : c[t] > 0
  BY <1>3 DEF Credits
<1>4. CASE ~ \E t \in Runnable(st) : c[t] > 0
  <2>1. Refilled(c) \in [Tasks -> Nat]
    BY <1>2, <1>4 DEF Refilled
  <2>2. Credits(Runnable(st), c) = Refilled(c)
    BY <1>4 DEF Credits
  <2> QED
    BY <1>2, <1>4, <2>1, <2>2
<1> QED
  BY <1>3, <1>4

\* When the while loop breaks, a task that may run has credit.
LEMMA CreditsPositive ==
  ASSUME NEW c \in [Tasks -> Nat], NEW run \in SUBSET Tasks,
         run \subseteq Registered, run # {}
  PROVE  \E t \in run : Credits(run, c)[t] > 0
<1>1. CASE \E t \in run : c[t] > 0
  BY <1>1 DEF Credits
<1>2. CASE ~ \E t \in run : c[t] > 0
  <2>1. PICK t \in run : TRUE
    OBVIOUS
  <2>2. c[t] = 0 /\ t \in Registered /\ t \in Tasks
    BY <1>2, <2>1
  <2>3. Refilled(c)[t] = (c[t] \div 2) + priority(t)
    BY <2>2 DEF Refilled
  <2>4. priority(t) \in Nat \ {0} /\ c[t] \div 2 = 0
    BY <2>2, SchedAssumption DEF priority, kInitPriority
  <2>5. Refilled(c)[t] > 0
    BY <2>3, <2>4
  <2> QED
    BY <1>2, <2>1, <2>5 DEF Credits
<1> QED
  BY <1>1, <1>2

\* What a call of Schedule does to cur_tsk_ and the counters.
LEMMA ScheduleStep ==
  ASSUME TypeOK, CreditBounded, Schedule,
         state' \in [Tasks -> {"RUNNING", "ZOMBIE"}], state'[0] = "RUNNING",
         \A t \in Tasks : state'[t] = state[t] \/ state'[t] = "ZOMBIE"
  PROVE  /\ cur_tsk_' \in Registered /\ state'[cur_tsk_'] = "RUNNING"
         /\ counter' \in [Tasks -> Nat]
         /\ CreditBounded' /\ counter'[cur_tsk_'] > 0
<1> DEFINE c == [counter EXCEPT ![cur_tsk_] = 0]
           run == Runnable(state')
<1>0. Registered \in SUBSET Tasks /\ 0 \in Registered /\ 0 \in Tasks
  BY SchedAssumption DEF TypeOK, TasksOK, Registered, Tasks
<1>1. run \in SUBSET Tasks /\ run # {}
  BY <1>0 DEF Runnable
<1>2. c \in [Tasks -> Nat] /\ \A t \in Tasks : c[t] <= CreditLimit(t, state'[t])
  <2>1. \A t \in Tasks : priority(t) \in Nat \ {0}
    BY SchedAssumption DEF priority, kInitPriority
  <2>2. /\ counter \in [Tasks -> Nat]
        /\ \A t \in Tasks : counter[t] <= CreditLimit(t, state[t])
    BY DEF TypeOK, TasksOK, CreditBounded
  <2>3. c \in [Tasks -> Nat]
    BY <2>2
  <2>4. ASSUME NEW t \in Tasks PROVE c[t] <= CreditLimit(t, state'[t])
    <3>1. c[t] = IF t = cur_tsk_ THEN 0 ELSE counter[t]
      BY <2>2
    <3>2. counter[t] <= CreditLimit(t, state'[t]) /\ 0 <= CreditLimit(t, state'[t])
      BY <2>1, <2>2 DEF CreditLimit
    <3> QED
      BY <3>1, <3>2
  <2> QED
    BY <2>3, <2>4
<1>3. counter' = Credits(run, c) /\ cur_tsk_' = Best(run, Credits(run, c))
  BY DEF Schedule, ScheduleInternal
<1> HIDE DEF c, run
<1>4. /\ counter' \in [Tasks -> Nat]
      /\ \A t \in Tasks : counter'[t] <= CreditLimit(t, state'[t])
  BY <1>2, <1>3, CreditsBounded DEF run
<1>5. cur_tsk_' \in run /\ \A u \in run : counter'[u] <= counter'[cur_tsk_']
  BY <1>1, <1>3, <1>4, BestInRun
<1>6. counter'[cur_tsk_'] > 0
  <2>1. run \subseteq Registered
    BY DEF run, Runnable
  <2>2. PICK u \in run : counter'[u] > 0
    BY <1>1, <1>2, <1>3, <2>1, CreditsPositive
  <2>3. counter'[u] \in Nat /\ counter'[cur_tsk_'] \in Nat
    BY <1>1, <1>4, <1>5
  <2> QED
    BY <1>5, <2>2, <2>3
<1> QED
  BY <1>4, <1>5, <1>6 DEF CreditBounded, run, Runnable

\* The same for a tick, which may leave the current task where it is.
LEMMA TickStep ==
  ASSUME SchedInv, SchedTimerHandler, UNCHANGED state
  PROVE  /\ cur_tsk_' \in Registered /\ state'[cur_tsk_'] = "RUNNING"
         /\ counter' \in [Tasks -> Nat]
         /\ CreditBounded' /\ counter'[cur_tsk_'] > 0
<1>1. cur_tsk_ \in Tasks
  BY SchedAssumption DEF SchedInv, TypeOK, TasksOK, Registered, Tasks
<1>2. CASE counter[cur_tsk_] > 1
  <2>1. /\ counter' = [counter EXCEPT ![cur_tsk_] = @ - 1]
        /\ cur_tsk_' = cur_tsk_
    BY <1>2 DEF SchedTimerHandler
  <2>2. counter \in [Tasks -> Nat]
    BY DEF SchedInv, TypeOK, TasksOK
  <2>3. \A t \in Tasks : counter'[t] \in Nat /\ counter'[t] <= counter[t]
    BY <1>1, <1>2, <2>1, <2>2
  <2>4. CreditBounded'
    <3>1. \A t \in Tasks : CreditLimit(t, state[t]) \in Nat
      BY SchedAssumption DEF CreditLimit, priority, kInitPriority
    <3>2. ASSUME NEW t \in Tasks PROVE counter'[t] <= CreditLimit(t, state'[t])
      BY <2>2, <2>3, <3>1 DEF SchedInv, CreditBounded
    <3> QED
      BY <3>2 DEF CreditBounded
  <2>5. counter' \in [Tasks -> Nat]
    BY <2>1, <2>2, <2>3
  <2>6. counter'[cur_tsk_'] > 0
    BY <1>1, <1>2, <2>1, <2>2
  <2> QED
    BY <2>1, <2>4, <2>5, <2>6 DEF SchedInv, TypeOK, TasksOK, ControlInv, CurrentRuns
<1>3. CASE ~(counter[cur_tsk_] > 1)
  BY <1>3, ScheduleStep
     DEF SchedTimerHandler, SchedInv, TypeOK, TasksOK, ControlInv, CurrentRuns
<1> QED
  BY <1>2, <1>3

\* cur_tsk_ is a task, and so is every registered one.
LEMMA CurrentTask ==
  ASSUME TypeOK
  PROVE  /\ cur_tsk_ \in Tasks /\ 0 \in Tasks /\ Registered \subseteq Tasks
         /\ cur_tsk_ # 0 => cur_tsk_ \in Vcpu
         /\ Vcpu \subseteq Tasks
BY SchedAssumption DEF TypeOK, TasksOK, Registered, Tasks, Vcpu

-----------------------------------------------------------------------------
(* The actions that may switch tasks *)

Dispatches ==
  \/ LoopSchedule \/ HandleTrapWfx \/ \E v \in Vcpu : ExitTask(v)
  \/ HandleIrq

\* Whatever gave the processor away, a registered runnable task has it now.
LEMMA DispatchStep ==
  ASSUME SchedInv, Dispatches
  PROVE  /\ UNCHANGED count_tsks_
         /\ cur_tsk_' \in Registered
         /\ counter' \in [Tasks -> Nat]
         /\ state' \in [Tasks -> {"RUNNING", "ZOMBIE"}]
         /\ state'[0] = "RUNNING" /\ state'[cur_tsk_'] = "RUNNING"
         /\ CreditBounded' /\ counter'[cur_tsk_'] > 0
<1>0. /\ TypeOK /\ TasksOK /\ CreditBounded /\ state[0] = "RUNNING"
      /\ state[cur_tsk_] = "RUNNING" /\ 0 \in Tasks
  BY CurrentTask DEF SchedInv, TypeOK, ControlInv, CurrentRuns
<1>1. CASE LoopSchedule \/ HandleTrapWfx
  BY <1>0, <1>1, ScheduleStep DEF LoopSchedule, HandleTrapWfx, TasksOK
<1>2. CASE \E v \in Vcpu : ExitTask(v)
  <2>1. PICK v \in Vcpu : ExitTask(v)
    BY <1>2
  <2>2. /\ UNCHANGED count_tsks_ /\ Schedule
        /\ state' = [state EXCEPT ![v] = "ZOMBIE"] /\ v # 0
    BY <2>1 DEF ExitTask, Vcpu
  <2>3. state' \in [Tasks -> {"RUNNING", "ZOMBIE"}] /\ state'[0] = "RUNNING"
    BY <1>0, <2>2 DEF TasksOK
  <2> QED
    BY <1>0, <2>2, <2>3, ScheduleStep
<1>3. CASE HandleIrq
  <2>1. UNCHANGED <<count_tsks_, state>> /\ (TimerIrq \/ UartIrq)
    BY <1>3 DEF HandleIrq
  <2>2. CASE TimerIrq
    BY <1>0, <2>1, <2>2, TickStep DEF TimerIrq, TasksOK
  <2>3. CASE UartIrq
    <3>1. UNCHANGED <<count_tsks_, counter, cur_tsk_, state>>
      BY <2>1, <2>3 DEF UartIrq
    <3>2. counter[cur_tsk_] > 0
      <4>1. pc[cur_tsk_] = "irq" /\ counter[cur_tsk_] \in Nat
        BY <1>0, <1>3, CurrentTask DEF HandleIrq, Goto, TasksOK
      <4>2. counter[cur_tsk_] # 0
        BY <4>1 DEF SchedInv, RunsOnCredit
      <4> QED
        BY <4>1, <4>2
    <3> QED
      BY <1>0, <3>1, <3>2 DEF TasksOK, CreditBounded
  <2> QED
    BY <2>1, <2>2, <2>3
<1> QED
  BY <1>1, <1>2, <1>3 DEF Dispatches

\* Nothing else touches the scheduler's state.
LEMMA TasksFrame ==
  ASSUME [Next]_vars, ~CreateTask, ~Dispatches
  PROVE  UNCHANGED tsks
BY DEF Dispatches, Next, Hypervisor, HandleTrap, Guest, Device, Halted, vars, tsks,
       StartLoop, CpuDisableIrq, CpuEnableIrq, LoadTaskImage, LoadFails,
       HandleTrapWfxEnd, HandleTrapSystem, HandleMmTrapRegisterAccess,
       HandleMmTrapMemoryAccessFault, PageAllocateFails, UncaughtException,
       Panic, EndOfInterrupt, LeaveHypervisor, TakeIrq, Execute, TakeTrap,
       TimerFire, UartFire

-----------------------------------------------------------------------------
(* One task's EL2 code moves, the others stay where they are *)

LEMMA GotoStep ==
  ASSUME TypeOK, NEW from, NEW to \in InitPcs \cup VcpuPcs, Goto(from, to),
         cur_tsk_ = 0 => to \in InitPcs,
         cur_tsk_ # 0 => to \in VcpuPcs
  PROVE  /\ PcsOK'
         /\ ~panicked /\ pc[cur_tsk_] = from /\ pc'[cur_tsk_] = to
         /\ \A t \in Tasks \ {cur_tsk_} : pc'[t] = pc[t]
<1>1. pc \in [Tasks -> InitPcs \cup VcpuPcs] /\ cur_tsk_ \in Tasks
  BY CurrentTask DEF TypeOK, PcsOK
<1>2. pc' = [pc EXCEPT ![cur_tsk_] = to] /\ ~panicked /\ pc[cur_tsk_] = from
  BY DEF Goto
<1>3. pc'[cur_tsk_] = to /\ \A t \in Tasks \ {cur_tsk_} : pc'[t] = pc[t]
  BY <1>1, <1>2
<1>4. PcsOK'
  <2>1. pc' \in [Tasks -> InitPcs \cup VcpuPcs]
    BY <1>1, <1>2
  <2>2. pc'[0] \in InitPcs
    BY <1>3, CurrentTask DEF TypeOK, PcsOK
  <2>3. \A v \in Vcpu : pc'[v] \in VcpuPcs
    <3> TAKE v \in Vcpu
    <3>1. v \in Tasks /\ v # 0
      BY DEF Vcpu, Tasks
    <3> QED
      BY <1>3, <3>1 DEF TypeOK, PcsOK
  <2> QED
    BY <2>1, <2>2, <2>3 DEF PcsOK
<1> QED
  BY <1>2, <1>3, <1>4

-----------------------------------------------------------------------------
(* Type correctness, part by part *)

LEMMA TasksStep == SchedInv /\ [Next]_vars => TasksOK'
<1> SUFFICES ASSUME SchedInv, [Next]_vars PROVE TasksOK'
  OBVIOUS
<1>0. TypeOK /\ TasksOK /\ CreditBounded /\ state[0] = "RUNNING"
  BY DEF SchedInv, TypeOK, ControlInv, CurrentRuns
<1>1. CASE UNCHANGED tsks
  BY <1>0, <1>1 DEF tsks, TasksOK, Registered
<1>2. CASE CreateTask
  <2>1. /\ count_tsks_ < NrVcpus + 1 /\ count_tsks_' = count_tsks_ + 1
        /\ cur_tsk_' = cur_tsk_
        /\ counter' = [counter EXCEPT ![count_tsks_] = Priority]
        /\ state' = [state EXCEPT ![count_tsks_] = "RUNNING"]
    BY <1>2 DEF CreateTask
  <2>2. count_tsks_' \in 1 .. NrVcpus + 1 /\ cur_tsk_' \in Registered'
    BY <1>0, <2>1, SchedAssumption DEF TasksOK, Registered
  <2>3. counter' \in [Tasks -> Nat] /\ state' \in [Tasks -> {"RUNNING", "ZOMBIE"}]
    BY <1>0, <2>1, SchedAssumption DEF TasksOK, Tasks
  <2> QED
    BY <2>2, <2>3 DEF TasksOK
<1>3. CASE Dispatches
  BY <1>0, <1>3, DispatchStep DEF TasksOK, Registered
<1> QED
  BY <1>1, <1>2, <1>3, TasksFrame

LEMMA PcsStep == SchedInv /\ [Next]_vars => PcsOK'
<1> SUFFICES ASSUME SchedInv, [Next]_vars PROVE PcsOK'
  OBVIOUS
<1>0. TypeOK /\ PcsOK
  BY DEF SchedInv, TypeOK
<1>1. CASE UNCHANGED pc
  BY <1>0, <1>1 DEF PcsOK
<1>2. ASSUME NEW from \in InitPcs \ VcpuPcs, NEW to \in InitPcs, Goto(from, to)
      PROVE  PcsOK'
  <2>1. cur_tsk_ = 0
    BY <1>0, <1>2, CurrentTask DEF PcsOK, Goto
  <2> QED
    BY <1>0, <1>2, <2>1, GotoStep
<1>3. ASSUME NEW from \in VcpuPcs \ InitPcs, NEW to \in VcpuPcs, Goto(from, to)
      PROVE  PcsOK'
  <2>1. cur_tsk_ # 0
    BY <1>0, <1>3 DEF PcsOK, Goto
  <2> QED
    BY <1>0, <1>3, <2>1, GotoStep
<1>4. ASSUME NEW from, NEW to \in InitPcs \cap VcpuPcs, Goto(from, to)
      PROVE  PcsOK'
  BY <1>0, <1>4, GotoStep
<1>5. CASE CreateTask \/ StartLoop \/ CpuDisableIrq \/ LoopSchedule \/ CpuEnableIrq
  BY <1>2, <1>5
     DEF CreateTask, StartLoop, CpuDisableIrq, LoopSchedule, CpuEnableIrq,
         InitPcs, VcpuPcs
<1>6. CASE HandleTrapWfx \/ \E kind \in TrapKinds : TakeTrap(kind)
  BY <1>3, <1>6 DEF HandleTrapWfx, TakeTrap, Handling, InitPcs, VcpuPcs
<1>7. CASE \/ LoadTaskImage \/ HandleTrapWfxEnd \/ HandleTrapSystem
           \/ HandleMmTrapRegisterAccess \/ HandleMmTrapMemoryAccessFault
           \/ \E v \in Vcpu : ExitTask(v)
           \/ TakeIrq \/ HandleIrq \/ EndOfInterrupt
  BY <1>4, <1>7
     DEF LoadTaskImage, HandleTrapWfxEnd, HandleTrapSystem,
         HandleMmTrapRegisterAccess, HandleMmTrapMemoryAccessFault, ExitTask,
         Handling, TakeIrq, HandleIrq, EndOfInterrupt, InitPcs, VcpuPcs
<1>8. CASE LeaveHypervisor
  <2>1. Goto("leave", IF cur_tsk_ = 0 THEN "loop" ELSE "guest")
    BY <1>8 DEF LeaveHypervisor
  <2> QED
    BY <1>0, <2>1, GotoStep DEF InitPcs, VcpuPcs
<1> QED
  BY <1>1, <1>5, <1>6, <1>7, <1>8
     DEF Next, Hypervisor, HandleTrap, Guest, Device, Halted, vars, LoadFails,
         PageAllocateFails, UncaughtException, Panic, Execute, TimerFire, UartFire

LEMMA GuestsStep == SchedInv /\ [Next]_vars => GuestsOK'
<1> SUFFICES ASSUME SchedInv, [Next]_vars PROVE GuestsOK'
  OBVIOUS
<1>0. /\ TypeOK /\ TasksOK /\ GuestsOK /\ CpuOK /\ PcsOK
      /\ cur_tsk_ \in Tasks /\ 0 .. LastPc # {} /\ 0 \in 0 .. LastPc
  BY SchedAssumption, CurrentTask DEF SchedInv, TypeOK
<1>1. CASE UNCHANGED <<why, guest>>
  BY <1>0, <1>1 DEF GuestsOK, guest
<1>2. ASSUME NEW p \in 0 .. LastPc PROVE Succ4(p) \in 0 .. LastPc
  BY SchedAssumption DEF Succ4
<1>3. CASE CreateTask
  BY <1>0, <1>3, SchedAssumption DEF CreateTask, GuestsOK
<1>4. CASE LoadTaskImage
  BY <1>0, <1>4 DEF LoadTaskImage, GuestsOK
<1>5. CASE \/ HandleTrapWfxEnd \/ HandleTrapSystem \/ HandleMmTrapRegisterAccess
  <2>1. UNCHANGED <<why, vcpu_sysregs>> /\ IncrementCurrentTaskPc
    BY <1>5 DEF HandleTrapWfxEnd, HandleTrapSystem, HandleMmTrapRegisterAccess
  <2>2. ctx_pc' = [v \in Vcpu |-> IF v = cur_tsk_ THEN Succ4(ctx_pc[v]) ELSE ctx_pc[v]]
    BY <1>0, <2>1 DEF IncrementCurrentTaskPc, GuestsOK
  <2>3. ctx_pc' \in [Vcpu -> 0 .. LastPc]
    BY <1>0, <1>2, <2>2 DEF GuestsOK
  <2> QED
    BY <1>0, <2>1, <2>3 DEF GuestsOK
<1>6. ASSUME EnterHypervisor, \/ UNCHANGED why
                              \/ \E k \in TrapKinds : why' = [why EXCEPT ![cur_tsk_] = k]
      PROVE  GuestsOK'
  <2>1. ctx_pc' \in [Vcpu -> 0 .. LastPc]
    BY <1>0, <1>6 DEF EnterHypervisor, GuestsOK, CpuOK
  <2>2. vcpu_sysregs' \in [Tasks -> Vals]
    BY <1>0, <1>6 DEF EnterHypervisor, CpuRegStoreVCpuSysregs, GuestsOK, CpuOK
  <2>3. why' \in [Vcpu -> TrapKinds \cup {"none"}]
    BY <1>0, <1>6 DEF GuestsOK
  <2> QED
    BY <2>1, <2>2, <2>3 DEF GuestsOK
<1>7. CASE TakeIrq \/ \E kind \in TrapKinds : TakeTrap(kind)
  BY <1>6, <1>7 DEF TakeIrq, TakeTrap
<1> QED
  BY <1>1, <1>3, <1>4, <1>5, <1>7
     DEF Next, Hypervisor, HandleTrap, Guest, Device, Halted, vars, guest, StartLoop,
         CpuDisableIrq, LoopSchedule, CpuEnableIrq, LoadFails, HandleTrapWfx,
         HandleMmTrapMemoryAccessFault, PageAllocateFails, UncaughtException,
         ExitTask, Panic, HandleIrq, EndOfInterrupt, LeaveHypervisor, Execute,
         TimerFire, UartFire

LEMMA CpuStep == SchedInv /\ [Next]_vars => CpuOK'
<1> SUFFICES ASSUME SchedInv, [Next]_vars PROVE CpuOK'
  OBVIOUS
<1>0. /\ TypeOK /\ GuestsOK /\ CpuOK
      /\ cur_tsk_ \in Tasks /\ 0 \in Tasks /\ (cur_tsk_ # 0 => cur_tsk_ \in Vcpu)
  BY CurrentTask DEF SchedInv, TypeOK
<1>1. CASE UNCHANGED cpu /\ UNCHANGED panicked /\ (UNCHANGED masked \/ masked' \in BOOLEAN)
  BY <1>0, <1>1 DEF CpuOK, cpu
<1>2. RunVcpu => hw_el1' \in Vals /\ vttbr' \in Tasks
  BY <1>0 DEF RunVcpu, CpuRegLoadVCpuSysregs, GuestsOK
<1>3. CASE LoadTaskImage
  BY <1>0, <1>2, <1>3 DEF LoadTaskImage, CpuOK
<1>4. CASE LeaveHypervisor
  <2>1. hw_pc' \in 0 .. LastPc
    BY <1>0, <1>4 DEF LeaveHypervisor, CpuOK, GuestsOK
  <2> QED
    BY <1>0, <1>2, <1>4, <2>1 DEF LeaveHypervisor, CpuOK
<1>5. CASE Execute
  BY <1>0, <1>5, SchedAssumption DEF Execute, CpuOK, Succ4
<1>6. CASE HandleMmTrapMemoryAccessFault
  BY <1>0, <1>6 DEF HandleMmTrapMemoryAccessFault, CpuOK
<1>7. CASE LoadFails \/ PageAllocateFails \/ UncaughtException
  BY <1>0, <1>7 DEF LoadFails, PageAllocateFails, UncaughtException, Panic, CpuOK, cpu
<1> QED
  BY <1>1, <1>3, <1>4, <1>5, <1>6, <1>7
     DEF Next, Hypervisor, HandleTrap, Guest, Device, Halted, vars, CreateTask,
         StartLoop, CpuDisableIrq, LoopSchedule, CpuEnableIrq, HandleTrapWfx,
         HandleTrapWfxEnd, HandleTrapSystem, HandleMmTrapRegisterAccess, ExitTask,
         HandleIrq, EndOfInterrupt, TakeIrq, TakeTrap, EnterHypervisor, TimerFire,
         UartFire

LEMMA IrqsStep == SchedInv /\ [Next]_vars => IrqsOK'
<1> SUFFICES ASSUME SchedInv, [Next]_vars PROVE IrqsOK'
  OBVIOUS
<1>0. IrqsOK
  BY DEF SchedInv, TypeOK
<1>1. CASE UNCHANGED <<dev, gic>>
  BY <1>0, <1>1 DEF IrqsOK, dev, gic
<1>2. CASE TimerFire \/ UartFire
  <2>1. due' \in 0 .. MaxDue
    BY <1>0, <1>2, SchedAssumption DEF TimerFire, UartFire, IrqsOK
  <2>2. rx' \in BOOLEAN
    BY <1>0, <1>2 DEF TimerFire, UartFire, IrqsOK
  <2> QED
    BY <1>0, <1>2, <2>1, <2>2 DEF TimerFire, UartFire, IrqsOK, gic
<1>3. CASE HandleIrq
  <2>1. PICK id \in Pending :
          /\ active' = active \cup {id}
          /\ iar' = [iar EXCEPT ![cur_tsk_] = id]
          /\ IF id = "timer" THEN TimerIrq ELSE UartIrq
    BY <1>3 DEF HandleIrq
  <2>2. id \in Irqs /\ (id = "timer" => due > 0)
    BY DEF Pending, Lines
  <2>3. due' \in 0 .. MaxDue
    BY <1>0, <2>1, <2>2, SchedAssumption DEF TimerIrq, UartIrq, IrqsOK
  <2>4. rx' \in BOOLEAN
    BY <1>0, <2>1 DEF TimerIrq, UartIrq, IrqsOK
  <2>5. active' \subseteq Irqs /\ iar' \in [Tasks -> Irqs \cup {"none"}]
    BY <1>0, <2>1, <2>2 DEF IrqsOK
  <2> QED
    BY <2>3, <2>4, <2>5 DEF IrqsOK
<1>4. CASE EndOfInterrupt
  BY <1>0, <1>4 DEF EndOfInterrupt, IrqsOK, dev
<1> QED
  BY <1>1, <1>2, <1>3, <1>4
     DEF Next, Hypervisor, HandleTrap, Guest, Device, Halted, vars, CreateTask,
         StartLoop, CpuDisableIrq, LoopSchedule, CpuEnableIrq, LoadTaskImage,
         LoadFails, HandleTrapWfx, HandleTrapWfxEnd, HandleTrapSystem,
         HandleMmTrapRegisterAccess, HandleMmTrapMemoryAccessFault,
         PageAllocateFails, UncaughtException, ExitTask, Panic, LeaveHypervisor,
         TakeIrq, Execute, TakeTrap

LEMMA TypeStep == SchedInv /\ [Next]_vars => TypeOK'
BY TasksStep, PcsStep, GuestsStep, CpuStep, IrqsStep DEF TypeOK

-----------------------------------------------------------------------------
(* Credit *)

LEMMA CreditStep == SchedInv /\ [Next]_vars => CreditBounded'
<1> SUFFICES ASSUME SchedInv, [Next]_vars PROVE CreditBounded'
  OBVIOUS
<1>0. TypeOK /\ TasksOK /\ CreditBounded /\ CurrentRuns
  BY DEF SchedInv, TypeOK, ControlInv
<1>1. CASE UNCHANGED <<counter, state>>
  BY <1>0, <1>1 DEF CreditBounded
<1>2. CASE CreateTask
  <2>1. \A t \in Tasks : priority(t) \in Nat \ {0}
    BY SchedAssumption DEF priority, kInitPriority
  <2>2. /\ counter' = [counter EXCEPT ![count_tsks_] = Priority]
        /\ state' = [state EXCEPT ![count_tsks_] = "RUNNING"]
        /\ count_tsks_ # 0
    BY <1>0, <1>2 DEF CreateTask, TasksOK
  <2>3. ASSUME NEW t \in Tasks PROVE counter'[t] <= CreditLimit(t, state'[t])
    <3>1. CASE t = count_tsks_
      <4>1. counter'[t] = priority(t) /\ state'[t] = "RUNNING"
        BY <1>0, <2>2, <3>1 DEF TasksOK, priority
      <4> QED
        BY <2>1, <4>1 DEF CreditLimit
    <3>2. CASE t # count_tsks_
      <4>1. counter'[t] = counter[t] /\ state'[t] = state[t]
        BY <1>0, <2>2, <3>2 DEF TasksOK
      <4> QED
        BY <1>0, <4>1 DEF CreditBounded
    <3> QED
      BY <3>1, <3>2
  <2> QED
    BY <2>3 DEF CreditBounded
<1>3. CASE Dispatches
  BY <1>3, DispatchStep
<1> QED
  BY <1>1, <1>2, <1>3, TasksFrame DEF tsks

\* What a step of the current task's code changes of pc, and who can take it.
LEMMA Moves ==
  ASSUME TypeOK, NEW from, NEW to, Goto(from, to)
  PROVE  /\ pc[cur_tsk_] = from /\ pc'[cur_tsk_] = to
         /\ \A t \in Tasks \ {cur_tsk_} : pc'[t] = pc[t]
         /\ from \notin VcpuPcs => cur_tsk_ = 0
         /\ from \notin InitPcs => cur_tsk_ \in Vcpu /\ cur_tsk_ # 0
BY CurrentTask DEF TypeOK, PcsOK, Goto

LEMMA RunsOnCreditStep == SchedInv /\ [Next]_vars => RunsOnCredit'
<1> SUFFICES ASSUME SchedInv, [Next]_vars, counter'[cur_tsk_'] = 0
             PROVE  cur_tsk_' = 0 /\ pc'[0] \in {"create", "loop", "sched"} /\ masked'
  BY DEF RunsOnCredit
<1> DEFINE boot == {"create", "loop", "sched"}
<1>0. TypeOK /\ TasksOK /\ RunsOnCredit /\ cur_tsk_ \in Tasks /\ 0 \in Tasks
  BY CurrentTask DEF SchedInv, TypeOK
<1>1. CASE UNCHANGED <<cur_tsk_, counter, pc, masked>>
  BY <1>0, <1>1 DEF RunsOnCredit
<1>2. ~Dispatches
  <2> SUFFICES ASSUME Dispatches PROVE FALSE
    OBVIOUS
  <2>1. counter'[cur_tsk_'] > 0
    BY DispatchStep
  <2> QED
    BY <2>1
\* The boot code goes from one of its points to another.
<1>3. ASSUME NEW from, NEW to, Goto(from, to), UNCHANGED <<cur_tsk_, counter>>,
             from \in boot => to \in boot /\ (masked' \/ UNCHANGED masked)
      PROVE  cur_tsk_' = 0 /\ pc'[0] \in boot /\ masked'
  <2>1. cur_tsk_ = 0 /\ pc[0] \in boot /\ masked
    BY <1>0, <1>3 DEF RunsOnCredit
  <2> QED
    BY <1>0, <1>3, <2>1, Moves
<1>4. CASE CreateTask
  <2>1. /\ counter' = [counter EXCEPT ![count_tsks_] = Priority]
        /\ Goto("create", "create") /\ UNCHANGED <<cur_tsk_, masked>>
        /\ count_tsks_ # 0 /\ count_tsks_ \in Nat
    BY <1>0, <1>4, SchedAssumption DEF CreateTask, TasksOK
  <2>2. cur_tsk_ = 0 /\ pc'[0] = "create"
    BY <1>0, <2>1, Moves DEF VcpuPcs
  <2>3. counter[cur_tsk_] = 0
    BY <1>0, <2>1, <2>2 DEF TasksOK
  <2> QED
    BY <1>0, <2>1, <2>2, <2>3 DEF RunsOnCredit
<1>5. CASE \/ StartLoop \/ CpuDisableIrq \/ CpuEnableIrq \/ LoadTaskImage
           \/ EndOfInterrupt
  BY <1>3, <1>5
     DEF StartLoop, CpuDisableIrq, CpuEnableIrq, LoadTaskImage, EndOfInterrupt, tsks
<1>6. CASE \/ HandleTrapWfxEnd \/ HandleTrapSystem \/ HandleMmTrapRegisterAccess
           \/ HandleMmTrapMemoryAccessFault
  BY <1>3, <1>6
     DEF HandleTrapWfxEnd, HandleTrapSystem, HandleMmTrapRegisterAccess,
         HandleMmTrapMemoryAccessFault, Handling, tsks
<1>7. CASE LeaveHypervisor
  <2>1. /\ Goto("leave", IF cur_tsk_ = 0 THEN "loop" ELSE "guest")
        /\ UNCHANGED <<cur_tsk_, counter>>
    BY <1>7 DEF LeaveHypervisor, tsks
  <2> QED
    BY <1>3, <2>1
<1>8. CASE TakeIrq \/ \E kind \in TrapKinds : TakeTrap(kind)
  <2>1. pc[cur_tsk_] \in {"guest", "loop"} /\ UNCHANGED <<cur_tsk_, counter>>
    BY <1>8 DEF TakeIrq, TakeTrap, Goto, tsks
  <2>2. cur_tsk_ = 0 /\ pc[0] \in boot /\ masked
    BY <1>0, <2>1 DEF RunsOnCredit
  <2>3. FALSE
    BY <1>8, <2>1, <2>2 DEF TakeIrq, TakeTrap, Goto
  <2> QED
    BY <2>3
<1> QED
  BY <1>1, <1>2, <1>4, <1>5, <1>6, <1>7, <1>8
     DEF Next, Hypervisor, HandleTrap, Guest, Device, Halted, vars, tsks, Dispatches,
         LoadFails, PageAllocateFails, UncaughtException, Panic, Execute,
         TimerFire, UartFire

-----------------------------------------------------------------------------
(* Control *)

LEMMA ParkedStep == SchedInv /\ [Next]_vars => OthersParked'
<1> SUFFICES ASSUME SchedInv, [Next]_vars PROVE OthersParked'
  OBVIOUS
<1>0. TypeOK /\ OthersParked
  BY DEF SchedInv, ControlInv
<1>1. CASE UNCHANGED <<cur_tsk_, pc>>
  BY <1>0, <1>1 DEF OthersParked, Parked
<1>2. ASSUME NEW from, NEW to, Goto(from, to), UNCHANGED cur_tsk_
      PROVE  OthersParked'
  BY <1>0, <1>2, Moves DEF OthersParked, Parked
<1>3. ASSUME NEW from, NEW to, Goto(from, to),
             to \in IF cur_tsk_ = 0 THEN {"unmask", "eoi"}
                    ELSE {"new", "wfx", "eoi", "leave"}
      PROVE  OthersParked'
  BY <1>0, <1>3, Moves DEF OthersParked, Parked
<1>4. CASE LoopSchedule
  <2>1. Goto("sched", "unmask")
    BY <1>4 DEF LoopSchedule
  <2> QED
    BY <1>0, <1>3, <2>1, Moves DEF VcpuPcs
<1>5. CASE HandleTrapWfx
  <2>1. Goto("trap", "wfx")
    BY <1>5 DEF HandleTrapWfx, Handling
  <2> QED
    BY <1>0, <1>3, <2>1, Moves DEF InitPcs
<1>6. CASE \E v \in Vcpu : ExitTask(v)
  <2>1. Goto("trap", "leave")
    BY <1>6 DEF ExitTask, Handling
  <2> QED
    BY <1>0, <1>3, <2>1, Moves DEF InitPcs
<1>7. CASE HandleIrq
  <2>1. Goto("irq", "eoi")
    BY <1>7 DEF HandleIrq
  <2> QED
    BY <1>3, <2>1
<1>8. CASE CreateTask \/ StartLoop \/ CpuDisableIrq \/ CpuEnableIrq \/ TakeIrq
  BY <1>2, <1>8
     DEF CreateTask, StartLoop, CpuDisableIrq, CpuEnableIrq, TakeIrq, tsks
<1>9. CASE \/ LoadTaskImage \/ HandleTrapWfxEnd \/ HandleTrapSystem
           \/ HandleMmTrapRegisterAccess \/ HandleMmTrapMemoryAccessFault
           \/ EndOfInterrupt \/ \E kind \in TrapKinds : TakeTrap(kind)
  BY <1>2, <1>9
     DEF LoadTaskImage, HandleTrapWfxEnd, HandleTrapSystem,
         HandleMmTrapRegisterAccess, HandleMmTrapMemoryAccessFault, Handling,
         EndOfInterrupt, TakeTrap, tsks
<1>10. CASE LeaveHypervisor
  BY <1>2, <1>10 DEF LeaveHypervisor, tsks
<1> QED
  BY <1>1, <1>4, <1>5, <1>6, <1>7, <1>8, <1>9, <1>10
     DEF Next, Hypervisor, HandleTrap, Guest, Device, Halted, vars, tsks, LoadFails,
         PageAllocateFails, UncaughtException, Panic, Execute, TimerFire, UartFire

LEMMA CurrentRunsStep == SchedInv /\ [Next]_vars => CurrentRuns'
<1> SUFFICES ASSUME SchedInv, [Next]_vars PROVE CurrentRuns'
  OBVIOUS
<1>0. TypeOK /\ TasksOK /\ CreditBounded /\ CurrentRuns
  BY DEF SchedInv, TypeOK, ControlInv
<1>1. CASE UNCHANGED <<cur_tsk_, state>>
  BY <1>0, <1>1 DEF CurrentRuns
<1>2. CASE CreateTask
  BY <1>0, <1>2 DEF CreateTask, CurrentRuns, TasksOK
<1>3. CASE Dispatches
  BY <1>3, DispatchStep DEF CurrentRuns
<1> QED
  BY <1>1, <1>2, <1>3, TasksFrame DEF tsks

\* Dispatched or not, the current task afterwards is a task.
LEMMA NextCurrent ==
  ASSUME SchedInv, [Next]_vars
  PROVE  cur_tsk_' \in Tasks
BY TasksStep, SchedAssumption DEF TasksOK, Registered, Tasks

LEMMA MaskedStep == SchedInv /\ [Next]_vars => MaskedAtEL2'
<1> SUFFICES ASSUME SchedInv, [Next]_vars PROVE MaskedAtEL2'
  OBVIOUS
<1>0. TypeOK /\ OthersParked /\ MaskedAtEL2 /\ cur_tsk_ \in Tasks /\ cur_tsk_' \in Tasks
  BY CurrentTask, NextCurrent DEF SchedInv, ControlInv
<1>1. CASE UNCHANGED <<cur_tsk_, pc, masked, active, vttbr>>
  BY <1>0, <1>1 DEF MaskedAtEL2
<1>2. ASSUME NEW from, NEW to, Goto(from, to), from \notin {"guest", "loop"},
             to \notin {"guest", "loop", "irq"}, UNCHANGED masked
      PROVE  MaskedAtEL2'
  <2>1. masked'
    BY <1>0, <1>2, Moves DEF MaskedAtEL2
  <2>2. pc'[cur_tsk_'] \notin {"guest", "loop", "irq"}
    BY <1>0, <1>2, Moves DEF OthersParked, Parked
  <2> QED
    BY <2>1, <2>2 DEF MaskedAtEL2
<1>3. CASE CreateTask \/ LoopSchedule \/ LoadTaskImage \/ HandleIrq \/ EndOfInterrupt
  BY <1>2, <1>3
     DEF CreateTask, LoopSchedule, LoadTaskImage, HandleIrq, EndOfInterrupt
<1>4. CASE \/ HandleTrapWfx \/ HandleTrapWfxEnd \/ HandleTrapSystem
           \/ HandleMmTrapRegisterAccess \/ HandleMmTrapMemoryAccessFault
           \/ \E v \in Vcpu : ExitTask(v)
  BY <1>2, <1>4
     DEF HandleTrapWfx, HandleTrapWfxEnd, HandleTrapSystem,
         HandleMmTrapRegisterAccess, HandleMmTrapMemoryAccessFault, ExitTask,
         Handling
<1>5. ASSUME NEW from, Goto(from, "loop"), UNCHANGED cur_tsk_
      PROVE  MaskedAtEL2'
  BY <1>0, <1>5, Moves DEF MaskedAtEL2
<1>6. CASE StartLoop \/ CpuEnableIrq
  BY <1>5, <1>6 DEF StartLoop, CpuEnableIrq, tsks
<1>7. CASE LeaveHypervisor
  <2>1. pc'[cur_tsk_] \in {"loop", "guest"}
    BY <1>0, <1>7, Moves DEF LeaveHypervisor
  <2>2. UNCHANGED cur_tsk_ /\ ~masked' /\ vttbr' = cur_tsk_
    BY <1>7 DEF LeaveHypervisor, RunVcpu, CpuRegLoadVCpuSysregs, tsks
  <2> QED
    BY <2>1, <2>2 DEF MaskedAtEL2
<1>8. ASSUME NEW from, NEW to, Goto(from, to), to \notin {"guest", "irq"}, masked',
             UNCHANGED cur_tsk_
      PROVE  MaskedAtEL2'
  BY <1>0, <1>8, Moves DEF MaskedAtEL2
<1>9. CASE CpuDisableIrq \/ \E kind \in TrapKinds : TakeTrap(kind)
  BY <1>8, <1>9 DEF CpuDisableIrq, TakeTrap, EnterHypervisor, tsks
<1>10. CASE TakeIrq
  <2>1. pc'[cur_tsk_] = "irq" /\ masked' /\ active' = {} /\ UNCHANGED cur_tsk_
    BY <1>0, <1>10, Moves DEF TakeIrq, EnterHypervisor, Signalled, tsks, gic
  <2> QED
    BY <2>1 DEF MaskedAtEL2
<1> QED
  BY <1>1, <1>3, <1>4, <1>6, <1>7, <1>9, <1>10
     DEF Next, Hypervisor, HandleTrap, Guest, Device, Halted, vars, tsks, cpu, gic,
         LoadFails, PageAllocateFails, UncaughtException, Panic, Execute,
         TimerFire, UartFire

-----------------------------------------------------------------------------
(* The owner of the active interrupt *)

LEMMA IrqOwnerStep == SchedInv /\ [Next]_vars => IrqOwner'
<1> SUFFICES ASSUME SchedInv, [Next]_vars PROVE IrqOwner'
  OBVIOUS
<1>0. TypeOK /\ IrqsOK /\ MaskedAtEL2 /\ IrqOwner /\ cur_tsk_ \in Tasks
  BY CurrentTask DEF SchedInv, ControlInv, TypeOK
<1>1. CASE UNCHANGED <<pc, gic>>
  BY <1>0, <1>1 DEF IrqOwner, gic
<1>2. ASSUME NEW from, NEW to, Goto(from, to), from # "eoi", to # "eoi", UNCHANGED gic
      PROVE  IrqOwner'
  <2>1. \A t \in Tasks : pc'[t] = "eoi" <=> pc[t] = "eoi"
    BY <1>0, <1>2, Moves
  <2> QED
    BY <1>0, <1>2, <2>1 DEF IrqOwner, gic
<1>3. CASE \/ CreateTask \/ StartLoop \/ CpuDisableIrq \/ LoopSchedule \/ CpuEnableIrq
           \/ LoadTaskImage \/ TakeIrq
  BY <1>2, <1>3
     DEF CreateTask, StartLoop, CpuDisableIrq, LoopSchedule, CpuEnableIrq,
         LoadTaskImage, TakeIrq, gic
<1>4. CASE \/ HandleTrapWfx \/ HandleTrapWfxEnd \/ HandleTrapSystem
           \/ HandleMmTrapRegisterAccess \/ HandleMmTrapMemoryAccessFault
           \/ (\E v \in Vcpu : ExitTask(v)) \/ \E kind \in TrapKinds : TakeTrap(kind)
  BY <1>2, <1>4
     DEF HandleTrapWfx, HandleTrapWfxEnd, HandleTrapSystem,
         HandleMmTrapRegisterAccess, HandleMmTrapMemoryAccessFault, ExitTask,
         Handling, TakeTrap, gic
<1>5. CASE LeaveHypervisor
  BY <1>2, <1>5 DEF LeaveHypervisor, gic
<1>6. CASE HandleIrq
  <2>1. PICK id \in Pending : active' = active \cup {id} /\ iar' = [iar EXCEPT ![cur_tsk_] = id]
    BY <1>6 DEF HandleIrq
  <2>2. Goto("irq", "eoi") /\ active = {} /\ id # "none"
    BY <1>0, <1>6, Moves DEF HandleIrq, MaskedAtEL2, Pending, Lines, Irqs
  <2>3. \A t \in Tasks : iar[t] = "none" /\ pc[t] # "eoi"
    BY <1>0, <2>2 DEF IrqOwner
  <2>4. active' = {id} /\ iar'[cur_tsk_] = id /\ \A t \in Tasks \ {cur_tsk_} : iar'[t] = "none"
    BY <1>0, <2>1, <2>2, <2>3 DEF IrqsOK
  <2>5. pc'[cur_tsk_] = "eoi" /\ \A t \in Tasks \ {cur_tsk_} : pc'[t] # "eoi"
    BY <1>0, <2>2, <2>3, Moves
  <2> QED
    BY <1>0, <2>2, <2>4, <2>5 DEF IrqOwner
<1>7. CASE EndOfInterrupt
  <2>1. /\ Goto("eoi", "leave")
        /\ active' = active \ {iar[cur_tsk_]}
        /\ iar' = [iar EXCEPT ![cur_tsk_] = "none"]
    BY <1>7 DEF EndOfInterrupt
  <2>2. iar[cur_tsk_] # "none" /\ active' = {}
    BY <1>0, <2>1, Moves DEF IrqOwner
  <2>3. \A t \in Tasks : iar'[t] = "none"
    BY <1>0, <2>1, <2>2 DEF IrqOwner, IrqsOK
  <2>4. \A t \in Tasks : pc'[t] # "eoi"
    BY <1>0, <2>1, <2>2, Moves DEF IrqOwner
  <2> QED
    BY <2>2, <2>3, <2>4 DEF IrqOwner
<1> QED
  BY <1>1, <1>3, <1>4, <1>5, <1>6, <1>7
     DEF Next, Hypervisor, HandleTrap, Guest, Device, Halted, vars, gic, LoadFails,
         PageAllocateFails, UncaughtException, Panic, Execute, TimerFire, UartFire

-----------------------------------------------------------------------------
(* vCPUs that were never dispatched *)

LEMMA NewStep == SchedInv /\ [Next]_vars => NewIsReset'
<1> SUFFICES ASSUME SchedInv, [Next]_vars PROVE NewIsReset'
  OBVIOUS
<1>0. /\ TypeOK /\ TasksOK /\ PcsOK /\ GuestsOK /\ NewIsReset
      /\ cur_tsk_ \in Tasks /\ 0 \in Tasks /\ Registered \subseteq Tasks
      /\ (cur_tsk_ # 0 => cur_tsk_ \in Vcpu) /\ Vcpu \subseteq Tasks /\ 0 \notin Vcpu
      /\ cur_tsk_ \in Registered
  BY CurrentTask DEF SchedInv, ControlInv, TypeOK, TasksOK, Vcpu
<1>1. CASE UNCHANGED <<pc, count_tsks_, state, guest>>
  BY <1>0, <1>1 DEF NewIsReset, Registered, guest
\* A step of the current task's code leaves the vCPUs that are still new alone.
<1>2. ASSUME NEW from, NEW to, Goto(from, to), to \notin {"new", "create"},
             from = "create" => count_tsks_ = NrVcpus + 1,
             UNCHANGED count_tsks_,
             \A t \in Tasks \ Registered : state'[t] = state[t],
             \A v \in Vcpu \ {cur_tsk_} :
               ctx_pc'[v] = ctx_pc[v] /\ vcpu_sysregs'[v] = vcpu_sysregs[v]
      PROVE  NewIsReset'
  <2>1. pc'[0] # "create" => count_tsks_' = NrVcpus + 1
    BY <1>0, <1>2, Moves DEF NewIsReset
  <2>2. \A t \in Tasks \ Registered' : pc'[t] = "new" /\ state'[t] = "RUNNING"
    BY <1>0, <1>2, Moves DEF NewIsReset, Registered
  <2>3. \A v \in Vcpu : pc'[v] = "new" => ctx_pc'[v] = 0 /\ vcpu_sysregs'[v] = Reset
    BY <1>0, <1>2, Moves DEF NewIsReset
  <2> QED
    BY <2>1, <2>2, <2>3 DEF NewIsReset
<1>3. CASE CreateTask
  <2>1. /\ Goto("create", "create") /\ count_tsks_' = count_tsks_ + 1
        /\ state' = [state EXCEPT ![count_tsks_] = "RUNNING"]
        /\ vcpu_sysregs' = [vcpu_sysregs EXCEPT ![count_tsks_] = Reset]
        /\ UNCHANGED ctx_pc
    BY <1>3 DEF CreateTask
  <2>2. cur_tsk_ = 0 /\ pc' = pc
    BY <1>0, <2>1, Moves DEF VcpuPcs, Goto, PcsOK
  <2>3. pc'[0] = "create"
    BY <1>0, <2>1, <2>2, Moves
  <2>4. Registered \subseteq Registered'
    BY <1>0, <2>1 DEF Registered, TasksOK
  <2>5. \A t \in Tasks \ Registered' : pc'[t] = "new" /\ state'[t] = "RUNNING"
    BY <1>0, <2>1, <2>2, <2>4 DEF NewIsReset, TasksOK
  <2>6. \A v \in Vcpu : pc'[v] = "new" => ctx_pc'[v] = 0 /\ vcpu_sysregs'[v] = Reset
    BY <1>0, <2>1, <2>2 DEF NewIsReset, GuestsOK
  <2> QED
    BY <2>3, <2>5, <2>6 DEF NewIsReset
<1>4. CASE \/ StartLoop \/ CpuDisableIrq \/ LoopSchedule \/ CpuEnableIrq \/ HandleIrq
           \/ EndOfInterrupt
  BY <1>2, <1>4
     DEF StartLoop, CpuDisableIrq, LoopSchedule, CpuEnableIrq, HandleIrq,
         EndOfInterrupt, tsks, guest
<1>5. CASE LoadTaskImage
  BY <1>0, <1>2, <1>5 DEF LoadTaskImage, tsks, GuestsOK
<1>6. CASE HandleTrapWfx \/ HandleMmTrapMemoryAccessFault
  BY <1>2, <1>6
     DEF HandleTrapWfx, HandleMmTrapMemoryAccessFault, Handling, tsks, guest
<1>7. CASE \/ HandleTrapWfxEnd \/ HandleTrapSystem \/ HandleMmTrapRegisterAccess
  BY <1>0, <1>2, <1>7
     DEF HandleTrapWfxEnd, HandleTrapSystem, HandleMmTrapRegisterAccess, Handling,
         IncrementCurrentTaskPc, tsks, GuestsOK
<1>8. CASE \E v \in Vcpu : ExitTask(v)
  <2>1. PICK v \in Vcpu : ExitTask(v)
    BY <1>8
  <2>2. /\ Goto("trap", "leave") /\ v \in Registered
        /\ state' = [state EXCEPT ![v] = "ZOMBIE"] /\ UNCHANGED <<count_tsks_, guest>>
    BY <2>1 DEF ExitTask, Handling
  <2>3. \A t \in Tasks \ Registered : state'[t] = state[t]
    BY <1>0, <2>2 DEF TasksOK
  <2> QED
    BY <1>2, <2>2, <2>3 DEF guest
<1>9. CASE LeaveHypervisor
  <2>1. /\ Goto("leave", IF cur_tsk_ = 0 THEN "loop" ELSE "guest")
        /\ UNCHANGED <<count_tsks_, state, guest>>
    BY <1>9 DEF LeaveHypervisor, tsks
  <2> QED
    BY <1>2, <2>1 DEF guest
<1>10. ASSUME NEW from, NEW to, Goto(from, to), to \notin {"new", "create"},
              from # "create", EnterHypervisor, UNCHANGED tsks
       PROVE  NewIsReset'
  BY <1>0, <1>2, <1>10 DEF EnterHypervisor, CpuRegStoreVCpuSysregs, tsks, GuestsOK
<1>11. CASE TakeIrq \/ \E kind \in TrapKinds : TakeTrap(kind)
  BY <1>10, <1>11 DEF TakeIrq, TakeTrap
<1> QED
  BY <1>1, <1>3, <1>4, <1>5, <1>6, <1>7, <1>8, <1>9, <1>11
     DEF Next, Hypervisor, HandleTrap, Guest, Device, Halted, vars, tsks, LoadFails,
         PageAllocateFails, UncaughtException, Panic, Execute, TimerFire, UartFire

-----------------------------------------------------------------------------
(* The inductive invariant *)

LEMMA InitInv == Init => SchedInv
<1> SUFFICES ASSUME Init PROVE SchedInv
  OBVIOUS
<1>0. 0 \in Tasks /\ Vcpu \subseteq Tasks /\ 0 \notin Vcpu
  BY SchedAssumption DEF Tasks, Vcpu
<1> USE SchedAssumption DEF Init
<1>1. TasksOK
  <2>1. count_tsks_ \in 1 .. NrVcpus + 1 /\ cur_tsk_ \in Registered
    BY DEF Registered
  <2> QED
    BY <2>1 DEF TasksOK
<1>2. PcsOK
  <2>1. pc[0] = "create" /\ \A v \in Vcpu : pc[v] = "new"
    BY <1>0
  <2> QED
    BY <2>1 DEF PcsOK, InitPcs, VcpuPcs
<1>3. GuestsOK
  <2>1. 0 \in 0 .. LastPc
    OBVIOUS
  <2>2. ctx_pc \in [Vcpu -> 0 .. LastPc]
    BY <2>1
  <2> QED
    BY <2>2 DEF GuestsOK
<1>4. CpuOK
  <2>1. hw_pc \in 0 .. LastPc
    OBVIOUS
  <2> QED
    BY <1>0, <2>1 DEF CpuOK
<1>5. IrqsOK
  <2>1. due \in 0 .. MaxDue
    OBVIOUS
  <2>2. iar \in [Tasks -> Irqs \cup {"none"}]
    OBVIOUS
  <2> QED
    BY <2>1, <2>2 DEF IrqsOK
<1>6. OthersParked /\ CurrentRuns /\ MaskedAtEL2
  BY <1>0 DEF OthersParked, Parked, CurrentRuns, MaskedAtEL2
<1>7. NewIsReset
  <2>1. \A t \in Tasks \ Registered : t # 0
    BY DEF Registered
  <2> QED
    BY <1>0, <2>1 DEF NewIsReset
<1>8. IrqOwner
  BY DEF IrqOwner, Tasks
<1>9. CreditBounded
  <2>1. \A t \in Tasks : counter[t] = 0 /\ priority(t) \in Nat \ {0}
    BY DEF priority, kInitPriority
  <2> QED
    BY <2>1 DEF CreditBounded, CreditLimit
<1>10. RunsOnCredit
  BY <1>0 DEF RunsOnCredit
<1> QED
  BY <1>1, <1>2, <1>3, <1>4, <1>5, <1>6, <1>7, <1>8, <1>9, <1>10
     DEF SchedInv, TypeOK, ControlInv

\* Every state the hypervisor reaches has well-typed variables, its tasks where
\* the code can have left them, one owner of the active interrupt, and bounded
\* credit: the invariant is inductive.
THEOREM Safety == Spec => []SchedInv
<1>1. SchedInv /\ [Next]_vars => SchedInv'
  BY TypeStep, ParkedStep, CurrentRunsStep, MaskedStep, NewStep, IrqOwnerStep,
     CreditStep, RunsOnCreditStep
     DEF SchedInv, ControlInv
<1> QED
  BY InitInv, <1>1, PTL DEF Spec

\* GICC_IAR is read by one task at a time, which writes GICC_EOIR later, even
\* when it lost the processor in between.
THEOREM InterruptOwnership == Spec => []IrqOwner
BY Safety, PTL DEF SchedInv

\* Waiting for the processor does not accumulate credit without bound.
THEOREM BoundedCredit == Spec => []CreditBounded
BY Safety, PTL DEF SchedInv

\* A task that has the processor has credit left, from the first dispatch on.
THEOREM RunningOnCredit == Spec => []RunsOnCredit
BY Safety, PTL DEF SchedInv

-----------------------------------------------------------------------------
(* What a step may never do *)

\* No context switch happens with IRQs unmasked, before or after it.
THEOREM SwitchesAreMasked == Spec => SwitchOnlyMasked
<1>1. SchedInv /\ [Next]_vars => [cur_tsk_' # cur_tsk_ => masked /\ masked']_vars
  <2> SUFFICES ASSUME SchedInv, [Next]_vars, cur_tsk_' # cur_tsk_
               PROVE  masked /\ masked'
    OBVIOUS
  <2>0. TypeOK /\ MaskedAtEL2
    BY DEF SchedInv, ControlInv
  <2>1. Dispatches
    BY TasksFrame DEF tsks, CreateTask
  <2>2. /\ UNCHANGED masked
        /\ \/ Goto("sched", "unmask") \/ Goto("trap", "wfx")
           \/ Goto("trap", "leave") \/ Goto("irq", "eoi")
    BY <2>1 DEF Dispatches, LoopSchedule, HandleTrapWfx, ExitTask, Handling, HandleIrq
  <2> QED
    BY <2>0, <2>2, Moves DEF MaskedAtEL2
<1> QED
  BY Safety, <1>1, PTL DEF Spec, SwitchOnlyMasked

\* Only a registered task that ExitTask did not end is given the processor.
THEOREM DispatchesRunning == Spec => DispatchRunning
<1>1. SchedInv /\ [Next]_vars =>
        [cur_tsk_' # cur_tsk_ => /\ cur_tsk_' < count_tsks_
                                 /\ state'[cur_tsk_'] = "RUNNING"]_vars
  <2> SUFFICES ASSUME SchedInv, [Next]_vars, cur_tsk_' # cur_tsk_
               PROVE  cur_tsk_' < count_tsks_ /\ state'[cur_tsk_'] = "RUNNING"
    OBVIOUS
  <2>1. Dispatches
    BY TasksFrame DEF tsks, CreateTask
  <2>2. count_tsks_ \in Nat
    BY SchedAssumption DEF SchedInv, TypeOK, TasksOK
  <2> QED
    BY <2>1, <2>2, DispatchStep DEF Registered
<1> QED
  BY Safety, <1>1, PTL DEF Spec, DispatchRunning

\* A counter grows only in the refill that begins a new round.
THEOREM RefillsEndRounds == Spec => RefillEndsRound
<1> DEFINE Raise == \E t \in Registered : counter'[t] > counter[t]
           Over == \A u \in Runnable(state') \ {cur_tsk_} : counter[u] = 0
<1>1. SchedInv /\ [Next]_vars =>
        [\A t \in Registered : counter'[t] > counter[t] =>
           \A u \in Runnable(state') \ {cur_tsk_} : counter[u] = 0]_vars
  <2> SUFFICES ASSUME SchedInv, [Next]_vars, Raise PROVE Over
    OBVIOUS
  <2>0. /\ TypeOK /\ TasksOK /\ cur_tsk_ \in Tasks /\ Registered \subseteq Tasks
        /\ counter \in [Tasks -> Nat]
    BY CurrentTask DEF SchedInv, TypeOK, TasksOK
  <2>1. ~CreateTask
    <3> SUFFICES ASSUME CreateTask PROVE FALSE
      OBVIOUS
    <3>1. counter' = [counter EXCEPT ![count_tsks_] = Priority] /\ count_tsks_ \in Nat
      BY <2>0, SchedAssumption DEF CreateTask, TasksOK
    <3>2. \A t \in Registered : counter'[t] = counter[t]
      BY <2>0, <3>1 DEF Registered
    <3> QED
      BY <2>0, <3>2
  <2>2. Dispatches
    <3>1. ~UNCHANGED counter
      BY <2>0
    <3> QED
      BY <2>1, <3>1, TasksFrame DEF tsks
  <2>3. Schedule /\ UNCHANGED count_tsks_
    <3>1. CASE LoopSchedule \/ HandleTrapWfx \/ \E v \in Vcpu : ExitTask(v)
      BY <3>1 DEF LoopSchedule, HandleTrapWfx, ExitTask
    <3>2. CASE HandleIrq
      <4>1. UNCHANGED count_tsks_ /\ (TimerIrq \/ UartIrq)
        BY <3>2 DEF HandleIrq
      <4>2. ~UartIrq
        BY <2>0 DEF UartIrq
      <4>3. CASE counter[cur_tsk_] > 1
        <5>1. counter' = [counter EXCEPT ![cur_tsk_] = @ - 1]
          BY <4>1, <4>2, <4>3 DEF TimerIrq, SchedTimerHandler
        <5>2. \A t \in Registered : ~(counter'[t] > counter[t])
          BY <2>0, <5>1
        <5> QED
          BY <5>2
      <4> QED
        BY <4>1, <4>2, <4>3 DEF TimerIrq, SchedTimerHandler
    <3> QED
      BY <2>2, <3>1, <3>2 DEF Dispatches
  <2> DEFINE c == [counter EXCEPT ![cur_tsk_] = 0]
             run == Runnable(state')
  <2>4. counter' = Credits(run, c)
    BY <2>3 DEF Schedule, ScheduleInternal
  <2>5. \A t \in Tasks : c[t] \in Nat /\ c[t] <= counter[t] /\ (t # cur_tsk_ => c[t] = counter[t])
    BY <2>0
  <2>6. \A t \in run : ~(c[t] > 0)
    <3> SUFFICES ASSUME \E t \in run : c[t] > 0 PROVE FALSE
      OBVIOUS
    <3>1. counter' = c
      BY <2>4 DEF Credits
    <3>2. \A t \in Registered : ~(counter'[t] > counter[t])
      BY <2>0, <2>5, <3>1
    <3> QED
      BY <3>2
  <2>7. run \subseteq Tasks
    BY <2>0 DEF Runnable
  <2> HIDE DEF c
  <2>8. \A u \in run \ {cur_tsk_} : counter[u] = 0
    BY <2>0, <2>5, <2>6, <2>7
  <2> QED
    BY <2>8
<1> QED
  BY Safety, <1>1, PTL DEF Spec, RefillEndsRound

-----------------------------------------------------------------------------
(* How long a task waits *)

\* A call of Schedule brings a waiting task v nearer to the processor, whichever
\* of them gets it: nobody's share of what comes before v grows, and the share
\* of the task that called shrinks, by the credit it gives up.
LEMMA ScheduleShortens ==
  ASSUME SchedInv, Schedule, UNCHANGED count_tsks_,
         NEW v \in Runnable(state'), v # cur_tsk_, NEW t \in Registered
  PROVE  /\ Ahead(v, t)' <= Ahead(v, t)
         /\ t = cur_tsk_ /\ counter[t] > 0 => Ahead(v, t)' < Ahead(v, t)
<1> DEFINE c == [counter EXCEPT ![cur_tsk_] = 0]
           run == Runnable(state')
<1>0. /\ cur_tsk_ \in Tasks /\ counter \in [Tasks -> Nat]
      /\ t \in Tasks /\ v \in Tasks /\ v \in Registered
  BY CurrentTask DEF SchedInv, TypeOK, TasksOK, Runnable
<1>1. priority(t) \in Nat \ {0} /\ priority(v) \in Nat \ {0}
  BY SchedAssumption DEF priority, kInitPriority
<1>2. counter' = Credits(run, c)
  BY DEF Schedule, ScheduleInternal
<1>3. /\ c[v] = counter[v] /\ counter[v] \in Nat /\ counter[t] \in Nat
      /\ c[t] = IF t = cur_tsk_ THEN 0 ELSE counter[t]
  BY <1>0
<1>4. /\ Ahead(v, t) = counter[t] + (IF counter[v] = 0 THEN priority(t) ELSE 0)
      /\ Ahead(v, t)' = counter'[t] + (IF counter'[v] = 0 THEN priority(t) ELSE 0)
  BY DEF Ahead, priority
<1>5. CASE \E u \in run : c[u] > 0
  <2>1. counter' = c
    BY <1>2, <1>5 DEF Credits
  <2>2. counter'[v] = counter[v] /\ counter'[t] = IF t = cur_tsk_ THEN 0 ELSE counter[t]
    BY <1>3, <2>1
  <2> QED
    BY <1>1, <1>3, <1>4, <2>2
<1>6. CASE ~ \E u \in run : c[u] > 0
  <2>1. counter' = Refilled(c)
    BY <1>2, <1>6 DEF Credits
  <2>2. /\ counter'[t] = (c[t] \div 2) + priority(t)
        /\ counter'[v] = (c[v] \div 2) + priority(v)
    BY <1>0, <2>1 DEF Refilled
  <2>3. counter[v] = 0 /\ c[v] = 0
    BY <1>3, <1>6
  <2>4. counter'[v] = priority(v) /\ counter'[v] # 0
    BY <1>1, <2>2, <2>3
  <2>5. c[t] \in Nat /\ c[t] \div 2 \in Nat /\ c[t] \div 2 <= c[t]
    BY <1>3
  <2>6. c[t] <= counter[t] /\ (t = cur_tsk_ => c[t] = 0 /\ c[t] \div 2 = 0)
    BY <1>3
  <2>7. Ahead(v, t) = counter[t] + priority(t)
    BY <1>4, <2>3
  <2>8. Ahead(v, t)' = (c[t] \div 2) + priority(t)
    BY <1>1, <1>4, <2>2, <2>4, <2>5
  <2> HIDE DEF c
  <2> QED
    BY <1>1, <1>3, <2>5, <2>6, <2>7, <2>8
<1> QED
  BY <1>5, <1>6

\* The same for a tick, which charges the current task one.
LEMMA TickShortens ==
  ASSUME SchedInv, SchedTimerHandler, UNCHANGED count_tsks_,
         NEW v \in Runnable(state'), v # cur_tsk_, NEW t \in Registered
  PROVE  /\ Ahead(v, t)' <= Ahead(v, t)
         /\ t = cur_tsk_ /\ counter[t] > 0 => Ahead(v, t)' < Ahead(v, t)
<1>1. CASE counter[cur_tsk_] > 1
  <2>0. /\ cur_tsk_ \in Tasks /\ counter \in [Tasks -> Nat]
        /\ t \in Tasks /\ v \in Tasks
    BY CurrentTask DEF SchedInv, TypeOK, TasksOK, Runnable
  <2>1. counter' = [counter EXCEPT ![cur_tsk_] = @ - 1]
    BY <1>1 DEF SchedTimerHandler
  <2>2. /\ counter'[v] = counter[v] /\ counter[v] \in Nat /\ counter[t] \in Nat
        /\ counter'[t] = IF t = cur_tsk_ THEN counter[t] - 1 ELSE counter[t]
    BY <2>0, <2>1
  <2>3. priority(t) \in Nat
    BY SchedAssumption DEF priority, kInitPriority
  <2>4. /\ Ahead(v, t) = counter[t] + (IF counter[v] = 0 THEN priority(t) ELSE 0)
        /\ Ahead(v, t)' = counter'[t] + (IF counter[v] = 0 THEN priority(t) ELSE 0)
    BY <2>2 DEF Ahead, priority
  <2> QED
    BY <2>2, <2>3, <2>4
<1>2. CASE ~(counter[cur_tsk_] > 1)
  BY <1>2, ScheduleShortens DEF SchedTimerHandler
<1> QED
  BY <1>1, <1>2

\* No task is kept from the processor for ever by the others' credit: for each
\* waiting task and each other task, what the other may still use before falls
\* with every charge and never rises, from at most twice the other's priority.
THEOREM WaitingIsBounded == Spec => WaitIsBounded
<1> DEFINE Nearer(v, t) ==
             IF Charged(t) THEN Ahead(v, t)' < Ahead(v, t)
                           ELSE Ahead(v, t)' <= Ahead(v, t)
<1>1. SchedInv /\ [Next]_vars =>
        [\A v \in Runnable(state) \ {cur_tsk_} : state'[v] = "RUNNING" =>
           \A t \in Registered \ {v} :
             IF Charged(t) THEN Ahead(v, t)' < Ahead(v, t)
                           ELSE Ahead(v, t)' <= Ahead(v, t)]_vars
  <2> SUFFICES ASSUME SchedInv, [Next]_vars,
                      NEW v \in Runnable(state) \ {cur_tsk_}, state'[v] = "RUNNING",
                      NEW t \in Registered \ {v}
               PROVE  Nearer(v, t)
    OBVIOUS
  <2>0. /\ TypeOK /\ TasksOK /\ t \in Tasks /\ v \in Tasks /\ v \in Registered
        /\ v \in Runnable(state') /\ counter[t] \in Nat /\ counter[v] \in Nat
    BY CurrentTask DEF SchedInv, TypeOK, TasksOK, Runnable
  <2>1. Ahead(v, t) \in Nat
    BY <2>0, SchedAssumption DEF Ahead, priority, kInitPriority
  \* Without a charge it is enough that the two counters stay.
  <2>2. ASSUME counter'[t] = counter[t], counter'[v] = counter[v], ~Charged(t)
        PROVE  Nearer(v, t)
    <3>1. Ahead(v, t)' = Ahead(v, t)
      BY <2>2 DEF Ahead, priority
    <3> QED
      BY <2>1, <2>2, <3>1
  <2>3. ASSUME Schedule \/ SchedTimerHandler, UNCHANGED count_tsks_
        PROVE  Nearer(v, t)
    <3>1. /\ Ahead(v, t)' <= Ahead(v, t)
          /\ t = cur_tsk_ /\ counter[t] > 0 => Ahead(v, t)' < Ahead(v, t)
      BY <2>0, <2>3, ScheduleShortens, TickShortens
    <3> QED
      BY <3>1 DEF Charged
  <2>4. CASE LoopSchedule \/ HandleTrapWfx \/ \E u \in Vcpu : ExitTask(u)
    BY <2>3, <2>4 DEF LoopSchedule, HandleTrapWfx, ExitTask
  <2>5. CASE HandleIrq
    <3>1. UNCHANGED count_tsks_ /\ (TimerIrq \/ UartIrq)
      BY <2>5 DEF HandleIrq
    <3>2. CASE TimerIrq
      BY <2>3, <3>1, <3>2 DEF TimerIrq
    <3>3. CASE UartIrq
      <4>1. UNCHANGED counter /\ ~(due' < due)
        <5>1. due \in Nat
          BY SchedAssumption DEF SchedInv, TypeOK, IrqsOK
        <5> QED
          BY <3>3, <5>1 DEF UartIrq
      <4>2. ~(LoopSchedule \/ HandleTrapWfx \/ \E u \in Vcpu : ExitTask(u))
        BY <2>5 DEF HandleIrq, LoopSchedule, HandleTrapWfx, ExitTask, Handling, Goto
      <4>3. ~Charged(t)
        BY <4>1, <4>2 DEF Charged
      <4> QED
        BY <2>2, <4>1, <4>3
    <3> QED
      BY <3>1, <3>2, <3>3
  <2>6. CASE ~Dispatches
    <3>1. ~(due' < due)
      <4>1. due \in Nat
        BY SchedAssumption DEF SchedInv, TypeOK, IrqsOK
      <4>2. UNCHANGED due \/ TimerFire
        BY <2>6
           DEF Dispatches, Next, Hypervisor, HandleTrap, Guest, Device, Halted, vars,
               dev, CreateTask, StartLoop, CpuDisableIrq, CpuEnableIrq,
               LoadTaskImage, LoadFails, HandleTrapWfxEnd, HandleTrapSystem,
               HandleMmTrapRegisterAccess, HandleMmTrapMemoryAccessFault,
               PageAllocateFails, UncaughtException, Panic, EndOfInterrupt,
               LeaveHypervisor, TakeIrq, Execute, TakeTrap, UartFire
      <4> QED
        BY <4>1, <4>2 DEF TimerFire
    <3>2. ~Charged(t)
      BY <2>6, <3>1 DEF Charged, Dispatches
    <3>3. CASE CreateTask
      <4>1. counter' = [counter EXCEPT ![count_tsks_] = Priority] /\ count_tsks_ \in Nat
        BY <2>0, <3>3, SchedAssumption DEF CreateTask, TasksOK
      <4>2. counter'[t] = counter[t] /\ counter'[v] = counter[v]
        BY <2>0, <4>1 DEF Registered, TasksOK
      <4> QED
        BY <2>2, <3>2, <4>2
    <3>4. CASE ~CreateTask
      BY <2>2, <2>6, <3>2, <3>4, TasksFrame DEF tsks
    <3> QED
      BY <3>3, <3>4
  <2> QED
    BY <2>4, <2>5, <2>6 DEF Dispatches
<1> QED
  BY Safety, <1>1, PTL DEF Spec, WaitIsBounded

\* Before v gets the processor any runnable task is charged at most twice its
\* priority: what is left of this round and what the next refill hands out.
THEOREM AheadIsBounded ==
  Spec => [](\A v \in Tasks : \A t \in Runnable(state) : Ahead(v, t) <= 2 * priority(t))
<1>1. SchedInv => \A v \in Tasks : \A t \in Runnable(state) : Ahead(v, t) <= 2 * priority(t)
  <2> SUFFICES ASSUME SchedInv, NEW v \in Tasks, NEW t \in Runnable(state)
               PROVE  Ahead(v, t) <= 2 * priority(t)
    OBVIOUS
  <2>1. t \in Tasks /\ state[t] = "RUNNING" /\ counter[t] \in Nat
    BY CurrentTask DEF SchedInv, TypeOK, TasksOK, Runnable
  <2>2. counter[t] <= priority(t)
    BY <2>1 DEF SchedInv, CreditBounded, CreditLimit
  <2>3. priority(t) \in Nat
    BY SchedAssumption DEF priority, kInitPriority
  <2> QED
    BY <2>1, <2>2, <2>3 DEF Ahead
<1> QED
  BY Safety, <1>1, PTL

=============================================================================
