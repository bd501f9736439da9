--------------------------- MODULE ConsoleProofs ----------------------------
(***************************************************************************)
(* What holds of the console for any number of guests, any queue size and  *)
(* any characters: ConsoleInv is inductive.                                *)
(***************************************************************************)
EXTENDS Console, TLAPS, SequenceTheorems, WellFoundedInduction

\* The processor leaves the guest and comes back only by VmEnter; guest code
\* that runs on leaves the state the properties are about alone.
LEMMA CurrentTask ==
  ASSUME TypeOK
  PROVE  /\ cur \in Tasks /\ 0 \in Tasks /\ Vcpu \subseteq Tasks
         /\ cur # 0 => cur \in Vcpu
BY ConsoleAssumption DEF TypeOK, Tasks, Vcpu

Pcs == {"new", "guest", "loop", "handler", "serial", "drain", "mmio", "leave", "yield"}

-----------------------------------------------------------------------------
(* Types *)

\* What the flush does, whoever asks for it.
LEMMA FlushType ==
  ASSUME TypeOK, NEW t, FlushConsole(t)
  PROVE  out' \in Seq(Vcpu) /\ Len(out') <= Capacity /\ out' = <<>> /\ fault' \in BOOLEAN
BY ConsoleAssumption, EmptySeq DEF TypeOK, FlushConsole

\* The same when it depends on whose console it is.
LEMMA FlushIfType ==
  ASSUME TypeOK, NEW t, FlushIfAssigned(t)
  PROVE  /\ out' \in Seq(Vcpu) /\ Len(out') <= Capacity /\ fault' \in BOOLEAN
         /\ t = fwd => out' = <<>>
         /\ t # fwd => out' = out
BY FlushType DEF TypeOK, FlushIfAssigned

\* A queue with room for one more element has that element at its end.
LEMMA AppendType ==
  ASSUME NEW S, NEW s \in Seq(S), NEW x \in S, Len(s) < Capacity
  PROVE  Append(s, x) \in Seq(S) /\ Len(Append(s, x)) <= Capacity /\ Append(s, x) # <<>>
<1>1. /\ Len(s) \in Nat /\ Append(s, x) \in Seq(S)
      /\ Len(Append(s, x)) = Len(s) + 1
  OBVIOUS
<1>2. Append(s, x) # <<>>
  <2>1. Len(s) + 1 # 0
    BY <1>1
  <2> QED
    BY <1>1, <2>1, EmptySeq
<1>3. Len(s) + 1 <= Capacity
  BY <1>1, ConsoleAssumption
<1> QED
  BY <1>1, <1>2, <1>3

\* A queue to which one element is added if there is room.
LEMMA MayAppendType ==
  ASSUME NEW S, NEW s \in Seq(S), Len(s) <= Capacity, NEW x \in S, NEW n,
         n = s \/ (Len(s) < Capacity /\ n = Append(s, x))
  PROVE  n \in Seq(S) /\ Len(n) <= Capacity
<1>1. CASE n = s
  BY <1>1
<1>2. CASE Len(s) < Capacity /\ n = Append(s, x)
  <2>1. Append(s, x) \in Seq(S) /\ Len(Append(s, x)) <= Capacity
    BY <1>2, AppendType
  <2> QED
    BY <1>2, <2>1
<1> QED
  BY <1>1, <1>2

\* What remains when the oldest element is taken.
LEMMA TailType ==
  ASSUME NEW S, NEW s \in Seq(S), Len(s) <= Capacity, s # <<>>
  PROVE  Tail(s) \in Seq(S) /\ Len(Tail(s)) <= Capacity /\ Head(s) \in S
<1>1. /\ Len(s) \in Nat \ {0} /\ Tail(s) \in Seq(S) /\ Head(s) \in S
      /\ Len(Tail(s)) = Len(s) - 1
  BY EmptySeq
<1> QED
  BY <1>1, ConsoleAssumption

\* A character from the UART.
LEMMA SerialType ==
  ASSUME TypeOK, NEW c \in Keys, Serial(c)
  PROVE  TypeOK'
<1>0. /\ cur' = cur /\ state' = state /\ DR' = DR /\ RXFE' = RXFE
      /\ irq_pending' = irq_pending /\ is_asserted' = is_asserted /\ vi' = vi
      /\ drv' = drv
  BY DEF Serial, CommandStarts, CommandKey, ConsoleSwitchTo, Forward, ReceiveChar,
         uart, virq
<1>1. pc' \in [Tasks -> Pcs]
  BY DEF TypeOK, Serial, CommandStarts, CommandKey, ConsoleSwitchTo, Forward,
         ReceiveChar, Pcs
<1>2. CASE CommandStarts(c) \/ CommandKey(c)
  BY <1>0, <1>1, <1>2 DEF TypeOK, CommandStarts, CommandKey, Pcs
<1>3. CASE ConsoleSwitchTo(c)
  <2>1. fwd' \in Tasks /\ comming' \in BOOLEAN /\ switch_req' \in BOOLEAN
    BY <1>3 DEF ConsoleSwitchTo, TypeOK
  <2>2. out' \in Seq(Vcpu) /\ Len(out') <= Capacity /\ fault' \in BOOLEAN
    <3>1. FlushConsole(fwd') \/ UNCHANGED <<out, fault>>
      BY <1>3 DEF ConsoleSwitchTo
    <3> QED
      BY <3>1, FlushType DEF TypeOK
  <2>3. in' = in /\ lr' = lr
    BY <1>3 DEF ConsoleSwitchTo
  <2> QED
    BY <1>0, <1>1, <2>1, <2>2, <2>3 DEF TypeOK, Pcs
<1>4. CASE Forward(c)
  <2>1. in' \in Seq(Keys) /\ Len(in') <= Capacity
    <3>1. in' = in \/ (Len(in) < Capacity /\ in' = Append(in, c))
      BY <1>4 DEF Forward
    <3>2. in \in Seq(Keys) /\ Len(in) <= Capacity
      BY DEF TypeOK
    <3> QED
      BY <3>1, <3>2, MayAppendType
  <2>2. lr' = "pending" /\ fault' \in BOOLEAN /\ out' = out
        /\ fwd' = fwd /\ comming' = comming /\ switch_req' = switch_req
    BY <1>4 DEF Forward, command, TypeOK
  <2> QED
    BY <1>0, <1>1, <2>1, <2>2 DEF TypeOK, Pcs
<1> QED
  BY <1>2, <1>3, <1>4 DEF Serial

\* An emulated access to the virtual UART, by a guest.
LEMMA EmulateType ==
  ASSUME TypeOK, VirqInv, Emulate
  PROVE  TypeOK'
<1>0. pc[cur] = "mmio" /\ cur \in Vcpu
  BY CurrentTask DEF Emulate, ReadFR, ReadDR, WriteDR, Mmio, VirqInv
<1>1. ASSUME NEW d \in {"poll_rx", "poll_tx"}, ReadFR(d) PROVE TypeOK'
  <2>1. /\ in' \in Seq(Keys) /\ Len(in') <= Capacity
        /\ DR' \in Keys \cup {"none", Sent} /\ RXFE' \in BOOLEAN
    <3>1. CASE in = <<>>
      BY <1>1, <3>1 DEF ReadFR, TypeOK
    <3>2. CASE in # <<>>
      <4>1. in \in Seq(Keys) /\ Len(in) <= Capacity
        BY DEF TypeOK
      <4>2. Tail(in) \in Seq(Keys) /\ Len(Tail(in)) <= Capacity /\ Head(in) \in Keys
        BY <3>2, <4>1, TailType
      <4>3. in' = Tail(in) /\ DR' = Head(in) /\ RXFE' = FALSE
        BY <1>1, <3>2 DEF ReadFR
      <4> QED
        BY <4>2, <4>3
    <3> QED
      BY <3>1, <3>2
  <2>2. pc' \in [Tasks -> Pcs] /\ drv' \in [Vcpu -> DrvStates]
    BY <1>1 DEF ReadFR, Mmio, TypeOK, Pcs, DrvStates, AfterFlags
  <2> QED
    BY <1>1, <2>1, <2>2 DEF ReadFR, Mmio, TypeOK, command, virq, Pcs
<1>2. CASE ReadDR
  BY <1>2 DEF ReadDR, Mmio, TypeOK, command, virq, DrvStates
<1>3. CASE WriteDR
  <2>1. out' \in Seq(Vcpu) /\ Len(out') <= Capacity
    <3>1. out' = out \/ (Len(out) < Capacity /\ out' = Append(out, cur))
      BY <1>3 DEF WriteDR
    <3>2. out \in Seq(Vcpu) /\ Len(out) <= Capacity
      BY DEF TypeOK
    <3> QED
      BY <1>0, <3>1, <3>2, MayAppendType
  <2>2. pc' \in [Tasks -> Pcs] /\ drv' \in [Vcpu -> DrvStates]
    BY <1>3 DEF WriteDR, Mmio, TypeOK, Pcs, DrvStates
  <2> QED
    BY <1>3, <2>1, <2>2 DEF WriteDR, Mmio, TypeOK, command, virq, Pcs
<1> QED
  BY <1>1, <1>2, <1>3 DEF Emulate

\* A dispatched guest, or the init loop.
LEMMA VmEnterType ==
  ASSUME TypeOK, VmEnter
  PROVE  TypeOK'
<1>1. out' \in Seq(Vcpu) /\ Len(out') <= Capacity /\ fault' \in BOOLEAN
  BY FlushIfType DEF VmEnter
<1>2. irq_pending' \in [Vcpu -> BOOLEAN]
  BY DEF VmEnter, Pending, TypeOK
<1>3. vi' \in BOOLEAN /\ is_asserted' \in BOOLEAN
  BY DEF VmEnter, SetCpuVirtualInterrupt
<1>4. pc' \in [Tasks -> Pcs]
  BY DEF VmEnter, TypeOK, Pcs
<1> QED
  BY <1>1, <1>2, <1>3, <1>4 DEF VmEnter, TypeOK, command, uart, Pcs

\* What interrupted a guest or the init loop.
LEMMA VmLeaveType ==
  ASSUME TypeOK, NEW handler \in Pcs, VmLeave(handler), UNCHANGED drv
  PROVE  TypeOK'
<1>1. out' \in Seq(Vcpu) /\ Len(out') <= Capacity /\ fault' \in BOOLEAN
  BY FlushIfType DEF VmLeave
<1>2. pc' \in [Tasks -> Pcs]
  BY DEF VmLeave, TypeOK, Pcs
<1> QED
  BY <1>1, <1>2 DEF VmLeave, TypeOK, command, uart, virq, Pcs

\* The remaining actions touch the tasks, the driver or the list register only.
LEMMA OtherType ==
  ASSUME TypeOK,
         \/ LoadTaskImage \/ LoopGoesOn \/ EndUartIrq \/ Acknowledge \/ EndVirq
         \/ Transmit \/ \E t \in Tasks : SwitchTask(t)
         \/ \E v \in Vcpu, t \in Tasks : ExitTask(v, t)
  PROVE  TypeOK'
<1>1. CASE LoadTaskImage
  <2>1. vi' \in BOOLEAN /\ is_asserted' \in BOOLEAN
    BY <1>1 DEF LoadTaskImage, SetCpuVirtualInterrupt
  <2> QED
    BY <1>1, <2>1 DEF LoadTaskImage, TypeOK, command, uart
<1>2. CASE LoopGoesOn \/ EndUartIrq
  BY <1>2 DEF LoopGoesOn, EndUartIrq, TypeOK, command, uart, virq
<1>3. CASE Acknowledge \/ EndVirq \/ Transmit
  <2>1. drv' \in [Vcpu -> DrvStates] /\ lr' \in {"none", "pending", "active"}
    BY <1>3 DEF Acknowledge, EndVirq, Transmit, TypeOK, DrvStates
  <2> QED
    BY <1>3, <2>1
       DEF Acknowledge, EndVirq, Transmit, TypeOK, sched, command, uart, virq
<1>4. ASSUME NEW t \in Tasks, SwitchTask(t) PROVE TypeOK'
  BY <1>4 DEF SwitchTask, TypeOK, command, uart, virq
<1>5. ASSUME NEW v \in Vcpu, NEW t \in Tasks, ExitTask(v, t) PROVE TypeOK'
  BY <1>5, CurrentTask DEF ExitTask, TypeOK, command, uart, virq
<1> QED
  BY <1>1, <1>2, <1>3, <1>4, <1>5

LEMMA TypeStep == ConsoleInv /\ [Next]_vars => TypeOK'
<1> SUFFICES ASSUME ConsoleInv, [Next]_vars PROVE TypeOK'
  OBVIOUS
<1>0. TypeOK /\ VirqInv
  BY DEF ConsoleInv
<1>1. CASE \E c \in Keys : Serial(c)
  BY <1>0, <1>1, SerialType
<1>2. CASE Emulate
  BY <1>0, <1>2, EmulateType
<1>3. CASE VmEnter
  BY <1>0, <1>3, VmEnterType
<1>4. CASE TakeTick \/ TakeUartIrq \/ AccessUart
  BY <1>0, <1>4, VmLeaveType DEF TakeTick, TakeUartIrq, AccessUart, Pcs
<1>5. CASE UNCHANGED vars
  BY <1>0, <1>5 DEF TypeOK, vars, sched, command, uart, virq
<1> QED
  BY <1>0, <1>1, <1>2, <1>3, <1>4, <1>5, OtherType DEF Next, Hypervisor, Driver

-----------------------------------------------------------------------------
(* Where code is, and the static variable *)

\* A task's code moves; guest code runs after VmEnter only.
LEMMA VirqInvStep == ConsoleInv /\ [Next]_vars => VirqInv'
<1> SUFFICES ASSUME ConsoleInv, [Next]_vars PROVE VirqInv'
  OBVIOUS
<1>0. TypeOK /\ VirqInv /\ cur \in Tasks /\ 0 \in Tasks
  BY CurrentTask DEF ConsoleInv
<1>1. ASSUME UNCHANGED <<cur, is_asserted, vi>>, NEW p \in Pcs,
             pc' = [pc EXCEPT ![cur] = p],
             cur = 0 => p \notin {"new", "guest", "mmio"}
      PROVE  VirqInv'
  BY <1>0, <1>1 DEF VirqInv, TypeOK
<1>2. CASE \E c \in Keys : Serial(c)
  BY <1>1, <1>2 DEF Serial, CommandStarts, CommandKey, ConsoleSwitchTo, Forward,
                    ReceiveChar, virq, Pcs
<1>3. CASE Emulate \/ EndUartIrq \/ LoopGoesOn
  BY <1>1, <1>3 DEF Emulate, ReadFR, ReadDR, WriteDR, Mmio, EndUartIrq, LoopGoesOn,
                    virq, Pcs
<1>4. CASE TakeTick \/ TakeUartIrq
  BY <1>1, <1>4 DEF TakeTick, TakeUartIrq, VmLeave, virq, Pcs
<1>5. CASE AccessUart
  <2>1. cur # 0
    BY <1>0, <1>5 DEF AccessUart, VirqInv
  <2> QED
    BY <1>1, <1>5, <2>1 DEF AccessUart, VmLeave, virq, Pcs
<1>6. CASE VmEnter \/ LoadTaskImage
  <2>1. is_asserted' = vi' /\ cur' = cur
    BY <1>0, <1>6
       DEF VmEnter, LoadTaskImage, SetCpuVirtualInterrupt, VirqInv, TypeOK
  <2>2. pc'[0] \notin {"new", "guest", "mmio"} /\ \A t \in Tasks \ {cur} : pc'[t] = pc[t]
    BY <1>0, <1>6 DEF VmEnter, LoadTaskImage, VirqInv, TypeOK
  <2> QED
    BY <1>0, <2>1, <2>2 DEF VirqInv
<1>7. CASE \/ \E t \in Tasks : SwitchTask(t)
           \/ \E v \in Vcpu, t \in Tasks : ExitTask(v, t)
  <2>1. pc' \in {[pc EXCEPT ![cur] = "leave"], [pc EXCEPT ![cur] = "yield"]}
    BY <1>7 DEF SwitchTask, ExitTask
  <2>2. is_asserted' = is_asserted /\ vi' = vi
    BY <1>7 DEF SwitchTask, ExitTask, virq
  <2> QED
    BY <1>0, <2>1, <2>2 DEF VirqInv, TypeOK
<1>8. CASE Acknowledge \/ EndVirq \/ Transmit \/ UNCHANGED vars
  BY <1>0, <1>8 DEF Acknowledge, EndVirq, Transmit, vars, sched, virq, VirqInv
<1> QED
  BY <1>2, <1>3, <1>4, <1>5, <1>6, <1>7, <1>8 DEF Next, Hypervisor, Driver

\* A step leaves guest code executing only if it is the return to the guest, or
\* the guest's own and of no effect on the queues and HCR_EL2.
LEMMA GuestSteps ==
  ASSUME ConsoleInv, [Next]_vars, pc'[cur'] = "guest"
  PROVE  \/ VmEnter
         \/ pc[cur] = "guest" /\ UNCHANGED <<cur, fwd, in, out, vi>>
<1>0. TypeOK /\ VirqInv /\ cur \in Tasks
  BY CurrentTask DEF ConsoleInv
<1>1. CASE \E c \in Keys : Serial(c)
  BY <1>0, <1>1 DEF Serial, CommandStarts, CommandKey, ConsoleSwitchTo, Forward,
                    ReceiveChar, TypeOK
<1>2. CASE Emulate \/ EndUartIrq \/ LoopGoesOn \/ LoadTaskImage
  BY <1>0, <1>2 DEF Emulate, ReadFR, ReadDR, WriteDR, Mmio, EndUartIrq, LoopGoesOn,
                    LoadTaskImage, TypeOK
<1>3. CASE TakeTick \/ TakeUartIrq \/ AccessUart
  BY <1>0, <1>3 DEF TakeTick, TakeUartIrq, AccessUart, VmLeave, TypeOK
<1>4. CASE \/ \E t \in Tasks : SwitchTask(t)
           \/ \E v \in Vcpu, t \in Tasks : ExitTask(v, t)
  <2>1. PICK t \in Tasks : /\ cur' = t
                           /\ pc' \in {[pc EXCEPT ![cur] = "leave"],
                                       [pc EXCEPT ![cur] = "yield"]}
    BY <1>4 DEF SwitchTask, ExitTask
  <2>2. pc'[t] # "guest"
    BY <1>0, <2>1 DEF VirqInv, TypeOK
  <2> QED
    BY <2>1, <2>2
<1>5. CASE Acknowledge \/ EndVirq \/ Transmit \/ UNCHANGED vars
  BY <1>5 DEF Acknowledge, EndVirq, Transmit, vars, sched, command, virq
<1> QED
  BY <1>1, <1>2, <1>3, <1>4, <1>5 DEF Next, Hypervisor, Driver

LEMMA VirqFollowsStep == ConsoleInv /\ [Next]_vars => VirqFollowsQueue'
<1> SUFFICES ASSUME ConsoleInv, [Next]_vars, pc'[cur'] = "guest"
             PROVE  vi' <=> in' # <<>>
  BY DEF VirqFollowsQueue
<1>0. TypeOK /\ VirqInv /\ VirqFollowsQueue
  BY DEF ConsoleInv
<1>1. CASE VmEnter
  <2>1. cur' = cur /\ in' = in /\ cur # 0 /\ cur \in Vcpu
    BY <1>0, <1>1, CurrentTask DEF VmEnter, TypeOK
  <2>2. irq_pending'[cur] = (in # <<>>)
    BY <1>0, <1>1, <2>1 DEF VmEnter, Pending, TypeOK
  <2>3. vi' = irq_pending'[cur]
    BY <1>0, <1>1, <2>1, <2>2 DEF VmEnter, SetCpuVirtualInterrupt, VirqInv, TypeOK
  <2> QED
    BY <2>1, <2>2, <2>3
<1>2. CASE pc[cur] = "guest" /\ UNCHANGED <<cur, fwd, in, out, vi>>
  BY <1>0, <1>2 DEF VirqFollowsQueue
<1> QED
  BY <1>1, <1>2, GuestSteps

LEMMA NothingHeldBackStep == ConsoleInv /\ [Next]_vars => NothingHeldBack'
<1> SUFFICES ASSUME ConsoleInv, [Next]_vars, pc'[cur'] = "guest", cur' = fwd'
             PROVE  out' = <<>>
  BY DEF NothingHeldBack
<1>0. TypeOK /\ NothingHeldBack
  BY DEF ConsoleInv
<1>1. CASE VmEnter
  BY <1>0, <1>1, FlushIfType DEF VmEnter, command
<1>2. CASE pc[cur] = "guest" /\ UNCHANGED <<cur, fwd, in, out, vi>>
  BY <1>0, <1>2 DEF NothingHeldBack
<1> QED
  BY <1>1, <1>2, GuestSteps

\* A character waiting keeps its interrupt: it is pushed with it, acknowledged by
\* a driver that looks, and the driver looks until there is none.
LEMMA WaitingStep == ConsoleInv /\ [Next]_vars => WaitingCharHasIrq'
<1> SUFFICES ASSUME ConsoleInv, [Next]_vars PROVE WaitingCharHasIrq'
  OBVIOUS
<1>0. TypeOK /\ VirqInv /\ WaitingCharHasIrq /\ cur \in Tasks
  BY CurrentTask DEF ConsoleInv
<1>1. CASE UNCHANGED <<in, lr, drv>>
  BY <1>0, <1>1 DEF WaitingCharHasIrq
<1>2. CASE \E c \in Keys : Serial(c)
  BY <1>0, <1>2 DEF Serial, CommandStarts, CommandKey, ConsoleSwitchTo, Forward,
                    ReceiveChar, WaitingCharHasIrq
<1>3. ASSUME NEW d \in {"poll_rx", "poll_tx"}, ReadFR(d) PROVE WaitingCharHasIrq'
  <2>1. cur \in Vcpu /\ drv[cur] = d /\ lr' = lr
    BY <1>0, <1>3, CurrentTask DEF ReadFR, Mmio, VirqInv
  <2>2. in' # <<>> => in # <<>> /\ RXFE' = FALSE
    BY <1>3 DEF ReadFR
  <2>3. \A v \in Vcpu \ {cur} : drv'[v] = drv[v]
    BY <1>0, <1>3 DEF ReadFR, TypeOK
  <2>4. d = "poll_rx" /\ in' # <<>> => drv'[cur] = "read"
    BY <1>0, <1>3, <2>1, <2>2 DEF ReadFR, AfterFlags, TypeOK
  <2> QED
    BY <1>0, <2>1, <2>2, <2>3, <2>4 DEF WaitingCharHasIrq
<1>4. CASE ReadDR \/ WriteDR
  <2>1. cur \in Vcpu
    BY <1>0, <1>4, CurrentTask DEF ReadDR, WriteDR, Mmio, VirqInv
  <2> QED
    BY <1>0, <1>4, <2>1 DEF ReadDR, WriteDR, Mmio, TypeOK, WaitingCharHasIrq
<1>5. CASE Acknowledge \/ EndVirq \/ Transmit
  <2>1. cur \in Vcpu
    BY <1>0, <1>5, CurrentTask DEF Acknowledge, EndVirq, Transmit, VirqInv
  <2> QED
    BY <1>0, <1>5, <2>1 DEF Acknowledge, EndVirq, Transmit, TypeOK, WaitingCharHasIrq
<1> QED
  BY <1>1, <1>2, <1>3, <1>4, <1>5
     DEF Next, Hypervisor, Driver, Emulate, VmEnter, LoadTaskImage, LoopGoesOn,
         EndUartIrq, TakeTick, TakeUartIrq, AccessUart, VmLeave, SwitchTask, ExitTask,
         vars

-----------------------------------------------------------------------------

LEMMA InitInv == Init => ConsoleInv
<1> SUFFICES ASSUME Init PROVE ConsoleInv
  OBVIOUS
<1>1. 1 \in Tasks /\ 0 \in Tasks /\ 0 \notin Vcpu
  BY ConsoleAssumption DEF Tasks, Vcpu
<1>2. in \in Seq(Keys) /\ out \in Seq(Vcpu) /\ Len(in) <= Capacity /\ Len(out) <= Capacity
  BY ConsoleAssumption, EmptySeq DEF Init
<1>3. TypeOK
  BY <1>1, <1>2 DEF Init, TypeOK, DrvStates
<1>4. VirqInv /\ VirqFollowsQueue /\ NothingHeldBack /\ WaitingCharHasIrq
  BY <1>1 DEF Init, VirqInv, VirqFollowsQueue, NothingHeldBack, WaitingCharHasIrq, Tasks
<1> QED
  BY <1>3, <1>4 DEF ConsoleInv

\* ConsoleInv holds in every state, whatever is typed, transmitted and scheduled.
THEOREM ConsoleSafety == Spec => []ConsoleInv
<1>1. ConsoleInv /\ [Next]_vars => ConsoleInv'
  BY TypeStep, VirqInvStep, VirqFollowsStep, NothingHeldBackStep, WaitingStep
     DEF ConsoleInv
<1> QED
  BY <1>1, InitInv, PTL DEF Spec

\* A guest executes with HCR_EL2.VI set exactly when there is something to read.
THEOREM VirqIsExact == Spec => []VirqFollowsQueue
<1>1. ConsoleInv => VirqFollowsQueue
  BY DEF ConsoleInv
<1> QED
  BY <1>1, ConsoleSafety, PTL

\* The guest that has the console has nothing waiting to be printed.
THEOREM OutputIsFlushed == Spec => []NothingHeldBack
<1>1. ConsoleInv => NothingHeldBack
  BY DEF ConsoleInv
<1> QED
  BY <1>1, ConsoleSafety, PTL

\* No character waits without an interrupt to announce it.
THEOREM NoLostWakeup == Spec => []WaitingCharHasIrq
<1>1. ConsoleInv => WaitingCharHasIrq
  BY DEF ConsoleInv
<1> QED
  BY <1>1, ConsoleSafety, PTL

-----------------------------------------------------------------------------
(* Input in order *)

\* The shipped configuration.  With two guests, or one that also transmits, a read of
\* the flags may fetch a character over one that was not read.
OneReader == NrVcpus = 1 /\ "tx" \notin Drivers

\* UARTDR holds a character exactly while the driver is about to read it.
Reader ==
  /\ got \in Seq(Keys) /\ accepted \in Seq(Keys)
  /\ drv[1] \in {"idle", "poll_rx", "read", "eoi"}
  /\ RXFE = FALSE <=> drv[1] = "read"
  /\ RXFE = FALSE => DR \in Keys

ReaderInv == ConsoleInv /\ Reader /\ InputInOrder

\* Taking the oldest element to the other side of the middle.
LEMMA TakeKeepsOrder ==
  ASSUME NEW s \in Seq(Keys), NEW q \in Seq(Keys), q # <<>>
  PROVE  (s \o <<Head(q)>>) \o Tail(q) = (s \o <<>>) \o q
<1>1. /\ Head(q) \in Keys /\ Tail(q) \in Seq(Keys) /\ Len(Tail(q)) = Len(q) - 1
      /\ \A i \in 1 .. Len(Tail(q)) : Tail(q)[i] = q[i + 1]
  BY HeadTailProperties
<1>2. <<Head(q)>> \in Seq(Keys) /\ Len(<<Head(q)>>) = 1 /\ <<Head(q)>>[1] = q[1]
  BY <1>1
<1>3. /\ <<Head(q)>> \o Tail(q) \in Seq(Keys)
      /\ Len(<<Head(q)>> \o Tail(q)) = Len(q)
      /\ \A i \in 1 .. Len(q) : (<<Head(q)>> \o Tail(q))[i] = q[i]
  BY <1>1, <1>2, ConcatProperties
<1>4. <<Head(q)>> \o Tail(q) = q
  BY <1>3, SeqEqual
<1> QED
  BY <1>1, <1>2, <1>4, ConcatAssociative, ConcatEmptySeq

LEMMA ReaderStep ==
  ASSUME OneReader, ReaderInv, [Next]_vars
  PROVE  Reader' /\ InputInOrder'
<1>0. /\ TypeOK /\ VirqInv /\ Reader /\ InputInOrder
      /\ cur # 0 => cur = 1
      /\ drv \in [Vcpu -> DrvStates] /\ 1 \in Vcpu /\ in \in Seq(Keys)
  BY CurrentTask DEF ReaderInv, ConsoleInv, OneReader, Vcpu, TypeOK
<1>1. CASE UNCHANGED <<in, got, accepted, RXFE, DR, drv>>
  BY <1>0, <1>1 DEF Reader, InputInOrder, Held
<1>2. ASSUME NEW c \in Keys, Forward(c), in' = Append(in, c), accepted' = Append(accepted, c)
      PROVE  Reader' /\ InputInOrder'
  <2>1. UNCHANGED <<got, RXFE, DR, drv>>
    BY <1>2 DEF Forward, ReceiveChar, uart
  <2>2. got \in Seq(Keys) /\ accepted \in Seq(Keys) /\ Held \in Seq(Keys) /\ Held' = Held
    BY <1>0, <2>1 DEF Reader, Held
  <2>3. accepted' \in Seq(Keys)
    BY <1>2, <2>2, AppendProperties
  <2>4. <<c>> \in Seq(Keys) /\ in' = in \o <<c>> /\ accepted' = accepted \o <<c>>
    BY <1>0, <1>2, <2>2, AppendIsConcat
  <2>5. got \o Held \in Seq(Keys)
    BY <2>2, ConcatProperties
  <2>6. (got \o Held) \o (in \o <<c>>) = ((got \o Held) \o in) \o <<c>>
    BY <1>0, <2>4, <2>5, ConcatAssociative
  <2> QED
    BY <1>0, <2>1, <2>2, <2>3, <2>4, <2>6 DEF Reader, InputInOrder
<1>3. CASE \E c \in Keys : Serial(c)
  BY <1>1, <1>2, <1>3 DEF Serial, CommandStarts, CommandKey, ConsoleSwitchTo, Forward,
                          ReceiveChar, uart
<1>4. ASSUME NEW d \in {"poll_rx", "poll_tx"}, ReadFR(d) PROVE Reader' /\ InputInOrder'
  <2>1. cur = 1 /\ drv[1] = d
    BY <1>0, <1>4 DEF ReadFR, Mmio, VirqInv
  <2>2. d = "poll_rx" /\ RXFE # FALSE /\ UNCHANGED <<got, accepted>>
    BY <1>0, <1>4, <2>1 DEF ReadFR, Mmio, Reader
  <2>3. drv'[1] = IF RXFE' THEN "eoi" ELSE "read"
    BY <1>0, <1>4, <2>1, <2>2 DEF ReadFR, AfterFlags
  <2>4. RXFE = TRUE /\ Held = <<>>
    BY <1>0, <2>2 DEF TypeOK, Held
  <2>5. CASE in = <<>>
    <3>1. UNCHANGED <<in, DR, RXFE>>
      BY <1>4, <2>5 DEF ReadFR
    <3> QED
      BY <1>0, <2>2, <2>3, <2>4, <3>1 DEF Reader, InputInOrder, Held
  <2>6. CASE in # <<>>
    <3>1. in' = Tail(in) /\ DR' = Head(in) /\ RXFE' = FALSE
      BY <1>4, <2>6 DEF ReadFR
    <3>2. Head(in) \in Keys
      BY <1>0, <2>6, HeadTailProperties
    <3>3. Held' = <<Head(in)>>
      BY <3>1 DEF Held
    <3>4. (got \o <<Head(in)>>) \o Tail(in) = (got \o <<>>) \o in
      BY <1>0, <2>6, TakeKeepsOrder DEF Reader
    <3> QED
      BY <1>0, <2>2, <2>3, <2>4, <3>1, <3>2, <3>3, <3>4 DEF Reader, InputInOrder
  <2> QED
    BY <2>5, <2>6
<1>5. CASE ReadDR
  <2>1. cur = 1 /\ drv[1] = "read"
    BY <1>0, <1>5 DEF ReadDR, Mmio, VirqInv
  <2>2. RXFE = FALSE /\ DR \in Keys /\ Held = <<DR>>
    BY <1>0, <2>1 DEF Reader, Held
  <2>3. /\ got' = Append(got, DR) /\ RXFE' = TRUE /\ Held' = <<>>
        /\ drv'[1] = "poll_rx" /\ UNCHANGED <<in, accepted>>
    BY <1>0, <1>5, <2>1 DEF ReadDR, Mmio, Held
  <2>4. got \in Seq(Keys) /\ got' \in Seq(Keys) /\ got' = got \o <<DR>>
    BY <1>0, <2>2, <2>3, AppendProperties, AppendIsConcat DEF Reader
  <2>5. got' \o <<>> = got \o <<DR>>
    BY <2>4, ConcatEmptySeq
  <2> QED
    BY <1>0, <2>2, <2>3, <2>4, <2>5 DEF Reader, InputInOrder
<1>6. ~WriteDR /\ ~Transmit
  BY <1>0 DEF WriteDR, Mmio, VirqInv, Reader, Transmit, OneReader
<1>7. CASE Acknowledge \/ EndVirq
  <2>1. cur = 1 /\ UNCHANGED <<in, got, accepted, RXFE, DR>>
    BY <1>0, <1>7 DEF Acknowledge, EndVirq, VirqInv, uart, history
  <2>2. drv[1] \in {"idle", "eoi"} /\ drv'[1] \in {"idle", "poll_rx"}
    BY <1>0, <1>7, <2>1 DEF Acknowledge, EndVirq
  <2> QED
    BY <1>0, <2>1, <2>2 DEF Reader, InputInOrder, Held
<1> QED
  BY <1>1, <1>3, <1>4, <1>5, <1>6, <1>7
     DEF Next, Hypervisor, Driver, Emulate, VmEnter, LoadTaskImage, LoopGoesOn,
         EndUartIrq, TakeTick, TakeUartIrq, AccessUart, VmLeave, SwitchTask, ExitTask,
         vars, uart, history

\* With one guest that only receives, every character accepted reaches it once and in
\* order, for every size of the queue and wherever its driver is interrupted.
THEOREM OneReaderReadsInOrder == OneReader => (Spec => []InputInOrder)
<1> SUFFICES ASSUME OneReader PROVE Spec => []InputInOrder
  OBVIOUS
<1>1. Init => ReaderInv
  <2> SUFFICES ASSUME Init PROVE Reader /\ InputInOrder
    BY InitInv DEF ReaderInv
  <2>1. 1 \in Vcpu /\ <<>> \in Seq(Keys)
    BY ConsoleAssumption DEF Vcpu
  <2> QED
    BY <2>1 DEF Init, Reader, InputInOrder, Held
<1>2. ReaderInv /\ [Next]_vars => ReaderInv'
  BY ReaderStep, TypeStep, VirqInvStep, VirqFollowsStep, NothingHeldBackStep, WaitingStep
     DEF ReaderInv, ConsoleInv
<1>3. ReaderInv => InputInOrder
  BY DEF ReaderInv
<1> QED
  BY <1>1, <1>2, <1>3, PTL DEF Spec

-----------------------------------------------------------------------------
(* Commands are stripped *)

\* The task that has the console runs, whatever is typed: no vCPU ends, and the
\* console is not given to the init task.
ConsoleRuns == Exiting = {} /\ "0" \notin Keys

\* Every set of natural numbers has a least element, if it has one.
LEMMA LeastNat ==
  ASSUME NEW T, T \subseteq Nat, T # {}
  PROVE  \E x \in T : \A y \in T : x <= y
<1>1. PICK x \in T : \A y \in T : ~ (<<y, x>> \in OpToRel(<, Nat))
  BY WFMin, NatLessThanWellFounded
<1>2. \A y \in T : ~(y < x)
  BY <1>1 DEF OpToRel
<1> QED
  BY <1>2

\* What ends a command is the first key that may.
LEMMA EndIs ==
  ASSUME NEW s \in Seq(Keys), NEW i \in Nat, NEW j \in Ends(s, i),
         \A k \in Ends(s, i) : j <= k
  PROVE  End(s, i) = j
<1>1. End(s, i) \in Ends(s, i) /\ \A k \in Ends(s, i) : End(s, i) <= k
  BY DEF End
<1>2. End(s, i) <= j /\ j <= End(s, i)
  BY <1>1
<1>3. Ends(s, i) \subseteq Int
  BY DEF Ends
<1> QED
  BY <1>1, <1>2, <1>3

\* What follows a command is behind its "?", and at most two places behind the end.
LEMMA AfterIsBehind ==
  ASSUME NEW s \in Seq(Keys), NEW i \in 1 .. Len(s)
  PROVE  After(s, i) \in i + 1 .. Len(s) + 2
<1>1. Len(s) \in Nat
  OBVIOUS
<1>2. CASE Ends(s, i) = {}
  BY <1>1, <1>2 DEF After
<1>3. CASE Ends(s, i) # {}
  <2>1. Ends(s, i) \subseteq Nat
    BY <1>1 DEF Ends
  <2>2. PICK j \in Ends(s, i) : \A k \in Ends(s, i) : j <= k
    BY <1>3, <2>1, LeastNat
  <2>3. End(s, i) = j
    BY <2>2, EndIs
  <2>4. j \in i + 1 .. Len(s)
    BY DEF Ends
  <2>5. After(s, i) \in {j + 1, j + 2}
    BY <1>3, <2>3 DEF After
  <2> QED
    BY <1>1, <2>4, <2>5
<1> QED
  BY <1>2, <1>3

\* One turn of Stripped's recursion, with f for what is left from later places.
Turn(s, f, i) ==
  IF i > Len(s) THEN <<>>
  ELSE IF s[i] = Start THEN f[After(s, i)] ELSE <<s[i]>> \o f[i + 1]

\* It asks later places only.
LEMMA TurnLooksAhead ==
  ASSUME NEW s \in Seq(Keys), NEW i \in 1 .. Len(s) + 2, NEW f, NEW g,
         \A j \in i + 1 .. Len(s) + 2 : f[j] = g[j]
  PROVE  Turn(s, f, i) = Turn(s, g, i)
<1>1. Len(s) \in Nat
  OBVIOUS
<1>2. CASE i > Len(s)
  BY <1>2 DEF Turn
<1>3. CASE i \in 1 .. Len(s)
  <2>1. After(s, i) \in i + 1 .. Len(s) + 2 /\ i + 1 \in i + 1 .. Len(s) + 2
    BY <1>1, <1>3, AfterIsBehind
  <2>2. f[After(s, i)] = g[After(s, i)] /\ f[i + 1] = g[i + 1]
    BY <2>1
  <2> QED
    BY <2>2 DEF Turn
<1> QED
  BY <1>1, <1>2, <1>3

\* So there is a function that does it at every place, built from the last place on,
\* and Stripped is one.
LEMMA StrippedIs ==
  ASSUME NEW s \in Seq(Keys), NEW i \in 1 .. Len(s) + 2
  PROVE  Stripped(s)[i] = Turn(s, Stripped(s), i)
<1> DEFINE N == Len(s) + 2
           Solves(f, k) == f = [j \in k .. N |-> Turn(s, f, j)]
           Without == {n \in Nat : n <= N /\ ~ \E f : Solves(f, N + 1 - n)}
<1>1. N \in Nat
  OBVIOUS
<1>2. Without = {}
  <2> SUFFICES ASSUME Without # {} PROVE FALSE
    OBVIOUS
  <2>1. PICK n \in Without : \A m \in Without : n <= m
    <3>1. Without \subseteq Nat
      OBVIOUS
    <3> HIDE DEF Without
    <3> QED
      BY <3>1, LeastNat
  <2>2. n \in Nat /\ n <= N /\ ~ \E f : Solves(f, N + 1 - n)
    BY <2>1
  <2>3. CASE n = 0
    <3>1. N + 1 - n .. N = {}
      BY <1>1, <2>3
    <3> DEFINE f == [j \in N + 1 - n .. N |-> <<>>]
    <3>2. f = [j \in N + 1 - n .. N |-> Turn(s, f, j)]
      BY <3>1
    <3> HIDE DEF f
    <3> QED
      BY <2>2, <3>2
  <2>4. CASE n # 0
    <3> DEFINE k == N + 1 - n
    <3>1. n - 1 \in Nat /\ n - 1 <= N /\ N + 1 - (n - 1) = k + 1 /\ k \in 1 .. N
      BY <1>1, <2>2, <2>4
    <3>2. n - 1 \notin Without
      <4> HIDE DEF Without
      <4>1. n - 1 \in Without => n <= n - 1
        BY <2>1
      <4> QED
        BY <2>2, <4>1
    <3>3. PICK f : f = [j \in k + 1 .. N |-> Turn(s, f, j)]
      BY <3>1, <3>2
    <3> DEFINE g == [j \in k .. N |-> IF j = k THEN Turn(s, f, k) ELSE f[j]]
    <3>4. \A j \in k + 1 .. N : g[j] = f[j]
      BY <1>1, <3>1
    <3>5. ASSUME NEW j \in k .. N PROVE g[j] = Turn(s, g, j)
      <4>1. j \in 1 .. Len(s) + 2 /\ \A m \in j + 1 .. Len(s) + 2 : m \in k + 1 .. N
        BY <1>1, <3>1
      <4>2. \A m \in j + 1 .. Len(s) + 2 : g[m] = f[m]
        BY <3>4, <4>1
      <4> HIDE DEF g
      <4>3. Turn(s, g, j) = Turn(s, f, j)
        BY <4>1, <4>2, TurnLooksAhead
      <4>4. g[j] = Turn(s, f, j)
        <5>1. CASE j = k
          BY <5>1 DEF g
        <5>2. CASE j # k
          <6>1. j \in k + 1 .. N
            BY <1>1, <3>1, <5>2
          <6>2. f[j] = Turn(s, f, j)
            BY <3>3, <6>1
          <6> QED
            BY <3>4, <6>1, <6>2
        <5> QED
          BY <5>1, <5>2
      <4> QED
        BY <4>3, <4>4
    <3>6. g = [j \in k .. N |-> Turn(s, g, j)]
      BY <3>5
    <3> HIDE DEF g
    <3> QED
      BY <2>2, <3>6
  <2> QED
    BY <2>3, <2>4
<1>3. PICK f : f = [j \in 1 .. N |-> Turn(s, f, j)]
  <2>1. N \notin Without /\ N + 1 - N = 1
    BY <1>1, <1>2
  <2> QED
    BY <1>1, <2>1
<1>4. Stripped(s) = CHOOSE r : r = [j \in 1 .. N |-> Turn(s, r, j)]
  BY DEF Stripped, Turn
<1>5. Stripped(s) = [j \in 1 .. N |-> Turn(s, Stripped(s), j)]
  BY <1>3, <1>4
<1> QED
  BY <1>5

\* What is left is characters that were typed.
LEMMA StrippedType ==
  ASSUME NEW s \in Seq(Keys), NEW i \in 1 .. Len(s) + 2
  PROVE  Stripped(s)[i] \in Seq(Keys)
<1> DEFINE N == Len(s) + 2
           Other == {n \in Nat : n < N /\ Stripped(s)[N - n] \notin Seq(Keys)}
<1>1. N \in Nat
  OBVIOUS
<1>2. Other = {}
  <2> SUFFICES ASSUME Other # {} PROVE FALSE
    OBVIOUS
  <2>1. PICK n \in Other : \A m \in Other : n <= m
    <3>1. Other \subseteq Nat
      OBVIOUS
    <3> HIDE DEF Other
    <3> QED
      BY <3>1, LeastNat
  <2>2. n \in Nat /\ n < N /\ Stripped(s)[N - n] \notin Seq(Keys)
    BY <2>1
  <2> DEFINE k == N - n
  <2>3. ASSUME NEW j \in k + 1 .. N PROVE Stripped(s)[j] \in Seq(Keys)
    <3>1. N - j \in Nat /\ N - j < n /\ N - j < N /\ N - (N - j) = j
      BY <1>1, <2>2
    <3>2. N - j \notin Other
      <4> HIDE DEF Other
      <4>1. N - j \in Other => n <= N - j
        BY <2>1
      <4> QED
        BY <1>1, <2>2, <3>1, <4>1
    <3> QED
      BY <3>1, <3>2
  <2>4. k \in 1 .. N /\ Stripped(s)[k] = Turn(s, Stripped(s), k)
    BY <1>1, <2>2, StrippedIs
  <2> HIDE DEF k
  <2>5. CASE k > Len(s)
    BY <2>2, <2>4, <2>5 DEF Turn, k
  <2>6. CASE k \in 1 .. Len(s)
    <3>1. After(s, k) \in k + 1 .. N /\ k + 1 \in k + 1 .. N
      BY <2>6, AfterIsBehind
    <3>2. Stripped(s)[After(s, k)] \in Seq(Keys) /\ Stripped(s)[k + 1] \in Seq(Keys)
      BY <2>3, <3>1
    <3>3. s[k] \in Keys
      BY <2>6
    <3>4. <<s[k]>> \o Stripped(s)[k + 1] \in Seq(Keys)
      BY <3>2, <3>3, ConcatProperties
    <3> QED
      BY <2>2, <2>4, <2>6, <3>2, <3>4 DEF Turn, k
  <2> QED
    BY <1>1, <2>4, <2>5, <2>6
<1>3. N - i \in Nat /\ N - i < N /\ N - (N - i) = i
  BY <1>1
<1> QED
  BY <1>2, <1>3

\* s read as far as its last character: o is what precedes b, stripped; at b a command
\* has begun, its PID is wanted, or s is at its end.
Reads(s, o, b) ==
  /\ o \in Seq(Keys) /\ b \in 1 .. Len(s) + 1
  /\ \A t \in Seq(Keys) : Stripped(s \o t)[1] = o \o Stripped(s \o t)[b]

Begun(s, b) ==
  b \in 1 .. Len(s) /\ s[b] = Start /\ \A j \in b + 1 .. Len(s) : s[j] \notin {SwitchTo, ListTasks}

PidWanted(s, b) ==
  /\ b \in 1 .. Len(s) - 1 /\ s[b] = Start /\ s[Len(s)] = SwitchTo
  /\ \A j \in b + 1 .. Len(s) - 1 : s[j] \notin {SwitchTo, ListTasks}

Place(s, b, command_comming, pid_wanted) ==
  IF ~command_comming THEN b = Len(s) + 1
  ELSE IF pid_wanted THEN PidWanted(s, b) ELSE Begun(s, b)

\* Inductive, beside ConsoleInv: the handler's two variables say where in a command the
\* input is.
Parsed ==
  /\ typed \in Seq(Keys) /\ accepted \in Seq(Keys) /\ Len(in) <= Len(accepted)
  /\ fwd # 0 /\ \A t \in Tasks : state[t] = "RUNNING"
  /\ switch_req => comming
  /\ \E o, b : /\ Reads(typed, o, b) /\ Place(typed, b, comming, switch_req)
               /\ Len(o) <= Capacity => accepted = o

\* One more character, and what may come after it.
LEMMA OneMore ==
  ASSUME NEW s \in Seq(Keys), NEW c \in Keys
  PROVE  /\ Append(s, c) \in Seq(Keys) /\ Len(Append(s, c)) = Len(s) + 1
         /\ Append(s, c)[Len(s) + 1] = c
         /\ \A i \in 1 .. Len(s) : Append(s, c)[i] = s[i]
         /\ \A t \in Seq(Keys) : /\ <<c>> \o t \in Seq(Keys)
                                 /\ Append(s, c) \o t = s \o (<<c>> \o t)
<1>1. /\ Append(s, c) \in Seq(Keys) /\ Len(Append(s, c)) = Len(s) + 1
      /\ Append(s, c)[Len(s) + 1] = c
      /\ \A i \in 1 .. Len(s) : Append(s, c)[i] = s[i]
  BY AppendProperties
<1>2. Append(s, c) = s \o <<c>> /\ <<c>> \in Seq(Keys)
  BY AppendIsConcat
<1>3. ASSUME NEW t \in Seq(Keys)
      PROVE  <<c>> \o t \in Seq(Keys) /\ Append(s, c) \o t = s \o (<<c>> \o t)
  BY <1>2, ConcatProperties, ConcatAssociative
<1> QED
  BY <1>1, <1>3

\* Concatenation is associative.
LEMMA Regrouped == \A x, y, z \in Seq(Keys) : (x \o y) \o z = x \o (y \o z)
<1> TAKE x, y, z \in Seq(Keys)
<1> QED
  BY ConcatAssociative

\* What is typed keeps its place when more comes.
LEMMA Prefix ==
  ASSUME NEW s \in Seq(Keys), NEW t \in Seq(Keys)
  PROVE  /\ s \o t \in Seq(Keys) /\ Len(s \o t) = Len(s) + Len(t)
         /\ Len(s) \in Nat /\ Len(t) \in Nat
         /\ \A i \in 1 .. Len(s) : (s \o t)[i] = s[i]
BY ConcatProperties

\* Reading goes on from b, whatever comes next.
LEMMA ReadsOn ==
  ASSUME NEW s \in Seq(Keys), NEW c \in Keys, NEW o, NEW b, Reads(s, o, b)
  PROVE  Reads(Append(s, c), o, b)
<1>1. /\ Len(Append(s, c)) = Len(s) + 1 /\ Len(s) \in Nat
      /\ \A t \in Seq(Keys) : /\ <<c>> \o t \in Seq(Keys)
                              /\ Append(s, c) \o t = s \o (<<c>> \o t)
  BY OneMore
<1>2. o \in Seq(Keys) /\ b \in 1 .. Len(Append(s, c)) + 1
  BY <1>1 DEF Reads
<1>3. ASSUME NEW t \in Seq(Keys)
      PROVE  Stripped(Append(s, c) \o t)[1] = o \o Stripped(Append(s, c) \o t)[b]
  <2>1. <<c>> \o t \in Seq(Keys) /\ Append(s, c) \o t = s \o (<<c>> \o t)
    BY <1>1
  <2>2. \A r \in Seq(Keys) : Stripped(s \o r)[1] = o \o Stripped(s \o r)[b]
    BY DEF Reads
  <2>3. Stripped(s \o (<<c>> \o t))[1] = o \o Stripped(s \o (<<c>> \o t))[b]
    BY <2>1, <2>2
  <2> QED
    BY <2>1, <2>3
<1> QED
  BY <1>2, <1>3 DEF Reads

\* A character that is no command's is left.
LEMMA ReadsPlain ==
  ASSUME NEW s \in Seq(Keys), NEW c \in Keys, c # Start, NEW o, Reads(s, o, Len(s) + 1)
  PROVE  Reads(Append(s, c), Append(o, c), Len(s) + 2)
<1> DEFINE u == Append(s, c)
<1>1. /\ u \in Seq(Keys) /\ Len(u) = Len(s) + 1 /\ Len(s) \in Nat /\ u[Len(s) + 1] = c
  BY OneMore
<1>2. Reads(u, o, Len(s) + 1)
  BY ReadsOn
<1> HIDE DEF u
<1>3. o \in Seq(Keys) /\ Append(o, c) \in Seq(Keys) /\ Append(o, c) = o \o <<c>>
  BY <1>2, AppendProperties, AppendIsConcat DEF Reads
<1>4. ASSUME NEW t \in Seq(Keys)
      PROVE  Stripped(u \o t)[1] = Append(o, c) \o Stripped(u \o t)[Len(s) + 2]
  <2> DEFINE v == u \o t
  <2>1. v \in Seq(Keys) /\ Len(v) = Len(u) + Len(t) /\ v[Len(s) + 1] = c /\ Len(t) \in Nat
    <3>1. /\ v \in Seq(Keys) /\ Len(v) = Len(u) + Len(t) /\ Len(t) \in Nat
          /\ \A i \in 1 .. Len(u) : v[i] = u[i]
      BY <1>1, Prefix
    <3> HIDE DEF v
    <3> QED
      BY <1>1, <3>1
  <2>2. Stripped(v)[1] = o \o Stripped(v)[Len(s) + 1]
    BY <1>2 DEF Reads
  <2> HIDE DEF v
  <2>3. /\ Stripped(v)[Len(s) + 1] = Turn(v, Stripped(v), Len(s) + 1)
        /\ Len(s) + 1 \in 1 .. Len(v)
    BY <1>1, <2>1, StrippedIs
  <2>4. Stripped(v)[Len(s) + 1] = <<c>> \o Stripped(v)[Len(s) + 2]
    BY <1>1, <2>1, <2>3 DEF Turn
  <2>5. Stripped(v)[Len(s) + 2] \in Seq(Keys)
    BY <1>1, <2>1, StrippedType
  <2>6. o \o (<<c>> \o Stripped(v)[Len(s) + 2]) = (o \o <<c>>) \o Stripped(v)[Len(s) + 2]
    <3> DEFINE first == <<c>>
               rest == Stripped(v)[Len(s) + 2]
    <3>1. first \in Seq(Keys) /\ rest \in Seq(Keys) /\ o \in Seq(Keys)
      BY <1>3, <2>5
    <3> HIDE DEF first, rest
    <3>2. (o \o first) \o rest = o \o (first \o rest)
      BY <3>1, Regrouped
    <3> QED
      BY <3>2 DEF first, rest
  <2> QED
    BY <1>3, <2>2, <2>4, <2>6 DEF v
<1>5. Len(s) + 2 \in 1 .. Len(u) + 1
  BY <1>1
<1> QED
  BY <1>3, <1>4, <1>5 DEF Reads, u

\* The end of a command, with c, is where its first key or the PID behind it is.
LEMMA ReadsCommand ==
  ASSUME NEW s \in Seq(Keys), NEW c \in Keys, NEW o, NEW b, Reads(s, o, b),
         \/ Begun(s, b) /\ c = ListTasks
         \/ PidWanted(s, b)
  PROVE  Reads(Append(s, c), o, Len(s) + 2)
<1> DEFINE u == Append(s, c)
<1>1. /\ u \in Seq(Keys) /\ Len(u) = Len(s) + 1 /\ Len(s) \in Nat /\ u[Len(s) + 1] = c
      /\ \A i \in 1 .. Len(s) : u[i] = s[i]
  BY OneMore
<1>2. Reads(u, o, b)
  BY ReadsOn
<1> HIDE DEF u
<1>3. b \in 1 .. Len(s) /\ s[b] = Start
  BY <1>1 DEF Begun, PidWanted
<1>4. ASSUME NEW t \in Seq(Keys)
      PROVE  Stripped(u \o t)[1] = o \o Stripped(u \o t)[Len(s) + 2]
  <2> DEFINE v == u \o t
  <2>1. /\ v \in Seq(Keys) /\ Len(v) = Len(u) + Len(t) /\ Len(t) \in Nat
        /\ \A i \in 1 .. Len(u) : v[i] = u[i]
    BY <1>1, Prefix
  <2>2. Stripped(v)[1] = o \o Stripped(v)[b]
    BY <1>2 DEF Reads
  <2> HIDE DEF v
  <2>3. v[Len(s) + 1] = c /\ \A i \in 1 .. Len(s) : v[i] = s[i]
    BY <1>1, <2>1
  <2>4. After(v, b) = Len(s) + 2
    <3>1. CASE Begun(s, b) /\ c = ListTasks
      <4>1. Len(s) + 1 \in Ends(v, b)
        BY <1>1, <1>3, <2>1, <2>3, <3>1 DEF Ends
      <4>2. \A k \in Ends(v, b) : Len(s) + 1 <= k
        <5> SUFFICES ASSUME NEW k \in Ends(v, b), ~(Len(s) + 1 <= k) PROVE FALSE
          OBVIOUS
        <5>1. k \in b + 1 .. Len(s) /\ v[k] \in {SwitchTo, ListTasks}
          BY <1>1, <1>3, <2>1 DEF Ends
        <5>2. v[k] = s[k]
          BY <1>1, <1>3, <2>3, <5>1
        <5> QED
          BY <3>1, <5>1, <5>2 DEF Begun
      <4>3. End(v, b) = Len(s) + 1
        BY <1>3, <2>1, <4>1, <4>2, EndIs
      <4> QED
        BY <1>1, <2>3, <3>1, <4>1, <4>3 DEF After, SwitchTo, ListTasks
    <3>2. CASE PidWanted(s, b)
      <4>1. Len(s) \in Ends(v, b) /\ v[Len(s)] = SwitchTo
        BY <1>1, <1>3, <2>1, <2>3, <3>2 DEF Ends, PidWanted
      <4>2. \A k \in Ends(v, b) : Len(s) <= k
        <5> SUFFICES ASSUME NEW k \in Ends(v, b), ~(Len(s) <= k) PROVE FALSE
          OBVIOUS
        <5>1. k \in b + 1 .. Len(s) - 1 /\ v[k] \in {SwitchTo, ListTasks}
          BY <1>1, <1>3, <2>1 DEF Ends
        <5>2. v[k] = s[k]
          BY <1>1, <1>3, <2>3, <5>1
        <5> QED
          BY <3>2, <5>1, <5>2 DEF PidWanted
      <4>3. End(v, b) = Len(s)
        BY <1>3, <2>1, <4>1, <4>2, EndIs
      <4> QED
        BY <4>1, <4>3 DEF After
    <3> QED
      BY <3>1, <3>2
  <2>5. b \in 1 .. Len(v) /\ Stripped(v)[b] = Turn(v, Stripped(v), b)
    BY <1>1, <1>3, <2>1, StrippedIs
  <2>6. Stripped(v)[b] = Stripped(v)[Len(s) + 2]
    BY <1>3, <2>1, <2>3, <2>4, <2>5 DEF Turn
  <2> QED
    BY <2>2, <2>6 DEF v
<1>5. Len(s) + 2 \in 1 .. Len(u) + 1 /\ o \in Seq(Keys)
  BY <1>1, <1>2 DEF Reads
<1> QED
  BY <1>4, <1>5 DEF Reads, u

\* At the end of what was typed nothing is left, nor of a command not finished.
LEMMA ParsedIsStripped == TypeOK /\ Parsed => CommandsAreStripped
<1> SUFFICES ASSUME TypeOK, Parsed PROVE CommandsAreStripped
  OBVIOUS
<1>1. PICK o, b : /\ Reads(typed, o, b) /\ Place(typed, b, comming, switch_req)
                  /\ Len(o) <= Capacity => accepted = o
  BY DEF Parsed
<1>2. typed \in Seq(Keys) /\ Len(typed) \in Nat /\ b \in 1 .. Len(typed) + 1 /\ o \in Seq(Keys)
  BY <1>1 DEF Parsed, Reads
<1>3. Stripped(typed)[b] = <<>>
  <2>1. /\ b \in 1 .. Len(typed) + 2
        /\ Stripped(typed)[b] = Turn(typed, Stripped(typed), b)
    BY <1>2, StrippedIs
  <2>2. CASE ~comming
    BY <1>1, <1>2, <2>1, <2>2 DEF Place, Turn
  <2>3. \A n \in {Len(typed) + 1, Len(typed) + 2} : Stripped(typed)[n] = <<>>
    <3>1. ASSUME NEW n \in {Len(typed) + 1, Len(typed) + 2} PROVE Stripped(typed)[n] = <<>>
      <4>1. n \in 1 .. Len(typed) + 2 /\ n > Len(typed)
        BY <1>2
      <4>2. Stripped(typed)[n] = Turn(typed, Stripped(typed), n)
        BY <1>2, <4>1, StrippedIs
      <4> QED
        BY <4>1, <4>2 DEF Turn
    <3> QED
      BY <3>1
  <2>4. CASE comming /\ ~switch_req
    <3>1. Begun(typed, b)
      BY <1>1, <2>4 DEF Place
    <3>2. Ends(typed, b) = {}
      BY <1>2, <3>1 DEF Begun, Ends
    <3>3. Stripped(typed)[b] = Stripped(typed)[Len(typed) + 1]
      BY <1>2, <2>1, <3>1, <3>2 DEF Begun, Turn, After
    <3> QED
      BY <2>3, <3>3
  <2>5. CASE comming /\ switch_req
    <3>1. PidWanted(typed, b)
      BY <1>1, <2>5 DEF Place
    <3>2. Len(typed) \in Ends(typed, b) /\ typed[Len(typed)] = SwitchTo
      BY <1>2, <3>1 DEF PidWanted, Ends
    <3>3. \A k \in Ends(typed, b) : Len(typed) <= k
      <4> SUFFICES ASSUME NEW k \in Ends(typed, b), ~(Len(typed) <= k) PROVE FALSE
        OBVIOUS
      <4>1. k \in b + 1 .. Len(typed) - 1 /\ typed[k] \in {SwitchTo, ListTasks}
        BY <1>2 DEF Ends
      <4> QED
        BY <3>1, <4>1 DEF PidWanted
    <3>4. End(typed, b) = Len(typed)
      BY <1>2, <3>2, <3>3, EndIs
    <3>5. After(typed, b) = Len(typed) + 2
      BY <3>2, <3>4 DEF After
    <3>6. Stripped(typed)[b] = Stripped(typed)[Len(typed) + 2]
      BY <1>2, <2>1, <3>1, <3>5 DEF PidWanted, Turn
    <3> QED
      BY <2>3, <3>6
  <2> QED
    BY <2>2, <2>4, <2>5
<1>4. Payload(typed) = o
  <2>1. <<>> \in Seq(Keys) /\ typed \o <<>> = typed /\ o \o <<>> = o
    BY <1>2, ConcatEmptySeq
  <2>2. Stripped(typed \o <<>>)[1] = o \o Stripped(typed \o <<>>)[b]
    BY <1>1, <2>1 DEF Reads
  <2> QED
    BY <1>3, <2>1, <2>2 DEF Payload
<1> QED
  BY <1>1, <1>4 DEF CommandsAreStripped

\* What a character does to where the input is, and to the queue.
LEMMA SerialParses ==
  ASSUME ConsoleRuns, TypeOK, Parsed, NEW c \in Keys, Serial(c)
  PROVE  Parsed'
<1>1. /\ typed' = Append(typed, c) /\ UNCHANGED state
      /\ typed \in Seq(Keys) /\ accepted \in Seq(Keys) /\ in \in Seq(Keys)
      /\ Len(in) <= Len(accepted) /\ (switch_req => comming)
      /\ fwd # 0 /\ fwd \in Tasks /\ \A t \in Tasks : state[t] = "RUNNING"
  BY DEF Parsed, TypeOK, Serial, CommandStarts, CommandKey, ConsoleSwitchTo, Forward, ReceiveChar
<1>2. PICK o, b : /\ Reads(typed, o, b) /\ Place(typed, b, comming, switch_req)
                  /\ Len(o) <= Capacity => accepted = o
  BY DEF Parsed
<1>3. /\ typed' \in Seq(Keys) /\ Len(typed') = Len(typed) + 1 /\ typed'[Len(typed) + 1] = c
      /\ Len(typed) \in Nat
      /\ \A i \in 1 .. Len(typed) : typed'[i] = typed[i]
  BY <1>1, OneMore
<1>4. o \in Seq(Keys) /\ b \in 1 .. Len(typed) + 1 /\ Reads(typed', o, b)
  <2>1. o \in Seq(Keys) /\ b \in 1 .. Len(typed) + 1
    BY <1>2 DEF Reads
  <2>2. Reads(Append(typed, c), o, b)
    BY <1>1, <1>2, ReadsOn
  <2> QED
    BY <1>1, <2>1, <2>2
<1>5. CASE CommandStarts(c)
  <2>1. ~comming /\ comming' /\ c = Start /\ UNCHANGED <<fwd, switch_req, in, accepted>>
    BY <1>5 DEF CommandStarts
  <2>2. b = Len(typed) + 1 /\ ~switch_req'
    BY <1>1, <1>2, <2>1 DEF Place
  <2>3. Begun(typed', b)
    BY <1>3, <2>1, <2>2 DEF Begun
  <2>4. Place(typed', b, comming', switch_req')
    BY <2>1, <2>2, <2>3 DEF Place
  <2> QED
    BY <1>1, <1>2, <1>3, <1>4, <2>1, <2>2, <2>4 DEF Parsed
<1>6. CASE CommandKey(c)
  <2>1. /\ comming /\ ~switch_req /\ switch_req' = (c = SwitchTo) /\ comming' = (c # ListTasks)
        /\ UNCHANGED <<fwd, in, accepted>>
    BY <1>6 DEF CommandKey
  <2>2. Begun(typed, b)
    BY <1>2, <2>1 DEF Place
  <2>3. CASE c = ListTasks
    <3>1. Reads(typed', o, Len(typed) + 2)
      BY <1>1, <1>2, <2>2, <2>3, ReadsCommand
    <3>2. ~comming' /\ ~switch_req'
      BY <2>1, <2>3 DEF ListTasks, SwitchTo
    <3>3. Place(typed', Len(typed) + 2, comming', switch_req')
      BY <1>3, <3>2 DEF Place
    <3> QED
      BY <1>1, <1>2, <1>3, <2>1, <3>1, <3>2, <3>3 DEF Parsed
  <2>4. CASE c = SwitchTo
    <3>1. comming' /\ switch_req'
      BY <2>1, <2>4 DEF ListTasks, SwitchTo
    <3>2. PidWanted(typed', b)
      BY <1>3, <2>2, <2>4 DEF Begun, PidWanted
    <3>3. Place(typed', b, comming', switch_req')
      BY <3>1, <3>2 DEF Place
    <3> QED
      BY <1>1, <1>2, <1>3, <1>4, <2>1, <3>1, <3>3 DEF Parsed
  <2>5. CASE c \notin {ListTasks, SwitchTo}
    <3>1. comming' /\ ~switch_req'
      BY <2>1, <2>5
    <3>2. Begun(typed', b)
      BY <1>3, <2>2, <2>5 DEF Begun
    <3>3. Place(typed', b, comming', switch_req')
      BY <3>1, <3>2 DEF Place
    <3> QED
      BY <1>1, <1>2, <1>3, <1>4, <2>1, <3>1, <3>3 DEF Parsed
  <2> QED
    BY <2>3, <2>4, <2>5
<1>7. CASE ConsoleSwitchTo(c)
  <2>1. comming /\ switch_req /\ ~comming' /\ ~switch_req' /\ UNCHANGED <<in, accepted>>
    BY <1>7 DEF ConsoleSwitchTo
  <2>2. fwd' # 0
    BY <1>1, <1>7 DEF ConsoleSwitchTo, ConsoleRuns, PidOf, Digits
  <2>3. PidWanted(typed, b)
    BY <1>2, <2>1 DEF Place
  <2>4. Reads(typed', o, Len(typed) + 2)
    BY <1>1, <1>2, <2>3, ReadsCommand
  <2>5. Place(typed', Len(typed) + 2, comming', switch_req')
    BY <1>3, <2>1 DEF Place
  <2> QED
    BY <1>1, <1>2, <1>3, <2>1, <2>2, <2>4, <2>5 DEF Parsed
<1>8. CASE Forward(c)
  <2>1. /\ ~comming /\ c # Start /\ UNCHANGED <<fwd, comming, switch_req>>
        /\ IF Len(in) < Capacity
           THEN in' = Append(in, c) /\ accepted' = Append(accepted, c)
           ELSE UNCHANGED <<in, accepted>>
    BY <1>1, <1>8 DEF Forward, command
  <2>2. Reads(typed', Append(o, c), Len(typed) + 2)
    BY <1>1, <1>2, <2>1, ReadsPlain DEF Place
  <2>3. Place(typed', Len(typed) + 2, comming', switch_req')
    BY <1>3, <2>1 DEF Place
  <2>4. Len(in) \in Nat /\ Len(accepted) \in Nat /\ Len(o) \in Nat /\ Capacity \in Nat
    BY <1>1, <1>4, ConsoleAssumption
  <2>5. /\ Append(in, c) \in Seq(Keys) /\ Len(Append(in, c)) = Len(in) + 1
        /\ Append(accepted, c) \in Seq(Keys) /\ Len(Append(accepted, c)) = Len(accepted) + 1
        /\ Len(Append(o, c)) = Len(o) + 1
    BY <1>1, <1>4, AppendProperties
  <2>6. accepted' \in Seq(Keys) /\ Len(in') <= Len(accepted')
    <3>1. CASE Len(in) < Capacity
      <4>1. Len(in') = Len(in) + 1 /\ Len(accepted') = Len(accepted) + 1 /\ accepted' \in Seq(Keys)
        BY <2>1, <2>5, <3>1
      <4> QED
        BY <1>1, <2>4, <4>1
    <3>2. CASE ~(Len(in) < Capacity)
      BY <1>1, <2>1, <3>2
    <3> QED
      BY <3>1, <3>2
  <2>7. Len(Append(o, c)) <= Capacity => accepted' = Append(o, c)
    BY <1>1, <1>2, <2>1, <2>4, <2>5
  <2> QED
    BY <1>1, <1>3, <2>1, <2>2, <2>3, <2>6, <2>7 DEF Parsed
<1> QED
  BY <1>5, <1>6, <1>7, <1>8 DEF Serial

\* No other step types or accepts anything; the queue only gets shorter.
LEMMA OthersParse ==
  ASSUME TypeOK, Parsed, UNCHANGED <<typed, accepted, fwd, comming, switch_req, state>>,
         in' = in \/ (in # <<>> /\ in' = Tail(in))
  PROVE  Parsed'
<1>1. in \in Seq(Keys) /\ Len(in) <= Len(accepted) /\ Len(accepted) \in Nat
  BY DEF TypeOK, Parsed
<1>2. Len(in') <= Len(accepted)
  <2>1. in # <<>> => Len(Tail(in)) = Len(in) - 1 /\ Len(in) \in Nat
    BY <1>1, HeadTailProperties
  <2> QED
    BY <1>1, <2>1
<1>3. \A b : Place(typed', b, comming', switch_req') <=> Place(typed, b, comming, switch_req)
  BY DEF Place
<1> QED
  BY <1>2, <1>3 DEF Parsed

\* Every step keeps Parsed.
LEMMA ParsedStep ==
  ASSUME ConsoleRuns, ConsoleInv, Parsed, [Next]_vars
  PROVE  Parsed'
<1>0. TypeOK
  BY DEF ConsoleInv
<1>1. CASE \E c \in Keys : Serial(c)
  BY <1>0, <1>1, SerialParses
<1>2. CASE Emulate
  BY <1>0, <1>2, OthersParse DEF Emulate, ReadFR, ReadDR, WriteDR, Mmio, command
<1>3. CASE VmEnter \/ LoadTaskImage \/ LoopGoesOn \/ EndUartIrq
  BY <1>0, <1>3, OthersParse DEF VmEnter, LoadTaskImage, LoopGoesOn, EndUartIrq, command, history
<1>4. CASE TakeTick \/ TakeUartIrq \/ AccessUart
  BY <1>0, <1>4, OthersParse DEF TakeTick, TakeUartIrq, AccessUart, VmLeave, command, history
<1>5. CASE Acknowledge \/ EndVirq \/ Transmit \/ UNCHANGED vars
  BY <1>0, <1>5, OthersParse DEF Acknowledge, EndVirq, Transmit, vars, sched, command, history
<1>6. CASE \E t \in Tasks : SwitchTask(t)
  BY <1>0, <1>6, OthersParse DEF SwitchTask, command, history
<1>7. ~ \E v \in Vcpu, t \in Tasks : ExitTask(v, t)
  BY DEF ExitTask, ConsoleRuns
<1> QED
  BY <1>1, <1>2, <1>3, <1>4, <1>5, <1>6, <1>7 DEF Next, Hypervisor, Driver

\* Hypervisor commands are kept from the guests, and nothing else is as long as the
\* queue has room: for every input, however it is cut up by interrupts and turns of
\* guests, for any number of vCPUs to switch the console between, none of which ends.
THEOREM CommandsStay == ConsoleRuns => (Spec => []CommandsAreStripped)
<1> SUFFICES ASSUME ConsoleRuns PROVE Spec => []CommandsAreStripped
  OBVIOUS
<1>1. Init => Parsed
  <2> SUFFICES ASSUME Init PROVE Parsed
    OBVIOUS
  <2>1. /\ typed = <<>> /\ accepted = <<>> /\ in = <<>> /\ fwd = 1 /\ ~comming /\ ~switch_req
        /\ \A t \in Tasks : state[t] = "RUNNING"
    BY DEF Init
  <2>2. Len(typed) = 0 /\ typed \in Seq(Keys) /\ accepted \in Seq(Keys) /\ <<>> \in Seq(Keys)
    BY <2>1
  <2>3. Reads(typed, <<>>, 1)
    <3>1. ASSUME NEW t \in Seq(Keys)
          PROVE  Stripped(typed \o t)[1] = <<>> \o Stripped(typed \o t)[1]
      <4>1. typed \o t = t /\ 1 \in 1 .. Len(t) + 2
        BY <2>1, ConcatEmptySeq
      <4>2. Stripped(t)[1] \in Seq(Keys)
        BY <4>1, StrippedType
      <4>3. <<>> \o Stripped(t)[1] = Stripped(t)[1]
        BY <4>2, ConcatEmptySeq
      <4> QED
        BY <4>1, <4>3
    <3> QED
      BY <2>2, <3>1 DEF Reads
  <2>4. Place(typed, 1, comming, switch_req)
    BY <2>1, <2>2 DEF Place
  <2> QED
    BY <2>1, <2>2, <2>3, <2>4 DEF Parsed
<1>2. ConsoleInv /\ Parsed /\ [Next]_vars => Parsed'
  BY ParsedStep
<1>3. ConsoleInv /\ Parsed => CommandsAreStripped
  BY ParsedIsStripped DEF ConsoleInv
<1> QED
  BY <1>1, <1>2, <1>3, ConsoleSafety, PTL DEF Spec
=============================================================================
