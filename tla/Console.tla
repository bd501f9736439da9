------------------------------- MODULE Console ------------------------------
(***************************************************************************)
(* The serial console shared by the guests: the receive handler with its   *)
(* hypervisor commands (platforms/serial.cc), the queues and the virtual   *)
(* PL011 of the board (platforms/board.h, virtio_pl011_uart.cc), and the   *)
(* virtual interrupt (board.h, sched_virq.cc, GicV2::NotifyVirqHardware).  *)
(*                                                                         *)
(* Every task has the same board: GetPlatformBoard() returns a singleton,  *)
(* so there is one pair of queues and one set of UART registers.  Which    *)
(* task Schedule picks is left open here; Sched models it.  The queues are *)
(* Fifo's, which Queue implements.                                         *)
(***************************************************************************)
EXTENDS Naturals, Sequences

CONSTANTS
  NrVcpus,    \* vCPUs, PIDs 1 .. NrVcpus
  Capacity,   \* elements a queue holds
  Keys,       \* characters somebody types
  MaxTyped,   \* bound on the characters typed
  Drivers,    \* what guests do: "irq" serve the interrupt, "tx" transmit
  MaxSent,    \* bound on the characters guests transmit
  Exiting     \* vCPUs some caller of ExitTask may name

\* The PIDs that the digits among the keys stand for.
Digits == {"0", "1", "2", "3"}
PidOf == [d \in Digits |-> CASE d = "0" -> 0 [] d = "1" -> 1
                             [] d = "2" -> 2 [] d = "3" -> 3]

\* The characters that start a command, switch the console, list the tasks.
Start == "?"
SwitchTo == "s"
ListTasks == "l"

\* What a guest transmits, apart from anything typed.
Sent == "x"

ASSUME ConsoleAssumption ==
  /\ NrVcpus \in Nat \ {0}
  /\ Capacity \in Nat \ {0}
  /\ Sent \notin Keys
  /\ MaxTyped \in Nat /\ MaxSent \in Nat
  /\ Exiting \subseteq 1 .. NrVcpus

VARIABLES
  cur,          \* Sched::cur_tsk_
  pc,           \* where each task's code is
  state,        \* Tcb::state
  fwd,          \* Sched::console_forwarded_pid_
  comming,      \* hypervisor_command_comming
  switch_req,   \* hypervisor_command_switch_req
  in, out,      \* the queues of Board::Console
  DR, RXFE,     \* virtual UARTDR, and bit 4 of UARTFR
  irq_pending,  \* Tcb::stat
  is_asserted,  \* SetCpuVirtualInterrupt's memory of HCR_EL2.VI
  vi,           \* HCR_EL2.VI
  lr,           \* state of GICH_LR[0]
  drv,          \* where each guest's UART driver is
  typed,        \* all that was typed
  accepted,     \* what was pushed onto in
  got,          \* what guests took for received characters
  sent,         \* characters guests transmitted
  fault         \* the console of a task without a board was used

sched == <<cur, pc, state>>
command == <<fwd, comming, switch_req>>
uart == <<DR, RXFE>>
virq == <<irq_pending, is_asserted, vi>>
history == <<typed, accepted, got>>
vars == <<sched, command, in, out, uart, virq, lr, drv, history, sent, fault>>

Tasks == 0 .. NrVcpus
Vcpu == 1 .. NrVcpus

-----------------------------------------------------------------------------
(* World switch *)

\* Everything buffered is printed; the init task has no board to ask for it.
FlushConsole(t) ==
  /\ out' = <<>>
  /\ fault' = (fault \/ t = 0)

\* Task t's console is flushed if that is the one assigned.
FlushIfAssigned(t) ==
  IF t = fwd THEN FlushConsole(t) ELSE UNCHANGED <<out, fault>>

\* Faulty: an interrupt once asserted is never taken back.
NeverDisabled(t, pending) ==
  LET on == t # 0 /\ ~is_asserted /\ pending[t]
  IN  /\ vi' = (on \/ vi)
      /\ is_asserted' = (on \/ is_asserted)

\* HCR_EL2.VI follows the task's stat, by way of a variable that remembers what
\* it was last set to; a task without a board leaves it as it is.
SetCpuVirtualInterrupt(t, pending) ==
  LET on == t # 0 /\ ~is_asserted /\ pending[t]
      off == t # 0 /\ is_asserted /\ ~pending[t]
  IN  /\ vi' = (on \/ (vi /\ ~off))
      /\ is_asserted' = (on \/ (is_asserted /\ ~off))

\* Board::VmEnter
Pending == [irq_pending EXCEPT ![cur] = in # <<>>]

\* Faulty: the console is flushed in VmLeave only.
VmEnterQuietly ==
  /\ pc[cur] = "leave"
  /\ pc' = [pc EXCEPT ![cur] = IF cur = 0 THEN "loop" ELSE "guest"]
  /\ irq_pending' = IF cur = 0 THEN irq_pending ELSE Pending
  /\ SetCpuVirtualInterrupt(cur, irq_pending')
  /\ UNCHANGED <<cur, state, command, in, out, uart, lr, drv, history, sent,
                 fault>>

\* leave_hypervisor: VmEnter, then back to the guest or to the init loop.
VmEnter ==
  /\ pc[cur] = "leave"
  /\ pc' = [pc EXCEPT ![cur] = IF cur = 0 THEN "loop" ELSE "guest"]
  /\ irq_pending' = IF cur = 0 THEN irq_pending ELSE Pending
  /\ SetCpuVirtualInterrupt(cur, irq_pending')
  /\ FlushIfAssigned(cur)
  /\ UNCHANGED <<cur, state, command, in, uart, lr, drv, history, sent>>

\* enter_hypervisor: VmLeave, then the handler of whatever happened.
VmLeave(handler) ==
  /\ pc[cur] \in {"guest", "loop"}
  /\ pc' = [pc EXCEPT ![cur] = handler]
  /\ FlushIfAssigned(cur)
  /\ UNCHANGED <<cur, state, command, in, uart, virq, lr, history>>

\* A vCPU's first dispatch.
LoadTaskImage ==
  /\ pc[cur] = "new"
  /\ pc' = [pc EXCEPT ![cur] = "leave"]
  /\ SetCpuVirtualInterrupt(cur, irq_pending)
  /\ UNCHANGED <<cur, state, command, in, out, uart, irq_pending, lr, drv, history,
                 sent, fault>>

-----------------------------------------------------------------------------
(* Tasks *)

\* kernel_main.cc: all vCPUs are created, the init loop is entered.
Init ==
  /\ cur = 0
  /\ pc = [t \in Tasks |-> IF t = 0 THEN "loop" ELSE "new"]
  /\ state = [t \in Tasks |-> "RUNNING"]
  /\ fwd = 1 /\ comming = FALSE /\ switch_req = FALSE
  /\ in = <<>> /\ out = <<>>
  /\ DR = "none" /\ RXFE = TRUE
  /\ irq_pending = [v \in Vcpu |-> FALSE]
  /\ is_asserted = FALSE /\ vi = FALSE
  /\ lr = "none"
  /\ drv = [v \in Vcpu |-> "idle"]
  /\ typed = <<>> /\ accepted = <<>> /\ got = <<>>
  /\ sent = 0
  /\ fault = FALSE

\* A tick or a WFx: a handler that may give the processor away.
TakeTick == VmLeave("handler") /\ UNCHANGED <<drv, sent>>

\* The handler gives the processor to t, or keeps it.
SwitchTask(t) ==
  /\ state[t] = "RUNNING"
  /\ \/ pc[cur] = "handler" /\ pc' = [pc EXCEPT ![cur] = "leave"]
     \/ pc[cur] = "loop" /\ pc' = [pc EXCEPT ![cur] = "yield"]
  /\ cur' = t
  /\ UNCHANGED <<state, command, in, out, uart, virq, lr, drv, history, sent,
                 fault>>

\* The init loop goes on after its Schedule.
LoopGoesOn ==
  /\ pc[cur] = "yield"
  /\ pc' = [pc EXCEPT ![cur] = "loop"]
  /\ UNCHANGED <<cur, state, command, in, out, uart, virq, lr, drv, history,
                 sent, fault>>

\* ExitTask, called for vCPU v by a trap handler of the current one.
ExitTask(v, t) ==
  /\ v \in Exiting /\ cur # 0 /\ pc[cur] = "handler"
  /\ state' = [state EXCEPT ![v] = "ZOMBIE"]
  /\ state'[t] = "RUNNING"
  /\ pc' = [pc EXCEPT ![cur] = "leave"]
  /\ cur' = t
  /\ UNCHANGED <<command, in, out, uart, virq, lr, drv, history, sent, fault>>

-----------------------------------------------------------------------------
(* The UART's receive interrupt *)

\* The handler runs on whatever was interrupted, masked, until the physical
\* FIFO is empty.
TakeUartIrq ==
  /\ Len(typed) < MaxTyped
  /\ VmLeave("serial")
  /\ UNCHANGED <<drv, sent>>

EndUartIrq ==
  /\ pc[cur] = "drain"
  /\ pc' = [pc EXCEPT ![cur] = "leave"]
  /\ UNCHANGED <<cur, state, command, in, out, uart, virq, lr, drv, history,
                 sent, fault>>

\* The handler reads a character from the FIFO and calls the lambda with it.
ReceiveChar(c) ==
  /\ pc[cur] \in {"serial", "drain"}
  /\ Len(typed) < MaxTyped
  /\ pc' = [pc EXCEPT ![cur] = "drain"]
  /\ typed' = Append(typed, c)
  /\ UNCHANGED <<cur, state, uart, virq, drv, got, sent>>

\* "?" starts a command.
CommandStarts(c) ==
  /\ ReceiveChar(c)
  /\ ~comming /\ c = Start
  /\ comming' = TRUE
  /\ UNCHANGED <<fwd, switch_req, in, out, lr, accepted, fault>>

\* Faulty: the list command leaves the command mode on.
CommandKeyStays(c) ==
  /\ ReceiveChar(c)
  /\ comming /\ ~switch_req
  /\ switch_req' = (c = SwitchTo)
  /\ UNCHANGED <<fwd, comming, in, out, lr, accepted, fault>>

\* "s" wants a PID, "l" prints the tasks, anything else is ignored and the
\* command goes on.
CommandKey(c) ==
  /\ ReceiveChar(c)
  /\ comming /\ ~switch_req
  /\ switch_req' = (c = SwitchTo)
  /\ comming' = (c # ListTasks)
  /\ UNCHANGED <<fwd, in, out, lr, accepted, fault>>

\* The PID: any task may get the console, and what it wrote is printed if it is
\* RUNNING.
ConsoleSwitchTo(c) ==
  /\ ReceiveChar(c)
  /\ comming /\ switch_req
  /\ comming' = FALSE /\ switch_req' = FALSE
  /\ IF c \in Digits /\ PidOf[c] \in Tasks
     THEN /\ fwd' = PidOf[c]
          /\ IF state[fwd'] = "RUNNING" THEN FlushConsole(fwd')
             ELSE UNCHANGED <<out, fault>>
     ELSE UNCHANGED <<fwd, out, fault>>
  /\ UNCHANGED <<in, lr, accepted>>

\* Faulty: no second interrupt while the guest serves one.
ForwardOnce(c) ==
  /\ ReceiveChar(c)
  /\ ~comming /\ c # Start
  /\ IF state[fwd] = "RUNNING" /\ fwd # 0 /\ Len(in) < Capacity
     THEN in' = Append(in, c) /\ accepted' = Append(accepted, c)
     ELSE UNCHANGED <<in, accepted>>
  /\ fault' = (fault \/ fwd = 0)
  /\ lr' = IF lr = "active" THEN lr ELSE "pending"
  /\ UNCHANGED <<command, out>>

\* Faulty: Push does not ask whether the queue is full.
ForwardBlindly(c) ==
  /\ ReceiveChar(c)
  /\ ~comming /\ c # Start
  /\ IF state[fwd] = "RUNNING" /\ fwd # 0
     THEN in' = Append(in, c) /\ accepted' = Append(accepted, c)
     ELSE UNCHANGED <<in, accepted>>
  /\ fault' = (fault \/ fwd = 0)
  /\ lr' = "pending"
  /\ UNCHANGED <<command, out>>

\* Any other character goes to the task that has the console, and interrupt 33
\* to the list register, whatever it holds.
Forward(c) ==
  /\ ReceiveChar(c)
  /\ ~comming /\ c # Start
  /\ IF state[fwd] = "RUNNING" /\ fwd # 0 /\ Len(in) < Capacity
     THEN in' = Append(in, c) /\ accepted' = Append(accepted, c)
     ELSE UNCHANGED <<in, accepted>>
  /\ fault' = (fault \/ fwd = 0)
  /\ lr' = "pending"
  /\ UNCHANGED <<command, out>>

-----------------------------------------------------------------------------
(* A guest's driver, and the virtual UART its accesses trap to *)

\* The guest's interrupt handler acknowledges the virtual interrupt, reads the
\* receiver empty, then ends it.
Acknowledge ==
  /\ "irq" \in Drivers
  /\ pc[cur] = "guest" /\ drv[cur] = "idle"
  /\ lr = "pending"
  /\ lr' = "active"
  /\ drv' = [drv EXCEPT ![cur] = "poll_rx"]
  /\ UNCHANGED <<sched, command, in, out, uart, virq, history, sent, fault>>

\* The end of an interrupt that is pending again leaves it pending.
EndVirq ==
  /\ pc[cur] = "guest" /\ drv[cur] = "eoi"
  /\ drv' = [drv EXCEPT ![cur] = "idle"]
  /\ lr' = IF lr = "active" THEN "none" ELSE lr
  /\ UNCHANGED <<sched, command, in, out, uart, virq, history, sent, fault>>

\* The guest transmits a character: it polls the flags, then writes the data.
Transmit ==
  /\ "tx" \in Drivers /\ sent < MaxSent
  /\ pc[cur] = "guest" /\ drv[cur] = "idle"
  /\ drv' = [drv EXCEPT ![cur] = "poll_tx"]
  /\ sent' = sent + 1
  /\ UNCHANGED <<sched, command, in, out, uart, virq, lr, history, fault>>

\* An access to the UART's page is a stage-2 fault.
AccessUart ==
  /\ pc[cur] = "guest" /\ drv[cur] \in {"poll_rx", "poll_tx", "read", "write"}
  /\ VmLeave("mmio")
  /\ UNCHANGED <<drv, sent>>

\* HandleTrapMemAbort is done: the emulated access retires.
Mmio(d) ==
  /\ pc[cur] = "mmio" /\ drv[cur] = d
  /\ pc' = [pc EXCEPT ![cur] = "leave"]
  /\ UNCHANGED <<cur, state, command, virq, lr, typed, accepted, sent, fault>>

\* What the driver does next, having read the flags.
AfterFlags(d) ==
  IF d = "poll_tx" THEN "write" ELSE IF RXFE' THEN "eoi" ELSE "read"

\* Reading UARTFR fetches the next character, if there is one, into UARTDR.
ReadFR(d) ==
  /\ d \in {"poll_rx", "poll_tx"}
  /\ Mmio(d)
  /\ IF in # <<>>
     THEN in' = Tail(in) /\ DR' = Head(in) /\ RXFE' = FALSE
     ELSE UNCHANGED <<in, DR, RXFE>>
  /\ drv' = [drv EXCEPT ![cur] = AfterFlags(d)]
  /\ UNCHANGED <<out, got>>

\* Faulty: the receiver is not marked empty.
ReadDRKeepsFlag ==
  /\ Mmio("read")
  /\ got' = Append(got, DR)
  /\ drv' = [drv EXCEPT ![cur] = "poll_rx"]
  /\ UNCHANGED <<in, out, DR, RXFE>>

\* Reading UARTDR empties the receiver.
ReadDR ==
  /\ Mmio("read")
  /\ got' = Append(got, DR)
  /\ RXFE' = TRUE
  /\ drv' = [drv EXCEPT ![cur] = "poll_rx"]
  /\ UNCHANGED <<in, out, DR>>

\* Writing UARTDR buffers the character, or drops it if the queue is full.
WriteDR ==
  /\ Mmio("write")
  /\ DR' = Sent
  /\ out' = IF Len(out) < Capacity THEN Append(out, cur) ELSE out
  /\ drv' = [drv EXCEPT ![cur] = "idle"]
  /\ UNCHANGED <<in, RXFE, got>>

-----------------------------------------------------------------------------

Serial(c) == CommandStarts(c) \/ CommandKey(c) \/ ConsoleSwitchTo(c) \/ Forward(c)

Emulate == (\E d \in {"poll_rx", "poll_tx"} : ReadFR(d)) \/ ReadDR \/ WriteDR

Driver == Acknowledge \/ AccessUart \/ EndVirq

\* EL2 code that does not wait for anything.
Hypervisor == VmEnter \/ LoadTaskImage \/ LoopGoesOn \/ EndUartIrq \/ Emulate

Next ==
  \/ Hypervisor \/ Driver \/ Transmit
  \/ TakeTick \/ TakeUartIrq
  \/ \E t \in Tasks : SwitchTask(t)
  \/ \E v \in Vcpu, t \in Tasks : ExitTask(v, t)
  \/ \E c \in Keys : Serial(c)

Spec == Init /\ [][Next]_vars

\* EL2 code runs on, every task keeps being dispatched (Sched), a guest executes
\* now and then while it is dispatched, and its driver serves its interrupt.
Fairness ==
  /\ WF_vars(Hypervisor)
  /\ WF_vars(\E c \in Keys : Serial(c))
  /\ \A t \in Tasks : SF_vars(SwitchTask(t))
  /\ SF_vars(Driver)

FairSpec == Spec /\ Fairness

-----------------------------------------------------------------------------
(* Properties *)

DrvStates == {"idle", "poll_rx", "read", "eoi", "poll_tx", "write"}

TypeOK ==
  /\ cur \in Tasks
  /\ pc \in [Tasks -> {"new", "guest", "loop", "handler", "serial", "drain", "mmio",
                       "leave", "yield"}]
  /\ state \in [Tasks -> {"RUNNING", "ZOMBIE"}]
  /\ fwd \in Tasks /\ comming \in BOOLEAN /\ switch_req \in BOOLEAN
  /\ in \in Seq(Keys) /\ Len(in) <= Capacity
  /\ out \in Seq(Vcpu) /\ Len(out) <= Capacity
  /\ DR \in Keys \cup {"none", Sent} /\ RXFE \in BOOLEAN
  /\ irq_pending \in [Vcpu -> BOOLEAN]
  /\ is_asserted \in BOOLEAN /\ vi \in BOOLEAN
  /\ lr \in {"none", "pending", "active"}
  /\ drv \in [Vcpu -> DrvStates]
  /\ fault \in BOOLEAN

\* A guest executes with the virtual interrupt asserted exactly when there are
\* characters to read, whatever guest ran before and whatever arrived meanwhile.
VirqFollowsQueue == pc[cur] = "guest" => (vi <=> in # <<>>)

\* The guest that has the console executes with all its output printed.
NothingHeldBack == pc[cur] = "guest" /\ cur = fwd => out = <<>>

\* A character that waits has its interrupt: it is pending, or some guest is
\* serving it and will look again.
WaitingCharHasIrq ==
  in # <<>> => \/ lr = "pending"
               \/ \E v \in Vcpu : drv[v] \in {"poll_rx", "read"}

\* A character the virtual UART holds for the guest.
Held == IF RXFE THEN <<>> ELSE <<DR>>

\* A guest that only reads what it is told is there gets every accepted
\* character, once and in order, wherever the driver is interrupted.
InputInOrder == got \o Held \o in = accepted

\* A command runs from a "?" to the first "l", or to one beyond the first "s".
Ends(s, i) == {j \in i + 1 .. Len(s) : s[j] \in {SwitchTo, ListTasks}}
End(s, i) == CHOOSE j \in Ends(s, i) : \A k \in Ends(s, i) : j <= k

\* What follows the command that starts at i: nothing, if that is not finished.
After(s, i) ==
  IF Ends(s, i) = {} THEN Len(s) + 1
  ELSE IF s[End(s, i)] = SwitchTo THEN End(s, i) + 2 ELSE End(s, i) + 1

\* What is left of s from each place without its commands, and without one that is
\* not finished.
Stripped(s) ==
  LET rest[i \in 1 .. Len(s) + 2] ==
        IF i > Len(s) THEN <<>>
        ELSE IF s[i] = Start THEN rest[After(s, i)] ELSE <<s[i]>> \o rest[i + 1]
  IN  rest

Payload(s) == Stripped(s)[1]

\* Hypervisor commands are kept from the guests and nothing else is: as long as
\* the queue has room and the console's task runs, the rest is passed on.
CommandsAreStripped ==
  Len(Payload(typed)) <= Capacity => accepted = Payload(typed)

\* The static variable of SetCpuVirtualInterrupt is what it did to HCR_EL2,
\* guest code is only where the processor is, the init task is none.
VirqInv ==
  /\ is_asserted = vi
  /\ pc[0] \notin {"new", "guest", "mmio"}
  /\ \A t \in Tasks \ {cur} : pc[t] # "guest"

\* What every step preserves.
ConsoleInv ==
  TypeOK /\ VirqInv /\ VirqFollowsQueue /\ NothingHeldBack /\ WaitingCharHasIrq

\* Every character passed on is read.
InputIsServed == in # <<>> ~> in = <<>>
=============================================================================
