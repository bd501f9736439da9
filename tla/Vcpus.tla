------------------------------- MODULE Vcpus -------------------------------
(***************************************************************************)
(* What the hypervisor promises its guests, with nothing of how it keeps   *)
(* the promise: every vCPU is a private machine.  It has its own program   *)
(* counter and its own EL1 register file, only its own instructions change *)
(* them, an instruction that EL2 emulates retires exactly once, an         *)
(* interrupt or a stage-2 fault retires nothing, and while it executes its *)
(* accesses are translated by its own stage-2 table.  One vCPU at most     *)
(* executes at a time.                                                     *)
(*                                                                         *)
(* Sched implements this module: see Sched!Guests.                         *)
(***************************************************************************)
EXTENDS Naturals

CONSTANTS
  NrVcpus, \* number of vCPUs
  Vals,    \* contents of an EL1 register file, as far as guests tell apart
  Reset,   \* the contents a new vCPU starts with
  LastPc   \* guest addresses are 0..LastPc, in instructions

VARIABLES
  mode, \* what each vCPU is doing
  ip,   \* each vCPU's program counter
  regs, \* each vCPU's EL1 registers
  xlat  \* whose stage-2 table translates guest accesses, 0 when none executes

vars == <<mode, ip, regs, xlat>>

Vcpu == 1 .. NrVcpus

\* One A64 instruction further; the address space wraps.
Succ4(p) == IF p = LastPc THEN 0 ELSE p + 1

Move(v, from, to) ==
  /\ mode[v] \in from
  /\ mode' = [mode EXCEPT ![v] = to]

Init ==
  /\ mode = [v \in Vcpu |-> "off"]
  /\ ip = [v \in Vcpu |-> 0]
  /\ regs = [v \in Vcpu |-> Reset]
  /\ xlat = 0

\* The image is loaded: the vCPU may be entered.
Load(v) ==
  /\ Move(v, {"off"}, "ready")
  /\ UNCHANGED <<ip, regs, xlat>>

\* The vCPU gets the processor, with its own translation.
Enter(v) ==
  /\ \A w \in Vcpu : mode[w] # "running"
  /\ Move(v, {"ready"}, "running")
  /\ xlat' = v
  /\ UNCHANGED <<ip, regs>>

\* The vCPU executes an instruction of its own.
Execute(v) ==
  /\ mode[v] = "running"
  /\ ip' = [ip EXCEPT ![v] = Succ4(@)]
  /\ \E x \in Vals : regs' = [regs EXCEPT ![v] = x]
  /\ UNCHANGED <<mode, xlat>>

\* An interrupt, or a fault whose instruction will be executed again.
Interrupt(v) ==
  /\ Move(v, {"running"}, "ready")
  /\ xlat' = 0
  /\ UNCHANGED <<ip, regs>>

\* An instruction the hypervisor has to emulate.
Trap(v) ==
  /\ Move(v, {"running"}, "trapped")
  /\ xlat' = 0
  /\ UNCHANGED <<ip, regs>>

\* The emulated instruction retires.
Emulate(v) ==
  /\ Move(v, {"trapped"}, "ready")
  /\ ip' = [ip EXCEPT ![v] = Succ4(@)]
  /\ UNCHANGED <<regs, xlat>>

\* The vCPU is taken down; it never executes again.
Exit(v) ==
  /\ Move(v, {"off", "ready", "trapped"}, "exited")
  /\ UNCHANGED <<ip, regs, xlat>>

Next ==
  \E v \in Vcpu :
    \/ Load(v) \/ Enter(v) \/ Execute(v) \/ Interrupt(v)
    \/ Trap(v) \/ Emulate(v) \/ Exit(v)

Spec == Init /\ [][Next]_vars
=============================================================================
