\* Two vCPUs of priority 2, so that counters survive a tick; every trap, both
\* devices, ExitTask on vCPU 2 by itself or by vCPU 1.
CONSTANTS
  NrVcpus = 2
  Priority = 2
  Vals = {0, 1}
  Reset = 0
  LastPc = 1
  MaxDue = 1
  Traps <- AllTraps
  Failures <- Fatal
  Exiting <- Vcpu2

SPECIFICATION Spec

INVARIANT SchedInv
INVARIANT IrqOwner
PROPERTY SwitchOnlyMasked
PROPERTY RefillEndsRound
PROPERTY WaitIsBounded
PROPERTY GuestsArePrivate
