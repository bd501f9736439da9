\* The shipped configuration of one vCPU, whose driver serves its interrupt.
CONSTANTS
  NrVcpus = 1
  Capacity = 2
  Keys <- Commands
  MaxTyped = 4
  Drivers <- Served
  MaxSent = 0
  Exiting = {}

SPECIFICATION FairSpec

INVARIANT InputInOrder
INVARIANT WaitingCharHasIrq
INVARIANT CommandsAreStripped
PROPERTY InputIsServed
