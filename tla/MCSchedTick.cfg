\* One vCPU that may stop trapping: the tick may stop for good.
CONSTANTS
  NrVcpus = 1
  Priority = 1
  Vals = {0}
  Reset = 0
  LastPc = 0
  MaxDue = 2
  Traps <- WaitOnly
  Failures = {}
  Exiting = {}

SPECIFICATION FairSpec

PROPERTY TicksAreHandled
