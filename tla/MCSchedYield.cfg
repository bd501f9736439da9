\* Two vCPUs that keep waiting for events.
CONSTANTS
  NrVcpus = 2
  Priority = 1
  Vals = {0}
  Reset = 0
  LastPc = 0
  MaxDue = 2
  Traps <- WaitOnly
  Failures = {}
  Exiting = {}

SPECIFICATION YieldSpec

PROPERTY EveryVcpuRuns
PROPERTY TicksAreHandled
