\* Two vCPUs that transmit and receive; the console changes hands, one ends.
CONSTANTS
  NrVcpus = 2
  Capacity = 2
  Keys <- TwoGuests
  MaxTyped = 3
  Drivers <- Talking
  MaxSent = 1
  Exiting <- Second

SPECIFICATION Spec

INVARIANT ConsoleInv
INVARIANT VirqFollowsQueue
INVARIANT NothingHeldBack
