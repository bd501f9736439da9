\* A ring of three slots; registers that share a word, that cut their value, and
\* that change when they are read; register 31 as an operand.
CONSTANTS
  kMaxSize = 3
  Data <- Chars
  Programs <- Guests
  SP = 77
CHECK_DEADLOCK FALSE

SPECIFICATION EmuSpec

PROPERTY ImplementsFifo
PROPERTY LoadsFollowStores
PROPERTY SysregsAreOwn
PROPERTY ExecutedOnce
