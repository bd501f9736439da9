\* Guest 2 translates two of its pages to each other.
CONSTANTS
  NrVcpus = 2
  HeapPages = 30
  UserPages = 6
  Index <- TwoEntries
  Ram <- RamPages
  Devices <- Board
  LoadPages <- Pages1
  File <- Images
  Stage1 <- Exchanged
  Data <- Contents
  Zero = "0"
  Stale = "w"
  None = None
  StaleEntry <- StaleTable

SPECIFICATION Spec

PROPERTY OneFaultIsEnough
