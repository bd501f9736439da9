\* Both heaps can run out: the guests need 27 and 6 pages with all nodes.
CONSTANTS
  NrVcpus = 2
  HeapPages = 26
  UserPages = 5
  Index <- TwoEntries
  Ram <- RamPages
  Devices <- Board
  LoadPages <- Pages1
  File <- Images
  Stage1 <- OneToOne
  Data <- Contents
  Zero = "0"
  Stale = "w"
  None = None
  StaleEntry <- StaleTable

SPECIFICATION Spec

INVARIANTS MemoryInv PagesArePrivate DevicesStayMapped PagesAreCounted
PROPERTIES ImplementsGuestMemory OneFaultIsEnough
