SPECIFICATION FairSpec
CONSTANTS
  Kinds <- MCKinds
  Requests <- MCRequests
  Retries = 4
  OcrTries = 5
  MaxReads = 2
  MaxFaults = 5
  MaxBusy = 1
INVARIANTS NoStaleAnswers OpenMeansReady ReadsAreRight RetriesSuffice
PROPERTY CallsReturn
