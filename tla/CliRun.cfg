SPECIFICATION FairSpec
CONSTANTS
  r1 = r1
  r2 = r2
  Runs = {r1, r2}
  Workloads <- MCWorkloads
INVARIANTS
  OkMeansAccepted
  ErrorsShown
  EarlySignalStops
  OutputAccountedFor
PROPERTIES
  SignalFreesRun
