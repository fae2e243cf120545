SPECIFICATION FairSpec
CONSTANTS
  p1 = p1
  p2 = p2
  c1 = c1
  c2 = c2
  t1 = t1
  t2 = t2
  t3 = t3
  Procs <- MCProcs
  Callers <- MCCallers
  TmpNames <- MCTmpNames
  Dest = Dest
  NoTmp = NoTmp
  MaxFaults = 2
INVARIANTS
  IInv
  InstalledIsRunnable
  OrphansPaidFor
PROPERTIES
  AtomicInstall
  EveryCallAnswered
