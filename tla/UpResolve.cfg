SPECIFICATION Spec
CONSTANTS
  p1 = p1
  p2 = p2
  tx1 = tx1
  tx2 = tx2
  commits = commits
  spill = spill
  drop = drop
  ntx = ntx
  nopen = nopen
  ndrop = ndrop
  cic = cic
  Procs = {p1, p2}
  NoProc = NoProc
  NoFile = NoFile
  NoRow = NoRow
  AdoptedHash = AdoptedHash
  Names = {1, 2}
  Contents = {tx1, ntx}
  NoTx = {ntx}
  EndsTx = {}
  LeavesOpen = {}
  DropsLock = {}
  Concurrent = {}
  Control = {}
  Stmts <- StmtsOf
  Faults = {"crash"}
  Commands <- ResolveCommands
  InitDirs <- ResolveDirs
  InitTables = {"absent"}
  Adopted = {}
  MaxStarts = 3
  MaxEdits = 1
SYMMETRY Symmetry
INVARIANT TypeOK
PROPERTY AppliedForever
PROPERTY HalfFinishedBlocks
