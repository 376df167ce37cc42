SPECIFICATION FairSpec
CONSTANTS
  p1 = p1
  p2 = p2
  tx1 = tx1
  tx2 = tx2
  commits = commits
  spill = spill
  drop = drop
  ntx = ntx
  nopen = nopen
  ndrop = ndrop
  cic = cic
  Procs = {p1, p2}
  NoProc = NoProc
  NoFile = NoFile
  NoRow = NoRow
  AdoptedHash = AdoptedHash
  Names = {1, 2}
  Contents = {tx1, ntx, nopen, cic, drop, ndrop}
  NoTx = {ntx, nopen, cic, ndrop}
  EndsTx = {}
  LeavesOpen = {nopen}
  DropsLock = {drop, ndrop}
  Concurrent = {cic}
  Control = {}
  Stmts <- StmtsOf
  Faults = {"crash", "error"}
  Commands <- DropCommands
  InitDirs <- DropDirs
  InitTables = {"absent"}
  Adopted = {}
  MaxStarts = 2
  MaxEdits = 0
INVARIANT VouchedNeverRan
PROPERTY ImplementsLedger
PROPERTY EverySessionEnds
