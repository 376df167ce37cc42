SPECIFICATION Spec
CONSTANTS
  p1 = p1
  p2 = p2
  tx1 = tx1
  tx2 = tx2
  commits = commits
  spill = spill
  drop = drop
  ntx = ntx
  nopen = nopen
  ndrop = ndrop
  cic = cic
  Procs = {p1, p2}
  NoProc = NoProc
  NoFile = NoFile
  NoRow = NoRow
  AdoptedHash = AdoptedHash
  Names = {1, 2}
  Contents = {tx1, tx2}
  NoTx = {}
  EndsTx = {}
  LeavesOpen = {}
  DropsLock = {}
  Concurrent = {}
  Control = {}
  Stmts <- StmtsOf
  Faults = {"cancel"}
  Commands <- OneUp
  InitDirs <- TwoFiles
  InitTables = {"absent"}
  Adopted = {}
  MaxStarts = 1
  MaxEdits = 0
SYMMETRY Symmetry
PROPERTY CancelStopsRun
