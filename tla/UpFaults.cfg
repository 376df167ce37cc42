SPECIFICATION FaultSpec
CONSTANTS
  p1 = p1
  p2 = p2
  tx1 = tx1
  tx2 = tx2
  commits = commits
  spill = spill
  drop = drop
  ntx = ntx
  nopen = nopen
  ndrop = ndrop
  cic = cic
  Procs = {p1, p2}
  NoProc = NoProc
  NoFile = NoFile
  NoRow = NoRow
  AdoptedHash = AdoptedHash
  Names = {1, 2}
  Contents = {tx1, ntx, nopen, spill, commits}
  NoTx = {ntx, nopen}
  EndsTx = {spill}
  LeavesOpen = {nopen}
  DropsLock = {}
  Concurrent = {}
  Control = {commits}
  Stmts <- StmtsOf
  Faults = {"loss", "error", "crash", "cancel", "timeout"}
  Commands <- FaultCommands
  InitDirs <- FaultDirs
  InitTables = {"absent","legacy","current"}
  Adopted = {1}
  MaxStarts = 2
  MaxEdits = 0
SYMMETRY Symmetry
INVARIANT Faithful
INVARIANT OneAtATime
PROPERTY HistoryReadIsTrue
PROPERTY BaselineStartsHistory
INVARIANT SuccessMeansApplied
PROPERTY InOrder
PROPERTY ImplementsLedger
