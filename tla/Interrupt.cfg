SPECIFICATION InterruptSpec
CONSTANTS
  Requests <- Scripts
  Configs <- DialConfigs
  Faults = {"error"}
  Budget = 1
  MaxRequests = 3
  MaxNotices = 0
INVARIANTS OnlyInterruptsCancel CancelKeepsUsable DeadlineLifted
PROPERTIES AsAsked DialReturns RequestsReturn
