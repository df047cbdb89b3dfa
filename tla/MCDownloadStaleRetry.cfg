CONSTANTS
  c1 = c1
  c2 = c2
  c3 = c3
  m = m
  p1 = p1
  Conn <- MCConn
  Callers <- MCCallers
  Main <- m
  NoConn = NoConn
  NoCaller = NoCaller
  InitialCap = 1
  MaxIdle = 1
  MaxCap = 2
  ConnectMayFail = FALSE
  StartNewTransaction = TRUE
  Anonymous = FALSE
  RollbackMayFail = TRUE
  MaxMulti = 1
  MaxShares = 3
  FileLength = 3
  TaskNum = 2
  AutoNumTasks = 1
  ConnectionMaxNumber = 4
  BufSize = 2
  MaxSocketFails = 1
  OtherErrors = TRUE

SPECIFICATION DLSpec

CHECK_DEADLOCK FALSE

PROPERTY FreshAfterRetry
