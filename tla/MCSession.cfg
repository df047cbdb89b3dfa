CONSTANTS
  c1 = c1
  c2 = c2
  c3 = c3
  p1 = p1
  p2 = p2
  Conn <- MCConn
  Callers <- MCCallers
  NoConn = NoConn
  NoCaller = NoCaller
  InitialCap = 1
  MaxIdle = 1
  MaxCap = 2
  ConnectMayFail = TRUE
  StartNewTransaction = TRUE
  Anonymous = FALSE
  RollbackMayFail = TRUE
  MaxMulti = 3
  MaxShares = 4

SPECIFICATION ClientsSpec

INVARIANT TypeOK
INVARIANT SharedIffOutstanding
INVARIANT SharesCoverRefs
INVARIANT PoolBounds
CHECK_DEADLOCK FALSE
