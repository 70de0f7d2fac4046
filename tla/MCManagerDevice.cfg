SPECIFICATION FairSpec
CONSTANTS
  i1 = i1
  i2 = i2
  i3 = i3
  Interfaces = {i1, i2, i3}
  Ip <- MCIp
  None = None
  MaxFinds = 2
  MaxReports = 1
  MaxCalls = 2
INVARIANTS TypeOK OwnerHearsInTurn NeverStuck ReadyIsConnected
PROPERTY ReadyIsListed
CHECK_DEADLOCK FALSE
