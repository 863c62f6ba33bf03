CONSTANTS
  Accounts = {a}
  Client = client
  NoAccount = nobody
  Requests = {loop, vfs}
  DeltaLoop = loop
  MaxGrants = 3
  MaxFailures = 2
  MaxRestarts = 1
SPECIFICATION LiveSpec
INVARIANTS RestartFindsTokens
PROPERTY EndIsAnnounced
CHECK_DEADLOCK FALSE
