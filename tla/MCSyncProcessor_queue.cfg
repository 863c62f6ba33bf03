SPECIFICATION LiveSpec
CONSTANTS
  Inos = {i1, i2}
  Calls = {c1}
  MaxConcurrent = 1
  MAX_RETRIES = 2
  MaxQueue = 1
INVARIANTS TypeOK UploadsExclusive OneshotsAccounted PermitsConserved
PROPERTIES ImplementsService CallsReturn ShutdownCompletes RequestsSettled
CHECK_DEADLOCK FALSE
