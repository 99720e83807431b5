SPECIFICATION BackendSpec
CONSTANTS
  Keys <- MCKeys
  ReplyIds = {"a"}
  ReactionIds = {"r1", "r2"}
  JobLease = 1
  Callers = {"c1", "c2"}
  Drivers = {"postgres", "sqlite", "spanner"}
  Connections = 2
  MaxRetries = 2
  MaxCalls = 7
  MaxFaults = 1
PROPERTIES
  ImplementsRecords
  AnsweredOnce
  CallsEnd
CHECK_DEADLOCK FALSE
