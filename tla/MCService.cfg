SPECIFICATION ServiceSpec
CONSTANTS
  Tickets = {"T1"}
  Notes = {}
  LeaseDuration = 2
  Keys <- MCKeys
  ReplyIds = {"e1", "e2", "e3"}
  ReactionIds = {"r1"}
  JobLease = 2
  Events = {}
  Backoff = 1
  Lag = 0
  MaxTime = 1
  MaxClaims = 1
  MaxJobClaims = 1
  MaxInt = 15
  Deliveries <- MCDeliveries
  Handlers = {h1, h2}
  Responses <- MCResponses
  MaxFaults = 1
  Documents <- MCDocuments
  Environment <- MCEnvironment
  SecretFiles <- MCSecretFiles
  Workers = {w1}
INVARIANTS
  AcknowledgedIsRecorded
  OneSummary
  StopsClaiming
  CleanStop
  LoadsWhatIsWritten
PROPERTIES
  ProcessEnds
  EveryEventHeard
CHECK_DEADLOCK FALSE
