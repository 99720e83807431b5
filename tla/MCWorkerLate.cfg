SPECIFICATION WorkSpec
CONSTANTS
  Keys <- MCKeys
  Events <- MCEvents
  ReplyIds <- MCReplyIds
  ReactionIds = {"r1"}
  Tickets = {"T1"}
  Notes = {"N1", "N2", "N3"}
  LeaseDuration = 2
  JobLease = 1
  Backoff = 1
  Lag = 0
  MaxTime = 8
  MaxClaims = 6
  MaxJobClaims = 0
  Workers = {"w1", "w2"}
  MaxAttempts = 2
  MaxFaults = 2
INVARIANTS
  RepairFollows
CHECK_DEADLOCK FALSE
