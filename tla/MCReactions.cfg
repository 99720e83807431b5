SPECIFICATION ReactionsSpec
CONSTANTS
  Keys <- MCKeys
  Events <- MCEvents
  ReplyIds <- MCReplyIds
  ReactionIds = {"r1", "r2", "r3", "r4"}
  Tickets = {"T1"}
  Notes = {}
  LeaseDuration = 1
  JobLease = 1
  Backoff = 1
  Lag = 0
  MaxTime = 4
  MaxClaims = 4
  MaxJobClaims = 4
  Workers = {"w1", "w2"}
  MaxAttempts = 2
  MaxFaults = 1
INVARIANTS
  QuietThreadIsMarked
PROPERTIES
  EventuallyQuiet
CHECK_DEADLOCK FALSE
