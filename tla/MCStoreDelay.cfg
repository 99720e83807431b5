SPECIFICATION Spec
CONSTANTS
  Keys <- MCKeys
  Events <- MCEvents
  ReplyIds <- MCReplyIds
  ReactionIds = {"r1"}
  Tickets = {"T1"}
  Notes = {"N1", "N2"}
  LeaseDuration = 1
  JobLease = 1
  Backoff = 1
  Lag = 0
  MaxTime = 3
  MaxClaims = 3
  MaxJobClaims = 0
INVARIANTS
  DelayHoldsNothingNew
CHECK_DEADLOCK FALSE
