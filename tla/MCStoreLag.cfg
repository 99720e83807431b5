SPECIFICATION Spec
CONSTANTS
  Keys <- MCKeys
  Events <- MCMessages
  ReplyIds <- MCReplyIds
  ReactionIds = {"r1", "r2"}
  Tickets = {"T1"}
  Notes = {}
  LeaseDuration = 1
  JobLease = 2
  Backoff = 1
  Lag = 1
  MaxTime = 3
  MaxClaims = 1
  MaxJobClaims = 2
INVARIANTS
  OneLiveReactionLease
CHECK_DEADLOCK FALSE
