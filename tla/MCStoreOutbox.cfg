SPECIFICATION Spec
CONSTANTS
  Keys <- MCKeys
  Events <- MCEvents
  ReplyIds <- MCReplyIds
  ReactionIds = {"r1", "r2"}
  Tickets = {"T1"}
  Notes = {}
  LeaseDuration = 1
  JobLease = 1
  Backoff = 1
  Lag = 0
  MaxTime = 3
  MaxClaims = 1
  MaxJobClaims = 2
INVARIANTS
  ReactionsWillFollow
  ReactionJobHasThread
  OneLiveReactionLease
CHECK_DEADLOCK FALSE
