SPECIFICATION AttachmentsSpec
CONSTANTS
  Keys <- MCKeys
  Events <- MCEvents
  ReplyIds <- MCReplyIds
  ReactionIds = {"r1", "r2"}
  Tickets = {"T1"}
  Notes = {}
  LeaseDuration = 1
  JobLease = 1
  Backoff = 1
  Lag = 0
  MaxTime = 7
  MaxClaims = 5
  MaxJobClaims = 0
  Files = {"f"}
  Copies = {"c1", "c2"}
  MaxUploadClaims = 5
  Workers = {"w1", "w2"}
  MaxAttempts = 2
  MaxFaults = 1
INVARIANTS
  FailedForCause
  NoFileForgotten
PROPERTIES
  PassEnds
  LeftCopyIsFound
CHECK_DEADLOCK FALSE
