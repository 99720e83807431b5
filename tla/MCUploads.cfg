SPECIFICATION UploadsSpec
CONSTANTS
  Keys <- MCKeys
  Events <- MCEvents
  ReplyIds <- MCReplyIds
  ReactionIds = {"r1", "r2"}
  Tickets = {"T1"}
  Notes = {}
  LeaseDuration = 2
  JobLease = 1
  Backoff = 1
  Lag = 0
  MaxTime = 3
  MaxClaims = 1
  MaxJobClaims = 0
  Files = {"f"}
  Copies = {"c1", "c2"}
  MaxUploadClaims = 3
INVARIANTS
  UploadMeaning
  OneRetryPerSync
PROPERTIES
  UploadFencedForever
  CopyKept
CHECK_DEADLOCK FALSE
