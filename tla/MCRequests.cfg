SPECIFICATION RequestsSpec
CONSTANTS
  MaxInt = 7
  Tickets = {"T1"}
  LeaseDuration = 1
  Messages = {1, 2, 3}
  Author <- MCAuthor
  Notes = {"note1", "note2"}
  OtherNotes = {"other1", "other2"}
  Rank <- MCRank
  SlackPage = 1
  NotePage = 1
  Responses <- MCResponses
  Settings <- MCSettings
  MaxFaults = 1
INVARIANTS
  ThreadIsWhole
  OneNote
PROPERTIES
  BackoffInBounds
  Settles
  PassEnds
CHECK_DEADLOCK FALSE
