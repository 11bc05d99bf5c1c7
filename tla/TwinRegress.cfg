SPECIFICATION FidelitySpec
CONSTANTS
  Owners = {"ann", "bob"}
  SeatList <- MCSeats
  Drafts <- MCDrafts
  EventPool <- MCEvents
  Answers <- MCAnswers
  Sustained = {30}
  Window = 3
  LogCap = 3
  Serial = FALSE
  MaxEvents = 3
  MaxPuts = 1
  MaxFaults = 1
PROPERTY VersionNeverFalls
