SPECIFICATION Spec
CONSTANTS
  Raws <- MCRaws
  Verdicts <- MCVerdicts
  Folders <- MCFolders
  Place <- MCPlace
  Roots <- MCRoots
  Nows = {0, 59, 60}
  PerMinute = 1
  Shared = TRUE
  MaxMessages = 3
  Agents <- MCAgents
  Publishes <- MCPublishes
  IdOf <- MCIdOf
  Ring = {"coordinator", "a", "b", "d"}
  Asked <- MCAsked
  MAX_HOPS = 2
  MaxChains = 2
  Seats = {1, 2, 3}
  Specs <- MCSpecs
  Boxes <- MCBoxes
  Items <- MCItems
  MAX_RESTARTS = 1
  MaxLaunches = 1
  MaxCalls = 2
INVARIANTS
  RateKept
  StandingFolderWins
  ChainHonest
  OrgChartHolds
  GrantsHold
  AuditGapBounded
PROPERTY
  EverythingEnds
CHECK_DEADLOCK FALSE
