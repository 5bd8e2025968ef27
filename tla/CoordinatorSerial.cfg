SPECIFICATION FairSpec
CONSTANTS
  m1 = m1
  m2 = m2
  betfair = betfair
  betflag = betflag
  retail = retail
  Retail = retail
  None = None
  Markets <- MCMarkets
  Venues <- MCVenues
  RefVenues <- MCRefVenues
  Executions = {e1}
  Procs = {p1}
  NLegs = 3
  Opportunities <- ThreeWayOpportunities
  FillOrKill = TRUE
  PromptCancel = TRUE
  LateReports = FALSE
  MaxAttempts = 3
  MaxCrashes = 0
  Liberties = {}
INVARIANTS
  AbortedIsFlat
  CompletedIsHedged
  RescuedIsCovered
  LedgerIsTruthful
  RescueAvoidsFailedVenue
PROPERTIES
  ResumeSettles
