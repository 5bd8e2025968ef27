SPECIFICATION Spec
CONSTANTS
  m1 = m1
  m2 = m2
  betfair = betfair
  betflag = betflag
  retail = retail
  Retail = retail
  None = None
  Markets <- MCMarkets
  Venues <- MCVenues
  RefVenues <- MCVenues
  Executions = {e1}
  Procs = {p1, p2}
  NLegs = 2
  Opportunities <- TwinOpportunities
  FillOrKill = FALSE
  PromptCancel = TRUE
  LateReports = FALSE
  MaxAttempts = 2
  MaxCrashes = 0
  Liberties = {}
SYMMETRY Symmetry
INVARIANTS
  TypeOK
  AtMostOnePlacement
  LedgerNeverOverstates
