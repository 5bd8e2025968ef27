SPECIFICATION Spec
CONSTANTS
  m1 = m1
  m2 = m2
  betfair = betfair
  betflag = betflag
  retail = retail
  Retail = retail
  None = None
  Markets <- MCMarkets
  Venues <- MCVenues
  RefVenues <- MCRefVenues
  Executions = {e1}
  Procs = {p1}
  NLegs = 2
  Opportunities <- ConcurrentOpportunities
  FillOrKill = TRUE
  PromptCancel = FALSE
  LateReports = TRUE
  MaxAttempts = 8
  MaxCrashes = 1
  Liberties = {"abort_busy", "resolve_busy", "abort_unreported", "late_confirm", "clear_early"}
INVARIANTS
  OrdersAreArmed
  RescueNeedsExposure
PROPERTIES
  ImplementsOrderIntent
