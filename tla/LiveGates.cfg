SPECIFICATION Spec
CONSTANTS
  p1 = p1
  p2 = p2
  betfair = betfair
  betflag = betflag
  None = None
  Commands <- MCCommands
  Venues <- MCVenues
  Outcomes = {"home", "away"}
  Plans <- MCPlans
  Balances = {6, 12}
  Safe <- MCSafe
  Minimum <- MCMinimum
  Buffer = 10
  CertTTL = 1
  MonitorTTL = 1
  ReportTTL = 1
  MaxVersion = 1
  MaxClock = 2
  MaxRuns = 1
INVARIANTS
  TypeOK
  CertificateIsRecent
  CommissionedConfigWasChecked
  NoRiskPredatesItsCommissioning
  PlanSurvivesOneFailure
