SPECIFICATION Spec
CONSTANTS
  p1 = p1
  p2 = p2
  direct = direct
  aggregator = aggregator
  None = None
  Procs = {p1, p2}
  Fleets = {{p1}, {p2}, {p1, p2}}
  Sources <- MCSources
  Policy <- MCPolicy
  DayLength = 2
  MonthLength = 4
  MaxClock = 4
  MinCovered = 2
  MaxFaults <- MCFaults
  Start <- MCStart
  Horizon <- MCHorizon
CHECK_DEADLOCK FALSE
INVARIANTS
  TypeOK
  NeverOvercharged
  BudgetsKept
  ReplayableIsWhole
  ReceiptNeverOverstates
  CoverageVouches
SYMMETRY FleetSymmetry
