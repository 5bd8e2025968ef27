SPECIFICATION Spec
CONSTANTS
  Procs = {p1, p2}
  dear = {r1, r2, r3}
  cheap = {r4, r5}
  oversized = {r6}
  Runs <- MCRuns
  Legs <- MCLegs
  Stake <- MCStake
  Liability <- MCStake
  MaxLegStake = 2
  MaxOrderLiability = 2
  MaxExecutionCapital = 3
  MaxLiveExecutions = 3
  MaxDailyCapital = 7
  MaxActive = 2
  None = None
  MaxDay = 1
SYMMETRY Symmetry
INVARIANTS
  PreparationBudget
  CapitalBudget
  ActiveBudget
