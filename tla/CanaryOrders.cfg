SPECIFICATION Spec
CONSTANTS
  Procs = {p1, p2}
  dear = {o1, o2, o3}
  cheap = {o4, o5}
  Orders <- MCOrders
  Liability <- MCLiability
  MaxOrderLiability = 2
  MaxAttempts = 3
  MaxDailyLiability = 4
  None = None
  MaxDay = 1
SYMMETRY Symmetry
INVARIANTS
  SendingIsRecorded
  AttemptBudget
  LiabilityBudget
