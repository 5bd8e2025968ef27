SPECIFICATION Spec
CONSTANTS
  late = late
  early = early
  b1 = b1
  b2 = b2
  b3 = b3
  Unlimited = Unlimited
  None = None
  Void = "void"
  Books <- MCBooks
  Profile <- MCProfile
  Markets <- MCMarkets
  Commence <- MCCommence
  Snapshots <- MCSnapshots
  Configs <- MCUnenforced
  MinNetRoi = 2
  MaxAge = 2
  Skew = 0
  InitialBankroll = 150
  StakePerOpportunity = 100
  SettlementDelay = 1
  Gaps = {1, 2}
  MaxScans = 4
  ResultTimes = {4, 7}
  MaxRecords = 1
CHECK_DEADLOCK FALSE
INVARIANTS
  OutlaysLeaveWallets
