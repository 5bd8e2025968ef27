SPECIFICATION Spec
CONSTANTS
  late = late
  early = early
  b1 = b1
  b2 = b2
  b3 = b3
  Unlimited = Unlimited
  None = None
  Void = "void"
  Books <- MCBooks
  Profile <- MCProfile
  Markets <- MCMarkets
  Commence <- MCCommence
  Snapshots <- MCSnapshots
  Configs <- MCConfigs
  MinNetRoi = 2
  MaxAge = 2
  Skew = 0
  InitialBankroll = 150
  StakePerOpportunity = 100
  SettlementDelay = 1
  Gaps = {1, 3}
  MaxScans = 3
  ResultTimes = {4, 7}
  MaxRecords = 2
CHECK_DEADLOCK FALSE
INVARIANTS
  TypeOK
  ReportAddsUp
  SurebetNeverLoses
  ExposureIsOpenOutlay
  ExposureIsCovered
  WalletsAddUp
  TradesPersisted
  SettledInTime
