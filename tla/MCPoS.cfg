SPECIFICATION Spec
CONSTANTS
  Mainchain = "M"
  LockModules = {"fee", "pos"}
  UserInitFee = 0
  MaxAmount = 1000
  NumActive = 1
  NumStandby = 0
  InitRounds = 3
  MaxCap = 10000
  WeightCap = 5000
  Percent = 100
  ScaleFactor = 1
  Address = {1, 2}
  InitValidators <- MCInitValidators
  Faulty = {1}
  Names = {1, 2}
  Stakes <- MCStakes
  Commissions = {0, 1}
  TxFee = 2
  MinFee = 1
  RegistrationFee = 1
  FactorSelfStakes = 2
  MinWeightStandby = 1
  MaxSentStakes = 1
  MaxPendingUnlocks = 1
  LockingPeriod = 1
  LockingPeriodSelf = 2
  PunishmentWindow = 2
  PunishmentWindowSelf = 3
  ReportReward = 1
  ReportLimit = 2
  CommissionPeriod = 2
  MaxCommissionIncrease = 1
  MaxCommission = 2
  DefaultReward = 3
  MinimalReward = 1
  Reductions = {1}
  FailSafeMissed = 0
  FailSafeWindow = 0
  Q = 4
  Endowment = 12
  Gaps = {1, 2}
  MaxHeight = 5
  MaxSlot = 6
  MaxTransactions = 4
INVARIANTS
    TokensExact
    StoresAgree
    RoundsSound
PROPERTIES
    PunishedStaysLocked
CHECK_DEADLOCK FALSE
