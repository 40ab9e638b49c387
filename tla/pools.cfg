SPECIFICATION Spec
INVARIANTS PoolSolvency
PROPERTIES NoRewardStranded NoRetroactiveRewards EarningsReachOwner
CONSTANTS
  NumAccounts = 2
  Base = cvxCrvRewards
  Extras = {fees}
  Operators = {2}
  StartTime = 2
  MaxTime = 4
  InitialWallet = 1
  InitialOlit = 3
  InitialExtra = 2
  MaxExtras = 1
  PoolLimit = 1
  EpochCap = 2
  AllowanceValues = {0, 1}
  RewardsDuration = 2
  Precision = 1
  NewRewardRatio = 830
