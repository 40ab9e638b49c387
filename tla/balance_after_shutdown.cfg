SPECIFICATION Spec
INVARIANT BalanceOnlyLocked

CONSTANTS
  NumAccounts = 2
  Delegatees = {}
  Contracts = {}
  Operators = {}
  LockEpochs = 2
  RewardsDuration = 2
  StartTime = 6
  MaxTime = 15
  InitialWallet = 1
  StakingToken = LIQ
  Tokens = {}
  Olit = oLIT
  Distributors = {}
  InitialTreasury = 0
  MaxRewardTokens = 5
  MinSupply = 1
  RateCap = 10
  RewardCap = 10
  MaxUint96 = 100
  Precision = 2
  NewRewardRatio = 830
  Denominator = 2
  InitialKickRate = 1
  InitialKickDelay = 2
  MaxKickRate = 2
  MinKickDelay = 2
  KickSettings <- NoKickSettings
