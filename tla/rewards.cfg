SPECIFICATION Spec
INVARIANTS RewardSolvency
PROPERTIES AccruedRewardsKept NoRetroactiveRewards ClaimsReachOwner
CONSTANTS
  NumAccounts = 2
  Delegatees = {}
  Contracts = {1}
  Operators = {2}
  LockEpochs = 2
  RewardsDuration = 2
  StartTime = 6
  MaxTime = 8
  InitialWallet = 1
  StakingToken = LIQ
  Tokens = {oLIT}
  Olit = oLIT
  Distributors = {Booster}
  InitialTreasury = 4
  MaxRewardTokens = 1
  MinSupply = 1
  RateCap = 10
  RewardCap = 10
  MaxUint96 = 20
  Precision = 3
  NewRewardRatio = 830
  Denominator = 2
  InitialKickRate = 1
  InitialKickDelay = 2
  MaxKickRate = 2
  MinKickDelay = 2
  KickSettings <- NoKickSettings
