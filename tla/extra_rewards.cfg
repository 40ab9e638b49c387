SPECIFICATION Spec
INVARIANT EntitlementsCovered
PROPERTY OnlyOwnerForfeits NoRewardBehindClaims
CONSTANTS
  NumAccounts = 2
  LockEpochs = 4
  MaxEpoch = 4
  MaxLock = 1
  RewardTokens = {BAL}
  Depositors = {depositor}
  InitialFunds = 3
  SharePrecision = 3
  MaxSupply = 3
