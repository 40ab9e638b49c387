SPECIFICATION Spec
INVARIANTS DepositsBacked ExitsOpen
PROPERTIES ClosedPoolsBringTheirTokens
CONSTANTS
  lpToken = lpToken
  NumGauges = 2
  LpTokens = {lpToken}
  LpToken <- SharedLpToken
  NumAccounts = 2
  MaxPools = 3
  FORCE_DELAY = 1
  MaxTime = 2
  InitialWallet = 1
