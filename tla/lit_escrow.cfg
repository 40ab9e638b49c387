SPECIFICATION Spec
PROPERTIES WrapsOneToOne IncentivePaidForLocking LockedForLongest
CONSTANTS
  Depositors = {first, second}
  Minting = first
  Staker = voterProxy
  NoDepositor = none
  MAXTIME = 4
  WEEK = 2
  FeeDenominator = 2
  InitialIncentive = 0
  MaxIncentive = 1
  FeeValues = {0, 1, 2}
  StartTime = 3
  MaxTime = 8
  InitialTokens = 5
