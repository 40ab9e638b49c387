SPECIFICATION Spec
INVARIANTS SharedWasHarvested EarmarkOpen
PROPERTIES MinterLeavesEmissions
CONSTANTS
  NumPools = 1
  Accruals = {4, 8}
  Yield = 12
  Gifts = 1
  ClaimSizes = {1, 4}
  FeeSettings <- SomeFees
  InitialFees <- EvenFees
  FeeDenominator = 8
  MaxFees = 5
  Multipliers = {2}
  EmissionsMax = 8
  TotalCliffs = 8
  CliffSlope = 4
  CliffBase = 2
  L2Cap = 20
  RewardCap = 6
  StreamCap = 8
  LockerStates <- SomeLockers
  InflationProtection = 0
  MaxWeek = 1
