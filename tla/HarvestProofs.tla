------------------------------ MODULE HarvestProofs ------------------------------
(***************************************************************************)
(* The emission of LIQ for every schedule, fee, multiplier and number of    *)
(* claims: it never passes its maximum, and LIQ's minter leaves it alone.   *)
(*                                                                          *)
(* The invariant is about few variables: what was minted beyond the initial *)
(* supply, the part of it that the minter minted, the multipliers and the   *)
(* shares of the stakers.  The last two make the amount that LIQ is minted  *)
(* for a natural number; more is not needed of it.                          *)
(*                                                                          *)
(* The sharing: what the reward contracts, the callers and the platform got *)
(* is what was harvested, for any number of pools, nothing of it is taken   *)
(* back, and an amount always covers the shares that are taken off it.      *)
(***************************************************************************)
EXTENDS Harvest, SharedProofs

EmissionState ==
  /\ liqSupply \in Int /\ minterMinted \in Nat
  /\ EmissionsWithinMax
  /\ fees.lock + fees.staker \in 1..FeeDenominator
  /\ \A r \in DOMAIN multiplier : multiplier[r] \in Nat

\* A rate is a natural number at every point of the schedule.
LEMMA RateIsNatural ==
  ASSUME EmissionState
  PROVE  EmissionRate \in Nat
<1>1. EmissionsMinted \in Nat
  BY DEF EmissionState, EmissionsWithinMax, EmissionsMinted
<1>2. Cliff \in Nat
  BY <1>1, HarvestAssumption DEF Cliff
<1>3. CASE Cliff < TotalCliffs
  <2>1. TotalCliffs - Cliff \in Nat
    BY <1>2, <1>3, HarvestAssumption
  <2>2. (TotalCliffs - Cliff) \div CliffSlope \in Nat
    BY <2>1, HarvestAssumption
  <2> QED BY <1>3, <2>2, HarvestAssumption DEF EmissionRate
<1>4. CASE ~(Cliff < TotalCliffs)
  BY <1>4 DEF EmissionRate
<1> QED BY <1>3, <1>4

\* What Liq.mint mints fits into what is left of the emission.
LEMMA MintedFits ==
  ASSUME EmissionState, NEW amount \in Nat
  PROVE  Minted(amount) \in 0..(EmissionsMax - EmissionsMinted)
<1>1. EmissionsMinted \in 0..EmissionsMax /\ EmissionsMax \in Nat
  BY HarvestAssumption DEF EmissionState, EmissionsWithinMax, EmissionsMinted
<1>2. amount * EmissionRate \in Nat
  <2> DEFINE rate == EmissionRate
  <2>1. rate \in Nat
    BY RateIsNatural
  <2> HIDE DEF rate
  <2>2. amount * rate \in Nat
    BY <2>1
  <2> QED BY <2>2 DEF rate
<1>3. (amount * EmissionRate) \div TotalCliffs \in Nat
  <2> DEFINE product == amount * EmissionRate
  <2>1. product \in Nat
    BY <1>2
  <2> HIDE DEF product
  <2>2. product \div TotalCliffs \in Nat
    BY <2>1, HarvestAssumption
  <2> QED BY <2>2 DEF product
<1> DEFINE share == (amount * EmissionRate) \div TotalCliffs
<1>4. share \in Nat
  BY <1>3
<1>5. Minted(amount) = IF ~minting THEN 0 ELSE AtMost(share, EmissionsMax - EmissionsMinted)
  BY DEF Minted
<1> HIDE DEF share
<1> QED BY <1>1, <1>4, <1>5 DEF AtMost

\* A mint for rewards keeps the emission within its maximum.
LEMMA MintKeeps ==
  ASSUME EmissionState, NEW amount \in Nat,
         liqSupply' = liqSupply + Minted(amount), UNCHANGED minterMinted
  PROVE  liqSupply' \in Int /\ minterMinted' \in Nat /\ EmissionsWithinMax'
<1> DEFINE minted == Minted(amount)
<1>1. minted \in 0..(EmissionsMax - (liqSupply - minterMinted))
  BY MintedFits DEF EmissionsMinted
<1>2. liqSupply' = liqSupply + minted
  OBVIOUS
<1> HIDE DEF minted
<1> QED BY <1>1, <1>2, HarvestAssumption DEF EmissionState, EmissionsWithinMax

\* The initial supply is outside the emission.
LEMMA EmissionInit ==
  ASSUME Init
  PROVE  EmissionState
BY HarvestAssumption DEF Init, EmissionState, EmissionsWithinMax

\* Every step keeps the emission below its maximum.
LEMMA EmissionStep ==
  ASSUME EmissionState, [Next]_vars
  PROVE  EmissionState'
<1> USE DEF vars, tokenVars, settingVars, liqVars, l2Vars
<1>1. ASSUME UNCHANGED <<liqSupply, minterMinted, multiplier, fees>>
      PROVE  EmissionState'
  BY <1>1 DEF EmissionState, EmissionsWithinMax
<1>2. ASSUME NEW amount \in Nat, liqSupply' = liqSupply + Minted(amount),
             UNCHANGED <<minterMinted, multiplier, fees>>
      PROVE  EmissionState'
  <2>1. liqSupply' \in Int /\ minterMinted' \in Nat /\ EmissionsWithinMax'
    BY <1>2, MintKeeps
  <2> QED BY <1>2, <2>1 DEF EmissionState
<1>3. CASE UNCHANGED vars
  BY <1>1, <1>3
<1>4. CASE \E p \in Pools :
             \/ \E minterWorks, stashWorks, streaming \in BOOLEAN, locker \in LockerStates :
                  EarmarkRewards(p, minterWorks, stashWorks, locker, streaming)
             \/ \E amount \in Accruals : Accrue(p, amount)
             \/ ShutdownPool(p)
  BY <1>1, <1>4 DEF EarmarkRewards, Accrue, ShutdownPool
<1>5. CASE \E amount \in Accruals : EarmarkFees(amount)
  BY <1>1, <1>5 DEF EarmarkFees
<1>6. ASSUME NEW amount \in Accruals, NEW locker \in LockerStates, NEW streaming \in BOOLEAN,
             DistributeL2Fees(amount, locker, streaming)
      PROVE  EmissionState'
  <2> DEFINE farmed == (amount * FeeDenominator) \div (fees.lock + fees.staker) - amount
  <2>1. farmed \in Nat
    <3> DEFINE product == amount * FeeDenominator
               incentives == fees.lock + fees.staker
    <3>1. amount \in Nat /\ FeeDenominator \in Nat
      BY HarvestAssumption
    <3>2. product \in Nat /\ incentives \in Nat \ {0}
      BY <3>1 DEF EmissionState
    <3>3. product \div incentives >= amount
      BY <1>6 DEF DistributeL2Fees
    <3> HIDE DEF product, incentives
    <3>4. product \div incentives \in Nat
      BY <3>2
    <3>5. product \div incentives - amount \in Nat
      BY <3>1, <3>3, <3>4
    <3> QED BY <3>5 DEF product, incentives
  <2>2. liqSupply' = liqSupply + Minted(farmed) /\ UNCHANGED <<minterMinted, multiplier, fees>>
    BY <1>6 DEF DistributeL2Fees
  <2> HIDE DEF farmed
  <2> QED BY <1>2, <2>1, <2>2
<1>7. ASSUME NEW r \in DOMAIN multiplier, NEW amount \in ClaimSizes, RewardClaimed(r, amount)
      PROVE  EmissionState'
  <2> DEFINE weighted == amount * multiplier[r]
  <2>1. weighted \in Nat
    <3>1. amount \in Nat /\ multiplier[r] \in Nat
      BY <1>7, HarvestAssumption DEF EmissionState
    <3> QED BY <3>1
  <2>2. liqSupply' = liqSupply + Minted(weighted) /\ UNCHANGED <<minterMinted, multiplier, fees>>
    BY <1>7 DEF RewardClaimed
  <2> HIDE DEF weighted
  <2> QED BY <1>2, <2>1, <2>2
<1>8. ASSUME NEW r \in DOMAIN multiplier, NEW m \in Multipliers, SetRewardMultiplier(r, m)
      PROVE  EmissionState'
  BY <1>8, HarvestAssumption DEF SetRewardMultiplier, EmissionState, EmissionsWithinMax
<1>9. ASSUME NEW f \in FeeSettings, SetFees(f)
      PROVE  EmissionState'
  BY <1>9, HarvestAssumption DEF SetFees, EmissionState, EmissionsWithinMax
<1>10. CASE MinterMint
  <2>1. ReductionPerCliff + 1 \in Nat
    BY HarvestAssumption
  <2> QED BY <1>10, <2>1, HarvestAssumption DEF MinterMint, EmissionState, EmissionsWithinMax
<1>11. CASE SetTreasury \/ ShutdownSystem \/ UpdateOperator \/ Gift \/ LockersChange \/ NextWeek
  BY <1>1, <1>11 DEF SetTreasury, ShutdownSystem, UpdateOperator, Gift, LockersChange, NextWeek
<1> QED BY <1>3, <1>4, <1>5, <1>6, <1>7, <1>8, <1>9, <1>10, <1>11 DEF Next

\* LIQ emitted for rewards never passes EMISSIONS_MAX_SUPPLY (Liq.sol:88-116).
THEOREM EmissionEnds == Spec => []EmissionsWithinMax
<1>1. Init => EmissionState
  BY EmissionInit
<1>2. EmissionState /\ [Next]_vars => EmissionState'
  BY EmissionStep
<1>3. EmissionState => EmissionsWithinMax
  BY DEF EmissionState
<1> QED BY <1>1, <1>2, <1>3, PTL DEF Spec

\* What LIQ's minter mints leaves the rate of the emission as it was
\* (Liq.sol:94, 121-125).
THEOREM EmissionUndisturbed == Spec => MinterLeavesEmissions
<1>1. Init => EmissionState
  BY EmissionInit
<1>2. EmissionState /\ [Next]_vars => EmissionState'
  BY EmissionStep
<1>3. EmissionState /\ [Next]_vars => [minterMinted' # minterMinted => EmissionRate' = EmissionRate]_vars
  <2> SUFFICES ASSUME EmissionState, Next, minterMinted' # minterMinted
               PROVE  EmissionRate' = EmissionRate
    OBVIOUS
  <2>1. MinterMint
    BY DEF Next, EarmarkRewards, Accrue, ShutdownPool, EarmarkFees, DistributeL2Fees, RewardClaimed,
           SetRewardMultiplier, SetFees, SetTreasury, ShutdownSystem, UpdateOperator, Gift,
           LockersChange, NextWeek, liqVars
  <2>2. ReductionPerCliff + 1 \in Nat
    BY HarvestAssumption
  <2>3. EmissionsMinted' = EmissionsMinted
    <3> DEFINE minted == ReductionPerCliff + 1
    <3>1. minterMinted = 0 /\ minterMinted' = minted /\ liqSupply' = liqSupply + minted
      BY <2>1 DEF MinterMint
    <3>2. minted \in Nat /\ liqSupply \in Int
      BY <2>2 DEF EmissionState
    <3> HIDE DEF minted
    <3> QED BY <3>1, <3>2 DEF EmissionsMinted
  <2> QED BY <2>3 DEF EmissionRate, Cliff
<1> QED BY <1>1, <1>2, <1>3, PTL DEF Spec, MinterLeavesEmissions

----------------------------------------------------------------------------------
(* What is shared out *)

FeeType == [lock: Nat, staker: Nat, caller: Nat, platform: Nat]

\* What the sharing needs to know of the rest of the state.
HarvestState ==
  /\ accrued \in [Pools -> Nat]
  /\ inBooster \in Int /\ inProxy \in Nat
  /\ given \in [Contracts -> Int]
  /\ feesPaid \in Int /\ yielded \in Int
  /\ {fees.lock, fees.staker, fees.caller, fees.platform} \subseteq Nat

Shared == HarvestState /\ SharedWasHarvested

\* A share is a number, whatever the amount.
LEMMA ShareIsNumber ==
  ASSUME NEW amount \in Nat, NEW part \in Nat
  PROVE  Share(amount, part) \in Int
<1> DEFINE product == amount * part
<1>1. product \in Nat /\ FeeDenominator \in Nat \ {0}
  BY MulNat, HarvestAssumption
<1> HIDE DEF product
<1>2. product \div FeeDenominator \in Int
  BY <1>1
<1> QED BY <1>2 DEF Share, product

\* Queueing an amount with a contract adds it to what they were given together.
LEMMA GivenToOne ==
  ASSUME NEW g \in [Contracts -> Int], NEW h \in [Contracts -> Int], NEW r \in Contracts,
         NEW a \in Int, h[r] = g[r] + a, \A i \in Contracts : i # r => h[i] = g[i]
  PROVE  /\ SumTo(g, NumPools + 2) \in Int
         /\ SumTo(h, NumPools + 2) = SumTo(g, NumPools + 2) + a
<1> DEFINE n == NumPools + 2
<1>1. n \in Nat /\ Contracts = 1..n
  BY HarvestAssumption DEF Contracts
<1>2. r \in 1..n /\ \A i \in 1..n : g[i] \in Int /\ h[i] \in Int
  BY <1>1
<1>3. \A i \in 1..n : i # r => h[i] = g[i]
  BY <1>1
<1> HIDE DEF n
<1>4. SumTo(h, n) = SumTo(g, n) + h[r] - g[r] /\ SumTo(g, n) \in Int
  BY ONLY <1>1, <1>2, <1>3, SumToUpdate, SumToUnfold
<1>5. SumTo(h, n) = SumTo(g, n) + a
  BY <1>2, <1>4
<1> QED BY <1>4, <1>5 DEF n

\* The contracts are apart.
LEMMA ContractsApart ==
  /\ LockRewards \in Contracts /\ StakerRewards \in Contracts /\ Pools \subseteq Contracts
  /\ LockRewards # StakerRewards
  /\ \A p \in Pools : p # LockRewards /\ p # StakerRewards
BY HarvestAssumption DEF Contracts, Pools, LockRewards, StakerRewards

\* Queueing amounts with the stakers' two contracts.
LEMMA GivenToStakers ==
  ASSUME NEW g \in [Contracts -> Int], NEW h \in [Contracts -> Int],
         \A i \in Contracts \ {LockRewards, StakerRewards} : h[i] = g[i]
  PROVE  /\ SumTo(g, NumPools + 2) \in Int
         /\ SumTo(h, NumPools + 2) = SumTo(g, NumPools + 2)
              + (h[LockRewards] - g[LockRewards]) + (h[StakerRewards] - g[StakerRewards])
<1> DEFINE k == [i \in Contracts |-> IF i = LockRewards THEN h[i] ELSE g[i]]
           b == h[LockRewards] - g[LockRewards]
           c == h[StakerRewards] - g[StakerRewards]
<1>1. k \in [Contracts -> Int] /\ b \in Int /\ c \in Int
  BY ContractsApart
<1>2. k[LockRewards] = g[LockRewards] + b /\ \A i \in Contracts : i # LockRewards => k[i] = g[i]
  BY ContractsApart
<1>3. h[StakerRewards] = k[StakerRewards] + c /\ \A i \in Contracts : i # StakerRewards => h[i] = k[i]
  BY ContractsApart
<1> HIDE DEF k, b, c
<1>4. SumTo(g, NumPools + 2) \in Int /\ SumTo(k, NumPools + 2) = SumTo(g, NumPools + 2) + b
  BY <1>1, <1>2, ContractsApart, GivenToOne
<1>5. SumTo(h, NumPools + 2) = SumTo(k, NumPools + 2) + c
  BY <1>1, <1>3, ContractsApart, GivenToOne
<1>6. SumTo(h, NumPools + 2) = SumTo(g, NumPools + 2) + b + c
  BY <1>4, <1>5
<1> QED BY <1>4, <1>6 DEF b, c

\* Queueing amounts with a pool and the stakers' two contracts.
LEMMA GivenAdds ==
  ASSUME NEW g \in [Contracts -> Int], NEW h \in [Contracts -> Int], NEW p \in Pools,
         \A i \in Contracts \ {p, LockRewards, StakerRewards} : h[i] = g[i]
  PROVE  /\ SumTo(g, NumPools + 2) \in Int
         /\ SumTo(h, NumPools + 2) = SumTo(g, NumPools + 2) + (h[p] - g[p])
              + (h[LockRewards] - g[LockRewards]) + (h[StakerRewards] - g[StakerRewards])
<1> DEFINE k == [i \in Contracts |-> IF i = p THEN h[i] ELSE g[i]]
           a == h[p] - g[p]
           b == h[LockRewards] - g[LockRewards]
           c == h[StakerRewards] - g[StakerRewards]
<1>1. k \in [Contracts -> Int] /\ p \in Contracts
  BY ContractsApart
<1>2. a \in Int /\ b \in Int /\ c \in Int
  BY <1>1, ContractsApart
<1>3. k[p] = g[p] + a /\ \A i \in Contracts : i # p => k[i] = g[i]
  BY <1>1
<1>4. /\ b = h[LockRewards] - k[LockRewards] /\ c = h[StakerRewards] - k[StakerRewards]
      /\ \A i \in Contracts \ {LockRewards, StakerRewards} : h[i] = k[i]
  BY ContractsApart
<1> HIDE DEF k, a, b, c
<1>5. SumTo(g, NumPools + 2) \in Int /\ SumTo(k, NumPools + 2) = SumTo(g, NumPools + 2) + a
  BY <1>1, <1>2, <1>3, GivenToOne
<1>6. SumTo(h, NumPools + 2) = SumTo(k, NumPools + 2)
        + (h[LockRewards] - k[LockRewards]) + (h[StakerRewards] - k[StakerRewards])
  BY <1>1, <1>4, GivenToStakers
<1>7. SumTo(h, NumPools + 2) = SumTo(g, NumPools + 2) + a + b + c
  BY <1>4, <1>5, <1>6
<1> QED BY <1>5, <1>7 DEF a, b, c

\* Nothing is given in a step that leaves the four numbers alone.
LEMMA SameShared ==
  ASSUME SharedWasHarvested, UNCHANGED <<given, feesPaid, yielded>>
  PROVE  SharedWasHarvested'
BY DEF SharedWasHarvested

\* A new Booster has shared out nothing.
LEMMA SharedInit ==
  ASSUME Init
  PROVE  Shared
<1>1. HarvestState
  BY HarvestAssumption DEF Init, HarvestState
<1>2. NumPools + 2 \in Nat /\ given = [i \in 1..(NumPools + 2) |-> 0]
  BY HarvestAssumption DEF Init, Contracts
<1>3. SumTo(given, NumPools + 2) = 0
  BY <1>2, SumOfZeros
<1> QED BY <1>1, <1>3 DEF Shared, SharedWasHarvested, Init

\* A harvest shares out what the gauge yielded: the claim that fails shares out
\* nothing, as its one subtraction only succeeds when nothing lies idle.
LEMMA EarmarkShares ==
  ASSUME Shared, NEW p \in Pools, NEW minterWorks \in BOOLEAN, NEW stashWorks \in BOOLEAN, NEW locker \in LockerStates,
         NEW streaming \in BOOLEAN, EarmarkRewards(p, minterWorks, stashWorks, locker, streaming)
  PROVE  Shared'
<1> DEFINE balances == IF minterWorks THEN ClaimCrv(p) ELSE ClaimFailed
           crvBal == balances.booster - (inBooster + inProxy)
           lock == Share(crvBal, fees.lock)
           staker == Share(crvBal, fees.staker)
           call == Share(crvBal, fees.caller)
           toPlatform == IF treasurySet THEN Share(crvBal, fees.platform) ELSE 0
           idle == IF treasurySet THEN inBooster + inProxy ELSE 0
           rest == crvBal - lock - staker - call - toPlatform
<1>1. HarvestState /\ SharedWasHarvested
  BY DEF Shared
<1>2. /\ crvBal >= 0
      /\ inBooster' = balances.booster - crvBal - idle
      /\ inProxy' = balances.proxy
      /\ feesPaid' = feesPaid + call + toPlatform
      /\ given' = [given EXCEPT ![p] = @ + crvBal - lock - staker - call - toPlatform,
                                ![LockRewards] = @ + lock,
                                ![StakerRewards] = @ + staker]
      /\ yielded' = IF minterWorks THEN yielded + accrued[p] ELSE yielded
      /\ accrued' = IF minterWorks THEN [accrued EXCEPT ![p] = 0] ELSE accrued
      /\ UNCHANGED fees
  BY DEF EarmarkRewards, Distribute, IdleBefore, settingVars
<1>3. accrued[p] \in Nat /\ inBooster \in Int /\ inProxy \in Nat
  BY <1>1 DEF HarvestState
<1>4. /\ balances.booster \in Int /\ balances.proxy \in Nat
      /\ crvBal = IF minterWorks THEN accrued[p] ELSE 0
  <2>1. CASE minterWorks
    BY <2>1, <1>3 DEF ClaimCrv
  <2>2. CASE ~minterWorks
    BY <2>2, <1>2, <1>3 DEF ClaimFailed
  <2> QED BY <2>1, <2>2
<1>5. crvBal \in Nat
  BY <1>3, <1>4
<1> HIDE DEF crvBal, balances
<1>6. {lock, staker, call, toPlatform, idle} \subseteq Int
  <2>1. fees.lock \in Nat /\ fees.staker \in Nat /\ fees.caller \in Nat /\ fees.platform \in Nat
    BY <1>1 DEF HarvestState
  <2>2. /\ lock \in Int /\ staker \in Int /\ call \in Int
        /\ Share(crvBal, fees.platform) \in Int
    BY <1>5, <2>1, ShareIsNumber
  <2> QED BY <1>3, <2>2
<1> HIDE DEF lock, staker, call, toPlatform, idle
<1>7. /\ rest \in Int /\ crvBal = rest + lock + staker + call + toPlatform
      /\ lock \in Int /\ staker \in Int /\ call \in Int /\ toPlatform \in Int
  BY <1>5, <1>6
<1>8. /\ given \in [Contracts -> Int] /\ given' \in [Contracts -> Int]
      /\ given'[p] = given[p] + rest
      /\ given'[LockRewards] = given[LockRewards] + lock
      /\ given'[StakerRewards] = given[StakerRewards] + staker
      /\ \A i \in Contracts \ {p, LockRewards, StakerRewards} : given'[i] = given[i]
  <2>1. given \in [Contracts -> Int]
    BY <1>1 DEF HarvestState
  <2>2. given'[p] = given[p] + crvBal - lock - staker - call - toPlatform
    BY <1>2, <2>1, ContractsApart
  <2>3. given[p] \in Int /\ given[LockRewards] \in Int /\ given[StakerRewards] \in Int
    BY <2>1, ContractsApart
  <2>4. given'[p] = given[p] + rest
    BY <1>5, <1>6, <2>2, <2>3
  <2>5. /\ given'[LockRewards] = given[LockRewards] + lock
        /\ given'[StakerRewards] = given[StakerRewards] + staker
        /\ \A i \in Contracts \ {p, LockRewards, StakerRewards} : given'[i] = given[i]
        /\ DOMAIN given' = Contracts /\ given' = [i \in Contracts |-> given'[i]]
    BY <1>2, <2>1, ContractsApart
  <2>6. \A i \in Contracts : given'[i] \in Int
    <3> HIDE DEF rest
    <3>1. /\ given'[p] \in Int /\ given'[LockRewards] \in Int /\ given'[StakerRewards] \in Int
          /\ \A i \in Contracts \ {p, LockRewards, StakerRewards} : given'[i] \in Int
      BY <1>7, <2>1, <2>3, <2>4, <2>5
    <3> QED BY <3>1
  <2>7. given' \in [Contracts -> Int]
    BY <2>5, <2>6
  <2> QED BY <2>1, <2>4, <2>5, <2>7
<1> HIDE DEF rest
<1>9. rest \in Int /\ lock \in Int /\ staker \in Int
  BY <1>7
<1>10. /\ SumTo(given, NumPools + 2) \in Int
       /\ SumTo(given', NumPools + 2) = SumTo(given, NumPools + 2) + rest + lock + staker
  <2> DEFINE g == given
             h == given'
  <2>1. g \in [Contracts -> Int] /\ h \in [Contracts -> Int]
    BY <1>8
  <2>2. /\ h[p] = g[p] + rest
        /\ h[LockRewards] = g[LockRewards] + lock
        /\ h[StakerRewards] = g[StakerRewards] + staker
    BY <1>8
  <2>3. \A i \in Contracts \ {p, LockRewards, StakerRewards} : h[i] = g[i]
    BY <1>8
  <2> HIDE DEF g, h
  <2>4. p \in Pools
    OBVIOUS
  <2>5. /\ SumTo(g, NumPools + 2) \in Int
        /\ SumTo(h, NumPools + 2) = SumTo(g, NumPools + 2) + (h[p] - g[p])
             + (h[LockRewards] - g[LockRewards]) + (h[StakerRewards] - g[StakerRewards])
    BY ONLY <2>1, <2>3, <2>4, GivenAdds
  <2>6. g[p] \in Int /\ g[LockRewards] \in Int /\ g[StakerRewards] \in Int
    BY <2>1, ContractsApart
  <2>7. SumTo(h, NumPools + 2) = SumTo(g, NumPools + 2) + rest + lock + staker
    BY ONLY <1>9, <2>2, <2>5, <2>6
  <2> QED BY <2>5, <2>7 DEF g, h
<1>11. yielded' = yielded + crvBal
  BY <1>1, <1>2, <1>4 DEF HarvestState
<1>12. feesPaid \in Int /\ yielded \in Int
  BY <1>1 DEF HarvestState
<1>13. SharedWasHarvested'
  <2>1. SumTo(given, NumPools + 2) + feesPaid = yielded
    BY <1>1 DEF SharedWasHarvested
  <2>2. SumTo(given', NumPools + 2) + feesPaid' = yielded'
    BY <1>2, <1>5, <1>7, <1>10, <1>11, <1>12, <2>1
  <2> QED BY <2>2 DEF SharedWasHarvested
<1>14. accrued' \in [Pools -> Nat]
  BY <1>1, <1>2 DEF HarvestState
<1>15. HarvestState'
  BY <1>1, <1>2, <1>4, <1>5, <1>6, <1>7, <1>8, <1>11, <1>12, <1>14 DEF HarvestState
<1> QED BY <1>13, <1>15 DEF Shared

\* The fees for the stakers of liqLIT are what the distributor yielded.
LEMMA FeesShare ==
  ASSUME Shared, NEW amount \in Accruals, EarmarkFees(amount)
  PROVE  Shared'
<1>1. HarvestState /\ SharedWasHarvested
  BY DEF Shared
<1>2. amount \in Nat
  BY HarvestAssumption
<1>3. /\ given \in [Contracts -> Int] /\ given' \in [Contracts -> Int]
      /\ given'[LockRewards] = given[LockRewards] + amount
      /\ \A i \in Contracts : i # LockRewards => given'[i] = given[i]
  <2>1. given \in [Contracts -> Int] /\ given' = [given EXCEPT ![LockRewards] = @ + amount]
    BY <1>1 DEF HarvestState, EarmarkFees
  <2> QED BY <1>2, <2>1, ContractsApart
<1>4. /\ SumTo(given, NumPools + 2) \in Int
      /\ SumTo(given', NumPools + 2) = SumTo(given, NumPools + 2) + amount
  <2> DEFINE g == given
             h == given'
  <2>1. /\ g \in [Contracts -> Int] /\ h \in [Contracts -> Int] /\ amount \in Int
        /\ h[LockRewards] = g[LockRewards] + amount
        /\ \A i \in Contracts : i # LockRewards => h[i] = g[i]
    BY <1>2, <1>3
  <2> HIDE DEF g, h
  <2>2. /\ SumTo(g, NumPools + 2) \in Int
        /\ SumTo(h, NumPools + 2) = SumTo(g, NumPools + 2) + amount
    BY <2>1, ContractsApart, GivenToOne
  <2> QED BY <2>2 DEF g, h
<1>5. yielded' = yielded + amount /\ feesPaid' = feesPaid /\ yielded \in Int /\ feesPaid \in Int
  BY <1>1 DEF EarmarkFees, HarvestState
<1>6. SharedWasHarvested'
  <2>1. SumTo(given, NumPools + 2) + feesPaid = yielded
    BY <1>1 DEF SharedWasHarvested
  <2> DEFINE before == SumTo(given, NumPools + 2)
             after == SumTo(given', NumPools + 2)
  <2>2. before \in Int /\ after = before + amount /\ before + feesPaid = yielded
    BY <1>4, <2>1
  <2> HIDE DEF before, after
  <2>3. after + feesPaid' = yielded'
    BY <1>2, <1>5, <2>2
  <2> QED BY <2>3 DEF SharedWasHarvested, after
<1>7. HarvestState'
  BY <1>1, <1>2, <1>3, <1>5 DEF EarmarkFees, HarvestState, settingVars
<1> QED BY <1>6, <1>7 DEF Shared

\* What the bridge brings goes to the two kinds of stakers, all of it.
LEMMA L2FeesShare ==
  ASSUME Shared, NEW amount \in Accruals, NEW locker \in LockerStates, NEW streaming \in BOOLEAN,
         DistributeL2Fees(amount, locker, streaming), EmissionState
  PROVE  Shared'
<1>1. HarvestState /\ SharedWasHarvested
  BY DEF Shared
<1>2. amount \in Nat
  BY HarvestAssumption
<1> DEFINE product == amount * fees.lock
           incentives == fees.lock + fees.staker
           lock == product \div incentives
           staker == amount - lock
<1>3. lock \in Int /\ staker \in Int /\ amount = lock + staker
  <2>1. product \in Nat
    BY <1>1, <1>2, MulNat DEF HarvestState
  <2>2. incentives \in Nat \ {0}
    BY HarvestAssumption DEF EmissionState
  <2> HIDE DEF product, incentives
  <2>3. product \div incentives \in Int
    BY <2>1, <2>2
  <2> QED BY <1>2, <2>3
<1>4. given \in [Contracts -> Int]
      /\ given' = [given EXCEPT ![LockRewards] = @ + lock, ![StakerRewards] = @ + amount - lock]
      /\ yielded' = yielded + amount /\ feesPaid' = feesPaid /\ yielded \in Int /\ feesPaid \in Int
      /\ UNCHANGED <<accrued, inBooster, inProxy, fees>>
  BY <1>1 DEF DistributeL2Fees, HarvestState, settingVars
<1> HIDE DEF lock
<1>5. /\ given' \in [Contracts -> Int]
      /\ given'[LockRewards] = given[LockRewards] + lock
      /\ given'[StakerRewards] = given[StakerRewards] + staker
      /\ \A i \in Contracts \ {LockRewards, StakerRewards} : given'[i] = given[i]
  <2>1. given[LockRewards] \in Int /\ given[StakerRewards] \in Int
    BY <1>4, ContractsApart
  <2>2. /\ given'[LockRewards] = given[LockRewards] + lock
        /\ given'[StakerRewards] = given[StakerRewards] + amount - lock
        /\ \A i \in Contracts \ {LockRewards, StakerRewards} : given'[i] = given[i]
        /\ given' = [i \in Contracts |-> given'[i]]
    BY <1>4, ContractsApart
  <2>3. given'[StakerRewards] = given[StakerRewards] + staker
    BY <1>2, <1>3, <2>1, <2>2
  <2>4. \A i \in Contracts : given'[i] \in Int
    BY <1>3, <1>4, <2>1, <2>2, <2>3
  <2> QED BY <2>2, <2>3, <2>4
<1> HIDE DEF staker
<1>6. /\ SumTo(given, NumPools + 2) \in Int
      /\ SumTo(given', NumPools + 2) = SumTo(given, NumPools + 2) + amount
  <2> DEFINE g == given
             h == given'
  <2>1. g \in [Contracts -> Int] /\ h \in [Contracts -> Int]
    BY <1>4, <1>5
  <2>2. h[LockRewards] = g[LockRewards] + lock /\ h[StakerRewards] = g[StakerRewards] + staker
    BY <1>5
  <2>3. \A i \in Contracts \ {LockRewards, StakerRewards} : h[i] = g[i]
    BY <1>5
  <2>4. g[LockRewards] \in Int /\ g[StakerRewards] \in Int
    BY <2>1, ContractsApart
  <2> HIDE DEF g, h
  <2>5. /\ SumTo(g, NumPools + 2) \in Int
        /\ SumTo(h, NumPools + 2) = SumTo(g, NumPools + 2)
             + (h[LockRewards] - g[LockRewards]) + (h[StakerRewards] - g[StakerRewards])
    BY ONLY <2>1, <2>3, GivenToStakers
  <2>6. SumTo(h, NumPools + 2) = SumTo(g, NumPools + 2) + amount
    BY ONLY <1>3, <2>2, <2>4, <2>5
  <2> QED BY <2>5, <2>6 DEF g, h
<1>7. SharedWasHarvested'
  <2>1. SumTo(given, NumPools + 2) + feesPaid = yielded
    BY <1>1 DEF SharedWasHarvested
  <2>2. SumTo(given', NumPools + 2) + feesPaid' = yielded'
    BY <1>1, <1>2, <1>4, <1>6, <2>1
  <2> QED BY <2>2 DEF SharedWasHarvested
<1>8. HarvestState'
  BY <1>1, <1>2, <1>4, <1>5 DEF HarvestState
<1> QED BY <1>7, <1>8 DEF Shared

\* Every step shares out exactly what it harvests.
LEMMA SharedStep ==
  ASSUME Shared, EmissionState, [Next]_vars
  PROVE  Shared'
<1> USE DEF vars, tokenVars, settingVars, liqVars, l2Vars
<1>1. HarvestState /\ SharedWasHarvested
  BY DEF Shared
<1>2. ASSUME HarvestState', UNCHANGED <<given, feesPaid, yielded>> PROVE Shared'
  BY <1>1, <1>2, SameShared DEF Shared
<1>3. ASSUME UNCHANGED <<accrued, inBooster, inProxy, given, feesPaid, yielded, fees>> PROVE Shared'
  <2>1. HarvestState'
    BY <1>1, <1>3 DEF HarvestState
  <2> QED BY <1>2, <1>3, <2>1
<1>4. CASE UNCHANGED vars
  BY <1>3, <1>4
<1>5. ASSUME NEW p \in Pools, NEW minterWorks \in BOOLEAN, NEW stashWorks \in BOOLEAN, NEW locker \in LockerStates,
             NEW streaming \in BOOLEAN, EarmarkRewards(p, minterWorks, stashWorks, locker, streaming)
      PROVE  Shared'
  BY <1>5, EarmarkShares
<1>6. ASSUME NEW p \in Pools, NEW amount \in Accruals, Accrue(p, amount) PROVE Shared'
  <2>1. amount \in Nat
    BY HarvestAssumption
  <2>2. accrued' \in [Pools -> Nat]
    BY <1>1, <1>6, <2>1 DEF Accrue, HarvestState
  <2>3. HarvestState'
    BY <1>1, <1>6, <2>2 DEF Accrue, HarvestState
  <2> QED BY <1>2, <1>6, <2>3 DEF Accrue
<1>7. ASSUME NEW p \in Pools, ShutdownPool(p) PROVE Shared'
  BY <1>3, <1>7 DEF ShutdownPool
<1>8. ASSUME NEW amount \in Accruals, EarmarkFees(amount) PROVE Shared'
  BY <1>8, FeesShare
<1>9. ASSUME NEW amount \in Accruals, NEW locker \in LockerStates, NEW streaming \in BOOLEAN,
             DistributeL2Fees(amount, locker, streaming)
      PROVE  Shared'
  BY <1>9, L2FeesShare
<1>10. ASSUME NEW r \in DOMAIN multiplier, NEW amount \in ClaimSizes, RewardClaimed(r, amount)
       PROVE  Shared'
  BY <1>3, <1>10 DEF RewardClaimed
<1>11. ASSUME NEW r \in DOMAIN multiplier, NEW m \in Multipliers, SetRewardMultiplier(r, m)
       PROVE  Shared'
  BY <1>3, <1>11 DEF SetRewardMultiplier
<1>12. ASSUME NEW f \in FeeSettings, SetFees(f) PROVE Shared'
  <2>1. HarvestState'
    BY <1>1, <1>12, HarvestAssumption DEF SetFees, HarvestState
  <2> QED BY <1>2, <1>12, <2>1 DEF SetFees
<1>13. CASE Gift
  <2>1. HarvestState'
    BY <1>1, <1>13 DEF Gift, HarvestState
  <2> QED BY <1>2, <1>13, <2>1 DEF Gift
<1>14. CASE MinterMint \/ SetTreasury \/ ShutdownSystem \/ UpdateOperator \/ LockersChange \/ NextWeek
  BY <1>3, <1>14 DEF MinterMint, SetTreasury, ShutdownSystem, UpdateOperator, LockersChange, NextWeek
<1> QED BY <1>4, <1>5, <1>6, <1>7, <1>8, <1>9, <1>10, <1>11, <1>12, <1>13, <1>14 DEF Next

\* What the reward contracts, the callers and the platform got is exactly what was
\* harvested, with any number of pools and whatever fails or is sent in between
\* (Booster.sol:628-695, 713-786).
THEOREM SharedOut == Spec => []SharedWasHarvested
<1>1. Init => Shared /\ EmissionState
  BY SharedInit, EmissionInit
<1>2. Shared /\ EmissionState /\ [Next]_vars => Shared' /\ EmissionState'
  BY SharedStep, EmissionStep
<1>3. Shared => SharedWasHarvested
  BY DEF Shared
<1> QED BY <1>1, <1>2, <1>3, PTL DEF Spec

----------------------------------------------------------------------------------
(* A harvest is covered *)

\* The subtractions of a harvest besides the first of a claim that failed: what is
\* counted as claimed is what the gauge owed, and the shares of the stakers, the
\* caller and the platform together never exceed the amount they are shares of,
\* whoever set the fees and however they round (Booster.sol:646, 673, 678), so that
\* the pool's own share, which is what they leave, is never negative.
HarvestCovered ==
  /\ inBooster \in Nat /\ inProxy \in Nat
  /\ \A p \in Pools : accrued[p] \in Nat /\ ClaimCrv(p).booster - IdleBefore = accrued[p]
  /\ \A amount \in Nat :
       Share(amount, fees.platform) + Share(amount, fees.lock) + Share(amount, fees.caller)
         + Share(amount, fees.staker) \in 0..amount

\* What a reward contract, the callers or the platform got is theirs: no later
\* harvest, fee, bridge transfer or setting takes it back to make another whole.
NothingTakenBack ==
  [][/\ \A r \in Contracts : given[r] <= given'[r]
     /\ feesPaid <= feesPaid']_vars

TotalFees == fees.lock + fees.staker + fees.caller + fees.platform

\* What HarvestCovered rests on.
Covered == HarvestState /\ EmissionState /\ inBooster \in Nat /\ TotalFees <= FeeDenominator

\* A share is at most its part of the amount.
LEMMA ShareRoundsDown ==
  ASSUME NEW amount \in Nat, NEW part \in Nat
  PROVE  Share(amount, part) \in Nat /\ FeeDenominator * Share(amount, part) <= amount * part
<1> DEFINE product == amount * part
<1>1. product \in Nat /\ FeeDenominator \in Nat /\ FeeDenominator > 0
  BY MulNat, HarvestAssumption
<1>2. Share(amount, part) = product \div FeeDenominator
  BY DEF Share
<1> HIDE DEF product
<1>3. Share(amount, part) \in Nat /\ FeeDenominator * Share(amount, part) <= product
  BY <1>1, <1>2, DivRoundsDown
<1> QED BY <1>3 DEF product

\* Shares of parts that add up to at most the whole fit into the amount.
LEMMA SharesFit ==
  ASSUME NEW amount \in Nat, NEW a \in Nat, NEW b \in Nat, NEW c \in Nat, NEW d \in Nat,
         a + b + c + d <= FeeDenominator
  PROVE  /\ Share(amount, a) \in Nat /\ Share(amount, b) \in Nat
         /\ Share(amount, c) \in Nat /\ Share(amount, d) \in Nat
         /\ Share(amount, a) + Share(amount, b) + Share(amount, c) + Share(amount, d) <= amount
<1> DEFINE D == FeeDenominator
           A == Share(amount, a)
           B == Share(amount, b)
           C == Share(amount, c)
           E == Share(amount, d)
<1>1. D \in Nat /\ D > 0
  BY HarvestAssumption
<1>2. /\ A \in Nat /\ D * A <= amount * a
      /\ B \in Nat /\ D * B <= amount * b
      /\ C \in Nat /\ D * C <= amount * c
      /\ E \in Nat /\ D * E <= amount * d
  BY ShareRoundsDown
<1> HIDE DEF A, B, C, E
<1>3. a + b + c + d <= D
  OBVIOUS
<1> HIDE DEF D
<1>4. D * (A + B + C + E) <= amount * D
  <2>1. D * (A + B + C + E) = D * A + D * B + D * C + D * E
    BY <1>1, <1>2
  <2>2. amount * (a + b + c + d) = amount * a + amount * b + amount * c + amount * d
    OBVIOUS
  <2>3. amount * (a + b + c + d) <= amount * D
    BY <1>1, <1>3, MulMonotone
  <2>4. /\ amount * a \in Nat /\ amount * b \in Nat /\ amount * c \in Nat /\ amount * d \in Nat
        /\ D * A \in Nat /\ D * B \in Nat /\ D * C \in Nat /\ D * E \in Nat /\ amount * D \in Nat
    BY <1>1, <1>2, MulNat
  <2>5. D * A + D * B + D * C + D * E <= amount * a + amount * b + amount * c + amount * d
    BY <1>2, <2>4
  <2> QED BY <2>1, <2>2, <2>3, <2>4, <2>5
<1>5. A + B + C + E <= amount
  <2>1. amount * D = D * amount /\ A + B + C + E \in Int
    BY <1>1, <1>2
  <2> QED BY <1>1, <1>4, <2>1, MulCancels
<1> QED BY <1>2, <1>5 DEF A, B, C, E

\* The locker's or the stakers' part of what the bridge brings is no more than it.
LEMMA PartFits ==
  ASSUME NEW amount \in Nat, NEW part \in Nat, NEW whole \in Nat, whole > 0, part <= whole
  PROVE  (amount * part) \div whole \in 0..amount
<1> DEFINE product == amount * part
           quotient == product \div whole
<1>1. product \in Nat /\ product <= amount * whole
  BY MulNat, MulMonotone
<1> HIDE DEF product
<1>2. quotient \in Nat /\ whole * quotient <= product
  BY <1>1, DivRoundsDown
<1> HIDE DEF quotient
<1>3. whole * quotient <= whole * amount
  <2>1. whole * quotient \in Int /\ amount * whole = whole * amount /\ whole * amount \in Int
    BY <1>2
  <2> QED BY <1>1, <1>2, <2>1
<1>4. quotient <= amount
  BY <1>2, <1>3, MulCancels
<1>5. quotient \in 0..amount
  BY <1>2, <1>4
<1> QED BY <1>5 DEF quotient, product

\* The first fees are within the maximum, and nothing lies idle yet.
LEMMA CoveredInit ==
  ASSUME Init
  PROVE  Covered
<1>1. HarvestState /\ EmissionState
  BY SharedInit, EmissionInit DEF Shared
<1>2. fees = InitialFees /\ inBooster = 0
  BY DEF Init
<1>3. TotalFees <= FeeDenominator
  <2> DEFINE total == InitialFees.lock + InitialFees.staker + InitialFees.caller + InitialFees.platform
  <2>1. total <= MaxFees /\ MaxFees \in Nat /\ MaxFees <= FeeDenominator /\ FeeDenominator \in Nat
    BY HarvestAssumption
  <2>2. TotalFees = total /\ total \in Int
    BY <1>2, HarvestAssumption DEF TotalFees
  <2> HIDE DEF total
  <2> QED BY <2>1, <2>2
<1> QED BY <1>1, <1>2, <1>3 DEF Covered

\* A harvest leaves no negative amount anywhere: neither idle, nor as a share.
LEMMA EarmarkAdds ==
  ASSUME Covered, NEW p \in Pools, NEW minterWorks \in BOOLEAN, NEW stashWorks \in BOOLEAN, NEW locker \in LockerStates,
         NEW streaming \in BOOLEAN, EarmarkRewards(p, minterWorks, stashWorks, locker, streaming)
  PROVE  inBooster' \in Nat /\ feesPaid <= feesPaid' /\ \A r \in Contracts : given[r] <= given'[r]
<1> DEFINE balances == IF minterWorks THEN ClaimCrv(p) ELSE ClaimFailed
           crvBal == balances.booster - (inBooster + inProxy)
           lock == Share(crvBal, fees.lock)
           staker == Share(crvBal, fees.staker)
           call == Share(crvBal, fees.caller)
           toPlatform == IF treasurySet THEN Share(crvBal, fees.platform) ELSE 0
           idle == IF treasurySet THEN inBooster + inProxy ELSE 0
           rest == crvBal - lock - staker - call - toPlatform
<1>1. HarvestState /\ inBooster \in Nat /\ TotalFees <= FeeDenominator
  BY DEF Covered
<1>2. /\ crvBal >= 0
      /\ inBooster' = balances.booster - crvBal - idle
      /\ feesPaid' = feesPaid + call + toPlatform
      /\ given' = [given EXCEPT ![p] = @ + crvBal - lock - staker - call - toPlatform,
                                ![LockRewards] = @ + lock,
                                ![StakerRewards] = @ + staker]
  BY DEF EarmarkRewards, Distribute, IdleBefore
<1>3. accrued[p] \in Nat /\ inProxy \in Nat /\ balances.booster \in Int
  <2>1. accrued[p] \in Nat /\ inProxy \in Nat
    BY <1>1 DEF HarvestState
  <2> QED BY <1>1, <2>1 DEF ClaimCrv, ClaimFailed
<1>4. crvBal \in Nat /\ balances.booster - crvBal = inBooster + inProxy
  BY <1>1, <1>2, <1>3
<1> HIDE DEF crvBal, balances
<1>5. inBooster' \in Nat
  BY <1>1, <1>2, <1>3, <1>4
<1>6. /\ fees.lock \in Nat /\ fees.staker \in Nat /\ fees.caller \in Nat /\ fees.platform \in Nat
      /\ fees.lock + fees.staker + fees.caller + fees.platform <= FeeDenominator
  BY <1>1 DEF HarvestState, TotalFees
<1>7. /\ lock \in Nat /\ staker \in Nat /\ call \in Nat /\ Share(crvBal, fees.platform) \in Nat
      /\ lock + staker + call + Share(crvBal, fees.platform) <= crvBal
  BY <1>4, <1>6, SharesFit
<1>8. toPlatform \in Nat /\ lock + staker + call + toPlatform <= crvBal
  BY <1>4, <1>7
<1> HIDE DEF lock, staker, call, toPlatform, idle
<1>9. rest \in Nat
  BY <1>4, <1>7, <1>8
<1>10. feesPaid <= feesPaid'
  <2>1. feesPaid \in Int
    BY <1>1 DEF HarvestState
  <2> QED BY <1>2, <1>7, <1>8, <2>1
<1>11. ASSUME NEW r \in Contracts PROVE given[r] <= given'[r]
  <2>1. given \in [Contracts -> Int]
    BY <1>1 DEF HarvestState
  <2>2. /\ given[r] \in Int
        /\ given'[p] = given[p] + crvBal - lock - staker - call - toPlatform
        /\ given'[LockRewards] = given[LockRewards] + lock
        /\ given'[StakerRewards] = given[StakerRewards] + staker
        /\ r \notin {p, LockRewards, StakerRewards} => given'[r] = given[r]
    BY <1>2, <2>1, ContractsApart
  <2>3. CASE r = p
    <3>1. given'[r] = given[r] + rest
      BY <1>4, <1>7, <1>8, <2>2, <2>3
    <3> HIDE DEF rest
    <3> QED BY <1>9, <2>2, <3>1
  <2>4. CASE r = LockRewards
    BY <1>7, <2>2, <2>4
  <2>5. CASE r = StakerRewards
    BY <1>7, <2>2, <2>5
  <2>6. CASE r \notin {p, LockRewards, StakerRewards}
    BY <2>2, <2>6
  <2> QED BY <2>3, <2>4, <2>5, <2>6
<1> QED BY <1>5, <1>10, <1>11

\* What the bridge brings is divided without a debt to either side.
LEMMA L2FeesAdd ==
  ASSUME Covered, NEW amount \in Accruals, NEW locker \in LockerStates, NEW streaming \in BOOLEAN,
         DistributeL2Fees(amount, locker, streaming)
  PROVE  \A r \in Contracts : given[r] <= given'[r]
<1> DEFINE lock == (amount * fees.lock) \div (fees.lock + fees.staker)
<1>1. HarvestState /\ EmissionState /\ amount \in Nat
  BY HarvestAssumption DEF Covered
<1>2. lock \in 0..amount
  <2>1. /\ fees.lock \in Nat /\ fees.staker \in Nat
        /\ fees.lock + fees.staker \in Nat /\ fees.lock + fees.staker > 0
    BY <1>1, HarvestAssumption DEF HarvestState, EmissionState
  <2>2. fees.lock <= fees.lock + fees.staker
    BY <2>1
  <2> QED BY <1>1, <2>1, <2>2, PartFits
<1>3. given' = [given EXCEPT ![LockRewards] = @ + lock, ![StakerRewards] = @ + amount - lock]
  BY DEF DistributeL2Fees
<1> HIDE DEF lock
<1>4. ASSUME NEW r \in Contracts PROVE given[r] <= given'[r]
  <2>1. given \in [Contracts -> Int]
    BY <1>1 DEF HarvestState
  <2>2. /\ given[r] \in Int
        /\ given'[LockRewards] = given[LockRewards] + lock
        /\ given'[StakerRewards] = given[StakerRewards] + amount - lock
        /\ r \notin {LockRewards, StakerRewards} => given'[r] = given[r]
    BY <1>3, <2>1, ContractsApart
  <2>3. CASE r = LockRewards
    BY <1>2, <2>2, <2>3
  <2>4. CASE r = StakerRewards
    BY <1>1, <1>2, <2>2, <2>4
  <2>5. CASE r \notin {LockRewards, StakerRewards}
    BY <2>2, <2>5
  <2> QED BY <2>3, <2>4, <2>5
<1> QED BY <1>4

\* No step takes anything back, or leaves the Booster with less than nothing.
LEMMA OnlyAdds ==
  ASSUME Covered, [Next]_vars
  PROVE  inBooster' \in Nat /\ feesPaid <= feesPaid' /\ \A r \in Contracts : given[r] <= given'[r]
<1> USE DEF vars, tokenVars, settingVars, liqVars, l2Vars
<1> DEFINE Adds == inBooster' \in Nat /\ feesPaid <= feesPaid' /\ \A r \in Contracts : given[r] <= given'[r]
<1>1. /\ inBooster \in Nat /\ inProxy \in Nat /\ feesPaid \in Int
      /\ \A r \in Contracts : given[r] \in Int
  BY DEF Covered, HarvestState
<1>2. ASSUME inBooster' \in Nat, UNCHANGED <<given, feesPaid>> PROVE Adds
  BY <1>1, <1>2
<1>3. ASSUME UNCHANGED <<inBooster, given, feesPaid>> PROVE Adds
  BY <1>1, <1>2, <1>3
<1>4. CASE UNCHANGED vars
  BY <1>3, <1>4
<1>5. ASSUME NEW p \in Pools, NEW minterWorks \in BOOLEAN, NEW stashWorks \in BOOLEAN, NEW locker \in LockerStates,
             NEW streaming \in BOOLEAN, EarmarkRewards(p, minterWorks, stashWorks, locker, streaming)
      PROVE  Adds
  BY <1>5, EarmarkAdds
<1>6. ASSUME NEW p \in Pools, NEW amount \in Accruals, Accrue(p, amount) PROVE Adds
  BY <1>3, <1>6 DEF Accrue
<1>7. ASSUME NEW p \in Pools, ShutdownPool(p) PROVE Adds
  BY <1>3, <1>7 DEF ShutdownPool
<1>8. ASSUME NEW amount \in Accruals, EarmarkFees(amount) PROVE Adds
  <2>1. amount \in Nat /\ given \in [Contracts -> Int]
    BY HarvestAssumption DEF Covered, HarvestState
  <2>2. given' = [given EXCEPT ![LockRewards] = @ + amount] /\ inBooster' = inBooster + inProxy
        /\ feesPaid' = feesPaid
    BY <1>8 DEF EarmarkFees
  <2>3. \A r \in Contracts : given[r] <= given'[r]
    BY <2>1, <2>2
  <2> QED BY <1>1, <2>2, <2>3
<1>9. ASSUME NEW amount \in Accruals, NEW locker \in LockerStates, NEW streaming \in BOOLEAN,
             DistributeL2Fees(amount, locker, streaming)
      PROVE  Adds
  <2>1. \A r \in Contracts : given[r] <= given'[r]
    BY <1>9, L2FeesAdd
  <2>2. inBooster' = inBooster /\ feesPaid' = feesPaid
    BY <1>9 DEF DistributeL2Fees
  <2> QED BY <1>1, <2>1, <2>2
<1>10. ASSUME NEW r \in DOMAIN multiplier, NEW amount \in ClaimSizes, RewardClaimed(r, amount)
       PROVE  Adds
  BY <1>3, <1>10 DEF RewardClaimed
<1>11. ASSUME NEW r \in DOMAIN multiplier, NEW m \in Multipliers, SetRewardMultiplier(r, m)
       PROVE  Adds
  BY <1>3, <1>11 DEF SetRewardMultiplier
<1>12. ASSUME NEW f \in FeeSettings, SetFees(f) PROVE Adds
  BY <1>3, <1>12 DEF SetFees
<1>13. CASE Gift
  BY <1>1, <1>2, <1>13 DEF Gift
<1>14. CASE MinterMint \/ SetTreasury \/ ShutdownSystem \/ UpdateOperator \/ LockersChange \/ NextWeek
  BY <1>3, <1>14 DEF MinterMint, SetTreasury, ShutdownSystem, UpdateOperator, LockersChange, NextWeek
<1> QED BY <1>4, <1>5, <1>6, <1>7, <1>8, <1>9, <1>10, <1>11, <1>12, <1>13, <1>14 DEF Next

\* Only setFees changes the fees, and keeps them within MaxFees.
LEMMA FeesFit ==
  ASSUME Covered, [Next]_vars
  PROVE  TotalFees' <= FeeDenominator
<1>1. CASE UNCHANGED fees
  BY <1>1 DEF Covered, TotalFees
<1>2. CASE fees' # fees
  <2>1. PICK f \in FeeSettings : SetFees(f)
    BY <1>2 DEF Next, EarmarkRewards, Accrue, ShutdownPool, EarmarkFees, DistributeL2Fees, RewardClaimed,
                SetRewardMultiplier, MinterMint, SetTreasury, ShutdownSystem, UpdateOperator, Gift,
                LockersChange, NextWeek, vars, settingVars
  <2> DEFINE total == f.lock + f.staker + f.caller + f.platform
  <2>2. total <= MaxFees /\ TotalFees' = total /\ total \in Int
    BY <2>1, HarvestAssumption DEF SetFees, TotalFees
  <2>3. MaxFees \in Nat /\ MaxFees <= FeeDenominator /\ FeeDenominator \in Nat
    BY HarvestAssumption
  <2> HIDE DEF total
  <2> QED BY <2>2, <2>3
<1> QED BY <1>1, <1>2

\* The harvest of every pool stays covered.
LEMMA CoveredStep ==
  ASSUME Shared, Covered, [Next]_vars
  PROVE  Shared' /\ Covered'
<1>1. EmissionState
  BY DEF Covered
<1>2. Shared' /\ EmissionState'
  BY <1>1, SharedStep, EmissionStep
<1> QED BY <1>2, OnlyAdds, FeesFit DEF Shared, Covered

\* What HarvestCovered says of the fees and the claims follows.
LEMMA CoveredSuffices ==
  ASSUME Covered
  PROVE  HarvestCovered
<1>1. /\ inBooster \in Nat /\ inProxy \in Nat
      /\ fees.lock \in Nat /\ fees.staker \in Nat /\ fees.caller \in Nat /\ fees.platform \in Nat
      /\ fees.platform + fees.lock + fees.caller + fees.staker <= FeeDenominator
  BY HarvestAssumption DEF Covered, HarvestState, TotalFees
<1>2. ASSUME NEW p \in Pools
      PROVE  accrued[p] \in Nat /\ ClaimCrv(p).booster - IdleBefore = accrued[p]
  <2>1. accrued[p] \in Nat
    BY DEF Covered, HarvestState
  <2> QED BY <1>1, <2>1 DEF ClaimCrv, IdleBefore
<1>3. ASSUME NEW amount \in Nat
      PROVE  Share(amount, fees.platform) + Share(amount, fees.lock) + Share(amount, fees.caller)
               + Share(amount, fees.staker) \in 0..amount
  <2> DEFINE a == Share(amount, fees.platform)
             b == Share(amount, fees.lock)
             c == Share(amount, fees.caller)
             d == Share(amount, fees.staker)
  <2>1. a \in Nat /\ b \in Nat /\ c \in Nat /\ d \in Nat /\ a + b + c + d <= amount
    BY <1>1, SharesFit
  <2> HIDE DEF a, b, c, d
  <2>2. a + b + c + d \in 0..amount
    BY <2>1
  <2> QED BY <2>2 DEF a, b, c, d
<1> QED BY <1>1, <1>2, <1>3 DEF HarvestCovered

\* A harvest can always pay the shares it takes off the amount claimed
\* (Booster.sol:628-695), so that of its checked subtractions only the one after
\* a claim that failed can refuse it, for all fees, amounts and idle balances.
THEOREM HarvestIsCovered == Spec => []HarvestCovered
<1>1. Init => Shared /\ Covered
  BY SharedInit, CoveredInit
<1>2. Shared /\ Covered /\ [Next]_vars => Shared' /\ Covered'
  BY CoveredStep
<1>3. Covered => HarvestCovered
  BY CoveredSuffices
<1> QED BY <1>1, <1>2, <1>3, PTL DEF Spec

\* No step lowers what a reward contract, the callers or the platform were given
\* (Booster.sol:660-695, 713-786).
THEOREM GivenForGood == Spec => NothingTakenBack
<1>1. Init => Shared /\ Covered
  BY SharedInit, CoveredInit
<1>2. Shared /\ Covered /\ [Next]_vars => Shared' /\ Covered'
  BY CoveredStep
<1>3. Covered /\ [Next]_vars =>
        [/\ \A r \in Contracts : given[r] <= given'[r]
         /\ feesPaid <= feesPaid']_vars
  BY OnlyAdds
<1> QED BY <1>1, <1>2, <1>3, PTL DEF Spec, NothingTakenBack
==================================================================================
