--------------------------------- MODULE Harvest ---------------------------------
(***************************************************************************)
(* The way of the rewards: Booster.earmarkRewards, earmarkFees,             *)
(* distributeL2Fees and rewardClaimed, VoterProxy.claimCrv and claimFees,   *)
(* and the LIQ minted for rewards by Liq.mint and for its owner by          *)
(* LiqMinter.mint.  Anyone may send oLIT to the Booster or to the           *)
(* VoterProxy, and the minter of oLIT may fail (claimCrv catches it).       *)
(*                                                                          *)
(* The reward contracts are cumulative: given counts what was queued with   *)
(* each, claimed what its holders took.  Whether a stream is running there  *)
(* decides what they refuse, and in the locker what waits there: both are   *)
(* parameters of the actions (see Takes).                                   *)
(***************************************************************************)
EXTENDS Integers, Sums

CONSTANTS
  NumPools,           \* pools 1..NumPools
  Accruals,           \* what a gauge, the fee distributor or the bridge yields at once
  Yield,              \* bound on all of it together
  Gifts,              \* bound on the oLIT sent to the Booster and the VoterProxy
  ClaimSizes,         \* what is claimed from a reward contract at once
  FeeSettings,        \* what the fee manager may set; the first fees are InitialFees
  InitialFees,
  FeeDenominator,     \* 10000
  MaxFees,            \* 4000
  Multipliers,        \* LIQ per oLIT claimed that the fee manager may set
  EmissionsMax,       \* 5e25
  TotalCliffs,        \* 500
  CliffSlope,         \* 4
  CliffBase,          \* 70
  L2Cap,              \* 70000e18
  RewardCap,          \* the locker's 1e25
  StreamCap,          \* its bound of 1e20 on the rate, times the duration
  LockerStates,       \* what an amount may meet in the locker, see LockerTakes
  InflationProtection,\* weeks; 156
  MaxWeek             \* bound on the clock

Pools == 1..NumPools
LockRewards == NumPools + 1       \* the pool of the liqLIT stakers
StakerRewards == NumPools + 2     \* the LIQ locker
Contracts == 1..NumPools + 2
ReductionPerCliff == EmissionsMax \div TotalCliffs

ASSUME HarvestAssumption ==
  /\ NumPools \in Nat
  /\ FeeDenominator \in Nat \ {0} /\ TotalCliffs \in Nat \ {0} /\ ReductionPerCliff \in Nat \ {0}
  /\ EmissionsMax \in Nat /\ CliffSlope \in Nat \ {0} /\ CliffBase \in Nat
  /\ Accruals \subseteq Nat /\ ClaimSizes \subseteq Nat /\ Multipliers \subseteq Nat
  /\ \A f \in FeeSettings \cup {InitialFees} :
       {f.lock, f.staker, f.caller, f.platform} \subseteq Nat /\ f.lock + f.staker \in 1..FeeDenominator
  /\ RewardCap \in Nat /\ StreamCap \in Nat
  /\ LockerStates \subseteq [queued : Nat, left : Nat, waits : BOOLEAN, settles : BOOLEAN]
  /\ MaxFees \in Nat /\ MaxFees <= FeeDenominator
  /\ InitialFees.lock + InitialFees.staker + InitialFees.caller + InitialFees.platform <= MaxFees

VARIABLES
  accrued,            \* pool -> what its gauge owes to the VoterProxy
  inBooster, inProxy, \* oLIT that lies idle there
  given, claimed,     \* reward contract -> oLIT queued with it, paid out by it
  feesPaid,           \* oLIT paid at once: to the callers and as platform fee
  yielded, gifts,     \* what was harvested so far, what was sent by strangers
  fees, treasurySet, multiplier,
  closed, isShutdown,
  lockedEnough,       \* lockedSupply >= 1e20 in the locker
  liqSupply,          \* beyond the initial mint
  minterMinted,
  minting,            \* the Booster is LIQ's operator
  l2FeesHistory, week

tokenVars == <<accrued, inBooster, inProxy, given, claimed, feesPaid, yielded, gifts>>
settingVars == <<fees, treasurySet, multiplier, closed, isShutdown, lockedEnough>>
liqVars == <<liqSupply, minterMinted, minting>>
l2Vars == <<l2FeesHistory, week>>
vars == <<tokenVars, settingVars, liqVars, l2Vars>>

----------------------------------------------------------------------------------
(* LIQ *)

\* Slip: what LIQ's minter minted counts as emitted for rewards.
EmittedOfSupply == liqSupply

EmissionsMinted == liqSupply - minterMinted
Cliff == EmissionsMinted \div ReductionPerCliff

\* LIQ per TotalCliffs of reward at the present cliff.
EmissionRate ==
  IF Cliff < TotalCliffs THEN (TotalCliffs - Cliff) \div CliffSlope + CliffBase ELSE 0

\* Liq.mint: nothing for another caller than the operator, and no error either.
Minted(amount) ==
  IF ~minting THEN 0
  ELSE AtMost((amount * EmissionRate) \div TotalCliffs, EmissionsMax - EmissionsMinted)

\* LiqMinter.mint, by its owner.
MinterMint ==
  /\ week > InflationProtection
  /\ minterMinted = 0                 \* once, to bound the supply
  /\ minterMinted' = ReductionPerCliff + 1
  /\ liqSupply' = liqSupply + minterMinted'
  /\ UNCHANGED <<tokenVars, settingVars, minting, l2Vars>>

\* Booster.rewardClaimed, called by a pool or by LockRewards as it pays.
RewardClaimed(r, amount) ==
  /\ r # StakerRewards
  /\ claimed[r] + amount <= given[r]
  /\ claimed' = [claimed EXCEPT ![r] = @ + amount]
  /\ liqSupply' = liqSupply + Minted(amount * multiplier[r])
  /\ UNCHANGED <<accrued, inBooster, inProxy, given, feesPaid, yielded, gifts,
                 settingVars, minterMinted, minting, l2Vars>>

----------------------------------------------------------------------------------
(* Harvesting *)

\* Slip: what lies in the VoterProxy already passes for claimed.
IdleInBooster == inBooster

\* Slip: the VoterProxy passes on only what was minted for this call.
ClaimJustMinted(p) == [booster |-> inBooster + accrued[p], proxy |-> inProxy]

IdleBefore == inBooster + inProxy

\* VoterProxy.claimCrv: all its oLIT, or nothing when the minter fails.
ClaimCrv(p) == [booster |-> inBooster + inProxy + accrued[p], proxy |-> 0]
ClaimFailed == [booster |-> inBooster, proxy |-> inProxy]

Share(amount, part) == (amount * part) \div FeeDenominator

\* queueNewRewards of the locker.  It takes no empty amount and none that makes
\* the queue too large; a new stream must not be too fast, and needs enough LIQ.
\* What the amount meets there is other oLIT in the queue, oLIT left to stream,
\* a ratio by which it has to wait or not, and earnings per LIQ that fit their
\* type (settles) or not: the locker's own state, which others fill as well.
LockerTakes(amount, locker) ==
  /\ amount > 0
  /\ locker.queued + amount < RewardCap
  /\ \/ locker.waits
     \/ lockedEnough /\ locker.settles /\ locker.queued + amount + locker.left < StreamCap

\* And of a pool, which takes an empty amount only between streams.
Takes(lock, staker, locker, streaming) ==
  LockerTakes(staker, locker) /\ (lock > 0 \/ ~streaming)

\* _earmarkRewards once the oLIT has been claimed.  The stash's calls concern
\* other tokens, but when one of them fails the harvest does.
Distribute(p, balances, stashWorks, locker, streaming) ==
  LET before == IdleBefore
      crvBal == balances.booster - before
      lock == Share(crvBal, fees.lock)
      staker == Share(crvBal, fees.staker)
      call == Share(crvBal, fees.caller)
      toPlatform == IF treasurySet THEN Share(crvBal, fees.platform) ELSE 0
      idle == IF treasurySet THEN before ELSE 0
  IN  /\ crvBal >= 0 /\ stashWorks
      /\ crvBal > 0 => Takes(lock, staker, locker, streaming)
      /\ inBooster' = balances.booster - crvBal - idle
      /\ inProxy' = balances.proxy
      /\ feesPaid' = feesPaid + call + toPlatform
      /\ given' = [given EXCEPT ![p] = @ + crvBal - lock - staker - call - toPlatform,
                                ![LockRewards] = @ + lock,
                                ![StakerRewards] = @ + staker]

EarmarkRewards(p, minterWorks, stashWorks, locker, streaming) ==
  LET balances == IF minterWorks THEN ClaimCrv(p) ELSE ClaimFailed
  IN  /\ ~isShutdown /\ p \notin closed
      /\ Distribute(p, balances, stashWorks, locker, streaming)
      /\ yielded' = IF minterWorks THEN yielded + accrued[p] ELSE yielded
      /\ accrued' = IF minterWorks THEN [accrued EXCEPT ![p] = 0] ELSE accrued
      /\ UNCHANGED <<claimed, gifts, settingVars, liqVars, l2Vars>>

\* earmarkFees for oLIT; the other fee tokens take the same way to pools of
\* their own.  What lay idle in the VoterProxy moves to the Booster.
EarmarkFees(amount) ==
  /\ ~isShutdown
  /\ inBooster' = inBooster + inProxy
  /\ inProxy' = 0
  /\ given' = [given EXCEPT ![LockRewards] = @ + amount]
  /\ yielded' = yielded + amount
  /\ UNCHANGED <<accrued, claimed, feesPaid, gifts, settingVars, liqVars, l2Vars>>

\* distributeL2Fees, by the bridge delegate with its own oLIT, also after a
\* shutdown.
DistributeL2Fees(amount, locker, streaming) ==
  LET incentives == fees.lock + fees.staker
      totalFarmed == (amount * FeeDenominator) \div incentives
      lock == (amount * fees.lock) \div incentives
  IN  /\ totalFarmed >= amount         \* checked subtraction
      /\ l2FeesHistory[week] + totalFarmed <= L2Cap
      /\ Takes(lock, amount - lock, locker, streaming)
      /\ l2FeesHistory' = [l2FeesHistory EXCEPT ![week] = @ + totalFarmed]
      /\ given' = [given EXCEPT ![LockRewards] = @ + lock, ![StakerRewards] = @ + amount - lock]
      /\ yielded' = yielded + amount
      /\ liqSupply' = liqSupply + Minted(totalFarmed - amount)
      /\ UNCHANGED <<accrued, inBooster, inProxy, claimed, feesPaid, gifts,
                     settingVars, minterMinted, minting, week>>

----------------------------------------------------------------------------------
(* Settings *)

SetFees(f) ==
  /\ f.lock + f.staker + f.caller + f.platform <= MaxFees
  /\ f # fees /\ fees' = f
  /\ UNCHANGED <<tokenVars, treasurySet, multiplier, closed, isShutdown, lockedEnough, liqVars, l2Vars>>

SetTreasury ==
  /\ treasurySet' = ~treasurySet
  /\ UNCHANGED <<tokenVars, fees, multiplier, closed, isShutdown, lockedEnough, liqVars, l2Vars>>

SetRewardMultiplier(r, m) ==
  /\ multiplier' = [multiplier EXCEPT ![r] = m]
  /\ UNCHANGED <<tokenVars, fees, treasurySet, closed, isShutdown, lockedEnough, liqVars, l2Vars>>

ShutdownPool(p) ==
  /\ closed' = closed \cup {p}
  /\ UNCHANGED <<tokenVars, fees, treasurySet, multiplier, isShutdown, lockedEnough, liqVars, l2Vars>>

ShutdownSystem ==
  /\ closed = Pools
  /\ isShutdown' = TRUE
  /\ UNCHANGED <<tokenVars, fees, treasurySet, multiplier, closed, lockedEnough, liqVars, l2Vars>>

\* VoterProxy.setOperator to a new Booster, and Liq.updateOperator.
UpdateOperator ==
  /\ isShutdown
  /\ minting' = FALSE
  /\ UNCHANGED <<tokenVars, settingVars, liqSupply, minterMinted, l2Vars>>

----------------------------------------------------------------------------------
(* What happens outside *)

Accrue(p, amount) ==
  /\ yielded + SumTo(accrued, NumPools) + amount <= Yield
  /\ accrued' = [accrued EXCEPT ![p] = @ + amount]
  /\ UNCHANGED <<inBooster, inProxy, given, claimed, feesPaid, yielded, gifts,
                 settingVars, liqVars, l2Vars>>

\* oLIT sent to one of the two by anyone.
Gift ==
  /\ gifts < Gifts
  /\ gifts' = gifts + 1
  /\ \/ inBooster' = inBooster + 1 /\ UNCHANGED inProxy
     \/ inProxy' = inProxy + 1 /\ UNCHANGED inBooster
  /\ UNCHANGED <<accrued, given, claimed, feesPaid, yielded,
                 settingVars, liqVars, l2Vars>>

LockersChange ==
  /\ lockedEnough' = ~lockedEnough
  /\ UNCHANGED <<tokenVars, fees, treasurySet, multiplier, closed, isShutdown, liqVars, l2Vars>>

NextWeek ==
  /\ week < MaxWeek
  /\ week' = week + 1
  /\ UNCHANGED <<tokenVars, settingVars, liqVars, l2FeesHistory>>

Init ==
  /\ accrued = [p \in Pools |-> 0]
  /\ inBooster = 0 /\ inProxy = 0
  /\ given = [r \in Contracts |-> 0]
  /\ claimed = given
  /\ feesPaid = 0 /\ yielded = 0 /\ gifts = 0
  /\ fees = InitialFees
  /\ treasurySet = FALSE
  /\ multiplier = [r \in Contracts \ {StakerRewards} |-> 1]
  /\ closed = {} /\ isShutdown = FALSE /\ lockedEnough = FALSE
  /\ liqSupply = 0 /\ minterMinted = 0 /\ minting = TRUE
  /\ l2FeesHistory = [w \in 0..MaxWeek |-> 0] /\ week = 0

Next ==
  \/ \E p \in Pools :
       \/ \E minterWorks, stashWorks, streaming \in BOOLEAN, locker \in LockerStates :
            EarmarkRewards(p, minterWorks, stashWorks, locker, streaming)
       \/ \E amount \in Accruals : Accrue(p, amount)
       \/ ShutdownPool(p)
  \/ \E amount \in Accruals :
       /\ yielded + SumTo(accrued, NumPools) + amount <= Yield
       /\ \/ EarmarkFees(amount)
          \/ \E locker \in LockerStates, streaming \in BOOLEAN : DistributeL2Fees(amount, locker, streaming)
  \/ \E r \in DOMAIN multiplier :
       \/ \E amount \in ClaimSizes : RewardClaimed(r, amount)
       \/ \E m \in Multipliers : SetRewardMultiplier(r, m)
  \/ \E f \in FeeSettings : SetFees(f)
  \/ MinterMint \/ SetTreasury \/ ShutdownSystem \/ UpdateOperator
  \/ Gift \/ LockersChange \/ NextWeek

Spec == Init /\ [][Next]_vars

----------------------------------------------------------------------------------
(* Properties *)

\* What the reward contracts, the callers and the platform got is what was
\* harvested: nothing of a harvest stays behind, and oLIT that lay idle in the
\* Booster or the VoterProxy is never shared out as if it had been claimed
\* (Booster.sol:628-631, 639), whatever failed or was sent in between.
SharedWasHarvested == SumTo(given, NumPools + 2) + feesPaid = yielded

\* While the system runs and the stash of an open pool accepts its calls, a
\* harvest of the pool goes through, whatever lies idle and whoever set the fees,
\* if the liqLIT stakers' share is not empty and the locker takes its own
\* (LiqLocker.sol:903, 908, 941, 942: enough LIQ locked, a share that is not empty,
\* queue and rate below their limits).  A failing oLIT minter does not stop the
\* pool's other rewards either, except while oLIT lies idle in the VoterProxy.
EarmarkOpen ==
  \A p \in Pools \ closed, locker \in LockerStates :
    ~isShutdown =>
      /\ inProxy = 0 => ENABLED EarmarkRewards(p, FALSE, TRUE, locker, TRUE)
      /\ Share(accrued[p], fees.lock) > 0 /\ LockerTakes(Share(accrued[p], fees.staker), locker)
           => ENABLED EarmarkRewards(p, TRUE, TRUE, locker, TRUE)

\* The LIQ minted for rewards ends at EMISSIONS_MAX_SUPPLY, over all claims,
\* multipliers and L2 fees, and what LiqMinter mints is on top of it.
EmissionsWithinMax == liqSupply - minterMinted \in 0..EmissionsMax

\* What LIQ's minter mints after the inflation protection takes nothing from
\* the emission for rewards: the next claim is paid at the rate it would have
\* been paid at (Liq.sol:94 subtracts minterMinted).
MinterLeavesEmissions == [][minterMinted' # minterMinted => EmissionRate' = EmissionRate]_vars
==================================================================================
